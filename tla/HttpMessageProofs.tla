--------------------------- MODULE HttpMessageProofs ---------------------------
(***************************************************************************)
(* What parse() returns for every message and every piece of bytes: its    *)
(* type, what it keeps for the next call, what it makes of a message in    *)
(* two pieces, and that what to_bytes() writes is parsed back.  The facts  *)
(* that HttpFragmentsProofs and ReverseProxyProofs rest on.                *)
(***************************************************************************)
EXTENDS HttpMessage, SequenceTheorems, FiniteSetTheorems, WellFoundedInduction,
        TLAPS

-----------------------------------------------------------------------------
(* Smallest and largest members.                                            *)

LEMMA MinNat ==
  ASSUME NEW S \in SUBSET Nat, S # {}
  PROVE  /\ Min(S) \in S
         /\ \A y \in S : Min(S) <= y
<1>1. PICK x \in S : \A y \in S : ~ (<<y, x>> \in OpToRel(<, Nat))
  BY NatLessThanWellFounded, WFMin
<1>2. \A y \in S : x =< y
  <2> TAKE y \in S
  <2>1. ~ (<<y, x>> \in OpToRel(<, Nat))
    BY <1>1
  <2>2. ~ (y < x)
    BY <2>1 DEF OpToRel
  <2> QED
    BY <2>2
<1> QED
  BY <1>2 DEF Min

LEMMA MaxUpTo ==
  ASSUME NEW n \in Nat, NEW S \in SUBSET (0 .. n), S # {}
  PROVE  /\ Max(S) \in S
         /\ \A y \in S : y <= Max(S)
<1> DEFINE T == {n - y : y \in S}
<1>1. T \subseteq Nat
  OBVIOUS
<1>2. T # {}
  OBVIOUS
<1>3. /\ Min(T) \in T
      /\ \A y \in T : Min(T) <= y
  BY <1>1, <1>2, MinNat
<1>4. n - Min(T) \in S /\ \A y \in S : n - Min(T) >= y
  BY <1>3
<1> QED
  BY <1>4 DEF Max

-----------------------------------------------------------------------------
(* Pieces of byte strings.                                                  *)

LEMMA Constants ==
  /\ \A w \in {SP, COLON, CR, LF, "GET", "200", "gzip"} : w \in Byte
  /\ <<>> \in Bytes
BY EmptySeq, WordAssumption DEF Byte, Bytes, Delimiter

LEMMA Piece ==
  ASSUME NEW s \in Bytes, NEW i \in Nat \ {0}, NEW j \in Int, j <= Len(s)
  PROVE  SubSeq(s, i, j) \in Bytes
<1>1. \A k \in i .. j : s[k] \in Byte
  BY LenProperties, ElementOfSeq DEF Bytes
<1> QED
  BY <1>1, SubSeqProperties DEF Bytes

LEMMA AfterType ==
  ASSUME NEW s \in Bytes, NEW i \in Nat
  PROVE  After(s, i) \in Bytes
BY Piece, LenProperties DEF After, Bytes

LEMMA Marks ==
  ASSUME NEW s \in Bytes
  PROVE  /\ Len(s) \in Nat
         /\ LineEnds(s) \subseteq 1 .. Len(s)
         /\ Spaces(s) \subseteq 1 .. Len(s)
         /\ Colons(s) \subseteq 1 .. Len(s)
         /\ Solid(s) \subseteq 1 .. Len(s)
BY LenProperties DEF Bytes, LineEnds, Spaces, Colons, Solid

LEMMA LineAtType ==
  ASSUME NEW s \in Bytes, NEW i \in LineEnds(s)
  PROVE  LineAt(s, i) \in Bytes
<1> DEFINE S == {0} \cup {j \in LineEnds(s) : j < i}
<1>1. S \in SUBSET (0 .. Len(s)) /\ S # {} /\ Len(s) \in Nat
  BY Marks
<1>2. Max(S) \in 0 .. Len(s)
  BY <1>1, MaxUpTo
<1>3. SubSeq(s, Max(S) + 1, i) \in Bytes
  <2>1. i \in Int /\ i <= Len(s)
    BY Marks
  <2>2. Max(S) + 1 \in Nat \ {0}
    BY <1>2
  <2> HIDE DEF S
  <2> QED
    BY <2>1, <2>2, Piece
<1> QED
  BY <1>3 DEF LineAt

LEMMA FirstLineType ==
  ASSUME NEW s \in Bytes
  PROVE  /\ FirstLine(s) \in Bytes
         /\ Len(FirstLine(s)) \in Nat
<1>1. CASE LineEnds(s) = {}
  BY <1>1, Piece, Marks, LenProperties DEF FirstLine, Bytes
<1>2. CASE LineEnds(s) # {}
  <2>1. Min(LineEnds(s)) \in 1 .. Len(s)
    BY <1>2, Marks, MinNat
  <2> QED
    BY <1>2, <2>1, Piece, Marks, LenProperties DEF FirstLine, Bytes
<1> QED
  BY <1>1, <1>2

LEMMA PartialLineType ==
  ASSUME NEW s \in Bytes
  PROVE  /\ PartialLine(s) \in Bytes
         /\ Max({0} \cup LineEnds(s)) \in 0 .. Len(s)
<1>1. {0} \cup LineEnds(s) \in SUBSET (0 .. Len(s)) /\ Len(s) \in Nat
  BY Marks
<1>2. Max({0} \cup LineEnds(s)) \in 0 .. Len(s)
  BY <1>1, MaxUpTo
<1> QED
  BY <1>2, AfterType DEF PartialLine

LEMMA StripType ==
  ASSUME NEW s \in Bytes
  PROVE  Rstrip(s) \in Bytes /\ Strip(s) \in Bytes
<1>1. /\ {0} \cup Solid(s) \in SUBSET (0 .. Len(s))
      /\ {Len(s) + 1} \cup Solid(s) \in SUBSET (1 .. Len(s) + 1)
      /\ Len(s) \in Nat
  BY Marks
<1>2. Max({0} \cup Solid(s)) \in 0 .. Len(s)
  BY <1>1, MaxUpTo
<1>3. Min({Len(s) + 1} \cup Solid(s)) \in 1 .. Len(s) + 1
  BY <1>1, MinNat
<1> QED
  BY <1>1, <1>2, <1>3, Piece DEF Rstrip, Strip

LEMMA HeaderType ==
  ASSUME NEW line \in Bytes, Colons(line) # {}
  PROVE  HeaderName(line) \in Bytes /\ HeaderValue(line) \in Bytes
<1>1. Min(Colons(line)) \in 1 .. Len(line) /\ Len(line) \in Nat
  BY Marks, MinNat
<1> QED
  BY <1>1, Piece, AfterType, StripType DEF HeaderName, HeaderValue

-----------------------------------------------------------------------------
(* parse(), one piece at a time.                                            *)

IsResult(r) ==
  /\ r.m \in Message
  /\ r.raised \in BOOLEAN
  /\ r.raised => r.m.parser_state # "END"

LEMMA ParseBodyType ==
  ASSUME NEW m \in Message, NEW s \in Bytes
  PROVE  IsResult(ParseBody(m, s))
<1>1. m.body \o s \in Bytes
  BY ConcatProperties DEF Message, Bytes
<1> QED
  BY <1>1 DEF IsResult, ParseBody, Returns, Message

LEMMA AddHeadersType ==
  ASSUME NEW h \in SUBSET (Bytes \X Bytes), NEW s \in Bytes,
         NEW ends \in SUBSET LineEnds(s),
         \A i \in ends : Colons(LineAt(s, i)) # {}
  PROVE  AddHeaders(h, s, ends) \in SUBSET (Bytes \X Bytes)
<1>1. \A i \in ends : /\ HeaderName(LineAt(s, i)) \in Bytes
                      /\ HeaderValue(LineAt(s, i)) \in Bytes
  BY LineAtType, HeaderType
<1> QED
  BY <1>1 DEF AddHeaders

LEMMA ParseHeadersType ==
  ASSUME NEW m \in Message, m.parser_state = "HEADERS", NEW s \in Bytes
  PROVE  IsResult(ParseHeaders(m, s))
<1> DEFINE stops == {i \in LineEnds(s) : \/ IsBlank(LineAt(s, i))
                                         \/ IsBadHeader(LineAt(s, i))}
           read  == {i \in LineEnds(s) : \A j \in stops : i < j}
           got   == [m EXCEPT !.headers = AddHeaders(@, s, read)]
           done  == [got EXCEPT !.parser_state = AfterHeaders(m)]
<1>1. AddHeaders(m.headers, s, read) \in SUBSET (Bytes \X Bytes)
  <2>1. \A i \in read : i \in Int /\ i \notin stops
    BY Marks
  <2>2. \A i \in read : Colons(LineAt(s, i)) # {}
    BY <2>1 DEF IsBadHeader
  <2>3. m.headers \in SUBSET (Bytes \X Bytes)
    BY DEF Message
  <2> HIDE DEF read
  <2>4. read \in SUBSET LineEnds(s)
    BY DEF read
  <2> QED
    BY <2>2, <2>3, <2>4, AddHeadersType
<1>2. got \in Message /\ got.parser_state = "HEADERS"
  <2> HIDE DEF read
  <2> QED
    BY <1>1 DEF Message
<1>3. AfterHeaders(m) \in ParserState
  BY DEF AfterHeaders, ParserState
<1>4. CASE stops = {}
  <2>1. KeepResidual(got.residual, PartialLine(s)) \in Bytes
    BY <1>2, PartialLineType DEF KeepResidual, Message
  <2>2. ParseHeaders(m, s)
          = Returns([got EXCEPT !.residual = KeepResidual(@, PartialLine(s))])
    BY <1>4 DEF ParseHeaders
  <2> HIDE DEF got
  <2> QED
    BY <1>2, <2>1, <2>2 DEF IsResult, Returns, Message
<1>5. CASE stops # {}
  <2>1. Min(stops) \in LineEnds(s)
    BY <1>5, Marks, MinNat
  <2>2. After(s, Min(stops)) \in Bytes
    BY <2>1, Marks, AfterType
  <2>3. done \in Message
    <3> HIDE DEF got
    <3> QED
      BY <1>2, <1>3 DEF Message
  <2>4. \/ ParseHeaders(m, s) = Raises(got)
        \/ ParseHeaders(m, s) = ParseBody(done, After(s, Min(stops)))
        \/ ParseHeaders(m, s) = Returns(done)
    BY <1>5 DEF ParseHeaders
  <2>5. IsResult(Raises(got))
    <3> HIDE DEF got
    <3> QED
      BY <1>2 DEF IsResult, Raises
  <2>6. IsResult(ParseBody(done, After(s, Min(stops))))
    BY <2>2, <2>3, ParseBodyType
  <2>7. IsResult(Returns(done))
    BY <2>3 DEF IsResult, Returns
  <2> QED
    BY <2>4, <2>5, <2>6, <2>7
<1> QED
  BY <1>4, <1>5

LEMMA SpacesCount ==
  ASSUME NEW s \in Bytes
  PROVE  /\ Cardinality(Spaces(s)) \in Nat
         /\ Cardinality(Spaces(s)) # 0 => Spaces(s) # {}
         /\ \A i \in Spaces(s) :
              Cardinality(Spaces(s)) >= 2 => Spaces(s) \ {i} # {}
<1>1. IsFiniteSet(1 .. Len(s))
  BY Marks, FS_Interval
<1>2. IsFiniteSet(Spaces(s))
  BY <1>1, Marks, FS_Subset
<1>3. Cardinality(Spaces(s)) \in Nat
  BY <1>2, FS_CardinalityType
<1>4. Spaces(s) = {} => Cardinality(Spaces(s)) = 0
  BY FS_EmptySet
<1>5. ASSUME NEW i \in Spaces(s), Spaces(s) \ {i} = {}
      PROVE  Cardinality(Spaces(s)) = 1
  <2>1. Spaces(s) = {i}
    BY <1>5
  <2> QED
    BY <2>1, FS_Singleton
<1> QED
  BY <1>3, <1>4, <1>5

\* A first line that can be split leaves a message that is still to be given
\* its headers, and nothing kept for the next call is touched.
IsSplit(m, split) ==
  /\ split \in Message
  /\ split.parser_state = "HEADERS"
  /\ split.residual = m.residual

RequestSplit(m, line) ==
  LET text == Rstrip(line)
      i == Min(Spaces(text))
      j == Max(Spaces(text))
  IN  [m EXCEPT !.method = SubSeq(text, 1, i - 1),
                !.uri = SubSeq(text, i + 1, j - 1),
                !.version = After(text, j),
                !.parser_state = "HEADERS"]

StatusSplit(m, line) ==
  LET text == Rstrip(line)
      i == Min(Spaces(text))
      j == Min(Spaces(text) \ {i})
  IN  [m EXCEPT !.version = SubSeq(text, 1, i - 1),
                !.status_code = SubSeq(text, i + 1, j - 1),
                !.parser_state = "HEADERS"]

LEMMA SplitRequestLine ==
  ASSUME NEW m \in Message, m.parser_state = "START",
         NEW line \in Bytes, NEW s \in Bytes
  PROVE  IF Cardinality(Spaces(Rstrip(line))) # 2
         THEN ParseRequestLine(m, line, s) = Raises(m)
         ELSE /\ IsSplit(m, RequestSplit(m, line))
              /\ ParseRequestLine(m, line, s) = ParseHeaders(RequestSplit(m, line), s)
<1> DEFINE text == Rstrip(line)
           i == Min(Spaces(text))
           j == Max(Spaces(text))
           split == [m EXCEPT !.method = SubSeq(text, 1, i - 1),
                              !.uri = SubSeq(text, i + 1, j - 1),
                              !.version = After(text, j),
                              !.parser_state = "HEADERS"]
<1>1. text \in Bytes
  BY StripType
<1> HIDE DEF text
<1>2. CASE Cardinality(Spaces(text)) # 2
  BY <1>2 DEF ParseRequestLine, text
<1>3. CASE Cardinality(Spaces(text)) = 2
  <2>1. Spaces(text) # {}
    BY <1>1, <1>3, SpacesCount
  <2>2. Spaces(text) \in SUBSET (0 .. Len(text)) /\ Len(text) \in Nat
    BY <1>1, Marks
  <2>3. i \in 1 .. Len(text)
    BY <1>1, <2>1, MinNat, Marks
  <2>4. j \in 1 .. Len(text)
    BY <1>1, <2>1, <2>2, MaxUpTo, Marks
  <2> HIDE DEF i, j
  <2>5. /\ SubSeq(text, 1, i - 1) \in Bytes
        /\ SubSeq(text, i + 1, j - 1) \in Bytes
        /\ After(text, j) \in Bytes
    <3>1. /\ i - 1 \in Int /\ i - 1 <= Len(text) /\ i + 1 \in Nat \ {0}
          /\ j - 1 \in Int /\ j - 1 <= Len(text) /\ j \in Nat
      BY <2>2, <2>3, <2>4
    <3>2. SubSeq(text, 1, i - 1) \in Bytes
      BY <1>1, <3>1, Piece
    <3>3. SubSeq(text, i + 1, j - 1) \in Bytes
      BY <1>1, <3>1, Piece
    <3> QED
      BY <1>1, <3>1, <3>2, <3>3, AfterType
  <2>6. IsSplit(m, split)
    BY <2>5 DEF IsSplit, Message, ParserState
  <2>7. ParseRequestLine(m, line, s) = ParseHeaders(split, s)
    BY <1>3 DEF ParseRequestLine, text, i, j
  <2>8. split = RequestSplit(m, line)
    BY DEF RequestSplit, text, i, j
  <2> HIDE DEF split
  <2> QED
    BY <1>3, <2>6, <2>7, <2>8 DEF text
<1> QED
  BY <1>2, <1>3

LEMMA SplitStatusLine ==
  ASSUME NEW m \in Message, m.parser_state = "START",
         NEW line \in Bytes, NEW s \in Bytes
  PROVE  IF Cardinality(Spaces(Rstrip(line))) < 2
         THEN ParseStatusLine(m, line, s)
                = ParseBody([m EXCEPT !.parser_state = "BODY"], s)
         ELSE /\ IsSplit(m, StatusSplit(m, line))
              /\ ParseStatusLine(m, line, s) = ParseHeaders(StatusSplit(m, line), s)
<1> DEFINE text == Rstrip(line)
           i == Min(Spaces(text))
           j == Min(Spaces(text) \ {i})
           split == [m EXCEPT !.version = SubSeq(text, 1, i - 1),
                              !.status_code = SubSeq(text, i + 1, j - 1),
                              !.parser_state = "HEADERS"]
<1>1. text \in Bytes
  BY StripType
<1> HIDE DEF text
<1>2. CASE Cardinality(Spaces(text)) < 2
  BY <1>2 DEF ParseStatusLine, text
<1>3. CASE ~ (Cardinality(Spaces(text)) < 2)
  <2>1. Cardinality(Spaces(text)) >= 2
    BY <1>1, <1>3, SpacesCount
  <2>2. Spaces(text) # {}
    BY <1>1, <2>1, SpacesCount
  <2>3. i \in Spaces(text)
    BY <1>1, <2>2, MinNat, Marks
  <2>4. i \in 1 .. Len(text) /\ Len(text) \in Nat
    BY <1>1, <2>3, Marks
  <2> HIDE DEF i
  <2>5. Spaces(text) \ {i} # {}
    BY <1>1, <2>1, <2>3, SpacesCount
  <2>6. j \in 1 .. Len(text)
    BY <1>1, <2>5, MinNat, Marks
  <2> HIDE DEF j
  <2>7. /\ SubSeq(text, 1, i - 1) \in Bytes
        /\ SubSeq(text, i + 1, j - 1) \in Bytes
    BY <1>1, <2>4, <2>6, Piece
  <2>8. IsSplit(m, split)
    BY <2>7 DEF IsSplit, Message, ParserState
  <2>9. ParseStatusLine(m, line, s) = ParseHeaders(split, s)
    BY <1>3 DEF ParseStatusLine, text, i, j
  <2>10. split = StatusSplit(m, line)
    BY DEF StatusSplit, text, i, j
  <2> HIDE DEF split
  <2> QED
    BY <1>3, <2>8, <2>9, <2>10 DEF text
<1> QED
  BY <1>2, <1>3

LEMMA ParseRequestLineType ==
  ASSUME NEW m \in Message, m.parser_state = "START",
         NEW line \in Bytes, NEW s \in Bytes
  PROVE  IsResult(ParseRequestLine(m, line, s))
<1>1. IsResult(Raises(m))
  BY DEF IsResult, Raises
<1>2. ASSUME NEW split, IsSplit(m, split)
      PROVE  IsResult(ParseHeaders(split, s))
  BY <1>2, ParseHeadersType DEF IsSplit
<1> QED
  BY <1>1, <1>2, SplitRequestLine

LEMMA ParseStatusLineType ==
  ASSUME NEW m \in Message, m.parser_state = "START",
         NEW line \in Bytes, NEW s \in Bytes
  PROVE  IsResult(ParseStatusLine(m, line, s))
<1>1. IsResult(ParseBody([m EXCEPT !.parser_state = "BODY"], s))
  <2>1. [m EXCEPT !.parser_state = "BODY"] \in Message
    BY DEF Message, ParserState
  <2> QED
    BY <2>1, ParseBodyType
<1>2. ASSUME NEW split, IsSplit(m, split)
      PROVE  IsResult(ParseHeaders(split, s))
  BY <1>2, ParseHeadersType DEF IsSplit
<1> QED
  BY <1>1, <1>2, SplitStatusLine

LEMMA ParseStartType ==
  ASSUME NEW m \in Message, m.parser_state = "START", NEW s \in Bytes
  PROVE  IsResult(ParseStart(m, s))
<1> DEFINE line  == FirstLine(s)
           begun == [m EXCEPT !.start_line = line]
           rest  == After(s, Len(line))
<1>1. line \in Bytes /\ rest \in Bytes
  BY FirstLineType, AfterType
<1>2. begun \in Message /\ begun.parser_state = "START"
  <2> HIDE DEF line
  <2> QED
    BY <1>1 DEF Message
<1>3. \/ ParseStart(m, s) = Returns([begun EXCEPT !.residual = line])
      \/ ParseStart(m, s) = ParseRequestLine(begun, line, rest)
      \/ ParseStart(m, s) = ParseStatusLine(begun, line, rest)
  BY DEF ParseStart
<1> HIDE DEF line, begun, rest
<1>4. IsResult(Returns([begun EXCEPT !.residual = line]))
  BY <1>1, <1>2 DEF IsResult, Returns, Message
<1>5. /\ IsResult(ParseRequestLine(begun, line, rest))
      /\ IsResult(ParseStatusLine(begun, line, rest))
  BY <1>1, <1>2, ParseRequestLineType, ParseStatusLineType
<1> QED
  BY <1>3, <1>4, <1>5

\* parse() turns a message and any bytes into a message, and a call that
\* raises has not reached the END (lines 37-100 of http_parser.py).
THEOREM ParseType ==
  ASSUME NEW m \in Message, NEW msg \in Bytes
  PROVE  IsResult(Parse(m, msg))
<1> DEFINE bs == m.residual \o msg
<1>1. bs \in Bytes
  BY ConcatProperties DEF Message, Bytes
<1>2. CASE m.parser_state = "START"
  BY <1>1, <1>2, ParseStartType DEF Parse
<1>3. CASE m.parser_state = "HEADERS"
  BY <1>1, <1>3, ParseHeadersType DEF Parse
<1>4. CASE m.parser_state = "BODY"
  BY <1>1, <1>4, ParseBodyType DEF Parse
<1>5. CASE m.parser_state = "END"
  BY <1>5 DEF Parse, Returns, IsResult
<1> QED
  BY <1>2, <1>3, <1>4, <1>5 DEF Message, ParserState

\* The other methods.
LEMMA NewMessageType ==
  ASSUME NEW type \in MessageType
  PROVE  NewMessage(type) \in Message /\ NewMessage(type).parser_state = "START"
BY Constants DEF NewMessage, Message, ParserState

LEMMA AddHeaderType ==
  ASSUME NEW m \in Message, NEW name \in Bytes, NEW value \in Bytes
  PROVE  AddHeader(m, name, value) \in Message
BY DEF AddHeader, Message

-----------------------------------------------------------------------------
(* What is kept for the next call.                                          *)

IsOneLine(s) == LF \notin Range(s)

LEMMA NoLineEnds ==
  ASSUME NEW s \in Bytes
  PROVE  IsOneLine(s) <=> LineEnds(s) = {}
BY DEF IsOneLine, Range, LineEnds

LEMMA PartialLineIsOneLine ==
  ASSUME NEW s \in Bytes
  PROVE  IsOneLine(PartialLine(s))
<1> DEFINE last == Max({0} \cup LineEnds(s))
<1>1. last \in 0 .. Len(s) /\ Len(s) \in Nat
  BY PartialLineType, Marks
<1>2. \A i \in LineEnds(s) : i <= last
  <2>1. {0} \cup LineEnds(s) \in SUBSET (0 .. Len(s))
    BY Marks
  <2> QED
    BY <2>1, Marks, MaxUpTo
<1> HIDE DEF last
<1>3. \A k \in last + 1 .. Len(s) : s[k] \in Byte /\ s[k] # LF
  <2> TAKE k \in last + 1 .. Len(s)
  <2>1. k \in 1 .. Len(s) /\ ~ (k <= last)
    BY <1>1
  <2>2. s[k] \in Byte /\ k \in DOMAIN s
    BY <2>1, LenProperties, ElementOfSeq DEF Bytes
  <2> QED
    BY <1>2, <2>1, <2>2 DEF LineEnds
<1>4. /\ SubSeq(s, last + 1, Len(s)) \in Seq(Byte \ {LF})
  BY <1>1, <1>3, SubSeqProperties
<1>5. PartialLine(s) \in Seq(Byte \ {LF})
  BY <1>4 DEF PartialLine, After, last
<1>6. \A k \in DOMAIN PartialLine(s) : PartialLine(s)[k] \in Byte \ {LF}
  BY <1>5, LenProperties, ElementOfSeq
<1> QED
  BY <1>6 DEF IsOneLine, Range

LEMMA ParseHeadersResidual ==
  ASSUME NEW m \in Message, IsOneLine(m.residual), NEW s \in Bytes
  PROVE  IsOneLine(ParseHeaders(m, s).m.residual)
<1>1. IsOneLine(KeepResidual(m.residual, PartialLine(s)))
  BY PartialLineIsOneLine DEF KeepResidual
<1>2. ParseHeaders(m, s).m.residual
        \in {m.residual, KeepResidual(m.residual, PartialLine(s))}
  BY DEF ParseHeaders, ParseBody, Returns, Raises, Message
<1> QED
  BY <1>1, <1>2

LEMMA ParseStartResidual ==
  ASSUME NEW m \in Message, IsOneLine(m.residual), m.parser_state = "START",
         NEW s \in Bytes
  PROVE  IsOneLine(ParseStart(m, s).m.residual)
<1> DEFINE line  == FirstLine(s)
           rest  == After(s, Len(line))
<1>1. line \in Bytes /\ rest \in Bytes
  BY FirstLineType, AfterType
<1>2. CASE LineEnds(s) = {}
  <2>1. line = s
    BY <1>2, LenProperties, SubSeqFull DEF FirstLine, Bytes
  <2> QED
    BY <1>2, <2>1, NoLineEnds DEF ParseStart, HasLine, Returns, Message
<1>3. CASE LineEnds(s) # {}
  <2> DEFINE begun == [m EXCEPT !.start_line = line]
  <2>1. /\ begun \in Message
        /\ begun.parser_state = "START"
        /\ begun.residual = m.residual
    <3> HIDE DEF line
    <3> QED
      BY <1>1 DEF Message
  <2>2. \/ ParseStart(m, s) = ParseRequestLine(begun, line, rest)
        \/ ParseStart(m, s) = ParseStatusLine(begun, line, rest)
    BY <1>3 DEF ParseStart, HasLine
  <2> HIDE DEF line, rest, begun
  <2>3. IsOneLine(Raises(begun).m.residual)
    BY <2>1 DEF Raises
  <2>4. IsOneLine(ParseBody([begun EXCEPT !.parser_state = "BODY"], rest).m.residual)
    BY <2>1 DEF ParseBody, Returns, Message
  <2>5. ASSUME NEW split, IsSplit(begun, split)
        PROVE  IsOneLine(ParseHeaders(split, rest).m.residual)
    BY <1>1, <2>1, <2>5, ParseHeadersResidual DEF IsSplit
  <2>6. IsOneLine(ParseRequestLine(begun, line, rest).m.residual)
    BY <1>1, <2>1, <2>3, <2>5, SplitRequestLine
  <2>7. IsOneLine(ParseStatusLine(begun, line, rest).m.residual)
    BY <1>1, <2>1, <2>4, <2>5, SplitStatusLine
  <2> QED
    BY <2>2, <2>6, <2>7
<1> QED
  BY <1>2, <1>3

\* parse() keeps a piece of one line for the next call, if that is what the
\* last call kept (line 34 of http_parser.py).
THEOREM ParseResidual ==
  ASSUME NEW m \in Message, IsOneLine(m.residual), NEW msg \in Bytes
  PROVE  IsOneLine(Parse(m, msg).m.residual)
<1> DEFINE bs == m.residual \o msg
<1>1. bs \in Bytes
  BY ConcatProperties DEF Message, Bytes
<1>2. CASE m.parser_state = "START"
  BY <1>1, <1>2, ParseStartResidual DEF Parse
<1>3. CASE m.parser_state = "HEADERS"
  BY <1>1, <1>3, ParseHeadersResidual DEF Parse
<1>4. CASE m.parser_state = "BODY"
  BY <1>4 DEF Parse, ParseBody, Returns, Message
<1>5. CASE m.parser_state = "END"
  BY <1>5 DEF Parse, Returns
<1> QED
  BY <1>2, <1>3, <1>4, <1>5 DEF Message, ParserState

-----------------------------------------------------------------------------
(* The empty chunk of a closed connection.                                  *)

LEMMA ParseNothing ==
  ASSUME NEW m \in Message, IsOneLine(m.residual)
  PROVE  Parse(m, <<>>)
           = Returns([m EXCEPT
               !.start_line = IF m.parser_state = "START" THEN m.residual ELSE @,
               !.body = IF m.parser_state = "BODY" THEN @ \o m.residual ELSE @])
<1> DEFINE s == m.residual
<1>1. s \in Bytes /\ LineEnds(s) = {}
  BY NoLineEnds DEF Message
<1>2. m.residual \o <<>> = s
  BY <1>1, ConcatEmptySeq DEF Bytes
<1>3. CASE m.parser_state = "START"
  <2>1. Parse(m, <<>>) = ParseStart(m, s)
    BY <1>2, <1>3 DEF Parse
  <2>2. ~ HasLine(s) /\ FirstLine(s) = s
    <3>1. SubSeq(s, 1, Len(s)) = s
      BY <1>1 DEF Bytes
    <3> QED
      BY <1>1, <3>1 DEF HasLine, FirstLine
  <2>3. ParseStart(m, s)
          = Returns([[m EXCEPT !.start_line = s] EXCEPT !.residual = s])
    BY <2>2 DEF ParseStart
  <2>4. [[m EXCEPT !.start_line = s] EXCEPT !.residual = s]
          = [m EXCEPT !.start_line = s, !.body = m.body]
    BY DEF Message
  <2> QED
    BY <1>3, <2>1, <2>3, <2>4
<1>4. CASE m.parser_state = "HEADERS"
  <2>1. AddHeaders(m.headers, s, {}) = m.headers
    BY DEF AddHeaders
  <2>2. ParseHeaders(m, s)
          = Returns([[m EXCEPT !.headers = AddHeaders(@, s, {})]
                       EXCEPT !.residual = KeepResidual(@, PartialLine(s))])
    BY <1>1 DEF ParseHeaders
  <2>3. Parse(m, <<>>) = ParseHeaders(m, s)
    BY <1>2, <1>4 DEF Parse
  <2>4. PartialLine(s) = s
    <3>1. PartialLine(s) = SubSeq(s, Max({0}) + 1, Len(s))
      BY <1>1 DEF PartialLine, After
    <3>2. Max({0}) = 0
      BY DEF Max
    <3>3. SubSeq(s, 1, Len(s)) = s
      BY <1>1 DEF Bytes
    <3> QED
      BY <3>1, <3>2, <3>3
  <2>5. KeepResidual(s, PartialLine(s)) = s
    BY <2>4 DEF KeepResidual
  <2>6. Parse(m, <<>>) = Returns([[m EXCEPT !.headers = m.headers] EXCEPT !.residual = s])
    BY <2>1, <2>2, <2>3, <2>5
  <2>7. [[m EXCEPT !.headers = m.headers] EXCEPT !.residual = s]
          = [m EXCEPT !.start_line = m.start_line, !.body = m.body]
    BY DEF Message
  <2> QED
    BY <1>4, <2>6, <2>7
<1>5. CASE m.parser_state = "BODY"
  <2>1. Parse(m, <<>>) = Returns([m EXCEPT !.body = @ \o s])
    BY <1>2, <1>5 DEF Parse, ParseBody
  <2>2. [m EXCEPT !.body = @ \o s] = [m EXCEPT !.start_line = m.start_line, !.body = @ \o s]
    BY DEF Message
  <2> QED
    BY <1>5, <2>1, <2>2
<1>6. CASE m.parser_state = "END"
  <2>1. m = [m EXCEPT !.start_line = m.start_line, !.body = m.body]
    BY DEF Message
  <2> QED
    BY <1>6, <2>1 DEF Parse
<1> QED
  BY <1>3, <1>4, <1>5, <1>6 DEF Message, ParserState

-----------------------------------------------------------------------------
(* Two byte strings, one after the other.                                   *)

LEMMA SameBytes ==
  ASSUME NEW s \in Bytes, NEW t \in Bytes, Len(s) = Len(t),
         \A i \in 1 .. Len(s) : s[i] = t[i]
  PROVE  s = t
BY SeqEqual DEF Bytes

LEMMA PieceIs ==
  ASSUME NEW s \in Bytes, NEW i \in Nat \ {0}, NEW j \in Int, j <= Len(s)
  PROVE  /\ SubSeq(s, i, j) \in Bytes
         /\ Len(SubSeq(s, i, j)) = IF i <= j THEN j - i + 1 ELSE 0
         /\ \A k \in 1 .. j - i + 1 : SubSeq(s, i, j)[k] = s[i + k - 1]
<1>1. \A k \in i .. j : s[k] \in Byte
  BY LenProperties, ElementOfSeq DEF Bytes
<1> QED
  BY <1>1, SubSeqProperties, Piece

LEMMA ConcatIs ==
  ASSUME NEW u \in Bytes, NEW v \in Bytes
  PROVE  /\ u \o v \in Bytes
         /\ Len(u) \in Nat /\ Len(v) \in Nat
         /\ Len(u \o v) = Len(u) + Len(v)
         /\ \A k \in 1 .. Len(u) : (u \o v)[k] = u[k]
         /\ \A k \in 1 .. Len(v) : (u \o v)[Len(u) + k] = v[k]
<1>1. Len(u) \in Nat /\ Len(v) \in Nat
  BY Marks
<1>2. /\ u \o v \in Bytes
      /\ Len(u \o v) = Len(u) + Len(v)
      /\ \A i \in 1 .. Len(u) + Len(v) :
           (u \o v)[i] = IF i <= Len(u) THEN u[i] ELSE v[i - Len(u)]
  BY ConcatProperties DEF Bytes
<1> DEFINE p == Len(u)
           q == Len(v)
           w == u \o v
<1> HIDE DEF p, q, w
<1>3. /\ p \in Nat /\ q \in Nat
      /\ \A i \in 1 .. p + q : w[i] = IF i <= p THEN u[i] ELSE v[i - p]
  BY <1>1, <1>2 DEF p, q, w
<1>4. \A k \in 1 .. p : w[k] = u[k]
  BY <1>3
<1>5. ASSUME NEW k \in 1 .. q PROVE w[p + k] = v[k]
  <2>1. p + k \in 1 .. p + q /\ ~ (p + k <= p) /\ (p + k) - p = k
    BY <1>3
  <2> QED
    BY <1>3, <2>1
<1> QED
  BY <1>1, <1>2, <1>4, <1>5 DEF p, q, w

LEMMA PieceOfFirst ==
  ASSUME NEW u \in Bytes, NEW v \in Bytes, NEW i \in Nat \ {0}, NEW j \in Int, j <= Len(u)
  PROVE  SubSeq(u \o v, i, j) = SubSeq(u, i, j)
<1> DEFINE s == SubSeq(u \o v, i, j)
           t == SubSeq(u, i, j)
<1>1. j <= Len(u \o v) /\ u \o v \in Bytes
  BY ConcatIs
<1>2. /\ s \in Bytes /\ Len(s) = IF i <= j THEN j - i + 1 ELSE 0
      /\ \A k \in 1 .. j - i + 1 : s[k] = (u \o v)[i + k - 1]
  BY <1>1, PieceIs
<1>3. /\ t \in Bytes /\ Len(t) = IF i <= j THEN j - i + 1 ELSE 0
      /\ \A k \in 1 .. j - i + 1 : t[k] = u[i + k - 1]
  BY PieceIs
<1> HIDE DEF s, t
<1>4. ASSUME NEW k \in 1 .. Len(s) PROVE s[k] = t[k]
  <2>1. k \in 1 .. j - i + 1
    BY <1>2
  <2>2. i + k - 1 \in 1 .. Len(u)
    BY <2>1, Marks
  <2>3. (u \o v)[i + k - 1] = u[i + k - 1]
    BY <2>2, ConcatIs
  <2> QED
    BY <1>2, <1>3, <2>1, <2>3
<1>5. s = t
  BY <1>2, <1>3, <1>4, SameBytes
<1> QED
  BY <1>5 DEF s, t

LEMMA PieceOfSecond ==
  ASSUME NEW u \in Bytes, NEW v \in Bytes, NEW i \in Nat \ {0}, NEW j \in Int, j <= Len(v)
  PROVE  SubSeq(u \o v, Len(u) + i, Len(u) + j) = SubSeq(v, i, j)
<1> DEFINE p == Len(u)
           w == u \o v
           x == p + i
           y == p + j
           s == SubSeq(w, x, y)
           t == SubSeq(v, i, j)
<1>1. p \in Nat /\ Len(v) \in Nat /\ w \in Bytes /\ Len(w) = p + Len(v)
      /\ \A k \in 1 .. Len(v) : w[p + k] = v[k]
  BY ConcatIs
<1> HIDE DEF p, w
<1>2. /\ x \in Nat \ {0} /\ y \in Int /\ y <= Len(w)
      /\ x <= y <=> i <= j
      /\ y - x + 1 = j - i + 1
  BY <1>1
<1>3. \A k \in 1 .. j - i + 1 : i + k - 1 \in 1 .. Len(v) /\ x + k - 1 = p + (i + k - 1)
  BY <1>1
<1> HIDE DEF x, y
<1>4. /\ s \in Bytes /\ Len(s) = IF x <= y THEN y - x + 1 ELSE 0
      /\ \A k \in 1 .. y - x + 1 : s[k] = w[x + k - 1]
  BY <1>1, <1>2, PieceIs
<1>5. /\ t \in Bytes /\ Len(t) = IF i <= j THEN j - i + 1 ELSE 0
      /\ \A k \in 1 .. j - i + 1 : t[k] = v[i + k - 1]
  BY PieceIs
<1> HIDE DEF s, t
<1>6. ASSUME NEW k \in 1 .. Len(s) PROVE s[k] = t[k]
  <2>1. k \in 1 .. j - i + 1
    BY <1>2, <1>4
  <2>2. w[p + (i + k - 1)] = v[i + k - 1] /\ x + k - 1 = p + (i + k - 1)
    BY <1>1, <1>3, <2>1
  <2> QED
    BY <1>2, <1>4, <1>5, <2>1, <2>2
<1>7. s = t
  BY <1>2, <1>4, <1>5, <1>6, SameBytes
<1> QED
  BY <1>7 DEF s, t, p, w, x, y

LEMMA Halves ==
  ASSUME NEW s \in Bytes, NEW n \in 0 .. Len(s)
  PROVE  /\ SubSeq(s, 1, n) \in Bytes /\ Len(SubSeq(s, 1, n)) = n
         /\ After(s, n) \in Bytes /\ Len(After(s, n)) = Len(s) - n
         /\ SubSeq(s, 1, n) \o After(s, n) = s
<1>1. Len(s) \in Nat /\ n \in Nat /\ n <= Len(s)
  BY Marks
<1> DEFINE u == SubSeq(s, 1, n)
           v == After(s, n)
<1>2. u \in Bytes /\ Len(u) = n /\ \A k \in 1 .. n : u[k] = s[k]
  BY <1>1, PieceIs
<1>3. v \in Bytes /\ Len(v) = Len(s) - n /\ \A k \in 1 .. Len(s) - n : v[k] = s[n + k]
  <2>1. n + 1 \in Nat \ {0} /\ Len(s) \in Int /\ Len(s) <= Len(s)
        /\ Len(s) - (n + 1) + 1 = Len(s) - n
    BY <1>1
  <2>2. /\ v \in Bytes
        /\ Len(v) = IF n + 1 <= Len(s) THEN Len(s) - (n + 1) + 1 ELSE 0
        /\ \A k \in 1 .. Len(s) - n : v[k] = s[n + 1 + k - 1]
    BY <2>1, PieceIs DEF After
  <2>3. \A k \in 1 .. Len(s) - n : n + 1 + k - 1 = n + k
    BY <1>1
  <2> HIDE DEF v
  <2> QED
    BY <1>1, <2>2, <2>3
<1> HIDE DEF u, v
<1>4. ASSUME NEW k \in 1 .. Len(s) PROVE (u \o v)[k] = s[k]
  <2>1. CASE k <= n
    <3>1. k \in 1 .. Len(u) /\ u[k] = s[k]
      BY <1>1, <1>2, <2>1
    <3> QED
      BY <1>2, <1>3, <3>1, ConcatIs
  <2>2. CASE k > n
    <3>1. k - n \in 1 .. Len(v) /\ n + (k - n) = k
      BY <1>1, <1>3, <2>2
    <3>2. (u \o v)[Len(u) + (k - n)] = v[k - n]
      BY <1>2, <1>3, <3>1, ConcatIs
    <3>3. v[k - n] = s[n + (k - n)]
      BY <1>3, <3>1
    <3> QED
      BY <1>2, <3>1, <3>2, <3>3
  <2>3. k <= n \/ k > n
    BY <1>1
  <2> QED
    BY <2>1, <2>2, <2>3
<1>5. u \o v \in Bytes /\ Len(u \o v) = Len(s)
  <2>1. u \o v \in Bytes /\ Len(u \o v) = Len(u) + Len(v)
    BY <1>2, <1>3, ConcatIs
  <2> QED
    BY <1>1, <1>2, <1>3, <2>1
<1>6. u \o v = s
  BY <1>4, <1>5, SameBytes
<1> QED
  BY <1>2, <1>3, <1>6 DEF u, v

LEMMA AfterFirst ==
  ASSUME NEW u \in Bytes, NEW v \in Bytes, NEW n \in 0 .. Len(u)
  PROVE  After(u \o v, n) = After(u, n) \o v
<1> DEFINE a == SubSeq(u, 1, n)
           b == After(u, n)
<1>1. a \in Bytes /\ b \in Bytes /\ Len(a) = n /\ a \o b = u
  BY Halves
<1> HIDE DEF a, b
<1>2. u \o v = a \o (b \o v)
  <2>1. a \in Seq(Byte) /\ b \in Seq(Byte) /\ v \in Seq(Byte)
    BY <1>1 DEF Bytes
  <2>2. (a \o b) \o v = a \o (b \o v)
    BY <2>1, ConcatAssociative
  <2> QED
    BY <1>1, <2>2
<1>3. b \o v \in Bytes /\ Len(b \o v) \in Nat /\ Len(u \o v) = Len(a) + Len(b \o v)
      /\ Len(a) \in Nat
  BY <1>1, <1>2, ConcatIs, Marks
<1>4. SubSeq(a \o (b \o v), Len(a) + 1, Len(a) + Len(b \o v)) = SubSeq(b \o v, 1, Len(b \o v))
  BY <1>1, <1>3, PieceOfSecond
<1>5. SubSeq(b \o v, 1, Len(b \o v)) = b \o v
  BY <1>3, SubSeqFull DEF Bytes
<1> QED
  BY <1>1, <1>2, <1>3, <1>4, <1>5 DEF After, b

LEMMA AfterSecond ==
  ASSUME NEW u \in Bytes, NEW v \in Bytes, NEW n \in 0 .. Len(v)
  PROVE  After(u \o v, Len(u) + n) = After(v, n)
<1>1. Len(u) \in Nat /\ Len(v) \in Nat /\ Len(u \o v) = Len(u) + Len(v)
  BY ConcatIs
<1>2. n + 1 \in Nat \ {0} /\ Len(v) \in Int /\ Len(v) <= Len(v)
      /\ Len(u) + n + 1 = Len(u) + (n + 1)
  BY <1>1
<1>3. SubSeq(u \o v, Len(u) + (n + 1), Len(u) + Len(v)) = SubSeq(v, n + 1, Len(v))
  BY <1>2, PieceOfSecond
<1> QED
  BY <1>1, <1>2, <1>3 DEF After

-----------------------------------------------------------------------------
(* The lines of two byte strings, one after the other.                      *)

LEMMA LineEndsIs ==
  ASSUME NEW s \in Bytes
  PROVE  \A i : i \in LineEnds(s) <=> i \in 1 .. Len(s) /\ s[i] = LF
BY LenProperties DEF Bytes, LineEnds

LEMMA LineEndsOfBoth ==
  ASSUME NEW u \in Bytes, NEW v \in Bytes
  PROVE  /\ \A i \in 1 .. Len(u) : i \in LineEnds(u \o v) <=> i \in LineEnds(u)
         /\ \A k \in 1 .. Len(v) : Len(u) + k \in LineEnds(u \o v) <=> k \in LineEnds(v)
         /\ \A i \in LineEnds(u \o v) :
              i \in LineEnds(u) \/ \E k \in LineEnds(v) : i = Len(u) + k
<1> DEFINE p == Len(u)
           q == Len(v)
           w == u \o v
<1>1. /\ p \in Nat /\ q \in Nat /\ w \in Bytes /\ Len(w) = p + q
      /\ \A k \in 1 .. p : w[k] = u[k]
      /\ \A k \in 1 .. q : w[p + k] = v[k]
  BY ConcatIs
<1>2. \A i : i \in LineEnds(w) <=> i \in 1 .. p + q /\ w[i] = LF
  BY <1>1, LineEndsIs
<1>3. /\ \A i : i \in LineEnds(u) <=> i \in 1 .. p /\ u[i] = LF
      /\ \A i : i \in LineEnds(v) <=> i \in 1 .. q /\ v[i] = LF
  BY LineEndsIs
<1> HIDE DEF p, q, w
<1>4. \A i \in 1 .. p : i \in LineEnds(w) <=> i \in LineEnds(u)
  BY <1>1, <1>2, <1>3
<1>5. ASSUME NEW k \in 1 .. q PROVE p + k \in LineEnds(w) <=> k \in LineEnds(v)
  <2>1. p + k \in 1 .. p + q /\ w[p + k] = v[k]
    BY <1>1
  <2> QED
    BY <1>2, <1>3, <2>1
<1>6. ASSUME NEW i \in LineEnds(w)
      PROVE  i \in LineEnds(u) \/ \E k \in LineEnds(v) : i = p + k
  <2>1. i \in 1 .. p + q
    BY <1>2
  <2>2. CASE i <= p
    BY <1>1, <1>4, <2>1, <2>2
  <2>3. CASE i > p
    <3>1. i - p \in 1 .. q /\ i = p + (i - p)
      BY <1>1, <2>1, <2>3
    <3>2. i - p \in LineEnds(v)
      BY <1>5, <3>1
    <3> QED
      BY <3>1, <3>2
  <2> QED
    BY <1>1, <2>1, <2>2, <2>3
<1> QED
  BY <1>4, <1>5, <1>6 DEF p, q, w

\* b is where the line of s that ends at i begins
IsBegin(s, i, b) ==
  /\ b \in 0 .. i - 1
  /\ b = 0 \/ b \in LineEnds(s)
  /\ \A j \in LineEnds(s) : j < i => j <= b

LEMMA LineIs ==
  ASSUME NEW s \in Bytes, NEW i \in LineEnds(s)
  PROVE  /\ \E b \in 0 .. i - 1 : IsBegin(s, i, b)
         /\ \A b \in 0 .. i - 1 : IsBegin(s, i, b) => LineAt(s, i) = SubSeq(s, b + 1, i)
<1> DEFINE S == {0} \cup {j \in LineEnds(s) : j < i}
           m == Max(S)
<1>1. Len(s) \in Nat /\ LineEnds(s) \subseteq 1 .. Len(s) /\ i \in 1 .. Len(s)
  BY Marks
<1>2. S \in SUBSET (0 .. Len(s)) /\ S # {}
  BY <1>1
<1>3. m \in S /\ \A j \in S : j <= m
  BY <1>1, <1>2, MaxUpTo
<1> HIDE DEF m
<1>4. IsBegin(s, i, m)
  BY <1>1, <1>3 DEF IsBegin
<1>5. ASSUME NEW b \in 0 .. i - 1, IsBegin(s, i, b) PROVE b = m
  BY <1>1, <1>3, <1>4, <1>5 DEF IsBegin
<1>6. LineAt(s, i) = SubSeq(s, m + 1, i)
  BY DEF LineAt, m
<1> QED
  BY <1>4, <1>5, <1>6 DEF IsBegin

LEMMA LineOfFirst ==
  ASSUME NEW u \in Bytes, NEW v \in Bytes, NEW i \in LineEnds(u)
  PROVE  i \in LineEnds(u \o v) /\ LineAt(u \o v, i) = LineAt(u, i)
<1>1. Len(u) \in Nat /\ i \in 1 .. Len(u) /\ u \o v \in Bytes
  BY ConcatIs, Marks
<1>2. i \in LineEnds(u \o v)
  BY <1>1, LineEndsOfBoth
<1>3. PICK b \in 0 .. i - 1 : IsBegin(u, i, b)
  BY LineIs
<1>4. IsBegin(u \o v, i, b)
  <2>1. ASSUME NEW j \in LineEnds(u \o v), j < i PROVE j \in LineEnds(u)
    <3>1. j \in 1 .. Len(u)
      BY <1>1, <2>1, Marks
    <3> QED
      BY <3>1, LineEndsOfBoth
  <2>2. b = 0 \/ b \in LineEnds(u \o v)
    BY <1>1, <1>3, Marks, LineEndsOfBoth DEF IsBegin
  <2> QED
    BY <1>3, <2>1, <2>2 DEF IsBegin
<1>5. LineAt(u \o v, i) = SubSeq(u \o v, b + 1, i) /\ LineAt(u, i) = SubSeq(u, b + 1, i)
  BY <1>1, <1>2, <1>3, <1>4, LineIs
<1>6. b + 1 \in Nat \ {0} /\ i \in Int /\ i <= Len(u)
  BY <1>1
<1> QED
  BY <1>2, <1>5, <1>6, PieceOfFirst

\* A byte string that ends where a line does.
EndsALine(s) == s = <<>> \/ s[Len(s)] = LF

LEMMA LineOfSecond ==
  ASSUME NEW u \in Bytes, EndsALine(u), NEW v \in Bytes, NEW i \in LineEnds(v)
  PROVE  /\ Len(u) + i \in LineEnds(u \o v)
         /\ LineAt(u \o v, Len(u) + i) = LineAt(v, i)
<1> DEFINE p == Len(u)
           w == u \o v
<1>1. p \in Nat /\ Len(v) \in Nat /\ i \in 1 .. Len(v) /\ w \in Bytes
      /\ LineEnds(v) \subseteq 1 .. Len(v) /\ LineEnds(u) \subseteq 1 .. p
  BY ConcatIs, Marks
<1>2. p + i \in LineEnds(w)
  BY <1>1, LineEndsOfBoth
<1>3. p = 0 \/ p \in LineEnds(u)
  <2>1. p = 0 \/ u # <<>>
    BY EmptySeq
  <2>2. u # <<>> => p \in 1 .. p
    BY <1>1, EmptySeq DEF Bytes
  <2> QED
    BY <1>1, <2>1, <2>2, LineEndsIs, EmptySeq DEF EndsALine, Bytes
<1>4. PICK b \in 0 .. i - 1 : IsBegin(v, i, b)
  BY LineIs
<1>5. IsBegin(w, p + i, p + b)
  <2>1. p + b \in 0 .. (p + i) - 1
    BY <1>1
  <2>2. p + b = 0 \/ p + b \in LineEnds(w)
    <3>1. CASE b = 0
      <4>1. p \in LineEnds(u) => p \in LineEnds(w)
        BY LineOfFirst
      <4> QED
        BY <1>1, <1>3, <3>1, <4>1
    <3>2. CASE b # 0
      <4>1. b \in LineEnds(v) /\ b \in 1 .. Len(v)
        BY <1>1, <1>4, <3>2 DEF IsBegin
      <4> QED
        BY <4>1, LineEndsOfBoth
    <3> QED
      BY <3>1, <3>2
  <2>3. ASSUME NEW j \in LineEnds(w), j < p + i PROVE j <= p + b
    <3>1. CASE j \in LineEnds(u)
      BY <1>1, <3>1
    <3>2. ASSUME NEW k \in LineEnds(v), j = p + k PROVE j <= p + b
      <4>1. k \in Int /\ b \in Int /\ k < i
        BY <1>1, <2>3, <3>2
      <4>2. k <= b
        BY <1>4, <4>1 DEF IsBegin
      <4> QED
        BY <1>1, <3>2, <4>1, <4>2
    <3> QED
      BY <3>1, <3>2, LineEndsOfBoth
  <2> HIDE DEF p, w
  <2> QED
    BY <2>1, <2>2, <2>3 DEF IsBegin
<1>6. LineAt(v, i) = SubSeq(v, b + 1, i)
  BY <1>4, LineIs
<1>7. p + b \in 0 .. (p + i) - 1
  BY <1>1
<1>8. LineAt(w, p + i) = SubSeq(w, (p + b) + 1, p + i)
  <2> HIDE DEF p, w
  <2> QED
    BY <1>1, <1>2, <1>5, <1>7, LineIs
<1>9. SubSeq(w, p + (b + 1), p + i) = SubSeq(v, b + 1, i)
  <2>1. b + 1 \in Nat \ {0} /\ i \in Int /\ i <= Len(v)
    BY <1>1
  <2> QED
    BY <2>1, PieceOfSecond
<1>10. (p + b) + 1 = p + (b + 1)
  BY <1>1
<1> HIDE DEF p, w
<1>11. LineAt(w, p + i) = LineAt(v, i)
  BY <1>6, <1>8, <1>9, <1>10
<1> QED
  BY <1>2, <1>11 DEF p, w

LEMMA PartialOfBoth ==
  ASSUME NEW u \in Bytes, EndsALine(u), NEW v \in Bytes
  PROVE  PartialLine(u \o v) = PartialLine(v)
<1> DEFINE p == Len(u)
           w == u \o v
           last(s) == Max({0} \cup LineEnds(s))
<1>1. p \in Nat /\ Len(v) \in Nat /\ w \in Bytes /\ Len(w) = p + Len(v)
      /\ LineEnds(v) \subseteq 1 .. Len(v) /\ LineEnds(u) \subseteq 1 .. p
      /\ LineEnds(w) \subseteq 1 .. Len(w)
  BY ConcatIs, Marks
<1>2. ASSUME NEW s \in Bytes
      PROVE  /\ last(s) \in 0 .. Len(s)
             /\ last(s) = 0 \/ last(s) \in LineEnds(s)
             /\ \A j \in LineEnds(s) : j <= last(s)
  <2>1. {0} \cup LineEnds(s) \in SUBSET (0 .. Len(s)) /\ Len(s) \in Nat
    BY Marks
  <2> QED
    BY <2>1, MaxUpTo
<1> HIDE DEF last, w
<1>3. last(w) = p + last(v)
  <2>1. CASE last(v) \in LineEnds(v)
    <3>1. p + last(v) \in LineEnds(w) /\ last(v) \in 1 .. Len(v)
      BY <1>1, <2>1, LineEndsOfBoth DEF w
    <3>2. p + last(v) <= last(w) /\ last(w) \in LineEnds(w)
      BY <1>1, <1>2, <3>1
    <3>3. CASE last(w) \in LineEnds(u)
      BY <1>1, <3>1, <3>2, <3>3
    <3>4. ASSUME NEW k \in LineEnds(v), last(w) = p + k PROVE last(w) = p + last(v)
      <4>1. k <= last(v) /\ k \in Int
        BY <1>1, <1>2
      <4> QED
        BY <1>1, <3>1, <3>2, <3>4, <4>1
    <3> QED
      BY <3>2, <3>3, <3>4, LineEndsOfBoth DEF w
  <2>2. CASE last(v) \notin LineEnds(v)
    <3>1. last(v) = 0 /\ LineEnds(v) = {}
      BY <1>1, <1>2, <2>2
    <3>2. last(w) = 0 \/ last(w) \in LineEnds(u)
      BY <1>1, <1>2, <3>1, LineEndsOfBoth DEF w
    <3>3. p = 0 \/ p \in LineEnds(u)
      <4>1. u # <<>> => p \in 1 .. p
        BY <1>1, EmptySeq DEF Bytes
      <4> QED
        BY <4>1, LineEndsIs, EmptySeq DEF EndsALine
    <3>4. p \in LineEnds(u) => p <= last(w)
      <4>1. p \in LineEnds(u) => p \in LineEnds(w)
        BY LineOfFirst DEF w
      <4> QED
        BY <1>1, <1>2, <4>1
    <3> QED
      BY <1>1, <1>2, <3>1, <3>2, <3>3, <3>4
  <2> QED
    BY <2>1, <2>2
<1>4. PartialLine(w) = After(w, p + last(v)) /\ PartialLine(v) = After(v, last(v))
  BY <1>3 DEF PartialLine, last
<1> QED
  BY <1>2, <1>4, AfterSecond DEF w

-----------------------------------------------------------------------------
(* The headers of two byte strings, one after the other.                    *)

LEMMA AddHeadersIs ==
  ASSUME NEW h, NEW s, NEW ends
  PROVE  \A p : p \in AddHeaders(h, s, ends) <=>
           \/ p \in h /\ \A i \in ends : HeaderName(LineAt(s, i)) # p[1]
           \/ \E i \in ends :
                /\ p = <<HeaderName(LineAt(s, i)), HeaderValue(LineAt(s, i))>>
                /\ \A j \in ends : j > i => HeaderName(LineAt(s, j)) # HeaderName(LineAt(s, i))
BY DEF AddHeaders

\* Only the lines that are read matter.
LEMMA HeadersOfFirst ==
  ASSUME NEW h, NEW u \in Bytes, NEW v \in Bytes, NEW ends \in SUBSET LineEnds(u)
  PROVE  AddHeaders(h, u \o v, ends) = AddHeaders(h, u, ends)
<1>1. \A i \in ends : LineAt(u \o v, i) = LineAt(u, i)
  BY LineOfFirst
<1> QED
  BY <1>1 DEF AddHeaders

\* Later lines are added to what earlier ones have left.
LEMMA HeadersOfBoth ==
  ASSUME NEW h, NEW u \in Bytes, EndsALine(u), NEW v \in Bytes,
         NEW D \in SUBSET LineEnds(u), NEW E \in SUBSET LineEnds(v)
  PROVE  AddHeaders(h, u \o v, D \cup {Len(u) + k : k \in E})
           = AddHeaders(AddHeaders(h, u, D), v, E)
<1> DEFINE p == Len(u)
           w == u \o v
           F == {p + k : k \in E}
           nu(i) == HeaderName(LineAt(u, i))
           xu(i) == HeaderValue(LineAt(u, i))
           nv(k) == HeaderName(LineAt(v, k))
           xv(k) == HeaderValue(LineAt(v, k))
           nw(i) == HeaderName(LineAt(w, i))
           xw(i) == HeaderValue(LineAt(w, i))
<1>1. p \in Nat /\ D \subseteq 1 .. p /\ E \subseteq Nat \ {0}
  BY Marks
<1>2. \A i \in D : nw(i) = nu(i) /\ xw(i) = xu(i)
  BY LineOfFirst
<1>3. \A k \in E : nw(p + k) = nv(k) /\ xw(p + k) = xv(k)
  BY LineOfSecond
<1>4. /\ \A i \in D : \A k \in E : p + k > i /\ ~ (i > p + k)
      /\ \A k, l \in E : p + k > p + l <=> k > l
  BY <1>1
<1>5. ASSUME NEW q
      PROVE  /\ q \in AddHeaders(h, w, D \cup F) <=>
                 \/ q \in h /\ \A i \in D \cup F : nw(i) # q[1]
                 \/ \E i \in D \cup F :
                      /\ q = <<nw(i), xw(i)>>
                      /\ \A j \in D \cup F : j > i => nw(j) # nw(i)
             /\ q \in AddHeaders(AddHeaders(h, u, D), v, E) <=>
                 \/ q \in AddHeaders(h, u, D) /\ \A k \in E : nv(k) # q[1]
                 \/ \E k \in E : /\ q = <<nv(k), xv(k)>>
                                 /\ \A l \in E : l > k => nv(l) # nv(k)
             /\ q \in AddHeaders(h, u, D) <=>
                 \/ q \in h /\ \A i \in D : nu(i) # q[1]
                 \/ \E i \in D : /\ q = <<nu(i), xu(i)>>
                                 /\ \A j \in D : j > i => nu(j) # nu(i)
  BY AddHeadersIs
<1> HIDE DEF nu, xu, nv, xv, nw, xw, p
<1>6. ASSUME NEW q
      PROVE  q \in AddHeaders(h, w, D \cup F) <=>
                 \/ /\ q \in h
                    /\ \A i \in D : nu(i) # q[1]
                    /\ \A k \in E : nv(k) # q[1]
                 \/ \E i \in D : /\ q = <<nu(i), xu(i)>>
                                 /\ \A j \in D : j > i => nu(j) # nu(i)
                                 /\ \A k \in E : nv(k) # nu(i)
                 \/ \E k \in E : /\ q = <<nv(k), xv(k)>>
                                 /\ \A l \in E : l > k => nv(l) # nv(k)
  <2>1. (\A i \in D \cup F : nw(i) # q[1])
          <=> (\A i \in D : nu(i) # q[1]) /\ (\A k \in E : nv(k) # q[1])
    BY <1>2, <1>3
  <2>2. ASSUME NEW i \in D
        PROVE  (\A j \in D \cup F : j > i => nw(j) # nw(i))
               <=> (\A j \in D : j > i => nu(j) # nu(i)) /\ (\A k \in E : nv(k) # nu(i))
    BY <1>2, <1>3, <1>4
  <2>3. ASSUME NEW k \in E
        PROVE  (\A j \in D \cup F : j > p + k => nw(j) # nw(p + k))
               <=> \A l \in E : l > k => nv(l) # nv(k)
    BY <1>2, <1>3, <1>4
  <2>4. (\E i \in D \cup F : q = <<nw(i), xw(i)>>
                             /\ \A j \in D \cup F : j > i => nw(j) # nw(i))
        <=> \/ \E i \in D : q = <<nw(i), xw(i)>>
                            /\ \A j \in D \cup F : j > i => nw(j) # nw(i)
            \/ \E k \in E : q = <<nw(p + k), xw(p + k)>>
                            /\ \A j \in D \cup F : j > p + k => nw(j) # nw(p + k)
    OBVIOUS
  <2> HIDE DEF F, w
  <2>5. (\E i \in D : q = <<nw(i), xw(i)>> /\ \A j \in D \cup F : j > i => nw(j) # nw(i))
        <=> \E i \in D : /\ q = <<nu(i), xu(i)>>
                         /\ \A j \in D : j > i => nu(j) # nu(i)
                         /\ \A k \in E : nv(k) # nu(i)
    BY <1>2, <2>2
  <2>6. (\E k \in E : q = <<nw(p + k), xw(p + k)>>
                      /\ \A j \in D \cup F : j > p + k => nw(j) # nw(p + k))
        <=> \E k \in E : /\ q = <<nv(k), xv(k)>>
                         /\ \A l \in E : l > k => nv(l) # nv(k)
    BY <1>3, <2>3
  <2> QED
    BY <1>5, <2>1, <2>4, <2>5, <2>6
<1>7. ASSUME NEW q
      PROVE  q \in AddHeaders(AddHeaders(h, u, D), v, E) <=>
                 \/ /\ q \in h
                    /\ \A i \in D : nu(i) # q[1]
                    /\ \A k \in E : nv(k) # q[1]
                 \/ \E i \in D : /\ q = <<nu(i), xu(i)>>
                                 /\ \A j \in D : j > i => nu(j) # nu(i)
                                 /\ \A k \in E : nv(k) # nu(i)
                 \/ \E k \in E : /\ q = <<nv(k), xv(k)>>
                                 /\ \A l \in E : l > k => nv(l) # nv(k)
  <2>1. \A i : q = <<nu(i), xu(i)>> => q[1] = nu(i)
    OBVIOUS
  <2>2. (/\ \E i \in D : /\ q = <<nu(i), xu(i)>>
                        /\ \A j \in D : j > i => nu(j) # nu(i)
         /\ \A k \in E : nv(k) # q[1])
        <=> \E i \in D : /\ q = <<nu(i), xu(i)>>
                         /\ \A j \in D : j > i => nu(j) # nu(i)
                         /\ \A k \in E : nv(k) # nu(i)
    BY <2>1
  <2> QED
    BY <1>5, <2>2
<1>8. \A q : q \in AddHeaders(h, w, D \cup F) <=> q \in AddHeaders(AddHeaders(h, u, D), v, E)
  BY <1>6, <1>7
<1>9. AddHeaders(h, w, D \cup F) = AddHeaders(AddHeaders(h, u, D), v, E)
  <2> HIDE DEF w, F
  <2> DEFINE A == AddHeaders(h, w, D \cup F)
             B == AddHeaders(AddHeaders(h, u, D), v, E)
  <2>1. \A q : q \in A <=> q \in B
    BY <1>8
  <2>2. A = {q \in A : TRUE} /\ B = {q \in B : TRUE}
    OBVIOUS
  <2> QED
    BY <2>1, <2>2 DEF AddHeaders
<1> QED
  BY <1>9 DEF w, F, p

-----------------------------------------------------------------------------
(* Where the headers stop.                                                  *)

Stops(s) == {i \in LineEnds(s) : IsBlank(LineAt(s, i)) \/ IsBadHeader(LineAt(s, i))}

ReadLines(s) == {i \in LineEnds(s) : \A j \in Stops(s) : i < j}

HeadersRead(m, s, ends) == [m EXCEPT !.headers = AddHeaders(@, s, ends)]

LEMMA HeadersAre ==
  ASSUME NEW m, NEW s
  PROVE  ParseHeaders(m, s) =
           LET got == HeadersRead(m, s, ReadLines(s))
               stop == Min(Stops(s))
               done == [got EXCEPT !.parser_state = AfterHeaders(m)]
           IN  IF Stops(s) = {}
               THEN Returns([got EXCEPT !.residual = KeepResidual(@, PartialLine(s))])
               ELSE IF IsBadHeader(LineAt(s, stop)) THEN Raises(got)
               ELSE IF done.parser_state = "BODY"
                    THEN ParseBody(done, After(s, stop))
                    ELSE Returns(done)
BY DEF ParseHeaders, Stops, ReadLines, HeadersRead

LEMMA StopsAre ==
  ASSUME NEW s \in Bytes
  PROVE  /\ Stops(s) \subseteq LineEnds(s) /\ ReadLines(s) \subseteq LineEnds(s)
         /\ LineEnds(s) \subseteq 1 .. Len(s)
         /\ Stops(s) = {} => ReadLines(s) = LineEnds(s)
         /\ Stops(s) # {} => /\ Min(Stops(s)) \in Stops(s)
                             /\ \A j \in Stops(s) : Min(Stops(s)) <= j
<1>1. Stops(s) \subseteq LineEnds(s) /\ LineEnds(s) \subseteq 1 .. Len(s)
  BY Marks DEF Stops
<1>2. Stops(s) \in SUBSET Nat
  BY <1>1
<1> QED
  BY <1>1, <1>2, MinNat DEF ReadLines

LEMMA LeastIs ==
  ASSUME NEW S \in SUBSET Nat, NEW n \in S, \A y \in S : n <= y
  PROVE  Min(S) = n
<1>1. Min(S) \in S /\ \A y \in S : Min(S) <= y
  BY MinNat
<1> DEFINE k == Min(S)
<1>2. k \in Nat /\ n \in Nat /\ k <= n /\ n <= k
  BY <1>1
<1> HIDE DEF k
<1>3. k = n
  BY <1>2
<1> QED
  BY <1>3 DEF k

LEMMA StopsOfBoth ==
  ASSUME NEW u \in Bytes, NEW v \in Bytes
  PROVE  /\ \A i \in 1 .. Len(u) : i \in Stops(u \o v) <=> i \in Stops(u)
         /\ EndsALine(u) =>
              \A k \in 1 .. Len(v) : Len(u) + k \in Stops(u \o v) <=> k \in Stops(v)
<1>1. ASSUME NEW i \in 1 .. Len(u) PROVE i \in Stops(u \o v) <=> i \in Stops(u)
  BY LineEndsOfBoth, LineOfFirst DEF Stops
<1>2. ASSUME EndsALine(u), NEW k \in 1 .. Len(v)
      PROVE  Len(u) + k \in Stops(u \o v) <=> k \in Stops(v)
  BY <1>2, LineEndsOfBoth, LineOfSecond DEF Stops
<1> QED
  BY <1>1, <1>2

\* What comes after the stop is only a body.
LEMMA StoppedInFirst ==
  ASSUME NEW u \in Bytes, NEW v \in Bytes, Stops(u) # {}
  PROVE  /\ Stops(u \o v) # {}
         /\ Min(Stops(u \o v)) = Min(Stops(u))
         /\ ReadLines(u \o v) = ReadLines(u)
<1> DEFINE n == Min(Stops(u))
           w == u \o v
<1>1. /\ n \in Stops(u) /\ n \in 1 .. Len(u) /\ \A j \in Stops(u) : n <= j
      /\ Len(u) \in Nat /\ w \in Bytes
  BY StopsAre, ConcatIs
<1>2. /\ Stops(w) \subseteq LineEnds(w) /\ LineEnds(w) \subseteq 1 .. Len(w)
      /\ LineEnds(u) \subseteq 1 .. Len(u)
  BY <1>1, StopsAre
<1>3. /\ \A i \in 1 .. Len(u) : i \in Stops(w) <=> i \in Stops(u)
      /\ \A i \in 1 .. Len(u) : i \in LineEnds(w) <=> i \in LineEnds(u)
  BY StopsOfBoth, LineEndsOfBoth
<1> HIDE DEF n, w
<1>4. n \in Stops(w)
  BY <1>1, <1>3
<1>5. ASSUME NEW j \in Stops(w) PROVE n <= j
  <2>1. CASE j \in 1 .. Len(u)
    BY <1>1, <1>3, <2>1
  <2>2. CASE j \notin 1 .. Len(u)
    <3>1. j \in Nat \ {0}
      BY <1>2
    <3> QED
      BY <1>1, <2>2, <3>1
  <2> QED
    BY <2>1, <2>2
<1>6. Min(Stops(w)) = n
  <2>1. Stops(w) \in SUBSET Nat
    BY <1>2
  <2> QED
    BY <1>4, <1>5, <2>1, LeastIs
<1>7. ASSUME NEW i PROVE i \in ReadLines(w) <=> i \in LineEnds(w) /\ i < n
  BY <1>1, <1>2, <1>4, <1>5 DEF ReadLines
<1>8. ASSUME NEW i PROVE i \in ReadLines(u) <=> i \in LineEnds(u) /\ i < n
  BY <1>1, <1>2 DEF ReadLines
<1>9. ReadLines(w) \subseteq ReadLines(u)
  <2>1. ASSUME NEW i \in ReadLines(w) PROVE i \in LineEnds(u) /\ i < n
    <3>1. i \in LineEnds(w) /\ i < n /\ i \in 1 .. Len(w)
      BY <1>2, <1>7
    <3>2. i \in 1 .. Len(u)
      BY <1>1, <3>1
    <3> QED
      BY <1>3, <3>1, <3>2
  <2> QED
    BY <1>8, <2>1
<1>10. ReadLines(u) \subseteq ReadLines(w)
  BY <1>2, <1>3, <1>7, <1>8
<1> QED
  BY <1>4, <1>6, <1>9, <1>10 DEF n, w

LEMMA StoppedInSecond ==
  ASSUME NEW u \in Bytes, EndsALine(u), Stops(u) = {}, NEW v \in Bytes
  PROVE  /\ Stops(u \o v) = {} <=> Stops(v) = {}
         /\ Stops(v) # {} => Min(Stops(u \o v)) = Len(u) + Min(Stops(v))
         /\ ReadLines(u \o v) = LineEnds(u) \cup {Len(u) + k : k \in ReadLines(v)}
<1> DEFINE p == Len(u)
           w == u \o v
<1>1. /\ p \in Nat /\ Len(v) \in Nat /\ w \in Bytes /\ Len(w) = p + Len(v)
      /\ Stops(w) \subseteq LineEnds(w) /\ LineEnds(w) \subseteq 1 .. Len(w)
      /\ Stops(v) \subseteq LineEnds(v) /\ LineEnds(v) \subseteq 1 .. Len(v)
      /\ LineEnds(u) \subseteq 1 .. p /\ ReadLines(v) \subseteq LineEnds(v)
  BY StopsAre, ConcatIs
<1>2. /\ \A i \in 1 .. p : i \notin Stops(w)
      /\ \A k \in 1 .. Len(v) : p + k \in Stops(w) <=> k \in Stops(v)
      /\ \A i \in 1 .. p : i \in LineEnds(w) <=> i \in LineEnds(u)
      /\ \A k \in 1 .. Len(v) : p + k \in LineEnds(w) <=> k \in LineEnds(v)
      /\ \A i \in LineEnds(w) : i \in LineEnds(u) \/ \E k \in LineEnds(v) : i = p + k
  BY StopsOfBoth, LineEndsOfBoth
<1> HIDE DEF p, w
<1>3. ASSUME NEW i \in Stops(w) PROVE \E k \in Stops(v) : i = p + k
  <2>1. i \notin LineEnds(u)
    BY <1>1, <1>2
  <2>2. PICK k \in LineEnds(v) : i = p + k
    BY <1>1, <1>2, <2>1
  <2> QED
    BY <1>1, <1>2, <2>2
<1>4. \A k \in Stops(v) : p + k \in Stops(w)
  BY <1>1, <1>2
<1>5. Stops(w) = {} <=> Stops(v) = {}
  BY <1>3, <1>4
<1>6. ASSUME Stops(v) # {} PROVE Min(Stops(w)) = p + Min(Stops(v))
  <2>1. Min(Stops(v)) \in Stops(v) /\ \A k \in Stops(v) : Min(Stops(v)) <= k
    BY <1>6, StopsAre
  <2> DEFINE n == Min(Stops(v))
  <2> HIDE DEF n
  <2>2. p + n \in Stops(w)
    BY <1>4, <2>1 DEF n
  <2>3. ASSUME NEW i \in Stops(w) PROVE p + n <= i
    <3>1. PICK k \in Stops(v) : i = p + k
      BY <1>3
    <3>2. n <= k /\ n \in Nat /\ k \in Nat
      BY <1>1, <2>1 DEF n
    <3> QED
      BY <1>1, <3>1, <3>2
  <2>4. Stops(w) \in SUBSET Nat
    BY <1>1
  <2> QED
    BY <2>2, <2>3, <2>4, LeastIs DEF n
<1>7. ASSUME NEW i \in LineEnds(u) PROVE i \in ReadLines(w)
  <2>1. i \in LineEnds(w) /\ i \in 1 .. p
    BY <1>1, <1>2
  <2>2. ASSUME NEW j \in Stops(w) PROVE i < j
    <3>1. PICK k \in Stops(v) : j = p + k
      BY <1>3
    <3>2. k \in Nat \ {0}
      BY <1>1
    <3> QED
      BY <1>1, <2>1, <3>1, <3>2
  <2> QED
    BY <2>1, <2>2 DEF ReadLines
<1>8. ASSUME NEW k \in LineEnds(v) PROVE p + k \in ReadLines(w) <=> k \in ReadLines(v)
  <2>1. p + k \in LineEnds(w) /\ k \in Nat
    BY <1>1, <1>2
  <2>2. (\A j \in Stops(w) : p + k < j) <=> \A l \in Stops(v) : p + k < p + l
    BY <1>3, <1>4
  <2>3. \A l \in Stops(v) : p + k < p + l <=> k < l
    BY <1>1, <2>1
  <2> QED
    BY <2>1, <2>2, <2>3 DEF ReadLines
<1>9. ReadLines(w) \subseteq LineEnds(w)
  BY <1>1, StopsAre
<1>10. ReadLines(w) = LineEnds(u) \cup {p + k : k \in ReadLines(v)}
  <2>1. ASSUME NEW i \in ReadLines(w)
        PROVE  i \in LineEnds(u) \cup {p + k : k \in ReadLines(v)}
    <3>1. CASE i \in LineEnds(u)
      BY <3>1
    <3>2. ASSUME NEW k \in LineEnds(v), i = p + k
          PROVE  i \in {p + l : l \in ReadLines(v)}
      BY <1>8, <3>2
    <3> QED
      BY <1>2, <1>9, <3>1, <3>2
  <2>2. ASSUME NEW i \in LineEnds(u) \cup {p + k : k \in ReadLines(v)}
        PROVE  i \in ReadLines(w)
    BY <1>1, <1>7, <1>8
  <2> QED
    BY <2>1, <2>2
<1> QED
  BY <1>5, <1>6, <1>10 DEF p, w

-----------------------------------------------------------------------------
(* A message in two pieces.                                                 *)

\* the result r of parsing with nothing kept, when x was kept instead: what is
\* kept is only ever replaced by the next partial line
Keeping(r, x) ==
  [m      |-> [r.m EXCEPT !.residual = KeepResidual(x, @)],
   raised |-> r.raised]

LEMMA KeepingIs ==
  ASSUME NEW m, NEW x
  PROVE  LET n == [m EXCEPT !.residual = KeepResidual(x, m.residual)]
         IN  /\ Keeping(Returns(m), x) = Returns(n)
             /\ Keeping(Raises(m), x) = Raises(n)
BY DEF Keeping, Returns, Raises

LEMMA KeepNothing ==
  ASSUME NEW r, NEW m \in Message, NEW b, r = [m |-> m, raised |-> b]
  PROVE  Keeping(r, <<>>) = r
<1>1. KeepResidual(<<>>, m.residual) = m.residual
  BY DEF KeepResidual
<1>2. [m EXCEPT !.residual = m.residual] = m
  BY DEF Message
<1> QED
  BY <1>1, <1>2 DEF Keeping

LEMMA HeadersReadIs ==
  ASSUME NEW m \in Message, NEW s \in Bytes, NEW ends \in SUBSET LineEnds(s),
         ends \cap Stops(s) = {}
  PROVE  /\ HeadersRead(m, s, ends) \in Message
         /\ AddHeaders(m.headers, s, ends) \in SUBSET (Bytes \X Bytes)
<1>1. \A i \in ends : Colons(LineAt(s, i)) # {}
  BY DEF Stops, IsBadHeader
<1>2. AddHeaders(m.headers, s, ends) \in SUBSET (Bytes \X Bytes)
  <2>1. m.headers \in SUBSET (Bytes \X Bytes)
    BY DEF Message
  <2> QED
    BY <1>1, <2>1, AddHeadersType
<1> QED
  BY <1>2 DEF HeadersRead, Message

LEMMA ReadIsNoStop ==
  ASSUME NEW s \in Bytes
  PROVE  ReadLines(s) \in SUBSET LineEnds(s) /\ ReadLines(s) \cap Stops(s) = {}
<1>1. \A i \in LineEnds(s) : ~ (i < i)
  BY Marks
<1> QED
  BY <1>1 DEF ReadLines

\* What was kept makes no difference to what the headers are.
LEMMA HeadersKeep ==
  ASSUME NEW m \in Message, m.residual = <<>>, NEW x \in Bytes, NEW s \in Bytes
  PROVE  ParseHeaders([m EXCEPT !.residual = x], s) = Keeping(ParseHeaders(m, s), x)
<1> DEFINE n    == [m EXCEPT !.residual = x]
           H    == AddHeaders(m.headers, s, ReadLines(s))
           got  == [m EXCEPT !.headers = H]
           nGot == [n EXCEPT !.headers = H]
<1>1. n \in Message /\ n.headers = m.headers
      /\ n.message_type = m.message_type /\ n.method = m.method
  BY DEF Message
<1>2. HeadersRead(m, s, ReadLines(s)) = got /\ HeadersRead(n, s, ReadLines(s)) = nGot
  BY <1>1 DEF HeadersRead
<1>3. got \in Message /\ nGot \in Message
  <2> HIDE DEF n
  <2> QED
    BY <1>1, <1>2, ReadIsNoStop, HeadersReadIs
<1>4. nGot = [got EXCEPT !.residual = x] /\ got.residual = <<>> /\ got.body = m.body
  BY DEF Message
<1>5. AfterHeaders(n) = AfterHeaders(m)
  BY <1>1 DEF AfterHeaders
<1> HIDE DEF n, got, nGot
<1>6. KeepResidual(x, <<>>) = x /\ \A y : KeepResidual(<<>>, y) = y
  BY DEF KeepResidual
<1>7. ASSUME Stops(s) = {}
      PROVE  ParseHeaders(n, s) = Keeping(ParseHeaders(m, s), x)
  <2>1. ParseHeaders(m, s) = Returns([got EXCEPT !.residual = PartialLine(s)])
    BY <1>2, <1>4, <1>6, <1>7, HeadersAre
  <2>2. ParseHeaders(n, s)
          = Returns([nGot EXCEPT !.residual = KeepResidual(x, PartialLine(s))])
    <3>1. nGot.residual = x
      BY <1>3, <1>4 DEF Message
    <3> QED
      BY <1>2, <1>7, <3>1, HeadersAre
  <2>3. [nGot EXCEPT !.residual = KeepResidual(x, PartialLine(s))]
          = [[got EXCEPT !.residual = PartialLine(s)]
               EXCEPT !.residual = KeepResidual(x, PartialLine(s))]
    BY <1>3, <1>4 DEF Message
  <2> DEFINE kept == [got EXCEPT !.residual = PartialLine(s)]
  <2>4. kept.residual = PartialLine(s)
    BY <1>3 DEF Message
  <2> HIDE DEF kept
  <2>5. Keeping(Returns(kept), x)
          = Returns([kept EXCEPT !.residual = KeepResidual(x, PartialLine(s))])
    BY <2>4, KeepingIs
  <2> QED
    BY <2>1, <2>2, <2>3, <2>5 DEF kept
<1>8. ASSUME Stops(s) # {}, IsBadHeader(LineAt(s, Min(Stops(s))))
      PROVE  ParseHeaders(n, s) = Keeping(ParseHeaders(m, s), x)
  <2>1. ParseHeaders(m, s) = Raises(got) /\ ParseHeaders(n, s) = Raises(nGot)
    BY <1>2, <1>8, HeadersAre
  <2>2. Keeping(Raises(got), x) = Raises([got EXCEPT !.residual = x])
    BY <1>4, <1>6, KeepingIs
  <2> QED
    BY <1>4, <2>1, <2>2
<1>9. ASSUME Stops(s) # {}, ~ IsBadHeader(LineAt(s, Min(Stops(s))))
      PROVE  ParseHeaders(n, s) = Keeping(ParseHeaders(m, s), x)
  <2> DEFINE done  == [got EXCEPT !.parser_state = AfterHeaders(m)]
             nDone == [nGot EXCEPT !.parser_state = AfterHeaders(m)]
             rest  == After(s, Min(Stops(s)))
  <2>1. /\ done.parser_state = AfterHeaders(m) /\ nDone.parser_state = AfterHeaders(m)
        /\ done.residual = <<>> /\ nDone = [done EXCEPT !.residual = x]
        /\ nDone.body = done.body /\ done \in [DOMAIN done -> {done[f] : f \in DOMAIN done}]
    BY <1>3, <1>4 DEF Message
  <2>2. CASE AfterHeaders(m) = "BODY"
    <3>1. /\ ParseHeaders(m, s) = ParseBody(done, rest)
          /\ ParseHeaders(n, s) = ParseBody(nDone, rest)
      BY <1>2, <1>5, <1>9, <2>1, <2>2, HeadersAre
    <3>2. [nDone EXCEPT !.body = done.body \o rest]
            = [[done EXCEPT !.body = done.body \o rest] EXCEPT !.residual = x]
      BY <1>3, <1>4 DEF Message
    <3>3. [done EXCEPT !.body = done.body \o rest].residual = <<>>
      BY <1>3, <1>4 DEF Message
    <3> DEFINE full == [done EXCEPT !.body = done.body \o rest]
    <3>4. ParseBody(done, rest) = Returns(full)
          /\ ParseBody(nDone, rest) = Returns([full EXCEPT !.residual = x])
      BY <2>1, <3>2 DEF ParseBody
    <3> HIDE DEF done, nDone, rest, full
    <3>5. full.residual = <<>>
      BY <3>3 DEF full
    <3>6. Keeping(Returns(full), x) = Returns([full EXCEPT !.residual = x])
      BY <1>6, <3>5, KeepingIs
    <3> QED
      BY <3>1, <3>4, <3>6
  <2>3. CASE AfterHeaders(m) # "BODY"
    <3>1. ParseHeaders(m, s) = Returns(done) /\ ParseHeaders(n, s) = Returns(nDone)
      BY <1>2, <1>5, <1>9, <2>1, <2>3, HeadersAre
    <3> HIDE DEF done, nDone
    <3>2. Keeping(Returns(done), x) = Returns([done EXCEPT !.residual = x])
      BY <1>6, <2>1, KeepingIs
    <3> QED
      BY <2>1, <3>1, <3>2
  <2> QED
    BY <2>2, <2>3
<1> QED
  BY <1>7, <1>8, <1>9 DEF n

\* Lines that are complete and do not stop the headers can be read first.
LEMMA HeadersThen ==
  ASSUME NEW m, NEW u \in Bytes, EndsALine(u), Stops(u) = {}, NEW v \in Bytes,
         m \in Message
  PROVE  ParseHeaders(m, u \o v) = ParseHeaders(HeadersRead(m, u, LineEnds(u)), v)
<1> DEFINE p == Len(u)
           w == u \o v
           n == HeadersRead(m, u, LineEnds(u))
           got == HeadersRead(n, v, ReadLines(v))
<1>1. /\ Stops(w) = {} <=> Stops(v) = {}
      /\ Stops(v) # {} => Min(Stops(w)) = p + Min(Stops(v))
      /\ ReadLines(w) = LineEnds(u) \cup {p + k : k \in ReadLines(v)}
  BY StoppedInSecond
<1>2. HeadersRead(m, w, ReadLines(w)) = got
  <2>1. ReadLines(v) \in SUBSET LineEnds(v)
    BY ReadIsNoStop
  <2>2. AddHeaders(m.headers, w, ReadLines(w))
          = AddHeaders(AddHeaders(m.headers, u, LineEnds(u)), v, ReadLines(v))
    BY <1>1, <2>1, HeadersOfBoth
  <2>3. n.headers = AddHeaders(m.headers, u, LineEnds(u))
    BY DEF HeadersRead, Message
  <2>4. got = [n EXCEPT !.headers = AddHeaders(m.headers, w, ReadLines(w))]
    BY <2>2, <2>3 DEF HeadersRead
  <2> HIDE DEF w
  <2> QED
    BY <2>4 DEF HeadersRead, Message
<1>3. PartialLine(w) = PartialLine(v)
  BY PartialOfBoth
<1>4. AfterHeaders(n) = AfterHeaders(m)
  BY DEF AfterHeaders, HeadersRead, Message
<1>5. ASSUME Stops(v) # {}
      PROVE  /\ LineAt(w, Min(Stops(w))) = LineAt(v, Min(Stops(v)))
             /\ After(w, Min(Stops(w))) = After(v, Min(Stops(v)))
  <2>1. Min(Stops(v)) \in LineEnds(v) /\ Min(Stops(v)) \in 0 .. Len(v)
    BY <1>5, StopsAre, Marks
  <2> QED
    BY <1>1, <1>5, <2>1, LineOfSecond, AfterSecond
<1> HIDE DEF w, n, got, p
<1>6. ASSUME Stops(v) = {} PROVE ParseHeaders(m, w) = ParseHeaders(n, v)
  BY <1>1, <1>2, <1>3, <1>6, HeadersAre DEF got
<1>7. ASSUME Stops(v) # {} PROVE ParseHeaders(m, w) = ParseHeaders(n, v)
  <2> DEFINE done == [got EXCEPT !.parser_state = AfterHeaders(m)]
  <2>1. ParseHeaders(m, w) =
          IF IsBadHeader(LineAt(v, Min(Stops(v)))) THEN Raises(got)
          ELSE IF done.parser_state = "BODY"
               THEN ParseBody(done, After(v, Min(Stops(v))))
               ELSE Returns(done)
    BY <1>1, <1>2, <1>5, <1>7, HeadersAre
  <2>2. ParseHeaders(n, v) =
          IF IsBadHeader(LineAt(v, Min(Stops(v)))) THEN Raises(got)
          ELSE IF done.parser_state = "BODY"
               THEN ParseBody(done, After(v, Min(Stops(v))))
               ELSE Returns(done)
    BY <1>4, <1>7, HeadersAre DEF got
  <2> QED
    BY <2>1, <2>2
<1> QED
  BY <1>6, <1>7 DEF w, n

LEMMA LastPart ==
  ASSUME NEW s \in Bytes
  PROVE  LET n == Max({0} \cup LineEnds(s))
         IN  /\ n \in 0 .. Len(s)
             /\ EndsALine(SubSeq(s, 1, n))
             /\ SubSeq(s, 1, n) \in Bytes
             /\ PartialLine(s) = After(s, n)
             /\ PartialLine(s) \in Bytes
             /\ SubSeq(s, 1, n) \o PartialLine(s) = s
             /\ LineEnds(SubSeq(s, 1, n)) = LineEnds(s)
<1> DEFINE n == Max({0} \cup LineEnds(s))
           u == SubSeq(s, 1, n)
<1>1. {0} \cup LineEnds(s) \in SUBSET (0 .. Len(s)) /\ Len(s) \in Nat
  BY Marks
<1>2. n \in 0 .. Len(s) /\ n \in {0} \cup LineEnds(s) /\ \A i \in LineEnds(s) : i <= n
  BY <1>1, MaxUpTo
<1> HIDE DEF n
<1>3. u \in Bytes /\ Len(u) = n /\ After(s, n) \in Bytes /\ u \o After(s, n) = s
  BY <1>2, Halves
<1>4. \A i \in 1 .. n : i \in LineEnds(s) <=> i \in LineEnds(u)
  <2> HIDE DEF u
  <2> QED
    BY <1>3, LineEndsOfBoth
<1>5. LineEnds(u) = LineEnds(s)
  <2>1. LineEnds(u) \subseteq 1 .. n /\ LineEnds(s) \subseteq 1 .. n
    <3>1. LineEnds(u) \subseteq 1 .. n
      BY <1>3, Marks
    <3>2. LineEnds(s) \subseteq 1 .. Len(s)
      BY Marks
    <3> HIDE DEF u
    <3>3. \A i \in LineEnds(s) : i \in 1 .. n
      BY <1>1, <1>2, <3>2
    <3> QED
      BY <3>1, <3>3
  <2> QED
    BY <1>4, <2>1
<1>6. EndsALine(u)
  <2>1. CASE n = 0
    BY <1>3, <2>1, EmptySeq DEF EndsALine, Bytes
  <2>2. CASE n \in LineEnds(s)
    <3> HIDE DEF u
    <3>1. n \in LineEnds(u)
      BY <1>5, <2>2
    <3> QED
      BY <1>3, <3>1, LineEndsIs DEF EndsALine
  <2> QED
    BY <1>2, <2>1, <2>2
<1> QED
  BY <1>2, <1>3, <1>5, <1>6 DEF PartialLine, n, u

\* The rest of a header section, in two pieces.
LEMMA HeadersInPieces ==
  ASSUME NEW m \in Message, m.residual = <<>>, m.parser_state = "HEADERS",
         NEW s \in Bytes, NEW c \in Bytes
  PROVE  LET r == ParseHeaders(m, s)
             w == ParseHeaders(m, s \o c)
         IN  /\ r.raised => w.raised
             /\ Stops(s) = {} => /\ ~ r.raised
                                 /\ r.m.parser_state = "HEADERS"
                                 /\ r.m.residual = PartialLine(s)
                                 /\ ParseHeaders(r.m, r.m.residual \o c)
                                      = Keeping(w, r.m.residual)
             /\ Stops(s) # {} /\ ~ r.raised =>
                  /\ r.m.residual = <<>>
                  /\ r.m.parser_state \in {"BODY", "END"}
                  /\ r.m.parser_state = "BODY" => w = ParseBody(r.m, c)
<1> DEFINE r == ParseHeaders(m, s)
           w == ParseHeaders(m, s \o c)
<1>1. CASE Stops(s) = {}
  <2> DEFINE n == Max({0} \cup LineEnds(s))
             u == SubSeq(s, 1, n)
             x == PartialLine(s)
             got == HeadersRead(m, s, LineEnds(s))
  <2>1. /\ n \in 0 .. Len(s) /\ EndsALine(u) /\ u \in Bytes /\ x \in Bytes
        /\ u \o x = s /\ LineEnds(u) = LineEnds(s)
    BY LastPart
  <2>2. got \in Message /\ got.residual = <<>> /\ got.parser_state = "HEADERS"
    <3>1. got \in Message
      BY <1>1, HeadersReadIs
    <3> QED
      BY <3>1 DEF HeadersRead, Message
  <2>3. r = Returns([got EXCEPT !.residual = x])
    <3>1. ReadLines(s) = LineEnds(s)
      BY <1>1, StopsAre
    <3>2. KeepResidual(<<>>, x) = x
      BY DEF KeepResidual
    <3> HIDE DEF x
    <3> QED
      BY <1>1, <2>2, <3>1, <3>2, HeadersAre DEF x
  <2>4. Stops(u) = {}
    <3> HIDE DEF u, n, x
    <3>1. \A i \in LineEnds(u) : LineAt(s, i) = LineAt(u, i)
      BY <2>1, LineOfFirst
    <3> QED
      BY <1>1, <2>1, <3>1 DEF Stops
  <2>5. HeadersRead(m, u, LineEnds(u)) = got
    <3> HIDE DEF u, n, x
    <3>1. AddHeaders(m.headers, s, LineEnds(u)) = AddHeaders(m.headers, u, LineEnds(u))
      <4>1. AddHeaders(m.headers, u \o x, LineEnds(u)) = AddHeaders(m.headers, u, LineEnds(u))
        <5>1. u \in Bytes /\ x \in Bytes /\ LineEnds(u) \in SUBSET LineEnds(u)
          BY <2>1
        <5> QED
          BY <5>1, HeadersOfFirst
      <4> QED
        BY <2>1, <4>1
    <3> QED
      BY <2>1, <3>1 DEF HeadersRead
  <2>6. w = ParseHeaders(got, x \o c)
    <3> HIDE DEF u, n, x, got
    <3>1. x \o c \in Bytes
      BY <2>1, ConcatIs
    <3>2. (u \o x) \o c = u \o (x \o c)
      <4>1. u \in Seq(Byte) /\ x \in Seq(Byte) /\ c \in Seq(Byte)
        BY <2>1 DEF Bytes
      <4> QED
        BY <4>1, ConcatAssociative
    <3>3. s \o c = u \o (x \o c)
      BY <2>1, <3>2
    <3>4. ParseHeaders(m, u \o (x \o c)) = ParseHeaders(got, x \o c)
      BY <2>1, <2>4, <2>5, <3>1, HeadersThen
    <3> QED
      BY <3>3, <3>4
  <2>7. ParseHeaders([got EXCEPT !.residual = x], x \o c)
          = Keeping(ParseHeaders(got, x \o c), x)
    <3> HIDE DEF u, n, x, got
    <3>1. x \o c \in Bytes
      BY <2>1, ConcatIs
    <3> QED
      BY <2>1, <2>2, <3>1, HeadersKeep
  <2>8. /\ ~ r.raised /\ r.m = [got EXCEPT !.residual = x]
        /\ r.m.parser_state = "HEADERS" /\ r.m.residual = x
    <3> HIDE DEF got, r, x
    <3> QED
      BY <2>2, <2>3 DEF Returns, Message
  <2> HIDE DEF u, n, x, got, r, w
  <2>9. ParseHeaders(r.m, r.m.residual \o c) = Keeping(w, r.m.residual)
    BY <2>6, <2>7, <2>8
  <2> QED
    BY <1>1, <2>8, <2>9 DEF r, w, x
<1>2. CASE Stops(s) # {}
  <2> DEFINE got  == HeadersRead(m, s, ReadLines(s))
             done == [got EXCEPT !.parser_state = AfterHeaders(m)]
             stop == Min(Stops(s))
  <2>1. got \in Message /\ got.residual = <<>>
    <3>1. got \in Message
      BY ReadIsNoStop, HeadersReadIs
    <3> QED
      BY <3>1 DEF HeadersRead, Message
  <2>2. HeadersRead(m, s \o c, ReadLines(s \o c)) = got
    <3>1. ReadLines(s \o c) = ReadLines(s)
      BY <1>2, StoppedInFirst
    <3>2. AddHeaders(m.headers, s \o c, ReadLines(s)) = AddHeaders(m.headers, s, ReadLines(s))
      BY ReadIsNoStop, HeadersOfFirst
    <3> QED
      BY <3>1, <3>2 DEF HeadersRead
  <2>3. /\ stop \in LineEnds(s) /\ stop \in 0 .. Len(s)
        /\ Stops(s \o c) # {} /\ Min(Stops(s \o c)) = stop
        /\ LineAt(s \o c, stop) = LineAt(s, stop)
        /\ After(s \o c, stop) = After(s, stop) \o c
    <3>1. stop \in LineEnds(s) /\ stop \in 0 .. Len(s)
      BY <1>2, StopsAre, Marks
    <3> QED
      BY <1>2, <3>1, StoppedInFirst, LineOfFirst, AfterFirst
  <2>4. done \in Message /\ done.residual = <<>>
        /\ done.parser_state = AfterHeaders(m) /\ AfterHeaders(m) \in {"BODY", "END"}
    <3>1. AfterHeaders(m) \in ParserState /\ AfterHeaders(m) \in {"BODY", "END"}
      BY DEF AfterHeaders, ParserState
    <3> HIDE DEF got
    <3> QED
      BY <2>1, <3>1 DEF Message
  <2> HIDE DEF got, done, stop
  <2>5. CASE IsBadHeader(LineAt(s, stop))
    <3>1. r = Raises(got) /\ w = Raises(got)
      BY <1>2, <2>2, <2>3, <2>5, HeadersAre DEF got, stop
    <3> HIDE DEF r, w
    <3>2. r.raised /\ w.raised
      BY <3>1 DEF Raises
    <3> QED
      BY <1>2, <3>2 DEF r, w
  <2>6. CASE ~ IsBadHeader(LineAt(s, stop)) /\ AfterHeaders(m) = "END"
    <3>1. r = Returns(done)
      BY <1>2, <2>4, <2>6, HeadersAre DEF got, stop, done
    <3> HIDE DEF r, w
    <3>2. ~ r.raised /\ r.m = done
      BY <3>1 DEF Returns
    <3> QED
      BY <1>2, <2>4, <2>6, <3>2 DEF r, w
  <2>7. CASE ~ IsBadHeader(LineAt(s, stop)) /\ AfterHeaders(m) = "BODY"
    <3>1. r = ParseBody(done, After(s, stop))
      BY <1>2, <2>4, <2>7, HeadersAre DEF got, stop, done
    <3>2. w = ParseBody(done, After(s, stop) \o c)
      BY <2>2, <2>3, <2>4, <2>7, HeadersAre DEF got, done
    <3>3. After(s, stop) \in Bytes /\ done.body \in Bytes
      BY <2>3, <2>4, AfterType, Marks DEF Message
    <3>4. (done.body \o After(s, stop)) \o c = done.body \o (After(s, stop) \o c)
      <4> DEFINE b == done.body
                 t == After(s, stop)
      <4>1. b \in Seq(Byte) /\ t \in Seq(Byte) /\ c \in Seq(Byte)
        BY <3>3 DEF Bytes
      <4> HIDE DEF b, t
      <4>2. (b \o t) \o c = b \o (t \o c)
        BY <4>1, ConcatAssociative
      <4> QED
        BY <4>2 DEF b, t
    <3> HIDE DEF r, w
    <3>5. ~ r.raised /\ r.m = [done EXCEPT !.body = @ \o After(s, stop)]
      BY <3>1 DEF ParseBody, Returns
    <3>6. /\ r.m.residual = <<>> /\ r.m.parser_state = "BODY"
          /\ r.m.body = done.body \o After(s, stop)
      BY <2>4, <2>7, <3>5 DEF Message
    <3>7. ParseBody(r.m, c) = Returns([r.m EXCEPT !.body = done.body \o (After(s, stop) \o c)])
      BY <3>4, <3>6 DEF ParseBody
    <3>8. [r.m EXCEPT !.body = done.body \o (After(s, stop) \o c)]
            = [done EXCEPT !.body = done.body \o (After(s, stop) \o c)]
      BY <2>4, <3>5 DEF Message
    <3>9. w = ParseBody(r.m, c)
      BY <3>2, <3>7, <3>8 DEF ParseBody
    <3> QED
      BY <1>2, <3>5, <3>6, <3>9 DEF r, w
  <2> QED
    BY <2>4, <2>5, <2>6, <2>7
<1> QED
  BY <1>1, <1>2

-----------------------------------------------------------------------------
(* The first line in two pieces.                                            *)

\* whether a first line can be split, and what it is split into
IsFirst(m, line) ==
  IF m.message_type = "REQUEST" THEN Cardinality(Spaces(Rstrip(line))) = 2
  ELSE ~ (Cardinality(Spaces(Rstrip(line))) < 2)

SplitFirst(m, line) ==
  IF m.message_type = "REQUEST" THEN RequestSplit(m, line) ELSE StatusSplit(m, line)

Begun(m, line) == [m EXCEPT !.start_line = line]

InBody(m) == [m EXCEPT !.parser_state = "BODY"]

NotFirst(m, begun, rest) ==
  IF m.message_type = "REQUEST" THEN Raises(begun) ELSE ParseBody(InBody(begun), rest)

LEMMA StartIs ==
  ASSUME NEW m \in Message, m.parser_state = "START", NEW s \in Bytes
  PROVE  LET line == FirstLine(s)
             begun == Begun(m, line)
             split == SplitFirst(begun, line)
             rest == After(s, Len(line))
         IN  /\ begun \in Message /\ begun.parser_state = "START"
             /\ begun.residual = m.residual /\ begun.message_type = m.message_type
             /\ ~ HasLine(s) =>
                  ParseStart(m, s) = Returns([begun EXCEPT !.residual = line])
             /\ HasLine(s) /\ IsFirst(m, line) =>
                  /\ split \in Message /\ split.parser_state = "HEADERS"
                  /\ split.residual = m.residual
                  /\ ParseStart(m, s) = ParseHeaders(split, rest)
             /\ HasLine(s) /\ ~ IsFirst(m, line) =>
                  ParseStart(m, s) = NotFirst(m, begun, rest)
<1> DEFINE line == FirstLine(s)
           begun == Begun(m, line)
           rest == After(s, Len(line))
<1>1. line \in Bytes /\ rest \in Bytes
  BY FirstLineType, AfterType
<1> HIDE DEF line
<1>2. begun \in Message /\ begun.parser_state = "START"
      /\ begun.residual = m.residual /\ begun.message_type = m.message_type
  BY <1>1 DEF Begun, Message
<1>3. ParseStart(m, s) =
        IF ~ HasLine(s) THEN Returns([begun EXCEPT !.residual = line])
        ELSE IF m.message_type = "REQUEST" THEN ParseRequestLine(begun, line, rest)
        ELSE ParseStatusLine(begun, line, rest)
  BY DEF ParseStart, Begun, line
<1> HIDE DEF begun, rest
<1>4. IF Cardinality(Spaces(Rstrip(line))) # 2
      THEN ParseRequestLine(begun, line, rest) = Raises(begun)
      ELSE /\ IsSplit(begun, RequestSplit(begun, line))
           /\ ParseRequestLine(begun, line, rest)
                = ParseHeaders(RequestSplit(begun, line), rest)
  BY <1>1, <1>2, SplitRequestLine
<1>5. IF Cardinality(Spaces(Rstrip(line))) < 2
      THEN ParseStatusLine(begun, line, rest)
             = ParseBody([begun EXCEPT !.parser_state = "BODY"], rest)
      ELSE /\ IsSplit(begun, StatusSplit(begun, line))
           /\ ParseStatusLine(begun, line, rest)
                = ParseHeaders(StatusSplit(begun, line), rest)
  BY <1>1, <1>2, SplitStatusLine
<1>6. HasLine(s) /\ IsFirst(m, line) =>
        /\ IsSplit(begun, SplitFirst(begun, line))
        /\ ParseStart(m, s) = ParseHeaders(SplitFirst(begun, line), rest)
  BY <1>2, <1>3, <1>4, <1>5 DEF IsFirst, SplitFirst
<1>7. HasLine(s) /\ ~ IsFirst(m, line) =>
        ParseStart(m, s) = NotFirst(m, begun, rest)
  BY <1>3, <1>4, <1>5 DEF IsFirst, NotFirst, InBody
<1> QED
  BY <1>2, <1>3, <1>6, <1>7 DEF IsSplit, line, begun, rest

LEMMA FirstLineIs ==
  ASSUME NEW s \in Bytes, HasLine(s)
  PROVE  /\ Min(LineEnds(s)) \in LineEnds(s)
         /\ \A i \in LineEnds(s) : Min(LineEnds(s)) <= i
         /\ Min(LineEnds(s)) \in 1 .. Len(s)
         /\ FirstLine(s) = SubSeq(s, 1, Min(LineEnds(s)))
         /\ Len(FirstLine(s)) = Min(LineEnds(s))
         /\ FirstLine(s) = LineAt(s, Min(LineEnds(s)))
<1> DEFINE n == Min(LineEnds(s))
<1>1. LineEnds(s) \in SUBSET Nat /\ LineEnds(s) \subseteq 1 .. Len(s) /\ LineEnds(s) # {}
  BY Marks DEF HasLine
<1>2. n \in LineEnds(s) /\ \A i \in LineEnds(s) : n <= i
  BY <1>1, MinNat
<1>3. n \in 1 .. Len(s) /\ n \in 0 .. Len(s)
  BY <1>1, <1>2
<1>4. FirstLine(s) = SubSeq(s, 1, n)
  BY <1>1 DEF FirstLine
<1> HIDE DEF n
<1>5. Len(SubSeq(s, 1, n)) = n
  BY <1>3, Halves
<1>6. LineAt(s, n) = SubSeq(s, 0 + 1, n)
  <2>1. 0 \in 0 .. n - 1
    BY <1>3
  <2>2. IsBegin(s, n, 0)
    <3>1. \A j \in LineEnds(s) : j \in Nat /\ n \in Nat /\ n <= j
      BY <1>1, <1>2
    <3> QED
      BY <2>1, <3>1 DEF IsBegin
  <2> QED
    BY <1>2, <2>1, <2>2, LineIs
<1> QED
  BY <1>2, <1>3, <1>4, <1>5, <1>6 DEF n

LEMMA FirstLineOfBoth ==
  ASSUME NEW s \in Bytes, HasLine(s), NEW c \in Bytes
  PROVE  /\ HasLine(s \o c)
         /\ FirstLine(s \o c) = FirstLine(s)
         /\ After(s \o c, Len(FirstLine(s))) = After(s, Len(FirstLine(s))) \o c
<1> DEFINE n == Min(LineEnds(s))
           w == s \o c
<1>1. /\ n \in LineEnds(s) /\ n \in 1 .. Len(s) /\ \A i \in LineEnds(s) : n <= i
      /\ FirstLine(s) = SubSeq(s, 1, n) /\ Len(FirstLine(s)) = n
  BY FirstLineIs
<1>2. Len(s) \in Nat /\ w \in Bytes
  BY ConcatIs
<1> HIDE DEF n
<1>3. n \in LineEnds(w)
  BY <1>1, LineOfFirst
<1>4. ASSUME NEW i \in LineEnds(w) PROVE n <= i
  <2>1. i \in Nat \ {0}
    BY <1>2, Marks
  <2>2. CASE i \in 1 .. Len(s)
    BY <1>1, <2>2, LineEndsOfBoth
  <2>3. CASE i \notin 1 .. Len(s)
    BY <1>1, <1>2, <2>1, <2>3
  <2> QED
    BY <2>2, <2>3
<1>5. Min(LineEnds(w)) = n
  <2>1. LineEnds(w) \in SUBSET Nat
    BY <1>2, Marks
  <2> QED
    BY <1>3, <1>4, <2>1, LeastIs
<1>6. FirstLine(w) = SubSeq(w, 1, n)
  BY <1>3, <1>5 DEF FirstLine
<1>7. SubSeq(w, 1, n) = SubSeq(s, 1, n)
  <2>1. 1 \in Nat \ {0} /\ n \in Int /\ n <= Len(s)
    BY <1>1, <1>2
  <2> QED
    BY <2>1, PieceOfFirst
<1>8. After(w, n) = After(s, n) \o c
  <2>1. n \in 0 .. Len(s)
    BY <1>1, <1>2
  <2> QED
    BY <2>1, AfterFirst
<1> QED
  BY <1>1, <1>3, <1>6, <1>7, <1>8 DEF HasLine, w

LEMMA WholeIs ==
  ASSUME NEW s \in Bytes
  PROVE  SubSeq(s, 1, Len(s)) = s
<1>1. Len(s) \in Nat
  BY Marks
<1>2. /\ SubSeq(s, 1, Len(s)) \in Bytes
      /\ Len(SubSeq(s, 1, Len(s))) = Len(s)
  BY <1>1, Halves
<1>3. \A k \in 1 .. Len(s) : SubSeq(s, 1, Len(s))[k] = s[k]
  BY <1>1, PieceIs
<1> QED
  BY <1>2, <1>3, SameBytes

WithResidual(m, x) == [m EXCEPT !.residual = x]

\* What was kept makes no difference to what a first line is split into.
LEMMA SplitKeep ==
  ASSUME NEW a \in Message, NEW x, NEW line
  PROVE  SplitFirst(WithResidual(a, x), line) = WithResidual(SplitFirst(a, line), x)
<1> DEFINE b == WithResidual(a, x)
<1>0. b = [a EXCEPT !.residual = x]
  BY DEF WithResidual
<1> HIDE DEF b
<1>1. b.message_type = a.message_type
  BY <1>0 DEF Message
<1>2. \A p, q, v : [b EXCEPT !.method = p, !.uri = q, !.version = v, !.parser_state = "HEADERS"]
        = [[a EXCEPT !.method = p, !.uri = q, !.version = v, !.parser_state = "HEADERS"]
             EXCEPT !.residual = x]
  BY <1>0 DEF Message
<1>3. \A v, q : [b EXCEPT !.version = v, !.status_code = q, !.parser_state = "HEADERS"]
        = [[a EXCEPT !.version = v, !.status_code = q, !.parser_state = "HEADERS"]
             EXCEPT !.residual = x]
  BY <1>0 DEF Message
<1>4. RequestSplit(b, line) = [RequestSplit(a, line) EXCEPT !.residual = x]
  BY <1>2 DEF RequestSplit
<1>5. StatusSplit(b, line) = [StatusSplit(a, line) EXCEPT !.residual = x]
  BY <1>3 DEF StatusSplit
<1> QED
  BY <1>1, <1>4, <1>5 DEF SplitFirst, WithResidual, b

LEMMA StartKeep ==
  ASSUME NEW m \in Message, m.parser_state = "START", m.residual = <<>>,
         NEW y \in Bytes, NEW x \in Bytes, NEW s \in Bytes,
         HasLine(s) \/ s # <<>> \/ x = <<>>
  PROVE  ParseStart(WithResidual(Begun(m, y), x), s)
           = Keeping(ParseStart(m, s), x)
<1> DEFINE n == WithResidual(Begun(m, y), x)
           line == FirstLine(s)
           rest == After(s, Len(line))
           a == Begun(m, line)
           b == Begun(n, line)
<1>1. n \in Message /\ n.parser_state = "START" /\ n.residual = x
      /\ n.message_type = m.message_type
  BY DEF WithResidual, Begun, Message
<1>2. b = [a EXCEPT !.residual = x]
      /\ SplitFirst(b, line) = [SplitFirst(a, line) EXCEPT !.residual = x]
  <2> HIDE DEF line
  <2>1. b = [a EXCEPT !.residual = x]
    BY DEF WithResidual, Begun, Message
  <2>2. a \in Message
    <3>1. line \in Bytes
      BY FirstLineType DEF line
    <3> QED
      BY <3>1 DEF Begun, Message
  <2> HIDE DEF a, b
  <2>3. SplitFirst(b, line) = [SplitFirst(a, line) EXCEPT !.residual = x]
    BY <2>1, <2>2, SplitKeep DEF WithResidual
  <2> QED
    BY <2>1, <2>3
<1>3. a \in Message /\ a.residual = <<>> /\ rest \in Bytes /\ line \in Bytes
  <2>1. line \in Bytes /\ rest \in Bytes
    BY FirstLineType, AfterType
  <2> HIDE DEF line, rest
  <2> QED
    BY <2>1 DEF Begun, Message
<1>4. KeepResidual(x, <<>>) = x
  BY DEF KeepResidual
<1> HIDE DEF n, rest, a, b
<1>5. CASE ~ HasLine(s)
  <2> DEFINE kept == [a EXCEPT !.residual = line]
  <2>1. ParseStart(m, s) = Returns(kept)
    BY <1>5, StartIs DEF a
  <2>2. ParseStart(n, s) = Returns([b EXCEPT !.residual = line])
    BY <1>1, <1>5, StartIs DEF b
  <2>3. KeepResidual(x, line) = line
    <3>1. line = s
      BY <1>5, WholeIs DEF FirstLine, HasLine
    <3> QED
      BY <1>5, <3>1 DEF KeepResidual
  <2>4. kept.residual = line /\ [b EXCEPT !.residual = line] = [kept EXCEPT !.residual = line]
    BY <1>2, <1>3 DEF Message
  <2> HIDE DEF kept, line
  <2>5. Keeping(Returns(kept), x) = Returns([kept EXCEPT !.residual = line])
    BY <2>3, <2>4, KeepingIs
  <2> QED
    BY <2>1, <2>2, <2>4, <2>5 DEF n
<1>6. CASE HasLine(s) /\ IsFirst(m, line)
  <2> DEFINE split == SplitFirst(a, line)
  <2>1. /\ split \in Message /\ split.residual = <<>>
        /\ ParseStart(m, s) = ParseHeaders(split, rest)
    BY <1>3, <1>6, StartIs DEF a, rest
  <2>2. IsFirst(n, line)
    BY <1>1, <1>6 DEF IsFirst
  <2>3. ParseStart(n, s) = ParseHeaders(SplitFirst(b, line), rest)
    BY <1>1, <1>6, <2>2, StartIs DEF b, rest
  <2> HIDE DEF split, line
  <2>4. ParseHeaders([split EXCEPT !.residual = x], rest) = Keeping(ParseHeaders(split, rest), x)
    BY <1>3, <2>1, HeadersKeep
  <2> QED
    BY <1>2, <2>1, <2>3, <2>4 DEF split, n
<1>7. CASE HasLine(s) /\ ~ IsFirst(m, line)
  <2>1. ~ IsFirst(n, line)
    BY <1>1, <1>7 DEF IsFirst
  <2>2. ParseStart(m, s) = NotFirst(m, a, rest)
    BY <1>7, StartIs DEF a, rest
  <2>3. ParseStart(n, s) = NotFirst(n, b, rest)
    BY <1>1, <1>7, <2>1, StartIs DEF b, rest
  <2>4. Keeping(Raises(a), x) = Raises(b)
    <3>1. Keeping(Raises(a), x) = Raises([a EXCEPT !.residual = KeepResidual(x, a.residual)])
      BY KeepingIs
    <3> QED
      BY <1>2, <1>3, <1>4, <3>1
  <2> DEFINE full == [a EXCEPT !.parser_state = "BODY", !.body = a.body \o rest]
  <2>5. ParseBody(InBody(a), rest) = Returns(full)
    BY <1>3 DEF InBody, ParseBody, Message
  <2>6. ParseBody(InBody(b), rest)
          = Returns([b EXCEPT !.parser_state = "BODY", !.body = a.body \o rest])
    BY <1>2, <1>3 DEF InBody, ParseBody, Message
  <2>7. full.residual = <<>>
        /\ [b EXCEPT !.parser_state = "BODY", !.body = a.body \o rest]
             = [full EXCEPT !.residual = x]
    BY <1>2, <1>3 DEF Message
  <2> HIDE DEF full
  <2>8. Keeping(Returns(full), x) = Returns([full EXCEPT !.residual = x])
    BY <1>4, <2>7, KeepingIs
  <2> QED
    BY <1>1, <2>2, <2>3, <2>4, <2>5, <2>6, <2>7, <2>8 DEF n, NotFirst
<1> QED
  BY <1>5, <1>6, <1>7 DEF n

\* what the parser keeps of s for the next call
KeptOf(m, s) ==
  LET line == FirstLine(s)
      rest == After(s, Len(line))
  IN  IF ~ HasLine(s) THEN s
      ELSE IF IsFirst(m, line) /\ Stops(rest) = {} THEN PartialLine(rest)
      ELSE <<>>

LEMMA BodyInPieces ==
  ASSUME NEW m \in Message, m.parser_state = "BODY", m.residual = <<>>,
         NEW s \in Bytes, NEW c \in Bytes
  PROVE  LET r == ParseBody(m, s)
         IN  /\ ~ r.raised /\ r.m \in Message /\ r.m.parser_state = "BODY"
             /\ r.m.residual = <<>>
             /\ ParseBody(m, s \o c) = ParseBody(r.m, c)
<1> DEFINE r == ParseBody(m, s)
           b == m.body
<1>1. b \in Bytes
  BY DEF Message
<1> HIDE DEF b
<1>2. b \in Seq(Byte) /\ s \in Seq(Byte) /\ c \in Seq(Byte)
  BY <1>1 DEF Bytes
<1>3. (b \o s) \o c = b \o (s \o c)
  BY <1>2, ConcatAssociative
<1>4. b \o s \in Bytes
  BY <1>1, ConcatIs
<1>5. ~ r.raised /\ r.m = [m EXCEPT !.body = b \o s]
  BY DEF ParseBody, Returns, b
<1> HIDE DEF r
<1>6. r.m \in Message /\ r.m.parser_state = "BODY" /\ r.m.residual = <<>>
      /\ r.m.body = b \o s
  BY <1>4, <1>5 DEF Message
<1>7. [r.m EXCEPT !.body = b \o (s \o c)] = [m EXCEPT !.body = b \o (s \o c)]
  BY <1>5 DEF Message
<1>8. ParseBody(m, s \o c) = ParseBody(r.m, c)
  BY <1>3, <1>6, <1>7 DEF ParseBody, b
<1> QED
  BY <1>5, <1>6, <1>8 DEF r

LEMMA BodyNext ==
  ASSUME NEW m \in Message, m.parser_state = "BODY", m.residual = <<>>,
         NEW c \in Bytes
  PROVE  Parse(m, c) = Keeping(ParseBody(m, c), m.residual)
<1>1. <<>> \o c = c
  <2>1. c \in Seq(Byte)
    BY DEF Bytes
  <2> QED
    BY <2>1, ConcatEmptySeq
<1>2. Parse(m, c) = ParseBody(m, c)
  BY <1>1 DEF Parse
<1>3. m.body \o c \in Bytes
  <2>1. m.body \in Bytes
    BY DEF Message
  <2> QED
    BY <2>1, ConcatIs
<1> DEFINE full == [m EXCEPT !.body = m.body \o c]
<1>4. full \in Message
  BY <1>3 DEF Message
<1>5. ParseBody(m, c) = [m |-> full, raised |-> FALSE]
  BY DEF ParseBody, Returns
<1> HIDE DEF full
<1> QED
  BY <1>2, <1>4, <1>5, KeepNothing

\* A first piece that the first line is in, or a part of it.
LEMMA StartInPieces ==
  ASSUME NEW m \in Message, m.parser_state = "START", m.residual = <<>>,
         NEW s \in Bytes, NEW c \in Bytes
  PROVE  LET r == ParseStart(m, s)
             w == ParseStart(m, s \o c)
         IN  /\ r.raised => w.raised
             /\ ~ r.raised => r.m.residual = KeptOf(m, s)
             /\ ~ r.raised /\ r.m.parser_state # "END" =>
                  Parse(r.m, c) = Keeping(w, r.m.residual)
<1> DEFINE r == ParseStart(m, s)
           w == ParseStart(m, s \o c)
           line == FirstLine(s)
           rest == After(s, Len(line))
           a == Begun(m, line)
           t == s \o c
<1>1. a \in Message /\ rest \in Bytes /\ line \in Bytes /\ t \in Bytes
      /\ a.residual = <<>> /\ a.body = m.body
  <2>1. line \in Bytes /\ rest \in Bytes /\ s \o c \in Bytes
    BY FirstLineType, AfterType, ConcatIs
  <2> HIDE DEF line, rest
  <2> QED
    BY <2>1 DEF Begun, Message
<1> HIDE DEF r, w, line, rest, a, t
<1>2. CASE ~ HasLine(s)
  <2> DEFINE n == WithResidual(Begun(m, s), s)
  <2>1. line = s
    BY <1>2, WholeIs DEF FirstLine, HasLine, line
  <2>2. r = Returns([a EXCEPT !.residual = line])
    BY <1>2, StartIs DEF r, a, line
  <2>3. ~ r.raised /\ r.m = n
    BY <2>1, <2>2 DEF Returns, a, WithResidual, Begun, Message
  <2>4. n.parser_state = "START" /\ n.residual = s /\ n \in Message
    BY DEF WithResidual, Begun, Message
  <2>5. ParseStart(n, t) = Keeping(w, s)
    <3>1. t # <<>> \/ s = <<>>
      <4>1. Len(t) = Len(s) + Len(c) /\ Len(s) \in Nat /\ Len(c) \in Nat
        BY ConcatIs DEF t
      <4>2. Len(s) = 0 => s = <<>>
        <5>1. s \in Seq(Byte)
          BY DEF Bytes
        <5> QED
          BY <5>1, EmptySeq
      <4>3. t = <<>> => Len(t) = 0
        BY EmptySeq
      <4> QED
        BY <4>1, <4>2, <4>3
    <3> QED
      <4>1. w = ParseStart(m, t)
        BY DEF w, t
      <4> QED
        BY <1>1, <3>1, <4>1, StartKeep DEF n
  <2> HIDE DEF n
  <2>6. Parse(n, c) = ParseStart(n, t)
    BY <2>4 DEF Parse, t
  <2>7. KeptOf(m, s) = s
    BY <1>2 DEF KeptOf
  <2> QED
    BY <2>3, <2>4, <2>5, <2>6, <2>7 DEF r, w
<1>3. ASSUME HasLine(s)
      PROVE  /\ HasLine(t) /\ FirstLine(t) = line
             /\ After(t, Len(line)) = rest \o c
  BY <1>3, FirstLineOfBoth DEF line, rest, t
<1>4. CASE HasLine(s) /\ ~ IsFirst(m, line)
  <2>1. r = NotFirst(m, a, rest)
    BY <1>4, StartIs DEF r, a, line, rest
  <2>2. w = NotFirst(m, a, rest \o c)
    <3>1. w = ParseStart(m, t)
      BY DEF w, t
    <3>2. IsFirst(m, FirstLine(t)) = IsFirst(m, line) /\ HasLine(t)
      BY <1>3, <1>4
    <3>3. ParseStart(m, t) = NotFirst(m, Begun(m, FirstLine(t)), After(t, Len(FirstLine(t))))
      BY <1>1, <1>4, <3>2, StartIs
    <3> QED
      BY <1>3, <1>4, <3>1, <3>3 DEF a
  <2>3. KeptOf(m, s) = <<>>
    BY <1>4 DEF KeptOf, line
  <2>4. CASE m.message_type = "REQUEST"
    <3>1. r.raised /\ w.raised
      BY <2>1, <2>2, <2>4 DEF Raises, NotFirst
    <3> QED
      BY <3>1 DEF r, w
  <2>5. CASE m.message_type # "REQUEST"
    <3> DEFINE b == InBody(a)
    <3>1. b \in Message /\ b.parser_state = "BODY" /\ b.residual = <<>>
      BY <1>1 DEF InBody, Message, ParserState
    <3> HIDE DEF b
    <3>2. r = ParseBody(b, rest) /\ w = ParseBody(b, rest \o c)
      BY <2>1, <2>2, <2>5 DEF b, NotFirst
    <3>3. /\ ~ r.raised /\ r.m \in Message /\ r.m.parser_state = "BODY"
          /\ r.m.residual = <<>> /\ w = ParseBody(r.m, c)
      BY <1>1, <3>1, <3>2, BodyInPieces
    <3>4. Parse(r.m, c) = Keeping(w, r.m.residual)
      BY <3>3, BodyNext
    <3> QED
      BY <2>3, <3>3, <3>4 DEF r, w
  <2> QED
    BY <2>4, <2>5
<1>5. CASE HasLine(s) /\ IsFirst(m, line)
  <2> DEFINE split == SplitFirst(a, line)
  <2>1. /\ split \in Message /\ split.parser_state = "HEADERS" /\ split.residual = <<>>
        /\ r = ParseHeaders(split, rest)
    BY <1>5, StartIs DEF r, a, line, rest
  <2>2. w = ParseHeaders(split, rest \o c)
    <3>1. w = ParseStart(m, t)
      BY DEF w, t
    <3>2. IsFirst(m, FirstLine(t)) = IsFirst(m, line) /\ HasLine(t)
      BY <1>3, <1>5
    <3>3. ParseStart(m, t) = ParseHeaders(SplitFirst(Begun(m, FirstLine(t)), FirstLine(t)),
                                          After(t, Len(FirstLine(t))))
      BY <1>1, <1>5, <3>2, StartIs
    <3> QED
      BY <1>3, <1>5, <3>1, <3>3 DEF a
  <2> HIDE DEF split
  <2>3. /\ r.raised => w.raised
        /\ Stops(rest) = {} => /\ ~ r.raised
                               /\ r.m.parser_state = "HEADERS"
                               /\ r.m.residual = PartialLine(rest)
                               /\ ParseHeaders(r.m, r.m.residual \o c)
                                    = Keeping(w, r.m.residual)
        /\ Stops(rest) # {} /\ ~ r.raised =>
             /\ r.m.residual = <<>>
             /\ r.m.parser_state \in {"BODY", "END"}
             /\ r.m.parser_state = "BODY" => w = ParseBody(r.m, c)
    BY <1>1, <2>1, <2>2, HeadersInPieces
  <2>4. r.m \in Message
    BY <1>1, <2>1, ParseHeadersType DEF IsResult
  <2>5. ~ r.raised => r.m.residual = KeptOf(m, s)
    BY <1>5, <2>3 DEF KeptOf, line, rest
  <2>6. ASSUME ~ r.raised, r.m.parser_state # "END"
        PROVE  Parse(r.m, c) = Keeping(w, r.m.residual)
    <3>1. CASE Stops(rest) = {}
      <4>1. Parse(r.m, c) = ParseHeaders(r.m, r.m.residual \o c)
        BY <2>3, <3>1 DEF Parse
      <4> QED
        BY <2>3, <3>1, <4>1
    <3>2. CASE Stops(rest) # {}
      <4>1. r.m.residual = <<>> /\ r.m.parser_state = "BODY" /\ w = ParseBody(r.m, c)
        BY <2>3, <2>6, <3>2
      <4> QED
        BY <2>4, <4>1, BodyNext
    <3> QED
      BY <3>1, <3>2
  <2> QED
    BY <2>3, <2>5, <2>6 DEF r, w
<1> QED
  BY <1>2, <1>4, <1>5 DEF r, w

\* A message that is parsed in two pieces is parsed to what it is parsed to in
\* one, but for what is kept: a piece of a line that the first piece ended in
\* is still there after the line has been read (http_parser.py, lines 34-100).
THEOREM ParseInPieces ==
  ASSUME NEW type \in MessageType, NEW s \in Bytes, NEW c \in Bytes
  PROVE  LET r == Parse(NewMessage(type), s)
             w == Parse(NewMessage(type), s \o c)
         IN  /\ r.raised => w.raised
             /\ ~ r.raised /\ r.m.parser_state # "END" =>
                  Parse(r.m, c) = Keeping(w, r.m.residual)
<1> DEFINE m == NewMessage(type)
<1>1. m \in Message /\ m.parser_state = "START" /\ m.residual = <<>>
  BY NewMessageType DEF NewMessage
<1> HIDE DEF m
<1>2. s \o c \in Bytes
  BY ConcatIs
<1>3. ASSUME NEW t \in Bytes PROVE Parse(m, t) = ParseStart(m, t)
  <2>1. <<>> \o t = t
    <3>1. t \in Seq(Byte)
      BY DEF Bytes
    <3> QED
      BY <3>1, ConcatEmptySeq
  <2> QED
    BY <1>1, <2>1 DEF Parse
<1>4. Parse(m, s) = ParseStart(m, s) /\ Parse(m, s \o c) = ParseStart(m, s \o c)
  BY <1>2, <1>3
<1> QED
  BY <1>1, <1>4, StartInPieces DEF m

-----------------------------------------------------------------------------
(* What is kept.                                                            *)

LEMMA PartialIsEmpty ==
  ASSUME NEW s \in Bytes
  PROVE  PartialLine(s) = <<>> <=> Len(s) \in {0} \cup LineEnds(s)
<1> DEFINE n == Max({0} \cup LineEnds(s))
           x == PartialLine(s)
<1>1. {0} \cup LineEnds(s) \in SUBSET (0 .. Len(s)) /\ Len(s) \in Nat
  BY Marks
<1>2. n \in 0 .. Len(s) /\ n \in {0} \cup LineEnds(s)
      /\ \A i \in {0} \cup LineEnds(s) : i <= n
  BY <1>1, MaxUpTo
<1>3. x = After(s, n)
  BY DEF PartialLine
<1> HIDE DEF n, x
<1>4. x \in Bytes /\ Len(x) = Len(s) - n
  BY <1>2, <1>3, Halves
<1>5. x = <<>> <=> Len(x) = 0
  <2>1. x \in Seq(Byte)
    BY <1>4 DEF Bytes
  <2> QED
    BY <2>1, EmptySeq
<1>6. Len(x) = 0 <=> Len(s) = n
  BY <1>1, <1>2, <1>4
<1>7. Len(s) = n <=> Len(s) \in {0} \cup LineEnds(s)
  BY <1>1, <1>2
<1> QED
  BY <1>5, <1>6, <1>7 DEF x

LEMMA BlankIsNotFirst ==
  ASSUME NEW line, IsBlank(line)
  PROVE  Cardinality(Spaces(Rstrip(line))) = 0
<1>1. Solid(line) = {}
  <2>1. \A i \in DOMAIN line : line[i] \in {CR, LF}
    BY DEF IsBlank
  <2> QED
    BY <2>1 DEF Solid, White
<1>2. Rstrip(line) = SubSeq(line, 1, 0)
  <2>1. {0} \in SUBSET (0 .. 0) /\ {0} # {} /\ 0 \in Nat
    OBVIOUS
  <2>2. Max({0}) = 0
    BY <2>1, MaxUpTo
  <2>3. {0} \cup Solid(line) = {0}
    BY <1>1
  <2> QED
    BY <2>2, <2>3 DEF Rstrip
<1>3. Spaces(Rstrip(line)) = {}
  <2>1. DOMAIN SubSeq(line, 1, 0) = {}
    BY DEF IsBlank
  <2> QED
    BY <1>2, <2>1 DEF Spaces
<1> QED
  BY <1>3, FS_EmptySet

\* The lines of s are its first line and the lines of the rest.
LEMMA LinesAfterFirst ==
  ASSUME NEW s \in Bytes, HasLine(s)
  PROVE  LET k == Len(FirstLine(s))
             rest == After(s, k)
         IN  /\ k \in LineEnds(s) /\ k \in 1 .. Len(s) /\ LineAt(s, k) = FirstLine(s)
             /\ rest \in Bytes
             /\ \A i \in LineEnds(s) :
                  i = k \/ \E j \in LineEnds(rest) : i = k + j
             /\ \A j \in LineEnds(rest) :
                  k + j \in LineEnds(s) /\ LineAt(s, k + j) = LineAt(rest, j)
             /\ PartialLine(s) = PartialLine(rest)
<1> DEFINE k == Len(FirstLine(s))
           u == SubSeq(s, 1, k)
           rest == After(s, k)
<1>1. /\ k \in LineEnds(s) /\ k \in 1 .. Len(s) /\ LineAt(s, k) = FirstLine(s)
      /\ \A i \in LineEnds(s) : k <= i
      /\ LineEnds(s) \subseteq 1 .. Len(s) /\ Len(s) \in Nat
  BY FirstLineIs, Marks
<1> HIDE DEF k
<1>2. k \in 0 .. Len(s)
  BY <1>1
<1>3. u \in Bytes /\ rest \in Bytes /\ Len(u) = k /\ Len(rest) = Len(s) - k
      /\ u \o rest = s
  BY <1>2, Halves
<1> HIDE DEF u, rest
<1>4. EndsALine(u)
  <2>1. k \in LineEnds(u)
    <3>1. k \in 1 .. Len(u) /\ k \in LineEnds(u \o rest)
      BY <1>1, <1>3
    <3> QED
      BY <1>3, <3>1, LineEndsOfBoth
  <2> QED
    BY <1>3, <2>1, LineEndsIs DEF EndsALine
<1>5. \A j \in LineEnds(rest) : k + j \in LineEnds(s) /\ LineAt(s, k + j) = LineAt(rest, j)
  BY <1>3, <1>4, LineOfSecond
<1>6. ASSUME NEW i \in LineEnds(s), i # k
      PROVE  \E j \in LineEnds(rest) : i = k + j
  <2>1. i - k \in 1 .. Len(rest) /\ i = k + (i - k)
    BY <1>1, <1>3, <1>6
  <2>2. i - k \in LineEnds(rest)
    <3> DEFINE j == i - k
    <3>1. j \in 1 .. Len(rest) /\ k + j \in LineEnds(s)
      BY <2>1
    <3> HIDE DEF j
    <3>2. j \in LineEnds(rest)
      BY <1>3, <3>1, LineEndsOfBoth
    <3> QED
      BY <3>2 DEF j
  <2> QED
    BY <2>1, <2>2
<1>7. PartialLine(s) = PartialLine(rest)
  BY <1>3, <1>4, PartialOfBoth
<1> QED
  BY <1>1, <1>3, <1>5, <1>6, <1>7 DEF k, rest

\* A first piece that does not raise, by what its lines are.
LEMMA KeptOfPiece ==
  ASSUME NEW type \in MessageType, NEW s \in Bytes,
         ~ Parse(NewMessage(type), s).raised
  PROVE  LET m == NewMessage(type)
             line == FirstLine(s)
             rest == After(s, Len(line))
         IN  /\ Parse(m, s).m.residual = KeptOf(m, s)
             /\ HasLine(s) /\ ~ IsFirst(m, line) => type = "RESPONSE"
             /\ HasLine(s) /\ IsFirst(m, line) /\ Stops(rest) # {} =>
                  IsBlank(LineAt(rest, Min(Stops(rest))))
<1> DEFINE m == NewMessage(type)
           line == FirstLine(s)
           rest == After(s, Len(line))
           r == ParseStart(m, s)
<1>1. m \in Message /\ m.parser_state = "START" /\ m.residual = <<>>
      /\ m.message_type = type
  BY NewMessageType DEF NewMessage
<1> HIDE DEF m, line, rest, r
<1>2. Parse(m, s) = r
  <2>1. <<>> \o s = s
    <3>1. s \in Seq(Byte)
      BY DEF Bytes
    <3> QED
      BY <3>1, ConcatEmptySeq
  <2> QED
    BY <1>1, <2>1 DEF Parse, r
<1>3. ~ r.raised
  BY <1>2 DEF m
<1>4. r.m.residual = KeptOf(m, s)
  BY <1>1, <1>3, StartInPieces, Constants DEF r
<1>5. ASSUME HasLine(s), ~ IsFirst(m, line) PROVE type = "RESPONSE"
  <2>1. r = NotFirst(m, Begun(m, line), rest)
    BY <1>1, <1>5, StartIs DEF r, line, rest
  <2> QED
    BY <1>1, <1>3, <2>1 DEF NotFirst, Raises, MessageType
<1>6. ASSUME HasLine(s), IsFirst(m, line), Stops(rest) # {}
      PROVE  IsBlank(LineAt(rest, Min(Stops(rest))))
  <2>1. r = ParseHeaders(SplitFirst(Begun(m, line), line), rest)
    BY <1>1, <1>6, StartIs DEF r, line, rest
  <2>2. Min(Stops(rest)) \in Stops(rest)
    <3>1. rest \in Bytes
      BY FirstLineType, AfterType DEF rest, line
    <3> QED
      BY <1>6, <3>1, StopsAre
  <2>3. ASSUME IsBadHeader(LineAt(rest, Min(Stops(rest)))) PROVE FALSE
    <3> DEFINE split == SplitFirst(Begun(m, line), line)
               got == HeadersRead(split, rest, ReadLines(rest))
    <3> HIDE DEF split, got
    <3>1. ParseHeaders(split, rest) = Raises(got)
      BY <1>6, <2>3, HeadersAre DEF got
    <3> QED
      BY <1>3, <2>1, <3>1 DEF Raises, split
  <2> QED
    BY <2>2, <2>3 DEF Stops
<1> QED
  BY <1>2, <1>4, <1>5, <1>6 DEF m, line, rest

-----------------------------------------------------------------------------
(* What to_bytes() writes.                                                  *)

Emit(p, s) == s \o p[1] \o <<COLON>> \o p[2] \o <<CR, LF>>

\* what to_bytes() has written after the headers of each subset of h, in the
\* order in which the fold takes them
Composes(g, base, h) ==
  g = [T \in SUBSET h |->
         IF T = {} THEN base
         ELSE Emit(CHOOSE p \in T : TRUE, g[T \ {CHOOSE p \in T : TRUE}])]

LEMMA ToBytesIs ==
  ASSUME NEW m
  PROVE  ToBytes(m) = (CHOOSE g : Composes(g, m.start_line, m.headers))[m.headers]
                        \o <<CR, LF>> \o m.body
BY DEF ToBytes, FoldSet, MapThenFoldSet, Composes, Emit

LEMMA WritesExists ==
  ASSUME NEW base, NEW h, IsFiniteSet(h)
  PROVE  \E g : Composes(g, base, h)
<1> DEFINE first(T) == CHOOSE p \in T : TRUE
           value(g, T) == IF T = {} THEN base ELSE Emit(first(T), g[T \ {first(T)}])
           UpTo(n, g) == \A T \in SUBSET h : Cardinality(T) <= n => g[T] = value(g, T)
           Short == {n \in Nat : ~ \E g : UpTo(n, g)}
<1>1. ASSUME NEW T \in SUBSET h
      PROVE  /\ Cardinality(T) \in Nat
             /\ Cardinality(T) <= Cardinality(h)
             /\ T = {} <=> Cardinality(T) = 0
             /\ T # {} => /\ T \ {first(T)} \in SUBSET h
                          /\ Cardinality(T \ {first(T)}) = Cardinality(T) - 1
  <2>1. IsFiniteSet(T) /\ Cardinality(T) <= Cardinality(h)
    BY FS_Subset
  <2>2. Cardinality(T) \in Nat /\ (T = {} <=> Cardinality(T) = 0)
    BY <2>1, FS_CardinalityType, FS_EmptySet
  <2>3. T # {} => first(T) \in T
    OBVIOUS
  <2> HIDE DEF first
  <2>4. T # {} => Cardinality(T \ {first(T)}) = Cardinality(T) - 1
    BY <2>1, <2>3, FS_RemoveElement
  <2> QED
    BY <2>1, <2>2, <2>4
<1> HIDE DEF first
<1>2. \E g : UpTo(0, g)
  <2> DEFINE g == [T \in SUBSET h |-> base]
  <2>1. ASSUME NEW T \in SUBSET h, Cardinality(T) <= 0 PROVE T = {}
    <3>1. Cardinality(T) \in Nat /\ (T = {} <=> Cardinality(T) = 0)
      BY <1>1
    <3> QED
      BY <2>1, <3>1
  <2>2. \A T \in SUBSET h : g[T] = base
    OBVIOUS
  <2> HIDE DEF g
  <2>3. UpTo(0, g)
    BY <2>1, <2>2
  <2> QED
    BY <2>3
<1>3. ASSUME NEW n \in Nat, NEW g, UpTo(n, g)
      PROVE  \E k : UpTo(n + 1, k)
  <2> DEFINE k == [T \in SUBSET h |-> value(g, T)]
  <2>1. ASSUME NEW T \in SUBSET h, Cardinality(T) <= n PROVE k[T] = g[T]
    BY <1>3, <2>1
  <2>2. ASSUME NEW T \in SUBSET h, Cardinality(T) <= n + 1 PROVE k[T] = value(k, T)
    <3>1. CASE T = {}
      BY <3>1
    <3>2. CASE T # {}
      <4>1. Cardinality(T \ {first(T)}) <= n /\ T \ {first(T)} \in SUBSET h
        BY <1>1, <2>2, <3>2
      <4>2. k[T \ {first(T)}] = g[T \ {first(T)}]
        BY <2>1, <4>1
      <4>3. k[T] = Emit(first(T), g[T \ {first(T)}])
        BY <3>2
      <4> HIDE DEF k
      <4> QED
        BY <3>2, <4>2, <4>3
    <3> QED
      BY <3>1, <3>2
  <2>3. UpTo(n + 1, k)
    <3> HIDE DEF k
    <3> QED
      BY <2>2
  <2> HIDE DEF UpTo
  <2> QED
    BY <2>3
<1> HIDE DEF UpTo
<1>4. Short = {}
  <2> SUFFICES ASSUME Short # {} PROVE FALSE
    OBVIOUS
  <2> DEFINE n == Min(Short)
  <2>1. n \in Short /\ \A k \in Short : n <= k
    BY MinNat
  <2> HIDE DEF n
  <2>2. n \in Nat /\ n # 0
    BY <1>2, <2>1
  <2>3. n - 1 \in Nat /\ n - 1 \notin Short /\ (n - 1) + 1 = n
    <3>1. n - 1 \in Nat /\ ~ (n <= n - 1) /\ (n - 1) + 1 = n
      BY <2>2
    <3> QED
      BY <2>1, <3>1
  <2>4. \E g : UpTo(n - 1, g)
    BY <2>3
  <2>5. \E g : UpTo((n - 1) + 1, g)
    BY <1>3, <2>3, <2>4
  <2> QED
    BY <2>1, <2>3, <2>5
<1>5. PICK g : UpTo(Cardinality(h), g)
  BY <1>1, <1>4
<1> DEFINE w == [T \in SUBSET h |-> g[T]]
<1>6. \A T \in SUBSET h : g[T] = value(g, T)
  BY <1>1, <1>5 DEF UpTo
<1>7. w = [T \in SUBSET h |-> value(w, T)]
  <2>1. \A T \in SUBSET h : value(w, T) = value(g, T)
    BY <1>1
  <2> QED
    BY <1>6, <2>1
<1>8. Composes(w, base, h)
  <2> HIDE DEF w
  <2> QED
    BY <1>7 DEF Composes, first
<1> QED
  BY <1>8

\* What the parser puts into the headers, and so what to_bytes() is given.
Stripped(v) == v = <<>> \/ (v[1] \notin White /\ v[Len(v)] \notin White)

IsHeader(p) ==
  /\ p \in Bytes \X Bytes
  /\ \A i \in DOMAIN p[1] : p[1][i] \notin {LF, COLON}
  /\ \A i \in DOMAIN p[2] : p[2][i] # LF
  /\ Stripped(p[2])

AreHeaders(h) ==
  /\ IsFiniteSet(h)
  /\ \A p \in h : IsHeader(p)
  /\ \A p, q \in h : p[1] = q[1] => p = q

\* the line that to_bytes() writes for one header
HeaderLine(p) == p[1] \o (<<COLON>> \o (p[2] \o <<CR, LF>>))

LEMMA Delimiters ==
  /\ <<COLON>> \in Bytes /\ Len(<<COLON>>) = 1 /\ <<COLON>>[1] = COLON
  /\ <<CR, LF>> \in Bytes /\ Len(<<CR, LF>>) = 2
  /\ <<CR, LF>>[1] = CR /\ <<CR, LF>>[2] = LF
  /\ COLON # LF /\ COLON # CR /\ CR # LF
  /\ COLON \notin White /\ CR \in White /\ LF \in White
<1>1. COLON \in Byte /\ CR \in Byte /\ LF \in Byte
  BY DEF Byte, Delimiter
<1> QED
  BY <1>1 DEF Bytes, White, COLON, CR, LF, SP

LEMMA Associative ==
  ASSUME NEW a \in Bytes, NEW b \in Bytes, NEW c \in Bytes
  PROVE  (a \o b) \o c = a \o (b \o c)
BY ConcatAssociative DEF Bytes

LEMMA EmitIs ==
  ASSUME NEW p \in Bytes \X Bytes, NEW s \in Bytes
  PROVE  Emit(p, s) = s \o HeaderLine(p)
<1> DEFINE a == p[1]
           b == <<COLON>>
           c == p[2]
           d == <<CR, LF>>
           cd == c \o d
           bcd == b \o cd
           sa == s \o a
           sab == sa \o b
<1>1. a \in Bytes /\ b \in Bytes /\ c \in Bytes /\ d \in Bytes
  BY Delimiters
<1> HIDE DEF a, b, c, d
<1>2. cd \in Bytes /\ sa \in Bytes
  BY <1>1, ConcatIs
<1> HIDE DEF cd, sa
<1>3. bcd \in Bytes /\ sab \in Bytes
  BY <1>1, <1>2, ConcatIs
<1> HIDE DEF bcd, sab
<1>4. (sab \o c) \o d = sab \o cd
  <2>1. sab \in Bytes /\ c \in Bytes /\ d \in Bytes
    BY <1>1, <1>3
  <2>2. (sab \o c) \o d = sab \o (c \o d)
    BY <2>1, Associative
  <2> QED
    BY <2>2 DEF cd
<1>5. sab \o cd = sa \o bcd
  <2>1. sa \in Bytes /\ b \in Bytes /\ cd \in Bytes
    BY <1>1, <1>2
  <2>2. (sa \o b) \o cd = sa \o (b \o cd)
    BY <2>1, Associative
  <2> QED
    BY <2>2 DEF sab, bcd
<1>6. sa \o bcd = s \o (a \o bcd)
  BY <1>1, <1>3, Associative DEF sa
<1>7. Emit(p, s) = (sab \o c) \o d
  BY DEF Emit, sab, sa, a, b, c, d
<1>8. HeaderLine(p) = a \o bcd
  BY DEF HeaderLine, bcd, cd, a, b, c, d
<1> QED
  BY <1>4, <1>5, <1>6, <1>7, <1>8

\* Stripping the end of the line off a value gives the value.
LEMMA ValueOfLine ==
  ASSUME NEW v \in Bytes, Stripped(v)
  PROVE  Strip(v \o <<CR, LF>>) = v
<1> DEFINE d == <<CR, LF>>
           w == v \o d
           n == Len(v)
<1>1. d \in Bytes /\ Len(d) = 2 /\ d[1] \in White /\ d[2] \in White
  BY Delimiters
<1> HIDE DEF d
<1>2. /\ w \in Bytes /\ n \in Nat /\ Len(w) = n + 2
      /\ \A k \in 1 .. n : w[k] = v[k]
      /\ \A k \in 1 .. 2 : w[n + k] = d[k]
  <2>1. /\ w \in Bytes /\ n \in Nat
        /\ Len(w) = n + Len(d)
        /\ \A k \in 1 .. n : w[k] = v[k]
        /\ \A k \in 1 .. Len(d) : w[n + k] = d[k]
    BY <1>1, ConcatIs
  <2> HIDE DEF w, n
  <2> QED
    BY <1>1, <2>1
<1> HIDE DEF w
<1>3. \A k \in Solid(w) : k \in 1 .. n
  <2> TAKE k \in Solid(w)
  <2>1. k \in 1 .. n + 2 /\ w[k] \notin White
    BY <1>2, Marks DEF Solid
  <2>2. w[n + 1] \in White /\ w[n + 2] \in White
    BY <1>1, <1>2
  <2>3. k # n + 1 /\ k # n + 2
    BY <2>1, <2>2
  <2> HIDE DEF n
  <2> QED
    BY <1>2, <2>1, <2>3
<1>4. CASE v = <<>>
  <2>1. n = 0
    BY <1>4
  <2>2. Solid(w) = {}
    BY <1>3, <2>1
  <2>3. Max({0} \cup Solid(w)) = 0
    <3>1. {0} \in SUBSET (0 .. 0) /\ 0 \in Nat /\ {0} # {} /\ {0} \cup Solid(w) = {0}
      BY <2>2
    <3>2. Max({0}) \in {0}
      BY <3>1, MaxUpTo
    <3> QED
      BY <3>1, <3>2
  <2>4. Min({Len(w) + 1} \cup Solid(w)) = 3
    <3>1. {3} \in SUBSET Nat /\ {3} # {} /\ {Len(w) + 1} \cup Solid(w) = {3}
      BY <1>2, <2>1, <2>2
    <3>2. Min({3}) \in {3}
      BY <3>1, MinNat
    <3> QED
      BY <3>1, <3>2
  <2>5. Strip(w) = SubSeq(w, 3, 0)
    BY <2>3, <2>4 DEF Strip
  <2>6. Len(SubSeq(w, 3, 0)) = 0 /\ SubSeq(w, 3, 0) \in Bytes
    <3>1. 3 \in Nat \ {0} /\ 0 \in Int /\ 0 <= Len(w) /\ ~ (3 <= 0)
      BY <1>2
    <3> QED
      BY <1>2, <3>1, PieceIs
  <2>7. SubSeq(w, 3, 0) = <<>>
    BY <2>6, EmptySeq DEF Bytes
  <2> QED
    BY <1>4, <2>5, <2>7 DEF w, d
<1>5. CASE v # <<>>
  <2>1. n \in Nat \ {0} /\ v[1] \notin White /\ v[n] \notin White
    BY <1>2, <1>5, EmptySeq DEF Stripped, Bytes
  <2>2. 1 \in Solid(w) /\ n \in Solid(w)
    <3>1. w[1] = v[1] /\ w[n] = v[n] /\ 1 \in 1 .. Len(w) /\ n \in 1 .. Len(w)
      BY <1>2, <2>1
    <3>2. DOMAIN w = 1 .. Len(w)
      BY <1>2, LenProperties DEF Bytes
    <3> QED
      BY <2>1, <3>1, <3>2 DEF Solid
  <2>3. Max({0} \cup Solid(w)) = n
    <3> DEFINE S == {0} \cup Solid(w)
    <3>1. S \in SUBSET (0 .. n) /\ S # {} /\ n \in S
      BY <1>2, <1>3, <2>2
    <3> HIDE DEF S
    <3>2. Max(S) \in S /\ n <= Max(S)
      BY <1>2, <3>1, MaxUpTo
    <3>3. Max(S) \in 0 .. n
      BY <3>1, <3>2
    <3>4. Max(S) = n
      BY <1>2, <3>2, <3>3
    <3> QED
      BY <3>4 DEF S
  <2>4. Min({Len(w) + 1} \cup Solid(w)) = 1
    <3> DEFINE S == {Len(w) + 1} \cup Solid(w)
    <3>1. S \in SUBSET Nat /\ 1 \in S /\ \A k \in S : 1 <= k
      BY <1>2, <1>3, <2>2
    <3> HIDE DEF S
    <3>2. Min(S) = 1
      BY <3>1, LeastIs
    <3> QED
      BY <3>2 DEF S
  <2>5. Strip(w) = SubSeq(w, 1, n)
    BY <2>3, <2>4 DEF Strip
  <2>6. SubSeq(w, 1, n) = SubSeq(v, 1, n)
    <3>1. 1 \in Nat \ {0} /\ n \in Int /\ n <= Len(v)
      BY <1>2
    <3> QED
      BY <1>1, <3>1, PieceOfFirst DEF w
  <2>7. SubSeq(v, 1, n) = v
    BY WholeIs
  <2> QED
    BY <2>5, <2>6, <2>7 DEF w, d
<1> QED
  BY <1>4, <1>5

LEMMA AfterNone ==
  ASSUME NEW s \in Bytes
  PROVE  After(s, 0) = s
<1>1. After(s, 0) = SubSeq(s, 1, Len(s))
  BY DEF After
<1> QED
  BY <1>1, WholeIs

\* where the bytes of a header's line come from
LEMMA HeaderLineBytes ==
  ASSUME NEW p \in Bytes \X Bytes
  PROVE  LET v == HeaderLine(p)
             n == Len(p[1])
             q == Len(p[2])
         IN  /\ v \in Bytes /\ n \in Nat /\ q \in Nat /\ Len(v) = n + q + 3
             /\ \A k \in 1 .. n : v[k] = p[1][k]
             /\ v[n + 1] = COLON
             /\ \A k \in 1 .. q : v[n + 1 + k] = p[2][k]
             /\ v[n + q + 2] = CR /\ v[n + q + 3] = LF
             /\ SubSeq(v, 1, n) = p[1]
             /\ After(v, n + 1) = p[2] \o <<CR, LF>>
<1> DEFINE a == p[1]
           b == <<COLON>>
           c == p[2]
           d == <<CR, LF>>
           n == Len(a)
           q == Len(c)
           cd == c \o d
           bcd == b \o cd
           v == a \o bcd
<1>1. /\ a \in Bytes /\ b \in Bytes /\ c \in Bytes /\ d \in Bytes
      /\ Len(b) = 1 /\ b[1] = COLON /\ Len(d) = 2 /\ d[1] = CR /\ d[2] = LF
  BY Delimiters
<1> HIDE DEF a, b, c, d
<1>2. /\ cd \in Bytes /\ q \in Nat /\ Len(cd) = q + 2
      /\ \A k \in 1 .. q : cd[k] = c[k]
      /\ cd[q + 1] = CR /\ cd[q + 2] = LF
  <2>1. /\ cd \in Bytes /\ q \in Nat
        /\ Len(cd) = q + Len(d)
        /\ \A k \in 1 .. q : cd[k] = c[k]
        /\ \A k \in 1 .. Len(d) : cd[q + k] = d[k]
    BY <1>1, ConcatIs
  <2> HIDE DEF cd, q
  <2> QED
    BY <1>1, <2>1
<1> HIDE DEF cd, q
<1>3. /\ bcd \in Bytes /\ Len(bcd) = q + 3
      /\ bcd[1] = COLON
      /\ \A k \in 1 .. q + 2 : bcd[1 + k] = cd[k]
  <2>1. /\ bcd \in Bytes
        /\ Len(bcd) = Len(b) + Len(cd)
        /\ \A k \in 1 .. Len(b) : bcd[k] = b[k]
        /\ \A k \in 1 .. Len(cd) : bcd[Len(b) + k] = cd[k]
    BY <1>1, <1>2, ConcatIs
  <2> HIDE DEF bcd
  <2> QED
    BY <1>1, <1>2, <2>1
<1>4. After(bcd, 1) = cd
  <2>1. 0 \in 0 .. Len(cd)
    BY <1>2
  <2>2. After(b \o cd, Len(b) + 0) = After(cd, 0)
    BY <1>1, <1>2, <2>1, AfterSecond
  <2>3. Len(b) + 0 = 1
    BY <1>1
  <2>4. After(cd, 0) = cd
    BY <1>2, AfterNone
  <2> QED
    BY <2>2, <2>3, <2>4
<1> HIDE DEF bcd
<1>5. /\ v \in Bytes /\ n \in Nat /\ Len(v) = n + Len(bcd)
      /\ \A k \in 1 .. n : v[k] = a[k]
      /\ \A k \in 1 .. Len(bcd) : v[n + k] = bcd[k]
  BY <1>1, <1>3, ConcatIs
<1>6. SubSeq(v, 1, n) = a
  <2>1. 1 \in Nat \ {0} /\ n \in Int /\ n <= Len(a)
    BY <1>5
  <2>2. SubSeq(v, 1, n) = SubSeq(a, 1, n)
    BY <1>1, <1>3, <2>1, PieceOfFirst
  <2>3. SubSeq(a, 1, n) = a
    BY <1>1, WholeIs
  <2> QED
    BY <2>2, <2>3
<1>7. After(v, n + 1) = cd
  <2>1. 1 \in 0 .. Len(bcd)
    BY <1>2, <1>3
  <2>2. After(a \o bcd, Len(a) + 1) = After(bcd, 1)
    BY <1>1, <1>3, <2>1, AfterSecond
  <2> QED
    BY <1>4, <2>2
<1> HIDE DEF v, n
<1>8. /\ Len(v) = n + q + 3
      /\ v[n + 1] = COLON
      /\ \A k \in 1 .. q : v[n + 1 + k] = c[k]
      /\ v[n + q + 2] = CR /\ v[n + q + 3] = LF
  <2>1. Len(v) = n + q + 3 /\ v[n + 1] = COLON
    BY <1>2, <1>3, <1>5
  <2>2. ASSUME NEW k \in 1 .. q + 2 PROVE v[n + 1 + k] = cd[k]
    <3>1. 1 + k \in 1 .. Len(bcd) /\ n + (1 + k) = n + 1 + k
      BY <1>2, <1>3, <1>5
    <3>2. v[n + (1 + k)] = bcd[1 + k]
      BY <1>5, <3>1
    <3> QED
      BY <1>3, <3>1, <3>2
  <2>3. /\ q + 1 \in 1 .. q + 2 /\ n + 1 + (q + 1) = n + q + 2
        /\ q + 2 \in 1 .. q + 2 /\ n + 1 + (q + 2) = n + q + 3
        /\ \A k \in 1 .. q : k \in 1 .. q + 2
    <3>1. n \in Nat /\ q \in Nat
      BY <1>2, <1>5
    <3> QED
      BY <3>1
  <2>4. v[n + 1 + (q + 1)] = CR /\ v[n + 1 + (q + 2)] = LF
    BY <1>2, <2>2, <2>3
  <2>5. \A k \in 1 .. q : v[n + 1 + k] = c[k]
    BY <1>2, <2>2, <2>3
  <2> QED
    BY <2>1, <2>3, <2>4, <2>5
<1>9. v = HeaderLine(p)
  BY DEF HeaderLine, v, bcd, cd, a, b, c, d
<1> QED
  BY <1>2, <1>5, <1>6, <1>7, <1>8, <1>9 DEF n, q, a, c, cd, d

\* The line is read as the header it was written for.
LEMMA HeaderLineIs ==
  ASSUME NEW p, IsHeader(p)
  PROVE  LET v == HeaderLine(p)
         IN  /\ v \in Bytes
             /\ LineEnds(v) = {Len(v)}
             /\ LineAt(v, Len(v)) = v
             /\ EndsALine(v)
             /\ Stops(v) = {}
             /\ HeaderName(v) = p[1] /\ HeaderValue(v) = p[2]
<1> DEFINE v == HeaderLine(p)
           n == Len(p[1])
           q == Len(p[2])
<1>1. p \in Bytes \X Bytes /\ p[1] \in Bytes /\ p[2] \in Bytes
  BY DEF IsHeader
<1>2. /\ v \in Bytes /\ n \in Nat /\ q \in Nat /\ Len(v) = n + q + 3
      /\ \A k \in 1 .. n : v[k] = p[1][k]
      /\ v[n + 1] = COLON
      /\ \A k \in 1 .. q : v[n + 1 + k] = p[2][k]
      /\ v[n + q + 2] = CR /\ v[n + q + 3] = LF
      /\ SubSeq(v, 1, n) = p[1]
      /\ After(v, n + 1) = p[2] \o <<CR, LF>>
  BY <1>1, HeaderLineBytes
<1>3. /\ \A k \in 1 .. n : p[1][k] # LF /\ p[1][k] # COLON
      /\ \A k \in 1 .. q : p[2][k] # LF
  <2>1. DOMAIN p[1] = 1 .. n /\ DOMAIN p[2] = 1 .. q
    BY <1>1, LenProperties DEF Bytes
  <2> QED
    BY <2>1 DEF IsHeader
<1> HIDE DEF v, n, q
<1>4. DOMAIN v = 1 .. Len(v) /\ \A k \in LineEnds(v) \cup Colons(v) : k \in 1 .. Len(v)
  BY <1>2, Marks, LenProperties DEF Bytes
<1>5. LineEnds(v) = {Len(v)}
  <2>1. ASSUME NEW k \in 1 .. Len(v), v[k] = LF PROVE k = Len(v)
    <3>1. CASE k \in 1 .. n
      BY <1>2, <1>3, <2>1, <3>1
    <3>2. CASE k = n + 1
      BY <1>2, <2>1, <3>2, Delimiters
    <3>3. CASE k \in n + 2 .. n + 1 + q
      <4>1. k - (n + 1) \in 1 .. q /\ k = n + 1 + (k - (n + 1))
        BY <1>2, <3>3
      <4>2. v[n + 1 + (k - (n + 1))] # LF
        BY <1>2, <1>3, <4>1
      <4> QED
        BY <2>1, <4>1, <4>2
    <3>4. CASE k = n + q + 2
      BY <1>2, <2>1, <3>4, Delimiters
    <3> QED
      BY <1>2, <3>1, <3>2, <3>3, <3>4
  <2>2. Len(v) \in 1 .. Len(v) /\ v[Len(v)] = LF
    BY <1>2
  <2> QED
    BY <1>4, <2>1, <2>2 DEF LineEnds
<1>6. LineAt(v, Len(v)) = v
  <2>1. Len(v) \in LineEnds(v) /\ 0 \in 0 .. Len(v) - 1 /\ IsBegin(v, Len(v), 0)
    <3>1. 0 \in 0 .. Len(v) - 1 /\ ~ (Len(v) < Len(v))
      BY <1>2
    <3> QED
      BY <1>5, <3>1 DEF IsBegin
  <2>2. LineAt(v, Len(v)) = SubSeq(v, 0 + 1, Len(v))
    BY <1>2, <2>1, LineIs
  <2>3. SubSeq(v, 1, Len(v)) = v
    BY <1>2, WholeIs
  <2> QED
    BY <2>2, <2>3
<1>7. EndsALine(v)
  BY <1>2 DEF EndsALine
<1>8. Colons(v) # {} /\ Min(Colons(v)) = n + 1
  <2>1. n + 1 \in Colons(v)
    <3>1. n + 1 \in 1 .. Len(v)
      BY <1>2
    <3> QED
      BY <1>2, <1>4, <3>1 DEF Colons
  <2>2. ASSUME NEW k \in Colons(v) PROVE n + 1 <= k
    <3>1. k \in 1 .. Len(v) /\ v[k] = COLON
      BY <1>4 DEF Colons
    <3>2. k \notin 1 .. n
      BY <1>2, <1>3, <3>1
    <3> QED
      BY <1>2, <3>1, <3>2
  <2>3. Colons(v) \in SUBSET Nat
    BY <1>2, <1>4
  <2> QED
    BY <2>1, <2>2, <2>3, LeastIs
<1>9. Stops(v) = {}
  <2>1. ~ IsBlank(v)
    <3>1. ASSUME IsBlank(v) PROVE Colons(v) = {}
      <4>1. \A i \in DOMAIN v : v[i] \in {CR, LF}
        BY <3>1 DEF IsBlank
      <4> QED
        BY <4>1, Delimiters DEF Colons
    <3> QED
      BY <1>8, <3>1
  <2>2. ~ IsBadHeader(v)
    BY <1>8 DEF IsBadHeader
  <2> QED
    BY <1>5, <1>6, <2>1, <2>2 DEF Stops
<1>10. HeaderName(v) = p[1]
  <2>1. (n + 1) - 1 = n
    BY <1>2
  <2> QED
    BY <1>2, <1>8, <2>1 DEF HeaderName
<1>11. HeaderValue(v) = p[2]
  <2>1. Strip(p[2] \o <<CR, LF>>) = p[2]
    BY <1>1, ValueOfLine DEF IsHeader
  <2> QED
    BY <1>2, <1>8, <2>1 DEF HeaderValue
<1> QED
  BY <1>2, <1>5, <1>6, <1>7, <1>9, <1>10, <1>11 DEF v

\* Of some headers, to_bytes() writes lines that are read as those headers.
WrittenAs(s, base, T) ==
  \E u \in Bytes : /\ s = base \o u
                   /\ EndsALine(u)
                   /\ Stops(u) = {}
                   /\ AddHeaders({}, u, LineEnds(u)) = T

LEMMA NothingWritten ==
  ASSUME NEW base \in Bytes
  PROVE  WrittenAs(base, base, {})
<1> DEFINE u == <<>>
<1>1. u \in Bytes /\ LineEnds(u) = {}
  BY Constants DEF LineEnds
<1>2. base \o u = base
  <2>1. base \in Seq(Byte)
    BY DEF Bytes
  <2> QED
    BY <2>1, ConcatEmptySeq
<1>3. AddHeaders({}, u, {}) = {}
  BY DEF AddHeaders
<1>4. Stops(u) = {} /\ EndsALine(u)
  BY <1>1 DEF Stops, EndsALine
<1> HIDE DEF u
<1> QED
  BY <1>1, <1>2, <1>3, <1>4 DEF WrittenAs

LEMMA StopsOfNone ==
  ASSUME NEW u \in Bytes, EndsALine(u), Stops(u) = {},
         NEW v \in Bytes, Stops(v) = {}
  PROVE  Stops(u \o v) = {}
BY StoppedInSecond

LEMMA OneMoreWritten ==
  ASSUME NEW base \in Bytes, NEW s, NEW T, NEW p, WrittenAs(s, base, T),
         AreHeaders(T \cup {p}), p \notin T
  PROVE  WrittenAs(Emit(p, s), base, T \cup {p})
<1>1. PICK u \in Bytes : /\ s = base \o u
                         /\ EndsALine(u)
                         /\ Stops(u) = {}
                         /\ AddHeaders({}, u, LineEnds(u)) = T
  BY DEF WrittenAs
<1> DEFINE v == HeaderLine(p)
           w == u \o v
<1>2. IsHeader(p) /\ p \in Bytes \X Bytes /\ p = <<p[1], p[2]>>
  BY DEF AreHeaders, IsHeader
<1>3. /\ v \in Bytes
      /\ LineEnds(v) = {Len(v)}
      /\ LineAt(v, Len(v)) = v
      /\ EndsALine(v)
      /\ Stops(v) = {}
      /\ HeaderName(v) = p[1] /\ HeaderValue(v) = p[2]
  BY <1>2, HeaderLineIs
<1> HIDE DEF v
<1>4. Emit(p, s) = base \o w
  <2>1. base \o u \in Bytes
    BY ConcatIs
  <2>2. Emit(p, s) = (base \o u) \o v
    BY <1>1, <1>2, <2>1, EmitIs DEF v
  <2>3. (base \o u) \o v = base \o (u \o v)
    BY <1>3, Associative
  <2> QED
    BY <2>2, <2>3
<1>5. w \in Bytes /\ Len(u) \in Nat /\ Len(v) \in Nat /\ Len(w) = Len(u) + Len(v)
  BY <1>3, ConcatIs
<1>6. EndsALine(w)
  <2>1. Len(u) + Len(v) \in LineEnds(w)
    BY <1>1, <1>3, LineOfSecond
  <2> QED
    BY <1>5, <2>1, LineEndsIs DEF EndsALine
<1>7. Stops(w) = {}
  BY <1>1, <1>3, StopsOfNone
<1>8. LineEnds(w) = LineEnds(u) \cup {Len(u) + k : k \in LineEnds(v)}
  <2>1. \A i \in LineEnds(u) : i \in LineEnds(w)
    BY <1>3, LineOfFirst
  <2>2. \A k \in LineEnds(v) : Len(u) + k \in LineEnds(w)
    BY <1>1, <1>3, LineOfSecond
  <2>3. \A i \in LineEnds(w) : i \in LineEnds(u) \/ \E k \in LineEnds(v) : i = Len(u) + k
    BY <1>3, LineEndsOfBoth
  <2> HIDE DEF w
  <2> QED
    BY <2>1, <2>2, <2>3
<1>9. AddHeaders({}, w, LineEnds(w)) = AddHeaders(T, v, LineEnds(v))
  <2>1. /\ LineEnds(v) \in SUBSET LineEnds(v) /\ LineEnds(u) \in SUBSET LineEnds(u)
        /\ v \in Bytes /\ EndsALine(u)
    BY <1>1, <1>3
  <2>2. AddHeaders({}, u \o v, LineEnds(u) \cup {Len(u) + k : k \in LineEnds(v)})
          = AddHeaders(AddHeaders({}, u, LineEnds(u)), v, LineEnds(v))
    BY <2>1, HeadersOfBoth
  <2> QED
    BY <1>1, <1>8, <2>2
<1>10. AddHeaders(T, v, {Len(v)}) = T \cup {p}
  <2>1. AddHeaders(T, v, {Len(v)}) = {q \in T : p[1] # q[1]} \cup {<<p[1], p[2]>>}
    <3>1. {i \in {Len(v)} : \A j \in {Len(v)} : j > i => HeaderName(LineAt(v, j)) # HeaderName(LineAt(v, i))}
            = {Len(v)}
      BY <1>5
    <3> QED
      BY <1>3, <3>1 DEF AddHeaders
  <2>2. \A q \in T : p[1] # q[1]
    BY DEF AreHeaders
  <2> QED
    BY <1>2, <2>1, <2>2
<1> HIDE DEF w
<1> QED
  BY <1>3, <1>4, <1>5, <1>6, <1>7, <1>9, <1>10 DEF WrittenAs

LEMMA HeadersWritten ==
  ASSUME NEW base \in Bytes, NEW h, AreHeaders(h), NEW g, Composes(g, base, h)
  PROVE  WrittenAs(g[h], base, h)
<1> DEFINE first(T) == CHOOSE p \in T : TRUE
           Missed == {n \in Nat : \E T \in SUBSET h :
                        Cardinality(T) = n /\ ~ WrittenAs(g[T], base, T)}
<1>1. ASSUME NEW T \in SUBSET h
      PROVE  /\ Cardinality(T) \in Nat
             /\ AreHeaders(T)
             /\ g[T] = IF T = {} THEN base ELSE Emit(first(T), g[T \ {first(T)}])
             /\ T # {} => /\ first(T) \in T
                          /\ Cardinality(T \ {first(T)}) = Cardinality(T) - 1
  <2>1. IsFiniteSet(T)
    BY FS_Subset DEF AreHeaders
  <2>2. Cardinality(T) \in Nat
    BY <2>1, FS_CardinalityType
  <2>3. AreHeaders(T)
    BY <2>1 DEF AreHeaders
  <2>4. g[T] = IF T = {} THEN base ELSE Emit(first(T), g[T \ {first(T)}])
    BY DEF Composes
  <2>5. T # {} => first(T) \in T
    OBVIOUS
  <2> HIDE DEF first
  <2>6. T # {} => Cardinality(T \ {first(T)}) = Cardinality(T) - 1
    BY <2>1, <2>5, FS_RemoveElement
  <2> QED
    BY <2>2, <2>3, <2>4, <2>5, <2>6
<1> HIDE DEF first
<1>2. Missed = {}
  <2> SUFFICES ASSUME Missed # {} PROVE FALSE
    OBVIOUS
  <2> DEFINE n == Min(Missed)
  <2>1. n \in Missed /\ \A k \in Missed : n <= k
    BY MinNat
  <2> HIDE DEF n
  <2>2. PICK T \in SUBSET h : Cardinality(T) = n /\ ~ WrittenAs(g[T], base, T)
    BY <2>1
  <2>3. CASE T = {}
    <3>1. g[T] = base
      BY <1>1, <2>3
    <3> QED
      BY <2>2, <2>3, <3>1, NothingWritten
  <2>4. CASE T # {}
    <3> DEFINE p == first(T)
               R == T \ {p}
    <3>1. p \in T /\ Cardinality(R) = n - 1 /\ R \in SUBSET h /\ n \in Nat
          /\ Cardinality(R) \in Nat /\ R \cup {p} = T /\ p \notin R
          /\ g[T] = Emit(p, g[R]) /\ AreHeaders(T)
      <4>1. p \in T /\ Cardinality(R) = n - 1 /\ n \in Nat
            /\ g[T] = Emit(p, g[R]) /\ AreHeaders(T)
        BY <1>1, <2>2, <2>4
      <4>2. R \in SUBSET h
        OBVIOUS
      <4>3. Cardinality(R) \in Nat
        BY <1>1, <4>2
      <4> QED
        BY <4>1, <4>2, <4>3
    <3> HIDE DEF p, R
    <3>2. WrittenAs(g[R], base, R)
      <4>1. n - 1 \in Nat /\ ~ (n <= n - 1)
        BY <3>1
      <4>2. n - 1 \notin Missed
        BY <2>1, <4>1
      <4> QED
        BY <3>1, <4>1, <4>2
    <3>3. WrittenAs(g[T], base, T)
      <4>1. AreHeaders(R \cup {p})
        BY <3>1
      <4>2. WrittenAs(Emit(p, g[R]), base, R \cup {p})
        BY <3>1, <3>2, <4>1, OneMoreWritten
      <4> QED
        BY <3>1, <4>2
    <3> QED
      BY <2>2, <3>3
  <2> QED
    BY <2>3, <2>4
<1> QED
  BY <1>1, <1>2

\* The first line of a request has been read, and is what method, uri and
\* version were taken from.
FirstRead(m) ==
  LET line == m.start_line
      text == Rstrip(line)
      i == Min(Spaces(text))
      j == Max(Spaces(text))
  IN  /\ LineEnds(line) = {Len(line)}
      /\ Cardinality(Spaces(text)) = 2
      /\ m.method = SubSeq(text, 1, i - 1)
      /\ m.uri = SubSeq(text, i + 1, j - 1)
      /\ m.version = After(text, j)

\* What parse() has made of the pieces so far could have been read from the
\* bytes that to_bytes() writes.
Formed(m) ==
  /\ AreHeaders(m.headers)
  /\ m.parser_state # "BODY" => m.body = <<>>
  /\ m.message_type = "REQUEST" => m.status_code = <<>>
  /\ m.message_type = "REQUEST" /\ m.parser_state \in {"HEADERS", "END"} => FirstRead(m)
  /\ m.parser_state = "END" => m.message_type = "REQUEST" /\ m.method = <<"GET">>

LEMMA BlankLine ==
  ASSUME NEW q \in Message, q.parser_state = "HEADERS",
         q.message_type = "REQUEST", q.method = <<"GET">>
  PROVE  ParseHeaders(q, <<CR, LF>>) = Returns([q EXCEPT !.parser_state = "END"])
<1> DEFINE s == <<CR, LF>>
<1>1. s \in Bytes /\ Len(s) = 2 /\ s[1] # LF /\ s[2] = LF /\ IsBlank(s)
  BY Delimiters DEF IsBlank
<1> HIDE DEF s
<1>2. LineEnds(s) = {2}
  <2>1. \A i : i \in LineEnds(s) <=> i \in 1 .. 2 /\ s[i] = LF
    BY <1>1, LineEndsIs
  <2> QED
    BY <1>1, <2>1
<1>3. LineAt(s, 2) = s
  <2>1. 2 \in LineEnds(s) /\ 0 \in 0 .. 2 - 1 /\ IsBegin(s, 2, 0)
    BY <1>2 DEF IsBegin
  <2>2. LineAt(s, 2) = SubSeq(s, 0 + 1, 2)
    BY <1>1, <2>1, LineIs
  <2>3. SubSeq(s, 1, 2) = s
    BY <1>1, WholeIs
  <2> QED
    BY <2>2, <2>3
<1>4. Stops(s) = {2}
  BY <1>1, <1>2, <1>3 DEF Stops
<1>5. Min(Stops(s)) = 2
  BY <1>4, LeastIs
<1>6. ReadLines(s) = {}
  BY <1>2, <1>4 DEF ReadLines
<1>7. HeadersRead(q, s, {}) = q
  <2>1. AddHeaders(q.headers, s, {}) = q.headers
    <3>1. q.headers \in SUBSET (Bytes \X Bytes)
      BY DEF Message
    <3> DEFINE h == q.headers
    <3> HIDE DEF h
    <3>2. AddHeaders(h, s, {}) = h
      BY DEF AddHeaders
    <3> QED
      BY <3>2 DEF h
  <2>2. [q EXCEPT !.headers = q.headers] = q
    BY DEF Message
  <2> QED
    BY <2>1, <2>2 DEF HeadersRead
<1>8. ~ IsBadHeader(s)
  BY <1>1 DEF IsBadHeader
<1>9. AfterHeaders(q) = "END"
  BY DEF AfterHeaders
<1> DEFINE done == [q EXCEPT !.parser_state = "END"]
<1>10. done.parser_state = "END"
  BY DEF Message
<1> HIDE DEF done
<1>11. ParseHeaders(q, s) = Returns(done)
  BY <1>3, <1>4, <1>5, <1>6, <1>7, <1>8, <1>9, <1>10, HeadersAre DEF done
<1> QED
  BY <1>11 DEF done, s

\* What to_bytes() writes of a request that was parsed to its end is parsed,
\* in one piece, as that request.
THEOREM ParsedBack ==
  ASSUME NEW m \in Message, m.message_type = "REQUEST", m.parser_state = "END",
         Formed(m)
  PROVE  Parse(NewMessage("REQUEST"), ToBytes(m))
           = Returns([m EXCEPT !.residual = <<>>])
<1> DEFINE new == NewMessage("REQUEST")
           line == m.start_line
           h == m.headers
           d == <<CR, LF>>
           g == CHOOSE g : Composes(g, line, h)
<1>1. /\ line \in Bytes /\ AreHeaders(h) /\ m.body = <<>> /\ m.status_code = <<>>
      /\ FirstRead(m) /\ m.method = <<"GET">>
  BY DEF Message, Formed
<1>2. Composes(g, line, h)
  <2>1. IsFiniteSet(h)
    BY <1>1 DEF AreHeaders
  <2>2. \E w : Composes(w, line, h)
    BY <2>1, WritesExists
  <2> HIDE DEF line, h
  <2> QED
    BY <2>2
<1>3. ToBytes(m) = g[h] \o d \o m.body
  BY ToBytesIs
<1> HIDE DEF new, line, h, d, g
<1>4. PICK u \in Bytes : /\ g[h] = line \o u
                         /\ EndsALine(u)
                         /\ Stops(u) = {}
                         /\ AddHeaders({}, u, LineEnds(u)) = h
  BY <1>1, <1>2, HeadersWritten DEF WrittenAs
<1> DEFINE v == u \o d
<1>5. d \in Bytes
  BY Delimiters DEF d
<1>6. v \in Bytes
  BY <1>5, ConcatIs
<1>7. ToBytes(m) = line \o v
  <2> DEFINE w == (line \o u) \o d
  <2>1. line \o u \in Bytes
    BY <1>1, ConcatIs
  <2>2. w \in Bytes
    <3> DEFINE lu == line \o u
    <3>1. lu \in Bytes
      BY <2>1
    <3> HIDE DEF lu
    <3>2. lu \o d \in Bytes
      BY <1>5, <3>1, ConcatIs
    <3> QED
      BY <3>2 DEF lu
  <2>3. w = line \o v
    BY <1>1, <1>5, Associative
  <2>4. ToBytes(m) = w \o <<>>
    BY <1>1, <1>3, <1>4
  <2> HIDE DEF w
  <2>5. w \o <<>> = w
    <3>1. w \in Seq(Byte)
      BY <2>2 DEF Bytes
    <3> QED
      BY <3>1, ConcatEmptySeq
  <2> QED
    BY <2>3, <2>4, <2>5
<1>8. /\ new \in Message /\ new.parser_state = "START" /\ new.residual = <<>>
      /\ new.message_type = "REQUEST"
  <2>1. "REQUEST" \in MessageType
    BY DEF MessageType
  <2> QED
    BY <2>1, NewMessageType DEF new, NewMessage
<1>9. Parse(new, line \o v) = ParseStart(new, line \o v)
  <2> DEFINE t == line \o v
  <2>1. t \in Bytes
    BY <1>1, <1>6, ConcatIs
  <2> HIDE DEF t
  <2>2. <<>> \o t = t
    <3>1. t \in Seq(Byte)
      BY <2>1 DEF Bytes
    <3> QED
      BY <3>1, ConcatEmptySeq
  <2>3. Parse(new, t) = ParseStart(new, t)
    BY <1>8, <2>2 DEF Parse
  <2> QED
    BY <2>3 DEF t
<1>10. HasLine(line) /\ FirstLine(line) = line /\ Len(line) \in Nat
  <2>1. LineEnds(line) = {Len(line)} /\ Len(line) \in Nat
    BY <1>1, Marks DEF FirstRead, line
  <2>2. HasLine(line)
    BY <2>1 DEF HasLine
  <2>3. Min(LineEnds(line)) = Len(line)
    BY <2>1, LeastIs
  <2> QED
    BY <1>1, <2>1, <2>2, <2>3, FirstLineIs, WholeIs
<1>11. HasLine(line \o v) /\ FirstLine(line \o v) = line /\ After(line \o v, Len(line)) = v
  <2>1. After(line \o v, Len(line) + 0) = After(v, 0)
    <3>1. 0 \in 0 .. Len(v)
      BY <1>6, Marks
    <3> HIDE DEF v
    <3> QED
      BY <1>1, <1>6, <3>1, AfterSecond
  <2>2. After(v, 0) = v
    BY <1>6, AfterNone
  <2>3. Len(line) + 0 = Len(line)
    BY <1>10
  <2> HIDE DEF v
  <2>4. HasLine(line \o v) /\ FirstLine(line \o v) = line
    BY <1>1, <1>6, <1>10, FirstLineOfBoth
  <2> QED
    BY <2>1, <2>2, <2>3, <2>4
<1> DEFINE split == RequestSplit(Begun(new, line), line)
<1>12. /\ split \in Message /\ split.parser_state = "HEADERS"
       /\ ParseStart(new, line \o v) = ParseHeaders(split, v)
  <2>1. IsFirst(new, line)
    BY <1>1, <1>8 DEF IsFirst, FirstRead, line
  <2>2. Begun(new, line).message_type = "REQUEST"
    BY <1>8 DEF Begun, Message
  <2>3. SplitFirst(Begun(new, line), line) = split
    BY <2>2 DEF SplitFirst
  <2> DEFINE t == line \o v
  <2>4. t \in Bytes /\ HasLine(t) /\ FirstLine(t) = line /\ After(t, Len(line)) = v
    BY <1>1, <1>6, <1>11, ConcatIs
  <2> HIDE DEF t, split, v
  <2>5. /\ SplitFirst(Begun(new, line), line) \in Message
        /\ SplitFirst(Begun(new, line), line).parser_state = "HEADERS"
        /\ ParseStart(new, t) = ParseHeaders(SplitFirst(Begun(new, line), line), v)
    BY <1>8, <2>1, <2>4, StartIs
  <2> QED
    BY <2>3, <2>5 DEF t
<1> DEFINE q == HeadersRead(split, u, LineEnds(u))
<1>13. /\ split.message_type = "REQUEST" /\ split.start_line = line
       /\ split.method = m.method /\ split.uri = m.uri /\ split.version = m.version
       /\ split.status_code = <<>> /\ split.headers = {} /\ split.body = <<>>
       /\ split.residual = <<>>
  BY <1>1 DEF new, NewMessage, Begun, RequestSplit, FirstRead, Message, line
<1> HIDE DEF split
<1>14. q \in Message /\ q = [split EXCEPT !.headers = h]
  <2>1. LineEnds(u) \in SUBSET LineEnds(u) /\ LineEnds(u) \cap Stops(u) = {}
    BY <1>4
  <2>2. q \in Message
    BY <1>12, <2>1, HeadersReadIs
  <2> QED
    BY <1>4, <1>13, <2>2 DEF HeadersRead
<1>15. ParseHeaders(split, v) = ParseHeaders(q, d)
  BY <1>4, <1>5, <1>12, HeadersThen
<1> HIDE DEF q, v
<1>16. /\ q.parser_state = "HEADERS" /\ q.message_type = "REQUEST"
       /\ q.method = <<"GET">>
  BY <1>1, <1>12, <1>13, <1>14 DEF Message
<1>17. ParseHeaders(q, d) = Returns([q EXCEPT !.parser_state = "END"])
  BY <1>14, <1>16, BlankLine DEF d
<1>18. [q EXCEPT !.parser_state = "END"] = [m EXCEPT !.residual = <<>>]
  BY <1>1, <1>12, <1>13, <1>14 DEF Message, line, h
<1> QED
  BY <1>7, <1>9, <1>12, <1>15, <1>17, <1>18 DEF new

\* A line has one line feed, which ends it.
LEMMA LineEndsAtEnd ==
  ASSUME NEW s \in Bytes, NEW i \in LineEnds(s)
  PROVE  /\ LineAt(s, i) \in Bytes
         /\ \A k \in 1 .. Len(LineAt(s, i)) :
              LineAt(s, i)[k] = LF => k = Len(LineAt(s, i))
<1>1. PICK b \in 0 .. i - 1 : IsBegin(s, i, b)
  BY LineIs
<1> DEFINE v == LineAt(s, i)
<1>2. v = SubSeq(s, b + 1, i)
  BY <1>1, LineIs
<1>3. i \in 1 .. Len(s) /\ Len(s) \in Nat /\ b \in Nat /\ b < i
  BY <1>1, Marks
<1> HIDE DEF v
<1>4. /\ v \in Bytes /\ Len(v) = i - b
      /\ \A k \in 1 .. i - b : v[k] = s[b + k]
  <2>1. b + 1 \in Nat \ {0} /\ i \in Int /\ i <= Len(s) /\ b + 1 <= i
    BY <1>3
  <2>2. /\ v \in Bytes /\ Len(v) = i - (b + 1) + 1
        /\ \A k \in 1 .. i - (b + 1) + 1 : v[k] = s[(b + 1) + k - 1]
    BY <1>2, <2>1, PieceIs
  <2>3. i - (b + 1) + 1 = i - b /\ \A k \in 1 .. i - b : (b + 1) + k - 1 = b + k
    BY <1>3
  <2> QED
    BY <2>2, <2>3
<1>5. ASSUME NEW k \in 1 .. i - b, v[k] = LF
      PROVE  k = i - b
  <2>1. b + k \in LineEnds(s)
    <3>1. b + k \in 1 .. Len(s) /\ s[b + k] = LF
      BY <1>3, <1>4, <1>5
    <3> QED
      BY <3>1, LineEndsIs
  <2>2. ~ (b + k < i)
    <3>1. b + k < i => b + k <= b
      BY <1>1, <2>1 DEF IsBegin
    <3>2. ~ (b + k <= b)
      BY <1>3
    <3> QED
      BY <3>1, <3>2
  <2> QED
    BY <1>3, <2>2
<1> QED
  BY <1>4, <1>5 DEF v

LEMMA StripIs ==
  ASSUME NEW v \in Bytes, \A k \in 1 .. Len(v) : v[k] = LF => k = Len(v)
  PROVE  /\ Strip(v) \in Bytes /\ Stripped(Strip(v))
         /\ \A k \in DOMAIN Strip(v) : Strip(v)[k] # LF
<1> DEFINE A == {Len(v) + 1} \cup Solid(v)
           B == {0} \cup Solid(v)
           a == Min(A)
           b == Max(B)
           t == SubSeq(v, a, b)
           N == Len(v)
<1>1. N \in Nat /\ Solid(v) \subseteq 1 .. N /\ DOMAIN v = 1 .. N
  BY Marks, LenProperties DEF Bytes
<1> HIDE DEF N
<1>2. /\ A \in SUBSET (1 .. N + 1) /\ A \in SUBSET Nat /\ A # {}
      /\ B \in SUBSET (0 .. N) /\ B # {}
  <2>1. N + 1 \in 1 .. N + 1 /\ 0 \in 0 .. N /\ 1 .. N + 1 \subseteq Nat
        /\ \A k \in 1 .. N : k \in 1 .. N + 1 /\ k \in 0 .. N
    BY <1>1
  <2>2. A = {N + 1} \cup Solid(v)
    BY DEF N
  <2> DEFINE S == Solid(v)
  <2>3. S \subseteq 1 .. N /\ A = {N + 1} \cup S /\ B = {0} \cup S
    BY <1>1, <2>2
  <2> HIDE DEF S, A, B
  <2> QED
    BY <2>1, <2>3
<1>3. /\ a \in A /\ \A k \in Solid(v) : a <= k
      /\ b \in B /\ \A k \in Solid(v) : k <= b
  <2>1. a \in A /\ \A k \in A : a <= k
    BY <1>2, MinNat
  <2>2. b \in B /\ \A k \in B : k <= b
    BY <1>1, <1>2, MaxUpTo
  <2> HIDE DEF a, b
  <2> QED
    BY <2>1, <2>2
<1> HIDE DEF a, b
<1>4. a \in Nat \ {0} /\ b \in Int /\ b <= N /\ b \in Nat /\ a <= N + 1
  <2>1. a \in 1 .. N + 1 /\ b \in 0 .. N
    BY <1>2, <1>3
  <2> QED
    BY <1>1, <2>1
<1>5. /\ t \in Bytes
      /\ Len(t) = IF a <= b THEN b - a + 1 ELSE 0
      /\ \A k \in 1 .. b - a + 1 : t[k] = v[a + k - 1]
  BY <1>4, PieceIs DEF N
<1>6. Strip(v) = t
  BY DEF Strip, a, b, t
<1> HIDE DEF t
<1>7. DOMAIN t = 1 .. Len(t)
  BY <1>5, LenProperties DEF Bytes
<1>8. CASE ~ (a <= b)
  <2>1. t = <<>> /\ DOMAIN t = {}
    BY <1>5, <1>7, <1>8, EmptySeq DEF Bytes
  <2> QED
    BY <1>5, <1>6, <2>1 DEF Stripped
<1>9. CASE a <= b
  <2>1. a \in Solid(v) /\ b \in Solid(v)
    <3>1. b # 0
      BY <1>4, <1>9
    <3>2. a # N + 1
      BY <1>1, <1>4, <1>9
    <3> QED
      BY <1>3, <3>1, <3>2 DEF N
  <2>2. v[a] \notin White /\ v[b] \notin White
    BY <2>1 DEF Solid
  <2>3. Len(t) = b - a + 1 /\ Len(t) \in Nat \ {0}
    BY <1>4, <1>5, <1>9
  <2>4. t[1] = v[a] /\ t[Len(t)] = v[b]
    <3>1. 1 \in 1 .. b - a + 1 /\ b - a + 1 \in 1 .. b - a + 1
          /\ a + 1 - 1 = a /\ a + (b - a + 1) - 1 = b
      BY <1>4, <1>9
    <3>2. t[1] = v[a + 1 - 1] /\ t[b - a + 1] = v[a + (b - a + 1) - 1]
      BY <1>5, <3>1
    <3> QED
      BY <2>3, <3>1, <3>2
  <2>5. ASSUME NEW k \in 1 .. Len(t) PROVE t[k] # LF
    <3>1. t[k] = v[a + k - 1] /\ a + k - 1 \in 1 .. N /\ a + k - 1 <= b
      <4>1. k \in 1 .. b - a + 1
        BY <2>3
      <4>2. a + k - 1 \in 1 .. N /\ a + k - 1 <= b
        <5>1. N \in Nat
          BY <1>1
        <5> QED
          BY <1>4, <1>9, <4>1, <5>1
      <4> QED
        BY <1>5, <4>1, <4>2
    <3>2. v[b] # LF
      BY <2>2 DEF White
    <3>3. ASSUME v[a + k - 1] = LF PROVE FALSE
      <4>1. a + k - 1 = N
        BY <3>1, <3>3 DEF N
      <4>2. b = N
        BY <1>4, <3>1, <4>1
      <4> QED
        BY <3>2, <3>3, <4>1, <4>2
    <3> QED
      BY <3>1, <3>3
  <2> QED
    BY <1>5, <1>6, <1>7, <2>2, <2>4, <2>5 DEF Stripped
<1> QED
  BY <1>8, <1>9

LEMMA LineHeader ==
  ASSUME NEW s \in Bytes, NEW i \in LineEnds(s), Colons(LineAt(s, i)) # {}
  PROVE  IsHeader(<<HeaderName(LineAt(s, i)), HeaderValue(LineAt(s, i))>>)
<1> DEFINE v == LineAt(s, i)
           n == Min(Colons(v))
           name == HeaderName(v)
           rest == After(v, n)
<1>1. v \in Bytes /\ \A k \in 1 .. Len(v) : v[k] = LF => k = Len(v)
  BY LineEndsAtEnd
<1> HIDE DEF v
<1>2. /\ Colons(v) \subseteq 1 .. Len(v) /\ Len(v) \in Nat /\ DOMAIN v = 1 .. Len(v)
  BY <1>1, Marks, LenProperties DEF Bytes
<1>3. Colons(v) # {} /\ Colons(v) \in SUBSET Nat
  BY <1>2 DEF v
<1>4. n \in Colons(v) /\ \A k \in Colons(v) : n <= k
  BY <1>3, MinNat
<1> HIDE DEF n
<1>5. n \in 1 .. Len(v) /\ v[n] = COLON
  BY <1>2, <1>4 DEF Colons
<1>6. name = SubSeq(v, 1, n - 1)
  BY DEF HeaderName, name, n
<1> HIDE DEF name, rest
<1>7. /\ name \in Bytes /\ Len(name) = n - 1
      /\ \A k \in 1 .. n - 1 : name[k] = v[k]
  <2>1. n - 1 \in 0 .. Len(v) /\ n - 1 \in Int /\ 1 \in Nat \ {0} /\ n - 1 <= Len(v)
    BY <1>2, <1>5
  <2>2. /\ name \in Bytes
        /\ \A k \in 1 .. (n - 1) - 1 + 1 : name[k] = v[1 + k - 1]
    BY <1>1, <1>6, <2>1, PieceIs
  <2>3. Len(name) = n - 1
    BY <1>1, <1>6, <2>1, Halves
  <2>4. (n - 1) - 1 + 1 = n - 1 /\ \A k \in 1 .. n - 1 : 1 + k - 1 = k
    BY <1>5
  <2> QED
    BY <2>2, <2>3, <2>4
<1>8. \A k \in DOMAIN name : name[k] \notin {LF, COLON}
  <2>1. DOMAIN name = 1 .. n - 1
    BY <1>7, LenProperties DEF Bytes
  <2>2. ASSUME NEW k \in 1 .. n - 1 PROVE name[k] # LF /\ name[k] # COLON
    <3>1. k \in 1 .. Len(v) /\ k # Len(v) /\ ~ (n <= k)
      <4> DEFINE N == Len(v)
      <4>1. N \in Nat /\ n \in 1 .. N
        BY <1>2, <1>5
      <4> HIDE DEF N
      <4>2. k \in 1 .. N /\ k # N /\ ~ (n <= k)
        BY <4>1
      <4> QED
        BY <4>2 DEF N
    <3>2. v[k] # LF
      BY <1>1, <3>1
    <3>3. v[k] # COLON
      BY <1>2, <1>4, <3>1 DEF Colons
    <3> QED
      BY <1>7, <3>2, <3>3
  <2> QED
    BY <2>1, <2>2
<1>9. /\ rest \in Bytes
      /\ \A k \in 1 .. Len(rest) : rest[k] = LF => k = Len(rest)
  <2>1. n \in 0 .. Len(v)
    BY <1>2, <1>5
  <2>2. rest \in Bytes /\ Len(rest) = Len(v) - n
    BY <1>1, <2>1, Halves DEF rest
  <2>3. \A k \in 1 .. Len(v) - n : rest[k] = v[n + k]
    <3>1. n + 1 \in Nat \ {0} /\ Len(v) \in Int /\ Len(v) <= Len(v)
      BY <1>2, <1>5
    <3>2. \A k \in 1 .. Len(v) - (n + 1) + 1 :
             SubSeq(v, n + 1, Len(v))[k] = v[(n + 1) + k - 1]
      BY <1>1, <3>1, PieceIs
    <3>3. Len(v) - (n + 1) + 1 = Len(v) - n
          /\ \A k \in 1 .. Len(v) - n : (n + 1) + k - 1 = n + k
      BY <1>2, <1>5
    <3> QED
      BY <3>2, <3>3 DEF After, rest
  <2>4. ASSUME NEW k \in 1 .. Len(rest), rest[k] = LF PROVE k = Len(rest)
    <3>1. n + k \in 1 .. Len(v) /\ v[n + k] = LF
      BY <1>2, <1>5, <2>2, <2>3, <2>4
    <3>2. n + k = Len(v)
      BY <1>1, <3>1
    <3> DEFINE N == Len(v)
               R == Len(rest)
    <3>3. N \in Nat /\ n \in 1 .. N /\ R = N - n /\ n + k = N /\ k \in 1 .. R
      BY <1>2, <1>5, <2>2, <3>2
    <3> HIDE DEF N, R
    <3>4. k = R
      BY <3>3
    <3> QED
      BY <3>4 DEF R
  <2> QED
    BY <2>2, <2>4
<1>10. HeaderValue(v) = Strip(rest)
  BY DEF HeaderValue, rest, n
<1>11. /\ HeaderValue(v) \in Bytes /\ Stripped(HeaderValue(v))
       /\ \A k \in DOMAIN HeaderValue(v) : HeaderValue(v)[k] # LF
  BY <1>9, <1>10, StripIs
<1> QED
  BY <1>7, <1>8, <1>11 DEF IsHeader, name, v

LEMMA HeadersAdded ==
  ASSUME NEW h, AreHeaders(h), NEW s \in Bytes, NEW ends \in SUBSET LineEnds(s),
         \A i \in ends : Colons(LineAt(s, i)) # {}
  PROVE  AreHeaders(AddHeaders(h, s, ends))
<1> DEFINE name(i) == HeaderName(LineAt(s, i))
           value(i) == HeaderValue(LineAt(s, i))
           last == {i \in ends : \A j \in ends : j > i => name(j) # name(i)}
           old == {p \in h : \A i \in ends : name(i) # p[1]}
           new == {<<name(i), value(i)>> : i \in last}
<1>1. AddHeaders(h, s, ends) = old \cup new
  BY DEF AddHeaders
<1>2. \A i \in ends : IsHeader(<<name(i), value(i)>>)
  BY LineHeader
<1>3. ends \subseteq 1 .. Len(s) /\ Len(s) \in Nat
  BY Marks
<1> HIDE DEF name, value
<1>4. IsFiniteSet(old)
  BY FS_Subset DEF AreHeaders
<1>5. IsFiniteSet(new)
  <2>1. IsFiniteSet(1 .. Len(s))
    BY <1>3, FS_Interval
  <2>2. IsFiniteSet(last)
    BY <1>3, <2>1, FS_Subset
  <2> DEFINE f == [i \in last |-> <<name(i), value(i)>>]
  <2>3. new = {f[i] : i \in last}
    OBVIOUS
  <2>4. f \in Surjection(last, new)
    <3> HIDE DEF f, last
    <3>1. f \in [last -> new] /\ DOMAIN f = last
      BY <2>3 DEF f
    <3>2. \A x \in new : \E i \in last : f[i] = x
      BY <2>3
    <3> QED
      BY <3>1, <3>2 DEF Surjection
  <2> HIDE DEF f, last, new
  <2> QED
    BY <2>2, <2>4, FS_Surjection
<1>6. IsFiniteSet(old \cup new)
  BY <1>4, <1>5, FS_Union
<1>7. \A p \in old \cup new : IsHeader(p)
  BY <1>2 DEF AreHeaders
<1>8. ASSUME NEW p \in old \cup new, NEW q \in old \cup new, p[1] = q[1] PROVE p = q
  <2>1. CASE p \in old /\ q \in old
    BY <1>8, <2>1 DEF AreHeaders
  <2>2. CASE p \in old /\ q \in new
    BY <1>8, <2>2
  <2>3. CASE p \in new /\ q \in old
    BY <1>8, <2>3
  <2>4. CASE p \in new /\ q \in new
    <3>1. PICK i \in last, j \in last : p = <<name(i), value(i)>> /\ q = <<name(j), value(j)>>
      BY <2>4
    <3>2. name(i) = name(j) /\ i \in Nat /\ j \in Nat
      BY <1>3, <1>8, <3>1
    <3>3. i = j
      BY <3>1, <3>2
    <3> QED
      BY <3>1, <3>3
  <2> QED
    BY <2>1, <2>2, <2>3, <2>4
<1> QED
  BY <1>1, <1>6, <1>7, <1>8 DEF AreHeaders

FormedFrom(m, n) == Formed(n) /\ n.message_type = m.message_type

LEMMA HeadersFormed ==
  ASSUME NEW m \in Message, m.parser_state = "HEADERS", Formed(m), NEW s \in Bytes
  PROVE  FormedFrom(m, ParseHeaders(m, s).m)
<1> DEFINE h == AddHeaders(m.headers, s, ReadLines(s))
           got == HeadersRead(m, s, ReadLines(s))
<1>1. AreHeaders(h)
  <2>1. ReadLines(s) \in SUBSET LineEnds(s) /\ ReadLines(s) \cap Stops(s) = {}
    BY ReadIsNoStop
  <2>2. \A i \in ReadLines(s) : Colons(LineAt(s, i)) # {}
    BY <2>1 DEF Stops, IsBadHeader
  <2>3. AreHeaders(m.headers)
    BY DEF Formed
  <2> QED
    BY <2>1, <2>2, <2>3, HeadersAdded
<1>2. /\ got = [m EXCEPT !.headers = h]
      /\ got \in [DOMAIN m -> {got[f] : f \in DOMAIN got}]
  BY DEF HeadersRead, Message
<1> HIDE DEF h, got
<1>3. ASSUME NEW x
      PROVE  LET n == [got EXCEPT !.residual = x]
             IN  FormedFrom(m, n)
  BY <1>1, <1>2 DEF Formed, FormedFrom, FirstRead, Message
<1>4. FormedFrom(m, got)
  BY <1>1, <1>2 DEF Formed, FormedFrom, FirstRead, Message
<1>5. CASE Stops(s) = {}
  <2> DEFINE x == KeepResidual(got.residual, PartialLine(s))
  <2>1. ParseHeaders(m, s) = Returns([got EXCEPT !.residual = x])
    BY <1>5, HeadersAre DEF got
  <2> HIDE DEF x
  <2> QED
    BY <1>3, <2>1 DEF Returns
<1>6. CASE Stops(s) # {} /\ IsBadHeader(LineAt(s, Min(Stops(s))))
  <2>1. ParseHeaders(m, s) = Raises(got)
    BY <1>6, HeadersAre DEF got
  <2> QED
    BY <1>4, <2>1 DEF Raises
<1>7. CASE Stops(s) # {} /\ ~ IsBadHeader(LineAt(s, Min(Stops(s))))
  <2> DEFINE done == [got EXCEPT !.parser_state = AfterHeaders(m)]
             rest == After(s, Min(Stops(s)))
  <2>1. done.parser_state = AfterHeaders(m)
    BY <1>2 DEF Message
  <2>2. CASE AfterHeaders(m) = "BODY"
    <3>1. ParseHeaders(m, s) = ParseBody(done, rest)
      BY <1>7, <2>1, <2>2, HeadersAre DEF got
    <3> DEFINE full == [done EXCEPT !.body = done.body \o rest]
    <3>2. ParseHeaders(m, s).m = full
      BY <3>1 DEF ParseBody, Returns
    <3>3. /\ full.parser_state = "BODY" /\ full.headers = h
          /\ full.message_type = m.message_type /\ full.status_code = m.status_code
      BY <1>2, <2>2 DEF Message
    <3> HIDE DEF full
    <3> QED
      BY <1>1, <3>2, <3>3 DEF Formed, FormedFrom
  <2>3. CASE AfterHeaders(m) = "END"
    <3>1. ParseHeaders(m, s) = Returns(done)
      BY <1>7, <2>1, <2>3, HeadersAre DEF got
    <3>2. ParseHeaders(m, s).m = done
      BY <3>1 DEF Returns
    <3>3. m.message_type = "REQUEST" /\ m.method = <<"GET">>
      BY <2>3 DEF AfterHeaders
    <3>4. /\ done.parser_state = "END" /\ done.headers = h
          /\ done.message_type = m.message_type /\ done.status_code = m.status_code
          /\ done.body = m.body /\ done.start_line = m.start_line
          /\ done.method = m.method /\ done.uri = m.uri /\ done.version = m.version
      BY <1>2, <2>3 DEF Message
    <3> HIDE DEF done
    <3>5. FirstRead(m) /\ m.body = <<>> /\ m.status_code = <<>>
      BY <3>3 DEF Formed
    <3>6. FirstRead(done)
      BY <3>4, <3>5 DEF FirstRead
    <3> QED
      BY <1>1, <3>2, <3>3, <3>4, <3>5, <3>6 DEF Formed, FormedFrom
  <2> QED
    BY <2>2, <2>3 DEF AfterHeaders
<1> QED
  BY <1>5, <1>6, <1>7

LEMMA StartFormed ==
  ASSUME NEW m \in Message, m.parser_state = "START", Formed(m), NEW s \in Bytes
  PROVE  FormedFrom(m, ParseStart(m, s).m)
<1> DEFINE line == FirstLine(s)
           rest == After(s, Len(line))
           begun == Begun(m, line)
<1>1. line \in Bytes /\ rest \in Bytes
  BY FirstLineType, AfterType
<1>2. /\ begun.parser_state = "START" /\ begun.headers = m.headers
      /\ begun.message_type = m.message_type /\ begun.status_code = m.status_code
      /\ begun.body = m.body /\ begun.start_line = line /\ begun \in Message
  <2> HIDE DEF line
  <2> QED
    BY <1>1 DEF Begun, Message
<1>3. /\ AreHeaders(m.headers) /\ m.body = <<>>
      /\ m.message_type = "REQUEST" => m.status_code = <<>>
  BY DEF Formed
<1> HIDE DEF line, rest, begun
<1>4. FormedFrom(m, begun)
  BY <1>2, <1>3 DEF Formed, FormedFrom
<1>5. CASE ~ HasLine(s)
  <2> DEFINE kept == [begun EXCEPT !.residual = line]
  <2>1. ParseStart(m, s) = Returns(kept)
    BY <1>5, StartIs DEF begun, line
  <2>2. /\ kept.parser_state = "START" /\ kept.headers = m.headers
        /\ kept.message_type = m.message_type /\ kept.status_code = m.status_code
        /\ kept.body = m.body
    BY <1>2 DEF Message
  <2> HIDE DEF kept
  <2>3. ParseStart(m, s).m = kept
    BY <2>1 DEF Returns
  <2> QED
    BY <1>3, <2>2, <2>3 DEF Formed, FormedFrom
<1>6. CASE HasLine(s) /\ ~ IsFirst(m, line)
  <2>1. ParseStart(m, s) = NotFirst(m, begun, rest)
    BY <1>6, StartIs DEF begun, line, rest
  <2>2. CASE m.message_type = "REQUEST"
    BY <1>4, <2>1, <2>2 DEF NotFirst, Raises
  <2>3. CASE m.message_type # "REQUEST"
    <3> DEFINE full == [InBody(begun) EXCEPT !.body = @ \o rest]
    <3>1. ParseStart(m, s).m = full
      BY <2>1, <2>3 DEF NotFirst, ParseBody, Returns
    <3>2. /\ full.parser_state = "BODY" /\ full.headers = m.headers
          /\ full.message_type = m.message_type
      BY <1>2 DEF InBody, Message
    <3> HIDE DEF full
    <3> QED
      BY <1>3, <2>3, <3>1, <3>2 DEF Formed, FormedFrom
  <2> QED
    BY <2>2, <2>3
<1>7. CASE HasLine(s) /\ IsFirst(m, line)
  <2> DEFINE split == SplitFirst(begun, line)
  <2>1. /\ split \in Message /\ split.parser_state = "HEADERS"
        /\ ParseStart(m, s) = ParseHeaders(split, rest)
    BY <1>7, StartIs DEF begun, line, rest
  <2>2. CASE m.message_type = "REQUEST"
    <3>1. split = RequestSplit(begun, line)
      BY <1>2, <2>2 DEF SplitFirst
    <3>2. /\ split.headers = m.headers /\ split.message_type = m.message_type
          /\ split.status_code = m.status_code /\ split.body = m.body
          /\ split.start_line = line
      BY <1>2, <3>1 DEF RequestSplit, Message
    <3>3. LineEnds(line) = {Len(line)}
      <4> DEFINE k == Min(LineEnds(s))
      <4>1. k \in LineEnds(s) /\ line = LineAt(s, k) /\ Len(line) = k /\ k \in 1 .. Len(s)
            /\ line = SubSeq(s, 1, k)
        BY <1>7, FirstLineIs DEF line
      <4> HIDE DEF k
      <4>2. \A i \in 1 .. Len(line) : line[i] = LF => i = Len(line)
        BY <4>1, LineEndsAtEnd
      <4>3. Len(line) \in 1 .. Len(line) /\ line[Len(line)] = LF
        <5>1. Len(s) \in Nat /\ s[k] = LF
          BY <4>1, Marks, LineEndsIs
        <5>2. 1 \in Nat \ {0} /\ k \in Int /\ k <= Len(s) /\ k \in 1 .. k - 1 + 1 /\ 1 + k - 1 = k
          BY <4>1, <5>1
        <5>3. \A i \in 1 .. k - 1 + 1 : SubSeq(s, 1, k)[i] = s[1 + i - 1]
          BY <5>2, PieceIs
        <5>4. SubSeq(s, 1, k)[k] = s[k]
          BY <5>2, <5>3
        <5> QED
          BY <4>1, <5>1, <5>2, <5>4
      <4>4. \A i : i \in LineEnds(line) <=> i \in 1 .. Len(line) /\ line[i] = LF
        BY <1>1, LineEndsIs
      <4> QED
        BY <4>2, <4>3, <4>4
    <3>4. FirstRead(split)
      <4>1. Cardinality(Spaces(Rstrip(line))) = 2
        BY <1>7, <2>2 DEF IsFirst
      <4>2. LET text == Rstrip(line)
                i == Min(Spaces(text))
                j == Max(Spaces(text))
            IN  /\ split.method = SubSeq(text, 1, i - 1)
                /\ split.uri = SubSeq(text, i + 1, j - 1)
                /\ split.version = After(text, j)
        BY <1>2, <3>1 DEF RequestSplit, Message
      <4> HIDE DEF split
      <4> QED
        BY <3>2, <3>3, <4>1, <4>2 DEF FirstRead
    <3> HIDE DEF split
    <3>5. Formed(split)
      BY <1>3, <2>1, <2>2, <3>2, <3>4 DEF Formed
    <3>6. FormedFrom(split, ParseHeaders(split, rest).m)
      BY <1>1, <2>1, <3>5, HeadersFormed
    <3> QED
      BY <2>1, <3>2, <3>6 DEF FormedFrom
  <2>3. CASE m.message_type # "REQUEST"
    <3>1. split = StatusSplit(begun, line)
      BY <1>2, <2>3 DEF SplitFirst
    <3>2. /\ split.headers = m.headers /\ split.message_type = m.message_type
          /\ split.body = m.body
      BY <1>2, <3>1 DEF StatusSplit, Message
    <3> HIDE DEF split
    <3>3. Formed(split)
      BY <1>3, <2>1, <2>3, <3>2 DEF Formed
    <3>4. FormedFrom(split, ParseHeaders(split, rest).m)
      BY <1>1, <2>1, <3>3, HeadersFormed
    <3> QED
      BY <2>1, <3>2, <3>4 DEF FormedFrom
  <2> QED
    BY <2>2, <2>3
<1> QED
  BY <1>5, <1>6, <1>7

\* parse() keeps what to_bytes() needs to write the message again.
THEOREM ParseFormed ==
  ASSUME NEW m \in Message, Formed(m), NEW c \in Bytes
  PROVE  FormedFrom(m, Parse(m, c).m)
<1> DEFINE s == m.residual \o c
<1>1. s \in Bytes
  <2>1. m.residual \in Bytes
    BY DEF Message
  <2> QED
    BY <2>1, ConcatIs
<1>2. CASE m.parser_state = "START"
  BY <1>1, <1>2, StartFormed DEF Parse
<1>3. CASE m.parser_state = "HEADERS"
  BY <1>1, <1>3, HeadersFormed DEF Parse
<1>4. CASE m.parser_state = "BODY"
  <2> DEFINE full == [m EXCEPT !.body = @ \o s]
  <2>1. Parse(m, c).m = full
    BY <1>4 DEF Parse, ParseBody, Returns
  <2>2. /\ full.parser_state = "BODY" /\ full.headers = m.headers
        /\ full.message_type = m.message_type /\ full.status_code = m.status_code
    BY <1>4 DEF Message
  <2> HIDE DEF full
  <2> QED
    BY <2>1, <2>2 DEF Formed, FormedFrom
<1>5. CASE m.parser_state = "END"
  BY <1>5 DEF Parse, Returns, FormedFrom
<1> QED
  BY <1>2, <1>3, <1>4, <1>5 DEF Message, ParserState

LEMMA NewFormed ==
  ASSUME NEW type \in MessageType
  PROVE  Formed(NewMessage(type)) /\ NewMessage(type).message_type = type
<1>1. AreHeaders({})
  BY FS_EmptySet DEF AreHeaders
<1> QED
  BY <1>1 DEF Formed, NewMessage

=============================================================================
