------------------------- MODULE HttpFragmentsProofs -------------------------
(***************************************************************************)
(* Theorems about HttpFragments, for every set of words and of messages on *)
(* the wire: the types, what is kept between two calls, that parsing the   *)
(* empty chunk of a closed connection does no harm, that fragmentation is  *)
(* invisible as long as the cuts are clean, and that what is forwarded is  *)
(* read as what was received.  The facts about parse() and to_bytes()      *)
(* themselves are in HttpMessageProofs.                                    *)
(***************************************************************************)
EXTENDS HttpFragments, HttpMessageProofs

LEMMA SentType ==
  ASSUME sent \in Wire
  PROVE  sent.type \in MessageType /\ sent.bytes \in Bytes
BY WireAssumption

LEMMA FedType ==
  ASSUME msg \in Message, raised \in BOOLEAN, NEW chunk \in Bytes, Fed(chunk)
  PROVE  msg' \in Message /\ raised' \in BOOLEAN
BY ParseType DEF Fed, IsResult

\* Every variable keeps its type: whatever the pieces, parse() leaves a
\* message with bytes in every field (http_parser.py, lines 16-100).
THEOREM TypeCorrect == Spec => []TypeOK
<1>1. Init => TypeOK
  <2> SUFFICES ASSUME Init PROVE TypeOK
    OBVIOUS
  <2>1. sent.type \in MessageType /\ sent.bytes \in Bytes
    BY SentType DEF Init
  <2>2. msg \in Message
    BY <2>1, NewMessageType DEF Init
  <2>3. Len(sent.bytes) \in Nat
    BY <2>1, LenProperties DEF Bytes
  <2>4. taken \in 0 .. Len(sent.bytes) /\ cuts \subseteq 1 .. taken
    BY <2>3 DEF Init
  <2>5. raised \in BOOLEAN /\ fin \in BOOLEAN
    BY DEF Init
  <2> QED
    BY <2>2, <2>4, <2>5 DEF Init, TypeOK
<1>2. TypeOK /\ [Next]_vars => TypeOK'
  <2> SUFFICES ASSUME TypeOK, [Next]_vars PROVE TypeOK'
    OBVIOUS
  <2>1. /\ sent.bytes \in Bytes
        /\ Len(sent.bytes) \in Nat
    BY SentType, LenProperties DEF TypeOK, Bytes
  <2>2. CASE Recv
    <3>1. PICK n \in taken + 1 .. Len(sent.bytes) :
                 /\ Fed(SubSeq(sent.bytes, taken + 1, n))
                 /\ taken' = n
                 /\ cuts' = cuts \cup {n}
      BY <2>2 DEF Recv
    <3>2. /\ n \in 1 .. Len(sent.bytes)
          /\ taken \in 0 .. Len(sent.bytes)
          /\ taken < n
      BY <2>1 DEF TypeOK
    <3>3. SubSeq(sent.bytes, taken + 1, n) \in Bytes
      BY <2>1, <3>2, Piece
    <3>4. msg' \in Message /\ raised' \in BOOLEAN
      BY <3>1, <3>3, FedType DEF TypeOK
    <3>5. cuts' \subseteq 1 .. taken'
      BY <2>1, <3>1, <3>2 DEF TypeOK
    <3> QED
      BY <2>1, <2>2, <3>1, <3>2, <3>4, <3>5 DEF Recv, TypeOK
  <2>3. CASE Fin
    <3>1. <<>> \in Bytes
      BY DEF Bytes
    <3>2. msg' \in Message /\ raised' \in BOOLEAN
      BY <2>3, <3>1, FedType DEF Fin, TypeOK
    <3> QED
      BY <2>3, <3>2 DEF Fin, TypeOK
  <2>4. CASE UNCHANGED vars
    BY <2>4 DEF vars, TypeOK
  <2> QED
    BY <2>2, <2>3, <2>4 DEF Next
<1> QED
  BY <1>1, <1>2, PTL DEF Spec

\* What is kept for the next call is a piece of one line (line 34 of
\* http_parser.py), for every message and every way of cutting it.
THEOREM ResidualCorrect == Spec => []ResidualIsOneLine
<1>1. Init => ResidualIsOneLine
  BY DEF Init, NewMessage, ResidualIsOneLine, Range
<1>2. TypeOK /\ ResidualIsOneLine /\ [Next]_vars => ResidualIsOneLine'
  <2> SUFFICES ASSUME TypeOK, ResidualIsOneLine, [Next]_vars
               PROVE  ResidualIsOneLine'
    OBVIOUS
  <2>1. ASSUME NEW chunk \in Bytes, Fed(chunk)
        PROVE  ResidualIsOneLine'
    BY <2>1, ParseResidual DEF Fed, ResidualIsOneLine, IsOneLine, TypeOK
  <2>2. CASE Recv
    <3>1. /\ sent.bytes \in Bytes
          /\ Len(sent.bytes) \in Nat
      BY SentType, LenProperties DEF TypeOK, Bytes
    <3>2. PICK n \in taken + 1 .. Len(sent.bytes) :
                 Fed(SubSeq(sent.bytes, taken + 1, n))
      BY <2>2 DEF Recv
    <3>3. /\ n \in Int /\ n <= Len(sent.bytes)
          /\ taken + 1 \in Nat \ {0}
      BY <3>1 DEF TypeOK
    <3>4. SubSeq(sent.bytes, taken + 1, n) \in Bytes
      BY <3>1, <3>3, Piece
    <3> QED
      BY <2>1, <3>2, <3>4
  <2>3. CASE Fin
    <3>1. <<>> \in Bytes
      BY DEF Bytes
    <3> QED
      BY <2>1, <2>3, <3>1 DEF Fin
  <2>4. CASE UNCHANGED vars
    BY <2>4 DEF vars, ResidualIsOneLine
  <2> QED
    BY <2>2, <2>3, <2>4 DEF Next
<1> QED
  BY <1>1, <1>2, TypeCorrect, PTL DEF Spec

\* deal_with_client parses before it looks at the length of what it received
\* (lines 93-102 of reverse_proxy.py): the empty chunk of a closed connection
\* raises nothing, finishes no request and changes nothing of the message but
\* for what is kept of a partial line: a start line that has not been read is
\* what is kept of it, and a body has it at its end.
THEOREM FinCorrect == Spec => FinIsHarmless
<1> DEFINE Same ==
      msg' = [msg EXCEPT
        !.start_line = IF msg.parser_state = "START" THEN msg.residual ELSE @,
        !.body = IF msg.parser_state = "BODY" THEN @ \o msg.residual ELSE @]
<1>1. ASSUME TypeOK, ResidualIsOneLine, [Next]_vars, fin' # fin
      PROVE  raised' = raised /\ Same
  <2>1. Fin
    BY <1>1 DEF Next, Recv, vars
  <2>2. Fed(<<>>)
    BY <2>1 DEF Fin
  <2>3. msg \in Message /\ IsOneLine(msg.residual) /\ raised \in BOOLEAN
    BY <1>1 DEF TypeOK, ResidualIsOneLine, IsOneLine
  <2> DEFINE m == [msg EXCEPT
        !.start_line = IF msg.parser_state = "START" THEN msg.residual ELSE @,
        !.body = IF msg.parser_state = "BODY" THEN @ \o msg.residual ELSE @]
  <2>4. Parse(msg, <<>>) = Returns(m)
    BY <2>3, ParseNothing
  <2> HIDE DEF m
  <2>5. msg' = m /\ raised' = raised
    BY <2>2, <2>3, <2>4 DEF Fed, Returns
  <2> QED
    BY <2>5 DEF m
<1>2. TypeOK /\ ResidualIsOneLine /\ [Next]_vars
      => [fin' # fin => raised' = raised /\ Same]_vars
  BY <1>1
<1> QED
  BY <1>2, TypeCorrect, ResidualCorrect, PTL DEF Spec, FinIsHarmless

-----------------------------------------------------------------------------
(* Fragmentation is invisible while the cuts are clean.                     *)

\* What one call that sees the first n bytes keeps: something when they end
\* inside a line, and nothing otherwise.
LEMMA KeptInsideLine ==
  ASSUME sent \in Wire, NEW n \in 1 .. Len(sent.bytes),
         ~ Parse(NewMessage(sent.type), SubSeq(sent.bytes, 1, n)).raised
  PROVE  Parse(NewMessage(sent.type), SubSeq(sent.bytes, 1, n)).m.residual # <<>>
           <=> InsideLine(n)
<1> DEFINE B == sent.bytes
           s == SubSeq(B, 1, n)
           m == NewMessage(sent.type)
           line == FirstLine(s)
           k == Len(line)
           rest == After(s, k)
<1>1. B \in Bytes /\ sent.type \in MessageType /\ Len(B) \in Nat
  BY SentType, Marks
<1>2. s \in Bytes /\ Len(s) = n /\ After(B, n) \in Bytes /\ s \o After(B, n) = B
      /\ n \in 1 .. Len(B) /\ n \in Nat
  <2>1. n \in 0 .. Len(B)
    BY <1>1
  <2> QED
    BY <1>1, <2>1, Halves
<1>3. /\ Parse(m, s).m.residual = KeptOf(m, s)
      /\ HasLine(s) /\ ~ IsFirst(m, line) => sent.type = "RESPONSE"
      /\ HasLine(s) /\ IsFirst(m, line) /\ Stops(rest) # {} =>
           IsBlank(LineAt(rest, Min(Stops(rest))))
  BY <1>1, <1>2, KeptOfPiece
<1>4. m.message_type = sent.type
  BY DEF NewMessage
<1> HIDE DEF B, s, m, line, k, rest
<1>5. /\ \A i \in LineEnds(B) : i <= n => i \in LineEnds(s)
      /\ \A i \in LineEnds(s) : i \in LineEnds(B) /\ i <= n /\ LineAt(B, i) = LineAt(s, i)
      /\ LineEnds(s) \subseteq Nat /\ LineEnds(B) \subseteq Nat
  <2>1. LineEnds(s) \subseteq 1 .. n /\ LineEnds(B) \subseteq 1 .. Len(B)
    BY <1>1, <1>2, Marks
  <2>2. \A i \in 1 .. Len(s) : i \in LineEnds(s \o After(B, n)) <=> i \in LineEnds(s)
    BY <1>2, LineEndsOfBoth
  <2>3. \A i \in LineEnds(s) : LineAt(s \o After(B, n), i) = LineAt(s, i)
    BY <1>2, LineOfFirst
  <2> QED
    BY <1>1, <1>2, <2>1, <2>2, <2>3
<1>6. InsideLine(n) <=>
        /\ n \notin LineEnds(s)
        /\ \A i \in LineEnds(s) : ~ IsLastLine(LineAt(s, i))
  <2>1. /\ B[n] = s[n]
        /\ n \in LineEnds(s) <=> s[n] = LF
    <3>1. (s \o After(B, n))[n] = s[n]
      BY <1>2, ConcatIs
    <3>2. n \in LineEnds(s) <=> s[n] = LF
      BY <1>2, LineEndsIs
    <3> QED
      BY <1>2, <3>1, <3>2
  <2>2. (\A i \in LineEnds(B) : IsLastLine(LineAt(B, i)) => n < i)
          <=> \A i \in LineEnds(s) : ~ IsLastLine(LineAt(s, i))
    BY <1>2, <1>5
  <2> QED
    BY <2>1, <2>2 DEF InsideLine, B
<1>7. CASE ~ HasLine(s)
  <2>1. KeptOf(m, s) = s
    BY <1>7 DEF KeptOf
  <2>2. s # <<>>
    BY <1>2, EmptySeq
  <2> QED
    BY <1>3, <1>6, <1>7, <2>1, <2>2 DEF HasLine, s, m, B
<1>8. ASSUME HasLine(s)
      PROVE  /\ k \in LineEnds(s) /\ k \in 1 .. n /\ LineAt(s, k) = line
             /\ rest \in Bytes
             /\ \A i \in LineEnds(s) :
                  i = k \/ \E j \in LineEnds(rest) : i = k + j
             /\ \A j \in LineEnds(rest) :
                  k + j \in LineEnds(s) /\ LineAt(s, k + j) = LineAt(rest, j)
             /\ PartialLine(s) = PartialLine(rest)
             /\ FirstLine(B) = line
  <2>1. FirstLine(s \o After(B, n)) = FirstLine(s)
    BY <1>2, <1>8, FirstLineOfBoth
  <2> QED
    BY <1>2, <1>8, <2>1, LinesAfterFirst DEF line, k, rest
<1>9. CASE HasLine(s) /\ ~ IsFirst(m, line)
  <2>1. KeptOf(m, s) = <<>>
    BY <1>9 DEF KeptOf, line
  <2>2. IsLastLine(LineAt(s, k))
    BY <1>3, <1>4, <1>8, <1>9 DEF IsLastLine, IsFirst, B
  <2>3. ~ InsideLine(n)
    BY <1>6, <1>8, <1>9, <2>2
  <2> QED
    BY <1>3, <2>1, <2>3 DEF s, m, B
<1>10. CASE HasLine(s) /\ IsFirst(m, line)
  <2>1. /\ Cardinality(Spaces(Rstrip(line))) # 0
        /\ sent.type = "RESPONSE" => ~ (Cardinality(Spaces(Rstrip(line))) < 2)
    BY <1>4, <1>10 DEF IsFirst
  <2>2. \A i \in LineEnds(s) : IsLastLine(LineAt(s, i)) <=> IsBlank(LineAt(s, i))
    BY <1>8, <1>10, <2>1 DEF IsLastLine, B
  <2>3. ~ IsBlank(line)
    BY <2>1, BlankIsNotFirst
  <2>4. CASE Stops(rest) = {}
    <3>1. \A j \in LineEnds(rest) : ~ IsBlank(LineAt(rest, j))
      BY <2>4 DEF Stops
    <3>2. \A i \in LineEnds(s) : ~ IsBlank(LineAt(s, i))
      BY <1>8, <1>10, <2>3, <3>1
    <3>3. KeptOf(m, s) = PartialLine(s)
      BY <1>8, <1>10, <2>4 DEF KeptOf, line, k, rest
    <3>4. PartialLine(s) = <<>> <=> n \in LineEnds(s)
      BY <1>2, PartialIsEmpty
    <3> QED
      BY <1>3, <1>6, <2>2, <3>2, <3>3, <3>4 DEF s, m, B
  <2>5. CASE Stops(rest) # {}
    <3> DEFINE j == Min(Stops(rest))
    <3>1. j \in LineEnds(rest)
      BY <1>8, <1>10, <2>5, StopsAre
    <3>2. IsBlank(LineAt(rest, j))
      BY <1>3, <1>10, <2>5
    <3> HIDE DEF j
    <3>3. ~ InsideLine(n)
      BY <1>6, <1>8, <1>10, <2>2, <3>1, <3>2
    <3>4. KeptOf(m, s) = <<>>
      BY <1>10, <2>5 DEF KeptOf, line, k, rest
    <3> QED
      BY <1>3, <3>3, <3>4 DEF s, m, B
  <2> QED
    BY <2>4, <2>5
<1> QED
  BY <1>7, <1>9, <1>10

\* the bytes received so far, parsed in one piece
Whole == Parse(NewMessage(sent.type), SubSeq(sent.bytes, 1, taken))

Forgotten(m) == [m EXCEPT !.residual = <<>>]

\* something is still kept that one call would not have kept: only the last
\* cut can be such a one, or the cuts are not clean
Stale ==
  \E p \in cuts : p < taken /\ InsideLine(p) /\ ~ InsideLine(taken)

\* The inductive invariant: as long as the cuts are clean, the calls have
\* left what one call would have left, to the last byte it would keep unless
\* something stale is kept.
Parsed ==
  /\ taken > 0 => taken \in cuts
  /\ ~ fin /\ CleanCuts =>
       /\ raised = Whole.raised
       /\ ~ raised => Forgotten(msg) = Forgotten(Whole.m)
       /\ ~ raised /\ ~ Stale => msg = Whole.m

LEMMA NothingParsed ==
  ASSUME NEW type \in MessageType
  PROVE  Parse(NewMessage(type), <<>>) = Returns(NewMessage(type))
<1> DEFINE m == NewMessage(type)
<1>1. /\ m \in Message
      /\ m.parser_state = "START"
      /\ m.residual = <<>>
      /\ m.start_line = <<>>
  BY NewMessageType DEF NewMessage
<1> HIDE DEF m
<1>2. Parse(m, <<>>) = ParseStart(m, <<>>)
  <2>1. <<>> \o <<>> = <<>>
    OBVIOUS
  <2> QED
    BY <1>1, <2>1 DEF Parse
<1>3. ~ HasLine(<<>>) /\ FirstLine(<<>>) = <<>>
  BY DEF HasLine, FirstLine, LineEnds
<1>4. ParseStart(m, <<>>) = Returns([Begun(m, <<>>) EXCEPT !.residual = <<>>])
  BY <1>1, <1>3, StartIs, Constants
<1>5. [Begun(m, <<>>) EXCEPT !.residual = <<>>] = m
  BY <1>1 DEF Begun, Message
<1> QED
  BY <1>2, <1>4, <1>5 DEF m

LEMMA ParsedInit == Init => Parsed
<1> SUFFICES ASSUME Init PROVE Parsed
  OBVIOUS
<1>1. sent.type \in MessageType
  BY SentType DEF Init
<1>2. Whole = Parse(NewMessage(sent.type), <<>>)
  <2>1. taken = 0 /\ SubSeq(sent.bytes, 1, 0) = <<>>
    BY DEF Init
  <2> QED
    BY <2>1 DEF Whole
<1>3. Whole.m = NewMessage(sent.type) /\ Whole.raised = FALSE
  BY <1>1, <1>2, NothingParsed DEF Returns
<1>4. ~ (taken > 0)
  BY DEF Init
<1>5. msg = Whole.m /\ raised = Whole.raised
  BY <1>3 DEF Init
<1> QED
  BY <1>4, <1>5 DEF Parsed

LEMMA TwoPieces ==
  ASSUME NEW b \in Bytes, NEW n \in 0 .. Len(b), NEW t \in 0 .. n
  PROVE  /\ SubSeq(b, 1, t) \in Bytes /\ SubSeq(b, t + 1, n) \in Bytes
         /\ SubSeq(b, 1, t) \o SubSeq(b, t + 1, n) = SubSeq(b, 1, n)
<1> DEFINE u == SubSeq(b, 1, n)
           p == SubSeq(b, 1, t)
           q == SubSeq(b, t + 1, n)
<1>1. Len(b) \in Nat /\ n \in Nat /\ t \in Nat /\ t <= n /\ n <= Len(b)
  BY Marks
<1>2. /\ u \in Bytes /\ Len(u) = n
      /\ \A k \in 1 .. n : u[k] = b[k]
  <2>1. n \in Int /\ 1 \in Nat \ {0}
    BY <1>1
  <2> QED
    BY <1>1, <2>1, PieceIs, Halves
<1>3. /\ p \in Bytes /\ Len(p) = t
      /\ \A k \in 1 .. t : p[k] = b[k]
  <2>1. t \in Int /\ 1 \in Nat \ {0} /\ t <= Len(b) /\ t \in 0 .. Len(b)
    BY <1>1
  <2> QED
    BY <1>1, <2>1, PieceIs, Halves
<1>4. /\ q \in Bytes /\ Len(q) = n - t
      /\ \A k \in 1 .. n - t : q[k] = b[t + k]
  <2>1. t + 1 \in Nat \ {0} /\ n \in Int /\ n <= Len(b)
    BY <1>1
  <2>2. /\ q \in Bytes
        /\ Len(q) = IF t + 1 <= n THEN n - (t + 1) + 1 ELSE 0
        /\ \A k \in 1 .. n - (t + 1) + 1 : q[k] = b[(t + 1) + k - 1]
    BY <2>1, PieceIs
  <2> HIDE DEF q
  <2>3. Len(q) = n - t
    BY <1>1, <2>2
  <2>4. \A k \in 1 .. n - t : k \in 1 .. n - (t + 1) + 1 /\ (t + 1) + k - 1 = t + k
    BY <1>1
  <2> QED
    BY <2>2, <2>3, <2>4
<1> HIDE DEF u, p, q
<1> DEFINE w == p \o q
<1>5. /\ w \in Bytes
      /\ Len(w) = Len(p) + Len(q)
      /\ \A k \in 1 .. Len(p) : w[k] = p[k]
      /\ \A k \in 1 .. Len(q) : w[Len(p) + k] = q[k]
  BY <1>3, <1>4, ConcatIs
<1> HIDE DEF w
<1>6. /\ w \in Bytes /\ Len(w) = n
      /\ \A k \in 1 .. t : w[k] = b[k]
      /\ \A k \in 1 .. n - t : w[t + k] = b[t + k]
  <2>1. t + (n - t) = n
    BY <1>1
  <2> QED
    BY <1>3, <1>4, <1>5, <2>1
<1>7. ASSUME NEW k \in 1 .. n PROVE w[k] = u[k]
  <2>1. CASE k <= t
    BY <1>1, <1>2, <1>6, <2>1
  <2>2. CASE ~ (k <= t)
    <3>1. k - t \in 1 .. n - t /\ k = t + (k - t)
      BY <1>1, <2>2
    <3>2. w[t + (k - t)] = b[t + (k - t)]
      BY <1>6, <3>1
    <3> QED
      BY <1>2, <3>1, <3>2
  <2> QED
    BY <2>1, <2>2
<1>8. w = u
  BY <1>2, <1>6, <1>7, SameBytes
<1> QED
  BY <1>3, <1>4, <1>8 DEF u, p, q, w

LEMMA ParsedRecv ==
  ASSUME TypeOK, Parsed, Recv
  PROVE  Parsed'
<1> DEFINE B == sent.bytes
           m == NewMessage(sent.type)
           s == SubSeq(B, 1, taken)
<1>1. /\ B \in Bytes /\ sent.type \in MessageType /\ sent \in Wire
      /\ Len(B) \in Nat /\ taken \in 0 .. Len(B) /\ cuts \subseteq 1 .. taken
  BY SentType, Marks DEF TypeOK
<1>2. PICK n \in taken + 1 .. Len(B) :
             /\ Fed(SubSeq(B, taken + 1, n))
             /\ taken' = n
             /\ cuts' = cuts \cup {n}
  BY DEF Recv
<1> DEFINE c == SubSeq(B, taken + 1, n)
           w == Parse(m, s \o c)
           x == msg.residual
<1>3. n \in 1 .. Len(B) /\ n \in Nat /\ taken \in Nat /\ taken < n
  BY <1>1, <1>2
<1>4. sent' = sent /\ fin' = fin /\ ~ fin /\ msg.parser_state # "END"
  BY DEF Recv, IsFed
<1>5. s \in Bytes /\ c \in Bytes /\ s \o c = SubSeq(B, 1, n)
  <2>1. n \in 0 .. Len(B) /\ taken \in 0 .. n
    BY <1>1, <1>3
  <2> HIDE DEF B
  <2> QED
    BY <1>1, <2>1, TwoPieces
<1>6. Whole = Parse(m, s) /\ Whole' = w
  BY <1>2, <1>4, <1>5 DEF Whole
<1>7. \A p : InsideLine(p)' <=> InsideLine(p)
  BY <1>4 DEF InsideLine, IsLastLine
<1>8. taken' > 0 => taken' \in cuts'
  BY <1>2
<1>9. ASSUME CleanCuts'
      PROVE  CleanCuts /\ (taken > 0 => taken \in cuts) /\ ~ Stale
  <2>1. \A p, q \in cuts \cup {n} : p < q /\ q < n /\ InsideLine(p) => InsideLine(q)
    BY <1>2, <1>7, <1>9 DEF CleanCuts
  <2>2. \A q \in cuts : q < n
    BY <1>1, <1>3
  <2>3. CleanCuts
    BY <2>1, <2>2 DEF CleanCuts
  <2>4. taken > 0 => taken \in cuts
    BY DEF Parsed
  <2>5. ~ Stale
    <3>1. ASSUME NEW p \in cuts, p < taken, InsideLine(p) PROVE InsideLine(taken)
      <4>1. taken > 0
        BY <1>1, <1>3, <3>1
      <4> QED
        BY <1>3, <2>1, <2>4, <3>1, <4>1
    <3> QED
      BY <3>1 DEF Stale
  <2> QED
    BY <2>3, <2>4, <2>5
<1>10. msg' = Parse(msg, c).m /\ raised' = (raised \/ Parse(msg, c).raised)
  BY <1>2 DEF Fed
<1>11. raised \in BOOLEAN
  BY DEF TypeOK
<1>12. Parse(m, s).raised => w.raised
  BY <1>1, <1>5, ParseInPieces
<1>13. m \in Message /\ IsResult(w)
  <2>1. m \in Message
    BY <1>1, NewMessageType
  <2>2. s \o c \in Bytes
    BY <1>5, ConcatIs
  <2> HIDE DEF m, s, c
  <2> QED
    BY <2>1, <2>2, ParseType
<1> HIDE DEF m, s, c, w
<1>14. ASSUME CleanCuts', raised
       PROVE  raised' = w.raised /\ raised'
  <2>1. Whole.raised
    BY <1>4, <1>9, <1>14 DEF Parsed
  <2> QED
    BY <1>6, <1>10, <1>12, <1>13, <1>14, <2>1 DEF IsResult
<1>15. ASSUME CleanCuts', ~ raised
       PROVE  /\ msg = Parse(m, s).m /\ ~ Parse(m, s).raised
              /\ raised' = w.raised
              /\ msg' = [w.m EXCEPT !.residual = KeepResidual(x, @)]
  <2>1. msg = Parse(m, s).m /\ ~ Parse(m, s).raised
    BY <1>4, <1>6, <1>9, <1>15 DEF Parsed
  <2>2. Parse(msg, c) = Keeping(w, x)
    <3>1. Parse(Parse(m, s).m, c) = Keeping(w, Parse(m, s).m.residual)
      BY <1>1, <1>4, <1>5, <2>1, ParseInPieces DEF m, w
    <3> QED
      BY <2>1, <3>1
  <2>3. Keeping(w, x).raised = w.raised
        /\ Keeping(w, x).m = [w.m EXCEPT !.residual = KeepResidual(x, @)]
    BY DEF Keeping
  <2> QED
    BY <1>10, <1>13, <1>15, <2>1, <2>2, <2>3 DEF IsResult
<1>16. ASSUME CleanCuts', ~ raised
       PROVE  Forgotten(msg') = Forgotten(w.m)
  BY <1>13, <1>15, <1>16 DEF Forgotten, IsResult, Message
<1>17. ASSUME CleanCuts', ~ raised, ~ raised', ~ Stale'
       PROVE  msg' = w.m
  <2>1. x = <<>> \/ w.m.residual # <<>>
    <3>1. SUFFICES ASSUME x # <<>> PROVE w.m.residual # <<>>
      OBVIOUS
    <3>2. msg = Parse(m, s).m /\ ~ Parse(m, s).raised
      BY <1>15, <1>17
    <3>3. taken > 0
      <4>1. CASE taken = 0
        <5>1. s = <<>>
          BY <4>1 DEF s
        <5>2. Parse(m, s) = Returns(m) /\ m.residual = <<>>
          BY <1>1, <5>1, NothingParsed DEF m, NewMessage
        <5> QED
          BY <3>1, <3>2, <5>2 DEF Returns
      <4> QED
        BY <1>3, <4>1
    <3>4. taken \in 1 .. Len(B) /\ InsideLine(taken)
      <4>1. taken \in 1 .. Len(B)
        BY <1>1, <3>3
      <4> QED
        BY <1>1, <3>1, <3>2, <4>1, KeptInsideLine DEF m, s
    <3>5. InsideLine(n)
      <4>1. taken \in cuts' /\ taken < taken' /\ taken' = n
        BY <1>2, <1>3, <1>9, <1>17, <3>3
      <4> QED
        BY <1>7, <1>17, <3>4, <4>1 DEF Stale
    <3>6. ~ w.raised
      BY <1>15, <1>17
    <3> QED
      BY <1>1, <1>3, <1>5, <3>5, <3>6, KeptInsideLine DEF m, w
  <2>2. KeepResidual(x, w.m.residual) = w.m.residual
    BY <2>1 DEF KeepResidual
  <2>3. [w.m EXCEPT !.residual = w.m.residual] = w.m
    BY <1>13 DEF IsResult, Message
  <2> QED
    BY <1>15, <1>17, <2>2, <2>3
<1> QED
  BY <1>4, <1>6, <1>8, <1>14, <1>15, <1>16, <1>17 DEF Parsed

\* Reading a message piece by piece and reading it in one are the same
\* (reverse_proxy.py:10) as long as no piece that ended inside a line was
\* followed by one that did not, for every message and every such way of
\* cutting it: what is left of a residual that is never cleared
\* (http_parser.py, lines 52 and 80) does no harm yet.
THEOREM FragmentsCorrect == Spec => []CleanCutsTransparent
<1>1. Init => Parsed
  BY ParsedInit
<1>2. TypeOK /\ Parsed /\ [Next]_vars => Parsed'
  <2> SUFFICES ASSUME TypeOK, Parsed, [Next]_vars PROVE Parsed'
    OBVIOUS
  <2>1. CASE Recv
    BY <2>1, ParsedRecv
  <2>2. CASE Fin
    BY <2>2 DEF Fin, Parsed
  <2>3. CASE UNCHANGED vars
    BY <2>3 DEF vars, Parsed, Whole, Stale, CleanCuts, InsideLine, IsLastLine
  <2> QED
    BY <2>1, <2>2, <2>3 DEF Next
<1>3. Parsed => CleanCutsTransparent
  BY DEF Parsed, CleanCutsTransparent, Whole, Forgotten
<1> QED
  BY <1>1, <1>2, <1>3, TypeCorrect, PTL DEF Spec

-----------------------------------------------------------------------------
(* What is forwarded.                                                       *)

\* The inductive invariant: the object has the type of what is on the wire,
\* and what it holds could have been read from what to_bytes() writes.
Forwardable == msg.message_type = sent.type /\ Formed(msg)

\* What to_bytes() sends upstream is parsed there, in one piece, as the
\* request that was parsed here (lines 96-99 of reverse_proxy.py), for every
\* request, every number of headers and every way of cutting it, also when
\* the cuts are not clean: what a stale residual spoils is in the request
\* itself, not in how it is written.
THEOREM ForwardCorrect == Spec => []ForwardedFaithfully
<1>1. Init => Forwardable
  <2> SUFFICES ASSUME Init PROVE Forwardable
    OBVIOUS
  <2>1. sent.type \in MessageType
    BY SentType DEF Init
  <2> QED
    BY <2>1, NewFormed DEF Init, Forwardable
<1>2. TypeOK /\ Forwardable /\ [Next]_vars => Forwardable'
  <2> SUFFICES ASSUME TypeOK, Forwardable, [Next]_vars PROVE Forwardable'
    OBVIOUS
  <2>1. sent \in Wire /\ msg \in Message
    BY DEF TypeOK
  <2>2. sent.bytes \in Bytes /\ Len(sent.bytes) \in Nat
    BY <2>1, SentType, Marks
  <2>3. ASSUME NEW chunk \in Bytes, Fed(chunk), sent' = sent
        PROVE  Forwardable'
    BY <2>1, <2>3, ParseFormed DEF Fed, Forwardable, FormedFrom
  <2>4. CASE Recv
    <3>1. PICK n \in taken + 1 .. Len(sent.bytes) :
                 Fed(SubSeq(sent.bytes, taken + 1, n))
      BY <2>4 DEF Recv
    <3>2. taken + 1 \in Nat \ {0} /\ n \in Int /\ n <= Len(sent.bytes)
      BY <2>2 DEF TypeOK
    <3>3. SubSeq(sent.bytes, taken + 1, n) \in Bytes
      BY <2>2, <3>2, Piece
    <3> QED
      BY <2>3, <2>4, <3>1, <3>3 DEF Recv
  <2>5. CASE Fin
    BY <2>3, <2>5, Constants DEF Fin
  <2>6. CASE UNCHANGED vars
    BY <2>6 DEF vars, Forwardable
  <2> QED
    BY <2>4, <2>5, <2>6 DEF Next
<1>3. TypeOK /\ Forwardable => ForwardedFaithfully
  BY ParsedBack DEF TypeOK, Forwardable, ForwardedFaithfully
<1> QED
  BY <1>1, <1>2, <1>3, TypeCorrect, PTL DEF Spec

=============================================================================
