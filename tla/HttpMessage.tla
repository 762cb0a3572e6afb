----------------------------- MODULE HttpMessage -----------------------------
(***************************************************************************)
(* The incremental HTTP parser, class HttpMessage of                       *)
(* src/python_proxy/http_parser.py, as pure operators.                     *)
(*                                                                         *)
(* A byte string is a sequence of tokens: words, and the delimiters the    *)
(* parser looks for (space, colon, CR, LF).  A cut between two recv()      *)
(* calls may fall between any two tokens, so inside a line, between the CR *)
(* and the LF of a line, or exactly at the end of one.                     *)
(*                                                                         *)
(* A header dictionary is the set of its <<name, value>> pairs.            *)
(*                                                                         *)
(* Definitions named Slip* are wrong on purpose: each is the definition    *)
(* below it with one plausible mistake, and shows that a property notices. *)
(***************************************************************************)
EXTENDS Integers, Sequences, FiniteSetsExt, Functions

CONSTANT Word    \* the words that messages are made of

SP    == "<SP>"
COLON == "<COLON>"
CR    == "<CR>"
LF    == "<LF>"

Delimiter == {SP, COLON, CR, LF}

ASSUME WordAssumption ==
  /\ Word \cap Delimiter = {}
  /\ {"GET", "gzip", "200", "HTTP/1.0", "HTTP/1.1", "Accept-Encoding",
      "Content-Encoding", "Content-Length", "Cache-Control", "max-age",
      "<gzip>", "<length>"} \subseteq Word

Byte  == Word \cup Delimiter
Bytes == Seq(Byte)

ParserState == {"START", "HEADERS", "BODY", "END"}
MessageType == {"REQUEST", "RESPONSE"}

Message == [parser_state : ParserState, message_type : MessageType,
            start_line : Bytes, method : Bytes, uri : Bytes, version : Bytes,
            status_code : Bytes, headers : SUBSET (Bytes \X Bytes),
            body : Bytes, residual : Bytes]

\* HttpMessage(type)
NewMessage(type) ==
  [parser_state |-> "START", message_type |-> type,
   start_line |-> <<>>, method |-> <<>>, uri |-> <<>>, version |-> <<>>,
   status_code |-> <<>>, headers |-> {}, body |-> <<>>, residual |-> <<>>]

-----------------------------------------------------------------------------
(* Reading lines and taking them apart.                                     *)

LineEnds(s) == {i \in DOMAIN s : s[i] = LF}

\* the line of s that ends at the line feed i
LineAt(s, i) == SubSeq(s, Max({0} \cup {j \in LineEnds(s) : j < i}) + 1, i)

\* what bs.read() returns once i bytes have been read
After(s, i) == SubSeq(s, i + 1, Len(s))

\* bs.readline() on an unread stream: up to the first line feed, or all of
\* it, and line.endswith(b'\n')
SlipHasLine(s) == TRUE
HasLine(s)     == LineEnds(s) # {}

FirstLine(s) ==
  SubSeq(s, 1, IF LineEnds(s) = {} THEN Len(s) ELSE Min(LineEnds(s)))

\* what follows the last line
SlipPartialLine(s) == After(s, Max({1} \cup LineEnds(s)) - 1)
PartialLine(s)     == After(s, Max({0} \cup LineEnds(s)))

White == {SP, CR, LF}
Solid(s) == {i \in DOMAIN s : s[i] \notin White}

Rstrip(s) == SubSeq(s, 1, Max({0} \cup Solid(s)))
Strip(s)  == SubSeq(s, Min({Len(s) + 1} \cup Solid(s)), Max({0} \cup Solid(s)))

Spaces(s) == {i \in DOMAIN s : s[i] = SP}
Colons(s) == {i \in DOMAIN s : s[i] = COLON}

\* name, value = line.split(b':', maxsplit=1); value = value.strip()
HeaderName(line)  == SubSeq(line, 1, Min(Colons(line)) - 1)
HeaderValue(line) == Strip(After(line, Min(Colons(line))))

IsBlank(line)     == line \in {<<CR, LF>>, <<LF>>}

\* split() leaves a single part, which cannot be unpacked into two names
IsBadHeader(line) == ~ IsBlank(line) /\ Colons(line) = {}

-----------------------------------------------------------------------------
(* parse(msg).  The result is the message after the call and whether the    *)
(* call raised; a call that raises keeps what it had already assigned.      *)
(*                                                                          *)
(* The two statements "self.residual == b''" (lines 52 and 80) compare and  *)
(* discard the result: a residual is never cleared, only overwritten by the *)
(* next partial line.                                                       *)

Returns(m) == [m |-> m, raised |-> FALSE]
Raises(m)  == [m |-> m, raised |-> TRUE]

\* self.body += bs.read()
ParseBody(m, s) == Returns([m EXCEPT !.body = @ \o s])

\* self.headers[name] = value, for each of the lines of s ending in ends:
\* of two lines with one name the later is kept
AddHeaders(h, s, ends) ==
  LET name(i) == HeaderName(LineAt(s, i))
  IN  {p \in h : \A i \in ends : name(i) # p[1]}
      \cup {<<name(i), HeaderValue(LineAt(s, i))>> :
              i \in {i \in ends : \A j \in ends : j > i => name(j) # name(i)}}

\* the partial line left for the next call; a chunk that ends with a line
\* (readline() returns b'') leaves residual as it was
SlipKeepResidual(old, partial) == old
KeepResidual(old, partial)     == IF partial = <<>> THEN old ELSE partial

\* the state that follows the blank line
AfterHeaders(m) ==
  IF m.message_type = "REQUEST" /\ m.method = <<"GET">> THEN "END" ELSE "BODY"

ParseHeaders(m, s) ==
  LET stops == {i \in LineEnds(s) : \/ IsBlank(LineAt(s, i))
                                    \/ IsBadHeader(LineAt(s, i))}
      read  == {i \in LineEnds(s) : \A j \in stops : i < j}
      got   == [m EXCEPT !.headers = AddHeaders(@, s, read)]
      stop  == Min(stops)
  IN  IF stops = {}
      THEN Returns([got EXCEPT !.residual = KeepResidual(@, PartialLine(s))])
      ELSE IF IsBadHeader(LineAt(s, stop)) THEN Raises(got)
      ELSE LET done == [got EXCEPT !.parser_state = AfterHeaders(m)]
           IN  IF done.parser_state = "BODY"
               THEN ParseBody(done, After(s, stop))
               ELSE Returns(done)

\* a request line is split at every space, and must have three parts
ParseRequestLine(m, line, s) ==
  LET text == Rstrip(line)
      i == Min(Spaces(text))
      j == Max(Spaces(text))
  IN  IF Cardinality(Spaces(text)) # 2 THEN Raises(m)
      ELSE ParseHeaders([m EXCEPT !.method = SubSeq(text, 1, i - 1),
                                  !.uri = SubSeq(text, i + 1, j - 1),
                                  !.version = After(text, j),
                                  !.parser_state = "HEADERS"], s)

\* a status line is split at most twice; one with fewer parts is taken for
\* a response without headers
ParseStatusLine(m, line, s) ==
  LET text == Rstrip(line)
      i == Min(Spaces(text))
      j == Min(Spaces(text) \ {i})
  IN  IF Cardinality(Spaces(text)) < 2
      THEN ParseBody([m EXCEPT !.parser_state = "BODY"], s)
      ELSE ParseHeaders([m EXCEPT !.version = SubSeq(text, 1, i - 1),
                                  !.status_code = SubSeq(text, i + 1, j - 1),
                                  !.parser_state = "HEADERS"], s)

ParseStart(m, s) ==
  LET line  == FirstLine(s)
      begun == [m EXCEPT !.start_line = line]
      rest  == After(s, Len(line))
  IN  IF ~ HasLine(s) THEN Returns([begun EXCEPT !.residual = line])
      ELSE IF m.message_type = "REQUEST" THEN ParseRequestLine(begun, line, rest)
      ELSE ParseStatusLine(begun, line, rest)

Parse(m, msg) ==
  LET bs == m.residual \o msg
  IN  CASE m.parser_state = "START"   -> ParseStart(m, bs)
        [] m.parser_state = "HEADERS" -> ParseHeaders(m, bs)
        [] m.parser_state = "BODY"    -> ParseBody(m, bs)
        [] OTHER                      -> Returns(m)

-----------------------------------------------------------------------------
(* The other methods.                                                       *)

\* self.headers[key] = value
AddHeader(m, name, value) ==
  [m EXCEPT !.headers = {p \in @ : p[1] # name} \cup {<<name, value>>}]

\* start line, headers and body again; a dictionary's order is not modelled
SlipToBytes(m) ==
  LET emit(p, s) == s \o p[1] \o p[2] \o <<CR, LF>>
  IN  FoldSet(emit, m.start_line, m.headers) \o <<CR, LF>> \o m.body

ToBytes(m) ==
  LET emit(p, s) == s \o p[1] \o <<COLON>> \o p[2] \o <<CR, LF>>
  IN  FoldSet(emit, m.start_line, m.headers) \o <<CR, LF>> \o m.body

\* The dictionary's keys are bytes and get('Connection') looks up a str, so
\* it finds no header of any message: the version alone decides.
ShouldKeepAlive(m)     == m.version = <<"HTTP/1.1">>

=============================================================================
