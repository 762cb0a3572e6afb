---------------------------- MODULE HttpFragments ----------------------------
(***************************************************************************)
(* One HttpMessage object fed by the recv() calls of reverse_proxy.py: a   *)
(* message is on the wire, and each call takes any non-empty piece of what *)
(* is left of it.  A request stops being fed once it is parsed to its END  *)
(* (its table entry goes away), a response when a call raises (the proxy   *)
(* is gone); a request that raised is kept and fed again.                  *)
(***************************************************************************)
EXTENDS HttpMessage

CONSTANT Wire    \* the messages that may be sent, each with its type

ASSUME WireAssumption ==
  Wire \subseteq [type : MessageType, bytes : Bytes \ {<<>>}]

VARIABLES
  sent,      \* the message on the wire
  taken,     \* how much of it has been received
  cuts,      \* where the recv() calls so far have ended (history)
  msg,       \* the HttpMessage object
  raised,    \* whether a call has raised (history)
  fin        \* whether the empty chunk of a closed connection was parsed

vars == <<sent, taken, cuts, msg, raised, fin>>

Init ==
  /\ sent \in Wire
  /\ taken = 0
  /\ cuts = {}
  /\ msg = NewMessage(sent.type)
  /\ raised = FALSE
  /\ fin = FALSE

Fed(chunk) ==
  LET r == Parse(msg, chunk)
  IN  /\ msg' = r.m
      /\ raised' = (raised \/ r.raised)

IsFed ==
  /\ msg.parser_state # "END"
  /\ raised => sent.type = "REQUEST"
  /\ ~ fin

Recv ==
  /\ IsFed
  /\ \E n \in taken + 1 .. Len(sent.bytes) :
       /\ Fed(SubSeq(sent.bytes, taken + 1, n))
       /\ taken' = n
       /\ cuts' = cuts \cup {n}
  /\ UNCHANGED <<sent, fin>>

\* The client closes, after any part of its request: the empty chunk is
\* parsed before it is seen to be the end.  The loop that reads a response
\* looks first.
Fin ==
  /\ IsFed
  /\ sent.type = "REQUEST"
  /\ Fed(<<>>)
  /\ fin' = TRUE
  /\ UNCHANGED <<sent, taken, cuts>>

Next == Recv \/ Fin

Spec == Init /\ [][Next]_vars

-----------------------------------------------------------------------------
TypeOK ==
  /\ sent \in Wire
  /\ taken \in 0 .. Len(sent.bytes)
  /\ cuts \subseteq 1 .. taken
  /\ msg \in Message
  /\ raised \in BOOLEAN
  /\ fin \in BOOLEAN

\* What parse() keeps for the next call is a piece of one line (line 34 of
\* http_parser.py), never a whole line that the next call would read twice.
ResidualIsOneLine == LF \notin Range(msg.residual)

\* The lines end where the body begins: after the blank line, or after the
\* first line of a response that has no status line.
IsLastLine(line) ==
  \/ IsBlank(line)
  \/ /\ sent.type = "RESPONSE"
     /\ line = FirstLine(sent.bytes)
     /\ Cardinality(Spaces(Rstrip(line))) < 2

\* a recv() that ended inside a line
InsideLine(n) ==
  /\ sent.bytes[n] # LF
  /\ \A i \in LineEnds(sent.bytes) :
       IsLastLine(LineAt(sent.bytes, i)) => n < i

\* No piece that ended inside a line was followed by one that ended
\* elsewhere before the message was complete.
CleanCuts ==
  \A p, q \in cuts : /\ p < q
                     /\ q < taken
                     /\ InsideLine(p)
                     => InsideLine(q)

\* Fragmentation is invisible as long as the cuts are clean: the message has
\* been parsed to what the same bytes in one piece are parsed to.  A residual
\* that is never cleared (lines 52 and 80) does no harm until a chunk ends
\* with a line, or in the body.
CleanCutsTransparent ==
  CleanCuts /\ taken > 0 /\ ~ fin =>
    LET r == Parse(NewMessage(sent.type), SubSeq(sent.bytes, 1, taken))
    IN  /\ raised = r.raised
        /\ ~ raised => [msg EXCEPT !.residual = <<>>]
                       = [r.m EXCEPT !.residual = <<>>]

\* deal_with_client parses before it looks at the length of what it received
\* (lines 93-102).  The empty chunk of a closed connection raises nothing and
\* finishes no request, in whatever state the request is.  What it does change
\* comes of the residual, which is never cleared: it is the start line once
\* more (line 47; of a malformed request it replaces the line that raised),
\* and is added to the body, if there is one (line 100).
FinIsHarmless ==
  [][fin' # fin =>
       /\ raised' = raised
       /\ msg' = [msg EXCEPT
            !.start_line = IF msg.parser_state = "START" THEN msg.residual ELSE @,
            !.body = IF msg.parser_state = "BODY" THEN @ \o msg.residual ELSE @]]_vars

\* What to_bytes() forwards upstream is parsed there, in one piece, as the
\* request that was parsed here, whatever the pieces it came in.
ForwardedFaithfully ==
  sent.type = "REQUEST" /\ msg.parser_state = "END" =>
    Parse(NewMessage("REQUEST"), ToBytes(msg))
      = Returns([msg EXCEPT !.residual = <<>>])

-----------------------------------------------------------------------------
(* What the docstrings say.                                                 *)

\* reverse_proxy.py:10, "Incrementally parses the message, so this works
\* even when packet fragmentation happens": however a message is cut, it is
\* parsed to what its bytes in one piece are parsed to.
FragmentationTransparent ==
  taken = Len(sent.bytes) /\ ~ fin =>
    LET r == Parse(NewMessage(sent.type), sent.bytes)
    IN  /\ raised = r.raised
        /\ ~ raised => [msg EXCEPT !.residual = <<>>]
                       = [r.m EXCEPT !.residual = <<>>]

=============================================================================
