----------------------------- MODULE ProxyService -----------------------------
(***************************************************************************)
(* What the proxy promises a client that waits for each answer before it   *)
(* asks again, while sockets work.  There are no sockets here, no lists    *)
(* for select(), no parser and no cache: a client asks, an answer to just  *)
(* that request is prepared from a page that is recent enough, and it is   *)
(* delivered.  A client that is owed an answer is not let go.              *)
(***************************************************************************)
EXTENDS Integers, Sequences

CONSTANTS
  Client, None,
  Request,          \* [uri, keep, ...]; the uri of a malformed one is empty
  MaxAge            \* the age of a page when it is taken for an answer

VARIABLES now, conn, asked, prepared, received

vars == <<now, conn, asked, prepared, received>>

\* An answer is the page it carries and when that was made.
Refusal == [uri |-> <<>>, made |-> 0]

IsOwed(c) == Len(received[c]) < Len(asked[c])
Wanted(c) == asked[c][Len(asked[c])]

Init ==
  /\ now = 0
  /\ conn = [c \in Client |-> "new"]
  /\ asked = [c \in Client |-> <<>>]
  /\ prepared = [c \in Client |-> None]
  /\ received = [c \in Client |-> <<>>]

Tick == now' = now + 1 /\ UNCHANGED <<conn, asked, prepared, received>>

Becomes(c, state) == conn' = [conn EXCEPT ![c] = state]

Connect(c) ==
  /\ \/ conn[c] = "new" /\ Becomes(c, "pending")
     \/ conn[c] = "pending" /\ Becomes(c, "open")
  /\ UNCHANGED <<now, asked, prepared, received>>

LetGo(c) ==
  /\ conn[c] = "open" /\ ~ IsOwed(c)
  /\ Becomes(c, "closed")
  /\ UNCHANGED <<now, asked, prepared, received>>

Asks(c) ==
  /\ conn[c] \in {"pending", "open"} /\ ~ IsOwed(c)
  /\ \E r \in Request : asked' = [asked EXCEPT ![c] = Append(@, r)]
  /\ UNCHANGED <<now, conn, prepared, received>>

Prepare(c) ==
  /\ conn[c] = "open" /\ IsOwed(c)
  /\ prepared[c] = None
  /\ Wanted(c).uri # <<>>
  /\ \E made \in {t \in 0 .. now : now - t <= MaxAge} :
       prepared' = [prepared EXCEPT ![c] = [uri |-> Wanted(c).uri, made |-> made]]
  /\ UNCHANGED <<now, conn, asked, received>>

Deliver(c) ==
  /\ conn[c] = "open"
  /\ prepared[c] # None
  /\ received' = [received EXCEPT ![c] = Append(@, prepared[c])]
  /\ prepared' = [prepared EXCEPT ![c] = None]
  /\ IF Wanted(c).keep THEN UNCHANGED conn ELSE Becomes(c, "closed")
  /\ UNCHANGED <<now, asked>>

Refuse(c) ==
  /\ conn[c] = "open" /\ IsOwed(c)
  /\ Wanted(c).uri = <<>>
  /\ received' = [received EXCEPT ![c] = Append(@, Refusal)]
  /\ UNCHANGED <<now, conn, asked, prepared>>

Next ==
  \/ Tick
  \/ \E c \in Client : \/ Connect(c) \/ LetGo(c) \/ Asks(c)
                        \/ Prepare(c) \/ Deliver(c) \/ Refuse(c)

Spec == Init /\ [][Next]_vars

=============================================================================
