--------------------------------- MODULE Shout ---------------------------------
(***************************************************************************)
(* The UDP echo server and its clients: src/basics/shout_server_mac.c and  *)
(* shout_client_mac.c (the Windows files are the same programs).  The      *)
(* server counts to its limit and ends; a client sends a line, waits for   *)
(* the echo without a timeout, and reads the next line.                    *)
(*                                                                         *)
(* The program of each side runs from one system call to the next in one   *)
(* step.  Definitions named Slip* are wrong on purpose: see HttpMessage.   *)
(***************************************************************************)
EXTENDS Integers, Sequences, SequencesExt, FiniteSetsExt

CONSTANTS
  Client,
  Char,            \* what is typed, the new line among it
  NEWLINE,
  Input,           \* what is typed at each client, up to the end of file
  LINE_SIZE,       \* sizeof(line)
  MESSAGE_LIMIT,
  Faults           \* what may go wrong: see Fault

Fault == {"loss",              \* a datagram is lost
          "server recvfrom",   \* these system calls fail
          "server sendto",
          "client recvfrom",
          "client sendto"}

ASSUME ShoutAssumption ==
  /\ NEWLINE \in Char
  /\ Input \in [Client -> Seq(Char)]
  /\ LINE_SIZE \in Nat \ {0, 1}
  /\ MESSAGE_LIMIT \in Nat \ {0}
  /\ Faults \subseteq Fault

Text     == Seq(Char \ {NEWLINE})
Datagram == [sender : Client, text : Text]

VARIABLES
  server,          \* where the server is
  message_count,
  inbox,           \* the datagrams in the server's socket
  client,          \* where each client is
  stdin,           \* what it has not read yet
  echoes,          \* the datagrams in its socket
  sent, printed,   \* the lines it has sent and printed (history)
  failed           \* the clients one of whose calls has failed (history)

serverVars == <<server, message_count>>
clientVars == <<client, stdin, sent, printed, failed>>
vars       == <<serverVars, inbox, clientVars, echoes>>

Init ==
  /\ server = "down"
  /\ message_count = 0
  /\ inbox = <<>>
  /\ client = [c \in Client |-> "fgets"]
  /\ stdin = Input
  /\ echoes = [c \in Client |-> <<>>]
  /\ sent = [c \in Client |-> <<>>]
  /\ printed = [c \in Client |-> <<>>]
  /\ failed = {}

-----------------------------------------------------------------------------
(* The server.                                                              *)

\* socket(), bind() and setsockopt()
ServerStarts ==
  /\ server = "down"
  /\ server' = "recvfrom"
  /\ UNCHANGED <<message_count, inbox, clientVars, echoes>>

\* the end of the loop's body, and its condition
Counted ==
  /\ message_count' = message_count + 1
  /\ server' = IF message_count' < MESSAGE_LIMIT THEN server ELSE "closed"

\* what close() does to the datagrams that nobody received
Rest(queue) == IF server' = "closed" THEN <<>> ELSE queue

SlipServerTimeout ==
  /\ server = "recvfrom"
  /\ inbox = <<>>
  /\ UNCHANGED vars

\* SO_RCVTIMEO has passed: a message that says the socket is closed
ServerTimeout ==
  /\ server = "recvfrom"
  /\ inbox = <<>>
  /\ Counted
  /\ UNCHANGED <<inbox, clientVars, echoes>>

ServerRecvFails ==
  /\ server = "recvfrom"
  /\ "server recvfrom" \in Faults
  /\ Counted
  /\ inbox' = Rest(inbox)
  /\ UNCHANGED <<clientVars, echoes>>

SlipEcho(d) ==
  \E c \in Client : echoes' = [echoes EXCEPT ![c] = Append(@, d.text)]

\* sendto(sender), lost or not
Echo(d) ==
  \/ /\ client[d.sender] # "closed"
     /\ echoes' = [echoes EXCEPT ![d.sender] = Append(@, d.text)]
  \/ /\ \/ client[d.sender] = "closed"
        \/ {"loss", "server sendto"} \cap Faults # {}
     /\ UNCHANGED echoes

SlipServerRecv ==
  /\ server = "recvfrom"
  /\ inbox # <<>>
  /\ Echo(Head(inbox))
  /\ inbox' = Tail(inbox)
  /\ UNCHANGED <<serverVars, clientVars>>

ServerRecv ==
  /\ server = "recvfrom"
  /\ inbox # <<>>
  /\ Echo(Head(inbox))
  /\ Counted
  /\ inbox' = Rest(Tail(inbox))
  /\ UNCHANGED clientVars

Server == ServerTimeout \/ ServerRecvFails \/ ServerRecv

-----------------------------------------------------------------------------
(* A client.                                                                *)

\* what fgets() reads: a line with its end, as much of it as there is room
\* for, or what is left at the end of the file
SlipPiece(s) ==
  SubSeq(s, 1, Min({Len(s)} \cup {i \in DOMAIN s : s[i] = NEWLINE}))

Piece(s) ==
  SubSeq(s, 1, Min({Len(s), LINE_SIZE - 1}
                   \cup {i \in DOMAIN s : s[i] = NEWLINE}))

\* line[strcspn(line, "\n")] = 0: a new line can only be the last of a piece
Line(s) ==
  IF Last(Piece(s)) = NEWLINE THEN Front(Piece(s)) ELSE Piece(s)

\* sendto(), which takes no notice of whether the server is there
Arrives(c) ==
  \/ /\ server = "recvfrom"
     /\ inbox' = Append(inbox, [sender |-> c, text |-> Line(stdin[c])])
  \/ /\ server # "recvfrom" \/ "loss" \in Faults
     /\ UNCHANGED inbox

ReadLine(c) ==
  /\ client[c] = "fgets"
  /\ stdin[c] # <<>>
  /\ stdin' = [stdin EXCEPT ![c] = SubSeq(@, Len(Piece(@)) + 1, Len(@))]

Send(c) ==
  /\ ReadLine(c)
  /\ Arrives(c)
  /\ client' = [client EXCEPT ![c] = "recvfrom"]
  /\ sent' = [sent EXCEPT ![c] = Append(@, Line(stdin[c]))]
  /\ UNCHANGED <<serverVars, printed, failed, echoes>>

SendFails(c) ==
  /\ "client sendto" \in Faults
  /\ ReadLine(c)
  /\ failed' = failed \cup {c}
  /\ UNCHANGED <<serverVars, inbox, client, sent, printed, echoes>>

Recv(c) ==
  /\ client[c] = "recvfrom"
  /\ echoes[c] # <<>>
  /\ printed' = [printed EXCEPT ![c] = Append(@, Head(echoes[c]))]
  /\ echoes' = [echoes EXCEPT ![c] = Tail(@)]
  /\ client' = [client EXCEPT ![c] = "fgets"]
  /\ UNCHANGED <<serverVars, inbox, stdin, sent, failed>>

RecvFails(c) ==
  /\ "client recvfrom" \in Faults
  /\ client[c] = "recvfrom"
  /\ client' = [client EXCEPT ![c] = "fgets"]
  /\ failed' = failed \cup {c}
  /\ UNCHANGED <<serverVars, inbox, stdin, sent, printed, echoes>>

EndOfFile(c) ==
  /\ client[c] = "fgets"
  /\ stdin[c] = <<>>
  /\ client' = [client EXCEPT ![c] = "closed"]
  /\ echoes' = [echoes EXCEPT ![c] = <<>>]
  /\ UNCHANGED <<serverVars, inbox, stdin, sent, printed, failed>>

ClientStep(c) ==
  Send(c) \/ SendFails(c) \/ Recv(c) \/ RecvFails(c) \/ EndOfFile(c)

Next == ServerStarts \/ Server \/ \E c \in Client : ClientStep(c)

Spec == Init /\ [][Next]_vars

\* The server is scheduled and its timeouts pass.  That a call fails is never
\* counted on, nor are the clients.
FairSpec ==
  /\ Spec
  /\ WF_vars(ServerTimeout \/ ServerRecv)

-----------------------------------------------------------------------------
TypeOK ==
  /\ server \in {"down", "recvfrom", "closed"}
  /\ message_count \in 0 .. MESSAGE_LIMIT
  /\ inbox \in Seq(Datagram)
  /\ client \in [Client -> {"fgets", "recvfrom", "closed"}]
  /\ stdin \in [Client -> Seq(Char)]
  /\ echoes \in [Client -> Seq(Text)]
  /\ sent \in [Client -> Seq(Text)]
  /\ printed \in [Client -> Seq(Text)]
  /\ failed \subseteq Client

\* A client prints the echoes of its own lines, in the order it sent them,
\* whatever the other clients do and whatever is lost.  After a recvfrom()
\* that failed it prints the echo of one line for that of the next.
EchoesMatch == \A c \in Client \ failed : IsPrefix(printed[c], sent[c])

\* the echoes of each client, printed or still on their way, numbered
Echoed ==
  UNION {{<<c, n>> : n \in 1 .. Len(printed[c]) + Len(echoes[c])} : c \in Client}

\* The server serves no more than its limit: each echo, printed or still on
\* its way, has been counted, whatever failed in between.
EchoesAreCounted == Cardinality(Echoed) <= message_count

\* a text without its new lines
Unended(s) ==
  FlattenSeq([i \in DOMAIN s |-> IF s[i] = NEWLINE THEN <<>> ELSE <<s[i]>>])

\* What is typed is sent piece by piece, whatever the length of a line: the
\* new lines are all that is left out of it (lines 46-49 of the client), and
\* a piece fits into the buffer.
InputIsSent ==
  \A c \in Client \ failed :
    /\ FlattenSeq(sent[c]) \o Unended(stdin[c]) = Unended(Input[c])
    /\ \A k \in DOMAIN sent[c] : Len(sent[c][k]) < LINE_SIZE

\* The server ends, also when nobody sends anything: a timeout counts.
ServerEnds == server = "recvfrom" ~> server = "closed"

=============================================================================
