------------------------------- MODULE DnsClient -------------------------------
(***************************************************************************)
(* The DNS client of src/basics/dns_client_mac.c over a network that may   *)
(* lose and reorder datagrams.  It asks for one name and waits for the     *)
(* answer in recvfrom(), without a timeout; what comes from elsewhere with *)
(* another id makes it ask again.  dns_client_win.c is the same program.   *)
(*                                                                         *)
(* A datagram stands for its bytes: the id of its header and a response,   *)
(* of some kind, about some name.  Where it comes from the client does not *)
(* see (line 228).  Definitions named Slip* are wrong on purpose: see      *)
(* HttpMessage.                                                            *)
(***************************************************************************)
EXTENDS DnsMessage

CONSTANTS
  Host,            \* the names that are asked for,
  AddressOf,       \* of which the server knows the addresses
  OUR_CHOSEN_ID,
  RETRY_LIMIT,
  None             \* nothing printed yet

CONSTANTS          \* the surroundings
  Elsewhere,       \* the datagrams that come from elsewhere
  MaxTrouble,      \* bound: of those datagrams and of failures of recvfrom()
  Faults           \* what may go wrong: see Fault

Fault == {"loss",        \* the network loses a datagram
          "sendto",      \* sendto() fails
          "recvfrom"}    \* recvfrom() fails

ASSUME DnsAssumption ==
  /\ Host # {} /\ Host \subseteq Seq(1 .. 127)
  /\ \A hostname \in Host : Len(hostname) < 255
  /\ AddressOf \in [Host -> IPv4Address]
  /\ RETRY_LIMIT \in Nat \ {0}
  /\ MaxTrouble \in Nat
  /\ Faults \subseteq Fault

ASSUME ElsewhereAssumption ==
  Elsewhere \subseteq
    [origin : {"elsewhere"}, id : 0 .. 65535, kind : ReplyKind, host : Host]

\* the answers to this client's queries, and what else may come
Answer   == [origin : {"server"}, id : {OUR_CHOSEN_ID}, kind : ReplyKind, host : Host]
Datagram == Answer \cup Elsewhere

VARIABLES
  pc,             \* where the client is
  destination_url,  \* what it was asked for
  retry_count,
  response,       \* what is in recv_buffer when received_message is set
  printed,
  queries,        \* how many queries for its name are on their way
  answers,        \* how many of each datagram are on their way back
  trouble,        \* how many datagrams from elsewhere and failures there were
  lost            \* whether a datagram has been lost (history)

client  == <<pc, destination_url, retry_count, response, printed>>
network == <<queries, answers, trouble, lost>>
vars    == <<client, network>>

PC == {"start", "recvfrom", "printed", "failed"}

Init ==
  /\ pc = "start"
  /\ destination_url \in Host
  /\ retry_count = 0
  /\ response = None
  /\ printed = None
  /\ queries = 0
  /\ answers = [d \in Datagram |-> 0]
  /\ trouble = 0
  /\ lost = FALSE

-----------------------------------------------------------------------------
(* The network and the server.                                              *)

Lose ==
  /\ "loss" \in Faults
  /\ \/ /\ queries > 0 /\ queries' = queries - 1
        /\ UNCHANGED answers
     \/ /\ \E d \in Answer : answers[d] > 0 /\ answers' = [answers EXCEPT ![d] = @ - 1]
        /\ UNCHANGED queries
  /\ lost' = TRUE
  /\ UNCHANGED <<client, trouble>>

ServerAnswers ==
  /\ queries > 0
  /\ queries' = queries - 1
  /\ \E d \in Answer : /\ d.host = destination_url
                       /\ answers' = [answers EXCEPT ![d] = @ + 1]
  /\ UNCHANGED <<client, trouble, lost>>

\* A datagram that is no answer to this client reaches its port: a late one
\* to an earlier run, or somebody else's.
ForeignDatagram ==
  /\ trouble < MaxTrouble
  /\ trouble' = trouble + 1
  /\ \E d \in Elsewhere : answers' = [answers EXCEPT ![d] = @ + 1]
  /\ UNCHANGED <<client, queries, lost>>

-----------------------------------------------------------------------------
(* The client, from one system call to the next.                            *)

\* sendto(query); only the first time is its result looked at
Sent      == queries' = queries + 1
SendFails == "sendto" \in Faults /\ UNCHANGED queries

SlipSendQuery ==
  /\ pc = "start"
  /\ pc' = "recvfrom"
  /\ Sent \/ SendFails
  /\ UNCHANGED <<destination_url, retry_count, response, printed, answers, trouble, lost>>

SendQuery ==
  /\ pc = "start"
  /\ \/ Sent /\ pc' = "recvfrom"
     \/ SendFails /\ pc' = "failed"
  /\ UNCHANGED <<destination_url, retry_count, response, printed, answers, trouble, lost>>

SlipResend ==
  /\ Sent \/ SendFails
  /\ retry_count' = retry_count + 1
  /\ UNCHANGED <<pc, destination_url, response, printed>>

SlipResendEarly ==
  /\ Sent \/ SendFails
  /\ retry_count' = retry_count + 1
  /\ pc' = IF retry_count' < RETRY_LIMIT - 1 THEN pc ELSE "failed"
  /\ UNCHANGED <<destination_url, response, printed>>

\* Once more, whatever becomes of it, and the loop's condition.
Resend ==
  /\ Sent \/ SendFails
  /\ retry_count' = retry_count + 1
  /\ pc' = IF retry_count' < RETRY_LIMIT THEN pc ELSE "failed"
  /\ UNCHANGED <<destination_url, response, printed>>

RecvFails ==
  /\ pc = "recvfrom"
  /\ "recvfrom" \in Faults
  /\ trouble < MaxTrouble
  /\ trouble' = trouble + 1
  /\ Resend
  /\ UNCHANGED <<answers, lost>>

Received(d) ==
  /\ pc = "recvfrom"
  /\ answers[d] > 0
  /\ answers' = [answers EXCEPT ![d] = @ - 1]
  /\ UNCHANGED <<trouble, lost>>

\* the id of the header is compared, and nothing else
SlipIsUnrelated(d) == FALSE
IsUnrelated(d) == d.id # OUR_CHOSEN_ID

RecvUnrelated(d) ==
  /\ Received(d)
  /\ IsUnrelated(d)
  /\ Resend

\* what is printed of each datagram
Printout ==
  [d \in Datagram |->
     ParseResponse(ServerReply(d.kind, d.host, AddressOf[d.host]))]

RecvResponse(d) ==
  /\ Received(d)
  /\ ~ IsUnrelated(d)
  /\ response' = d
  /\ printed' = Printout[d]
  /\ pc' = "printed"
  /\ UNCHANGED <<destination_url, retry_count, queries>>

Client ==
  \/ SendQuery \/ RecvFails
  \/ \E d \in Datagram : RecvUnrelated(d) \/ RecvResponse(d)

Next == Client \/ Lose \/ ServerAnswers \/ ForeignDatagram

Spec == Init /\ [][Next]_vars

\* The client is scheduled when there is something for it: weak fairness of
\* Client but for failures, with its enabling condition written out (see
\* ReverseProxy).  The server answers.
Ready ==
  \/ pc = "start"
  \/ pc = "recvfrom" /\ \E d \in Datagram : answers[d] > 0

FairSpec ==
  /\ Spec
  /\ []<> ~ Ready \/ []<> <<Client>>_client
  /\ WF_vars(ServerAnswers)

-----------------------------------------------------------------------------
TypeOK ==
  /\ pc \in PC
  /\ destination_url \in Host
  /\ retry_count \in 0 .. RETRY_LIMIT
  /\ pc = "printed" => response \in Datagram
  /\ queries \in Nat
  /\ answers \in [Datagram -> Nat]
  /\ trouble \in 0 .. MaxTrouble
  /\ lost \in BOOLEAN

\* what is printed as the address: the data of the first record, or, if that
\* repeats the name, more than the message has
DataOf(kind, address) ==
  CASE kind \in {"address", "several"}  -> address
    [] kind \in {"alias", "negative"}   -> OtherName
    [] kind = "repeated"                -> Unknown

\* What the client prints is about the name it was asked for, and is what the
\* server's answer has first: an unrelated response is told by its id,
\* whenever it comes (lines 242-255).  By nothing else: the id is a constant
\* and the sender is not looked at, so that what comes from elsewhere with
\* that id is printed for the answer.
PrintsItsAddress ==
  pc = "printed" =>
    \/ printed = [asked   |-> destination_url,
                  address |-> DataOf(response.kind, AddressOf[destination_url])]
    \/ response.origin = "elsewhere" /\ response.id = OUR_CHOSEN_ID

\* the unread answers, those that are alike numbered
Unread == UNION {{<<d, n>> : n \in 1 .. answers[d]} : d \in Answer}

\* The client cannot flood the server.  It stops at its limit (line 226), and
\* waits only if there is a retry left; and there are never more queries and
\* unread answers about than one and the retries.
NoFlood ==
  /\ retry_count <= RETRY_LIMIT
  /\ pc = "recvfrom" => retry_count < RETRY_LIMIT
  /\ queries + Cardinality(Unread) <= 1 + retry_count

\* A client that waits in recvfrom(), where it would wait for ever, has
\* something to wait for as long as nothing is lost: the answer to one of its
\* queries will come, though the retries' results are ignored (lines 228-247).
NeverWaitsInVain ==
  pc = "recvfrom" /\ ~ lost => queries > 0 \/ \E d \in Answer : answers[d] > 0

\* A client that waits prints, if nothing is lost and there is less trouble
\* than it has retries.
Resolved ==
  pc = "recvfrom" ~> pc = "printed" \/ lost \/ trouble >= RETRY_LIMIT

=============================================================================
