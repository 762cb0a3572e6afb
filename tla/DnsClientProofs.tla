---------------------------- MODULE DnsClientProofs ----------------------------
(***************************************************************************)
(* What holds of DnsClient for any names, any number of retries and any    *)
(* trouble on the network; and of DnsNames, for every name of less than    *)
(* 255 characters and every reply, that the octets of DnsMessage can be    *)
(* read back.                                                              *)
(***************************************************************************)
EXTENDS DnsNames, SequenceTheorems, FiniteSetTheorems, WellFoundedInduction,
        TLAPS

\* What comes from elsewhere is no answer, whatever its id.
LEMMA Origins ==
  /\ Answer \subseteq Datagram /\ Elsewhere \subseteq Datagram
  /\ \A d \in Elsewhere : d.origin = "elsewhere" /\ d \notin Answer
  /\ \A d \in Answer : d.id = OUR_CHOSEN_ID /\ d.host \in Host /\ d.kind \in ReplyKind
<1>1. \A d \in Answer : /\ d.origin = "server" /\ d.id = OUR_CHOSEN_ID
                        /\ d.host \in Host /\ d.kind \in ReplyKind
  BY DEF Answer
<1>2. \A d \in Elsewhere : d.origin = "elsewhere"
  BY ElsewhereAssumption
<1> QED
  BY <1>1, <1>2 DEF Datagram

LEMMA Limits == RETRY_LIMIT \in Nat \ {0} /\ MaxTrouble \in Nat
BY DnsAssumption

LEMMA OneMore ==
  ASSUME NEW f \in [Datagram -> Nat], NEW d \in Datagram
  PROVE  [f EXCEPT ![d] = @ + 1] \in [Datagram -> Nat]
OBVIOUS

LEMMA OneLess ==
  ASSUME NEW f \in [Datagram -> Nat], NEW d \in Datagram, f[d] > 0
  PROVE  [f EXCEPT ![d] = @ - 1] \in [Datagram -> Nat]
OBVIOUS

\* A client that waits has a retry left.
IInv ==
  /\ TypeOK
  /\ pc = "start" => retry_count = 0
  /\ pc = "recvfrom" => retry_count < RETRY_LIMIT

LEMMA InitTyped == Init => IInv
<1> SUFFICES ASSUME Init PROVE IInv
  OBVIOUS
<1>1. answers \in [Datagram -> Nat] /\ queries \in Nat
  BY DEF Init
<1>2. RETRY_LIMIT \in Nat \ {0} /\ MaxTrouble \in Nat
  BY Limits
<1>3. /\ pc \in PC /\ pc \notin {"recvfrom", "printed"}
      /\ destination_url \in Host /\ lost \in BOOLEAN
  BY DEF Init, PC
<1>4. retry_count = 0 /\ trouble = 0
  BY DEF Init
<1> QED
  BY <1>1, <1>2, <1>3, <1>4 DEF IInv, TypeOK

\* Sending again keeps the types, and stops at the limit.
LEMMA ResendTyped ==
  ASSUME IInv, pc = "recvfrom", Resend
  PROVE  /\ queries' \in Nat /\ retry_count' \in 0 .. RETRY_LIMIT
         /\ pc' \in PC /\ pc' \notin {"start", "printed"}
         /\ destination_url' = destination_url
         /\ pc' = "recvfrom" => retry_count' < RETRY_LIMIT
<1>1. RETRY_LIMIT \in Nat /\ retry_count \in Nat /\ retry_count < RETRY_LIMIT
  BY Limits DEF IInv, TypeOK
<1>2. /\ retry_count' = retry_count + 1 /\ destination_url' = destination_url
      /\ pc' = IF retry_count' < RETRY_LIMIT THEN "recvfrom" ELSE "failed"
  BY DEF Resend
<1>3. queries' \in Nat
  BY DEF IInv, TypeOK, Resend, Sent, SendFails
<1> QED
  BY <1>1, <1>2, <1>3 DEF PC

LEMMA StepTyped == IInv /\ [Next]_vars => IInv'
<1> SUFFICES ASSUME IInv, [Next]_vars PROVE IInv'
  OBVIOUS
<1> USE DEF IInv, TypeOK
<1>1. CASE Lose
  <2>1. answers' \in [Datagram -> Nat]
    BY <1>1, OneLess DEF Lose, Datagram
  <2> QED
    BY <1>1, <2>1 DEF Lose, client
<1>2. CASE ServerAnswers
  <2>1. answers' \in [Datagram -> Nat]
    BY <1>2, OneMore DEF ServerAnswers, Datagram
  <2> QED
    BY <1>2, <2>1 DEF ServerAnswers, client
<1>3. CASE ForeignDatagram
  <2>1. answers' \in [Datagram -> Nat]
    BY <1>3, OneMore DEF ForeignDatagram, Datagram
  <2> QED
    BY <1>3, <2>1, Limits DEF ForeignDatagram, client
<1>4. CASE SendQuery
  BY <1>4, Limits DEF SendQuery, Sent, SendFails, PC
<1>5. CASE RecvFails
  BY <1>5, ResendTyped, Limits DEF RecvFails
<1>6. ASSUME NEW d \in Datagram, RecvUnrelated(d) PROVE IInv'
  <2>1. answers' \in [Datagram -> Nat]
    BY <1>6, OneLess DEF RecvUnrelated, Received
  <2> QED
    BY <1>6, <2>1, ResendTyped DEF RecvUnrelated, Received
<1>7. ASSUME NEW d \in Datagram, RecvResponse(d) PROVE IInv'
  <2>1. answers' \in [Datagram -> Nat]
    BY <1>7, OneLess DEF RecvResponse, Received
  <2> QED
    BY <1>7, <2>1 DEF RecvResponse, Received, PC
<1>8. CASE UNCHANGED vars
  BY <1>8 DEF vars, client, network
<1> QED
  BY <1>1, <1>2, <1>3, <1>4, <1>5, <1>6, <1>7, <1>8 DEF Next, Client

\* The counters and the network's datagrams keep their types: no datagram is
\* received that was not there, and the retries end at RETRY_LIMIT (line 226).
THEOREM TypeCorrect == Spec => []TypeOK
<1>1. IInv => TypeOK
  BY DEF IInv
<1> QED
  BY InitTyped, StepTyped, <1>1, PTL DEF Spec

-----------------------------------------------------------------------------
(* Waiting.                                                                 *)

LEMMA StepWaits == IInv /\ NeverWaitsInVain /\ [Next]_vars => NeverWaitsInVain'
<1> SUFFICES ASSUME IInv, NeverWaitsInVain, [Next]_vars,
                    pc' = "recvfrom", ~ lost'
             PROVE  queries' > 0 \/ \E d \in Answer : answers'[d] > 0
  BY DEF NeverWaitsInVain
<1> USE DEF IInv, TypeOK
<1>1. CASE Lose
  BY <1>1 DEF Lose
<1>2. CASE ServerAnswers
  <2>1. PICK d \in Answer : answers' = [answers EXCEPT ![d] = @ + 1]
    BY <1>2 DEF ServerAnswers
  <2>2. answers'[d] > 0
    BY <2>1, Origins
  <2> QED
    BY <2>2
<1>3. CASE ForeignDatagram
  <2>1. PICK d \in Elsewhere : answers' = [answers EXCEPT ![d] = @ + 1]
    BY <1>3 DEF ForeignDatagram
  <2>2. \A q \in Answer : answers'[q] = answers[q]
    BY <2>1, Origins
  <2> QED
    BY <1>3, <2>2 DEF ForeignDatagram, client, NeverWaitsInVain
<1>4. CASE SendQuery
  BY <1>4 DEF SendQuery, Sent
<1>5. CASE RecvFails
  BY <1>5 DEF RecvFails, Resend, Sent, SendFails, NeverWaitsInVain
<1>6. ASSUME NEW d \in Datagram, RecvUnrelated(d)
      PROVE  queries' > 0 \/ \E q \in Answer : answers'[q] > 0
  \* It was no answer that has been received.
  <2>1. d \notin Answer
    BY <1>6, Origins DEF RecvUnrelated, IsUnrelated
  <2>2. \A q \in Answer : answers'[q] = answers[q]
    BY <1>6, <2>1, Origins DEF RecvUnrelated, Received
  <2> QED
    BY <1>6, <2>2 DEF RecvUnrelated, Received, Resend, Sent, SendFails, NeverWaitsInVain
<1>7. ASSUME NEW d \in Datagram, RecvResponse(d) PROVE FALSE
  BY <1>7 DEF RecvResponse
<1>8. CASE UNCHANGED vars
  BY <1>8 DEF vars, client, network, NeverWaitsInVain
<1> QED
  BY <1>1, <1>2, <1>3, <1>4, <1>5, <1>6, <1>7, <1>8 DEF Next, Client

\* As long as nothing is lost, the client never waits in recvfrom() without
\* an answer to come, whatever the results of its retries are (lines 228-247).
THEOREM WaitsCorrect == Spec => []NeverWaitsInVain
<1>1. Init => NeverWaitsInVain
  BY DEF Init, NeverWaitsInVain
<1> QED
  BY InitTyped, StepTyped, StepWaits, <1>1, PTL DEF Spec

-----------------------------------------------------------------------------
(* The number of datagrams about.                                           *)

\* the unread answers when there are f[d] of each d
UnreadOf(f) == UNION {{<<d, n>> : n \in 1 .. f[d]} : d \in Answer}

LEMMA UnreadIs ==
  ASSUME NEW f \in [Datagram -> Nat], NEW u
  PROVE  u \in UnreadOf(f) <=> \E d \in Answer : \E n \in 1 .. f[d] : u = <<d, n>>
BY DEF UnreadOf

LEMMA OneMoreUnread ==
  ASSUME NEW f \in [Datagram -> Nat], NEW d \in Answer, IsFiniteSet(UnreadOf(f)),
         NEW g \in [Datagram -> Nat], g[d] = f[d] + 1,
         \A e \in Answer : e # d => g[e] = f[e]
  PROVE  /\ IsFiniteSet(UnreadOf(g))
         /\ Cardinality(UnreadOf(g)) = Cardinality(UnreadOf(f)) + 1
<1> DEFINE new == <<d, f[d] + 1>>
<1>1. Answer \subseteq Datagram
  BY Origins
<1>2. f[d] \in Nat /\ g[d] = f[d] + 1 /\ \A e \in Answer : e # d => g[e] = f[e]
  BY <1>1
<1>3. new \notin UnreadOf(f)
  <2> SUFFICES ASSUME NEW e \in Answer, NEW n \in 1 .. f[e], new = <<e, n>> PROVE FALSE
    BY UnreadIs
  <2> QED
    BY <1>2
<1>4. UnreadOf(g) = UnreadOf(f) \cup {new}
  <2>1. ASSUME NEW e \in Answer, NEW n \in 1 .. g[e]
        PROVE  <<e, n>> \in UnreadOf(f) \cup {new}
    <3>1. n \in 1 .. f[e] \/ (e = d /\ n = f[d] + 1)
      BY <1>1, <1>2
    <3> QED
      BY <3>1, UnreadIs
  <2>2. ASSUME NEW e \in Answer, NEW n \in 1 .. f[e] PROVE <<e, n>> \in UnreadOf(g)
    <3>1. n \in 1 .. g[e]
      BY <1>1, <1>2
    <3> QED
      BY <1>2, <3>1, UnreadIs
  <2>3. new \in UnreadOf(g)
    <3>1. f[d] + 1 \in 1 .. g[d]
      BY <1>2
    <3> QED
      BY <1>2, <3>1, UnreadIs
  <2>4. UnreadOf(g) \subseteq UnreadOf(f) \cup {new}
    BY <1>2, <2>1, UnreadIs
  <2>5. UnreadOf(f) \subseteq UnreadOf(g)
    BY <2>2, UnreadIs
  <2> QED
    BY <2>3, <2>4, <2>5
<1> HIDE DEF new
<1> QED
  BY <1>3, <1>4, FS_AddElement

LEMMA OneLessUnread ==
  ASSUME NEW f \in [Datagram -> Nat], NEW d \in Answer, f[d] > 0,
         IsFiniteSet(UnreadOf(f)),
         NEW g \in [Datagram -> Nat], g[d] = f[d] - 1,
         \A e \in Answer : e # d => g[e] = f[e]
  PROVE  /\ IsFiniteSet(UnreadOf(g))
         /\ Cardinality(UnreadOf(g)) = Cardinality(UnreadOf(f)) - 1
<1> DEFINE old == <<d, f[d]>>
<1>1. Answer \subseteq Datagram
  BY Origins
<1>2. f[d] \in Nat /\ g[d] = f[d] - 1 /\ \A e \in Answer : e # d => g[e] = f[e]
  BY <1>1
<1>3. old \in UnreadOf(f)
  <2>1. f[d] \in 1 .. f[d]
    BY <1>2
  <2> QED
    BY <2>1, UnreadIs
<1>4. UnreadOf(g) = UnreadOf(f) \ {old}
  <2>1. ASSUME NEW e \in Answer, NEW n \in 1 .. g[e]
        PROVE  <<e, n>> \in UnreadOf(f) \ {old}
    <3>1. n \in 1 .. f[e] /\ ~ (e = d /\ n = f[d])
      BY <1>1, <1>2
    <3> QED
      BY <3>1, UnreadIs
  <2>2. ASSUME NEW e \in Answer, NEW n \in 1 .. f[e], <<e, n>> # old
        PROVE  <<e, n>> \in UnreadOf(g)
    <3>1. n \in 1 .. g[e]
      BY <1>1, <1>2, <2>2
    <3> QED
      BY <1>2, <3>1, UnreadIs
  <2>3. UnreadOf(g) \subseteq UnreadOf(f) \ {old}
    BY <1>2, <2>1, UnreadIs
  <2>4. UnreadOf(f) \ {old} \subseteq UnreadOf(g)
    BY <2>2, UnreadIs
  <2> QED
    BY <2>3, <2>4
<1> HIDE DEF old
<1> QED
  BY <1>3, <1>4, FS_RemoveElement

\* Before the first query there is nothing about.
Bounded ==
  /\ IsFiniteSet(Unread)
  /\ NoFlood
  /\ pc = "start" => queries = 0 /\ Unread = {}

LEMMA InitBounded == Init => Bounded
<1> SUFFICES ASSUME Init PROVE Bounded
  OBVIOUS
<1>1. Unread = {}
  BY Origins DEF Init, Unread
<1>2. RETRY_LIMIT \in Nat \ {0}
  BY Limits
<1> QED
  BY <1>1, <1>2, FS_EmptySet DEF Init, Bounded, NoFlood

\* What happens to the answers of others is no concern of this.
LEMMA SameUnread ==
  ASSUME NEW f \in [Datagram -> Nat], NEW g, \A d \in Answer : g[d] = f[d]
  PROVE  UnreadOf(g) = UnreadOf(f)
BY DEF UnreadOf

LEMMA StepBounded == IInv /\ Bounded /\ [Next]_vars => Bounded'
<1> SUFFICES ASSUME IInv, Bounded, [Next]_vars PROVE Bounded'
  OBVIOUS
<1> USE DEF IInv, TypeOK
<1>1. Unread = UnreadOf(answers) /\ Unread' = UnreadOf(answers')
  BY DEF Unread, UnreadOf
<1>2. /\ IsFiniteSet(UnreadOf(answers)) /\ Cardinality(UnreadOf(answers)) \in Nat
      /\ queries + Cardinality(UnreadOf(answers)) <= 1 + retry_count
      /\ pc = "start" => queries = 0 /\ UnreadOf(answers) = {}
  BY <1>1, FS_CardinalityType DEF Bounded, NoFlood
<1> DEFINE Goal ==
             /\ IsFiniteSet(UnreadOf(answers'))
             /\ queries' + Cardinality(UnreadOf(answers')) <= 1 + retry_count'
             /\ pc' = "start" => queries' = 0 /\ UnreadOf(answers') = {}
\* The limit is in the types.
<1>3. retry_count' <= RETRY_LIMIT /\ (pc' = "recvfrom" => retry_count' < RETRY_LIMIT)
  <2>1. IInv'
    BY StepTyped
  <2> QED
    BY <2>1, Limits
<1>15. SUFFICES Goal
  BY <1>1, <1>3 DEF Bounded, NoFlood
<1>4. Answer \subseteq Datagram
  BY Origins
<1>5. ASSUME NEW d \in Answer, answers' = [answers EXCEPT ![d] = @ + 1]
       PROVE  /\ IsFiniteSet(UnreadOf(answers'))
              /\ Cardinality(UnreadOf(answers')) = Cardinality(UnreadOf(answers)) + 1
  <2>1. /\ answers' \in [Datagram -> Nat] /\ answers'[d] = answers[d] + 1
        /\ \A e \in Answer : e # d => answers'[e] = answers[e]
    BY <1>4, <1>5
  <2> QED
    BY <1>2, <2>1, OneMoreUnread
<1>6. ASSUME NEW d \in Answer, answers[d] > 0, answers' = [answers EXCEPT ![d] = @ - 1]
       PROVE  /\ IsFiniteSet(UnreadOf(answers'))
              /\ Cardinality(UnreadOf(answers')) = Cardinality(UnreadOf(answers)) - 1
  <2>1. /\ answers' \in [Datagram -> Nat] /\ answers'[d] = answers[d] - 1
        /\ \A e \in Answer : e # d => answers'[e] = answers[e]
    BY <1>4, <1>6
  <2> QED
    BY <1>2, <1>6, <2>1, OneLessUnread
<1>7. CASE Lose
  <2>1. CASE queries > 0 /\ queries' = queries - 1 /\ UNCHANGED answers
    BY <1>2, <1>7, <2>1 DEF Lose, client
  <2>2. ASSUME NEW d \in Answer, answers[d] > 0,
               answers' = [answers EXCEPT ![d] = @ - 1], UNCHANGED queries
        PROVE  Goal
    <3>1. queries' = queries /\ retry_count' = retry_count /\ pc' = pc
      BY <1>7, <2>2 DEF Lose, client
    <3>2. pc # "start"
      <4>1. 1 \in 1 .. answers[d]
        BY <1>4, <2>2
      <4>2. <<d, 1>> \in UnreadOf(answers)
        BY <4>1, UnreadIs
      <4> QED
        BY <1>2, <4>2
    <3>3. /\ IsFiniteSet(UnreadOf(answers'))
          /\ Cardinality(UnreadOf(answers')) = Cardinality(UnreadOf(answers)) - 1
      BY <1>6, <2>2
    <3> QED
      BY <1>2, <3>1, <3>2, <3>3
  <2> QED
    BY <1>7, <2>1, <2>2 DEF Lose
<1>8. CASE ServerAnswers
  <2>1. PICK d \in Answer : answers' = [answers EXCEPT ![d] = @ + 1]
    BY <1>8 DEF ServerAnswers
  <2>2. queries > 0 /\ queries' = queries - 1 /\ retry_count' = retry_count /\ pc' = pc
    BY <1>8 DEF ServerAnswers, client
  <2>3. /\ IsFiniteSet(UnreadOf(answers'))
        /\ Cardinality(UnreadOf(answers')) = Cardinality(UnreadOf(answers)) + 1
    BY <1>5, <2>1
  <2> QED
    BY <1>2, <2>2, <2>3
<1>9. CASE ForeignDatagram
  <2>1. \A d \in Answer : answers'[d] = answers[d]
    BY <1>9, Origins DEF ForeignDatagram
  <2>2. UnreadOf(answers') = UnreadOf(answers)
    BY <2>1, SameUnread
  <2> QED
    BY <1>2, <1>9, <2>2 DEF ForeignDatagram, client
<1>10. CASE SendQuery
  BY <1>2, <1>10, FS_EmptySet DEF SendQuery, Sent, SendFails
<1>11. CASE RecvFails
  BY <1>2, <1>11, ResendTyped DEF RecvFails, Resend, Sent, SendFails
<1>12. ASSUME NEW d \in Datagram, RecvUnrelated(d) PROVE Goal
  <2>1. d \notin Answer
    BY <1>12, Origins DEF RecvUnrelated, IsUnrelated
  <2>2. \A q \in Answer : answers'[q] = answers[q]
    BY <1>4, <1>12, <2>1 DEF RecvUnrelated, Received
  <2>3. UnreadOf(answers') = UnreadOf(answers)
    BY <2>2, SameUnread
  <2> QED
    BY <1>2, <1>12, <2>3, ResendTyped
       DEF RecvUnrelated, Received, Resend, Sent, SendFails
<1>13. ASSUME NEW d \in Datagram, RecvResponse(d) PROVE Goal
  <2>1. /\ answers[d] > 0 /\ answers' = [answers EXCEPT ![d] = @ - 1]
        /\ queries' = queries /\ retry_count' = retry_count /\ pc' = "printed"
    BY <1>13 DEF RecvResponse, Received
  <2>2. CASE d \in Answer
    <3>1. /\ IsFiniteSet(UnreadOf(answers'))
          /\ Cardinality(UnreadOf(answers')) = Cardinality(UnreadOf(answers)) - 1
      BY <1>6, <2>1, <2>2
    <3> QED
      BY <1>2, <2>1, <3>1
  <2>3. CASE d \notin Answer
    <3>1. \A q \in Answer : answers'[q] = answers[q]
      BY <1>4, <2>1, <2>3
    <3>2. UnreadOf(answers') = UnreadOf(answers)
      BY <3>1, SameUnread
    <3> QED
      BY <1>2, <2>1, <3>2
  <2> QED
    BY <2>2, <2>3
<1>14. CASE UNCHANGED vars
  BY <1>2, <1>14 DEF vars, client, network
<1> QED
  BY <1>7, <1>8, <1>9, <1>10, <1>11, <1>12, <1>13, <1>14 DEF Next, Client

\* The client stops at its limit and waits only with a retry left, and the
\* queries on their way and the answers nobody has read are never more than
\* one and the retries: what fails, is lost or comes from elsewhere does not
\* make the client send without end (lines 226-247).
THEOREM FloodCorrect == Spec => []NoFlood
<1>1. Bounded => NoFlood
  BY DEF Bounded
<1> QED
  BY InitTyped, StepTyped, InitBounded, StepBounded, <1>1, PTL DEF Spec

-----------------------------------------------------------------------------
(* Least numbers, and functions that are defined from the end.              *)

LEMMA LeastIn ==
  ASSUME NEW S \in SUBSET Nat, S # {}
  PROVE  Min(S) \in S /\ \A n \in S : Min(S) <= n
<1>1. PICK m \in S : \A n \in S : <<n, m>> \notin OpToRel(<, Nat)
  BY NatLessThanWellFounded, WFMin
<1>2. ASSUME NEW n \in S PROVE m <= n
  <2>1. ~ (n < m)
    BY <1>1 DEF OpToRel
  <2> QED
    BY <2>1
<1> QED
  BY <1>2 DEF Min

\* What holds of a place if it holds of all later ones holds of all.
LEMMA FromTheEnd ==
  ASSUME NEW n \in Nat, NEW S,
         \A i \in 1 .. n : (\A j \in i + 1 .. n : j \in S) => i \in S
  PROVE  1 .. n \subseteq S
<1> DEFINE Bad == {k \in Nat : n - k \in 1 .. n /\ n - k \notin S}
<1>1. Bad = {}
  <2> SUFFICES ASSUME Bad # {} PROVE FALSE
    OBVIOUS
  <2> DEFINE k == Min(Bad)
  <2>1. k \in Bad /\ \A m \in Bad : k <= m
    BY LeastIn
  <2> HIDE DEF k
  <2>2. k \in Nat /\ n - k \in 1 .. n /\ n - k \notin S
    BY <2>1
  <2>3. ASSUME NEW j \in n - k + 1 .. n PROVE j \in S
    <3>1. n - j \in Nat /\ n - j < k /\ n - (n - j) = j /\ j \in 1 .. n
      BY <2>2
    <3>2. n - j \notin Bad
      BY <2>1, <2>2, <3>1
    <3> QED
      BY <3>1, <3>2
  <2> QED
    BY <2>2, <2>3
<1>2. ASSUME NEW i \in 1 .. n PROVE i \in S
  <2>1. n - i \in Nat /\ n - (n - i) = i
    OBVIOUS
  <2>2. n - i \notin Bad
    BY <1>1
  <2> QED
    BY <2>1, <2>2
<1> QED
  BY <1>2

IsDefinedBy(f, n, V, stop, base, step, next) ==
  /\ f \in [1 .. n -> V]
  /\ \A i \in 1 .. n :
       f[i] = IF i \in stop THEN base[i] ELSE step[i][f[next[i]]]

\* A function that is defined by its value at a later place, but where it
\* stops, exists.
LEMMA DefinedFromTheEnd ==
  ASSUME NEW n \in Nat, NEW V, NEW stop \in SUBSET (1 .. n),
         NEW base \in [1 .. n -> V],
         NEW step \in [1 .. n -> [V -> V]], NEW next \in [1 .. n -> Nat],
         \A i \in 1 .. n : i \notin stop => next[i] \in i + 1 .. n
  PROVE  \E f : IsDefinedBy(f, n, V, stop, base, step, next)
<1> DEFINE value(f, i) == IF i \in stop THEN base[i] ELSE step[i][f[next[i]]]
           Good(i, f) == \A j \in i .. n : f[j] = value(f, j)
           S == {i \in 1 .. n : \E f \in [1 .. n -> V] : Good(i, f)}
<1>1. ASSUME NEW i \in 1 .. n, NEW f \in [1 .. n -> V] PROVE value(f, i) \in V
  <2>1. CASE i \in stop
    BY <2>1
  <2>2. CASE i \notin stop
    <3>1. next[i] \in 1 .. n
      BY <2>2
    <3>2. f[next[i]] \in V /\ step[i] \in [V -> V]
      BY <3>1
    <3> QED
      BY <2>2, <3>2
  <2> QED
    BY <2>1, <2>2
<1>2. ASSUME NEW i \in 1 .. n, NEW f \in [1 .. n -> V], Good(i + 1, f)
      PROVE  i \in S
  <2> DEFINE v == value(f, i)
             g == [f EXCEPT ![i] = v]
  <2>1. v \in V
    BY <1>1
  <2> HIDE DEF v
  <2>2. g \in [1 .. n -> V]
    BY <2>1
  <2>3. g[i] = v /\ \A j \in i + 1 .. n : g[j] = f[j]
    BY <2>1
  <2> HIDE DEF g
  <2>4. ASSUME NEW j \in i .. n PROVE value(g, j) = value(f, j)
    <3>1. j \in 1 .. n
      OBVIOUS
    <3>2. j \notin stop => next[j] \in i + 1 .. n
      BY <3>1
    <3> QED
      BY <2>3, <3>2
  <2>5. ASSUME NEW j \in i .. n PROVE g[j] = value(g, j)
    <3>1. CASE j = i
      BY <2>3, <2>4, <3>1 DEF v
    <3>2. CASE j # i
      <4>1. j \in i + 1 .. n
        BY <3>2
      <4>2. f[j] = value(f, j)
        BY <1>2, <4>1
      <4> QED
        BY <2>3, <2>4, <4>1, <4>2
    <3> QED
      BY <3>1, <3>2
  <2> HIDE DEF value
  <2> QED
    BY <2>2, <2>5
<1>3. 1 .. n \subseteq S
  <2>1. ASSUME NEW i \in 1 .. n, \A j \in i + 1 .. n : j \in S PROVE i \in S
    <3>1. CASE i = n
      <4>1. Good(i + 1, base)
        BY <3>1
      <4> QED
        BY <1>2, <4>1
    <3>2. CASE i # n
      <4>1. i + 1 \in i + 1 .. n
        BY <3>2
      <4>2. i + 1 \in S
        BY <2>1, <4>1
      <4>3. PICK f \in [1 .. n -> V] : Good(i + 1, f)
        BY <4>2
      <4> HIDE DEF Good, S
      <4> QED
        BY <1>2, <4>3
    <3> QED
      BY <3>1, <3>2
  <2> HIDE DEF S
  <2> QED
    BY <2>1, FromTheEnd
<1>4. CASE n = 0
  <2>1. \A i \in 1 .. n : FALSE
    BY <1>4
  <2>2. IsDefinedBy(base, n, V, stop, base, step, next)
    BY <2>1 DEF IsDefinedBy
  <2> QED
    BY <2>2
<1>5. CASE n # 0
  <2>1. 1 \in S
    <3>1. 1 \in 1 .. n
      BY <1>5
    <3> HIDE DEF S
    <3> QED
      BY <1>3, <3>1
  <2>2. PICK f \in [1 .. n -> V] : Good(1, f)
    BY <2>1
  <2>3. IsDefinedBy(f, n, V, stop, base, step, next)
    BY <2>2 DEF IsDefinedBy
  <2> QED
    BY <2>3
<1> QED
  BY <1>4, <1>5

-----------------------------------------------------------------------------
(* Elements of a sequence picked by their places.                           *)

LEMMA Finite ==
  ASSUME NEW n \in Nat, NEW K \in SUBSET (0 .. n)
  PROVE  IsFiniteSet(K)
<1>1. IsFiniteSet(0 .. n)
  BY FS_Interval
<1> QED
  BY <1>1, FS_Subset

LEMMA GreatestIn ==
  ASSUME NEW n \in Nat, NEW K \in SUBSET (0 .. n), K # {}
  PROVE  \E k \in K : \A j \in K : j <= k
<1> DEFINE T == {m \in Nat : n - m \in K}
<1>1. T # {}
  <2>1. PICK j \in K : TRUE
    OBVIOUS
  <2>2. n - j \in Nat /\ n - (n - j) = j
    BY <2>1
  <2>3. n - j \in T
    BY <2>1, <2>2
  <2> QED
    BY <2>3
<1>2. PICK m \in T : \A o \in T : m <= o
  BY <1>1, LeastIn
<1>3. m \in Nat /\ n - m \in K
  BY <1>2
<1>4. ASSUME NEW j \in K PROVE j <= n - m
  <2>1. n - j \in Nat /\ n - (n - j) = j
    OBVIOUS
  <2>2. n - j \in T
    BY <2>1
  <2>3. m <= n - j
    BY <1>2, <2>2
  <2> QED
    BY <1>3, <2>1, <2>3
<1> QED
  BY <1>3, <1>4

Rank(places, i) == Cardinality({j \in places : j <= i})

LEMMA RankType ==
  ASSUME NEW n \in Nat, NEW K \in SUBSET (0 .. n), NEW i
  PROVE  /\ Cardinality(K) \in Nat
         /\ Rank(K, i) \in Nat /\ Rank(K, i) <= Cardinality(K)
         /\ i \in K => Rank(K, i) >= 1
<1> DEFINE below == {j \in K : j <= i}
<1>0. IsFiniteSet(K)
  BY Finite
<1>1. IsFiniteSet(below) /\ Cardinality(below) <= Cardinality(K)
  BY <1>0, FS_Subset
<1>2. Cardinality(below) \in Nat /\ (Cardinality(below) = 0 <=> below = {})
  BY <1>1, FS_CardinalityType, FS_EmptySet
<1>3. i \in K => i \in below
  OBVIOUS
<1>4. Cardinality(K) \in Nat
  BY <1>0, FS_CardinalityType
<1> HIDE DEF below
<1>5. i \in K => Cardinality(below) >= 1
  BY <1>2, <1>3
<1> QED
  BY <1>1, <1>2, <1>4, <1>5 DEF Rank, below

\* A later place has a higher rank.
LEMMA RankGrows ==
  ASSUME NEW n \in Nat, NEW K \in SUBSET (0 .. n), NEW i \in K, NEW k \in K, i < k
  PROVE  Rank(K, i) < Rank(K, k)
<1> DEFINE below(o) == {j \in K : j <= o}
<1>0. IsFiniteSet(K)
  BY Finite
<1>1. IsFiniteSet(below(i)) /\ k \notin below(i)
  BY <1>0, FS_Subset
<1>2. /\ IsFiniteSet(below(i) \cup {k})
      /\ Cardinality(below(i) \cup {k}) = Cardinality(below(i)) + 1
  BY <1>1, FS_AddElement
<1>3. below(i) \cup {k} \subseteq below(k)
  <2>1. k \in Nat /\ i \in Nat /\ \A j \in K : j \in Nat
    OBVIOUS
  <2>2. \A j \in K : j <= i => j <= k
    BY <2>1
  <2>3. k <= k
    BY <2>1
  <2> QED
    BY <2>2, <2>3
<1>4. IsFiniteSet(below(k))
  BY <1>0, FS_Subset
<1>5. Cardinality(below(i) \cup {k}) <= Cardinality(below(k))
  BY <1>3, <1>4, FS_Subset
<1>6. Cardinality(below(i)) \in Nat /\ Cardinality(below(k)) \in Nat
  BY <1>1, <1>4, FS_CardinalityType
<1> HIDE DEF below
<1>7. Cardinality(below(i)) < Cardinality(below(k))
  BY <1>2, <1>5, <1>6
<1> QED
  BY <1>7 DEF Rank, below

\* Each rank up to the number of places is that of just one.
LEMMA RankIs ==
  ASSUME NEW n \in Nat, NEW K \in SUBSET (0 .. n), NEW m \in 1 .. Cardinality(K)
  PROVE  /\ \E i \in K : Rank(K, i) = m
         /\ \A i, k \in K : Rank(K, i) = m /\ Rank(K, k) = m => i = k
<1>0. IsFiniteSet(K)
  BY Finite
<1>1. \A i, k \in K : Rank(K, i) = m /\ Rank(K, k) = m => i = k
  <2> SUFFICES ASSUME NEW i \in K, NEW k \in K, Rank(K, i) = m, Rank(K, k) = m
               PROVE  i = k
    OBVIOUS
  <2>1. ~ (i < k) /\ ~ (k < i)
    BY RankGrows
  <2> QED
    BY <2>1
<1> DEFINE high == {i \in K : Rank(K, i) >= m}
           i == Min(high)
           below == {j \in K : j < i}
<1>2. high # {}
  <2> SUFFICES ASSUME high = {} PROVE FALSE
    OBVIOUS
  <2>1. Cardinality(K) \in Nat /\ Cardinality(K) # 0 /\ K # {}
    BY <1>0, FS_CardinalityType, FS_EmptySet
  <2>2. PICK k \in K : \A j \in K : j <= k
    BY <2>1, GreatestIn
  <2>3. {j \in K : j <= k} = K
    BY <2>2
  <2>4. Rank(K, k) = Cardinality(K)
    BY <2>3 DEF Rank
  <2> QED
    BY <2>1, <2>4
<1>3. i \in high /\ \A k \in high : i <= k
  BY <1>2, LeastIn
<1> HIDE DEF i
<1>4. IsFiniteSet(below) /\ Cardinality(below) \in Nat
  BY <1>0, FS_Subset, FS_CardinalityType
<1>5. Rank(K, i) = Cardinality(below) + 1
  <2>1. {j \in K : j <= i} = below \cup {i}
    <3>1. i \in K /\ i \in Nat /\ \A j \in K : j \in Nat
      BY <1>3
    <3>2. \A j \in K : j <= i <=> (j < i \/ j = i)
      BY <3>1
    <3> QED
      BY <3>1, <3>2
  <2>2. i \notin below
    BY <1>3
  <2> HIDE DEF below
  <2> QED
    BY <1>4, <2>1, <2>2, FS_AddElement DEF Rank
<1>6. Rank(K, i) = m
  <2> SUFFICES ASSUME Rank(K, i) # m PROVE FALSE
    OBVIOUS
  <2>1. Cardinality(below) >= m
    BY <1>3, <1>4, <1>5
  <2>3. below # {} /\ below \in SUBSET (0 .. n)
    <3>1. Cardinality(below) # 0
      BY <1>4, <2>1
    <3>2. below # {}
      BY <3>1, FS_EmptySet
    <3> QED
      BY <3>2
  <2>4. PICK k \in below : \A j \in below : j <= k
    BY <2>3, GreatestIn
  <2>5. {j \in K : j <= k} = below
    <3>1. k \in K /\ k < i /\ i \in Nat /\ \A j \in K : j \in Nat
      BY <1>3, <2>4
    <3>2. \A j \in K : j <= k => j < i
      BY <3>1
    <3>3. \A j \in K : j < i => j <= k
      BY <2>4
    <3> QED
      BY <3>2, <3>3
  <2>6. Rank(K, k) = Cardinality(below)
    BY <2>5 DEF Rank
  <2>7. k \in high /\ k < i
    BY <2>1, <2>4, <2>6
  <2> QED
    BY <1>3, <2>7
<1> QED
  BY <1>1, <1>3, <1>6

\* The places before others come first.
LEMMA PickedRun ==
  ASSUME NEW T, NEW s \in Seq(T), NEW a \in 1 .. Len(s) + 1, NEW b \in 0 .. Len(s),
         a <= b + 1, NEW B \in SUBSET (b + 1 .. Len(s))
  PROVE  Picked(s, (a .. b) \cup B) = SubSeq(s, a, b) \o Picked(s, B)
<1> DEFINE K == (a .. b) \cup B
           l == b + 1 - a
           at(P, n) == CHOOSE i \in P : Cardinality({j \in P : j <= i}) = n
           r == SubSeq(s, a, b) \o Picked(s, B)
<1>1. Len(s) \in Nat /\ a \in Nat /\ b \in Nat /\ l \in Nat
  OBVIOUS
<1>2. K \in SUBSET (0 .. Len(s)) /\ B \in SUBSET (0 .. Len(s))
  BY <1>1
<1>3. IsFiniteSet(B) /\ Cardinality(B) \in Nat
  BY <1>1, <1>2, Finite, RankType
<1>4. \A i \in a - 1 .. b : /\ IsFiniteSet(a .. i) /\ Cardinality(a .. i) = i + 1 - a
  <2> SUFFICES ASSUME NEW i \in a - 1 .. b
               PROVE  IsFiniteSet(a .. i) /\ Cardinality(a .. i) = i + 1 - a
    OBVIOUS
  <2>1. i \in Int /\ a \in Int /\ (a > i => i + 1 - a = 0) /\ i - a + 1 = i + 1 - a
    BY <1>1
  <2> QED
    BY <2>1, FS_Interval
<1>5. Cardinality(K) = l + Cardinality(B)
  <2>1. (a .. b) \cap B = {}
    BY <1>1
  <2>2. Cardinality((a .. b) \cap B) = 0
    BY <2>1, FS_EmptySet
  <2>3. b \in a - 1 .. b
    BY <1>1
  <2>4. IsFiniteSet(a .. b) /\ Cardinality(a .. b) = l
    BY <1>4, <2>3
  <2>5. Cardinality(K) = Cardinality(a .. b) + Cardinality(B) - Cardinality((a .. b) \cap B)
    BY <1>3, <2>4, FS_Union
  <2> QED
    BY <1>1, <1>3, <2>2, <2>4, <2>5
<1>6. \A n \in 1 .. l : at(K, n) = a + n - 1
  <2> SUFFICES ASSUME NEW n \in 1 .. l PROVE at(K, n) = a + n - 1
    OBVIOUS
  <2> DEFINE i == a + n - 1
  <2>1. i \in a .. b /\ i \in K
    BY <1>1
  <2>2. {j \in K : j <= i} = a .. i
    <3>1. \A j \in B : ~ (j <= i)
      BY <1>1, <2>1
    <3>2. \A j \in a .. b : j <= i <=> j \in a .. i
      BY <1>1, <2>1
    <3>3. a .. i \subseteq a .. b
      BY <1>1, <2>1
    <3> HIDE DEF i
    <3> QED
      BY <3>1, <3>2, <3>3
  <2>3. Rank(K, i) = n
    <3>1. i \in a - 1 .. b /\ i + 1 - a = n
      BY <1>1
    <3> HIDE DEF i
    <3> QED
      BY <1>4, <2>2, <3>1 DEF Rank
  <2>4. n \in 1 .. Cardinality(K)
    BY <1>1, <1>3, <1>5
  <2> HIDE DEF K, i
  <2>5. \A k \in K : Rank(K, k) = n => k = i
    BY <1>1, <1>2, <2>1, <2>3, <2>4, RankIs
  <2> QED
    BY <2>1, <2>3, <2>5 DEF i, Rank
<1>7. ASSUME NEW n \in 1 .. Cardinality(B) PROVE at(K, l + n) = at(B, n) /\ at(B, n) \in B
  <2>0. PICK i \in B : Rank(B, i) = n
    BY <1>1, <1>2, RankIs
  <2>1. i \in B /\ Rank(B, i) = n /\ \A k \in B : Rank(B, k) = n => k = i
    BY <1>1, <1>2, <2>0, RankIs
  <2>2. i \in K /\ i > b
    BY <1>1, <2>1
  <2>3. {j \in K : j <= i} = (a .. b) \cup {j \in B : j <= i}
    BY <1>1, <2>2
  <2> DEFINE C == {j \in B : j <= i}
  <2>4. IsFiniteSet(C) /\ (a .. b) \cap C = {} /\ Cardinality(C) = n
    BY <1>1, <1>3, <2>1, FS_Subset DEF Rank
  <2>5. IsFiniteSet(a .. b) /\ Cardinality(a .. b) = l
    <3>1. b \in a - 1 .. b
      BY <1>1
    <3> QED
      BY <1>4, <3>1
  <2>6. Cardinality((a .. b) \cup C) = l + n
    <3>1. Cardinality((a .. b) \cap C) = 0
      BY <2>4, FS_EmptySet
    <3>2. Cardinality((a .. b) \cup C) = Cardinality(a .. b) + Cardinality(C) - Cardinality((a .. b) \cap C)
      BY <2>4, <2>5, FS_Union
    <3> QED
      BY <1>1, <2>4, <2>5, <3>1, <3>2
  <2>7. Rank(K, i) = l + n
    BY <2>3, <2>6 DEF Rank
  <2>8. l + n \in 1 .. Cardinality(K)
    BY <1>1, <1>3, <1>5
  <2> HIDE DEF K, C, l
  <2>9. \A k \in K : Rank(K, k) = l + n => k = i
    BY <1>1, <1>2, <2>2, <2>7, <2>8, RankIs
  <2>10. at(K, l + n) = i
    BY <2>2, <2>7, <2>9 DEF Rank
  <2>11. at(B, n) = i
    BY <2>1 DEF Rank
  <2> QED
    BY <2>1, <2>10, <2>11
<1>8. /\ Picked(s, K) = [n \in 1 .. Cardinality(K) |-> s[at(K, n)]]
      /\ Picked(s, B) = [n \in 1 .. Cardinality(B) |-> s[at(B, n)]]
  BY DEF Picked
<1>9. Picked(s, B) \in Seq(T) /\ Len(Picked(s, B)) = Cardinality(B)
  <2>1. \A n \in 1 .. Cardinality(B) : s[at(B, n)] \in T
    <3> SUFFICES ASSUME NEW n \in 1 .. Cardinality(B) PROVE s[at(B, n)] \in T
      OBVIOUS
    <3> HIDE DEF at
    <3>1. at(B, n) \in b + 1 .. Len(s)
      BY <1>7
    <3>2. at(B, n) \in 1 .. Len(s)
      BY <1>1, <3>1
    <3> QED
      BY <3>1
  <2> HIDE DEF at
  <2> QED
    BY <1>3, <1>8, <2>1
<1>10. SubSeq(s, a, b) \in Seq(T) /\ Len(SubSeq(s, a, b)) = l
       /\ \A n \in 1 .. l : SubSeq(s, a, b)[n] = s[a + n - 1]
  BY <1>1
<1> DEFINE f == SubSeq(s, a, b)
           g == Picked(s, B)
<1>11. /\ f \o g \in Seq(T) /\ Len(f \o g) = l + Cardinality(B)
       /\ \A n \in 1 .. l + Cardinality(B) :
            (f \o g)[n] = IF n <= l THEN f[n] ELSE g[n - l]
  <2> HIDE DEF f, g
  <2>1. f \in Seq(T) /\ g \in Seq(T) /\ Len(f) = l /\ Len(g) = Cardinality(B)
    BY <1>9, <1>10 DEF f, g
  <2> HIDE DEF l
  <2>2. f \o g \in Seq(T) /\ Len(f \o g) = Len(f) + Len(g)
    BY <2>1, ConcatProperties
  <2>3. \A n \in 1 .. Len(f) + Len(g) :
          (f \o g)[n] = IF n <= Len(f) THEN f[n] ELSE g[n - Len(f)]
    BY <2>1, ConcatProperties
  <2> QED
    BY <2>1, <2>2, <2>3
<1>12. ASSUME NEW n \in 1 .. l + Cardinality(B) PROVE s[at(K, n)] = r[n]
  <2>1. CASE n <= l
    <3>1. n \in 1 .. l
      BY <2>1, <1>1
    <3>2. at(K, n) = a + n - 1
      BY <1>6, <3>1
    <3>3. r[n] = f[n]
      BY <1>11, <2>1
    <3> HIDE DEF at, r
    <3> QED
      BY <1>10, <3>1, <3>2, <3>3
  <2>2. CASE ~ (n <= l)
    <3>1. n - l \in 1 .. Cardinality(B) /\ l + (n - l) = n
      BY <1>1, <1>3, <2>2
    <3>2. at(K, n) = at(B, n - l)
      BY <1>7, <3>1
    <3>3. r[n] = g[n - l]
      BY <1>11, <2>2
    <3> HIDE DEF at, r
    <3>4. g[n - l] = s[at(B, n - l)]
      BY <1>8, <3>1
    <3> QED
      BY <3>2, <3>3, <3>4
  <2> QED
    BY <2>1, <2>2
<1>13. r = [n \in 1 .. l + Cardinality(B) |-> r[n]]
  <2> HIDE DEF f, g
  <2>1. r \in Seq(T) /\ Len(r) = l + Cardinality(B)
    BY <1>11 DEF f, g
  <2> HIDE DEF r, l
  <2> QED
    BY <2>1
<1> HIDE DEF r, at
<1>14. Picked(s, K) = r
  BY <1>5, <1>8, <1>12, <1>13
<1> QED
  BY <1>14 DEF r

LEMMA PickedType ==
  ASSUME NEW T, NEW s \in Seq(T), NEW K \in SUBSET (1 .. Len(s))
  PROVE  /\ Picked(s, K) \in Seq(T)
         /\ Len(Picked(s, K)) = Cardinality(K)
         /\ Picked(s, K) = <<>> <=> K = {}
<1> DEFINE at(n) == CHOOSE i \in K : Cardinality({j \in K : j <= i}) = n
<1>1. Len(s) \in Nat /\ K \in SUBSET (0 .. Len(s)) /\ IsFiniteSet(K) /\ Cardinality(K) \in Nat
  <2>1. Len(s) \in Nat /\ K \in SUBSET (0 .. Len(s))
    OBVIOUS
  <2> QED
    BY <2>1, Finite, RankType
<1>2. ASSUME NEW n \in 1 .. Cardinality(K) PROVE s[at(n)] \in T
  <2>1. \E i \in K : Rank(K, i) = n
    BY <1>1, RankIs
  <2>2. at(n) \in K
    BY <2>1 DEF Rank
  <2> HIDE DEF at
  <2>3. at(n) \in 1 .. Len(s)
    BY <2>2
  <2> QED
    BY <2>3
<1>3. Picked(s, K) = [n \in 1 .. Cardinality(K) |-> s[at(n)]]
  BY DEF Picked
<1> HIDE DEF at
<1>4. Picked(s, K) \in Seq(T) /\ Len(Picked(s, K)) = Cardinality(K)
  BY <1>1, <1>2, <1>3
<1>5. Cardinality(K) = 0 <=> K = {}
  BY <1>1, FS_EmptySet
<1> QED
  BY <1>1, <1>4, <1>5

-----------------------------------------------------------------------------
(* What a name is from a place on, up to superfluous dots.                  *)

Name == Seq(1 .. 127)

KeptFrom(h, i) ==
  {j \in i .. Len(h) :
     \/ h[j] # DOT
     \/ /\ \E k \in i .. j - 1 : h[k] # DOT
        /\ j < Len(h) /\ h[j + 1] # DOT}

TextFrom(h, i) == Picked(h, KeptFrom(h, i))

\* behind the part that begins at i
Behind(h, i) == i + Len(Token(h, i))

LEMMA TextType ==
  ASSUME NEW h \in Name, NEW i \in 1 .. Len(h) + 1
  PROVE  TextFrom(h, i) \in Name /\ (TextFrom(h, i) = <<>> <=> KeptFrom(h, i) = {})
<1>1. KeptFrom(h, i) \in SUBSET (1 .. Len(h))
  BY DEF KeptFrom, Name
<1> QED
  BY <1>1, PickedType DEF TextFrom, Name

LEMMA NormalIs ==
  ASSUME NEW h \in Name
  PROVE  Normal(h) = TextFrom(h, 1) /\ TextFrom(h, Len(h) + 1) = <<>>
<1>1. KeptFrom(h, 1) = {i \in DOMAIN h : Kept(h, i)}
  BY DEF KeptFrom, Kept, Name
<1>2. KeptFrom(h, Len(h) + 1) = {}
  BY DEF KeptFrom, Name
<1>3. Len(h) + 1 \in 1 .. Len(h) + 1
  BY DEF Name
<1> QED
  BY <1>1, <1>2, <1>3, TextType DEF Normal, TextFrom

LEMMA DotIsSkipped ==
  ASSUME NEW h \in Name, NEW i \in 1 .. Len(h), h[i] = DOT
  PROVE  TextFrom(h, i) = TextFrom(h, i + 1)
<1>1. ASSUME NEW j \in i .. Len(h) PROVE j \in KeptFrom(h, i) <=> j \in KeptFrom(h, i + 1)
  <2>1. (\E k \in i .. j - 1 : h[k] # DOT) <=> (\E k \in i + 1 .. j - 1 : h[k] # DOT)
    BY DEF Name
  <2>2. j = i => ~ \E k \in i .. j - 1 : h[k] # DOT
    OBVIOUS
  <2> QED
    BY <2>1, <2>2 DEF KeptFrom, Name
<1>2. KeptFrom(h, i) = KeptFrom(h, i + 1)
  <2>1. KeptFrom(h, i) \subseteq i .. Len(h) /\ KeptFrom(h, i + 1) \subseteq i .. Len(h)
    BY DEF KeptFrom, Name
  <2> QED
    BY <1>1, <2>1
<1> QED
  BY <1>2 DEF TextFrom

LEMMA TokenIs ==
  ASSUME NEW h \in Name, NEW i \in 1 .. Len(h), h[i] # DOT
  PROVE  /\ Behind(h, i) \in i + 1 .. Len(h) + 1
         /\ Token(h, i) = SubSeq(h, i, Behind(h, i) - 1)
         /\ Token(h, i) \in Name /\ Len(Token(h, i)) = Behind(h, i) - i
         /\ \A j \in i .. Behind(h, i) - 1 : h[j] # DOT
         /\ Behind(h, i) <= Len(h) => h[Behind(h, i)] = DOT
<1> DEFINE ends == {Len(h) + 1} \cup {j \in DOMAIN h : i < j /\ h[j] = DOT}
           e == Min(ends)
<1>1. Len(h) \in Nat /\ DOMAIN h = 1 .. Len(h) /\ ends \subseteq i + 1 .. Len(h) + 1
  BY DEF Name
<1>2. e \in ends /\ \A j \in ends : e <= j
  <2>1. ends \in SUBSET Nat /\ ends # {}
    BY <1>1
  <2> HIDE DEF ends
  <2> QED
    BY <2>1, LeastIn
<1>3. Token(h, i) = SubSeq(h, i, e - 1)
  BY DEF Token
<1> HIDE DEF e
<1>4. e \in i + 1 .. Len(h) + 1
  BY <1>1, <1>2
<1>5. Token(h, i) \in Name /\ Len(Token(h, i)) = e - i
  <2>1. i \in Int /\ e - 1 \in Int /\ i <= e - 1 /\ (e - 1) - i + 1 = e - i
    BY <1>1, <1>4
  <2>2. \A j \in i .. e - 1 : h[j] \in 1 .. 127
    <3>1. \A j \in i .. e - 1 : j \in 1 .. Len(h)
      BY <1>1, <1>4
    <3>2. \A j \in 1 .. Len(h) : h[j] \in 1 .. 127
      BY ElementOfSeq DEF Name
    <3> QED
      BY <3>1, <3>2
  <2>3. SubSeq(h, i, e - 1) \in Seq(1 .. 127)
    BY <2>1, <2>2, SubSeqProperties
  <2>4. Len(SubSeq(h, i, e - 1)) = (e - 1) - i + 1
    BY <2>1, <2>2, SubSeqProperties
  <2> QED
    BY <1>3, <2>1, <2>3, <2>4 DEF Name
<1>6. Behind(h, i) = e
  BY <1>1, <1>4, <1>5 DEF Behind
<1>7. ASSUME NEW j \in i .. e - 1 PROVE h[j] # DOT
  <2>1. j \notin ends /\ j \in DOMAIN h
    BY <1>1, <1>2, <1>4
  <2> QED
    BY <2>1
<1>8. e <= Len(h) => h[e] = DOT
  BY <1>1, <1>2
<1> QED
  BY <1>3, <1>4, <1>5, <1>6, <1>7, <1>8

\* The text from a part on: the part, and a dot if there is another one.
LEMMA TokenIsKept ==
  ASSUME NEW h \in Name, NEW i \in 1 .. Len(h), h[i] # DOT
  PROVE  LET rest == TextFrom(h, Behind(h, i))
         IN  TextFrom(h, i)
               = Token(h, i) \o ((IF rest = <<>> THEN <<>> ELSE <<DOT>>) \o rest)
<1> DEFINE e == Behind(h, i)
           n == Len(h)
           rest == TextFrom(h, e)
           C == {j \in e .. n : h[j] # DOT \/ (j < n /\ h[j + 1] # DOT)}
<1>1. /\ e \in i + 1 .. n + 1 /\ Token(h, i) = SubSeq(h, i, e - 1)
      /\ \A j \in i .. e - 1 : h[j] # DOT
      /\ e <= n => h[e] = DOT
  BY TokenIs
<1> HIDE DEF e
<1>2. n \in Nat /\ h \in Seq(1 .. 127) /\ e \in 1 .. n + 1 /\ e - 1 \in 0 .. n
      /\ i <= (e - 1) + 1 /\ (e - 1) + 1 = e /\ i \in 1 .. n + 1
  BY <1>1 DEF Name
<1>3. KeptFrom(h, i) = (i .. e - 1) \cup C
  <2>1. ASSUME NEW j \in i .. n PROVE j \in KeptFrom(h, i) <=> j \in (i .. e - 1) \cup C
    <3>1. CASE j < e
      BY <1>1, <1>2, <3>1 DEF KeptFrom
    <3>2. CASE ~ (j < e)
      <4>1. i \in i .. j - 1 /\ j \in e .. n
        BY <1>1, <1>2, <3>2
      <4> QED
        BY <1>1, <1>2, <4>1 DEF KeptFrom
    <3> QED
      BY <3>1, <3>2
  <2>2. KeptFrom(h, i) \subseteq i .. n
    BY DEF KeptFrom
  <2>3. (i .. e - 1) \cup C \subseteq i .. n
    BY <1>1, <1>2
  <2> QED
    BY <2>1, <2>2, <2>3
<1>4. TextFrom(h, i) = Token(h, i) \o Picked(h, C)
  <2>1. C \in SUBSET ((e - 1) + 1 .. n)
    BY <1>2
  <2> HIDE DEF C
  <2>2. Picked(h, (i .. e - 1) \cup C) = SubSeq(h, i, e - 1) \o Picked(h, C)
    BY <1>2, <2>1, PickedRun
  <2> QED
    BY <1>1, <1>3, <2>2 DEF TextFrom
<1>5. ASSUME \A j \in e .. n : h[j] = DOT
      PROVE  TextFrom(h, i) = Token(h, i) \o ((IF rest = <<>> THEN <<>> ELSE <<DOT>>) \o rest)
  <2>1. C = {} /\ KeptFrom(h, e) = {}
    <3>1. \A j \in e .. n : j < n => j + 1 \in e .. n
      BY <1>2
    <3>2. C = {}
      BY <1>5, <3>1
    <3>3. \A j \in e .. n : \A k \in e .. j - 1 : k \in e .. n
      BY <1>2
    <3>4. KeptFrom(h, e) = {}
      BY <1>5, <3>3 DEF KeptFrom
    <3> QED
      BY <3>2, <3>4
  <2>2. Picked(h, C) = <<>> /\ rest = <<>>
    <3>1. {} \in SUBSET (1 .. n)
      OBVIOUS
    <3>2. Picked(h, {}) = <<>>
      BY <1>2, <3>1, PickedType
    <3> QED
      BY <2>1, <3>2 DEF TextFrom
  <2>3. Picked(h, C) = <<>> \o rest
    BY <2>2
  <2> HIDE DEF C, rest
  <2> QED
    BY <1>4, <2>2, <2>3
<1>6. ASSUME \E j \in e .. n : h[j] # DOT
      PROVE  TextFrom(h, i) = Token(h, i) \o ((IF rest = <<>> THEN <<>> ELSE <<DOT>>) \o rest)
  <2> DEFINE S == {j \in e .. n : h[j] # DOT}
  <2>1. PICK z \in S : \A j \in S : z <= j
    <3>1. S # {} /\ S \in SUBSET Nat
      BY <1>2, <1>6
    <3> HIDE DEF S
    <3> QED
      BY <3>1, LeastIn
  <2>2. z \in e .. n /\ h[z] # DOT /\ \A j \in e .. z - 1 : h[j] = DOT
    BY <1>2, <2>1
  <2>3. z > e /\ z - 1 \in e .. n
    BY <1>1, <1>2, <2>2
  <2> DEFINE B == KeptFrom(h, e)
  <2>4. B \in SUBSET (z .. n) /\ z \in B
    <3>1. ASSUME NEW j \in B PROVE j >= z
      <4>1. j \in e .. n /\ (h[j] # DOT \/ \E k \in e .. j - 1 : h[k] # DOT)
        BY DEF KeptFrom
      <4>2. CASE h[j] # DOT
        BY <1>2, <2>2, <4>1, <4>2
      <4>3. ASSUME NEW k \in e .. j - 1, h[k] # DOT PROVE j >= z
        <5>1. ~ (k \in e .. z - 1)
          BY <2>2, <4>3
        <5> QED
          BY <1>2, <2>2, <4>1, <4>3, <5>1
      <4> QED
        BY <4>1, <4>2, <4>3
    <3>2. B \subseteq e .. n
      BY DEF KeptFrom
    <3>3. z \in B
      BY <2>2 DEF KeptFrom
    <3> HIDE DEF B
    <3> QED
      BY <1>2, <2>2, <3>1, <3>2, <3>3
  <2>5. C = (z - 1 .. z - 1) \cup B
    <3>1. ASSUME NEW j \in e .. n, j < z - 1 PROVE j \notin C /\ j \notin B
      <4>1. j \in e .. z - 1 /\ j + 1 \in e .. z - 1
        BY <1>2, <2>2, <3>1
      <4>2. j \notin B
        BY <1>2, <2>2, <2>4, <3>1
      <4> QED
        BY <2>2, <4>1, <4>2
    <3>2. z - 1 \in C
      BY <1>2, <2>2, <2>3
    <3>3. ASSUME NEW j \in z .. n PROVE j \in C <=> j \in B
      <4>1. CASE h[j] # DOT
        BY <1>2, <2>2, <4>1 DEF KeptFrom
      <4>2. CASE h[j] = DOT
        <5>1. z \in e .. j - 1 /\ j \in e .. n
          BY <1>2, <2>2, <4>2
        <5> QED
          BY <2>2, <4>2, <5>1 DEF KeptFrom
      <4> QED
        BY <4>1, <4>2
    <3>4. \A j \in e .. n : j < z - 1 \/ j = z - 1 \/ j \in z .. n
      BY <1>2, <2>2
    <3>5. C \subseteq e .. n /\ B \subseteq z .. n /\ z .. n \subseteq e .. n
      BY <1>2, <2>2, <2>4
    <3>6. \A j : j \in z - 1 .. z - 1 <=> j = z - 1
      BY <1>2, <2>2
    <3>7. \A j \in z .. n : j # z - 1
      BY <1>2, <2>2
    <3>8. ASSUME NEW j \in C PROVE j \in (z - 1 .. z - 1) \cup B
      <4> HIDE DEF B, C
      <4>1. j \in e .. n /\ ~ (j < z - 1)
        BY <3>1, <3>5, <3>8
      <4> QED
        BY <3>3, <3>4, <3>6, <3>8, <4>1
    <3>9. ASSUME NEW j \in B PROVE j \in C
      <4> HIDE DEF B, C
      <4> QED
        BY <3>3, <3>5, <3>9
    <3> HIDE DEF B, C
    <3> QED
      BY <3>2, <3>6, <3>8, <3>9
  <2>6. Picked(h, C) = SubSeq(h, z - 1, z - 1) \o Picked(h, B)
    <3>1. /\ z - 1 \in 1 .. n + 1 /\ z - 1 \in 0 .. n /\ z - 1 <= (z - 1) + 1
          /\ B \in SUBSET ((z - 1) + 1 .. n)
      <4>1. (z - 1) + 1 = z /\ z \in Nat
        BY <1>2, <2>2
      <4> HIDE DEF B
      <4> QED
        BY <1>2, <2>2, <2>3, <2>4, <4>1
    <3> HIDE DEF B, C
    <3> QED
      BY <1>2, <2>5, <3>1, PickedRun
  <2>7. SubSeq(h, z - 1, z - 1) = <<DOT>>
    <3>1. h[z - 1] = DOT /\ z - 1 \in 1 .. n
      BY <1>2, <2>2, <2>3
    <3>2. z - 1 \in Int /\ \A o \in z - 1 .. z - 1 : h[o] \in 1 .. 127
      <4>1. \A o \in z - 1 .. z - 1 : o = z - 1
        BY <1>2, <3>1
      <4>2. \A o \in 1 .. n : h[o] \in 1 .. 127
        BY <1>2, ElementOfSeq
      <4>3. h[z - 1] \in 1 .. 127
        BY <3>1, <4>2
      <4> QED
        BY <3>1, <4>1, <4>3
    <3> DEFINE p == SubSeq(h, z - 1, z - 1)
    <3>3. p \in Seq(1 .. 127) /\ Len(p) = (z - 1) - (z - 1) + 1
      BY <3>2, SubSeqProperties
    <3>4. \A o \in 1 .. (z - 1) - (z - 1) + 1 : p[o] = h[(z - 1) + o - 1]
      BY <3>2, SubSeqProperties
    <3>5. (z - 1) - (z - 1) + 1 = 1 /\ (z - 1) + 1 - 1 = z - 1 /\ 1 \in 1 .. 1
      BY <3>2
    <3> HIDE DEF p
    <3>6. p = <<h[z - 1]>>
      BY <3>3, <3>4, <3>5
    <3> QED
      BY <3>1, <3>6 DEF p
  <2>8. Picked(h, C) = <<DOT>> \o rest
    BY <2>6, <2>7 DEF TextFrom
  <2>9. rest # <<>>
    BY <1>2, <2>4, TextType
  <2> HIDE DEF C, rest
  <2> QED
    BY <1>4, <2>8, <2>9
<1> QED
  BY <1>5, <1>6 DEF e

-----------------------------------------------------------------------------
(* The encoding of a name, from each of its places on.                      *)

IsEncoding(e, h) ==
  /\ e \in [1 .. Len(h) + 1 -> Seq(Octet)]
  /\ e[Len(h) + 1] = <<0>>
  /\ \A i \in 1 .. Len(h) :
       e[i] = IF h[i] = DOT THEN e[i + 1]
              ELSE (<<Len(Token(h, i))>> \o Token(h, i)) \o e[Behind(h, i)]

LEMMA TokenIsShort ==
  ASSUME NEW h \in Name, Len(h) < 255, NEW i \in 1 .. Len(h), h[i] # DOT
  PROVE  /\ Len(Token(h, i)) \in 1 .. 254 /\ Len(Token(h, i)) % 256 = Len(Token(h, i))
         /\ Token(h, i) \in Seq(Octet)
         /\ Behind(h, i) \in i + 1 .. Len(h) + 1
<1>1. /\ Behind(h, i) \in i + 1 .. Len(h) + 1
      /\ Token(h, i) \in Name /\ Len(Token(h, i)) = Behind(h, i) - i
  BY TokenIs
<1>2. Len(h) \in Nat
  BY DEF Name
<1>3. Len(Token(h, i)) \in 1 .. 254
  <2> DEFINE b == Behind(h, i)
             l == Len(h)
  <2>1. b \in i + 1 .. l + 1 /\ l \in Nat /\ l < 255 /\ i \in 1 .. l
    BY <1>1, <1>2
  <2>2. Len(Token(h, i)) = b - i
    BY <1>1
  <2> HIDE DEF b, l
  <2>3. b - i \in 1 .. 254
    BY <2>1
  <2> QED
    BY <2>2, <2>3
<1>4. Token(h, i) \in Seq(Octet)
  <2>1. \A k \in 1 .. Len(Token(h, i)) : Token(h, i)[k] \in Octet
    <3>1. \A k \in 1 .. Len(Token(h, i)) : Token(h, i)[k] \in 1 .. 127
      BY <1>1, ElementOfSeq DEF Name
    <3> QED
      BY <3>1 DEF Octet
  <2>2. Len(Token(h, i)) \in Nat
    BY <1>3
  <2>3. Token(h, i) = [k \in 1 .. Len(Token(h, i)) |-> Token(h, i)[k]]
    BY <1>1 DEF Name
  <2> QED
    BY <2>1, <2>2, <2>3
<1>5. \A m \in 1 .. 254 : m % 256 = m
  OBVIOUS
<1> QED
  BY <1>1, <1>3, <1>4, <1>5

LEMMA EncodingExists ==
  ASSUME NEW h \in Name, Len(h) < 255
  PROVE  \E e : IsEncoding(e, h) /\ EncodeDnsQname(h) = e[1]
<1> DEFINE n == Len(h) + 1
           value(e, i) ==
             IF i > Len(h) THEN <<0>>
             ELSE IF h[i] = DOT THEN e[i + 1]
             ELSE <<Len(Token(h, i)) % 256>> \o Token(h, i)
                  \o e[i + Len(Token(h, i))]
           piece(i) == IF h[i] = DOT THEN <<>>
                       ELSE <<Len(Token(h, i))>> \o Token(h, i)
           stop == {n}
           base == [i \in 1 .. n |-> <<0>>]
           step == [i \in 1 .. n |-> [v \in Seq(Octet) |->
                      IF i = n THEN v ELSE piece(i) \o v]]
           next == [i \in 1 .. n |-> IF i = n THEN n
                                     ELSE IF h[i] = DOT THEN i + 1 ELSE Behind(h, i)]
<1>1. n \in Nat /\ Len(h) \in Nat /\ n >= 1 /\ 1 \in 1 .. n
  BY DEF Name
<1>2. base \in [1 .. n -> Seq(Octet)]
  <2>1. <<0>> \in Seq(Octet)
    BY DEF Octet
  <2> QED
    BY <2>1
<1>3. ASSUME NEW i \in 1 .. n, i # n
      PROVE  i \in 1 .. Len(h) /\ piece(i) \in Seq(Octet) /\ next[i] \in i + 1 .. n
  <2>1. i \in 1 .. Len(h)
    BY <1>1, <1>3
  <2>2. CASE h[i] = DOT
    BY <1>1, <2>1, <2>2
  <2>3. CASE h[i] # DOT
    <3>1. /\ Len(Token(h, i)) \in Octet /\ Token(h, i) \in Seq(Octet)
          /\ Behind(h, i) \in i + 1 .. n
      BY <2>1, <2>3, TokenIsShort DEF Octet
    <3>2. <<Len(Token(h, i))>> \in Seq(Octet)
      BY <3>1
    <3>3. <<Len(Token(h, i))>> \o Token(h, i) \in Seq(Octet)
      BY <3>1, <3>2, ConcatProperties
    <3> QED
      BY <2>1, <2>3, <3>1, <3>3
  <2> QED
    BY <2>2, <2>3
<1> HIDE DEF piece
<1>4. step \in [1 .. n -> [Seq(Octet) -> Seq(Octet)]]
  <2>1. ASSUME NEW i \in 1 .. n, NEW v \in Seq(Octet)
        PROVE  (IF i = n THEN v ELSE piece(i) \o v) \in Seq(Octet)
    BY <1>3, ConcatProperties
  <2> HIDE DEF n
  <2> QED
    BY <2>1
<1>5. /\ \A i \in 1 .. n : i \notin stop => next[i] \in i + 1 .. n
      /\ next \in [1 .. n -> Nat] /\ stop \in SUBSET (1 .. n)
  <2>1. \A i \in 1 .. n : i \notin stop => next[i] \in i + 1 .. n
    BY <1>3
  <2>2. ASSUME NEW i \in 1 .. n PROVE next[i] \in Nat
    <3>1. i # n => next[i] \in i + 1 .. n
      BY <1>3
    <3>2. i = n => next[i] = n
      OBVIOUS
    <3> HIDE DEF next, n
    <3> QED
      BY <1>1, <3>1, <3>2
  <2>3. next = [i \in 1 .. n |-> next[i]]
    OBVIOUS
  <2>4. stop \in SUBSET (1 .. n)
    BY <1>1
  <2> HIDE DEF next, n
  <2> QED
    BY <2>1, <2>2, <2>3, <2>4
<1> HIDE DEF n, base, step, next, stop
<1>6. PICK e \in [1 .. n -> Seq(Octet)] : \A i \in 1 .. n :
             e[i] = IF i \in stop THEN base[i] ELSE step[i][e[next[i]]]
  <2>1. \A i \in 1 .. n : i \notin stop => next[i] \in i + 1 .. n
    BY <1>5
  <2>2. n \in Nat /\ next \in [1 .. n -> Nat] /\ stop \in SUBSET (1 .. n)
    BY <1>1, <1>5
  <2>3. \E e : IsDefinedBy(e, n, Seq(Octet), stop, base, step, next)
    BY <1>2, <1>4, <2>1, <2>2, DefinedFromTheEnd
  <2> QED
    BY <2>3 DEF IsDefinedBy
<1>7. e[n] = <<0>>
  BY <1>1, <1>6 DEF stop, base
<1>8. ASSUME NEW i \in 1 .. Len(h)
      PROVE  e[i] = IF h[i] = DOT THEN e[i + 1]
                    ELSE (<<Len(Token(h, i))>> \o Token(h, i)) \o e[Behind(h, i)]
  <2>1. i \in 1 .. n /\ i # n
    BY <1>1 DEF n
  <2>2. next[i] \in 1 .. n
    BY <1>1, <1>3, <2>1
  <2>3. e[next[i]] \in Seq(Octet)
    BY <1>6, <2>2
  <2>4. e[i] = piece(i) \o e[next[i]]
    BY <1>6, <2>1, <2>3 DEF stop, step
  <2>5. CASE h[i] = DOT
    <3>1. next[i] = i + 1 /\ piece(i) = <<>>
      BY <2>1, <2>5 DEF next, piece
    <3>2. <<>> \o e[next[i]] = e[next[i]]
      BY <2>3, ConcatEmptySeq
    <3> QED
      BY <2>4, <2>5, <3>1, <3>2
  <2>6. CASE h[i] # DOT
    BY <2>1, <2>4, <2>6 DEF next, piece
  <2> QED
    BY <2>5, <2>6
<1>9. IsEncoding(e, h)
  BY <1>6, <1>7, <1>8 DEF IsEncoding, n
<1>10. \A i \in 1 .. n : e[i] = value(e, i)
  <2> SUFFICES ASSUME NEW i \in 1 .. n PROVE e[i] = value(e, i)
    OBVIOUS
  <2>1. CASE i = n
    BY <1>1, <1>7, <2>1 DEF n
  <2>2. CASE i # n
    <3>1. i \in 1 .. Len(h) /\ ~ (i > Len(h))
      BY <1>1, <1>3, <2>2
    <3>2. CASE h[i] = DOT
      BY <1>8, <3>1, <3>2
    <3>3. CASE h[i] # DOT
      BY <1>8, <3>1, <3>3, TokenIsShort DEF Behind
    <3> QED
      BY <3>2, <3>3
  <2> QED
    BY <2>1, <2>2
<1>11. e = [i \in 1 .. Len(h) + 1 |-> value(e, i)]
  <2> HIDE DEF value
  <2> QED
    BY <1>6, <1>10 DEF n
<1> DEFINE c == CHOOSE f : f = [i \in 1 .. Len(h) + 1 |-> value(f, i)]
<1>12. c = [i \in 1 .. Len(h) + 1 |-> value(c, i)]
  <2> HIDE DEF value
  <2> QED
    BY <1>11
<1>13. EncodeDnsQname(h) = c[1]
  BY DEF EncodeDnsQname, Encoded
<1> HIDE DEF c
\* There is no other.
<1>14. ASSUME NEW i \in 1 .. n, \A j \in i + 1 .. n : c[j] = e[j]
       PROVE  c[i] = e[i]
  <2>1. c[i] = value(c, i) /\ e[i] = value(e, i)
    <3> HIDE DEF value
    <3> QED
      BY <1>10, <1>12 DEF n
  <2>2. CASE i = n
    <3>1. i > Len(h)
      BY <1>1, <2>2 DEF n
    <3> QED
      BY <2>1, <3>1
  <2>3. CASE i # n
    <3>1. i \in 1 .. Len(h) /\ ~ (i > Len(h))
      BY <1>1, <1>3, <2>3
    <3>2. CASE h[i] = DOT
      <4>1. i + 1 \in i + 1 .. n
        BY <1>1, <2>3
      <4> QED
        BY <1>14, <2>1, <3>1, <3>2, <4>1
    <3>3. CASE h[i] # DOT
      <4>1. i + Len(Token(h, i)) \in i + 1 .. n
        BY <3>1, <3>3, TokenIsShort DEF Behind, n
      <4> QED
        BY <1>14, <2>1, <3>1, <3>3, <4>1
    <3> QED
      BY <3>2, <3>3
  <2> QED
    BY <2>2, <2>3
<1>15. c[1] = e[1]
  <2> DEFINE S == {i \in 1 .. n : c[i] = e[i]}
  <2>1. \A i \in 1 .. n : (\A j \in i + 1 .. n : j \in S) => i \in S
    BY <1>14
  <2> HIDE DEF S
  <2>2. 1 .. n \subseteq S
    BY <1>1, <2>1, FromTheEnd
  <2> QED
    BY <1>1, <2>2 DEF S
<1> QED
  BY <1>9, <1>13, <1>15

\* The encoding from a place on is as long as the text from there, with a
\* length and a zero, and starts with a zero just if there is no text.
LEMMA EncodingLength ==
  ASSUME NEW h \in Name, Len(h) < 255, NEW e, IsEncoding(e, h),
         NEW i \in 1 .. Len(h) + 1
  PROVE  /\ e[i] \in Seq(Octet) /\ Len(e[i]) >= 1
         /\ Len(e[i]) = IF TextFrom(h, i) = <<>> THEN 1 ELSE Len(TextFrom(h, i)) + 2
         /\ e[i][1] = 0 <=> TextFrom(h, i) = <<>>
<1> DEFINE n == Len(h) + 1
           Fits1(j) == /\ Len(e[j]) = IF TextFrom(h, j) = <<>> THEN 1
                                      ELSE Len(TextFrom(h, j)) + 2
                       /\ e[j][1] = 0 <=> TextFrom(h, j) = <<>>
           S == {j \in 1 .. n : Fits1(j)}
<1>1. n \in Nat /\ Len(h) \in Nat
  BY DEF Name
<1>2. ASSUME NEW j \in 1 .. n PROVE e[j] \in Seq(Octet)
  BY <1>2 DEF IsEncoding
<1>3. ASSUME NEW j \in 1 .. n, \A k \in j + 1 .. n : k \in S PROVE j \in S
  <2>1. CASE j = n
    <3>1. e[n] = <<0>> /\ TextFrom(h, n) = <<>>
      BY NormalIs DEF IsEncoding
    <3>2. Len(e[n]) = 1 /\ e[n][1] = 0
      BY <3>1
    <3> HIDE DEF n
    <3> QED
      BY <2>1, <3>1, <3>2
  <2>2. CASE j # n
    <3>1. j \in 1 .. Len(h)
      BY <1>1, <2>2
    <3>2. CASE h[j] = DOT
      <4>1. e[j] = e[j + 1] /\ TextFrom(h, j) = TextFrom(h, j + 1)
        BY <3>1, <3>2, DotIsSkipped DEF IsEncoding
      <4>2. j + 1 \in S
        BY <1>1, <1>3, <3>1
      <4> HIDE DEF n
      <4> QED
        BY <4>1, <4>2
    <3>3. CASE h[j] # DOT
      <4> DEFINE b == Behind(h, j)
                 t == Token(h, j)
                 rest == TextFrom(h, b)
                 dot == IF rest = <<>> THEN <<>> ELSE <<DOT>>
      <4>1. /\ Len(t) \in 1 .. 254 /\ t \in Seq(Octet) /\ b \in j + 1 .. n
        BY <3>1, <3>3, TokenIsShort
      <4>21. PICK l \in 1 .. 254 : l = Len(t)
        BY <4>1
      <4>22. l \in Nat /\ l >= 1 /\ l # 0 /\ l \in Octet
        BY DEF Octet
      <4>2. e[j] = (<<l>> \o t) \o e[b]
        BY <3>1, <3>3, <4>21 DEF IsEncoding
      <4>3. TextFrom(h, j) = t \o (dot \o rest)
        BY <3>1, <3>3, TokenIsKept
      <4>4. b \in S /\ b \in 1 .. n
        BY <1>1, <1>3, <4>1
      <4>5. e[b] \in Seq(Octet) /\ rest \in Name
        BY <1>2, <4>4, TextType
      <4>6. t \in Name
        BY <3>1, <3>3, TokenIs
      <4>7. Len(e[b]) = IF rest = <<>> THEN 1 ELSE Len(rest) + 2
        BY <4>4
      <4> HIDE DEF b, t, rest, n
      <4>8. dot \in Name /\ Len(dot) = IF rest = <<>> THEN 0 ELSE 1
        <5>1. <<>> \in Name /\ <<DOT>> \in Name /\ Len(<<>>) = 0 /\ Len(<<DOT>>) = 1
          BY DEF Name, DOT
        <5> QED
          BY <5>1
      <4> HIDE DEF dot
      <4>9. /\ Len(dot \o rest) = Len(dot) + Len(rest)
            /\ dot \o rest \in Name
        BY <4>5, <4>8, ConcatProperties DEF Name
      <4>10. Len(t \o (dot \o rest)) = l + Len(dot \o rest)
        BY <4>21, <4>6, <4>9, ConcatProperties DEF Name
      <4>11. /\ <<l>> \in Seq(Octet) /\ Len(<<l>>) = 1 /\ <<l>>[1] = l
        BY <4>22
      <4> DEFINE p == <<l>> \o t
      <4>12. /\ p \in Seq(Octet) /\ Len(p) = 1 + l /\ p[1] = l
        <5>1. p \in Seq(Octet) /\ Len(p) = Len(<<l>>) + Len(t)
          BY <4>1, <4>11, ConcatProperties
        <5>2. \A k \in 1 .. Len(<<l>>) + Len(t) :
                p[k] = IF k <= Len(<<l>>) THEN <<l>>[k] ELSE t[k - Len(<<l>>)]
          BY <4>1, <4>11, ConcatProperties
        <5>3. 1 \in 1 .. 1 + l
          BY <4>22
        <5> HIDE DEF p
        <5> QED
          BY <4>21, <4>11, <5>1, <5>2, <5>3
      <4> HIDE DEF p
      <4> DEFINE q == e[b]
      <4>23. q \in Seq(Octet) /\ Len(q) \in Nat
        BY <4>5
      <4> HIDE DEF q
      <4>13. /\ Len(p \o q) = Len(p) + Len(q) /\ (p \o q)[1] = p[1]
        <5>1. Len(p \o q) = Len(p) + Len(q)
          BY <4>23, <4>12, ConcatProperties
        <5>2. \A k \in 1 .. Len(p) + Len(q) :
                (p \o q)[k] = IF k <= Len(p) THEN p[k] ELSE q[k - Len(p)]
          BY <4>23, <4>12, ConcatProperties
        <5>3. 1 \in 1 .. Len(p) + Len(q) /\ 1 <= Len(p)
          BY <4>23, <4>22, <4>12
        <5> QED
          BY <5>1, <5>2, <5>3
      <4>14. e[j] = p \o q
        BY <4>2 DEF p, q
      <4>15. /\ Len(e[j]) = 1 + l + Len(q) /\ e[j][1] # 0
        BY <4>23, <4>22, <4>12, <4>13, <4>14
      <4>16. Len(TextFrom(h, j)) = l + (Len(dot) + Len(rest))
        BY <4>3, <4>9, <4>10
      <4>17. rest = <<>> => Len(rest) = 0
        OBVIOUS
      <4>18. Len(rest) \in Nat
        BY <4>5 DEF Name
      <4>19. Len(TextFrom(h, j)) >= 1 /\ TextFrom(h, j) # <<>>
        <5>1. Len(TextFrom(h, j)) >= 1
          <6>1. Len(dot) \in Nat
            BY <4>8
          <6> QED
            BY <4>22, <4>16, <4>18, <6>1
        <5> QED
          BY <5>1
      <4>20. Len(e[j]) = Len(TextFrom(h, j)) + 2
        <5>1. Len(q) = IF rest = <<>> THEN 1 ELSE Len(rest) + 2
          BY <4>7 DEF q
        <5> QED
          <6>1. CASE rest = <<>>
            <7>1. Len(q) = 1 /\ Len(dot) = 0 /\ Len(rest) = 0
              BY <4>8, <4>17, <5>1, <6>1
            <7>2. Len(e[j]) = l + 2 /\ Len(TextFrom(h, j)) = l
              BY <4>22, <4>15, <4>16, <7>1
            <7> QED
              BY <7>2
          <6>2. CASE rest # <<>>
            <7>1. Len(q) = Len(rest) + 2 /\ Len(dot) = 1
              BY <4>8, <5>1, <6>2
            <7> QED
              BY <4>22, <4>15, <4>16, <4>18, <7>1
          <6> QED
            BY <6>1, <6>2
      <4> QED
        BY <4>15, <4>19, <4>20
    <3> QED
      BY <3>2, <3>3
  <2> QED
    BY <2>1, <2>2
<1>4. i \in S
  <2> HIDE DEF S
  <2>1. 1 .. n \subseteq S
    BY <1>1, <1>3, FromTheEnd
  <2> QED
    BY <2>1
<1>5. TextFrom(h, i) \in Name
  BY TextType
<1>6. Len(e[i]) >= 1
  <2>1. Len(TextFrom(h, i)) \in Nat
    BY <1>5 DEF Name
  <2> QED
    BY <1>4, <2>1
<1> QED
  BY <1>2, <1>4, <1>6

\* A name's only zero is its last octet.
EndsInZero(s) == s[Len(s)] = 0 /\ \A k \in 1 .. Len(s) - 1 : s[k] # 0

LEMMA EndsBehind ==
  ASSUME NEW p \in Seq(Octet), NEW q \in Seq(Octet), Len(q) >= 1,
         \A k \in 1 .. Len(p) : p[k] # 0, EndsInZero(q)
  PROVE  EndsInZero(p \o q)
<1> DEFINE a == Len(p)
           b == Len(q)
<1>1. a \in Nat /\ b \in Nat /\ b >= 1
  OBVIOUS
<1>2. Len(p \o q) = a + b
  BY ConcatProperties
<1>3. \A k \in 1 .. a + b : (p \o q)[k] = IF k <= a THEN p[k] ELSE q[k - a]
  BY ConcatProperties
<1>4. (\A k \in 1 .. a : p[k] # 0) /\ q[b] = 0 /\ \A k \in 1 .. b - 1 : q[k] # 0
  BY DEF EndsInZero
<1> HIDE DEF a, b
<1>5. (p \o q)[a + b] = 0
  <2>1. a + b \in 1 .. a + b /\ ~ (a + b <= a) /\ (a + b) - a = b
    BY <1>1
  <2> QED
    BY <1>3, <1>4, <2>1
<1>6. ASSUME NEW k \in 1 .. (a + b) - 1 PROVE (p \o q)[k] # 0
  <2>1. k \in 1 .. a + b
    BY <1>1
  <2>2. CASE k <= a
    <3>1. k \in 1 .. a
      BY <1>1, <2>2
    <3> QED
      BY <1>3, <1>4, <2>1, <2>2, <3>1
  <2>3. CASE ~ (k <= a)
    <3>1. k - a \in 1 .. b - 1
      BY <1>1, <2>3
    <3> QED
      BY <1>3, <1>4, <2>1, <2>3, <3>1
  <2> QED
    BY <2>2, <2>3
<1> QED
  BY <1>2, <1>5, <1>6 DEF EndsInZero

LEMMA EncodingEnds ==
  ASSUME NEW h \in Name, Len(h) < 255, NEW e, IsEncoding(e, h)
  PROVE  EndsInZero(e[1])
<1> DEFINE n == Len(h) + 1
           S == {j \in 1 .. n : EndsInZero(e[j])}
<1>1. n \in Nat /\ Len(h) \in Nat
  BY DEF Name
<1>2. ASSUME NEW j \in 1 .. n, \A k \in j + 1 .. n : k \in S PROVE j \in S
  <2>1. CASE j = n
    <3>1. e[n] = <<0>>
      BY DEF IsEncoding
    <3>2. EndsInZero(<<0>>)
      BY DEF EndsInZero
    <3> QED
      BY <2>1, <3>1, <3>2
  <2>2. CASE j # n
    <3>1. j \in 1 .. Len(h)
      BY <1>1, <2>2
    <3>2. CASE h[j] = DOT
      <4>1. e[j] = e[j + 1]
        BY <3>1, <3>2 DEF IsEncoding
      <4>2. j + 1 \in S
        BY <1>1, <1>2, <3>1
      <4> QED
        BY <4>1, <4>2
    <3>3. CASE h[j] # DOT
      <4> DEFINE b == Behind(h, j)
                 t == Token(h, j)
                 l == Len(t)
                 p == <<l>> \o t
      <4>1. l \in 1 .. 254 /\ t \in Seq(Octet) /\ b \in j + 1 .. n
        BY <3>1, <3>3, TokenIsShort
      <4>2. e[j] = p \o e[b]
        BY <3>1, <3>3 DEF IsEncoding
      <4>3. b \in S /\ b \in 1 .. n
        BY <1>1, <1>2, <4>1
      <4>4. e[b] \in Seq(Octet) /\ Len(e[b]) >= 1
        BY <4>3, EncodingLength
      <4>5. \A k \in 1 .. l : t[k] # 0
        <5>1. t \in Seq(1 .. 127)
          BY <3>1, <3>3, TokenIs DEF Name
        <5>2. \A k \in 1 .. l : t[k] \in 1 .. 127
          BY <5>1, ElementOfSeq
        <5>3. \A m \in 1 .. 127 : m # 0
          OBVIOUS
        <5> HIDE DEF t, l
        <5> QED
          BY <5>2, <5>3, Zenon
      <4>7. Len(t) = l
        OBVIOUS
      <4> HIDE DEF b, t, l
      <4>6. l \in Octet /\ l # 0 /\ l \in Nat
        BY <4>1 DEF Octet
      <4>8. <<l>> \in Seq(Octet) /\ Len(<<l>>) = 1 /\ <<l>>[1] = l
        BY <4>6
      <4>9. p \in Seq(Octet) /\ Len(p) = 1 + l
        BY <4>1, <4>7, <4>8, ConcatProperties
      <4>10. ASSUME NEW k \in 1 .. 1 + l PROVE p[k] # 0
        <5>1. p[k] = IF k <= 1 THEN <<l>>[k] ELSE t[k - 1]
          BY <4>1, <4>7, <4>8, ConcatProperties
        <5>2. CASE k = 1
          BY <4>6, <4>8, <5>1, <5>2
        <5>3. CASE k # 1
          <6>1. k - 1 \in 1 .. l /\ ~ (k <= 1)
            BY <4>6, <5>3
          <6> QED
            BY <4>5, <5>1, <6>1
        <5> QED
          BY <5>2, <5>3
      <4> HIDE DEF p
      <4>11. \A k \in 1 .. Len(p) : p[k] # 0
        BY <4>9, <4>10
      <4>12. EndsInZero(e[b])
        BY <4>3
      <4> QED
        BY <4>2, <4>4, <4>9, <4>11, <4>12, EndsBehind
    <3> QED
      BY <3>2, <3>3
  <2> QED
    BY <2>1, <2>2
<1>3. 1 .. n \subseteq S
  <2> HIDE DEF S
  <2> QED
    BY <1>1, <1>2, FromTheEnd
<1>4. 1 \in 1 .. n
  BY <1>1
<1> QED
  BY <1>3, <1>4

-----------------------------------------------------------------------------
(* The decoding of what was encoded, whatever is behind it.                 *)

\* what is read of the bytes from a place on, given what is read of the rest
ReadPart(data, r, i, next) ==
  LET rest == r[next]
      dot  == IF next \in DOMAIN data /\ data[next] # 0 THEN <<DOT>> ELSE <<>>
  IN  [length |-> rest.length,
       text   |-> SubSeq(data, i + 1, Min({next - 1, Len(data)})) \o dot \o rest.text]

ReadFrom(data, r, i) ==
  IF i > Len(data) \/ data[i] = 0 THEN [length |-> i, text |-> <<>>]
  ELSE ReadPart(data, r, i, i + 1 + data[i])

IsReading(r, data) == r = [i \in 1 .. Len(data) + 256 |-> ReadFrom(data, r, i)]

LEMMA MinOfTwo ==
  ASSUME NEW a \in Nat, NEW b \in Nat, a <= b
  PROVE  Min({a, b}) = a
<1>1. {a, b} \in SUBSET Nat /\ {a, b} # {}
  OBVIOUS
<1>2. Min({a, b}) \in {a, b} /\ \A n \in {a, b} : Min({a, b}) <= n
  BY <1>1, LeastIn
<1> DEFINE m == Min({a, b})
<1>3. m \in {a, b} /\ m <= a
  BY <1>2
<1> HIDE DEF m
<1>4. m = a
  BY <1>3
<1> QED
  BY <1>4 DEF m

LEMMA NameIsBytes ==
  ASSUME NEW h \in Name
  PROVE  h \in Seq(Octet)
<1>1. \A k \in 1 .. Len(h) : h[k] \in Octet
  <2>1. \A k \in 1 .. Len(h) : h[k] \in 1 .. 127
    BY ElementOfSeq DEF Name
  <2> QED
    BY <2>1 DEF Octet
<1>2. Len(h) \in Nat /\ h = [k \in 1 .. Len(h) |-> h[k]]
  BY DEF Name
<1> QED
  BY <1>1, <1>2

LEMMA SubSeqType ==
  ASSUME NEW S, NEW s \in Seq(S), NEW a \in 1 .. Len(s) + 1, NEW b \in 0 .. Len(s)
  PROVE  SubSeq(s, a, b) \in Seq(S)
<1>1. \A i \in a .. b : s[i] \in S
  <2>1. \A i \in a .. b : i \in 1 .. Len(s)
    OBVIOUS
  <2> QED
    BY <2>1, ElementOfSeq
<1> QED
  BY <1>1, SubSeqProperties

Reading == [length : Nat, text : Seq(Octet)]

LEMMA ReadFromType ==
  ASSUME NEW data \in Seq(Octet), NEW i \in 1 .. Len(data) + 256, NEW r,
         ~ (i > Len(data) \/ data[i] = 0) => r[i + 1 + data[i]] \in Reading
  PROVE  /\ ReadFrom(data, r, i) \in Reading
         /\ ~ (i > Len(data) \/ data[i] = 0) =>
              i + 1 + data[i] \in i + 1 .. Len(data) + 256
<1>1. Len(data) \in Nat /\ i \in Nat
  OBVIOUS
<1>2. CASE i > Len(data) \/ data[i] = 0
  <2>1. [length |-> i, text |-> <<>>] \in Reading
    BY <1>1, EmptySeq DEF Reading
  <2> QED
    BY <1>2, <2>1 DEF ReadFrom
<1>3. CASE ~ (i > Len(data) \/ data[i] = 0)
  <2> DEFINE next == i + 1 + data[i]
             rest == r[next]
             dot  == IF next \in DOMAIN data /\ data[next] # 0 THEN <<DOT>> ELSE <<>>
             m == Min({next - 1, Len(data)})
  <2>1. i \in 1 .. Len(data)
    BY <1>1, <1>3
  <2>2. data[i] \in 0 .. 255
    BY <2>1, ElementOfSeq DEF Octet
  <2>3. next \in i + 1 .. Len(data) + 256 /\ next - 1 \in Nat
    <3> DEFINE d == data[i]
               l == Len(data)
    <3>1. d \in 0 .. 255 /\ l \in Nat /\ i \in 1 .. l /\ next = i + 1 + d
      BY <1>1, <2>1, <2>2
    <3> HIDE DEF d, l, next
    <3>2. next \in i + 1 .. l + 256 /\ next - 1 \in Nat
      BY <3>1
    <3> QED
      BY <3>2 DEF l
  <2>4. rest \in Reading
    BY <1>3
  <2>5. dot \in Seq(Octet)
    <3>1. <<>> \in Seq(Octet) /\ <<DOT>> \in Seq(Octet)
      BY DEF Octet, DOT
    <3> QED
      BY <3>1
  <2> HIDE DEF next, rest, dot
  <2>6. m \in 0 .. Len(data)
    <3>1. {next - 1, Len(data)} \in SUBSET Nat /\ {next - 1, Len(data)} # {}
      BY <1>1, <2>3
    <3>2. m \in {next - 1, Len(data)} /\ m <= Len(data)
      BY <3>1, LeastIn
    <3> HIDE DEF m
    <3> QED
      BY <1>1, <2>3, <3>2
  <2> HIDE DEF m
  <2> DEFINE p == SubSeq(data, i + 1, m)
  <2>7. p \in Seq(Octet)
    <3>1. i + 1 \in 1 .. Len(data) + 1
      BY <1>1, <2>1
    <3> QED
      BY <2>6, <3>1, SubSeqType
  <2> HIDE DEF p
  <2>8. rest.length \in Nat /\ rest.text \in Seq(Octet)
    BY <2>4 DEF Reading
  <2>9. p \o dot \o rest.text \in Seq(Octet)
    BY <2>5, <2>7, <2>8, ConcatProperties
  <2>10. [length |-> rest.length, text |-> p \o dot \o rest.text] \in Reading
    BY <2>8, <2>9 DEF Reading
  <2>11. ReadFrom(data, r, i)
           = [length |-> rest.length, text |-> p \o dot \o rest.text]
    BY <1>3 DEF ReadFrom, ReadPart, p, m, dot, rest, next
  <2> QED
    BY <1>3, <2>3, <2>10, <2>11 DEF next
<1> QED
  BY <1>2, <1>3

LEMMA ReadingExists ==
  ASSUME NEW data \in Seq(Octet)
  PROVE  \E r : IsReading(r, data) /\ DecodeDnsQname(data) = r[1]
<1> DEFINE n == Len(data) + 256
           stop == {i \in 1 .. n : i > Len(data) \/ data[i] = 0}
           none == [length |-> 0, text |-> <<>>]
           base == [i \in 1 .. n |-> [length |-> i, text |-> <<>>]]
           given(i, v) == [k \in {i + 1 + data[i]} |-> v]
           step == [i \in 1 .. n |-> [v \in Reading |->
                      IF i \in stop THEN v ELSE ReadFrom(data, given(i, v), i)]]
           next == [i \in 1 .. n |-> IF i \in stop THEN i ELSE i + 1 + data[i]]
<1>1. n \in Nat /\ Len(data) \in Nat
  OBVIOUS
<1>2. base \in [1 .. n -> Reading]
  BY EmptySeq DEF Reading
<1>3. ASSUME NEW i \in 1 .. n, i \notin stop, NEW v \in Reading
      PROVE  /\ ReadFrom(data, given(i, v), i) \in Reading
             /\ i + 1 + data[i] \in i + 1 .. n
  <2>1. given(i, v)[i + 1 + data[i]] = v
    OBVIOUS
  <2>2. ~ (i > Len(data) \/ data[i] = 0)
    BY <1>3
  <2> HIDE DEF given
  <2> QED
    BY <1>3, <2>1, <2>2, ReadFromType
<1>4. step \in [1 .. n -> [Reading -> Reading]]
  <2>1. ASSUME NEW i \in 1 .. n, NEW v \in Reading
        PROVE  (IF i \in stop THEN v ELSE ReadFrom(data, given(i, v), i)) \in Reading
    <3> HIDE DEF stop, given, n
    <3> QED
      BY <1>3
  <2> HIDE DEF n, stop, given
  <2> QED
    BY <2>1
<1>5. ASSUME NEW i \in 1 .. n PROVE /\ i \notin stop => next[i] \in i + 1 .. n
                                    /\ next[i] \in Nat
  <2>1. CASE i \in stop
    BY <1>1, <2>1
  <2>2. CASE i \notin stop
    <3>1. none \in Reading
      BY EmptySeq DEF Reading
    <3>2. i + 1 + data[i] \in i + 1 .. n
      BY <1>3, <2>2, <3>1
    <3>3. next[i] = i + 1 + data[i]
      BY <2>2
    <3> HIDE DEF next, n, stop
    <3> QED
      BY <2>2, <3>2, <3>3
  <2> QED
    BY <2>1, <2>2
<1>6. PICK r : IsDefinedBy(r, n, Reading, stop, base, step, next)
  <2>1. next \in [1 .. n -> Nat]
    <3>1. next = [i \in 1 .. n |-> next[i]]
      OBVIOUS
    <3> HIDE DEF next, n
    <3> QED
      BY <1>5, <3>1
  <2>2. stop \in SUBSET (1 .. n)
    OBVIOUS
  <2>3. \A i \in 1 .. n : i \notin stop => next[i] \in i + 1 .. n
    BY <1>5
  <2> HIDE DEF n, stop, base, step, next
  <2> QED
    BY <1>1, <1>2, <1>4, <2>1, <2>2, <2>3, DefinedFromTheEnd
<1>7. ASSUME NEW i \in 1 .. n PROVE r[i] = ReadFrom(data, r, i)
  <2>1. CASE i \in stop
    <3>1. r[i] = base[i]
      BY <1>6, <2>1 DEF IsDefinedBy
    <3> QED
      BY <2>1, <3>1 DEF ReadFrom
  <2>2. CASE i \notin stop
    <3> DEFINE v == r[next[i]]
    <3>1. next[i] = i + 1 + data[i] /\ next[i] \in 1 .. n
      <4>1. next[i] \in i + 1 .. n /\ i \in 1 .. n
        BY <1>5, <2>2
      <4>2. next[i] = i + 1 + data[i]
        BY <2>2
      <4> HIDE DEF next, n
      <4> QED
        BY <1>1, <4>1, <4>2
    <3>2. v \in Reading
      <4> HIDE DEF next, n, stop, base, step
      <4> QED
        BY <1>6, <3>1 DEF IsDefinedBy
    <3>3. r[i] = step[i][v]
      <4> HIDE DEF next, n, stop, base, step
      <4> QED
        BY <1>6, <2>2 DEF IsDefinedBy
    <3>4. step[i][v] = ReadFrom(data, given(i, v), i)
      <4> HIDE DEF v, given, n, stop
      <4> QED
        BY <2>2, <3>2
    <3>5. given(i, v)[i + 1 + data[i]] = r[i + 1 + data[i]]
      BY <3>1
    <3>6. ReadFrom(data, given(i, v), i) = ReadFrom(data, r, i)
      <4> HIDE DEF given
      <4> QED
        BY <3>5 DEF ReadFrom, ReadPart
    <3> QED
      BY <3>3, <3>4, <3>6
  <2> QED
    BY <2>1, <2>2
<1>8. IsReading(r, data)
  <2>1. DOMAIN r = 1 .. n /\ r = [i \in 1 .. n |-> r[i]]
    <3> HIDE DEF n, stop, base, step, next
    <3> QED
      BY <1>6 DEF IsDefinedBy
  <2> HIDE DEF stop, base, step, next
  <2> QED
    BY <1>7, <2>1 DEF IsReading
<1> DEFINE c == CHOOSE f : IsReading(f, data)
<1>9. IsReading(c, data)
  BY <1>8
<1>10. DecodeDnsQname(data) = c[1]
  BY DEF DecodeDnsQname, IsReading, ReadFrom, ReadPart
<1> HIDE DEF c
<1> QED
  BY <1>9, <1>10

\* The bytes from a place of the name on are at some place of the data.
IsAt(code, data, at) ==
  \A k \in 1 .. Len(code) : at + k <= Len(data) /\ data[at + k] = code[k]

\* Where a piece of the code is, if all of it is there.
LEMMA PieceIsAt ==
  ASSUME NEW p \in Seq(Octet), NEW q \in Seq(Octet), NEW data \in Seq(Octet),
         NEW at \in Nat, IsAt(p \o q, data, at)
  PROVE  IsAt(p, data, at) /\ IsAt(q, data, at + Len(p))
<1> DEFINE a == Len(p)
           b == Len(q)
<1>1. a \in Nat /\ b \in Nat
  OBVIOUS
<1>2. Len(p \o q) = a + b
  BY ConcatProperties
<1>3. \A k \in 1 .. a + b : (p \o q)[k] = IF k <= a THEN p[k] ELSE q[k - a]
  BY ConcatProperties
<1>4. \A k \in 1 .. a + b : at + k <= Len(data) /\ data[at + k] = (p \o q)[k]
  BY <1>2 DEF IsAt
<1> HIDE DEF a, b
<1>5. ASSUME NEW k \in 1 .. a PROVE at + k <= Len(data) /\ data[at + k] = p[k]
  <2>1. k \in 1 .. a + b /\ k <= a
    BY <1>1
  <2> QED
    BY <1>3, <1>4, <2>1
<1>6. ASSUME NEW k \in 1 .. b
      PROVE  (at + a) + k <= Len(data) /\ data[(at + a) + k] = q[k]
  <2>1. /\ a + k \in 1 .. a + b /\ ~ (a + k <= a) /\ (a + k) - a = k
        /\ at + (a + k) = (at + a) + k
    BY <1>1
  <2>2. at + (a + k) <= Len(data) /\ data[at + (a + k)] = (p \o q)[a + k]
    BY <1>4, <2>1
  <2>3. (p \o q)[a + k] = q[k]
    BY <1>3, <2>1
  <2> QED
    BY <2>1, <2>2, <2>3
<1> QED
  BY <1>5, <1>6 DEF IsAt, a, b

LEMMA ConcatIsAssociative ==
  ASSUME NEW s \in Seq(Octet), NEW t \in Seq(Octet), NEW u \in Seq(Octet)
  PROVE  (s \o t) \o u = s \o (t \o u)
BY ConcatAssociative

\* decode_dns_qname() reads back what encode_dns_qname() wrote.
LEMMA DecodedFrom ==
  ASSUME NEW h \in Name, Len(h) < 255, NEW e, IsEncoding(e, h),
         NEW data \in Seq(Octet), NEW r, IsReading(r, data),
         NEW i \in 1 .. Len(h) + 1, NEW at \in Nat, IsAt(e[i], data, at)
  PROVE  r[at + 1] = [length |-> at + Len(e[i]), text |-> TextFrom(h, i)]
<1> DEFINE n == Len(h) + 1
           m == Len(data)
           ReadsOn(j) == \A o \in Nat : IsAt(e[j], data, o) =>
                          r[o + 1] = [length |-> o + Len(e[j]),
                                      text |-> TextFrom(h, j)]
           S == {j \in 1 .. n : ReadsOn(j)}
<1>1. n \in Nat /\ Len(h) \in Nat /\ m \in Nat
  BY DEF Name
<1>2. ASSUME NEW j \in 1 .. n, NEW o \in Nat, IsAt(e[j], data, o)
      PROVE  /\ o + 1 \in 1 .. m /\ data[o + 1] = e[j][1]
             /\ r[o + 1] = ReadFrom(data, r, o + 1)
  <2>1. Len(e[j]) >= 1 /\ e[j] \in Seq(Octet)
    BY EncodingLength
  <2>2. 1 \in 1 .. Len(e[j])
    BY <2>1
  <2>3. o + 1 <= m /\ data[o + 1] = e[j][1]
    BY <1>2, <2>2 DEF IsAt
  <2>4. o + 1 \in 1 .. m /\ o + 1 \in 1 .. m + 256
    BY <1>1, <2>3
  <2>5. r[o + 1] = ReadFrom(data, r, o + 1)
    BY <2>4 DEF IsReading
  <2> QED
    BY <2>3, <2>4, <2>5
<1>3. ASSUME NEW j \in 1 .. n, \A k \in j + 1 .. n : k \in S,
             NEW o \in Nat, IsAt(e[j], data, o)
      PROVE  r[o + 1] = [length |-> o + Len(e[j]), text |-> TextFrom(h, j)]
  <2>1. CASE j = n
    <3>1. e[n] = <<0>> /\ TextFrom(h, n) = <<>>
      BY NormalIs DEF IsEncoding
    <3>2. data[o + 1] = 0 /\ Len(e[j]) = 1
      <4>1. e[j] = <<0>> /\ <<0>>[1] = 0 /\ Len(<<0>>) = 1
        BY <2>1, <3>1
      <4>2. data[o + 1] = e[j][1]
        BY <1>2, <1>3
      <4> HIDE DEF n
      <4> QED
        BY <4>1, <4>2
    <3>3. ReadFrom(data, r, o + 1) = [length |-> o + 1, text |-> <<>>]
      BY <3>2 DEF ReadFrom
    <3> HIDE DEF n
    <3> QED
      BY <1>2, <1>3, <2>1, <3>1, <3>2, <3>3
  <2>2. CASE j # n
    <3>1. j \in 1 .. Len(h)
      BY <1>1, <2>2
    <3>2. CASE h[j] = DOT
      <4>1. e[j] = e[j + 1] /\ TextFrom(h, j) = TextFrom(h, j + 1)
        BY <3>1, <3>2, DotIsSkipped DEF IsEncoding
      <4>2. j + 1 \in S
        BY <1>1, <1>3, <3>1
      <4> HIDE DEF n
      <4> QED
        BY <1>3, <4>1, <4>2
    <3>3. CASE h[j] # DOT
      <4> DEFINE b == Behind(h, j)
                 t == Token(h, j)
                 rest == TextFrom(h, b)
                 dot == IF rest = <<>> THEN <<>> ELSE <<DOT>>
                 q == e[b]
      <4>1. /\ Len(t) \in 1 .. 254 /\ t \in Seq(Octet) /\ b \in j + 1 .. n
        BY <3>1, <3>3, TokenIsShort
      <4>2. PICK l \in 1 .. 254 : l = Len(t)
        BY <4>1
      <4>3. l \in Nat /\ l >= 1 /\ l # 0 /\ l \in Octet
        BY DEF Octet
      <4>4. e[j] = (<<l>> \o t) \o q
        BY <3>1, <3>3, <4>2 DEF IsEncoding
      <4>5. TextFrom(h, j) = t \o (dot \o rest)
        BY <3>1, <3>3, TokenIsKept
      <4>6. b \in S /\ b \in 1 .. n
        BY <1>1, <1>3, <4>1
      <4>7. q \in Seq(Octet) /\ Len(q) >= 1 /\ (q[1] = 0 <=> rest = <<>>)
        BY <4>6, EncodingLength
      <4>8. rest \in Name
        BY <4>6, TextType
      <4>9. t \in Name
        BY <3>1, <3>3, TokenIs
      <4>10. ReadsOn(b)
        BY <4>6
      <4> HIDE DEF b, t, rest, n, q
      <4>11. <<l>> \in Seq(Octet) /\ Len(<<l>>) = 1 /\ <<l>>[1] = l
        BY <4>3
      <4> DEFINE p == <<l>> \o t
      <4>12. p \in Seq(Octet) /\ Len(p) = 1 + l
        BY <4>1, <4>2, <4>11, ConcatProperties
      <4>13. IsAt(p, data, o) /\ IsAt(q, data, o + Len(p))
        BY <1>3, <4>4, <4>7, <4>12, PieceIsAt
      <4>14. IsAt(<<l>>, data, o) /\ IsAt(t, data, o + Len(<<l>>))
        BY <4>1, <4>11, <4>13, PieceIsAt
      <4>15. o + 1 <= m /\ data[o + 1] = l
        <5>1. 1 \in 1 .. Len(<<l>>)
          BY <4>11
        <5> QED
          BY <4>11, <4>14, <5>1 DEF IsAt
      <4>16. \A k \in 1 .. l : (o + 1) + k <= m /\ data[(o + 1) + k] = t[k]
        BY <4>2, <4>11, <4>14 DEF IsAt
      <4> HIDE DEF p
      <4> DEFINE a == o + 1 + l
      <4>17. a \in Nat /\ IsAt(q, data, a) /\ a <= m
        <5>1. o + Len(p) = a /\ a \in Nat
          BY <4>3, <4>12
        <5>2. (o + 1) + l <= m
          BY <4>3, <4>16
        <5> HIDE DEF a
        <5> QED
          BY <4>13, <5>1, <5>2 DEF a
      <4>18. r[a + 1] = [length |-> a + Len(q), text |-> rest]
        <5> HIDE DEF a
        <5> QED
          BY <4>10, <4>17 DEF q, rest
      <4>19. a + 1 \in DOMAIN data /\ (data[a + 1] = 0 <=> rest = <<>>)
        <5>1. 1 \in 1 .. Len(q)
          BY <4>7
        <5> HIDE DEF a
        <5>2. a + 1 <= m /\ data[a + 1] = q[1]
          BY <4>17, <5>1 DEF IsAt
        <5>3. a + 1 \in 1 .. m
          BY <1>1, <4>17, <5>2
        <5> QED
          BY <4>7, <5>2, <5>3
      <4>20. SubSeq(data, o + 2, a) = t
        <5>1. o + 2 \in Int /\ a \in Int /\ a - (o + 2) + 1 = l /\ o + 2 <= a
          BY <4>3
        <5>2. \A k \in o + 2 .. a : data[k] \in Octet
          <6>1. \A k \in o + 2 .. a : k \in 1 .. m
            <7> HIDE DEF a
            <7> QED
              BY <1>1, <4>17
          <6> QED
            BY <6>1, ElementOfSeq
        <5> DEFINE f == SubSeq(data, o + 2, a)
        <5>3. f \in Seq(Octet) /\ Len(f) = a - (o + 2) + 1
          BY <5>1, <5>2, SubSeqProperties
        <5>4. \A k \in 1 .. a - (o + 2) + 1 : f[k] = data[(o + 2) + k - 1]
          BY <5>1, <5>2, SubSeqProperties
        <5> HIDE DEF a, f
        <5>5. \A k \in 1 .. l : (o + 2) + k - 1 = (o + 1) + k
          BY <4>3
        <5>6. \A k \in 1 .. l : f[k] = t[k]
          BY <4>16, <5>1, <5>4, <5>5
        <5>7. f = t
          BY <4>1, <4>2, <5>1, <5>3, <5>6
        <5> QED
          BY <5>7 DEF f
      <4>21. Min({a, m}) = a
        <5> HIDE DEF a
        <5> QED
          BY <1>1, <4>17, MinOfTwo
      <4>22. dot \in Seq(Octet)
        <5>1. <<>> \in Seq(Octet) /\ <<DOT>> \in Seq(Octet)
          BY DEF Octet, DOT
        <5> QED
          BY <5>1
      <4>23. dot = IF a + 1 \in DOMAIN data /\ data[a + 1] # 0 THEN <<DOT>> ELSE <<>>
        BY <4>19
      <4>24. ReadFrom(data, r, o + 1)
               = [length |-> a + Len(q), text |-> SubSeq(data, o + 2, a) \o dot \o rest]
        <5>1. ~ (o + 1 > Len(data) \/ data[o + 1] = 0)
          BY <1>1, <4>3, <4>15
        <5>2. o + 1 + 1 + data[o + 1] = a + 1 /\ a + 1 - 1 = a /\ o + 1 + 1 = o + 2
          BY <4>3, <4>15
        <5> DEFINE z == o + 1
                   y == a + 1
                   x == o + 2
        <5>3. /\ ~ (z > Len(data) \/ data[z] = 0)
              /\ z + 1 + data[z] = y /\ y - 1 = a /\ z + 1 = x
              /\ r[y] = [length |-> a + Len(q), text |-> rest]
              /\ dot = IF y \in DOMAIN data /\ data[y] # 0 THEN <<DOT>> ELSE <<>>
              /\ Min({a, Len(data)}) = a
          BY <4>18, <4>21, <4>23, <5>1, <5>2
        <5> HIDE DEF z, y, x, a, dot
        <5>6. ReadFrom(data, r, z) = ReadPart(data, r, z, y)
          BY <5>3 DEF ReadFrom
        <5>7. ReadPart(data, r, z, y)
                = [length |-> r[y].length,
                   text |-> SubSeq(data, z + 1, Min({y - 1, Len(data)}))
                            \o dot \o r[y].text]
          BY <5>3 DEF ReadPart
        <5>8. Min({y - 1, Len(data)}) = a
          BY <5>3
        <5>9. SubSeq(data, z + 1, Min({y - 1, Len(data)})) = SubSeq(data, x, a)
          BY <5>3, <5>8
        <5>10. r[y].length = a + Len(q) /\ r[y].text = rest
          BY <5>3
        <5>5. ReadFrom(data, r, z)
                = [length |-> a + Len(q), text |-> SubSeq(data, x, a) \o dot \o rest]
          BY <5>6, <5>7, <5>9, <5>10
        <5> QED
          BY <5>5 DEF z, x
      <4>25. (t \o dot) \o rest = t \o (dot \o rest)
        <5>1. rest \in Seq(Octet)
          BY <4>8, NameIsBytes
        <5>2. t \in Seq(Octet)
          BY <4>1
        <5> HIDE DEF dot
        <5> QED
          BY <4>22, <5>1, <5>2, ConcatIsAssociative
      <4>26. a + Len(q) = o + Len(e[j])
        <5>1. Len(p \o q) = Len(p) + Len(q) /\ Len(q) \in Nat
          <6>1. p \in Seq(Octet) /\ q \in Seq(Octet)
            BY <4>7, <4>12
          <6> HIDE DEF p, q
          <6> QED
            BY <6>1, ConcatProperties
        <5> HIDE DEF a
        <5> QED
          BY <4>3, <4>4, <4>12, <5>1 DEF p, a
      <4> HIDE DEF a, dot
      <4> QED
        BY <1>2, <1>3, <4>5, <4>20, <4>24, <4>25, <4>26
    <3> QED
      BY <3>2, <3>3
  <2> QED
    BY <2>1, <2>2
<1>4. 1 .. n \subseteq S
  <2>1. ASSUME NEW j \in 1 .. n, \A k \in j + 1 .. n : k \in S PROVE j \in S
    <3>1. ReadsOn(j)
      <4> HIDE DEF S, n
      <4> QED
        BY <1>3, <2>1
    <3> QED
      BY <3>1
  <2> HIDE DEF S
  <2> QED
    BY <1>1, <2>1, FromTheEnd
<1>5. ReadsOn(i)
  BY <1>4
<1> QED
  BY <1>5

-----------------------------------------------------------------------------
(* A reply, and what is read of it.                                         *)

LEMMA Decoded ==
  ASSUME NEW h \in Name, Len(h) < 255
  PROVE  /\ EncodeDnsQname(h) \in Seq(Octet) /\ Len(EncodeDnsQname(h)) >= 1
         /\ Len(EncodeDnsQname(h)) = IF Normal(h) = <<>> THEN 1 ELSE Len(Normal(h)) + 2
         /\ EndsInZero(EncodeDnsQname(h))
         /\ \A data \in Seq(Octet) :
              IsAt(EncodeDnsQname(h), data, 0) =>
                DecodeDnsQname(data) = [length |-> Len(EncodeDnsQname(h)),
                                        text   |-> Normal(h)]
<1>1. PICK e : IsEncoding(e, h) /\ EncodeDnsQname(h) = e[1]
  BY EncodingExists
<1>2. 1 \in 1 .. Len(h) + 1 /\ TextFrom(h, 1) = Normal(h)
  BY NormalIs DEF Name
<1>3. /\ e[1] \in Seq(Octet) /\ Len(e[1]) >= 1
      /\ Len(e[1]) = IF Normal(h) = <<>> THEN 1 ELSE Len(Normal(h)) + 2
  BY <1>1, <1>2, EncodingLength
<1>4. ASSUME NEW data \in Seq(Octet), IsAt(e[1], data, 0)
      PROVE  DecodeDnsQname(data) = [length |-> Len(e[1]), text |-> Normal(h)]
  <2>1. PICK r : IsReading(r, data) /\ DecodeDnsQname(data) = r[1]
    BY ReadingExists
  <2>2. 0 \in Nat /\ 0 + 1 = 1 /\ 0 + Len(e[1]) = Len(e[1])
    BY <1>3
  <2>3. r[0 + 1] = [length |-> 0 + Len(e[1]), text |-> TextFrom(h, 1)]
    BY <1>1, <1>2, <1>4, <2>1, <2>2, DecodedFrom
  <2> QED
    BY <1>2, <2>1, <2>2, <2>3
<1>5. EndsInZero(e[1])
  BY <1>1, EncodingEnds
<1> QED
  BY <1>1, <1>3, <1>4, <1>5

LEMMA IsAtItsStart ==
  ASSUME NEW p \in Seq(Octet), NEW q \in Seq(Octet)
  PROVE  /\ p \o q \in Seq(Octet)
         /\ IsAt(p, p \o q, 0) /\ IsAt(q, p \o q, Len(p))
<1>1. p \o q \in Seq(Octet) /\ Len(p) \in Nat
  BY ConcatProperties
<1>2. IsAt(p \o q, p \o q, 0)
  <2> DEFINE s == p \o q
  <2>1. \A k \in 1 .. Len(s) : 0 + k <= Len(s) /\ s[0 + k] = s[k]
    OBVIOUS
  <2> QED
    BY <2>1 DEF IsAt
<1>3. IsAt(p, p \o q, 0) /\ IsAt(q, p \o q, 0 + Len(p))
  BY <1>1, <1>2, PieceIsAt
<1>4. 0 + Len(p) = Len(p)
  BY <1>1
<1> QED
  BY <1>1, <1>3, <1>4

\* what is between the name and the data of a record of l octets
Middle(type, l) == <<0, type, 0, 1, 0, 0, 0, 60, 0, l>>

LEMMA MiddleIs ==
  ASSUME NEW type \in Octet, NEW l \in Octet
  PROVE  /\ Middle(type, l) \in Seq(Octet) /\ Len(Middle(type, l)) = 10
         /\ Middle(type, l)[1] = 0 /\ Middle(type, l)[9] = 0 /\ Middle(type, l)[10] = l
<1>1. {0, 1, 60} \subseteq Octet
  BY DEF Octet
<1>2. Middle(type, l) \in Seq(Octet)
  BY <1>1 DEF Middle
<1> QED
  BY <1>2 DEF Middle

LEMMA QuestionNameIs ==
  /\ TheQuestion \in Seq(Octet) /\ Len(TheQuestion) = 2
  /\ TheQuestion[1] = 192 /\ TheQuestion[2] = 12
BY DEF TheQuestion, Pointer, Octet

LEMMA RecordIs ==
  ASSUME NEW type \in Octet, NEW d \in Seq(Octet), NEW l \in Octet, l = Len(d)
  PROVE  /\ Record(TheQuestion, type, d) = (TheQuestion \o Middle(type, l)) \o d
         /\ TheQuestion \o Middle(type, l) \in Seq(Octet)
         /\ Len(TheQuestion \o Middle(type, l)) = 12
         /\ Record(TheQuestion, type, d) \in Seq(Octet)
<1>1. Record(TheQuestion, type, d) = (TheQuestion \o Middle(type, l)) \o d
  BY DEF Record, Middle
<1>2. /\ TheQuestion \o Middle(type, l) \in Seq(Octet)
      /\ Len(TheQuestion \o Middle(type, l)) = 12
  <2>1. TheQuestion \in Seq(Octet) /\ Len(TheQuestion) = 2
    BY QuestionNameIs
  <2>2. Middle(type, l) \in Seq(Octet) /\ Len(Middle(type, l)) = 10
    BY MiddleIs
  <2>3. /\ TheQuestion \o Middle(type, l) \in Seq(Octet)
        /\ Len(TheQuestion \o Middle(type, l)) = Len(TheQuestion) + Len(Middle(type, l))
    BY <2>1, <2>2, ConcatProperties
  <2> QED
    BY <2>1, <2>2, <2>3
<1>3. (TheQuestion \o Middle(type, l)) \o d \in Seq(Octet)
  BY <1>2, ConcatProperties
<1> QED
  BY <1>1, <1>2, <1>3

\* The octets of a record that is somewhere in some data.
LEMMA RecordIsAt ==
  ASSUME NEW type \in Octet, NEW d \in Seq(Octet), NEW l \in Octet, l = Len(d),
         NEW data \in Seq(Octet), NEW at \in Nat,
         IsAt(Record(TheQuestion, type, d), data, at)
  PROVE  /\ data[at + 1] = 192 /\ data[at + 2] = 12 /\ data[at + 3] = 0
         /\ data[at + 11] = 0 /\ data[at + 12] = l /\ at + 12 <= Len(data)
         /\ IsAt(d, data, at + 12)
<1> DEFINE t == TheQuestion
           f == Middle(type, l)
<1>1. /\ t \in Seq(Octet) /\ Len(t) = 2 /\ t[1] = 192 /\ t[2] = 12
      /\ f \in Seq(Octet) /\ Len(f) = 10
      /\ f[1] = 0 /\ f[9] = 0 /\ f[10] = l
      /\ t \o f \in Seq(Octet) /\ Len(t \o f) = 12
      /\ Record(t, type, d) = (t \o f) \o d
  <2>1. t \in Seq(Octet) /\ Len(t) = 2 /\ t[1] = 192 /\ t[2] = 12
    BY QuestionNameIs
  <2>2. f \in Seq(Octet) /\ Len(f) = 10 /\ f[1] = 0 /\ f[9] = 0 /\ f[10] = l
    BY MiddleIs
  <2>3. t \o f \in Seq(Octet) /\ Len(t \o f) = 12 /\ Record(t, type, d) = (t \o f) \o d
    BY RecordIs
  <2> QED
    BY <2>1, <2>2, <2>3
<1>7. IsAt(Record(t, type, d), data, at)
  OBVIOUS
<1> HIDE DEF t, f
<1>2. IsAt(t \o f, data, at) /\ IsAt(d, data, at + 12)
  <2>1. IsAt((t \o f) \o d, data, at)
    BY <1>1, <1>7
  <2>2. IsAt(t \o f, data, at) /\ IsAt(d, data, at + Len(t \o f))
    BY <1>1, <2>1, PieceIsAt
  <2> QED
    BY <1>1, <2>2
<1>3. IsAt(t, data, at) /\ IsAt(f, data, at + 2)
  BY <1>1, <1>2, PieceIsAt
<1>4. data[at + 1] = 192 /\ data[at + 2] = 12
  <2>1. 1 \in 1 .. 2 /\ 2 \in 1 .. 2
    OBVIOUS
  <2> QED
    BY <1>1, <1>3, <2>1 DEF IsAt
<1>5. /\ data[at + 2 + 1] = 0 /\ data[at + 2 + 9] = 0
      /\ data[at + 2 + 10] = l /\ at + 2 + 10 <= Len(data)
  <2>1. 1 \in 1 .. 10 /\ 9 \in 1 .. 10 /\ 10 \in 1 .. 10
    OBVIOUS
  <2> QED
    BY <1>1, <1>3, <2>1 DEF IsAt
<1>6. at + 2 + 1 = at + 3 /\ at + 2 + 9 = at + 11 /\ at + 2 + 10 = at + 12
  OBVIOUS
<1> QED
  BY <1>2, <1>4, <1>5, <1>6

\* What is somewhere in some data is what is cut out there.
LEMMA CutOut ==
  ASSUME NEW d \in Seq(Octet), NEW l \in Nat, l = Len(d), NEW data \in Seq(Octet),
         NEW at \in Nat, at <= Len(data), IsAt(d, data, at)
  PROVE  /\ at + l <= Len(data)
         /\ SubSeq(data, at + 1, at + l) = d
<1>1. \A k \in 1 .. l : at + k <= Len(data) /\ data[at + k] = d[k]
  BY DEF IsAt
<1>2. at + l <= Len(data)
  <2>1. CASE l = 0
    BY <2>1
  <2>2. CASE l # 0
    <3>1. l \in 1 .. l
      BY <2>2
    <3> QED
      BY <1>1, <3>1
  <2> QED
    BY <2>1, <2>2
<1> DEFINE a == at + 1
           b == at + l
           f == SubSeq(data, a, b)
<1>3. a \in Int /\ b \in Int /\ a <= b + 1 /\ b - a + 1 = l
  OBVIOUS
<1>4. \A k \in a .. b : data[k] \in Octet
  <2>1. \A k \in a .. b : k \in 1 .. Len(data)
    BY <1>2
  <2> QED
    BY <2>1, ElementOfSeq
<1>5. f \in Seq(Octet) /\ Len(f) = IF a <= b THEN b - a + 1 ELSE 0
  BY <1>3, <1>4, SubSeqProperties
<1>6. \A k \in 1 .. b - a + 1 : f[k] = data[a + k - 1]
  BY <1>3, <1>4, SubSeqProperties
<1>7. \A k \in 1 .. l : a + k - 1 = at + k
  OBVIOUS
<1> HIDE DEF a, b, f
<1>8. Len(f) = l
  BY <1>3, <1>5
<1>9. \A k \in 1 .. l : f[k] = d[k]
  BY <1>1, <1>3, <1>6, <1>7
<1>10. f = d
  BY <1>5, <1>8, <1>9
<1> QED
  BY <1>2, <1>10 DEF f, a, b

LEMMA FirstRecordIsRead ==
  ASSUME NEW h \in Name, Len(h) < 255, NEW type \in Octet, NEW d \in Seq(Octet),
         NEW l \in Octet, l = Len(d), NEW data \in Seq(Octet),
         IsAt(EncodeDnsQname(h), data, 0),
         IsAt(Record(TheQuestion, type, d), data, Len(EncodeDnsQname(h)) + 4)
  PROVE  ParseResponse(data) = [asked |-> Normal(h), address |-> d]
<1> DEFINE c == Len(EncodeDnsQname(h))
           at == c + 4
           n == Len(data)
<1>1. c \in Nat /\ c >= 1 /\ at \in Nat /\ n \in Nat /\ l \in Nat /\ l <= 255
  <2>1. EncodeDnsQname(h) \in Seq(Octet) /\ Len(EncodeDnsQname(h)) >= 1
    BY Decoded
  <2>2. c \in Nat /\ c >= 1
    BY <2>1
  <2> HIDE DEF c
  <2>3. l \in Nat /\ l <= 255
    <3>1. \A k \in Octet : k \in Nat /\ k <= 255
      BY DEF Octet
    <3> QED
      BY <3>1
  <2> QED
    BY <2>2, <2>3
<1>2. DecodeDnsQname(data) = [length |-> c, text |-> Normal(h)]
  BY Decoded
<1>3. SkipQuestion(data) = at
  BY <1>2 DEF SkipQuestion
<1> HIDE DEF c
<1>4. /\ data[at + 1] = 192 /\ data[at + 2] = 12 /\ data[at + 3] = 0
      /\ data[at + 11] = 0 /\ data[at + 12] = l /\ at + 12 <= n
      /\ IsAt(d, data, at + 12)
  <2>1. IsAt(Record(TheQuestion, type, d), data, at)
    BY DEF c
  <2> HIDE DEF at
  <2> QED
    BY <1>1, <2>1, RecordIsAt
<1>5. c <= n
  BY <1>1, <1>4
<1> HIDE DEF at
<1> DEFINE Z == {i \in DOMAIN data : i > SkipQuestion(data) /\ data[i] = 0}
           zero == Min(Z \cup {n + 1})
<1>6. zero = at + 3
  <2>1. at + 3 \in Z
    BY <1>1, <1>3, <1>4
  <2>2. Z \cup {n + 1} \in SUBSET Nat /\ Z \cup {n + 1} # {}
    BY <1>1
  <2>3. zero \in Z \cup {n + 1} /\ \A i \in Z \cup {n + 1} : zero <= i
    BY <2>2, LeastIn
  <2>4. \A i \in Z \cup {n + 1} : i >= at + 3
    <3>1. ASSUME NEW i \in Z PROVE i >= at + 3
      <4>1. i \in Nat /\ i > at /\ i # at + 1 /\ i # at + 2
        BY <1>3, <1>4
      <4> HIDE DEF Z
      <4> QED
        BY <1>1, <4>1
    <3>2. n + 1 >= at + 3
      BY <1>1, <1>4
    <3> QED
      BY <3>1, <3>2
  <2>5. zero <= at + 3 /\ zero >= at + 3 /\ zero \in Nat
    BY <2>1, <2>2, <2>3, <2>4
  <2> HIDE DEF zero
  <2> QED
    BY <1>1, <2>5
<1> HIDE DEF Z
<1> DEFINE rdlength == data[zero + 8] * 256 + data[zero + 9]
<1>7. zero + 8 = at + 11 /\ zero + 9 = at + 12 /\ zero + 10 = (at + 12) + 1
  <2> HIDE DEF zero
  <2> QED
    BY <1>1, <1>6
<1>8. rdlength = l
  <2>1. rdlength = 0 * 256 + l
    BY <1>4, <1>7
  <2> HIDE DEF rdlength
  <2> QED
    BY <1>1, <2>1
<1> DEFINE from == at + 12
<1>9. from \in Nat /\ from <= n /\ IsAt(d, data, from)
  BY <1>1, <1>4
<1> HIDE DEF from
<1>10. from + l <= n /\ SubSeq(data, from + 1, from + l) = d
  BY <1>1, <1>9, CutOut
<1>11. /\ ~ (zero + 9 > n) /\ ~ (zero + 9 + rdlength > n)
       /\ SubSeq(data, zero + 10, zero + 9 + rdlength) = d
  <2>1. zero + 9 = from /\ zero + 10 = from + 1
    BY <1>7 DEF from
  <2> HIDE DEF zero, rdlength
  <2>2. zero + 9 + rdlength = from + l
    BY <1>8, <2>1
  <2>3. ~ (from > n) /\ ~ (from + l > n)
    BY <1>1, <1>9, <1>10
  <2> HIDE DEF n
  <2> QED
    BY <1>10, <2>1, <2>2, <2>3
<1>12. ParseResponse(data)
         = [asked   |-> IF DecodeDnsQname(data).length > n THEN Unknown
                        ELSE DecodeDnsQname(data).text,
            address |-> IF zero + 9 > n \/ zero + 9 + rdlength > n THEN Unknown
                        ELSE SubSeq(data, zero + 10, zero + 9 + rdlength)]
  BY DEF ParseResponse, Z
<1>13. DecodeDnsQname(data).length = c /\ DecodeDnsQname(data).text = Normal(h)
  BY <1>2
<1>14. ~ (c > n)
  BY <1>1, <1>5
<1> HIDE DEF zero, rdlength, n
<1> QED
  BY <1>11, <1>12, <1>13, <1>14

LEMMA QuestionIs ==
  ASSUME NEW h \in Name, Len(h) < 255, NEW data \in Seq(Octet),
         NEW first \in Seq(Octet),
         \/ data = Question(h) \o first
         \/ \E more \in Seq(Octet) : data = Question(h) \o (first \o more)
  PROVE  /\ IsAt(EncodeDnsQname(h), data, 0)
         /\ IsAt(first, data, Len(EncodeDnsQname(h)) + 4)
<1> DEFINE e == EncodeDnsQname(h)
           f == <<0, 1, 0, 1>>
           q == e \o f
<1>1. e \in Seq(Octet) /\ f \in Seq(Octet) /\ Len(f) = 4
  <2>1. 0 \in Octet /\ 1 \in Octet
    BY DEF Octet
  <2> QED
    BY <2>1, Decoded
<1>2. Question(h) = q
  BY DEF Question
<1> HIDE DEF e, f
<1>3. q \in Seq(Octet) /\ Len(q) = Len(e) + 4
  <2>1. q \in Seq(Octet) /\ Len(q) = Len(e) + Len(f)
    BY <1>1, ConcatProperties
  <2> QED
    BY <1>1, <2>1
<1>4. ASSUME NEW rest \in Seq(Octet), data = q \o rest
      PROVE  IsAt(e, data, 0) /\ IsAt(rest, data, Len(e) + 4)
  <2> HIDE DEF q
  <2>1. IsAt(q, data, 0) /\ IsAt(rest, data, Len(e) + 4)
    BY <1>3, <1>4, IsAtItsStart
  <2>2. IsAt(e \o f, data, 0)
    BY <2>1 DEF q
  <2> QED
    BY <1>1, <2>1, <2>2, PieceIsAt
<1> HIDE DEF q
<1>5. CASE data = Question(h) \o first
  BY <1>2, <1>4, <1>5 DEF e
<1>6. ASSUME NEW more \in Seq(Octet), data = Question(h) \o (first \o more)
      PROVE  IsAt(e, data, 0) /\ IsAt(first, data, Len(e) + 4)
  <2>1. first \o more \in Seq(Octet)
    BY ConcatProperties
  <2>2. IsAt(e, data, 0) /\ IsAt(first \o more, data, Len(e) + 4)
    BY <1>2, <1>4, <1>6, <2>1
  <2>3. Len(e) + 4 \in Nat
    BY <1>1
  <2> QED
    BY <2>2, <2>3, PieceIsAt
<1> QED
  BY <1>5, <1>6 DEF e

LEMMA RunIsSequence ==
  ASSUME NEW S, NEW n \in Nat, NEW f \in [1 .. n -> S]
  PROVE  f \in Seq(S) /\ Len(f) = n
OBVIOUS

LEMMA IPv4IsBytes ==
  ASSUME NEW a \in IPv4Address
  PROVE  a \in Seq(Octet) /\ Len(a) = 4 /\ Reverse(a) \in Seq(Octet) /\ Len(Reverse(a)) = 4
<1>1. 4 \in Nat /\ a \in [1 .. 4 -> Octet]
  BY DEF IPv4Address
<1>2. a \in Seq(Octet) /\ Len(a) = 4
  BY <1>1, RunIsSequence
<1>3. Reverse(a) = [i \in 1 .. 4 |-> a[(4 - i) + 1]]
  BY <1>2 DEF Reverse
<1>4. \A i \in 1 .. 4 : (4 - i) + 1 \in 1 .. 4
  OBVIOUS
<1>5. Reverse(a) \in [1 .. 4 -> Octet]
  BY <1>1, <1>3, <1>4
<1>6. Reverse(a) \in Seq(Octet) /\ Len(Reverse(a)) = 4
  BY <1>1, <1>5, RunIsSequence
<1> QED
  BY <1>2, <1>6

LEMMA RecordType ==
  ASSUME NEW name \in Seq(Octet), NEW type \in Octet, NEW d \in Seq(Octet),
         NEW l \in Octet, l = Len(d)
  PROVE  Record(name, type, d) \in Seq(Octet)
<1>1. Record(name, type, d) = (name \o Middle(type, l)) \o d
  BY DEF Record, Middle
<1>2. name \o Middle(type, l) \in Seq(Octet)
  BY MiddleIs, ConcatProperties
<1> QED
  BY <1>1, <1>2, ConcatProperties

LEMMA NormalIsNoLonger ==
  ASSUME NEW h \in Name
  PROVE  Len(Normal(h)) \in Nat /\ Len(Normal(h)) <= Len(h)
<1> DEFINE K == {i \in DOMAIN h : Kept(h, i)}
<1>1. Len(h) \in Nat /\ K \in SUBSET (1 .. Len(h)) /\ h \in Seq(1 .. 127)
  BY DEF Name
<1> HIDE DEF K
<1>2. Len(Picked(h, K)) = Cardinality(K)
  BY <1>1, PickedType
<1>3. /\ IsFiniteSet(1 .. Len(h)) /\ Cardinality(1 .. Len(h)) = Len(h)
  <2>1. 1 \in Int /\ Len(h) \in Int
    BY <1>1
  <2>2. /\ IsFiniteSet(1 .. Len(h))
        /\ Cardinality(1 .. Len(h)) = IF 1 > Len(h) THEN 0 ELSE Len(h) - 1 + 1
    BY <2>1, FS_Interval
  <2>3. (IF 1 > Len(h) THEN 0 ELSE Len(h) - 1 + 1) = Len(h)
    BY <1>1
  <2> QED
    BY <2>2, <2>3
<1>4. IsFiniteSet(K) /\ Cardinality(K) <= Len(h)
  BY <1>1, <1>3, FS_Subset
<1>5. Cardinality(K) \in Nat
  BY <1>4, FS_CardinalityType
<1> QED
  BY <1>2, <1>4, <1>5 DEF Normal, K

LEMMA HighOctet ==
  ASSUME NEW offset \in Int, 0 <= offset, offset <= 16383
  PROVE  offset \div 256 <= 63 /\ 0 <= offset \div 256 /\ offset \div 256 \in Int
OBVIOUS

\* A pointer has fourteen bits, and can lead behind any question.
Offset == 0 .. 16383

LEMMA PointerType ==
  ASSUME NEW offset \in Offset
  PROVE  Pointer(offset) \in Seq(Octet)
<1> DEFINE q == offset \div 256
           a == 192 + q
           b == offset % 256
<1>1. offset \in Int /\ 0 <= offset /\ offset <= 16383
  BY DEF Offset
<1>2. q <= 63 /\ 0 <= q /\ q \in Int
  BY <1>1, HighOctet
<1>3. b \in 0 .. 255
  BY <1>1
<1> HIDE DEF q
<1>4. a \in 0 .. 255
  BY <1>2
<1> HIDE DEF a, b
<1>5. <<a, b>> \in Seq(Octet)
  <2>1. a \in Octet /\ b \in Octet
    BY <1>3, <1>4 DEF Octet
  <2> QED
    BY <2>1
<1> QED
  BY <1>5 DEF Pointer, a, b, q

LEMMA PointerBehind ==
  ASSUME NEW h \in Name, Len(h) < 255
  PROVE  Pointer(24 + Len(Question(h))) \in Seq(Octet)
<1> DEFINE e == EncodeDnsQname(h)
           f == <<0, 1, 0, 1>>
<1>1. e \in Seq(Octet) /\ Len(e) >= 1
      /\ Len(e) = IF Normal(h) = <<>> THEN 1 ELSE Len(Normal(h)) + 2
  BY Decoded
<1>2. f \in Seq(Octet) /\ Len(f) = 4
  <2>1. 0 \in Octet /\ 1 \in Octet
    BY DEF Octet
  <2> QED
    BY <2>1
<1>3. Question(h) = e \o f
  BY DEF Question
<1>4. Len(Normal(h)) \in Nat /\ Len(Normal(h)) <= Len(h) /\ Len(h) \in Nat
  BY NormalIsNoLonger DEF Name
<1> HIDE DEF e, f
<1> DEFINE c == Len(e)
           n == Len(Normal(h))
           m == Len(h)
<1>5. Len(Question(h)) = c + 4
  <2>1. Len(e \o f) = Len(e) + Len(f)
    BY <1>1, <1>2, ConcatProperties
  <2> QED
    BY <1>2, <1>3, <2>1
<1>6. n \in Nat /\ n <= m /\ m \in Nat /\ m < 255 /\ (c = 1 \/ c = n + 2)
  BY <1>1, <1>4
<1> HIDE DEF c, n, m
<1>7. c \in 0 .. 1000
  <2>1. CASE c = 1
    BY <2>1
  <2>2. CASE c = n + 2
    BY <1>6, <2>2
  <2> QED
    BY <1>6, <2>1, <2>2
<1>8. 24 + (c + 4) \in Offset
  BY <1>7 DEF Offset
<1>9. Pointer(24 + (c + 4)) \in Seq(Octet)
  BY <1>8, PointerType
<1> QED
  BY <1>5, <1>9

\* A record that repeats the name is misread.  The first zero behind the
\* question is the end of that name, and the length is read one octet early:
\* from the last octet of the record's minute and the first of its length.
LEMMA RepeatedIsMisread ==
  ASSUME NEW h \in Name, Len(h) < 255, NEW type \in Octet, NEW d \in Seq(Octet),
         NEW l \in Octet, l = Len(d)
  PROVE  ParseResponse(Question(h) \o Record(EncodeDnsQname(h), type, d))
           = [asked |-> Normal(h), address |-> Unknown]
<1> DEFINE e == EncodeDnsQname(h)
           m == Middle(type, l)
           c == Len(e)
           record == Record(e, type, d)
           data == Question(h) \o record
           n == Len(data)
           at == c + 4
<1>1. e \in Seq(Octet) /\ c \in Nat /\ c >= 1
  BY Decoded
<1>2. e[c] = 0 /\ \A k \in 1 .. c - 1 : e[k] # 0
  BY Decoded DEF EndsInZero
<1>3. m \in Seq(Octet) /\ Len(m) = 10 /\ m[8] = 60 /\ m[9] = 0
  <2>1. m \in Seq(Octet) /\ Len(m) = 10 /\ m[9] = 0
    BY MiddleIs
  <2>2. m[8] = 60
    BY DEF Middle
  <2> QED
    BY <2>1, <2>2
<1>4. l \in Nat /\ l <= 255
  <2>1. \A k \in Octet : k \in Nat /\ k <= 255
    BY DEF Octet
  <2> QED
    BY <2>1
<1>5. record = (e \o m) \o d
  BY DEF Record, Middle
<1>6. record \in Seq(Octet)
  BY <1>1, RecordType
<1>7. Question(h) \in Seq(Octet) /\ Len(Question(h)) = at
  <2>1. <<0, 1, 0, 1>> \in Seq(Octet) /\ Len(<<0, 1, 0, 1>>) = 4
    BY DEF Octet
  <2>2. /\ e \o <<0, 1, 0, 1>> \in Seq(Octet)
        /\ Len(e \o <<0, 1, 0, 1>>) = c + Len(<<0, 1, 0, 1>>)
    BY <1>1, <2>1, ConcatProperties
  <2> QED
    BY <2>1, <2>2 DEF Question
<1>8. data \in Seq(Octet) /\ n \in Nat /\ n = at + Len(record)
  <2> HIDE DEF record, at
  <2>1. data \in Seq(Octet) /\ n = Len(Question(h)) + Len(record)
    BY <1>6, <1>7, ConcatProperties
  <2> HIDE DEF data
  <2> QED
    BY <1>7, <2>1
<1>9. IsAt(e, data, 0) /\ IsAt(record, data, at)
  <2> HIDE DEF record
  <2>1. data = Question(h) \o record
    OBVIOUS
  <2> HIDE DEF data
  <2> QED
    BY <1>6, <1>8, <2>1, QuestionIs
<1>10. SkipQuestion(data) = at /\ DecodeDnsQname(data) = [length |-> c, text |-> Normal(h)]
  <2> HIDE DEF data
  <2>1. DecodeDnsQname(data) = [length |-> c, text |-> Normal(h)]
    BY <1>8, <1>9, Decoded
  <2> QED
    BY <2>1 DEF SkipQuestion
<1> HIDE DEF e, m, data, record
<1> HIDE DEF c
<1>11. c = Len(e)
  BY DEF c
<1>12. e \o m \in Seq(Octet) /\ Len(e \o m) = c + 10
  <2>1. e \o m \in Seq(Octet) /\ Len(e \o m) = Len(e) + Len(m)
    BY <1>1, <1>3, ConcatProperties
  <2> QED
    BY <1>3, <1>11, <2>1
<1>13. Len(record) = (c + 10) + l
  BY <1>4, <1>5, <1>12, ConcatProperties
<1>14. at \in Nat /\ n = at + ((c + 10) + l) /\ n \in Nat
  BY <1>1, <1>8, <1>13
<1> HIDE DEF n
<1>15. IsAt(e, data, at) /\ IsAt(m, data, at + c)
  <2> HIDE DEF at
  <2>1. IsAt(e \o m, data, at)
    BY <1>5, <1>8, <1>9, <1>12, <1>14, PieceIsAt
  <2> QED
    BY <1>1, <1>3, <1>8, <1>11, <1>14, <2>1, PieceIsAt
<1>16. \A k \in 1 .. c : data[at + k] = e[k]
  BY <1>11, <1>15 DEF IsAt
<1>17. data[(at + c) + 8] = 60 /\ data[(at + c) + 9] = 0
  <2>1. 8 \in 1 .. 10 /\ 9 \in 1 .. 10
    OBVIOUS
  <2> QED
    BY <1>3, <1>15, <2>1 DEF IsAt
<1> HIDE DEF at
<1> DEFINE Z == {i \in DOMAIN data : i > SkipQuestion(data) /\ data[i] = 0}
           zero == Min(Z \cup {n + 1})
<1>18. zero = at + c
  <2>1. at + c \in Z
    <3>1. at + c \in 1 .. n /\ at + c > at /\ c \in 1 .. c
      BY <1>1, <1>4, <1>14
    <3>2. data[at + c] = 0
      BY <1>2, <1>16, <3>1
    <3>3. DOMAIN data = 1 .. n
      BY <1>8 DEF n
    <3> QED
      BY <1>10, <3>1, <3>2, <3>3
  <2>2. Z \subseteq 1 .. n
    BY <1>8 DEF n
  <2>3. \A i \in Z : i >= at + c
    <3> SUFFICES ASSUME NEW i \in Z, i < at + c PROVE FALSE
      BY <1>1, <1>14, <2>2
    <3>1. i \in Nat /\ i > at /\ data[i] = 0
      BY <1>10, <2>2
    <3> HIDE DEF Z
    <3>2. i - at \in 1 .. c - 1 /\ i - at \in 1 .. c /\ at + (i - at) = i
      BY <1>1, <1>14, <3>1
    <3>3. e[i - at] # 0 /\ data[at + (i - at)] = e[i - at]
      BY <1>2, <1>16, <3>2
    <3> QED
      BY <3>1, <3>2, <3>3
  <2> HIDE DEF Z
  <2>4. Z \cup {n + 1} \in SUBSET Nat /\ Z \cup {n + 1} # {}
    <3>1. n + 1 \in Nat /\ 1 .. n \subseteq Nat
      BY <1>14
    <3> QED
      BY <2>2, <3>1
  <2>5. zero \in Z \cup {n + 1} /\ \A i \in Z \cup {n + 1} : zero <= i
    BY <2>4, LeastIn
  <2>6. zero <= at + c /\ zero \in Nat
    BY <2>1, <2>4, <2>5
  <2>7. n + 1 >= at + c
    BY <1>1, <1>4, <1>14
  <2> HIDE DEF zero
  <2>8. zero >= at + c
    BY <2>3, <2>5, <2>7
  <2> QED
    BY <1>1, <1>14, <2>6, <2>8
<1> DEFINE rdlength == data[zero + 8] * 256 + data[zero + 9]
<1>19. rdlength = 15360
  <2>1. data[zero + 8] = 60 /\ data[zero + 9] = 0
    BY <1>17, <1>18
  <2>2. 60 * 256 + 0 = 15360
    OBVIOUS
  <2> QED
    BY <2>1, <2>2
<1>20. zero + 9 + rdlength > n
  <2> HIDE DEF zero, rdlength
  <2> QED
    BY <1>1, <1>4, <1>14, <1>18, <1>19
<1>21. ~ (c > n)
  BY <1>1, <1>4, <1>14, <1>10 DEF at
<1>22. ParseResponse(data)
         = [asked   |-> IF DecodeDnsQname(data).length > n THEN Unknown
                        ELSE DecodeDnsQname(data).text,
            address |-> IF zero + 9 > n \/ zero + 9 + rdlength > n THEN Unknown
                        ELSE SubSeq(data, zero + 10, zero + 9 + rdlength)]
  BY DEF ParseResponse, Z, n
<1>23. DecodeDnsQname(data).length = c /\ DecodeDnsQname(data).text = Normal(h)
  BY <1>10
<1>24. ParseResponse(data) = [asked |-> Normal(h), address |-> Unknown]
  <2> HIDE DEF zero, rdlength
  <2> QED
    BY <1>20, <1>21, <1>22, <1>23
<1> QED
  BY <1>24 DEF data, record, e

\* What is read of a reply: the data of its first record, if that points at
\* the question.
LEMMA ReplyIsRead ==
  ASSUME NEW h \in Name, Len(h) < 255, NEW kind \in ReplyKind,
         NEW address \in IPv4Address
  PROVE  ParseResponse(ServerReply(kind, h, address))
           = [asked |-> Normal(h), address |-> DataOf(kind, address)]
<1> DEFINE data == ServerReply(kind, h, address)
<1>1. A \in Octet /\ CNAME \in Octet /\ SOA \in Octet
  BY DEF A, CNAME, SOA, Octet
<1>2. OtherName \in Seq(Octet) /\ Len(OtherName) = 3 /\ 3 \in Octet
  BY DEF OtherName, Octet
<1>3. /\ address \in Seq(Octet) /\ Len(address) = 4 /\ 4 \in Octet
      /\ Reverse(address) \in Seq(Octet) /\ Len(Reverse(address)) = 4
  BY IPv4IsBytes DEF Octet
<1>4. TheQuestion \in Seq(Octet)
  BY QuestionNameIs
<1>5. Question(h) \in Seq(Octet)
  <2>1. <<0, 1, 0, 1>> \in Seq(Octet)
    BY DEF Octet
  <2>2. EncodeDnsQname(h) \in Seq(Octet)
    BY Decoded
  <2> QED
    BY <2>1, <2>2, ConcatProperties DEF Question
<1>6. ASSUME NEW type \in Octet, NEW d \in Seq(Octet), NEW l \in Octet, l = Len(d),
             \/ data = Question(h) \o Record(TheQuestion, type, d)
             \/ \E more \in Seq(Octet) :
                  data = Question(h) \o (Record(TheQuestion, type, d) \o more)
      PROVE  ParseResponse(data) = [asked |-> Normal(h), address |-> d]
  <2> DEFINE r == Record(TheQuestion, type, d)
  <2>1. r \in Seq(Octet)
    BY <1>4, <1>6, RecordType
  <2>2. data \in Seq(Octet)
    BY <1>5, <1>6, <2>1, ConcatProperties
  <2> HIDE DEF r, data
  <2>3. IsAt(EncodeDnsQname(h), data, 0) /\ IsAt(r, data, Len(EncodeDnsQname(h)) + 4)
    BY <1>6, <2>1, <2>2, QuestionIs DEF r
  <2> QED
    BY <1>6, <2>2, <2>3, FirstRecordIsRead DEF r
<1>7. CASE kind = "address"
  <2>1. data = Question(h) \o Record(TheQuestion, A, address)
    BY <1>7 DEF ServerReply
  <2> HIDE DEF data
  <2>2. ParseResponse(data) = [asked |-> Normal(h), address |-> address]
    BY <1>1, <1>3, <1>6, <2>1
  <2> QED
    BY <1>7, <2>2 DEF data, DataOf
<1>8. CASE kind = "several"
  <2> DEFINE more == Record(TheQuestion, A, Reverse(address))
  <2>1. data = Question(h) \o (Record(TheQuestion, A, address) \o more)
    BY <1>8 DEF ServerReply
  <2>2. more \in Seq(Octet)
    BY <1>1, <1>3, <1>4, RecordType
  <2> HIDE DEF data, more
  <2>3. ParseResponse(data) = [asked |-> Normal(h), address |-> address]
    BY <1>1, <1>3, <1>6, <2>1, <2>2
  <2> QED
    BY <1>8, <2>3 DEF data, DataOf
<1>9. CASE kind = "alias"
  <2> DEFINE name == Pointer(24 + Len(Question(h)))
             more == Record(name, A, address)
  <2>1. data = Question(h) \o (Record(TheQuestion, CNAME, OtherName) \o more)
    BY <1>9 DEF ServerReply
  <2>4. name \in Seq(Octet)
    BY PointerBehind
  <2> HIDE DEF name
  <2>2. more \in Seq(Octet)
    BY <1>1, <1>3, <2>4, RecordType
  <2> HIDE DEF data, more
  <2>3. ParseResponse(data) = [asked |-> Normal(h), address |-> OtherName]
    BY <1>1, <1>2, <1>6, <2>1, <2>2
  <2> QED
    BY <1>9, <2>3 DEF data, DataOf
<1>10. CASE kind = "negative"
  <2>1. data = Question(h) \o Record(TheQuestion, SOA, OtherName)
    BY <1>10 DEF ServerReply
  <2> HIDE DEF data
  <2>2. ParseResponse(data) = [asked |-> Normal(h), address |-> OtherName]
    BY <1>1, <1>2, <1>6, <2>1
  <2> QED
    BY <1>10, <2>2 DEF data, DataOf
<1>11. CASE kind = "repeated"
  <2>1. data = Question(h) \o Record(EncodeDnsQname(h), A, address)
    BY <1>11 DEF ServerReply
  <2> HIDE DEF data
  <2>2. ParseResponse(data) = [asked |-> Normal(h), address |-> Unknown]
    BY <1>1, <1>3, <2>1, RepeatedIsMisread
  <2> QED
    BY <1>11, <2>2 DEF data, DataOf
<1> QED
  BY <1>7, <1>8, <1>9, <1>10, <1>11 DEF ReplyKind

-----------------------------------------------------------------------------
(* What the client prints.                                                  *)

LEMMA HostIsName ==
  ASSUME NEW h \in Host
  PROVE  h \in Name /\ Len(h) < 255 /\ AddressOf[h] \in IPv4Address
BY DnsAssumption DEF Name

LEMMA HostnameIsName ==
  ASSUME NEW h \in Hostname
  PROVE  h \in Name /\ Len(h) < 255
<1>1. PICK n \in 0 .. MaxLength : h \in [1 .. n -> Character]
  BY DEF Hostname
<1>2. MaxLength \in 0 .. 254 /\ Character \subseteq 1 .. 127
  BY NamesAssumption
<1>3. n \in Nat /\ n < 255
  BY <1>2
<1>4. h \in [1 .. n -> 1 .. 127]
  BY <1>1, <1>2
<1>5. h \in Seq(1 .. 127) /\ Len(h) = n
  BY <1>3, <1>4, RunIsSequence
<1> QED
  BY <1>3, <1>5 DEF Name

LEMMA EverySurvives ==
  ASSUME NEW h \in Name, Len(h) < 255
  PROVE  Survives(h)
<1> DEFINE e == EncodeDnsQname(h)
<1>1. e \in Seq(Octet)
  BY Decoded
<1>2. Len(e) = IF Normal(h) = <<>> THEN 1 ELSE Len(Normal(h)) + 2
  BY Decoded
<1> HIDE DEF e
<1>3. ASSUME NEW rest \in Following
      PROVE  DecodeDnsQname(e \o rest) = [length |-> Len(e), text |-> Normal(h)]
  <2>1. rest \in Seq(Octet)
    BY NamesAssumption
  <2>2. e \o rest \in Seq(Octet) /\ IsAt(e, e \o rest, 0)
    BY <1>1, <2>1, IsAtItsStart
  <2> QED
    BY <2>2, Decoded DEF e
<1> QED
  BY <1>2, <1>3 DEF Survives, e

LEMMA EveryIsRead ==
  ASSUME NEW h \in Name, Len(h) < 255, NEW kind \in ReplyKind
  PROVE  IsRead(h, kind)
BY ReplyIsRead, NamesAssumption DEF IsRead

\* Every host name is read back from its encoding, whatever octets are behind
\* it, but for superfluous dots, and so is the place where it ends (lines
\* 30-91).
THEOREM NamesCorrect == Spec => []NameSurvives
<1>1. IInv => NameSurvives
  <2> SUFFICES ASSUME IInv PROVE NameSurvives
    OBVIOUS
  <2>1. destination_url \in Host
    BY DEF IInv, TypeOK
  <2>2. Survives(destination_url)
    BY <2>1, HostIsName, EverySurvives
  <2>3. AllSurvive
    BY HostnameIsName, EverySurvives DEF AllSurvive
  <2> QED
    BY <2>2, <2>3 DEF NameSurvives
<1> QED
  BY InitTyped, StepTyped, <1>1, PTL DEF Spec

\* The data of the first record of a reply are found, whatever the name and
\* the address, if the record points at the question: no octet between the
\* question and the record's type is zero, so that the first zero is where the
\* code takes it to be (lines 276-290).  Of a record that repeats the name the
\* length is misread, and what is printed runs past the end of the message.
THEOREM AddressesCorrect == Spec => []AddressIsFound
<1>1. IInv => AddressIsFound
  <2> SUFFICES ASSUME IInv PROVE AddressIsFound
    OBVIOUS
  <2>1. destination_url \in Host
    BY DEF IInv, TypeOK
  <2>2. \A kind \in ReplyKind : IsRead(destination_url, kind)
    BY <2>1, HostIsName, EveryIsRead
  <2>3. AllAreRead
    BY HostnameIsName, EveryIsRead DEF AllAreRead
  <2> QED
    BY <2>2, <2>3 DEF AddressIsFound
<1> QED
  BY InitTyped, StepTyped, <1>1, PTL DEF Spec

\* The server's answers are about the client's name.
Own == \A d \in Answer : answers[d] > 0 => d.host = destination_url

LEMMA StepOwn == IInv /\ Own /\ [Next]_vars => Own'
<1> SUFFICES ASSUME IInv, Own, [Next]_vars,
                    NEW d \in Answer, answers'[d] > 0
             PROVE  d.host = destination_url'
  BY DEF Own
<1> USE DEF IInv, TypeOK
<1>1. d \in Datagram /\ (answers[d] > 0 => d.host = destination_url)
  BY Origins DEF Own
<1>2. CASE Lose
  <2>1. destination_url' = destination_url /\ answers[d] > 0
    BY <1>1, <1>2, Origins DEF Lose, client
  <2> QED
    BY <1>1, <2>1
<1>3. CASE ServerAnswers
  <2>1. PICK e \in Answer : /\ e.host = destination_url
                            /\ answers' = [answers EXCEPT ![e] = @ + 1]
    BY <1>3 DEF ServerAnswers
  <2>2. destination_url' = destination_url
    BY <1>3 DEF ServerAnswers, client
  <2>3. d # e => answers'[d] = answers[d]
    BY <1>1, <2>1, Origins
  <2> QED
    BY <1>1, <2>1, <2>2, <2>3
<1>4. CASE ForeignDatagram
  <2>1. destination_url' = destination_url /\ answers'[d] = answers[d]
    BY <1>1, <1>4, Origins DEF ForeignDatagram, client
  <2> QED
    BY <1>1, <2>1
<1>5. CASE SendQuery
  BY <1>1, <1>5 DEF SendQuery
<1>6. CASE RecvFails
  BY <1>1, <1>6 DEF RecvFails, Resend
<1>7. ASSUME NEW e \in Datagram, RecvUnrelated(e) \/ RecvResponse(e)
      PROVE  d.host = destination_url'
  <2>1. destination_url' = destination_url /\ answers[d] > 0
    BY <1>1, <1>7 DEF RecvUnrelated, RecvResponse, Received, Resend
  <2> QED
    BY <1>1, <2>1
<1>8. CASE UNCHANGED vars
  BY <1>1, <1>8 DEF vars, client, network
<1> QED
  BY <1>2, <1>3, <1>4, <1>5, <1>6, <1>7, <1>8 DEF Next, Client

LEMMA StepPrints ==
  ASSUME \A h \in Host : Normal(h) = h
  PROVE  IInv /\ Own /\ PrintsItsAddress /\ [Next]_vars => PrintsItsAddress'
<1> SUFFICES ASSUME IInv, Own, PrintsItsAddress, [Next]_vars
             PROVE  PrintsItsAddress'
  OBVIOUS
<1> USE DEF IInv, TypeOK
<1>1. ASSUME NEW d \in Datagram, RecvResponse(d) PROVE PrintsItsAddress'
  <2>1. /\ answers[d] > 0 /\ d.id = OUR_CHOSEN_ID /\ response' = d
        /\ printed' = Printout[d] /\ destination_url' = destination_url
    BY <1>1 DEF RecvResponse, Received, IsUnrelated
  <2>2. CASE d \in Answer
    <3>1. d.host \in Host /\ d.kind \in ReplyKind /\ d.host = destination_url
      BY <2>1, <2>2, Origins DEF Own
    <3>2. Printout[d] = ParseResponse(ServerReply(d.kind, d.host, AddressOf[d.host]))
      BY DEF Printout
    <3>3. ParseResponse(ServerReply(d.kind, d.host, AddressOf[d.host]))
            = [asked |-> Normal(d.host), address |-> DataOf(d.kind, AddressOf[d.host])]
      BY <3>1, HostIsName, ReplyIsRead
    <3>4. printed' = [asked   |-> destination_url,
                      address |-> DataOf(d.kind, AddressOf[destination_url])]
      BY <2>1, <3>1, <3>2, <3>3
    <3> QED
      BY <2>1, <3>4 DEF PrintsItsAddress
  <2>3. CASE d \in Elsewhere
    BY <2>1, <2>3, Origins DEF PrintsItsAddress
  <2> QED
    BY <2>2, <2>3 DEF Datagram
<1>2. CASE Lose
  BY <1>2 DEF Lose, client, PrintsItsAddress
<1>3. CASE ServerAnswers
  BY <1>3 DEF ServerAnswers, client, PrintsItsAddress
<1>4. CASE ForeignDatagram
  BY <1>4 DEF ForeignDatagram, client, PrintsItsAddress
<1>5. CASE SendQuery
  BY <1>5 DEF SendQuery, PrintsItsAddress
<1>6. CASE RecvFails
  BY <1>6 DEF RecvFails, Resend, PrintsItsAddress
<1>7. ASSUME NEW d \in Datagram, RecvUnrelated(d) PROVE PrintsItsAddress'
  BY <1>7 DEF RecvUnrelated, Received, Resend, PrintsItsAddress
<1>8. CASE UNCHANGED vars
  BY <1>8 DEF vars, client, network, PrintsItsAddress
<1> QED
  BY <1>1, <1>2, <1>3, <1>4, <1>5, <1>6, <1>7, <1>8 DEF Next, Client

\* A client that prints prints the name it was asked for and the data of the
\* server's first record about it, the address if that has it, or more than
\* the message has if the record repeats the name (lines 242-290): unless what
\* it has received is a datagram from elsewhere with the id that every run
\* uses.  The names it is asked for are taken to have no superfluous dots, of
\* which the printed name would have none.
THEOREM PrintsCorrect ==
  ASSUME \A h \in Host : Normal(h) = h
  PROVE  Spec => []PrintsItsAddress
<1>1. Init => Own /\ PrintsItsAddress
  BY Origins DEF Init, Own, PrintsItsAddress
<1> QED
  BY InitTyped, StepTyped, <1>1, StepOwn, StepPrints, PTL DEF Spec

=============================================================================
