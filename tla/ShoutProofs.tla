------------------------------ MODULE ShoutProofs ------------------------------
(***************************************************************************)
(* What holds of Shout for any clients, whatever they type, and for any    *)
(* limits: the type invariant, that echoes match and are counted, and that *)
(* what is typed is sent.                                                  *)
(***************************************************************************)
EXTENDS Shout, SequenceTheorems, FiniteSetTheorems, WellFoundedInduction, TLAPS

-----------------------------------------------------------------------------
(* Lines.                                                                   *)

LEMMA LeastIn ==
  ASSUME NEW S \in SUBSET Nat, S # {}
  PROVE  Min(S) \in S /\ \A n \in S : Min(S) <= n
<1>1. PICK m \in S : \A n \in S : <<n, m>> \notin OpToRel(<, Nat)
  BY NatLessThanWellFounded, WFMin
<1>2. ASSUME NEW n \in S PROVE m <= n
  <2>1. ~ (n < m)
    BY <1>1 DEF OpToRel
  <2> QED
    BY <2>1
<1> QED
  BY <1>2 DEF Min

\* What fgets() reads is not empty, and has a new line at most at its end.
LEMMA PieceIs ==
  ASSUME NEW s \in Seq(Char), s # <<>>
  PROVE  /\ Piece(s) \in Seq(Char)
         /\ Len(Piece(s)) \in 1 .. Len(s)
         /\ \A i \in 1 .. Len(Piece(s)) - 1 : Piece(s)[i] # NEWLINE
<1> DEFINE ends == {Len(s), LINE_SIZE - 1} \cup {i \in DOMAIN s : s[i] = NEWLINE}
           n    == Min(ends)
<1>1. Len(s) \in Nat \ {0} /\ LINE_SIZE - 1 \in Nat \ {0}
  BY ShoutAssumption
<1>2. ends \subseteq Nat \ {0} /\ Len(s) \in ends
  <2>1. DOMAIN s = 1 .. Len(s)
    OBVIOUS
  <2>2. {i \in DOMAIN s : s[i] = NEWLINE} \subseteq Nat \ {0}
    BY <2>1
  <2> QED
    BY <1>1, <2>2
<1>3. n \in ends /\ \A i \in ends : n <= i
  BY <1>2, LeastIn
<1>4. n \in 1 .. Len(s)
  BY <1>1, <1>2, <1>3
<1> HIDE DEF n
<1>5. Piece(s) = SubSeq(s, 1, n)
  BY DEF Piece, n
<1>6. Piece(s) \in Seq(Char) /\ Len(Piece(s)) = n
  BY <1>1, <1>4, <1>5
<1>7. ASSUME NEW i \in 1 .. n - 1 PROVE Piece(s)[i] # NEWLINE
  <2>1. Piece(s)[i] = s[i] /\ i \in DOMAIN s
    BY <1>1, <1>4, <1>5
  <2> QED
    BY <1>3, <1>4, <2>1
<1> QED
  BY <1>4, <1>6, <1>7

LEMMA LineIsText ==
  ASSUME NEW s \in Seq(Char), s # <<>>
  PROVE  Line(s) \in Text
<1> DEFINE p == Piece(s)
           n == Len(p)
<1>1. p \in Seq(Char) /\ n \in Nat \ {0}
      /\ \A i \in 1 .. n - 1 : p[i] # NEWLINE
  BY PieceIs
<1> HIDE DEF p
<1>2. CASE p[n] = NEWLINE
  <2>1. Line(s) = SubSeq(p, 1, n - 1)
    BY <1>2 DEF Line, p, Last, Front
  <2>2. \A i \in 1 .. n - 1 : p[i] \in Char \ {NEWLINE}
    BY <1>1
  <2> QED
    BY <1>1, <2>1, <2>2 DEF Text
<1>3. CASE p[n] # NEWLINE
  <2>1. Line(s) = p
    BY <1>3 DEF Line, p, Last
  <2>2. \A i \in 1 .. n : p[i] \in Char \ {NEWLINE}
    BY <1>1, <1>3
  <2> QED
    BY <1>1, <2>1, <2>2 DEF Text
<1> QED
  BY <1>2, <1>3

\* What is left for the next fgets().
LEMMA RestIsTyped ==
  ASSUME NEW s \in Seq(Char), s # <<>>
  PROVE  SubSeq(s, Len(Piece(s)) + 1, Len(s)) \in Seq(Char)
BY PieceIs

-----------------------------------------------------------------------------
(* Types.                                                                   *)

\* A server that waits has a message left.
Typed ==
  /\ TypeOK
  /\ server = "down" => message_count = 0
  /\ server = "recvfrom" => message_count < MESSAGE_LIMIT

LEMMA InitTyped == Init => Typed
<1> SUFFICES ASSUME Init PROVE Typed
  OBVIOUS
<1>1. message_count = 0 /\ MESSAGE_LIMIT \in Nat \ {0} /\ server = "down"
  BY ShoutAssumption DEF Init
<1>2. inbox \in Seq(Datagram) /\ stdin \in [Client -> Seq(Char)]
  BY ShoutAssumption DEF Init
<1>3. /\ client \in [Client -> {"fgets", "recvfrom", "closed"}]
      /\ echoes \in [Client -> Seq(Text)] /\ sent \in [Client -> Seq(Text)]
      /\ printed \in [Client -> Seq(Text)] /\ failed \subseteq Client
  BY DEF Init
<1> QED
  BY <1>1, <1>2, <1>3 DEF Typed, TypeOK

LEMMA CountedTyped ==
  ASSUME Typed, server = "recvfrom", Counted
  PROVE  /\ server' \in {"recvfrom", "closed"}
         /\ message_count' \in 0 .. MESSAGE_LIMIT
         /\ server' = "recvfrom" => message_count' < MESSAGE_LIMIT
BY ShoutAssumption DEF Typed, TypeOK, Counted

LEMMA StepTyped == Typed /\ [Next]_vars => Typed'
<1> SUFFICES ASSUME Typed, [Next]_vars PROVE Typed'
  OBVIOUS
<1> USE DEF Typed, TypeOK
<1>1. CASE ServerStarts
  BY <1>1, ShoutAssumption DEF ServerStarts, clientVars
<1>2. CASE ServerTimeout
  BY <1>2, CountedTyped DEF ServerTimeout, clientVars
<1>3. CASE ServerRecvFails
  <2>1. inbox' = inbox \/ inbox' = <<>>
    BY <1>3 DEF ServerRecvFails, Rest
  <2> QED
    BY <1>3, <2>1, CountedTyped, EmptySeq DEF ServerRecvFails, clientVars
<1>4. CASE ServerRecv
  <2>1. Head(inbox) \in Datagram /\ Tail(inbox) \in Seq(Datagram)
    BY <1>4 DEF ServerRecv
  <2> DEFINE d == Head(inbox)
  <2>2. echoes' \in [Client -> Seq(Text)]
    <3>1. d.sender \in Client /\ d.text \in Text
      BY <2>1 DEF Datagram
    <3>2. Append(echoes[d.sender], d.text) \in Seq(Text)
      BY <3>1
    <3>3. \/ echoes' = echoes
          \/ echoes' = [echoes EXCEPT ![d.sender] = Append(@, d.text)]
      BY <1>4 DEF ServerRecv, Echo
    <3> QED
      BY <3>1, <3>2, <3>3
  <2>3. inbox' \in Seq(Datagram)
    BY <1>4, <2>1 DEF ServerRecv, Rest
  <2> QED
    BY <1>4, <2>2, <2>3, CountedTyped DEF ServerRecv, clientVars
<1>5. ASSUME NEW c \in Client, ReadLine(c)
      PROVE  Line(stdin[c]) \in Text /\ stdin' \in [Client -> Seq(Char)]
  BY <1>5, LineIsText, RestIsTyped DEF ReadLine
<1>6. ASSUME NEW c \in Client, Send(c) PROVE Typed'
  <2>1. Line(stdin[c]) \in Text /\ stdin' \in [Client -> Seq(Char)]
    BY <1>5, <1>6 DEF Send
  <2>2. inbox' \in Seq(Datagram)
    <3> DEFINE d == [sender |-> c, text |-> Line(stdin[c])]
    <3>1. d \in Datagram
      BY <2>1 DEF Datagram
    <3>2. inbox' = inbox \/ inbox' = Append(inbox, d)
      BY <1>6 DEF Send, Arrives
    <3>3. inbox \in Seq(Datagram)
      OBVIOUS
    <3> HIDE DEF d
    <3>4. Append(inbox, d) \in Seq(Datagram)
      BY <3>1, <3>3, AppendProperties
    <3> QED
      BY <3>2, <3>3, <3>4
  <2>3. sent' \in [Client -> Seq(Text)]
    BY <1>6, <2>1 DEF Send
  <2> QED
    BY <1>6, <2>1, <2>2, <2>3 DEF Send, serverVars
<1>7. ASSUME NEW c \in Client, SendFails(c) PROVE Typed'
  BY <1>5, <1>7 DEF SendFails, serverVars
<1>8. ASSUME NEW c \in Client, Recv(c) PROVE Typed'
  <2>1. Head(echoes[c]) \in Text /\ Tail(echoes[c]) \in Seq(Text)
    BY <1>8 DEF Recv
  <2>2. printed' \in [Client -> Seq(Text)] /\ echoes' \in [Client -> Seq(Text)]
    BY <1>8, <2>1 DEF Recv
  <2> QED
    BY <1>8, <2>2 DEF Recv, serverVars
<1>9. ASSUME NEW c \in Client, RecvFails(c) PROVE Typed'
  BY <1>9 DEF RecvFails, serverVars
<1>10. ASSUME NEW c \in Client, EndOfFile(c) PROVE Typed'
  BY <1>10 DEF EndOfFile, serverVars
<1>11. CASE UNCHANGED vars
  BY <1>11 DEF vars, serverVars, clientVars
<1> QED
  BY <1>1, <1>2, <1>3, <1>4, <1>6, <1>7, <1>8, <1>9, <1>10, <1>11
     DEF Next, Server, ClientStep

\* The server counts to its limit and no further (lines 59 to 85), and what
\* is sent, echoed and printed are lines without a new line in them.
THEOREM TypeCorrect == Spec => []TypeOK
<1>1. Typed => TypeOK
  BY DEF Typed
<1> QED
  BY InitTyped, StepTyped, <1>1, PTL DEF Spec

-----------------------------------------------------------------------------
(* Echoes.  A client that has not failed waits for each echo before it reads *)
(* the next line: there is at most one datagram of its own on the way.       *)

\* none of its datagrams is in the server's socket
IsAbsent(c, queue) == \A i \in 1 .. Len(queue) : queue[i].sender # c

\* one at most, which has the text t
IsAlone(c, t, queue) ==
  /\ \A i \in 1 .. Len(queue) : queue[i].sender = c => queue[i].text = t
  /\ \A i, j \in 1 .. Len(queue) :
       queue[i].sender = c /\ queue[j].sender = c => i = j

Idle(c) ==
  /\ printed[c] = sent[c]
  /\ echoes[c] = <<>>
  /\ IsAbsent(c, inbox)

Waits(c, t) ==
  /\ sent[c] = Append(printed[c], t)
  /\ IsAlone(c, t, inbox)
  /\ echoes[c] = <<>> \/ (echoes[c] = <<t>> /\ IsAbsent(c, inbox))

InStep(c) ==
  IF client[c] = "recvfrom" THEN \E t \in Text : Waits(c, t) ELSE Idle(c)

AllInStep == \A c \in Client \ failed : InStep(c)

LEMMA TailIs ==
  ASSUME NEW queue \in Seq(Datagram), queue # <<>>
  PROVE  /\ Len(queue) \in Nat /\ Len(Tail(queue)) = Len(queue) - 1
         /\ \A i \in 1 .. Len(Tail(queue)) :
              i + 1 \in 1 .. Len(queue) /\ Tail(queue)[i] = queue[i + 1]
BY HeadTailProperties

\* The server takes datagrams away, which keeps what was said of them.
LEMMA FewerInStep ==
  ASSUME Typed, NEW c \in Client, InStep(c),
         (inbox # <<>> /\ inbox' = Tail(inbox)) \/ inbox' = <<>> \/ inbox' = inbox,
         UNCHANGED <<client[c], sent[c], printed[c], echoes[c]>>
  PROVE  InStep(c)'
<1> USE DEF Typed, TypeOK
<1>1. IsAbsent(c, inbox) => IsAbsent(c, inbox')
  <2>1. CASE inbox # <<>> /\ inbox' = Tail(inbox)
    BY <2>1, TailIs DEF IsAbsent
  <2>2. CASE inbox' = <<>>
    BY <2>2 DEF IsAbsent
  <2> QED
    BY <2>1, <2>2
<1>2. ASSUME NEW t \in Text, IsAlone(c, t, inbox) PROVE IsAlone(c, t, inbox')
  <2>1. CASE inbox # <<>> /\ inbox' = Tail(inbox)
    <3>1. \A i \in 1 .. Len(inbox') :
            i + 1 \in 1 .. Len(inbox) /\ inbox'[i] = inbox[i + 1]
      BY <2>1, TailIs
    <3>2. ASSUME NEW i \in 1 .. Len(inbox'), NEW j \in 1 .. Len(inbox'),
                 inbox'[i].sender = c, inbox'[j].sender = c
          PROVE  i = j
      <4>1. i + 1 = j + 1
        BY <1>2, <3>1, <3>2 DEF IsAlone
      <4>2. i \in Int /\ j \in Int
        OBVIOUS
      <4> QED
        BY <4>1, <4>2
    <3> QED
      BY <1>2, <3>1, <3>2 DEF IsAlone
  <2>2. CASE inbox' = <<>>
    BY <2>2 DEF IsAlone
  <2>3. CASE inbox' = inbox
    BY <1>2, <2>3
  <2> QED
    BY <2>1, <2>2, <2>3
<1>3. ASSUME NEW t \in Text, Waits(c, t) PROVE Waits(c, t)'
  BY <1>1, <1>2, <1>3 DEF Waits
<1>4. Idle(c) => Idle(c)'
  BY <1>1 DEF Idle
<1> QED
  BY <1>3, <1>4 DEF InStep

\* The echo of the first datagram in the server's socket.
LEMMA EchoInStep ==
  ASSUME Typed, ServerRecv, NEW c \in Client, InStep(c)
  PROVE  InStep(c)'
<1> USE DEF Typed, TypeOK
<1> DEFINE d == Head(inbox)
<1>1. inbox # <<>> /\ d = inbox[1] /\ d \in Datagram /\ 1 \in 1 .. Len(inbox)
  BY DEF ServerRecv
<1>2. inbox' = Tail(inbox) \/ inbox' = <<>>
  BY DEF ServerRecv, Rest
<1>3. UNCHANGED <<client, sent, printed>>
  BY DEF ServerRecv, clientVars
<1>4. CASE echoes' = echoes
  BY <1>1, <1>2, <1>3, <1>4, FewerInStep
<1>5. CASE d.sender # c /\ echoes' = [echoes EXCEPT ![d.sender] = Append(@, d.text)]
  BY <1>1, <1>2, <1>3, <1>5, FewerInStep
<1>6. CASE d.sender = c /\ echoes' = [echoes EXCEPT ![c] = Append(@, d.text)]
  <2>1. PICK t \in Text : client[c] = "recvfrom" /\ Waits(c, t)
    BY <1>1, <1>6 DEF InStep, Idle, IsAbsent
  <2>2. d.text = t /\ echoes[c] = <<>>
    BY <1>1, <1>6, <2>1 DEF Waits, IsAlone, IsAbsent
  <2>3. echoes'[c] = <<t>>
    BY <1>6, <2>2
  <2>4. \A i \in 1 .. Len(inbox) : inbox[i].sender = c => i = 1
    BY <1>1, <1>6, <2>1 DEF Waits, IsAlone
  <2>5. IsAbsent(c, inbox')
    <3>1. CASE inbox' = Tail(inbox)
      <4> SUFFICES ASSUME NEW i \in 1 .. Len(inbox'), inbox'[i].sender = c
                   PROVE  FALSE
        BY DEF IsAbsent
      <4>1. i + 1 \in 1 .. Len(inbox) /\ inbox'[i] = inbox[i + 1]
        BY <1>1, <3>1, TailIs
      <4>2. i + 1 = 1 /\ i > 0
        BY <2>4, <4>1
      <4> QED
        BY <4>2
    <3>2. CASE inbox' = <<>>
      BY <3>2 DEF IsAbsent
    <3> QED
      BY <1>2, <3>1, <3>2
  <2>6. IsAlone(c, t, inbox')
    BY <2>5 DEF IsAlone, IsAbsent
  <2> QED
    BY <1>3, <2>1, <2>3, <2>5, <2>6 DEF InStep, Waits
<1> QED
  BY <1>4, <1>5, <1>6 DEF ServerRecv, Echo

\* The other clients of a step of one.
LEMMA OthersInStep ==
  ASSUME Typed, NEW c \in Client, InStep(c), NEW b \in Client, b # c,
         UNCHANGED <<client[c], sent[c], printed[c], echoes[c]>>,
         \/ inbox' = inbox
         \/ \E t \in Text : inbox' = Append(inbox, [sender |-> b, text |-> t])
  PROVE  InStep(c)'
<1> USE DEF Typed, TypeOK
<1>1. CASE inbox' = inbox
  BY <1>1, FewerInStep
<1>2. ASSUME NEW t \in Text, inbox' = Append(inbox, [sender |-> b, text |-> t])
      PROVE  InStep(c)'
  <2> DEFINE d == [sender |-> b, text |-> t]
  <2>1. d \in Datagram /\ d.sender # c
    BY DEF Datagram
  <2> HIDE DEF d
  <2>2. \A i \in 1 .. Len(inbox') :
          inbox'[i].sender = c => i \in 1 .. Len(inbox) /\ inbox'[i] = inbox[i]
    <3>1. inbox' = Append(inbox, d)
      BY <1>2 DEF d
    <3>2. /\ Len(inbox) \in Nat /\ Len(inbox') = Len(inbox) + 1
          /\ inbox'[Len(inbox) + 1] = d
          /\ \A i \in 1 .. Len(inbox) : inbox'[i] = inbox[i]
      BY <2>1, <3>1, AppendProperties
    <3> SUFFICES ASSUME NEW i \in 1 .. Len(inbox'), inbox'[i].sender = c
                 PROVE  i \in 1 .. Len(inbox)
      BY <3>2
    <3> HIDE DEF Typed, TypeOK
    <3>3. i \in 1 .. Len(inbox) \/ i = Len(inbox) + 1
      BY <3>2
    <3> QED
      BY <2>1, <3>2, <3>3
  <2>3. IsAbsent(c, inbox) => IsAbsent(c, inbox')
    BY <2>2 DEF IsAbsent
  <2>4. ASSUME NEW u \in Text, IsAlone(c, u, inbox) PROVE IsAlone(c, u, inbox')
    BY <2>2, <2>4 DEF IsAlone
  <2>5. ASSUME NEW u \in Text, Waits(c, u) PROVE Waits(c, u)'
    BY <2>3, <2>4, <2>5 DEF Waits
  <2>6. Idle(c) => Idle(c)'
    BY <2>3 DEF Idle
  <2> QED
    BY <2>5, <2>6 DEF InStep
<1> QED
  BY <1>1, <1>2

LEMMA SendInStep ==
  ASSUME Typed, NEW c \in Client, Send(c), InStep(c)
  PROVE  InStep(c)'
<1> USE DEF Typed, TypeOK
<1>0. PICK t \in Text : t = Line(stdin[c])
  BY LineIsText DEF Send, ReadLine
<1> DEFINE d == [sender |-> c, text |-> t]
<1>1. d \in Datagram
  BY DEF Datagram
<1>2. printed[c] = sent[c] /\ echoes[c] = <<>> /\ IsAbsent(c, inbox)
  BY DEF Send, ReadLine, InStep, Idle
<1>3. /\ client'[c] = "recvfrom" /\ printed' = printed /\ echoes' = echoes
      /\ sent'[c] = Append(sent[c], t)
  BY <1>0 DEF Send
<1>4. inbox' = inbox \/ inbox' = Append(inbox, d)
  BY <1>0 DEF Send, Arrives
<1>5. d.sender = c /\ d.text = t
  OBVIOUS
<1> HIDE DEF d
<1>6. IsAlone(c, t, inbox')
  <2>1. CASE inbox' = inbox
    BY <1>2, <2>1 DEF IsAlone, IsAbsent
  <2>2. CASE inbox' = Append(inbox, d)
    <3>1. /\ Len(inbox) \in Nat /\ Len(inbox') = Len(inbox) + 1
          /\ inbox'[Len(inbox) + 1] = d
          /\ \A i \in 1 .. Len(inbox) : inbox'[i] = inbox[i]
      BY <1>1, <2>2, AppendProperties
    <3>2. \A i \in 1 .. Len(inbox') : inbox'[i].sender = c => i = Len(inbox) + 1
      <4> SUFFICES ASSUME NEW i \in 1 .. Len(inbox'), inbox'[i].sender = c
                   PROVE  i = Len(inbox) + 1
        OBVIOUS
      <4>1. i \in 1 .. Len(inbox) \/ i = Len(inbox) + 1
        BY <3>1
      <4> QED
        BY <1>2, <3>1, <4>1 DEF IsAbsent
    <3> QED
      BY <1>5, <3>1, <3>2 DEF IsAlone
  <2> QED
    BY <1>4, <2>1, <2>2
<1>7. Waits(c, t)'
  BY <1>2, <1>3, <1>6 DEF Waits
<1> QED
  BY <1>3, <1>7 DEF InStep

LEMMA RecvInStep ==
  ASSUME Typed, NEW c \in Client, Recv(c), InStep(c)
  PROVE  InStep(c)'
<1> USE DEF Typed, TypeOK
<1>1. PICK t \in Text : Waits(c, t)
  BY DEF Recv, InStep
<1>2. echoes[c] = <<t>> /\ IsAbsent(c, inbox) /\ sent[c] = Append(printed[c], t)
  BY <1>1 DEF Recv, Waits
<1>3. printed'[c] = Append(printed[c], t) /\ echoes'[c] = <<>>
  BY <1>2 DEF Recv
<1>4. client'[c] = "fgets" /\ inbox' = inbox /\ sent' = sent
  BY DEF Recv
<1> QED
  BY <1>2, <1>3, <1>4 DEF InStep, Idle

LEMMA StepInStep == Typed /\ AllInStep /\ [Next]_vars => AllInStep'
<1> SUFFICES ASSUME Typed, AllInStep, [Next]_vars, NEW c \in Client \ failed'
             PROVE  InStep(c)'
  BY DEF AllInStep, Typed, TypeOK
<1> USE DEF Typed, TypeOK
<1>0. failed \subseteq failed'
  BY DEF Next, ServerStarts, Server, ServerTimeout, ServerRecvFails, ServerRecv,
         ClientStep, Send, SendFails, Recv, RecvFails, EndOfFile, vars, clientVars
<1>1. c \in Client /\ InStep(c)
  BY <1>0 DEF AllInStep
<1>2. CASE ServerStarts \/ ServerTimeout \/ UNCHANGED vars
  BY <1>1, <1>2, FewerInStep DEF ServerStarts, ServerTimeout, vars, clientVars
<1>3. CASE ServerRecvFails
  BY <1>1, <1>3, FewerInStep DEF ServerRecvFails, Rest, clientVars
<1>4. CASE ServerRecv
  BY <1>1, <1>4, EchoInStep
<1>5. ASSUME NEW b \in Client, Send(b) PROVE InStep(c)'
  <2>1. CASE b = c
    BY <1>1, <1>5, <2>1, SendInStep
  <2>2. CASE b # c
    <3>1. \/ inbox' = inbox
          \/ \E t \in Text : inbox' = Append(inbox, [sender |-> b, text |-> t])
      BY <1>5, LineIsText DEF Send, ReadLine, Arrives
    <3>2. UNCHANGED <<client[c], sent[c], printed[c], echoes[c]>>
      BY <1>5, <2>2 DEF Send
    <3> QED
      BY <1>1, <2>2, <3>1, <3>2, OthersInStep
  <2> QED
    BY <2>1, <2>2
<1>6. ASSUME NEW b \in Client, SendFails(b) PROVE InStep(c)'
  BY <1>1, <1>6, FewerInStep DEF SendFails
<1>7. ASSUME NEW b \in Client, Recv(b) PROVE InStep(c)'
  <2>1. CASE b = c
    BY <1>1, <1>7, <2>1, RecvInStep
  <2>2. CASE b # c
    BY <1>1, <1>7, <2>2, OthersInStep DEF Recv
  <2> QED
    BY <2>1, <2>2
<1>8. ASSUME NEW b \in Client, RecvFails(b) PROVE InStep(c)'
  <2>1. b # c
    BY <1>8 DEF RecvFails
  <2> QED
    BY <1>1, <1>8, <2>1, OthersInStep DEF RecvFails
<1>9. ASSUME NEW b \in Client, EndOfFile(b) PROVE InStep(c)'
  <2>1. CASE b = c
    BY <1>1, <1>9, <2>1 DEF EndOfFile, InStep, Idle
  <2>2. CASE b # c
    BY <1>1, <1>9, <2>2, OthersInStep DEF EndOfFile
  <2> QED
    BY <2>1, <2>2
<1> QED
  BY <1>2, <1>3, <1>4, <1>5, <1>6, <1>7, <1>8, <1>9 DEF Next, Server, ClientStep

LEMMA InStepMatches == Typed /\ AllInStep => EchoesMatch
<1> SUFFICES ASSUME Typed, AllInStep, NEW c \in Client \ failed
             PROVE  IsPrefix(printed[c], sent[c])
  BY DEF EchoesMatch
<1> USE DEF Typed, TypeOK
<1>1. printed[c] \in Seq(Text)
  OBVIOUS
<1>2. CASE Idle(c)
  BY <1>1, <1>2 DEF Idle, IsPrefix
<1>3. ASSUME NEW t \in Text, Waits(c, t) PROVE IsPrefix(printed[c], sent[c])
  <2>1. /\ sent[c] = Append(printed[c], t) /\ sent[c] \in Seq(Text)
        /\ Len(sent[c]) = Len(printed[c]) + 1
        /\ \A i \in 1 .. Len(printed[c]) : sent[c][i] = printed[c][i]
    BY <1>1, <1>3, AppendProperties DEF Waits
  <2>2. SubSeq(sent[c], 1, Len(printed[c])) = SubSeq(printed[c], 1, Len(printed[c]))
    BY <1>1, <2>1
  <2> QED
    BY <1>1, <2>1, <2>2 DEF IsPrefix
<1> QED
  BY <1>2, <1>3 DEF AllInStep, InStep

\* Each client none of whose calls has failed prints the echoes of its own
\* lines in the order it sent them, however many clients there are, whatever
\* is lost and wherever the server's calls fail.
THEOREM EchoCorrect == Spec => []EchoesMatch
<1>1. Init => AllInStep
  BY DEF Init, AllInStep, InStep, Idle, IsAbsent
<1> QED
  BY InitTyped, StepTyped, <1>1, StepInStep, InStepMatches, PTL DEF Spec

-----------------------------------------------------------------------------
(* The number of echoes.                                                    *)

\* the echoes when there are f[c] of each client c
EchoedOf(f) == UNION {{<<c, n>> : n \in 1 .. f[c]} : c \in Client}

LEMMA EchoedIs ==
  ASSUME NEW f, NEW u
  PROVE  u \in EchoedOf(f) <=> \E c \in Client : \E n \in 1 .. f[c] : u = <<c, n>>
BY DEF EchoedOf

\* One more of one client, and no more of the others, are one more in all.
LEMMA OneMoreEchoed ==
  ASSUME NEW f \in [Client -> Nat], NEW g \in [Client -> Nat], NEW d \in Client,
         g[d] <= f[d] + 1, \A c \in Client : c # d => g[c] <= f[c],
         IsFiniteSet(EchoedOf(f))
  PROVE  /\ IsFiniteSet(EchoedOf(g))
         /\ Cardinality(EchoedOf(g)) <= Cardinality(EchoedOf(f)) + 1
<1> DEFINE new == <<d, f[d] + 1>>
           all == EchoedOf(f) \cup {new}
<1>1. EchoedOf(g) \subseteq all
  <2>1. ASSUME NEW c \in Client, NEW n \in 1 .. g[c] PROVE <<c, n>> \in all
    <3>1. n \in 1 .. f[c] \/ (c = d /\ n = f[d] + 1)
      OBVIOUS
    <3> QED
      BY <3>1, EchoedIs
  <2> QED
    BY <2>1, EchoedIs
<1>2. new \notin EchoedOf(f)
  <2> SUFFICES ASSUME NEW c \in Client, NEW n \in 1 .. f[c], new = <<c, n>> PROVE FALSE
    BY EchoedIs
  <2> QED
    OBVIOUS
<1> HIDE DEF new
<1>3. IsFiniteSet(all) /\ Cardinality(all) = Cardinality(EchoedOf(f)) + 1
  BY <1>2, FS_AddElement
<1> HIDE DEF all
<1>4. /\ IsFiniteSet(EchoedOf(g))
      /\ Cardinality(EchoedOf(g)) <= Cardinality(all)
  BY <1>1, <1>3, FS_Subset
<1> QED
  BY <1>3, <1>4

LEMMA NoMoreEchoed ==
  ASSUME NEW f \in [Client -> Nat], NEW g \in [Client -> Nat],
         \A c \in Client : g[c] <= f[c], IsFiniteSet(EchoedOf(f))
  PROVE  /\ IsFiniteSet(EchoedOf(g))
         /\ Cardinality(EchoedOf(g)) <= Cardinality(EchoedOf(f))
<1>1. EchoedOf(g) \subseteq EchoedOf(f)
  <2>1. ASSUME NEW c \in Client, NEW n \in 1 .. g[c] PROVE <<c, n>> \in EchoedOf(f)
    <3>1. n \in 1 .. f[c]
      OBVIOUS
    <3> QED
      BY <3>1, EchoedIs
  <2> QED
    BY <2>1, EchoedIs
<1> QED
  BY <1>1, FS_Subset

AllCounted == IsFiniteSet(Echoed) /\ EchoesAreCounted

LEMMA StepCounted == Typed /\ AllCounted /\ [Next]_vars => AllCounted'
<1> SUFFICES ASSUME Typed, AllCounted, [Next]_vars PROVE AllCounted'
  OBVIOUS
<1>0. Typed'
  BY StepTyped
\* how many echoes each client has had or will have, before and after
<1>1. PICK old \in [Client -> Nat] :
             \A c \in Client : old[c] = Len(printed[c]) + Len(echoes[c])
  <2>1. \A c \in Client : Len(printed[c]) + Len(echoes[c]) \in Nat
    BY DEF Typed, TypeOK
  <2>2. [c \in Client |-> Len(printed[c]) + Len(echoes[c])] \in [Client -> Nat]
    BY <2>1
  <2> QED
    BY <2>2
<1>2. PICK new \in [Client -> Nat] :
             \A c \in Client : new[c] = Len(printed'[c]) + Len(echoes'[c])
  <2>1. \A c \in Client : Len(printed'[c]) + Len(echoes'[c]) \in Nat
    BY <1>0 DEF Typed, TypeOK
  <2>2. [c \in Client |-> Len(printed'[c]) + Len(echoes'[c])] \in [Client -> Nat]
    BY <2>1
  <2> QED
    BY <2>2
<1>3. Echoed = EchoedOf(old) /\ Echoed' = EchoedOf(new)
  <2>1. Echoed = EchoedOf(old)
    BY <1>1 DEF Echoed, EchoedOf
  <2>2. Echoed' = EchoedOf(new)
    BY <1>2 DEF Echoed, EchoedOf
  <2> QED
    BY <2>1, <2>2
<1>4. /\ IsFiniteSet(EchoedOf(old)) /\ Cardinality(EchoedOf(old)) <= message_count
      /\ Cardinality(EchoedOf(old)) \in Nat /\ message_count \in Nat
  BY <1>3, FS_CardinalityType DEF AllCounted, EchoesAreCounted, Typed, TypeOK
<1>5. message_count' \in Nat
  BY <1>0 DEF Typed, TypeOK
\* One more of one client: only where the server counts.
<1>6. ASSUME NEW d \in Client, new[d] <= old[d] + 1,
             \A c \in Client : c # d => new[c] <= old[c],
             message_count' = message_count + 1
      PROVE  AllCounted'
  <2>1. /\ IsFiniteSet(EchoedOf(new))
        /\ Cardinality(EchoedOf(new)) <= Cardinality(EchoedOf(old)) + 1
    BY <1>4, <1>6, OneMoreEchoed
  <2>2. Cardinality(EchoedOf(new)) \in Nat
    BY <2>1, FS_CardinalityType
  <2> QED
    BY <1>3, <1>4, <1>6, <2>1, <2>2 DEF AllCounted, EchoesAreCounted
<1>7. ASSUME \A c \in Client : new[c] <= old[c], message_count' >= message_count
      PROVE  AllCounted'
  <2>1. /\ IsFiniteSet(EchoedOf(new))
        /\ Cardinality(EchoedOf(new)) <= Cardinality(EchoedOf(old))
    BY <1>4, <1>7, NoMoreEchoed
  <2>2. Cardinality(EchoedOf(new)) \in Nat
    BY <2>1, FS_CardinalityType
  <2> QED
    BY <1>3, <1>4, <1>5, <1>7, <2>1, <2>2 DEF AllCounted, EchoesAreCounted
\* Where nothing is printed or echoed.
<1>8. ASSUME UNCHANGED <<printed, echoes>>, message_count' >= message_count
      PROVE  AllCounted'
  <2>1. \A c \in Client : new[c] = old[c]
    BY <1>1, <1>2, <1>8
  <2> QED
    BY <1>7, <1>8, <2>1
<1> USE DEF Typed, TypeOK
<1>9. CASE ServerStarts \/ ServerTimeout \/ ServerRecvFails \/ UNCHANGED vars
  <2>1. UNCHANGED <<printed, echoes>>
    BY <1>9 DEF ServerStarts, ServerTimeout, ServerRecvFails, vars, clientVars
  <2>2. message_count' = message_count \/ message_count' = message_count + 1
    BY <1>9 DEF ServerStarts, ServerTimeout, ServerRecvFails, Counted, vars, serverVars
  <2> QED
    BY <1>4, <1>8, <2>1, <2>2
<1>10. CASE ServerRecv
  <2> DEFINE d == Head(inbox)
  <2>1. d \in Datagram /\ message_count' = message_count + 1 /\ printed' = printed
    BY <1>10 DEF ServerRecv, Counted, clientVars
  <2>2. d.sender \in Client /\ d.text \in Text
    BY <2>1 DEF Datagram
  <2>3. CASE echoes' = echoes
    BY <1>4, <1>8, <2>1, <2>3
  <2>4. CASE echoes' = [echoes EXCEPT ![d.sender] = Append(@, d.text)]
    <3>1. Len(echoes'[d.sender]) = Len(echoes[d.sender]) + 1
      BY <2>2, <2>4
    <3>2. \A c \in Client : c # d.sender => echoes'[c] = echoes[c]
      BY <2>2, <2>4
    <3>3. /\ new[d.sender] <= old[d.sender] + 1
          /\ \A c \in Client : c # d.sender => new[c] <= old[c]
      <4> SUFFICES ASSUME NEW c \in Client
                   PROVE  new[c] <= IF c = d.sender THEN old[c] + 1 ELSE old[c]
        BY <2>2
      <4> DEFINE p == Len(printed[c])
                 q == Len(echoes[c])
                 s == Len(echoes'[c])
      <4>1. new[c] = p + s /\ old[c] = p + q
        BY <1>1, <1>2, <2>1
      <4>2. p \in Nat /\ q \in Nat
        OBVIOUS
      <4>3. s = IF c = d.sender THEN q + 1 ELSE q
        BY <3>1, <3>2
      <4> HIDE DEF p, q, s
      <4> QED
        BY <4>1, <4>2, <4>3
    <3> QED
      BY <1>6, <2>1, <2>2, <3>3
  <2> QED
    BY <1>10, <2>3, <2>4 DEF ServerRecv, Echo
<1>11. ASSUME NEW c \in Client, Send(c) \/ SendFails(c) \/ RecvFails(c)
       PROVE  AllCounted'
  <2>1. UNCHANGED <<printed, echoes, message_count>>
    BY <1>11 DEF Send, SendFails, RecvFails, serverVars
  <2> QED
    BY <1>4, <1>8, <2>1
\* An echo that is printed is no longer on its way.
<1>12. ASSUME NEW c \in Client, Recv(c) PROVE AllCounted'
  <2>1. /\ Len(printed'[c]) = Len(printed[c]) + 1
        /\ Len(echoes'[c]) = Len(echoes[c]) - 1
    BY <1>12 DEF Recv
  <2>2. \A b \in Client : b # c => printed'[b] = printed[b] /\ echoes'[b] = echoes[b]
    BY <1>12 DEF Recv
  <2>3. ASSUME NEW b \in Client PROVE new[b] <= old[b]
    <3> DEFINE p == Len(printed[b])
               q == Len(echoes[b])
               r == Len(printed'[b])
               s == Len(echoes'[b])
    <3>1. new[b] = r + s /\ old[b] = p + q
      BY <1>1, <1>2
    <3>2. p \in Nat /\ q \in Nat
      OBVIOUS
    <3>3. (r = p + 1 /\ s = q - 1) \/ (r = p /\ s = 0) \/ (r = p /\ s = q)
      BY <2>1, <2>2
    <3> HIDE DEF p, q, r, s
    <3> QED
      BY <3>1, <3>2, <3>3
  <2> QED
    BY <1>4, <1>7, <1>12, <2>3 DEF Recv, serverVars
<1>13. ASSUME NEW c \in Client, EndOfFile(c) PROVE AllCounted'
  <2>1. printed' = printed /\ Len(echoes'[c]) = 0 /\ Len(echoes[c]) \in Nat
    BY <1>13 DEF EndOfFile
  <2>2. \A b \in Client : b # c => echoes'[b] = echoes[b]
    BY <1>13 DEF EndOfFile
  <2>3. ASSUME NEW b \in Client PROVE new[b] <= old[b]
    <3> DEFINE p == Len(printed[b])
               q == Len(echoes[b])
               r == Len(printed'[b])
               s == Len(echoes'[b])
    <3>1. new[b] = r + s /\ old[b] = p + q
      BY <1>1, <1>2
    <3>2. p \in Nat /\ q \in Nat
      OBVIOUS
    <3>3. (r = p + 1 /\ s = q - 1) \/ (r = p /\ s = 0) \/ (r = p /\ s = q)
      BY <2>1, <2>2
    <3> HIDE DEF p, q, r, s
    <3> QED
      BY <3>1, <3>2, <3>3
  <2> QED
    BY <1>4, <1>7, <1>13, <2>3 DEF EndOfFile, serverVars
<1> QED
  BY <1>9, <1>10, <1>11, <1>12, <1>13 DEF Next, Server, ClientStep

\* However many clients there are and whatever fails, the echoes that have
\* been printed and those on their way are no more than the server has
\* counted, which is its limit at most (lines 59 to 85 of the server).
THEOREM CountCorrect == Spec => []EchoesAreCounted
<1>1. Init => AllCounted
  <2> SUFFICES ASSUME Init PROVE AllCounted
    OBVIOUS
  <2>1. Echoed = {}
    BY DEF Init, Echoed
  <2> QED
    BY <2>1, FS_EmptySet DEF Init, AllCounted, EchoesAreCounted
<1>2. AllCounted => EchoesAreCounted
  BY DEF AllCounted
<1> QED
  BY InitTyped, StepTyped, StepCounted, <1>1, <1>2, PTL DEF Spec

-----------------------------------------------------------------------------
(* Sequences of sequences, one behind the other.                            *)

\* What holds at the start and of each number if of the one before holds of all.
LEMMA FromTheStart ==
  ASSUME NEW n \in Nat, NEW S, 0 \in S, \A k \in 0 .. n - 1 : k \in S => k + 1 \in S
  PROVE  0 .. n \subseteq S
<1> DEFINE Bad == {k \in 0 .. n : k \notin S}
<1>1. SUFFICES ASSUME Bad # {} PROVE FALSE
  OBVIOUS
<1>2. Bad \in SUBSET Nat
  OBVIOUS
<1> DEFINE m == Min(Bad)
<1>3. m \in Bad /\ \A k \in Bad : m <= k
  BY <1>1, <1>2, LeastIn
<1> HIDE DEF m
<1>4. m \in 0 .. n /\ m \notin S /\ m # 0
  BY <1>3
<1>5. m - 1 \in 0 .. n - 1 /\ m - 1 \in 0 .. n /\ m - 1 < m /\ (m - 1) + 1 = m
  BY <1>4
<1>6. m - 1 \in S
  BY <1>3, <1>5
<1> QED
  BY <1>4, <1>5, <1>6

\* the first parts of a sequence of texts, up to each
AreJoined(g, q, n) ==
  /\ g \in [1 .. n -> Seq(Char)]
  /\ \A i \in 1 .. n : g[i] = IF i = 1 THEN q[i] ELSE g[i - 1] \o q[i]

LEMMA JoinedExist ==
  ASSUME NEW q \in Seq(Seq(Char))
  PROVE  \E g : AreJoined(g, q, Len(q))
<1> DEFINE m == Len(q)
           S == {n \in 0 .. m : \E g : AreJoined(g, q, n)}
<1>1. m \in Nat /\ \A i \in 1 .. m : q[i] \in Seq(Char)
  BY ElementOfSeq
<1> HIDE DEF m
<1>2. 0 \in S
  <2>1. AreJoined(<<>>, q, 0)
    BY DEF AreJoined
  <2> QED
    BY <1>1, <2>1
<1>3. ASSUME NEW n \in 0 .. m - 1, n \in S PROVE n + 1 \in S
  <2>1. PICK g : AreJoined(g, q, n)
    BY <1>3
  <2> DEFINE last == IF n = 0 THEN q[1] ELSE g[n] \o q[n + 1]
             f == [i \in 1 .. n + 1 |-> IF i = n + 1 THEN last ELSE g[i]]
  <2>2. n \in Nat /\ n + 1 \in 1 .. m /\ 1 \in 1 .. m
    BY <1>1
  <2>3. last \in Seq(Char)
    <3>1. CASE n = 0
      BY <1>1, <2>2, <3>1
    <3>2. CASE n # 0
      <4>1. n \in 1 .. n
        BY <2>2, <3>2
      <4>2. g[n] \in Seq(Char) /\ q[n + 1] \in Seq(Char)
        BY <1>1, <2>1, <2>2, <4>1 DEF AreJoined
      <4> QED
        BY <3>2, <4>2, ConcatProperties
    <3> QED
      BY <3>1, <3>2
  <2>4. last = IF n + 1 = 1 THEN q[n + 1] ELSE g[n + 1 - 1] \o q[n + 1]
    <3>1. n + 1 - 1 = n /\ (n + 1 = 1 <=> n = 0)
      BY <2>2
    <3> QED
      BY <3>1
  <2> HIDE DEF last
  <2>5. ASSUME NEW i \in 1 .. n + 1
        PROVE  /\ f[i] \in Seq(Char)
               /\ f[i] = IF i = 1 THEN q[i] ELSE f[i - 1] \o q[i]
    <3>1. CASE i = n + 1
      <4>1. n # 0 => n \in 1 .. n + 1 /\ n # n + 1
        BY <2>2
      <4>2. n + 1 = 1 <=> n = 0
        BY <2>2
      <4>3. n + 1 - 1 = n
        BY <2>2
      <4>4. f[n + 1] = last /\ (n # 0 => f[n] = g[n])
        BY <2>2, <4>1
      <4> HIDE DEF f
      <4> QED
        BY <2>3, <2>4, <3>1, <4>2, <4>3, <4>4
    <3>2. CASE i # n + 1
      <4>1. i \in 1 .. n /\ (i # 1 => i - 1 \in 1 .. n /\ i - 1 # n + 1)
        BY <2>2, <3>2
      <4>2. f[i] = g[i] /\ (i # 1 => f[i - 1] = g[i - 1])
        BY <3>2, <4>1
      <4> HIDE DEF f
      <4> QED
        BY <2>1, <4>1, <4>2 DEF AreJoined
    <3> QED
      BY <3>1, <3>2
  <2>6. f \in [1 .. n + 1 -> Seq(Char)]
    <3>1. \A i \in 1 .. n + 1 : f[i] \in Seq(Char)
      BY <2>5
    <3>2. f = [i \in 1 .. n + 1 |-> f[i]]
      OBVIOUS
    <3> HIDE DEF f
    <3> QED
      BY <3>1, <3>2
  <2> HIDE DEF f
  <2>7. AreJoined(f, q, n + 1)
    BY <2>5, <2>6 DEF AreJoined
  <2>8. n + 1 \in 0 .. m
    BY <1>1, <2>2
  <2> QED
    BY <2>7, <2>8
<1> HIDE DEF S
<1>4. 0 .. m \subseteq S
  BY <1>1, <1>2, <1>3, FromTheStart
<1>5. m \in 0 .. m
  BY <1>1
<1> QED
  BY <1>4, <1>5 DEF S, m

\* FlattenSeq is the last of any such parts.
LEMMA FlattenIs ==
  ASSUME NEW q \in Seq(Seq(Char)), NEW g, AreJoined(g, q, Len(q))
  PROVE  FlattenSeq(q) = IF Len(q) = 0 THEN <<>> ELSE g[Len(q)]
<1> DEFINE m == Len(q)
           value(f, i) == IF i = 1 THEN q[i] ELSE f[i - 1] \o q[i]
           c == CHOOSE f : f = [i \in 1 .. Len(q) |-> value(f, i)]
<1>1. m \in Nat
  OBVIOUS
<1>2. CASE m = 0
  <2>1. q = <<>>
    BY <1>2
  <2> QED
    BY <1>2, <2>1 DEF FlattenSeq
<1>3. CASE m # 0
  <2>1. FlattenSeq(q) = c[m]
    BY <1>3 DEF FlattenSeq
  <2>2. g = [i \in 1 .. Len(q) |-> value(g, i)]
    <3>1. \A i \in 1 .. Len(q) : g[i] = value(g, i)
      BY DEF AreJoined
    <3> HIDE DEF value
    <3> QED
      BY <3>1 DEF AreJoined
  <2>3. c = [i \in 1 .. Len(q) |-> value(c, i)]
    <3> HIDE DEF value
    <3> QED
      BY <2>2
  <2>4. \A i \in 1 .. m : c[i] = value(c, i) /\ g[i] = value(g, i)
    <3> HIDE DEF value, c
    <3> QED
      BY <2>2, <2>3
  <2> HIDE DEF c
  <2> DEFINE S == {k \in 0 .. m : k = 0 \/ c[k] = g[k]}
  <2>5. 0 \in S
    BY <1>1
  <2>6. ASSUME NEW k \in 0 .. m - 1, k \in S PROVE k + 1 \in S
    <3>1. k + 1 \in 1 .. m /\ k + 1 - 1 = k /\ k + 1 \in 0 .. m /\ (k + 1 = 1 <=> k = 0)
      BY <1>1
    <3>2. c[k + 1] = value(c, k + 1) /\ g[k + 1] = value(g, k + 1)
      <4> HIDE DEF value
      <4> QED
        BY <2>4, <3>1
    <3>3. c[k + 1] = g[k + 1]
      BY <2>6, <3>1, <3>2
    <3> QED
      BY <3>1, <3>3
  <2> HIDE DEF S
  <2>7. m \in S
    <3>1. 0 .. m \subseteq S
      BY <1>1, <2>5, <2>6, FromTheStart
    <3> QED
      BY <1>1, <3>1
  <2>8. c[m] = g[m]
    BY <1>3, <2>7 DEF S
  <2> QED
    BY <1>3, <2>1, <2>8
<1> QED
  BY <1>2, <1>3

LEMMA FlattenType ==
  ASSUME NEW q \in Seq(Seq(Char))
  PROVE  FlattenSeq(q) \in Seq(Char)
<1>1. PICK g : AreJoined(g, q, Len(q))
  BY JoinedExist
<1>2. CASE Len(q) = 0
  <2>1. <<>> \in Seq(Char)
    OBVIOUS
  <2> QED
    BY <1>1, <1>2, <2>1, FlattenIs
<1>3. CASE Len(q) # 0
  <2>1. Len(q) \in 1 .. Len(q)
    BY <1>3
  <2> QED
    BY <1>1, <1>3, <2>1, FlattenIs DEF AreJoined
<1> QED
  BY <1>2, <1>3

LEMMA FlattenAppend ==
  ASSUME NEW q \in Seq(Seq(Char)), NEW t \in Seq(Char)
  PROVE  FlattenSeq(Append(q, t)) = FlattenSeq(q) \o t
<1> DEFINE n == Len(q)
           r == Append(q, t)
<1>1. /\ r \in Seq(Seq(Char)) /\ Len(r) = n + 1 /\ n \in Nat
      /\ r[n + 1] = t /\ \A i \in 1 .. n : r[i] = q[i]
  BY AppendProperties
<1>2. PICK g : AreJoined(g, r, Len(r))
  BY <1>1, JoinedExist
<1> HIDE DEF r
<1>3. FlattenSeq(r) = g[n + 1]
  BY <1>1, <1>2, FlattenIs
<1>4. CASE n = 0
  <2>1. FlattenSeq(q) = <<>>
    BY <1>4 DEF FlattenSeq
  <2>2. g[n + 1] = t
    BY <1>1, <1>2, <1>4 DEF AreJoined
  <2>3. <<>> \o t = t
    BY ConcatEmptySeq
  <2> QED
    BY <1>3, <2>1, <2>2, <2>3 DEF r
<1>5. CASE n # 0
  <2> DEFINE h == [i \in 1 .. n |-> g[i]]
  <2>1. AreJoined(h, q, n)
    <3>1. ASSUME NEW i \in 1 .. n
          PROVE  h[i] \in Seq(Char) /\ h[i] = IF i = 1 THEN q[i] ELSE h[i - 1] \o q[i]
      <4>1. i \in 1 .. n + 1 /\ (i # 1 => i - 1 \in 1 .. n)
        BY <1>1
      <4>2. h[i] = g[i] /\ (i # 1 => h[i - 1] = g[i - 1])
        BY <4>1
      <4> HIDE DEF h
      <4> QED
        BY <1>1, <1>2, <4>1, <4>2 DEF AreJoined
    <3>2. h = [i \in 1 .. n |-> h[i]]
      OBVIOUS
    <3> HIDE DEF h
    <3> QED
      BY <3>1, <3>2 DEF AreJoined
  <2>2. n \in 1 .. n /\ n + 1 \in 1 .. n + 1 /\ n + 1 # 1 /\ n + 1 - 1 = n
    BY <1>1, <1>5
  <2>3. FlattenSeq(q) = g[n]
    <3>1. h[n] = g[n]
      BY <2>2
    <3> HIDE DEF h
    <3>2. FlattenSeq(q) = h[n]
      BY <1>5, <2>1, FlattenIs
    <3> QED
      BY <3>1, <3>2
  <2>4. g[n + 1] = g[n] \o t
    <3>1. g[n + 1] = IF n + 1 = 1 THEN r[n + 1] ELSE g[n + 1 - 1] \o r[n + 1]
      <4>1. \A i \in 1 .. n + 1 : g[i] = IF i = 1 THEN r[i] ELSE g[i - 1] \o r[i]
        BY <1>1, <1>2 DEF AreJoined
      <4> DEFINE l == n + 1
      <4>2. l \in 1 .. n + 1
        BY <2>2
      <4> HIDE DEF l
      <4>3. g[l] = IF l = 1 THEN r[l] ELSE g[l - 1] \o r[l]
        BY <4>1, <4>2
      <4> QED
        BY <4>3 DEF l
    <3> QED
      BY <1>1, <2>2, <3>1
  <2> QED
    BY <1>3, <2>3, <2>4 DEF r
<1> QED
  BY <1>4, <1>5

\* what is left of a character
Kept(x) == IF x = NEWLINE THEN <<>> ELSE <<x>>

KeptOf(s) == [i \in DOMAIN s |-> Kept(s[i])]

LEMMA KeptType ==
  ASSUME NEW s \in Seq(Char)
  PROVE  KeptOf(s) \in Seq(Seq(Char)) /\ Unended(s) = FlattenSeq(KeptOf(s))
<1>1. DOMAIN s = 1 .. Len(s) /\ Len(s) \in Nat
  OBVIOUS
<1>2. ASSUME NEW i \in 1 .. Len(s) PROVE Kept(s[i]) \in Seq(Char)
  <2>1. s[i] \in Char
    BY ElementOfSeq
  <2> QED
    BY <2>1 DEF Kept
<1>3. KeptOf(s) \in Seq(Seq(Char))
  BY <1>1, <1>2 DEF KeptOf
<1>4. Unended(s) = FlattenSeq(KeptOf(s))
  BY DEF Unended, KeptOf, Kept
<1> QED
  BY <1>3, <1>4

LEMMA UnendedEmpty == Unended(<<>>) = <<>>
<1>1. KeptOf(<<>>) = <<>>
  BY DEF KeptOf
<1>2. <<>> \in Seq(Char)
  OBVIOUS
<1>3. FlattenSeq(<<>>) = <<>>
  BY DEF FlattenSeq
<1> QED
  BY <1>1, <1>2, <1>3, KeptType

LEMMA UnendedAppend ==
  ASSUME NEW s \in Seq(Char), NEW x \in Char
  PROVE  /\ Unended(Append(s, x)) = Unended(s) \o Kept(x)
         /\ Unended(s) \in Seq(Char) /\ Kept(x) \in Seq(Char)
<1> DEFINE n == Len(s)
           r == Append(s, x)
<1>1. /\ r \in Seq(Char) /\ Len(r) = n + 1 /\ n \in Nat
      /\ r[n + 1] = x /\ \A i \in 1 .. n : r[i] = s[i]
  BY AppendProperties
<1>2. KeptOf(s) \in Seq(Seq(Char)) /\ Kept(x) \in Seq(Char)
  BY KeptType DEF Kept
<1>3. /\ Len(KeptOf(s)) = n /\ \A i \in 1 .. n : KeptOf(s)[i] = Kept(s[i])
  BY DEF KeptOf
<1> HIDE DEF r
<1>4. /\ KeptOf(r) \in Seq(Seq(Char)) /\ Len(KeptOf(r)) = n + 1
      /\ \A i \in 1 .. n + 1 : KeptOf(r)[i] = Kept(r[i])
  <2>1. KeptOf(r) \in Seq(Seq(Char))
    BY <1>1, KeptType
  <2>2. DOMAIN r = 1 .. n + 1
    BY <1>1
  <2>3. KeptOf(r) = [i \in 1 .. n + 1 |-> Kept(r[i])]
    BY <2>2 DEF KeptOf
  <2> QED
    BY <1>1, <2>1, <2>3
<1>5. KeptOf(r) = Append(KeptOf(s), Kept(x))
  <2> DEFINE a == KeptOf(s)
             b == KeptOf(r)
             e == Kept(x)
  <2>1. a \in Seq(Seq(Char)) /\ Len(a) = n /\ e \in Seq(Char)
        /\ b \in Seq(Seq(Char)) /\ Len(b) = n + 1
    BY <1>2, <1>3, <1>4
  <2>2. \A i \in 1 .. n : b[i] = a[i]
    <3>1. \A i \in 1 .. n : i \in 1 .. n + 1
      BY <1>1
    <3> QED
      BY <1>1, <1>3, <1>4, <3>1
  <2>3. b[n + 1] = e
    <3>1. n + 1 \in 1 .. n + 1
      BY <1>1
    <3> QED
      BY <1>1, <1>4, <3>1
  <2> HIDE DEF a, b, e
  <2>4. b = Append(a, e)
    BY <1>1, <2>1, <2>2, <2>3, AppendProperties, SeqEqual
  <2> QED
    BY <2>4 DEF a, b, e
<1>6. Unended(r) = FlattenSeq(KeptOf(s)) \o Kept(x)
  BY <1>1, <1>2, <1>5, KeptType, FlattenAppend
<1>7. Unended(s) \in Seq(Char)
  BY KeptType, FlattenType
<1> QED
  BY <1>2, <1>6, <1>7, KeptType DEF r

LEMMA PrefixGrows ==
  ASSUME NEW s \in Seq(Char)
  PROVE  /\ SubSeq(s, 1, 0) = <<>> /\ SubSeq(s, 1, Len(s)) = s
         /\ \A k \in 0 .. Len(s) - 1 :
              /\ SubSeq(s, 1, k) \in Seq(Char) /\ s[k + 1] \in Char
              /\ SubSeq(s, 1, k + 1) = Append(SubSeq(s, 1, k), s[k + 1])
<1>1. SubSeq(s, 1, 0) = <<>> /\ SubSeq(s, 1, Len(s)) = s
  OBVIOUS
<1>2. ASSUME NEW k \in 0 .. Len(s) - 1
      PROVE  /\ SubSeq(s, 1, k) \in Seq(Char) /\ s[k + 1] \in Char
             /\ SubSeq(s, 1, k + 1) = Append(SubSeq(s, 1, k), s[k + 1])
  <2>1. k \in Nat /\ k + 1 \in 1 .. Len(s)
    OBVIOUS
  <2>2. s[k + 1] \in Char
    BY <2>1, ElementOfSeq
  <2>3. SubSeq(s, 1, k) \in Seq(Char) /\ Len(SubSeq(s, 1, k)) = k
        /\ \A i \in 1 .. k : SubSeq(s, 1, k)[i] = s[i]
    BY <2>1
  <2>4. SubSeq(s, 1, k + 1) \in Seq(Char) /\ Len(SubSeq(s, 1, k + 1)) = k + 1
        /\ \A i \in 1 .. k + 1 : SubSeq(s, 1, k + 1)[i] = s[i]
    BY <2>1
  <2> DEFINE a == SubSeq(s, 1, k)
             b == SubSeq(s, 1, k + 1)
             x == s[k + 1]
  <2>5. \A i \in 1 .. k : b[i] = a[i]
    <3>1. \A i \in 1 .. k : i \in 1 .. k + 1
      BY <2>1
    <3> QED
      BY <2>3, <2>4, <3>1
  <2>6. b[k + 1] = x /\ a \in Seq(Char) /\ b \in Seq(Char) /\ x \in Char
        /\ Len(a) = k /\ Len(b) = k + 1
    BY <2>1, <2>2, <2>3, <2>4
  <2> HIDE DEF a, b, x
  <2>7. b = Append(a, x)
    BY <2>1, <2>5, <2>6, AppendProperties, SeqEqual
  <2> QED
    BY <2>2, <2>3, <2>7 DEF a, b, x
<1> QED
  BY <1>1, <1>2

\* New lines are left out of each part of a text by itself.
LEMMA UnendedConcat ==
  ASSUME NEW p \in Seq(Char), NEW s \in Seq(Char)
  PROVE  Unended(p \o s) = Unended(p) \o Unended(s)
<1> DEFINE n == Len(s)
           upto(k) == SubSeq(s, 1, k)
           S == {k \in 0 .. n : Unended(p \o upto(k)) = Unended(p) \o Unended(upto(k))}
<1>1. n \in Nat
  OBVIOUS
<1>2. /\ upto(0) = <<>> /\ upto(n) = s
      /\ \A k \in 0 .. n - 1 : /\ upto(k) \in Seq(Char) /\ s[k + 1] \in Char
                              /\ upto(k + 1) = Append(upto(k), s[k + 1])
  BY PrefixGrows
<1> HIDE DEF upto, n
<1>3. 0 \in S
  <2>1. p \o <<>> = p
    BY ConcatEmptySeq
  <2>2. Unended(p) \in Seq(Char)
    BY KeptType, FlattenType
  <2>3. Unended(p) \o <<>> = Unended(p)
    BY <2>2, ConcatEmptySeq
  <2>4. Unended(p \o upto(0)) = Unended(p) \o Unended(upto(0))
    BY <1>2, <2>1, <2>3, UnendedEmpty
  <2>5. 0 \in 0 .. n
    BY <1>1
  <2> QED
    BY <2>4, <2>5
<1>4. ASSUME NEW k \in 0 .. n - 1, k \in S PROVE k + 1 \in S
  <2> DEFINE a == upto(k)
             x == s[k + 1]
             u == Unended(p)
             v == Unended(a)
             e == Kept(x)
  <2>1. a \in Seq(Char) /\ x \in Char /\ upto(k + 1) = Append(a, x)
    BY <1>2
  <2> HIDE DEF x
  <2>2. Unended(Append(a, x)) = v \o e /\ v \in Seq(Char) /\ e \in Seq(Char)
    BY <2>1, UnendedAppend
  <2>3. p \o Append(a, x) = Append(p \o a, x) /\ p \o a \in Seq(Char)
    <3>1. p \o Append(a, x) = Append(p \o a, x)
      BY <2>1, AppendIsConcat, ConcatAssociative, ConcatProperties
    <3> QED
      BY <2>1, <3>1, ConcatProperties
  <2>4. Unended(Append(p \o a, x)) = Unended(p \o a) \o e
    BY <2>1, <2>3, UnendedAppend
  <2>5. Unended(p \o a) = u \o v
    BY <1>4
  <2>6. u \in Seq(Char)
    BY KeptType, FlattenType
  <2>7. (u \o v) \o e = u \o (v \o e)
    <3> HIDE DEF u, v, e
    <3> QED
      BY <2>2, <2>6, ConcatAssociative
  <2>8. Unended(p \o upto(k + 1)) = Unended(p) \o Unended(upto(k + 1))
    BY <2>1, <2>2, <2>3, <2>4, <2>5, <2>7
  <2> QED
    BY <1>1, <2>8
<1> HIDE DEF S
<1>5. n \in S
  <2>1. 0 .. n \subseteq S
    BY <1>1, <1>3, <1>4, FromTheStart
  <2> QED
    BY <1>1, <2>1
<1> QED
  BY <1>2, <1>5 DEF S

\* A text without new lines stays what it is.
LEMMA UnendedSame ==
  ASSUME NEW s \in Seq(Char), \A i \in 1 .. Len(s) : s[i] # NEWLINE
  PROVE  Unended(s) = s
<1> DEFINE n == Len(s)
           upto(k) == SubSeq(s, 1, k)
           S == {k \in 0 .. n : Unended(upto(k)) = upto(k)}
<1>1. n \in Nat
  OBVIOUS
<1>2. /\ upto(0) = <<>> /\ upto(n) = s
      /\ \A k \in 0 .. n - 1 : /\ upto(k) \in Seq(Char) /\ s[k + 1] \in Char
                              /\ upto(k + 1) = Append(upto(k), s[k + 1])
  BY PrefixGrows
<1>3. \A k \in 0 .. n - 1 : s[k + 1] # NEWLINE
  <2>1. \A k \in 0 .. n - 1 : k + 1 \in 1 .. n
    BY <1>1
  <2> QED
    BY <2>1
<1> HIDE DEF upto, n
<1>4. 0 \in S
  BY <1>1, <1>2, UnendedEmpty
<1>5. ASSUME NEW k \in 0 .. n - 1, k \in S PROVE k + 1 \in S
  <2> DEFINE a == upto(k)
             x == s[k + 1]
  <2>1. a \in Seq(Char) /\ x \in Char /\ upto(k + 1) = Append(a, x) /\ x # NEWLINE
    BY <1>2, <1>3
  <2> HIDE DEF x
  <2>2. Unended(Append(a, x)) = Unended(a) \o <<x>>
    BY <2>1, UnendedAppend DEF Kept
  <2>3. Unended(a) = a
    BY <1>5
  <2>4. a \o <<x>> = Append(a, x)
    BY <2>1, AppendIsConcat
  <2>5. Unended(upto(k + 1)) = upto(k + 1)
    BY <2>1, <2>2, <2>3, <2>4
  <2>6. k + 1 \in 0 .. n
    BY <1>1
  <2> QED
    BY <2>5, <2>6
<1> HIDE DEF S
<1>6. n \in S
  <2>1. 0 .. n \subseteq S
    BY <1>1, <1>4, <1>5, FromTheStart
  <2> QED
    BY <1>1, <2>1
<1> QED
  BY <1>2, <1>6 DEF S

-----------------------------------------------------------------------------
(* What is typed.                                                           *)

\* A line is what fgets() reads without its new line, it fits into the buffer,
\* and the rest is what comes next.
LEMMA LineIsUnended ==
  ASSUME NEW s \in Seq(Char), s # <<>>
  PROVE  /\ Unended(Piece(s)) = Line(s) /\ Line(s) \in Seq(Char)
         /\ Len(Line(s)) < LINE_SIZE
         /\ s = Piece(s) \o SubSeq(s, Len(Piece(s)) + 1, Len(s))
<1> DEFINE ends == {Len(s), LINE_SIZE - 1} \cup {i \in DOMAIN s : s[i] = NEWLINE}
           p == Piece(s)
           n == Len(p)
           m == Len(s)
<1>1. /\ p \in Seq(Char) /\ n \in 1 .. m /\ n \in Nat /\ m \in Nat
      /\ \A i \in 1 .. n - 1 : p[i] # NEWLINE
  BY PieceIs
<1>2. p = SubSeq(s, 1, n) /\ n < LINE_SIZE
  <2>1. m \in Nat \ {0} /\ LINE_SIZE \in Nat /\ LINE_SIZE - 1 \in Nat
    BY ShoutAssumption
  <2>2. ends \in SUBSET Nat /\ ends # {}
    <3>1. {i \in DOMAIN s : s[i] = NEWLINE} \subseteq Nat
      OBVIOUS
    <3> QED
      BY <2>1, <3>1
  <2>3. Min(ends) \in ends /\ \A i \in ends : Min(ends) <= i
    BY <2>2, LeastIn
  <2>4. p = SubSeq(s, 1, Min(ends))
    BY DEF Piece
  <2>5. Min(ends) \in Nat /\ Min(ends) <= LINE_SIZE - 1 /\ Min(ends) <= m
    BY <2>2, <2>3
  <2> DEFINE l == Min(ends)
  <2> HIDE DEF ends, l, p
  <2>6. Len(p) = l
    <3>1. l \in Nat /\ l <= m /\ p = SubSeq(s, 1, l)
      BY <2>4, <2>5 DEF l
    <3> QED
      BY <3>1
  <2>7. l = Min(ends)
    BY DEF l
  <2> QED
    BY <2>1, <2>4, <2>5, <2>6, <2>7
<1>3. s = p \o SubSeq(s, n + 1, m)
  <2> DEFINE a == SubSeq(s, 1, n)
             b == SubSeq(s, n + 1, m)
  <2>1. /\ a \in Seq(Char) /\ Len(a) = n /\ \A i \in 1 .. n : a[i] = s[i]
    BY <1>1
  <2>2. /\ b \in Seq(Char) /\ Len(b) = m - n
        /\ \A i \in 1 .. m - n : b[i] = s[n + i]
    BY <1>1
  <2> HIDE DEF a, b
  <2>3. a \o b \in Seq(Char) /\ Len(a \o b) = n + (m - n)
        /\ \A i \in 1 .. n + (m - n) : (a \o b)[i] = IF i <= n THEN a[i] ELSE b[i - n]
    <3>1. a \in Seq(Char) /\ b \in Seq(Char) /\ Len(a) = n /\ Len(b) = m - n
      BY <2>1, <2>2
    <3> HIDE DEF n, m
    <3>2. a \o b \in Seq(Char) /\ Len(a \o b) = Len(a) + Len(b)
      BY <3>1, ConcatProperties
    <3>3. \A i \in 1 .. Len(a) + Len(b) :
            (a \o b)[i] = IF i <= Len(a) THEN a[i] ELSE b[i - Len(a)]
      BY <3>1, ConcatProperties
    <3> QED
      BY <3>1, <3>2, <3>3
  <2> HIDE DEF n, m
  <2>4. n + (m - n) = m
    BY <1>1
  <2>5. \A i \in 1 .. m : (a \o b)[i] = s[i]
    <3> SUFFICES ASSUME NEW i \in 1 .. m PROVE (a \o b)[i] = s[i]
      OBVIOUS
    <3>1. CASE i <= n
      BY <1>1, <2>1, <2>3, <2>4, <3>1
    <3>2. CASE ~ (i <= n)
      <4>1. i - n \in 1 .. m - n /\ n + (i - n) = i
        BY <1>1, <3>2
      <4> QED
        BY <2>2, <2>3, <2>4, <3>2, <4>1
    <3> QED
      BY <3>1, <3>2
  <2>6. a \o b = s
    BY <2>3, <2>4, <2>5, SeqEqual DEF m
  <2> QED
    BY <1>2, <2>6 DEF a, b
<1> HIDE DEF p
<1>4. CASE p[n] = NEWLINE
  <2> DEFINE f == SubSeq(p, 1, n - 1)
  <2>1. Line(s) = f
    BY <1>4 DEF Line, p, Last, Front
  <2>2. /\ f \in Seq(Char) /\ Len(f) = n - 1 /\ \A i \in 1 .. n - 1 : f[i] = p[i]
    <3> DEFINE l == n - 1
    <3>1. l \in Nat /\ l <= Len(p) /\ p \in Seq(Char)
      BY <1>1
    <3> HIDE DEF l
    <3>2. /\ SubSeq(p, 1, l) \in Seq(Char) /\ Len(SubSeq(p, 1, l)) = l
          /\ \A i \in 1 .. l : SubSeq(p, 1, l)[i] = p[i]
      BY <3>1
    <3> QED
      BY <3>2 DEF l
  <2>3. p = Append(f, NEWLINE)
    <3>1. n - 1 \in 0 .. n - 1 /\ n - 1 + 1 = n
      BY <1>1
    <3>2. SubSeq(p, 1, n - 1 + 1) = Append(SubSeq(p, 1, n - 1), p[n - 1 + 1])
      BY <1>1, <3>1, PrefixGrows
    <3>3. SubSeq(p, 1, n) = p
      BY <1>1
    <3> QED
      BY <1>4, <3>1, <3>2, <3>3
  <2> HIDE DEF f
  <2>4. Unended(f) = f
    BY <1>1, <2>2, UnendedSame
  <2>5. Unended(p) = Unended(f) \o <<>>
    BY <2>2, <2>3, UnendedAppend, ShoutAssumption DEF Kept
  <2>6. f \o <<>> = f
    BY <2>2, ConcatEmptySeq
  <2>7. Len(f) < LINE_SIZE
    <3>1. LINE_SIZE \in Nat
      BY ShoutAssumption
    <3> QED
      BY <1>1, <1>2, <2>2, <3>1
  <2> QED
    BY <1>3, <2>1, <2>2, <2>4, <2>5, <2>6, <2>7 DEF p
<1>5. CASE p[n] # NEWLINE
  <2>1. Line(s) = p
    BY <1>5 DEF Line, p, Last
  <2>2. \A i \in 1 .. n : p[i] # NEWLINE
    <3>1. \A i \in 1 .. n : i \in 1 .. n - 1 \/ i = n
      BY <1>1
    <3> QED
      BY <1>1, <1>5, <3>1
  <2>3. Unended(p) = p
    BY <1>1, <2>2, UnendedSame
  <2> QED
    BY <1>1, <1>2, <1>3, <2>1, <2>3 DEF p
<1> QED
  BY <1>4, <1>5

LEMMA JoinedTwice ==
  ASSUME NEW s \in Seq(Char), NEW t \in Seq(Char), NEW u \in Seq(Char)
  PROVE  (s \o t) \o u = s \o (t \o u)
BY ConcatAssociative

LEMMA TextsAreTyped ==
  ASSUME NEW q \in Seq(Text)
  PROVE  q \in Seq(Seq(Char))
<1>1. Text \subseteq Seq(Char)
  <2> SUFFICES ASSUME NEW t \in Seq(Char \ {NEWLINE}) PROVE t \in Seq(Char)
    BY DEF Text
  <2>1. \A i \in 1 .. Len(t) : t[i] \in Char
    BY ElementOfSeq
  <2>2. t = [i \in 1 .. Len(t) |-> t[i]] /\ Len(t) \in Nat
    OBVIOUS
  <2> QED
    BY <2>1, <2>2
<1>2. \A i \in 1 .. Len(q) : q[i] \in Seq(Char)
  BY <1>1, ElementOfSeq
<1>3. q = [i \in 1 .. Len(q) |-> q[i]] /\ Len(q) \in Nat
  OBVIOUS
<1> QED
  BY <1>2, <1>3

LEMMA InputStep == Typed /\ InputIsSent /\ [Next]_vars => InputIsSent'
<1> SUFFICES ASSUME Typed, InputIsSent, [Next]_vars, NEW c \in Client, c \notin failed'
             PROVE  /\ FlattenSeq(sent'[c]) \o Unended(stdin'[c]) = Unended(Input[c])
                    /\ \A k \in DOMAIN sent'[c] : Len(sent'[c][k]) < LINE_SIZE
  BY DEF InputIsSent
<1> USE DEF Typed, TypeOK
<1> DEFINE Goal == /\ FlattenSeq(sent'[c]) \o Unended(stdin'[c]) = Unended(Input[c])
                   /\ \A k \in DOMAIN sent'[c] : Len(sent'[c][k]) < LINE_SIZE
<1>1. c \notin failed =>
        /\ FlattenSeq(sent[c]) \o Unended(stdin[c]) = Unended(Input[c])
        /\ \A k \in DOMAIN sent[c] : Len(sent[c][k]) < LINE_SIZE
  BY DEF InputIsSent
\* Whoever does something, the text of this client stays where it is.
<1>2. ASSUME c \notin failed, sent'[c] = sent[c], stdin'[c] = stdin[c] PROVE Goal
  BY <1>1, <1>2
<1>3. CASE Server \/ ServerStarts \/ UNCHANGED vars
  BY <1>2, <1>3 DEF Server, ServerStarts, ServerTimeout, ServerRecvFails, ServerRecv,
                    vars, clientVars
<1>4. ASSUME NEW b \in Client, SendFails(b) PROVE Goal
  BY <1>2, <1>4 DEF SendFails, ReadLine
<1>5. ASSUME NEW b \in Client, Recv(b) \/ RecvFails(b) \/ EndOfFile(b) PROVE Goal
  BY <1>2, <1>5 DEF Recv, RecvFails, EndOfFile
<1>6. ASSUME NEW b \in Client, Send(b), b # c PROVE Goal
  BY <1>2, <1>6 DEF Send, ReadLine
<1>7. CASE Send(c)
  <2> DEFINE s == stdin[c]
             q == sent[c]
             rest == SubSeq(s, Len(Piece(s)) + 1, Len(s))
  <2>1. /\ s \in Seq(Char) /\ s # <<>> /\ q \in Seq(Text) /\ c \notin failed
        /\ sent'[c] = Append(q, Line(s)) /\ stdin'[c] = rest
    BY <1>7 DEF Send, ReadLine
  <2>2. /\ Unended(Piece(s)) = Line(s) /\ Line(s) \in Seq(Char)
        /\ Len(Line(s)) < LINE_SIZE /\ s = Piece(s) \o rest
    BY <2>1, LineIsUnended
  <2>3. Piece(s) \in Seq(Char) /\ rest \in Seq(Char)
    BY <2>1, PieceIs, RestIsTyped
  <2>4. FlattenSeq(q) \o Unended(s) = Unended(Input[c])
        /\ \A k \in DOMAIN q : Len(q[k]) < LINE_SIZE
    BY <1>1, <2>1
  <2>5. q \in Seq(Seq(Char)) /\ FlattenSeq(q) \in Seq(Char)
    BY <2>1, TextsAreTyped, FlattenType
  <2> HIDE DEF rest, s, q
  <2>6. FlattenSeq(Append(q, Line(s))) = FlattenSeq(q) \o Line(s)
    BY <2>2, <2>5, FlattenAppend
  <2>7. Unended(s) = Line(s) \o Unended(rest)
    BY <2>2, <2>3, UnendedConcat
  <2>8. Unended(rest) \in Seq(Char)
    BY <2>3, KeptType, FlattenType
  <2>9. (FlattenSeq(q) \o Line(s)) \o Unended(rest)
          = FlattenSeq(q) \o (Line(s) \o Unended(rest))
    BY <2>2, <2>5, <2>8, JoinedTwice
  <2>10. \A k \in DOMAIN Append(q, Line(s)) : Len(Append(q, Line(s))[k]) < LINE_SIZE
    <3>1. /\ Len(Append(q, Line(s))) = Len(q) + 1
          /\ Append(q, Line(s))[Len(q) + 1] = Line(s)
          /\ \A k \in 1 .. Len(q) : Append(q, Line(s))[k] = q[k]
          /\ DOMAIN Append(q, Line(s)) = 1 .. Len(q) + 1 /\ DOMAIN q = 1 .. Len(q)
          /\ Len(q) \in Nat
      BY <2>2, <2>5, AppendProperties
    <3>2. \A k \in 1 .. Len(q) + 1 : k \in 1 .. Len(q) \/ k = Len(q) + 1
      BY <3>1
    <3> QED
      BY <2>2, <2>4, <3>1, <3>2
  <2> QED
    BY <2>1, <2>4, <2>6, <2>7, <2>9, <2>10
<1> QED
  BY <1>3, <1>4, <1>5, <1>6, <1>7 DEF Next, ClientStep

\* What a client none of whose calls has failed has sent, and what it has not
\* read, are what was typed but for the new lines, and no line is longer than
\* the buffer: for any text, however long its lines are and however small the
\* buffer (lines 43 to 57 of the client).
THEOREM InputCorrect == Spec => []InputIsSent
<1>1. Init => InputIsSent
  <2> SUFFICES ASSUME Init, NEW c \in Client
               PROVE  /\ FlattenSeq(sent[c]) \o Unended(stdin[c]) = Unended(Input[c])
                      /\ \A k \in DOMAIN sent[c] : Len(sent[c][k]) < LINE_SIZE
    BY DEF InputIsSent
  <2>1. sent[c] = <<>> /\ stdin[c] = Input[c] /\ Input[c] \in Seq(Char)
    BY ShoutAssumption DEF Init
  <2>2. FlattenSeq(<<>>) = <<>>
    BY DEF FlattenSeq
  <2>3. Unended(Input[c]) \in Seq(Char)
    BY <2>1, KeptType, FlattenType
  <2>4. <<>> \o Unended(Input[c]) = Unended(Input[c])
    BY <2>3, ConcatEmptySeq
  <2>5. FlattenSeq(sent[c]) \o Unended(stdin[c]) = Unended(Input[c])
    BY <2>1, <2>2, <2>4
  <2>6. DOMAIN sent[c] = {}
    BY <2>1
  <2> QED
    BY <2>5, <2>6
<1> QED
  BY InitTyped, StepTyped, InputStep, <1>1, PTL DEF Spec

=============================================================================
