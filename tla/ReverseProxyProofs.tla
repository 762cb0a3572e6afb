-------------------------- MODULE ReverseProxyProofs --------------------------
(***************************************************************************)
(* Theorems about ReverseProxy, for any number of clients, any scripts,    *)
(* any upstream pages and any of the faults: the types, the watch lists,   *)
(* the requests and the responses that wait, and, with the parser's        *)
(* theorems of HttpMessageProofs, the pages the cache holds, that no       *)
(* request ends the proxy, and what clients that ask one thing at a time   *)
(* are answered.                                                           *)
(***************************************************************************)
EXTENDS ReverseProxy, HttpMessageProofs

(* The messages the proxy makes and sends.                                  *)

LEMMA Assumptions ==
  /\ BIND \notin Client
  /\ None \notin Message
  /\ BUFFER \in Nat \ {0} /\ SNDBUF \in Nat \ {0}
  /\ MAX_AGE \in Nat /\ MaxTime \in Nat
  /\ Script \in [Client -> Seq(Segment)]
  /\ Uri \subseteq {<<w>> : w \in Word}
  /\ Stamp \in [0 .. MaxTime -> Word]
  /\ {"400", "404", "500", "OK"} \subseteq Word
<1>1. BIND \notin Client /\ None \notin Message
  BY ProxyAssumption
<1>2. BUFFER \in Nat \ {0} /\ SNDBUF \in Nat \ {0}
  BY ProxyAssumption
<1>3. MAX_AGE \in Nat /\ MaxTime \in Nat
  BY ProxyAssumption
<1>4. /\ Script \in [Client -> Seq(Segment)]
      /\ Uri \subseteq {<<w>> : w \in Word}
      /\ Stamp \in [0 .. MaxTime -> Word]
      /\ {"400", "404", "500", "OK"} \subseteq Word
  BY ProxyAssumption, Zenon
<1> QED
  BY <1>1, <1>2, <1>3, <1>4

LEMMA ErrorsType ==
  /\ BAD_REQUEST_MSG \in Message
  /\ INTERNAL_SERVER_ERROR \in Message
<1>1. {<<"HTTP/1.1">>, <<"400">>, <<"500">>} \subseteq Bytes
  BY Assumptions, WordAssumption DEF Bytes, Byte
<1>2. NewMessage("RESPONSE") \in Message
  BY NewMessageType DEF MessageType
<1>3. ASSUME NEW code \in {"400", "500"}
      PROVE  StatusOnly(code) \in Message
  BY <1>1, <1>2 DEF StatusOnly, Message
<1> QED
  BY <1>3 DEF BAD_REQUEST_MSG, INTERNAL_SERVER_ERROR

LEMMA ReplyType ==
  ASSUME NEW bytes, NEW t \in 0 .. MaxTime
  PROVE  UpstreamReply(bytes, t) \in Bytes
<1> DEFINE uri    == Parse(NewMessage("REQUEST"), bytes).m.uri
           status == IF uri \in Site THEN "200" ELSE "404"
           name   == IF uri \in Uri THEN uri ELSE <<>>
           head   == <<"HTTP/1.0", SP, status, SP, "OK", LF, LF>>
<1>1. status \in Byte /\ {"HTTP/1.0", "OK", SP, LF} \subseteq Byte
  BY Assumptions, WordAssumption DEF Byte, Delimiter
<1>2. head \in Bytes
  BY <1>1 DEF Bytes
<1>3. name \in Bytes
  <2> HIDE DEF uri
  <2> QED
    BY Assumptions DEF Bytes, Byte
<1>4. <<Stamp[t]>> \in Bytes
  BY Assumptions DEF Bytes, Byte
<1>5. head \o name \in Bytes
  BY <1>2, <1>3, ConcatProperties DEF Bytes
<1> HIDE DEF head, name
<1>6. (head \o name) \o <<Stamp[t]>> \in Bytes
  BY <1>4, <1>5, ConcatProperties DEF Bytes
<1> QED
  BY <1>6 DEF UpstreamReply, head, name

LEMMA CompressedType ==
  ASSUME NEW m \in Message
  PROVE  CompressResponseGzip(m) \in Message
<1>1. {<<"<gzip>">>, <<"<length>">>, <<"gzip">>,
       <<"Content-Encoding">>, <<"Content-Length">>} \subseteq Bytes
  BY WordAssumption DEF Bytes, Byte
<1>2. <<"<gzip>">> \o m.body \in Bytes
  BY <1>1, ConcatProperties DEF Bytes, Message
<1>3. [m EXCEPT !.body = <<"<gzip>">> \o @] \in Message
  BY <1>2 DEF Message
<1> QED
  BY <1>1, <1>3, AddHeaderType DEF CompressResponseGzip

-----------------------------------------------------------------------------
(* The types.                                                               *)

\* Between the first system call after recv() and the answer, there is a job.
JobOK == pc \in {"reject", "connect", "forward", "await"} => job \in Job

Typed == TypeOK /\ JobOK

LEMMA ParsedType ==
  ASSUME Typed, NEW c \in Client
  PROVE  /\ ClientRequest(c) \in Message
         /\ Chunk(c) \in Bytes
         /\ After(inbox[c], Len(Chunk(c))) \in Bytes
         /\ IsResult(Parsed(c))
<1>1. ClientRequest(c) \in Message
  <2>1. NewMessage("REQUEST") \in Message
    BY NewMessageType DEF MessageType
  <2> QED
    BY <2>1 DEF ClientRequest, Typed, TypeOK
<1>2. inbox[c] \in Bytes /\ Len(inbox[c]) \in Nat
  BY LenProperties DEF Typed, TypeOK, Bytes
<1>3. Min({BUFFER, Len(inbox[c])}) \in 0 .. Len(inbox[c])
  <2>1. /\ {BUFFER, Len(inbox[c])} \in SUBSET Nat
        /\ {BUFFER, Len(inbox[c])} # {}
    BY <1>2, Assumptions
  <2>2. Min({BUFFER, Len(inbox[c])}) \in {BUFFER, Len(inbox[c])}
    BY <2>1, MinNat
  <2>3. \A k \in {BUFFER, Len(inbox[c])} : Min({BUFFER, Len(inbox[c])}) <= k
    BY <2>1, MinNat
  <2> QED
    BY <1>2, <2>2, <2>3, Assumptions
<1>4. Chunk(c) \in Bytes
  BY <1>2, <1>3, Piece DEF Chunk
<1>5. Len(Chunk(c)) \in Nat
  BY <1>4, LenProperties DEF Bytes
<1>6. After(inbox[c], Len(Chunk(c))) \in Bytes
  BY <1>2, <1>5, AfterType
<1>7. IsResult(Parsed(c))
  BY <1>1, <1>4, ParseType DEF Parsed
<1> QED
  BY <1>1, <1>4, <1>6, <1>7

LEMMA InitTyped == Init => Typed
<1> SUFFICES ASSUME Init PROVE Typed
  OBVIOUS
<1>1. Script \in [Client -> Seq(Segment)] /\ 0 \in 0 .. MaxTime /\ 0 \in 0 .. SNDBUF
  BY Assumptions
<1>2. <<>> \in Bytes /\ <<>> \in Seq(Ask) /\ <<>> \in Seq(Message)
  BY DEF Bytes
<1>3. /\ pc \in PC
      /\ job \in Job \cup {None}
      /\ JobOK
  BY DEF Init, PC, JobOK
<1>4. /\ readable \subseteq Client \cup {BIND}
      /\ writeable \subseteq Client
      /\ io_input \subseteq Client \cup {BIND}
      /\ io_output \subseteq Client
  BY DEF Init
<1>5. /\ io_to_send \in [Client -> Pending \cup {None}]
      /\ client_request_dict \in [Client -> Message \cup {None}]
      /\ cache \in [Uri -> Cached \cup {None}]
  BY DEF Init
<1>6. /\ conn \in [Client -> {"new", "pending", "open", "closed"}]
      /\ peer \in [Client -> {"sending", "fin", "reset"}]
      /\ unsent \in [Client -> Seq(Segment)]
      /\ inbox \in [Client -> Bytes]
      /\ unread \in [Client -> 0 .. SNDBUF]
      /\ now \in 0 .. MaxTime
      /\ asked \in [Client -> Seq(Ask)]
      /\ received \in [Client -> Seq(Message)]
  BY <1>1, <1>2 DEF Init
<1> QED
  BY <1>3, <1>4, <1>5, <1>6 DEF Typed, TypeOK

LEMMA SurroundingsTyped == Typed /\ Surroundings => Typed'
<1> SUFFICES ASSUME Typed, Surroundings PROVE Typed'
  OBVIOUS
<1> USE DEF Typed, TypeOK, JobOK
<1>1. ASSUME NEW c \in Client, Connect(c) PROVE Typed'
  BY <1>1 DEF Connect, loop, watched, tables, history
<1>2. ASSUME NEW c \in Client, Arrive(c) PROVE Typed'
  <2> DEFINE seg == Head(unsent[c])
  <2>1. unsent[c] \in Seq(Segment) /\ unsent[c] # <<>>
    BY <1>2 DEF Arrive
  <2>2. seg \in Segment /\ Tail(unsent[c]) \in Seq(Segment)
    BY <2>1, HeadTailProperties
  <2>3. inbox[c] \o seg.bytes \in Bytes
    BY <2>2, ConcatProperties DEF Segment, Bytes
  <2>4. seg.ask # None => Append(asked[c], seg.ask) \in Seq(Ask)
    BY <2>2, AppendProperties DEF Segment
  <2> HIDE DEF seg
  <2>5. inbox' \in [Client -> Bytes]
    BY <1>2, <2>3 DEF Arrive, seg
  <2>6. asked' \in [Client -> Seq(Ask)]
    BY <1>2, <2>4 DEF Arrive, seg
  <2>7. unsent' \in [Client -> Seq(Segment)]
    BY <1>2, <2>2 DEF Arrive
  <2> QED
    BY <1>2, <2>5, <2>6, <2>7 DEF Arrive, loop, watched, tables
<1>3. ASSUME NEW c \in Client, HalfClose(c) PROVE Typed'
  BY <1>3 DEF HalfClose, loop, watched, tables, history
<1>4. ASSUME NEW c \in Client, Reset(c) PROVE Typed'
  <2>1. inbox' \in [Client -> Bytes]
    BY <1>4, Constants DEF Reset
  <2> QED
    BY <1>4, <2>1 DEF Reset, loop, watched, tables, history
<1>5. ASSUME NEW c \in Client, Drain(c) PROVE Typed'
  <2>1. unread' \in [Client -> 0 .. SNDBUF]
    BY <1>5, Assumptions DEF Drain
  <2> QED
    BY <1>5, <2>1 DEF Drain, loop, watched, tables, history
<1>6. CASE Tick
  <2>1. now' \in 0 .. MaxTime
    BY <1>6, Assumptions DEF Tick
  <2> QED
    BY <1>6, <2>1 DEF Tick, loop, watched, tables, sockets, history
<1> QED
  BY <1>1, <1>2, <1>3, <1>4, <1>5, <1>6 DEF Surroundings

\* What a step sends.
LEMMA DeliveredTyped ==
  ASSUME Typed, NEW c \in Client, NEW m \in Message, CanSend(c, m), Delivered(c, m)
  PROVE  /\ received' \in [Client -> Seq(Message)]
         /\ unread' \in [Client -> 0 .. SNDBUF]
<1>1. Append(received[c], m) \in Seq(Message)
  BY AppendProperties DEF Typed, TypeOK
<1>2. received' \in [Client -> Seq(Message)]
  BY <1>1 DEF Delivered, Typed, TypeOK
<1>3. Len(m.body) \in Nat
  BY LenProperties DEF Message, Bytes
<1>4. unread[c] + Size(m) \in 0 .. SNDBUF
  BY <1>3, Assumptions DEF CanSend, Room, Size, Typed, TypeOK
<1>5. unread' \in [Client -> 0 .. SNDBUF]
  BY <1>4 DEF Delivered, Typed, TypeOK
<1> QED
  BY <1>2, <1>5

LEMMA LoopTyped ==
  ASSUME Typed, NEW c \in Client, Select \/ Accept \/ SendResponse(c)
  PROVE  Typed'
<1> USE DEF Typed, TypeOK, JobOK
<1>1. CASE Select
  BY <1>1 DEF Select, ToRead, ToWrite, watched, tables, sockets, history
<1>2. CASE Accept
  <2>1. PICK d \in Waiting : /\ conn' = [conn EXCEPT ![d] = "open"]
                             /\ io_input' = io_input \cup {d}
                             /\ io_output' = io_output \cup {d}
    BY <1>2 DEF Accept
  <2>2. d \in Client
    BY DEF Waiting
  <2> QED
    BY <1>2, <2>1, <2>2 DEF Accept, tables, history
<1>3. CASE SendResponse(c)
  <2> DEFINE m == io_to_send[c].response
  <2>1. m \in Message
    BY <1>3 DEF SendResponse, Writes, Pending
  <2>2. pc' \in PC /\ pc' \notin {"reject", "connect", "forward", "await"}
    BY <1>3 DEF SendResponse, PC, Raised
  <2>3. /\ received' \in [Client -> Seq(Message)]
        /\ unread' \in [Client -> 0 .. SNDBUF]
    BY <1>3, <2>1, DeliveredTyped DEF SendResponse
  <2>4. /\ conn' \in [Client -> {"new", "pending", "open", "closed"}]
        /\ client_request_dict' \in [Client -> Message \cup {None}]
        /\ io_input' \subseteq Client \cup {BIND}
        /\ io_output' \subseteq Client
    BY <1>3 DEF SendResponse, Clean, watched
  <2>5. io_to_send' \in [Client -> Pending \cup {None}]
    BY <1>3 DEF SendResponse
  <2> HIDE DEF m
  <2> QED
    BY <1>3, <2>2, <2>3, <2>4, <2>5 DEF SendResponse
<1> QED
  BY <1>1, <1>2, <1>3

LEMMA DealWithClientTyped ==
  ASSUME Typed, NEW c \in Client, DealWithClient(c)
  PROVE  Typed'
<1> USE DEF Typed, TypeOK, JobOK
<1>1. /\ ClientRequest(c) \in Message
      /\ Chunk(c) \in Bytes
      /\ After(inbox[c], Len(Chunk(c))) \in Bytes
      /\ IsResult(Parsed(c))
  BY ParsedType
<1>2. Parsed(c).m \in Message
  BY <1>1 DEF IsResult
<1>3. JobOf(c, Parsed(c).m) \in Job
  <2>1. NewMessage("RESPONSE") \in Message
    BY NewMessageType DEF MessageType
  <2>2. now \in Nat
    BY Assumptions
  <2> QED
    BY <1>2, <2>1, <2>2, Constants DEF JobOf, Job
<1>4. Keep(c) => client_request_dict' \in [Client -> Message \cup {None}]
  BY <1>2 DEF Keep
<1>5. Recv(c) => inbox' \in [Client -> Bytes]
  BY <1>1 DEF Recv
<1>6. CASE RecvRaises(c)
  BY <1>1, <1>6 DEF RecvRaises, watched, sockets, history, PC, Raised
<1>7. CASE Reject(c)
  BY <1>3, <1>4, <1>5, <1>7 DEF Reject, Recv, watched, history, PC
<1>8. CASE ClientGone(c)
  BY <1>5, <1>8 DEF ClientGone, Recv, Clean, history
<1>9. CASE Fragment(c)
  BY <1>4, <1>5, <1>9 DEF Fragment, Recv, watched, history
<1>10. CASE CacheHit(c)
  <2>1. ShouldKeepAlive(Parsed(c).m) \in BOOLEAN
    BY DEF ShouldKeepAlive
  <2>2. cache[Parsed(c).m.uri].response \in Message
    BY <1>10 DEF CacheHit, IsCached, Cached
  <2>3. io_to_send' \in [Client -> Pending \cup {None}]
    BY <1>10, <2>1, <2>2 DEF CacheHit, Pending
  <2> QED
    BY <1>5, <1>10, <2>3 DEF CacheHit, Completes, Recv, watched, history
<1>11. CASE CacheMiss(c)
  BY <1>3, <1>4, <1>5, <1>11 DEF CacheMiss, Completes, Recv, watched, history, PC
<1> QED
  BY <1>6, <1>7, <1>8, <1>9, <1>10, <1>11 DEF DealWithClient

LEMMA SendErrorTyped ==
  ASSUME Typed, pc \in {"reject", "forward"}, NEW m \in Message, SendError(m),
         client_request_dict' \in [Client -> Message \cup {None}]
  PROVE  Typed'
<1> USE DEF Typed, TypeOK, JobOK
<1>1. job.client \in Client
  BY DEF Job
<1>2. /\ received' \in [Client -> Seq(Message)]
      /\ unread' \in [Client -> 0 .. SNDBUF]
  BY <1>1, DeliveredTyped DEF SendError
<1>3. /\ pc' \in PC /\ pc' \notin {"reject", "connect", "forward", "await"}
      /\ job' \in Job \cup {None}
  BY DEF SendError, PC, Raised
<1> QED
  BY <1>2, <1>3 DEF SendError, watched

LEMMA AnswerTyped ==
  ASSUME Typed, Answer
  PROVE  Typed'
<1> USE DEF Typed, TypeOK, JobOK
<1> DEFINE response == AddHeader(IF AllowGzip(job.request)
                                 THEN CompressResponseGzip(job.response)
                                 ELSE job.response,
                                 <<"Cache-Control">>, <<"max-age">>)
<1>1. job \in Job
  BY DEF Answer
<1>2. response \in Message
  <2>1. <<"Cache-Control">> \in Bytes /\ <<"max-age">> \in Bytes
    BY WordAssumption DEF Bytes, Byte
  <2> QED
    BY <1>1, <2>1, CompressedType, AddHeaderType DEF Job
<1>3. now + MAX_AGE \in Nat
  BY Assumptions
<1> HIDE DEF response
<1>4. cache' = MaybeCache(job.request, response)
  BY DEF Answer, response
<1>5. cache' \in [Uri -> Cached \cup {None}]
  BY <1>2, <1>3, <1>4 DEF MaybeCache, Cached
<1>6. ShouldKeepAlive(job.request) \in BOOLEAN
  BY DEF ShouldKeepAlive
<1>7. io_to_send' \in [Client -> Pending \cup {None}]
  BY <1>1, <1>2, <1>6 DEF Answer, Pending, response
<1> QED
  BY <1>5, <1>7 DEF Answer, watched, sockets, history, PC

LEMMA UpstreamTyped ==
  ASSUME Typed,
         \/ SendBadRequest \/ ConnectUpstream \/ Forward \/ ForwardFails
         \/ RecvUpstream \/ RecvUpstreamRaises
  PROVE  Typed'
<1> USE DEF Typed, TypeOK, JobOK
<1>1. CASE SendBadRequest
  BY <1>1, ErrorsType, SendErrorTyped DEF SendBadRequest
<1>2. CASE ConnectUpstream
  BY <1>2 DEF ConnectUpstream, watched, tables, sockets, history, PC, Raised
<1>3. CASE Forward
  <2>1. UpstreamReply(ToBytes(job.request), now) \in Bytes /\ now \in Nat
    BY ReplyType, Assumptions
  <2>2. job' \in Job
    BY <1>3, <2>1 DEF Forward, Job
  <2>3. client_request_dict' \in [Client -> Message \cup {None}]
    BY <1>3 DEF Forward, Forget
  <2> QED
    BY <1>3, <2>2, <2>3 DEF Forward, watched, sockets, history, PC
<1>4. CASE ForwardFails
  <2>1. client_request_dict' \in [Client -> Message \cup {None}]
    BY <1>4 DEF ForwardFails, Forget
  <2> QED
    BY <1>4, <2>1, ErrorsType, SendErrorTyped DEF ForwardFails
<1>5. CASE RecvUpstream
  <2>1. job \in Job /\ job.reply \in Bytes /\ job.got \in Nat
    BY <1>5 DEF RecvUpstream, Job
  <2>2. Len(job.reply) \in Nat /\ BUFFER \in Nat
    BY <2>1, LenProperties, Assumptions DEF Bytes
  <2>3. PICK q \in ChunkEnds :
          LET r == Parse(job.response, SubSeq(job.reply, job.got + 1, q))
          IN  /\ job' = [job EXCEPT !.response = r.m, !.got = q]
              /\ pc' = IF r.raised THEN "parse raised" ELSE pc
    BY <1>5 DEF RecvUpstream
  <2>4. q \in Nat /\ q <= Len(job.reply)
    <3> DEFINE ends == {job.got + BUFFER, Len(job.reply)}
               most == Min(ends)
    <3>1. ends \in SUBSET Nat /\ ends # {}
      BY <2>1, <2>2
    <3>2. most \in ends /\ \A y \in ends : most <= y
      <4> HIDE DEF ends
      <4> QED
        BY <3>1, MinNat
    <3>3. most \in Nat /\ most <= Len(job.reply)
      <4> HIDE DEF most
      <4> QED
        BY <3>1, <3>2
    <3>4. q \in {most} \cup {n \in UpstreamCut : job.got < n /\ n < most}
      BY <2>3 DEF ChunkEnds
    <3>5. UpstreamCut \subseteq Nat
      BY ProxyAssumption
    <3> HIDE DEF most
    <3> QED
      BY <2>2, <3>3, <3>4, <3>5
  <2>5. job.got + 1 \in Nat \ {0}
    BY <2>1
  <2>6. SubSeq(job.reply, job.got + 1, q) \in Bytes
    BY <2>1, <2>4, <2>5, Piece
  <2> DEFINE r == Parse(job.response, SubSeq(job.reply, job.got + 1, q))
  <2>7. IsResult(r)
    BY <2>1, <2>6, ParseType DEF Job
  <2> HIDE DEF r
  <2>8. job' \in Job
    BY <2>1, <2>3, <2>4, <2>7 DEF Job, IsResult, r
  <2>9. pc' \in PC
    BY <2>3 DEF PC, Raised
  <2> QED
    BY <1>5, <2>8, <2>9 DEF RecvUpstream, watched, tables, sockets, history
<1>6. CASE RecvUpstreamRaises
  BY <1>6 DEF RecvUpstreamRaises, watched, tables, sockets, history, PC, Raised
<1> QED
  BY <1>1, <1>2, <1>3, <1>4, <1>5, <1>6

LEMMA StepTyped == Typed /\ [Next]_vars => Typed'
<1> SUFFICES ASSUME Typed, [Next]_vars PROVE Typed'
  OBVIOUS
<1>1. CASE Surroundings
  BY <1>1, SurroundingsTyped
<1>2. CASE Proxy
  <2>1. ASSUME NEW c \in Client, DealWithClient(c) \/ SendResponse(c)
        PROVE  Typed'
    BY <2>1, DealWithClientTyped, LoopTyped
  <2>2. CASE Select \/ Accept
    <3>1. ASSUME Client = {} PROVE Typed'
      BY <2>2, <3>1 DEF Select, Accept, Waiting, Typed, TypeOK, JobOK, ToRead,
                        ToWrite, watched, tables, sockets, history
    <3> QED
      BY <2>2, <3>1, LoopTyped
  <2> QED
    BY <1>2, <2>1, <2>2, AnswerTyped, UpstreamTyped DEF Proxy
<1>3. CASE UNCHANGED vars
  BY <1>3 DEF vars, loop, watched, tables, sockets, history, Typed, TypeOK, JobOK
<1> QED
  BY <1>1, <1>2, <1>3 DEF Next

\* Every variable of the proxy and of what surrounds it keeps its type: in
\* particular every table entry is a message, whatever bytes were parsed.
THEOREM TypeCorrect == Spec => []TypeOK
<1>1. Spec => []Typed
  BY InitTyped, StepTyped, PTL DEF Spec
<1>2. Typed => TypeOK
  BY DEF Typed
<1> QED
  BY <1>1, <1>2, PTL

-----------------------------------------------------------------------------
(* The watch lists.                                                         *)

LEMMA WatchInit == Init => WatchListsConsistent
BY DEF Init, WatchListsConsistent, Open

\* The clients open no connection and close none.
LEMMA SurroundingsKeepWatch ==
  ASSUME Typed, Surroundings
  PROVE  Open' = Open /\ UNCHANGED <<loop, watched, tables>>
<1> USE DEF Typed, TypeOK, Open
<1>1. ASSUME NEW c \in Client, Connect(c) PROVE Open' = Open
  BY <1>1 DEF Connect
<1>2. ASSUME NEW c \in Client, Arrive(c) \/ HalfClose(c) \/ Reset(c) \/ Drain(c)
      PROVE  Open' = Open
  BY <1>2 DEF Arrive, HalfClose, Reset, Drain
<1>3. Tick => Open' = Open
  BY DEF Tick, sockets
<1>4. UNCHANGED <<loop, watched, tables>>
  BY DEF Surroundings, Connect, Arrive, HalfClose, Reset, Drain, Tick
<1> QED
  BY <1>1, <1>2, <1>3, <1>4 DEF Surroundings

\* clean_client_sock() closes the connection it takes off the lists.
LEMMA CleanKeepsWatch ==
  ASSUME Typed, WatchListsConsistent, NEW c \in Client, Clean(c),
         readable' \subseteq readable \ {c}
  PROVE  WatchListsConsistent'
<1>1. Open' = Open \ {c}
  BY DEF Clean, Open, Typed, TypeOK
<1>2. BIND # c
  BY Assumptions
<1> QED
  BY <1>1, <1>2 DEF Clean, WatchListsConsistent

LEMMA WatchStep ==
  ASSUME Typed, WatchListsConsistent, [Next]_vars
  PROVE  WatchListsConsistent'
<1> USE DEF WatchListsConsistent
<1>1. CASE Surroundings
  BY <1>1, SurroundingsKeepWatch DEF loop, watched
<1>2. CASE Select
  BY <1>2 DEF Select, watched, sockets, Open
<1>3. CASE Accept
  <2>1. PICK d \in Waiting : /\ conn' = [conn EXCEPT ![d] = "open"]
                             /\ io_input' = io_input \cup {d}
                             /\ io_output' = io_output \cup {d}
    BY <1>3 DEF Accept
  <2>2. Open' = Open \cup {d}
    BY <2>1 DEF Waiting, Open, Typed, TypeOK
  <2> QED
    BY <1>3, <2>1, <2>2 DEF Accept
<1>4. ASSUME NEW c \in Client, SendResponse(c) PROVE WatchListsConsistent'
  <2>1. CASE Clean(c)
    BY <1>4, <2>1, CleanKeepsWatch DEF SendResponse
  <2>2. CASE ~ Clean(c)
    BY <1>4, <2>2 DEF SendResponse, watched, Open
  <2> QED
    BY <2>1, <2>2
<1>5. ASSUME NEW c \in Client, ClientGone(c) PROVE WatchListsConsistent'
  BY <1>5, CleanKeepsWatch DEF ClientGone, Recv
<1>6. ASSUME NEW c \in Client,
             RecvRaises(c) \/ Reject(c) \/ Fragment(c) \/ CacheHit(c) \/ CacheMiss(c)
      PROVE  WatchListsConsistent'
  <2>1. readable' \subseteq readable /\ UNCHANGED <<watched, conn>>
    BY <1>6 DEF RecvRaises, Reject, Fragment, CacheHit, CacheMiss, Completes, Recv,
                sockets
  <2> QED
    BY <2>1 DEF watched, Open
<1>7. CASE \/ SendBadRequest \/ ConnectUpstream \/ Forward \/ ForwardFails
           \/ RecvUpstream \/ RecvUpstreamRaises \/ Answer
  <2>1. UNCHANGED <<readable, watched, conn>>
    BY <1>7 DEF SendBadRequest, ConnectUpstream, Forward, ForwardFails, SendError,
                RecvUpstream, RecvUpstreamRaises, Answer, sockets
  <2> QED
    BY <2>1 DEF watched, Open
<1>8. CASE UNCHANGED vars
  BY <1>8 DEF vars, loop, watched, sockets, Open
<1> QED
  BY <1>1, <1>2, <1>3, <1>4, <1>5, <1>6, <1>7, <1>8 DEF Next, Proxy, DealWithClient

\* However accepts, closes in the middle of a pass and failures interleave,
\* select() is never given a closed socket, nor misses an open one, and a
\* pass never reads one that was taken off (lines 61-73 and 165-200).
THEOREM WatchCorrect == Spec => []WatchListsConsistent
<1>1. Typed /\ WatchListsConsistent /\ [Next]_vars => WatchListsConsistent'
  BY WatchStep
<1>2. Spec => []Typed
  BY InitTyped, StepTyped, PTL DEF Spec
<1> QED
  BY <1>1, <1>2, WatchInit, PTL DEF Spec

-----------------------------------------------------------------------------
(* The requests.                                                            *)

LEMMA NewRequestIsLive ==
  /\ NewMessage("REQUEST").parser_state = "START"
  /\ None \notin Message
BY Assumptions, NewMessageType DEF MessageType

LEMMA LiveStep ==
  ASSUME Typed, WatchListsConsistent, RequestsAreLive, [Next]_vars
  PROVE  RequestsAreLive'
<1> USE DEF RequestsAreLive
<1>1. CASE Surroundings
  BY <1>1, SurroundingsKeepWatch DEF loop, tables
<1>2. CASE Select
  BY <1>2 DEF Select, tables, sockets, Open
<1>3. CASE Accept
  <2>1. Open \subseteq Open'
    BY <1>3 DEF Accept, Waiting, Open, Typed, TypeOK
  <2> QED
    BY <1>3, <2>1 DEF Accept, tables
<1>4. ASSUME NEW c \in Client, SendResponse(c) PROVE RequestsAreLive'
  <2>1. pc = "loop" /\ pc' \in {"loop", "send raised"}
    BY <1>4 DEF SendResponse
  <2>2. CASE Clean(c)
    <3>1. Open' = Open \ {c} /\ client_request_dict'[c] = None
      BY <2>2 DEF Clean, Open, Typed, TypeOK
    <3>2. \A d \in Client \ {c} : client_request_dict'[d] = client_request_dict[d]
      BY <2>2 DEF Clean, Typed, TypeOK
    <3> QED
      BY <2>1, <3>1, <3>2
  <2>3. CASE ~ Clean(c)
    <3>1. UNCHANGED <<conn, client_request_dict>>
      BY <1>4, <2>3 DEF SendResponse
    <3> QED
      BY <2>1, <3>1 DEF Open
  <2> QED
    BY <2>2, <2>3
<1>5. ASSUME NEW c \in Client, DealWithClient(c) PROVE RequestsAreLive'
  <2>1. /\ pc = "loop"
        /\ c \in Open
    <3>1. c \in readable /\ pc = "loop"
      BY <1>5 DEF DealWithClient, RecvRaises, Reject, ClientGone, Fragment, CacheHit,
                  CacheMiss, Completes, Recv
    <3>2. c # BIND
      BY Assumptions
    <3> QED
      BY <3>1, <3>2 DEF WatchListsConsistent
  <2>2. \A d \in Client : client_request_dict[d] # None =>
          d \in Open /\ client_request_dict[d].parser_state # "END"
    BY <2>1
  <2>3. ASSUME NEW m, m.parser_state # "END",
               client_request_dict' = [client_request_dict EXCEPT ![c] = m],
               UNCHANGED conn
        PROVE  RequestsAreLive'
    BY <2>1, <2>2, <2>3 DEF Open, Typed, TypeOK
  <2>4. CASE RecvRaises(c)
    <3>1. ClientRequest(c).parser_state # "END"
      BY <2>2, NewRequestIsLive DEF ClientRequest
    <3> QED
      BY <2>3, <2>4, <3>1 DEF RecvRaises, sockets
  <2>5. CASE Reject(c)
    <3>1. Parsed(c).m.parser_state # "END"
      BY <2>5, ParsedType DEF Reject, IsResult
    <3> QED
      BY <2>3, <2>5, <3>1 DEF Reject, Keep
  <2>6. CASE ClientGone(c)
    <3>1. Open' = Open \ {c} /\ client_request_dict'[c] = None
      BY <2>6 DEF ClientGone, Clean, Open, Typed, TypeOK
    <3>2. \A d \in Client \ {c} : client_request_dict'[d] = client_request_dict[d]
      BY <2>6 DEF ClientGone, Clean, Typed, TypeOK
    <3> QED
      BY <2>2, <3>1, <3>2
  <2>7. CASE Fragment(c)
    BY <2>3, <2>7 DEF Fragment, Keep
  <2>8. CASE CacheHit(c)
    <3>1. client_request_dict'[c] = None
      BY <2>8 DEF CacheHit, Typed, TypeOK
    <3>2. \A d \in Client \ {c} : client_request_dict'[d] = client_request_dict[d]
      BY <2>8 DEF CacheHit, Typed, TypeOK
    <3>3. Open' = Open
      BY <2>8 DEF CacheHit, Open
    <3> QED
      BY <2>2, <3>1, <3>2, <3>3
  <2>9. CASE CacheMiss(c)
    <3>1. client_request_dict'[c] = Parsed(c).m
      BY <2>9 DEF CacheMiss, Keep, Typed, TypeOK
    <3>2. \A d \in Client \ {c} : client_request_dict'[d] = client_request_dict[d]
      BY <2>9 DEF CacheMiss, Keep, Typed, TypeOK
    <3>3. Open' = Open /\ pc' = "connect"
      BY <2>9 DEF CacheMiss, Open
    <3>4. job'.client = c /\ job'.request = Parsed(c).m
      BY <2>9 DEF CacheMiss, JobOf
    <3> QED
      BY <2>1, <2>2, <3>1, <3>2, <3>3, <3>4
  <2> QED
    BY <1>5, <2>4, <2>5, <2>6, <2>7, <2>8, <2>9 DEF DealWithClient
<1>6. CASE SendBadRequest
  BY <1>6 DEF SendBadRequest, SendError, Open
<1>7. CASE ConnectUpstream \/ RecvUpstream \/ RecvUpstreamRaises
  BY <1>7 DEF ConnectUpstream, RecvUpstream, RecvUpstreamRaises, tables, sockets, Open
<1>8. CASE Forward \/ ForwardFails
  <2>1. pc = "forward" /\ Forget(job.client) /\ UNCHANGED conn
    BY <1>8 DEF Forward, ForwardFails, SendError, sockets
  <2>2. job.client \in Client
    BY <2>1 DEF Typed, JobOK, Job
  <2>3. /\ client_request_dict'[job.client] = None
        /\ \A d \in Client \ {job.client} :
             client_request_dict'[d] = client_request_dict[d]
    BY <2>1, <2>2 DEF Forget, Typed, TypeOK
  <2> QED
    BY <2>1, <2>3 DEF Open
<1>9. CASE Answer
  BY <1>9 DEF Answer, sockets, Open
<1>10. CASE UNCHANGED vars
  BY <1>10 DEF vars, loop, tables, sockets, Open
<1> QED
  BY <1>1, <1>2, <1>3, <1>4, <1>5, <1>6, <1>7, <1>8, <1>9, <1>10 DEF Next, Proxy

\* The inductive invariant behind the theorems below.
Live == Typed /\ WatchListsConsistent /\ RequestsAreLive

LEMMA AlwaysLive == Spec => []Live
<1>1. Init => Live
  BY InitTyped, WatchInit DEF Init, RequestsAreLive, Live
<1>2. Live /\ [Next]_vars => Live'
  BY StepTyped, WatchStep, LiveStep DEF Live
<1> QED
  BY <1>1, <1>2, PTL DEF Spec

\* A request is kept for an open connection only, and one that is complete
\* only while it is being answered: no recv() is ever parsed into a request
\* that has been answered (lines 67, 86-87, 117 and 138).
THEOREM LiveCorrect == Spec => []RequestsAreLive
<1>1. Live => RequestsAreLive
  BY DEF Live
<1> QED
  BY <1>1, AlwaysLive, PTL

-----------------------------------------------------------------------------
(* The responses.                                                           *)

\* A response waits only for the rest of the pass it was made in: its client
\* is among those that select() found writeable, has been read in this pass,
\* and is still connected.  (A slow reader may not be writeable.)
Due(c) == c \in writeable /\ c \notin readable /\ c \in Open

SentInPass ==
  /\ \A c \in Client : unread[c] = 0
  /\ readable \cap Client \subseteq writeable
  /\ \A c \in Client : io_to_send[c] # None => Due(c)
  /\ pc \in {"reject", "connect", "forward", "await"} => Due(job.client)

LEMMA SentInPassStep ==
  ASSUME SlowReaders = {}, Live, SentInPass, [Next]_vars
  PROVE  SentInPass'
<1> USE DEF Live, SentInPass, Due
<1>1. CASE Surroundings
  <2>1. unread' = unread
    <3>1. ~ \E c \in Client : Drain(c)
      BY DEF Drain
    <3> QED
      BY <1>1, <3>1 DEF Surroundings, Connect, Arrive, HalfClose, Reset, Tick, sockets
  <2> QED
    BY <1>1, <2>1, SurroundingsKeepWatch DEF loop, tables
<1>2. CASE Select
  <2>1. \A c \in Client : io_to_send[c] = None
    BY <1>2 DEF Select, Writes
  <2>2. Client \subseteq ToWrite
    BY Assumptions DEF ToWrite
  <2>3. readable' \cap Client \subseteq writeable'
    BY <1>2, <2>2, Assumptions DEF Select, WatchListsConsistent
  <2> QED
    BY <1>2, <2>1, <2>3 DEF Select, tables, sockets
<1>3. CASE Accept
  <2>1. Open \subseteq Open'
    BY <1>3 DEF Accept, Waiting, Open, Typed, TypeOK
  <2> QED
    BY <1>3, <2>1 DEF Accept, tables
<1>4. ASSUME NEW c \in Client, SendResponse(c) PROVE SentInPass'
  <2>1. /\ readable = {} /\ readable' = {}
        /\ writeable' = writeable \ {c}
        /\ pc' \in {"loop", "send raised"}
    BY <1>4 DEF SendResponse
  <2>2. /\ io_to_send'[c] = None
        /\ \A d \in Client \ {c} : io_to_send'[d] = io_to_send[d]
    BY <1>4 DEF SendResponse, Typed, TypeOK
  <2>3. unread' = unread
    BY <1>4 DEF SendResponse, Delivered
  <2>4. Open \ {c} \subseteq Open'
    BY <1>4 DEF SendResponse, Clean, Open, Typed, TypeOK
  <2> QED
    BY <2>1, <2>2, <2>3, <2>4
<1>5. ASSUME NEW c \in Client, DealWithClient(c) PROVE SentInPass'
  <2>1. /\ pc = "loop" /\ c \in readable
        /\ readable' = readable \ {c}
        /\ UNCHANGED <<writeable, unread>>
    BY <1>5 DEF DealWithClient, RecvRaises, Reject, ClientGone, Fragment, CacheHit,
                CacheMiss, Completes, Recv, sockets
  <2>2. c \in writeable /\ c \in Open /\ io_to_send[c] = None
    BY <2>1, Assumptions DEF WatchListsConsistent
  <2>3. \A d \in Client \ {c} : d \in Open => d \in Open'
    BY <1>5 DEF DealWithClient, RecvRaises, Reject, ClientGone, Fragment, CacheHit,
                CacheMiss, Clean, sockets, Open, Typed, TypeOK
  <2>4. CASE ClientGone(c)
    BY <2>1, <2>2, <2>3, <2>4 DEF ClientGone
  <2>5. CASE CacheHit(c)
    <3>1. \A d \in Client \ {c} : io_to_send'[d] = io_to_send[d]
      BY <2>5 DEF CacheHit, Typed, TypeOK
    <3>2. c \in Open' /\ pc' = "loop"
      BY <2>1, <2>2, <2>5 DEF CacheHit, Open
    <3> QED
      BY <2>1, <2>2, <2>3, <3>1, <3>2
  <2>6. CASE RecvRaises(c) \/ Reject(c) \/ Fragment(c) \/ CacheMiss(c)
    <3>1. UNCHANGED <<io_to_send, conn>>
      BY <2>6 DEF RecvRaises, Reject, Fragment, CacheMiss, sockets
    <3>2. pc' \in {"reject", "connect", "forward", "await"} => job'.client = c
      <4>1. JobOf(c, Parsed(c).m).client = c
        BY DEF JobOf
      <4>2. CASE RecvRaises(c) \/ Fragment(c)
        BY <2>1, <4>2 DEF RecvRaises, Fragment
      <4>3. CASE Reject(c) \/ CacheMiss(c)
        BY <4>1, <4>3 DEF Reject, CacheMiss
      <4> QED
        BY <2>6, <4>2, <4>3
    <3> QED
      BY <2>1, <2>2, <3>1, <3>2 DEF Open
  <2> QED
    BY <1>5, <2>4, <2>5, <2>6 DEF DealWithClient
<1>6. CASE SendBadRequest \/ ForwardFails
  <2>1. /\ unread' = unread /\ pc' \in {"loop", "send raised"}
        /\ UNCHANGED <<readable, writeable, io_to_send, conn>>
    BY <1>6 DEF SendBadRequest, ForwardFails, SendError, Delivered
  <2> QED
    BY <2>1 DEF Open
<1>7. CASE ConnectUpstream \/ Forward \/ RecvUpstream \/ RecvUpstreamRaises
  <2>1. UNCHANGED <<readable, writeable, io_to_send, conn, unread>>
    BY <1>7 DEF ConnectUpstream, Forward, RecvUpstream, RecvUpstreamRaises, tables,
                sockets
  <2>2. pc' \in {"reject", "connect", "forward", "await"} =>
          /\ pc \in {"reject", "connect", "forward", "await"}
          /\ job'.client = job.client
    <3>1. CASE ConnectUpstream \/ RecvUpstreamRaises
      BY <3>1 DEF ConnectUpstream, RecvUpstreamRaises
    <3>2. CASE Forward
      BY <3>2 DEF Forward, Typed, JobOK, Job
    <3>3. CASE RecvUpstream
      <4>1. PICK r, q : job' = [job EXCEPT !.response = r, !.got = q]
        BY <3>3 DEF RecvUpstream
      <4> QED
        BY <3>3, <4>1 DEF RecvUpstream, Typed, JobOK, Job
    <3> QED
      BY <1>7, <3>1, <3>2, <3>3
  <2> QED
    BY <2>1, <2>2 DEF Open
<1>8. CASE Answer
  <2>1. Due(job.client) /\ job.client \in Client
    BY <1>8 DEF Answer, Typed, JobOK, Job
  <2>2. \A d \in Client \ {job.client} : io_to_send'[d] = io_to_send[d]
    BY <1>8, <2>1 DEF Answer, Typed, TypeOK
  <2>3. UNCHANGED <<readable, writeable, unread, conn>> /\ pc' = "loop"
    BY <1>8 DEF Answer, sockets
  <2> QED
    BY <2>1, <2>2, <2>3 DEF Open
<1>9. CASE UNCHANGED vars
  BY <1>9 DEF vars, loop, tables, sockets, Open
<1> QED
  BY <1>1, <1>2, <1>3, <1>4, <1>5, <1>6, <1>7, <1>8, <1>9
  DEF Next, Proxy

LEMMA AlwaysSentInPass ==
  ASSUME SlowReaders = {}
  PROVE  Spec => [](Live /\ SentInPass)
<1>1. Init => SentInPass
  BY DEF Init, SentInPass
<1>2. Live /\ SentInPass /\ [Next]_vars => SentInPass'
  BY SentInPassStep
<1> QED
  BY <1>1, <1>2, AlwaysLive, PTL DEF Spec

\* As long as no client leaves its answers in the socket's buffer, a response
\* is sent in the pass it was made in, so none is overwritten by the next
\* (lines 116, 156, 167 and 283-285).
THEOREM ResponsesSentInPass ==
  ASSUME SlowReaders = {}
  PROVE  Spec => []NothingLeftToSend
<1>1. SentInPass => NothingLeftToSend
  BY DEF SentInPass, Due, NothingLeftToSend, Writes
<1> QED
  BY <1>1, AlwaysSentInPass, PTL

\* Under the same condition clean_client_sock() leaves nothing of a closed
\* connection behind, although it does not look at io_to_send (lines 60-69):
\* a client that is gone had nothing waiting.
THEOREM CleanCorrect ==
  ASSUME SlowReaders = {}
  PROVE  Spec => []CleanedEverywhere
<1>1. Live /\ SentInPass => CleanedEverywhere
  BY Assumptions DEF Live, SentInPass, Due, WatchListsConsistent, RequestsAreLive,
                     CleanedEverywhere, Open
<1> QED
  BY <1>1, AlwaysSentInPass, PTL

-----------------------------------------------------------------------------
(* The pages.                                                               *)

StatusLine(status) == <<"HTTP/1.0", SP, status, SP, "OK", LF>>
Status(uri)  == IF uri \in Site THEN "200" ELSE "404"
Name(uri)    == IF uri \in Uri THEN uri ELSE <<>>
Page(uri, t) == Name(uri) \o <<Stamp[t]>>
Behind(page) == <<LF>> \o page

LEMMA WordsArePlain ==
  \A w \in Word : w \notin White /\ w # COLON /\ w \in Byte
BY WordAssumption DEF White, Delimiter, Byte

\* A piece that is not empty.
LEMMA PieceIsOf ==
  ASSUME NEW s \in Bytes, NEW i \in Nat \ {0}, NEW j \in Nat, i <= j, j <= Len(s),
         NEW n \in Nat, n = j - i + 1
  PROVE  /\ SubSeq(s, i, j) \in Bytes /\ Len(SubSeq(s, i, j)) = n
         /\ \A k \in 1 .. n : SubSeq(s, i, j)[k] = s[i + k - 1]
<1> DEFINE t == SubSeq(s, i, j)
<1>1. /\ t \in Bytes
      /\ Len(t) = IF i <= j THEN j - i + 1 ELSE 0
      /\ \A k \in 1 .. j - i + 1 : t[k] = s[i + k - 1]
  BY PieceIs
<1> HIDE DEF t
<1>2. Len(t) = n
  BY <1>1
<1> QED
  BY <1>1, <1>2 DEF t

LEMMA FirstFive ==
  ASSUME NEW s \in Bytes, Len(s) = 6
  PROVE  /\ SubSeq(s, 1, 5) \in Bytes /\ Len(SubSeq(s, 1, 5)) = 5
         /\ \A k \in 1 .. 5 : SubSeq(s, 1, 5)[k] = s[k]
<1>1. /\ 1 \in Nat \ {0} /\ 5 \in Nat /\ 1 <= 5 /\ 5 <= Len(s) /\ 5 = 5 - 1 + 1
      /\ \A k \in 1 .. 5 : 1 + k - 1 = k
  OBVIOUS
<1>2. /\ SubSeq(s, 1, 5) \in Bytes /\ Len(SubSeq(s, 1, 5)) = 5
      /\ \A k \in 1 .. 5 : SubSeq(s, 1, 5)[k] = s[1 + k - 1]
  BY <1>1, PieceIsOf
<1> QED
  BY <1>1, <1>2

LEMMA OnlyThird ==
  ASSUME NEW s \in Bytes, Len(s) = 5
  PROVE  SubSeq(s, 3, 3) = <<s[3]>>
<1> DEFINE u == SubSeq(s, 3, 3)
           v == <<s[3]>>
<1>1. /\ 3 \in Nat \ {0} /\ 3 \in Nat /\ 3 <= 3 /\ 3 <= Len(s) /\ 1 = 3 - 3 + 1
      /\ 1 \in 1 .. 1 /\ 3 + 1 - 1 = 3
  OBVIOUS
<1>2. u \in Bytes /\ Len(u) = 1 /\ \A k \in 1 .. 1 : u[k] = s[3 + k - 1]
  BY <1>1, PieceIsOf
<1>3. v \in Bytes /\ Len(v) = 1 /\ v[1] = s[3]
  <2>1. 3 \in 1 .. Len(s)
    BY <1>1
  <2>2. s[3] \in Byte
    BY <2>1, ElementOfSeq DEF Bytes
  <2> QED
    BY <2>2 DEF Bytes
<1> HIDE DEF u, v
<1>4. u[1] = s[3]
  BY <1>1, <1>2
<1>5. u = v
  <2>1. \A k \in 1 .. Len(u) : u[k] = v[k]
    BY <1>2, <1>3, <1>4
  <2> QED
    BY <1>2, <1>3, <2>1, SameBytes
<1> QED
  BY <1>5 DEF u, v

LEMMA StatusLineIs ==
  ASSUME NEW status \in Word
  PROVE  LET s == StatusLine(status)
         IN  /\ s \in Bytes /\ Len(s) = 6 /\ s[3] = status
             /\ LineEnds(s) = {6} /\ Rstrip(s) = SubSeq(s, 1, 5)
             /\ Spaces(SubSeq(s, 1, 5)) = {2, 4}
<1> DEFINE s == StatusLine(status)
<1>1. /\ "HTTP/1.0" \in Word /\ "OK" \in Word /\ status \in Word
      /\ SP \in Byte /\ LF \in Byte
  BY Assumptions, WordAssumption, Constants
<1>2. /\ s \in Bytes /\ Len(s) = 6
      /\ s[1] \in Word /\ s[2] = SP /\ s[3] = status /\ s[4] = SP /\ s[5] \in Word
      /\ s[6] = LF
  BY <1>1, WordsArePlain DEF StatusLine, Bytes
<1> HIDE DEF s
<1>3. /\ SP # LF /\ SP \in White /\ LF \in White
      /\ \A w \in Word : w # LF /\ w # SP /\ w \notin White
  BY WordsArePlain DEF White, SP, LF, CR
<1>4. \A i \in 1 .. 6 : i \in {1, 2, 3, 4, 5, 6}
  OBVIOUS
<1>5. LineEnds(s) = {6}
  <2>1. \A i : i \in LineEnds(s) <=> i \in 1 .. 6 /\ s[i] = LF
    BY <1>2, LineEndsIs
  <2> QED
    BY <1>1, <1>2, <1>3, <1>4, <2>1
<1>6. Rstrip(s) = SubSeq(s, 1, 5)
  <2>1. DOMAIN s = 1 .. 6
    BY <1>2, LenProperties DEF Bytes
  <2>2. 5 \in {0} \cup Solid(s) /\ \A i \in {0} \cup Solid(s) : i <= 5
    BY <1>1, <1>2, <1>3, <1>4, <2>1 DEF Solid
  <2>3. {0} \cup Solid(s) \in SUBSET (0 .. 6)
    BY <2>1 DEF Solid
  <2>4. Max({0} \cup Solid(s)) \in {0} \cup Solid(s)
        /\ \A i \in {0} \cup Solid(s) : i <= Max({0} \cup Solid(s))
    BY <2>2, <2>3, MaxUpTo
  <2>5. Max({0} \cup Solid(s)) = 5
    <3> DEFINE n == Max({0} \cup Solid(s))
    <3>1. n \in 0 .. 6 /\ n <= 5 /\ 5 <= n
      BY <2>2, <2>3, <2>4
    <3> HIDE DEF n
    <3>2. n = 5
      BY <3>1
    <3> QED
      BY <3>2 DEF n
  <2> QED
    BY <2>5 DEF Rstrip
<1>7. Spaces(SubSeq(s, 1, 5)) = {2, 4}
  <2> DEFINE t == SubSeq(s, 1, 5)
  <2>1. t \in Bytes /\ Len(t) = 5 /\ \A k \in 1 .. 5 : t[k] = s[k]
    BY <1>2, FirstFive
  <2>2. DOMAIN t = 1 .. 5
    BY <2>1, LenProperties DEF Bytes
  <2> HIDE DEF t
  <2>3. \A i \in 1 .. 5 : i \in {1, 2, 3, 4, 5}
    OBVIOUS
  <2>4. Spaces(t) = {2, 4}
    BY <1>1, <1>2, <1>3, <2>1, <2>2, <2>3 DEF Spaces
  <2> QED
    BY <2>4 DEF t
<1> QED
  BY <1>2, <1>5, <1>6, <1>7 DEF s

\* the response once the status line is read
StatusHead(status) == SplitFirst(Begun(NewMessage("RESPONSE"), StatusLine(status)),
                            StatusLine(status))

LEMMA StatusRead ==
  ASSUME NEW status \in Word, NEW rest \in Bytes
  PROVE  /\ StatusHead(status) \in Message
         /\ StatusHead(status).parser_state = "HEADERS"
         /\ StatusHead(status).message_type = "RESPONSE"
         /\ StatusHead(status).status_code = <<status>>
         /\ StatusHead(status).residual = <<>> /\ StatusHead(status).body = <<>>
         /\ StatusHead(status).headers = {}
         /\ Parse(NewMessage("RESPONSE"), StatusLine(status) \o rest)
              = ParseHeaders(StatusHead(status), rest)
<1> DEFINE new == NewMessage("RESPONSE")
           s == StatusLine(status)
           w == s \o rest
           text == SubSeq(s, 1, 5)
<1>1. /\ new \in Message /\ new.parser_state = "START" /\ new.residual = <<>>
      /\ new.message_type = "RESPONSE" /\ new.body = <<>> /\ new.headers = {}
  BY NewMessageType DEF MessageType, NewMessage
<1>2. /\ s \in Bytes /\ Len(s) = 6 /\ s[3] = status
      /\ LineEnds(s) = {6} /\ Rstrip(s) = text
      /\ Spaces(text) = {2, 4}
  BY StatusLineIs
<1> HIDE DEF new, s
<1>3. HasLine(s) /\ Min(LineEnds(s)) = 6
  <2>1. 6 \in {6} /\ {6} \in SUBSET Nat /\ \A y \in {6} : 6 <= y
    OBVIOUS
  <2> QED
    BY <1>2, <2>1, LeastIs DEF HasLine
<1>4. FirstLine(s) = s
  BY <1>2, <1>3, FirstLineIs, WholeIs
<1>5. w \in Bytes /\ HasLine(w) /\ FirstLine(w) = s /\ After(w, Len(s)) = rest
  <2>1. HasLine(w) /\ FirstLine(w) = FirstLine(s)
    BY <1>2, <1>3, FirstLineOfBoth
  <2>2. After(w, Len(s)) = rest
    <3>1. 0 \in 0 .. Len(rest) /\ Len(s) + 0 = Len(s)
      BY <1>2, Marks
    <3>2. After(w, Len(s) + 0) = After(rest, 0)
      BY <1>2, <3>1, AfterSecond
    <3> QED
      BY <3>1, <3>2, AfterNone
  <2> QED
    BY <1>2, <1>4, <2>1, <2>2, ConcatIs
<1> HIDE DEF w
<1>6. Cardinality(Spaces(text)) = 2
  <2>1. IsFiniteSet({2}) /\ Cardinality({2}) = 1
    BY FS_Singleton
  <2>2. Cardinality({2} \cup {4}) = 1 + 1
    <3>1. 4 \notin {2}
      OBVIOUS
    <3>2. Cardinality({2} \cup {4}) = Cardinality({2}) + 1
      BY <2>1, <3>1, FS_AddElement
    <3> QED
      BY <2>1, <3>2
  <2>3. {2} \cup {4} = {2, 4} /\ 1 + 1 = 2
    OBVIOUS
  <2> QED
    BY <1>2, <2>2, <2>3
<1> DEFINE b == Begun(new, s)
           split == SplitFirst(b, s)
<1>7. IsFirst(new, s)
  BY <1>1, <1>2, <1>6 DEF IsFirst
<1>8. /\ split \in Message /\ split.parser_state = "HEADERS"
      /\ split.residual = <<>>
      /\ ParseStart(new, w) = ParseHeaders(split, rest)
  BY <1>1, <1>5, <1>7, StartIs
<1>9. /\ split.message_type = "RESPONSE" /\ split.body = <<>>
      /\ split.status_code = <<status>> /\ split.headers = {}
  <2>1. b.message_type = "RESPONSE" /\ b.body = <<>> /\ b \in Message /\ b.headers = {}
    BY <1>1, <1>2 DEF Begun, Message
  <2> HIDE DEF b
  <2>2. Min({2, 4}) = 2
    <3>1. 2 \in {2, 4} /\ {2, 4} \in SUBSET Nat /\ \A y \in {2, 4} : 2 <= y
      OBVIOUS
    <3> QED
      BY <3>1, LeastIs
  <2>3. Min({2, 4} \ {2}) = 4
    <3>1. 4 \in {4} /\ {4} \in SUBSET Nat /\ \A y \in {4} : 4 <= y
      OBVIOUS
    <3>2. {2, 4} \ {2} = {4}
      OBVIOUS
    <3> QED
      BY <3>1, <3>2, LeastIs
  <2>4. SubSeq(text, 3, 3) = <<status>>
    <3>1. text \in Bytes /\ Len(text) = 5 /\ \A k \in 1 .. 5 : text[k] = s[k]
      BY <1>2, FirstFive
    <3> HIDE DEF text
    <3>2. SubSeq(text, 3, 3) = <<text[3]>>
      BY <3>1, OnlyThird
    <3> QED
      BY <1>2, <3>1, <3>2
  <2>5. split = [b EXCEPT !.version = SubSeq(text, 1, 2 - 1),
                          !.status_code = SubSeq(text, 2 + 1, 4 - 1),
                          !.parser_state = "HEADERS"]
    BY <1>2, <2>1, <2>2, <2>3 DEF SplitFirst, StatusSplit
  <2> HIDE DEF split, text
  <2> QED
    BY <2>1, <2>4, <2>5 DEF Message
<1>10. Parse(new, w) = ParseStart(new, w)
  <2>1. <<>> \o w = w
    BY <1>5, ConcatEmptySeq DEF Bytes
  <2> QED
    BY <1>1, <2>1 DEF Parse
<1> QED
  BY <1>8, <1>9, <1>10 DEF StatusHead, new, s, w

\* A chunk that ends with the status line leaves nothing to be read.
LEMMA NothingMore ==
  ASSUME NEW q \in Message, q.residual = <<>>
  PROVE  ParseHeaders(q, <<>>) = Returns(q)
<1> DEFINE s == <<>>
<1>1. s \in Bytes /\ Len(s) = 0
  BY Constants
<1> HIDE DEF s
<1>2. LineEnds(s) = {} /\ Stops(s) = {} /\ ReadLines(s) = {}
  <2>1. LineEnds(s) = {}
    <3>1. LineEnds(s) \subseteq 1 .. 0
      BY <1>1, Marks
    <3> QED
      BY <3>1
  <2> QED
    BY <2>1 DEF Stops, ReadLines
<1>3. PartialLine(s) = <<>>
  BY <1>1, PartialIsEmpty
<1>4. HeadersRead(q, s, {}) = q
  <2>1. AddHeaders(q.headers, s, {}) = q.headers
    <3> DEFINE h == q.headers
    <3> HIDE DEF h
    <3>1. AddHeaders(h, s, {}) = h
      BY DEF AddHeaders
    <3> QED
      BY <3>1 DEF h
  <2>2. [q EXCEPT !.headers = q.headers] = q
    BY DEF Message
  <2> QED
    BY <2>1, <2>2 DEF HeadersRead
<1>5. [q EXCEPT !.residual = KeepResidual(@, <<>>)] = q
  BY DEF KeepResidual, Message
<1> QED
  BY <1>2, <1>3, <1>4, <1>5, HeadersAre DEF s

\* A response of the upstream server has no headers: the empty line follows
\* at once, and the rest is its body.
LEMMA BehindHeaders ==
  ASSUME NEW q \in Message, q.parser_state = "HEADERS", q.message_type = "RESPONSE",
         NEW page \in Bytes
  PROVE  ParseHeaders(q, Behind(page))
           = ParseBody([q EXCEPT !.parser_state = "BODY"], page)
<1> DEFINE d == <<LF>>
           s == d \o page
<1>1. d \in Bytes /\ Len(d) = 1 /\ d[1] = LF /\ IsBlank(d)
  BY Constants DEF Bytes, IsBlank
<1> HIDE DEF d
<1>2. s \in Bytes /\ Len(page) \in Nat
  BY <1>1, ConcatIs
<1>3. 1 \in LineEnds(s) /\ LineAt(s, 1) = d
  <2>1. 1 \in LineEnds(d)
    BY <1>1, LineEndsIs
  <2>2. 1 \in LineEnds(s) /\ LineAt(s, 1) = LineAt(d, 1)
    BY <1>1, <2>1, LineOfFirst
  <2>3. 0 \in 0 .. 1 - 1 /\ IsBegin(d, 1, 0)
    <3>1. LineEnds(d) \subseteq 1 .. 1
      BY <1>1, Marks
    <3> QED
      BY <3>1 DEF IsBegin
  <2>4. LineAt(d, 1) = SubSeq(d, 0 + 1, 1)
    BY <1>1, <2>1, <2>3, LineIs
  <2>5. SubSeq(d, 1, 1) = d
    BY <1>1, WholeIs
  <2> QED
    BY <2>2, <2>4, <2>5
<1>4. 1 \in Stops(s) /\ LineEnds(s) \subseteq Nat \ {0} /\ Stops(s) \subseteq LineEnds(s)
  BY <1>1, <1>2, <1>3, Marks DEF Stops
<1>5. Min(Stops(s)) = 1
  <2>1. Stops(s) \in SUBSET Nat /\ \A y \in Stops(s) : 1 <= y
    BY <1>4
  <2> QED
    BY <1>4, <2>1, LeastIs
<1>6. ReadLines(s) = {}
  <2>1. ASSUME NEW i \in ReadLines(s) PROVE FALSE
    BY <1>4, <2>1 DEF ReadLines
  <2> QED
    BY <2>1
<1> HIDE DEF s
<1>7. HeadersRead(q, s, {}) = q
  <2>1. AddHeaders(q.headers, s, {}) = q.headers
    <3> DEFINE h == q.headers
    <3> HIDE DEF h
    <3>1. AddHeaders(h, s, {}) = h
      BY DEF AddHeaders
    <3> QED
      BY <3>1 DEF h
  <2>2. [q EXCEPT !.headers = q.headers] = q
    BY DEF Message
  <2> QED
    BY <2>1, <2>2 DEF HeadersRead
<1>8. ~ IsBadHeader(d)
  BY <1>1 DEF IsBadHeader
<1>9. AfterHeaders(q) = "BODY"
  BY DEF AfterHeaders
<1> DEFINE done == [q EXCEPT !.parser_state = "BODY"]
<1>10. done.parser_state = "BODY"
  BY DEF Message
<1> HIDE DEF done
<1>11. After(s, 1) = page
  <2>1. 0 \in 0 .. Len(page) /\ Len(d) + 0 = 1
    BY <1>1, <1>2
  <2>2. After(d \o page, Len(d) + 0) = After(page, 0)
    BY <1>1, <2>1, AfterSecond
  <2> QED
    BY <2>1, <2>2, AfterNone DEF s
<1>12. ParseHeaders(q, s) = ParseBody(done, page)
  BY <1>3, <1>4, <1>5, <1>6, <1>7, <1>8, <1>9, <1>10, <1>11, HeadersAre DEF done
<1> QED
  BY <1>12 DEF Behind, s, d, done

\* A piece that reaches into the second of two, and two pieces that adjoin.
LEMMA PieceOfBoth ==
  ASSUME NEW u \in Bytes, NEW v \in Bytes, NEW n \in 0 .. Len(v)
  PROVE  SubSeq(u \o v, 1, Len(u) + n) = u \o SubSeq(v, 1, n)
<1> DEFINE a == SubSeq(v, 1, n)
           b == After(v, n)
           w == u \o a
<1>1. a \in Bytes /\ Len(a) = n /\ b \in Bytes /\ a \o b = v
  BY Halves
<1> HIDE DEF a, b
<1>2. u \o v = w \o b
  BY <1>1, Associative
<1>3. w \in Bytes /\ Len(w) = Len(u) + n /\ Len(w) \in Nat
  BY <1>1, ConcatIs, Marks
<1> HIDE DEF w
<1>4. SubSeq(w \o b, 1, Len(w)) = SubSeq(w, 1, Len(w))
  <2>1. 1 \in Nat \ {0} /\ Len(w) \in Int /\ Len(w) <= Len(w)
    BY <1>3
  <2> QED
    BY <1>1, <1>3, <2>1, PieceOfFirst
<1>5. SubSeq(w, 1, Len(w)) = w
  BY <1>3, WholeIs
<1> QED
  BY <1>2, <1>3, <1>4, <1>5 DEF w, a

LEMMA PiecesJoin ==
  ASSUME NEW s \in Bytes, NEW q \in 0 .. Len(s), NEW n \in 0 .. q
  PROVE  /\ SubSeq(s, 1, n) \in Bytes /\ SubSeq(s, n + 1, q) \in Bytes
         /\ SubSeq(s, 1, n) \o SubSeq(s, n + 1, q) = SubSeq(s, 1, q)
<1> DEFINE u == SubSeq(s, 1, q)
           v == After(s, q)
<1>1. u \in Bytes /\ Len(u) = q /\ v \in Bytes /\ u \o v = s
  BY Halves
<1> HIDE DEF u, v
<1>2. SubSeq(s, 1, n) = SubSeq(u, 1, n)
  <2>1. 1 \in Nat \ {0} /\ n \in Int /\ n <= Len(u)
    BY <1>1
  <2>2. SubSeq(u \o v, 1, n) = SubSeq(u, 1, n)
    BY <1>1, <2>1, PieceOfFirst
  <2> QED
    BY <1>1, <2>2
<1>3. SubSeq(s, n + 1, q) = After(u, n)
  <2>1. n + 1 \in Nat \ {0} /\ q \in Int /\ q <= Len(u)
    BY <1>1, Marks
  <2>2. SubSeq(u \o v, n + 1, q) = SubSeq(u, n + 1, q)
    BY <1>1, <2>1, PieceOfFirst
  <2> QED
    BY <1>1, <2>2 DEF After
<1>4. n \in 0 .. Len(u)
  BY <1>1
<1> QED
  BY <1>1, <1>2, <1>3, <1>4, Halves DEF u

-----------------------------------------------------------------------------
(* What is made of a reply.                                                 *)

Answering(status, page) == StatusLine(status) \o Behind(page)

LEMMA AnsweringIs ==
  ASSUME NEW status \in Word, NEW page \in Bytes
  PROVE  /\ StatusLine(status) \in Bytes /\ Len(StatusLine(status)) = 6
         /\ Behind(page) \in Bytes /\ Len(Behind(page)) = 1 + Len(page)
         /\ Len(page) \in Nat
         /\ Answering(status, page) \in Bytes
         /\ Len(Answering(status, page)) = 7 + Len(page)
<1>1. <<LF>> \in Bytes /\ Len(<<LF>>) = 1
  BY Constants DEF Bytes
<1>2. Behind(page) \in Bytes /\ Len(Behind(page)) = 1 + Len(page) /\ Len(page) \in Nat
  BY <1>1, ConcatIs DEF Behind
<1>3. StatusLine(status) \in Bytes /\ Len(StatusLine(status)) = 6
  BY StatusLineIs
<1>4. /\ Answering(status, page) \in Bytes
      /\ Len(Answering(status, page)) = Len(StatusLine(status)) + Len(Behind(page))
  BY <1>2, <1>3, ConcatIs DEF Answering
<1> QED
  BY <1>2, <1>3, <1>4

\* A reply whose status line has arrived whole: whatever else has, nothing is
\* kept, and nothing raises.
LEMMA ReplyRead ==
  ASSUME NEW status \in Word, NEW page \in Bytes,
         NEW n \in 6 .. Len(Answering(status, page))
  PROVE  LET r == Parse(NewMessage("RESPONSE"), SubSeq(Answering(status, page), 1, n))
         IN  /\ r = Returns(r.m) /\ r.m \in Message
             /\ r.m.residual = <<>> /\ r.m.parser_state # "END"
             /\ n = Len(Answering(status, page)) =>
                  r.m.status_code = <<status>> /\ r.m.body = page /\ r.m.headers = {}
<1> DEFINE u == StatusLine(status)
           v == Behind(page)
           q == StatusHead(status)
           s == Answering(status, page)
           part == SubSeq(s, 1, n)
           r == Parse(NewMessage("RESPONSE"), part)
           k == n - 6
<1>1. /\ u \in Bytes /\ Len(u) = 6 /\ v \in Bytes /\ Len(v) = 1 + Len(page)
      /\ Len(page) \in Nat /\ s = u \o v /\ Len(s) = 7 + Len(page)
  BY AnsweringIs DEF Answering
<1>2. k \in 0 .. Len(v) /\ n = Len(u) + k /\ (k = 0 <=> n = 6)
  BY <1>1
<1>3. part = u \o SubSeq(v, 1, k)
  BY <1>1, <1>2, PieceOfBoth
<1>4. /\ q \in Message /\ q.parser_state = "HEADERS" /\ q.message_type = "RESPONSE"
      /\ q.status_code = <<status>> /\ q.residual = <<>> /\ q.body = <<>>
      /\ q.headers = {}
  BY Constants, StatusRead
<1>5. ASSUME NEW rest \in Bytes
      PROVE  Parse(NewMessage("RESPONSE"), u \o rest) = ParseHeaders(q, rest)
  BY <1>5, StatusRead
<1>6. CASE k = 0
  <2>1. SubSeq(v, 1, k) = <<>>
    BY <1>6, SubSeqEmpty
  <2>2. r = ParseHeaders(q, <<>>)
    BY <1>3, <1>5, <2>1, Constants
  <2>3. r = Returns(q)
    BY <1>4, <2>2, NothingMore
  <2>4. n # Len(s)
    BY <1>1, <1>2, <1>6
  <2> HIDE DEF s, r, q
  <2>5. r.m = q /\ r = Returns(r.m)
    BY <2>3 DEF Returns
  <2>6. /\ r = Returns(r.m) /\ r.m \in Message
        /\ r.m.residual = <<>> /\ r.m.parser_state # "END"
    BY <1>4, <2>5
  <2> QED
    BY <2>4, <2>6 DEF r, s
<1>7. CASE k # 0
  <2> DEFINE j == k - 1
             some == SubSeq(page, 1, j)
  <2>1. j \in 0 .. Len(page) /\ k = 1 + j /\ (n = Len(s) <=> j = Len(page))
    BY <1>1, <1>2, <1>7
  <2>2. SubSeq(v, 1, k) = Behind(some)
    <3>1. <<LF>> \in Bytes /\ Len(<<LF>>) = 1
      BY Constants DEF Bytes
    <3>2. SubSeq(<<LF>> \o page, 1, Len(<<LF>>) + j) = <<LF>> \o some
      <4> HIDE DEF j
      <4> QED
        BY <2>1, <3>1, PieceOfBoth
    <3> HIDE DEF j, some
    <3> QED
      BY <2>1, <3>1, <3>2 DEF Behind
  <2>3. some \in Bytes /\ (j = Len(page) => some = page)
    BY <2>1, Halves, WholeIs
  <2>4. Behind(some) \in Bytes
    BY <2>3, AnsweringIs, Assumptions
  <2> DEFINE done == [q EXCEPT !.parser_state = "BODY"]
             full == [done EXCEPT !.body = @ \o some]
  <2>5. r = ParseHeaders(q, Behind(some))
    BY <1>3, <1>5, <2>2, <2>4
  <2>6. ParseHeaders(q, Behind(some)) = ParseBody(done, some)
    <3> HIDE DEF some
    <3> QED
      BY <1>4, <2>3, BehindHeaders
  <2>7. r = Returns(full)
    BY <2>5, <2>6 DEF ParseBody
  <2>8. /\ full \in Message /\ full.residual = <<>> /\ full.parser_state = "BODY"
        /\ full.status_code = <<status>> /\ full.body = some /\ full.headers = {}
    <3> HIDE DEF q, some
    <3>1. <<>> \o some = some
      BY <2>3, ConcatEmptySeq DEF Bytes
    <3>2. /\ done \in Message /\ done.residual = <<>> /\ done.parser_state = "BODY"
          /\ done.status_code = <<status>> /\ done.body = <<>> /\ done.headers = {}
      BY <1>4 DEF Message, ParserState
    <3> HIDE DEF done
    <3> QED
      BY <2>3, <3>1, <3>2 DEF Message
  <2> HIDE DEF full, r, s, some, j
  <2>9. r.m = full /\ r = Returns(r.m)
    BY <2>7 DEF Returns
  <2>10. /\ r = Returns(r.m) /\ r.m \in Message
         /\ r.m.residual = <<>> /\ r.m.parser_state # "END"
    BY <2>8, <2>9
  <2>11. n = Len(s) =>
           r.m.status_code = <<status>> /\ r.m.body = page /\ r.m.headers = {}
    BY <2>1, <2>3, <2>8, <2>9
  <2> QED
    BY <2>10, <2>11 DEF r, s
<1> QED
  BY <1>6, <1>7

\* The next piece of a reply of which nothing, or the status line at least,
\* has been read.
LEMMA ReplyReadOn ==
  ASSUME NEW status \in Word, NEW page \in Bytes, NEW response, NEW got,
         NEW q \in 6 .. Len(Answering(status, page)), got <= q,
         IF got = 0 THEN response = NewMessage("RESPONSE")
         ELSE /\ got \in 6 .. Len(Answering(status, page))
              /\ response = Parse(NewMessage("RESPONSE"),
                                  SubSeq(Answering(status, page), 1, got)).m
  PROVE  Parse(response, SubSeq(Answering(status, page), got + 1, q))
           = Parse(NewMessage("RESPONSE"), SubSeq(Answering(status, page), 1, q))
<1> DEFINE s == Answering(status, page)
           new == NewMessage("RESPONSE")
           a == SubSeq(s, 1, got)
           c == SubSeq(s, got + 1, q)
           w == Parse(new, SubSeq(s, 1, q))
           r == Parse(new, a)
<1>1. s \in Bytes /\ Len(s) \in Nat
  BY AnsweringIs, Marks
<1>2. CASE got = 0
  <2>1. got + 1 = 1
    BY <1>2
  <2> QED
    BY <1>2, <2>1
<1>3. CASE got # 0
  <2>1. /\ r = Returns(r.m) /\ r.m.residual = <<>> /\ r.m.parser_state # "END"
    BY <1>3, ReplyRead
  <2>2. w = Returns(w.m) /\ w.m \in Message
    BY ReplyRead
  <2>3. q \in 0 .. Len(s) /\ got \in 0 .. q
    BY <1>1, <1>3
  <2>4. a \in Bytes /\ c \in Bytes /\ a \o c = SubSeq(s, 1, q)
    BY <1>1, <2>3, PiecesJoin
  <2>5. response = r.m
    BY <1>3
  <2> HIDE DEF s, a, c, r, w
  <2>6. ~ r.raised
    BY <2>1 DEF Returns
  <2>7. Parse(r.m, c) = Keeping(w, r.m.residual)
    BY <2>1, <2>4, <2>6, ParseInPieces DEF MessageType, r, w, new
  <2>8. Keeping(w, <<>>) = w
    BY <2>2, KeepNothing DEF Returns
  <2> QED
    BY <2>1, <2>5, <2>7, <2>8 DEF s, c, w
<1> QED
  BY <1>2, <1>3

-----------------------------------------------------------------------------
(* The job that is under way.                                               *)

Reply(uri, t) == Answering(Status(uri), Page(uri, t))

\* A status line arrives in one piece.  What parse() keeps of half a line is
\* read once more in front of a later one, and would corrupt the response.
StatusLineUncut == BUFFER >= 6 /\ UpstreamCut \cap (1 .. 5) = {}

Requested(m) == m.message_type = "REQUEST" /\ Formed(m)

\* what the first got bytes of the reply have made of the response
ReadOf(reply, got, response) ==
  IF got = 0 THEN response = NewMessage("RESPONSE")
  ELSE /\ got \in 6 .. Len(reply)
       /\ response = Parse(NewMessage("RESPONSE"), SubSeq(reply, 1, got)).m

\* Every request could have been read from the bytes that are written of it,
\* so the upstream server answers for the page the client asked for, and what
\* has been read of its answer is the beginning of that page.
JobInOrder ==
  /\ \A c \in Client :
       client_request_dict[c] # None => Requested(client_request_dict[c])
  /\ pc \in {"connect", "forward", "await"} =>
       Requested(job.request) /\ job.request.parser_state = "END"
  /\ pc \in {"connect", "forward"} =>
       job.response = NewMessage("RESPONSE") /\ job.got = 0
  /\ pc = "await" =>
       /\ \E t \in 0 .. MaxTime : job.reply = Reply(job.request.uri, t)
       /\ ReadOf(job.reply, job.got, job.response)

LEMMA PageType ==
  ASSUME NEW uri, NEW t \in 0 .. MaxTime
  PROVE  /\ Status(uri) \in Word
         /\ Name(uri) \in Bytes /\ <<Stamp[t]>> \in Bytes
         /\ Page(uri, t) \in Bytes
         /\ Len(Page(uri, t)) = Len(Name(uri)) + 1
<1>1. Status(uri) \in Word
  BY Assumptions, WordAssumption DEF Status
<1>2. Name(uri) \in Bytes
  BY Assumptions DEF Name, Bytes, Byte
<1>3. <<Stamp[t]>> \in Bytes /\ Len(<<Stamp[t]>>) = 1
  BY Assumptions DEF Bytes, Byte
<1> QED
  BY <1>1, <1>2, <1>3, ConcatIs DEF Page

\* What the upstream server answers.
LEMMA ReplyIs ==
  ASSUME NEW bytes, NEW t \in 0 .. MaxTime
  PROVE  UpstreamReply(bytes, t) = Reply(Parse(NewMessage("REQUEST"), bytes).m.uri, t)
<1> DEFINE uri == Parse(NewMessage("REQUEST"), bytes).m.uri
           status == Status(uri)
           name == Name(uri)
           stamp == <<Stamp[t]>>
           d == <<LF>>
           line == StatusLine(status)
           head == <<"HTTP/1.0", SP, status, SP, "OK", LF, LF>>
<1> HIDE DEF uri
<1>1. /\ status \in Word /\ name \in Bytes /\ stamp \in Bytes
      /\ line \in Bytes /\ Len(line) = 6 /\ d \in Bytes /\ Len(d) = 1 /\ d[1] = LF
  BY PageType, StatusLineIs, Constants DEF Bytes
<1>2. head = line \o d
  <2>1. /\ status \in Byte /\ SP \in Byte /\ LF \in Byte
        /\ "HTTP/1.0" \in Byte /\ "OK" \in Byte
    BY <1>1, Assumptions, WordAssumption, WordsArePlain, Constants
  <2>2. head \in Seq(Byte)
    <3> HIDE DEF status
    <3> QED
      BY <2>1
  <2>3. line = <<"HTTP/1.0", SP, status, SP, "OK", LF>>
    BY DEF StatusLine
  <2> HIDE DEF line, status
  <2>4. /\ line[1] = "HTTP/1.0" /\ line[2] = SP /\ line[3] = status /\ line[4] = SP
        /\ line[5] = "OK" /\ line[6] = LF
    BY <2>3
  <2>5. /\ line \o d \in Bytes /\ Len(line \o d) = 7
        /\ \A k \in 1 .. 6 : (line \o d)[k] = line[k]
        /\ \A k \in 1 .. 1 : (line \o d)[6 + k] = d[k]
    <3>1. /\ line \o d \in Bytes /\ Len(line \o d) = Len(line) + Len(d)
          /\ \A k \in 1 .. Len(line) : (line \o d)[k] = line[k]
          /\ \A k \in 1 .. Len(d) : (line \o d)[Len(line) + k] = d[k]
      BY <1>1, ConcatIs
    <3> QED
      BY <1>1, <3>1
  <2>6. /\ head[1] = "HTTP/1.0" /\ head[2] = SP /\ head[3] = status /\ head[4] = SP
        /\ head[5] = "OK" /\ head[6] = LF /\ head[7] = LF /\ Len(head) = 7
    OBVIOUS
  <2>7. (line \o d)[7] = LF
    <3>1. 1 \in 1 .. 1 /\ 6 + 1 = 7
      OBVIOUS
    <3> QED
      BY <1>1, <2>5, <3>1
  <2> HIDE DEF head
  <2>8. ASSUME NEW k \in 1 .. 7 PROVE head[k] = (line \o d)[k]
    <3>1. k = 7 \/ k \in 1 .. 6
      OBVIOUS
    <3>2. ASSUME NEW i \in 1 .. 6 PROVE head[i] = line[i]
      <4>1. i \in {1, 2, 3, 4, 5, 6}
        OBVIOUS
      <4> QED
        BY <2>4, <2>6, <4>1
    <3> QED
      BY <2>5, <2>6, <2>7, <3>1, <3>2
  <2> QED
    BY <2>2, <2>5, <2>6, <2>8, SameBytes DEF Bytes
<1>3. UpstreamReply(bytes, t) = (head \o name) \o stamp
  BY DEF UpstreamReply, uri, Status, Name
<1> HIDE DEF head, line, name, stamp, d
<1>4. line \o d \in Bytes /\ name \o stamp \in Bytes
  BY <1>1, ConcatIs
<1>5. (head \o name) \o stamp = line \o (d \o (name \o stamp))
  <2>1. (head \o name) \o stamp = head \o (name \o stamp)
    BY <1>1, <1>2, <1>4, Associative
  <2>2. (line \o d) \o (name \o stamp) = line \o (d \o (name \o stamp))
    BY <1>1, <1>4, Associative
  <2> QED
    BY <1>2, <2>1, <2>2
<1> QED
  BY <1>3, <1>5 DEF Reply, Answering, Behind, Page, uri, line, name, stamp, d

LEMMA ReplyTyped ==
  ASSUME NEW uri, NEW t \in 0 .. MaxTime
  PROVE  Reply(uri, t) \in Bytes /\ Len(Reply(uri, t)) \in Nat /\ Len(Reply(uri, t)) >= 8
<1>1. Status(uri) \in Word /\ Page(uri, t) \in Bytes
      /\ Len(Page(uri, t)) = Len(Name(uri)) + 1
      /\ Len(Name(uri)) \in Nat
  BY PageType, Marks
<1>2. /\ Answering(Status(uri), Page(uri, t)) \in Bytes
      /\ Len(Answering(Status(uri), Page(uri, t))) = 7 + Len(Page(uri, t))
  BY <1>1, AnsweringIs
<1> QED
  BY <1>1, <1>2 DEF Reply

\* the pieces in which the upstream server's answer arrives
LEMMA NextEnd ==
  ASSUME StatusLineUncut, Typed, job \in Job, Len(job.reply) >= 8,
         job.got < Len(job.reply), NEW q \in ChunkEnds
  PROVE  q \in 6 .. Len(job.reply) /\ job.got <= q
<1> DEFINE n == Len(job.reply)
           got == job.got
           ends == {got + BUFFER, n}
           most == Min(ends)
<1>1. n \in Nat /\ got \in Nat /\ BUFFER \in Nat /\ BUFFER >= 6 /\ n >= 8 /\ got < n
  BY Assumptions, Marks DEF Job, StatusLineUncut
<1>2. q = most \/ (q \in UpstreamCut /\ got < q /\ q < most)
  BY DEF ChunkEnds
<1>3. UpstreamCut \subseteq Nat /\ UpstreamCut \cap (1 .. 5) = {}
  BY ProxyAssumption DEF StatusLineUncut
<1> HIDE DEF n, got
<1>4. ends \in SUBSET Nat /\ ends # {}
  BY <1>1
<1>5. most \in ends /\ \A y \in ends : most <= y
  <2> HIDE DEF ends
  <2> QED
    BY <1>4, MinNat
<1> HIDE DEF most
<1>6. most \in 6 .. n /\ got <= most
  BY <1>1, <1>5
<1>7. CASE q # most
  <2>1. q \in Nat /\ q \notin 1 .. 5 /\ got < q /\ q < most
    BY <1>2, <1>3, <1>7
  <2> QED
    BY <1>1, <1>6, <2>1 DEF n, got
<1> QED
  BY <1>6, <1>7 DEF n, got

LEMMA ReadOn ==
  ASSUME StatusLineUncut, Typed, JobInOrder, pc = "await",
         job.got < Len(job.reply), NEW q \in ChunkEnds
  PROVE  LET r == Parse(job.response, SubSeq(job.reply, job.got + 1, q))
         IN  /\ ~ r.raised
             /\ ReadOf(job.reply, q, r.m)
<1>1. PICK t \in 0 .. MaxTime : job.reply = Reply(job.request.uri, t)
  BY DEF JobInOrder
<1> DEFINE status == Status(job.request.uri)
           page == Page(job.request.uri, t)
           s == Answering(status, page)
           new == NewMessage("RESPONSE")
           r == Parse(job.response, SubSeq(job.reply, job.got + 1, q))
           w == Parse(new, SubSeq(s, 1, q))
<1>2. status \in Word /\ page \in Bytes /\ job.reply = s
  BY <1>1, PageType DEF Reply
<1>3. job \in Job /\ Len(job.reply) >= 8
  BY <1>1, ReplyTyped DEF Typed, JobOK
<1>4. q \in 6 .. Len(job.reply) /\ job.got <= q
  BY <1>3, NextEnd
<1>5. ReadOf(job.reply, job.got, job.response)
  BY DEF JobInOrder
<1> HIDE DEF status, page
<1>6. r = w
  <2>1. IF job.got = 0 THEN job.response = new
        ELSE /\ job.got \in 6 .. Len(s)
             /\ job.response = Parse(new, SubSeq(s, 1, job.got)).m
    BY <1>2, <1>5 DEF ReadOf
  <2>2. q \in 6 .. Len(s)
    BY <1>2, <1>4
  <2> QED
    BY <1>2, <1>4, <2>1, <2>2, ReplyReadOn
<1>7. w = Returns(w.m)
  BY <1>2, <1>4, ReplyRead
<1> HIDE DEF r, s
<1>8. ~ r.raised
  BY <1>6, <1>7 DEF Returns
<1>9. ReadOf(job.reply, q, r.m)
  <2>1. q # 0
    BY <1>4
  <2> QED
    BY <1>2, <1>4, <1>6, <2>1 DEF ReadOf
<1> QED
  BY <1>8, <1>9 DEF r

\* What a request that arrives in pieces is parsed to.
LEMMA RequestedStill ==
  ASSUME Typed, JobInOrder, NEW c \in Client
  PROVE  Requested(ClientRequest(c)) /\ Requested(Parsed(c).m)
<1>1. Requested(ClientRequest(c)) /\ ClientRequest(c) \in Message
  <2>1. "REQUEST" \in MessageType
    BY DEF MessageType
  <2> QED
    BY <2>1, NewFormed, ParsedType DEF ClientRequest, Requested, JobInOrder
<1>2. Chunk(c) \in Bytes
  BY ParsedType
<1> QED
  BY <1>1, <1>2, ParseFormed DEF Parsed, Requested, FormedFrom

\* The upstream server is asked for what the client asked for.
LEMMA AsksForTheSame ==
  ASSUME NEW m \in Message, Requested(m), m.parser_state = "END"
  PROVE  Parse(NewMessage("REQUEST"), ToBytes(m)).m.uri = m.uri
<1>1. Parse(NewMessage("REQUEST"), ToBytes(m)) = Returns([m EXCEPT !.residual = <<>>])
  BY ParsedBack DEF Requested
<1>2. [m EXCEPT !.residual = <<>>].uri = m.uri
  BY DEF Message
<1> DEFINE n == [m EXCEPT !.residual = <<>>]
<1> HIDE DEF n
<1>3. Returns(n).m = n
  BY DEF Returns
<1> QED
  BY <1>1, <1>2, <1>3 DEF n

LEMMA JobStep ==
  ASSUME StatusLineUncut, Typed, JobInOrder, [Next]_vars
  PROVE  JobInOrder'
<1> DEFINE Known == \A c \in Client :
                      client_request_dict[c] # None => Requested(client_request_dict[c])
<1>0. Known
  BY DEF JobInOrder
<1>1. CASE Surroundings
  <2>1. UNCHANGED <<loop, watched, tables>>
    BY <1>1, SurroundingsKeepWatch
  <2> QED
    BY <2>1 DEF JobInOrder, loop, tables
<1>2. ASSUME pc' \notin {"connect", "forward", "await"},
             NEW c \in Client, NEW m, m = None \/ Requested(m),
             client_request_dict' = [client_request_dict EXCEPT ![c] = m]
      PROVE  JobInOrder'
  BY <1>0, <1>2 DEF JobInOrder, Typed, TypeOK
<1>3. ASSUME pc' \notin {"connect", "forward", "await"},
             client_request_dict' = client_request_dict
      PROVE  JobInOrder'
  BY <1>0, <1>3 DEF JobInOrder
<1>4. CASE Select \/ Accept
  BY <1>3, <1>4 DEF Select, Accept, tables
<1>5. ASSUME NEW c \in Client, SendResponse(c) PROVE JobInOrder'
  <2>1. pc' \in {"loop", "send raised"}
    BY <1>5 DEF SendResponse
  <2>2. client_request_dict' = client_request_dict \/ Clean(c)
    BY <1>5 DEF SendResponse
  <2> QED
    BY <1>2, <1>3, <2>1, <2>2 DEF Clean
<1>6. ASSUME NEW c \in Client, DealWithClient(c) PROVE JobInOrder'
  <2>1. Requested(ClientRequest(c)) /\ Requested(Parsed(c).m)
    BY RequestedStill
  <2>2. CASE RecvRaises(c)
    BY <1>2, <2>1, <2>2 DEF RecvRaises
  <2>3. CASE Reject(c)
    BY <1>2, <2>1, <2>3 DEF Reject, Keep
  <2>4. CASE ClientGone(c)
    BY <1>2, <2>4 DEF ClientGone, Clean, Recv
  <2>5. CASE Fragment(c)
    BY <1>2, <2>1, <2>5 DEF Fragment, Keep, Recv
  <2>6. CASE CacheHit(c)
    BY <1>2, <2>6 DEF CacheHit, Completes, Recv
  <2>7. CASE CacheMiss(c)
    <3>1. /\ job'.request = Parsed(c).m /\ job'.response = NewMessage("RESPONSE")
          /\ job'.got = 0 /\ pc' = "connect"
      BY <2>7 DEF CacheMiss, JobOf
    <3>2. Parsed(c).m.parser_state = "END"
      BY <2>7 DEF CacheMiss, Completes
    <3>3. Known'
      BY <1>0, <2>1, <2>7 DEF CacheMiss, Keep, Typed, TypeOK
    <3> QED
      BY <2>1, <3>1, <3>2, <3>3 DEF JobInOrder
  <2> QED
    BY <1>6, <2>2, <2>3, <2>4, <2>5, <2>6, <2>7 DEF DealWithClient
<1>7. CASE SendBadRequest
  BY <1>3, <1>7 DEF SendBadRequest, SendError
<1>8. CASE ConnectUpstream
  <2>1. Known'
    BY <1>0, <1>8 DEF ConnectUpstream, tables
  <2> QED
    BY <1>8, <2>1 DEF ConnectUpstream, JobInOrder
<1>9. CASE Forward
  <2> DEFINE request == job.request
             reply == UpstreamReply(ToBytes(request), now)
  <2>1. job \in Job /\ request \in Message
    BY <1>9 DEF Forward, Typed, JobOK, Job
  <2>2. Requested(request) /\ request.parser_state = "END"
        /\ job.response = NewMessage("RESPONSE") /\ job.got = 0
    BY <1>9 DEF Forward, JobInOrder
  <2>3. now \in 0 .. MaxTime
    BY DEF Typed, TypeOK
  <2>4. reply = Reply(request.uri, now)
    BY <2>1, <2>2, <2>3, ReplyIs, AsksForTheSame
  <2> HIDE DEF request, reply
  <2>5. /\ job'.request = request /\ job'.reply = reply /\ job'.got = 0
        /\ job'.response = NewMessage("RESPONSE") /\ pc' = "await"
    BY <1>9, <2>1, <2>2 DEF Forward, Job, request, reply
  <2>6. Known'
    BY <1>0, <1>9, <2>1 DEF Forward, Forget, Typed, TypeOK, Job
  <2> QED
    BY <2>2, <2>3, <2>4, <2>5, <2>6 DEF JobInOrder, ReadOf
<1>10. CASE ForwardFails
  <2>1. job.client \in Client
    BY <1>10 DEF ForwardFails, Typed, JobOK, Job
  <2>2. pc' \notin {"connect", "forward", "await"}
    BY <1>10 DEF ForwardFails, SendError
  <2> QED
    BY <1>2, <1>10, <2>1, <2>2 DEF ForwardFails, Forget
<1>11. CASE RecvUpstream
  <2>1. pc = "await" /\ job \in Job /\ job.got < Len(job.reply)
    BY <1>11 DEF RecvUpstream, Typed, JobOK
  <2>2. PICK q \in ChunkEnds :
          LET r == Parse(job.response, SubSeq(job.reply, job.got + 1, q))
          IN  /\ job' = [job EXCEPT !.response = r.m, !.got = q]
              /\ pc' = IF r.raised THEN "parse raised" ELSE pc
    BY <1>11 DEF RecvUpstream
  <2> DEFINE r == Parse(job.response, SubSeq(job.reply, job.got + 1, q))
  <2>3. ~ r.raised /\ ReadOf(job.reply, q, r.m)
    BY <2>1, ReadOn
  <2>4. job' = [job EXCEPT !.response = r.m, !.got = q] /\ pc' = pc
    BY <2>2, <2>3
  <2> HIDE DEF r
  <2>5. /\ job'.request = job.request /\ job'.reply = job.reply
        /\ job'.response = r.m /\ job'.got = q
    BY <2>1, <2>4 DEF Job
  <2>6. Known'
    BY <1>0, <1>11 DEF RecvUpstream, tables
  <2> QED
    BY <2>1, <2>3, <2>4, <2>5, <2>6 DEF JobInOrder
<1>12. CASE RecvUpstreamRaises
  BY <1>3, <1>12 DEF RecvUpstreamRaises, tables
<1>13. CASE Answer
  BY <1>3, <1>13 DEF Answer
<1>14. CASE UNCHANGED vars
  BY <1>14 DEF vars, loop, tables, JobInOrder
<1> QED
  BY <1>1, <1>4, <1>5, <1>6, <1>7, <1>8, <1>9, <1>10, <1>11, <1>12, <1>13, <1>14
  DEF Next, Proxy

LEMMA AlwaysInOrder ==
  ASSUME StatusLineUncut
  PROVE  Spec => [](Typed /\ JobInOrder)
<1>1. Init => JobInOrder
  BY DEF Init, JobInOrder
<1>2. Typed /\ JobInOrder /\ [Next]_vars => JobInOrder'
  BY JobStep
<1> QED
  BY <1>1, <1>2, InitTyped, StepTyped, PTL DEF Spec

-----------------------------------------------------------------------------
(* The cache.                                                               *)

\* a page, compressed or not
Carries(m, page) == \E zip \in {<<>>, <<"<gzip>">>} : m.body = zip \o page

PagesHeld ==
  \A u \in Uri : cache[u] # None =>
    /\ cache[u].response.status_code = <<"200">>
    /\ \E t \in 0 .. MaxTime : Carries(cache[u].response, Page(u, t))
    /\ cache[u].expire <= now + MAX_AGE

\* What answer() makes of the page the upstream server has sent.
Answered(request, response) ==
  AddHeader(IF AllowGzip(request) THEN CompressResponseGzip(response) ELSE response,
            <<"Cache-Control">>, <<"max-age">>)

LEMMA AddHeaderKeeps ==
  ASSUME NEW m \in Message, NEW name, NEW value
  PROVE  /\ AddHeader(m, name, value).body = m.body
         /\ AddHeader(m, name, value).status_code = m.status_code
BY DEF AddHeader, Message

LEMMA AnsweredCarries ==
  ASSUME NEW request, NEW response \in Message
  PROVE  /\ Answered(request, response).status_code = response.status_code
         /\ Carries(Answered(request, response), response.body)
<1> DEFINE zipped == [response EXCEPT !.body = <<"<gzip>">> \o @]
           both == AddHeader(AddHeader(zipped, <<"Content-Encoding">>, <<"gzip">>),
                             <<"Content-Length">>, <<"<length>">>)
           sent == IF AllowGzip(request) THEN CompressResponseGzip(response) ELSE response
           body == response.body
<1>1. {<<"<gzip>">>, <<"<length>">>, <<"gzip">>, <<"Content-Encoding">>,
       <<"Content-Length">>} \subseteq Bytes
  BY WordAssumption DEF Bytes, Byte
<1>2. body \in Bytes /\ <<"<gzip>">> \o body \in Bytes /\ <<>> \o body = body
  BY <1>1, ConcatIs, ConcatEmptySeq DEF Message, Bytes
<1> HIDE DEF body
<1>3. zipped \in Message /\ zipped.body = <<"<gzip>">> \o body
      /\ zipped.status_code = response.status_code
  BY <1>2 DEF Message, body
<1> HIDE DEF zipped
<1>4. /\ both \in Message /\ both.body = <<"<gzip>">> \o body
      /\ both.status_code = response.status_code
  <2> DEFINE one == AddHeader(zipped, <<"Content-Encoding">>, <<"gzip">>)
  <2>1. one \in Message /\ one.body = zipped.body /\ one.status_code = zipped.status_code
    BY <1>1, <1>3, AddHeaderType, AddHeaderKeeps
  <2> HIDE DEF one
  <2>2. /\ AddHeader(one, <<"Content-Length">>, <<"<length>">>) \in Message
        /\ AddHeader(one, <<"Content-Length">>, <<"<length>">>).body = one.body
        /\ AddHeader(one, <<"Content-Length">>, <<"<length>">>).status_code = one.status_code
    BY <1>1, <2>1, AddHeaderType, AddHeaderKeeps
  <2> QED
    BY <1>3, <2>1, <2>2 DEF one
<1>5. /\ sent \in Message /\ sent.status_code = response.status_code
      /\ sent.body \in {<<>> \o body, <<"<gzip>">> \o body}
  <2>1. CompressResponseGzip(response) \in {response, both}
    BY DEF CompressResponseGzip, zipped
  <2> HIDE DEF both
  <2> QED
    BY <1>2, <1>4, <2>1 DEF body
<1> HIDE DEF sent
<1>6. /\ Answered(request, response).body = sent.body
      /\ Answered(request, response).status_code = sent.status_code
  BY <1>5, AddHeaderKeeps DEF Answered, sent
<1> QED
  BY <1>5, <1>6 DEF Carries, body

\* A response that has been read to its end.
LEMMA WholePage ==
  ASSUME Typed, JobInOrder, pc = "await", job.got = Len(job.reply),
         NEW t \in 0 .. MaxTime, job.reply = Reply(job.request.uri, t)
  PROVE  /\ job.response.status_code = <<Status(job.request.uri)>>
         /\ job.response.body = Page(job.request.uri, t)
         /\ job.response.headers = {}
<1> DEFINE status == Status(job.request.uri)
           page == Page(job.request.uri, t)
           s == Answering(status, page)
           n == Len(s)
<1>1. status \in Word /\ page \in Bytes /\ job.reply = s
  BY PageType DEF Reply
<1>2. n \in Nat /\ n >= 8
  BY ReplyTyped DEF Reply
<1>3. job.response = Parse(NewMessage("RESPONSE"), SubSeq(s, 1, n)).m
  BY <1>1, <1>2 DEF JobInOrder, ReadOf
<1> HIDE DEF status, page
<1>4. n \in 6 .. Len(s)
  BY <1>2
<1>5. /\ job.response.status_code = <<status>> /\ job.response.body = page
      /\ job.response.headers = {}
  BY <1>1, <1>3, <1>4, ReplyRead
<1> QED
  BY <1>5 DEF status, page

\* the most that a page has, compressed
Small(m) == Len(m.body) <= 3

\* The words a page carries, also when it is compressed.
LEMMA CarriedPage ==
  ASSUME NEW m \in Message, NEW uri, NEW t \in 0 .. MaxTime,
         Carries(m, Page(uri, t))
  PROVE  /\ Small(m)
         /\ uri \in Uri => Len(m.body) >= 2 /\ PageUri(m) = uri
<1> DEFINE name == Name(uri)
           stamp == <<Stamp[t]>>
           page == name \o stamp
           z == Len(m.body)
<1>1. PICK zip \in {<<>>, <<"<gzip>">>} : m.body = zip \o page
  BY DEF Carries, Page
<1>2. zip \in Bytes /\ Len(zip) \in 0 .. 1
  <2>1. <<"<gzip>">> \in Bytes /\ Len(<<"<gzip>">>) = 1
    BY WordAssumption DEF Bytes, Byte
  <2>2. <<>> \in Bytes /\ Len(<<>>) = 0
    BY Constants
  <2> QED
    BY <2>1, <2>2
<1>3. stamp \in Bytes /\ Len(stamp) = 1 /\ name \in Bytes
  BY PageType
<1>4. name = <<>> \/ (name = uri /\ \E w \in Word : uri = <<w>>)
  BY Assumptions DEF Name
<1>5. Len(name) \in 0 .. 1
  BY <1>4
<1>6. uri \in Uri => name = uri /\ Len(name) = 1 /\ uri = <<name[1]>>
  BY Assumptions DEF Name
<1> HIDE DEF name, stamp
<1>7. page \in Bytes /\ Len(page) = Len(name) + 1
      /\ \A k \in 1 .. Len(name) : page[k] = name[k]
  <2>1. page \in Bytes /\ Len(page) = Len(name) + Len(stamp)
        /\ \A k \in 1 .. Len(name) : page[k] = name[k]
    BY <1>3, ConcatIs
  <2> HIDE DEF page
  <2> QED
    BY <1>3, <2>1
<1> HIDE DEF page
<1>8. z = Len(zip) + Len(page)
      /\ \A k \in 1 .. Len(page) : m.body[Len(zip) + k] = page[k]
  <2> DEFINE b == zip \o page
  <2>1. Len(b) = Len(zip) + Len(page)
        /\ \A k \in 1 .. Len(page) : b[Len(zip) + k] = page[k]
    BY <1>2, <1>7, ConcatIs
  <2>2. m.body = b
    BY <1>1
  <2> HIDE DEF b
  <2> QED
    BY <2>1, <2>2
<1> DEFINE x == Len(zip)
           y == Len(name)
           l == Len(page)
<1> HIDE DEF z, x, y, l
<1>9. z <= 3
  <2>1. x \in 0 .. 1 /\ y \in 0 .. 1 /\ l = y + 1 /\ z = x + l
    BY <1>2, <1>5, <1>7, <1>8 DEF x, y, l
  <2> QED
    BY <2>1
<1>10. ASSUME uri \in Uri PROVE z >= 2 /\ PageUri(m) = uri
  <2>1. Len(name) = 1 /\ Len(page) = 2 /\ z = Len(zip) + 2
    <3>1. y = 1 /\ l = y + 1 /\ z = x + l
      BY <1>6, <1>7, <1>8, <1>10 DEF x, y, l
    <3>2. y = 1 /\ l = 2 /\ z = x + 2
      BY <3>1
    <3> QED
      BY <3>2 DEF x, y, l
  <2>2. z >= 2 /\ z - 1 = Len(zip) + 1 /\ 1 \in 1 .. Len(page) /\ 1 \in 1 .. Len(name)
    BY <1>2, <2>1
  <2>3. m.body[z - 1] = name[1]
    BY <1>7, <1>8, <2>2
  <2>4. PageUri(m) = <<m.body[z - 1]>>
    BY DEF PageUri, z
  <2> QED
    BY <1>6, <1>10, <2>2, <2>3, <2>4
<1>11. Small(m)
  BY <1>9 DEF Small, z
<1> QED
  BY <1>10, <1>11 DEF z

\* What answer() caches and sends.
LEMMA AnswerOf ==
  ASSUME Typed, JobInOrder, "truncated" \notin Faults, Answer,
         NEW t \in 0 .. MaxTime, job.reply = Reply(job.request.uri, t)
  PROVE  \E m \in Message :
           /\ m.status_code = <<Status(job.request.uri)>>
           /\ Carries(m, Page(job.request.uri, t))
           /\ cache' = MaybeCache(job.request, m)
           /\ io_to_send' = [io_to_send EXCEPT ![job.client] =
                               [response |-> m, keep |-> ShouldKeepAlive(job.request)]]
<1> DEFINE m == Answered(job.request, job.response)
<1>1. pc = "await" /\ job.got = Len(job.reply) /\ job \in Job
  BY DEF Answer, Typed, JobOK
<1>2. /\ job.response.status_code = <<Status(job.request.uri)>>
      /\ job.response.body = Page(job.request.uri, t)
  BY <1>1, WholePage
<1>3. m \in Message
  <2>1. <<"Cache-Control">> \in Bytes /\ <<"max-age">> \in Bytes
    BY WordAssumption DEF Bytes, Byte
  <2> QED
    BY <1>1, <2>1, CompressedType, AddHeaderType DEF Answered, Job
<1>4. m.status_code = <<Status(job.request.uri)>> /\ Carries(m, Page(job.request.uri, t))
  <2>1. job.response \in Message
    BY <1>1 DEF Job
  <2> QED
    BY <1>2, <2>1, AnsweredCarries
<1>5. /\ cache' = MaybeCache(job.request, m)
      /\ io_to_send' = [io_to_send EXCEPT ![job.client] =
                          [response |-> m, keep |-> ShouldKeepAlive(job.request)]]
  BY DEF Answer, Answered
<1> HIDE DEF m
<1> QED
  BY <1>3, <1>4, <1>5

LEMMA AnswerIs ==
  ASSUME Typed, JobInOrder, "truncated" \notin Faults, Answer
  PROVE  \E m \in Message : \E t \in 0 .. MaxTime :
           /\ m.status_code = <<Status(job.request.uri)>>
           /\ Carries(m, Page(job.request.uri, t))
           /\ cache' = MaybeCache(job.request, m)
           /\ io_to_send' = [io_to_send EXCEPT ![job.client] =
                               [response |-> m, keep |-> ShouldKeepAlive(job.request)]]
<1>1. PICK t \in 0 .. MaxTime : job.reply = Reply(job.request.uri, t)
  BY DEF Answer, JobInOrder
<1> QED
  BY <1>1, AnswerOf

LEMMA Later ==
  ASSUME NEW n \in Nat, NEW k, k = n \/ k = n + 1, NEW a \in Nat, NEW e \in Nat, e <= n + a
  PROVE  e <= k + a
OBVIOUS

LEMMA CacheStep ==
  ASSUME StatusLineUncut, "truncated" \notin Faults,
         Typed, JobInOrder, PagesHeld, [Next]_vars
  PROVE  PagesHeld'
<1>1. now \in Nat /\ MAX_AGE \in Nat
  BY Assumptions DEF Typed, TypeOK
<1>2. ASSUME NEW u \in Uri, cache[u] # None PROVE cache[u].expire \in Nat
  BY <1>2 DEF Typed, TypeOK, Cached
<1>3. ASSUME cache' = cache, now' = now \/ now' = now + 1 PROVE PagesHeld'
  <2>1. ASSUME NEW e \in Nat, e <= now + MAX_AGE PROVE e <= now' + MAX_AGE
    BY <1>1, <1>3, <2>1, Later
  <2> QED
    BY <1>2, <1>3, <2>1 DEF PagesHeld
<1>4. CASE Surroundings
  <2>1. cache' = cache /\ (now' = now \/ now' = now + 1)
    BY <1>4 DEF Surroundings, Connect, Arrive, HalfClose, Reset, Drain, Tick, tables
  <2> QED
    BY <1>3, <2>1
<1>5. CASE Select \/ Accept
  BY <1>3, <1>5 DEF Select, Accept, tables
<1>6. ASSUME NEW c \in Client, SendResponse(c) \/ DealWithClient(c) PROVE PagesHeld'
  BY <1>3, <1>6 DEF SendResponse, DealWithClient, RecvRaises, Reject, ClientGone, Fragment,
                    CacheHit, CacheMiss, Completes, Recv
<1>7. CASE \/ SendBadRequest \/ ConnectUpstream \/ Forward \/ ForwardFails
           \/ RecvUpstream \/ RecvUpstreamRaises
  BY <1>3, <1>7 DEF SendBadRequest, ConnectUpstream, Forward, ForwardFails, SendError,
                    RecvUpstream, RecvUpstreamRaises, tables
<1>8. CASE Answer
  <2> DEFINE uri == job.request.uri
  <2>1. PICK m \in Message, t \in 0 .. MaxTime :
          /\ m.status_code = <<Status(uri)>>
          /\ Carries(m, Page(uri, t))
          /\ cache' = MaybeCache(job.request, m)
    BY <1>8, AnswerIs
  <2>2. now' = now
    BY <1>8 DEF Answer
  <2>3. CASE cache' = cache
    BY <1>3, <2>2, <2>3
  <2>4. CASE cache' # cache
    <3>1. /\ m.status_code = <<"200">>
          /\ cache' = [cache EXCEPT ![uri] = [response |-> m, expire |-> now + MAX_AGE]]
      BY <2>1, <2>4 DEF MaybeCache
    <3> DEFINE entry == [response |-> m, expire |-> now + MAX_AGE]
    <3>2. entry.response = m /\ entry.expire = now + MAX_AGE
      OBVIOUS
    <3>3. now + MAX_AGE <= now + MAX_AGE
      BY <1>1
    <3> HIDE DEF entry
    <3>4. ASSUME NEW u \in Uri, cache'[u] # None
          PROVE  /\ cache'[u].response.status_code = <<"200">>
                 /\ \E x \in 0 .. MaxTime : Carries(cache'[u].response, Page(u, x))
                 /\ cache'[u].expire <= now' + MAX_AGE
      <4>1. CASE u = uri
        <5>1. cache'[u] = entry
          BY <3>1, <4>1 DEF entry, Typed, TypeOK
        <5> QED
          BY <2>1, <2>2, <3>1, <3>2, <3>3, <4>1, <5>1
      <4>2. CASE u # uri
        <5>1. cache'[u] = cache[u]
          BY <3>1, <4>2 DEF Typed, TypeOK
        <5> QED
          BY <2>2, <3>4, <5>1 DEF PagesHeld
      <4> QED
        BY <4>1, <4>2
    <3> QED
      BY <3>4 DEF PagesHeld
  <2> QED
    BY <2>3, <2>4
<1>9. CASE UNCHANGED vars
  BY <1>3, <1>9 DEF vars, tables
<1> QED
  BY <1>4, <1>5, <1>6, <1>7, <1>8, <1>9 DEF Next, Proxy

LEMMA AlwaysPagesHeld ==
  ASSUME StatusLineUncut, "truncated" \notin Faults
  PROVE  Spec => [](Typed /\ JobInOrder /\ PagesHeld)
<1>1. Init => PagesHeld
  BY DEF Init, PagesHeld
<1>2. Typed /\ JobInOrder /\ PagesHeld /\ [Next]_vars => PagesHeld'
  BY CacheStep
<1> QED
  BY <1>1, <1>2, AlwaysInOrder, PTL DEF Spec

\* As long as the upstream server does not close in mid-response and its
\* status line is not cut, the cache holds under each uri a whole page of that
\* uri, for no longer than its max-age: neither requests that arrive in pieces
\* nor what maybe_cache() and compression make of a page can change that
\* (reverse_proxy.py, lines 93-163).
THEOREM CacheCorrect ==
  ASSUME StatusLineUncut, "truncated" \notin Faults
  PROVE  Spec => []CacheHoldsPages
<1>1. Typed /\ PagesHeld => CacheHoldsPages
  <2> SUFFICES ASSUME Typed, PagesHeld, NEW u \in Uri, cache[u] # None
               PROVE  /\ cache[u].response.status_code = <<"200">>
                      /\ IsPage(cache[u].response) /\ PageUri(cache[u].response) = u
                      /\ cache[u].expire <= now + MAX_AGE
    BY DEF CacheHoldsPages
  <2> DEFINE m == cache[u].response
  <2>1. m \in Message
    BY DEF Typed, TypeOK, Cached
  <2>2. PICK t \in 0 .. MaxTime : Carries(m, Page(u, t))
    BY DEF PagesHeld
  <2>3. m.status_code = <<"200">> /\ cache[u].expire <= now + MAX_AGE
    BY DEF PagesHeld
  <2> HIDE DEF m
  <2>4. Len(m.body) >= 2 /\ PageUri(m) = u
    BY <2>1, <2>2, CarriedPage
  <2> QED
    BY <2>3, <2>4 DEF IsPage, m
<1> QED
  BY <1>1, AlwaysPagesHeld, PTL

-----------------------------------------------------------------------------
(* What ends the proxy.                                                     *)

Unharmed ==
  /\ IsUp
  /\ \A c \in Client : peer[c] # "reset"
  /\ \A c \in Client : io_to_send[c] # None => Small(io_to_send[c].response)

LEMMA CanSendSmall ==
  ASSUME SNDBUF >= 4, Typed, SentInPass, Unharmed,
         NEW c \in Client, Due(c), NEW m \in Message, Small(m)
  PROVE  CanSend(c, m)
<1>1. conn[c] = "open" /\ peer[c] # "reset" /\ unread[c] = 0
  BY DEF Due, Open, Unharmed, SentInPass
<1>2. Len(m.body) \in Nat /\ Len(m.body) <= 3 /\ SNDBUF \in Nat
  BY Marks, Assumptions DEF Message, Small
<1> QED
  BY <1>1, <1>2 DEF CanSend, Room, Size

LEMMA ErrorsAreSmall ==
  Small(BAD_REQUEST_MSG) /\ Small(INTERNAL_SERVER_ERROR)
<1>1. ASSUME NEW code PROVE Len(StatusOnly(code).body) = 0
  <2>1. NewMessage("RESPONSE") \in Message /\ NewMessage("RESPONSE").body = <<>>
    BY NewMessageType DEF MessageType, NewMessage
  <2> QED
    BY <2>1 DEF StatusOnly, Message
<1> QED
  BY <1>1 DEF BAD_REQUEST_MSG, INTERNAL_SERVER_ERROR, Small

LEMMA SurviveStep ==
  ASSUME Faults = {}, SlowReaders = {}, StatusLineUncut, SNDBUF >= 4,
         Live, SentInPass, JobInOrder, PagesHeld, Unharmed, [Next]_vars
  PROVE  Unharmed'
<1> USE DEF Live
<1>1. ASSUME peer' = peer, io_to_send' = io_to_send, pc' \notin Raised
      PROVE  Unharmed'
  BY <1>1 DEF Unharmed, IsUp
<1>2. ASSUME peer' = peer, pc' \notin Raised,
             NEW c \in Client, NEW e, e = None \/ Small(e.response),
             io_to_send' = [io_to_send EXCEPT ![c] = e]
      PROVE  Unharmed'
  BY <1>2 DEF Unharmed, IsUp, Typed, TypeOK
<1>3. pc \notin Raised
  BY DEF Unharmed, IsUp
<1>4. CASE Surroundings
  <2>1. UNCHANGED <<loop, watched, tables>>
    BY <1>4, SurroundingsKeepWatch
  <2>2. \A c \in Client : peer'[c] # "reset"
    BY <1>4 DEF Surroundings, Connect, Arrive, HalfClose, Reset, Drain, Tick, sockets,
                Unharmed, Typed, TypeOK
  <2> QED
    BY <2>1, <2>2 DEF Unharmed, IsUp, loop, tables
<1>5. CASE Select \/ Accept
  BY <1>1, <1>3, <1>5 DEF Select, Accept, tables, sockets
<1>6. ASSUME NEW c \in Client, SendResponse(c) PROVE Unharmed'
  <2>1. c \in Writes /\ io_to_send[c] # None
    BY <1>6 DEF SendResponse, Writes
  <2>2. io_to_send[c].response \in Message /\ Small(io_to_send[c].response)
    BY <2>1 DEF Typed, TypeOK, Pending, Unharmed
  <2>3. CanSend(c, io_to_send[c].response)
    BY <2>1, <2>2, CanSendSmall DEF SentInPass
  <2> QED
    BY <1>2, <1>3, <1>6, <2>3 DEF SendResponse
<1>7. ASSUME NEW c \in Client, DealWithClient(c) PROVE Unharmed'
  <2>1. ~ RecvRaises(c)
    BY DEF RecvRaises, Unharmed
  <2>2. CASE Reject(c) \/ ClientGone(c) \/ Fragment(c) \/ CacheMiss(c)
    <3>1. pc' \in {pc, "reject", "connect"} /\ UNCHANGED <<peer, io_to_send>>
      BY <2>2 DEF Reject, ClientGone, Fragment, CacheMiss, Completes, Recv
    <3> QED
      BY <1>1, <1>3, <3>1 DEF Raised
  <2>3. CASE CacheHit(c)
    <3> DEFINE uri == Parsed(c).m.uri
               e == [response |-> cache[uri].response, keep |-> ShouldKeepAlive(Parsed(c).m)]
    <3>1. uri \in Uri /\ cache[uri] # None
      BY <2>3 DEF CacheHit, IsCached
    <3>2. PICK t \in 0 .. MaxTime : Carries(cache[uri].response, Page(uri, t))
      BY <3>1 DEF PagesHeld
    <3>3. cache[uri].response \in Message
      BY <3>1 DEF Typed, TypeOK, Cached
    <3>4. Small(cache[uri].response)
      BY <3>2, <3>3, CarriedPage
    <3>5. Small(e.response)
      <4>1. e.response = cache[uri].response
        OBVIOUS
      <4> HIDE DEF e
      <4> QED
        BY <3>4, <4>1
    <3>6. io_to_send' = [io_to_send EXCEPT ![c] = e] /\ UNCHANGED <<pc, peer>>
      BY <2>3 DEF CacheHit, Completes, Recv
    <3> HIDE DEF e
    <3> QED
      BY <1>2, <1>3, <3>5, <3>6
  <2> QED
    BY <1>7, <2>1, <2>2, <2>3 DEF DealWithClient
<1>8. ASSUME pc \in {"reject", "forward"}, NEW m \in Message, Small(m), SendError(m)
      PROVE  Unharmed'
  <2>1. Due(job.client) /\ job.client \in Client
    BY <1>8 DEF SentInPass, Typed, JobOK, Job
  <2>2. CanSend(job.client, m)
    BY <1>8, <2>1, CanSendSmall
  <2>3. pc' = "loop" /\ UNCHANGED <<peer, io_to_send>>
    BY <1>8, <2>2 DEF SendError
  <2> QED
    BY <1>1, <2>3 DEF Raised
<1>9. CASE SendBadRequest
  BY <1>8, <1>9, ErrorsType, ErrorsAreSmall DEF SendBadRequest
<1>10. CASE ConnectUpstream \/ Forward
  BY <1>1, <1>10 DEF ConnectUpstream, Forward, tables, sockets, Raised
<1>11. ~ ForwardFails /\ ~ RecvUpstreamRaises
  BY DEF ForwardFails, RecvUpstreamRaises
<1>12. CASE RecvUpstream
  <2>1. pc = "await" /\ job.got < Len(job.reply) /\ UNCHANGED <<peer, io_to_send>>
    BY <1>12 DEF RecvUpstream, tables, sockets
  <2>2. PICK q \in ChunkEnds :
          LET r == Parse(job.response, SubSeq(job.reply, job.got + 1, q))
          IN  pc' = IF r.raised THEN "parse raised" ELSE pc
    BY <1>12 DEF RecvUpstream
  <2>3. pc' = pc
    BY <2>1, <2>2, ReadOn
  <2> QED
    BY <1>1, <1>3, <2>1, <2>3
<1>13. CASE Answer
  <2>1. PICK m \in Message, t \in 0 .. MaxTime :
          /\ Carries(m, Page(job.request.uri, t))
          /\ io_to_send' = [io_to_send EXCEPT ![job.client] =
                               [response |-> m, keep |-> ShouldKeepAlive(job.request)]]
    BY <1>13, AnswerIs
  <2> DEFINE e == [response |-> m, keep |-> ShouldKeepAlive(job.request)]
  <2>2. Small(m)
    BY <2>1, CarriedPage
  <2>3. Small(e.response)
    <3>1. e.response = m
      OBVIOUS
    <3> HIDE DEF e
    <3> QED
      BY <2>2, <3>1
  <2>4. job.client \in Client /\ pc' = "loop" /\ peer' = peer
    BY <1>13 DEF Answer, Typed, JobOK, Job, sockets
  <2> HIDE DEF e
  <2> QED
    BY <1>2, <2>1, <2>3, <2>4 DEF Raised, e
<1>14. CASE UNCHANGED vars
  BY <1>1, <1>3, <1>14 DEF vars, loop, tables, sockets
<1> QED
  BY <1>4, <1>5, <1>6, <1>7, <1>9, <1>10, <1>11, <1>12, <1>13, <1>14 DEF Next, Proxy

\* As long as sockets work, readers take their answers from a buffer that has
\* room for one, and no status line is cut, nothing that clients send ends the
\* proxy: malformed requests are caught at line 98, no recv() or sendall()
\* meets a closed socket, and the unguarded parse() at line 147 never raises.
THEOREM SurvivesCorrect ==
  ASSUME Faults = {}, SlowReaders = {}, StatusLineUncut, SNDBUF >= 4
  PROVE  Spec => []ProxySurvives
<1>1. "truncated" \notin Faults
  OBVIOUS
<1>2. Init => Unharmed
  BY DEF Init, Unharmed, IsUp, Raised
<1>3. Live /\ SentInPass /\ JobInOrder /\ PagesHeld /\ Unharmed /\ [Next]_vars => Unharmed'
  BY SurviveStep
<1>4. Unharmed => ProxySurvives
  BY DEF Unharmed, ProxySurvives
<1>5. Spec => [](Live /\ SentInPass)
  BY AlwaysSentInPass
<1>6. Spec => [](Typed /\ JobInOrder /\ PagesHeld)
  BY <1>1, AlwaysPagesHeld
<1> QED
  BY <1>2, <1>3, <1>4, <1>5, <1>6, PTL DEF Spec

-----------------------------------------------------------------------------
(* A request that is read in pieces.                                        *)

\* a request of which nothing has been read, but perhaps a malformed line in
\* its place
Fresh(m) ==
  \E line \in Bytes : m = [NewMessage("REQUEST") EXCEPT !.start_line = line]

\* m is what parse() has made of x, the beginning of a request
Holds(m, x) ==
  IF x = <<>> THEN Fresh(m)
  ELSE /\ m = ReadAs(x).m
       /\ ~ ReadAs(x).raised
       /\ ReadAs(x).m.parser_state # "END"

LEMMA ReadAsType ==
  ASSUME NEW s \in Bytes
  PROVE  IsResult(ReadAs(s))
BY NewMessageType, ParseType DEF ReadAs, MessageType

LEMMA FreshIs ==
  ASSUME NEW line \in Bytes
  PROVE  LET new == NewMessage("REQUEST")
             m == [new EXCEPT !.start_line = line]
         IN  /\ m \in Message
             /\ m.parser_state = "START" /\ m.residual = <<>>
             /\ m.message_type = "REQUEST"
             /\ Begun(new, line) = m
             /\ \A s \in Bytes : Begun(m, s) = Begun(new, s)
<1>1. NewMessage("REQUEST") \in Message
  BY NewMessageType DEF MessageType
<1>2. /\ NewMessage("REQUEST").parser_state = "START"
      /\ NewMessage("REQUEST").residual = <<>>
      /\ NewMessage("REQUEST").message_type = "REQUEST"
  BY DEF NewMessage
<1> QED
  BY <1>1, <1>2 DEF Begun, Message

\* A malformed line that was read before makes no difference.
LEMMA FreshReads ==
  ASSUME NEW m, Fresh(m), NEW s \in Bytes
  PROVE  Parse(m, s) = ReadAs(s)
<1> DEFINE new == NewMessage("REQUEST")
           line == FirstLine(s)
<1>1. PICK old \in Bytes : m = [new EXCEPT !.start_line = old]
  BY DEF Fresh
<1>2. line \in Bytes
  BY FirstLineType
<1>3. /\ m.parser_state = "START" /\ m.residual = <<>> /\ m.message_type = "REQUEST"
      /\ Begun(m, line) = Begun(new, line)
  BY <1>1, <1>2, FreshIs
<1>4. /\ new.parser_state = "START" /\ new.residual = <<>>
      /\ new.message_type = "REQUEST"
  BY DEF NewMessage
<1>5. <<>> \o s = s
  BY ConcatEmptySeq DEF Bytes
<1> HIDE DEF new, line
<1>6. Parse(m, s) = ParseStart(m, s) /\ Parse(new, s) = ParseStart(new, s)
  BY <1>3, <1>4, <1>5 DEF Parse
<1>7. ParseStart(m, s) = ParseStart(new, s)
  BY <1>3, <1>4 DEF ParseStart, Begun, line
<1> QED
  BY <1>6, <1>7 DEF ReadAs, new

LEMMA HeadersGoOn ==
  ASSUME NEW m \in Message, m.parser_state = "HEADERS", NEW s \in Bytes
  PROVE  ParseHeaders(m, s).m.parser_state # "START"
<1> DEFINE got == HeadersRead(m, s, ReadLines(s))
           done == [got EXCEPT !.parser_state = AfterHeaders(m)]
<1>1. got \in Message /\ got.parser_state = "HEADERS"
  BY ReadIsNoStop, HeadersReadIs DEF HeadersRead, Message
<1> HIDE DEF got
<1>2. done.parser_state \in {"BODY", "END"}
  BY <1>1 DEF AfterHeaders, Message
<1> DEFINE kept == KeepResidual(got.residual, PartialLine(s))
<1>3. \/ ParseHeaders(m, s) = Returns([got EXCEPT !.residual = kept])
      \/ ParseHeaders(m, s) = Raises(got)
      \/ ParseHeaders(m, s) = ParseBody(done, After(s, Min(Stops(s))))
      \/ ParseHeaders(m, s) = Returns(done)
  <2> DEFINE p == ParseHeaders(m, s)
  <2>1. p = IF Stops(s) = {} THEN Returns([got EXCEPT !.residual = kept])
            ELSE IF IsBadHeader(LineAt(s, Min(Stops(s)))) THEN Raises(got)
            ELSE IF done.parser_state = "BODY" THEN ParseBody(done, After(s, Min(Stops(s))))
            ELSE Returns(done)
    BY HeadersAre DEF got
  <2> HIDE DEF p
  <2> QED
    BY <2>1 DEF p
<1> HIDE DEF kept
<1>4. CASE ParseHeaders(m, s) = Returns([got EXCEPT !.residual = kept])
  BY <1>1, <1>4 DEF Returns, Message
<1>5. CASE ParseHeaders(m, s) = Raises(got)
  BY <1>1, <1>5 DEF Raises
<1>6. CASE ParseHeaders(m, s) = ParseBody(done, After(s, Min(Stops(s))))
  <2> DEFINE rest == After(s, Min(Stops(s)))
             full == [done EXCEPT !.body = @ \o rest]
  <2>1. full.parser_state = done.parser_state
    BY <1>1 DEF Message
  <2>2. ParseBody(done, rest).m = full
    BY DEF ParseBody, Returns
  <2> HIDE DEF done, full, rest
  <2>3. ParseHeaders(m, s).m = full
    BY <1>6, <2>2 DEF rest
  <2> QED
    BY <1>2, <2>1, <2>3
<1>7. CASE ParseHeaders(m, s) = Returns(done)
  <2> HIDE DEF done
  <2> QED
    BY <1>2, <1>7 DEF Returns
<1> QED
  BY <1>3, <1>4, <1>5, <1>6, <1>7

\* What raises at its first line leaves no more than that line behind.
LEMMA MalformedIsFresh ==
  ASSUME NEW s \in Bytes, IsMalformed(s)
  PROVE  Fresh(ReadAs(s).m)
<1> DEFINE new == NewMessage("REQUEST")
           line == FirstLine(s)
           rest == After(s, Len(line))
           split == SplitFirst(Begun(new, line), line)
<1>1. new \in Message /\ new.parser_state = "START" /\ new.residual = <<>>
      /\ new.message_type = "REQUEST"
  BY NewMessageType DEF MessageType, NewMessage
<1>2. line \in Bytes /\ rest \in Bytes
  BY FirstLineType, AfterType
<1>3. ReadAs(s) = ParseStart(new, s)
  <2>1. <<>> \o s = s
    BY ConcatEmptySeq DEF Bytes
  <2> QED
    BY <1>1, <2>1 DEF ReadAs, Parse
<1>4. Begun(new, line) = [new EXCEPT !.start_line = line]
  BY DEF Begun
<1> HIDE DEF new, line, rest, split
<1>5. CASE ~ HasLine(s)
  <2>1. ParseStart(new, s) = Returns([Begun(new, line) EXCEPT !.residual = line])
    BY <1>1, <1>5, StartIs DEF line
  <2> QED
    BY <1>3, <2>1 DEF IsMalformed, Returns
<1>6. CASE HasLine(s) /\ IsFirst(new, line)
  <2>1. /\ split \in Message /\ split.parser_state = "HEADERS"
        /\ ParseStart(new, s) = ParseHeaders(split, rest)
    BY <1>1, <1>6, StartIs DEF line, rest, split
  <2> QED
    BY <1>2, <1>3, <2>1, HeadersGoOn DEF IsMalformed
<1>7. CASE HasLine(s) /\ ~ IsFirst(new, line)
  <2>1. ParseStart(new, s) = NotFirst(new, Begun(new, line), rest)
    BY <1>1, <1>7, StartIs DEF line, rest
  <2>2. ReadAs(s).m = Begun(new, line)
    BY <1>1, <1>3, <2>1 DEF NotFirst, Raises
  <2> QED
    BY <1>2, <1>4, <2>2 DEF Fresh, new
<1> QED
  BY <1>5, <1>6, <1>7

LEMMA NothingRead ==
  /\ ReadAs(<<>>).m.residual = <<>>
  /\ ~ ReadAs(<<>>).raised
  /\ ReadAs(<<>>).m.parser_state = "START"
<1>1. FirstLine(<<>>) = <<>> /\ ~ HasLine(<<>>)
  <2>1. LineEnds(<<>>) = {}
    BY DEF LineEnds
  <2>2. Len(<<>>) = 0 /\ SubSeq(<<>>, 1, 0) = <<>>
    BY Constants, PieceIs DEF Bytes
  <2> QED
    BY <2>1, <2>2 DEF FirstLine, HasLine
<1> DEFINE new == NewMessage("REQUEST")
<1>2. new \in Message /\ new.parser_state = "START" /\ new.residual = <<>>
  BY NewMessageType DEF MessageType, NewMessage
<1>3. ReadAs(<<>>) = ParseStart(new, <<>>)
  <2>1. <<>> \o <<>> = <<>>
    BY Constants, ConcatEmptySeq DEF Bytes
  <2> QED
    BY <1>2, <2>1 DEF ReadAs, Parse
<1> HIDE DEF new
<1>4. /\ Begun(new, <<>>) \in Message /\ Begun(new, <<>>).parser_state = "START"
      /\ ParseStart(new, <<>>) = Returns([Begun(new, <<>>) EXCEPT !.residual = <<>>])
  BY <1>1, <1>2, Constants, StartIs
<1> QED
  BY <1>3, <1>4 DEF Returns, Message

LEMMA KeepingSame ==
  ASSUME NEW w, IsResult(w), NEW z
  PROVE  LET k == Keeping(w, z)
         IN  /\ k.raised = w.raised
             /\ k.m.parser_state = w.m.parser_state
             /\ k.m.uri = w.m.uri /\ k.m.version = w.m.version
             /\ k.m.headers = w.m.headers
             /\ z = <<>> \/ w.m.residual # <<>> => k.m = w.m
<1> DEFINE k == Keeping(w, z)
<1>1. w.m \in Message
  BY DEF IsResult
<1>2. k.m = [w.m EXCEPT !.residual = KeepResidual(z, @)] /\ k.raised = w.raised
  BY DEF Keeping
<1>3. ASSUME z = <<>> \/ w.m.residual # <<>> PROVE k.m = w.m
  <2>1. KeepResidual(z, w.m.residual) = w.m.residual
    BY <1>3 DEF KeepResidual
  <2>2. [w.m EXCEPT !.residual = w.m.residual] = w.m
    BY <1>1 DEF Message
  <2> QED
    BY <1>2, <2>1, <2>2
<1> HIDE DEF k
<1> QED
  BY <1>1, <1>2, <1>3 DEF Message, k

\* parse() goes on with the beginning of a request as if it read it all at
\* once, but for a piece of a line that it keeps.
LEMMA ReadsOn ==
  ASSUME NEW x \in Bytes, NEW b \in Bytes, NEW m, Holds(m, x)
  PROVE  /\ x \o b \in Bytes
         /\ Parse(m, b).raised = ReadAs(x \o b).raised
         /\ Parse(m, b).m = Keeping(ReadAs(x \o b), ReadAs(x).m.residual).m
<1>1. x \o b \in Bytes
  BY ConcatIs
<1>2. IsResult(ReadAs(x \o b))
  BY <1>1, ReadAsType
<1>3. CASE x = <<>>
  <2>1. x \o b = b
    BY <1>3, ConcatEmptySeq DEF Bytes
  <2>2. Parse(m, b) = ReadAs(b)
    BY <1>3, FreshReads DEF Holds
  <2>3. Keeping(ReadAs(b), <<>>).m = ReadAs(b).m
    BY <1>2, <2>1, KeepingSame
  <2> QED
    BY <1>1, <1>3, <2>1, <2>2, <2>3, NothingRead
<1>4. CASE x # <<>>
  <2>1. m = ReadAs(x).m /\ ~ ReadAs(x).raised /\ m.parser_state # "END"
    BY <1>4 DEF Holds
  <2>2. "REQUEST" \in MessageType
    BY DEF MessageType
  <2>3. Parse(m, b) = Keeping(ReadAs(x \o b), m.residual)
    BY <2>1, <2>2, ParseInPieces DEF ReadAs
  <2>4. Keeping(ReadAs(x \o b), m.residual).raised = ReadAs(x \o b).raised
    BY DEF Keeping
  <2> QED
    BY <1>1, <2>1, <2>3, <2>4
<1> QED
  BY <1>3, <1>4

-----------------------------------------------------------------------------
(* What a script says.                                                      *)

LEMMA SegmentIs ==
  ASSUME NEW s \in Seq(Segment), NEW k \in 1 .. Len(s)
  PROVE  /\ s[k] \in Segment
         /\ s[k].bytes \in Bytes /\ s[k].bytes # <<>>
         /\ s[k].ask \in Ask \cup {None}
<1>1. s[k] \in Segment
  BY ElementOfSeq
<1> QED
  BY <1>1 DEF Segment

NextUnfinished(f, s, k) ==
  IF k = 0 THEN <<>> ELSE IF s[k].ask # None THEN <<>> ELSE f[k - 1] \o s[k].bytes

\* what the first segments of s leave, for as many as n
AreUnfinished(f, s, n) ==
  /\ f \in [0 .. n -> Bytes]
  /\ \A k \in 0 .. n : f[k] = NextUnfinished(f, s, k)

LEMMA UnfinishedExist ==
  ASSUME NEW s \in Seq(Segment), NEW n \in 0 .. Len(s)
  PROVE  \E f : AreUnfinished(f, s, n)
<1> DEFINE l == Len(s)
           Bad == {k \in 0 .. l : ~ \E f : AreUnfinished(f, s, k)}
<1>1. l \in Nat /\ \A k \in 1 .. l : s[k].bytes \in Bytes
  BY SegmentIs
<1> SUFFICES ASSUME Bad # {} PROVE FALSE
  BY DEF l
<1> HIDE DEF l
<1>2. PICK k \in Bad : \A j \in Bad : k <= j
  <2>1. Bad \in SUBSET Nat
    BY <1>1
  <2>2. Min(Bad) \in Bad /\ \A j \in Bad : Min(Bad) <= j
    BY <2>1, MinNat
  <2> QED
    BY <2>2
<1>3. k # 0
  <2> DEFINE g == [i \in 0 .. 0 |-> <<>>]
  <2>1. g \in [0 .. 0 -> Bytes] /\ \A i \in 0 .. 0 : g[i] = <<>> /\ i = 0
    BY Constants
  <2> HIDE DEF g
  <2>2. AreUnfinished(g, s, 0)
    BY <2>1 DEF AreUnfinished, NextUnfinished
  <2> QED
    BY <2>2
<1>4. k \in 1 .. l /\ k - 1 \in 0 .. l /\ ~ (k <= k - 1)
  BY <1>1, <1>3
<1>5. PICK f : AreUnfinished(f, s, k - 1)
  BY <1>2, <1>4
<1> DEFINE last == NextUnfinished(f, s, k)
           g == [i \in 0 .. k |-> IF i = k THEN last ELSE f[i]]
<1>6. last \in Bytes
  <2>1. f[k - 1] \in Bytes /\ s[k].bytes \in Bytes
    BY <1>1, <1>4, <1>5 DEF AreUnfinished
  <2>2. f[k - 1] \o s[k].bytes \in Bytes
    BY <2>1, ConcatIs
  <2> QED
    BY <2>2, Constants DEF NextUnfinished
<1> HIDE DEF last
<1>7. ASSUME NEW i \in 0 .. k PROVE g[i] \in Bytes /\ g[i] = NextUnfinished(g, s, i)
  <2>1. CASE i = k
    <3>1. g[i] = last /\ g[k - 1] = f[k - 1]
      BY <1>4, <2>1
    <3> HIDE DEF g
    <3> QED
      BY <1>6, <2>1, <3>1 DEF last, NextUnfinished
  <2>2. CASE i # k
    <3>1. i \in 0 .. k - 1 /\ (i # 0 => i - 1 \in 0 .. k /\ i - 1 # k)
      BY <1>4, <2>2
    <3>2. g[i] = f[i] /\ (i # 0 => g[i - 1] = f[i - 1])
      BY <2>2, <3>1
    <3> HIDE DEF g
    <3>3. f[i] \in Bytes /\ f[i] = NextUnfinished(f, s, i)
      BY <1>5, <3>1 DEF AreUnfinished
    <3> QED
      BY <3>2, <3>3 DEF NextUnfinished
  <2> QED
    BY <2>1, <2>2
<1>8. g \in [0 .. k -> Bytes]
  <2>1. g = [i \in 0 .. k |-> g[i]]
    OBVIOUS
  <2> HIDE DEF g
  <2> QED
    BY <1>7, <2>1
<1> HIDE DEF g
<1>9. AreUnfinished(g, s, k)
  BY <1>7, <1>8 DEF AreUnfinished
<1> QED
  BY <1>2, <1>9

LEMMA UnfinishedIs ==
  ASSUME NEW s \in Seq(Segment)
  PROVE  /\ Unfinished(s)[0] = <<>>
         /\ \A k \in 0 .. Len(s) : Unfinished(s)[k] \in Bytes
         /\ \A k \in 1 .. Len(s) :
              Unfinished(s)[k] = IF s[k].ask # None THEN <<>>
                                 ELSE Unfinished(s)[k - 1] \o s[k].bytes
<1> DEFINE l == Len(s)
           c == CHOOSE f : f = [k \in 0 .. l |-> NextUnfinished(f, s, k)]
<1>1. l \in Nat
  OBVIOUS
<1>2. Unfinished(s) = c
  BY DEF Unfinished, NextUnfinished
<1>3. PICK f : AreUnfinished(f, s, l)
  BY UnfinishedExist
<1>4. f = [k \in 0 .. l |-> NextUnfinished(f, s, k)]
  BY <1>3 DEF AreUnfinished
<1>5. c = [k \in 0 .. l |-> NextUnfinished(c, s, k)]
  BY <1>4
<1> HIDE DEF c
<1>6. \A k \in 0 .. l : c[k] = NextUnfinished(c, s, k)
  BY <1>5
<1> DEFINE Bad == {k \in 0 .. l : c[k] \notin Bytes}
<1>7. ASSUME Bad # {} PROVE FALSE
  <2>1. PICK k \in Bad : \A j \in Bad : k <= j
    <3>1. Bad \in SUBSET Nat
      BY <1>1
    <3>2. Min(Bad) \in Bad /\ \A j \in Bad : Min(Bad) <= j
      BY <1>7, <3>1, MinNat
    <3> QED
      BY <3>2
  <2>2. c[k] = NextUnfinished(c, s, k) /\ c[k] \notin Bytes
    BY <1>6, <2>1
  <2>3. k # 0 /\ c[k] = c[k - 1] \o s[k].bytes
    BY <2>2, Constants DEF NextUnfinished
  <2>4. k \in 1 .. l /\ k - 1 \in 0 .. l /\ ~ (k <= k - 1)
    BY <1>1, <2>1, <2>3
  <2>5. c[k - 1] \in Bytes
    BY <2>1, <2>4
  <2>6. s[k].bytes \in Bytes
    BY <2>4, SegmentIs
  <2>7. c[k - 1] \o s[k].bytes \in Bytes
    BY <2>5, <2>6, ConcatIs
  <2> QED
    BY <2>2, <2>3, <2>7
<1>8. c[0] = <<>>
  BY <1>1, <1>6 DEF NextUnfinished
<1>9. \A k \in 1 .. l : c[k] = IF s[k].ask # None THEN <<>> ELSE c[k - 1] \o s[k].bytes
  <2> SUFFICES ASSUME NEW k \in 1 .. l
               PROVE  c[k] = IF s[k].ask # None THEN <<>> ELSE c[k - 1] \o s[k].bytes
    OBVIOUS
  <2>1. k \in 0 .. l /\ k # 0
    BY <1>1
  <2>2. c[k] = NextUnfinished(c, s, k)
    BY <1>6, <2>1
  <2> QED
    BY <2>1, <2>2 DEF NextUnfinished
<1> QED
  BY <1>2, <1>7, <1>8, <1>9

LEMMA OneMoreTimes ==
  ASSUME NEW b \in Nat, NEW m \in Nat
  PROVE  (m + 1) * b = m * b + b /\ m * b \in Nat /\ 0 * b = 0
OBVIOUS

LEMMA HereIsCut ==
  ASSUME NEW s \in Seq(Segment), NEW k \in 0 .. Len(s)
  PROVE  IsCut(s, k, Len(Unfinished(s)[k]))
<1> DEFINE n == Len(Unfinished(s)[k])
<1>1. n \in Nat /\ k \in 0 .. k
  <2>1. Unfinished(s)[k] \in Bytes /\ Len(s) \in Nat
    BY UnfinishedIs
  <2> QED
    BY <2>1, Marks
<1>2. 0 \in 0 .. n /\ n = n + 0 /\ ~ \E i \in k + 1 .. k : TRUE
  <2> HIDE DEF n
  <2> QED
    BY <1>1
<1>3. n = n + 0 * BUFFER
  BY <1>2, OneMoreTimes, Assumptions
<1> HIDE DEF n
<1>4. \A i \in k + 1 .. k : s[i].ask = None
  BY <1>2
<1> QED
  BY <1>1, <1>2, <1>3, <1>4 DEF IsCut, n

LEMMA CutLasts ==
  ASSUME NEW s \in Seq(Segment), NEW k \in Nat, k + 1 \in 1 .. Len(s),
         s[k + 1].ask = None, NEW n \in Nat, IsCut(s, k, n)
  PROVE  IsCut(s, k + 1, n)
<1>1. PICK j \in 0 .. k : \E m \in 0 .. n :
        /\ \A i \in j + 1 .. k : s[i].ask = None
        /\ n = Len(Unfinished(s)[j]) + m * BUFFER
  BY DEF IsCut
<1>2. j \in 0 .. k + 1 /\ \A i \in j + 1 .. k + 1 : i = k + 1 \/ i \in j + 1 .. k
  BY <1>1
<1> QED
  BY <1>1, <1>2 DEF IsCut

LEMMA CutFollows ==
  ASSUME NEW s \in Seq(Segment), NEW k \in 0 .. Len(s), NEW n \in Nat, IsCut(s, k, n)
  PROVE  IsCut(s, k, n + BUFFER)
<1>1. PICK j \in 0 .. k, m \in 0 .. n :
        /\ \A i \in j + 1 .. k : s[i].ask = None
        /\ n = Len(Unfinished(s)[j]) + m * BUFFER
  BY DEF IsCut
<1> DEFINE l == Len(Unfinished(s)[j])
           t == m * BUFFER
           u == (m + 1) * BUFFER
<1>2. BUFFER \in Nat /\ BUFFER > 0 /\ m \in Nat
  BY Assumptions
<1>3. l \in Nat
  <2>1. Len(s) \in Nat /\ j \in 0 .. Len(s)
    BY <1>1
  <2>2. Unfinished(s)[j] \in Bytes
    BY <2>1, UnfinishedIs
  <2> QED
    BY <2>2, Marks
<1>4. u = t + BUFFER /\ t \in Nat /\ n = l + t
  BY <1>1, <1>2, OneMoreTimes
<1> HIDE DEF l, t, u
<1>5. m + 1 \in 0 .. n + BUFFER /\ n + BUFFER = l + u
  BY <1>2, <1>3, <1>4
<1> QED
  BY <1>1, <1>5 DEF IsCut, l, u

\* Of two places where a recv() may end in y, what the k-th segment adds to.
LEMMA CutTwice ==
  ASSUME NEW s \in Seq(Segment), IsCutWell(s), NEW k \in 1 .. Len(s), NEW y \in Bytes,
         y = Unfinished(s)[k - 1] \o s[k].bytes,
         NEW n \in 0 .. Len(y), NEW o \in 0 .. Len(y), n <= o,
         \/ s[k].ask = None /\ IsCut(s, k, n) /\ IsCut(s, k, o)
         \/ s[k].ask # None /\ IsCut(s, k - 1, n) /\ IsCut(s, k - 1, o) /\ o < Len(y)
  PROVE  /\ IsBegun(SubSeq(y, 1, o))
         /\ EndsInside(SubSeq(y, 1, n)) => /\ EndsInside(SubSeq(y, 1, o))
                                          /\ (s[k].ask # None => s[k].ask.uri # <<>>)
<1> DEFINE Cuts == IF s[k].ask = None THEN {i \in 0 .. Len(y) : IsCut(s, k, i)}
                   ELSE {i \in 0 .. Len(y) - 1 : IsCut(s, k - 1, i)}
<1>1. n \in Cuts /\ o \in Cuts
  <2> DEFINE l == Len(y)
  <2>1. /\ l \in Nat /\ n \in 0 .. l /\ o \in 0 .. l
        /\ \/ s[k].ask = None /\ IsCut(s, k, n) /\ IsCut(s, k, o)
           \/ /\ s[k].ask # None /\ IsCut(s, k - 1, n) /\ IsCut(s, k - 1, o) /\ o < l
    BY Marks
  <2>2. Cuts = IF s[k].ask = None THEN {i \in 0 .. l : IsCut(s, k, i)}
               ELSE {i \in 0 .. l - 1 : IsCut(s, k - 1, i)}
    OBVIOUS
  <2> HIDE DEF l, Cuts
  <2>3. o < l => n \in 0 .. l - 1 /\ o \in 0 .. l - 1
    BY <2>1
  <2>4. CASE s[k].ask = None
    BY <2>1, <2>2, <2>4
  <2>5. CASE s[k].ask # None
    BY <2>1, <2>2, <2>3, <2>5
  <2> QED
    BY <2>4, <2>5
<1>2. \A i \in Cuts :
        /\ IsBegun(SubSeq(y, 1, i))
        /\ EndsInside(SubSeq(y, 1, i)) =>
             /\ \A j \in Cuts : i <= j => EndsInside(SubSeq(y, 1, j))
             /\ (s[k].ask # None => s[k].ask.uri # <<>>)
  BY DEF IsCutWell
<1> HIDE DEF Cuts
<1> QED
  BY <1>1, <1>2

-----------------------------------------------------------------------------
(* Where a client is between what it asks and what it gets.                 *)

\* A client asks one thing at a time and says what it asks, and what it asks
\* is not cut at the end of a line after it was cut inside it.
AskOneAtATime ==
  /\ Pipeliners = {}
  /\ \A c \in Client : IsTruthful(Script[c]) /\ IsCutWell(Script[c])

\* of its script's segments, as many as this have been sent
Arrived(c) == Len(Script[c]) - Len(unsent[c])
Begins(c)  == Unfinished(Script[c])[Arrived(c)]

InStep(c) ==
  /\ Len(unsent[c]) <= Len(Script[c])
  /\ \A i \in 1 .. Len(unsent[c]) : unsent[c][i] = Script[c][Arrived(c) + i]

Busy == {"reject", "connect", "forward", "await"}
BusyWith(c) == pc \in Busy /\ job.client = c

Owed(c)  == Len(asked[c]) = Len(received[c]) + 1
Wants(c) == asked[c][Len(asked[c])]

\* What was read of c's request, and what can be read of it, are z; a recv()
\* has ended between them, of what c's first k segments begin.
HasRead(c, z, k) ==
  \E x \in Bytes :
    /\ x \o inbox[c] = z
    /\ Holds(ClientRequest(c), x)
    /\ IsCut(Script[c], k, Len(x))

Over(c) ==
  /\ conn[c] = "closed" \/ peer[c] = "reset"
  /\ Len(received[c]) <= Len(asked[c])

Quiet(c) ==
  /\ Len(asked[c]) = Len(received[c])
  /\ io_to_send[c] = None
  /\ ~ BusyWith(c)
  /\ HasRead(c, Begins(c), Arrived(c))

Asking(c) ==
  /\ Owed(c)
  /\ io_to_send[c] = None
  /\ ~ BusyWith(c)
  /\ inbox[c] # <<>>
  /\ Arrived(c) # 0
  /\ Script[c][Arrived(c)].ask # None
  /\ Wants(c) = Script[c][Arrived(c)].ask
  /\ LET last == Unfinished(Script[c])[Arrived(c) - 1]
     IN  HasRead(c, last \o Script[c][Arrived(c)].bytes, Arrived(c) - 1)

\* its request has been read to the end
IsRead(c) ==
  /\ Owed(c)
  /\ inbox[c] = <<>>
  /\ Begins(c) = <<>>

InJob(c) ==
  /\ BusyWith(c)
  /\ IsRead(c)
  /\ io_to_send[c] = None
  /\ pc = "reject" => /\ Wants(c).uri = <<>> /\ Wants(c).keep
                      /\ Fresh(ClientRequest(c))
  /\ pc # "reject" => /\ Wants(c).uri = job.request.uri
                      /\ Wants(c).uri \in Uri
                      /\ Wants(c).gzip = AllowGzip(job.request)
                      /\ Wants(c).keep = ShouldKeepAlive(job.request)
  /\ pc = "await" => client_request_dict[c] = None

Prepared(c) ==
  /\ ~ BusyWith(c)
  /\ IsRead(c)
  /\ io_to_send[c] # None
  /\ io_to_send[c].keep = Wants(c).keep
  /\ Wants(c).uri \in Uri
  /\ client_request_dict[c] = None

Phase(c) == Over(c) \/ Quiet(c) \/ Asking(c) \/ InJob(c) \/ Prepared(c)

InTurn ==
  /\ NoExtraAnswers
  /\ IsUp => \A c \in Client : InStep(c) /\ Phase(c)

\* What happens to others is no concern of c.
LEMMA PhaseStays ==
  ASSUME NEW c \in Client, InStep(c), Phase(c),
         UNCHANGED <<unsent[c], inbox[c], client_request_dict[c], io_to_send[c],
                     asked[c], received[c]>>,
         conn[c] = "closed" => conn'[c] = "closed",
         peer[c] = "reset" => peer'[c] = "reset",
         UNCHANGED <<pc, job>> \/ (~ BusyWith(c) /\ ~ BusyWith(c)')
  PROVE  InStep(c)' /\ Phase(c)'
<1>1. Arrived(c)' = Arrived(c) /\ Begins(c)' = Begins(c)
  BY DEF Arrived, Begins
<1>2. InStep(c)'
  BY <1>1 DEF InStep
<1> SUFFICES Phase(c)'
  BY <1>2
<1>3. ClientRequest(c)' = ClientRequest(c)
  BY DEF ClientRequest
<1>4. ASSUME NEW z, NEW k, HasRead(c, z, k)
      PROVE  HasRead(c, z, k)'
  BY <1>3, <1>4 DEF HasRead
<1>5. Owed(c)' = Owed(c) /\ Wants(c)' = Wants(c)
  BY DEF Owed, Wants
<1>6. IsRead(c)' = IsRead(c)
  BY <1>1, <1>5 DEF IsRead
<1>7. CASE Over(c)
  BY <1>7 DEF Over, Phase
<1>8. BusyWith(c)' = BusyWith(c)
  BY DEF BusyWith
<1>9. CASE Quiet(c)
  <2>1. HasRead(c, Begins(c), Arrived(c))'
    <3>1. HasRead(c, Begins(c), Arrived(c))
      BY <1>9 DEF Quiet
    <3> QED
      BY <1>1, <1>3, <3>1 DEF HasRead
  <2> QED
    BY <1>8, <1>9, <2>1 DEF Quiet, Phase
<1>10. CASE Asking(c)
  <2> DEFINE last == Unfinished(Script[c])[Arrived(c) - 1]
             z == last \o Script[c][Arrived(c)].bytes
  <2>1. HasRead(c, z, Arrived(c) - 1)
    BY <1>10 DEF Asking
  <2>2. HasRead(c, z, Arrived(c) - 1)'
    BY <1>1, <1>3, <2>1 DEF HasRead
  <2> QED
    BY <1>1, <1>5, <1>8, <1>10, <2>2 DEF Asking, Phase
<1>11. CASE InJob(c)
  <2>1. UNCHANGED <<pc, job>>
    BY <1>11 DEF InJob
  <2> QED
    BY <1>3, <1>5, <1>6, <1>8, <1>11, <2>1 DEF InJob, Phase
<1>12. CASE Prepared(c)
  BY <1>5, <1>6, <1>8, <1>12 DEF Prepared, Phase
<1> QED
  BY <1>7, <1>9, <1>10, <1>11, <1>12 DEF Phase

LEMMA InTurnAgain ==
  ASSUME Typed', \A c \in Client : InStep(c)' /\ Phase(c)'
  PROVE  InTurn'
<1>1. ASSUME NEW c \in Client PROVE Len(received'[c]) <= Len(asked'[c])
  <2>1. Len(received'[c]) \in Nat /\ Len(asked'[c]) \in Nat
    BY DEF Typed, TypeOK
  <2>2. Len(asked'[c]) = Len(received'[c]) + 1 \/ Len(asked'[c]) = Len(received'[c])
        \/ Len(received'[c]) <= Len(asked'[c])
    BY DEF Phase, Over, Quiet, Asking, InJob, Prepared, IsRead, Owed
  <2> QED
    BY <2>1, <2>2
<1> QED
  BY <1>1 DEF InTurn, NoExtraAnswers

LEMMA EndedInTurn ==
  ASSUME InTurn, UNCHANGED <<received, asked>>, pc' \in Raised
  PROVE  InTurn'
BY DEF InTurn, NoExtraAnswers, IsUp

LEMMA ScriptIs ==
  ASSUME Typed, NEW c \in Client, InStep(c)
  PROVE  /\ Script[c] \in Seq(Segment) /\ Len(Script[c]) \in Nat
         /\ Arrived(c) \in 0 .. Len(Script[c])
         /\ Begins(c) \in Bytes
         /\ unsent[c] # <<>> =>
              /\ Arrived(c) + 1 \in 1 .. Len(Script[c])
              /\ Head(unsent[c]) = Script[c][Arrived(c) + 1]
<1>1. Script[c] \in Seq(Segment) /\ unsent[c] \in Seq(Segment)
  BY Assumptions DEF Typed, TypeOK
<1>2. Len(Script[c]) \in Nat /\ Len(unsent[c]) \in Nat
  BY <1>1
<1>3. Arrived(c) \in 0 .. Len(Script[c])
  <2> DEFINE a == Len(Script[c])
             b == Len(unsent[c])
  <2>1. Arrived(c) = a - b /\ b <= a
    BY DEF InStep, Arrived
  <2> HIDE DEF a, b
  <2>2. a \in Nat /\ b \in Nat
    BY <1>2 DEF a, b
  <2>3. a - b \in 0 .. a
    BY <2>1, <2>2
  <2> QED
    BY <2>1, <2>3 DEF a
<1>4. Begins(c) \in Bytes
  BY <1>1, <1>3, UnfinishedIs DEF Begins
<1>5. ASSUME unsent[c] # <<>>
      PROVE  /\ Arrived(c) + 1 \in 1 .. Len(Script[c])
             /\ Head(unsent[c]) = Script[c][Arrived(c) + 1]
  <2>1. 1 \in 1 .. Len(unsent[c]) /\ Head(unsent[c]) = unsent[c][1]
    BY <1>1, <1>5
  <2>2. Head(unsent[c]) = Script[c][Arrived(c) + 1]
    BY <2>1 DEF InStep
  <2>3. Arrived(c) + Len(unsent[c]) = Len(Script[c])
    BY <1>2 DEF Arrived
  <2> QED
    BY <1>2, <1>3, <2>1, <2>2, <2>3
<1> QED
  BY <1>1, <1>2, <1>3, <1>4, <1>5

\* One more segment of the script.
LEMMA ArriveInTurn ==
  ASSUME AskOneAtATime, Typed, Typed', InTurn, NEW c \in Client, Arrive(c)
  PROVE  InTurn'
<1>0. PICK n : n = Arrived(c)
  OBVIOUS
<1> DEFINE s == Script[c]
           seg == s[n + 1]
           f == Unfinished(s)
<1>1. /\ IsUp /\ InStep(c) /\ Phase(c)
      /\ conn[c] # "closed" /\ peer[c] # "reset"
      /\ unsent[c] # <<>> /\ Len(received[c]) = Len(asked[c])
  BY DEF Arrive, InTurn, AskOneAtATime
<1>2. Len(received[c]) \in Nat /\ Len(asked[c]) \in Nat /\ inbox[c] \in Bytes
      /\ unsent[c] \in Seq(Segment)
  BY DEF Typed, TypeOK
<1>3. Quiet(c)
  BY <1>1, <1>2 DEF Phase, Over, Asking, InJob, Prepared, IsRead, Owed
<1>4. /\ s \in Seq(Segment) /\ n \in 0 .. Len(s) /\ Len(s) \in Nat
      /\ n + 1 \in 1 .. Len(s) /\ Head(unsent[c]) = seg
  BY <1>0, <1>1, ScriptIs
<1>5. /\ seg.bytes \in Bytes /\ seg.bytes # <<>> /\ seg.ask \in Ask \cup {None}
      /\ seg \in Segment
  BY <1>4, SegmentIs
<1>6. f[n] \in Bytes /\ f[n] = Begins(c)
      /\ f[n + 1] = IF seg.ask # None THEN <<>> ELSE f[n] \o seg.bytes
  <2>1. (n + 1) - 1 = n
    BY <1>4
  <2> QED
    BY <1>0, <1>4, <2>1, UnfinishedIs DEF Begins
<1>7. PICK x \in Bytes : /\ x \o inbox[c] = f[n]
                         /\ Holds(ClientRequest(c), x)
                         /\ IsCut(s, n, Len(x))
  BY <1>0, <1>3, <1>6 DEF Quiet, HasRead
<1>8. /\ inbox'[c] = inbox[c] \o seg.bytes
      /\ unsent'[c] = Tail(unsent[c])
      /\ asked'[c] = IF seg.ask = None THEN asked[c] ELSE Append(asked[c], seg.ask)
      /\ \A d \in Client : d # c => UNCHANGED <<inbox[d], unsent[d], asked[d]>>
      /\ UNCHANGED <<client_request_dict, io_to_send, received, conn, peer, pc, job>>
  BY <1>4 DEF Arrive, Typed, TypeOK, tables, loop
<1>9. /\ Len(unsent'[c]) = Len(unsent[c]) - 1 /\ Len(unsent[c]) \in Nat
      /\ Len(unsent[c]) >= 1
      /\ \A i \in 1 .. Len(unsent[c]) - 1 : unsent'[c][i] = unsent[c][i + 1]
  BY <1>1, <1>2, <1>8
<1>10. n = Len(s) - Len(unsent[c]) /\ Arrived(c)' = Len(s) - Len(unsent'[c])
  BY <1>0 DEF Arrived
<1>11. Arrived(c)' = n + 1
  BY <1>4, <1>9, <1>10
<1>12. InStep(c)'
  <2>1. ASSUME NEW i \in 1 .. Len(unsent'[c]) PROVE unsent'[c][i] = s[Arrived(c)' + i]
    <3> DEFINE b == Len(unsent[c])
    <3>1. b \in Nat /\ i \in 1 .. b - 1 /\ n \in Nat
      BY <1>4, <1>9
    <3> HIDE DEF b
    <3>2. i + 1 \in 1 .. b /\ n + (i + 1) = (n + 1) + i
      BY <3>1
    <3>3. i + 1 \in 1 .. Len(unsent[c]) /\ n + (i + 1) = (n + 1) + i
          /\ i \in 1 .. Len(unsent[c]) - 1
      BY <3>1, <3>2 DEF b
    <3>4. unsent[c][i + 1] = s[n + (i + 1)]
      BY <1>0, <1>1, <3>3 DEF InStep
    <3> QED
      BY <1>9, <1>11, <3>3, <3>4
  <2>2. Len(unsent'[c]) <= Len(s)
    BY <1>1, <1>4, <1>9 DEF InStep
  <2> QED
    BY <2>1, <2>2 DEF InStep
<1>13. Begins(c)' = f[n + 1]
  BY <1>11 DEF Begins
<1>14. x \o inbox'[c] = f[n] \o seg.bytes
  BY <1>2, <1>5, <1>7, <1>8, Associative
<1>15. inbox'[c] # <<>>
  <2> DEFINE a == inbox[c]
             b == seg.bytes
  <2>1. a \in Bytes /\ b \in Bytes /\ b # <<>> /\ inbox'[c] = a \o b
    BY <1>2, <1>5, <1>8
  <2> HIDE DEF a, b
  <2>2. Len(a \o b) = Len(a) + Len(b) /\ Len(a) \in Nat /\ Len(b) \in Nat
    BY <2>1, ConcatIs
  <2>3. Len(b) # 0 /\ Len(<<>>) = 0
    BY <2>1 DEF Bytes
  <2>4. Len(a \o b) # Len(<<>>)
    BY <2>2, <2>3
  <2> QED
    BY <2>1, <2>4
<1>16. ClientRequest(c)' = ClientRequest(c) /\ ~ BusyWith(c)'
  BY <1>3, <1>8 DEF ClientRequest, Quiet, BusyWith
<1>17. Phase(c)'
  <2>1. CASE seg.ask = None
    <3>1. f[n + 1] = f[n] \o seg.bytes
      BY <1>6, <2>1
    <3>2. IsCut(s, n + 1, Len(x))
      <4>1. Len(x) \in Nat /\ n \in Nat
        BY <1>4, <1>7, Marks
      <4> HIDE DEF s
      <4> QED
        BY <1>4, <1>7, <2>1, <4>1, CutLasts DEF seg
    <3>3. HasRead(c, f[n + 1], n + 1)'
      BY <1>7, <1>14, <1>16, <3>1, <3>2 DEF HasRead
    <3>4. HasRead(c, Begins(c), Arrived(c))'
      BY <1>11, <1>13, <3>3 DEF HasRead
    <3>5. asked'[c] = asked[c]
      BY <1>8, <2>1
    <3> QED
      BY <1>1, <1>3, <1>8, <1>16, <3>4, <3>5 DEF Phase, Quiet
  <2>2. CASE seg.ask # None
    <3>1. asked'[c] = Append(asked[c], seg.ask)
      BY <1>8, <2>2
    <3>2. Len(asked'[c]) = Len(asked[c]) + 1 /\ asked'[c][Len(asked[c]) + 1] = seg.ask
      <4>1. asked[c] \in Seq(Ask) /\ seg.ask \in Ask
        BY <1>5, <2>2 DEF Typed, TypeOK
      <4> QED
        BY <3>1, <4>1
    <3>3. Owed(c)' /\ Wants(c)' = seg.ask
      BY <1>1, <1>8, <3>2 DEF Owed, Wants
    <3>4. Arrived(c)' # 0 /\ Arrived(c)' - 1 = n
      BY <1>4, <1>11
    <3>5. HasRead(c, f[n] \o seg.bytes, n)'
      BY <1>7, <1>14, <1>16 DEF HasRead
    <3>6. io_to_send'[c] = None
      BY <1>3, <1>8 DEF Quiet
    <3> QED
      BY <1>11, <1>15, <1>16, <2>2, <3>3, <3>4, <3>5, <3>6 DEF Phase, Asking
  <2> QED
    BY <2>1, <2>2
<1>18. ASSUME NEW d \in Client, d # c PROVE InStep(d)' /\ Phase(d)'
  BY <1>1, <1>8, <1>18, PhaseStays DEF InTurn
<1> QED
  BY <1>12, <1>17, <1>18, InTurnAgain

LEMMA ChunkIsAll ==
  ASSUME Typed, NEW c \in Client, Len(inbox[c]) <= BUFFER
  PROVE  Chunk(c) = inbox[c] /\ After(inbox[c], Len(Chunk(c))) = <<>>
<1> DEFINE b == inbox[c]
           n == Len(b)
<1>1. b \in Bytes /\ BUFFER \in Nat
  BY Assumptions DEF Typed, TypeOK
<1> HIDE DEF b
<1>2. n \in Nat /\ n <= BUFFER
  BY <1>1, Marks DEF b
<1> HIDE DEF n
<1>3. Min({BUFFER, n}) = n
  <2>1. {BUFFER, n} \in SUBSET Nat /\ {BUFFER, n} # {}
    BY <1>1, <1>2
  <2>2. Min({BUFFER, n}) \in {BUFFER, n} /\ Min({BUFFER, n}) <= n
    BY <2>1, MinNat
  <2> QED
    BY <1>1, <1>2, <2>2
<1>4. SubSeq(b, 1, n) = b
  <2>1. n = Len(b) /\ Len(SubSeq(b, 1, n)) = n
        /\ SubSeq(b, 1, n) \in Bytes /\ \A k \in 1 .. n : SubSeq(b, 1, n)[k] = b[k]
    <3>1. n <= Len(b) /\ n = Len(b) /\ n \in Int
      BY <1>2 DEF n
    <3>2. /\ SubSeq(b, 1, n) \in Bytes
          /\ Len(SubSeq(b, 1, n)) = IF 1 <= n THEN n - 1 + 1 ELSE 0
          /\ \A k \in 1 .. n - 1 + 1 : SubSeq(b, 1, n)[k] = b[1 + k - 1]
      BY <1>1, <3>1, PieceIs
    <3>3. (IF 1 <= n THEN n - 1 + 1 ELSE 0) = n /\ n - 1 + 1 = n
          /\ \A k \in 1 .. n : 1 + k - 1 = k
      BY <1>2
    <3> QED
      BY <3>1, <3>2, <3>3
  <2> QED
    BY <1>1, <2>1, SameBytes
<1>5. Chunk(c) = b
  BY <1>3, <1>4 DEF Chunk, b, n
<1>6. After(b, n) = <<>>
  <2>1. SubSeq(b, n + 1, n) \in Bytes /\ Len(SubSeq(b, n + 1, n)) = 0
    <3>1. n + 1 \in Nat \ {0} /\ n \in Int /\ n <= Len(b) /\ ~ (n + 1 <= n)
      BY <1>2 DEF n
    <3> QED
      BY <1>1, <3>1, PieceIs
  <2>2. SubSeq(b, n + 1, n) = <<>>
    BY <2>1 DEF Bytes
  <2> QED
    BY <2>2 DEF After, n
<1> QED
  BY <1>5, <1>6 DEF b, n

LEMMA ChunkIs ==
  ASSUME Typed, NEW c \in Client
  PROVE  /\ inbox[c] \in Bytes /\ Chunk(c) \in Bytes
         /\ After(inbox[c], Len(Chunk(c))) \in Bytes
         /\ Chunk(c) \o After(inbox[c], Len(Chunk(c))) = inbox[c]
         /\ \/ After(inbox[c], Len(Chunk(c))) = <<>> /\ Chunk(c) = inbox[c]
            \/ After(inbox[c], Len(Chunk(c))) # <<>> /\ Len(Chunk(c)) = BUFFER
<1> DEFINE all == inbox[c]
           l == Len(all)
<1>1. all \in Bytes /\ BUFFER \in Nat /\ l \in Nat
  BY Assumptions, Marks DEF Typed, TypeOK
<1>2. CASE l <= BUFFER
  <2>1. Chunk(c) = all /\ After(all, Len(Chunk(c))) = <<>>
    BY <1>2, ChunkIsAll
  <2>2. all \o <<>> = all
    BY <1>1, ConcatEmptySeq DEF Bytes
  <2> HIDE DEF all
  <2> QED
    BY <1>1, <2>1, <2>2, Constants DEF all
<1>3. CASE BUFFER < l
  <2> HIDE DEF all, l
  <2>1. Min({BUFFER, l}) = BUFFER
    <3>1. {BUFFER, l} \in SUBSET Nat /\ {BUFFER, l} # {}
      BY <1>1
    <3>2. Min({BUFFER, l}) \in {BUFFER, l} /\ Min({BUFFER, l}) <= BUFFER
      BY <3>1, MinNat
    <3> QED
      BY <1>1, <1>3, <3>2
  <2>2. BUFFER \in 0 .. Len(all)
    BY <1>1, <1>3 DEF l
  <2>3. Chunk(c) = SubSeq(all, 1, BUFFER)
    BY <2>1 DEF Chunk, all, l
  <2>4. /\ Chunk(c) \in Bytes /\ Len(Chunk(c)) = BUFFER
        /\ After(all, BUFFER) \in Bytes /\ Len(After(all, BUFFER)) = l - BUFFER
        /\ Chunk(c) \o After(all, BUFFER) = all
    BY <1>1, <2>2, <2>3, Halves DEF l
  <2>5. Len(After(all, BUFFER)) # 0
    BY <1>1, <1>3, <2>4
  <2>6. After(all, BUFFER) # <<>>
    BY <2>5
  <2> QED
    BY <1>1, <2>4, <2>6 DEF all
<1> QED
  BY <1>1, <1>2, <1>3

\* Where recv() ends in z, of which x was read before.
LEMMA RecvEnds ==
  ASSUME Typed, NEW c \in Client, NEW x \in Bytes
  PROVE  LET b == Chunk(c)
             rest == After(inbox[c], Len(b))
             y == x \o b
             z == x \o inbox[c]
         IN  /\ b \in Bytes /\ z \in Bytes /\ y \in Bytes /\ rest \in Bytes
             /\ y \o rest = z
             /\ x = SubSeq(z, 1, Len(x)) /\ y = SubSeq(z, 1, Len(y))
             /\ Len(x) \in Nat /\ Len(y) \in Nat /\ Len(z) \in Nat
             /\ Len(x) <= Len(y) /\ Len(y) <= Len(z)
             /\ inbox[c] # <<>> => b # <<>> /\ Len(x) < Len(z)
             /\ b # <<>> => y # <<>>
             /\ \/ rest = <<>> /\ b = inbox[c] /\ y = z
                \/ rest # <<>> /\ Len(y) < Len(z) /\ Len(y) = Len(x) + BUFFER
<1> DEFINE all == inbox[c]
           b == Chunk(c)
           rest == After(all, Len(b))
           y == x \o b
           z == x \o all
<1>1. /\ all \in Bytes /\ b \in Bytes /\ rest \in Bytes /\ b \o rest = all
      /\ (rest = <<>> /\ b = all) \/ (rest # <<>> /\ Len(b) = BUFFER)
      /\ BUFFER \in Nat /\ BUFFER > 0
      /\ z = x \o all /\ y = x \o b
  BY ChunkIs, Assumptions
<1> SUFFICES /\ b \in Bytes /\ z \in Bytes /\ y \in Bytes /\ rest \in Bytes
             /\ y \o rest = z
             /\ x = SubSeq(z, 1, Len(x)) /\ y = SubSeq(z, 1, Len(y))
             /\ Len(x) \in Nat /\ Len(y) \in Nat /\ Len(z) \in Nat
             /\ Len(x) <= Len(y) /\ Len(y) <= Len(z)
             /\ all # <<>> => b # <<>> /\ Len(x) < Len(z)
             /\ b # <<>> => y # <<>>
             /\ \/ rest = <<>> /\ b = all /\ y = z
                \/ rest # <<>> /\ Len(y) < Len(z) /\ Len(y) = Len(x) + BUFFER
  OBVIOUS
<1> HIDE DEF all, b, rest, y, z
<1>2. y \in Bytes /\ z \in Bytes /\ y \o rest = z
  <2>1. y \in Bytes /\ z \in Bytes
    BY <1>1, ConcatIs
  <2>2. (x \o b) \o rest = x \o (b \o rest)
    BY <1>1, Associative
  <2> QED
    BY <1>1, <2>1, <2>2
<1>3. /\ Len(x) \in Nat /\ Len(b) \in Nat /\ Len(rest) \in Nat /\ Len(all) \in Nat
      /\ Len(y) = Len(x) + Len(b) /\ Len(z) = Len(y) + Len(rest)
      /\ Len(z) = Len(x) + Len(all)
      /\ Len(y) \in Nat /\ Len(z) \in Nat
  <2>1. Len(x) \in Nat /\ Len(b) \in Nat /\ Len(rest) \in Nat /\ Len(all) \in Nat
        /\ Len(y) \in Nat /\ Len(z) \in Nat
    BY <1>1, <1>2, Marks
  <2>2. Len(x \o b) = Len(x) + Len(b)
    BY <1>1, ConcatIs
  <2>3. Len(y \o rest) = Len(y) + Len(rest)
    BY <1>1, <1>2, ConcatIs
  <2>4. Len(x \o all) = Len(x) + Len(all)
    BY <1>1, ConcatIs
  <2> QED
    BY <1>1, <1>2, <2>1, <2>2, <2>3, <2>4
<1>4. x = SubSeq(z, 1, Len(x))
  <2>1. SubSeq(x \o all, 1, Len(x)) = SubSeq(x, 1, Len(x))
    BY <1>1, <1>3, PieceOfFirst
  <2>2. SubSeq(x, 1, Len(x)) = x
    BY SubSeqFull DEF Bytes
  <2> QED
    BY <1>1, <2>1, <2>2
<1>5. y = SubSeq(z, 1, Len(y))
  <2>1. SubSeq(y \o rest, 1, Len(y)) = SubSeq(y, 1, Len(y))
    BY <1>1, <1>2, <1>3, PieceOfFirst
  <2>2. SubSeq(y, 1, Len(y)) = y
    BY <1>2, SubSeqFull DEF Bytes
  <2> QED
    BY <1>2, <2>1, <2>2
<1>6. /\ all # <<>> => Len(all) # 0
      /\ b # <<>> => Len(b) # 0
      /\ b = <<>> => Len(b) = 0
      /\ rest # <<>> => Len(rest) # 0
      /\ rest = <<>> => Len(rest) = 0
      /\ y = <<>> => Len(y) = 0
  BY <1>1, <1>2 DEF Bytes
<1>7. b # <<>> => y # <<>>
  BY <1>3, <1>6
<1>8. CASE rest = <<>> /\ b = all
  <2>1. y = z
    BY <1>1, <1>8
  <2>2. Len(x) <= Len(y) /\ Len(y) <= Len(z) /\ (all # <<>> => Len(x) < Len(z))
    BY <1>3, <1>6, <1>8
  <2> QED
    BY <1>1, <1>2, <1>3, <1>4, <1>5, <1>7, <1>8, <2>1, <2>2
<1>9. CASE rest # <<>> /\ Len(b) = BUFFER
  <2>1. /\ Len(y) = Len(x) + BUFFER /\ Len(y) < Len(z) /\ Len(x) < Len(z)
        /\ Len(x) <= Len(y) /\ Len(y) <= Len(z)
    BY <1>1, <1>3, <1>6, <1>9
  <2>2. b # <<>>
    BY <1>1, <1>6, <1>9
  <2> QED
    BY <1>1, <1>2, <1>3, <1>4, <1>5, <1>7, <1>9, <2>1, <2>2
<1> QED
  BY <1>1, <1>8, <1>9

\* parse() goes on with a request that is not complete.
LEMMA PartIsRead ==
  ASSUME Typed, NEW c \in Client, NEW x \in Bytes, Holds(ClientRequest(c), x),
         NEW y \in Bytes, y = x \o Chunk(c), IsBegun(y), EndsInside(x) => EndsInside(y)
  PROVE  /\ ~ Parsed(c).raised
         /\ Parsed(c).m.parser_state # "END"
         /\ y # <<>> => Holds(Parsed(c).m, y)
<1>1. /\ Parsed(c).raised = ReadAs(y).raised
      /\ Parsed(c).m = Keeping(ReadAs(y), ReadAs(x).m.residual).m
  <2> DEFINE b == Chunk(c)
             m == ClientRequest(c)
  <2>1. b \in Bytes /\ y = x \o b /\ Holds(m, x) /\ Parsed(c) = Parse(m, b)
    BY ParsedType DEF Parsed
  <2> HIDE DEF b, m
  <2>2. /\ Parse(m, b).raised = ReadAs(x \o b).raised
        /\ Parse(m, b).m = Keeping(ReadAs(x \o b), ReadAs(x).m.residual).m
    BY <2>1, ReadsOn
  <2> QED
    BY <2>1, <2>2
<1>2. Parsed(c).m = ReadAs(y).m
  <2>1. IsResult(ReadAs(y))
    BY ReadAsType
  <2> QED
    BY <1>1, <2>1, KeepingSame DEF EndsInside
<1> QED
  BY <1>1, <1>2 DEF Holds, IsBegun

\* What is read of a quiet client is the beginning of a request.
LEMMA QuietIsRead ==
  ASSUME AskOneAtATime, Typed, NEW c \in Client, InStep(c), Quiet(c)
  PROVE  /\ ~ Parsed(c).raised
         /\ Chunk(c) # <<>> =>
              /\ Parsed(c).m.parser_state # "END"
              /\ \E y \in Bytes : /\ y \o After(inbox[c], Len(Chunk(c))) = Begins(c)
                                 /\ Holds(Parsed(c).m, y)
                                 /\ IsCut(Script[c], Arrived(c), Len(y))
<1> DEFINE n == Arrived(c)
           s == Script[c]
           z == Unfinished(s)[n]
           b == Chunk(c)
           rest == After(inbox[c], Len(b))
<1>1. s \in Seq(Segment) /\ n \in 0 .. Len(s) /\ Len(s) \in Nat /\ IsCutWell(s)
      /\ Begins(c) = z /\ z \in Bytes
  BY ScriptIs DEF AskOneAtATime, Begins
<1>2. PICK x \in Bytes : /\ x \o inbox[c] = z
                         /\ Holds(ClientRequest(c), x)
                         /\ IsCut(s, n, Len(x))
  BY DEF Quiet, HasRead, Begins
<1> DEFINE y == x \o b
<1>3. /\ b \in Bytes /\ y \in Bytes /\ y \o rest = z
      /\ x = SubSeq(z, 1, Len(x)) /\ y = SubSeq(z, 1, Len(y))
      /\ Len(x) \in Nat /\ Len(y) \in Nat /\ Len(x) <= Len(y) /\ Len(y) <= Len(z)
      /\ b # <<>> => y # <<>>
      /\ y = z \/ Len(y) = Len(x) + BUFFER
  <2> DEFINE w == x \o inbox[c]
  <2>1. /\ b \in Bytes /\ w \in Bytes /\ y \in Bytes /\ rest \in Bytes
        /\ y \o rest = w
        /\ x = SubSeq(w, 1, Len(x)) /\ y = SubSeq(w, 1, Len(y))
        /\ Len(x) \in Nat /\ Len(y) \in Nat /\ Len(w) \in Nat
        /\ Len(x) <= Len(y) /\ Len(y) <= Len(w)
        /\ inbox[c] # <<>> => b # <<>> /\ Len(x) < Len(w)
        /\ b # <<>> => y # <<>>
        /\ \/ rest = <<>> /\ b = inbox[c] /\ y = w
           \/ rest # <<>> /\ Len(y) < Len(w) /\ Len(y) = Len(x) + BUFFER
    BY RecvEnds
  <2> HIDE DEF w, y, b, rest, z
  <2> QED
    BY <1>2, <2>1 DEF w
<1>4. Len(z) \in Nat /\ (z = <<>> => Len(z) = 0) /\ (y = <<>> => Len(y) = 0)
      /\ (x # <<>> => Len(x) # 0) /\ (y # <<>> => Len(y) # 0)
  BY <1>1, <1>2, <1>3 DEF Bytes
<1> HIDE DEF y, b, rest
<1>5. IsCut(s, n, Len(y))
  BY <1>1, <1>2, <1>3, HereIsCut, CutFollows
<1>6. CASE z = <<>>
  <2>1. Len(x) = 0 /\ Len(y) = 0
    BY <1>3, <1>4, <1>6
  <2>2. x = <<>> /\ y = <<>> /\ b = <<>>
    BY <1>3, <1>4, <2>1
  <2>3. ~ Parsed(c).raised
    BY <1>2, <2>2, NothingRead, PartIsRead DEF IsBegun, EndsInside, y, b
  <2> QED
    BY <2>2, <2>3 DEF b
<1>7. CASE z # <<>>
  <2> HIDE DEF n, z
  <2>1. n \in 1 .. Len(s)
    BY <1>1, <1>7, UnfinishedIs DEF z
  <2>2. s[n].ask = None /\ z = Unfinished(s)[n - 1] \o s[n].bytes
    BY <1>1, <1>7, <2>1, UnfinishedIs DEF z
  <2> HIDE DEF s
  <2>3. PICK p, q : /\ p = Len(x) /\ q = Len(y)
                    /\ p \in 0 .. Len(z) /\ q \in 0 .. Len(z) /\ p <= q
    BY <1>3, <1>4
  <2>4. IsBegun(y) /\ (EndsInside(x) => EndsInside(y))
    <3>1. IsCut(s, n, p) /\ IsCut(s, n, q)
      BY <1>2, <1>5, <2>3
    <3>2. /\ IsBegun(SubSeq(z, 1, q))
          /\ EndsInside(SubSeq(z, 1, p)) => EndsInside(SubSeq(z, 1, q))
      BY <1>1, <2>1, <2>2, <2>3, <3>1, CutTwice
    <3>3. SubSeq(z, 1, p) = x /\ SubSeq(z, 1, q) = y
      BY <1>3, <2>3
    <3> QED
      BY <3>2, <3>3
  <2>5. /\ ~ Parsed(c).raised
        /\ Parsed(c).m.parser_state # "END"
        /\ y # <<>> => Holds(Parsed(c).m, y)
    BY <1>2, <1>3, <2>4, PartIsRead DEF y, b
  <2> QED
    BY <1>1, <1>3, <1>5, <2>5 DEF b, rest, n, s
<1> QED
  BY <1>6, <1>7

\* What is read of an asking client is its request, or more of it.
LEMMA AskGoesOn ==
  ASSUME AskOneAtATime, Typed, NEW c \in Client, InStep(c), Asking(c),
         NEW rest, rest = After(inbox[c], Len(Chunk(c))), rest # <<>>
  PROVE  /\ ~ Parsed(c).raised
         /\ Chunk(c) # <<>>
         /\ Parsed(c).m.parser_state # "END"
         /\ \E y \in Bytes :
              /\ y \o rest = Unfinished(Script[c])[Arrived(c) - 1] \o Script[c][Arrived(c)].bytes
              /\ Holds(Parsed(c).m, y)
              /\ IsCut(Script[c], Arrived(c) - 1, Len(y))
<1> DEFINE n == Arrived(c)
           s == Script[c]
           z == Unfinished(s)[n - 1] \o s[n].bytes
           b == Chunk(c)
<1>1. /\ n \in 1 .. Len(s) /\ s \in Seq(Segment) /\ Len(s) \in Nat /\ IsCutWell(s)
      /\ s[n].ask # None /\ inbox[c] # <<>>
  <2>1. /\ n \in 0 .. Len(s) /\ s \in Seq(Segment) /\ Len(s) \in Nat /\ n # 0
        /\ IsCutWell(s) /\ s[n].ask # None /\ inbox[c] # <<>>
    BY ScriptIs DEF Asking, AskOneAtATime
  <2> HIDE DEF n, s
  <2> QED
    BY <2>1
<1>2. PICK x \in Bytes : /\ x \o inbox[c] = z
                         /\ Holds(ClientRequest(c), x)
                         /\ IsCut(s, n - 1, Len(x))
  BY DEF Asking, HasRead
<1> DEFINE y == x \o b
<1>3. /\ b \in Bytes /\ y \in Bytes /\ z \in Bytes /\ y \o rest = z
      /\ x = SubSeq(z, 1, Len(x)) /\ y = SubSeq(z, 1, Len(y))
      /\ Len(x) \in Nat /\ Len(y) \in Nat /\ Len(z) \in Nat /\ Len(x) <= Len(y)
      /\ b # <<>> /\ y # <<>>
      /\ Len(y) < Len(z) /\ Len(y) = Len(x) + BUFFER
  <2> DEFINE w == x \o inbox[c]
  <2>1. /\ b \in Bytes /\ w \in Bytes /\ y \in Bytes /\ rest \in Bytes
        /\ y \o rest = w
        /\ x = SubSeq(w, 1, Len(x)) /\ y = SubSeq(w, 1, Len(y))
        /\ Len(x) \in Nat /\ Len(y) \in Nat /\ Len(w) \in Nat
        /\ Len(x) <= Len(y) /\ Len(y) <= Len(w)
        /\ inbox[c] # <<>> => b # <<>> /\ Len(x) < Len(w)
        /\ b # <<>> => y # <<>>
        /\ \/ rest = <<>> /\ b = inbox[c] /\ y = w
           \/ rest # <<>> /\ Len(y) < Len(w) /\ Len(y) = Len(x) + BUFFER
    BY RecvEnds
  <2> HIDE DEF w, y, b, z, n, s
  <2> QED
    BY <1>1, <1>2, <2>1 DEF w
<1>4. IsCut(s, n - 1, Len(y))
  <2>1. n - 1 \in 0 .. Len(s)
    BY <1>1
  <2> HIDE DEF n, s, y
  <2>2. IsCut(s, n - 1, Len(x) + BUFFER)
    BY <1>1, <1>2, <1>3, <2>1, CutFollows
  <2> QED
    BY <1>3, <2>2
<1> HIDE DEF y, b, n, s, z
<1>5. PICK p, q : /\ p = Len(x) /\ q = Len(y)
                  /\ p \in 0 .. Len(z) /\ q \in 0 .. Len(z) /\ p <= q /\ q < Len(z)
  <2>1. Len(x) \in 0 .. Len(z) /\ Len(y) \in 0 .. Len(z)
    BY <1>3
  <2> QED
    BY <1>3, <2>1
<1>6. IsBegun(y) /\ (EndsInside(x) => EndsInside(y))
  <2>1. z = Unfinished(s)[n - 1] \o s[n].bytes
    BY DEF z
  <2>2. IsCut(s, n - 1, p) /\ IsCut(s, n - 1, q)
    BY <1>2, <1>4, <1>5
  <2>3. /\ IsBegun(SubSeq(z, 1, q))
        /\ EndsInside(SubSeq(z, 1, p)) => EndsInside(SubSeq(z, 1, q))
    BY <1>1, <1>3, <1>5, <2>1, <2>2, CutTwice
  <2>4. SubSeq(z, 1, p) = x /\ SubSeq(z, 1, q) = y
    BY <1>3, <1>5
  <2> QED
    BY <2>3, <2>4
<1>7. /\ ~ Parsed(c).raised
      /\ Parsed(c).m.parser_state # "END"
      /\ Holds(Parsed(c).m, y)
  BY <1>2, <1>3, <1>6, PartIsRead DEF y, b
<1> QED
  BY <1>3, <1>4, <1>7 DEF b, n, s, z

LEMMA AskIsRead ==
  ASSUME AskOneAtATime, Typed, NEW c \in Client, InStep(c), Asking(c),
         After(inbox[c], Len(Chunk(c))) = <<>>
  PROVE  /\ Chunk(c) # <<>>
         /\ Begins(c) = <<>>
         /\ Parsed(c).raised =>
              Wants(c).uri = <<>> /\ Wants(c).keep /\ Fresh(Parsed(c).m)
         /\ ~ Parsed(c).raised =>
              /\ Parsed(c).m.parser_state = "END"
              /\ Parsed(c).m.uri = Wants(c).uri /\ Wants(c).uri \in Uri
              /\ Wants(c).gzip = AllowGzip(Parsed(c).m)
              /\ Wants(c).keep = ShouldKeepAlive(Parsed(c).m)
<1> DEFINE n == Arrived(c)
           s == Script[c]
           f == Unfinished(s)
           last == f[n - 1]
           z == last \o s[n].bytes
           ask == s[n].ask
<1>1. n \in 1 .. Len(s) /\ s \in Seq(Segment) /\ Len(s) \in Nat
  <2>1. n \in 0 .. Len(s) /\ s \in Seq(Segment) /\ Len(s) \in Nat /\ n # 0
    BY ScriptIs DEF Asking
  <2> HIDE DEF n, s
  <2> QED
    BY <2>1
<1>2. ask # None /\ Wants(c) = ask /\ inbox[c] # <<>> /\ inbox[c] \in Bytes
  BY DEF Asking, Typed, TypeOK
<1>3. f[n] = <<>> /\ last \in Bytes /\ s[n].bytes \in Bytes
  <2>1. n - 1 \in 0 .. Len(s)
    BY <1>1
  <2> QED
    BY <1>1, <1>2, <2>1, UnfinishedIs, SegmentIs
<1>4. z \in Bytes
  BY <1>3, ConcatIs
<1>5. IsRequest(z, ask) \/ (ask.uri = <<>> /\ ask.keep /\ IsMalformed(z))
  BY <1>1, <1>2 DEF AskOneAtATime, IsTruthful
<1>6. PICK x \in Bytes : /\ x \o inbox[c] = z
                         /\ Holds(ClientRequest(c), x)
                         /\ IsCut(s, n - 1, Len(x))
  BY DEF Asking, HasRead
<1>7. /\ Chunk(c) = inbox[c] /\ Chunk(c) # <<>>
      /\ x = SubSeq(z, 1, Len(x)) /\ Len(x) \in Nat /\ Len(x) < Len(z)
  <2> DEFINE w == x \o inbox[c]
  <2>1. /\ Chunk(c) = inbox[c]
        /\ x = SubSeq(w, 1, Len(x)) /\ Len(x) \in Nat
        /\ inbox[c] # <<>> => Chunk(c) # <<>> /\ Len(x) < Len(w)
    BY RecvEnds
  <2> HIDE DEF w, z
  <2> QED
    BY <1>2, <1>6, <2>1 DEF w
<1>8. Begins(c) = <<>>
  BY <1>3 DEF Begins
<1> HIDE DEF z, last, ask
<1>9. /\ Parsed(c).raised = ReadAs(z).raised
      /\ Parsed(c).m = Keeping(ReadAs(z), ReadAs(x).m.residual).m
  <2> DEFINE b == Chunk(c)
             m == ClientRequest(c)
  <2>1. b \in Bytes /\ x \o b = z /\ Holds(m, x) /\ Parsed(c) = Parse(m, b)
    BY <1>2, <1>6, <1>7 DEF Parsed
  <2> HIDE DEF b, m
  <2>2. /\ Parse(m, b).raised = ReadAs(x \o b).raised
        /\ Parse(m, b).m = Keeping(ReadAs(x \o b), ReadAs(x).m.residual).m
    BY <2>1, ReadsOn
  <2> QED
    BY <2>1, <2>2
<1>10. /\ Parsed(c).m.parser_state = ReadAs(z).m.parser_state
       /\ Parsed(c).m.uri = ReadAs(z).m.uri
       /\ Parsed(c).m.version = ReadAs(z).m.version
       /\ Parsed(c).m.headers = ReadAs(z).m.headers
       /\ ReadAs(x).m.residual = <<>> => Parsed(c).m = ReadAs(z).m
  <2>1. IsResult(ReadAs(z))
    BY <1>4, ReadAsType
  <2> QED
    BY <1>9, <2>1, KeepingSame
<1>11. CASE IsRequest(z, ask)
  <2>1. /\ ~ ReadAs(z).raised
        /\ ReadAs(z).m.parser_state = "END"
        /\ ReadAs(z).m.uri = ask.uri /\ ask.uri \in Uri
        /\ AllowGzip(ReadAs(z).m) = ask.gzip
        /\ ShouldKeepAlive(ReadAs(z).m) = ask.keep
    BY <1>11 DEF IsRequest
  <2>2. AllowGzip(Parsed(c).m) = AllowGzip(ReadAs(z).m)
        /\ ShouldKeepAlive(Parsed(c).m) = ShouldKeepAlive(ReadAs(z).m)
    BY <1>10 DEF AllowGzip, ShouldKeepAlive
  <2> QED
    BY <1>2, <1>7, <1>8, <1>9, <1>10, <2>1, <2>2
<1>12. CASE ask.uri = <<>> /\ ask.keep /\ IsMalformed(z)
  <2>1. ReadAs(x).m.residual = <<>>
    <3>1. IsCutWell(s) /\ z = Unfinished(s)[n - 1] \o s[n].bytes
      BY DEF AskOneAtATime, z, last
    <3>2. ask = s[n].ask
      BY DEF ask
    <3> HIDE DEF n, s
    <3>3. PICK p : p = Len(x) /\ p \in 0 .. Len(z) /\ p < Len(z) /\ p <= p
      BY <1>4, <1>7, Marks
    <3>4. IsCut(s, n - 1, p) /\ x = SubSeq(z, 1, p)
      BY <1>6, <1>7, <3>3
    <3>5. EndsInside(SubSeq(z, 1, p)) => (s[n].ask # None => s[n].ask.uri # <<>>)
      BY <1>1, <1>2, <1>4, <3>1, <3>2, <3>3, <3>4, CutTwice
    <3> QED
      BY <1>2, <1>12, <3>2, <3>4, <3>5 DEF EndsInside
  <2>2. Fresh(ReadAs(z).m) /\ ReadAs(z).raised
    BY <1>4, <1>12, MalformedIsFresh DEF IsMalformed
  <2> QED
    BY <1>2, <1>7, <1>8, <1>9, <1>10, <1>12, <2>1, <2>2
<1> QED
  BY <1>5, <1>11, <1>12

\* What completes a request, or raises, is all of it.
LEMMA AskIsDone ==
  ASSUME AskOneAtATime, Typed, NEW c \in Client, InStep(c), Asking(c)
  PROVE  /\ Chunk(c) # <<>>
         /\ ~ Parsed(c).raised /\ Parsed(c).m.parser_state = "END" =>
              Parsed(c).m.uri = Wants(c).uri
<1>1. CASE After(inbox[c], Len(Chunk(c))) = <<>>
  BY <1>1, AskIsRead
<1>2. CASE After(inbox[c], Len(Chunk(c))) # <<>>
  BY <1>2, AskGoesOn
<1> QED
  BY <1>1, <1>2

\* A client whose request was answered, or not read so far.
LEMMA QuietAgain ==
  ASSUME Typed, Typed', NEW c \in Client, InStep(c), IsRead(c),
         UNCHANGED <<unsent, inbox[c], asked[c]>>,
         Len(received'[c]) = Len(received[c]) + 1,
         io_to_send'[c] = None,
         ~ BusyWith(c)',
         Fresh(ClientRequest(c)')
  PROVE  Phase(c)'
<1>1. Len(asked'[c]) = Len(received'[c])
  BY DEF IsRead, Owed
<1>2. inbox'[c] = <<>> /\ Begins(c)' = <<>>
  BY DEF IsRead, Begins, Arrived
<1>3. <<>> \o <<>> = <<>>
  BY Constants, ConcatEmptySeq DEF Bytes
<1>4. Holds(ClientRequest(c)', <<>>)
  BY DEF Holds
<1>5. HasRead(c, Begins(c), Arrived(c))'
  <2>1. Arrived(c)' = Arrived(c) /\ Unfinished(Script[c])[Arrived(c)] = <<>>
    BY DEF Arrived, IsRead, Begins
  <2>2. IsCut(Script[c], Arrived(c), Len(<<>>))
    BY <2>1, ScriptIs, HereIsCut
  <2> QED
    BY <1>2, <1>3, <1>4, <2>1, <2>2, Constants DEF HasRead
<1> QED
  BY <1>1, <1>5 DEF Phase, Quiet

LEMMA NoneIsFresh ==
  ASSUME NEW c \in Client, client_request_dict[c] = None
  PROVE  Fresh(ClientRequest(c))
<1>1. ClientRequest(c) = [NewMessage("REQUEST") EXCEPT !.start_line = <<>>]
  BY DEF ClientRequest, NewMessage
<1> QED
  BY <1>1, Constants DEF Fresh

LEMMA NoneIsFreshNext ==
  ASSUME NEW c \in Client, client_request_dict'[c] = None
  PROVE  Fresh(ClientRequest(c)')
<1>1. ClientRequest(c)' = [NewMessage("REQUEST") EXCEPT !.start_line = <<>>]
  BY DEF ClientRequest, NewMessage
<1> QED
  BY <1>1, Constants DEF Fresh

LEMMA SendInTurn ==
  ASSUME Typed, Typed', InTurn, NEW c \in Client, SendResponse(c)
  PROVE  InTurn'
<1> DEFINE m == io_to_send[c].response
<1>1. /\ pc = "loop" /\ io_to_send[c] # None /\ io_to_send'[c] = None
      /\ \A d \in Client : d # c => io_to_send'[d] = io_to_send[d]
      /\ UNCHANGED <<job, unsent, inbox, asked, peer>>
  BY DEF SendResponse, Writes, Typed, TypeOK
<1>2. CASE ~ CanSend(c, m)
  BY <1>2, EndedInTurn DEF SendResponse, Raised
<1>3. CASE CanSend(c, m)
  <2>1. /\ received' = [received EXCEPT ![c] = Append(@, m)]
        /\ pc' = "loop"
        /\ UNCHANGED <<conn, client_request_dict>> \/ Clean(c)
    BY <1>1, <1>3 DEF SendResponse, Delivered
  <2>2. /\ InStep(c) /\ Phase(c) /\ conn[c] = "open" /\ peer[c] # "reset"
        /\ \A d \in Client : InStep(d) /\ Phase(d)
    BY <1>1, <1>3 DEF InTurn, IsUp, Raised, CanSend
  <2>3. Prepared(c)
    BY <1>1, <2>2 DEF Phase, Over, Quiet, Asking, InJob
  <2>4. /\ Len(received'[c]) = Len(received[c]) + 1
        /\ \A d \in Client : d # c => received'[d] = received[d]
    <3>1. received[c] \in Seq(Message) /\ received'[c] = Append(received[c], m)
      BY <2>1 DEF Typed, TypeOK
    <3> HIDE DEF m
    <3>2. Len(Append(received[c], m)) = Len(received[c]) + 1
      BY <3>1
    <3>3. \A d \in Client : d # c => received'[d] = received[d]
      BY <2>1 DEF Typed, TypeOK
    <3> QED
      BY <3>1, <3>2, <3>3
  <2>5. /\ client_request_dict'[c] = None
        /\ \A d \in Client : d # c => UNCHANGED <<client_request_dict[d], conn[d]>>
    BY <2>1, <2>3 DEF Clean, Prepared, Typed, TypeOK
  <2>6. \A d \in Client : ~ BusyWith(d) /\ ~ BusyWith(d)'
    BY <1>1, <2>1 DEF BusyWith, Busy
  <2>7. Phase(c)'
    BY <1>1, <2>2, <2>3, <2>4, <2>5, <2>6, QuietAgain, NoneIsFreshNext DEF Prepared
  <2>8. InStep(c)'
    BY <1>1, <2>2 DEF InStep, Arrived
  <2>9. ASSUME NEW d \in Client, d # c PROVE InStep(d)' /\ Phase(d)'
    BY <1>1, <2>2, <2>4, <2>5, <2>6, <2>9, PhaseStays
  <2> QED
    BY <2>7, <2>8, <2>9, InTurnAgain
<1> QED
  BY <1>2, <1>3

\* What is the same for whichever way deal_with_client() goes after recv().
LEMMA RecvInTurn ==
  ASSUME Typed, Typed', InTurn, NEW c \in Client, Recv(c),
         \A d \in Client : d # c => UNCHANGED <<client_request_dict[d], io_to_send[d],
                                               conn[d]>>,
         pc' \notin Busy \/ job'.client = c,
         pc' \notin Raised,
         Phase(c)'
  PROVE  InTurn'
<1>1. /\ pc = "loop" /\ UNCHANGED <<unsent, peer, asked, received>>
      /\ \A d \in Client : d # c => inbox'[d] = inbox[d]
  BY DEF Recv, history, Typed, TypeOK
<1>2. \A d \in Client : InStep(d) /\ Phase(d)
  BY <1>1 DEF InTurn, IsUp, Raised
<1>3. \A d \in Client : d # c => ~ BusyWith(d) /\ ~ BusyWith(d)'
  BY <1>1 DEF BusyWith, Busy
<1>4. InStep(c)'
  BY <1>1, <1>2 DEF InStep, Arrived
<1>5. ASSUME NEW d \in Client, d # c PROVE InStep(d)' /\ Phase(d)'
  BY <1>1, <1>2, <1>3, <1>5, PhaseStays
<1> QED
  BY <1>4, <1>5, InTurnAgain

LEMMA DealInTurn ==
  ASSUME AskOneAtATime, Typed, Typed', InTurn, NEW c \in Client, DealWithClient(c)
  PROVE  InTurn'
<1>1. CASE RecvRaises(c)
  BY <1>1, EndedInTurn DEF RecvRaises, history, Raised
<1>2. CASE Recv(c)
  <2>1. /\ pc = "loop" /\ UNCHANGED <<unsent, peer, asked, received>>
        /\ inbox'[c] = After(inbox[c], Len(Chunk(c)))
        /\ InStep(c) /\ Phase(c)
    BY <1>2 DEF Recv, history, Typed, TypeOK, InTurn, IsUp, Raised
  <2>2. ~ BusyWith(c)
    BY <2>1 DEF BusyWith, Busy
  <2>3. /\ \A d \in Client : d # c => UNCHANGED <<client_request_dict[d], io_to_send[d],
                                                 conn[d]>>
        /\ pc' \notin Busy \/ job'.client = c
        /\ pc' \notin Raised
        /\ conn'[c] \in {conn[c], "closed"}
    <3>1. CASE Reject(c)
      BY <3>1 DEF Reject, Keep, JobOf, Raised, Typed, TypeOK
    <3>2. CASE ClientGone(c)
      BY <2>1, <3>2 DEF ClientGone, Clean, Raised, Busy, Typed, TypeOK
    <3>3. CASE Fragment(c)
      BY <2>1, <3>3 DEF Fragment, Keep, Raised, Busy, Typed, TypeOK
    <3>4. CASE CacheHit(c)
      BY <2>1, <3>4 DEF CacheHit, Raised, Busy, Typed, TypeOK
    <3>5. CASE CacheMiss(c)
      BY <3>5 DEF CacheMiss, Keep, JobOf, Raised, Typed, TypeOK
    <3>6. ~ RecvRaises(c)
      BY <1>2 DEF Recv, RecvRaises
    <3> QED
      BY <3>1, <3>2, <3>3, <3>4, <3>5, <3>6 DEF DealWithClient
  <2>4. SUFFICES Phase(c)'
    BY <1>2, <2>3, RecvInTurn
  <2>5. CASE Over(c)
    BY <2>1, <2>3, <2>5 DEF Over, Phase
  <2>6. ASSUME ClientGone(c), Len(received[c]) <= Len(asked[c]) PROVE Phase(c)'
    <3>1. conn'[c] = "closed"
      BY <2>6 DEF ClientGone, Clean, Typed, TypeOK
    <3> QED
      BY <2>1, <2>6, <3>1 DEF Over, Phase
  <2>7. Len(received[c]) <= Len(asked[c])
    BY DEF InTurn, NoExtraAnswers
  <2>8. CASE Quiet(c)
    <3>1. /\ ~ Parsed(c).raised
          /\ Chunk(c) # <<>> =>
               /\ Parsed(c).m.parser_state # "END"
               /\ \E y \in Bytes : /\ y \o inbox'[c] = Begins(c)
                                  /\ Holds(Parsed(c).m, y)
                                  /\ IsCut(Script[c], Arrived(c), Len(y))
      BY <2>1, <2>8, QuietIsRead
    <3>2. ClientGone(c) \/ Fragment(c)
      BY <3>1, <1>2 DEF DealWithClient, Reject, CacheHit, CacheMiss, Completes, Recv,
                        RecvRaises
    <3>3. CASE Fragment(c)
      <4>1. /\ client_request_dict'[c] = Parsed(c).m /\ Parsed(c).m # None
            /\ io_to_send'[c] = io_to_send[c] /\ pc' = pc /\ Chunk(c) # <<>>
        <5>1. Parsed(c).m \in Message
          BY ParsedType DEF IsResult
        <5> QED
          BY <3>3, <5>1, Assumptions DEF Fragment, Keep, Typed, TypeOK
      <4>2. ClientRequest(c)' = Parsed(c).m
        BY <4>1 DEF ClientRequest
      <4>3. Begins(c)' = Begins(c) /\ Arrived(c)' = Arrived(c)
        BY <2>1 DEF Begins, Arrived
      <4>4. PICK y \in Bytes : /\ y \o inbox'[c] = Begins(c)
                               /\ Holds(Parsed(c).m, y)
                               /\ IsCut(Script[c], Arrived(c), Len(y))
        BY <3>1, <4>1
      <4>5. HasRead(c, Begins(c), Arrived(c))'
        BY <4>2, <4>3, <4>4 DEF HasRead
      <4>6. ~ BusyWith(c)'
        BY <2>1, <4>1 DEF BusyWith, Busy
      <4> QED
        BY <2>1, <2>8, <4>1, <4>5, <4>6 DEF Quiet, Phase
    <3> QED
      BY <2>6, <2>7, <3>2, <3>3
  <2>9. CASE Prepared(c)
    <3>1. inbox[c] = <<>> /\ Fresh(ClientRequest(c))
      BY <2>9, NoneIsFresh DEF Prepared, IsRead
    <3>2. Chunk(c) = <<>>
      <4>1. Len(<<>>) <= BUFFER
        BY Assumptions
      <4> QED
        BY <3>1, <4>1, ChunkIsAll
    <3>3. ~ Parsed(c).raised
      BY <3>1, <3>2, Constants, FreshReads, NothingRead DEF Parsed
    <3>4. ClientGone(c)
      BY <1>2, <3>1, <3>2, <3>3 DEF DealWithClient, Reject, Fragment, CacheHit, CacheMiss,
                             Completes, RecvRaises, Recv
    <3> QED
      BY <2>6, <2>7, <3>4
  <2>10. CASE Asking(c) /\ inbox'[c] = <<>>
    <3>1. /\ Chunk(c) # <<>> /\ Begins(c)' = <<>>
          /\ Parsed(c).raised =>
               Wants(c).uri = <<>> /\ Wants(c).keep /\ Fresh(Parsed(c).m)
          /\ ~ Parsed(c).raised =>
               /\ Parsed(c).m.parser_state = "END"
               /\ Parsed(c).m.uri = Wants(c).uri /\ Wants(c).uri \in Uri
               /\ Wants(c).gzip = AllowGzip(Parsed(c).m)
               /\ Wants(c).keep = ShouldKeepAlive(Parsed(c).m)
      <4>1. Begins(c)' = Begins(c)
        BY <2>1 DEF Begins, Arrived
      <4> QED
        BY <2>1, <2>10, <4>1, AskIsRead
    <3>2. IsRead(c)' /\ Wants(c)' = Wants(c)
      BY <2>1, <2>10, <3>1 DEF IsRead, Owed, Asking, Wants
    <3>3. Parsed(c).m \in Message
      BY ParsedType DEF IsResult
    <3>4. CASE Reject(c)
      <4>1. /\ pc' = "reject" /\ job' = JobOf(c, Parsed(c).m)
            /\ client_request_dict'[c] = Parsed(c).m
            /\ io_to_send' = io_to_send /\ Parsed(c).raised
        BY <3>4 DEF Reject, Keep, Typed, TypeOK
      <4>2. BusyWith(c)' /\ ClientRequest(c)' = Parsed(c).m
        BY <3>3, <4>1, Assumptions DEF BusyWith, Busy, JobOf, ClientRequest
      <4>3. io_to_send'[c] = None
        BY <2>10, <4>1 DEF Asking
      <4> QED
        BY <3>1, <3>2, <4>1, <4>2, <4>3 DEF InJob, Phase
    <3>5. CASE CacheMiss(c)
      <4>1. /\ pc' = "connect" /\ job' = JobOf(c, Parsed(c).m)
            /\ io_to_send' = io_to_send /\ ~ Parsed(c).raised
        BY <3>5 DEF CacheMiss, Completes
      <4>2. BusyWith(c)' /\ job'.request = Parsed(c).m
        BY <4>1 DEF BusyWith, Busy, JobOf
      <4>3. io_to_send'[c] = None
        BY <2>10, <4>1 DEF Asking
      <4> QED
        BY <3>1, <3>2, <4>1, <4>2, <4>3 DEF InJob, Phase
    <3>6. CASE CacheHit(c)
      <4> DEFINE r == cache[Parsed(c).m.uri].response
                 k == ShouldKeepAlive(Parsed(c).m)
                 e == [response |-> r, keep |-> k]
      <4>1. /\ pc' = "loop" /\ io_to_send'[c] = e
            /\ client_request_dict'[c] = None /\ ~ Parsed(c).raised
        BY <2>1, <3>6 DEF CacheHit, Completes, Typed, TypeOK
      <4>2. e \in Pending
        <5>1. r \in Message
          BY <3>6 DEF CacheHit, IsCached, Typed, TypeOK, Cached
        <5>2. k \in BOOLEAN
          BY DEF ShouldKeepAlive
        <5> HIDE DEF r, k
        <5> QED
          BY <5>1, <5>2 DEF Pending
      <4>3. e.keep = k
        OBVIOUS
      <4> HIDE DEF e
      <4>4. e # None
        BY <4>2, ProxyAssumption
      <4>5. ~ BusyWith(c)'
        BY <4>1 DEF BusyWith, Busy
      <4> QED
        BY <3>1, <3>2, <4>1, <4>3, <4>4, <4>5 DEF Prepared, Phase
    <3>7. Reject(c) \/ CacheMiss(c) \/ CacheHit(c)
      BY <3>1, <1>2 DEF DealWithClient, ClientGone, Fragment, RecvRaises, Recv
    <3> QED
      BY <3>4, <3>5, <3>6, <3>7
  <2>11. CASE Asking(c) /\ inbox'[c] # <<>>
    <3> DEFINE z == Unfinished(Script[c])[Arrived(c) - 1] \o Script[c][Arrived(c)].bytes
    <3>1. /\ ~ Parsed(c).raised /\ Chunk(c) # <<>> /\ Parsed(c).m.parser_state # "END"
          /\ \E y \in Bytes : /\ y \o inbox'[c] = z
                             /\ Holds(Parsed(c).m, y)
                             /\ IsCut(Script[c], Arrived(c) - 1, Len(y))
      BY <2>1, <2>11, AskGoesOn
    <3>2. Fragment(c)
      BY <3>1, <1>2 DEF DealWithClient, ClientGone, Reject, CacheHit, CacheMiss, Completes,
                        Recv, RecvRaises
    <3>3. /\ client_request_dict'[c] = Parsed(c).m /\ Parsed(c).m # None
          /\ io_to_send'[c] = io_to_send[c] /\ pc' = pc
      <4>1. Parsed(c).m \in Message
        BY ParsedType DEF IsResult
      <4> QED
        BY <3>2, <4>1, Assumptions DEF Fragment, Keep, Typed, TypeOK
    <3>4. ClientRequest(c)' = Parsed(c).m /\ Arrived(c)' = Arrived(c)
      BY <2>1, <3>3 DEF ClientRequest, Arrived
    <3>5. Owed(c)' /\ Wants(c)' = Wants(c) /\ ~ BusyWith(c)'
      BY <2>1, <2>11, <3>3 DEF Owed, Asking, Wants, BusyWith, Busy
    <3>6. HasRead(c, z, Arrived(c) - 1)'
      BY <3>1, <3>4 DEF HasRead
    <3> QED
      BY <2>11, <3>3, <3>4, <3>5, <3>6 DEF Asking, Phase
  <2>12. CASE InJob(c)
    BY <2>2, <2>12 DEF InJob
  <2> QED
    BY <2>1, <2>5, <2>8, <2>9, <2>10, <2>11, <2>12 DEF Phase
<1> QED
  BY <1>1, <1>2 DEF DealWithClient, Reject, ClientGone, Fragment, CacheHit, CacheMiss,
                    Completes

\* What is the same for whatever the proxy does about its job.
LEMMA WorkInTurn ==
  ASSUME Typed, Typed', InTurn, pc \in Busy, NEW c \in Client, c = job.client,
         UNCHANGED <<unsent, inbox, asked, conn, peer>>,
         \A d \in Client : d # c => UNCHANGED <<client_request_dict[d], io_to_send[d],
                                               received[d]>>,
         pc' \notin Busy \/ job'.client = c,
         pc' \notin Raised,
         Phase(c)'
  PROVE  InTurn'
<1>1. \A d \in Client : InStep(d) /\ Phase(d)
  BY DEF InTurn, IsUp, Raised, Busy
<1>2. \A d \in Client : d # c => ~ BusyWith(d) /\ ~ BusyWith(d)'
  BY DEF BusyWith
<1>3. InStep(c)'
  BY <1>1 DEF InStep, Arrived
<1>4. ASSUME NEW d \in Client, d # c PROVE InStep(d)' /\ Phase(d)'
  BY <1>1, <1>2, <1>4, PhaseStays
<1> QED
  BY <1>3, <1>4, InTurnAgain

LEMMA ErrorInTurn ==
  ASSUME Typed, Typed', InTurn, pc \in Busy, NEW m \in Message, SendError(m),
         \/ pc = "reject" /\ UNCHANGED client_request_dict
         \/ Forget(job.client)
  PROVE  InTurn'
<1>1. CASE ~ CanSend(job.client, m)
  BY <1>1, EndedInTurn DEF SendError, Raised
<1>2. CASE CanSend(job.client, m)
  <2>0. PICK c \in Client : c = job.client
    BY DEF Typed, JobOK, Job, Busy
  <2>1. /\ received' = [received EXCEPT ![c] = Append(@, m)]
        /\ pc' = "loop"
        /\ UNCHANGED <<unsent, inbox, asked, conn, peer, io_to_send>>
    BY <1>2, <2>0 DEF SendError, Delivered
  <2>2. /\ conn[c] = "open" /\ peer[c] # "reset" /\ InStep(c) /\ Phase(c) /\ BusyWith(c)
    BY <1>2, <2>0 DEF CanSend, InTurn, IsUp, Raised, Busy, BusyWith
  <2>3. InJob(c)
    BY <2>2 DEF Phase, Over, Quiet, Asking, Prepared
  <2>4. Len(received'[c]) = Len(received[c]) + 1
    <3>1. received[c] \in Seq(Message) /\ received'[c] = Append(received[c], m)
      BY <2>1 DEF Typed, TypeOK
    <3> QED
      BY <3>1
  <2>5. \A d \in Client : d # c => UNCHANGED <<client_request_dict[d], io_to_send[d],
                                              received[d]>>
    BY <2>0, <2>1 DEF Forget, Typed, TypeOK
  <2>6. Fresh(ClientRequest(c)')
    <3>1. CASE pc = "reject" /\ UNCHANGED client_request_dict
      <4>1. ClientRequest(c)' = ClientRequest(c)
        BY <3>1 DEF ClientRequest
      <4> QED
        BY <2>3, <3>1, <4>1 DEF InJob
    <3>2. CASE Forget(job.client)
      <4>1. client_request_dict'[c] = None
        BY <2>0, <3>2 DEF Forget, Typed, TypeOK
      <4> QED
        BY <4>1, NoneIsFreshNext
    <3> QED
      BY <3>1, <3>2
  <2>7. pc' \notin Busy /\ pc' \notin Raised /\ ~ BusyWith(c)'
    BY <2>1 DEF Busy, Raised, BusyWith
  <2>8. Phase(c)'
    BY <2>1, <2>2, <2>3, <2>4, <2>6, <2>7, QuietAgain DEF InJob
  <2> QED
    BY <2>0, <2>1, <2>5, <2>7, <2>8, WorkInTurn
<1> QED
  BY <1>1, <1>2

LEMMA UpstreamInTurn ==
  ASSUME Typed, Typed', InTurn,
         \/ ConnectUpstream \/ Forward \/ ForwardFails
         \/ RecvUpstream \/ RecvUpstreamRaises \/ Answer
  PROVE  InTurn'
<1>1. pc \in Busy /\ pc \in {"connect", "forward", "await"}
  BY DEF ConnectUpstream, Forward, ForwardFails, RecvUpstream, RecvUpstreamRaises, Answer,
         Busy
<1>2. PICK c \in Client : c = job.client
  BY <1>1 DEF Typed, JobOK, Job
<1>3. job \in Job /\ Phase(c) /\ BusyWith(c)
  BY <1>1, <1>2 DEF Typed, JobOK, InTurn, IsUp, Raised, BusyWith, Busy
<1>4. Over(c) \/ InJob(c)
  BY <1>3 DEF Phase, Quiet, Asking, Prepared
<1>5. CASE pc' \in Raised /\ ~ ForwardFails
  <2>1. UNCHANGED <<received, asked>>
    BY <1>5 DEF ConnectUpstream, Forward, RecvUpstream, RecvUpstreamRaises, Answer, history
  <2> QED
    BY <1>5, <2>1, EndedInTurn
<1>6. CASE ForwardFails
  BY <1>1, <1>6, ErrorsType, ErrorInTurn DEF ForwardFails
<1>7. CASE ConnectUpstream /\ pc' \notin Raised
  <2>1. /\ pc = "connect" /\ pc' = "forward"
        /\ UNCHANGED <<job, unsent, inbox, asked, conn, peer, client_request_dict,
                       io_to_send, received>>
    BY <1>7 DEF ConnectUpstream, tables, sockets, history, Raised
  <2>2. Phase(c)'
    <3>1. CASE Over(c)
      BY <2>1, <3>1 DEF Over, Phase
    <3>2. CASE InJob(c)
      <4>1. IsRead(c)' /\ Wants(c)' = Wants(c) /\ BusyWith(c)'
        BY <1>3, <2>1, <3>2 DEF InJob, IsRead, Owed, Begins, Arrived, Wants, BusyWith, Busy
      <4> QED
        BY <2>1, <3>2, <4>1 DEF InJob, Phase
    <3> QED
      BY <1>4, <3>1, <3>2
  <2> QED
    BY <1>1, <1>2, <1>7, <2>1, <2>2, WorkInTurn
<1>8. CASE Forward
  <2>1. /\ pc = "forward" /\ pc' = "await"
        /\ job'.client = c /\ job'.request = job.request
        /\ client_request_dict'[c] = None
        /\ \A d \in Client : d # c => client_request_dict'[d] = client_request_dict[d]
        /\ UNCHANGED <<unsent, inbox, asked, conn, peer, io_to_send, received>>
    BY <1>2, <1>3, <1>8 DEF Forward, Forget, sockets, history, Job, Typed, TypeOK
  <2>2. Phase(c)'
    <3>1. CASE Over(c)
      BY <2>1, <3>1 DEF Over, Phase
    <3>2. CASE InJob(c)
      <4>1. IsRead(c)' /\ Wants(c)' = Wants(c) /\ BusyWith(c)'
        BY <2>1, <3>2 DEF InJob, IsRead, Owed, Begins, Arrived, Wants, BusyWith, Busy
      <4> QED
        BY <2>1, <3>2, <4>1 DEF InJob, Phase
    <3> QED
      BY <1>4, <3>1, <3>2
  <2>3. pc' \notin Raised
    BY <2>1 DEF Raised
  <2> QED
    BY <1>1, <1>2, <2>1, <2>2, <2>3, WorkInTurn
<1>9. CASE RecvUpstream /\ pc' \notin Raised
  <2>1. /\ pc = "await"
        /\ UNCHANGED <<unsent, inbox, asked, conn, peer, client_request_dict,
                       io_to_send, received>>
    BY <1>9 DEF RecvUpstream, tables, sockets, history
  <2>2. PICK q \in ChunkEnds :
          LET r == Parse(job.response, SubSeq(job.reply, job.got + 1, q))
          IN  /\ job' = [job EXCEPT !.response = r.m, !.got = q]
              /\ pc' = IF r.raised THEN "parse raised" ELSE pc
    BY <1>9 DEF RecvUpstream
  <2>3. pc' = pc
    BY <1>9, <2>2 DEF Raised
  <2> DEFINE m == Parse(job.response, SubSeq(job.reply, job.got + 1, q)).m
  <2>4. job' = [job EXCEPT !.response = m, !.got = q]
    BY <2>2
  <2> HIDE DEF m
  <2>5. job'.client = c /\ job'.request = job.request
    BY <1>2, <1>3, <2>4 DEF Job
  <2>6. Phase(c)'
    <3>1. CASE Over(c)
      BY <2>1, <3>1 DEF Over, Phase
    <3>2. CASE InJob(c)
      <4>1. IsRead(c)' /\ Wants(c)' = Wants(c) /\ BusyWith(c)'
        BY <1>3, <2>1, <2>3, <2>5, <3>2
        DEF InJob, IsRead, Owed, Begins, Arrived, Wants, BusyWith, Busy
      <4> QED
        BY <2>1, <2>3, <2>5, <3>2, <4>1 DEF InJob, Phase
    <3> QED
      BY <1>4, <3>1, <3>2
  <2> QED
    BY <1>1, <1>2, <1>9, <2>1, <2>5, <2>6, WorkInTurn
<1>10. CASE RecvUpstreamRaises
  BY <1>5, <1>10 DEF RecvUpstreamRaises, Raised, ForwardFails
<1>11. CASE Answer
  <2> DEFINE e == [response |-> AddHeader(IF AllowGzip(job.request)
                                          THEN CompressResponseGzip(job.response)
                                          ELSE job.response,
                                          <<"Cache-Control">>, <<"max-age">>),
                   keep |-> ShouldKeepAlive(job.request)]
  <2>1. /\ pc = "await" /\ pc' = "loop"
        /\ io_to_send' = [io_to_send EXCEPT ![c] = e]
        /\ UNCHANGED <<unsent, inbox, asked, conn, peer, client_request_dict, received>>
    BY <1>2, <1>11 DEF Answer, sockets, history
  <2>2. e.keep = ShouldKeepAlive(job.request)
    OBVIOUS
  <2> HIDE DEF e
  <2>3. io_to_send'[c] = e /\ \A d \in Client : d # c => io_to_send'[d] = io_to_send[d]
    BY <2>1 DEF Typed, TypeOK
  <2>4. e # None
    <3>1. e = [response |-> e.response, keep |-> e.keep]
      BY DEF e
    <3>2. e \in Pending \cup {None}
      BY <2>3 DEF Typed, TypeOK
    <3>3. e.response \in Message
      <4>1. <<"Cache-Control">> \in Bytes /\ <<"max-age">> \in Bytes
        BY WordAssumption DEF Bytes, Byte
      <4>2. e.response = AddHeader(IF AllowGzip(job.request)
                                   THEN CompressResponseGzip(job.response)
                                   ELSE job.response,
                                   <<"Cache-Control">>, <<"max-age">>)
        BY DEF e
      <4> QED
        BY <1>3, <4>1, <4>2, CompressedType, AddHeaderType DEF Job
    <3>4. e.keep \in BOOLEAN
      BY <2>2 DEF ShouldKeepAlive
    <3>5. e \in Pending
      BY <3>1, <3>3, <3>4 DEF Pending
    <3> QED
      BY <3>5, ProxyAssumption
  <2>5. pc' \notin Busy /\ pc' \notin Raised /\ ~ BusyWith(c)'
    BY <2>1 DEF Busy, Raised, BusyWith
  <2>6. Phase(c)'
    <3>1. CASE Over(c)
      BY <2>1, <3>1 DEF Over, Phase
    <3>2. CASE InJob(c)
      <4>1. IsRead(c)' /\ Wants(c)' = Wants(c)
        BY <2>1, <3>2 DEF InJob, IsRead, Owed, Begins, Arrived, Wants
      <4> QED
        BY <2>1, <2>2, <2>3, <2>4, <2>5, <3>2, <4>1 DEF InJob, Prepared, Phase
    <3> QED
      BY <1>4, <3>1, <3>2
  <2> QED
    BY <1>1, <1>2, <2>1, <2>3, <2>5, <2>6, WorkInTurn
<1> QED
  BY <1>5, <1>6, <1>7, <1>8, <1>9, <1>10, <1>11

LEMMA InTurnStep ==
  ASSUME AskOneAtATime, Typed, Typed', InTurn, [Next]_vars
  PROVE  InTurn'
<1>1. ASSUME UNCHANGED <<unsent, inbox, client_request_dict, io_to_send, asked, received>>,
             UNCHANGED <<pc, job>>,
             \A d \in Client : conn[d] = "closed" => conn'[d] = "closed",
             \A d \in Client : peer[d] = "reset" => peer'[d] = "reset"
      PROVE  InTurn'
  <2>1. CASE IsUp
    BY <1>1, <2>1, PhaseStays, InTurnAgain DEF InTurn
  <2>2. CASE ~ IsUp
    BY <1>1, <2>2, EndedInTurn DEF IsUp
  <2> QED
    BY <2>1, <2>2
<1>2. ASSUME NEW c \in Client, Reset(c) PROVE InTurn'
  <2>1. /\ UNCHANGED <<unsent, client_request_dict, io_to_send, asked, received, conn,
                       pc, job>>
        /\ peer'[c] = "reset" /\ IsUp
        /\ \A d \in Client : d # c => UNCHANGED <<inbox[d], peer[d]>>
    BY <1>2 DEF Reset, loop, tables, history, Typed, TypeOK
  <2>2. InStep(c)'
    BY <2>1 DEF InTurn, InStep, Arrived
  <2>3. Phase(c)'
    BY <2>1 DEF InTurn, NoExtraAnswers, Over, Phase
  <2>4. ASSUME NEW d \in Client, d # c PROVE InStep(d)' /\ Phase(d)'
    BY <2>1, <2>4, PhaseStays DEF InTurn
  <2> QED
    BY <2>2, <2>3, <2>4, InTurnAgain
<1>3. CASE Surroundings
  <2>1. ASSUME NEW c \in Client, Connect(c) \/ HalfClose(c) \/ Drain(c) PROVE InTurn'
    BY <1>1, <2>1 DEF Connect, HalfClose, Drain, loop, tables, sockets, history, Typed, TypeOK
  <2>2. CASE Tick
    BY <1>1, <2>2 DEF Tick, loop, tables, sockets, history
  <2> QED
    BY <1>2, <1>3, <2>1, <2>2, ArriveInTurn DEF Surroundings
<1>4. CASE Select
  BY <1>1, <1>4 DEF Select, tables, sockets, history
<1>5. CASE Accept
  <2>1. \A d \in Client : conn[d] = "closed" => conn'[d] = "closed"
    BY <1>5 DEF Accept, Waiting, Typed, TypeOK
  <2>2. UNCHANGED <<pc, job, peer, unsent, inbox, client_request_dict, io_to_send, asked,
                    received>>
    BY <1>5 DEF Accept, tables, history
  <2> QED
    BY <1>1, <2>1, <2>2
<1>6. CASE SendBadRequest
  BY <1>6, ErrorsType, ErrorInTurn DEF SendBadRequest, Busy
<1>7. CASE UNCHANGED vars
  BY <1>1, <1>7 DEF vars, loop, tables, sockets, history
<1> QED
  BY <1>3, <1>4, <1>5, <1>6, <1>7, SendInTurn, DealInTurn, UpstreamInTurn DEF Next, Proxy

LEMMA AlwaysInTurn ==
  ASSUME AskOneAtATime
  PROVE  Spec => [](Typed /\ InTurn)
<1>1. Init => InTurn
  <2> SUFFICES ASSUME Init PROVE InTurn
    OBVIOUS
  <2>1. NoExtraAnswers
    BY DEF Init, NoExtraAnswers
  <2>2. ASSUME NEW c \in Client PROVE InStep(c) /\ Quiet(c)
    <3>1. Script[c] \in Seq(Segment) /\ unsent[c] = Script[c] /\ Len(Script[c]) \in Nat
      BY Assumptions DEF Init
    <3>2. Arrived(c) = 0
      BY <3>1 DEF Arrived
    <3>3. Begins(c) = <<>>
      BY <3>1, <3>2, UnfinishedIs DEF Begins
    <3>4. InStep(c)
      BY <3>1, <3>2 DEF InStep
    <3>5. Holds(ClientRequest(c), <<>>)
      BY NoneIsFresh DEF Init, Holds
    <3>6. <<>> \o inbox[c] = <<>>
      BY Constants, ConcatEmptySeq DEF Init, Bytes
    <3>7. HasRead(c, Begins(c), Arrived(c))
      <4>1. IsCut(Script[c], Arrived(c), Len(<<>>))
        <5>1. 0 \in 0 .. Len(Script[c]) /\ Unfinished(Script[c])[0] = <<>>
          BY <3>1, UnfinishedIs
        <5> QED
          BY <3>1, <3>2, <5>1, HereIsCut
      <4> QED
        BY <3>3, <3>5, <3>6, <4>1, Constants DEF HasRead
    <3> QED
      BY <3>4, <3>7 DEF Init, Quiet, BusyWith, Busy
  <2> QED
    BY <2>1, <2>2 DEF InTurn, Phase
<1>2. Typed /\ Typed' /\ InTurn /\ [Next]_vars => InTurn'
  BY InTurnStep
<1> QED
  BY <1>1, <1>2, InitTyped, StepTyped, PTL DEF Spec

\* Clients that ask one thing at a time get no more answers than they asked
\* for, whatever breaks and in whatever pieces requests arrive, unless a cut
\* makes parse() read a line twice: none is taken for two, and none is answered
\* a second time (reverse_proxy.py, lines 76-158).
THEOREM AnswersCorrect ==
  ASSUME AskOneAtATime
  PROVE  Spec => []NoExtraAnswers
<1>1. InTurn => NoExtraAnswers
  BY DEF InTurn
<1> QED
  BY <1>1, AlwaysInTurn, PTL

\* An answer leaves its connection as the request wanted it, if "wanted" is
\* what should_keep_alive() makes of it, unless the upstream server cannot be
\* sent the request (reverse_proxy.py, lines 131 and 176).
THEOREM KeptCorrect ==
  ASSUME AskOneAtATime, "broken" \notin Faults
  PROVE  Spec => KeptAsAsked
<1>1. ASSUME Typed, Typed', InTurn, [Next]_vars, NEW c \in Client, received'[c] # received[c]
      PROVE  conn'[c] = "open" <=> asked[c][Len(received'[c])].keep
  <2>1. CASE SendResponse(c)
    <3> DEFINE m == io_to_send[c].response
    <3>1. CanSend(c, m) /\ pc = "loop" /\ io_to_send[c] # None
      BY <1>1, <2>1 DEF SendResponse, Writes
    <3>2. /\ conn[c] = "open" /\ peer[c] # "reset" /\ Phase(c)
      BY <1>1, <3>1 DEF CanSend, InTurn, IsUp, Raised
    <3>3. Prepared(c)
      BY <3>1, <3>2 DEF Phase, Over, Quiet, Asking, InJob
    <3>4. received'[c] = Append(received[c], m) /\ received[c] \in Seq(Message)
      BY <1>1, <2>1, <3>1 DEF SendResponse, Delivered, Typed, TypeOK
    <3> HIDE DEF m
    <3>5. Len(received'[c]) = Len(received[c]) + 1
      BY <3>4
    <3>6. asked[c][Len(received'[c])].keep = io_to_send[c].keep
      BY <3>3, <3>5 DEF Prepared, IsRead, Owed, Wants
    <3>7. IF io_to_send[c].keep THEN conn' = conn ELSE Clean(c)
      BY <2>1, <3>1 DEF SendResponse, m
    <3>8. io_to_send[c].keep \in BOOLEAN
      BY <1>1, <3>1 DEF Typed, TypeOK, Pending
    <3> QED
      BY <1>1, <3>2, <3>6, <3>7, <3>8 DEF Clean, Typed, TypeOK
  <2>2. CASE SendBadRequest
    <3>1. pc = "reject" /\ job.client \in Client /\ SendError(BAD_REQUEST_MSG)
      BY <1>1, <2>2 DEF SendBadRequest, Typed, JobOK, Job
    <3>2. CanSend(job.client, BAD_REQUEST_MSG)
      BY <1>1, <3>1 DEF SendError
    <3>3. received' = [received EXCEPT ![job.client] = Append(@, BAD_REQUEST_MSG)]
          /\ conn' = conn
      BY <3>1, <3>2 DEF SendError, Delivered
    <3>4. c = job.client
      BY <1>1, <3>1, <3>3 DEF Typed, TypeOK
    <3>5. conn[c] = "open" /\ peer[c] # "reset" /\ Phase(c) /\ BusyWith(c)
      BY <1>1, <3>1, <3>2, <3>4 DEF CanSend, InTurn, IsUp, Raised, Busy, BusyWith
    <3>6. InJob(c)
      BY <3>5 DEF Phase, Over, Quiet, Asking, Prepared
    <3>7. Len(received'[c]) = Len(received[c]) + 1
      <4>1. received[c] \in Seq(Message) /\ received'[c] = Append(received[c], BAD_REQUEST_MSG)
        BY <1>1, <3>3, <3>4 DEF Typed, TypeOK
      <4> QED
        BY <4>1
    <3> QED
      BY <3>1, <3>3, <3>5, <3>6, <3>7 DEF InJob, IsRead, Owed, Wants
  <2>3. \/ SendResponse(c) \/ SendBadRequest
    <3>1. ASSUME NEW d \in Client, SendResponse(d), d # c PROVE FALSE
      BY <1>1, <3>1 DEF SendResponse, Delivered, Typed, TypeOK
    <3>2. ~ Surroundings
      BY <1>1 DEF Surroundings, Connect, Arrive, HalfClose, Reset, Drain, Tick, history
    <3>3. ~ (Select \/ Accept \/ ConnectUpstream \/ Forward \/ RecvUpstream
             \/ RecvUpstreamRaises \/ Answer)
      BY <1>1 DEF Select, Accept, ConnectUpstream, Forward, RecvUpstream,
                  RecvUpstreamRaises, Answer, history
    <3>4. ~ ForwardFails
      BY DEF ForwardFails
    <3>5. \A d \in Client : ~ DealWithClient(d)
      BY <1>1 DEF DealWithClient, RecvRaises, Reject, ClientGone, Fragment, CacheHit,
                  CacheMiss, Completes, Recv, history
    <3>6. ~ UNCHANGED vars
      BY <1>1 DEF vars, history
    <3> QED
      BY <1>1, <3>1, <3>2, <3>3, <3>4, <3>5, <3>6 DEF Next, Proxy
  <2> QED
    BY <2>1, <2>2, <2>3
<1>2. Typed /\ Typed' /\ InTurn /\ [Next]_vars =>
        [\A c \in Client : received'[c] # received[c] =>
           (conn'[c] = "open" <=> asked[c][Len(received'[c])].keep)]_vars
  BY <1>1
<1> QED
  BY <1>2, AlwaysInTurn, PTL DEF Spec, KeptAsAsked

-----------------------------------------------------------------------------
(* The proxy implements its service.                                        *)

\* A page tells when it was made.
StampsTell == \A s, t \in 0 .. MaxTime : Stamp[s] = Stamp[t] => s = t

\* a response that carries the page of uri as it was made at t
IsFrom(m, uri, t) ==
  /\ m.status_code \in {<<"200">>, <<"404">>}
  /\ Carries(m, Page(uri, t))

\* The last word of a page is its stamp.
LEMMA CarriedStamp ==
  ASSUME NEW m \in Message, NEW uri, NEW t \in 0 .. MaxTime,
         Carries(m, Page(uri, t))
  PROVE  m.body[Len(m.body)] = Stamp[t]
<1> DEFINE page == Page(uri, t)
           name == Name(uri)
           stamp == <<Stamp[t]>>
<1>1. PICK zip \in {<<>>, <<"<gzip>">>} : m.body = zip \o page
  BY DEF Carries
<1>2. zip \in Bytes
  <2>1. <<"<gzip>">> \in Bytes
    BY WordAssumption DEF Bytes, Byte
  <2> QED
    BY <2>1, Constants
<1>3. stamp \in Bytes /\ Len(stamp) = 1 /\ stamp[1] = Stamp[t] /\ name \in Bytes
      /\ page = name \o stamp
  BY PageType DEF Page
<1> HIDE DEF name, stamp, page
<1>4. page \in Bytes /\ Len(page) = Len(name) + 1 /\ page[Len(name) + 1] = Stamp[t]
      /\ Len(name) \in Nat
  <2> DEFINE p == name \o stamp
  <2>1. p \in Bytes /\ Len(p) = Len(name) + Len(stamp) /\ Len(name) \in Nat
        /\ \A k \in 1 .. Len(stamp) : p[Len(name) + k] = stamp[k]
    BY <1>3, ConcatIs
  <2> HIDE DEF p
  <2>2. 1 \in 1 .. Len(stamp)
    BY <1>3
  <2> QED
    BY <1>3, <2>1, <2>2 DEF p
<1>5. /\ Len(zip \o page) = Len(zip) + Len(page)
      /\ (zip \o page)[Len(zip) + Len(page)] = page[Len(page)]
  <2> DEFINE p == zip \o page
  <2>1. Len(p) = Len(zip) + Len(page) /\ Len(page) \in Nat
        /\ \A k \in 1 .. Len(page) : p[Len(zip) + k] = page[k]
    BY <1>2, <1>4, ConcatIs
  <2> HIDE DEF p
  <2>2. Len(page) \in 1 .. Len(page)
    BY <1>4, <2>1
  <2>3. p[Len(zip) + Len(page)] = page[Len(page)]
    BY <2>1, <2>2
  <2> QED
    BY <2>1, <2>3 DEF p
<1> QED
  BY <1>1, <1>4, <1>5

LEMMA AnswerTells ==
  ASSUME StampsTell, NEW m \in Message, NEW uri \in Uri, NEW t \in 0 .. MaxTime,
         IsFrom(m, uri, t)
  PROVE  AsAnswer(m) = [uri |-> uri, made |-> t]
<1>1. IsPage(m) /\ PageUri(m) = uri
  BY CarriedPage DEF IsFrom, IsPage
<1>2. MadeAt(m) = t
  BY CarriedStamp DEF IsFrom, MadeAt, StampsTell
<1> QED
  BY <1>1, <1>2 DEF AsAnswer

LEMMA RefusalTells == AsAnswer(BAD_REQUEST_MSG) = Service!Refusal
<1>1. BAD_REQUEST_MSG.status_code = <<"400">>
  <2>1. NewMessage("RESPONSE") \in Message
    BY NewMessageType DEF MessageType
  <2> QED
    BY <2>1 DEF BAD_REQUEST_MSG, StatusOnly, Message
<1>2. <<"400">> \notin {<<"200">>, <<"404">>}
  OBVIOUS
<1>3. ~ IsPage(BAD_REQUEST_MSG)
  BY <1>1, <1>2 DEF IsPage
<1> QED
  BY <1>3 DEF AsAnswer, Service!Refusal

\* Nothing is older than max-age and the upstream server's delay allow.
Dated ==
  /\ \A u \in Uri : cache[u] # None =>
       \E t \in 0 .. now : /\ IsFrom(cache[u].response, u, t)
                           /\ cache[u].expire <= t + (MAX_AGE + UPSTREAM_DELAY)
  /\ pc = "await" => /\ job.since \in 0 .. now
                     /\ now <= job.since + UPSTREAM_DELAY
                     /\ job.reply = Reply(job.request.uri, job.since)
  /\ \A c \in Client : io_to_send[c] # None =>
       AsAnswer(io_to_send[c].response) \in Answers

LEMMA ForwardIs ==
  ASSUME Typed, JobInOrder, Forward
  PROVE  /\ job'.request = job.request
         /\ job'.reply = Reply(job.request.uri, now)
         /\ job'.since = now
<1> DEFINE request == job.request
           reply == UpstreamReply(ToBytes(request), now)
<1>1. job \in Job /\ request \in Message
  BY DEF Forward, Typed, JobOK, Job
<1>2. Requested(request) /\ request.parser_state = "END"
  BY DEF Forward, JobInOrder
<1>3. now \in 0 .. MaxTime
  BY DEF Typed, TypeOK
<1>4. reply = Reply(request.uri, now)
  BY <1>1, <1>2, <1>3, ReplyIs, AsksForTheSame
<1> HIDE DEF request, reply
<1>5. job'.request = request /\ job'.reply = reply /\ job'.since = now
  BY <1>1 DEF Forward, Job, request, reply
<1> QED
  BY <1>4, <1>5 DEF request

\* What becomes of a request that the upstream server has answered.
LEMMA AnswerDated ==
  ASSUME "truncated" \notin Faults, Typed, JobInOrder, Dated, Answer
  PROVE  \E m \in Message :
           /\ IsFrom(m, job.request.uri, job.since)
           /\ job.since \in 0 .. now /\ now <= job.since + UPSTREAM_DELAY
           /\ cache' \in {cache, [cache EXCEPT ![job.request.uri] =
                                    [response |-> m, expire |-> now + MAX_AGE]]}
           /\ io_to_send' = [io_to_send EXCEPT ![job.client] =
                               [response |-> m, keep |-> ShouldKeepAlive(job.request)]]
<1>1. /\ pc = "await" /\ job.since \in 0 .. now /\ now <= job.since + UPSTREAM_DELAY
      /\ job.reply = Reply(job.request.uri, job.since)
  BY DEF Answer, Dated
<1>2. now \in 0 .. MaxTime /\ MaxTime \in Nat
  BY Assumptions DEF Typed, TypeOK
<1>3. job.since \in 0 .. MaxTime
  BY <1>1, <1>2
<1>4. PICK m \in Message :
        /\ m.status_code = <<Status(job.request.uri)>>
        /\ Carries(m, Page(job.request.uri, job.since))
        /\ cache' = MaybeCache(job.request, m)
        /\ io_to_send' = [io_to_send EXCEPT ![job.client] =
                            [response |-> m, keep |-> ShouldKeepAlive(job.request)]]
  BY <1>1, <1>3, AnswerOf
<1>5. IsFrom(m, job.request.uri, job.since)
  BY <1>4 DEF IsFrom, Status
<1> QED
  BY <1>1, <1>4, <1>5 DEF MaybeCache

LEMMA JobOfOpen ==
  ASSUME Typed, SentInPass, Unharmed, InTurn, pc \in Busy
  PROVE  job.client \in Client /\ conn[job.client] = "open" /\ InJob(job.client)
<1> DEFINE c == job.client
<1>1. c \in Client
  BY DEF Typed, JobOK, Job, Busy
<1>2. conn[c] = "open"
  BY <1>1 DEF SentInPass, Due, Open, Busy
<1>3. Phase(c) /\ BusyWith(c)
  BY <1>1 DEF InTurn, Unharmed, BusyWith
<1>4. ~ Over(c)
  BY <1>1, <1>2 DEF Over, Unharmed
<1> QED
  BY <1>1, <1>2, <1>3, <1>4 DEF Phase, Quiet, Asking, Prepared

\* A client whose socket is readable has not got an answer waiting.
LEMMA ReadIsOpen ==
  ASSUME Live, SentInPass, Unharmed, InTurn, NEW c \in Client, pc = "loop", c \in readable
  PROVE  /\ conn[c] = "open" /\ io_to_send[c] = None
         /\ InStep(c) /\ (Quiet(c) \/ Asking(c))
<1>1. conn[c] = "open"
  BY Assumptions DEF Live, WatchListsConsistent, Open
<1>2. io_to_send[c] = None
  BY DEF SentInPass, Due
<1>3. Phase(c) /\ InStep(c)
  BY DEF InTurn, Unharmed
<1>4. ~ Over(c)
  BY <1>1 DEF Over, Unharmed
<1> QED
  BY <1>1, <1>2, <1>3, <1>4 DEF Phase, InJob, Prepared, BusyWith, Busy

LEMMA HitIs ==
  ASSUME AskOneAtATime, StampsTell, Live, SentInPass, Unharmed, InTurn, Dated,
         NEW c \in Client, CacheHit(c)
  PROVE  /\ conn[c] = "open" /\ Owed(c) /\ io_to_send[c] = None
         /\ \E e \in Pending : \E t \in 0 .. now :
              /\ now - t <= MAX_AGE + UPSTREAM_DELAY
              /\ io_to_send' = [io_to_send EXCEPT ![c] = e]
              /\ AsAnswer(e.response) = [uri |-> Wants(c).uri, made |-> t]
         /\ Wants(c).uri \in Uri
<1> DEFINE uri == Parsed(c).m.uri
           r == cache[uri].response
           k == ShouldKeepAlive(Parsed(c).m)
           e == [response |-> r, keep |-> k]
<1> USE DEF Live
<1>1. /\ pc = "loop" /\ c \in readable
      /\ ~ Parsed(c).raised /\ Chunk(c) # <<>> /\ Parsed(c).m.parser_state = "END"
      /\ uri \in Uri /\ cache[uri] # None /\ now <= cache[uri].expire
      /\ io_to_send' = [io_to_send EXCEPT ![c] = e]
  BY DEF CacheHit, Completes, IsCached, Recv
<1>2. /\ conn[c] = "open" /\ io_to_send[c] = None
      /\ InStep(c) /\ (Quiet(c) \/ Asking(c))
  BY <1>1, ReadIsOpen
<1>3. Asking(c)
  BY <1>1, <1>2, QuietIsRead
<1>4. Wants(c).uri = uri /\ Owed(c)
  BY <1>1, <1>2, <1>3, AskIsDone DEF Asking
<1>5. PICK t \in 0 .. now : /\ IsFrom(r, uri, t)
                            /\ cache[uri].expire <= t + (MAX_AGE + UPSTREAM_DELAY)
  BY <1>1 DEF Dated
<1>6. /\ r \in Message /\ cache[uri].expire \in Nat /\ k \in BOOLEAN
      /\ now \in 0 .. MaxTime
  BY <1>1 DEF Typed, TypeOK, Cached, ShouldKeepAlive
<1>7. /\ MaxTime \in Nat /\ MAX_AGE \in Nat /\ UPSTREAM_DELAY \in Nat
  BY ProxyAssumption
<1>8. t \in 0 .. MaxTime /\ now - t <= MAX_AGE + UPSTREAM_DELAY
  <2> DEFINE x == cache[uri].expire
             most == MAX_AGE + UPSTREAM_DELAY
  <2>1. x \in Nat /\ most \in Nat /\ now <= x /\ x <= t + most /\ t \in 0 .. now
    BY <1>1, <1>5, <1>6, <1>7
  <2> HIDE DEF x, most
  <2>2. now - t <= most /\ t \in 0 .. MaxTime
    BY <1>6, <1>7, <2>1
  <2> QED
    BY <2>2 DEF most
<1>9. AsAnswer(r) = [uri |-> uri, made |-> t]
  BY <1>1, <1>5, <1>6, <1>8, AnswerTells
<1> HIDE DEF uri, r, k
<1>10. e \in Pending /\ e.response = r
  BY <1>6 DEF Pending
<1> HIDE DEF e
<1> QED
  BY <1>1, <1>2, <1>4, <1>8, <1>9, <1>10

LEMMA AnsweredIs ==
  ASSUME AskOneAtATime, StampsTell, "truncated" \notin Faults,
         Typed, JobInOrder, SentInPass, Unharmed, InTurn, Dated, Answer
  PROVE  LET c == job.client
         IN  /\ c \in Client /\ conn[c] = "open" /\ Owed(c) /\ io_to_send[c] = None
             /\ \E m \in Message : \E t \in 0 .. now :
                  /\ now - t <= UPSTREAM_DELAY
                  /\ io_to_send' = [io_to_send EXCEPT ![c] =
                       [response |-> m, keep |-> ShouldKeepAlive(job.request)]]
                  /\ AsAnswer(m) = [uri |-> Wants(c).uri, made |-> t]
                  /\ IsFrom(m, job.request.uri, t)
                  /\ cache' \in {cache, [cache EXCEPT ![job.request.uri] =
                                           [response |-> m, expire |-> now + MAX_AGE]]}
             /\ Wants(c).uri \in Uri
             /\ job.request.uri = Wants(c).uri
<1> DEFINE c == job.client
           t == job.since
<1>1. c \in Client /\ conn[c] = "open" /\ InJob(c) /\ pc = "await"
  BY JobOfOpen DEF Answer, Busy
<1>2. /\ Owed(c) /\ io_to_send[c] = None
      /\ Wants(c).uri = job.request.uri /\ Wants(c).uri \in Uri
  BY <1>1 DEF InJob, IsRead
<1>3. PICK m \in Message :
        /\ IsFrom(m, job.request.uri, t)
        /\ t \in 0 .. now /\ now <= t + UPSTREAM_DELAY
        /\ cache' \in {cache, [cache EXCEPT ![job.request.uri] =
                                 [response |-> m, expire |-> now + MAX_AGE]]}
        /\ io_to_send' = [io_to_send EXCEPT ![c] =
                            [response |-> m, keep |-> ShouldKeepAlive(job.request)]]
  BY AnswerDated
<1> HIDE DEF t
<1>4. now \in 0 .. MaxTime /\ MaxTime \in Nat /\ UPSTREAM_DELAY \in Nat
  BY ProxyAssumption DEF Typed, TypeOK
<1>5. t \in 0 .. MaxTime /\ now - t <= UPSTREAM_DELAY
  BY <1>3, <1>4
<1>6. AsAnswer(m) = [uri |-> Wants(c).uri, made |-> t]
  BY <1>2, <1>3, <1>5, AnswerTells
<1> HIDE DEF c
<1>7. /\ c \in Client /\ conn[c] = "open" /\ Owed(c) /\ io_to_send[c] = None
      /\ \E x \in Message : \E y \in 0 .. now :
           /\ now - y <= UPSTREAM_DELAY
           /\ io_to_send' = [io_to_send EXCEPT ![c] =
                [response |-> x, keep |-> ShouldKeepAlive(job.request)]]
           /\ AsAnswer(x) = [uri |-> Wants(c).uri, made |-> y]
           /\ IsFrom(x, job.request.uri, y)
           /\ cache' \in {cache, [cache EXCEPT ![job.request.uri] =
                                    [response |-> x, expire |-> now + MAX_AGE]]}
      /\ Wants(c).uri \in Uri
      /\ job.request.uri = Wants(c).uri
  <2>1. t \in 0 .. now
    BY <1>3
  <2> QED
    BY <1>1, <1>2, <1>3, <1>5, <1>6, <2>1
<1> QED
  BY <1>7 DEF c

LEMMA TellsAnswer ==
  ASSUME NEW uri \in Uri, NEW t \in Nat
  PROVE  [uri |-> uri, made |-> t] \in Answers
<1>1. uri \in Bytes
  <2>1. PICK w \in Word : uri = <<w>>
    BY Assumptions
  <2> QED
    BY <2>1 DEF Bytes, Byte
<1> QED
  BY <1>1 DEF Answers

LEMMA DatedStep ==
  ASSUME AskOneAtATime, StampsTell, "truncated" \notin Faults,
         Live, SentInPass, JobInOrder, Unharmed, InTurn, Dated, [Next]_vars
  PROVE  Dated'
<1> USE DEF Live
<1>0. /\ now \in 0 .. MaxTime /\ MaxTime \in Nat
      /\ UPSTREAM_DELAY \in Nat /\ MAX_AGE \in Nat
  BY ProxyAssumption DEF Typed, TypeOK
<1>1. ASSUME cache' = cache, now' = now, pc' # "await" \/ UNCHANGED <<pc, job>>,
             \A c \in Client : io_to_send'[c] # None =>
               \/ io_to_send'[c] = io_to_send[c]
               \/ AsAnswer(io_to_send'[c].response) \in Answers
      PROVE  Dated'
  <2>1. \A c \in Client : io_to_send'[c] # None =>
          AsAnswer(io_to_send'[c].response) \in Answers
    BY <1>1 DEF Dated
  <2>2. pc' = "await" => /\ job'.since \in 0 .. now'
                         /\ now' <= job'.since + UPSTREAM_DELAY
                         /\ job'.reply = Reply(job'.request.uri, job'.since)
    BY <1>1 DEF Dated
  <2>3. \A u \in Uri : cache'[u] # None =>
          \E t \in 0 .. now' : /\ IsFrom(cache'[u].response, u, t)
                               /\ cache'[u].expire <= t + (MAX_AGE + UPSTREAM_DELAY)
    BY <1>1 DEF Dated
  <2> QED
    BY <2>1, <2>2, <2>3 DEF Dated
<1>2. ASSUME cache' = cache, now' = now, pc' # "await" \/ UNCHANGED <<pc, job>>,
             io_to_send' = io_to_send
      PROVE  Dated'
  BY <1>1, <1>2
<1>3. CASE Tick
  <2>1. /\ now' = now + 1 /\ pc' = pc /\ job' = job /\ cache' = cache
        /\ io_to_send' = io_to_send
        /\ pc = "await" => now < job.since + UPSTREAM_DELAY
    BY <1>3 DEF Tick, loop, tables
  <2>2. \A t \in 0 .. now : t \in 0 .. now'
    BY <1>0, <2>1
  <2>3. \A u \in Uri : cache'[u] # None =>
          \E t \in 0 .. now' : /\ IsFrom(cache'[u].response, u, t)
                               /\ cache'[u].expire <= t + (MAX_AGE + UPSTREAM_DELAY)
    BY <2>1, <2>2 DEF Dated
  <2>4. ASSUME pc' = "await"
        PROVE  /\ job'.since \in 0 .. now'
               /\ now' <= job'.since + UPSTREAM_DELAY
               /\ job'.reply = Reply(job'.request.uri, job'.since)
    <3> DEFINE s == job.since
    <3>1. s \in 0 .. now /\ now < s + UPSTREAM_DELAY
      BY <2>1, <2>4 DEF Dated
    <3> HIDE DEF s
    <3>2. s \in 0 .. now' /\ now' <= s + UPSTREAM_DELAY
      BY <1>0, <2>1, <3>1
    <3> QED
      BY <2>1, <2>4, <3>2 DEF Dated, s
  <2>5. \A c \in Client : io_to_send'[c] # None =>
          AsAnswer(io_to_send'[c].response) \in Answers
    BY <2>1 DEF Dated
  <2> QED
    BY <2>3, <2>4, <2>5 DEF Dated
<1>4. CASE Surroundings /\ ~ Tick
  BY <1>2, <1>4 DEF Surroundings, Connect, Arrive, HalfClose, Reset, Drain, loop, tables
<1>5. CASE Select \/ Accept
  BY <1>2, <1>5 DEF Select, Accept, tables
<1>6. ASSUME NEW c \in Client, SendResponse(c) PROVE Dated'
  <2>1. \A d \in Client : io_to_send'[d] # None => io_to_send'[d] = io_to_send[d]
    BY <1>6 DEF SendResponse, Typed, TypeOK
  <2>2. cache' = cache /\ now' = now /\ pc' # "await"
    BY <1>6 DEF SendResponse
  <2> QED
    BY <1>1, <2>1, <2>2
<1>7. ASSUME NEW c \in Client, DealWithClient(c) PROVE Dated'
  <2>1. CASE CacheHit(c)
    <3>1. PICK e \in Pending, t \in 0 .. now :
            /\ io_to_send' = [io_to_send EXCEPT ![c] = e]
            /\ AsAnswer(e.response) = [uri |-> Wants(c).uri, made |-> t]
      BY <2>1, HitIs
    <3>2. Wants(c).uri \in Uri
      BY <2>1, HitIs
    <3>3. t \in Nat
      BY <1>0
    <3>4. AsAnswer(e.response) \in Answers
      BY <3>1, <3>2, <3>3, TellsAnswer
    <3>5. \A d \in Client : \/ io_to_send'[d] = io_to_send[d]
                            \/ io_to_send'[d] = e
      BY <3>1 DEF Typed, TypeOK
    <3>6. cache' = cache /\ now' = now /\ pc' # "await"
      BY <2>1 DEF CacheHit, Completes, Recv
    <3> QED
      BY <1>1, <3>4, <3>5, <3>6
  <2>2. CASE ~ CacheHit(c)
    BY <1>2, <1>7, <2>2 DEF DealWithClient, RecvRaises, Reject, ClientGone, Fragment,
                            CacheMiss, Completes, Recv
  <2> QED
    BY <2>1, <2>2
<1>8. CASE SendBadRequest \/ ForwardFails
  BY <1>2, <1>8 DEF SendBadRequest, ForwardFails, SendError
<1>9. CASE ConnectUpstream \/ RecvUpstreamRaises
  BY <1>2, <1>9 DEF ConnectUpstream, RecvUpstreamRaises, tables
<1>10. CASE Forward
  <2>1. /\ job'.request = job.request /\ job'.since = now
        /\ job'.reply = Reply(job.request.uri, now)
    BY <1>10, ForwardIs
  <2>2. now \in 0 .. now /\ now <= now + UPSTREAM_DELAY
    BY <1>0
  <2>3. cache' = cache /\ now' = now /\ io_to_send' = io_to_send
    BY <1>10 DEF Forward
  <2> QED
    BY <2>1, <2>2, <2>3 DEF Dated
<1>11. CASE RecvUpstream
  <2>1. PICK q \in ChunkEnds :
          LET r == Parse(job.response, SubSeq(job.reply, job.got + 1, q))
          IN  job' = [job EXCEPT !.response = r.m, !.got = q]
    BY <1>11 DEF RecvUpstream
  <2> DEFINE m == Parse(job.response, SubSeq(job.reply, job.got + 1, q)).m
  <2>2. job' = [job EXCEPT !.response = m, !.got = q]
    BY <2>1
  <2> HIDE DEF m
  <2>3. pc = "await" /\ job \in Job
    BY <1>11 DEF RecvUpstream, Typed, JobOK
  <2>4. job'.request = job.request /\ job'.since = job.since /\ job'.reply = job.reply
    BY <2>2, <2>3 DEF Job
  <2>5. cache' = cache /\ now' = now /\ io_to_send' = io_to_send
    BY <1>11 DEF RecvUpstream, tables
  <2> QED
    BY <2>3, <2>4, <2>5 DEF Dated
<1>12. CASE Answer
  <2> DEFINE c == job.client
             uri == job.request.uri
  <2>1. c \in Client /\ uri \in Uri
    BY <1>12, AnsweredIs
  <2>2. PICK m \in Message, t \in 0 .. now :
          /\ now - t <= UPSTREAM_DELAY
          /\ io_to_send' = [io_to_send EXCEPT ![c] =
               [response |-> m, keep |-> ShouldKeepAlive(job.request)]]
          /\ AsAnswer(m) = [uri |-> uri, made |-> t]
          /\ IsFrom(m, uri, t)
          /\ cache' \in {cache, [cache EXCEPT ![uri] =
                                   [response |-> m, expire |-> now + MAX_AGE]]}
    BY <1>12, AnsweredIs
  <2> HIDE DEF c, uri
  <2>3. t \in Nat /\ now + MAX_AGE <= t + (MAX_AGE + UPSTREAM_DELAY)
    BY <1>0, <2>2
  <2>4. AsAnswer(m) \in Answers
    BY <2>1, <2>2, <2>3, TellsAnswer
  <2> DEFINE e == [response |-> m, keep |-> ShouldKeepAlive(job.request)]
             entry == [response |-> m, expire |-> now + MAX_AGE]
  <2>5. e.response = m /\ entry.response = m /\ entry.expire = now + MAX_AGE
    OBVIOUS
  <2>6. /\ io_to_send' = [io_to_send EXCEPT ![c] = e]
        /\ cache' \in {cache, [cache EXCEPT ![uri] = entry]}
    BY <2>2
  <2> HIDE DEF e, entry
  <2>7. \A d \in Client : io_to_send'[d] # None =>
          AsAnswer(io_to_send'[d].response) \in Answers
    <3>1. \A d \in Client : io_to_send'[d] \in {io_to_send[d], e}
      BY <2>6 DEF Typed, TypeOK
    <3> QED
      BY <2>4, <2>5, <3>1 DEF Dated
  <2>8. ASSUME NEW u \in Uri, cache'[u] # None
        PROVE  \E x \in 0 .. now' : /\ IsFrom(cache'[u].response, u, x)
                                    /\ cache'[u].expire <= x + (MAX_AGE + UPSTREAM_DELAY)
    <3>1. now' = now
      BY <1>12 DEF Answer
    <3>2. CASE cache'[u] = cache[u]
      BY <2>8, <3>1, <3>2 DEF Dated
    <3>3. CASE u = uri /\ cache'[u] = entry
      BY <2>2, <2>3, <2>5, <3>1, <3>3
    <3>4. cache'[u] = cache[u] \/ (u = uri /\ cache'[u] = entry)
      BY <2>1, <2>6 DEF Typed, TypeOK
    <3> QED
      BY <3>2, <3>3, <3>4
  <2>9. pc' # "await"
    BY <1>12 DEF Answer
  <2> QED
    BY <2>7, <2>8, <2>9 DEF Dated
<1>13. CASE UNCHANGED vars
  BY <1>2, <1>13 DEF vars, loop, tables
<1> QED
  BY <1>3, <1>4, <1>5, <1>6, <1>7, <1>8, <1>9, <1>10, <1>11, <1>12, <1>13
  DEF Next, Proxy

\* What the service sees of the responses.
Told(s)  == [k \in DOMAIN s |-> AsAnswer(s[k])]
Waits(e) == IF e = None THEN None ELSE AsAnswer(e.response)

Prepares == [c \in Client |-> Waits(io_to_send[c])]
Receives == [c \in Client |-> Told(received[c])]

LEMMA ToldLength ==
  ASSUME NEW s \in Seq(Message)
  PROVE  Len(Told(s)) = Len(s)
<1> DEFINE S == {AsAnswer(m) : m \in Message}
           t == Told(s)
           n == Len(s)
<1>1. n \in Nat /\ DOMAIN s = 1 .. n /\ \A k \in 1 .. n : s[k] \in Message
  OBVIOUS
<1>2. t \in [1 .. n -> S]
  BY <1>1 DEF Told
<1> HIDE DEF S, n, t
<1>3. t \in Seq(S) /\ Len(t) = n
  BY <1>1, <1>2
<1> QED
  BY <1>3 DEF t, n

LEMMA ToldMore ==
  ASSUME NEW s \in Seq(Message), NEW m \in Message
  PROVE  Told(Append(s, m)) = Append(Told(s), AsAnswer(m))
<1> DEFINE S == {AsAnswer(x) : x \in Message}
           t == Told(s)
           a == AsAnswer(m)
           n == Len(s)
           more == Append(s, m)
<1>1. /\ n \in Nat /\ DOMAIN s = 1 .. n /\ \A k \in 1 .. n : s[k] \in Message
      /\ more \in Seq(Message) /\ DOMAIN more = 1 .. n + 1
      /\ \A k \in 1 .. n : more[k] = s[k]
      /\ more[n + 1] = m
  OBVIOUS
<1>2. /\ t \in [1 .. n -> S] /\ a \in S
      /\ \A k \in 1 .. n : t[k] = AsAnswer(s[k])
  BY <1>1 DEF Told
<1>3. /\ Told(more) = [k \in 1 .. n + 1 |-> AsAnswer(more[k])]
  BY <1>1 DEF Told
<1> HIDE DEF S, n, t, a, more
<1>4. t \in Seq(S) /\ Len(t) = n
  BY <1>1, <1>2
<1> DEFINE b == Append(t, a)
<1>5. /\ b \in Seq(S) /\ Len(b) = n + 1
      /\ \A k \in 1 .. n : b[k] = t[k]
      /\ b[n + 1] = a
  BY <1>2, <1>4, AppendProperties
<1> HIDE DEF b
<1>6. b \in [1 .. n + 1 -> S]
  BY <1>1, <1>5
<1>7. ASSUME NEW k \in 1 .. n + 1
      PROVE  AsAnswer(more[k]) = b[k]
  <2>1. CASE k \in 1 .. n
    <3>1. more[k] = s[k] /\ t[k] = AsAnswer(s[k]) /\ b[k] = t[k]
      BY <1>1, <1>2, <1>5, <2>1
    <3> QED
      BY <3>1
  <2>2. CASE k = n + 1
    BY <1>1, <1>5, <2>2 DEF a
  <2> QED
    BY <1>1, <2>1, <2>2
<1>8. Told(more) = b
  BY <1>3, <1>6, <1>7
<1> QED
  BY <1>8 DEF more, t, a, b

LEMMA ServiceIs ==
  ASSUME Typed
  PROVE  /\ Service!vars = <<now, conn, asked, Prepares, Receives>>
         /\ \A c \in Client : /\ Service!IsOwed(c) <=> Len(received[c]) < Len(asked[c])
                              /\ Service!Wanted(c) = Wants(c)
                              /\ Prepares[c] = Waits(io_to_send[c])
<1>1. \A c \in Client : Len(Told(received[c])) = Len(received[c])
  BY ToldLength DEF Typed, TypeOK
<1>2. Service!vars = <<now, conn, asked, Prepares, Receives>>
  BY DEF Service!vars, Prepares, Receives, Waits, Told
<1>3. \A c \in Client : Service!IsOwed(c) <=> Len(received[c]) < Len(asked[c])
  BY <1>1 DEF Service!IsOwed, Told
<1>4. \A c \in Client : Service!Wanted(c) = Wants(c) /\ Prepares[c] = Waits(io_to_send[c])
  BY DEF Service!Wanted, Wants, Prepares
<1> QED
  BY <1>2, <1>3, <1>4

LEMMA PrepareIs ==
  ASSUME Typed, NEW c \in Client, conn[c] = "open", Owed(c), io_to_send[c] = None,
         Wants(c).uri \in Uri,
         NEW e, e # None, NEW t \in 0 .. now, now - t <= MAX_AGE + UPSTREAM_DELAY,
         io_to_send' = [io_to_send EXCEPT ![c] = e],
         AsAnswer(e.response) = [uri |-> Wants(c).uri, made |-> t],
         UNCHANGED <<now, conn, asked, received>>
  PROVE  Service!Prepare(c)
<1> DEFINE new == [uri |-> Wants(c).uri, made |-> t]
<1>1. Service!IsOwed(c) /\ Service!Wanted(c) = Wants(c) /\ Prepares[c] = None
  <2>1. Len(received[c]) \in Nat /\ Len(asked[c]) \in Nat
    BY DEF Typed, TypeOK
  <2>2. Len(received[c]) < Len(asked[c])
    BY <2>1 DEF Owed
  <2> QED
    BY <2>2, ServiceIs DEF Waits
<1>2. Wants(c).uri # <<>>
  <2>1. PICK w \in Word : Wants(c).uri = <<w>>
    BY Assumptions
  <2> QED
    BY <2>1
<1>3. Receives' = Receives
  BY DEF Receives, Told
<1>4. Prepares' = [Prepares EXCEPT ![c] = new]
  <2>1. \A d \in Client : io_to_send'[d] = IF d = c THEN e ELSE io_to_send[d]
    BY DEF Typed, TypeOK
  <2>2. Waits(e) = new
    BY DEF Waits
  <2> HIDE DEF new
  <2>3. \A d \in Client : Waits(io_to_send'[d]) = IF d = c THEN new ELSE Waits(io_to_send[d])
    BY <2>1, <2>2
  <2>4. Prepares' = [d \in Client |-> Waits(io_to_send'[d])]
    BY DEF Prepares, Waits
  <2>5. [Prepares EXCEPT ![c] = new] =
          [d \in Client |-> IF d = c THEN new ELSE Waits(io_to_send[d])]
    BY DEF Prepares
  <2> QED
    BY <2>3, <2>4, <2>5
<1>5. \E made \in {x \in 0 .. now : now - x <= MAX_AGE + UPSTREAM_DELAY} :
        Prepares' = [Prepares EXCEPT ![c] = [uri |-> Service!Wanted(c).uri, made |-> made]]
  BY <1>1, <1>4
<1> QED
  BY <1>1, <1>2, <1>3, <1>5
  DEF Service!Prepare, Prepares, Waits, Receives, Told

\* One more response is received.
LEMMA ReceivesMore ==
  ASSUME Typed, NEW c \in Client, NEW m \in Message,
         received' = [received EXCEPT ![c] = Append(@, m)]
  PROVE  Receives' = [Receives EXCEPT ![c] = Append(@, AsAnswer(m))]
<1> DEFINE more == Append(received[c], m)
<1>1. received' = [received EXCEPT ![c] = more]
  OBVIOUS
<1>2. Told(more) = Append(Told(received[c]), AsAnswer(m))
  BY ToldMore DEF Typed, TypeOK
<1> HIDE DEF more
<1>3. \A d \in Client : Told(received'[d]) =
        IF d = c THEN Append(Told(received[c]), AsAnswer(m)) ELSE Told(received[d])
  <2>1. \A d \in Client : received'[d] = IF d = c THEN more ELSE received[d]
    <3>1. received \in [Client -> Seq(Message)]
      BY DEF Typed, TypeOK
    <3> QED
      BY <1>1, <3>1
  <2>2. ASSUME NEW d \in Client, d # c PROVE Told(received'[d]) = Told(received[d])
    BY <2>1, <2>2
  <2>3. Told(received'[c]) = Append(Told(received[c]), AsAnswer(m))
    BY <1>2, <2>1
  <2> QED
    BY <2>2, <2>3
<1>4. Receives' = [d \in Client |-> Told(received'[d])]
  BY DEF Receives, Told
<1>5. Receives[c] = Told(received[c])
  BY DEF Receives
<1>6. [Receives EXCEPT ![c] = Append(@, AsAnswer(m))] =
        [d \in Client |-> IF d = c THEN Append(Told(received[c]), AsAnswer(m))
                          ELSE Told(received[d])]
  BY <1>5 DEF Receives
<1> QED
  BY <1>3, <1>4, <1>6

LEMMA DeliverIs ==
  ASSUME SNDBUF >= 4, Live, SentInPass, Unharmed, InTurn, Dated,
         NEW c \in Client, SendResponse(c)
  PROVE  Service!Deliver(c)
<1> USE DEF Live
<1> DEFINE e == io_to_send[c]
           m == e.response
           told == AsAnswer(m)
<1>1. pc = "loop" /\ c \in Writes /\ e # None /\ io_to_send' = [io_to_send EXCEPT ![c] = None]
  BY DEF SendResponse, Writes
<1>2. m \in Message /\ Small(m) /\ e.keep \in BOOLEAN
  BY <1>1 DEF Typed, TypeOK, Pending, Unharmed
<1>3. CanSend(c, m)
  BY <1>1, <1>2, CanSendSmall DEF SentInPass
<1>4. /\ received' = [received EXCEPT ![c] = Append(@, m)]
      /\ IF e.keep THEN conn' = conn ELSE conn' = [conn EXCEPT ![c] = "closed"]
      /\ UNCHANGED <<now, asked>>
  BY <1>3 DEF SendResponse, Delivered, Clean
<1>5. conn[c] = "open" /\ e.keep = Wants(c).keep
  <2>1. conn[c] = "open" /\ Phase(c) /\ ~ Over(c)
    BY <1>3 DEF CanSend, InTurn, Unharmed, Over
  <2>2. Prepared(c)
    BY <1>1, <2>1 DEF Phase, Quiet, Asking, InJob
  <2> QED
    BY <2>1, <2>2 DEF Prepared
<1>6. Prepares[c] = told /\ told \in Answers /\ told # None
      /\ Service!Wanted(c).keep = e.keep
  <2>1. told \in Answers
    BY <1>1 DEF Dated
  <2>2. Waits(e) = told
    BY <1>1 DEF Waits
  <2> HIDE DEF told
  <2>3. told # None
    BY <2>1, ProxyAssumption
  <2>4. Prepares[c] = Waits(e)
    BY ServiceIs
  <2> QED
    BY <1>5, <2>1, <2>2, <2>3, <2>4, ServiceIs
<1>7. Receives' = [Receives EXCEPT ![c] = Append(@, told)]
  BY <1>2, <1>4, ReceivesMore
<1> HIDE DEF told
<1>8. Receives' = [Receives EXCEPT ![c] = Append(@, Prepares[c])]
  BY <1>6, <1>7
<1>9. Prepares' = [Prepares EXCEPT ![c] = None]
  <2>1. \A d \in Client : io_to_send'[d] = IF d = c THEN None ELSE io_to_send[d]
    BY <1>1 DEF Typed, TypeOK
  <2>2. \A d \in Client : Waits(io_to_send'[d]) = IF d = c THEN None ELSE Waits(io_to_send[d])
    BY <2>1 DEF Waits
  <2>3. Prepares' = [d \in Client |-> Waits(io_to_send'[d])]
    BY DEF Prepares, Waits
  <2>4. [Prepares EXCEPT ![c] = None] =
          [d \in Client |-> IF d = c THEN None ELSE Waits(io_to_send[d])]
    BY DEF Prepares
  <2> QED
    BY <2>2, <2>3, <2>4
<1>10. Prepares[c] # None
  BY <1>6
<1>11. IF Service!Wanted(c).keep THEN conn' = conn ELSE Service!Becomes(c, "closed")
  BY <1>4, <1>6 DEF Service!Becomes
<1> QED
  BY <1>4, <1>5, <1>8, <1>9, <1>10, <1>11
  DEF Service!Deliver, Prepares, Waits, Receives, Told

LEMMA RefuseIs ==
  ASSUME SNDBUF >= 4, Live, SentInPass, Unharmed, InTurn, SendBadRequest
  PROVE  \E c \in Client : Service!Refuse(c)
<1> USE DEF Live
<1>1. PICK c \in Client : c = job.client
  BY DEF SendBadRequest, Typed, JobOK, Job
<1>2. pc = "reject" /\ conn[c] = "open" /\ InJob(c)
  BY <1>1, JobOfOpen DEF SendBadRequest, Busy
<1>3. Owed(c) /\ Wants(c).uri = <<>>
  BY <1>2 DEF InJob, IsRead
<1>4. CanSend(c, BAD_REQUEST_MSG)
  BY <1>1, <1>2, ErrorsType, ErrorsAreSmall, CanSendSmall DEF SentInPass
<1>5. /\ received' = [received EXCEPT ![c] = Append(@, BAD_REQUEST_MSG)]
      /\ UNCHANGED <<now, conn, asked, io_to_send>>
  BY <1>1, <1>4 DEF SendBadRequest, SendError, Delivered
<1>6. Receives' = [Receives EXCEPT ![c] = Append(@, Service!Refusal)]
  BY <1>5, ReceivesMore, ErrorsType, RefusalTells
<1>7. Prepares' = Prepares
  BY <1>5 DEF Prepares, Waits
<1>8. Service!IsOwed(c) /\ Service!Wanted(c).uri = <<>>
  <2>1. Len(received[c]) \in Nat /\ Len(asked[c]) \in Nat
    BY DEF Typed, TypeOK
  <2>2. Len(received[c]) < Len(asked[c])
    BY <1>3, <2>1 DEF Owed
  <2> QED
    BY <1>3, <2>2, ServiceIs
<1>9. Service!Refuse(c)
  BY <1>2, <1>5, <1>6, <1>7, <1>8
  DEF Service!Refuse, Prepares, Waits, Receives, Told
<1> QED
  BY <1>9

LEMMA AsksIs ==
  ASSUME AskOneAtATime, Typed, InTurn, Unharmed, NEW c \in Client, Arrive(c)
  PROVE  Service!Asks(c) \/ UNCHANGED Service!vars
<1> DEFINE s == Script[c]
           ask == Head(unsent[c]).ask
<1>1. /\ conn[c] \in {"pending", "open"} /\ unsent[c] # <<>>
      /\ Len(received[c]) = Len(asked[c])
      /\ asked' = IF ask = None THEN asked ELSE [asked EXCEPT ![c] = Append(@, ask)]
      /\ UNCHANGED <<now, conn, io_to_send, received>>
  BY DEF Arrive, AskOneAtATime, tables
<1>2. Prepares' = Prepares /\ Receives' = Receives
  BY <1>1 DEF Prepares, Waits, Receives, Told
<1>3. CASE ask = None
  <2>1. UNCHANGED <<now, conn, asked, Prepares, Receives>>
    BY <1>1, <1>2, <1>3
  <2> QED
    BY <2>1 DEF Service!vars, Prepares, Receives, Waits, Told
<1>4. CASE ask # None
  <2>1. PICK k \in DOMAIN Script[c] : ask = Script[c][k].ask
    <3>1. /\ Script[c] \in Seq(Segment) /\ Arrived(c) + 1 \in 1 .. Len(Script[c])
          /\ Head(unsent[c]) = Script[c][Arrived(c) + 1]
      BY <1>1, ScriptIs DEF InTurn, Unharmed
    <3>2. Arrived(c) + 1 \in DOMAIN Script[c]
      BY <3>1
    <3> QED
      BY <3>1, <3>2
  <2> HIDE DEF ask
  <2>2. ask \in (UNION {{Script[d][j].ask : j \in DOMAIN Script[d]} : d \in Client})
                 \ {None}
    <3> DEFINE Said(d) == {Script[d][j].ask : j \in DOMAIN Script[d]}
    <3>1. ask \in Said(c)
      BY <2>1
    <3> HIDE DEF Said
    <3>2. ask \in UNION {Said(d) : d \in Client}
      BY <3>1
    <3> QED
      BY <1>4, <3>2 DEF Said
  <2>3. ~ Service!IsOwed(c)
    <3>1. Len(received[c]) \in Nat /\ Len(asked[c]) \in Nat
      BY DEF Typed, TypeOK
    <3>2. ~ (Len(received[c]) < Len(asked[c]))
      BY <1>1, <3>1
    <3> QED
      BY <3>2, ServiceIs
  <2>4. Service!Asks(c)
    BY <1>1, <1>2, <1>4, <2>2, <2>3
    DEF Service!Asks, Prepares, Waits, Receives, Told
  <2> QED
    BY <2>4
<1> QED
  BY <1>3, <1>4

LEMMA StepIsServed ==
  ASSUME AskOneAtATime, StampsTell, Faults = {}, SNDBUF >= 4, StatusLineUncut,
         Live, SentInPass, JobInOrder, Unharmed, InTurn, Dated, [Next]_vars
  PROVE  [Service!Next]_(Service!vars)
<1> USE DEF Live
<1>1. ASSUME UNCHANGED <<now, conn, asked, io_to_send, received>>
      PROVE  UNCHANGED Service!vars
  BY <1>1 DEF Service!vars
<1>2. ASSUME UNCHANGED <<asked, io_to_send, received>>
      PROVE  Prepares' = Prepares /\ Receives' = Receives
  BY <1>2 DEF Prepares, Waits, Receives, Told
<1>3. ASSUME NEW c \in Client, Connect(c) PROVE Service!Connect(c)
  <2>1. Prepares' = Prepares /\ Receives' = Receives
    BY <1>2, <1>3 DEF Connect, tables, history
  <2> QED
    BY <1>3, <2>1 DEF Connect, Service!Connect, Service!Becomes, history,
                      Prepares, Waits, Receives, Told
<1>4. CASE Tick
  <2>1. Prepares' = Prepares /\ Receives' = Receives
    BY <1>2, <1>4 DEF Tick, tables, history
  <2> QED
    BY <1>4, <2>1 DEF Tick, Service!Next, Service!Tick, sockets, history,
                      Prepares, Waits, Receives, Told
<1>5. ASSUME NEW c \in Client, HalfClose(c) \/ Drain(c) PROVE UNCHANGED Service!vars
  BY <1>1, <1>5 DEF HalfClose, Drain, tables, history
<1>6. \A c \in Client : ~ Reset(c)
  BY DEF Reset
<1>7. CASE Surroundings
  BY <1>3, <1>4, <1>5, <1>6, <1>7, AsksIs DEF Surroundings, Service!Next
<1>8. CASE Select
  BY <1>1, <1>8 DEF Select, tables, sockets, history
<1>9. CASE Accept
  <2>1. PICK c \in Waiting : conn' = [conn EXCEPT ![c] = "open"]
    BY <1>9 DEF Accept
  <2>2. Prepares' = Prepares /\ Receives' = Receives
    BY <1>2, <1>9 DEF Accept, tables, history
  <2>3. c \in Client /\ conn[c] = "pending" /\ UNCHANGED <<now, asked>>
    BY <1>9 DEF Accept, Waiting, history
  <2>4. Service!Connect(c)
    BY <2>1, <2>2, <2>3 DEF Service!Connect, Service!Becomes,
                            Prepares, Waits, Receives, Told
  <2> QED
    BY <2>3, <2>4 DEF Service!Next
<1>10. ASSUME NEW c \in Client, SendResponse(c) PROVE Service!Next
  BY <1>10, DeliverIs DEF Service!Next
<1>11. ASSUME NEW c \in Client, ClientGone(c) PROVE Service!LetGo(c)
  <2>1. /\ pc = "loop" /\ c \in readable /\ Chunk(c) = <<>>
        /\ conn' = [conn EXCEPT ![c] = "closed"]
        /\ UNCHANGED <<now, asked, io_to_send, received>>
    BY <1>11 DEF ClientGone, Clean, Recv, history
  <2>2. conn[c] = "open" /\ Quiet(c)
    BY <2>1, ReadIsOpen, AskIsDone
  <2>3. ~ Service!IsOwed(c)
    <3>1. Len(received[c]) \in Nat /\ Len(asked[c]) = Len(received[c])
      BY <2>2 DEF Typed, TypeOK, Quiet
    <3>2. ~ (Len(received[c]) < Len(asked[c]))
      BY <3>1
    <3> QED
      BY <3>2, ServiceIs
  <2>4. Prepares' = Prepares /\ Receives' = Receives
    BY <1>2, <2>1
  <2> QED
    BY <2>1, <2>2, <2>3, <2>4 DEF Service!LetGo, Service!Becomes,
                                  Prepares, Waits, Receives, Told
<1>12. ASSUME NEW c \in Client, CacheHit(c) PROVE Service!Prepare(c)
  <2>1. /\ conn[c] = "open" /\ Owed(c) /\ io_to_send[c] = None /\ Wants(c).uri \in Uri
    BY <1>12, HitIs
  <2>2. PICK e \in Pending, t \in 0 .. now :
          /\ now - t <= MAX_AGE + UPSTREAM_DELAY
          /\ io_to_send' = [io_to_send EXCEPT ![c] = e]
          /\ AsAnswer(e.response) = [uri |-> Wants(c).uri, made |-> t]
    BY <1>12, HitIs
  <2>3. e # None
    BY ProxyAssumption
  <2>4. UNCHANGED <<now, conn, asked, received>>
    BY <1>12 DEF CacheHit, Completes, Recv, history
  <2> QED
    BY <2>1, <2>2, <2>3, <2>4, PrepareIs
<1>13. ASSUME NEW c \in Client, Reject(c) \/ Fragment(c) \/ CacheMiss(c)
       PROVE  UNCHANGED Service!vars
  BY <1>1, <1>13 DEF Reject, Fragment, CacheMiss, Completes, Recv, history
<1>14. \A c \in Client : ~ RecvRaises(c)
  BY DEF RecvRaises, Unharmed
<1>15. ASSUME NEW c \in Client, DealWithClient(c) PROVE [Service!Next]_(Service!vars)
  BY <1>11, <1>12, <1>13, <1>14, <1>15 DEF DealWithClient, Service!Next
<1>16. CASE SendBadRequest
  BY <1>16, RefuseIs DEF Service!Next
<1>17. CASE ConnectUpstream \/ RecvUpstream
  BY <1>1, <1>17 DEF ConnectUpstream, RecvUpstream, tables, sockets, history
<1>18. CASE Forward
  BY <1>1, <1>18 DEF Forward, sockets, history
<1>19. ~ ForwardFails /\ ~ RecvUpstreamRaises
  BY DEF ForwardFails, RecvUpstreamRaises
<1>20. CASE Answer
  <2>1. PICK c \in Client : c = job.client
    BY <1>20, AnsweredIs
  <2>2. conn[c] = "open" /\ Owed(c) /\ io_to_send[c] = None /\ Wants(c).uri \in Uri
    BY <1>20, <2>1, AnsweredIs
  <2>3. PICK m \in Message, t \in 0 .. now :
          /\ now - t <= UPSTREAM_DELAY
          /\ io_to_send' = [io_to_send EXCEPT ![c] =
               [response |-> m, keep |-> ShouldKeepAlive(job.request)]]
          /\ AsAnswer(m) = [uri |-> Wants(c).uri, made |-> t]
    BY <1>20, <2>1, AnsweredIs
  <2>4. PICK k \in BOOLEAN : k = ShouldKeepAlive(job.request)
    BY DEF ShouldKeepAlive
  <2> DEFINE e == [response |-> m, keep |-> k]
  <2>5. io_to_send' = [io_to_send EXCEPT ![c] = e]
    BY <2>3, <2>4
  <2>6. now - t <= MAX_AGE + UPSTREAM_DELAY
    <3>1. now \in Nat /\ MAX_AGE \in Nat /\ UPSTREAM_DELAY \in Nat
      BY ProxyAssumption DEF Typed, TypeOK
    <3> QED
      BY <2>3, <3>1
  <2>7. UNCHANGED <<now, conn, asked, received>>
    BY <1>20 DEF Answer, sockets, history
  <2>8. e \in Pending /\ e.response = m
    BY DEF Pending
  <2> HIDE DEF e
  <2>9. e # None
    BY <2>8, ProxyAssumption
  <2>10. Service!Prepare(c)
    BY <2>2, <2>3, <2>5, <2>6, <2>7, <2>8, <2>9, PrepareIs
  <2> QED
    BY <2>10 DEF Service!Next
<1>21. CASE UNCHANGED vars
  BY <1>1, <1>21 DEF vars, tables, sockets, history
<1> QED
  BY <1>7, <1>8, <1>9, <1>10, <1>15, <1>16, <1>17, <1>18, <1>19, <1>20, <1>21
  DEF Next, Proxy

\* What holds of the proxy's state between its steps, as long as sockets work.
InService == Live /\ SentInPass /\ JobInOrder /\ Unharmed /\ InTurn /\ Dated

LEMMA AlwaysInService ==
  ASSUME AskOneAtATime, StampsTell, Faults = {}, SlowReaders = {}, SNDBUF >= 4,
         StatusLineUncut
  PROVE  Spec => [](InService /\ Typed)
<1>1. "truncated" \notin Faults
  OBVIOUS
<1>2. Init => Unharmed /\ Dated
  BY DEF Init, Unharmed, IsUp, Raised, Dated
<1>3. Live /\ SentInPass /\ JobInOrder /\ PagesHeld /\ Unharmed /\ [Next]_vars => Unharmed'
  BY SurviveStep
<1>4. Live /\ SentInPass /\ JobInOrder /\ Unharmed /\ InTurn /\ Dated /\ [Next]_vars => Dated'
  BY <1>1, DatedStep
<1>5. Spec => [](Live /\ SentInPass)
  BY AlwaysSentInPass
<1>6. Spec => [](Typed /\ JobInOrder /\ PagesHeld)
  BY <1>1, AlwaysPagesHeld
<1>7. Spec => [](Typed /\ InTurn)
  BY AlwaysInTurn
<1> QED
  BY <1>2, <1>3, <1>4, <1>5, <1>6, <1>7, PTL DEF Spec, InService

\* As long as sockets work and readers take their answers, each client that
\* asks one thing at a time gets the answers to its own requests, in their
\* order, each from the page it asked for as it was no longer ago than the
\* upstream server's delay and max-age allow; none is let go while it is owed
\* an answer.  Requests in pieces, malformed ones, the cache, and others'
\* requests between cannot change that (reverse_proxy.py, lines 70-176).
THEOREM ServiceCorrect ==
  ASSUME AskOneAtATime, StampsTell, Faults = {}, SlowReaders = {}, SNDBUF >= 4,
         StatusLineUncut
  PROVE  Spec => ImplementsService
<1>1. Init => Service!Init
  <2>1. ASSUME Init PROVE Service!Init
    <3>1. ASSUME NEW c \in Client PROVE Told(received[c]) = <<>>
      BY <2>1 DEF Init, Told
    <3> QED
      BY <2>1, <3>1 DEF Init, Service!Init, Told
  <2> QED
    BY <2>1
<1>2. InService /\ [Next]_vars => [Service!Next]_(Service!vars)
  BY StepIsServed DEF InService
<1> QED
  BY <1>1, <1>2, AlwaysInService, PTL DEF Spec, ImplementsService, Service!Spec

-----------------------------------------------------------------------------
(* Compressed bodies.                                                       *)

\* The mark of a compressed body is in no page.
PagesArePlain ==
  /\ \A t \in 0 .. MaxTime : Stamp[t] # "<gzip>"
  /\ <<"<gzip>">> \notin Uri

Zips(m) == {i \in DOMAIN m.body : m.body[i] = "<gzip>"}
Says(m) == <<<<"Content-Encoding">>, <<"gzip">>>> \in m.headers

IsEncoded(m) == Cardinality(Zips(m)) <= 1 /\ (Zips(m) # {} <=> Says(m))

\* of what was asked, some request for uri has allowed a compressed answer
Allowed(a, uri) ==
  \E d \in Client : \E n \in DOMAIN a[d] : a[d][n].uri = uri /\ a[d][n].gzip

Declared(a, m, uri) == IsEncoded(m) /\ (Zips(m) # {} => Allowed(a, uri))

LEMMA PlainPage ==
  ASSUME PagesArePlain, NEW uri, NEW t \in 0 .. MaxTime
  PROVE  \A i \in DOMAIN Page(uri, t) : Page(uri, t)[i] # "<gzip>"
<1> DEFINE name == Name(uri)
           stamp == <<Stamp[t]>>
           page == name \o stamp
<1>1. name \in Bytes /\ stamp \in Bytes /\ Len(stamp) = 1 /\ stamp[1] # "<gzip>"
  BY PageType DEF PagesArePlain
<1>2. \A i \in 1 .. Len(name) : Len(name) = 1 /\ name[i] # "<gzip>"
  <2>1. CASE uri \in Uri
    <3>1. PICK w \in Word : uri = <<w>>
      BY <2>1, Assumptions
    <3>2. w # "<gzip>"
      BY <2>1, <3>1 DEF PagesArePlain
    <3> QED
      BY <2>1, <3>1, <3>2 DEF Name
  <2>2. CASE uri \notin Uri
    BY <2>2 DEF Name
  <2> QED
    BY <2>1, <2>2
<1> HIDE DEF name, stamp
<1>3. /\ page \in Bytes /\ Len(page) = Len(name) + 1 /\ Len(name) \in Nat
      /\ \A i \in 1 .. Len(name) : page[i] = name[i]
      /\ page[Len(name) + 1] = stamp[1]
  <2>1. /\ page \in Bytes /\ Len(page) = Len(name) + Len(stamp) /\ Len(name) \in Nat
        /\ \A i \in 1 .. Len(name) : page[i] = name[i]
        /\ \A i \in 1 .. Len(stamp) : page[Len(name) + i] = stamp[i]
    BY <1>1, ConcatIs
  <2> HIDE DEF page
  <2>2. 1 \in 1 .. Len(stamp)
    BY <1>1
  <2> QED
    BY <1>1, <2>1, <2>2
<1>4. DOMAIN page = 1 .. Len(page)
  BY <1>3 DEF Bytes
<1> HIDE DEF page
<1>5. ASSUME NEW i \in DOMAIN page PROVE page[i] # "<gzip>"
  <2>1. i \in 1 .. Len(name) \/ i = Len(name) + 1
    BY <1>3, <1>4, <1>5
  <2> QED
    BY <1>1, <1>2, <1>3, <2>1
<1> QED
  BY <1>5 DEF Page, page, name, stamp

\* answer() compresses once, and says so.
LEMMA AnsweredEncoded ==
  ASSUME NEW request, NEW response \in Message,
         response.headers = {}, Zips(response) = {}
  PROVE  /\ IsEncoded(Answered(request, response))
         /\ Zips(Answered(request, response)) # {} => AllowGzip(request)
<1> DEFINE CE == <<"Content-Encoding">>
           CL == <<"Content-Length">>
           CC == <<"Cache-Control">>
           body == response.body
           zip == <<"<gzip>">>
<1>1. CE # CL /\ CE # CC
  OBVIOUS
<1>2. zip \in Bytes /\ Len(zip) = 1 /\ zip[1] = "<gzip>" /\ body \in Bytes
  BY WordAssumption DEF Message, Bytes, Byte
<1>3. \A i \in DOMAIN body : body[i] # "<gzip>"
  BY DEF Zips
<1>4. ASSUME NEW m \in Message, NEW name, NEW value
      PROVE  /\ AddHeader(m, name, value).body = m.body
             /\ AddHeader(m, name, value).headers =
                  {p \in m.headers : p[1] # name} \cup {<<name, value>>}
  BY <1>4 DEF AddHeader, Message
<1>5. CASE ~ AllowGzip(request) \/ body = <<>>
  <2> DEFINE m == AddHeader(response, CC, <<"max-age">>)
  <2>1. Answered(request, response) = m
    BY <1>5 DEF Answered, CompressResponseGzip
  <2>2. m.body = body /\ m.headers = {<<CC, <<"max-age">>>>}
    BY <1>4
  <2> HIDE DEF m
  <2>3. Zips(m) = {}
    BY <1>3, <2>2 DEF Zips
  <2>4. ~ Says(m)
    BY <1>1, <2>2 DEF Says
  <2>5. Cardinality({}) <= 1
    BY FS_EmptySet
  <2> QED
    BY <2>1, <2>3, <2>4, <2>5 DEF IsEncoded
<1>6. CASE AllowGzip(request) /\ body # <<>>
  <2> DEFINE zipped == [response EXCEPT !.body = zip \o @]
             one == AddHeader(zipped, CE, <<"gzip">>)
             two == AddHeader(one, CL, <<"<length>">>)
             m == AddHeader(two, CC, <<"max-age">>)
             b == zip \o body
  <2>1. Answered(request, response) = m
    BY <1>6 DEF Answered, CompressResponseGzip
  <2>2. /\ b \in Bytes /\ Len(b) = 1 + Len(body) /\ Len(body) \in Nat
        /\ b[1] = "<gzip>"
        /\ \A i \in 1 .. Len(body) : b[1 + i] = body[i]
    <3>1. /\ b \in Bytes /\ Len(b) = Len(zip) + Len(body) /\ Len(body) \in Nat
          /\ \A i \in 1 .. Len(zip) : b[i] = zip[i]
          /\ \A i \in 1 .. Len(body) : b[Len(zip) + i] = body[i]
      BY <1>2, ConcatIs
    <3> HIDE DEF b, zip, body
    <3>2. 1 \in 1 .. Len(zip)
      BY <1>2
    <3> QED
      BY <1>2, <3>1, <3>2
  <2>3. zipped \in Message /\ zipped.body = b /\ zipped.headers = {}
    <3>1. zip \o response.body \in Bytes
      BY <2>2
    <3> HIDE DEF zip
    <3> QED
      BY <3>1 DEF Message
  <2> HIDE DEF b, zipped
  <2>4. {CE, CL, CC, <<"gzip">>, <<"<length>">>} \subseteq Bytes
    BY WordAssumption DEF Bytes, Byte
  <2>5. one \in Message /\ one.body = b /\ <<CE, <<"gzip">>>> \in one.headers
    <3>1. one \in Message
      BY <2>3, <2>4, AddHeaderType
    <3>2. /\ one.body = b
          /\ one.headers = {p \in zipped.headers : p[1] # CE} \cup {<<CE, <<"gzip">>>>}
      BY <1>4, <2>3
    <3> HIDE DEF one
    <3> QED
      BY <3>1, <3>2
  <2> HIDE DEF one
  <2>6. two \in Message /\ two.body = b /\ <<CE, <<"gzip">>>> \in two.headers
    <3>1. two \in Message
      BY <2>4, <2>5, AddHeaderType
    <3>2. /\ two.body = b
          /\ two.headers = {p \in one.headers : p[1] # CL} \cup {<<CL, <<"<length>">>>>}
      BY <1>4, <2>5
    <3> HIDE DEF two
    <3> QED
      BY <1>1, <2>5, <3>1, <3>2
  <2> HIDE DEF two
  <2>7. m.body = b /\ <<CE, <<"gzip">>>> \in m.headers
    <3>1. /\ m.body = b
          /\ m.headers = {p \in two.headers : p[1] # CC} \cup {<<CC, <<"max-age">>>>}
      BY <1>4, <2>6
    <3> HIDE DEF m
    <3> QED
      BY <1>1, <2>6, <3>1
  <2> HIDE DEF m
  <2>8. Says(m)
    BY <2>7 DEF Says
  <2>9. Zips(m) = {1}
    <3>1. DOMAIN b = 1 .. 1 + Len(body) /\ DOMAIN body = 1 .. Len(body)
      BY <1>2, <2>2 DEF Bytes
    <3> HIDE DEF body
    <3>2. ASSUME NEW i \in DOMAIN b, i # 1 PROVE b[i] # "<gzip>"
      <4>1. i - 1 \in 1 .. Len(body) /\ 1 + (i - 1) = i
        BY <2>2, <3>1, <3>2
      <4> QED
        BY <1>3, <2>2, <3>1, <4>1
    <3>3. 1 \in DOMAIN b
      BY <2>2, <3>1
    <3> QED
      BY <2>2, <2>7, <3>2, <3>3 DEF Zips
  <2>10. Cardinality({1}) = 1
    BY FS_Singleton
  <2> QED
    BY <1>6, <2>1, <2>8, <2>9, <2>10 DEF IsEncoded
<1> QED
  BY <1>5, <1>6

LEMMA ErrorsEncoded ==
  ASSUME NEW a, NEW uri
  PROVE  Declared(a, BAD_REQUEST_MSG, uri)
<1>1. BAD_REQUEST_MSG.body = <<>> /\ BAD_REQUEST_MSG.headers = {}
  <2>1. /\ NewMessage("RESPONSE") \in Message /\ NewMessage("RESPONSE").body = <<>>
        /\ NewMessage("RESPONSE").headers = {}
    BY NewMessageType DEF MessageType, NewMessage
  <2> QED
    BY <2>1 DEF BAD_REQUEST_MSG, StatusOnly, Message
<1>2. Zips(BAD_REQUEST_MSG) = {} /\ ~ Says(BAD_REQUEST_MSG)
  BY <1>1 DEF Zips, Says
<1>3. Cardinality({}) <= 1
  BY FS_EmptySet
<1> QED
  BY <1>2, <1>3 DEF Declared, IsEncoded

Encodings ==
  /\ \A u \in Uri : cache[u] # None => Declared(asked, cache[u].response, u)
  /\ \A c \in Client : io_to_send[c] # None =>
       Declared(asked, io_to_send[c].response, Wants(c).uri)
  /\ \A c \in Client : \A k \in DOMAIN received[c] :
       Declared(asked, received[c][k], asked[c][k].uri)

LEMMA AnswerEncoded ==
  ASSUME AskOneAtATime, StampsTell, PagesArePlain, "truncated" \notin Faults,
         Typed, JobInOrder, SentInPass, Unharmed, InTurn, Dated, Answer
  PROVE  LET m == Answered(job.request, job.response)
         IN  /\ Declared(asked, m, job.request.uri)
             /\ cache' \in {cache, [cache EXCEPT ![job.request.uri] =
                                      [response |-> m, expire |-> now + MAX_AGE]]}
             /\ io_to_send' = [io_to_send EXCEPT ![job.client] =
                                 [response |-> m, keep |-> ShouldKeepAlive(job.request)]]
<1> DEFINE c == job.client
           response == job.response
           m == Answered(job.request, response)
<1>1. /\ pc = "await" /\ job.got = Len(job.reply) /\ job \in Job
      /\ now \in 0 .. MaxTime /\ MaxTime \in Nat
  BY Assumptions DEF Answer, Typed, TypeOK, JobOK
<1>2. job.since \in 0 .. now /\ job.reply = Reply(job.request.uri, job.since)
  BY <1>1 DEF Dated
<1>3. job.since \in 0 .. MaxTime
  BY <1>1, <1>2
<1>4. /\ response \in Message /\ response.headers = {}
      /\ response.body = Page(job.request.uri, job.since)
  BY <1>1, <1>2, <1>3, WholePage DEF Job
<1>5. Zips(response) = {}
  BY <1>3, <1>4, PlainPage DEF Zips
<1>6. c \in Client /\ InJob(c)
  BY <1>1, JobOfOpen DEF Busy
<1>7. ASSUME AllowGzip(job.request) PROVE Allowed(asked, job.request.uri)
  <2>1. /\ Len(asked[c]) = Len(received[c]) + 1
        /\ asked[c][Len(asked[c])].uri = job.request.uri
        /\ asked[c][Len(asked[c])].gzip
    BY <1>1, <1>6, <1>7 DEF InJob, IsRead, Owed, Wants
  <2>2. asked[c] \in Seq(Ask) /\ Len(received[c]) \in Nat
    BY <1>6 DEF Typed, TypeOK
  <2>3. Len(asked[c]) \in DOMAIN asked[c]
    BY <2>1, <2>2
  <2> QED
    BY <1>6, <2>1, <2>3 DEF Allowed
<1> HIDE DEF response
<1>8. Declared(asked, m, job.request.uri)
  BY <1>4, <1>5, <1>7, AnsweredEncoded DEF Declared
<1>9. /\ cache' \in {cache, [cache EXCEPT ![job.request.uri] =
                               [response |-> m, expire |-> now + MAX_AGE]]}
      /\ io_to_send' = [io_to_send EXCEPT ![job.client] =
                          [response |-> m, keep |-> ShouldKeepAlive(job.request)]]
  BY DEF Answer, Answered, MaybeCache, response
<1> QED
  BY <1>8, <1>9 DEF response

\* What changes the cache, what is to be sent, and what was asked and sent.
LEMMA Changes ==
  ASSUME Faults = {}, Typed, [Next]_vars, NEW c \in Client
  PROVE  /\ cache' = cache \/ Answer
         /\ \/ io_to_send'[c] \in {None, io_to_send[c]}
            \/ CacheHit(c)
            \/ Answer /\ c = job.client
         /\ received'[c] = received[c] \/ SendResponse(c) \/ SendBadRequest
         /\ asked'[c] = asked[c] \/ Arrive(c)
<1>1. CASE Surroundings
  <2>1. UNCHANGED <<cache, io_to_send, received>>
    BY <1>1 DEF Surroundings, Connect, Arrive, HalfClose, Reset, Drain, Tick, tables, history
  <2>2. asked'[c] = asked[c] \/ Arrive(c)
    <3>1. ASSUME NEW d \in Client, Arrive(d), d # c PROVE asked'[c] = asked[c]
      BY <3>1 DEF Arrive, Typed, TypeOK
    <3> QED
      BY <1>1, <3>1 DEF Surroundings, Connect, HalfClose, Reset, Drain, Tick, history
  <2> QED
    BY <2>1, <2>2
<1>2. CASE Select \/ Accept \/ ConnectUpstream \/ Forward \/ RecvUpstream
           \/ RecvUpstreamRaises
  BY <1>2 DEF Select, Accept, ConnectUpstream, Forward, RecvUpstream, RecvUpstreamRaises,
              tables, history
<1>3. ASSUME NEW d \in Client, SendResponse(d)
      PROVE  /\ UNCHANGED <<cache, asked>>
             /\ io_to_send'[c] \in {None, io_to_send[c]}
             /\ received'[c] = received[c] \/ d = c
  BY <1>3 DEF SendResponse, Delivered, Typed, TypeOK
<1>4. ASSUME NEW d \in Client, DealWithClient(d), ~ CacheHit(d)
      PROVE  UNCHANGED <<cache, asked, io_to_send, received>>
  BY <1>4 DEF DealWithClient, RecvRaises, Reject, ClientGone, Fragment, CacheMiss, Completes,
              Recv, history
<1>5. ASSUME NEW d \in Client, CacheHit(d)
      PROVE  UNCHANGED <<cache, asked, received>> /\ (io_to_send'[c] = io_to_send[c] \/ d = c)
  BY <1>5 DEF CacheHit, Completes, Recv, history, Typed, TypeOK
<1>6. CASE SendBadRequest
  BY <1>6 DEF SendBadRequest, SendError
<1>7. ~ ForwardFails
  BY DEF ForwardFails
<1>8. CASE Answer
  BY <1>8 DEF Answer, history, Typed, TypeOK
<1>9. CASE UNCHANGED vars
  BY <1>9 DEF vars, tables, history
<1> QED
  BY <1>1, <1>2, <1>3, <1>4, <1>5, <1>6, <1>7, <1>8, <1>9 DEF Next, Proxy

\* What was asked once has been asked for good.
LEMMA AskedStays ==
  ASSUME Faults = {}, Typed, [Next]_vars
  PROVE  /\ \A d \in Client : \A n \in DOMAIN asked[d] :
              n \in DOMAIN asked'[d] /\ asked'[d][n] = asked[d][n]
         /\ \A m, uri : Declared(asked, m, uri) => Declared(asked', m, uri)
<1>1. ASSUME NEW d \in Client, NEW n \in DOMAIN asked[d]
      PROVE  n \in DOMAIN asked'[d] /\ asked'[d][n] = asked[d][n]
  <2>1. CASE asked'[d] = asked[d]
    BY <1>1, <2>1
  <2>2. CASE Arrive(d) /\ asked'[d] # asked[d]
    <3>1. PICK ask \in Ask : asked'[d] = Append(asked[d], ask)
      <4>1. unsent[d] \in Seq(Segment) /\ unsent[d] # <<>>
            /\ asked \in [Client -> Seq(Ask)]
        BY <2>2 DEF Arrive, Typed, TypeOK
      <4>2. Head(unsent[d]) \in Segment
        BY <4>1
      <4>3. Head(unsent[d]).ask \in Ask \cup {None}
        BY <4>2 DEF Segment
      <4> QED
        BY <2>2, <4>1, <4>3 DEF Arrive
    <3>2. asked[d] \in Seq(Ask)
      BY DEF Typed, TypeOK
    <3> QED
      BY <1>1, <3>1, <3>2
  <2> QED
    BY <2>1, <2>2, Changes
<1>2. ASSUME NEW m, NEW uri, Declared(asked, m, uri) PROVE Declared(asked', m, uri)
  <2>1. Allowed(asked, uri) => Allowed(asked', uri)
    BY <1>1 DEF Allowed
  <2> QED
    BY <1>2, <2>1 DEF Declared
<1> QED
  BY <1>1, <1>2

\* What a client is sent is declared, and is the answer to what it asked last.
LEMMA SentDeclared ==
  ASSUME SNDBUF >= 4, Live, SentInPass, Unharmed, InTurn, Encodings,
         NEW c \in Client, received'[c] # received[c],
         SendResponse(c) \/ SendBadRequest
  PROVE  /\ Len(asked[c]) = Len(received[c]) + 1
         /\ \E m \in Message : /\ received'[c] = Append(received[c], m)
                              /\ Declared(asked, m, asked[c][Len(asked[c])].uri)
<1> USE DEF Live
<1>0. received \in [Client -> Seq(Message)]
  BY DEF Typed, TypeOK
<1>1. CASE SendResponse(c)
  <2> DEFINE m == io_to_send[c].response
  <2>1. CanSend(c, m) /\ pc = "loop" /\ io_to_send[c] # None
    BY <1>1 DEF SendResponse, Writes
  <2>2. conn[c] = "open" /\ peer[c] # "reset" /\ Phase(c)
    BY <2>1 DEF CanSend, InTurn, Unharmed
  <2>3. Prepared(c)
    BY <2>1, <2>2 DEF Phase, Over, Quiet, Asking, InJob
  <2>4. received' = [received EXCEPT ![c] = Append(@, m)]
    BY <1>1, <2>1 DEF SendResponse, Delivered
  <2>5. m \in Message
    BY <2>1 DEF Typed, TypeOK, Pending
  <2>6. Declared(asked, m, asked[c][Len(asked[c])].uri)
    BY <2>1 DEF Encodings, Wants
  <2> HIDE DEF m
  <2>7. received'[c] = Append(received[c], m)
    BY <1>0, <2>4
  <2> QED
    BY <2>3, <2>5, <2>6, <2>7 DEF Prepared, IsRead, Owed
<1>2. CASE SendBadRequest
  <2>1. PICK d \in Client : d = job.client
    BY <1>2 DEF SendBadRequest, Typed, JobOK, Job
  <2>2. pc = "reject" /\ InJob(d)
    BY <1>2, <2>1, JobOfOpen DEF SendBadRequest, Busy
  <2>3. CanSend(d, BAD_REQUEST_MSG)
    BY <2>1, <2>2, ErrorsType, ErrorsAreSmall, CanSendSmall DEF SentInPass
  <2>4. received' = [received EXCEPT ![d] = Append(@, BAD_REQUEST_MSG)]
    BY <1>2, <2>1, <2>3 DEF SendBadRequest, SendError, Delivered
  <2>5. c = d /\ received'[c] = Append(received[c], BAD_REQUEST_MSG)
    BY <1>0, <2>4
  <2>6. Declared(asked, BAD_REQUEST_MSG, asked[c][Len(asked[c])].uri)
    BY ErrorsEncoded
  <2> QED
    BY <2>2, <2>5, <2>6, ErrorsType DEF InJob, IsRead, Owed
<1> QED
  BY <1>1, <1>2

\* The cache is filled by answer(), whether or not there is a client.
LEMMA CacheChanges ==
  ASSUME Faults = {}, [Next]_vars
  PROVE  cache' = cache \/ Answer
<1>1. CASE Surroundings
  BY <1>1 DEF Surroundings, Connect, Arrive, HalfClose, Reset, Drain, Tick, tables
<1>2. CASE Select \/ Accept \/ ConnectUpstream \/ Forward \/ RecvUpstream
           \/ RecvUpstreamRaises \/ SendBadRequest
  BY <1>2 DEF Select, Accept, ConnectUpstream, Forward, RecvUpstream, RecvUpstreamRaises,
              SendBadRequest, SendError, tables
<1>3. ASSUME NEW c \in Client, DealWithClient(c) \/ SendResponse(c) PROVE cache' = cache
  BY <1>3, Changes DEF DealWithClient, RecvRaises, Reject, ClientGone, Fragment, CacheMiss,
                       CacheHit, SendResponse, Completes, Recv
<1>4. ~ ForwardFails
  BY DEF ForwardFails
<1>5. CASE UNCHANGED vars
  BY <1>5 DEF vars, tables
<1> QED
  BY <1>1, <1>2, <1>3, <1>4, <1>5 DEF Next, Proxy

\* What is to be sent is sent before its client asks again.
LEMMA WaitsAsAsked ==
  ASSUME AskOneAtATime, Faults = {}, Live, SentInPass, Unharmed, InTurn, [Next]_vars,
         NEW c \in Client, io_to_send[c] # None
  PROVE  asked'[c] = asked[c]
<1>1. conn[c] = "open" /\ peer[c] # "reset" /\ Phase(c)
  BY DEF SentInPass, Due, Open, InTurn, Unharmed
<1>2. Owed(c)
  BY <1>1 DEF Phase, Over, Quiet, Asking, InJob, Prepared, IsRead
<1>3. received[c] \in Seq(Message)
  BY DEF Live, Typed, TypeOK
<1>4. Len(received[c]) # Len(asked[c])
  BY <1>2, <1>3 DEF Owed
<1>5. ~ Arrive(c)
  BY <1>4 DEF Arrive, AskOneAtATime
<1> QED
  BY <1>5, Changes DEF Live

LEMMA HitEncoded ==
  ASSUME AskOneAtATime, Live, SentInPass, Unharmed, InTurn, Encodings,
         NEW c \in Client, CacheHit(c)
  PROVE  \E e : /\ io_to_send' = [io_to_send EXCEPT ![c] = e]
                /\ Declared(asked, e.response, Wants(c).uri)
                /\ asked' = asked
<1> DEFINE uri == Parsed(c).m.uri
           r == cache[uri].response
           k == ShouldKeepAlive(Parsed(c).m)
           e == [response |-> r, keep |-> k]
<1> USE DEF Live
<1>1. /\ pc = "loop" /\ c \in readable
      /\ ~ Parsed(c).raised /\ Chunk(c) # <<>> /\ Parsed(c).m.parser_state = "END"
      /\ uri \in Uri /\ cache[uri] # None /\ asked' = asked
      /\ io_to_send' = [io_to_send EXCEPT ![c] = e]
  BY DEF CacheHit, Completes, IsCached, Recv, history
<1>2. InStep(c) /\ (Quiet(c) \/ Asking(c))
  BY <1>1, ReadIsOpen
<1>3. Asking(c)
  BY <1>1, <1>2, QuietIsRead
<1>4. Wants(c).uri = uri
  BY <1>1, <1>2, <1>3, AskIsDone
<1>5. Declared(asked, r, uri)
  BY <1>1 DEF Encodings
<1> HIDE DEF uri, r, k
<1>6. e.response = r
  OBVIOUS
<1> HIDE DEF e
<1> QED
  BY <1>1, <1>4, <1>5, <1>6

LEMMA EncodingStep ==
  ASSUME AskOneAtATime, StampsTell, PagesArePlain, Faults = {}, SNDBUF >= 4,
         Live, Typed', SentInPass, JobInOrder, Unharmed, InTurn, Dated, Encodings,
         [Next]_vars
  PROVE  Encodings'
<1> USE DEF Live
<1>1. \A m, uri : Declared(asked, m, uri) => Declared(asked', m, uri)
  BY AskedStays
<1>2. \A d \in Client : \A n \in DOMAIN asked[d] :
        n \in DOMAIN asked'[d] /\ asked'[d][n] = asked[d][n]
  BY AskedStays
<1>3. ASSUME Answer
      PROVE  \E m : /\ Declared(asked, m, job.request.uri)
                    /\ cache' \in {cache, [cache EXCEPT ![job.request.uri] =
                                             [response |-> m, expire |-> now + MAX_AGE]]}
                    /\ io_to_send' = [io_to_send EXCEPT ![job.client] =
                         [response |-> m, keep |-> ShouldKeepAlive(job.request)]]
                    /\ asked' = asked
  BY <1>3, AnswerEncoded DEF Answer, history
<1>4. ASSUME NEW u \in Uri, cache'[u] # None
      PROVE  Declared(asked', cache'[u].response, u)
  <2>1. CASE cache' = cache
    BY <1>1, <1>4, <2>1 DEF Encodings
  <2>2. CASE Answer
    <3>1. PICK m : /\ Declared(asked, m, job.request.uri)
                   /\ cache' \in {cache, [cache EXCEPT ![job.request.uri] =
                                            [response |-> m, expire |-> now + MAX_AGE]]}
      BY <1>3, <2>2
    <3>2. \/ cache'[u] = cache[u]
          \/ u = job.request.uri /\ cache'[u].response = m
      BY <3>1 DEF Typed, TypeOK
    <3> QED
      BY <1>1, <1>4, <3>1, <3>2 DEF Encodings
  <2> QED
    BY <2>1, <2>2, CacheChanges
<1>5. ASSUME NEW c \in Client, io_to_send'[c] # None
      PROVE  Declared(asked', io_to_send'[c].response, Wants(c)'.uri)
  <2>0. io_to_send \in [Client -> Pending \cup {None}]
    BY DEF Typed, TypeOK
  <2>1. CASE io_to_send'[c] \in {None, io_to_send[c]}
    <3>1. io_to_send'[c] = io_to_send[c] /\ io_to_send[c] # None
      BY <1>5, <2>1
    <3>2. asked'[c] = asked[c]
      BY <3>1, WaitsAsAsked
    <3>3. Declared(asked, io_to_send[c].response, Wants(c).uri)
      BY <3>1 DEF Encodings
    <3> QED
      BY <1>1, <3>1, <3>2, <3>3 DEF Wants
  <2>2. CASE CacheHit(c)
    <3>1. PICK e : /\ io_to_send' = [io_to_send EXCEPT ![c] = e]
                   /\ Declared(asked, e.response, Wants(c).uri)
                   /\ asked' = asked
      BY <2>2, HitEncoded
    <3>2. io_to_send'[c] = e
      BY <2>0, <3>1
    <3> QED
      BY <3>1, <3>2 DEF Wants
  <2>3. CASE Answer /\ c = job.client
    <3>1. PICK m : /\ Declared(asked, m, job.request.uri)
                   /\ io_to_send' = [io_to_send EXCEPT ![job.client] =
                        [response |-> m, keep |-> ShouldKeepAlive(job.request)]]
                   /\ asked' = asked
      BY <1>3, <2>3
    <3>2. io_to_send'[c].response = m
      BY <2>0, <2>3, <3>1
    <3>3. job.request.uri = Wants(c).uri
      BY <2>3, AnsweredIs
    <3> QED
      BY <3>1, <3>2, <3>3 DEF Wants
  <2> QED
    BY <2>1, <2>2, <2>3, Changes
<1>6. ASSUME NEW c \in Client, NEW k \in DOMAIN received'[c]
      PROVE  Declared(asked', received'[c][k], asked'[c][k].uri)
  <2>0. /\ received[c] \in Seq(Message) /\ asked[c] \in Seq(Ask)
        /\ Len(received[c]) <= Len(asked[c])
    BY DEF Typed, TypeOK, InTurn, NoExtraAnswers
  <2>1. ASSUME k \in DOMAIN received[c], received'[c][k] = received[c][k]
        PROVE  Declared(asked', received'[c][k], asked'[c][k].uri)
    <3>1. k \in DOMAIN asked[c]
      BY <2>0, <2>1
    <3>2. asked'[c][k] = asked[c][k]
      BY <1>2, <3>1
    <3>3. Declared(asked, received[c][k], asked[c][k].uri)
      BY <2>1 DEF Encodings
    <3> QED
      BY <1>1, <2>1, <3>2, <3>3
  <2>2. CASE received'[c] = received[c]
    BY <1>6, <2>1, <2>2
  <2>3. CASE received'[c] # received[c] /\ (SendResponse(c) \/ SendBadRequest)
    <3>1. /\ Len(asked[c]) = Len(received[c]) + 1
          /\ \E m \in Message : /\ received'[c] = Append(received[c], m)
                               /\ Declared(asked, m, asked[c][Len(asked[c])].uri)
      BY <2>3, SentDeclared
    <3>2. PICK m \in Message : /\ received'[c] = Append(received[c], m)
                               /\ Declared(asked, m, asked[c][Len(asked[c])].uri)
      BY <3>1
    <3>3. \/ k \in DOMAIN received[c] /\ received'[c][k] = received[c][k]
          \/ k = Len(asked[c]) /\ received'[c][k] = m
      BY <1>6, <2>0, <3>1, <3>2
    <3>4. CASE k = Len(asked[c]) /\ received'[c][k] = m
      <4>1. k \in DOMAIN asked[c]
        BY <2>0, <3>1, <3>4
      <4>2. asked'[c][k] = asked[c][k]
        BY <1>2, <4>1
      <4> QED
        BY <1>1, <3>2, <3>4, <4>2
    <3> QED
      BY <2>1, <3>3, <3>4
  <2> QED
    BY <2>2, <2>3, Changes
<1> QED
  BY <1>4, <1>5, <1>6 DEF Encodings

\* A body is compressed at most once, said to be when it is and not otherwise,
\* and only for a page that some request has allowed to be compressed: what
\* deal_with_client() compresses for one client is cached and sent to all who
\* ask for the page (reverse_proxy.py, lines 114-120 and 150-156).
THEOREM EncodingCorrect ==
  ASSUME AskOneAtATime, StampsTell, PagesArePlain, Faults = {}, SlowReaders = {},
         SNDBUF >= 4, StatusLineUncut
  PROVE  Spec => []EncodingIsDeclared
<1>1. Init => Encodings
  BY DEF Init, Encodings
<1>2. InService /\ Typed' /\ Encodings /\ [Next]_vars => Encodings'
  BY EncodingStep DEF InService
<1>3. Encodings => EncodingIsDeclared
  BY DEF Encodings, EncodingIsDeclared, Declared, Allowed, IsEncoded, Zips, Says
<1> QED
  BY <1>1, <1>2, <1>3, AlwaysInService, PTL DEF Spec

=============================================================================
