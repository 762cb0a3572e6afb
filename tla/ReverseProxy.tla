----------------------------- MODULE ReverseProxy -----------------------------
(***************************************************************************)
(* The reverse proxy of src/python_proxy/reverse_proxy.py: one thread that *)
(* multiplexes its clients with select() and talks to the upstream server  *)
(* over a fresh, blocking connection for every request the cache cannot    *)
(* answer.  The parser is composed in, not abstracted: requests and        *)
(* responses are parsed by HttpMessage from the bytes that recv() returns. *)
(*                                                                         *)
(* The proxy's code runs from one system call to the next in one step; the *)
(* clients, the upstream server and the clock move between the steps.  The *)
(* two lists select() watches are sets, and a pass over a list takes its   *)
(* members in any order.  A dictionary is a total function to None or to   *)
(* the entry.                                                              *)
(***************************************************************************)
EXTENDS HttpMessage

CONSTANTS
  Client,           \* the client sockets
  BIND,             \* bind_socket
  None,             \* Python's None; a missing dictionary entry
  BUFFER,           \* the most that a recv() returns
  MAX_AGE,          \* of a cached response ("max-age=20")
  LISTEN_BACKLOG    \* listen(5)

CONSTANTS           \* the surroundings
  Script,           \* what each client sends: see Segment
  Pipeliners,       \* clients that ask again before they are answered
  Finishers,        \* clients that close their side when they sent it all
  SlowReaders,      \* clients that leave answers in the socket's buffer,
  SNDBUF,           \* which holds this much
  Uri,              \* the uris that are asked for,
  Site,             \* of which the upstream server has these
  Stamp,            \* the word a page carries for the time it was made at
  UpstreamCut,      \* where a recv() of a response may end early
  Hanging,          \* the pages the upstream server never answers for
  UPSTREAM_DELAY,   \* the longest it takes for the others
  Faults,           \* what may go wrong: see Fault
  MaxTime           \* bound: the clock stops here

\* What a segment completes, if anything: a request, as its sender meant it.
\* A malformed request has the empty uri.
Ask     == [uri : Bytes, gzip : BOOLEAN, keep : BOOLEAN]
Segment == [bytes : Bytes \ {<<>>}, ask : Ask \cup {None}]

Fault == {"reset",       \* a client resets its connection
          "refused",     \* the upstream server refuses the connection
          "broken",      \* sending the request upstream fails
          "aborted",     \* the upstream server resets the connection
          "truncated"}   \* the upstream server closes in mid-response

Job ==
  [client : Client, request : Message, response : Message,
   reply : Bytes,    \* what the upstream server answers
   got : Nat,        \* how much of it has been received
   since : Nat]      \* when it was asked

Pending == [response : Message, keep : BOOLEAN]
Cached  == [response : Message, expire : Nat]

\* what an answer says: the page it carries and when that was made
Answers == [uri : Bytes, made : Nat]

ASSUME ProxyAssumption ==
  /\ BIND \notin Client
  /\ None \notin Message \cup Ask \cup Client
  /\ None \notin Job \cup Pending \cup Cached \cup Answers
  /\ {BUFFER, LISTEN_BACKLOG, SNDBUF} \subseteq Nat \ {0}
  /\ {MAX_AGE, UPSTREAM_DELAY, MaxTime} \subseteq Nat
  /\ Script \in [Client -> Seq(Segment)]
  /\ Pipeliners \cup Finishers \cup SlowReaders \subseteq Client
  /\ Uri \subseteq {<<w>> : w \in Word}
  /\ Site \subseteq Uri
  /\ Stamp \in [0 .. MaxTime -> Word]
  /\ UpstreamCut \subseteq Nat
  /\ Faults \subseteq Fault
  /\ {"400", "404", "500", "OK"} \subseteq Word

VARIABLES
  pc,          \* where the proxy is between two of its steps
  readable,    \* what is left of the lists that select() returned
  writeable,
  job,         \* the locals of the deal_with_client() that is under way
  io_input, io_output, io_to_send, client_request_dict, cache,
  conn,        \* the proxy's side of each client connection
  peer,        \* the client's side
  unsent,      \* the rest of each client's script
  inbox,       \* received by the kernel, not yet by the proxy
  unread,      \* sent by the proxy, not yet taken by a slow reader
  now,
  asked,       \* the requests each client has sent completely (history)
  received     \* the responses sent to each client (history)

loop    == <<pc, readable, writeable, job>>
watched == <<io_input, io_output>>
tables  == <<io_to_send, client_request_dict, cache>>
sockets == <<conn, peer, unsent, inbox, unread>>
history == <<asked, received>>
vars    == <<loop, watched, tables, sockets, now, history>>

\* An exception that nothing catches ends the proxy, and every connection.
Raised == {"recv raised", "send raised", "connect raised", "upstream raised",
           "parse raised"}
PC     == {"loop", "reject", "connect", "forward", "await"} \cup Raised

Init ==
  /\ pc = "loop"
  /\ readable = {} /\ writeable = {}
  /\ job = None
  /\ io_input = {BIND} /\ io_output = {}
  /\ io_to_send = [c \in Client |-> None]
  /\ client_request_dict = [c \in Client |-> None]
  /\ cache = [u \in Uri |-> None]
  /\ conn = [c \in Client |-> "new"]
  /\ peer = [c \in Client |-> "sending"]
  /\ unsent = Script
  /\ inbox = [c \in Client |-> <<>>]
  /\ unread = [c \in Client |-> 0]
  /\ now = 0
  /\ asked = [c \in Client |-> <<>>]
  /\ received = [c \in Client |-> <<>>]

-----------------------------------------------------------------------------
(* The clients and the clock.                                               *)

\* the connections do not outlive the proxy
IsUp == pc \notin Raised

Waiting == {c \in Client : conn[c] = "pending"}

Connect(c) ==
  /\ IsUp
  /\ conn[c] = "new"
  /\ Cardinality(Waiting) < LISTEN_BACKLOG
  /\ conn' = [conn EXCEPT ![c] = "pending"]
  /\ UNCHANGED <<loop, watched, tables, peer, unsent, inbox, unread, now, history>>

\* A client with manners asks again only when it has its answer.
Arrive(c) ==
  /\ IsUp
  /\ conn[c] \in {"pending", "open"}
  /\ peer[c] = "sending"
  /\ unsent[c] # <<>>
  /\ c \in Pipeliners \/ Len(received[c]) = Len(asked[c])
  /\ LET seg == Head(unsent[c])
     IN  /\ inbox' = [inbox EXCEPT ![c] = @ \o seg.bytes]
         /\ asked' = IF seg.ask = None THEN asked
                     ELSE [asked EXCEPT ![c] = Append(@, seg.ask)]
  /\ unsent' = [unsent EXCEPT ![c] = Tail(@)]
  /\ UNCHANGED <<loop, watched, tables, conn, peer, unread, now, received>>

\* After the last request, or in the middle of one: shutdown(SHUT_WR), the
\* client still reads.  One that closes for good before it has its answer, so
\* that the kernel refuses what is sent to it, is a Reset.
HalfClose(c) ==
  /\ IsUp
  /\ c \in Finishers
  /\ conn[c] \in {"pending", "open"}
  /\ peer[c] = "sending"
  /\ peer' = [peer EXCEPT ![c] = "fin"]
  /\ UNCHANGED <<loop, watched, tables, conn, unsent, inbox, unread, now, history>>

\* Whether what had arrived before the reset can still be read is up to the
\* kernel.
Reset(c) ==
  /\ IsUp
  /\ "reset" \in Faults
  /\ conn[c] \in {"pending", "open"}
  /\ peer[c] # "reset"
  /\ peer' = [peer EXCEPT ![c] = "reset"]
  /\ \E kept \in {<<>>, inbox[c]} : inbox' = [inbox EXCEPT ![c] = kept]
  /\ UNCHANGED <<loop, watched, tables, conn, unsent, unread, now, history>>

Drain(c) ==
  /\ IsUp
  /\ unread[c] > 0
  /\ unread' = [unread EXCEPT ![c] = 0]
  /\ UNCHANGED <<loop, watched, tables, conn, peer, unsent, inbox, now, history>>

Tick ==
  /\ IsUp
  /\ now < MaxTime
  /\ pc = "await" => now < job.since + UPSTREAM_DELAY
  /\ now' = now + 1
  /\ UNCHANGED <<loop, watched, tables, sockets, history>>

Surroundings ==
  \/ \E c \in Client : \/ Connect(c) \/ Arrive(c) \/ HalfClose(c)
                        \/ Reset(c) \/ Drain(c)
  \/ Tick

-----------------------------------------------------------------------------
(* The main loop: one select(), then a pass over each of its lists.         *)

\* send() or sendall() on a client socket, which does not block: it succeeds
\* when the buffer takes all of it.  All or nothing: the part of a response
\* that sendall() delivers before it raises, and a send() that takes only a
\* part, are left out.
Size(m)    == 1 + Len(m.body)    \* the head of a response counts as one
Room(c, m) == unread[c] + Size(m) <= SNDBUF
CanSend(c, m) ==
  /\ conn[c] = "open"
  /\ peer[c] # "reset"
  /\ Room(c, m)

Delivered(c, m) ==
  /\ received' = [received EXCEPT ![c] = Append(@, m)]
  /\ unread' = IF c \in SlowReaders
               THEN [unread EXCEPT ![c] = @ + Size(m)] ELSE unread

SlipCleanTables(c) ==
  /\ conn' = [conn EXCEPT ![c] = "closed"]
  /\ io_input' = io_input \ {c}
  /\ io_output' = io_output \ {c}
  /\ UNCHANGED client_request_dict

SlipCleanLists(c) ==
  /\ conn' = [conn EXCEPT ![c] = "closed"]
  /\ client_request_dict' = [client_request_dict EXCEPT ![c] = None]
  /\ io_input' = io_input \ {c}
  /\ UNCHANGED io_output

\* clean_client_sock(c): there is no io_to_send.pop()
Clean(c) ==
  /\ conn' = [conn EXCEPT ![c] = "closed"]
  /\ client_request_dict' = [client_request_dict EXCEPT ![c] = None]
  /\ io_input' = io_input \ {c}
  /\ io_output' = io_output \ {c}

SlipToRead == {c \in Client : inbox[c] # <<>> \/ peer[c] # "sending"}
ToRead  == {c \in Client : inbox[c] # <<>> \/ peer[c] # "sending"}
           \cup (IF Waiting = {} THEN {} ELSE {BIND})
SlipToWrite == {c \in Client : inbox[c] = <<>> /\ unread[c] < SNDBUF}
ToWrite == {c \in Client : unread[c] < SNDBUF \/ peer[c] = "reset"}

\* A descriptor of the second list that has nothing to send is passed over.
Writes == {c \in writeable : io_to_send[c] # None}

Select ==
  /\ pc = "loop"
  /\ readable = {} /\ Writes = {}
  /\ readable' = io_input \cap ToRead
  /\ writeable' = io_output \cap ToWrite
  /\ readable' \cup writeable' # {}
  /\ UNCHANGED <<pc, job, watched, tables, sockets, now, history>>

Accept ==
  /\ pc = "loop"
  /\ BIND \in readable
  /\ readable' = readable \ {BIND}
  /\ \E c \in Waiting :
       /\ conn' = [conn EXCEPT ![c] = "open"]
       /\ io_input' = io_input \cup {c}
       /\ io_output' = io_output \cup {c}
  /\ UNCHANGED <<pc, writeable, job, tables, peer, unsent, inbox, unread, now,
                 history>>

\* send_response(c), when the pass over the first list is over
SendResponse(c) ==
  /\ pc = "loop"
  /\ readable = {}
  /\ c \in Writes
  /\ writeable' = writeable \ {c}
  /\ io_to_send' = [io_to_send EXCEPT ![c] = None]
  /\ IF CanSend(c, io_to_send[c].response)
     THEN /\ Delivered(c, io_to_send[c].response)
          /\ IF io_to_send[c].keep
             THEN UNCHANGED <<conn, client_request_dict, watched>>
             ELSE Clean(c)
          /\ UNCHANGED pc
     ELSE /\ pc' = "send raised"
          /\ UNCHANGED <<received, unread, conn, client_request_dict, watched>>
  /\ UNCHANGED <<readable, job, cache, peer, unsent, inbox, now, asked>>

-----------------------------------------------------------------------------
(* deal_with_client(c), up to its first system call after recv().           *)

\* the request c has begun, or a new one
ClientRequest(c) == IF client_request_dict[c] = None
                    THEN NewMessage("REQUEST") ELSE client_request_dict[c]

\* what recv(BUFFER) returns; nothing when the client has closed
Chunk(c)  == SubSeq(inbox[c], 1, Min({BUFFER, Len(inbox[c])}))
Parsed(c) == Parse(ClientRequest(c), Chunk(c))

Recv(c) ==
  /\ pc = "loop"
  /\ c \in readable
  /\ inbox[c] # <<>> \/ peer[c] = "fin"
  /\ readable' = readable \ {c}
  /\ inbox' = [inbox EXCEPT ![c] = After(@, Len(Chunk(c)))]
  /\ UNCHANGED <<writeable, peer, unsent, unread, now, history, cache>>

RecvRaises(c) ==
  /\ pc = "loop"
  /\ c \in readable
  /\ inbox[c] = <<>> /\ peer[c] = "reset"
  /\ pc' = "recv raised"
  /\ readable' = readable \ {c}
  /\ client_request_dict' = [client_request_dict EXCEPT ![c] = ClientRequest(c)]
  /\ UNCHANGED <<writeable, job, watched, io_to_send, cache, sockets, now, history>>

\* The part of the job that is known before the upstream server answers.
JobOf(c, request) ==
  [client |-> c, request |-> request, response |-> NewMessage("RESPONSE"),
   reply |-> <<>>, got |-> 0, since |-> now]

Keep(c) == client_request_dict' = [client_request_dict EXCEPT ![c] = Parsed(c).m]

SlipReject(c) ==
  /\ Recv(c)
  /\ Parsed(c).raised
  /\ Keep(c)
  /\ pc' = "parse raised"
  /\ UNCHANGED <<job, watched, io_to_send, conn>>

\* the except clause; the request stays in the table as it is
Reject(c) ==
  /\ Recv(c)
  /\ Parsed(c).raised
  /\ Keep(c)
  /\ pc' = "reject"
  /\ job' = JobOf(c, Parsed(c).m)
  /\ UNCHANGED <<watched, io_to_send, conn>>

SlipClientGone(c) ==
  /\ Recv(c)
  /\ ~ Parsed(c).raised
  /\ Chunk(c) = <<>>
  /\ Keep(c)
  /\ UNCHANGED <<pc, job, watched, io_to_send, conn>>

ClientGone(c) ==
  /\ Recv(c)
  /\ ~ Parsed(c).raised
  /\ Chunk(c) = <<>>
  /\ Clean(c)
  /\ UNCHANGED <<pc, job, io_to_send>>

Fragment(c) ==
  /\ Recv(c)
  /\ ~ Parsed(c).raised
  /\ Chunk(c) # <<>>
  /\ Parsed(c).m.parser_state # "END"
  /\ Keep(c)
  /\ UNCHANGED <<pc, job, watched, io_to_send, conn>>

Completes(c) ==
  /\ Recv(c)
  /\ ~ Parsed(c).raised
  /\ Chunk(c) # <<>>
  /\ Parsed(c).m.parser_state = "END"

\* retrieve_cache(req) finds a response that has not expired
SlipIsCached(uri) == uri \in Uri /\ cache[uri] # None
IsCached(uri) ==
  /\ uri \in Uri
  /\ cache[uri] # None
  /\ now <= cache[uri].expire

CacheHit(c) ==
  /\ Completes(c)
  /\ IsCached(Parsed(c).m.uri)
  /\ io_to_send' = [io_to_send EXCEPT ![c] =
                      [response |-> cache[Parsed(c).m.uri].response,
                       keep |-> ShouldKeepAlive(Parsed(c).m)]]
  /\ client_request_dict' = [client_request_dict EXCEPT ![c] = None]
  /\ UNCHANGED <<pc, job, watched, conn>>

CacheMiss(c) ==
  /\ Completes(c)
  /\ ~ IsCached(Parsed(c).m.uri)
  /\ Keep(c)
  /\ pc' = "connect"
  /\ job' = JobOf(c, Parsed(c).m)
  /\ UNCHANGED <<watched, io_to_send, conn>>

-----------------------------------------------------------------------------
(* The rest of deal_with_client(): the client is job.client.                *)

StatusOnly(code) ==
  [NewMessage("RESPONSE") EXCEPT !.version = <<"HTTP/1.1">>,
                                 !.status_code = <<code>>]
BAD_REQUEST_MSG       == StatusOnly("400")
INTERNAL_SERVER_ERROR == StatusOnly("500")

SlipSendError(m) ==
  /\ CanSend(job.client, m)
  /\ Delivered(job.client, m)
  /\ pc' = "await"
  /\ UNCHANGED <<job, readable, writeable, watched, io_to_send, cache, conn, peer,
                 unsent, inbox, now, asked>>

\* client_socket.send(m), and return
SendError(m) ==
  /\ IF CanSend(job.client, m)
     THEN /\ Delivered(job.client, m)
          /\ pc' = "loop"
          /\ job' = None
     ELSE /\ pc' = "send raised"
          /\ UNCHANGED <<received, unread, job>>
  /\ UNCHANGED <<readable, writeable, watched, io_to_send, cache, conn, peer,
                 unsent, inbox, now, asked>>

SendBadRequest ==
  /\ pc = "reject"
  /\ SendError(BAD_REQUEST_MSG)
  /\ UNCHANGED client_request_dict

ConnectUpstream ==
  /\ pc = "connect"
  /\ \/ pc' = "forward"
     \/ "refused" \in Faults /\ pc' = "connect raised"
  /\ UNCHANGED <<readable, writeable, job, watched, tables, sockets, now, history>>

\* the finally clause
SlipForget(c) == UNCHANGED client_request_dict
Forget(c) == client_request_dict' = [client_request_dict EXCEPT ![c] = None]

\* What the upstream server answers to the bytes it receives, at time t.
UpstreamReply(bytes, t) ==
  LET uri    == Parse(NewMessage("REQUEST"), bytes).m.uri
      status == IF uri \in Site THEN "200" ELSE "404"
      name   == IF uri \in Uri THEN uri ELSE <<>>
  IN  <<"HTTP/1.0", SP, status, SP, "OK", LF, LF>> \o name \o <<Stamp[t]>>

Forward ==
  /\ pc = "forward"
  /\ pc' = "await"
  /\ job' = [job EXCEPT !.reply = UpstreamReply(ToBytes(job.request), now),
                        !.since = now]
  /\ Forget(job.client)
  /\ UNCHANGED <<readable, writeable, watched, io_to_send, cache, sockets, now,
                 history>>

ForwardFails ==
  /\ pc = "forward"
  /\ "broken" \in Faults
  /\ SendError(INTERNAL_SERVER_ERROR)
  /\ Forget(job.client)

\* where the next recv() of the response may end
ChunkEnds ==
  LET most == Min({job.got + BUFFER, Len(job.reply)})
  IN  {most} \cup {q \in UpstreamCut : job.got < q /\ q < most}

IsAnswered == job.request.uri \notin Hanging

RecvUpstream ==
  /\ pc = "await"
  /\ IsAnswered
  /\ job.got < Len(job.reply)
  /\ \E q \in ChunkEnds :
       LET r == Parse(job.response, SubSeq(job.reply, job.got + 1, q))
       IN  /\ job' = [job EXCEPT !.response = r.m, !.got = q]
           /\ pc' = IF r.raised THEN "parse raised" ELSE pc
  /\ UNCHANGED <<readable, writeable, watched, tables, sockets, now, history>>

RecvUpstreamRaises ==
  /\ pc = "await"
  /\ "aborted" \in Faults
  /\ pc' = "upstream raised"
  /\ UNCHANGED <<readable, writeable, job, watched, tables, sockets, now, history>>

AllowGzip(req) ==
  \E p \in req.headers : p[1] = <<"Accept-Encoding">> /\ "gzip" \in Range(p[2])

SlipCompressResponseGzip(res) ==
  IF res.body = <<>> THEN res
  ELSE AddHeader([res EXCEPT !.body = <<"<gzip>">> \o @],
                 <<"Content-Length">>, <<"<length>">>)

CompressResponseGzip(res) ==
  IF res.body = <<>> THEN res
  ELSE AddHeader(AddHeader([res EXCEPT !.body = <<"<gzip>">> \o @],
                           <<"Content-Encoding">>, <<"gzip">>),
                 <<"Content-Length">>, <<"<length>">>)

SlipMaybeCacheAnyStatus(req, res) ==
  [cache EXCEPT ![req.uri] = [response |-> res, expire |-> now + MAX_AGE]]

\* maybe_cache(req, res).  The Cache-Control header it looks up is the one
\* that was just added, so its max-age is always found.
MaybeCache(req, res) ==
  IF req.method = <<"GET">> /\ res.status_code = <<"200">>
  THEN [cache EXCEPT ![req.uri] = [response |-> res, expire |-> now + MAX_AGE]]
  ELSE cache

\* recv() returns nothing: the upstream server has closed
Answer ==
  /\ pc = "await"
  /\ IsAnswered
  /\ job.got = Len(job.reply) \/ "truncated" \in Faults
  /\ LET response == AddHeader(IF AllowGzip(job.request)
                               THEN CompressResponseGzip(job.response)
                               ELSE job.response,
                               <<"Cache-Control">>, <<"max-age">>)
     IN  /\ cache' = MaybeCache(job.request, response)
         /\ io_to_send' = [io_to_send EXCEPT ![job.client] =
                             [response |-> response,
                              keep |-> ShouldKeepAlive(job.request)]]
  /\ pc' = "loop"
  /\ job' = None
  /\ UNCHANGED <<readable, writeable, watched, client_request_dict, sockets, now,
                 history>>

-----------------------------------------------------------------------------
DealWithClient(c) ==
  \/ RecvRaises(c) \/ Reject(c) \/ ClientGone(c) \/ Fragment(c)
  \/ CacheHit(c) \/ CacheMiss(c)

Proxy ==
  \/ Select \/ Accept
  \/ \E c \in Client : DealWithClient(c) \/ SendResponse(c)
  \/ SendBadRequest \/ ConnectUpstream \/ Forward \/ ForwardFails
  \/ RecvUpstream \/ RecvUpstreamRaises \/ Answer

Next == Surroundings \/ Proxy

Spec == Init /\ [][Next]_vars

\* The proxy can take a step that does something: its thread is neither gone
\* nor waiting, and does not just poll the same idle sockets once more.
Ready ==
  \/ /\ pc = "loop"
     /\ readable # {} \/ Writes # {} \/ io_input \cap ToRead # {}
        \/ io_output \cap ToWrite \notin {{}, writeable}
  \/ pc \in {"reject", "connect", "forward"}
  \/ pc = "await" /\ IsAnswered

\* The proxy's thread is scheduled: weak fairness of Proxy, with its enabling
\* condition written out (TLC's ENABLED would parse the bytes once more for
\* every use of them).  The upstream server closes after its last byte.
\* Nothing is assumed of the clients.
FairSpec ==
  /\ Spec
  /\ []<> ~ Ready \/ []<> <<Proxy>>_loop
  /\ WF_vars(Answer)

-----------------------------------------------------------------------------
(* Clients whose requests are what they say.                                *)

\* the beginning of a request that the first k segments of s leave
Unfinished(s) ==
  LET f[k \in 0 .. Len(s)] ==
        IF k = 0 THEN <<>>
        ELSE IF s[k].ask # None THEN <<>> ELSE f[k - 1] \o s[k].bytes
  IN  f

ReadAs(bytes) == Parse(NewMessage("REQUEST"), bytes)

IsBegun(y) == ~ ReadAs(y).raised /\ ReadAs(y).m.parser_state # "END"

\* not even a request line
IsMalformed(y) == ReadAs(y).raised /\ ReadAs(y).m.parser_state = "START"

IsRequest(y, ask) ==
  LET r == ReadAs(y)
  IN  /\ ~ r.raised
      /\ r.m.parser_state = "END"
      /\ r.m.uri = ask.uri /\ ask.uri \in Uri
      /\ AllowGzip(r.m) = ask.gzip
      /\ ShouldKeepAlive(r.m) = ask.keep

\* A segment that is said to complete a request does, and no other.
IsTruthful(s) ==
  \A k \in 1 .. Len(s) :
    LET ask == s[k].ask
        y   == Unfinished(s)[k - 1] \o s[k].bytes
    IN  \/ ask = None /\ IsBegun(y)
        \/ ask # None /\ IsRequest(y, ask)
        \/ ask # None /\ ask.uri = <<>> /\ ask.keep /\ IsMalformed(y)

\* With k segments sent, a recv() may end n bytes behind where their last
\* request begins: that is where a segment ended, or some full buffers on.
IsCut(s, k, n) ==
  \E j \in 0 .. k : \E m \in 0 .. n :
    /\ \A i \in j + 1 .. k : s[i].ask = None
    /\ n = Len(Unfinished(s)[j]) + m * BUFFER

\* y ends inside a line, of which parse() keeps what there is
EndsInside(y) == ReadAs(y).m.residual # <<>>

\* If a recv() ends inside a line, so does the next one, unless it completes a
\* request: parse() would read the line twice.  A malformed one is not cut
\* inside its line, of which the next request would have what was kept.
IsCutWell(s) ==
  \A k \in 1 .. Len(s) :
    LET ask  == s[k].ask
        y    == Unfinished(s)[k - 1] \o s[k].bytes
        Cuts == IF ask = None THEN {n \in 0 .. Len(y) : IsCut(s, k, n)}
                ELSE {n \in 0 .. Len(y) - 1 : IsCut(s, k - 1, n)}
        Start(n) == SubSeq(y, 1, n)
    IN  \A n \in Cuts :
          /\ IsBegun(Start(n))
          /\ EndsInside(Start(n)) =>
               /\ \A o \in Cuts : n <= o => EndsInside(Start(o))
               /\ ask # None => ask.uri # <<>>

-----------------------------------------------------------------------------
TypeOK ==
  /\ pc \in PC
  /\ readable \subseteq Client \cup {BIND}
  /\ writeable \subseteq Client
  /\ job \in Job \cup {None}
  /\ io_input \subseteq Client \cup {BIND}
  /\ io_output \subseteq Client
  /\ io_to_send \in [Client -> Pending \cup {None}]
  /\ client_request_dict \in [Client -> Message \cup {None}]
  /\ cache \in [Uri -> Cached \cup {None}]
  /\ conn \in [Client -> {"new", "pending", "open", "closed"}]
  /\ peer \in [Client -> {"sending", "fin", "reset"}]
  /\ unsent \in [Client -> Seq(Segment)]
  /\ inbox \in [Client -> Bytes]
  /\ unread \in [Client -> 0 .. SNDBUF]
  /\ now \in 0 .. MaxTime
  /\ asked \in [Client -> Seq(Ask)]
  /\ received \in [Client -> Seq(Message)]

Open == {c \in Client : conn[c] = "open"}

\* The two watch lists and the set of open connections stay one and the same
\* through every accept and every close in the middle of a pass, and a pass
\* reads only what is still watched.  select() raises on a closed socket, and
\* list.remove() on one that is not there.
WatchListsConsistent ==
  /\ io_input = Open \cup {BIND}
  /\ io_output = Open
  /\ readable \subseteq io_input

\* A request in client_request_dict belongs to an open connection, and one
\* that is complete is being dealt with: no later recv() is parsed into a
\* request that has been answered (lines 86-87, 117, 138 and 67).
RequestsAreLive ==
  \A c \in Client : client_request_dict[c] # None =>
    /\ c \in Open
    /\ client_request_dict[c].parser_state = "END" =>
         /\ pc \in {"connect", "forward", "connect raised"}
         /\ job.client = c
         /\ job.request = client_request_dict[c]

\* clean_client_sock "deletes it from anywhere necessary" (lines 61-62): no
\* table has anything of a closed connection.
CleanedEverywhere ==
  \A c \in Client : conn[c] = "closed" =>
    /\ c \notin io_input \cup io_output
    /\ client_request_dict[c] = None
    /\ io_to_send[c] = None

\* the page a response carries, of what uri and from when
IsPage(m)  == m.status_code \in {<<"200">>, <<"404">>} /\ Len(m.body) >= 2
PageUri(m) == <<m.body[Len(m.body) - 1]>>
MadeAt(m)  == CHOOSE t \in 0 .. MaxTime : Stamp[t] = m.body[Len(m.body)]

AsAnswer(m) ==
  IF IsPage(m) THEN [uri |-> PageUri(m), made |-> MadeAt(m)]
  ELSE [uri |-> IF m = BAD_REQUEST_MSG THEN <<>> ELSE m.status_code, made |-> 0]

Service == INSTANCE ProxyService WITH
  Request  <- (UNION {{Script[c][k].ask : k \in DOMAIN Script[c]} : c \in Client})
              \ {None},
  MaxAge   <- MAX_AGE + UPSTREAM_DELAY,
  prepared <- [c \in Client |-> IF io_to_send[c] = None THEN None
                                ELSE AsAnswer(io_to_send[c].response)],
  received <- [c \in Client |-> [k \in DOMAIN received[c] |-> AsAnswer(received[c][k])]]

\* Each client gets the answers to its own requests, in their order, each from
\* the page it asked for as it was no longer ago than max-age allows; none is
\* let go while it is owed an answer.  This holds although requests come in
\* pieces, are interleaved with others' and are served by the cache, where a
\* hit must not prolong an entry's life.
ImplementsService == Service!Spec

\* A pass over the readable sockets is answered in the pass over the
\* writeable ones that follows it: when select() is called again no response
\* waits, so none is overwritten by the next request's (lines 116 and 156).
NothingLeftToSend ==
  pc = "loop" /\ readable = {} /\ Writes = {} =>
    \A c \in Client : io_to_send[c] = None

\* The cache holds, under each uri, a whole page of that uri with status 200,
\* and for no longer than its max-age from when it was stored.
CacheHoldsPages ==
  \A u \in Uri : cache[u] # None =>
    /\ cache[u].response.status_code = <<"200">>
    /\ IsPage(cache[u].response) /\ PageUri(cache[u].response) = u
    /\ cache[u].expire <= now + MAX_AGE

\* A body is compressed at most once, and exactly when the response says so,
\* also when the response goes through the cache, which is keyed by uri alone:
\* some request for the page has allowed it, if not the one it answers.
EncodingIsDeclared ==
  \A c \in Client : \A k \in DOMAIN received[c] :
    LET m == received[c][k]
        zips == {i \in DOMAIN m.body : m.body[i] = "<gzip>"}
    IN  /\ Cardinality(zips) <= 1
        /\ zips # {} <=> <<<<"Content-Encoding">>, <<"gzip">>>> \in m.headers
        /\ zips # {} => \E d \in Client : \E n \in DOMAIN asked[d] :
                          asked[d][n].uri = asked[c][k].uri /\ asked[d][n].gzip

\* Nothing a client sends ends the proxy as long as sockets work: malformed
\* requests, requests in pieces, and clients that close in the middle of one.
\* The pieces of a response must be cut between lines: the call of parse() at
\* line 147 is in no try, and raises on what a stale residual makes of the
\* empty line when a cut inside the status line precedes one at its end.
ProxySurvives == IsUp

\* An answer leaves its connection as the request wanted it, open or closed
\* (line 176 and should_keep_alive()).
KeptAsAsked ==
  [][\A c \in Client : received'[c] # received[c] =>
       (conn'[c] = "open" <=> asked[c][Len(received'[c])].keep)]_vars

\* Every request that has arrived for a page the upstream server answers for
\* is answered, also when its client closes its side in the meantime.
Served ==
  \A c \in Client : \A k \in 1 .. Len(Script[c]) :
    Len(asked[c]) >= k /\ asked[c][k].uri \notin Hanging
      ~> Len(received[c]) >= k

\* A client that closes its side is let go.
GoneIsClosed ==
  \A c \in Client : peer[c] = "fin" ~> conn[c] = "closed"

\* Whatever breaks, a client gets no more answers than it asked for, unless it
\* pipelines and a request is cut more than once: what is behind a request in
\* the same recv() is lost, and each piece of the rest may be a malformed one.
NoExtraAnswers == \A c \in Client : Len(received[c]) <= Len(asked[c])

=============================================================================
