# A verification of the VPN-progression repository

The repository collects small network programs: an HTTP reverse proxy in
Python, a DNS client, a UDP echo pair, a hash map, a dynamic array, a packet
capture analyser and a region allocator in C. This directory holds TLA+ models of them, the
configurations that model-check them, and theorems about them that TLAPS checks.
Line numbers refer to the files under `src/`.

## 1. Inventory

| component | state | operations | interacts with |
|---|---|---|---|
| HTTP parser (`python_proxy/http_parser.py`) | an `HttpMessage`: parser state, residual, headers, body | `parse`, `add_header`, `to_bytes`, `should_keep_alive` | called by the proxy with what `recv()` returned |
| reverse proxy (`python_proxy/reverse_proxy.py`) | `io_input`, `io_output`, `io_to_send`, `client_request_dict`, `cache`, and one request under way | the select loop, `deal_with_client`, `send_response`, `clean_client_sock`, `retrieve_cache`, `maybe_cache`, `compress_response_gzip` | clients over sockets that do not block, the upstream server over one that does, the clock |
| hash map (`basics/hashmap.c`) | a table of buckets | set, get, delete, resize, free | its caller |
| dynamic array (`basics/dynamic_array.c`) | `items`, `size`, `capacity` | push, pop, set, get, size, free | its caller and `realloc()` |
| DNS client (`basics/dns_client_mac.c`, `basics/dns.h`) | `retry_count`, the buffer | send the query, receive, send again, decode | the server 8.8.8.8 over UDP |
| UDP shout (`basics/shout_server_mac.c`, `basics/shout_client_mac.c`) | the server's `message_count`, a client's `line` | receive and echo; read a line, send, receive | each other over UDP |
| pcap analyser (`pcap/*.c`, `pcap/*.h`) | the position in the file, the length that remains of a packet, counters | read headers, walk the packets | a capture file, in either byte order |
| arena (`vpn/arena.h`, with an example) | a list of regions and its end | alloc, realloc, snapshot, rewind, reset, trim, free, append to an array | its caller and `malloc()` |
| select echo test (`python_proxy/io_multiplex_simple_test.py`) | three lists and a dictionary | the select loop | clients |

`basics/windows c file/` has the DNS and shout programs once more for Windows;
the models are of both. `temp.py` and `playground.c` are scratch files.

What is hard in each, and what makes it correct:

- **Parser.** A message comes in pieces, cut anywhere. Correct if the pieces make
  no difference, if nothing is read twice, and if the empty piece of a closed
  connection does no harm.
- **Proxy.** One thread, several connections, a pass over two lists that `select()`
  returned earlier, connections closed in the middle of a pass, a request half
  parsed while others are served, a cache that expires, an upstream exchange that
  blocks, system calls that raise. Correct if lists, tables and connections agree
  at every point, if each client gets the answers to its own requests in order, if
  the cache holds fresh and complete pages, and if everyone is served in the end.
- **Hash map.** Deletions leave holes in probe sequences, and a resize sets items
  that may resize again. Correct if it is a map.
- **Dynamic array.** Growth at the boundary, a `realloc()` that fails, ints that
  overflow. Correct if it is a list for as long as there are resources.
- **DNS client, shout.** Datagrams are lost, delayed and reordered, calls fail,
  `recvfrom()` waits without a timeout, retries count. Correct if what is printed
  belongs to what was asked, if the retries are bounded, and if the server ends.
- **pcap analyser.** Lengths of 8 and 32 bits that wrap, a file in the other byte
  order, reads that end behind the file and are not noticed. Correct if payload is
  never taken for a header, if the counts are right, and if the walk ends.
- **Arena.** Regions are skipped, emptied, freed and used again; marks outlive the
  regions behind them. Correct if what the caller still uses stays its own.

The `hazards` of `PROJECT.json` list these behaviours at the line where they bite.

## 2. Modules

| module | models | how |
|---|---|---|
| `HttpMessage` | the parser | operators over records: a message is a record with the class's fields, `Parse(m, chunk)` is `parse()` and returns the message and whether it raised |
| `HttpFragments`, `MCHttpFragments` | one message fed piece by piece | `Recv` parses any non-empty piece of what is left, `Fin` the empty one |
| `ProxyService` | what the proxy promises, abstractly | no sockets, lists, parser or cache: ask, prepare, deliver |
| `ReverseProxy`, `MCReverseProxy` | the proxy, its clients, the upstream server and the clock | composes `HttpMessage`; an action per system call of the thread |
| `KeyValueMap` | a map, abstractly | a set begins and is done; nothing else changes the map in between |
| `Djb2` | the hash function | in two halves of 16 bits |
| `Hashmap`, `MCHashmap` | the hash map | tables are functions; an action per call, and for a set one per round of its loops, with a stack for the resizes within resizes |
| `List` | a list, abstractly | |
| `DynamicArray`, `MCDynamicArray` | the dynamic array | a block is a function from the indices it has room for; an action per call and outcome |
| `DnsMessage` | encoding of names, reading of answers | operators over sequences of octets |
| `DnsClient` | the retry loop, the network and the server | an action per system call; composes `DnsMessage` |
| `DnsNames`, `MCDnsClient` | names typed character by character | extends `DnsClient`: what it asks about the client's own name is asked of every name up to a length too |
| `Shout`, `MCShout` | server, clients, network | an action per system call |
| `PcapAnalyzer`, `MCPcapAnalyzer` | the analyser and the file | an action per header that is read |
| `Arena`, `MCArena` | the allocator, its caller and the array macros | a list of counts and capacities; an action per call |
| `HttpMessageProofs`, `HttpFragmentsProofs`, `ReverseProxyProofs`, `ContainerProofs`, `PcapAnalyzerProofs`, `ArenaProofs`, `DnsClientProofs`, `ShoutProofs` | | theorems |

Conventions. State variables, operations and constants have the names they have
in the source. Code between two system calls runs in one step; the surroundings
move between the steps. Definitions named `Slip*` are the code with a plausible
mistake in it: each property of a run is violated when the definition of the same
name without `Slip` is replaced by it. Variables marked *history* are not in the
program and are read by no guard, with two exceptions that stand for what the
surroundings know (`received` and `asked` tell a client with manners whether it
has been answered).

### The parser and the proxy

Bytes are tokens: words, the delimiters (space, colon, CR, LF), and single
characters where a cut may fall. `parse()` is followed line by line: the residual
is prefixed and, as in the code (lines 52 and 80 compare where an assignment was
meant), never cleared; an unfinished line is kept; a request ends at the blank
line; a body never does. The status message, which is read and never used, is
left out.

A step of the proxy goes from one system call to the next: `Select`, `Accept`,
`Recv` with its continuations (`Reject`, `ClientGone`, `Fragment`, `CacheHit`,
`CacheMiss`, `RecvRaises`), `ConnectUpstream`, `Forward`/`ForwardFails`,
`RecvUpstream`, `Answer`, `SendResponse`. `readable` and `writeable` are what is
left of the two lists of the last `select()`; a client that is cleaned in the
pass over the first may still be in the second, as in the code. Exceptions that
nothing catches end the proxy (`pc` in `Raised`). Compression puts a token in
front of the body; the time a page was made at is a token of its body, so the
freshness of what a client gets can be stated.

`ProxyService` knows none of this. A client asks, an answer to just that request is
prepared from a page that was current no longer than `MaxAge` ago, and it is delivered;
a malformed request is refused; a connection is kept or closed as the request says;
a client that is owed an answer is not let go. `ReverseProxy!Service` instantiates
it: what is `asked` comes from the scripts, what is `prepared` is the entry in
`io_to_send`, read back as the page it holds and the time in its body, and what is
`received` likewise. `ImplementsService` is the refinement. A page may be as old as
`MAX_AGE` and the time the exchange took before it was cached (`UPSTREAM_DELAY`).

### Hash map and dynamic array

`Hashmap` has the hashes of its keys as a constant, `Djb2` computes them in 32 bits.
Probe sequences, what a getter and a setter make of them and the limits are those
of the code: `Hits` are the collisions after which `get_exist_item_index()` would
return, `Gaps` those after which `get_setter_index()` would, the first of which counts.
`Hashmap_set()` may call `Hashmap_resize()`, which calls `Hashmap_set()` for every
item, and so on. `calls` is that stack: each element is a call of `Hashmap_set()` with
its `resize_count` and the bucket its resize has come to; `tables[n]` is the
table that call `n` works on, so `tables[1]` is the map's and the last one the table being
filled. `Hashmap_resize` is the part up to the loop, `SetAgain` one round of the loop,
`ReplaceTable` what follows it, `PutItem` the rest of `Hashmap_set()`. The program has one
thread, so the caller goes on when `calls` is empty. A set that is
given no index uses `items[-1]`: `defined` is then false, and nothing is modelled after that.
An item is copied by value; memory is unbounded. `Hashmap_free` and `Free` end the use
of either structure.

In `DynamicArray` ints have `INT_MAX` as a parameter and wrap. `realloc()` returns
the old contents and fresh memory, or fails. Using memory the block does not have
makes the state `"undefined"`, after which nothing is modelled.

### DNS and shout

A datagram of `DnsClient` stands for its octets, which `DnsMessage` makes and
reads: what is printed is computed from them. The server answers with one address,
with two, with an alias and its address, or with an authority record, and points
to the question's name as servers do; or with one address behind the name written
out once more, as they may. What comes from elsewhere (`Elsewhere`) is a response,
too, of any id, the client's own constant one among them: `origin` is where a
datagram comes from, which the client does not see and only properties look at.
`response` is the datagram that ended the loop. `trouble` bounds the datagrams from
elsewhere and the failures of `recvfrom()` together.

In `Shout` a client reads pieces of a typed text (`fgets`), sends, and waits; the
datagrams to a server that is not up are gone. Each system call may fail.

### The pcap analyser

`main()` reads one header after the other, and so does `PcapAnalyzer`. A file is
where its packets begin, what their headers say and how long it is. Bytes at a
place where no header begins may look like any header: they are chosen from `Junk`,
as is what a short `fread()` leaves on the stack (lines 132, 164 and 214 do not
look at its result). The lengths have the widths of the code: `Uint8` at lines 177
and 219, `Uint32` for what remains, and `Long`, which makes of an unsigned length
the long that line 246 hands to `fseek()`, of 64 or of 32 bits. The base of a byte
is a parameter, so that a 32-bit number can be small enough to enumerate.

### The arena

`Arena` has the list of regions as a sequence, `end` as an index into it, and what
the caller was given, oldest first. Snapshots note how many blocks there were; the
caller rewinds to a mark and gives up what is younger, keeps older marks, and does
not use what it gave up. That is what the functions leave to it, and without it no
allocator of this kind is safe. The addresses are abstract: a block is a region, an
offset and a size. What is copied into it is left out. The array of
`arena_da_append` and `arena_da_append_many` is the caller's; `Doubled` is what
their loop makes of a capacity.

## 3. Runs

| run | states | what it checks |
|---|---|---|
| `fragments` | every way to cut seven messages | pieces make no difference while the cuts are clean (`CleanCutsTransparent`), the residual is a part of one line, a FIN raises and finishes nothing and changes no more than the start line of a malformed request and the end of a body, what is forwarded is what was received |
| `fragments_doc` | violation | pieces make no difference at all (`reverse_proxy.py:10`): a cut inside a line followed by one at the end of a line reads the line's beginning twice |
| `proxy` | 132,056 | with working sockets the proxy implements `ProxyService`; no trace of a client that left, what the cache holds and how answers are encoded, survival, and liveness |
| `proxy_faults` | 2,586,757 | consistency of the watch lists and tables up to the exception that ends the proxy, and no answer too many, with resets, refused, failing, hanging and truncated upstream connections, responses cut inside lines, a client that pipelines and does not read |
| `proxy_keep_doc` | violation | HTTP/1.0 connections with keep-alive are kept (`reverse_proxy.py:13`) |
| `hashmap` | 161,217 | the hash map is a map, through resizes and the resizes within them; in every table of every state keys are stored once and found; `items[-1]` is not used |
| `hashmap_lost_doc` | violation | "should be able to get all the things correctly" (`hashmap.c:322`): set probes one slot more than get |
| `dns` | 85,448 | exactly what is printed, and when it is not the server's; the limit of the retries and of the queries about; nothing waited for in vain, an answer in the end; names survive encoding and decoding, and the first record's data is found if that points at the question |
| `shout` | 304,000 | echoes match, input is sent, echoes are counted, the server ends |
| `array` | 76,000 | the array is a list and stays in its memory |
| `pcap` | 49,577 | packet headers are read where packets begin, the counts are right, the walk ends |
| `arena` | 729,154 | blocks in use do not overlap and have room, marks stay valid, the array fits its block |

Type invariants are checked in `hashmap` and proved for the parser, the proxy, the
analyser, the arena, the DNS client and the shout programs.

**Bounds.** Two clients and up to three requests each are enough for one to be
served, closed or half parsed while the other is in any state; the scripts hold
one request of every kind (whole, in pieces cut inside and between lines,
malformed, cached, expired, compressed, missing, HTTP/1.0). The clock stops at 3
with `MAX_AGE` 1, so an entry is fresh, expires and is replaced. In `proxy` responses come whole or cut
between lines (`UpstreamCut = {6}`); with a cut inside the status line before one
at its end (`{4, 6}`, as in `proxy_faults`) `ProxySurvives` does not hold, because
the stale residual of `fragments_doc` then makes `parse()` raise outside the
`try` and ends the proxy. The hash map
starts with seven buckets and gives up after four slots, of which a getter looks at
three, and after three resizes. Three of the five keys share all their slots in tables of 7, 14 and 28
buckets, and two are in their way: that is the least with which keys collide, leave holes, and
have a resize that has to resize in turn. With the constants of the source that needs
more keys than TLC can enumerate the orders of; `TenKeysCorrect` and
`SmallTablesCorrect` (section 5) are about those. Ints of four bits
(`INT_MAX` 7, from a capacity of 2) let the capacity and then the size overflow. The DNS
client has four retries for five instances of trouble, so the limit is reached and
exceeded by one; two names, one of them a part of the other, tell answers apart;
from elsewhere come answers about either with another id and with the client's own.
Behind a name of up to six characters are nothing, a second end, a label without an
end, and lengths that lead behind the end (`Following`).
Five messages, the limit of the source, and two texts with a long, an empty and an
unended line bring the shout server to its end at every point of a client's work.
In `pcap` a byte has 16 values: the numbers of four bytes are then large enough to
hold twice any length a `uint8_t` counts, and wrap within the run. The files have
up to three packets (TCP with and without options and payload, a UDP datagram,
headers of fewer than five words, an unknown protocol or family, a truncated one,
and a length that a long of 32 bits takes for a step back) and are cut off at or
inside every header of the last one. In `arena` a word
is two bytes, a region has three words, and requests of 0, 1, 4 and 7 bytes are
empty, need rounding, fit and are oversize; with three regions, four blocks and two
marks every region can be skipped, emptied, trimmed and filled again between the
taking of a mark and its use. Arrays of one-byte items grow by one and by three.
In `proxy_faults` upstream never answers for `/b`: whatever the other client was
doing, its tables are consistent while the proxy is held up.

**Deadlock** is not checked: each of these programs and its surroundings comes to
an end (requests are answered and the clock stops, the array is freed, the client
prints, the server closes).

**Fairness.** `ReverseProxy` assumes that its thread is scheduled, weak fairness of
`Proxy` with the enabling condition written out as `Ready` (evaluating ENABLED
would parse bytes for every state), and that the upstream server ends the responses
of pages it has an answer for (`WF_vars(Answer)`). Nothing is assumed of clients:
they may stop anywhere. `DnsClient` assumes that the client is scheduled whenever
something can be read and that the server answers; loss is not excluded but is part of what
`Resolved` says. `Shout` assumes that the server is scheduled and that its timeout
passes. `PcapAnalyzer` assumes that the program goes on (`WF_vars(Walk)`); that a
call fails is never relied on.

## 4. What the runs show about the code

The violations are listed as findings. Further behaviours of the code appear in
the models as the conditions of properties:

- `CleanedEverywhere` and `NothingLeftToSend` hold in `proxy`, whose clients take
  their answers. `clean_client_sock` does not touch `io_to_send` (line 67): with a client that lets its
  socket fill up and closes, an entry stays.
- The upstream socket blocks inside the loop that serves every client (line 144):
  a page that does not come holds up all of them. `Served` is stated where upstream
  ends its responses.
- A compressed response that is cached is given to clients that did not allow
  gzip: `EncodingIsDeclared` says only that some request for the page did.
- An exception of `recv()`, `connect()` or `sendall()` ends the proxy: `proxy_faults`
  checks the tables up to there, and `ProxySurvives` is stated where sockets work.
- A FIN is parsed before it is recognised (line 93): `FinIsHarmless` says what that
  changes. The residual, which is never cleared, becomes the start line of a request
  whose first line is not complete or raised, and is added to a body. The request is
  dropped right afterwards, so nobody gets to see it.
- `PrintsItsAddress` accepts the data of another record: the type of the first
  record is not looked at. Of a record that repeats the name it is printed more than
  the message has: the first zero octet is the end of that name (line 279), and the
  length is read from an octet too early, as 60 * 256 (`DataOf`). And it excepts
  datagrams from elsewhere with the id 100: that is a constant (line 138), and neither
  line 228 nor line 242 looks at the sender, so such a datagram, a late answer to an
  earlier run for example, is printed for the answer. `Resolved` stops short of the retry limit: the answer
  to the last retry is not waited for. `NeverWaitsInVain` excepts lost datagrams:
  `recvfrom()` has no timeout.
- `StaysAligned` and `Ends` hold of any file with a `long` of 64 bits: what is
  skipped and what is deducted cancel out even when they wrap. With one of 32 bits
  (line 246) they need packets that hold the headers they speak of: a length that
  wrapped below zero goes back in the file, and a corrupt one can do so for ever.
- `CountsAreRight` is stated of files of TCP packets in the host's byte order. UDP,
  ICMP and the other protocols of line 191 are read as TCP and may count; the family
  of the link layer is not swapped (line 136), so a file in the other byte order is
  refused at its first packet although its packet headers are swapped.
- `arena_trim()` reads through `end` (line 442), which is NULL until something was
  allocated; `Trim` has that as its guard.
- `SizeIsItems` and `ImplementsList` end when resources are exhausted: a `realloc()` that fails
  replaces `items` by NULL (line 41) and `size` still counts them.
- `EchoesMatch` excepts clients one of whose calls has failed: they print the echo
  of one line for the next.

## 5. Proofs

All proofs hold for every value of the constants that the named assumptions allow;
a hypothesis beyond them is part of the theorem and is named below.

- **`HttpMessageProofs`** is about `parse()` alone. `ParseType`: whatever it is given,
  it raises or leaves a well-formed message. `ParseResidual`: no line end gets into the
  residual. `ParseFormed`: a request it has read to the end has a start line of three
  parts and headers that can be written out again. `ParseInPieces`: two calls do what
  one call with both pieces does, unless the first cut left a partial line and
  the second call ends exactly at a line's end. `ParsedBack`: what `to_bytes()` makes of such
  a request is parsed into the same request.
- **`HttpFragmentsProofs`**: `TypeCorrect`, `ResidualCorrect`, whose step is one call of
  `Parse`; `FinCorrect`, the exact message that a call with nothing leaves
  (`ParseNothing`); `FragmentsCorrect`, that `CleanCutsTransparent` holds of
  any message cut in any number of pieces. Its invariant `Parsed` says that, while no
  cut was unclean, the parser's state is what one call makes of all bytes received,
  so that a step is `ParseInPieces`; `ForwardCorrect`, that `ForwardedFaithfully` holds:
  a request that has been read is `Formed`, hence `ParsedBack` applies.
- **`ReverseProxyProofs`**: `TypeCorrect`; `WatchCorrect` (the lists given to `select()`
  are the open connections, plus the listening socket); `LiveCorrect` (no answered
  request is left to be parsed into); `ResponsesSentInPass` and `CleanCorrect`, under the
  assumption that no client lets its answers fill the socket's buffer
  (`SlowReaders = {}`). `TypeOK` alone is not inductive: the proxy's job has to be there
  when `pc` says so (`Typed`). `RequestsAreLive` needs the watch lists, because a
  connection that is dealt with must be an open one (`Live`). `CleanedEverywhere` needs
  `SentInPass`: what is in `io_to_send` belongs to a connection that will be visited in
  the pass under way. `CacheCorrect` (the cache holds whole pages under their own
  uri) and `SurvivesCorrect` (nothing a client sends ends the proxy) follow a response
  through every cut: `JobInOrder` says that what was received so far has been parsed as
  one piece, and `PagesHeld` what became of it in the cache. They assume
  `StatusLineUncut`, that no piece of a response ends inside its status line; the code
  does not ensure that, and without it `ProxySurvives` is false (section 3). `CacheCorrect` also assumes that the upstream server does not
  close in mid-response (`"truncated"`), `SurvivesCorrect` that sockets work
  (`Faults = {}`, and buffers with room for a response).

  The other theorems are about clients that ask one thing at a time
  (`AskOneAtATime`): they wait for an answer before they ask again, their scripts say
  truthfully what their bytes ask (`IsTruthful`: `parse()` reads the request to its end
  exactly there, or raises exactly there if it is malformed), and no `recv()` ends at
  the end of a line after one that ended inside it (`IsCutWell`): `parse()` never clears
  the residual that the second of them completes, and reads it again in front of the
  next line. `IsCut` says where a `recv()` may end, at the end of a segment or a number of full buffers behind
  one, in whatever order pieces arrive and are read; how long a request is does not matter.
  `MCReverseProxy` assumes both of its scripts, which have requests longer than
  `BUFFER`, and of the one of `proxy_keep_doc`, which wants something other than
  `should_keep_alive()` gives it, that it is not truthful. That `IsCutWell` is a
  condition shows in the scripts of the run `proxy`: they meet it with buffers of 7
  and more, and not with 6 or less.
  `AnswersCorrect`: `NoExtraAnswers`, under any faults. `KeptCorrect`: `KeptAsAsked`,
  unless the upstream server cannot be sent a request. Their invariant `InTurn` puts
  every client in one of five phases, over, quiet, asking, in the job or with an
  answer prepared, and says of each what has been read of its script (`HasRead`: the parser's
  state is what one call makes of it), what is left in its inbox and whether it is owed an answer.
  `ServiceCorrect` is `ImplementsService`, where sockets work: `Dated` says that
  what is cached, prepared or sent carries the page of its request as it was
  made at some time, and bounds its age; each action is then an action of
  `ProxyService` or a stutter (`StepIsServed`). It needs pages that tell when they were made
  (`StampsTell`). `EncodingCorrect` is `EncodingIsDeclared`: `Encodings` says of the
  cache and of `io_to_send` what the property says of `received`, and of what
  was asked that it stays asked. It needs pages that do not look compressed (`PagesArePlain`).
- **`ContainerProofs`**, the dynamic array: `SizeCorrect`, `SafeCorrect`, and `ListCorrect`, that
  `DynamicArray` implements `List` for any starting capacity, any width of an int
  and any failures. The invariant `LastingSound` says that, until `exhausted`, the
  block has exactly `capacity` slots, `size` is at most that, and the first `size`
  slots hold pushed values. `size` alone says nothing of the block, hence the
  strengthening. `Listed` is the list the fields stand for; one lemma per
  call shows what becomes of it.
  Once resources are exhausted, `MemoryIsSafe` holds only where the doublings of the
  starting capacity end at `INT_MAX + 1` exactly (`Doubles`; from 3, with ints up to 7,
  they do not, and the array would be written outside its block). `Exhaustible` says
  what is then possible: the array still grows, its block was lost to a failed realloc() at a full size,
  its capacity overflowed and its block is the largest there is, or that one was lost, too.
  From it, `SafeAlwaysCorrect` has `MemoryIsSafe` of every step, and
  `SourceSafeCorrect` gives the numbers of the source: 8 doubles to 2^31.
- **`ContainerProofs`**, the hash map, for any keys and hashes, number of buckets, ratio and
  limits. Set looks at one slot more than get (`hashmap_lost_doc`), so no such theorem
  holds of all tables. `IsSeen(s)` says that in a table of `s` buckets that slot is one a
  getter has looked at already, and `AllSeen` that this is so of every table of the state.
  The invariant `MapInv` has four parts: `Stacked` is about the
  shape of the stack and says that a table is of a seen size if the one made from it is;
  `Right`, that every item of a seen table is found, and once; `Absent`, that the key of a
  call which has found no slot is not in the table the call works on, for a set made by a resize is one of a key that
  is not there yet; and `Moved`, that what a resize has filled so far is what the old table holds below
  the bucket it has come to, but for the item of the call that has not returned. `Moved`
  is what makes a resize keep the map, at whatever depth: without it nothing relates the two
  tables between the first round and the last. From it follow
  `HashmapTypeCorrect` (`HashmapTypeOK`, without a condition), `StoredOnceCorrect` and
  `ReachableCorrect` (in every state with `AllSeen`), and
  `MapCorrect`, `ImplementsMap` of every behaviour in which `AllSeen` and `IndexIsValid`
  hold throughout.

  That no call runs out of resizes is a matter of counting. `FewKeys` says that the keys
  are no more than the different slots one key has in the table that all resizes lead to, that
  the table one resize earlier has more such slots than the first one has buckets, and that
  the tables up to there are of seen sizes. `Fits` then says that
  tables behind one another grow, that each has one of these sizes, that a call has
  seen no more resizes than lead to its table's size, and that no call will have used all
  of them. A call that has seen as many as lead there began in the first table, so
  its table holds no more items than that one had buckets (`IsNarrow`; a resize keeps
  their number, by `Moved`), and one resize before the last it finds a slot (`SlotLeft`, by an injection
  of a key's slots into those in use). Hence `IndexCorrect` (`IndexIsValid`), and
  `FewKeysCorrect` without a condition on states. `TenKeysCorrect` is the case of the
  source's constants (3 buckets, 10 collisions, 3 resizes, ratio 2): a table of 24 buckets has ten
  slots for a key. More is not true: with eleven keys of one hash `IndexIsValid` is violated
  (`FillSpec` of `MCHashmap`, as in `hashmap_lost_doc` but from three buckets). `SmallTablesCorrect`,
  for the same constants and any number of keys:
  385, the distance of the eleventh slot, leaves the rest 1 in every table up to 384
  buckets, where the second slot is; up to there nothing is lost or stored twice. In the
  next one, of 768, the eleventh slot is a new one.
- **`PcapAnalyzerProofs`**: `ReverseTwice` (a swap of four bytes or of two undoes
  itself and stays in its width, and `Ntohs` gives the port), `TypeCorrect`, and `AlignmentCorrect`, that `StaysAligned` holds of every file. Within
  a packet the reader is not aligned, and its lengths may have wrapped, so the
  invariant relates position and remaining length: together they lead to the
  packet's end, modulo 2^32, and if a long has 32 bits the remaining length is the true one
  as far as the headers fit. `CountsCorrect`: `CountsAreRight` holds of every file it is
  stated of. The invariant `Counting` says that the counters are those of the packets
  before the position, and that what has been read of the current one is what the
  file has there.
- **`ArenaProofs`**: `TypeCorrect`, `BlocksCorrect`, `RoomCorrect`, `MarksCorrect`,
  `ArrayCorrect`, for all sizes and capacities. None of them is inductive alone. `IInv` adds
  that counts are within capacities and zero behind `end` (`SoundRegions`), that the
  caller's blocks are sorted by region and offset and lie below the counts
  (`SoundBlocks`), and that marks are sorted in the same way and separate older from
  younger blocks (`SoundMarks`).
- **`DnsClientProofs`**: `TypeCorrect` and `WaitsCorrect`, that `NeverWaitsInVain`
  holds for any number of retries and whatever else arrives. The invariant is that a
  client which waits has a retry left: every time it goes back to `recvfrom()` it has
  sent a query, and a datagram that made it go back was no answer. `FloodCorrect`: the
  client stops at its limit, which is in that invariant, and the queries and unread
  answers about are no more than one and the retries (`Bounded`). `NamesCorrect`: a
  name of any length below 255 survives encoding and decoding, whatever octets are
  behind it: `Following` may be all of `Seq(Octet)`. `AddressesCorrect`: the first
  record's data is found behind the question if the record points at it
  (`FirstRecordIsRead`), and if it repeats the name, whose only zero is its last octet
  (`EncodingEnds`), the length is misread (`RepeatedIsMisread`). What a recursive function makes of a name
  is shown for the name's places from the last to the first (`KeptFrom`, `TextFrom`,
  `IsEncoding`, `IsReading`). `PrintsCorrect`: what is printed is the name that was
  asked for and what `DataOf` makes of the server's first record, unless the datagram
  is from elsewhere and has the constant id; nothing is assumed of what comes from
  elsewhere. It assumes that names have no superfluous dots, for
  `"a."` and `"a"` have one encoding. Its invariant `Own` says that every answer of the
  server on its way is about the client's own name.
- **`ShoutProofs`**: `TypeCorrect`, and `EchoCorrect`, that `EchoesMatch` holds for any
  number of clients. `EchoesMatch` says nothing of datagrams, so the invariant
  `AllInStep` does: of a client none of whose calls has failed at most one datagram is
  on its way, in the server's socket or in its own, and it is the line the client
  waits for. `CountCorrect`: `EchoesAreCounted`, from `AllCounted`, in which a datagram
  still on its way counts for the client it came from. `InputCorrect`: `InputIsSent` is
  inductive as it stands, given how `FlattenSeq` treats one more line.

Where a proof failed, the model was looked at first, and twice it was wrong: a
compression pointer has an offset of 14 bits (`Pointer` had eight), and spaces at
the end of a status line do not part it (`IsLastLine`). Others were restated so that they can be reasoned about:
`Unread`, `Echoed`, `Encoded`, `Picked`, `Unended`.

Only model-checked:

- all liveness (`Served`, `GoneIsClosed`, `Resolved`, `Ends` and the like), and anything about ENABLED;
- `NoExtraAnswers` of clients that pipeline (`proxy_faults`). It holds in that run, where
  requests arrive in one piece each, but not in general: when one in several
  pieces follows another at once, what a `recv()` returns behind the end of the first is
  lost, and each of its other pieces may be a malformed request with an answer of its own
  (so it is with a buffer of 10 and a request cut behind its uri and behind its first line);
- `StoredOnce`, `Reachable` and `ImplementsMap` in tables that are not of seen sizes, where
  they hold or not as the hashes have it: `hashmap` has one (28 buckets), in which they do,
  `hashmap_lost_doc` one in which they do not. `IndexIsValid` with more keys than `FewKeys` allows.

The library's induction theorems take an operator as a parameter, which the provers
cannot instantiate. Where induction is needed, a proof takes a least counterexample of
the statement at hand.

## 6. Not modelled

- The select echo test (`io_multiplex_simple_test.py`): an exercise the proxy's loop
  grew out of. It has the same three lists with an echo in place of the exchange.
- The scratch files: there is no state in them.
- The arena on top of `mmap()`, `VirtualAllocEx()` or the heap base of WebAssembly:
  a `new_region()` and a `free_region()` each, with the same promise as those of
  `malloc()`. Sizes near the end of `size_t`, whose rounding at line 296 overflows;
  and a `malloc()` that fails with assertions disabled, after which line 159 uses
  NULL: the comment of line 158 has that as still to do.
- The time stamps and the file header's other fields, which are printed or unused.
- `print_all_items` of the hash map, debug output, wording of messages.
- Names of 255 characters and more (line 35 of the DNS client leaves them without
  an end), and datagrams shorter than a header.
- Datagrams that are duplicated, but for late answers of the DNS server, which are
  among those from elsewhere; and NUL characters in what is typed, at which the shout
  client's `strlen()` would stop.
- Calls that send a part: the bytes that `sendall()` delivers before it raises (line
  170 of the proxy), and a `send()` that takes fewer than it is given. `CanSend` is
  all or nothing.
- A client that closes for good (`close()`) before it has its answer, whose kernel
  refuses what the proxy sends, other than as a `Reset`: `HalfClose` is
  `shutdown(SHUT_WR)`, and `proxy` has only that.
- Upstream responses that are compressed already.

## 7. Plan

The order was: the proxy with its parser, which has the most behaviour; the hash
map against an abstract map; the datagram programs; the dynamic array, whose
refinement can be proved for all parameters; the pcap analyser; the arena; and the
service the proxy promises, with the refinement. What could come next:

1. `SelectEcho`, compared with the proxy's loop.
