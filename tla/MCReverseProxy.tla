---------------------------- MODULE MCReverseProxy ----------------------------
(* Clients, scripts and an upstream server for ReverseProxy.                 *)
EXTENDS ReverseProxy, TLC

CONSTANTS c1, c2

MCWord == {"GET", "POST", "gzip", "200", "400", "404", "500", "OK",
           "HTTP/1.0", "HTTP/1.1", "Accept-Encoding", "Content-Encoding",
           "Content-Length", "Cache-Control", "max-age", "<gzip>", "<length>",
           "Connection", "keep-alive", "/a", "/b", "0", "1", "2", "3"}

MCUri    == {<<"/a">>, <<"/b">>}
MCSite   == {<<"/a">>}
MCHanging == {<<"/b">>}
MCStamp  == [t \in 0 .. MaxTime |-> <<"0", "1", "2", "3">>[t + 1]]

-----------------------------------------------------------------------------
(* Requests.                                                                *)

Line(method, uri, version) == <<method, SP, uri, SP, version, LF>>
Asks(uri, gzip, keep)      == [uri |-> <<uri>>, gzip |-> gzip, keep |-> keep]
Piece(bytes)               == [bytes |-> bytes, ask |-> None]
Last(bytes, ask)           == [bytes |-> bytes, ask |-> ask]

Get(uri)   == <<Last(Line("GET", uri, "HTTP/1.1") \o <<LF>>,
                     Asks(uri, FALSE, TRUE))>>
GetOld(uri) == <<Last(Line("GET", uri, "HTTP/1.0") \o <<LF>>,
                      Asks(uri, FALSE, FALSE))>>

\* in two pieces: the request line, then the header
GetZipped(uri) ==
  <<Piece(Line("GET", uri, "HTTP/1.1")),
    Last(<<"Accept-Encoding", COLON, "gzip", LF, LF>>, Asks(uri, TRUE, TRUE))>>

\* in two pieces, cut inside the request line, with line ends of both kinds
GetCut(uri) ==
  <<Piece(<<"GET", SP>>),
    Last(<<uri, SP, "HTTP/1.1", LF, CR, LF>>, Asks(uri, FALSE, TRUE))>>

Malformed == <<Last(<<"GET", LF>>,
                    [uri |-> <<>>, gzip |-> FALSE, keep |-> TRUE])>>

GetKeepAlive(uri) ==
  <<Last(Line("GET", uri, "HTTP/1.0")
           \o <<"Connection", COLON, "keep-alive", LF, LF>>,
         Asks(uri, FALSE, TRUE))>>

-----------------------------------------------------------------------------
(* Scripts.                                                                 *)

\* by version and encoding, found and not found, whole, in pieces, malformed
Core == c1 :> GetZipped("/a") \o GetOld("/a")
        @@ c2 :> GetCut("/b") \o Malformed \o Get("/a")

TwoPages == c1 :> Get("/a") \o Get("/a") @@ c2 :> Get("/a") \o Get("/b")
KeepOld  == c1 :> GetKeepAlive("/a") @@ c2 :> <<>>

\* Only the last one asks for something it does not get.
ASSUME ScriptsAreTruthful ==
  /\ \A c \in {c1, c2} : IsTruthful(Core[c]) /\ IsTruthful(TwoPages[c])
  /\ ~ IsTruthful(KeepOld[c1])

\* Requests are longer than BUFFER, and cut inside lines.
ASSUME ScriptsAreCutWell ==
  \A c \in {c1, c2} : IsCutWell(Core[c]) /\ IsCutWell(TwoPages[c])

=============================================================================
