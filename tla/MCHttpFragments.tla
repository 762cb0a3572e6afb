--------------------------- MODULE MCHttpFragments ---------------------------
(* Messages for HttpFragments: each bound is the length of a message, and    *)
(* every way of cutting it into recv() calls is explored.                    *)
EXTENDS HttpFragments

MCWord == {"GET", "POST", "gzip", "200", "OK", "HTTP/1.0", "HTTP/1.1",
           "Accept-Encoding", "Content-Encoding", "Content-Length",
           "Cache-Control", "max-age", "<gzip>", "<length>", "/a", "Host", "x"}

GetWithHeader ==
  <<"GET", SP, "/a", SP, "HTTP/1.1", CR, LF,
    "Accept-Encoding", COLON, SP, "gzip", CR, LF, CR, LF>>

\* the second header replaces the first
GetRepeatedHeader ==
  <<"GET", SP, "/a", SP, "HTTP/1.0", LF,
    "Host", COLON, "x", LF, "Host", COLON, LF, LF>>

BadRequestLine == <<"GET", SP, "/a", LF, "Host", COLON, "x", LF, LF>>
BadHeaderLine  == <<"GET", SP, "/a", SP, "HTTP/1.1", LF, "Host", LF, LF>>

Post ==
  <<"POST", SP, "/a", SP, "HTTP/1.1", LF, "Host", COLON, "x", LF, LF,
    "x", LF, "x">>

Response ==
  <<"HTTP/1.0", SP, "200", SP, "OK", SP, "OK", LF,
    "Host", COLON, "x", LF, LF, "x", LF>>

\* "the response can start with <!DOCTYPE HTML>" (http_parser.py:63)
ResponseWithoutHeaders == <<"x", SP, "x", SP, LF, "x", COLON, LF, "x">>

Request(s)  == [type |-> "REQUEST", bytes |-> s]
Reply(s)    == [type |-> "RESPONSE", bytes |-> s]

MCWire ==
  {Request(s) : s \in {GetWithHeader, GetRepeatedHeader, BadRequestLine,
                       BadHeaderLine, Post}}
  \cup {Reply(s) : s \in {Response, ResponseWithoutHeaders}}

ShortGet  == {Request(<<"GET", SP, "/a", SP, "HTTP/1.1", LF,
                        "Host", COLON, "x", LF, LF>>)}

=============================================================================
