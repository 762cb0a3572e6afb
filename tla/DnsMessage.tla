------------------------------ MODULE DnsMessage ------------------------------
(***************************************************************************)
(* The bytes of the DNS client, src/basics/dns_client_mac.c: how a host    *)
(* name becomes a question, and how the answer is read.  Characters and    *)
(* octets are numbers.  Of the 12 octets of a header only the id matters,  *)
(* which DnsClient keeps; a message here is what follows the header.       *)
(*                                                                         *)
(* Names are shorter than 255 characters (line 35).  Definitions named     *)
(* Slip* are wrong on purpose: see HttpMessage.                            *)
(***************************************************************************)
EXTENDS Integers, Sequences, SequencesExt, FiniteSetsExt

CONSTANT Unknown    \* what is printed when that reads past the end of a message

Octet       == 0 .. 255
IPv4Address == [1 .. 4 -> Octet]
DOT         == 46

\* strtok(): the part of a name from i on, up to the next dot
Token(hostname, i) ==
  SubSeq(hostname, i,
         Min({Len(hostname) + 1}
             \cup {j \in DOMAIN hostname : i < j /\ hostname[j] = DOT}) - 1)

\* each part behind its length, and what is behind the last
Encoded(hostname, end) ==
  LET encode[i \in 1 .. Len(hostname) + 1] ==
        IF i > Len(hostname) THEN end
        ELSE IF hostname[i] = DOT THEN encode[i + 1]
        ELSE <<Len(Token(hostname, i)) % 256>> \o Token(hostname, i)
             \o encode[i + Len(Token(hostname, i))]
  IN  encode[1]

SlipEncodeDnsQname(hostname) == Encoded(hostname, <<>>)
EncodeDnsQname(hostname)     == Encoded(hostname, <<0>>)

\* decode_dns_qname(): the length of the name at the start of data with its
\* terminator, and what is printed of it.  The length is more than that of
\* data when there is no terminator in it.
DecodeDnsQname(data) ==
  LET read[i \in 1 .. Len(data) + 256] ==
        IF i > Len(data) \/ data[i] = 0 THEN [length |-> i, text |-> <<>>]
        ELSE LET next == i + 1 + data[i]
                 rest == read[next]
                 dot  == IF next \in DOMAIN data /\ data[next] # 0
                         THEN <<DOT>> ELSE <<>>
             IN  [length |-> rest.length,
                  text |-> SubSeq(data, i + 1, Min({next - 1, Len(data)}))
                           \o dot \o rest.text]
  IN  read[1]

\* Where the answer is looked for: behind the question's type and class.
SlipSkipQuestion(data) == DecodeDnsQname(data).length
SkipQuestion(data)     == DecodeDnsQname(data).length + 4

\* "skip name, type, class and ttl": up to the first zero octet, and eight
\* octets more.  What is printed of a response: the name that was asked for,
\* and as many octets as the length behind that says.
ParseResponse(data) ==
  LET asked    == DecodeDnsQname(data)
      zero     == Min({i \in DOMAIN data :
                         i > SkipQuestion(data) /\ data[i] = 0}
                      \cup {Len(data) + 1})
      rdlength == data[zero + 8] * 256 + data[zero + 9]
  IN  [asked   |-> IF asked.length > Len(data) THEN Unknown ELSE asked.text,
       address |-> IF \/ zero + 9 > Len(data)
                      \/ zero + 9 + rdlength > Len(data)
                   THEN Unknown
                   ELSE SubSeq(data, zero + 10, zero + 9 + rdlength)]

-----------------------------------------------------------------------------
(* The server at 8.8.8.8 (RFC 1035), which points to the name in the        *)
(* question, or writes it out once more.                                    *)

Question(hostname) == EncodeDnsQname(hostname) \o <<0, 1, 0, 1>>

\* a resource record of the internet class that lives for a minute
Record(name, type, data) ==
  name \o <<0, type, 0, 1, 0, 0, 0, 60, 0, Len(data)>> \o data

A     == 1
CNAME == 5
SOA   == 6

\* the name at an offset from the start of the header
Pointer(offset) == <<192 + offset \div 256, offset % 256>>
TheQuestion     == Pointer(12)

ReplyKind == {"address",    \* one address
              "several",    \* two addresses, in some order
              "alias",      \* the canonical name, and its address
              "repeated",   \* one address, behind the name once more
              "negative"}   \* no such name: who is responsible for the zone

OtherName == <<1, 120, 0>>

\* the answer to a question for a name that has the address
ServerReply(kind, hostname, address) ==
  Question(hostname) \o
  CASE kind = "address"  -> Record(TheQuestion, A, address)
    [] kind = "several"  -> Record(TheQuestion, A, address)
                            \o Record(TheQuestion, A, Reverse(address))
    [] kind = "alias"    -> Record(TheQuestion, CNAME, OtherName)
                            \o Record(Pointer(24 + Len(Question(hostname))),
                                      A, address)
    [] kind = "repeated" -> Record(EncodeDnsQname(hostname), A, address)
    [] kind = "negative" -> Record(TheQuestion, SOA, OtherName)

=============================================================================
