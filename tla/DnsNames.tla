------------------------------- MODULE DnsNames -------------------------------
(***************************************************************************)
(* What DnsMessage makes of every host name over a few characters, against *)
(* what such a name means: its labels, with one dot between two.           *)
(***************************************************************************)
EXTENDS DnsClient

CONSTANTS
  Character,     \* what names are made of, the dot among them
  Address,       \* the address of every name
  Following,     \* what may be behind a name
  MaxLength      \* bound: of a name

ASSUME NamesAssumption ==
  /\ DOT \in Character /\ Character \subseteq 1 .. 127
  /\ Address \in IPv4Address
  /\ Following \subseteq Seq(Octet)
  /\ MaxLength \in 0 .. 254

Hostname == UNION {[1 .. n -> Character] : n \in 0 .. MaxLength}

\* the dots that strtok() keeps: one between two labels
Kept(hostname, i) ==
  \/ hostname[i] # DOT
  \/ /\ \E j \in 1 .. i - 1 : hostname[j] # DOT
     /\ i < Len(hostname) /\ hostname[i + 1] # DOT

\* the elements of s at some places, in their order
Picked(s, places) ==
  LET at(n) == CHOOSE i \in places : Cardinality({j \in places : j <= i}) = n
  IN  [n \in 1 .. Cardinality(places) |-> s[at(n)]]

Normal(hostname) ==
  Picked(hostname, {i \in DOMAIN hostname : Kept(hostname, i)})

Survives(hostname) ==
  \A rest \in Following :
    DecodeDnsQname(EncodeDnsQname(hostname) \o rest)
      = [length |-> IF Normal(hostname) = <<>> THEN 1 ELSE Len(Normal(hostname)) + 2,
         text   |-> Normal(hostname)]

IsRead(hostname, kind) ==
  ParseResponse(ServerReply(kind, hostname, Address))
    = [asked |-> Normal(hostname), address |-> DataOf(kind, Address)]

\* Neither depends on the state: TLC evaluates each once.
AllSurvive == \A hostname \in Hostname : Survives(hostname)
AllAreRead == \A hostname \in Hostname : \A kind \in ReplyKind : IsRead(hostname, kind)

\* What decode_dns_qname() prints is what encode_dns_qname() was given, up to
\* superfluous dots, and it finds where the name ends whatever follows: of
\* every name, as of the one the client is asked for.
NameSurvives == Survives(destination_url) /\ AllSurvive

\* The data of the first record, the address if that is what it has, is found
\* for every name, as for the client's, although the code looks for the first
\* zero octet and not for the end of the record's name (line 279): as long as
\* the record points at the question.  If it repeats the name, that zero is
\* the name's own end, the length is read an octet early as 60 * 256, and what
\* is printed runs past the end of the message (DataOf).
AddressIsFound ==
  AllAreRead /\ \A kind \in ReplyKind : IsRead(destination_url, kind)

=============================================================================
