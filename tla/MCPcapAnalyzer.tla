---------------------------- MODULE MCPcapAnalyzer ----------------------------
(* Small capture files for PcapAnalyzer.                                     *)
EXTENDS PcapAnalyzer, FiniteSetsExt, SequencesExt, TLC

\* a SYN to port 80, and packets that differ from it
Syn == [at |-> 0, captured |-> 44, untruncated |-> 44, family |-> IPV4, ihl |-> 5,
        protocol |-> TCP, data_offset |-> 5, syn |-> TRUE, ack |-> FALSE,
        source_port |-> 5, destination_port |-> 80]

Of(n, p)  == [p EXCEPT !.captured = n, !.untruncated = n]

WithOptions == [Of(62, Syn) EXCEPT !.ihl = 6, !.data_offset = 8]
SynAck      == [Of(50, Syn) EXCEPT !.ack = TRUE, !.source_port = 80,
                                   !.destination_port = 5]
Sound == {Syn, WithOptions, SynAck}

Datagram  == [Of(32, Syn) EXCEPT !.protocol = 17]
ShortIhl  == [Syn EXCEPT !.ihl = 4]
ShortTcp  == [Syn EXCEPT !.data_offset = 0]
Truncated == [Syn EXCEPT !.untruncated = 45]
IPv6      == [Syn EXCEPT !.family = 30]
Unknown   == [Syn EXCEPT !.protocol = 7]
Odd == {Datagram, ShortIhl, ShortTcp, Truncated, IPv6, Unknown}

\* a length that a long of 32 bits takes for a step back: behind a Syn, to it
Huge == Of(65536 - 76, [Syn EXCEPT !.protocol = 1])

MCJunk == {SynAck, [Unknown EXCEPT !.family = 512], Huge}

Placed(packets) ==
  LET at[i \in 1 .. Len(packets)] ==
        IF i = 1 THEN PCAP_FILE_HEADER_SIZE
        ELSE at[i - 1] + PCAP_PACKET_HEADER_SIZE + packets[i - 1].captured
  IN  [i \in 1 .. Len(packets) |-> [packets[i] EXCEPT !.at = at[i]]]

Contents == {<<a, b, c>> : a \in Sound, b \in Sound, c \in Sound}
            \cup {<<a, b, c>> : a \in {Syn}, b \in Odd, c \in Odd \cup {SynAck}}
            \cup {<<Syn, Huge>>}

\* complete, and cut off in each part of the last packet
Lengths(packets) ==
  LET last == packets[Len(packets)]
  IN  {End(last), last.at, last.at + 5, last.at + 16, last.at + 19,
       last.at + 25, last.at + 40, last.at + 52}

Files(magics, contents) ==
  UNION {[magic : magics, packets : {Placed(c)}, length : Lengths(Placed(c))] :
           c \in contents}

\* a link layer in the host's order behind packet headers in the other
Mixed == [Syn EXCEPT !.family = Reverse32(IPV4)]

MCCapture ==
  Files({"a1b2c3d4"}, Contents)
  \cup Files(Swapped, {<<SynAck>>, <<Mixed, Mixed>>})
  \cup [magic : Magic, packets : {<<>>}, length : {0, 20, 24, 130}]

=============================================================================
