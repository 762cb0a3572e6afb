----------------------------- MODULE PcapAnalyzer -----------------------------
(***************************************************************************)
(* The analyser of src/pcap/pcap_analyze.c: it walks the packets of a      *)
(* capture file, layer by layer, and counts those that ask for and those   *)
(* that acknowledge a connection to port 80.                               *)
(*                                                                         *)
(* A file is where its packets begin, what their headers say and how long  *)
(* it is.  Whatever is read where no header begins, or behind the end of   *)
(* the file, may look like any header: see Junk.  Lengths and positions    *)
(* are in octets.  Definitions named Slip* are wrong on purpose: see       *)
(* HttpMessage.                                                            *)
(***************************************************************************)
EXTENDS Integers, Sequences, FiniteSets

CONSTANTS
  BASE,         \* the values a byte of a larger integer has: 256, or less
                \* where integers have to be small (a uint32_t must still
                \* hold twice the lengths that a uint8_t counts)
  Capture,      \* the files that may be there
  Junk,         \* the packets that other bytes may be taken for
  Faults,       \* "open", "read": the call may fail
  MaxCount      \* bound: no file is followed any further

uint32 == 0 .. BASE * BASE * BASE * BASE - 1

Uint32(n)     == n % (BASE * BASE * BASE * BASE)
Uint8(n)      == n % 256

\* reverse_byte_uint32() and reverse_byte_uint16(), which shift n down
Byte0(n) == n % BASE
Byte1(n) == Byte0(n \div BASE)
Byte2(n) == Byte1(n \div BASE)
Byte3(n) == Byte2(n \div BASE)

Reverse32(n) == ((Byte0(n) * BASE + Byte1(n)) * BASE + Byte2(n)) * BASE + Byte3(n)
Reverse16(n) == Byte0(n) * BASE + Byte1(n)

\* InternetLayerProtocal and TransportLayerProtocal
IPV4   == 2
TCP    == 6
Known  == {1, 2, TCP, 17, 41, 89, 132}

\* the fields that matter of the headers of a packet, at which octet it begins
Packet ==
  [at : Nat, captured : uint32, untruncated : uint32, family : uint32,
   ihl : 0 .. 15, protocol : 0 .. 255,
   data_offset : 0 .. 15, syn : BOOLEAN, ack : BOOLEAN,
   source_port : 0 .. BASE * BASE - 1, destination_port : 0 .. BASE * BASE - 1]

\* sizeof(pcap_file_header_t), and the sizes named at lines 90 to 93
PCAP_FILE_HEADER_SIZE   == 24
PCAP_PACKET_HEADER_SIZE == 16
LINK_LAYER_HEADER_SIZE  == 4
IPV4_HEADER_MIN_SIZE    == 20
TCP_HEADER_MIN_SIZE     == 20

\* The magic number as the host reads it; "other" is anything else.
Swapped == {"d4c3b2a1", "4d3cb2a1"}
Magic   == {"a1b2c3d4", "a1b23c4d", "other"} \cup Swapped

\* each packet begins where the one before it ends
End(p) == p.at + PCAP_PACKET_HEADER_SIZE + p.captured

ASSUME PcapAssumption ==
  /\ BASE \in 16 .. 256
  /\ Junk # {} /\ Junk \subseteq Packet
  /\ Faults \subseteq {"open", "read"}
  /\ MaxCount \in Nat
  /\ Capture \subseteq [magic : Magic, packets : Seq(Packet), length : Nat]
  /\ \A f \in Capture : \A i \in 1 .. Len(f.packets) :
       f.packets[i].at = IF i = 1 THEN PCAP_FILE_HEADER_SIZE
                         ELSE End(f.packets[i - 1])

VARIABLES
  capture,      \* the file
  wide,         \* whether a long has 64 bits, or 32 (a build for Windows)
  pc,
  position,     \* of the file
  pcap_header_need_swap_byte,
  current,      \* the packet whose bytes are read
  remaining_packet_data_length,
  packet_count, SYN_initiated_count, ACK_count

input  == <<capture, wide>>
counts == <<packet_count, SYN_initiated_count, ACK_count>>
vars   == <<input, pc, position, pcap_header_need_swap_byte, current,
            remaining_packet_data_length, counts>>

Init ==
  /\ capture \in Capture
  /\ wide \in BOOLEAN
  /\ pc = "open"
  /\ position = 0
  /\ pcap_header_need_swap_byte = FALSE
  /\ current \in Junk
  /\ remaining_packet_data_length = 0
  /\ packet_count = 0 /\ SYN_initiated_count = 0 /\ ACK_count = 0

-----------------------------------------------------------------------------
(* Files.                                                                   *)

\* whether fread() has n octets, and where it leaves the file
Has(n) == position + n <= capture.length
After(n) ==
  IF Has(n) THEN position + n
  ELSE IF position < capture.length THEN capture.length ELSE position

\* what (long) makes of a uint32_t, and fseek() by that much from p
SlipLong(n) == IF 2 * n \in uint32 THEN n ELSE n - BASE * BASE * BASE * BASE
Long(n) == IF wide \/ 2 * n \in uint32 THEN n ELSE n - BASE * BASE * BASE * BASE
Seek(p, n) == IF p + n >= 0 THEN p + n ELSE p

\* the packets that the bytes at the position may be taken for
Here == {p \in {capture.packets[i] : i \in 1 .. Len(capture.packets)} :
           p.at = position}
Seen == IF Here = {} THEN Junk ELSE Here

\* A file in the other byte order has its packet headers, and the family of
\* the link layer, in that order.
IsForeign  == capture.magic \in Swapped
Written(n) == IF IsForeign THEN Reverse32(n) ELSE n

-----------------------------------------------------------------------------
Stops(as) ==
  /\ pc' = as
  /\ UNCHANGED <<pcap_header_need_swap_byte, current,
                 remaining_packet_data_length, SYN_initiated_count, ACK_count>>

OpenFails ==
  /\ pc = "open"
  /\ "open" \in Faults
  /\ Stops("error")
  /\ UNCHANGED <<input, position, packet_count>>

\* A header that is not there is not noticed, and may have any magic number.
ReadFileHeader ==
  /\ pc = "open"
  /\ pc' = "packet"
  /\ position' = After(PCAP_FILE_HEADER_SIZE)
  /\ \E m \in IF Has(PCAP_FILE_HEADER_SIZE) THEN {capture.magic} ELSE Magic :
       pcap_header_need_swap_byte' = (m \in Swapped)
  /\ UNCHANGED <<input, current, remaining_packet_data_length, counts>>

EndOfFile ==
  /\ pc = "packet"
  /\ ~ Has(PCAP_PACKET_HEADER_SIZE)
  /\ pc' = "done"
  /\ position' = After(PCAP_PACKET_HEADER_SIZE)
  /\ UNCHANGED <<input, pcap_header_need_swap_byte, current,
                 remaining_packet_data_length, counts>>

ReadError ==
  /\ pc = "packet"
  /\ "read" \in Faults
  /\ Stops("error")
  /\ UNCHANGED <<input, position, packet_count>>

\* a field of a packet header, as pcap_packet_header_swap_endian() leaves it
SwapEndian(n) == IF pcap_header_need_swap_byte THEN Reverse32(n) ELSE n

ReadPacketHeader ==
  /\ pc = "packet"
  /\ packet_count < MaxCount
  /\ Has(PCAP_PACKET_HEADER_SIZE)
  /\ position' = After(PCAP_PACKET_HEADER_SIZE)
  /\ packet_count' = packet_count + 1
  /\ current' \in Seen
  /\ LET captured_data_length    == SwapEndian(Written(current'.captured))
         untruncated_data_length == SwapEndian(Written(current'.untruncated))
     IN  IF captured_data_length # untruncated_data_length
         THEN pc' = "done" /\ UNCHANGED remaining_packet_data_length
         ELSE pc' = "link" /\ remaining_packet_data_length' = captured_data_length
  /\ UNCHANGED <<input, pcap_header_need_swap_byte, SYN_initiated_count, ACK_count>>

\* The headers that follow: what a packet says, or anything if it is cut off.
Read(n) == IF Has(n) THEN {current} ELSE Junk

SlipConsume(n) == UNCHANGED remaining_packet_data_length
Consume(n) ==
  remaining_packet_data_length' = Uint32(remaining_packet_data_length - n)

\* The family is not swapped, and of those that are valid only IPv4 is
\* handled.
ReadLinkLayerHeader ==
  /\ pc = "link"
  /\ position' = After(LINK_LAYER_HEADER_SIZE)
  /\ \E p \in Read(LINK_LAYER_HEADER_SIZE) :
       IF Written(p.family) = IPV4
       THEN /\ pc' = "ip"
            /\ Consume(LINK_LAYER_HEADER_SIZE)
            /\ UNCHANGED <<pcap_header_need_swap_byte, current,
                           SYN_initiated_count, ACK_count>>
       ELSE Stops("failed")
  /\ UNCHANGED <<input, packet_count>>

\* The length of the options, of a header that says it has n words.  It is
\* a uint8_t: of fewer words than five it is one that the packet cannot have.
SlipOptions(n, size) == n * 4
Options(n, size)     == Uint8(n * 4 - size)

\* From here on, current is what the IPv4 header was read as.  The transport
\* header is the packet's if that is what is read next.
ReadIpv4Header ==
  /\ pc = "ip"
  /\ \E p \in Read(IPV4_HEADER_MIN_SIZE) :
       LET options == Options(p.ihl, IPV4_HEADER_MIN_SIZE)
       IN  /\ position' = After(IPV4_HEADER_MIN_SIZE) + options
           /\ IF p.protocol \in Known
              THEN /\ pc' = "transport"
                   /\ Consume(IPV4_HEADER_MIN_SIZE + options)
                   /\ IF p.protocol = TCP /\ p.ihl >= 5
                      THEN current' = p ELSE current' \in Junk
                   /\ UNCHANGED <<pcap_header_need_swap_byte,
                                  SYN_initiated_count, ACK_count>>
              ELSE Stops("failed")
  /\ UNCHANGED <<input, packet_count>>

\* ntohs(): TCP has its ports in the other order than the host
Ntohs(port) == Reverse16(Reverse16(port))

Increment(count, by) == count' = count + IF by THEN 1 ELSE 0

\* Whatever the protocol is, it is taken for TCP.
ReadTcpHeader ==
  /\ pc = "transport"
  /\ pc' = "packet"
  /\ \E p \in Read(TCP_HEADER_MIN_SIZE) :
       LET options   == Options(p.data_offset, TCP_HEADER_MIN_SIZE)
           remaining == Uint32(remaining_packet_data_length
                                 - (TCP_HEADER_MIN_SIZE + options))
       IN  /\ remaining_packet_data_length' = remaining
           /\ position' = Seek(After(TCP_HEADER_MIN_SIZE) + options,
                               Long(remaining))
           /\ Increment(SYN_initiated_count,
                        p.syn /\ Ntohs(p.destination_port) = 80)
           /\ Increment(ACK_count, p.ack /\ Ntohs(p.source_port) = 80)
  /\ UNCHANGED <<input, pcap_header_need_swap_byte, current, packet_count>>

Walk ==
  \/ ReadFileHeader \/ EndOfFile \/ ReadPacketHeader
  \/ ReadLinkLayerHeader \/ ReadIpv4Header \/ ReadTcpHeader

Next == OpenFails \/ ReadError \/ Walk

\* The program goes on; a call need not fail.
Spec     == Init /\ [][Next]_vars
FairSpec == Spec /\ WF_vars(Walk)

-----------------------------------------------------------------------------
TypeOK ==
  /\ capture \in Capture /\ wide \in BOOLEAN
  /\ pc \in {"open", "packet", "link", "ip", "transport", "done", "failed", "error"}
  /\ position \in Nat
  /\ pcap_header_need_swap_byte \in BOOLEAN
  /\ current \in Packet
  /\ remaining_packet_data_length \in uint32
  /\ packet_count \in Nat /\ SYN_initiated_count \in Nat /\ ACK_count \in Nat

Packets == capture.packets
FileEnd == IF Packets = <<>> THEN PCAP_FILE_HEADER_SIZE ELSE End(Packets[Len(Packets)])

\* A packet that holds the IPv4 header it speaks of and what the protocols of
\* lines 191 to 197 have at least, and is not longer than a long of 32 bits.
Fits(p) ==
  /\ p.ihl >= 5
  /\ p.captured >= LINK_LAYER_HEADER_SIZE + 4 * p.ihl + 8
  /\ 2 * p.captured \in uint32

\* With a long of 64 bits the packets may be anything.
IsWellFormed ==
  /\ capture.length <= FileEnd /\ FileEnd \in uint32
  /\ wide \/ \A i \in 1 .. Len(Packets) : Fits(Packets[i])

\* Payload is never taken for the header of a packet.  Whatever the headers
\* of a packet say, and however they make the uint8_t and uint32_t lengths of
\* lines 177, 183, 219, 225 and 246 wrap, what is skipped and what is deducted
\* cancel out: the next packet header is read where one begins, or behind the
\* end of the file, where it ends the loop.
StaysAligned ==
  pc = "packet" /\ IsWellFormed =>
    \/ position = FileEnd
    \/ \E i \in 1 .. Len(Packets) : Packets[i].at = position
    \/ ~ Has(PCAP_PACKET_HEADER_SIZE)

\* what the program is for (line 19): TCP over IPv4, with room for the headers
IsSound(p) ==
  /\ Fits(p) /\ p.captured = p.untruncated
  /\ p.family = IPV4 /\ p.protocol = TCP
  /\ p.data_offset >= 5
  /\ p.captured >= LINK_LAYER_HEADER_SIZE + 4 * p.ihl + 4 * p.data_offset
SoundFile == IsWellFormed /\ \A i \in 1 .. Len(Packets) : IsSound(Packets[i])

Begun == {i \in 1 .. Len(Packets) :
            Packets[i].at + PCAP_PACKET_HEADER_SIZE <= capture.length}
Whole == {i \in 1 .. Len(Packets) : End(Packets[i]) <= capture.length}
Asks(i)         == Packets[i].syn /\ Packets[i].destination_port = 80
Acknowledges(i) == Packets[i].ack /\ Packets[i].source_port = 80

\* The counts that are printed are those of the packets in the file (lines
\* 235 to 244), if it is in the host's byte order: of another file the link
\* layer is taken for an unknown one at its first packet (line 136).  Of a
\* packet that the end of the file cuts off the headers are what the stack
\* held: it is counted, and may count as anything.
CountsAreRight ==
  SoundFile /\ ~ IsForeign =>
    /\ pc = "failed" => Begun # Whole
    /\ pc = "done" =>
         LET cut == Cardinality(Begun \ Whole)
         IN  /\ packet_count = Cardinality(Begun)
             /\ SYN_initiated_count - Cardinality({i \in Whole : Asks(i)}) \in 0 .. cut
             /\ ACK_count - Cardinality({i \in Whole : Acknowledges(i)}) \in 0 .. cut

\* The walk ends, whatever is in the file: each packet takes the reader
\* forward.  With a long of 32 bits a corrupt length takes it back.
Ends == (wide \/ IsWellFormed) => <>(pc \in {"done", "failed", "error"})

=============================================================================
