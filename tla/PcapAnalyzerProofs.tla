-------------------------- MODULE PcapAnalyzerProofs --------------------------
(***************************************************************************)
(* Theorems about PcapAnalyzer, for every capture file, every order of its *)
(* bytes and either width of a long: the walk keeps its types, never takes *)
(* payload for the header of a packet, and counts what is in the file.     *)
(***************************************************************************)
EXTENDS PcapAnalyzer, FiniteSetTheorems, WellFoundedInduction, TLAPS

-----------------------------------------------------------------------------
(* The integers.                                                            *)

M == BASE * BASE * BASE * BASE

LEMMA Bounds == /\ BASE \in Nat /\ BASE >= 16
                /\ M \in Nat /\ M >= 65536
                /\ uint32 = 0 .. M - 1
<1>1. BASE \in Nat /\ BASE >= 16
  BY PcapAssumption
<1>2. BASE * BASE \in Nat /\ BASE * BASE >= 256
  BY <1>1
<1>3. ASSUME NEW s \in Nat, s >= 256 PROVE s * s \in Nat /\ s * s >= 65536
  <2>1. PICK k \in Nat : s = 256 + k
    <3>1. s - 256 \in Nat /\ s = 256 + (s - 256)
      BY <1>3
    <3> QED
      BY <3>1
  <2>2. s * s = 65536 + 512 * k + k * k
    BY <2>1
  <2>3. k * k \in Nat
    OBVIOUS
  <2> QED
    BY <2>2, <2>3
<1>4. M = (BASE * BASE) * (BASE * BASE)
  BY <1>1 DEF M
<1>5. M \in Nat /\ M >= 65536
  BY <1>2, <1>3, <1>4
<1> QED
  BY <1>1, <1>5 DEF uint32, M

LEMMA Products ==
  ASSUME NEW d \in Nat, NEW a \in Int, NEW b \in Int, a < b
  PROVE  d * a + d <= d * b
<1>1. PICK k \in Nat : b = a + 1 + k
  <2>1. b - a - 1 \in Nat /\ b = a + 1 + (b - a - 1)
    OBVIOUS
  <2> QED
    BY <2>1
<1>2. d * b = d * a + d + d * k
  BY <1>1
<1>3. d * k >= 0
  OBVIOUS
<1> QED
  BY <1>2, <1>3

(* Quotient and remainder are the only ones there are.                      *)
LEMMA Division ==
  ASSUME NEW d \in Nat, d > 0, NEW q \in Int, NEW r \in 0 .. d - 1
  PROVE  (q * d + r) \div d = q /\ (q * d + r) % d = r
<1> DEFINE n == q * d + r
           e == n \div d
           s == n % d
<1>1. n \in Int /\ e \in Int /\ s \in 0 .. d - 1 /\ n = d * e + s
  OBVIOUS
<1>2. ~ e < q
  BY <1>1, Products
<1>3. ~ q < e
  BY <1>1, Products
<1>4. e = q
  BY <1>1, <1>2, <1>3
<1> QED
  BY <1>1, <1>4

LEMMA Wraps ==
  ASSUME NEW x \in Int, - M <= x, x < M
  PROVE  Uint32(x) = IF x < 0 THEN x + M ELSE x
<1>1. M \in Nat /\ M > 0
  BY Bounds
<1>2. CASE x < 0
  <2>1. x + M \in 0 .. M - 1 /\ x = (-1) * M + (x + M)
    BY <1>1, <1>2
  <2> QED
    BY <1>1, <1>2, <2>1, Division DEF Uint32, M
<1>3. CASE x >= 0
  <2>1. x \in 0 .. M - 1 /\ x = 0 * M + x
    BY <1>1, <1>3
  <2> QED
    BY <1>1, <1>3, <2>1, Division DEF Uint32, M
<1> QED
  BY <1>2, <1>3

(* Shifting the bytes out and in again, twice, gives back the number.       *)
LEMMA Bytes ==
  ASSUME NEW a \in 0 .. BASE - 1, NEW b \in 0 .. BASE - 1,
         NEW c \in 0 .. BASE - 1, NEW d \in 0 .. BASE - 1
  PROVE  LET n == ((d * BASE + c) * BASE + b) * BASE + a
         IN  Byte0(n) = a /\ Byte1(n) = b /\ Byte2(n) = c /\ Byte3(n) = d
<1> DEFINE n1 == d * BASE + c
           n2 == n1 * BASE + b
           n3 == n2 * BASE + a
<1>1. BASE \in Nat /\ BASE > 0
  BY Bounds
<1>2. n1 \in Nat /\ n1 \div BASE = d /\ n1 % BASE = c
  BY <1>1, Division
<1>3. n2 \in Nat /\ n2 \div BASE = n1 /\ n2 % BASE = b
  <2> HIDE DEF n1
  <2> QED BY <1>1, <1>2, Division
<1>4. n3 \div BASE = n2 /\ n3 % BASE = a
  <2> HIDE DEF n2
  <2> QED BY <1>1, <1>3, Division
<1>5. d % BASE = d
  BY <1>1, Division
<1> QED
  BY <1>2, <1>3, <1>4, <1>5 DEF Byte0, Byte1, Byte2, Byte3

LEMMA Reverse32Twice ==
  ASSUME NEW n \in uint32
  PROVE  Reverse32(n) \in uint32 /\ Reverse32(Reverse32(n)) = n
<1> DEFINE q1 == n \div BASE
           q2 == q1 \div BASE
           q3 == q2 \div BASE
           q4 == q3 \div BASE
           a == n % BASE
           b == q1 % BASE
           c == q2 % BASE
           d == q3 % BASE
<1>1. BASE \in Nat /\ BASE >= 16 /\ n \in 0 .. M - 1
  BY Bounds
<1>2. q1 \in Nat /\ a \in 0 .. BASE - 1 /\ n = BASE * q1 + a
  BY <1>1
<1>3. q2 \in Nat /\ b \in 0 .. BASE - 1 /\ q1 = BASE * q2 + b
  BY <1>1, <1>2
<1>4. q3 \in Nat /\ c \in 0 .. BASE - 1 /\ q2 = BASE * q3 + c
  BY <1>1, <1>3
<1>5. q4 \in Nat /\ d \in 0 .. BASE - 1 /\ q3 = BASE * q4 + d
  BY <1>1, <1>4
<1> HIDE DEF q1, q2, q3, q4, a, b, c, d
<1>6. q4 = 0
  <2>1. ASSUME NEW x \in Nat, NEW y \in Nat, x < BASE * y,
               NEW u \in Nat, NEW v \in 0 .. BASE - 1, x = BASE * u + v
        PROVE  u < y
    <3>1. CASE y < u
      <4>1. BASE * y + BASE <= BASE * u
        BY <1>1, <3>1, Products
      <4> QED
        BY <1>1, <2>1, <4>1
    <3>2. CASE y = u
      BY <1>1, <2>1, <3>2
    <3> QED
      BY <3>1, <3>2
  <2>2. M = BASE * (BASE * (BASE * (BASE * 1)))
    BY <1>1 DEF M
  <2> DEFINE y1 == BASE * 1
             y2 == BASE * y1
             y3 == BASE * y2
  <2>3. y1 \in Nat /\ y2 \in Nat /\ y3 \in Nat /\ M = BASE * y3
    BY <1>1, <2>2
  <2> HIDE DEF y1, y2, y3
  <2>4. q1 < y3
    BY <1>1, <1>2, <2>1, <2>3
  <2>5. q2 < y2
    BY <1>2, <1>3, <2>1, <2>3, <2>4 DEF y3
  <2>6. q3 < y1
    BY <1>3, <1>4, <2>1, <2>3, <2>5 DEF y2
  <2>7. q4 < 1
    BY <1>4, <1>5, <2>1, <2>3, <2>6 DEF y1
  <2> QED
    BY <1>5, <2>7
<1>7. q3 = d
  BY <1>1, <1>5, <1>6
<1>8. n = ((d * BASE + c) * BASE + b) * BASE + a
  BY <1>1, <1>2, <1>3, <1>4, <1>7
<1>9. Reverse32(n) = ((a * BASE + b) * BASE + c) * BASE + d
  BY <1>2, <1>3, <1>4, <1>5, <1>8, Bytes DEF Reverse32
<1>10. Reverse32(Reverse32(n)) = ((d * BASE + c) * BASE + b) * BASE + a
  BY <1>2, <1>3, <1>4, <1>5, <1>9, Bytes DEF Reverse32
<1>11. Reverse32(n) \in uint32
  <2>1. ASSUME NEW x \in Nat, NEW y \in Nat, x < y, NEW v \in 0 .. BASE - 1
        PROVE  x * BASE + v \in Nat /\ x * BASE + v < y * BASE
    BY <1>1, <2>1, Products
  <2>2. a * BASE + b \in Nat /\ a * BASE + b < BASE * BASE
    BY <1>1, <1>2, <1>3, <2>1
  <2>3. /\ (a * BASE + b) * BASE + c \in Nat
        /\ (a * BASE + b) * BASE + c < BASE * BASE * BASE
    BY <1>1, <1>4, <2>1, <2>2
  <2>4. Reverse32(n) \in Nat /\ Reverse32(n) < BASE * BASE * BASE * BASE
    BY <1>1, <1>5, <1>9, <2>1, <2>3
  <2> QED
    BY <2>4, Bounds DEF M
<1> QED
  BY <1>8, <1>10, <1>11

-----------------------------------------------------------------------------
(* Types.                                                                   *)

LEMMA Captures ==
  ASSUME NEW f \in Capture
  PROVE  /\ f.magic \in Magic /\ f.packets \in Seq(Packet) /\ f.length \in Nat
         /\ \A i \in 1 .. Len(f.packets) : f.packets[i] \in Packet
BY PcapAssumption

LEMMA AfterType ==
  ASSUME capture \in Capture, position \in Nat, NEW n \in Nat
  PROVE  /\ After(n) \in Nat /\ After(n) >= position
         /\ Has(n) => After(n) = position + n
         /\ ~ Has(n) => After(n) >= capture.length
BY Captures DEF After, Has

LEMMA SeenType ==
  ASSUME capture \in Capture
  PROVE  Seen \subseteq Packet
BY Captures, PcapAssumption DEF Seen, Here

LEMMA ReadType ==
  ASSUME current \in Packet, NEW n
  PROVE  Read(n) \subseteq Packet
BY PcapAssumption DEF Read

LEMMA Uint32Type ==
  ASSUME NEW n \in Int
  PROVE  Uint32(n) \in uint32
<1>1. M \in Nat /\ M > 0 /\ Uint32(n) = n % M
  BY Bounds DEF Uint32, M
<1> QED
  BY <1>1, Bounds

LEMMA DeductType ==
  ASSUME NEW r \in uint32, NEW n \in Nat
  PROVE  Uint32(r - n) \in uint32
<1>1. r - n \in Int
  BY Bounds
<1> QED
  BY <1>1, Uint32Type

LEMMA SwapType ==
  ASSUME pcap_header_need_swap_byte \in BOOLEAN, NEW n \in uint32
  PROVE  SwapEndian(Written(n)) \in uint32
BY Reverse32Twice DEF SwapEndian, Written

(* What a uint8_t makes of the length of a header's options.                *)
LEMMA OptionsAre ==
  ASSUME NEW n \in 0 .. 15
  PROVE  Options(n, 20) = IF n < 5 THEN 4 * n + 236 ELSE 4 * n - 20
BY DEF Options, Uint8

LEMMA LongType ==
  ASSUME NEW n \in uint32, NEW p \in Nat
  PROVE  Seek(p, Long(n)) \in Nat
<1>1. Long(n) \in Int
  BY Bounds DEF Long, M
<1> QED
  BY <1>1 DEF Seek

THEOREM TypeCorrect == Spec => []TypeOK
<1>1. Init => TypeOK
  <2>1. 0 \in uint32 /\ Junk \subseteq Packet
    BY PcapAssumption, Bounds
  <2>2. Init => capture \in Capture /\ wide \in BOOLEAN /\ pc = "open"
    BY DEF Init
  <2>3. Init => current \in Packet /\ remaining_packet_data_length \in uint32
    BY <2>1 DEF Init
  <2>4. Init => pcap_header_need_swap_byte \in BOOLEAN
    BY DEF Init
  <2>5. Init => /\ position \in Nat /\ packet_count \in Nat
                /\ SYN_initiated_count \in Nat /\ ACK_count \in Nat
    BY DEF Init
  <2> QED
    BY <2>2, <2>3, <2>4, <2>5 DEF TypeOK
<1>2. TypeOK /\ [Next]_vars => TypeOK'
  <2> SUFFICES ASSUME TypeOK, [Next]_vars PROVE TypeOK'
    OBVIOUS
  <2> USE DEF TypeOK
  <2>1. CASE OpenFails
    BY <2>1 DEF OpenFails, Stops, input
  <2>2. CASE ReadFileHeader
    BY <2>2, AfterType
       DEF ReadFileHeader, input, counts, PCAP_FILE_HEADER_SIZE
  <2>3. CASE EndOfFile
    BY <2>3, AfterType DEF EndOfFile, input, counts, PCAP_PACKET_HEADER_SIZE
  <2>4. CASE ReadError
    BY <2>4 DEF ReadError, Stops, input
  <2>5. CASE ReadPacketHeader
    <3>1. current' \in Packet
      BY <2>5, SeenType DEF ReadPacketHeader
    <3>2. SwapEndian(Written(current'.captured)) \in uint32
      BY <3>1, SwapType DEF Packet
    <3>3. position' \in Nat
      BY <2>5, AfterType DEF ReadPacketHeader, PCAP_PACKET_HEADER_SIZE
    <3>4. remaining_packet_data_length' \in uint32
      BY <2>5, <3>2 DEF ReadPacketHeader
    <3> QED
      BY <2>5, <3>1, <3>3, <3>4 DEF ReadPacketHeader, input
  <2>6. CASE ReadLinkLayerHeader
    <3>1. position' \in Nat
      BY <2>6, AfterType DEF ReadLinkLayerHeader, LINK_LAYER_HEADER_SIZE
    <3>2. Uint32(remaining_packet_data_length - LINK_LAYER_HEADER_SIZE) \in uint32
      BY Uint32Type, Bounds DEF LINK_LAYER_HEADER_SIZE
    <3> QED
      BY <2>6, <3>1, <3>2 DEF ReadLinkLayerHeader, Consume, Stops, input
  <2>7. CASE ReadIpv4Header
    <3>1. PICK p \in Read(20) :
            /\ position' = After(20) + Options(p.ihl, 20)
            /\ \/ /\ pc' = "transport"
                  /\ remaining_packet_data_length'
                       = Uint32(remaining_packet_data_length
                                  - (20 + Options(p.ihl, 20)))
                  /\ current' \in {p} \cup Junk
                  /\ UNCHANGED <<pcap_header_need_swap_byte,
                                 SYN_initiated_count, ACK_count>>
               \/ Stops("failed")
      BY <2>7 DEF ReadIpv4Header, IPV4_HEADER_MIN_SIZE, Consume
    <3>2. p \in Packet /\ Options(p.ihl, 20) \in Nat
      <4>1. p \in Packet
        BY ReadType
      <4>2. p.ihl \in 0 .. 15
        BY <4>1 DEF Packet
      <4> QED
        BY <4>1, <4>2, OptionsAre
    <3>3. position' \in Nat
      BY <3>1, <3>2, AfterType
    <3>4. Uint32(remaining_packet_data_length - (20 + Options(p.ihl, 20))) \in uint32
      BY <3>2, DeductType
    <3>5. {p} \cup Junk \subseteq Packet
      BY <3>2, PcapAssumption
    <3>6. UNCHANGED <<input, packet_count>>
      BY <2>7 DEF ReadIpv4Header
    <3> QED
      BY <3>1, <3>3, <3>4, <3>5, <3>6 DEF Stops, input
  <2>8. CASE ReadTcpHeader
    <3>1. PICK p \in Read(20) :
            LET remaining == Uint32(remaining_packet_data_length
                                      - (20 + Options(p.data_offset, 20)))
            IN  /\ remaining_packet_data_length' = remaining
                /\ position' = Seek(After(20) + Options(p.data_offset, 20),
                                    Long(remaining))
                /\ Increment(SYN_initiated_count,
                             p.syn /\ Ntohs(p.destination_port) = 80)
                /\ Increment(ACK_count, p.ack /\ Ntohs(p.source_port) = 80)
      BY <2>8 DEF ReadTcpHeader, TCP_HEADER_MIN_SIZE
    <3>2. Options(p.data_offset, 20) \in Nat
      <4>1. p.data_offset \in 0 .. 15
        BY ReadType DEF Packet
      <4> QED
        BY <4>1, OptionsAre
    <3>3. Uint32(remaining_packet_data_length
                   - (20 + Options(p.data_offset, 20))) \in uint32
      BY <3>2, DeductType
    <3>4. position' \in Nat
      BY <3>1, <3>2, <3>3, AfterType, LongType
    <3>5. SYN_initiated_count' \in Nat /\ ACK_count' \in Nat
      BY <3>1 DEF Increment
    <3>6. /\ pc' = "packet"
          /\ UNCHANGED <<input, pcap_header_need_swap_byte, current, packet_count>>
      BY <2>8 DEF ReadTcpHeader
    <3> QED
      BY <3>1, <3>3, <3>4, <3>5, <3>6 DEF input
  <2>9. CASE UNCHANGED vars
    BY <2>9 DEF vars, input, counts
  <2> QED
    BY <2>1, <2>2, <2>3, <2>4, <2>5, <2>6, <2>7, <2>8, <2>9 DEF Next, Walk
<1> QED
  BY <1>1, <1>2, PTL DEF Spec

-----------------------------------------------------------------------------
(* Alignment.                                                               *)

Aligned(x) == \/ x = FileEnd
              \/ \E i \in 1 .. Len(Packets) : Packets[i].at = x
              \/ ~ (x + 16 <= capture.length)

\* At a header of a packet: how far, and what is left of the packet.  What is
\* left may have wrapped, which with a long of 64 bits leads behind the end.
AtLink(i) == /\ current = Packets[i]
             /\ position = Packets[i].at + 16
             /\ remaining_packet_data_length = Packets[i].captured

AtIpv4(i) == /\ current = Packets[i]
             /\ position = Packets[i].at + 20
             /\ remaining_packet_data_length = Uint32(Packets[i].captured - 4)

AtTransport(i) ==
  LET e == End(Packets[i])
  IN  \/ /\ position + remaining_packet_data_length = e
         /\ ~ wide => /\ remaining_packet_data_length >= 8
                      /\ 2 * remaining_packet_data_length < M
      \/ wide /\ position + remaining_packet_data_length = e + M

\* Behind the end of the file, from where the reader returns by less than the
\* header of a packet.
CutIpv4 ==
  /\ position >= capture.length
  /\ ~ wide => /\ remaining_packet_data_length >= 28
               /\ 2 * remaining_packet_data_length < M

CutTransport ==
  /\ position >= capture.length
  /\ ~ wide =>
       \/ /\ position + remaining_packet_data_length >= capture.length + 8
          /\ 2 * remaining_packet_data_length < M
       \/ /\ position + remaining_packet_data_length >= capture.length + 8 + M
          /\ remaining_packet_data_length >= M - 300

Walking ==
  /\ pc = "packet" => Aligned(position)
  /\ pc = "link" => \E i \in 1 .. Len(Packets) : AtLink(i)
  /\ pc = "ip" => (\E i \in 1 .. Len(Packets) : AtIpv4(i)) \/ CutIpv4
  /\ pc = "transport" =>
       (\E i \in 1 .. Len(Packets) : AtTransport(i)) \/ CutTransport

\* The magic number decides about swapping, if the file has one.
Swapping ==
  /\ pc = "open" => position = 0
  /\ pc \notin {"open", "error"} =>
       IF capture.length < 24
       THEN pc \in {"packet", "done"} /\ position >= capture.length
       ELSE pcap_header_need_swap_byte = IsForeign

AlignInv == TypeOK /\ Swapping /\ (IsWellFormed => Walking)

LEMMA AlignIsStaysAligned == AlignInv => StaysAligned
BY DEF AlignInv, Walking, StaysAligned, Aligned, Has, PCAP_PACKET_HEADER_SIZE

LEMMA Deducts ==
  ASSUME NEW r \in uint32, NEW n \in Nat, n <= 300
  PROVE  Uint32(r - n) = IF r < n THEN r - n + M ELSE r - n
<1>1. r - n \in Int /\ - M <= r - n /\ r - n < M /\ r \in Nat
  BY Bounds
<1> QED
  BY <1>1, Wraps

LEMMA LongIs ==
  ASSUME NEW n \in uint32
  PROVE  Long(n) = IF wide \/ 2 * n < M THEN n ELSE n - M
<1>1. n \in Nat /\ (2 * n \in uint32 <=> 2 * n < M)
  BY Bounds
<1> QED
  BY <1>1 DEF Long, M

(* Where a packet ends the next one begins, or the file ends.               *)
LEMMA NextBegins ==
  ASSUME capture \in Capture, NEW i \in 1 .. Len(Packets)
  PROVE  /\ Aligned(End(Packets[i]))
         /\ Packets[i] \in Packet /\ Packets[i].at \in Nat
         /\ Packets[i].captured \in uint32 /\ Packets[i].captured \in Nat
         /\ End(Packets[i]) = Packets[i].at + 16 + Packets[i].captured
<1>1. /\ Packets \in Seq(Packet) /\ Len(Packets) \in Nat
      /\ Packets[i] \in Packet
  BY Captures DEF Packets
<1>2. /\ Packets[i].at \in Nat
      /\ Packets[i].captured \in uint32
  BY <1>1 DEF Packet
<1>3. Packets[i].captured \in Nat
  BY <1>2, Bounds
<1>4. CASE i = Len(Packets)
  BY <1>1, <1>2, <1>3, <1>4 DEF Aligned, FileEnd, End, PCAP_PACKET_HEADER_SIZE
<1>5. CASE i # Len(Packets)
  <2>1. i + 1 \in 1 .. Len(Packets) /\ i + 1 # 1 /\ (i + 1) - 1 = i
    BY <1>1, <1>5
  <2>2. Packets[i + 1].at = End(Packets[(i + 1) - 1])
    BY <2>1, PcapAssumption DEF Packets
  <2>3. Packets[i + 1].at = End(Packets[i])
    BY <2>1, <2>2
  <2>4. Aligned(End(Packets[i]))
    BY <2>1, <2>3 DEF Aligned
  <2> QED
    BY <1>1, <1>2, <1>3, <2>4 DEF End, PCAP_PACKET_HEADER_SIZE
<1> QED
  BY <1>4, <1>5

LEMMA FitsMeans ==
  ASSUME capture \in Capture, IsWellFormed, ~ wide, NEW i \in 1 .. Len(Packets)
  PROVE  /\ Packets[i].ihl \in Nat /\ Packets[i].ihl >= 5
         /\ Packets[i].captured >= 4 + 4 * Packets[i].ihl + 8
         /\ Packets[i].captured >= 32
         /\ 2 * Packets[i].captured < M
<1>1. Packets[i] \in Packet /\ Packets[i].captured \in Nat /\ Fits(Packets[i])
  BY NextBegins DEF IsWellFormed
<1>2. Packets[i].ihl \in Nat
  BY <1>1 DEF Packet
<1>3. /\ Packets[i].ihl >= 5
      /\ Packets[i].captured >= 4 + 4 * Packets[i].ihl + 8
      /\ 2 * Packets[i].captured \in uint32
  BY <1>1 DEF Fits, LINK_LAYER_HEADER_SIZE
<1> QED
  BY <1>1, <1>2, <1>3, Bounds

LEMMA BehindEnd ==
  ASSUME capture \in Capture, IsWellFormed, NEW x \in Nat, x >= M
  PROVE  Aligned(x)
<1>1. capture.length \in Nat /\ capture.length <= FileEnd /\ FileEnd \in 0 .. M - 1
  BY Captures, Bounds DEF IsWellFormed
<1> QED
  BY <1>1, Bounds DEF Aligned

(* One lemma for each header: where the reader is after it.                 *)
LEMMA PacketHeader ==
  ASSUME AlignInv, IsWellFormed, ReadPacketHeader
  PROVE  /\ pc' \in {"link", "done"}
         /\ pc' = "link" => (\E i \in 1 .. Len(Packets) : AtLink(i))'
<1>1. /\ pc = "packet" /\ position \in Nat /\ capture \in Capture
      /\ position + 16 <= capture.length /\ position' = position + 16
      /\ current' \in Seen /\ UNCHANGED capture
  BY AfterType DEF AlignInv, TypeOK, ReadPacketHeader, Has, input,
                   PCAP_PACKET_HEADER_SIZE
<1>2. capture.length \in Nat /\ FileEnd \in Nat /\ capture.length <= FileEnd
  BY <1>1, Captures, Bounds DEF IsWellFormed
<1>3. Here # {}
  BY <1>1, <1>2 DEF AlignInv, Walking, Aligned, Here, Packets
<1>4. PICK i \in 1 .. Len(Packets) :
        current' = Packets[i] /\ Packets[i].at = position
  BY <1>1, <1>3 DEF Seen, Here, Packets
<1>5. pcap_header_need_swap_byte = IsForeign
  BY <1>1, <1>2 DEF AlignInv, Swapping
<1>6. SwapEndian(Written(Packets[i].captured)) = Packets[i].captured
  <2>1. Packets[i].captured \in uint32
    BY <1>1, NextBegins
  <2> QED
    BY <1>5, <2>1, Reverse32Twice DEF SwapEndian, Written
<1>7. \/ pc' = "done"
      \/ /\ pc' = "link"
         /\ remaining_packet_data_length' = SwapEndian(Written(current'.captured))
  BY DEF ReadPacketHeader
<1>8. Packets' = Packets
  BY <1>1 DEF Packets
<1> QED
  BY <1>1, <1>4, <1>6, <1>7, <1>8 DEF AtLink

LEMMA LinkLayerHeader ==
  ASSUME AlignInv, IsWellFormed, ReadLinkLayerHeader
  PROVE  /\ pc' \in {"ip", "failed"}
         /\ pc' = "ip" => ((\E i \in 1 .. Len(Packets) : AtIpv4(i)) \/ CutIpv4)'
<1> SUFFICES ASSUME pc' # "failed"
             PROVE  pc' = "ip" /\ ((\E i \in 1 .. Len(Packets) : AtIpv4(i)) \/ CutIpv4)'
  OBVIOUS
<1>1. /\ pc = "link" /\ pc' = "ip" /\ position' = After(4)
      /\ remaining_packet_data_length' = Uint32(remaining_packet_data_length - 4)
      /\ UNCHANGED <<capture, wide, current>>
  <2>1. /\ pc = "link" /\ position' = After(4)
        /\ UNCHANGED <<capture, wide>>
    BY DEF ReadLinkLayerHeader, input, LINK_LAYER_HEADER_SIZE
  <2>2. \/ /\ pc' = "ip" /\ UNCHANGED current
           /\ remaining_packet_data_length' = Uint32(remaining_packet_data_length - 4)
        \/ pc' = "failed"
    BY DEF ReadLinkLayerHeader, Stops, Consume, LINK_LAYER_HEADER_SIZE
  <2> QED
    BY <2>1, <2>2
<1>2. PICK i \in 1 .. Len(Packets) : AtLink(i)
  BY <1>1 DEF AlignInv, Walking
<1>3. /\ capture \in Capture /\ position \in Nat
      /\ Packets[i].captured \in uint32 /\ Packets[i].captured \in Nat
      /\ Packets[i].at \in Nat /\ Packets' = Packets
  BY <1>1, NextBegins DEF AlignInv, TypeOK, Packets
<1>4. CASE Has(4)
  <2>1. position' = Packets[i].at + 20
    <3>1. After(4) = position + 4
      BY <1>3, <1>4, AfterType
    <3> QED
      BY <1>1, <1>2, <1>3, <3>1 DEF AtLink
  <2>2. AtIpv4(i)'
    BY <1>1, <1>2, <1>3, <2>1 DEF AtLink, AtIpv4
  <2> QED
    BY <1>1, <1>3, <2>2
<1>5. CASE ~ Has(4)
  <2>1. position' >= capture.length
    BY <1>1, <1>3, <1>5, AfterType
  <2>2. ASSUME ~ wide
        PROVE  /\ remaining_packet_data_length' >= 28
               /\ 2 * remaining_packet_data_length' < M
    <3>1. /\ Packets[i].captured >= 32
          /\ 2 * Packets[i].captured < M
      BY <1>3, <2>2, FitsMeans
    <3>2. remaining_packet_data_length' = Packets[i].captured - 4
      BY <1>1, <1>2, <1>3, <3>1, Deducts DEF AtLink
    <3> QED
      BY <1>3, <3>1, <3>2, Bounds
  <2> QED
    BY <1>1, <2>1, <2>2 DEF CutIpv4
<1> QED
  BY <1>1, <1>4, <1>5

LEMMA Sums ==
  ASSUME NEW at \in Nat, NEW captured \in Nat, NEW o \in Nat, o <= 252,
         NEW r \in Nat, r = IF captured < 4 THEN captured - 4 + M ELSE captured - 4
  PROVE  LET q == IF r < 20 + o THEN r - (20 + o) + M ELSE r - (20 + o)
         IN  at + 40 + o + q \in {at + 16 + captured, at + 16 + captured + M}
BY Bounds

LEMMA SumsExactly ==
  ASSUME NEW at \in Nat, NEW captured \in Nat, NEW o \in Nat
  PROVE  (at + 40 + o) + (captured - 4 - (20 + o)) = at + 16 + captured
OBVIOUS

(* What the reader skips and deducts in a header with options.               *)
LEMMA Ipv4Read ==
  ASSUME AlignInv, ReadIpv4Header, pc' # "failed"
  PROVE  \E p \in Read(20) :
           LET o == Options(p.ihl, 20)
           IN  /\ p \in Packet /\ p.ihl \in 0 .. 15
               /\ o = IF p.ihl < 5 THEN 4 * p.ihl + 236 ELSE 4 * p.ihl - 20
               /\ o \in Nat /\ o <= 252
               /\ pc = "ip" /\ pc' = "transport" /\ position' = After(20) + o
               /\ remaining_packet_data_length' =
                    IF remaining_packet_data_length < 20 + o
                    THEN remaining_packet_data_length - (20 + o) + M
                    ELSE remaining_packet_data_length - (20 + o)
               /\ p.protocol = TCP /\ p.ihl >= 5 => current' = p
               /\ UNCHANGED <<input, counts>>
<1>1. PICK p \in Read(20) :
        /\ position' = After(20) + Options(p.ihl, 20)
        /\ \/ /\ pc' = "transport"
              /\ Consume(20 + Options(p.ihl, 20))
              /\ p.protocol = TCP /\ p.ihl >= 5 => current' = p
              /\ UNCHANGED <<SYN_initiated_count, ACK_count>>
           \/ Stops("failed")
  BY DEF ReadIpv4Header, IPV4_HEADER_MIN_SIZE
<1> DEFINE o == Options(p.ihl, 20)
<1>2. pc = "ip" /\ UNCHANGED <<input, packet_count>>
  BY DEF ReadIpv4Header
<1>3. /\ pc' = "transport" /\ position' = After(20) + o
      /\ remaining_packet_data_length' = Uint32(remaining_packet_data_length - (20 + o))
      /\ p.protocol = TCP /\ p.ihl >= 5 => current' = p
      /\ UNCHANGED <<input, counts>>
  <2>1. ~ Stops("failed")
    BY DEF Stops
  <2> QED
    BY <1>1, <1>2, <2>1 DEF Consume, counts
<1>4. p \in Packet /\ p.ihl \in 0 .. 15
  <2>1. p \in Packet
    BY ReadType DEF AlignInv, TypeOK
  <2> QED
    BY <2>1 DEF Packet
<1>5. /\ o = IF p.ihl < 5 THEN 4 * p.ihl + 236 ELSE 4 * p.ihl - 20
      /\ o \in Nat /\ o <= 252
  BY <1>4, OptionsAre
<1> HIDE DEF o
<1>6. remaining_packet_data_length' =
        IF remaining_packet_data_length < 20 + o
        THEN remaining_packet_data_length - (20 + o) + M
        ELSE remaining_packet_data_length - (20 + o)
  <2>1. 20 + o \in Nat /\ 20 + o <= 300
    BY <1>5
  <2>2. remaining_packet_data_length \in uint32
    BY DEF AlignInv, TypeOK
  <2> QED
    BY <1>3, <2>1, <2>2, Deducts
<1>7. p \in Read(20)
  OBVIOUS
<1> QED
  BY <1>2, <1>3, <1>4, <1>5, <1>6, <1>7 DEF o

LEMMA Ipv4BehindEnd ==
  ASSUME AlignInv, ReadIpv4Header, pc' # "failed", After(20) >= capture.length,
         ~ wide => /\ remaining_packet_data_length >= 28
                   /\ 2 * remaining_packet_data_length < M
  PROVE  CutTransport'
<1>1. PICK p \in Read(20) :
        LET o == Options(p.ihl, 20)
        IN  /\ o \in Nat /\ o <= 252
            /\ position' = After(20) + o
            /\ remaining_packet_data_length' =
                 IF remaining_packet_data_length < 20 + o
                 THEN remaining_packet_data_length - (20 + o) + M
                 ELSE remaining_packet_data_length - (20 + o)
            /\ UNCHANGED input
  BY Ipv4Read
<1> DEFINE o == Options(p.ihl, 20)
<1>2. /\ o \in Nat /\ o <= 252 /\ position' = After(20) + o
      /\ remaining_packet_data_length' =
           IF remaining_packet_data_length < 20 + o
           THEN remaining_packet_data_length - (20 + o) + M
           ELSE remaining_packet_data_length - (20 + o)
      /\ UNCHANGED <<capture, wide>>
  BY <1>1 DEF input
<1>3. /\ capture \in Capture /\ position \in Nat
      /\ remaining_packet_data_length \in Nat /\ remaining_packet_data_length < M
      /\ M \in Nat /\ M >= 65536 /\ capture.length \in Nat /\ wide \in BOOLEAN
  BY Bounds, Captures DEF AlignInv, TypeOK
<1>4. After(20) \in Nat
  BY <1>3, AfterType
<1> HIDE DEF o
<1> QED
  BY <1>2, <1>3, <1>4 DEF CutTransport

LEMMA Ipv4Header ==
  ASSUME AlignInv, IsWellFormed, ReadIpv4Header
  PROVE  /\ pc' \in {"transport", "failed"}
         /\ pc' = "transport" =>
              ((\E i \in 1 .. Len(Packets) : AtTransport(i)) \/ CutTransport)'
<1> SUFFICES ASSUME pc' # "failed"
             PROVE  /\ pc' = "transport"
                    /\ ((\E i \in 1 .. Len(Packets) : AtTransport(i)) \/ CutTransport)'
  OBVIOUS
<1>1. PICK p \in Read(20) :
        LET o == Options(p.ihl, 20)
        IN  /\ p \in Packet /\ p.ihl \in 0 .. 15
            /\ o = IF p.ihl < 5 THEN 4 * p.ihl + 236 ELSE 4 * p.ihl - 20
            /\ o \in Nat /\ o <= 252
            /\ pc = "ip" /\ pc' = "transport" /\ position' = After(20) + o
            /\ remaining_packet_data_length' =
                 IF remaining_packet_data_length < 20 + o
                 THEN remaining_packet_data_length - (20 + o) + M
                 ELSE remaining_packet_data_length - (20 + o)
            /\ UNCHANGED input
  BY Ipv4Read
<1> DEFINE o == Options(p.ihl, 20)
<1>2. /\ pc = "ip" /\ pc' = "transport" /\ position' = After(20) + o
      /\ UNCHANGED <<capture, wide>> /\ Packets' = Packets
  BY <1>1 DEF input, Packets
<1>3. /\ capture \in Capture /\ position \in Nat
      /\ remaining_packet_data_length \in uint32
      /\ remaining_packet_data_length \in Nat /\ remaining_packet_data_length < M
      /\ M \in Nat /\ M >= 65536 /\ capture.length \in Nat /\ wide \in BOOLEAN
  BY Bounds, Captures DEF AlignInv, TypeOK
<1>4. p.ihl \in 0 .. 15
  BY <1>1
<1>5. /\ o = IF p.ihl < 5 THEN 4 * p.ihl + 236 ELSE 4 * p.ihl - 20
      /\ o \in Nat /\ o <= 252
  BY <1>1
<1>6. remaining_packet_data_length' =
        IF remaining_packet_data_length < 20 + o
        THEN remaining_packet_data_length - (20 + o) + M
        ELSE remaining_packet_data_length - (20 + o)
  BY <1>1
<1> HIDE DEF o
<1>7. ASSUME NEW i \in 1 .. Len(Packets), AtIpv4(i), Has(20)
      PROVE  AtTransport(i)'
  <2>1. /\ Packets[i].captured \in uint32 /\ Packets[i].captured \in Nat
        /\ Packets[i].at \in Nat /\ Packets[i] \in Packet
        /\ End(Packets[i]) = Packets[i].at + 16 + Packets[i].captured
    BY <1>3, NextBegins
  <2>2. p = Packets[i] /\ position' = Packets[i].at + 40 + o
    <3>1. p = Packets[i]
      BY <1>1, <1>7 DEF Read, AtIpv4
    <3>2. After(20) = position + 20
      BY <1>3, <1>7, AfterType
    <3> QED
      BY <1>2, <1>5, <1>7, <2>1, <3>1, <3>2 DEF AtIpv4
  <2>3. remaining_packet_data_length = IF Packets[i].captured < 4
                                       THEN Packets[i].captured - 4 + M
                                       ELSE Packets[i].captured - 4
    BY <1>7, <2>1, Deducts DEF AtIpv4
  <2>4. ASSUME ~ wide
        PROVE  /\ p.ihl >= 5
               /\ Packets[i].captured >= 4 + 4 * p.ihl + 8
               /\ 2 * Packets[i].captured < M
    BY <1>3, <2>2, <2>4, FitsMeans
  <2>5. CASE wide
    <3> DEFINE q == IF remaining_packet_data_length < 20 + o
                    THEN remaining_packet_data_length - (20 + o) + M
                    ELSE remaining_packet_data_length - (20 + o)
    <3>2. Packets[i].at + 40 + o + q
            \in {Packets[i].at + 16 + Packets[i].captured,
                 Packets[i].at + 16 + Packets[i].captured + M}
      <4>1. o \in Nat /\ o <= 252
        BY <1>5
      <4>2. remaining_packet_data_length \in Nat
        BY <1>3
      <4>3. Packets[i].at \in Nat /\ Packets[i].captured \in Nat
        BY <2>1
      <4> QED
        BY <2>3, <4>1, <4>2, <4>3, Sums
    <3>3. remaining_packet_data_length' = q
      BY <1>6
    <3> HIDE DEF q
    <3>1. \/ position' + remaining_packet_data_length' = End(Packets[i])
          \/ position' + remaining_packet_data_length' = End(Packets[i]) + M
      BY <2>1, <2>2, <3>2, <3>3
    <3> QED
      BY <1>2, <2>5, <3>1 DEF AtTransport
  <2>6. CASE ~ wide
    <3>2. /\ remaining_packet_data_length = Packets[i].captured - 4
          /\ remaining_packet_data_length >= 20 + o + 8
          /\ Packets[i].captured - 4 - (20 + o) >= 8
      <4>1. p.ihl >= 5 /\ Packets[i].captured >= 4 + 4 * p.ihl + 8
        BY <2>4, <2>6
      <4>2. Packets[i].captured \in Nat
        BY <2>1
      <4>3. o = IF p.ihl < 5 THEN 4 * p.ihl + 236 ELSE 4 * p.ihl - 20
        BY <1>5
      <4>4. p.ihl \in Nat
        BY <1>4
      <4>5. o = 4 * p.ihl - 20
        BY <4>1, <4>3, <4>4
      <4>6. Packets[i].captured >= 32
        BY <4>1, <4>2, <4>4
      <4>7. remaining_packet_data_length = Packets[i].captured - 4
        BY <2>3, <4>2, <4>6
      <4>8. Packets[i].captured - 4 >= 4 * p.ihl + 8
        BY <4>1, <4>2, <4>4
      <4> HIDE DEF o
      <4>9. 20 + o = 4 * p.ihl
        BY <4>4, <4>5
      <4>10. /\ Packets[i].captured - 4 >= 20 + o + 8
             /\ Packets[i].captured - 4 - (20 + o) >= 8
        BY <4>2, <4>4, <4>8, <4>9
      <4> QED
        BY <4>7, <4>10
    <3>3. remaining_packet_data_length' = Packets[i].captured - 4 - (20 + o)
      BY <1>3, <1>5, <1>6, <3>2
    <3>4. position' + remaining_packet_data_length' = End(Packets[i])
      <4>1. o \in Nat
        BY <1>5
      <4>2. position' = Packets[i].at + 40 + o
        BY <2>2
      <4>3. Packets[i].at \in Nat /\ Packets[i].captured \in Nat
        BY <2>1
      <4>4. (Packets[i].at + 40 + o) + (Packets[i].captured - 4 - (20 + o))
              = Packets[i].at + 16 + Packets[i].captured
        BY <4>1, <4>3, SumsExactly
      <4>5. End(Packets[i]) = Packets[i].at + 16 + Packets[i].captured
        BY <2>1
      <4> QED
        BY <3>3, <4>2, <4>4, <4>5
    <3>5. remaining_packet_data_length' >= 8
      BY <3>2, <3>3
    <3>6. 2 * remaining_packet_data_length' < M
      <4>1. o \in Nat /\ M \in Nat
        BY <1>3, <1>5
      <4>2. 2 * Packets[i].captured < M
        BY <2>4, <2>6
      <4> QED
        BY <2>1, <3>3, <4>1, <4>2
    <3>1. /\ position' + remaining_packet_data_length' = End(Packets[i])
          /\ remaining_packet_data_length' >= 8 /\ 2 * remaining_packet_data_length' < M
      BY <3>4, <3>5, <3>6
    <3> QED
      BY <1>2, <3>1 DEF AtTransport
  <2> QED
    BY <2>5, <2>6
<1>8. ASSUME After(20) >= capture.length,
             ~ wide => /\ remaining_packet_data_length >= 28
                       /\ 2 * remaining_packet_data_length < M
      PROVE  CutTransport'
  BY <1>8, Ipv4BehindEnd
<1>9. ASSUME NEW i \in 1 .. Len(Packets), AtIpv4(i), ~ wide
      PROVE  remaining_packet_data_length >= 28 /\ 2 * remaining_packet_data_length < M
  <2>1. Packets[i].captured \in uint32 /\ Packets[i].captured \in Nat
        /\ Packets[i] \in Packet
    BY <1>3, NextBegins
  <2>3. Packets[i].captured >= 32 /\ 2 * Packets[i].captured < M
    BY <1>3, <1>9, FitsMeans
  <2>4. remaining_packet_data_length = Packets[i].captured - 4
    BY <1>9, <2>1, <2>3, Deducts DEF AtIpv4
  <2> QED
    BY <1>3, <2>1, <2>3, <2>4
<1>10. (\E i \in 1 .. Len(Packets) : AtIpv4(i)) \/ CutIpv4
  BY <1>2 DEF AlignInv, Walking
<1>11. CASE CutIpv4
  <2>1. After(20) >= capture.length
    BY <1>3, <1>11, AfterType DEF CutIpv4
  <2> QED
    BY <1>2, <1>8, <1>11, <2>1 DEF CutIpv4
<1>12. CASE \E i \in 1 .. Len(Packets) : AtIpv4(i)
  <2>1. PICK i \in 1 .. Len(Packets) : AtIpv4(i)
    BY <1>12
  <2>2. CASE Has(20)
    BY <1>2, <1>7, <2>1, <2>2
  <2>3. CASE ~ Has(20)
    BY <1>2, <1>3, <1>8, <1>9, <2>1, <2>3, AfterType
  <2> QED
    BY <2>2, <2>3
<1> QED
  BY <1>10, <1>11, <1>12

(* What is left behind the TCP header, as the fseek() of line 246 takes it. *)
LEMMA LeftWide ==
  ASSUME wide, NEW r \in uint32, NEW n \in Nat, n <= 300
  PROVE  /\ Long(Uint32(r - n)) \in Nat
         /\ Long(Uint32(r - n)) \in {r - n, r - n + M}
<1>1. r \in Nat /\ r < M
  BY Bounds
<1>2. Uint32(r - n) = IF r < n THEN r - n + M ELSE r - n
  BY Deducts
<1>3. Uint32(r - n) \in uint32 /\ Uint32(r - n) \in Nat
  <2>1. Uint32(r - n) \in uint32
    BY DeductType
  <2> QED
    BY <2>1, Bounds
<1> QED
  BY <1>1, <1>2, <1>3, LongIs, Bounds

LEMMA LeftNarrow ==
  ASSUME ~ wide, NEW r \in uint32, NEW n \in Nat, n <= 300
  PROVE  /\ 2 * r < M => Long(Uint32(r - n)) = r - n
         /\ r >= M - 300 => Long(Uint32(r - n)) = r - n - M
<1>1. r \in Nat /\ r < M
  BY Bounds
<1>2. Uint32(r - n) = IF r < n THEN r - n + M ELSE r - n
  BY Deducts
<1>3. Long(Uint32(r - n)) = IF 2 * Uint32(r - n) < M
                            THEN Uint32(r - n) ELSE Uint32(r - n) - M
  BY DeductType, LongIs
<1> QED
  BY <1>1, <1>2, <1>3, Bounds

\* the sums of positions and lengths below
LEMMA Cancels ==
  ASSUME NEW a \in Nat, NEW o \in Nat, NEW r \in Int, NEW m \in Nat
  PROVE  /\ (a + o) + (r - (20 + o)) = a + r - 20
         /\ (a + o) + (r - (20 + o) + m) = a + r - 20 + m
         /\ (a + o) + (r - (20 + o) - m) = a + r - 20 - m
OBVIOUS

LEMMA TcpBehindEnd ==
  ASSUME AlignInv, ReadTcpHeader, After(20) >= capture.length,
         ~ wide =>
           \/ /\ After(20) + remaining_packet_data_length >= capture.length + 8
              /\ 2 * remaining_packet_data_length < M
           \/ /\ After(20) + remaining_packet_data_length >= capture.length + 8 + M
              /\ remaining_packet_data_length >= M - 300
  PROVE  ~ (position' + 16 <= capture.length)
<1>1. PICK p \in Read(20) :
        position' = Seek(After(20) + Options(p.data_offset, 20),
                         Long(Uint32(remaining_packet_data_length
                                       - (20 + Options(p.data_offset, 20)))))
  BY DEF ReadTcpHeader, TCP_HEADER_MIN_SIZE
<1> DEFINE r == remaining_packet_data_length
           a == After(20)
           o == Options(p.data_offset, 20)
           n == Long(Uint32(r - (20 + o)))
<1>2. /\ pc = "transport" /\ pc' = "packet"
      /\ UNCHANGED <<capture, wide>>
  BY DEF ReadTcpHeader, input
<1>3. /\ capture \in Capture /\ position \in Nat /\ r \in uint32
      /\ capture.length \in Nat
  BY Captures DEF AlignInv, TypeOK
<1>4. r \in Nat /\ r < M /\ M \in Nat /\ M >= 65536
  BY <1>3, Bounds
<1>5. o \in Nat /\ o <= 252
  <2>1. p \in Packet
    BY ReadType DEF AlignInv, TypeOK
  <2>2. p.data_offset \in 0 .. 15
    BY <2>1 DEF Packet
  <2> QED
    BY <2>2, OptionsAre
<1>6. /\ a \in Nat /\ a >= position
      /\ Has(20) => a = position + 20
      /\ ~ Has(20) => a >= capture.length
  BY <1>3, AfterType
<1>7. position' = IF a + o + n >= 0 THEN a + o + n ELSE a + o
  BY <1>1 DEF Seek
<1>8. 20 + o \in Nat /\ 20 + o <= 300
  BY <1>5
<1>9. wide => n \in Nat /\ n \in {r - (20 + o), r - (20 + o) + M}
  BY <1>3, <1>8, LeftWide
<1>10. ~ wide => /\ 2 * r < M => n = r - (20 + o)
                 /\ r >= M - 300 => n = r - (20 + o) - M
  BY <1>3, <1>8, LeftNarrow
<1>11. /\ a >= capture.length
       /\ ~ wide => \/ a + r >= capture.length + 8 /\ 2 * r < M
                    \/ a + r >= capture.length + 8 + M /\ r >= M - 300
  OBVIOUS
<1> HIDE DEF r, a, o, n
<1>12. position' \in Int /\ position' >= capture.length - 12
  <2>1. CASE wide
    BY <1>3, <1>5, <1>6, <1>7, <1>9, <1>11, <2>1
  <2>2. CASE ~ wide
    <3>1. a + o + n \in Int /\ a + o + n >= capture.length - 12
      <4>1. CASE 2 * r < M /\ a + r >= capture.length + 8
        <5>1. a + o + n = a + r - 20
          BY <1>4, <1>5, <1>6, <1>10, <2>2, <4>1, Cancels
        <5> QED
          BY <1>3, <1>4, <1>6, <4>1, <5>1
      <4>2. CASE r >= M - 300 /\ a + r >= capture.length + 8 + M
        <5>1. a + o + n = a + r - 20 - M
          BY <1>4, <1>5, <1>6, <1>10, <2>2, <4>2, Cancels
        <5> QED
          BY <1>3, <1>4, <1>6, <4>2, <5>1
      <4> QED
        BY <1>11, <2>2, <4>1, <4>2
    <3> QED
      BY <1>3, <1>5, <1>6, <1>7, <1>11, <3>1
  <2> QED
    BY <2>1, <2>2
<1> QED
  BY <1>3, <1>12

LEMMA TcpHeader ==
  ASSUME AlignInv, IsWellFormed, ReadTcpHeader
  PROVE  pc' = "packet" /\ Aligned(position)'
<1>1. PICK p \in Read(20) :
        position' = Seek(After(20) + Options(p.data_offset, 20),
                         Long(Uint32(remaining_packet_data_length
                                       - (20 + Options(p.data_offset, 20)))))
  BY DEF ReadTcpHeader, TCP_HEADER_MIN_SIZE
<1> DEFINE r == remaining_packet_data_length
           a == After(20)
           o == Options(p.data_offset, 20)
           n == Long(Uint32(r - (20 + o)))
<1>2. /\ pc = "transport" /\ pc' = "packet"
      /\ UNCHANGED <<capture, wide>>
  BY DEF ReadTcpHeader, input
<1>3. /\ capture \in Capture /\ position \in Nat /\ r \in uint32
      /\ capture.length \in Nat
  BY Captures DEF AlignInv, TypeOK
<1>4. r \in Nat /\ r < M /\ M \in Nat /\ M >= 65536
  BY <1>3, Bounds
<1>5. o \in Nat /\ o <= 252
  <2>1. p \in Packet
    BY ReadType DEF AlignInv, TypeOK
  <2>2. p.data_offset \in 0 .. 15
    BY <2>1 DEF Packet
  <2> QED
    BY <2>2, OptionsAre
<1>6. /\ a \in Nat /\ a >= position
      /\ Has(20) => a = position + 20
      /\ ~ Has(20) => a >= capture.length
  BY <1>3, AfterType
<1>7. position' = IF a + o + n >= 0 THEN a + o + n ELSE a + o
  BY <1>1 DEF Seek
<1>8. 20 + o \in Nat /\ 20 + o <= 300
  BY <1>5
<1>9. wide => n \in Nat /\ n \in {r - (20 + o), r - (20 + o) + M}
  BY <1>3, <1>8, LeftWide
<1>10. ~ wide => /\ 2 * r < M => n = r - (20 + o)
                 /\ r >= M - 300 => n = r - (20 + o) - M
  BY <1>3, <1>8, LeftNarrow
<1> HIDE DEF r, a, o, n
<1>11. ASSUME NEW i \in 1 .. Len(Packets), AtTransport(i), Has(20)
       PROVE  Aligned(position')
  <2> DEFINE e == End(Packets[i])
  <2>1. e \in Nat /\ Aligned(e)
    <3>1. e = Packets[i].at + 16 + Packets[i].captured
      BY <1>3, NextBegins
    <3>2. Packets[i].at \in Nat /\ Packets[i].captured \in Nat
      BY <1>3, NextBegins
    <3>3. Aligned(e)
      BY <1>3, NextBegins
    <3> QED
      BY <3>1, <3>2, <3>3
  <2>2. a + r - 20 = position + r
    BY <1>3, <1>4, <1>6, <1>11
  <2>3. CASE wide
    <3>1. position + r \in {e, e + M}
      BY <1>11, <2>3 DEF AtTransport, r
    <3>2. a + o + n = position' /\ n \in {r - (20 + o), r - (20 + o) + M}
      BY <1>5, <1>6, <1>7, <1>9, <2>3
    <3>3. position' \in {position + r, position + r + M}
      BY <1>4, <1>5, <1>6, <2>2, <3>2, Cancels
    <3> HIDE DEF e
    <3>4. position' = e \/ (position' \in Nat /\ position' >= M)
      BY <1>4, <2>1, <3>1, <3>3
    <3> QED
      BY <1>3, <2>1, <3>4, BehindEnd
  <2>4. CASE ~ wide
    <3>1. position + r = e /\ 2 * r < M
      BY <1>11, <2>4 DEF AtTransport, r
    <3>2. a + o + n = a + r - 20
      BY <1>4, <1>5, <1>6, <1>10, <2>4, <3>1, Cancels
    <3> QED
      BY <1>7, <2>1, <2>2, <3>1, <3>2
  <2> QED
    BY <2>3, <2>4
<1>12. ASSUME a >= capture.length,
              ~ wide => \/ a + r >= capture.length + 8 /\ 2 * r < M
                        \/ a + r >= capture.length + 8 + M /\ r >= M - 300
       PROVE  Aligned(position')
  <2>1. /\ After(20) >= capture.length
        /\ ~ wide =>
             \/ /\ After(20) + remaining_packet_data_length >= capture.length + 8
                /\ 2 * remaining_packet_data_length < M
             \/ /\ After(20) + remaining_packet_data_length >= capture.length + 8 + M
                /\ remaining_packet_data_length >= M - 300
    BY <1>12 DEF a, r
  <2> QED
    BY <2>1, TcpBehindEnd DEF Aligned
<1>13. Aligned(position')
  <2>1. (\E i \in 1 .. Len(Packets) : AtTransport(i)) \/ CutTransport
    BY <1>2 DEF AlignInv, Walking
  <2>2. CASE CutTransport
    <3>1. a >= capture.length
      BY <1>3, <1>6, <2>2 DEF CutTransport
    <3>2. ~ wide => \/ a + r >= capture.length + 8 /\ 2 * r < M
                    \/ a + r >= capture.length + 8 + M /\ r >= M - 300
      BY <1>3, <1>4, <1>6, <2>2 DEF CutTransport, r
    <3> QED
      BY <1>12, <3>1, <3>2
  <2>3. ASSUME NEW i \in 1 .. Len(Packets), AtTransport(i) PROVE Aligned(position')
    <3>1. CASE Has(20)
      BY <1>11, <2>3, <3>1
    <3>2. CASE ~ Has(20)
      <4>1. a >= capture.length
        BY <1>6, <3>2
      <4>2. ~ wide => a + r >= capture.length + 8 /\ 2 * r < M
        BY <1>3, <1>4, <1>6, <2>3, <4>1 DEF AtTransport, r
      <4> QED
        BY <1>12, <4>1, <4>2
    <3> QED
      BY <3>1, <3>2
  <2> QED
    BY <2>1, <2>2, <2>3
<1> QED
  BY <1>2, <1>13 DEF Aligned, FileEnd, Packets

LEMMA FileHeader ==
  ASSUME AlignInv, ReadFileHeader
  PROVE  Swapping' /\ Walking'
<1>1. /\ pc = "open" /\ pc' = "packet" /\ position = 0 /\ position' = After(24)
      /\ UNCHANGED capture /\ capture \in Capture /\ capture.length \in Nat
      /\ Packets \in Seq(Packet)
  BY Captures DEF AlignInv, TypeOK, Swapping, ReadFileHeader, input, Packets,
                  PCAP_FILE_HEADER_SIZE
<1>2. CASE Has(24)
  <2>1. position' = 24 /\ capture.length >= 24
    BY <1>1, <1>2, AfterType DEF Has
  <2>2. pcap_header_need_swap_byte' = IsForeign
    BY <1>2 DEF ReadFileHeader, PCAP_FILE_HEADER_SIZE, IsForeign
  <2>3. Aligned(position)'
    <3>1. CASE Packets = <<>>
      BY <1>1, <2>1, <3>1 DEF Aligned, FileEnd, Packets, PCAP_FILE_HEADER_SIZE
    <3>2. CASE Packets # <<>>
      <4>1. 1 \in 1 .. Len(Packets)
        BY <1>1, <3>2
      <4>2. Packets[1].at = 24
        BY <1>1, <4>1, PcapAssumption DEF Packets, PCAP_FILE_HEADER_SIZE
      <4> QED
        BY <1>1, <2>1, <4>1, <4>2 DEF Aligned, Packets
    <3> QED
      BY <3>1, <3>2
  <2> QED
    BY <1>1, <2>1, <2>2, <2>3 DEF Swapping, Walking, IsForeign
<1>3. CASE ~ Has(24)
  <2>1. position' \in Nat /\ position' >= capture.length /\ capture.length < 24
    BY <1>1, <1>3, AfterType DEF Has
  <2> QED
    BY <1>1, <2>1 DEF Swapping, Walking, Aligned
<1> QED
  BY <1>2, <1>3

(* What the other steps leave alone is in order still.                      *)
LEMMA SwappingKept ==
  ASSUME AlignInv, capture' = capture, pc \notin {"open", "error"}, pc' # "open",
         pcap_header_need_swap_byte' = pcap_header_need_swap_byte,
         capture.length < 24 => /\ pc' \in {"packet", "done"}
                               /\ position' >= capture.length
  PROVE  Swapping'
BY DEF AlignInv, Swapping, IsForeign

LEMMA WalkingStep ==
  ASSUME AlignInv, [Next]_vars
  PROVE  /\ Swapping'
         /\ IsWellFormed' => Walking'
<1>1. /\ TypeOK /\ Swapping /\ (IsWellFormed => Walking)
      /\ capture \in Capture /\ position \in Nat /\ capture.length \in Nat
      /\ UNCHANGED <<capture, wide>>
  <2>1. UNCHANGED <<capture, wide>>
    BY DEF Next, Walk, vars, input, OpenFails, ReadFileHeader, EndOfFile, ReadError,
           ReadPacketHeader, ReadLinkLayerHeader, ReadIpv4Header, ReadTcpHeader
  <2> QED
    BY <2>1, Captures DEF AlignInv, TypeOK
<1>2. IsWellFormed' => IsWellFormed
  BY <1>1 DEF IsWellFormed, FileEnd, Packets
<1>3. CASE OpenFails \/ ReadError
  <2>1. pc' = "error"
    BY <1>3 DEF OpenFails, ReadError, Stops
  <2> QED
    BY <2>1 DEF Swapping, Walking
<1>4. CASE ReadFileHeader
  BY <1>4, FileHeader
<1>5. CASE EndOfFile
  <2>1. /\ pc = "packet" /\ pc' = "done" /\ position' \in Nat /\ position' >= position
        /\ pcap_header_need_swap_byte' = pcap_header_need_swap_byte
    BY <1>1, <1>5, AfterType DEF EndOfFile, PCAP_PACKET_HEADER_SIZE
  <2> QED
    BY <1>1, <2>1, SwappingKept DEF Walking, Swapping
<1>6. CASE ReadPacketHeader
  <2>1. /\ pc = "packet" /\ pc' \in {"link", "done"}
        /\ position + 16 <= capture.length
        /\ pcap_header_need_swap_byte' = pcap_header_need_swap_byte
    BY <1>6 DEF ReadPacketHeader, Has, PCAP_PACKET_HEADER_SIZE
  <2>2. capture.length >= 24
    BY <1>1, <2>1 DEF Swapping
  <2> QED
    BY <1>1, <1>2, <1>6, <2>1, <2>2, PacketHeader, SwappingKept DEF Walking
<1>7. CASE ReadLinkLayerHeader
  <2>1. /\ pc = "link" /\ pc' # "open"
        /\ pcap_header_need_swap_byte' = pcap_header_need_swap_byte
    BY <1>7 DEF ReadLinkLayerHeader, Stops
  <2>2. capture.length >= 24
    BY <1>1, <2>1 DEF Swapping
  <2> QED
    BY <1>1, <1>2, <1>7, <2>1, <2>2, LinkLayerHeader, SwappingKept DEF Walking
<1>8. CASE ReadIpv4Header
  <2>1. /\ pc = "ip" /\ pc' # "open"
        /\ pcap_header_need_swap_byte' = pcap_header_need_swap_byte
    BY <1>8 DEF ReadIpv4Header, Stops
  <2>2. capture.length >= 24
    BY <1>1, <2>1 DEF Swapping
  <2> QED
    BY <1>1, <1>2, <1>8, <2>1, <2>2, Ipv4Header, SwappingKept DEF Walking
<1>9. CASE ReadTcpHeader
  <2>1. /\ pc = "transport" /\ pc' = "packet"
        /\ pcap_header_need_swap_byte' = pcap_header_need_swap_byte
    BY <1>9 DEF ReadTcpHeader
  <2>2. capture.length >= 24
    BY <1>1, <2>1 DEF Swapping
  <2> QED
    BY <1>1, <1>2, <1>9, <2>1, <2>2, TcpHeader, SwappingKept DEF Walking
<1>10. CASE UNCHANGED vars
  <2>1. UNCHANGED <<capture, wide, pc, position, pcap_header_need_swap_byte,
                    current, remaining_packet_data_length>>
    BY <1>10 DEF vars, input
  <2>2. Swapping'
    BY <1>1, <2>1 DEF Swapping, IsForeign
  <2>3. Walking => Walking'
    BY <2>1 DEF Walking, Aligned, FileEnd, Packets, AtLink, AtIpv4, AtTransport,
                CutIpv4, CutTransport
  <2> QED
    BY <1>1, <1>2, <2>2, <2>3
<1> QED
  BY <1>3, <1>4, <1>5, <1>6, <1>7, <1>8, <1>9, <1>10 DEF Next, Walk

\* Whatever a capture file says, and wherever it ends, what is read as the
\* header of a packet is one, with a long of either width and files of either
\* byte order (lines 99, 182, 224 and 246).
THEOREM AlignmentCorrect == Spec => []StaysAligned
<1>1. Init => Swapping /\ Walking
  BY DEF Init, Swapping, Walking
<1>2. Init /\ TypeOK => AlignInv
  BY <1>1 DEF AlignInv
<1>3. AlignInv /\ TypeOK' /\ [Next]_vars => AlignInv'
  BY WalkingStep DEF AlignInv
<1>4. AlignInv => StaysAligned
  BY AlignIsStaysAligned
<1> QED
  BY <1>2, <1>3, <1>4, TypeCorrect, PTL DEF Spec

-----------------------------------------------------------------------------
(* Counting.                                                                *)

\* where the packet after the n-th begins
Start(n) == IF n < Len(Packets) THEN Packets[n + 1].at ELSE FileEnd

Asking(n)        == Cardinality({i \in 1 .. n : Asks(i)})
Acknowledging(n) == Cardinality({i \in 1 .. n : Acknowledges(i)})

\* The first n packets are in the file, and counted.
CountedTo(n) ==
  /\ n \in 0 .. Len(Packets)
  /\ \A i \in 1 .. n : End(Packets[i]) <= capture.length
  /\ SYN_initiated_count = Asking(n) /\ ACK_count = Acknowledging(n)

\* between the packets, and within one, which may not be there as a whole
BetweenPackets == position = Start(packet_count) /\ CountedTo(packet_count)

InPacket ==
  /\ packet_count \in 1 .. Len(Packets)
  /\ Packets[packet_count].at + 16 <= capture.length
  /\ CountedTo(packet_count - 1)

IsCut == capture.length < End(Packets[packet_count])

AtTcp(i) ==
  /\ current = Packets[i]
  /\ position = Packets[i].at + 20 + 4 * Packets[i].ihl
  /\ remaining_packet_data_length = Packets[i].captured - 4 - 4 * Packets[i].ihl

\* The last packet, which is cut off, has been counted as anything.
BehindCut ==
  /\ packet_count \in 1 .. Len(Packets)
  /\ Packets[packet_count].at + 16 <= capture.length
  /\ IsCut
  /\ \A i \in 1 .. packet_count - 1 : End(Packets[i]) <= capture.length
  /\ SYN_initiated_count - Asking(packet_count - 1) \in 0 .. 1
  /\ ACK_count - Acknowledging(packet_count - 1) \in 0 .. 1
  /\ ~ (position + 16 <= capture.length)

\* a file that is too short for its header
NoHeader == /\ capture.length < 24 /\ position >= capture.length
            /\ counts = <<0, 0, 0>>

Counting ==
  /\ pc = "open" => counts = <<0, 0, 0>>
  /\ pc = "packet" => BetweenPackets \/ BehindCut \/ NoHeader
  /\ pc = "link" => InPacket /\ AtLink(packet_count)
  /\ pc = "ip" => InPacket /\ (AtIpv4(packet_count) \/ (IsCut /\ CutIpv4))
  /\ pc = "transport" => InPacket /\ (AtTcp(packet_count) \/ (IsCut /\ CutTransport))
  /\ pc \in {"failed", "done"} => CountsAreRight

LEMMA Least ==
  ASSUME NEW S \in SUBSET Nat, S # {}
  PROVE  \E m \in S : \A n \in S : m <= n
<1>1. PICK m \in S : \A n \in S : <<n, m>> \notin OpToRel(<, Nat)
  BY NatLessThanWellFounded, WFMin
<1>2. ASSUME NEW n \in S PROVE m <= n
  <2>1. ~ (n < m)
    BY <1>1 DEF OpToRel
  <2> QED
    BY <2>1
<1> QED
  BY <1>2

LEMMA InFile ==
  ASSUME capture \in Capture, NEW i \in 1 .. Len(Packets)
  PROVE  /\ Len(Packets) \in Nat /\ Packets[i] \in Packet
         /\ Packets[i].at \in Nat /\ Packets[i].captured \in Nat
         /\ End(Packets[i]) = Packets[i].at + 16 + Packets[i].captured
         /\ End(Packets[i]) \in Nat
         /\ i + 1 \in 1 .. Len(Packets) => Packets[i + 1].at = End(Packets[i])
<1>1. Len(Packets) \in Nat
  BY Captures DEF Packets
<1>2. /\ Packets[i] \in Packet
      /\ Packets[i].at \in Nat /\ Packets[i].captured \in Nat
      /\ End(Packets[i]) = Packets[i].at + 16 + Packets[i].captured
  BY NextBegins
<1>3. ASSUME i + 1 \in 1 .. Len(Packets)
      PROVE  Packets[i + 1].at = End(Packets[i])
  <2>1. i + 1 # 1 /\ (i + 1) - 1 = i
    OBVIOUS
  <2>2. Packets[i + 1].at = End(Packets[(i + 1) - 1])
    BY <1>3, <2>1, PcapAssumption DEF Packets
  <2> QED
    BY <2>1, <2>2
<1> QED
  BY <1>1, <1>2, <1>3

(* The packets of a file are in order.                                      *)
LEMMA InOrder ==
  ASSUME capture \in Capture,
         NEW i \in 1 .. Len(Packets), NEW j \in 1 .. Len(Packets), i < j
  PROVE  End(Packets[i]) <= Packets[j].at
<1> DEFINE Early == {k \in 1 .. Len(Packets) :
                       i < k /\ ~ (End(Packets[i]) <= Packets[k].at)}
<1>1. SUFFICES ASSUME Early # {} PROVE FALSE
  OBVIOUS
<1>2. PICK k \in Early : \A n \in Early : k <= n
  <2>1. Early \in SUBSET Nat
    OBVIOUS
  <2> HIDE DEF Early
  <2> QED
    BY <1>1, <2>1, Least
<1>3. k \in 1 .. Len(Packets) /\ i < k /\ ~ (End(Packets[i]) <= Packets[k].at)
  OBVIOUS
<1>4. k - 1 \in 1 .. Len(Packets) /\ (k - 1) + 1 = k /\ k - 1 \notin Early
  BY <1>2, <1>3
<1> DEFINE h == k - 1
<1>5. /\ h \in 1 .. Len(Packets) /\ h + 1 = k
      /\ i < h => End(Packets[i]) <= Packets[h].at
      /\ i = h \/ i < h
  BY <1>3, <1>4
<1> HIDE DEF h
<1>6. /\ Packets[k].at = End(Packets[h]) /\ Packets[h].at \in Nat
      /\ End(Packets[h]) = Packets[h].at + 16 + Packets[h].captured
      /\ Packets[h].captured \in Nat
  BY <1>3, <1>5, InFile
<1>7. End(Packets[i]) \in Nat
  BY InFile
<1> QED
  BY <1>3, <1>5, <1>6, <1>7

(* How many of the first n packets have a property.                         *)
LEMMA OneMore ==
  ASSUME NEW n \in Nat \ {0}, NEW S \in SUBSET (1 .. n)
  PROVE  LET below == S \cap (1 .. n - 1)
         IN  /\ Cardinality(S) \in Nat /\ Cardinality(below) \in Nat
             /\ Cardinality(S) = Cardinality(below) + IF n \in S THEN 1 ELSE 0
<1> DEFINE below == S \cap (1 .. n - 1)
<1>0. 1 .. n = (1 .. n - 1) \cup {n} /\ n \notin 1 .. n - 1
  OBVIOUS
<1>1. IsFiniteSet(1 .. n)
  BY FS_Interval
<1>2. IsFiniteSet(S) /\ IsFiniteSet(below)
  BY <1>1, FS_Subset
<1>3. Cardinality(S) \in Nat /\ Cardinality(below) \in Nat
  BY <1>2, FS_CardinalityType
<1>4. CASE n \in S
  <2>1. S = below \cup {n} /\ n \notin below
    BY <1>0, <1>4
  <2> HIDE DEF below
  <2>2. Cardinality(below \cup {n}) = Cardinality(below) + 1
    BY <1>2, <2>1, FS_AddElement
  <2> QED
    BY <1>3, <1>4, <2>1, <2>2 DEF below
<1>5. CASE n \notin S
  <2>1. S = below
    BY <1>0, <1>5
  <2> HIDE DEF below
  <2>2. Cardinality(S) = Cardinality(below) + 0
    BY <1>3, <2>1
  <2> QED
    BY <1>3, <1>5, <2>2 DEF below
<1> QED
  BY <1>3, <1>4, <1>5

LEMMA CountsGrow ==
  ASSUME NEW n \in Nat \ {0}
  PROVE  /\ Asking(n) \in Nat /\ Asking(n - 1) \in Nat
         /\ Asking(n) = Asking(n - 1) + IF Asks(n) THEN 1 ELSE 0
         /\ Acknowledging(n) \in Nat /\ Acknowledging(n - 1) \in Nat
         /\ Acknowledging(n)
              = Acknowledging(n - 1) + IF Acknowledges(n) THEN 1 ELSE 0
<1> DEFINE S == {i \in 1 .. n : Asks(i)}
           T == {i \in 1 .. n : Acknowledges(i)}
<1>1. /\ S \in SUBSET (1 .. n) /\ T \in SUBSET (1 .. n)
      /\ S \cap (1 .. n - 1) = {i \in 1 .. n - 1 : Asks(i)}
      /\ T \cap (1 .. n - 1) = {i \in 1 .. n - 1 : Acknowledges(i)}
      /\ n \in S <=> Asks(n)
      /\ n \in T <=> Acknowledges(n)
  OBVIOUS
<1>2. /\ Cardinality(S) = Asking(n) /\ Cardinality(T) = Acknowledging(n)
      /\ Cardinality(S \cap (1 .. n - 1)) = Asking(n - 1)
      /\ Cardinality(T \cap (1 .. n - 1)) = Acknowledging(n - 1)
  BY <1>1 DEF Asking, Acknowledging
<1> HIDE DEF S, T
<1> QED
  BY <1>1, <1>2, OneMore

LEMMA NothingCounted == Asking(0) = 0 /\ Acknowledging(0) = 0
<1>1. {i \in 1 .. 0 : Asks(i)} = {} /\ {i \in 1 .. 0 : Acknowledges(i)} = {}
  OBVIOUS
<1> QED
  BY <1>1, FS_EmptySet DEF Asking, Acknowledging

(* ntohs() and the file's order undo each other.                            *)
LEMMA Reverse16Twice ==
  ASSUME NEW n \in 0 .. BASE * BASE - 1
  PROVE  /\ Reverse16(n) \in 0 .. BASE * BASE - 1
         /\ Reverse16(Reverse16(n)) = n
<1> DEFINE q == n \div BASE
           a == n % BASE
<1>1. BASE \in Nat /\ BASE >= 16 /\ n \in Nat /\ n < BASE * BASE
  BY Bounds
<1>2. q \in Nat /\ a \in 0 .. BASE - 1 /\ n = BASE * q + a
  BY <1>1
<1> HIDE DEF q, a
<1>3. q \in 0 .. BASE - 1
  <2>1. ~ (BASE < q)
    <3>1. ASSUME BASE < q PROVE FALSE
      <4>1. BASE * BASE + BASE <= BASE * q
        BY <1>1, <1>2, <3>1, Products
      <4>2. BASE * BASE \in Nat /\ BASE * q \in Nat
        BY <1>1, <1>2
      <4> QED
        BY <1>1, <1>2, <4>1, <4>2
    <3> QED
      BY <3>1
  <2>2. q # BASE
    BY <1>1, <1>2
  <2> QED
    BY <1>1, <1>2, <2>1, <2>2
<1>4. n = q * BASE + a /\ q = 0 * BASE + q
  BY <1>1, <1>2, <1>3
<1>5. /\ n % BASE = a /\ n \div BASE = q
      /\ q % BASE = q
  <2>1. (q * BASE + a) \div BASE = q /\ (q * BASE + a) % BASE = a
    BY <1>1, <1>2, Division
  <2>2. (0 * BASE + q) % BASE = q
    BY <1>1, <1>3, Division
  <2> QED
    BY <1>4, <2>1, <2>2
<1>6. Reverse16(n) = a * BASE + q
  BY <1>5 DEF Reverse16, Byte0, Byte1
<1>7. /\ (a * BASE + q) % BASE = q /\ (a * BASE + q) \div BASE = a
      /\ a % BASE = a
  <2>1. (a * BASE + q) \div BASE = a /\ (a * BASE + q) % BASE = q
    BY <1>1, <1>2, <1>3, Division
  <2>2. (0 * BASE + a) % BASE = a /\ a = 0 * BASE + a
    BY <1>1, <1>2, Division
  <2> QED
    BY <2>1, <2>2
<1>8. Reverse16(a * BASE + q) = q * BASE + a
  BY <1>7 DEF Reverse16, Byte0, Byte1
<1>9. a * BASE + q \in 0 .. BASE * BASE - 1
  <2>1. a \in Nat /\ a < BASE /\ q \in Nat /\ q < BASE
    BY <1>1, <1>2, <1>3
  <2>2. BASE * a + BASE <= BASE * BASE
    BY <1>1, <2>1, Products
  <2>3. a * BASE = BASE * a /\ BASE * a \in Nat /\ BASE * BASE \in Nat
    BY <1>1, <2>1
  <2> DEFINE y == BASE * a
             z == BASE * BASE
  <2>4. y + BASE <= z /\ a * BASE = y /\ y \in Nat /\ z \in Nat
    BY <2>2, <2>3
  <2> HIDE DEF y, z
  <2>5. y + q \in 0 .. z - 1
    BY <1>1, <2>1, <2>4
  <2> QED
    BY <2>4, <2>5 DEF z
<1> QED
  BY <1>4, <1>6, <1>8, <1>9

\* reverse_byte_uint32() and reverse_byte_uint16() undo themselves, and each
\* stays in its width; so ntohs() gives the port that the file has in the
\* other order (pcap_util.c:3-35 and pcap_analyze.c:228-230).
THEOREM ReverseTwice ==
  /\ \A n \in uint32 : Reverse32(n) \in uint32 /\ Reverse32(Reverse32(n)) = n
  /\ \A n \in 0 .. BASE * BASE - 1 :
       /\ Reverse16(n) \in 0 .. BASE * BASE - 1
       /\ Reverse16(Reverse16(n)) = n
       /\ Ntohs(n) = n
BY Reverse32Twice, Reverse16Twice DEF Ntohs

LEMMA SoundPacket ==
  ASSUME capture \in Capture, SoundFile, NEW i \in 1 .. Len(Packets)
  PROVE  LET p == Packets[i]
         IN  /\ p \in Packet /\ p.at \in Nat /\ p.captured \in Nat
             /\ p.captured \in uint32 /\ 2 * p.captured < M
             /\ p.captured = p.untruncated
             /\ p.family = IPV4 /\ p.protocol = TCP
             /\ p.ihl \in Nat /\ p.ihl >= 5
             /\ p.data_offset \in Nat /\ p.data_offset >= 5
             /\ p.captured >= 4 + 4 * p.ihl + 4 * p.data_offset
             /\ p.ihl \in 0 .. 15 /\ p.data_offset \in 0 .. 15
             /\ Ntohs(p.destination_port) = p.destination_port
             /\ Ntohs(p.source_port) = p.source_port
<1> DEFINE p == Packets[i]
<1>1. p \in Packet /\ p.captured \in uint32 /\ p.captured \in Nat
  BY NextBegins
<1>2. IsSound(p)
  BY DEF SoundFile
<1> HIDE DEF p
<1>3. /\ p.at \in Nat /\ p.ihl \in 0 .. 15 /\ p.data_offset \in 0 .. 15
      /\ p.destination_port \in 0 .. BASE * BASE - 1
      /\ p.source_port \in 0 .. BASE * BASE - 1
  BY <1>1 DEF Packet
<1>4. /\ p.ihl \in Nat /\ p.data_offset \in Nat
      /\ Ntohs(p.destination_port) = p.destination_port
      /\ Ntohs(p.source_port) = p.source_port
  <2>1. p.ihl \in Nat /\ p.data_offset \in Nat
    <3>1. \A k \in 0 .. 15 : k \in Nat
      OBVIOUS
    <3> QED
      BY <1>3, <3>1
  <2>2. \A n \in 0 .. BASE * BASE - 1 : Ntohs(n) = n
    BY ReverseTwice
  <2>3. Ntohs(p.destination_port) = p.destination_port
    BY <1>3, <2>2
  <2>4. Ntohs(p.source_port) = p.source_port
    BY <1>3, <2>2
  <2> QED
    BY <2>1, <2>3, <2>4
<1>5. /\ p.captured = p.untruncated
      /\ p.family = IPV4 /\ p.protocol = TCP
      /\ p.ihl >= 5 /\ p.data_offset >= 5
      /\ p.captured >= 4 + 4 * p.ihl + 4 * p.data_offset
      /\ 2 * p.captured \in uint32
  BY <1>2 DEF IsSound, Fits, LINK_LAYER_HEADER_SIZE
<1>6. 2 * p.captured < M
  BY <1>1, <1>5, Bounds
<1> QED
  BY <1>1, <1>3, <1>4, <1>5, <1>6 DEF p

(* Which packets are in the file, when the reader stands behind it.         *)
LEMMA AllWhole ==
  ASSUME capture \in Capture, NEW n \in 0 .. Len(Packets),
         \A i \in 1 .. n : End(Packets[i]) <= capture.length,
         ~ (Start(n) + 16 <= capture.length)
  PROVE  Begun = 1 .. n /\ Whole = 1 .. n
<1>1. Len(Packets) \in Nat /\ capture.length \in Nat /\ n \in Nat
  BY Captures DEF Packets
<1>2. ASSUME NEW i \in 1 .. Len(Packets)
      PROVE  /\ Packets[i].at + 16 <= capture.length <=> i <= n
             /\ End(Packets[i]) <= capture.length <=> i <= n
  <2>1. /\ Packets[i].at \in Nat /\ Packets[i].captured \in Nat
        /\ End(Packets[i]) = Packets[i].at + 16 + Packets[i].captured
    BY InFile
  <2>2. CASE i <= n
    BY <1>1, <2>1, <2>2
  <2>3. CASE ~ (i <= n)
    <3>1. n + 1 \in 1 .. Len(Packets) /\ n < Len(Packets)
      BY <1>1, <2>3
    <3>2. Packets[n + 1].at \in Nat /\ End(Packets[n + 1]) \in Nat
          /\ Packets[n + 1].at <= End(Packets[n + 1])
      BY <3>1, InFile
    <3>3. ~ (Packets[n + 1].at + 16 <= capture.length)
      BY <3>1 DEF Start
    <3>4. Packets[n + 1].at <= Packets[i].at
      <4>1. CASE i = n + 1
        BY <2>1, <4>1
      <4>2. CASE n + 1 < i
        BY <2>1, <3>1, <3>2, <4>2, InOrder
      <4> QED
        BY <1>1, <2>3, <4>1, <4>2
    <3> QED
      BY <1>1, <2>1, <2>3, <3>2, <3>3, <3>4
  <2> QED
    BY <1>1, <2>2, <2>3
<1>3. Begun = {i \in 1 .. Len(Packets) : i <= n}
  BY <1>2 DEF Begun, PCAP_PACKET_HEADER_SIZE
<1>4. Whole = {i \in 1 .. Len(Packets) : i <= n}
  BY <1>2 DEF Whole
<1> QED
  BY <1>1, <1>3, <1>4

LEMMA LastCut ==
  ASSUME capture \in Capture, NEW n \in 1 .. Len(Packets),
         Packets[n].at + 16 <= capture.length,
         capture.length < End(Packets[n]),
         \A i \in 1 .. n - 1 : End(Packets[i]) <= capture.length
  PROVE  Begun = 1 .. n /\ Whole = 1 .. n - 1
<1>1. Len(Packets) \in Nat /\ capture.length \in Nat /\ n \in Nat
      /\ End(Packets[n]) \in Nat
  BY Captures, InFile DEF Packets
<1>2. ASSUME NEW i \in 1 .. Len(Packets)
      PROVE  /\ Packets[i].at + 16 <= capture.length <=> i <= n
             /\ End(Packets[i]) <= capture.length <=> i <= n - 1
  <2>1. /\ Packets[i].at \in Nat /\ Packets[i].captured \in Nat
        /\ End(Packets[i]) = Packets[i].at + 16 + Packets[i].captured
    BY InFile
  <2>2. CASE i < n
    BY <1>1, <2>1, <2>2
  <2>3. CASE i = n
    BY <1>1, <2>1, <2>3
  <2>4. CASE n < i
    <3>1. End(Packets[n]) <= Packets[i].at
      BY <2>4, InOrder
    <3> QED
      BY <1>1, <2>1, <2>4, <3>1
  <2> QED
    BY <1>1, <2>2, <2>3, <2>4
<1>3. Begun = {i \in 1 .. Len(Packets) : i <= n}
  BY <1>2 DEF Begun, PCAP_PACKET_HEADER_SIZE
<1>4. Whole = {i \in 1 .. Len(Packets) : i <= n - 1}
  BY <1>2 DEF Whole
<1> QED
  BY <1>1, <1>3, <1>4

LEMMA NoneBegun ==
  ASSUME capture \in Capture, capture.length < 24
  PROVE  Begun = {} /\ Whole = {}
<1>1. Len(Packets) \in Nat /\ capture.length \in Nat
  BY Captures DEF Packets
<1>2. ASSUME NEW i \in 1 .. Len(Packets)
      PROVE  /\ ~ (Packets[i].at + 16 <= capture.length)
             /\ ~ (End(Packets[i]) <= capture.length)
  <2>1. /\ Packets[i].at \in Nat /\ Packets[i].captured \in Nat
        /\ End(Packets[i]) = Packets[i].at + 16 + Packets[i].captured
    BY InFile
  <2>2. 1 \in 1 .. Len(Packets) /\ Packets[1].at = 24 /\ End(Packets[1]) >= 24
    <3>1. 1 \in 1 .. Len(Packets)
      BY <1>1
    <3>2. Packets[1].at = 24
      BY <3>1, PcapAssumption DEF Packets, PCAP_FILE_HEADER_SIZE
    <3>3. /\ Packets[1].captured \in Nat
          /\ End(Packets[1]) = Packets[1].at + 16 + Packets[1].captured
      BY <3>1, InFile
    <3> QED
      BY <3>1, <3>2, <3>3
  <2>3. CASE i = 1
    BY <1>1, <2>1, <2>2, <2>3
  <2>4. CASE 1 < i
    <3>1. End(Packets[1]) <= Packets[i].at
      BY <2>2, <2>4, InOrder
    <3>2. End(Packets[1]) \in Nat
      BY <2>2, InFile
    <3> QED
      BY <1>1, <2>1, <2>2, <3>1, <3>2
  <2> QED
    BY <2>3, <2>4
<1>3. Begun = {}
  BY <1>2 DEF Begun, PCAP_PACKET_HEADER_SIZE
<1> QED
  BY <1>2, <1>3 DEF Whole

(* The numbers that the program prints.                                     *)
Right ==
  LET cut == Cardinality(Begun \ Whole)
  IN  /\ packet_count = Cardinality(Begun)
      /\ SYN_initiated_count - Cardinality({i \in Whole : Asks(i)}) \in 0 .. cut
      /\ ACK_count - Cardinality({i \in Whole : Acknowledges(i)}) \in 0 .. cut

LEMMA CountsAtEnd ==
  ASSUME AlignInv, pc = "packet", ~ (position + 16 <= capture.length),
         BetweenPackets \/ BehindCut \/ NoHeader
  PROVE  Right
<1>1. /\ capture \in Capture /\ Len(Packets) \in Nat
  BY Captures DEF AlignInv, TypeOK, Packets
<1>2. CASE BetweenPackets
  <2> DEFINE n == packet_count
  <2>1. /\ n \in 0 .. Len(Packets) /\ n \in Nat
        /\ SYN_initiated_count = Asking(n) /\ ACK_count = Acknowledging(n)
        /\ \A i \in 1 .. n : End(Packets[i]) <= capture.length
        /\ ~ (Start(n) + 16 <= capture.length)
    BY <1>2 DEF BetweenPackets, CountedTo
  <2> HIDE DEF n
  <2>2. Begun = 1 .. n /\ Whole = 1 .. n
    BY <1>1, <2>1, AllWhole
  <2>3. Begun \ Whole = {} /\ Cardinality(Begun) = n
    <3>1. Cardinality(1 .. n) = IF 1 > n THEN 0 ELSE n - 1 + 1
      BY <2>1, FS_Interval
    <3>2. Cardinality(Begun) = n
      BY <2>1, <2>2, <3>1
    <3> QED
      BY <2>2, <3>2
  <2>4. Cardinality(Begun \ Whole) = 0
    BY <2>3, FS_EmptySet
  <2>5. /\ Cardinality({i \in Whole : Asks(i)}) = Asking(n)
        /\ Cardinality({i \in Whole : Acknowledges(i)}) = Acknowledging(n)
    BY <2>2 DEF Asking, Acknowledging
  <2>6. Asking(n) \in Nat /\ Acknowledging(n) \in Nat
    <3>1. CASE n = 0
      BY <3>1, NothingCounted
    <3>2. CASE n # 0
      BY <2>1, <3>2, CountsGrow
    <3> QED
      BY <3>1, <3>2
  <2> QED
    BY <2>1, <2>3, <2>4, <2>5, <2>6 DEF Right, n
<1>3. CASE BehindCut
  <2> DEFINE n == packet_count
  <2>1. /\ n \in 1 .. Len(Packets) /\ n \in Nat
        /\ SYN_initiated_count - Asking(n - 1) \in 0 .. 1
        /\ ACK_count - Acknowledging(n - 1) \in 0 .. 1
        /\ \A i \in 1 .. n - 1 : End(Packets[i]) <= capture.length
        /\ Packets[n].at + 16 <= capture.length
        /\ capture.length < End(Packets[n])
    BY <1>3 DEF BehindCut, IsCut
  <2> HIDE DEF n
  <2>2. Begun = 1 .. n /\ Whole = 1 .. n - 1
    BY <1>1, <2>1, LastCut
  <2>3. Begun \ Whole = {n} /\ Cardinality(Begun) = n
    <3>1. Begun \ Whole = {n}
      BY <2>1, <2>2
    <3>2. Cardinality(1 .. n) = n
      BY <2>1, FS_Interval
    <3> QED
      BY <2>2, <3>1, <3>2
  <2>4. Cardinality(Begun \ Whole) = 1
    BY <2>3, FS_Singleton
  <2>5. /\ Cardinality({i \in Whole : Asks(i)}) = Asking(n - 1)
        /\ Cardinality({i \in Whole : Acknowledges(i)}) = Acknowledging(n - 1)
    BY <2>2 DEF Asking, Acknowledging
  <2> QED
    BY <2>1, <2>3, <2>4, <2>5 DEF Right, n
<1>4. CASE NoHeader
  <2>1. Begun = {} /\ Whole = {}
    BY <1>1, <1>4, NoneBegun DEF NoHeader
  <2>2. /\ Begun \ Whole = {}
        /\ {i \in Whole : Asks(i)} = {} /\ {i \in Whole : Acknowledges(i)} = {}
    BY <2>1
  <2>3. /\ packet_count = 0 /\ SYN_initiated_count = 0 /\ ACK_count = 0
    BY <1>4 DEF NoHeader, counts
  <2>4. Cardinality({}) = 0
    BY FS_EmptySet
  <2> QED
    BY <2>1, <2>2, <2>3, <2>4 DEF Right
<1> QED
  BY <1>2, <1>3, <1>4

(* What depends on the file only.                                           *)
LEMMA SameFile ==
  ASSUME UNCHANGED input
  PROVE  /\ Packets' = Packets /\ FileEnd' = FileEnd
         /\ capture' = capture /\ wide' = wide
         /\ IsForeign' <=> IsForeign
         /\ SoundFile' <=> SoundFile
         /\ Begun' = Begun /\ Whole' = Whole
<1>1. capture' = capture /\ wide' = wide
  BY DEF input
<1>2. Packets' = Packets
  BY <1>1 DEF Packets
<1>3. FileEnd' = FileEnd
  BY <1>2 DEF FileEnd
<1>4. IsWellFormed' <=> IsWellFormed
  BY <1>1, <1>2, <1>3 DEF IsWellFormed
<1> QED
  BY <1>1, <1>2, <1>3, <1>4 DEF IsForeign, SoundFile, Begun, Whole

LEMMA CountedKept ==
  ASSUME UNCHANGED input, UNCHANGED counts
  PROVE  /\ Right => Right'
         /\ InPacket => InPacket'
<1>1. /\ Packets' = Packets /\ capture' = capture
      /\ Begun' = Begun /\ Whole' = Whole
  BY SameFile
<1>2. packet_count' = packet_count /\ SYN_initiated_count' = SYN_initiated_count
      /\ ACK_count' = ACK_count
  BY DEF counts
<1>3. Right => Right'
  BY <1>1, <1>2 DEF Right, Asks, Acknowledges
<1>4. InPacket => InPacket'
  BY <1>1, <1>2 DEF InPacket, CountedTo, Asking, Acknowledging, Asks, Acknowledges
<1> QED
  BY <1>3, <1>4

(* One lemma for each header, again: the packet that is read is the one     *)
(* that packet_count counts.                                                *)
LEMMA CountsPacket ==
  ASSUME AlignInv, SoundFile, ~ IsForeign, Counting, ReadPacketHeader
  PROVE  pc' = "link" /\ InPacket' /\ AtLink(packet_count)'
<1> DEFINE n == packet_count
<1>1. /\ pc = "packet" /\ position \in Nat /\ capture \in Capture
      /\ n' = n + 1 /\ n \in Nat
      /\ position + 16 <= capture.length /\ position' = position + 16
      /\ current' \in Seen
      /\ UNCHANGED <<input, SYN_initiated_count, ACK_count>>
  BY AfterType DEF AlignInv, TypeOK, ReadPacketHeader, Has,
                   PCAP_PACKET_HEADER_SIZE
<1>2. /\ capture.length \in Nat /\ FileEnd \in Nat /\ capture.length <= FileEnd
      /\ Len(Packets) \in Nat
  BY <1>1, Captures, Bounds DEF SoundFile, IsWellFormed, Packets
<1>3. position = Start(n) /\ CountedTo(n)
  BY <1>1, <1>2 DEF Counting, BetweenPackets, BehindCut, NoHeader
<1>4. n + 1 \in 1 .. Len(Packets) /\ Packets[n + 1].at = position
  <2>1. n \in 0 .. Len(Packets)
    BY <1>3 DEF CountedTo
  <2>2. n < Len(Packets)
    BY <1>1, <1>2, <1>3, <2>1 DEF Start
  <2> QED
    BY <1>2, <1>3, <2>1, <2>2 DEF Start
<1> DEFINE k == n + 1
<1>5. k \in 1 .. Len(Packets) /\ Packets[k].at = position
  BY <1>4
<1>6. current' = Packets[k]
  <2>1. Here # {}
    BY <1>5 DEF Here, Packets
  <2>2. PICK i \in 1 .. Len(Packets) :
          current' = Packets[i] /\ Packets[i].at = position
    BY <1>1, <2>1 DEF Seen, Here, Packets
  <2>3. i = k
    <3> HIDE DEF k
    <3>1. /\ Packets[i].captured \in Nat /\ Packets[k].captured \in Nat
          /\ End(Packets[i]) = Packets[i].at + 16 + Packets[i].captured
          /\ End(Packets[k]) = Packets[k].at + 16 + Packets[k].captured
      BY <1>1, <1>5, InFile
    <3>2. ~ i < k
      BY <1>1, <1>5, <2>2, <3>1, InOrder
    <3>3. ~ k < i
      BY <1>1, <1>5, <2>2, <3>1, InOrder
    <3> QED
      BY <1>5, <3>2, <3>3
  <2> QED
    BY <2>2, <2>3
<1>7. /\ Packets[k].captured = Packets[k].untruncated
      /\ Packets[k].captured \in uint32
  BY <1>1, <1>5, SoundPacket
<1>8. SwapEndian(Written(Packets[k].captured)) = Packets[k].captured
  <2>1. pcap_header_need_swap_byte = IsForeign
    BY <1>1, <1>2 DEF AlignInv, Swapping
  <2> QED
    BY <1>7, <2>1, Reverse32Twice DEF SwapEndian, Written
<1>9. /\ pc' = "link"
      /\ remaining_packet_data_length' = Packets[k].captured
  <2>1. current'.captured = current'.untruncated
    BY <1>6, <1>7
  <2>2. /\ pc' = "link"
        /\ remaining_packet_data_length' = SwapEndian(Written(current'.captured))
    BY <2>1 DEF ReadPacketHeader
  <2> QED
    BY <1>6, <1>8, <2>2
<1>10. Packets' = Packets /\ capture' = capture
  BY <1>1, SameFile
<1>11. AtLink(packet_count)'
  BY <1>1, <1>5, <1>6, <1>9, <1>10 DEF AtLink
<1>12. InPacket'
  <2>1. /\ \A i \in 1 .. n : End(Packets[i]) <= capture.length
        /\ n \in 0 .. Len(Packets)
        /\ SYN_initiated_count = Asking(n) /\ ACK_count = Acknowledging(n)
    BY <1>3 DEF CountedTo
  <2>2. n' - 1 = n /\ n' = k
    BY <1>1
  <2>3. CountedTo(packet_count - 1)'
    BY <1>1, <1>10, <2>1, <2>2
       DEF CountedTo, Asking, Acknowledging, Asks, Acknowledges
  <2> QED
    BY <1>1, <1>5, <1>10, <2>2, <2>3 DEF InPacket
<1> QED
  BY <1>9, <1>11, <1>12

LEMMA CutNotWhole ==
  ASSUME capture \in Capture, InPacket, IsCut
  PROVE  Begun # Whole
<1> DEFINE n == packet_count
<1>1. /\ n \in 1 .. Len(Packets)
      /\ Packets[n].at + 16 <= capture.length
      /\ capture.length < End(Packets[n])
      /\ \A i \in 1 .. n - 1 : End(Packets[i]) <= capture.length
  BY DEF InPacket, CountedTo, IsCut
<1> HIDE DEF n
<1>2. Begun = 1 .. n /\ Whole = 1 .. n - 1 /\ n \in Nat /\ n >= 1
  <2>1. Len(Packets) \in Nat
    BY Captures DEF Packets
  <2> QED
    BY <1>1, <2>1, LastCut
<1> QED
  BY <1>2

LEMMA CountsLink ==
  ASSUME AlignInv, SoundFile, ~ IsForeign, Counting, ReadLinkLayerHeader
  PROVE  \/ /\ pc' = "ip" /\ InPacket'
            /\ AtIpv4(packet_count)' \/ (IsCut' /\ CutIpv4')
         \/ pc' = "failed" /\ Begun # Whole
<1> DEFINE n == packet_count
           q == Packets[n]
<1>1. /\ pc = "link" /\ position' = After(4)
      /\ UNCHANGED <<input, packet_count>>
      /\ InPacket /\ AtLink(n)
  BY DEF ReadLinkLayerHeader, LINK_LAYER_HEADER_SIZE, Counting
<1>2. /\ capture \in Capture /\ position \in Nat /\ capture.length \in Nat
      /\ n \in 1 .. Len(Packets)
  BY <1>1, Captures DEF AlignInv, TypeOK, InPacket
<1>3. /\ q.at \in Nat /\ q.captured \in Nat /\ q.captured \in uint32
      /\ q.captured >= 44 /\ 2 * q.captured < M /\ q.family = IPV4
      /\ End(q) = q.at + 16 + q.captured
      /\ current = q /\ position = q.at + 16
      /\ remaining_packet_data_length = q.captured
  <2>1. /\ q.at \in Nat /\ q.captured \in Nat /\ q.captured \in uint32
        /\ 2 * q.captured < M /\ q.family = IPV4
        /\ q.ihl \in Nat /\ q.ihl >= 5
        /\ q.data_offset \in Nat /\ q.data_offset >= 5
        /\ q.captured >= 4 + 4 * q.ihl + 4 * q.data_offset
    BY <1>2, SoundPacket
  <2>2. End(q) = q.at + 16 + q.captured
    BY <1>2, InFile
  <2> HIDE DEF q
  <2>3. q.captured >= 44
    BY <2>1
  <2> QED
    BY <1>1, <2>1, <2>2, <2>3 DEF AtLink, q
<1>4. /\ Packets' = Packets /\ capture' = capture /\ wide' = wide /\ n' = n
  BY <1>1, SameFile
<1>5. \/ /\ pc' = "ip" /\ UNCHANGED current /\ UNCHANGED counts
         /\ remaining_packet_data_length' = Uint32(remaining_packet_data_length - 4)
      \/ pc' = "failed" /\ ~ Has(4)
  <2>1. PICK p \in Read(4) :
          IF Written(p.family) = IPV4
          THEN /\ pc' = "ip"
               /\ Consume(4)
               /\ UNCHANGED <<pcap_header_need_swap_byte, current,
                              SYN_initiated_count, ACK_count>>
          ELSE Stops("failed")
    BY DEF ReadLinkLayerHeader, LINK_LAYER_HEADER_SIZE
  <2>2. Has(4) => p = q
    BY <1>3, <2>1 DEF Read
  <2>3. Has(4) => Written(p.family) = IPV4
    BY <1>3, <2>2 DEF Written
  <2> QED
    BY <1>1, <2>1, <2>3 DEF Stops, Consume, counts
<1> HIDE DEF n, q
<1>6. Uint32(q.captured - 4) = q.captured - 4
  BY <1>3, Deducts
<1>7. ~ Has(4) => IsCut
  BY <1>2, <1>3 DEF Has, IsCut, n, q
<1>8. CASE pc' = "failed" /\ ~ Has(4)
  BY <1>1, <1>2, <1>7, <1>8, CutNotWhole
<1>9. CASE /\ pc' = "ip" /\ UNCHANGED current /\ UNCHANGED counts
           /\ remaining_packet_data_length' = Uint32(remaining_packet_data_length - 4)
  <2>1. InPacket'
    BY <1>1, <1>9, CountedKept
  <2>2. CASE Has(4)
    <3>1. position' = q.at + 20
      <4>1. After(4) = position + 4
        BY <1>2, <2>2, AfterType
      <4> QED
        BY <1>1, <1>3, <4>1
    <3>2. AtIpv4(packet_count)'
      BY <1>3, <1>4, <1>9, <3>1 DEF AtIpv4, q, n
    <3> QED
      BY <1>9, <2>1, <3>2
  <2>3. CASE ~ Has(4)
    <3>1. position' >= capture.length
      BY <1>1, <1>2, <2>3, AfterType
    <3>2. /\ remaining_packet_data_length' >= 28
          /\ 2 * remaining_packet_data_length' < M
      BY <1>3, <1>6, <1>9, Bounds
    <3>3. CutIpv4' /\ IsCut'
      BY <1>4, <1>7, <2>3, <3>1, <3>2 DEF CutIpv4, IsCut, n
    <3> QED
      BY <1>9, <2>1, <3>3
  <2> QED
    BY <2>2, <2>3
<1> QED
  BY <1>5, <1>8, <1>9

LEMMA CountsIpv4 ==
  ASSUME AlignInv, SoundFile, ~ IsForeign, Counting, ReadIpv4Header
  PROVE  \/ /\ pc' = "transport" /\ InPacket'
            /\ AtTcp(packet_count)' \/ (IsCut' /\ CutTransport')
         \/ pc' = "failed" /\ Begun # Whole
<1> DEFINE n == packet_count
           q == Packets[n]
           r == remaining_packet_data_length
<1>1. /\ pc = "ip" /\ InPacket
      /\ UNCHANGED <<input, packet_count>>
      /\ AtIpv4(n) \/ (IsCut /\ CutIpv4)
  BY DEF ReadIpv4Header, Counting
<1>2. /\ capture \in Capture /\ position \in Nat /\ capture.length \in Nat
      /\ n \in 1 .. Len(Packets) /\ r \in Nat
  BY <1>1, Captures, Bounds DEF AlignInv, TypeOK, InPacket
<1>3. /\ q.at \in Nat /\ q.captured \in Nat /\ q.captured \in uint32
      /\ q.ihl \in 0 .. 15 /\ q.ihl >= 5 /\ q.protocol = TCP
      /\ q.captured >= 4 + 4 * q.ihl + 20 /\ 2 * q.captured < M
      /\ End(q) = q.at + 16 + q.captured
  <2>1. /\ q.at \in Nat /\ q.captured \in Nat /\ q.captured \in uint32
        /\ 2 * q.captured < M
        /\ q.ihl \in Nat /\ q.ihl >= 5 /\ q.ihl \in 0 .. 15 /\ q.protocol = TCP
        /\ q.data_offset \in Nat /\ q.data_offset >= 5
        /\ q.captured >= 4 + 4 * q.ihl + 4 * q.data_offset
    BY <1>2, SoundPacket
  <2>2. End(q) = q.at + 16 + q.captured
    BY <1>2, InFile
  <2> HIDE DEF q
  <2>3. q.captured >= 4 + 4 * q.ihl + 20
    BY <2>1
  <2> QED
    BY <2>1, <2>2, <2>3
<1>4. /\ Packets' = Packets /\ capture' = capture /\ wide' = wide /\ n' = n
  BY <1>1, SameFile
<1>5. AtIpv4(n) => /\ current = q /\ position = q.at + 20
                   /\ r = q.captured - 4
                   /\ r >= 28 /\ 2 * r < M
  <2> SUFFICES ASSUME AtIpv4(n)
               PROVE  /\ current = q /\ position = q.at + 20
                      /\ r = q.captured - 4
                      /\ r >= 28 /\ 2 * r < M
    OBVIOUS
  <2>1. current = q /\ position = q.at + 20 /\ r = Uint32(q.captured - 4)
    BY DEF AtIpv4
  <2> HIDE DEF q, r
  <2>2. q.captured >= 44
    BY <1>3
  <2>3. Uint32(q.captured - 4) = q.captured - 4
    BY <1>3, <2>2, Deducts
  <2> QED
    BY <1>3, <2>1, <2>2, <2>3, Bounds
<1>6. AtIpv4(n) /\ ~ Has(20) => IsCut
  <2> SUFFICES ASSUME AtIpv4(n), ~ Has(20) PROVE IsCut
    OBVIOUS
  <2> HIDE DEF q, r
  <2>1. position = q.at + 20 /\ ~ (position + 20 <= capture.length)
    BY <1>5 DEF Has
  <2>2. q.captured >= 44
    BY <1>3
  <2>3. capture.length < End(q)
    <3>1. End(q) = q.at + 16 + q.captured /\ q.at \in Nat /\ q.captured \in Nat
      BY <1>3
    <3>2. capture.length \in Nat
      BY <1>2
    <3> QED
      BY <2>1, <2>2, <3>1, <3>2
  <2> QED
    BY <2>3 DEF IsCut, q, n
<1>7. \/ IsCut /\ CutIpv4
      \/ AtIpv4(n) /\ Has(20)
      \/ AtIpv4(n) /\ ~ Has(20)
  BY <1>1
<1>8. pc' \in {"failed", "transport"}
  BY DEF ReadIpv4Header, Stops
<1>9. CASE pc' = "failed"
  <2>1. ~ (AtIpv4(n) /\ Has(20))
    <3>1. SUFFICES ASSUME AtIpv4(n), Has(20) PROVE FALSE
      OBVIOUS
    <3>2. Read(20) = {q}
      BY <1>5, <3>1 DEF Read
    <3>3. q.protocol \in Known
      BY <1>3 DEF Known
    <3> QED
      BY <1>9, <3>2, <3>3 DEF ReadIpv4Header, IPV4_HEADER_MIN_SIZE
  <2> QED
    BY <1>1, <1>2, <1>6, <1>7, <1>9, <2>1, CutNotWhole
<1>10. CASE pc' = "transport"
  <2>1. PICK p \in Read(20) :
          LET o == Options(p.ihl, 20)
          IN  /\ p \in Packet /\ p.ihl \in 0 .. 15
              /\ o = IF p.ihl < 5 THEN 4 * p.ihl + 236 ELSE 4 * p.ihl - 20
              /\ o \in Nat /\ o <= 252
              /\ position' = After(20) + o
              /\ remaining_packet_data_length' =
                   IF remaining_packet_data_length < 20 + o
                   THEN remaining_packet_data_length - (20 + o) + M
                   ELSE remaining_packet_data_length - (20 + o)
              /\ p.protocol = TCP /\ p.ihl >= 5 => current' = p
              /\ UNCHANGED counts
    BY <1>10, Ipv4Read
  <2>2. InPacket'
    BY <1>1, <2>1, CountedKept
  <2>3. CASE AtIpv4(n) /\ Has(20)
    <3> DEFINE o == Options(p.ihl, 20)
    <3>1. p = q
      BY <1>5, <2>1, <2>3 DEF Read
    <3>2. o = 4 * q.ihl - 20
      <4> HIDE DEF q
      <4>1. o = IF q.ihl < 5 THEN 4 * q.ihl + 236 ELSE 4 * q.ihl - 20
        BY <2>1, <3>1
      <4> HIDE DEF o
      <4> QED
        BY <1>3, <4>1
    <3>3. /\ position' = After(20) + o /\ current' = q
          /\ r' = IF r < 20 + o THEN r - (20 + o) + M ELSE r - (20 + o)
      BY <1>3, <2>1, <3>1
    <3> HIDE DEF o, q, r
    <3>4. After(20) = position + 20
      BY <1>2, <2>3, AfterType
    <3>5. /\ position' = q.at + 20 + 4 * q.ihl
          /\ r' = q.captured - 4 - 4 * q.ihl
      <4>1. 20 + o = 4 * q.ihl
        BY <1>3, <3>2
      <4>2. r = q.captured - 4 /\ position = q.at + 20
        BY <1>5, <2>3
      <4>3. ~ (r < 20 + o)
        BY <1>3, <4>1, <4>2
      <4>4. r' = r - (20 + o)
        BY <3>3, <4>3
      <4>5. position' = position + (20 + o)
        <5>1. o \in Int
          BY <1>3, <3>2
        <5> QED
          BY <1>2, <3>3, <3>4, <5>1
      <4> QED
        BY <1>3, <4>1, <4>2, <4>4, <4>5
    <3>6. AtTcp(packet_count)'
      BY <1>4, <3>3, <3>5 DEF AtTcp, q, r, n
    <3> QED
      BY <1>10, <2>2, <3>6
  <2>4. CASE ~ (AtIpv4(n) /\ Has(20))
    <3>1. IsCut /\ After(20) >= capture.length
      <4>1. IsCut /\ (position >= capture.length \/ ~ Has(20))
        BY <1>6, <1>7, <2>4 DEF CutIpv4
      <4>2. /\ After(20) \in Nat /\ After(20) >= position
            /\ ~ Has(20) => After(20) >= capture.length
        BY <1>2, AfterType
      <4> QED
        BY <1>2, <4>1, <4>2
    <3>2. ~ wide => r >= 28 /\ 2 * r < M
      BY <1>5, <1>7, <2>4 DEF CutIpv4
    <3>3. CutTransport'
      BY <1>10, <3>1, <3>2, Ipv4BehindEnd
    <3>4. IsCut'
      BY <1>4, <3>1 DEF IsCut
    <3> QED
      BY <1>10, <2>2, <3>3, <3>4
  <2> QED
    BY <2>3, <2>4
<1> QED
  BY <1>8, <1>9, <1>10

LEMMA CountsTcp ==
  ASSUME AlignInv, SoundFile, ~ IsForeign, Counting, ReadTcpHeader
  PROVE  pc' = "packet" /\ (BetweenPackets' \/ BehindCut')
<1> DEFINE n == packet_count
           q == Packets[n]
           r == remaining_packet_data_length
<1>1. /\ pc = "transport" /\ pc' = "packet" /\ InPacket
      /\ UNCHANGED <<input, packet_count>>
      /\ AtTcp(n) \/ (IsCut /\ CutTransport)
  BY DEF ReadTcpHeader, Counting
<1>2. /\ capture \in Capture /\ position \in Nat /\ capture.length \in Nat
      /\ n \in 1 .. Len(Packets) /\ Len(Packets) \in Nat
      /\ r \in Nat /\ r \in uint32 /\ r < M /\ M \in Nat
  BY <1>1, Captures, Bounds DEF AlignInv, TypeOK, InPacket, Packets
<1>3. /\ q.at \in Nat /\ q.captured \in Nat /\ q.captured \in uint32
      /\ q.ihl \in Nat /\ q.ihl >= 5
      /\ q.data_offset \in 0 .. 15 /\ q.data_offset >= 5
      /\ q.captured >= 4 + 4 * q.ihl + 4 * q.data_offset /\ 2 * q.captured < M
      /\ Ntohs(q.destination_port) = q.destination_port
      /\ Ntohs(q.source_port) = q.source_port
      /\ End(q) = q.at + 16 + q.captured
  <2>1. End(q) = q.at + 16 + q.captured
    BY <1>2, InFile
  <2> QED
    BY <1>2, <2>1, SoundPacket
<1>4. /\ Packets' = Packets /\ capture' = capture /\ FileEnd' = FileEnd /\ n' = n
  BY <1>1, SameFile
<1>5. /\ Packets[n].at + 16 <= capture.length
      /\ n - 1 \in 0 .. Len(Packets)
      /\ \A i \in 1 .. n - 1 : End(Packets[i]) <= capture.length
      /\ SYN_initiated_count = Asking(n - 1) /\ ACK_count = Acknowledging(n - 1)
  BY <1>1 DEF InPacket, CountedTo
<1>6. /\ n \in Nat \ {0}
      /\ Asking(n - 1) \in Nat /\ Acknowledging(n - 1) \in Nat
      /\ Asking(n) = Asking(n - 1) + IF Asks(n) THEN 1 ELSE 0
      /\ Acknowledging(n) = Acknowledging(n - 1) + IF Acknowledges(n) THEN 1 ELSE 0
  <2>1. n \in Nat \ {0}
    BY <1>2
  <2> QED
    BY <2>1, CountsGrow
<1>7. PICK p \in Read(20) :
        LET o == Options(p.data_offset, 20)
        IN  /\ position' = Seek(After(20) + o, Long(Uint32(r - (20 + o))))
            /\ Increment(SYN_initiated_count,
                         p.syn /\ Ntohs(p.destination_port) = 80)
            /\ Increment(ACK_count, p.ack /\ Ntohs(p.source_port) = 80)
  BY DEF ReadTcpHeader, TCP_HEADER_MIN_SIZE
<1>8. /\ SYN_initiated_count' - Asking(n - 1) \in 0 .. 1
      /\ ACK_count' - Acknowledging(n - 1) \in 0 .. 1
  BY <1>5, <1>6, <1>7 DEF Increment
<1>9. ASSUME IsCut, ~ (position' + 16 <= capture.length)
      PROVE  BehindCut'
  <2>1. /\ n' \in 1 .. Len(Packets)'
        /\ (Packets[n].at + 16 <= capture.length)'
        /\ IsCut'
    BY <1>2, <1>4, <1>5, <1>9 DEF IsCut
  <2>2. (\A i \in 1 .. n - 1 : End(Packets[i]) <= capture.length)'
    BY <1>4, <1>5
  <2>3. /\ (SYN_initiated_count - Asking(n - 1) \in 0 .. 1)'
        /\ (ACK_count - Acknowledging(n - 1) \in 0 .. 1)'
    BY <1>4, <1>8 DEF Asking, Acknowledging, Asks, Acknowledges
  <2>4. ~ (position' + 16 <= capture'.length)
    BY <1>4, <1>9
  <2> QED
    BY <2>1, <2>2, <2>3, <2>4 DEF BehindCut
<1>10. ASSUME AtTcp(n)
       PROVE  /\ current = q /\ position = q.at + 20 + 4 * q.ihl
              /\ r = q.captured - 4 - 4 * q.ihl
              /\ r >= 4 * q.data_offset /\ 2 * r < M
              /\ ~ Has(20) => IsCut
  <2>1. /\ current = q /\ position = q.at + 20 + 4 * q.ihl
        /\ r = q.captured - 4 - 4 * q.ihl
    BY <1>10 DEF AtTcp
  <2> HIDE DEF q, r
  <2>2. q.data_offset \in Nat
    BY <1>3
  <2>3. r >= 4 * q.data_offset /\ 2 * r < M
    <3>1. /\ q.captured \in Nat /\ q.ihl \in Nat
          /\ q.captured >= 4 + 4 * q.ihl + 4 * q.data_offset
          /\ 2 * q.captured < M /\ M \in Nat
      BY <1>2, <1>3
    <3> QED
      BY <2>1, <2>2, <3>1
  <2>4. ASSUME ~ Has(20) PROVE IsCut
    <3>1. ~ (position + 20 <= capture.length)
      BY <2>4 DEF Has
    <3>2. q.captured >= 24 + 4 * q.ihl
      BY <1>3, <2>2
    <3>3. capture.length < End(q)
      <4>1. /\ q.at \in Nat /\ q.captured \in Nat /\ q.ihl \in Nat
            /\ End(q) = q.at + 16 + q.captured
            /\ position = q.at + 20 + 4 * q.ihl /\ capture.length \in Nat
        BY <1>2, <1>3, <2>1
      <4> QED
        BY <3>1, <3>2, <4>1
    <3> QED
      BY <3>3 DEF IsCut, q, n
  <2> QED
    BY <2>1, <2>3, <2>4
<1>11. CASE AtTcp(n) /\ Has(20)
  <2> DEFINE o == Options(q.data_offset, 20)
  <2>1. p = q
    BY <1>7, <1>10, <1>11 DEF Read
  <2>2. /\ position' = Seek(After(20) + o, Long(Uint32(r - (20 + o))))
        /\ SYN_initiated_count' = Asking(n)
        /\ ACK_count' = Acknowledging(n)
    <3>1. position' = Seek(After(20) + o, Long(Uint32(r - (20 + o))))
      BY <1>7, <2>1
    <3>2. /\ Asks(n) <=> q.syn /\ q.destination_port = 80
          /\ Acknowledges(n) <=> q.ack /\ q.source_port = 80
      BY DEF Asks, Acknowledges
    <3>3. /\ Increment(SYN_initiated_count, q.syn /\ q.destination_port = 80)
          /\ Increment(ACK_count, q.ack /\ q.source_port = 80)
      BY <1>3, <1>7, <2>1
    <3> HIDE DEF q
    <3> QED
      BY <1>5, <1>6, <3>1, <3>2, <3>3 DEF Increment
  <2>3. o = 4 * q.data_offset - 20 /\ o \in Nat /\ o <= 252
    <3>1. o = IF q.data_offset < 5 THEN 4 * q.data_offset + 236
              ELSE 4 * q.data_offset - 20
      BY <1>3, OptionsAre
    <3> HIDE DEF o, q
    <3> QED
      BY <1>3, <3>1
  <2> HIDE DEF o, q
  <2>4. position' = End(q)
    <3>1. 20 + o = 4 * q.data_offset
      BY <1>3, <2>3
    <3>2. r >= 20 + o /\ 2 * r < M /\ r = q.captured - 4 - 4 * q.ihl
      BY <1>10, <1>11, <3>1
    <3> HIDE DEF r
    <3>3. Uint32(r - (20 + o)) = r - (20 + o)
      <4>1. 20 + o \in Nat /\ 20 + o <= 300 /\ r \in uint32 /\ r \in Nat
        BY <1>2, <2>3
      <4>2. Uint32(r - (20 + o)) = IF r < 20 + o THEN r - (20 + o) + M ELSE r - (20 + o)
        BY <4>1, Deducts
      <4> QED
        BY <3>2, <4>1, <4>2
    <3>4. r - (20 + o) \in uint32 /\ 2 * (r - (20 + o)) < M
      BY <1>2, <2>3, <3>2, Bounds
    <3>5. Long(r - (20 + o)) = r - (20 + o)
      BY <3>4, LongIs
    <3>6. After(20) = position + 20
      BY <1>2, <1>11, AfterType
    <3>7. position = q.at + 20 + 4 * q.ihl
      BY <1>10, <1>11
    <3>8. (After(20) + o) + (r - (20 + o)) = q.at + 16 + q.captured
      BY <1>3, <2>3, <3>2, <3>6, <3>7
    <3>9. position' = IF (After(20) + o) + (r - (20 + o)) >= 0
                      THEN (After(20) + o) + (r - (20 + o)) ELSE After(20) + o
      BY <2>2, <3>3, <3>5 DEF Seek
    <3>10. q.at + 16 + q.captured >= 0
      BY <1>3
    <3> QED
      BY <1>3, <3>8, <3>9, <3>10
  <2>5. CASE IsCut
    <3>1. ~ (position' + 16 <= capture.length)
      <4>1. capture.length < End(q)
        BY <2>5 DEF IsCut, q
      <4>2. End(q) \in Nat
        BY <1>3
      <4> QED
        BY <1>2, <2>4, <4>1, <4>2
    <3> QED
      BY <1>1, <1>9, <2>5, <3>1
  <2>6. CASE ~ IsCut
    <3>1. End(q) <= capture.length
      <4>1. End(q) = q.at + 16 + q.captured /\ q.at \in Nat /\ q.captured \in Nat
        BY <1>3
      <4>2. End(q) \in Nat /\ capture.length \in Nat
        BY <1>2, <4>1
      <4>3. ~ (capture.length < End(q))
        BY <2>6 DEF IsCut, q
      <4> HIDE DEF q
      <4> QED
        BY <4>2, <4>3
    <3>2. \A i \in 1 .. n : End(Packets[i]) <= capture.length
      <4> SUFFICES ASSUME NEW i \in 1 .. n PROVE End(Packets[i]) <= capture.length
        OBVIOUS
      <4>1. i \in 1 .. n - 1 \/ i = n
        BY <1>2
      <4> QED
        BY <1>5, <3>1, <4>1 DEF q
    <3>3. position' = Start(n)
      <4>1. CASE n < Len(Packets)
        <5>1. n + 1 \in 1 .. Len(Packets)
          BY <1>2, <4>1
        <5>2. Packets[n + 1].at = End(Packets[n])
          BY <1>2, <5>1, InFile
        <5> QED
          BY <2>4, <4>1, <5>2 DEF Start, q
      <4>2. CASE n = Len(Packets)
        BY <1>2, <2>4, <4>2 DEF Start, FileEnd, q
      <4> QED
        BY <1>2, <4>1, <4>2
    <3>4. position' = Start(packet_count)'
      BY <1>4, <3>3 DEF Start
    <3>5. CountedTo(packet_count)'
      BY <1>2, <1>4, <2>2, <3>2
         DEF CountedTo, Asking, Acknowledging, Asks, Acknowledges
    <3> QED
      BY <1>1, <3>4, <3>5 DEF BetweenPackets
  <2> QED
    BY <2>5, <2>6
<1>12. CASE ~ (AtTcp(n) /\ Has(20))
  <2>1. IsCut /\ (CutTransport \/ (AtTcp(n) /\ ~ Has(20)))
    BY <1>1, <1>10, <1>12
  <2>2. /\ After(20) \in Nat /\ After(20) >= position
        /\ ~ Has(20) => After(20) >= capture.length
    BY <1>2, AfterType
  <2>3. /\ After(20) >= capture.length
        /\ ~ wide =>
             \/ After(20) + r >= capture.length + 8 /\ 2 * r < M
             \/ After(20) + r >= capture.length + 8 + M /\ r >= M - 300
    <3>1. CASE CutTransport
      <4>1. /\ position >= capture.length
            /\ ~ wide =>
                 \/ position + r >= capture.length + 8 /\ 2 * r < M
                 \/ position + r >= capture.length + 8 + M /\ r >= M - 300
        BY <3>1 DEF CutTransport
      <4> HIDE DEF r
      <4> QED
        BY <1>2, <2>2, <4>1
    <3>2. CASE AtTcp(n) /\ ~ Has(20)
      <4>1. r >= 4 * q.data_offset /\ 2 * r < M
        BY <1>10, <3>2
      <4> HIDE DEF r, q
      <4>2. r >= 8
        <5>1. q.data_offset \in 0 .. 15 /\ q.data_offset >= 5
          BY <1>3
        <5>2. r \in Nat
          BY <1>2
        <5> QED
          BY <4>1, <5>1, <5>2
      <4>3. After(20) \in Nat /\ After(20) >= capture.length /\ r \in Nat
        BY <1>2, <2>2, <3>2
      <4> QED
        BY <1>2, <4>1, <4>2, <4>3
    <3> QED
      BY <2>1, <3>1, <3>2
  <2>4. ~ (position' + 16 <= capture.length)
    BY <2>3, TcpBehindEnd
  <2> QED
    BY <1>1, <1>9, <2>1, <2>4
<1> QED
  BY <1>11, <1>12

LEMMA CountsFile ==
  ASSUME AlignInv, Counting, ReadFileHeader
  PROVE  pc' = "packet" /\ (BetweenPackets' \/ NoHeader')
<1>1. /\ pc = "open" /\ pc' = "packet" /\ position = 0 /\ position' = After(24)
      /\ UNCHANGED input /\ capture \in Capture /\ capture.length \in Nat
      /\ Len(Packets) \in Nat /\ Packets \in Seq(Packet)
      /\ counts' = <<0, 0, 0>>
  BY Captures DEF AlignInv, TypeOK, Swapping, ReadFileHeader, Counting, Packets,
                  PCAP_FILE_HEADER_SIZE
<1>2. Packets' = Packets /\ capture' = capture /\ FileEnd' = FileEnd
  BY <1>1, SameFile
<1>3. packet_count' = 0 /\ SYN_initiated_count' = 0 /\ ACK_count' = 0
  BY <1>1 DEF counts
<1>4. CASE Has(24)
  <2>1. position' = 24
    BY <1>1, <1>4, AfterType
  <2>2. Start(0) = 24
    <3>1. CASE Packets = <<>>
      BY <3>1 DEF Start, FileEnd, PCAP_FILE_HEADER_SIZE
    <3>2. CASE Packets # <<>>
      <4>1. 1 \in 1 .. Len(Packets) /\ 0 < Len(Packets)
        BY <1>1, <3>2
      <4>2. Packets[1].at = 24
        BY <1>1, <4>1, PcapAssumption DEF Packets, PCAP_FILE_HEADER_SIZE
      <4> QED
        BY <4>1, <4>2 DEF Start
    <3> QED
      BY <3>1, <3>2
  <2>3. position' = Start(packet_count)'
    BY <1>2, <1>3, <2>1, <2>2 DEF Start
  <2>4. CountedTo(packet_count)'
    <3>1. {i \in 1 .. 0 : Asks(i)} = {} /\ {i \in 1 .. 0 : Acknowledges(i)} = {}
      OBVIOUS
    <3>2. Asking(packet_count)' = 0 /\ Acknowledging(packet_count)' = 0
      BY <1>2, <1>3, NothingCounted DEF Asking, Acknowledging, Asks, Acknowledges
    <3> QED
      BY <1>1, <1>2, <1>3, <3>2 DEF CountedTo
  <2> QED
    BY <1>1, <2>3, <2>4 DEF BetweenPackets
<1>5. CASE ~ Has(24)
  <2>1. After(24) >= capture.length
    BY <1>1, <1>5, AfterType
  <2>2. capture.length < 24
    BY <1>1, <1>5 DEF Has
  <2> QED
    BY <1>1, <1>2, <2>1, <2>2 DEF NoHeader
<1> QED
  BY <1>4, <1>5

LEMMA CountingStep ==
  ASSUME AlignInv, SoundFile, ~ IsForeign, Counting, [Next]_vars
  PROVE  Counting'
<1>1. CASE OpenFails \/ ReadError
  <2>1. pc' = "error"
    BY <1>1 DEF OpenFails, ReadError, Stops
  <2> QED
    BY <2>1 DEF Counting
<1>2. CASE ReadFileHeader
  BY <1>2, CountsFile DEF Counting
<1>3. CASE EndOfFile
  <2>1. /\ pc = "packet" /\ pc' = "done" /\ ~ (position + 16 <= capture.length)
        /\ UNCHANGED input /\ UNCHANGED counts
    BY <1>3 DEF EndOfFile, Has, PCAP_PACKET_HEADER_SIZE
  <2>2. Right
    BY <2>1, CountsAtEnd DEF Counting
  <2>3. Right'
    BY <2>1, <2>2, CountedKept
  <2>4. CountsAreRight'
    BY <2>1, <2>3 DEF CountsAreRight, Right
  <2> QED
    BY <2>1, <2>4 DEF Counting
<1>4. CASE ReadPacketHeader
  BY <1>4, CountsPacket DEF Counting
<1>5. CASE ReadLinkLayerHeader
  <2>1. UNCHANGED input
    BY <1>5 DEF ReadLinkLayerHeader
  <2>2. CASE pc' = "failed" /\ Begun # Whole
    <3>1. Begun' # Whole'
      BY <2>1, <2>2, SameFile
    <3>2. CountsAreRight'
      BY <2>2, <3>1 DEF CountsAreRight
    <3> QED
      BY <2>2, <3>2 DEF Counting
  <2>3. CASE /\ pc' = "ip" /\ InPacket'
             /\ AtIpv4(packet_count)' \/ (IsCut' /\ CutIpv4')
    BY <2>3 DEF Counting
  <2> QED
    BY <1>5, <2>2, <2>3, CountsLink
<1>6. CASE ReadIpv4Header
  <2>1. UNCHANGED input
    BY <1>6 DEF ReadIpv4Header
  <2>2. CASE pc' = "failed" /\ Begun # Whole
    <3>1. Begun' # Whole'
      BY <2>1, <2>2, SameFile
    <3>2. CountsAreRight'
      BY <2>2, <3>1 DEF CountsAreRight
    <3> QED
      BY <2>2, <3>2 DEF Counting
  <2>3. CASE /\ pc' = "transport" /\ InPacket'
             /\ AtTcp(packet_count)' \/ (IsCut' /\ CutTransport')
    BY <2>3 DEF Counting
  <2> QED
    BY <1>6, <2>2, <2>3, CountsIpv4
<1>7. CASE ReadTcpHeader
  BY <1>7, CountsTcp DEF Counting
<1>8. CASE UNCHANGED vars
  <2>1. UNCHANGED <<capture, wide, pc, position, current,
                    remaining_packet_data_length, packet_count,
                    SYN_initiated_count, ACK_count>>
        /\ UNCHANGED input /\ UNCHANGED counts
    BY <1>8 DEF vars, input, counts
  <2>2. Packets' = Packets /\ FileEnd' = FileEnd
    BY <2>1, SameFile
  <2>3. BetweenPackets => BetweenPackets'
    BY <2>1, <2>2 DEF BetweenPackets, Start, CountedTo, Asking, Acknowledging,
                      Asks, Acknowledges
  <2>4. BehindCut => BehindCut'
    BY <2>1, <2>2 DEF BehindCut, IsCut, Asking, Acknowledging, Asks, Acknowledges
  <2>5. NoHeader => NoHeader'
    BY <2>1 DEF NoHeader
  <2>6. InPacket => InPacket'
    BY <2>1, CountedKept
  <2>7. /\ AtLink(packet_count) => AtLink(packet_count)'
        /\ AtIpv4(packet_count) => AtIpv4(packet_count)'
        /\ AtTcp(packet_count) => AtTcp(packet_count)'
        /\ IsCut /\ CutIpv4 => IsCut' /\ CutIpv4'
        /\ IsCut /\ CutTransport => IsCut' /\ CutTransport'
    BY <2>1, <2>2 DEF AtLink, AtIpv4, AtTcp, IsCut, CutIpv4, CutTransport
  <2>8. CountsAreRight => CountsAreRight'
    <3>1. /\ Right => Right'
          /\ Begun' = Begun /\ Whole' = Whole
      BY <2>1, CountedKept, SameFile
    <3>2. (SoundFile' <=> SoundFile) /\ (IsForeign' <=> IsForeign) /\ pc' = pc
      BY <2>1, SameFile
    <3>3. CASE ~ (SoundFile /\ ~ IsForeign /\ pc \in {"failed", "done"})
      BY <3>2, <3>3 DEF CountsAreRight
    <3>4. CASE SoundFile /\ ~ IsForeign /\ pc = "failed"
      BY <3>1, <3>2, <3>4 DEF CountsAreRight
    <3>5. CASE SoundFile /\ ~ IsForeign /\ pc = "done"
      <4>1. CountsAreRight => Right'
        BY <3>1, <3>5 DEF CountsAreRight, Right
      <4>2. Right' => CountsAreRight'
        BY <3>2, <3>5 DEF CountsAreRight, Right
      <4> QED
        BY <4>1, <4>2
    <3> QED
      BY <3>3, <3>4, <3>5
  <2> QED
    BY <2>1, <2>3, <2>4, <2>5, <2>6, <2>7, <2>8 DEF Counting
<1> QED
  BY <1>1, <1>2, <1>3, <1>4, <1>5, <1>6, <1>7, <1>8 DEF Next, Walk

\* The counts that are printed are those of the packets in the file, whatever
\* the file is and wherever it ends (lines 235 to 244).
THEOREM CountsCorrect == Spec => []CountsAreRight
<1> DEFINE Counted == SoundFile /\ ~ IsForeign => Counting
<1>1. Init => Counted
  BY DEF Init, Counting, counts
<1>2. Counted => CountsAreRight
  <2>1. pc \notin {"failed", "done"} \/ ~ (SoundFile /\ ~ IsForeign) => CountsAreRight
    BY DEF CountsAreRight
  <2> QED
    BY <2>1 DEF Counting
<1>3. Init /\ TypeOK => AlignInv
  BY DEF Init, Swapping, Walking, AlignInv
<1>4. AlignInv /\ TypeOK' /\ [Next]_vars => AlignInv'
  BY WalkingStep DEF AlignInv
<1>5. AlignInv /\ Counted /\ [Next]_vars => Counted'
  <2> SUFFICES ASSUME AlignInv, Counted, [Next]_vars, (SoundFile /\ ~ IsForeign)'
               PROVE  Counting'
    OBVIOUS
  <2>1. UNCHANGED input
    BY DEF Next, Walk, vars, OpenFails, ReadFileHeader, EndOfFile, ReadError,
           ReadPacketHeader, ReadLinkLayerHeader, ReadIpv4Header, ReadTcpHeader
  <2>2. SoundFile /\ ~ IsForeign
    BY <2>1, SameFile
  <2> QED
    BY <2>2, CountingStep
<1> HIDE DEF Counted
<1> QED
  BY <1>1, <1>2, <1>3, <1>4, <1>5, TypeCorrect, PTL DEF Spec

=============================================================================
