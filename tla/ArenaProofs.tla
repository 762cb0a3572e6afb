------------------------------ MODULE ArenaProofs ------------------------------
(***************************************************************************)
(* That the blocks of an arena do not overlap, lie in memory the arena has *)
(* and are large enough, and that its marks stay good, for every size of   *)
(* request, region and word, and any number of regions.                    *)
(*                                                                         *)
(* The argument: blocks are handed out in the order of the regions and of  *)
(* the words in them, so the list of blocks is sorted by place; the end of *)
(* the arena is behind all of them, and a mark is a place between those    *)
(* that are older and those that are younger than it.                      *)
(***************************************************************************)
EXTENDS Arena, SequenceTheorems, TLAPS

\* the place of a block is before that of another, or at or behind a mark's
IsBefore(b, c) ==
  b.region < c.region \/ (b.region = c.region /\ b.offset + b.size <= c.offset)

IsAbove(b, m) ==
  b.region > m.region \/ (b.region = m.region /\ b.offset >= m.count)

\* of two marks, the older and the younger
IsOlder(m, n) ==
  /\ m.height <= n.height
  /\ m.region < n.region \/ (m.region = n.region /\ m.count <= n.count)

InArena(b) ==
  /\ b.region \in 1 .. end
  /\ b.offset + b.size <= regions[b.region].count
  /\ b.bytes <= b.size * WORD

InReach(m) ==
  /\ m.region \in 0 .. end
  /\ m.height <= Len(blocks)
  /\ m.region = NULL => m.height = 0 /\ m.count = 0
  /\ m.region # NULL => m.count <= regions[m.region].count

SoundRegions ==
  /\ end = NULL => regions = <<>>
  /\ \A r \in 1 .. Len(regions) : regions[r].count <= regions[r].capacity
  /\ \A r \in 1 .. Len(regions) : r > end => regions[r].count = 0

SoundBlocks ==
  /\ \A k \in 1 .. Len(blocks) : InArena(blocks[k])
  /\ \A j, k \in 1 .. Len(blocks) : j < k => IsBefore(blocks[j], blocks[k])

SoundMarks ==
  /\ \A i \in 1 .. Len(marks) : InReach(marks[i])
  /\ \A i \in 1 .. Len(marks) : \A k \in 1 .. Len(blocks) :
       IF k <= marks[i].height THEN IsBelow(blocks[k], marks[i])
                               ELSE IsAbove(blocks[k], marks[i])
  /\ \A i, j \in 1 .. Len(marks) : i < j => IsOlder(marks[i], marks[j])

IInv == TypeOK /\ SoundRegions /\ SoundBlocks /\ SoundMarks /\ ArrayFits

-----------------------------------------------------------------------------
(* Words.                                                                   *)

LEMMA Positive ==
  WORD \in Nat /\ WORD > 0 /\ ITEM \in Nat /\ Request \subseteq Nat /\ Piece \subseteq Nat
  /\ ARENA_REGION_DEFAULT_CAPACITY \in Nat /\ ARENA_DA_INIT_CAP \in Nat
BY ArenaAssumption

\* As many words as arena_alloc() counts are enough for the bytes (line 296).
LEMMA WordsEnough ==
  ASSUME NEW bytes \in Nat
  PROVE  Words(bytes) \in Nat /\ bytes <= Words(bytes) * WORD
<1> DEFINE n == bytes + WORD - 1
           q == n \div WORD
           s == n % WORD
<1>1. WORD \in Nat /\ WORD > 0
  BY Positive
<1>2. n \in Nat
  BY <1>1
<1>3. q \in Nat /\ s \in 0 .. WORD - 1 /\ n = WORD * q + s
  <2> HIDE DEF n
  <2> QED BY <1>1, <1>2
<1>4. q * WORD = WORD * q
  BY <1>1, <1>3
<1>5. bytes = n - WORD + 1
  BY <1>1
<1>6. bytes <= q * WORD
  <2> HIDE DEF n, q, s
  <2> QED BY <1>1, <1>2, <1>3, <1>4, <1>5
<1> QED
  BY <1>3, <1>6 DEF Words

-----------------------------------------------------------------------------
(* Lists.                                                                   *)

LEMMA Element ==
  ASSUME NEW S, NEW s \in Seq(S), NEW k \in 1 .. Len(s)
  PROVE  s[k] \in S
OBVIOUS

LEMMA ARegion ==
  ASSUME NEW R \in Seq(Region), NEW r \in 1 .. Len(R)
  PROVE  /\ R[r] \in Region /\ R[r].count \in Nat /\ R[r].capacity \in Nat
         /\ R[r] = [count |-> R[r].count, capacity |-> R[r].capacity]
<1>1. R[r] \in Region
  BY Element
<1> QED
  BY <1>1 DEF Region

LEMMA AMark ==
  ASSUME NEW M \in Seq(Mark), NEW i \in 1 .. Len(M)
  PROVE  M[i] \in Mark /\ M[i].region \in Nat /\ M[i].count \in Nat /\ M[i].height \in Nat
<1>1. M[i] \in Mark
  BY Element
<1> QED
  BY <1>1 DEF Mark

LEMMA Appended ==
  ASSUME NEW S, NEW s \in Seq(S), NEW x \in S
  PROVE  /\ Append(s, x) \in Seq(S)
         /\ Len(Append(s, x)) = Len(s) + 1
         /\ \A k \in 1 .. Len(s) : Append(s, x)[k] = s[k]
         /\ Append(s, x)[Len(s) + 1] = x
OBVIOUS

LEMMA Shortened ==
  ASSUME NEW S, NEW s \in Seq(S), NEW n \in 0 .. Len(s)
  PROVE  /\ SubSeq(s, 1, n) \in Seq(S)
         /\ Len(SubSeq(s, 1, n)) = n
         /\ \A k \in 1 .. n : SubSeq(s, 1, n)[k] = s[k]
OBVIOUS

LEMMA Remade ==
  ASSUME NEW S, NEW s \in Seq(S), NEW t,
         t = [k \in DOMAIN s |-> t[k]], \A k \in 1 .. Len(s) : t[k] \in S
  PROVE  t \in Seq(S) /\ Len(t) = Len(s)
<1>1. DOMAIN s = 1 .. Len(s) /\ Len(s) \in Nat
  OBVIOUS
<1>2. t \in [1 .. Len(s) -> S]
  BY <1>1
<1> QED
  BY <1>1, <1>2

-----------------------------------------------------------------------------
(* Allocating.                                                              *)

Sound == TypeOK /\ SoundRegions /\ SoundBlocks /\ SoundMarks

\* What a list must be for a block to be taken from its region r.
Offers(list, r, size) ==
  /\ list \in Seq(Region) /\ r \in 1 .. Len(list) /\ end <= r
  /\ Len(regions) <= Len(list)
  /\ \A q \in 1 .. Len(regions) : list[q] = regions[q]
  /\ \A q \in 1 .. Len(list) : list[q].count <= list[q].capacity
  /\ \A q \in 1 .. Len(list) : q > end => list[q].count = 0
  /\ list[r].count + size <= list[r].capacity

LEMMA TakeKeeps ==
  ASSUME Sound, NEW bytes \in Nat, NEW list, NEW r, Offers(list, r, Words(bytes)),
         Take(list, r, bytes), marks' = marks
  PROVE  /\ regions' \in Seq(Region) /\ end' \in 1 .. Len(regions')
         /\ blocks' \in Seq(Block) /\ Len(blocks') = Len(blocks) + 1
         /\ \A k \in 1 .. Len(blocks) : blocks'[k] = blocks[k]
         /\ blocks'[Len(blocks) + 1].bytes = bytes
         /\ SoundRegions' /\ SoundBlocks' /\ SoundMarks'
<1> DEFINE W == Words(bytes)
           n == Len(blocks)
           b == [region |-> r, offset |-> list[r].count, size |-> W, bytes |-> bytes]
           t == [count |-> list[r].count + W, capacity |-> list[r].capacity]
<1>1. W \in Nat /\ bytes <= W * WORD
  BY WordsEnough
<1>2. /\ list \in Seq(Region) /\ r \in 1 .. Len(list) /\ end <= r /\ end \in Nat
      /\ list[r].count \in Nat /\ list[r].capacity \in Nat /\ Len(list) \in Nat
      /\ list[r] = [count |-> list[r].count, capacity |-> list[r].capacity]
  <2>1. list \in Seq(Region) /\ r \in 1 .. Len(list) /\ end <= r
    BY DEF Offers
  <2>2. end \in 0 .. Len(regions) /\ Len(regions) \in Nat
    BY DEF Sound, TypeOK
  <2> QED
    BY <2>1, <2>2, ARegion
<1>3. t \in Region /\ b \in Block
  BY <1>1, <1>2 DEF Region, Block
<1>4. regions' = [list EXCEPT ![r].count = @ + W] /\ end' = r /\ blocks' = Append(blocks, b)
  BY DEF Take
<1>6. regions' = [list EXCEPT ![r] = t]
  <2>1. [list[r] EXCEPT !.count = @ + W] = t
    BY <1>2
  <2>2. regions' = [list EXCEPT ![r] = [list[r] EXCEPT !.count = @ + W]]
    BY <1>4
  <2> QED
    BY <2>1, <2>2
<1>7. /\ regions' \in Seq(Region) /\ Len(regions') = Len(list)
      /\ \A q \in 1 .. Len(list) : regions'[q] = IF q = r THEN t ELSE list[q]
  <2> HIDE DEF t
  <2> QED BY <1>2, <1>3, <1>6
<1>8. /\ blocks' \in Seq(Block) /\ Len(blocks') = n + 1 /\ n \in Nat
      /\ \A k \in 1 .. n : blocks'[k] = blocks[k]
      /\ blocks'[n + 1] = b
  <2> HIDE DEF b
  <2>1. blocks \in Seq(Block) /\ n \in Nat
    BY DEF Sound, TypeOK
  <2> QED
    BY <1>3, <1>4, <2>1, Appended
<1>9. SoundRegions'
  <2>1. end' # NULL
    BY <1>2, <1>4 DEF NULL
  <2>2. Len(regions') = Len(list) /\ end' = r
    BY <1>4, <1>7
  <2>3. \A q \in 1 .. Len(regions') : regions'[q].count <= regions'[q].capacity
    <3> SUFFICES ASSUME NEW q \in 1 .. Len(list)
                 PROVE  regions'[q].count <= regions'[q].capacity
      BY <2>2
    <3>1. CASE q = r
      <4>1. t.count <= t.capacity
        BY DEF Offers
      <4> HIDE DEF t
      <4> QED BY <1>7, <3>1, <4>1
    <3>2. CASE q # r
      <4>1. list[q].count <= list[q].capacity
        BY DEF Offers
      <4> QED
        BY <1>7, <3>2, <4>1
    <3> QED
      BY <3>1, <3>2
  <2>4. \A q \in 1 .. Len(regions') : q > end' => regions'[q].count = 0
    <3> SUFFICES ASSUME NEW q \in 1 .. Len(list), q > r PROVE regions'[q].count = 0
      BY <2>2
    <3>1. regions'[q] = list[q] /\ q > end
      BY <1>2, <1>7
    <3> QED
      BY <3>1 DEF Offers
  <2> QED
    BY <2>1, <2>3, <2>4 DEF SoundRegions
<1>10. \A q \in 1 .. end : /\ q \in 1 .. r
                           /\ regions[q].count \in Nat /\ regions'[q].count \in Nat
                           /\ regions[q].count <= regions'[q].count
                           /\ q = r => regions[q].count = list[r].count
  <2> SUFFICES ASSUME NEW q \in 1 .. end
               PROVE  /\ q \in 1 .. r
                      /\ regions[q].count \in Nat /\ regions'[q].count \in Nat
                      /\ regions[q].count <= regions'[q].count
                      /\ q = r => regions[q].count = list[r].count
    OBVIOUS
  <2>1. q \in 1 .. Len(regions) /\ regions \in Seq(Region) /\ q \in 1 .. r
    BY <1>2 DEF Sound, TypeOK
  <2>2. list[q] = regions[q] /\ q \in 1 .. Len(list) /\ list[q].count \in Nat
    <3>1. list[q] = regions[q] /\ q \in 1 .. Len(list)
      BY <1>2, <2>1 DEF Offers
    <3> QED
      BY <1>2, <3>1, ARegion
  <2>3. CASE q = r
    BY <1>1, <1>2, <1>7, <2>1, <2>2, <2>3
  <2>4. CASE q # r
    BY <1>7, <2>1, <2>2, <2>4
  <2> QED
    BY <2>3, <2>4
<1>11. \A k \in 1 .. n : blocks[k] \in Block
  BY DEF Sound, TypeOK
<1>12. \A k \in 1 .. n : /\ InArena(blocks[k])' /\ blocks'[k] = blocks[k]
                        /\ IsBefore(blocks[k], b)
  <2> SUFFICES ASSUME NEW k \in 1 .. n
               PROVE  InArena(blocks[k])' /\ blocks'[k] = blocks[k] /\ IsBefore(blocks[k], b)
    OBVIOUS
  <2> DEFINE c == blocks[k]
  <2>1. /\ c \in Block /\ c.region \in 1 .. end /\ c.offset + c.size <= regions[c.region].count
        /\ c.bytes <= c.size * WORD /\ blocks'[k] = c
    BY <1>8, <1>11 DEF Sound, SoundBlocks, InArena
  <2>2. c.offset \in Nat /\ c.size \in Nat /\ c.region \in Nat
    BY <2>1 DEF Block
  <2>3. InArena(c)'
    <3>1. c.region \in 1 .. r /\ c.offset + c.size <= regions'[c.region].count
      <4> HIDE DEF c
      <4> QED BY <1>10, <2>1, <2>2
    <3> QED
      BY <1>4, <1>8, <2>1, <3>1 DEF InArena
  <2>4. IsBefore(c, b)
    <3> HIDE DEF c
    <3>1. c.region < r \/ (c.region = r /\ c.offset + c.size <= list[r].count)
      BY <1>2, <1>10, <2>1, <2>2
    <3> QED
      BY <3>1 DEF IsBefore
  <2> QED
    BY <2>1, <2>3, <2>4
<1>13. InArena(b)'
  BY <1>1, <1>2, <1>4, <1>7 DEF InArena
<1>14. SoundBlocks'
  <2>1. \A k \in 1 .. n + 1 : InArena(blocks[k])'
    <3> SUFFICES ASSUME NEW k \in 1 .. n + 1 PROVE InArena(blocks[k])'
      OBVIOUS
    <3>1. CASE k = n + 1
      BY <1>8, <1>13, <3>1 DEF InArena
    <3>2. CASE k \in 1 .. n
      BY <1>12, <3>2
    <3> QED
      BY <1>8, <3>1, <3>2
  <2>2. \A j, k \in 1 .. n + 1 : j < k => IsBefore(blocks'[j], blocks'[k])
    <3> SUFFICES ASSUME NEW j \in 1 .. n + 1, NEW k \in 1 .. n + 1, j < k
                 PROVE  IsBefore(blocks'[j], blocks'[k])
      OBVIOUS
    <3>1. j \in 1 .. n
      BY <1>8
    <3>2. CASE k = n + 1
      BY <1>8, <1>12, <3>1, <3>2
    <3>3. CASE k \in 1 .. n
      <4>1. IsBefore(blocks[j], blocks[k])
        BY <3>1, <3>3 DEF Sound, SoundBlocks
      <4> QED
        BY <1>8, <3>1, <3>3, <4>1
    <3> QED
      BY <1>8, <3>2, <3>3
  <2> QED
    BY <1>8, <2>1, <2>2 DEF SoundBlocks
<1>15. \A i \in 1 .. Len(marks) :
         /\ marks[i] \in Mark /\ marks[i].region \in 0 .. end /\ marks[i].height \in 0 .. n
         /\ marks[i].region # NULL => marks[i].count <= regions[marks[i].region].count
         /\ InReach(marks[i])' /\ IsAbove(b, marks[i])
  <2> SUFFICES ASSUME NEW i \in 1 .. Len(marks)
               PROVE  /\ marks[i] \in Mark /\ marks[i].region \in 0 .. end
                      /\ marks[i].height \in 0 .. n
                      /\ marks[i].region # NULL =>
                           marks[i].count <= regions[marks[i].region].count
                      /\ InReach(marks[i])' /\ IsAbove(b, marks[i])
    OBVIOUS
  <2> DEFINE m == marks[i]
  <2>1. m \in Mark /\ m.region \in Nat /\ m.count \in Nat /\ m.height \in Nat
    BY AMark DEF Sound, TypeOK
  <2>2. /\ m.region \in 0 .. end /\ m.height <= n
        /\ m.region = NULL => m.height = 0 /\ m.count = 0
        /\ m.region # NULL => m.count <= regions[m.region].count
    BY DEF Sound, SoundMarks, InReach
  <2>3. m.region \in 0 .. r /\ (m.region # NULL => m.count <= regions'[m.region].count)
    <3>1. m.region \in 0 .. r
      <4> HIDE DEF m
      <4> QED BY <1>2, <2>1, <2>2
    <3>2. ASSUME m.region # NULL PROVE m.count <= regions'[m.region].count
      <4>1. m.region \in 1 .. end /\ m.count <= regions[m.region].count
        <5> HIDE DEF m
        <5> QED BY <1>2, <2>1, <2>2, <3>2 DEF NULL
      <4>2. /\ regions[m.region].count \in Nat /\ regions'[m.region].count \in Nat
            /\ regions[m.region].count <= regions'[m.region].count
        BY <1>10, <4>1
      <4> HIDE DEF m
      <4> QED BY <2>1, <4>1, <4>2
    <3> QED
      BY <3>1, <3>2
  <2>4. InReach(m)'
    <3>1. m.height <= n + 1
      <4> HIDE DEF m, n
      <4> QED BY <1>8, <2>1, <2>2
    <3>2. m' = m
      OBVIOUS
    <3> QED
      BY <1>4, <1>8, <2>2, <2>3, <3>1, <3>2 DEF InReach
  <2>5. IsAbove(b, m)
    <3> HIDE DEF m
    <3>1. r > m.region \/ (r = m.region /\ list[r].count >= m.count)
      BY <1>2, <1>10, <2>1, <2>2 DEF NULL
    <3> QED
      BY <3>1 DEF IsAbove
  <2> QED
    BY <1>8, <2>1, <2>2, <2>4, <2>5
<1>16. SoundMarks'
  <2>1. \A i \in 1 .. Len(marks) : \A k \in 1 .. n + 1 :
          IF k <= marks[i].height THEN IsBelow(blocks'[k], marks[i])
                                  ELSE IsAbove(blocks'[k], marks[i])
    <3> SUFFICES ASSUME NEW i \in 1 .. Len(marks), NEW k \in 1 .. n + 1
                 PROVE  IF k <= marks[i].height THEN IsBelow(blocks'[k], marks[i])
                                                ELSE IsAbove(blocks'[k], marks[i])
      OBVIOUS
    <3>1. CASE k = n + 1
      <4>1. ~ k <= marks[i].height
        BY <1>8, <1>15, <3>1
      <4> QED
        BY <1>8, <1>15, <3>1, <4>1
    <3>2. CASE k \in 1 .. n
      BY <1>8, <3>2 DEF Sound, SoundMarks
    <3> QED
      BY <1>8, <3>1, <3>2
  <2>2. \A i, j \in 1 .. Len(marks) : i < j => IsOlder(marks[i], marks[j])
    BY DEF Sound, SoundMarks
  <2>3. \A i \in 1 .. Len(marks) : InReach(marks[i])'
    BY <1>15
  <2> QED
    BY <1>8, <2>1, <2>2, <2>3 DEF SoundMarks
<1> QED
  BY <1>2, <1>4, <1>7, <1>8, <1>9, <1>14, <1>16

\* An arena_alloc() that returns gives a block like that, from a region that
\* was there or from a new one.
LEMMA GivenKeeps ==
  ASSUME Sound, NEW bytes \in Nat, Given(bytes), marks' = marks
  PROVE  /\ regions' \in Seq(Region) /\ end' \in 1 .. Len(regions')
         /\ blocks' \in Seq(Block) /\ Len(blocks') = Len(blocks) + 1
         /\ \A k \in 1 .. Len(blocks) : blocks'[k] = blocks[k]
         /\ blocks'[Len(blocks) + 1].bytes = bytes
         /\ SoundRegions' /\ SoundBlocks' /\ SoundMarks'
<1> DEFINE W == Words(bytes)
           list == Append(regions, NewRegion(W))
<1>1. W \in Nat
  BY WordsEnough
<1>2. regions \in Seq(Region) /\ Len(regions) \in Nat /\ end \in 0 .. Len(regions)
  BY DEF Sound, TypeOK
<1>3. ASSUME NEW r \in 1 .. Len(regions), Found(r, W)
      PROVE  Offers(regions, r, W)
  <2>1. end <= r /\ regions[r].count + W <= regions[r].capacity
    BY <1>3 DEF Found, Fits
  <2>2. \A q \in 1 .. Len(regions) : regions[q].count <= regions[q].capacity
    BY DEF Sound, SoundRegions
  <2>3. \A q \in 1 .. Len(regions) : q > end => regions[q].count = 0
    BY DEF Sound, SoundRegions
  <2> QED
    BY <1>2, <2>1, <2>2, <2>3 DEF Offers
<1>4. Offers(list, Len(regions) + 1, W)
  <2>1. NewRegion(W) \in Region /\ NewRegion(W).count = 0 /\ W <= NewRegion(W).capacity
    BY <1>1, Positive DEF NewRegion, Region
  <2>2. /\ list \in Seq(Region) /\ Len(list) = Len(regions) + 1
        /\ \A q \in 1 .. Len(regions) : list[q] = regions[q]
        /\ list[Len(regions) + 1] = NewRegion(W)
    BY <1>2, <2>1, Appended
  <2>3. ASSUME NEW q \in 1 .. Len(list)
        PROVE  list[q].count <= list[q].capacity /\ (q > end => list[q].count = 0)
    <3>1. CASE q = Len(regions) + 1
      <4>1. list[q].count = 0 /\ list[q].capacity \in Nat
        BY <1>1, <2>1, <2>2, <3>1 DEF Region
      <4> QED
        BY <4>1
    <3>2. CASE q \in 1 .. Len(regions)
      <4>1. regions[q].count <= regions[q].capacity /\ (q > end => regions[q].count = 0)
        BY <3>2 DEF Sound, SoundRegions
      <4> QED
        BY <2>2, <3>2, <4>1
    <3> QED
      BY <1>2, <2>2, <3>1, <3>2
  <2>4. \A q \in 1 .. Len(list) : list[q].count <= list[q].capacity
    BY <2>3
  <2>5. \A q \in 1 .. Len(list) : q > end => list[q].count = 0
    BY <2>3
  <2>6. list[Len(regions) + 1].count + W <= list[Len(regions) + 1].capacity
    BY <1>1, <2>1, <2>2 DEF Region
  <2> HIDE DEF list
  <2> QED
    BY <1>2, <2>2, <2>4, <2>5, <2>6 DEF Offers
<1>5. CASE \E r \in 1 .. Len(regions) : Found(r, W) /\ Take(regions, r, bytes)
  BY <1>3, <1>5, TakeKeeps
<1>6. CASE Take(list, Len(regions) + 1, bytes)
  BY <1>4, <1>6, TakeKeeps
<1> QED
  BY <1>5, <1>6 DEF Given

-----------------------------------------------------------------------------
(* Giving up.                                                               *)

LEMMA ABlock ==
  ASSUME NEW B \in Seq(Block), NEW k \in 1 .. Len(B)
  PROVE  /\ B[k] \in Block /\ B[k].region \in Nat /\ B[k].offset \in Nat
         /\ B[k].size \in Nat /\ B[k].bytes \in Nat
<1>1. B[k] \in Block
  BY Element
<1> QED
  BY <1>1 DEF Block

\* What must be left in the arena for the blocks and the marks that are kept.
LEMMA GiveUpKeeps ==
  ASSUME Sound, ArrayFits, NEW h \in 0 .. Len(blocks), NEW l \in 0 .. Len(marks),
         GiveUp(h, l),
         regions' \in Seq(Region), end' \in 0 .. Len(regions'), SoundRegions',
         \A k \in 1 .. h : /\ blocks[k].region \in 1 .. end'
                          /\ blocks[k].offset + blocks[k].size
                               <= regions'[blocks[k].region].count,
         \A i \in 1 .. l : marks[i].region \in 0 .. end' /\ marks[i].height <= h,
         \A i \in 1 .. l : marks[i].region # NULL =>
                            marks[i].count <= regions'[marks[i].region].count
  PROVE  IInv'
<1>1. /\ blocks \in Seq(Block) /\ marks \in Seq(Mark) /\ status \in {"ok", "aborted"}
      /\ da \in [items : Nat, count : Nat, capacity : Nat]
      /\ Len(blocks) \in Nat /\ Len(marks) \in Nat
  BY DEF Sound, TypeOK
<1>2. /\ blocks' \in Seq(Block) /\ Len(blocks') = h
      /\ \A k \in 1 .. h : blocks'[k] = blocks[k]
  BY <1>1, Shortened DEF GiveUp
<1>3. /\ marks' \in Seq(Mark) /\ Len(marks') = l
      /\ \A i \in 1 .. l : marks'[i] = marks[i]
  BY <1>1, Shortened DEF GiveUp
<1>4. /\ da' \in [items : Nat, count : Nat, capacity : Nat]
      /\ status' \in {"ok", "aborted"}
  BY <1>1 DEF GiveUp, EmptyDa, NULL
<1>5. TypeOK'
  BY <1>2, <1>3, <1>4 DEF TypeOK
<1>6. \A k \in 1 .. h : k \in 1 .. Len(blocks)
  BY <1>1
<1>7. \A i \in 1 .. l : i \in 1 .. Len(marks)
  BY <1>1
<1>8. SoundBlocks'
  <2>1. \A k \in 1 .. h : InArena(blocks[k])'
    <3> SUFFICES ASSUME NEW k \in 1 .. h PROVE InArena(blocks[k])'
      OBVIOUS
    <3>1. blocks[k].bytes <= blocks[k].size * WORD
      BY <1>6 DEF Sound, SoundBlocks, InArena
    <3> QED
      BY <1>2, <3>1 DEF InArena
  <2>2. \A j, k \in 1 .. h : j < k => IsBefore(blocks'[j], blocks'[k])
    <3> SUFFICES ASSUME NEW j \in 1 .. h, NEW k \in 1 .. h, j < k
                 PROVE  IsBefore(blocks'[j], blocks'[k])
      OBVIOUS
    <3>1. IsBefore(blocks[j], blocks[k])
      BY <1>6 DEF Sound, SoundBlocks
    <3> QED
      BY <1>2, <3>1
  <2> QED
    BY <1>2, <2>1, <2>2 DEF SoundBlocks
<1>9. SoundMarks'
  <2>1. \A i \in 1 .. l : InReach(marks[i])'
    <3> SUFFICES ASSUME NEW i \in 1 .. l PROVE InReach(marks[i])'
      OBVIOUS
    <3>1. marks[i].region = NULL => marks[i].height = 0 /\ marks[i].count = 0
      BY <1>7 DEF Sound, SoundMarks, InReach
    <3>2. /\ marks[i].region \in 0 .. end' /\ marks[i].height <= h
          /\ marks[i].region # NULL =>
               marks[i].count <= regions'[marks[i].region].count
      OBVIOUS
    <3>3. marks'[i] = marks[i] /\ Len(blocks') = h
      BY <1>2, <1>3
    <3> QED
      BY <3>1, <3>2, <3>3 DEF InReach
  <2>2. \A i \in 1 .. l : \A k \in 1 .. h :
          IF k <= marks'[i].height THEN IsBelow(blocks'[k], marks'[i])
                                   ELSE IsAbove(blocks'[k], marks'[i])
    <3> SUFFICES ASSUME NEW i \in 1 .. l, NEW k \in 1 .. h
                 PROVE  IF k <= marks[i].height THEN IsBelow(blocks[k], marks[i])
                                                ELSE IsAbove(blocks[k], marks[i])
      BY <1>2, <1>3
    <3> QED
      BY <1>6, <1>7 DEF Sound, SoundMarks
  <2>3. \A i, j \in 1 .. l : i < j => IsOlder(marks'[i], marks'[j])
    <3> SUFFICES ASSUME NEW i \in 1 .. l, NEW j \in 1 .. l, i < j
                 PROVE  IsOlder(marks[i], marks[j])
      BY <1>3
    <3> QED
      BY <1>7 DEF Sound, SoundMarks
  <2> QED
    BY <1>2, <1>3, <2>1, <2>2, <2>3 DEF SoundMarks
<1>10. ArrayFits'
  <2>1. CASE da.items > h
    <3>1. da' = EmptyDa
      BY <2>1 DEF GiveUp
    <3> QED
      BY <3>1 DEF ArrayFits, EmptyDa
  <2>2. CASE ~ da.items > h
    <3>1. da' = da
      BY <2>2 DEF GiveUp
    <3>2. /\ da.count <= da.capacity
          /\ da.capacity > 0 => /\ da.items \in 1 .. Len(blocks)
                                /\ da.capacity * ITEM <= blocks[da.items].bytes
      BY DEF ArrayFits
    <3>3. ASSUME da.capacity > 0
          PROVE  da.items \in 1 .. h /\ da.capacity * ITEM <= blocks'[da.items].bytes
      <4>1. da.items \in 1 .. h
        BY <1>1, <2>2, <3>2, <3>3
      <4> QED
        BY <1>2, <3>2, <3>3, <4>1
    <3> QED
      BY <1>2, <3>1, <3>2, <3>3 DEF ArrayFits
  <2> QED
    BY <2>1, <2>2
<1> QED
  BY <1>5, <1>8, <1>9, <1>10 DEF IInv

-----------------------------------------------------------------------------
(* The operations.                                                          *)

LEMMA InitSound == Init => IInv
BY DEF Init, IInv, TypeOK, SoundRegions, SoundBlocks, SoundMarks, ArrayFits, EmptyDa, NULL

\* the steps that change neither the arena nor what was given out
LEMMA QuietKeeps ==
  ASSUME IInv, UNCHANGED <<regions, end, blocks, marks>>, status' \in {"ok", "aborted"},
         da' \in [items : Nat, count : Nat, capacity : Nat], ArrayFits'
  PROVE  IInv'
BY DEF IInv, TypeOK, SoundRegions, SoundBlocks, SoundMarks, InArena, InReach

LEMMA RefusedKeeps ==
  ASSUME IInv, NEW bytes, Refused(bytes)
  PROVE  IInv'
<1>1. ArrayFits' /\ da' \in [items : Nat, count : Nat, capacity : Nat]
  BY DEF Refused, IInv, ArrayFits, TypeOK
<1> QED
  BY <1>1, QuietKeeps DEF Refused, arena

LEMMA GivenTypes ==
  ASSUME IInv, NEW bytes \in Nat, Given(bytes), UNCHANGED <<marks, status>>,
         da' \in [items : Nat, count : Nat, capacity : Nat], ArrayFits'
  PROVE  IInv'
<1>1. Sound
  BY DEF IInv, Sound
<1>2. /\ regions' \in Seq(Region) /\ end' \in 1 .. Len(regions') /\ blocks' \in Seq(Block)
      /\ SoundRegions' /\ SoundBlocks' /\ SoundMarks'
  BY <1>1, GivenKeeps
<1>3. end' \in 0 .. Len(regions')
  BY <1>2
<1> QED
  BY <1>2, <1>3 DEF IInv, TypeOK

LEMMA AllocKeeps ==
  ASSUME IInv, NEW bytes \in Nat, Given(bytes), UNCHANGED <<marks, da, status>>
  PROVE  IInv'
<1>1. Sound /\ Len(blocks) \in Nat
  BY DEF IInv, Sound, TypeOK
<1>2. Len(blocks') = Len(blocks) + 1 /\ \A k \in 1 .. Len(blocks) : blocks'[k] = blocks[k]
  BY <1>1, GivenKeeps
<1>3. ArrayFits'
  <2>1. da.capacity > 0 => /\ da.items \in 1 .. Len(blocks)
                           /\ da.capacity * ITEM <= blocks[da.items].bytes
    BY DEF IInv, ArrayFits
  <2>2. ASSUME da.capacity > 0
        PROVE  /\ da.items \in 1 .. Len(blocks')
               /\ da.capacity * ITEM <= blocks'[da.items].bytes
    BY <1>1, <1>2, <2>1, <2>2
  <2>3. da.count <= da.capacity /\ da' = da
    BY DEF IInv, ArrayFits
  <2> QED
    BY <2>2, <2>3 DEF ArrayFits
<1>4. da' \in [items : Nat, count : Nat, capacity : Nat]
  BY DEF IInv, TypeOK
<1> QED
  BY <1>3, <1>4, GivenTypes

LEMMA AppendKeeps ==
  ASSUME IInv, NEW n \in Piece, AppendInPlace(n) \/ AppendGrows(n)
  PROVE  IInv'
<1>1. /\ da \in [items : Nat, count : Nat, capacity : Nat] /\ n \in Nat
      /\ status \in {"ok", "aborted"} /\ Len(blocks) \in Nat
  BY Positive DEF IInv, TypeOK
<1>2. CASE AppendInPlace(n)
  <2>1. /\ da' = [da EXCEPT !.count = @ + n] /\ da.count + n <= da.capacity
        /\ UNCHANGED <<regions, end, blocks, marks, status>>
    BY <1>2 DEF AppendInPlace, arena
  <2>2. /\ da'.items = da.items /\ da'.capacity = da.capacity
        /\ da'.count = da.count + n
    BY <1>1, <2>1
  <2>3. ArrayFits'
    BY <2>1, <2>2 DEF IInv, ArrayFits
  <2> QED
    BY <1>1, <2>1, <2>3, QuietKeeps
<1>3. CASE AppendGrows(n)
  <2>1. PICK new \in Doubled(da.capacity, da.count + n) :
          \/ /\ Given(new * ITEM)
             /\ da' = [items |-> Len(blocks) + 1, count |-> da.count + n, capacity |-> new]
             /\ UNCHANGED <<marks, status>>
          \/ Refused(new * ITEM)
    BY <1>3 DEF AppendGrows
  <2>2. new \in Nat /\ da.count + n <= new
    BY <1>1, Positive DEF Doubled
  <2>3. new * ITEM \in Nat
    BY <2>2, Positive
  <2>4. CASE Refused(new * ITEM)
    BY <2>4, RefusedKeeps
  <2>5. CASE /\ Given(new * ITEM)
             /\ da' = [items |-> Len(blocks) + 1, count |-> da.count + n, capacity |-> new]
             /\ UNCHANGED <<marks, status>>
    <3>1. /\ Len(blocks') = Len(blocks) + 1
          /\ blocks'[Len(blocks) + 1].bytes = new * ITEM
      BY <2>3, <2>5, GivenKeeps DEF IInv, Sound
    <3>2. da' \in [items : Nat, count : Nat, capacity : Nat]
      BY <1>1, <2>2, <2>5
    <3>3. ArrayFits'
      <4>1. new * ITEM <= blocks'[Len(blocks) + 1].bytes
        BY <2>3, <3>1
      <4>2. Len(blocks) + 1 \in 1 .. Len(blocks')
        BY <1>1, <3>1
      <4> QED
        BY <2>2, <2>5, <4>1, <4>2 DEF ArrayFits
    <3> QED
      BY <2>3, <2>5, <3>2, <3>3, GivenTypes
  <2> QED
    BY <2>1, <2>4, <2>5
<1> QED
  BY <1>2, <1>3

LEMMA SnapshotKeeps ==
  ASSUME IInv, Snapshot
  PROVE  IInv'
<1> DEFINE count == IF end = NULL THEN 0 ELSE regions[end].count
           m == [region |-> end, count |-> count, height |-> Len(blocks)]
           l == Len(marks)
<1>1. /\ regions \in Seq(Region) /\ end \in 0 .. Len(regions) /\ end \in Nat
      /\ blocks \in Seq(Block) /\ marks \in Seq(Mark)
      /\ Len(blocks) \in Nat /\ l \in Nat
  BY DEF IInv, TypeOK
<1>2. count \in Nat /\ (end # NULL => count = regions[end].count)
  <2>1. CASE end = NULL
    BY <2>1
  <2>2. CASE end # NULL
    <3>1. end \in 1 .. Len(regions)
      BY <1>1, <2>2 DEF NULL
    <3>2. regions[end].count \in Nat
      BY <1>1, <3>1, ARegion
    <3> QED
      BY <2>2, <3>2
  <2> QED
    BY <2>1, <2>2
<1>3. m \in Mark
  BY <1>1, <1>2 DEF Mark
<1>4. /\ marks' \in Seq(Mark) /\ Len(marks') = l + 1
      /\ \A i \in 1 .. l : marks'[i] = marks[i]
      /\ marks'[l + 1] = m
  <2>1. marks' = Append(marks, m)
    BY DEF Snapshot
  <2> HIDE DEF m
  <2> QED BY <1>1, <1>3, <2>1, Appended
<1>5. UNCHANGED <<regions, end, blocks, da, status>>
  BY DEF Snapshot, arena
<1>6. \A k \in 1 .. Len(blocks) : IsBelow(blocks[k], m) /\ end # NULL
  <2> SUFFICES ASSUME NEW k \in 1 .. Len(blocks)
               PROVE  IsBelow(blocks[k], m) /\ end # NULL
    OBVIOUS
  <2>1. /\ blocks[k].region \in 1 .. end
        /\ blocks[k].offset + blocks[k].size <= regions[blocks[k].region].count
    BY DEF IInv, SoundBlocks, InArena
  <2>2. end # NULL
    BY <1>1, <2>1 DEF NULL
  <2>3. blocks[k].region < end \/ (blocks[k].region = end
                                  /\ blocks[k].offset + blocks[k].size <= count)
    <3> HIDE DEF count
    <3> QED BY <1>1, <1>2, <2>1, <2>2
  <2> QED
    BY <2>2, <2>3 DEF IsBelow
<1>7. end = NULL => Len(blocks) = 0
  BY <1>1, <1>6
<1>8. \A i \in 1 .. l : IsOlder(marks[i], m)
  <2> SUFFICES ASSUME NEW i \in 1 .. l PROVE IsOlder(marks[i], m)
    OBVIOUS
  <2>1. /\ marks[i].region \in Nat /\ marks[i].region <= end /\ marks[i].height <= Len(blocks)
        /\ marks[i].region = NULL => marks[i].count = 0
        /\ marks[i].region # NULL => marks[i].count <= regions[marks[i].region].count
    <3>1. InReach(marks[i])
      BY DEF IInv, SoundMarks
    <3> QED
      BY <1>1, <3>1 DEF InReach
  <2>2. marks[i].region < end \/ (marks[i].region = end /\ marks[i].count <= count)
    <3>1. CASE marks[i].region = end /\ end = NULL
      <4>1. marks[i].count <= 0
        BY <2>1, <3>1
      <4> QED
        BY <3>1, <4>1
    <3>2. CASE marks[i].region = end /\ end # NULL
      BY <1>2, <2>1, <3>2
    <3>3. CASE marks[i].region # end
      BY <1>1, <2>1, <3>3
    <3> QED
      BY <3>1, <3>2, <3>3
  <2> QED
    BY <2>1, <2>2 DEF IsOlder
<1>9. SoundMarks'
  <2>1. \A i \in 1 .. l + 1 : InReach(marks[i])'
    <3> SUFFICES ASSUME NEW i \in 1 .. l + 1 PROVE InReach(marks[i])'
      OBVIOUS
    <3>1. CASE i = l + 1
      <4>1. /\ m.region \in 0 .. end /\ m.height <= Len(blocks)
            /\ m.region = NULL => m.height = 0 /\ m.count = 0
            /\ m.region # NULL => m.count <= regions[m.region].count
        BY <1>1, <1>2, <1>7
      <4>2. marks'[i] = m
        BY <1>4, <3>1
      <4> HIDE DEF m
      <4> QED BY <1>5, <4>1, <4>2 DEF InReach
    <3>2. CASE i \in 1 .. l
      <4>1. InReach(marks[i]) /\ marks'[i] = marks[i]
        BY <1>4, <3>2 DEF IInv, SoundMarks
      <4> QED
        BY <1>5, <4>1 DEF InReach
    <3> QED
      BY <1>1, <3>1, <3>2
  <2>2. ASSUME NEW i \in 1 .. l + 1, NEW k \in 1 .. Len(blocks)
        PROVE  IF k <= marks'[i].height THEN IsBelow(blocks[k], marks'[i])
                                        ELSE IsAbove(blocks[k], marks'[i])
    <3>1. CASE i = l + 1
      BY <1>1, <1>4, <1>6, <3>1
    <3>2. CASE i \in 1 .. l
      BY <1>4, <3>2 DEF IInv, SoundMarks
    <3> QED
      BY <1>1, <3>1, <3>2
  <2>3. ASSUME NEW i \in 1 .. l + 1, NEW j \in 1 .. l + 1, i < j
        PROVE  IsOlder(marks'[i], marks'[j])
    <3>1. i \in 1 .. l
      BY <1>1, <2>3
    <3>2. CASE j = l + 1
      BY <1>4, <1>8, <3>1, <3>2
    <3>3. CASE j \in 1 .. l
      <4>1. IsOlder(marks[i], marks[j])
        BY <2>3, <3>1, <3>3 DEF IInv, SoundMarks
      <4> QED
        BY <1>4, <3>1, <3>3, <4>1
    <3> QED
      BY <1>1, <3>2, <3>3
  <2> HIDE DEF m
  <2> QED
    BY <1>4, <1>5, <2>1, <2>2, <2>3 DEF SoundMarks
<1>10. TypeOK' /\ SoundRegions' /\ SoundBlocks' /\ ArrayFits'
  BY <1>4, <1>5 DEF IInv, TypeOK, SoundRegions, SoundBlocks, InArena, ArrayFits
<1> QED
  BY <1>9, <1>10 DEF IInv

\* Emptying every region, or giving all of them back, takes nothing away from
\* a caller that has given up all its blocks and every mark of a region.
LEMMA EmptyKeeps ==
  ASSUME IInv, NEW l \in 0 .. Len(marks), GiveUp(0, l),
         regions' \in Seq(Region), end' \in 0 .. Len(regions'),
         end' = NULL => regions' = <<>>,
         \A r \in 1 .. Len(regions') : regions'[r].count = 0,
         \A i \in 1 .. l : marks[i].region = NULL
  PROVE  IInv'
<1>1. Sound /\ ArrayFits
  BY DEF IInv, Sound
<1>2. SoundRegions'
  <2>1. \A r \in 1 .. Len(regions') : regions'[r].count <= regions'[r].capacity
    <3> SUFFICES ASSUME NEW r \in 1 .. Len(regions')
                 PROVE  regions'[r].count <= regions'[r].capacity
      OBVIOUS
    <3>1. regions'[r].count = 0 /\ regions'[r].capacity \in Nat
      BY ARegion
    <3> QED
      BY <3>1
  <2> QED
    BY <2>1 DEF SoundRegions
<1>3. \A i \in 1 .. l : marks[i].region \in 0 .. end' /\ marks[i].height <= 0
  <2> SUFFICES ASSUME NEW i \in 1 .. l
               PROVE  marks[i].region \in 0 .. end' /\ marks[i].height <= 0
    OBVIOUS
  <2>1. i \in 1 .. Len(marks)
    BY DEF IInv, TypeOK
  <2>2. marks[i].region = NULL /\ marks[i].height = 0
    BY <2>1 DEF IInv, SoundMarks, InReach
  <2> QED
    BY <2>2 DEF NULL
<1>4. \A i \in 1 .. l : marks[i].region # NULL =>
                          marks[i].count <= regions'[marks[i].region].count
  OBVIOUS
<1>5. 0 \in 0 .. Len(blocks)
  BY DEF IInv, TypeOK
<1> QED
  BY <1>1, <1>2, <1>3, <1>4, <1>5, GiveUpKeeps

LEMMA ToBeginEmpties ==
  ASSUME IInv, ToBegin
  PROVE  /\ regions' \in Seq(Region) /\ end' \in 0 .. Len(regions')
         /\ end' = NULL => regions' = <<>>
         /\ \A r \in 1 .. Len(regions') : regions'[r].count = 0
<1>1. regions \in Seq(Region) /\ Len(regions) \in Nat /\ DOMAIN regions = 1 .. Len(regions)
  BY DEF IInv, TypeOK
<1>2. regions' = [r \in 1 .. Len(regions) |-> Empty(regions[r])]
  BY <1>1 DEF ToBegin
<1>3. \A r \in 1 .. Len(regions) : Empty(regions[r]) \in Region /\ Empty(regions[r]).count = 0
  <2> SUFFICES ASSUME NEW r \in 1 .. Len(regions)
               PROVE  Empty(regions[r]) \in Region /\ Empty(regions[r]).count = 0
    OBVIOUS
  <2>1. regions[r] \in Region
    BY <1>1, ARegion
  <2> QED
    BY <2>1 DEF Empty, Region
<1>4. regions' \in Seq(Region) /\ Len(regions') = Len(regions)
  BY <1>1, <1>2, <1>3
<1>5. \A r \in 1 .. Len(regions') : regions'[r].count = 0
  BY <1>2, <1>3, <1>4
<1>6. CASE regions = <<>>
  <2>1. end' = NULL /\ Len(regions) = 0
    BY <1>6 DEF ToBegin
  <2>2. regions' = <<>>
    BY <1>4, <2>1
  <2> QED
    BY <1>4, <1>5, <2>1, <2>2 DEF NULL
<1>7. CASE regions # <<>>
  <2>1. end' = 1 /\ Len(regions) >= 1
    BY <1>1, <1>7 DEF ToBegin
  <2> QED
    BY <1>4, <1>5, <2>1 DEF NULL
<1> QED
  BY <1>6, <1>7

LEMMA ResetKeeps ==
  ASSUME IInv, Reset
  PROVE  IInv'
<1>1. ToBegin /\ GiveUp(0, 0) /\ 0 \in 0 .. Len(marks)
  BY DEF Reset, IInv, TypeOK
<1> QED
  BY <1>1, ToBeginEmpties, EmptyKeeps

LEMMA FreeKeeps ==
  ASSUME IInv, Free
  PROVE  IInv'
<1>1. /\ GiveUp(0, 0) /\ 0 \in 0 .. Len(marks) /\ regions' = <<>> /\ end' = NULL
  BY DEF Free, IInv, TypeOK
<1>2. regions' \in Seq(Region) /\ Len(regions') = 0 /\ end' \in 0 .. Len(regions')
  BY <1>1 DEF NULL
<1> QED
  BY <1>1, <1>2, EmptyKeeps

LEMMA TrimKeeps ==
  ASSUME IInv, Trim
  PROVE  IInv'
<1>1. /\ regions \in Seq(Region) /\ end \in 0 .. Len(regions) /\ end # NULL
      /\ regions' = SubSeq(regions, 1, end)
      /\ UNCHANGED <<end, blocks, marks, da, status>>
  BY DEF Trim, IInv, TypeOK
<1>2. /\ regions' \in Seq(Region) /\ Len(regions') = end /\ end \in Nat
      /\ \A r \in 1 .. end : regions'[r] = regions[r] /\ r \in 1 .. Len(regions)
  BY <1>1, Shortened
<1>3. TypeOK'
  BY <1>1, <1>2 DEF IInv, TypeOK
<1>4. SoundRegions'
  <2>1. \A r \in 1 .. end : regions'[r].count <= regions'[r].capacity
    BY <1>2 DEF IInv, SoundRegions
  <2>2. \A r \in 1 .. end : ~ r > end
    BY <1>2
  <2> QED
    BY <1>1, <1>2, <2>1, <2>2 DEF SoundRegions
<1>5. SoundBlocks'
  BY <1>1, <1>2 DEF IInv, SoundBlocks, InArena
<1>6. SoundMarks'
  <2>1. \A i \in 1 .. Len(marks) : InReach(marks[i])'
    <3> SUFFICES ASSUME NEW i \in 1 .. Len(marks) PROVE InReach(marks[i])'
      OBVIOUS
    <3>1. InReach(marks[i]) /\ marks'[i] = marks[i]
      BY <1>1 DEF IInv, SoundMarks
    <3>2. marks[i].region # NULL => regions'[marks[i].region] = regions[marks[i].region]
      BY <1>2, <3>1 DEF InReach, NULL
    <3> QED
      BY <1>1, <3>1, <3>2 DEF InReach
  <2> QED
    BY <1>1, <2>1 DEF IInv, SoundMarks
<1> QED
  BY <1>1, <1>3, <1>4, <1>5, <1>6 DEF IInv, ArrayFits

LEMMA RewindKeeps ==
  ASSUME IInv, NEW i \in 1 .. Len(marks), Rewind(i)
  PROVE  IInv'
<1> DEFINE m == marks[i]
<1>1. /\ regions \in Seq(Region) /\ end \in 0 .. Len(regions) /\ end \in Nat
      /\ blocks \in Seq(Block) /\ marks \in Seq(Mark)
      /\ Len(regions) \in Nat /\ Len(blocks) \in Nat /\ Len(marks) \in Nat
  BY DEF IInv, TypeOK
<1>2. i \in 0 .. Len(marks) /\ \A j \in 1 .. i : j \in 1 .. Len(marks)
  BY <1>1
<1>3. m \in Mark /\ m.region \in Nat /\ m.count \in Nat /\ m.height \in Nat
  BY <1>1, AMark
<1>4. InReach(m)
  BY DEF IInv, SoundMarks
<1>5. \A j \in 1 .. i : /\ marks[j].region \in Nat /\ marks[j].region <= m.region
                        /\ marks[j].height <= m.height
                        /\ marks[j].region = m.region => marks[j].count <= m.count
  <2> SUFFICES ASSUME NEW j \in 1 .. i
               PROVE  /\ marks[j].region \in Nat /\ marks[j].region <= m.region
                      /\ marks[j].height <= m.height
                      /\ marks[j].region = m.region => marks[j].count <= m.count
    OBVIOUS
  <2>1. j \in 1 .. Len(marks) /\ marks[j].region \in Nat
    BY <1>1, <1>2, AMark
  <2>2. CASE j = i
    BY <1>3, <2>1, <2>2
  <2>3. CASE j < i
    <3>1. IsOlder(marks[j], m)
      BY <2>1, <2>3 DEF IInv, SoundMarks
    <3> HIDE DEF m
    <3> QED BY <1>3, <2>1, <3>1 DEF IsOlder
  <2> QED
    BY <2>2, <2>3
<1>6. CASE m.region = NULL
  <2>1. ToBegin /\ GiveUp(m.height, i)
    BY <1>6 DEF Rewind
  <2>2. m.height = 0
    BY <1>4, <1>6 DEF InReach
  <2>3. \A j \in 1 .. i : marks[j].region = NULL
    <3> HIDE DEF m
    <3> QED BY <1>5, <1>6 DEF NULL
  <2>4. GiveUp(0, i)
    BY <2>1, <2>2
  <2> QED
    BY <1>2, <2>1, <2>3, <2>4, ToBeginEmpties, EmptyKeeps
<1>7. CASE m.region # NULL
  <2> DEFINE t == [count |-> m.count, capacity |-> regions[m.region].capacity]
  <2>1. ToMark(m) /\ GiveUp(m.height, i)
    BY <1>7 DEF Rewind
  <2>2. /\ m.region \in 1 .. Len(regions) /\ m.region \in 1 .. end
        /\ m.count <= regions[m.region].count /\ m.height \in 0 .. Len(blocks)
    BY <1>1, <1>3, <1>4, <1>7 DEF InReach, NULL
  <2>3. /\ regions[m.region] = [count |-> regions[m.region].count,
                                capacity |-> regions[m.region].capacity]
        /\ regions[m.region].count \in Nat /\ regions[m.region].capacity \in Nat
    BY <1>1, <2>2, ARegion
  <2>4. [regions[m.region] EXCEPT !.count = m.count] = t /\ t \in Region
    <3> HIDE DEF m
    <3> QED BY <1>3, <2>3 DEF Region
  <2>5. /\ regions' = [r \in 1 .. Len(regions) |->
                         IF r < m.region THEN regions[r]
                         ELSE IF r = m.region THEN t ELSE Empty(regions[r])]
        /\ end' = m.region
    BY <1>1, <2>1, <2>4 DEF ToMark
  <2>6. \A r \in 1 .. Len(regions) :
          /\ regions[r] \in Region /\ Empty(regions[r]) \in Region
          /\ Empty(regions[r]).count = 0
    <3> SUFFICES ASSUME NEW r \in 1 .. Len(regions)
                 PROVE  /\ regions[r] \in Region /\ Empty(regions[r]) \in Region
                        /\ Empty(regions[r]).count = 0
      OBVIOUS
    <3>1. regions[r] \in Region
      BY <1>1, ARegion
    <3> QED
      BY <3>1 DEF Empty, Region
  <2>7. /\ regions' \in Seq(Region) /\ Len(regions') = Len(regions)
        /\ \A r \in 1 .. Len(regions) :
             regions'[r] = IF r < m.region THEN regions[r]
                           ELSE IF r = m.region THEN t ELSE Empty(regions[r])
    <3> HIDE DEF m, t
    <3> QED BY <1>1, <2>4, <2>5, <2>6
  <2>8. SoundRegions'
    <3>1. \A r \in 1 .. Len(regions') : regions'[r].count <= regions'[r].capacity
      <4> SUFFICES ASSUME NEW r \in 1 .. Len(regions)
                   PROVE  regions'[r].count <= regions'[r].capacity
        BY <2>7
      <4>1. regions[r].count <= regions[r].capacity
        BY DEF IInv, SoundRegions
      <4>2. CASE r < m.region
        BY <2>7, <4>1, <4>2
      <4>3. CASE r = m.region
        <5>1. t.count <= t.capacity
          <6> HIDE DEF m
          <6> QED BY <1>3, <2>2, <2>3, <4>1, <4>3
        <5> HIDE DEF t
        <5> QED BY <2>7, <4>3, <5>1
      <4>4. CASE r > m.region
        <5>1. regions'[r] = Empty(regions[r])
          BY <1>3, <2>7, <4>4
        <5>2. Empty(regions[r]).count = 0 /\ Empty(regions[r]).capacity \in Nat
          BY <2>6 DEF Region
        <5> QED
          BY <5>1, <5>2
      <4> QED
        BY <1>3, <4>2, <4>3, <4>4
    <3>2. \A r \in 1 .. Len(regions') : r > end' => regions'[r].count = 0
      <4> HIDE DEF m, t
      <4> QED BY <1>3, <2>5, <2>6, <2>7
    <3>3. end' # NULL
      BY <1>7, <2>5
    <3> QED
      BY <3>1, <3>2, <3>3 DEF SoundRegions
  <2>9. \A k \in 1 .. m.height : /\ blocks[k].region \in 1 .. end'
                                /\ blocks[k].offset + blocks[k].size
                                     <= regions'[blocks[k].region].count
    <3> SUFFICES ASSUME NEW k \in 1 .. m.height
                 PROVE  /\ blocks[k].region \in 1 .. end'
                        /\ blocks[k].offset + blocks[k].size
                             <= regions'[blocks[k].region].count
      OBVIOUS
    <3> DEFINE b == blocks[k]
    <3>1. k \in 1 .. Len(blocks) /\ k <= m.height
      <4> HIDE DEF m
      <4> QED BY <1>1, <1>3, <2>2
    <3>2. b.region \in Nat /\ b.offset \in Nat /\ b.size \in Nat
      BY <1>1, <3>1, ABlock
    <3>3. b.region \in 1 .. end /\ b.offset + b.size <= regions[b.region].count
      BY <3>1 DEF IInv, SoundBlocks, InArena
    <3>4. b.region < m.region \/ (b.region = m.region /\ b.offset + b.size <= m.count)
      <4>1. IsBelow(b, m)
        BY <3>1 DEF IInv, SoundMarks
      <4> QED
        BY <4>1 DEF IsBelow
    <3>5. b.region \in 1 .. m.region /\ b.region \in 1 .. Len(regions)
      <4> HIDE DEF b, m
      <4> QED BY <1>1, <1>3, <2>2, <3>2, <3>3, <3>4
    <3>6. CASE b.region < m.region
      <4>1. regions'[b.region] = regions[b.region]
        BY <2>7, <3>5, <3>6
      <4> QED
        BY <2>5, <3>3, <3>5, <4>1
    <3>7. CASE b.region = m.region
      <4>1. regions'[b.region].count = m.count
        BY <1>3, <2>7, <3>5, <3>7
      <4>2. b.offset + b.size <= m.count
        <5> HIDE DEF b, m
        <5> QED BY <1>3, <3>2, <3>4, <3>7
      <4> QED
        BY <2>5, <3>5, <4>1, <4>2
    <3> QED
      BY <3>4, <3>6, <3>7
  <2>10. \A j \in 1 .. i : marks[j].region \in 0 .. end' /\ marks[j].height <= m.height
    <3> HIDE DEF m
    <3> QED BY <1>3, <1>5, <2>5
  <2>11. \A j \in 1 .. i : marks[j].region # NULL =>
                            marks[j].count <= regions'[marks[j].region].count
    <3> SUFFICES ASSUME NEW j \in 1 .. i, marks[j].region # NULL
                 PROVE  marks[j].count <= regions'[marks[j].region].count
      OBVIOUS
    <3> DEFINE n == marks[j]
    <3>1. n.region \in 1 .. m.region /\ n.region \in 1 .. Len(regions)
      <4>1. n.region \in Nat /\ n.region <= m.region
        BY <1>5
      <4> HIDE DEF m, n
      <4> QED BY <1>1, <1>3, <2>2, <4>1 DEF NULL, n
    <3>2. CASE n.region = m.region
      <4>1. n.count <= m.count
        BY <1>5, <3>2
      <4>2. regions'[n.region].count = m.count
        BY <1>3, <2>7, <3>1, <3>2
      <4> QED
        BY <4>1, <4>2
    <3>3. CASE n.region < m.region
      <4>1. regions'[n.region] = regions[n.region]
        BY <2>7, <3>1, <3>3
      <4>2. n.count <= regions[n.region].count
        BY <1>2 DEF IInv, SoundMarks, InReach
      <4> QED
        BY <4>1, <4>2
    <3> QED
      BY <1>3, <3>1, <3>2, <3>3
  <2>12. Sound /\ ArrayFits /\ end' \in 0 .. Len(regions')
    <3>1. end' \in 0 .. Len(regions')
      BY <1>3, <2>2, <2>5, <2>7
    <3> QED
      BY <3>1 DEF IInv, Sound
  <2> HIDE DEF m
  <2> QED
    BY <1>2, <2>1, <2>2, <2>7, <2>8, <2>9, <2>10, <2>11, <2>12, GiveUpKeeps
<1> QED
  BY <1>6, <1>7

-----------------------------------------------------------------------------
(* The theorems.                                                            *)

LEMMA StepSound == IInv /\ [Next]_vars => IInv'
<1> SUFFICES ASSUME IInv, [Next]_vars PROVE IInv'
  OBVIOUS
<1>1. ASSUME NEW bytes \in Request, Alloc(bytes) PROVE IInv'
  BY <1>1, AllocKeeps, RefusedKeeps, Positive DEF Alloc
<1>2. ASSUME NEW bytes \in Request, NEW k \in 1 .. Len(blocks), Realloc(k, bytes) PROVE IInv'
  BY <1>2, AllocKeeps, RefusedKeeps, Positive DEF Realloc
<1>3. ASSUME NEW n \in Piece, AppendInPlace(n) \/ AppendGrows(n) PROVE IInv'
  BY <1>3, AppendKeeps
<1>4. CASE UNCHANGED vars
  BY <1>4 DEF vars, arena, IInv, TypeOK, SoundRegions, SoundBlocks, SoundMarks,
              ArrayFits, InArena, InReach
<1> QED
  BY <1>1, <1>2, <1>3, <1>4, SnapshotKeeps, ResetKeeps, FreeKeeps, TrimKeeps, RewindKeeps
  DEF Next

LEMMA InvariantHolds == Spec => []IInv
BY InitSound, StepSound, PTL DEF Spec

\* Every region, block, mark and the array keep their types, whatever is asked
\* of the arena and in whatever order it is rewound, trimmed and freed.
THEOREM TypeCorrect == Spec => []TypeOK
<1>1. IInv => TypeOK
  BY DEF IInv
<1> QED
  BY <1>1, InvariantHolds, PTL

\* No two blocks in use share a word, whatever was skipped, rewound, trimmed
\* and filled again (arena_alloc(), arena_rewind(), arena_trim()).
THEOREM BlocksCorrect == Spec => []NoOverlap
<1>1. IInv => NoOverlap
  <2> SUFFICES ASSUME IInv PROVE NoOverlap
    OBVIOUS
  <2>1. \A j \in 1 .. Len(blocks) : blocks[j].region \in Nat
    BY ABlock DEF IInv, TypeOK
  <2>2. \A j, k \in 1 .. Len(blocks) : j < k => IsBefore(blocks[j], blocks[k])
    BY DEF IInv, SoundBlocks
  <2> QED
    BY <2>1, <2>2 DEF IsBefore, NoOverlap
<1> QED
  BY <1>1, InvariantHolds, PTL

\* Every block in use lies in memory the arena still has, and is as large as
\* was asked for, also when that is more than a region usually holds (lines
\* 301 and 313).
THEOREM RoomCorrect == Spec => []RoomForAll
<1>1. IInv => RoomForAll
  <2> SUFFICES ASSUME IInv, NEW k \in 1 .. Len(blocks)
               PROVE  /\ blocks[k].region \in 1 .. Len(regions)
                      /\ blocks[k].offset + blocks[k].size
                           <= regions[blocks[k].region].capacity
                      /\ blocks[k].bytes <= blocks[k].size * WORD
    BY DEF RoomForAll
  <2> DEFINE r == blocks[k].region
  <2>1. InArena(blocks[k]) /\ blocks[k].offset \in Nat /\ blocks[k].size \in Nat
    BY ABlock DEF IInv, SoundBlocks, TypeOK
  <2>2. end \in 0 .. Len(regions) /\ regions \in Seq(Region) /\ Len(regions) \in Nat
    BY DEF IInv, TypeOK
  <2>3. r \in 1 .. Len(regions) /\ blocks[k].offset + blocks[k].size <= regions[r].count
    BY <2>1, <2>2 DEF InArena
  <2>4. /\ regions[r].count <= regions[r].capacity
        /\ regions[r].count \in Nat /\ regions[r].capacity \in Nat
    BY <2>2, <2>3, ARegion DEF IInv, SoundRegions
  <2>5. blocks[k].offset + blocks[k].size <= regions[r].capacity
    <3> HIDE DEF r
    <3> QED BY <2>1, <2>3, <2>4
  <2> QED
    BY <2>1, <2>3, <2>5 DEF InArena
<1> QED
  BY <1>1, InvariantHolds, PTL

\* A mark that is kept stays one of a region that is there, with what is older
\* below it and what is younger above it (arena_rewind(), arena_trim()).
THEOREM MarksCorrect == Spec => []MarksAreLive
<1>1. IInv => MarksAreLive
  <2> SUFFICES ASSUME IInv, NEW i \in 1 .. Len(marks)
               PROVE  /\ marks[i].region \in 0 .. Len(regions)
                      /\ marks[i].region # NULL =>
                           marks[i].count <= regions[marks[i].region].count
                      /\ \A k \in 1 .. Len(blocks) :
                           /\ k <= marks[i].height => IsBelow(blocks[k], marks[i])
                           /\ k > marks[i].height /\ blocks[k].size > 0 =>
                                ~ IsBelow(blocks[k], marks[i])
    BY DEF MarksAreLive
  <2> DEFINE m == marks[i]
  <2>1. /\ InReach(m) /\ m.region \in Nat /\ m.count \in Nat /\ m.height \in Nat
    BY AMark DEF IInv, SoundMarks, TypeOK
  <2>2. m.region \in 0 .. Len(regions)
    BY <2>1 DEF IInv, TypeOK, InReach
  <2>3. ASSUME NEW k \in 1 .. Len(blocks), k > m.height, blocks[k].size > 0
        PROVE  ~ IsBelow(blocks[k], m)
    <3> DEFINE b == blocks[k]
    <3>1. b.region \in Nat /\ b.offset \in Nat /\ b.size \in Nat /\ b.size > 0
      BY <2>3, ABlock DEF IInv, TypeOK
    <3>2. k \in Nat
      BY DEF IInv, TypeOK
    <3>3. IsAbove(b, m)
      <4>1. ~ k <= m.height
        BY <2>1, <2>3, <3>2
      <4> QED
        BY <4>1 DEF IInv, SoundMarks
    <3>4. ~ IsBelow(b, m)
      <4> HIDE DEF b, m
      <4> QED BY <2>1, <3>1, <3>3 DEF IsAbove, IsBelow
    <3> QED
      BY <3>4
  <2>4. \A k \in 1 .. Len(blocks) : k <= m.height => IsBelow(blocks[k], m)
    BY DEF IInv, SoundMarks
  <2> QED
    BY <2>1, <2>2, <2>3, <2>4 DEF InReach
<1> QED
  BY <1>1, InvariantHolds, PTL

\* The array has room for its items in a block that is in use, however often
\* it grew and whatever was rewound (arena_da_append_many()).
THEOREM ArrayCorrect == Spec => []ArrayFits
<1>1. IInv => ArrayFits
  BY DEF IInv
<1> QED
  BY <1>1, InvariantHolds, PTL

=============================================================================
