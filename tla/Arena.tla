--------------------------------- MODULE Arena ---------------------------------
(***************************************************************************)
(* The region allocator of src/vpn/arena.h, on top of malloc(), with the   *)
(* dynamic array that grows in it.  An arena is the list of its regions;   *)
(* the one at end is allocated from, and those behind it are empty ones    *)
(* that are used again.  Counts and capacities are in words.               *)
(*                                                                         *)
(* The caller is one who keeps to what the functions leave to it: it uses  *)
(* what it was given until it gives it up, by rewinding to a mark it took  *)
(* before, and then has no later marks either.  size_t does not overflow.  *)
(* Definitions named Slip* are wrong on purpose: see HttpMessage.          *)
(***************************************************************************)
EXTENDS Integers, Sequences

CONSTANTS
  WORD,                            \* sizeof(uintptr_t)
  ARENA_REGION_DEFAULT_CAPACITY,
  ARENA_DA_INIT_CAP,
  ITEM                             \* the size of an item of the array

CONSTANTS           \* the surroundings
  Request,          \* the sizes in bytes that are asked for,
  Piece,            \* and how many items are appended at once
  Faults,           \* "malloc": it may return NULL
  MaxRegions, MaxBlocks, MaxMarks  \* bounds: of the lists below

ASSUME ArenaAssumption ==
  /\ {WORD, ITEM, ARENA_REGION_DEFAULT_CAPACITY, ARENA_DA_INIT_CAP} \subseteq Nat \ {0}
  /\ Request \subseteq Nat /\ Piece \subseteq Nat
  /\ Faults \subseteq {"malloc"}
  /\ {MaxRegions, MaxBlocks, MaxMarks} \subseteq Nat

VARIABLES
  regions,          \* [count, capacity] of each, from begin on
  end,              \* which of them is a->end; 0 for NULL
  blocks,           \* what the caller has been given, oldest first:
                    \* [region, offset, size] in words, and the bytes it has
  marks,            \* the snapshots it has, oldest first: [region, count],
                    \* and how many blocks there were (height)
  da,               \* its array: [items, count, capacity], items a block
  status            \* "ok", or "aborted" by an assertion

arena == <<regions, end>>
vars  == <<arena, blocks, marks, da, status>>

NULL    == 0
EmptyDa == [items |-> NULL, count |-> 0, capacity |-> 0]

Init ==
  /\ regions = <<>> /\ end = NULL
  /\ blocks = <<>> /\ marks = <<>>
  /\ da = EmptyDa
  /\ status = "ok"

-----------------------------------------------------------------------------
(* arena_alloc()                                                            *)

SlipWords(size_bytes) == size_bytes \div WORD
Words(size_bytes)     == (size_bytes + WORD - 1) \div WORD

Fits(r, size) == regions[r].count + size <= regions[r].capacity

\* new_region(), for as many words at least
NewRegion(size) ==
  [count    |-> 0,
   capacity |-> IF ARENA_REGION_DEFAULT_CAPACITY < size
                THEN size ELSE ARENA_REGION_DEFAULT_CAPACITY]

\* the region after the loop of line 306, of those from end on the first that
\* is large enough
Found(r, size) ==
  /\ r >= end /\ Fits(r, size)
  /\ \A q \in end .. r - 1 : ~ Fits(q, size)

NoneFits(size) == \A q \in 1 .. Len(regions) : q >= end => ~ Fits(q, size)

SlipTake(list, r, bytes) ==
  /\ regions' = [list EXCEPT ![r].count = @ + bytes \div WORD]
  /\ end' = r
  /\ blocks' = Append(blocks, [region |-> r, offset |-> list[r].count,
                               size |-> Words(bytes), bytes |-> bytes])

\* The block is taken from a region of a list, which becomes the end of it.
Take(list, r, bytes) ==
  /\ regions' = [list EXCEPT ![r].count = @ + Words(bytes)]
  /\ end' = r
  /\ blocks' = Append(blocks, [region |-> r, offset |-> list[r].count,
                               size |-> Words(bytes), bytes |-> bytes])

\* an arena_alloc() that returns
Given(bytes) ==
  /\ Len(blocks) < MaxBlocks
  /\ \/ \E r \in 1 .. Len(regions) :
          Found(r, Words(bytes)) /\ Take(regions, r, bytes)
     \/ /\ NoneFits(Words(bytes))
        /\ Len(regions) < MaxRegions
        /\ Take(Append(regions, NewRegion(Words(bytes))), Len(regions) + 1, bytes)

\* an arena_alloc() that the assertion of line 158 stops
Refused(bytes) ==
  /\ "malloc" \in Faults
  /\ NoneFits(Words(bytes))
  /\ status' = "aborted"
  /\ UNCHANGED <<arena, blocks, marks, da>>

\* arena_alloc() by the caller, or by arena_strdup(), arena_memdup() or
\* arena_sprintf()
Alloc(bytes) ==
  /\ status = "ok"
  /\ \/ Given(bytes) /\ UNCHANGED <<marks, da, status>>
     \/ Refused(bytes)

\* arena_realloc() of a block that is too small
Realloc(k, bytes) ==
  /\ status = "ok"
  /\ blocks[k].bytes < bytes
  /\ \/ Given(bytes) /\ UNCHANGED <<marks, da, status>>
     \/ Refused(bytes)

-----------------------------------------------------------------------------
(* Marks.                                                                   *)

Snapshot ==
  /\ status = "ok"
  /\ Len(marks) < MaxMarks
  /\ marks' = Append(marks, [region |-> end,
                             count  |-> IF end = NULL THEN 0 ELSE regions[end].count,
                             height |-> Len(blocks)])
  /\ UNCHANGED <<arena, blocks, da, status>>

\* The caller gives up the blocks above a height and the marks above another.
GiveUp(height, m) ==
  /\ blocks' = SubSeq(blocks, 1, height)
  /\ marks' = SubSeq(marks, 1, m)
  /\ da' = IF da.items > height THEN EmptyDa ELSE da
  /\ UNCHANGED status

Empty(r) == [r EXCEPT !.count = 0]

ToBegin ==
  /\ regions' = [r \in DOMAIN regions |-> Empty(regions[r])]
  /\ end' = IF regions = <<>> THEN NULL ELSE 1

Reset ==
  /\ status = "ok"
  /\ ToBegin
  /\ GiveUp(0, 0)

SlipToMark(m) ==
  /\ regions' = [r \in DOMAIN regions |->
                   IF r < m.region THEN regions[r]
                   ELSE IF r = m.region THEN [regions[r] EXCEPT !.count = m.count]
                   ELSE Empty(regions[r])]
  /\ end' = 1

ToMark(m) ==
  /\ regions' = [r \in DOMAIN regions |->
                   IF r < m.region THEN regions[r]
                   ELSE IF r = m.region THEN [regions[r] EXCEPT !.count = m.count]
                   ELSE Empty(regions[r])]
  /\ end' = m.region

Rewind(i) ==
  /\ status = "ok"
  /\ IF marks[i].region = NULL THEN ToBegin ELSE ToMark(marks[i])
  /\ GiveUp(marks[i].height, i)

Free ==
  /\ status = "ok"
  /\ regions' = <<>> /\ end' = NULL
  /\ GiveUp(0, 0)

\* The code reads through end: the caller must not trim an arena that has no
\* region yet.
Trim ==
  /\ status = "ok"
  /\ end # NULL
  /\ regions' = SubSeq(regions, 1, end)
  /\ UNCHANGED <<end, blocks, marks, da, status>>

-----------------------------------------------------------------------------
(* arena_da_append() and arena_da_append_many()                             *)

SlipDoubled(capacity, n) ==
  {IF capacity = 0 THEN ARENA_DA_INIT_CAP ELSE 2 * capacity}

\* what doubling makes of a capacity that is too small for n items
Doubled(capacity, n) ==
  LET start == IF capacity = 0 THEN ARENA_DA_INIT_CAP ELSE capacity
  IN  {new \in n .. (IF start < n THEN 2 * n - 1 ELSE start) :
         \E k \in 0 .. n : new = start * 2^k}

AppendInPlace(n) ==
  /\ status = "ok"
  /\ da.count + n <= da.capacity
  /\ da' = [da EXCEPT !.count = @ + n]
  /\ UNCHANGED <<arena, blocks, marks, status>>

AppendGrows(n) ==
  /\ status = "ok"
  /\ da.count + n > da.capacity
  /\ \E new_capacity \in Doubled(da.capacity, da.count + n) :
       \/ /\ Given(new_capacity * ITEM)
          /\ da' = [items |-> Len(blocks) + 1, count |-> da.count + n,
                    capacity |-> new_capacity]
          /\ UNCHANGED <<marks, status>>
       \/ Refused(new_capacity * ITEM)

Next ==
  \/ \E bytes \in Request :
       Alloc(bytes) \/ \E k \in 1 .. Len(blocks) : Realloc(k, bytes)
  \/ Snapshot \/ Reset \/ Free \/ Trim
  \/ \E i \in 1 .. Len(marks) : Rewind(i)
  \/ \E n \in Piece : AppendInPlace(n) \/ AppendGrows(n)

Spec == Init /\ [][Next]_vars

-----------------------------------------------------------------------------
Region == [count : Nat, capacity : Nat]
Block  == [region : Nat, offset : Nat, size : Nat, bytes : Nat]
Mark   == [region : Nat, count : Nat, height : Nat]

TypeOK ==
  /\ regions \in Seq(Region) /\ end \in 0 .. Len(regions)
  /\ blocks \in Seq(Block) /\ marks \in Seq(Mark)
  /\ da \in [items : Nat, count : Nat, capacity : Nat]
  /\ status \in {"ok", "aborted"}

\* No two blocks that the caller still uses share a word, through regions
\* that were skipped, emptied, freed and used again (lines 306 and 423).
NoOverlap ==
  \A j, k \in 1 .. Len(blocks) : j < k /\ blocks[j].region = blocks[k].region =>
    blocks[j].offset + blocks[j].size <= blocks[k].offset

\* Every block that the caller uses lies in a region that has not been freed,
\* within what was allocated for that region, and has as many bytes as were
\* asked for: also one that is larger than a region usually is (lines 301 and
\* 313), and after a trim.
RoomForAll ==
  \A k \in 1 .. Len(blocks) :
    LET b == blocks[k]
    IN  /\ b.region \in 1 .. Len(regions)
        /\ b.offset + b.size <= regions[b.region].capacity
        /\ b.bytes <= b.size * WORD

IsBelow(b, m) ==
  b.region < m.region \/ (b.region = m.region /\ b.offset + b.size <= m.count)

\* A mark that the caller still has is one of a region that has not been
\* freed, whatever was trimmed and rewound since; and what lies below it is
\* what was allocated before it was taken: rewinding to it takes away no
\* block that is older, and leaves none that is younger.
MarksAreLive ==
  \A i \in 1 .. Len(marks) :
    LET m == marks[i]
    IN  /\ m.region \in 0 .. Len(regions)
        /\ m.region # NULL => m.count <= regions[m.region].count
        /\ \A k \in 1 .. Len(blocks) :
             /\ k <= m.height => IsBelow(blocks[k], m)
             /\ k > m.height /\ blocks[k].size > 0 => ~ IsBelow(blocks[k], m)

\* The array has room for its items, in a block that is in use, through
\* growing, reallocating and rewinding.
ArrayFits ==
  /\ da.count <= da.capacity
  /\ da.capacity > 0 =>
       /\ da.items \in 1 .. Len(blocks)
       /\ da.capacity * ITEM <= blocks[da.items].bytes

=============================================================================
