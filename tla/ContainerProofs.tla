--------------------------- MODULE ContainerProofs ---------------------------
(***************************************************************************)
(* Theorems about the two containers.                                      *)
(*                                                                         *)
(* The dynamic array: for any capacity to start with, any number of items  *)
(* and any width of an int, up to the call that exhausts memory or the     *)
(* capacity's int.                                                         *)
(*                                                                         *)
(* The hash map: for any keys and hashes, any number of buckets to start   *)
(* with, any ratio and any limits.  A getter looks at one slot less than a *)
(* setter does; in a table of some sizes that slot is one it has looked at *)
(* already (IsSeen), and no item hides there.  In the others one may, as   *)
(* hashmap_lost_doc shows, and the theorems say nothing of them.           *)
(***************************************************************************)
EXTENDS DynamicArray, Hashmap, SequenceTheorems, FiniteSetTheorems,
        WellFoundedInduction, TLAPS

LEMMA Ints ==
  /\ STARTING_CAPACITY \in Nat /\ STARTING_CAPACITY > 0
  /\ INT_MAX \in Nat /\ MaxItems \in Nat
  /\ STARTING_CAPACITY <= INT_MAX
  /\ None \notin Value /\ Garbage \notin Value
  /\ Index \subseteq Int
BY DynamicArrayAssumption

Content == Value \cup {Garbage}

(* The fields belong together, the program has done nothing undefined and   *)
(* resources last.                                                          *)
Sound ==
  /\ capacity \in Nat /\ capacity <= INT_MAX
  /\ items \in [0 .. capacity - 1 -> Content]
  /\ size \in 0 .. capacity
  /\ \A i \in 0 .. size - 1 : items[i] \in Value
  /\ \/ state = "ok" /\ capacity > 0
     \/ state = "freed" /\ capacity = 0
  /\ exhausted = FALSE

LEMMA InitSound == Init => Sound
<1> SUFFICES ASSUME Init PROVE Sound
  OBVIOUS
<1>1. items \in [0 .. STARTING_CAPACITY - 1 -> Content]
  BY DEF Init, Block, Content
<1> QED
  BY <1>1, Ints DEF Init, Sound

(* Storing into a slot there is.                                            *)
LEMMA StoreSound ==
  ASSUME NEW n \in Nat, NEW block \in [0 .. n - 1 -> Content],
         NEW i \in 0 .. n - 1, NEW x \in Value, Store(block, i, x)
  PROVE  /\ items' = [block EXCEPT ![i] = x]
         /\ items' \in [0 .. n - 1 -> Content]
         /\ items'[i] = x
         /\ \A j \in 0 .. n - 1 : j # i => items'[j] = block[j]
         /\ state' = state
<1>1. i \in DOMAIN block
  OBVIOUS
<1>2. x \in Content
  BY DEF Content
<1> QED
  BY <1>1, <1>2 DEF Store

LEMMA PushInPlaceSound ==
  ASSUME Sound, NEW x \in Value, PushInPlace(x)
  PROVE  /\ Sound'
         /\ size' = size + 1
         /\ items' = [items EXCEPT ![size] = x]
         /\ state = "ok" /\ state' = "ok" /\ UNCHANGED <<result, exhausted>>
<1>1. /\ capacity \in Nat /\ capacity <= INT_MAX /\ size \in 0 .. capacity - 1
      /\ items \in [0 .. capacity - 1 -> Content]
      /\ capacity' = capacity /\ state = "ok" /\ capacity > 0
  BY DEF Sound, PushInPlace, IsFull, InUse
<1>2. Store(items, size, x) /\ UNCHANGED <<result, exhausted>>
  BY DEF PushInPlace, PutLast
<1>3. size' = size + 1
  BY <1>1, Ints DEF PushInPlace, PutLast, Wrap
<1>4. /\ items' \in [0 .. capacity - 1 -> Content]
      /\ items' = [items EXCEPT ![size] = x]
      /\ items'[size] = x
      /\ \A j \in 0 .. capacity - 1 : j # size => items'[j] = items[j]
      /\ state' = "ok"
  BY <1>1, <1>2, StoreSound
<1>5. ASSUME NEW j \in 0 .. size' - 1
      PROVE  items'[j] \in Value
  <2>1. CASE j = size
    BY <2>1, <1>4
  <2>2. CASE j # size
    <3>1. j \in 0 .. size - 1 /\ j \in 0 .. capacity - 1
      BY <2>2, <1>1, <1>3
    <3> QED
      BY <3>1, <2>2, <1>4 DEF Sound
  <2> QED
    BY <2>1, <2>2
<1> QED
  BY <1>1, <1>2, <1>3, <1>4, <1>5 DEF Sound

LEMMA PushGrowsSound ==
  ASSUME Sound, exhausted' # TRUE, NEW x \in Value, PushGrows(x)
  PROVE  /\ Sound'
         /\ size' = size + 1
         /\ items'[size] = x
         /\ \A j \in 0 .. size - 1 : items'[j] = items[j]
         /\ state = "ok" /\ state' = "ok" /\ UNCHANGED <<result, exhausted>>
<1> DEFINE n     == capacity * EXPAND_RATIO
           block == Realloc(n)
<1>1. /\ capacity \in Nat /\ size = capacity /\ state = "ok" /\ capacity > 0
      /\ items \in [0 .. capacity - 1 -> Content]
      /\ capacity <= INT_MAX
      /\ capacity' = Wrap(n)
      /\ exhausted' = (exhausted \/ capacity' < 0) /\ exhausted = FALSE
  BY DEF Sound, PushGrows, IsFull, InUse
<1>2. n \in Nat /\ n > capacity /\ n <= INT_MAX
  <2>1. n = 2 * capacity
    BY <1>1 DEF EXPAND_RATIO
  <2>2. n > INT_MAX => Wrap(n) < 0
    BY <2>1, <1>1, Ints DEF Wrap
  <2>3. ~ (capacity' < 0)
    BY <1>1
  <2> QED
    BY <2>1, <2>2, <2>3, <1>1, Ints
<1>3. /\ capacity' = n /\ Store(block, size, x)
      /\ UNCHANGED <<result, exhausted>>
  <2>1. capacity' = n /\ Store(block, size, x) /\ UNCHANGED result
    BY <1>2, Ints DEF PushGrows, PutLast, Wrap
  <2>2. exhausted' = FALSE
    BY <1>1
  <2> QED
    BY <2>1, <2>2, <1>1
<1>4. size' = size + 1
  BY <1>1, <1>2, Ints DEF PushGrows, PutLast, Wrap
<1>5. /\ block \in [0 .. n - 1 -> Content]
      /\ \A j \in 0 .. capacity - 1 : block[j] = items[j]
  BY <1>1, <1>2 DEF Realloc, Content
<1>6. size \in 0 .. n - 1
  BY <1>1, <1>2
<1> HIDE DEF n, block
<1>7. /\ items' \in [0 .. n - 1 -> Content]
      /\ items'[size] = x
      /\ \A j \in 0 .. n - 1 : j # size => items'[j] = block[j]
      /\ state' = "ok"
  BY <1>1, <1>2, <1>3, <1>5, <1>6, StoreSound
<1>8. \A j \in 0 .. size - 1 : items'[j] = items[j]
  BY <1>1, <1>2, <1>5, <1>7
<1>9. ASSUME NEW j \in 0 .. size' - 1
      PROVE  items'[j] \in Value
  <2>1. CASE j = size
    BY <2>1, <1>7
  <2>2. CASE j # size
    <3>1. j \in 0 .. size - 1
      BY <2>2, <1>1, <1>4
    <3> QED
      BY <3>1, <1>8 DEF Sound
  <2> QED
    BY <2>1, <2>2
<1>10. size' \in 0 .. capacity'
  BY <1>1, <1>2, <1>3, <1>4
<1> QED
  BY <1>1, <1>2, <1>3, <1>4, <1>7, <1>8, <1>9, <1>10 DEF Sound

LEMMA LoadSound ==
  ASSUME Sound, NEW i \in 0 .. size - 1, Load(i)
  PROVE  result' = items[i] /\ state' = state
BY DEF Sound, Load

LEMMA PopSound ==
  ASSUME Sound, Pop
  PROVE  /\ Sound'
         /\ state = "ok" /\ state' = "ok"
         /\ UNCHANGED <<items, capacity, exhausted>>
         /\ size = 0 => size' = 0 /\ result' = None
         /\ size # 0 => size' = size - 1 /\ result' = items[size - 1]
<1>1. size \in Nat /\ capacity \in Nat /\ size <= capacity
  BY DEF Sound
<1>2. CASE size = 0
  BY <1>2 DEF Sound, Pop, InUse
<1>3. CASE size # 0
  <2>1. size' = size - 1 /\ Load(size - 1)
    BY <1>1, <1>3 DEF Pop
  <2>2. size - 1 \in 0 .. size - 1
    BY <1>1, <1>3
  <2>3. result' = items[size - 1] /\ state' = state
    BY <2>1, <2>2, LoadSound
  <2> QED
    BY <1>1, <1>3, <2>1, <2>3 DEF Sound, Pop, InUse
<1> QED
  BY <1>2, <1>3

LEMMA SetSound ==
  ASSUME Sound, NEW x \in Value, NEW i \in Index, Set(x, i)
  PROVE  /\ Sound'
         /\ state = "ok" /\ state' = "ok"
         /\ UNCHANGED <<size, capacity, result, exhausted>>
         /\ InRange(i) => items' = [items EXCEPT ![i] = x]
         /\ ~ InRange(i) => items' = items
<1>1. /\ size \in Nat /\ capacity \in Nat /\ size <= capacity /\ i \in Int
      /\ items \in [0 .. capacity - 1 -> Content]
      /\ state = "ok" /\ UNCHANGED <<size, capacity, result, exhausted>>
  BY Ints DEF Sound, Set, InUse
<1>2. CASE InRange(i)
  <2>1. i \in 0 .. capacity - 1 /\ Store(items, i, x)
    BY <1>1, <1>2 DEF InRange, Set
  <2>2. /\ items' = [items EXCEPT ![i] = x]
        /\ items' \in [0 .. capacity - 1 -> Content]
        /\ items'[i] = x
        /\ \A j \in 0 .. capacity - 1 : j # i => items'[j] = items[j]
        /\ state' = "ok"
    BY <2>1, <1>1, StoreSound
  <2>3. ASSUME NEW j \in 0 .. size - 1 PROVE items'[j] \in Value
    <3>1. j \in 0 .. capacity - 1
      BY <1>1
    <3> QED
      BY <3>1, <2>2 DEF Sound
  <2> QED
    BY <1>1, <1>2, <2>2, <2>3 DEF Sound
<1>3. CASE ~ InRange(i)
  BY <1>1, <1>3 DEF Sound, Set
<1> QED
  BY <1>2, <1>3

LEMMA GetSound ==
  ASSUME Sound, NEW i \in Index, Get(i)
  PROVE  /\ Sound'
         /\ state = "ok" /\ state' = "ok" /\ UNCHANGED <<fields, exhausted>>
         /\ InRange(i) => result' = items[i]
         /\ ~ InRange(i) => result' = None
<1>1. size \in Nat /\ i \in Int /\ state = "ok" /\ UNCHANGED <<fields, exhausted>>
  BY Ints DEF Sound, Get, InUse
<1>2. CASE InRange(i)
  <2>1. i \in 0 .. size - 1 /\ Load(i)
    BY <1>1, <1>2 DEF InRange, Get
  <2>2. result' = items[i] /\ state' = state
    BY <2>1, LoadSound
  <2> QED
    BY <1>1, <1>2, <2>2 DEF Sound, fields
<1>3. CASE ~ InRange(i)
  BY <1>1, <1>3 DEF Sound, Get, fields
<1> QED
  BY <1>2, <1>3

LEMMA FreeSound ==
  ASSUME Sound, Free
  PROVE  /\ Sound'
         /\ state = "ok" /\ state' = "freed" /\ size' = 0
         /\ UNCHANGED <<result, exhausted>>
<1>1. items' \in [0 .. 0 - 1 -> Content]
  BY DEF Free, NULL
<1> QED
  BY <1>1, Ints DEF Sound, Free, InUse

LEMMA SizeSound ==
  ASSUME Sound, Size
  PROVE  /\ Sound' /\ result' = size
         /\ state = "ok" /\ state' = "ok" /\ UNCHANGED <<fields, exhausted>>
BY DEF Sound, Size, InUse, fields

(* Sound is inductive only as long as resources last.                       *)
LastingSound == exhausted = TRUE \/ Sound

LEMMA Exhausted == exhausted = TRUE /\ [Next]_vars => exhausted' = TRUE
<1> SUFFICES ASSUME exhausted = TRUE, [Next]_vars PROVE exhausted' = TRUE
  OBVIOUS
<1>1. ASSUME NEW x \in Value, Push(x) PROVE exhausted' = TRUE
  BY <1>1 DEF Push, PushInPlace, PushGrows, PushFails
<1>2. ASSUME NEW x \in Value, NEW i \in Index, Set(x, i) PROVE exhausted' = TRUE
  BY <1>2 DEF Set
<1>3. ASSUME NEW i \in Index, Get(i) PROVE exhausted' = TRUE
  BY <1>3 DEF Get
<1>4. CASE Pop \/ Size \/ Free \/ UNCHANGED vars
  BY <1>4 DEF Pop, Size, Free, vars
<1> QED
  BY <1>1, <1>2, <1>3, <1>4 DEF Next

LEMMA StepSound == LastingSound /\ [Next]_vars => LastingSound'
<1> SUFFICES ASSUME Sound, exhausted' # TRUE, [Next]_vars PROVE Sound'
  BY Exhausted DEF LastingSound
<1>1. CASE \E x \in Value : Push(x)
  BY <1>1, PushInPlaceSound, PushGrowsSound DEF Push, PushFails
<1>2. CASE \E x \in Value, i \in Index : Set(x, i)
  BY <1>2, SetSound
<1>3. CASE \E i \in Index : Get(i)
  BY <1>3, GetSound
<1>4. CASE Pop
  BY <1>4, PopSound
<1>5. CASE Size
  BY <1>5, SizeSound
<1>6. CASE Free
  BY <1>6, FreeSound
<1>7. CASE UNCHANGED vars
  BY <1>7 DEF vars, fields, Sound
<1> QED
  BY <1>1, <1>2, <1>3, <1>4, <1>5, <1>6, <1>7 DEF Next

LEMMA AlwaysSound == Spec => []LastingSound
<1>1. Init => LastingSound
  BY InitSound DEF LastingSound
<1> QED
  BY <1>1, StepSound, PTL DEF Spec

\* Until realloc() fails or the capacity overflows, the block has room for
\* capacity items, and the first size of them are ones that were pushed.
THEOREM SizeCorrect == Spec => []SizeIsItems
<1>1. LastingSound => SizeIsItems
  BY DEF LastingSound, Sound, SizeIsItems
<1> QED
  BY AlwaysSound, <1>1, PTL

\* Until then no call uses memory outside the block, whatever the starting
\* capacity and the width of an int.
THEOREM SafeCorrect == Spec => [](~ exhausted => MemoryIsSafe)
<1>1. LastingSound => (~ exhausted => MemoryIsSafe)
  BY DEF LastingSound, Sound, MemoryIsSafe
<1> QED
  BY AlwaysSound, <1>1, PTL

-----------------------------------------------------------------------------
(* When resources are exhausted.                                            *)

(* The capacities double until one is what ints have no room for.           *)
Doubles(caps) ==
  /\ STARTING_CAPACITY \in caps
  /\ \A c \in caps : /\ c \in Nat /\ c > 0 /\ c <= INT_MAX
                     /\ c * 2 \in caps \/ c * 2 = INT_MAX + 1

(* The array grows, has lost its block to a realloc() that failed when it   *)
(* was full, has a capacity that overflowed and the last block there is, or *)
(* has lost that one, too, when the size overflowed.                        *)
Grows(caps) == capacity \in caps /\ DOMAIN items = 0 .. capacity - 1 /\ size \in 0 .. capacity
IsLost(caps) == capacity \in caps /\ items = NULL /\ size = capacity
Overflowed == /\ capacity = - (INT_MAX + 1)
              /\ DOMAIN items = 0 .. INT_MAX
              /\ size \in 0 .. INT_MAX \/ size = capacity
LostAll == capacity = - (INT_MAX + 1) /\ items = NULL /\ size = capacity

Exhaustible(caps) ==
  /\ state = "ok" => Grows(caps) \/ IsLost(caps) \/ Overflowed \/ LostAll
  /\ state = "undefined" => items = NULL

LEMMA StoreIs ==
  ASSUME NEW block, NEW i, NEW x, Store(block, i, x), InUse
  PROVE  /\ i \in DOMAIN block => DOMAIN items' = DOMAIN block /\ state' = "ok"
         /\ i \notin DOMAIN block => items' = block /\ state' = "undefined"
BY DEF Store, InUse

LEMMA InPlaceLasts ==
  ASSUME NEW caps, Doubles(caps), Exhaustible(caps), NEW x, PushInPlace(x)
  PROVE  Exhaustible(caps)'
<1>1. /\ InUse /\ size # capacity /\ Store(items, size, x) /\ size' = Wrap(size + 1)
      /\ capacity' = capacity
  BY DEF PushInPlace, PutLast, IsFull
<1>2. CASE Grows(caps)
  <2>1. /\ capacity \in Nat /\ capacity <= INT_MAX /\ size \in 0 .. capacity - 1
    BY <1>1, <1>2 DEF Doubles, Grows
  <2>2. size' = size + 1 /\ size' \in 0 .. capacity
    BY <1>1, <2>1, Ints DEF Wrap
  <2>3. DOMAIN items' = DOMAIN items /\ state' = "ok"
    BY <1>1, <1>2, <2>1, StoreIs DEF Grows
  <2> QED
    BY <1>1, <1>2, <2>2, <2>3 DEF Grows, Exhaustible
<1>3. CASE Overflowed
  <2>1. size \in 0 .. INT_MAX /\ size \in DOMAIN items
    BY <1>1, <1>3 DEF Overflowed
  <2>2. size' \in 0 .. INT_MAX \/ size' = capacity
    BY <1>1, <1>3, <2>1, Ints DEF Wrap, Overflowed
  <2>3. DOMAIN items' = DOMAIN items /\ state' = "ok"
    BY <1>1, <2>1, StoreIs
  <2> QED
    BY <1>1, <1>3, <2>2, <2>3 DEF Overflowed, Exhaustible
<1> QED
  BY <1>1, <1>2, <1>3 DEF Exhaustible, InUse, IsLost, LostAll

LEMMA GrowLasts ==
  ASSUME NEW caps, Doubles(caps), Exhaustible(caps), NEW x, PushGrows(x)
  PROVE  Exhaustible(caps)'
<1> DEFINE n == capacity * 2
<1>1. /\ InUse /\ size = capacity /\ capacity >= 0
      /\ capacity' = Wrap(n) /\ Store(Realloc(n), size, x) /\ size' = Wrap(size + 1)
  BY DEF PushGrows, PutLast, IsFull, EXPAND_RATIO
<1>2. /\ capacity \in caps /\ capacity \in Nat /\ capacity > 0 /\ capacity <= INT_MAX
      /\ n \in caps \/ n = INT_MAX + 1
  <2>1. - (INT_MAX + 1) \in Int /\ ~ (- (INT_MAX + 1) >= 0)
    BY Ints
  <2>2. capacity # - (INT_MAX + 1)
    <3> SUFFICES ASSUME capacity = - (INT_MAX + 1) PROVE FALSE
      OBVIOUS
    <3>1. - (INT_MAX + 1) >= 0
      BY <1>1
    <3> QED
      BY <2>1, <3>1
  <2>3. capacity \in caps
    BY <1>1, <2>2 DEF Exhaustible, InUse, Grows, IsLost, Overflowed, LostAll
  <2> QED
    BY <2>3 DEF Doubles
<1>3. DOMAIN Realloc(n) = 0 .. n - 1 /\ size \in 0 .. n - 1
  BY <1>1, <1>2 DEF Realloc
<1>4. DOMAIN items' = 0 .. n - 1 /\ state' = "ok"
  BY <1>1, <1>3, StoreIs
<1>5. CASE n \in caps
  <2>1. n \in Nat /\ n <= INT_MAX
    BY <1>5 DEF Doubles
  <2>2. capacity' = n /\ size' \in 0 .. n
    BY <1>1, <1>2, <2>1, Ints DEF Wrap
  <2> QED
    BY <1>4, <1>5, <2>2 DEF Grows, Exhaustible
<1>6. CASE n = INT_MAX + 1
  <2>1. capacity' = - (INT_MAX + 1)
    BY <1>1, <1>6, Ints DEF Wrap
  <2>2. size' \in 0 .. INT_MAX \/ size' = capacity'
    BY <1>1, <1>2, <2>1, Ints DEF Wrap
  <2>3. DOMAIN items' = 0 .. INT_MAX
    BY <1>4, <1>6, Ints
  <2> QED
    BY <1>4, <2>1, <2>2, <2>3 DEF Overflowed, Exhaustible
<1> QED
  BY <1>2, <1>5, <1>6

LEMMA FailLasts ==
  ASSUME NEW caps, Doubles(caps), Exhaustible(caps), PushFails
  PROVE  Exhaustible(caps)'
<1>1. /\ InUse /\ size = capacity /\ items' = NULL
      /\ UNCHANGED <<size, capacity, state>>
  BY DEF PushFails, IsFull
<1> QED
  BY <1>1 DEF Exhaustible, InUse, Grows, IsLost, Overflowed, LostAll

\* What is in range is in the block, or the block is lost.
LEMMA InRangeLasts ==
  ASSUME NEW caps, Doubles(caps), Exhaustible(caps), InUse, NEW i \in Int, InRange(i)
  PROVE  i \in DOMAIN items \/ items = NULL
<1>1. i >= 0 /\ (size \in Int => i < size)
  BY DEF InRange
<1>2. CASE Grows(caps)
  BY <1>1, <1>2, Ints DEF Grows, Doubles
<1>3. CASE Overflowed
  BY <1>1, <1>3, Ints DEF Overflowed
<1> QED
  BY <1>2, <1>3 DEF Exhaustible, InUse, IsLost, LostAll

LEMMA PopLasts ==
  ASSUME NEW caps, Doubles(caps), Exhaustible(caps), Pop
  PROVE  Exhaustible(caps)'
<1>1. InUse /\ items' = items /\ capacity' = capacity
  BY DEF Pop
<1>2. CASE size <= 0
  <2>1. UNCHANGED <<size, state>>
    BY <1>2 DEF Pop
  <2> QED
    BY <1>1, <2>1 DEF Exhaustible, Grows, IsLost, Overflowed, LostAll
<1>3. CASE ~ (size <= 0)
  <2>1. size' = size - 1 /\ state' = IF size' \in DOMAIN items THEN "ok" ELSE "undefined"
    BY <1>1, <1>3 DEF Pop, Load, InUse
  <2>2. CASE Grows(caps)
    <3>1. size' \in 0 .. capacity - 1
      BY <1>3, <2>1, <2>2 DEF Grows, Doubles
    <3>2. size' \in 0 .. capacity
      BY <2>2, <3>1 DEF Grows, Doubles
    <3>3. state' = "ok"
      BY <2>1, <2>2, <3>1 DEF Grows
    <3> QED
      BY <1>1, <2>2, <3>2, <3>3 DEF Grows, Exhaustible
  <2>3. CASE Overflowed
    <3>1. size' \in 0 .. INT_MAX
      BY <1>3, <2>1, <2>3, Ints DEF Overflowed
    <3>2. state' = "ok"
      BY <2>1, <2>3, <3>1 DEF Overflowed
    <3> QED
      BY <1>1, <2>3, <3>1, <3>2 DEF Overflowed, Exhaustible
  <2>4. CASE items = NULL
    <3>1. state' = "undefined"
      BY <2>1, <2>4 DEF NULL
    <3> QED
      BY <1>1, <2>4, <3>1 DEF Exhaustible
  <2> QED
    BY <1>1, <2>2, <2>3, <2>4 DEF Exhaustible, InUse, IsLost, LostAll
<1> QED
  BY <1>2, <1>3

LEMMA SetLasts ==
  ASSUME NEW caps, Doubles(caps), Exhaustible(caps), NEW x, NEW i \in Int, Set(x, i)
  PROVE  Exhaustible(caps)'
<1>1. InUse /\ UNCHANGED <<size, capacity>>
  BY DEF Set
<1>2. CASE ~ InRange(i)
  <2>1. UNCHANGED <<items, state>>
    BY <1>2 DEF Set
  <2> QED
    BY <1>1, <2>1 DEF Exhaustible, Grows, IsLost, Overflowed, LostAll
<1>3. CASE InRange(i) /\ i \in DOMAIN items
  <2>1. DOMAIN items' = DOMAIN items /\ state' = "ok"
    BY <1>1, <1>3, StoreIs DEF Set
  <2>2. items # NULL
    BY <1>3 DEF NULL
  <2> QED
    BY <1>1, <2>1, <2>2 DEF Exhaustible, InUse, Grows, IsLost, Overflowed, LostAll
<1>4. CASE InRange(i) /\ i \notin DOMAIN items
  <2>1. items' = items /\ state' = "undefined" /\ items = NULL
    BY <1>1, <1>4, StoreIs, InRangeLasts DEF Set
  <2> QED
    BY <2>1 DEF Exhaustible
<1> QED
  BY <1>2, <1>3, <1>4

LEMMA GetLasts ==
  ASSUME NEW caps, Doubles(caps), Exhaustible(caps), NEW i \in Int, Get(i)
  PROVE  Exhaustible(caps)'
<1>1. InUse /\ UNCHANGED <<items, size, capacity>>
  BY DEF Get, fields
<1>2. CASE state' = state
  BY <1>1, <1>2 DEF Exhaustible, Grows, IsLost, Overflowed, LostAll
<1>3. CASE state' # state
  <2>1. InRange(i) /\ i \notin DOMAIN items /\ state' = "undefined"
    BY <1>3 DEF Get, Load
  <2>2. items = NULL
    BY <1>1, <2>1, InRangeLasts
  <2> QED
    BY <1>1, <2>1, <2>2 DEF Exhaustible
<1> QED
  BY <1>2, <1>3

\* However few resources there are: if the capacities are the doublings of the
\* first one, of which the one that ints have no room for is where they
\* overflow, no call uses memory outside the block as long as there is one.
THEOREM SafeAlwaysCorrect ==
  ASSUME NEW CONSTANT caps, Doubles(caps) PROVE Spec => []MemoryIsSafe
<1>1. Init => Exhaustible(caps)
  <2> SUFFICES ASSUME Init PROVE Exhaustible(caps)
    OBVIOUS
  <2>1. /\ capacity = STARTING_CAPACITY /\ size = 0 /\ state = "ok"
        /\ DOMAIN items = 0 .. STARTING_CAPACITY - 1
    BY DEF Init, Block
  <2> QED
    BY <2>1, Ints DEF Exhaustible, Grows, Doubles
<1>2. ASSUME Exhaustible(caps), [Next]_vars PROVE Exhaustible(caps)'
  <2>1. ASSUME NEW x \in Value, Push(x) PROVE Exhaustible(caps)'
    BY <1>2, <2>1, InPlaceLasts, GrowLasts, FailLasts DEF Push
  <2>2. ASSUME NEW x \in Value, NEW i \in Index, Set(x, i) PROVE Exhaustible(caps)'
    BY <1>2, <2>2, SetLasts, Ints
  <2>3. ASSUME NEW i \in Index, Get(i) PROVE Exhaustible(caps)'
    BY <1>2, <2>3, GetLasts, Ints
  <2>4. CASE Pop
    BY <1>2, <2>4, PopLasts
  <2>5. CASE Free
    <3>1. state' = "freed"
      BY <2>5 DEF Free
    <3> QED
      BY <3>1 DEF Exhaustible
  <2>6. CASE Size \/ UNCHANGED vars
    <3>1. UNCHANGED <<items, size, capacity, state>>
      BY <2>6 DEF Size, fields, vars
    <3> QED
      BY <1>2, <3>1 DEF Exhaustible, Grows, IsLost, Overflowed, LostAll
  <2> QED
    BY <1>2, <2>1, <2>2, <2>3, <2>4, <2>5, <2>6 DEF Next
<1>3. Exhaustible(caps) => MemoryIsSafe
  BY DEF Exhaustible, MemoryIsSafe
<1> QED
  BY <1>1, <1>2, <1>3, PTL DEF Spec

\* So it is with the capacity the source begins with and ints of 32 bits.
THEOREM SourceSafeCorrect ==
  ASSUME STARTING_CAPACITY = 8, INT_MAX = 2147483647 PROVE Spec => []MemoryIsSafe
<1> DEFINE caps == {8, 16, 32, 64, 128, 256, 512, 1024, 2048, 4096, 8192, 16384, 32768,
                    65536, 131072, 262144, 524288, 1048576, 2097152, 4194304, 8388608,
                    16777216, 33554432, 67108864, 134217728, 268435456, 536870912,
                    1073741824}
<1>1. Doubles(caps)
  BY DEF Doubles
<1> QED
  BY <1>1, SafeAlwaysCorrect

-----------------------------------------------------------------------------
(* The list that the fields stand for.                                      *)
Listed == [i \in 1 .. size |-> items[i - 1]]

LEMMA ListedType ==
  ASSUME Sound
  PROVE  /\ size \in Nat
         /\ Listed \in Seq(Value)
         /\ Len(Listed) = size
         /\ DOMAIN Listed = 1 .. size
         /\ \A i \in 1 .. size : Listed[i] = items[i - 1]
<1>1. size \in Nat
  BY DEF Sound
<1>2. ASSUME NEW i \in 1 .. size PROVE items[i - 1] \in Value
  <2>1. i - 1 \in 0 .. size - 1
    BY <1>1
  <2> QED
    BY <2>1 DEF Sound
<1>3. Listed \in [1 .. size -> Value]
  BY <1>2 DEF Listed
<1>4. Listed \in Seq(Value)
  BY <1>1, <1>3, SeqDef
<1>5. Len(Listed) = size
  BY <1>1, <1>3, <1>4, LenProperties
<1> QED
  BY <1>1, <1>3, <1>4, <1>5 DEF Listed

(* The slots that a push and a call to set leave alone stay as they were.   *)
LEMMA ListedPush ==
  ASSUME Sound, Sound', size' = size + 1, NEW x \in Value, items'[size] = x,
         \A j \in 0 .. size - 1 : items'[j] = items[j]
  PROVE  Listed' = Append(Listed, x)
<1>1. /\ Listed \in Seq(Value) /\ Len(Listed) = size
      /\ \A i \in 1 .. size : Listed[i] = items[i - 1]
      /\ size \in Nat
  BY ListedType
<1>2. /\ Append(Listed, x) \in Seq(Value)
      /\ Len(Append(Listed, x)) = size + 1
      /\ \A i \in 1 .. size : Append(Listed, x)[i] = Listed[i]
      /\ Append(Listed, x)[size + 1] = x
  BY <1>1, AppendProperties
<1>3. /\ Listed' = [i \in 1 .. size + 1 |-> items'[i - 1]]
  BY DEF Listed
<1>4. ASSUME NEW i \in 1 .. size + 1
      PROVE  items'[i - 1] = Append(Listed, x)[i]
  <2>1. CASE i = size + 1
    BY <2>1, <1>1, <1>2
  <2>2. CASE i # size + 1
    <3>1. i \in 1 .. size /\ i - 1 \in 0 .. size - 1
      BY <2>2, <1>1
    <3> QED
      BY <3>1, <1>1, <1>2
  <2> QED
    BY <2>1, <2>2
<1>5. Append(Listed, x) = [i \in 1 .. size + 1 |-> Append(Listed, x)[i]]
  BY <1>1, <1>2, LenProperties
<1> QED
  BY <1>3, <1>4, <1>5, Zenon

LEMMA ListedPop ==
  ASSUME Sound, Sound', size # 0, size' = size - 1, items' = items
  PROVE  /\ Listed # <<>>
         /\ items[size - 1] = Listed[Len(Listed)]
         /\ Listed' = SubSeq(Listed, 1, Len(Listed) - 1)
<1>1. /\ Listed \in Seq(Value) /\ Len(Listed) = size
      /\ \A i \in 1 .. size : Listed[i] = items[i - 1]
      /\ size \in Nat
  BY ListedType
<1>2. SubSeq(Listed, 1, size - 1) = [i \in 1 .. size - 1 |-> Listed[i]]
  <2> DEFINE front == SubSeq(Listed, 1, size - 1)
  <2>1. /\ front \in Seq(Value)
        /\ Len(front) = size - 1
        /\ \A i \in 1 .. size - 1 : front[i] = Listed[i]
    BY <1>1, SubSeqProperties
  <2> QED
    BY <2>1, LenProperties
<1>3. Listed' = [i \in 1 .. size - 1 |-> items[i - 1]]
  BY DEF Listed
<1>4. \A i \in 1 .. size - 1 : Listed[i] = items[i - 1]
  BY <1>1
<1>5. Listed' = SubSeq(Listed, 1, size - 1)
  BY <1>2, <1>3, <1>4
<1>6. size \in 1 .. size
  BY <1>1
<1> QED
  BY <1>1, <1>5, <1>6

LEMMA ListedSet ==
  ASSUME Sound, Sound', size' = size, NEW x \in Value, NEW i \in 0 .. size - 1,
         items' = [items EXCEPT ![i] = x]
  PROVE  Listed' = [Listed EXCEPT ![i + 1] = x]
<1>1. size \in Nat /\ capacity \in Nat /\ size <= capacity
      /\ DOMAIN items = 0 .. capacity - 1
  BY DEF Sound
<1>2. ASSUME NEW j \in 1 .. size
      PROVE  items'[j - 1] = IF j = i + 1 THEN x ELSE items[j - 1]
  <2>1. j - 1 \in DOMAIN items
    BY <1>1
  <2> QED
    BY <2>1
<1>3. DOMAIN Listed = 1 .. size /\ \A j \in 1 .. size : Listed[j] = items[j - 1]
  BY ListedType
<1>4. Listed' = [j \in 1 .. size |-> items'[j - 1]]
  BY DEF Listed
<1> QED
  BY <1>2, <1>3, <1>4

LEMMA ListedSame ==
  ASSUME Sound, UNCHANGED <<items, size>> PROVE UNCHANGED Listed
BY DEF Listed

LEMMA InitIsList == Init => L!Init
<1> SUFFICES ASSUME Init PROVE L!Init
  OBVIOUS
<1>1. Sound /\ size = 0 /\ result = None /\ state = "ok" /\ exhausted = FALSE
  BY InitSound DEF Init
<1>2. Listed = <<>>
  BY <1>1, ListedType, EmptySeq
<1> QED
  BY <1>1, <1>2 DEF L!Init, Listed

LEMMA PushIsList ==
  ASSUME Sound, exhausted' # TRUE, NEW x \in Value, Push(x)
  PROVE  L!Push(x) /\ UNCHANGED exhausted
<1>1. /\ Sound' /\ size' = size + 1
      /\ items'[size] = x
      /\ \A j \in 0 .. size - 1 : items'[j] = items[j]
      /\ state = "ok" /\ state' = "ok" /\ UNCHANGED <<result, exhausted>>
  <2>1. CASE PushInPlace(x)
    <3>1. /\ Sound' /\ size' = size + 1
          /\ items' = [items EXCEPT ![size] = x]
          /\ state = "ok" /\ state' = "ok" /\ UNCHANGED <<result, exhausted>>
      BY <2>1, PushInPlaceSound
    <3>2. /\ size \in Nat /\ capacity \in Nat /\ size <= capacity /\ size # capacity
          /\ DOMAIN items = 0 .. capacity - 1
      BY <2>1 DEF Sound, PushInPlace, IsFull
    <3>3. /\ items'[size] = x
          /\ \A j \in 0 .. size - 1 : items'[j] = items[j]
      BY <3>1, <3>2
    <3> QED
      BY <3>1, <3>3
  <2>2. CASE PushGrows(x)
    BY <2>2, PushGrowsSound
  <2> QED
    BY <2>1, <2>2 DEF Push, PushFails
<1>2. Listed' = Append(Listed, x)
  BY <1>1, ListedPush
<1> QED
  BY <1>1, <1>2 DEF L!Push, Listed, Sound

LEMMA PopIsList == ASSUME Sound, Pop
  PROVE  L!Pop /\ UNCHANGED exhausted
<1>1. /\ Sound' /\ state = "ok" /\ state' = "ok" /\ UNCHANGED <<items, capacity, exhausted>>
      /\ size = 0 => size' = 0 /\ result' = None
      /\ size # 0 => size' = size - 1 /\ result' = items[size - 1]
  BY PopSound
<1>2. CASE size = 0
  <2>1. UNCHANGED Listed
    BY <1>1, <1>2, ListedSame
  <2>2. Listed = <<>>
    BY <1>2, ListedType, EmptySeq
  <2> QED
    BY <1>1, <1>2, <2>1, <2>2 DEF L!Pop, Listed, Sound
<1>3. CASE size # 0
  <2>1. /\ Listed # <<>>
        /\ result' = Listed[Len(Listed)]
        /\ Listed' = SubSeq(Listed, 1, Len(Listed) - 1)
    BY <1>1, <1>3, ListedPop
  <2> QED
    BY <1>1, <2>1 DEF L!Pop, Listed, Sound
<1> QED
  BY <1>2, <1>3

(* The code and the list agree on which indices are in range.               *)
LEMMA RangeIsList ==
  ASSUME Sound, NEW i \in Index
  PROVE  /\ L!InRange(i) <=> InRange(i)
         /\ InRange(i) => i \in 0 .. size - 1
<1>1. size \in Nat /\ i \in Int /\ Len(Listed) = size
  BY ListedType, Ints
<1>2. exhausted = FALSE
  BY DEF Sound
<1>3. L!InRange(i) <=> 0 <= i /\ i < Len(Listed)
  BY <1>2 DEF L!InRange, Listed
<1> QED
  BY <1>1, <1>3 DEF InRange

LEMMA SetIsList ==
  ASSUME Sound, NEW x \in Value, NEW i \in Index, Set(x, i)
  PROVE  L!Set(x, i) /\ UNCHANGED exhausted
<1>1. /\ Sound'
      /\ state = "ok" /\ state' = "ok" /\ UNCHANGED <<size, capacity, result, exhausted>>
      /\ InRange(i) => items' = [items EXCEPT ![i] = x]
      /\ ~ InRange(i) => items' = items
  BY SetSound
<1>2. CASE InRange(i)
  <2>1. L!InRange(i) /\ i \in 0 .. size - 1
    BY <1>2, RangeIsList
  <2>2. Listed' = [Listed EXCEPT ![i + 1] = x]
    BY <1>1, <1>2, <2>1, ListedSet
  <2> QED
    BY <1>1, <2>1, <2>2 DEF L!Set, Listed, Sound
<1>3. CASE ~ InRange(i)
  <2>1. ~ L!InRange(i)
    BY <1>3, RangeIsList
  <2>2. UNCHANGED Listed
    BY <1>1, <1>3, ListedSame
  <2> QED
    BY <1>1, <2>1, <2>2 DEF L!Set, Listed, Sound
<1> QED
  BY <1>2, <1>3

LEMMA GetIsList == ASSUME Sound, NEW i \in Index, Get(i)
  PROVE  L!Get(i) /\ UNCHANGED exhausted
<1>1. /\ state = "ok" /\ state' = "ok" /\ UNCHANGED <<fields, exhausted>>
      /\ InRange(i) => result' = items[i]
      /\ ~ InRange(i) => result' = None
  BY GetSound
<1>2. UNCHANGED Listed
  BY <1>1, ListedSame DEF fields
<1>3. CASE InRange(i)
  <2>1. L!InRange(i) /\ i \in 0 .. size - 1 /\ size \in Nat
    BY <1>3, RangeIsList, ListedType
  <2>2. i + 1 \in 1 .. size /\ (i + 1) - 1 = i
    BY <2>1
  <2>3. Listed[i + 1] = items[i]
    BY <2>2, ListedType
  <2> QED
    BY <1>1, <1>2, <1>3, <2>1, <2>3 DEF L!Get, Listed, Sound
<1>4. CASE ~ InRange(i)
  <2>1. ~ L!InRange(i)
    BY <1>4, RangeIsList
  <2> QED
    BY <1>1, <1>2, <1>4, <2>1 DEF L!Get, Listed, Sound
<1> QED
  BY <1>3, <1>4

LEMMA SizeIsList == ASSUME Sound, Size
  PROVE  L!Size /\ UNCHANGED exhausted
<1>1. state = "ok" /\ state' = "ok" /\ UNCHANGED <<fields, exhausted>> /\ result' = size
  BY SizeSound
<1>2. UNCHANGED Listed
  BY <1>1, ListedSame DEF fields
<1>3. Len(Listed) = size
  BY ListedType
<1> QED
  BY <1>1, <1>2, <1>3 DEF L!Size, Listed, Sound

LEMMA FreeIsList == ASSUME Sound, Free
  PROVE  L!Free /\ UNCHANGED exhausted
<1>1. Sound' /\ state = "ok" /\ state' = "freed" /\ size' = 0 /\ UNCHANGED <<result, exhausted>>
  BY FreeSound
<1>2. Listed' = <<>>
  <2>1. Listed' = [i \in 1 .. 0 |-> items'[i - 1]]
    BY <1>1 DEF Listed
  <2> QED
    BY <2>1
<1> QED
  BY <1>1, <1>2 DEF L!Free, Listed, Sound

(* Nothing is promised of a step that exhausts resources, or comes later.   *)
LEMMA StepIsList == LastingSound /\ [Next]_vars => [L!Next]_(L!vars)
<1> SUFFICES ASSUME Sound, exhausted' # TRUE, [Next]_vars
             PROVE  [L!Next]_(L!vars)
  BY Exhausted DEF LastingSound, L!Next
<1>1. CASE \E x \in Value : Push(x)
  BY <1>1, PushIsList DEF L!Next, L!Call
<1>2. CASE \E x \in Value, i \in Index : Set(x, i)
  BY <1>2, SetIsList DEF L!Next, L!Call
<1>3. CASE \E i \in Index : Get(i)
  BY <1>3, GetIsList DEF L!Next, L!Call
<1>4. CASE Pop
  BY <1>4, PopIsList DEF L!Next, L!Call
<1>5. CASE Size
  BY <1>5, SizeIsList DEF L!Next, L!Call
<1>6. CASE Free
  BY <1>6, FreeIsList DEF L!Next, L!Call
<1>7. CASE UNCHANGED vars
  BY <1>7 DEF vars, fields, L!vars
<1> QED
  BY <1>1, <1>2, <1>3, <1>4, <1>5, <1>6, <1>7 DEF Next

\* Until resources are exhausted every call returns, and leaves in the array,
\* what the call on a list does, whatever block the items have been moved to.
THEOREM ListCorrect == Spec => ImplementsList
<1>1. LastingSound /\ [Next]_vars => [L!Next]_(L!vars)
  BY StepIsList
<1> QED
  BY InitIsList, AlwaysSound, <1>1, PTL DEF Spec, ImplementsList, L!Spec

-----------------------------------------------------------------------------
(* The hash map.                                                            *)

(* A getter looks at the slot in which a setter gives up, since it has      *)
(* looked at it before.                                                     *)
IsSeen(s) ==
  \/ s = 0
  \/ \E j \in 0 .. CONSEC_COLLISION_LIMIT - 1 :
       Offset[j] % s = Offset[CONSEC_COLLISION_LIMIT] % s

Table == UNION {[items : [0 .. s - 1 -> Item \cup {Nothing}], size : {s}] : s \in Nat}
CallOfSet == [key : Key, value : Address, resizes : 0 .. CONSEC_RESIZE_LIMIT, next : Nat]

(* The tables and the calls.                                                *)
Stacked ==
  /\ tables \in Seq(Table) /\ calls \in Seq(CallOfSet)
  /\ Len(tables) \in {Len(calls), Len(calls) + 1} \ {0}
  /\ defined \in BOOLEAN /\ got \in Address \cup {Nothing} /\ freed \in BOOLEAN
  /\ freed => Len(calls) = 0 /\ tables[1].size = 0
  /\ ~ freed => \A n \in 1 .. Len(tables) : tables[n].size > 0
  /\ \A n \in 1 .. Len(tables) - 1 :
       /\ calls[n].next \in 0 .. tables[n].size
       /\ calls[n].resizes < CONSEC_RESIZE_LIMIT
       /\ IsSeen(tables[n + 1].size) => IsSeen(tables[n].size)

Has(t, k) == \E i \in Used(t) : t.items[i].key = k

IsFound(t) ==
  \A i \in Used(t) :
    \E j \in 0 .. CONSEC_COLLISION_LIMIT - 1 : Probe(t, t.items[i].key, j) = i
IsOnce(t) ==
  \A i, j \in Used(t) : t.items[i].key = t.items[j].key => i = j
IsRight(t) == IsFound(t) /\ IsOnce(t)

Right ==
  \A n \in 1 .. Len(tables) : IsSeen(tables[n].size) => IsRight(tables[n])

(* What a table holds, in all and below a bucket.                           *)
Held(t)     == {t.items[i] : i \in Used(t)}
Below(t, b) == {t.items[i] : i \in {i \in Used(t) : i < b}}

ItemOf(c)  == [key |-> c.key, value |-> c.value]
Pending(n) == IF n <= Len(calls) THEN {ItemOf(calls[n])} ELSE {}

(* A key that has found no slot, or is being moved, is not there.           *)
Absent ==
  \A n \in 1 .. Len(calls) :
    /\ defined
    /\ IsSeen(tables[n].size)
    /\ n > 1 \/ calls[n].resizes > 0 \/ n < Len(tables)
    => ~ Has(tables[n], calls[n].key)

(* A resize has moved what is below the bucket it has come to, but the item *)
(* of its call that has not returned.                                       *)
Moved ==
  \A n \in 1 .. Len(tables) - 1 :
    /\ defined
    /\ IsSeen(tables[n + 1].size)
    => Below(tables[n], calls[n].next) = Held(tables[n + 1]) \cup Pending(n + 1)

MapInv == Stacked /\ Right /\ Absent /\ Moved

-----------------------------------------------------------------------------
(* Arithmetic.                                                              *)

LEMMA Constants ==
  /\ STARTING_BUCKETS \in Nat /\ STARTING_BUCKETS > 0
  /\ CONSEC_COLLISION_LIMIT \in Nat /\ CONSEC_COLLISION_LIMIT > 0
  /\ CONSEC_RESIZE_LIMIT \in Nat
  /\ RESIZE_RATIO \in Nat /\ RESIZE_RATIO > 1
  /\ Nothing \notin Item /\ Nothing \notin Address
  /\ Hash \in [Key -> (0 .. HALF - 1) \X (0 .. HALF - 1)]
BY HashmapAssumption

LEMMA SameRest ==
  ASSUME NEW s \in Nat, s > 0, NEW h \in Nat, NEW a \in Nat, NEW b \in Nat
  PROVE  a % s = b % s <=> (h + a) % s = (h + b) % s
<1> DEFINE qa == a \div s
           qb == b \div s
           ra == a % s
           rb == b % s
           q == h \div s
           r == h % s
<1>1. /\ qa \in Nat /\ qb \in Nat /\ q \in Nat
      /\ ra \in 0 .. s - 1 /\ rb \in 0 .. s - 1 /\ r \in 0 .. s - 1
      /\ a = qa * s + ra /\ b = qb * s + rb /\ h = q * s + r
  OBVIOUS
<1>2. ASSUME NEW x \in Nat, NEW y \in 0 .. s - 1
      PROVE  (x * s + y) % s = y
  OBVIOUS
<1> HIDE DEF qa, qb, ra, rb, q, r
<1>3. ASSUME NEW x \in Nat, NEW c \in 0 .. s - 1
      PROVE  (h + (x * s + c)) % s = IF r + c < s THEN r + c ELSE r + c - s
  <2>1. CASE r + c < s
    <3>1. h + (x * s + c) = (q + x) * s + (r + c)
      BY <1>1
    <3> QED
      BY <3>1, <2>1, <1>1, <1>2
  <2>2. CASE ~ (r + c < s)
    <3>1. h + (x * s + c) = (q + x + 1) * s + (r + c - s)
      BY <1>1
    <3>2. r + c - s \in 0 .. s - 1 /\ q + x + 1 \in Nat
      BY <2>2, <1>1
    <3> QED
      BY <3>1, <3>2, <2>2, <1>2
  <2> QED
    BY <2>1, <2>2
<1>4. /\ (h + a) % s = IF r + ra < s THEN r + ra ELSE r + ra - s
      /\ (h + b) % s = IF r + rb < s THEN r + rb ELSE r + rb - s
  BY <1>1, <1>3
<1> QED
  BY <1>1, <1>4 DEF ra, rb

LEMMA RestDivides ==
  ASSUME NEW s \in Nat, s > 0, NEW m \in Nat, m > 0, NEW a \in Nat, NEW b \in Nat,
         a % (s * m) = b % (s * m)
  PROVE  a % s = b % s
<1> DEFINE n == s * m
           qa == a \div n
           qb == b \div n
           r == a % n
<1>1. n \in Nat /\ n > 0
  OBVIOUS
<1> HIDE DEF n
<1>2. /\ qa \in Nat /\ qb \in Nat /\ r \in Nat
      /\ a = qa * n + r /\ b = qb * n + r
  BY <1>1 DEF n
<1> HIDE DEF qa, qb, r
<1> DEFINE q == r \div s
           y == r % s
<1>3. q \in Nat /\ y \in 0 .. s - 1 /\ r = q * s + y
  BY <1>2
<1>4. ASSUME NEW x \in Nat, NEW z \in 0 .. s - 1
      PROVE  (x * s + z) % s = z
  OBVIOUS
<1> HIDE DEF q, y
<1>5. /\ a = (qa * m + q) * s + y /\ qa * m + q \in Nat
      /\ b = (qb * m + q) * s + y /\ qb * m + q \in Nat
  BY <1>2, <1>3 DEF n
<1> QED
  BY <1>3, <1>4, <1>5

LEMMA OffsetType == Offset \in [0 .. CONSEC_COLLISION_LIMIT -> Nat]
<1>1. ASSUME NEW j \in 0 .. CONSEC_COLLISION_LIMIT
      PROVE  (j * (j + 1) * (2 * j + 1)) \div 6 \in Nat
  <2>1. j \in Nat /\ j * (j + 1) \in Nat
    BY Constants
  <2>2. j * (j + 1) * (2 * j + 1) \in Nat
    BY <2>1
  <2> QED
    BY <2>2
<1> QED
  BY <1>1 DEF Offset

LEMMA SeenSmaller ==
  ASSUME NEW s \in Nat, s > 0, NEW m \in Nat, m > 0, IsSeen(s * m)
  PROVE  IsSeen(s)
<1>1. s * m # 0
  OBVIOUS
<1>2. PICK j \in 0 .. CONSEC_COLLISION_LIMIT - 1 :
        Offset[j] % (s * m) = Offset[CONSEC_COLLISION_LIMIT] % (s * m)
  BY <1>1 DEF IsSeen
<1>3. Offset[j] \in Nat /\ Offset[CONSEC_COLLISION_LIMIT] \in Nat
  BY OffsetType, Constants
<1>4. Offset[j] % s = Offset[CONSEC_COLLISION_LIMIT] % s
  BY <1>2, <1>3, RestDivides
<1> QED
  BY <1>4 DEF IsSeen

-----------------------------------------------------------------------------
(* Tables.                                                                  *)

LEMMA TableType ==
  ASSUME NEW t
  PROVE  t \in Table <=> /\ t.size \in Nat
                         /\ t.items \in [0 .. t.size - 1 -> Item \cup {Nothing}]
                         /\ t = [items |-> t.items, size |-> t.size]
BY DEF Table

LEMMA UsedIs ==
  ASSUME NEW t \in Table
  PROVE  /\ Used(t) \subseteq 0 .. t.size - 1
         /\ \A i \in 0 .. t.size - 1 : i \notin Used(t) <=> t.items[i] = Nothing
         /\ \A i \in Used(t) : /\ t.items[i] \in Item
                               /\ t.items[i].key \in Key /\ t.items[i].value \in Address
<1>1. t.size \in Nat /\ t.items \in [0 .. t.size - 1 -> Item \cup {Nothing}]
  BY TableType
<1> QED
  BY <1>1, Constants DEF Used, Item

LEMMA ProbeType ==
  ASSUME NEW t \in Table, t.size > 0, NEW k \in Key, NEW j \in 0 .. CONSEC_COLLISION_LIMIT
  PROVE  /\ Probe(t, k, j) \in 0 .. t.size - 1
         /\ \E h \in Nat : \A i \in 0 .. CONSEC_COLLISION_LIMIT :
              Probe(t, k, i) = (h + Offset[i]) % t.size
<1>1. t.size \in Nat
  BY TableType
<1>2. Hash[k][1] \in Nat /\ Hash[k][2] \in Nat /\ HALF \in Nat
  <2>1. Hash[k] \in (0 .. HALF - 1) \X (0 .. HALF - 1)
    BY Constants
  <2>2. ASSUME NEW S, NEW p \in S \X S PROVE p[1] \in S /\ p[2] \in S
    OBVIOUS
  <2>3. Hash[k][1] \in 0 .. HALF - 1 /\ Hash[k][2] \in 0 .. HALF - 1
    BY <2>1, <2>2
  <2>4. HALF \in Nat
    BY DEF HALF
  <2> QED
    BY <2>3, <2>4
<1>3. HALF % t.size \in Nat
  BY <1>1, <1>2
<1>4. Hash[k][1] * (HALF % t.size) \in Nat
  BY <1>2, <1>3
<1> DEFINE h == Hash[k][1] * (HALF % t.size) + Hash[k][2]
<1>5. h \in Nat
  BY <1>2, <1>4
<1>6. \A i \in 0 .. CONSEC_COLLISION_LIMIT : Probe(t, k, i) = (h + Offset[i]) % t.size
  BY DEF Probe
<1> HIDE DEF h
<1>7. Offset[j] \in Nat
  BY OffsetType
<1> QED
  BY <1>1, <1>5, <1>6, <1>7

LEMMA SeenProbe ==
  ASSUME NEW t \in Table, t.size > 0, IsSeen(t.size), NEW k \in Key,
         NEW j \in 0 .. CONSEC_COLLISION_LIMIT
  PROVE  \E i \in 0 .. CONSEC_COLLISION_LIMIT - 1 : Probe(t, k, i) = Probe(t, k, j)
<1>1. CASE j # CONSEC_COLLISION_LIMIT
  BY <1>1, Constants
<1>2. CASE j = CONSEC_COLLISION_LIMIT
  <2>1. PICK i \in 0 .. CONSEC_COLLISION_LIMIT - 1 :
          Offset[i] % t.size = Offset[CONSEC_COLLISION_LIMIT] % t.size
    BY DEF IsSeen
  <2>2. PICK h \in Nat : \A x \in 0 .. CONSEC_COLLISION_LIMIT :
          Probe(t, k, x) = (h + Offset[x]) % t.size
    BY ProbeType
  <2>3. Offset[i] \in Nat /\ Offset[j] \in Nat /\ t.size \in Nat
    BY OffsetType, Constants, TableType
  <2>4. (h + Offset[i]) % t.size = (h + Offset[j]) % t.size
    <3>1. Offset[i] % t.size = Offset[j] % t.size
      BY <2>1, <1>2
    <3> DEFINE a == Offset[i]
               b == Offset[j]
               s == t.size
    <3>2. a \in Nat /\ b \in Nat /\ s \in Nat /\ s > 0 /\ h \in Nat /\ a % s = b % s
      BY <3>1, <2>3
    <3> HIDE DEF a, b, s
    <3>3. \A x, y \in Nat : x % s = y % s <=> (h + x) % s = (h + y) % s
      BY <3>2, SameRest, Zenon
    <3>4. (h + a) % s = (h + b) % s
      BY <3>2, <3>3, Zenon
    <3> QED
      BY <3>4 DEF a, b, s
  <2> QED
    BY <2>2, <2>4, Constants
<1> QED
  BY <1>1, <1>2

LEMMA LeastIn ==
  ASSUME NEW S \in SUBSET Nat, S # {}
  PROVE  Min(S) \in S /\ \A n \in S : Min(S) <= n
<1>1. PICK m \in S : \A n \in S : <<n, m>> \notin OpToRel(<, Nat)
  BY NatLessThanWellFounded, WFMin
<1>2. ASSUME NEW n \in S PROVE m <= n
  <2>1. ~ (n < m)
    BY <1>1 DEF OpToRel
  <2> QED
    BY <2>1
<1> QED
  BY <1>2 DEF Min

\* An index is one of those looked at, and there is none if there are none.
LEMMA FirstOfIs ==
  ASSUME NEW t \in Table, t.size > 0, NEW k \in Key,
         NEW js \in SUBSET (0 .. CONSEC_COLLISION_LIMIT)
  PROVE  /\ js = {} <=> FirstOf(t, k, js) = ERR_NO_VALID_ITEM_INDEX
         /\ js # {} => /\ FirstOf(t, k, js) \in 0 .. t.size - 1
                       /\ \E j \in js : FirstOf(t, k, js) = Probe(t, k, j)
<1>1. CASE js = {}
  BY <1>1 DEF FirstOf
<1>2. CASE js # {}
  <2>1. Min(js) \in js
    BY <1>2, LeastIn, Constants
  <2>2. Probe(t, k, Min(js)) \in 0 .. t.size - 1
    BY <2>1, ProbeType
  <2>3. FirstOf(t, k, js) = Probe(t, k, Min(js))
    BY <1>2 DEF FirstOf
  <2> QED
    BY <1>2, <2>1, <2>2, <2>3, TableType DEF ERR_NO_VALID_ITEM_INDEX
<1> QED
  BY <1>1, <1>2

LEMMA NotFound ==
  ASSUME NEW t \in Table, t.size > 0, NEW k \in Key, ~ Has(t, k)
  PROVE  Hits(t, k) = {} /\ get_exist_item_index(t, k) = ERR_NO_VALID_ITEM_INDEX
<1>1. ASSUME NEW j \in Hits(t, k) PROVE FALSE
  <2>1. /\ j \in 0 .. CONSEC_COLLISION_LIMIT
        /\ t.items[Probe(t, k, j)] # Nothing /\ t.items[Probe(t, k, j)].key = k
    BY Constants DEF Hits
  <2>2. Probe(t, k, j) \in Used(t)
    BY <2>1, ProbeType, UsedIs
  <2> QED
    BY <2>1, <2>2 DEF Has
<1> QED
  BY <1>1 DEF get_exist_item_index, FirstOf

LEMMA Found ==
  ASSUME NEW t \in Table, t.size > 0, IsRight(t), NEW i \in Used(t)
  PROVE  /\ Hits(t, t.items[i].key) # {}
         /\ get_exist_item_index(t, t.items[i].key) = i
<1> DEFINE k == t.items[i].key
<1>1. k \in Key /\ t.items[i] # Nothing
  BY UsedIs, Constants
<1> HIDE DEF k
<1>2. PICK j \in 0 .. CONSEC_COLLISION_LIMIT - 1 : Probe(t, k, j) = i
  BY DEF IsRight, IsFound, k
<1>3. j \in Hits(t, k)
  BY <1>1, <1>2 DEF Hits, k
<1>4. Hits(t, k) \in SUBSET (0 .. CONSEC_COLLISION_LIMIT)
  BY Constants DEF Hits
<1>5. PICK h \in Hits(t, k) : get_exist_item_index(t, k) = Probe(t, k, h)
  BY <1>1, <1>3, <1>4, FirstOfIs DEF get_exist_item_index
<1>6. Probe(t, k, h) \in Used(t) /\ t.items[Probe(t, k, h)].key = k
  BY <1>1, <1>4, ProbeType, UsedIs DEF Hits
<1>7. Probe(t, k, h) = i
  BY <1>6 DEF IsRight, IsOnce, k
<1> QED
  BY <1>3, <1>5, <1>7 DEF k

LEMMA PutIs ==
  ASSUME NEW t \in Table, NEW at, NEW item \in Item \cup {Nothing}
  PROVE  LET u == Put(t, at, item)
         IN  /\ u \in Table /\ u.size = t.size
             /\ \A i \in 0 .. t.size - 1 : u.items[i] = IF i = at THEN item ELSE t.items[i]
             /\ at \notin 0 .. t.size - 1 => u = t
<1> DEFINE u == Put(t, at, item)
           f == [i \in 0 .. t.size - 1 |-> IF i = at THEN item ELSE t.items[i]]
<1>1. /\ t.size \in Nat /\ t.items \in [0 .. t.size - 1 -> Item \cup {Nothing}]
      /\ t = [items |-> t.items, size |-> t.size]
  BY TableType
<1>2. DOMAIN t.items = 0 .. t.size - 1
  BY <1>1
<1>3. u = [items |-> f, size |-> t.size]
  BY <1>1, <1>2 DEF Put
<1>4. f \in [0 .. t.size - 1 -> Item \cup {Nothing}]
  BY <1>1
<1>5. at \notin 0 .. t.size - 1 => f = t.items
  BY <1>1
<1> HIDE DEF u
<1>6. u.items = f /\ u.size = t.size
  BY <1>3
<1> HIDE DEF f
<1>7. u \in Table
  BY <1>1, <1>3, <1>4, <1>6, TableType
<1>8. at \notin 0 .. t.size - 1 => u = t
  BY <1>1, <1>3, <1>5
<1> QED
  BY <1>6, <1>7, <1>8 DEF u, f

\* An index that a setter comes to is that of the key, if the key is there.
LEMMA SetterIs ==
  ASSUME NEW t \in Table, t.size > 0, IsSeen(t.size), IsRight(t), NEW c \in CallOfSet,
         c.resizes > 0 => ~ Has(t, c.key)
  PROVE  LET at == SetterIndex(t, c)
         IN  /\ at = ERR_NO_VALID_ITEM_INDEX => ~ Has(t, c.key)
             /\ at # ERR_NO_VALID_ITEM_INDEX =>
                  /\ at \in 0 .. t.size - 1
                  /\ \E j \in 0 .. CONSEC_COLLISION_LIMIT - 1 : Probe(t, c.key, j) = at
                  /\ \A i \in Used(t) : t.items[i].key = c.key <=> i = at
<1> DEFINE at == SetterIndex(t, c)
<1>1. c.key \in Key /\ c.resizes \in Nat
  BY Constants DEF CallOfSet
<1>2. CASE Has(t, c.key)
  <2>1. PICK i \in Used(t) : t.items[i].key = c.key
    BY <1>2 DEF Has
  <2>2. Hits(t, c.key) # {} /\ get_exist_item_index(t, c.key) = i
    BY <2>1, Found
  <2>3. at = i
    BY <1>1, <1>2, <2>2 DEF SetterIndex
  <2>4. i \in 0 .. t.size - 1
    BY UsedIs
  <2>5. \E j \in 0 .. CONSEC_COLLISION_LIMIT - 1 : Probe(t, c.key, j) = i
    BY <2>1 DEF IsRight, IsFound
  <2>6. \A x \in Used(t) : t.items[x].key = c.key <=> x = i
    BY <2>1 DEF IsRight, IsOnce
  <2> QED
    BY <1>2, <2>3, <2>4, <2>5, <2>6, TableType DEF ERR_NO_VALID_ITEM_INDEX
<1>3. CASE ~ Has(t, c.key)
  <2> DEFINE js == Gaps(t, c.key, c.resizes)
  <2>1. at = FirstOf(t, c.key, js)
    BY <1>1, <1>3, NotFound DEF SetterIndex
  <2>2. SUFFICES ASSUME at # ERR_NO_VALID_ITEM_INDEX
                 PROVE  /\ at \in 0 .. t.size - 1
                        /\ \E j \in 0 .. CONSEC_COLLISION_LIMIT - 1 : Probe(t, c.key, j) = at
                        /\ \A i \in Used(t) : t.items[i].key = c.key <=> i = at
    BY <1>3
  <2>3. js \in SUBSET (0 .. CONSEC_COLLISION_LIMIT)
    BY DEF Gaps
  <2>4. /\ at \in 0 .. t.size - 1
        /\ \E j \in js : at = Probe(t, c.key, j)
    BY <1>1, <2>1, <2>2, <2>3, FirstOfIs
  <2>5. PICK j \in js : at = Probe(t, c.key, j)
    BY <2>4
  <2>6. t.items[at] = Nothing
    BY <2>5 DEF Gaps
  <2>7. \E i \in 0 .. CONSEC_COLLISION_LIMIT - 1 : Probe(t, c.key, i) = at
    BY <1>1, <2>3, <2>5, SeenProbe
  <2>8. at \notin Used(t)
    BY <2>4, <2>6, UsedIs
  <2> QED
    BY <1>3, <2>4, <2>7, <2>8 DEF Has
<1> QED
  BY <1>2, <1>3

LEMMA PutRight ==
  ASSUME NEW t \in Table, IsRight(t), NEW item \in Item, NEW at \in 0 .. t.size - 1,
         \E j \in 0 .. CONSEC_COLLISION_LIMIT - 1 : Probe(t, item.key, j) = at,
         \A i \in Used(t) : t.items[i].key = item.key <=> i = at
  PROVE  LET u == Put(t, at, item)
         IN  /\ IsRight(u)
             /\ Used(u) = Used(t) \cup {at}
             /\ ~ Has(t, item.key) => Held(u) = Held(t) \cup {item}
<1> DEFINE u == Put(t, at, item)
<1>1. /\ u \in Table /\ u.size = t.size
      /\ \A i \in 0 .. t.size - 1 : u.items[i] = IF i = at THEN item ELSE t.items[i]
  BY PutIs
<1>2. \A k, j : Probe(u, k, j) = Probe(t, k, j)
  BY <1>1 DEF Probe
<1> HIDE DEF u
<1>3. /\ Used(u) \subseteq 0 .. t.size - 1
      /\ \A i \in 0 .. t.size - 1 : i \notin Used(u) <=> u.items[i] = Nothing
  BY <1>1, UsedIs
<1>4. Used(u) = Used(t) \cup {at}
  BY <1>1, <1>3, UsedIs, Constants
<1>5. IsFound(u)
  <2> SUFFICES ASSUME NEW i \in Used(u)
               PROVE  \E j \in 0 .. CONSEC_COLLISION_LIMIT - 1 : Probe(t, u.items[i].key, j) = i
    BY <1>2 DEF IsFound
  <2>1. CASE i = at
    BY <1>1, <2>1
  <2>2. CASE i # at
    <3>1. i \in Used(t) /\ u.items[i] = t.items[i]
      BY <1>1, <1>4, <2>2, UsedIs
    <3> QED
      BY <3>1 DEF IsRight, IsFound
  <2> QED
    BY <2>1, <2>2
<1>6. IsOnce(u)
  <2> SUFFICES ASSUME NEW i \in Used(u), NEW j \in Used(u), u.items[i].key = u.items[j].key
               PROVE  i = j
    BY DEF IsOnce
  <2>1. \A x \in Used(u) : x # at => x \in Used(t) /\ u.items[x] = t.items[x]
    BY <1>1, <1>4, UsedIs
  <2>2. u.items[at] = item
    BY <1>1
  <2>3. CASE i # at /\ j # at
    BY <2>1, <2>3 DEF IsRight, IsOnce
  <2> QED
    BY <2>1, <2>2, <2>3
<1>7. ASSUME ~ Has(t, item.key) PROVE Held(u) = Held(t) \cup {item}
  <2>1. at \notin Used(t)
    BY <1>7 DEF Has
  <2>2. \A i \in Used(t) : u.items[i] = t.items[i]
    BY <1>1, <2>1, UsedIs
  <2>3. u.items[at] = item
    BY <1>1
  <2> QED
    BY <1>4, <2>2, <2>3 DEF Held
<1> QED
  BY <1>4, <1>5, <1>6, <1>7 DEF IsRight, u

LEMMA StoredIs ==
  ASSUME NEW t \in Table, IsOnce(t)
  PROVE  /\ \A i \in Used(t) : Stored(t, t.items[i].key) = t.items[i].value
         /\ \A k : ~ Has(t, k) => Stored(t, k) = Nothing
<1>1. ASSUME NEW i \in Used(t)
      PROVE  Stored(t, t.items[i].key) = t.items[i].value
  <2> DEFINE k == t.items[i].key
             j == CHOOSE j \in Used(t) : t.items[j].key = k
  <2>1. j \in Used(t) /\ t.items[j].key = k
    OBVIOUS
  <2>2. j = i
    BY <2>1 DEF IsOnce
  <2>3. Stored(t, k) = t.items[j].value
    BY DEF Stored
  <2> QED
    BY <2>2, <2>3
<1> QED
  BY <1>1 DEF Stored, Has

\* What is stored depends on what is held, not on where.
LEMMA StoredHeld ==
  ASSUME NEW t \in Table, IsOnce(t), NEW u \in Table, IsOnce(u), Held(t) = Held(u), NEW k
  PROVE  Stored(t, k) = Stored(u, k)
<1>1. CASE Has(t, k)
  <2>1. PICK i \in Used(t) : t.items[i].key = k
    BY <1>1 DEF Has
  <2>2. t.items[i] \in Held(u)
    BY DEF Held
  <2>3. PICK j \in Used(u) : u.items[j] = t.items[i]
    BY <2>2 DEF Held
  <2>4. Stored(t, t.items[i].key) = t.items[i].value
    BY StoredIs
  <2>5. Stored(u, u.items[j].key) = u.items[j].value
    BY StoredIs
  <2> QED
    BY <2>1, <2>3, <2>4, <2>5
<1>2. CASE ~ Has(t, k)
  <2>1. ~ Has(u, k)
    <3> SUFFICES ASSUME NEW j \in Used(u), u.items[j].key = k PROVE FALSE
      BY DEF Has
    <3>1. u.items[j] \in Held(t)
      BY DEF Held
    <3>2. PICK i \in Used(t) : t.items[i] = u.items[j]
      BY <3>1 DEF Held
    <3> QED
      BY <1>2, <3>2 DEF Has
  <2> QED
    BY <1>2, <2>1, StoredIs
<1> QED
  BY <1>1, <1>2

LEMMA StoredPut ==
  ASSUME NEW t \in Table, IsRight(t), NEW item \in Item, NEW at \in 0 .. t.size - 1,
         \E j \in 0 .. CONSEC_COLLISION_LIMIT - 1 : Probe(t, item.key, j) = at,
         \A i \in Used(t) : t.items[i].key = item.key <=> i = at,
         NEW k
  PROVE  Stored(Put(t, at, item), k) = IF k = item.key THEN item.value ELSE Stored(t, k)
<1> DEFINE u == Put(t, at, item)
<1>1. /\ u \in Table
      /\ \A i \in 0 .. t.size - 1 : u.items[i] = IF i = at THEN item ELSE t.items[i]
  BY PutIs
<1>2. IsOnce(t) /\ IsOnce(u) /\ Used(u) = Used(t) \cup {at}
  BY PutRight DEF IsRight
<1> HIDE DEF u
<1>3. CASE k = item.key
  <2>1. at \in Used(u) /\ u.items[at] = item
    BY <1>1, <1>2
  <2>2. Stored(u, u.items[at].key) = u.items[at].value
    BY <1>1, <1>2, <2>1, StoredIs
  <2> QED
    BY <1>3, <2>1, <2>2 DEF u
<1>4. CASE k # item.key
  <2>1. \A i \in Used(t) : i # at => u.items[i] = t.items[i]
    BY <1>1, UsedIs
  <2>2. CASE Has(t, k)
    <3>1. PICK i \in Used(t) : t.items[i].key = k
      BY <2>2 DEF Has
    <3>2. i # at /\ i \in Used(u) /\ u.items[i] = t.items[i]
      BY <1>2, <1>4, <2>1, <3>1
    <3>3. Stored(u, u.items[i].key) = u.items[i].value
      BY <1>1, <1>2, <3>2, StoredIs
    <3>4. Stored(t, t.items[i].key) = t.items[i].value
      BY <1>2, StoredIs
    <3> QED
      BY <1>4, <3>1, <3>2, <3>3, <3>4 DEF u
  <2>3. CASE ~ Has(t, k)
    <3>1. ~ Has(u, k)
      <4> SUFFICES ASSUME NEW i \in Used(u), u.items[i].key = k PROVE FALSE
        BY DEF Has
      <4>1. i # at
        BY <1>1, <1>4
      <4> QED
        BY <1>2, <2>1, <2>3, <4>1 DEF Has
    <3>2. Stored(t, k) = Nothing /\ Stored(u, k) = Nothing
      BY <1>1, <1>2, <2>3, <3>1, StoredIs
    <3> QED
      BY <1>4, <3>2 DEF u
  <2> QED
    BY <2>2, <2>3
<1> QED
  BY <1>3, <1>4

LEMMA DeleteRight ==
  ASSUME NEW t \in Table, t.size > 0, IsRight(t), NEW k \in Key
  PROVE  LET u == Put(t, get_exist_item_index(t, k), Nothing)
         IN  /\ IsRight(u)
             /\ \A q : Stored(u, q) = IF q = k THEN Nothing ELSE Stored(t, q)
<1> DEFINE at == get_exist_item_index(t, k)
           u  == Put(t, at, Nothing)
<1>1. CASE ~ Has(t, k)
  <2>1. at \notin 0 .. t.size - 1
    BY <1>1, NotFound, TableType DEF ERR_NO_VALID_ITEM_INDEX
  <2>2. u = t
    BY <2>1, PutIs
  <2>3. Stored(t, k) = Nothing
    BY <1>1, StoredIs DEF IsRight
  <2> QED
    BY <2>2, <2>3
<1>2. CASE Has(t, k)
  <2>1. PICK i \in Used(t) : t.items[i].key = k
    BY <1>2 DEF Has
  <2>2. at = i
    BY <2>1, Found
  <2>3. /\ u \in Table /\ u.size = t.size
        /\ \A x \in 0 .. t.size - 1 : u.items[x] = IF x = i THEN Nothing ELSE t.items[x]
    BY <2>2, PutIs
  <2>4. \A q, j : Probe(u, q, j) = Probe(t, q, j)
    BY <2>3 DEF Probe
  <2> HIDE DEF at, u
  <2>5. Used(u) = Used(t) \ {i}
    BY <2>3, UsedIs
  <2>6. \A x \in Used(u) : u.items[x] = t.items[x] /\ x # i
    BY <2>3, <2>5, UsedIs
  <2>7. IsOnce(t) /\ IsOnce(u)
    BY <2>5, <2>6 DEF IsRight, IsOnce
  <2>8. IsFound(u)
    BY <2>4, <2>5, <2>6 DEF IsRight, IsFound
  <2>9. ASSUME NEW q
        PROVE  Stored(u, q) = IF q = k THEN Nothing ELSE Stored(t, q)
    <3>1. CASE q = k
      <4>1. ~ Has(u, k)
        BY <2>1, <2>5, <2>6, <2>7 DEF Has, IsOnce
      <4> QED
        BY <2>3, <2>7, <3>1, <4>1, StoredIs
    <3>2. CASE q # k /\ Has(u, q)
      <4>1. PICK x \in Used(u) : u.items[x].key = q
        BY <3>2 DEF Has
      <4>2. Stored(u, u.items[x].key) = u.items[x].value
        BY <2>3, <2>7, StoredIs
      <4>3. x \in Used(t)
        BY <2>5
      <4>4. Stored(t, t.items[x].key) = t.items[x].value
        BY <2>7, <4>3, StoredIs
      <4> QED
        BY <2>6, <3>2, <4>1, <4>2, <4>4
    <3>3. CASE q # k /\ ~ Has(u, q)
      <4>1. ~ Has(t, q)
        <5> SUFFICES ASSUME NEW x \in Used(t), t.items[x].key = q PROVE FALSE
          BY DEF Has
        <5>1. x # i /\ x \in Used(u) /\ u.items[x] = t.items[x]
          BY <2>1, <2>5, <2>6, <3>3
        <5> QED
          BY <3>3, <5>1 DEF Has
      <4> QED
        BY <2>3, <2>7, <3>3, <4>1, StoredIs
    <3> QED
      BY <3>1, <3>2, <3>3
  <2> QED
    BY <2>7, <2>8, <2>9 DEF IsRight, u, at
<1> QED
  BY <1>1, <1>2

LEMMA NewIs ==
  ASSUME NEW s \in Nat
  PROVE  LET t == Hashmap_new(s)
         IN  /\ t \in Table /\ t.size = s
             /\ Used(t) = {} /\ Held(t) = {} /\ IsRight(t)
             /\ \A k : ~ Has(t, k)
<1> DEFINE t == Hashmap_new(s)
<1>1. t.size = s /\ t.items = [i \in 0 .. s - 1 |-> Nothing]
  BY DEF Hashmap_new
<1>2. t \in Table
  BY <1>1, TableType DEF Hashmap_new
<1> HIDE DEF t
<1>3. Used(t) = {}
  BY <1>1 DEF Used
<1> QED
  BY <1>1, <1>2, <1>3 DEF Held, IsRight, IsFound, IsOnce, Has, t

-----------------------------------------------------------------------------
(* What the steps do to the two sequences.                                  *)

LEMMA CallType ==
  ASSUME NEW c
  PROVE  c \in CallOfSet <=> /\ c.key \in Key /\ c.value \in Address
                             /\ c.resizes \in 0 .. CONSEC_RESIZE_LIMIT /\ c.next \in Nat
                             /\ c = [key |-> c.key, value |-> c.value,
                                     resizes |-> c.resizes, next |-> c.next]
BY DEF CallOfSet

LEMMA StackedIs ==
  ASSUME Stacked
  PROVE  /\ Len(tables) \in Nat /\ Len(tables) > 0 /\ Len(calls) \in Nat
         /\ DOMAIN tables = 1 .. Len(tables) /\ DOMAIN calls = 1 .. Len(calls)
         /\ Len(tables) = Len(calls) \/ Len(tables) = Len(calls) + 1
         /\ calls = <<>> <=> Len(calls) = 0
         /\ \A n \in 1 .. Len(tables) : tables[n] \in Table /\ tables[n].size \in Nat
         /\ \A n \in 1 .. Len(calls) :
              /\ calls[n] \in CallOfSet
              /\ calls[n].key \in Key /\ calls[n].value \in Address
              /\ calls[n].resizes \in 0 .. CONSEC_RESIZE_LIMIT
              /\ ItemOf(calls[n]) \in Item /\ ItemOf(calls[n]).key = calls[n].key
<1>1. /\ tables \in Seq(Table) /\ calls \in Seq(CallOfSet)
      /\ Len(tables) \in {Len(calls), Len(calls) + 1} \ {0}
  BY DEF Stacked
<1>2. \A n \in 1 .. Len(tables) : tables[n] \in Table /\ tables[n].size \in Nat
  BY <1>1, TableType
<1>3. ASSUME NEW n \in 1 .. Len(calls)
      PROVE  /\ calls[n] \in CallOfSet
             /\ calls[n].key \in Key /\ calls[n].value \in Address
             /\ calls[n].resizes \in 0 .. CONSEC_RESIZE_LIMIT
             /\ ItemOf(calls[n]) \in Item /\ ItemOf(calls[n]).key = calls[n].key
  BY <1>1, <1>3, CallType DEF ItemOf, Item
<1> QED
  BY <1>1, <1>2, <1>3, EmptySeq

LEMMA NextIs ==
  ASSUME Stacked, NEW d \in 1 .. Len(calls), NEW x \in Nat
  PROVE  LET new == [calls EXCEPT ![d].next = x]
         IN  /\ new \in Seq(CallOfSet) /\ Len(new) = Len(calls)
             /\ \A n \in 1 .. Len(calls) : n # d => new[n] = calls[n]
             /\ new[d].key = calls[d].key /\ new[d].value = calls[d].value
             /\ new[d].resizes = calls[d].resizes /\ new[d].next = x
<1> DEFINE c == calls[d]
           e == [c EXCEPT !.next = x]
<1>1. c \in CallOfSet /\ calls \in Seq(CallOfSet)
  BY StackedIs DEF Stacked
<1>2. /\ e.key = c.key /\ e.value = c.value /\ e.resizes = c.resizes /\ e.next = x
      /\ e \in CallOfSet
  BY <1>1 DEF CallOfSet
<1>3. [calls EXCEPT ![d].next = x] = [calls EXCEPT ![d] = e]
  OBVIOUS
<1> HIDE DEF e
<1>4. /\ [calls EXCEPT ![d] = e] \in Seq(CallOfSet)
      /\ Len([calls EXCEPT ![d] = e]) = Len(calls)
      /\ \A j \in 1 .. Len(calls) : [calls EXCEPT ![d] = e][j] = IF j = d THEN e ELSE calls[j]
  BY <1>1, <1>2, ExceptSeq
<1> QED
  BY <1>2, <1>3, <1>4

LEMMA ResizesIs ==
  ASSUME Stacked, NEW d \in 1 .. Len(calls), calls[d].resizes < CONSEC_RESIZE_LIMIT
  PROVE  LET new == [calls EXCEPT ![d].resizes = @ + 1]
         IN  /\ new \in Seq(CallOfSet) /\ Len(new) = Len(calls)
             /\ \A n \in 1 .. Len(calls) : n # d => new[n] = calls[n]
             /\ new[d].key = calls[d].key /\ new[d].value = calls[d].value
             /\ new[d].resizes = calls[d].resizes + 1
<1> DEFINE c == calls[d]
           e == [c EXCEPT !.resizes = @ + 1]
<1>1. c \in CallOfSet /\ calls \in Seq(CallOfSet)
  BY StackedIs DEF Stacked
<1>2. /\ e.key = c.key /\ e.value = c.value /\ e.resizes = c.resizes + 1
      /\ e \in CallOfSet
  <2>1. c.resizes + 1 \in 0 .. CONSEC_RESIZE_LIMIT
    <3>1. calls[d].resizes \in 0 .. CONSEC_RESIZE_LIMIT /\ CONSEC_RESIZE_LIMIT \in Nat
      BY StackedIs, Constants
    <3> QED
      BY <3>1
  <2>2. e = [c EXCEPT !.resizes = c.resizes + 1]
    OBVIOUS
  <2> QED
    BY <1>1, <2>1, <2>2 DEF CallOfSet
<1>3. [calls EXCEPT ![d].resizes = @ + 1] = [calls EXCEPT ![d] = e]
  OBVIOUS
<1> HIDE DEF e
<1>4. /\ [calls EXCEPT ![d] = e] \in Seq(CallOfSet)
      /\ Len([calls EXCEPT ![d] = e]) = Len(calls)
      /\ \A j \in 1 .. Len(calls) : [calls EXCEPT ![d] = e][j] = IF j = d THEN e ELSE calls[j]
  BY <1>1, <1>2, ExceptSeq
<1> QED
  BY <1>2, <1>3, <1>4

LEMMA FrontIs ==
  ASSUME NEW S, NEW s \in Seq(S), NEW n \in 0 .. Len(s)
  PROVE  /\ SubSeq(s, 1, n) \in Seq(S) /\ Len(SubSeq(s, 1, n)) = n
         /\ \A i \in 1 .. n : SubSeq(s, 1, n)[i] = s[i]
<1>1. \A i \in 1 .. n : s[i] \in S
  BY LenProperties
<1> QED
  BY <1>1, SubSeqProperties

LEMMA PutItemIs ==
  ASSUME Stacked, PutItem
  PROVE  LET d  == Len(calls)
             c  == calls[d]
             at == SetterIndex(tables[d], c)
         IN  /\ d > 0 /\ Len(tables) = d /\ defined /\ ~ freed
             /\ tables' \in Seq(Table) /\ Len(tables') = d
             /\ \A n \in 1 .. d : n # d => tables'[n] = tables[n]
             /\ tables'[d] = Put(tables[d], at, ItemOf(c))
             /\ tables'[d].size = tables[d].size
             /\ calls' \in Seq(CallOfSet) /\ Len(calls') = d - 1
             /\ \A n \in 1 .. d - 1 : calls'[n] = calls[n]
             /\ defined' = (at # ERR_NO_VALID_ITEM_INDEX)
             /\ UNCHANGED <<got, freed>>
<1> DEFINE d  == Len(calls)
           c  == calls[d]
           at == SetterIndex(tables[d], c)
           u  == Put(tables[d], at, ItemOf(c))
<1>1. d \in Nat /\ d > 0 /\ Len(tables) = d /\ defined /\ ~ freed
  BY StackedIs DEF PutItem, IsSetting, Depth, Stacked
<1>2. tables \in Seq(Table) /\ calls \in Seq(CallOfSet)
  BY DEF Stacked
<1>3. u \in Table /\ u.size = tables[d].size
  BY <1>1, StackedIs, PutIs
<1>4. /\ tables' = [tables EXCEPT ![d] = u]
      /\ calls' = SubSeq(calls, 1, d - 1)
      /\ defined' = (at # ERR_NO_VALID_ITEM_INDEX) /\ UNCHANGED <<got, freed>>
  BY DEF PutItem, ItemOf, Depth
<1> HIDE DEF u, at, c
<1>5. /\ tables' \in Seq(Table) /\ Len(tables') = d
      /\ \A n \in 1 .. d : tables'[n] = IF n = d THEN u ELSE tables[n]
  BY <1>1, <1>2, <1>3, <1>4, ExceptSeq
<1>6. /\ calls' \in Seq(CallOfSet) /\ Len(calls') = d - 1
      /\ \A n \in 1 .. d - 1 : calls'[n] = calls[n]
  BY <1>1, <1>2, <1>4, FrontIs
<1> QED
  BY <1>1, <1>3, <1>4, <1>5, <1>6 DEF u, at, c

LEMMA ResizeIs ==
  ASSUME Stacked, Hashmap_resize
  PROVE  LET d  == Len(calls)
             c  == calls[d]
         IN  /\ d > 0 /\ Len(tables) = d /\ defined /\ ~ freed
             /\ SetterIndex(tables[d], c) = ERR_NO_VALID_ITEM_INDEX
             /\ c.resizes < CONSEC_RESIZE_LIMIT
             /\ tables' \in Seq(Table) /\ Len(tables') = d + 1
             /\ \A n \in 1 .. d : tables'[n] = tables[n]
             /\ tables'[d + 1] = Hashmap_new(tables[d].size * RESIZE_RATIO)
             /\ tables'[d + 1].size = tables[d].size * RESIZE_RATIO
             /\ calls' \in Seq(CallOfSet) /\ Len(calls') = d
             /\ \A n \in 1 .. d : n # d => calls'[n] = calls[n]
             /\ calls'[d].key = c.key /\ calls'[d].value = c.value
             /\ calls'[d].resizes = c.resizes /\ calls'[d].next = 0
             /\ UNCHANGED <<defined, got, freed>>
<1> DEFINE d  == Len(calls)
           u  == Hashmap_new(tables[d].size * RESIZE_RATIO)
<1>1. d \in Nat /\ d > 0 /\ Len(tables) = d /\ defined /\ ~ freed
  BY StackedIs DEF Hashmap_resize, IsSetting, Depth, Stacked
<1>2. tables \in Seq(Table)
  BY DEF Stacked
<1>3. u \in Table /\ u.size = tables[d].size * RESIZE_RATIO
  <2>1. tables[d].size * RESIZE_RATIO \in Nat
    BY <1>1, StackedIs, Constants
  <2> QED
    BY <2>1, NewIs
<1>4. /\ tables' = Append(tables, u)
      /\ calls' = [calls EXCEPT ![d].next = 0]
      /\ SetterIndex(tables[d], calls[d]) = ERR_NO_VALID_ITEM_INDEX
      /\ calls[d].resizes < CONSEC_RESIZE_LIMIT
      /\ UNCHANGED <<defined, got, freed>>
  BY DEF Hashmap_resize, Depth
<1> HIDE DEF u
<1>5. /\ tables' \in Seq(Table) /\ Len(tables') = d + 1
      /\ \A n \in 1 .. d : tables'[n] = tables[n]
      /\ tables'[d + 1] = u
  BY <1>1, <1>2, <1>3, <1>4, AppendProperties
<1>6. /\ calls' \in Seq(CallOfSet) /\ Len(calls') = d
      /\ \A n \in 1 .. d : n # d => calls'[n] = calls[n]
      /\ calls'[d].key = calls[d].key /\ calls'[d].value = calls[d].value
      /\ calls'[d].resizes = calls[d].resizes /\ calls'[d].next = 0
  BY <1>1, <1>4, NextIs
<1> QED
  BY <1>1, <1>3, <1>4, <1>5, <1>6 DEF u

\* The bucket the resize has come to is empty, or a call begins.
LEMMA SetAgainIs ==
  ASSUME Stacked, SetAgain
  PROVE  LET d    == Len(calls)
             c    == calls[d]
             item == tables[d].items[c.next]
         IN  /\ d > 0 /\ Len(tables) = d + 1 /\ defined /\ ~ freed
             /\ c.next \in 0 .. tables[d].size - 1
             /\ calls' \in Seq(CallOfSet)
             /\ \A n \in 1 .. d : n # d => calls'[n] = calls[n]
             /\ calls'[d].key = c.key /\ calls'[d].value = c.value
             /\ calls'[d].resizes = c.resizes /\ calls'[d].next = c.next + 1
             /\ item = Nothing => Len(calls') = d
             /\ item # Nothing => /\ item \in Item
                                  /\ Len(calls') = d + 1
                                  /\ calls'[d + 1] = Call(item.key, item.value)
             /\ UNCHANGED <<tables, defined, got, freed>>
<1> DEFINE d    == Len(calls)
           c    == calls[d]
           item == tables[d].items[c.next]
           x    == c.next + 1
           on   == [calls EXCEPT ![d].next = @ + 1]
<1>1. d \in Nat /\ d > 0 /\ Len(tables) = d + 1 /\ defined /\ ~ freed
  BY StackedIs DEF SetAgain, IsResizing, Depth, Stacked
<1>2. c \in CallOfSet /\ c.next \in Nat /\ tables[d] \in Table /\ tables[d].size \in Nat
  BY <1>1, StackedIs, CallType
<1>3. /\ c.next < tables[d].size
      /\ calls' = IF item = Nothing THEN on ELSE Append(on, Call(item.key, item.value))
      /\ UNCHANGED <<tables, defined, got, freed>>
  BY DEF SetAgain, Depth
<1>4. on = [calls EXCEPT ![d].next = x] /\ x \in Nat
  BY <1>2
<1> HIDE DEF on, x
<1>5. /\ on \in Seq(CallOfSet) /\ Len(on) = d
      /\ \A n \in 1 .. d : n # d => on[n] = calls[n]
      /\ on[d].key = c.key /\ on[d].value = c.value
      /\ on[d].resizes = c.resizes /\ on[d].next = c.next + 1
  <2>1. d \in 1 .. Len(calls)
    BY <1>1
  <2> QED
    BY <1>4, <2>1, NextIs DEF x
<1>6. item # Nothing => item \in Item
  BY <1>2, <1>3, TableType
<1>7. item \in Item => Call(item.key, item.value) \in CallOfSet
  BY Constants DEF Call, CallOfSet, Item
<1> HIDE DEF item, c
<1>8. CASE item = Nothing
  BY <1>1, <1>2, <1>3, <1>5, <1>8 DEF item, c
<1>9. CASE item # Nothing
  <2>1. /\ calls' \in Seq(CallOfSet) /\ Len(calls') = d + 1
        /\ \A n \in 1 .. d : calls'[n] = on[n]
        /\ calls'[d + 1] = Call(item.key, item.value)
    BY <1>3, <1>5, <1>6, <1>7, <1>9, AppendProperties
  <2>2. /\ \A n \in 1 .. d : n # d => calls'[n] = calls[n]
        /\ calls'[d] = on[d]
    BY <1>1, <1>5, <2>1
  <2>3. /\ calls'[d].key = c.key /\ calls'[d].value = c.value
        /\ calls'[d].resizes = c.resizes /\ calls'[d].next = c.next + 1
    BY <1>5, <2>2
  <2>4. c.next \in 0 .. tables[d].size - 1
    BY <1>2, <1>3 DEF c
  <2>5. item \in Item
    BY <1>6, <1>9
  <2> HIDE DEF d
  <2> QED
    BY <1>1, <1>3, <1>9, <2>1, <2>2, <2>3, <2>4, <2>5 DEF item, c, d
<1> QED
  BY <1>8, <1>9

LEMMA ReplaceIs ==
  ASSUME Stacked, ReplaceTable
  PROVE  LET d == Len(calls)
             c == calls[d]
         IN  /\ d > 0 /\ Len(tables) = d + 1 /\ defined /\ ~ freed
             /\ c.next = tables[d].size
             /\ tables' \in Seq(Table) /\ Len(tables') = d
             /\ \A n \in 1 .. d : n # d => tables'[n] = tables[n]
             /\ tables'[d] = tables[d + 1]
             /\ calls' \in Seq(CallOfSet) /\ Len(calls') = d
             /\ \A n \in 1 .. d : n # d => calls'[n] = calls[n]
             /\ calls'[d].key = c.key /\ calls'[d].value = c.value
             /\ calls'[d].resizes = c.resizes + 1
             /\ UNCHANGED <<defined, got, freed>>
<1> DEFINE d     == Len(calls)
           front == SubSeq(tables, 1, d - 1)
           last  == <<tables[d + 1]>>
<1>1. d \in Nat /\ d > 0 /\ Len(tables) = d + 1 /\ defined /\ ~ freed
  BY StackedIs DEF ReplaceTable, IsResizing, Depth, Stacked
<1>2. /\ calls[d].next = tables[d].size
      /\ tables' = front \o last
      /\ calls' = [calls EXCEPT ![d].resizes = @ + 1]
      /\ UNCHANGED <<defined, got, freed>>
  BY DEF ReplaceTable, Depth
<1>3. /\ front \in Seq(Table) /\ Len(front) = d - 1
      /\ \A n \in 1 .. d - 1 : front[n] = tables[n]
  <2>1. tables \in Seq(Table) /\ d - 1 \in 0 .. Len(tables)
    BY <1>1 DEF Stacked
  <2> QED
    BY <2>1, FrontIs
<1>4. last \in Seq(Table) /\ Len(last) = 1 /\ last[1] = tables[d + 1]
  BY <1>1, StackedIs
<1> HIDE DEF front, last
<1>5. /\ tables' \in Seq(Table) /\ Len(tables') = d
      /\ \A n \in 1 .. d : tables'[n] = IF n <= d - 1 THEN front[n] ELSE last[n - (d - 1)]
  <2>1. /\ front \o last \in Seq(Table)
        /\ Len(front \o last) = Len(front) + Len(last)
        /\ \A n \in 1 .. Len(front) + Len(last) :
             (front \o last)[n] = IF n <= Len(front) THEN front[n] ELSE last[n - Len(front)]
    BY <1>3, <1>4, ConcatProperties
  <2>2. Len(front) + Len(last) = d
    BY <1>1, <1>3, <1>4
  <2> QED
    BY <1>2, <1>3, <2>1, <2>2
<1>6. /\ \A n \in 1 .. d : n # d => tables'[n] = tables[n]
      /\ tables'[d] = tables[d + 1]
  BY <1>1, <1>3, <1>4, <1>5
<1>7. calls[d].resizes < CONSEC_RESIZE_LIMIT
  BY <1>1 DEF Stacked
<1>8. /\ calls' \in Seq(CallOfSet) /\ Len(calls') = d
      /\ \A n \in 1 .. d : n # d => calls'[n] = calls[n]
      /\ calls'[d].key = calls[d].key /\ calls'[d].value = calls[d].value
      /\ calls'[d].resizes = calls[d].resizes + 1
  BY <1>1, <1>2, <1>7, ResizesIs
<1> QED
  BY <1>1, <1>2, <1>5, <1>6, <1>8

-----------------------------------------------------------------------------
(* The steps of a call keep the invariant.                                  *)

\* Whether a smaller table is seen if the one a resize fills is.
LEMMA SeenBelow ==
  ASSUME Stacked, ~ freed, NEW n \in 1 .. Len(tables) - 1, IsSeen(tables[n + 1].size)
  PROVE  IsSeen(tables[n].size)
BY DEF Stacked

\* What the call at the bottom of the stack may rely on.
LEMMA SetterReady ==
  ASSUME MapInv, defined, ~ freed, Len(calls) > 0, Len(tables) = Len(calls),
         IsSeen(tables[Len(calls)].size)
  PROVE  LET d == Len(calls)
         IN  /\ tables[d] \in Table /\ tables[d].size > 0 /\ IsRight(tables[d])
             /\ calls[d] \in CallOfSet
             /\ d > 1 \/ calls[d].resizes > 0 => ~ Has(tables[d], calls[d].key)
<1> DEFINE d == Len(calls)
<1>1. d \in 1 .. Len(calls) /\ d \in 1 .. Len(tables)
  BY StackedIs DEF MapInv
<1>2. tables[d] \in Table /\ calls[d] \in CallOfSet
  BY <1>1, StackedIs DEF MapInv
<1>3. tables[d].size > 0
  BY <1>1 DEF MapInv, Stacked
<1>4. IsRight(tables[d])
  BY <1>1 DEF MapInv, Right
<1>5. d > 1 \/ calls[d].resizes > 0 => ~ Has(tables[d], calls[d].key)
  BY <1>1 DEF MapInv, Absent
<1> QED
  BY <1>2, <1>3, <1>4, <1>5

LEMMA PutItemStacked ==
  ASSUME MapInv, PutItem PROVE Stacked'
<1> DEFINE d == Len(calls)
<1>1. /\ d > 0 /\ Len(tables) = d /\ defined /\ ~ freed
      /\ tables' \in Seq(Table) /\ Len(tables') = d
      /\ \A n \in 1 .. d : n # d => tables'[n] = tables[n]
      /\ tables'[d].size = tables[d].size
      /\ calls' \in Seq(CallOfSet) /\ Len(calls') = d - 1
      /\ \A n \in 1 .. d - 1 : calls'[n] = calls[n]
      /\ defined' \in BOOLEAN
      /\ UNCHANGED <<got, freed>>
  BY PutItemIs DEF MapInv
<1>2. d \in Nat /\ Stacked
  BY StackedIs DEF MapInv
<1>3. \A n \in 1 .. d : tables'[n].size = tables[n].size
  BY <1>1, <1>2
<1>4. ASSUME NEW n \in 1 .. Len(tables') - 1
      PROVE  /\ calls'[n].next \in 0 .. tables'[n].size
             /\ calls'[n].resizes < CONSEC_RESIZE_LIMIT
             /\ IsSeen(tables'[n + 1].size) => IsSeen(tables'[n].size)
  <2>1. n \in 1 .. Len(tables) - 1 /\ n \in 1 .. d /\ n + 1 \in 1 .. d /\ n \in 1 .. d - 1
    BY <1>1, <1>2
  <2> QED
    BY <1>1, <1>2, <1>3, <2>1 DEF Stacked
<1>5. Len(tables') \in {Len(calls'), Len(calls') + 1} \ {0}
  BY <1>1, <1>2
<1>6. \A n \in 1 .. Len(tables') : tables'[n].size > 0
  BY <1>1, <1>2, <1>3 DEF Stacked
<1> QED
  BY <1>1, <1>2, <1>4, <1>5, <1>6 DEF Stacked

LEMMA PutItemInv ==
  ASSUME MapInv, PutItem PROVE MapInv'
<1> DEFINE d  == Len(calls)
           c  == calls[d]
           at == SetterIndex(tables[d], c)
<1>1. /\ d > 0 /\ Len(tables) = d /\ defined /\ ~ freed
      /\ tables' \in Seq(Table) /\ Len(tables') = d
      /\ \A n \in 1 .. d : n # d => tables'[n] = tables[n]
      /\ tables'[d] = Put(tables[d], at, ItemOf(c))
      /\ tables'[d].size = tables[d].size
      /\ calls' \in Seq(CallOfSet) /\ Len(calls') = d - 1
      /\ \A n \in 1 .. d - 1 : calls'[n] = calls[n]
      /\ defined' = (at # ERR_NO_VALID_ITEM_INDEX)
  BY PutItemIs DEF MapInv
<1>2. d \in Nat /\ Stacked
  BY StackedIs DEF MapInv
<1>3. ASSUME IsSeen(tables[d].size)
      PROVE  /\ IsRight(tables'[d])
             /\ defined' /\ d > 1 => Held(tables'[d]) = Held(tables[d]) \cup {ItemOf(c)}
  <2>1. /\ tables[d] \in Table /\ tables[d].size > 0 /\ IsRight(tables[d])
        /\ c \in CallOfSet
        /\ d > 1 \/ c.resizes > 0 => ~ Has(tables[d], c.key)
    BY <1>1, <1>3, SetterReady
  <2>2. ItemOf(c) \in Item /\ ItemOf(c).key = c.key
    <3>1. d \in 1 .. Len(calls)
      BY <1>1, <1>2
    <3> QED
      BY <1>2, <3>1, StackedIs
  <2> HIDE DEF c
  <2>3. CASE at = ERR_NO_VALID_ITEM_INDEX
    <3>1. at \notin 0 .. tables[d].size - 1
      BY <2>3, <2>1, TableType DEF ERR_NO_VALID_ITEM_INDEX
    <3>2. tables'[d] = tables[d]
      BY <1>1, <2>1, <2>2, <3>1, PutIs
    <3> QED
      BY <1>1, <2>1, <2>3, <3>2
  <2>4. CASE at # ERR_NO_VALID_ITEM_INDEX
    <3>1. /\ at \in 0 .. tables[d].size - 1
          /\ \E j \in 0 .. CONSEC_COLLISION_LIMIT - 1 : Probe(tables[d], c.key, j) = at
          /\ \A i \in Used(tables[d]) : tables[d].items[i].key = c.key <=> i = at
      BY <1>3, <2>1, <2>4, SetterIs
    <3> HIDE DEF at
    <3>2. /\ IsRight(Put(tables[d], at, ItemOf(c)))
          /\ ~ Has(tables[d], ItemOf(c).key) =>
               Held(Put(tables[d], at, ItemOf(c))) = Held(tables[d]) \cup {ItemOf(c)}
      BY <2>1, <2>2, <3>1, PutRight
    <3> QED
      BY <1>1, <2>1, <2>2, <3>2
  <2> QED
    BY <2>3, <2>4
<1> HIDE DEF at
<1>4. Stacked'
  BY PutItemStacked
<1>5. Right'
  <2> SUFFICES ASSUME NEW n \in 1 .. d, IsSeen(tables'[n].size)
               PROVE  IsRight(tables'[n])
    BY <1>1 DEF Right
  <2>1. CASE n = d
    BY <1>1, <1>3, <2>1
  <2>2. CASE n # d
    BY <1>1, <2>2 DEF MapInv, Right
  <2> QED
    BY <2>1, <2>2
<1>6. Absent'
  <2> SUFFICES ASSUME NEW n \in 1 .. d - 1, IsSeen(tables'[n].size)
               PROVE  ~ Has(tables'[n], calls'[n].key)
    BY <1>1 DEF Absent
  <2>1. /\ n \in 1 .. d /\ n # d /\ n < Len(tables)
        /\ tables'[n] = tables[n] /\ calls'[n] = calls[n]
    BY <1>1, <1>2
  <2> QED
    BY <1>1, <2>1 DEF MapInv, Absent
<1>7. Moved'
  <2> SUFFICES ASSUME NEW n \in 1 .. d - 1, defined', IsSeen(tables'[n + 1].size)
               PROVE  Below(tables'[n], calls'[n].next) = Held(tables'[n + 1]) \cup Pending(n + 1)'
    BY <1>1 DEF Moved
  <2>1. /\ n \in 1 .. d /\ n # d /\ n \in 1 .. Len(tables) - 1 /\ n + 1 \in 1 .. d
        /\ tables'[n] = tables[n] /\ calls'[n] = calls[n]
    BY <1>1, <1>2
  <2>2. tables'[n + 1].size = tables[n + 1].size
    BY <1>1, <2>1
  <2>3. Below(tables[n], calls[n].next) = Held(tables[n + 1]) \cup Pending(n + 1)
    BY <1>1, <2>1, <2>2 DEF MapInv, Moved
  <2>4. Pending(n + 1) = {ItemOf(calls[n + 1])}
    BY <2>1 DEF Pending
  <2>5. CASE n + 1 = d
    <3>1. Held(tables'[d]) = Held(tables[d]) \cup {ItemOf(c)}
      BY <1>2, <1>3, <2>2, <2>5
    <3>2. Pending(n + 1)' = {}
      BY <1>1, <1>2, <2>5 DEF Pending
    <3> QED
      BY <2>1, <2>3, <2>4, <2>5, <3>1, <3>2
  <2>6. CASE n + 1 # d
    <3>1. n + 1 \in 1 .. d - 1 /\ tables'[n + 1] = tables[n + 1]
      BY <1>1, <2>1, <2>6
    <3>2. Pending(n + 1)' = {ItemOf(calls[n + 1])}
      BY <1>1, <3>1 DEF Pending, ItemOf
    <3> QED
      BY <2>1, <2>3, <2>4, <3>1, <3>2
  <2> QED
    BY <2>5, <2>6
<1> QED
  BY <1>4, <1>5, <1>6, <1>7 DEF MapInv

LEMMA ResizeInv ==
  ASSUME MapInv, Hashmap_resize PROVE MapInv'
<1> DEFINE d == Len(calls)
           s == tables[d].size * RESIZE_RATIO
<1>1. /\ d > 0 /\ Len(tables) = d /\ defined /\ ~ freed
      /\ SetterIndex(tables[d], calls[d]) = ERR_NO_VALID_ITEM_INDEX
      /\ calls[d].resizes < CONSEC_RESIZE_LIMIT
      /\ tables' \in Seq(Table) /\ Len(tables') = d + 1
      /\ \A n \in 1 .. d : tables'[n] = tables[n]
      /\ tables'[d + 1] = Hashmap_new(s)
      /\ tables'[d + 1].size = s
      /\ calls' \in Seq(CallOfSet) /\ Len(calls') = d
      /\ \A n \in 1 .. d : n # d => calls'[n] = calls[n]
      /\ calls'[d].key = calls[d].key /\ calls'[d].value = calls[d].value
      /\ calls'[d].resizes = calls[d].resizes /\ calls'[d].next = 0
      /\ UNCHANGED <<defined, got, freed>>
  BY ResizeIs DEF MapInv
<1>2. d \in Nat /\ Stacked /\ d \in 1 .. d /\ d \in 1 .. Len(tables)
  <2>1. d \in Nat /\ Stacked
    BY StackedIs DEF MapInv
  <2> QED
    BY <1>1, <2>1
<1>3. tables[d].size \in Nat /\ tables[d].size > 0
  BY <1>1, <1>2, StackedIs DEF Stacked
<1>4. s \in Nat /\ s > 0
  BY <1>3, Constants
<1>5. IsSeen(s) => IsSeen(tables[d].size)
  BY <1>3, Constants, SeenSmaller
<1>6. /\ Held(tables'[d + 1]) = {} /\ IsRight(tables'[d + 1])
      /\ \A k : ~ Has(tables'[d + 1], k)
  BY <1>1, <1>4, NewIs
<1> HIDE DEF s
<1>7. Stacked'
  <2>1. ASSUME NEW n \in 1 .. Len(tables') - 1
        PROVE  /\ calls'[n].next \in 0 .. tables'[n].size
               /\ calls'[n].resizes < CONSEC_RESIZE_LIMIT
               /\ IsSeen(tables'[n + 1].size) => IsSeen(tables'[n].size)
    <3>1. n \in 1 .. d /\ tables'[n] = tables[n]
      BY <1>1, <1>2
    <3>2. CASE n = d
      BY <1>1, <1>3, <1>5, <3>1, <3>2
    <3>3. CASE n # d
      <4>1. n \in 1 .. Len(tables) - 1 /\ tables'[n + 1] = tables[n + 1] /\ calls'[n] = calls[n]
        BY <1>1, <1>2, <3>1, <3>3
      <4> QED
        BY <1>2, <3>1, <4>1 DEF Stacked
    <3> QED
      BY <3>2, <3>3
  <2>2. \A n \in 1 .. Len(tables') : tables'[n].size > 0
    <3>1. \A n \in 1 .. d : tables'[n].size > 0
      BY <1>1, <1>2 DEF Stacked
    <3> QED
      BY <1>1, <1>2, <1>4, <3>1
  <2>3. Len(tables') \in {Len(calls'), Len(calls') + 1} \ {0}
    BY <1>1, <1>2
  <2> QED
    BY <1>1, <1>2, <2>1, <2>2, <2>3 DEF Stacked
<1>8. Right'
  <2> SUFFICES ASSUME NEW n \in 1 .. d + 1, IsSeen(tables'[n].size)
               PROVE  IsRight(tables'[n])
    BY <1>1 DEF Right
  <2>1. CASE n = d + 1
    BY <1>6, <2>1
  <2>2. CASE n # d + 1
    <3>1. n \in 1 .. d
      BY <1>2, <2>2
    <3> QED
      BY <1>1, <3>1 DEF MapInv, Right
  <2> QED
    BY <2>1, <2>2
<1>9. Absent'
  <2> SUFFICES ASSUME NEW n \in 1 .. d, IsSeen(tables'[n].size)
               PROVE  ~ Has(tables'[n], calls'[n].key)
    BY <1>1 DEF Absent
  <2>1. tables'[n] = tables[n] /\ calls'[n].key = calls[n].key
    BY <1>1
  <2>2. CASE n # d
    <3>1. n < Len(tables)
      BY <1>1, <1>2, <2>2
    <3> QED
      BY <1>1, <2>1, <3>1 DEF MapInv, Absent
  <2>3. CASE n = d
    <3>1. /\ tables[d] \in Table /\ tables[d].size > 0 /\ IsRight(tables[d])
          /\ calls[d] \in CallOfSet
          /\ d > 1 \/ calls[d].resizes > 0 => ~ Has(tables[d], calls[d].key)
      BY <1>1, <2>1, <2>3, SetterReady
    <3>2. ~ Has(tables[d], calls[d].key)
      BY <1>1, <2>1, <2>3, <3>1, SetterIs
    <3> QED
      BY <2>1, <2>3, <3>2
  <2> QED
    BY <2>2, <2>3
<1>10. Moved'
  <2> SUFFICES ASSUME NEW n \in 1 .. d, IsSeen(tables'[n + 1].size)
               PROVE  Below(tables'[n], calls'[n].next) = Held(tables'[n + 1]) \cup Pending(n + 1)'
    BY <1>1, <1>2 DEF Moved
  <2>1. CASE n = d
    <3>1. Pending(n + 1)' = {}
      BY <1>1, <1>2, <2>1 DEF Pending
    <3>2. tables'[n] \in Table /\ calls'[n].next = 0
      <4>1. tables[d] \in Table
        BY <1>2, StackedIs
      <4> QED
        BY <1>1, <1>2, <2>1, <4>1
    <3>3. Below(tables'[n], 0) = {}
      BY <3>2, UsedIs DEF Below
    <3>4. Held(tables'[n + 1]) = {}
      BY <1>6, <2>1
    <3> QED
      BY <3>1, <3>2, <3>3, <3>4
  <2>2. CASE n # d
    <3>1. /\ n \in 1 .. Len(tables) - 1 /\ n + 1 \in 1 .. d
          /\ tables'[n] = tables[n] /\ tables'[n + 1] = tables[n + 1] /\ calls'[n] = calls[n]
      BY <1>1, <1>2, <2>2
    <3>2. calls'[n + 1].key = calls[n + 1].key /\ calls'[n + 1].value = calls[n + 1].value
      BY <1>1, <3>1
    <3>3. Pending(n + 1)' = Pending(n + 1)
      BY <1>1, <3>1, <3>2 DEF Pending, ItemOf
    <3> QED
      BY <1>1, <3>1, <3>3 DEF MapInv, Moved
  <2> QED
    BY <2>1, <2>2
<1> QED
  BY <1>7, <1>8, <1>9, <1>10 DEF MapInv

LEMMA BelowNext ==
  ASSUME NEW t \in Table, NEW b \in 0 .. t.size - 1
  PROVE  /\ t.items[b] = Nothing => Below(t, b + 1) = Below(t, b)
         /\ t.items[b] # Nothing => /\ b \in Used(t)
                                    /\ Below(t, b + 1) = Below(t, b) \cup {t.items[b]}
                                    /\ IsOnce(t) => \A x \in Below(t, b) : x.key # t.items[b].key
<1>1. Used(t) \subseteq 0 .. t.size - 1 /\ t.size \in Nat
  BY UsedIs, TableType
<1>2. \A i \in Used(t) : i < b + 1 <=> i < b \/ i = b
  BY <1>1
<1>3. b \in Used(t) <=> t.items[b] # Nothing
  BY UsedIs
<1>4. ASSUME b \notin Used(t) PROVE Below(t, b + 1) = Below(t, b)
  BY <1>2, <1>4 DEF Below
<1>5. ASSUME b \in Used(t) PROVE Below(t, b + 1) = Below(t, b) \cup {t.items[b]}
  BY <1>2, <1>5 DEF Below
<1>6. ASSUME b \in Used(t), IsOnce(t), NEW x \in Below(t, b) PROVE x.key # t.items[b].key
  <2>1. PICK i \in Used(t) : i < b /\ x = t.items[i]
    BY <1>6 DEF Below
  <2> QED
    BY <1>1, <1>6, <2>1 DEF IsOnce
<1> QED
  BY <1>3, <1>4, <1>5, <1>6

LEMMA SetAgainInv ==
  ASSUME MapInv, SetAgain PROVE MapInv'
<1> DEFINE d    == Len(calls)
           b    == calls[d].next
           item == tables[d].items[b]
<1>1. /\ d > 0 /\ Len(tables) = d + 1 /\ defined /\ ~ freed
      /\ b \in 0 .. tables[d].size - 1
      /\ calls' \in Seq(CallOfSet)
      /\ \A n \in 1 .. d : n # d => calls'[n] = calls[n]
      /\ calls'[d].key = calls[d].key /\ calls'[d].value = calls[d].value
      /\ calls'[d].resizes = calls[d].resizes /\ calls'[d].next = b + 1
      /\ item = Nothing => Len(calls') = d
      /\ item # Nothing => /\ item \in Item
                           /\ Len(calls') = d + 1
                           /\ calls'[d + 1] = Call(item.key, item.value)
      /\ UNCHANGED <<tables, defined, got, freed>>
  BY SetAgainIs DEF MapInv
<1>2. /\ d \in Nat /\ Stacked /\ d \in 1 .. d /\ d \in 1 .. Len(tables)
      /\ d \in 1 .. Len(tables) - 1
  <2>1. d \in Nat /\ Stacked
    BY StackedIs DEF MapInv
  <2> QED
    BY <1>1, <2>1
<1>3. tables[d] \in Table /\ tables[d].size \in Nat
  BY <1>2, StackedIs
<1> HIDE DEF b, item
<1>4. /\ item = Nothing => Below(tables[d], b + 1) = Below(tables[d], b)
      /\ item # Nothing =>
           /\ b \in Used(tables[d])
           /\ Below(tables[d], b + 1) = Below(tables[d], b) \cup {item}
           /\ IsOnce(tables[d]) => \A x \in Below(tables[d], b) : x.key # item.key
  BY <1>1, <1>3, BelowNext DEF item
\* what the resize has moved so far
<1>5. ASSUME IsSeen(tables[d + 1].size)
      PROVE  Below(tables[d], b) = Held(tables[d + 1]) /\ IsOnce(tables[d])
  <2>1. Pending(d + 1) = {}
    BY <1>1, <1>2 DEF Pending
  <2>2. Below(tables[d], b) = Held(tables[d + 1]) \cup Pending(d + 1)
    BY <1>1, <1>2, <1>5 DEF MapInv, Moved, b
  <2>3. IsSeen(tables[d].size)
    BY <1>1, <1>2, <1>5, SeenBelow
  <2> QED
    BY <1>2, <2>1, <2>2, <2>3 DEF MapInv, Right, IsRight
<1>6. Stacked'
  <2>1. ASSUME NEW n \in 1 .. Len(tables) - 1
        PROVE  /\ calls'[n].next \in 0 .. tables[n].size
               /\ calls'[n].resizes < CONSEC_RESIZE_LIMIT
    <3>1. n \in 1 .. d
      BY <1>1, <1>2
    <3>2. CASE n = d
      <4>1. b + 1 \in 0 .. tables[d].size
        BY <1>1, <1>3
      <4>2. calls[n].resizes < CONSEC_RESIZE_LIMIT
        BY <1>2 DEF Stacked
      <4> QED
        BY <1>1, <3>2, <4>1, <4>2
    <3>3. CASE n # d
      BY <1>1, <1>2, <3>1, <3>3 DEF Stacked
    <3> QED
      BY <3>2, <3>3
  <2>2. Len(tables) \in {Len(calls'), Len(calls') + 1} \ {0}
    BY <1>1, <1>2
  <2> QED
    BY <1>1, <1>2, <2>1, <2>2 DEF Stacked
<1>7. Right'
  BY <1>1 DEF MapInv, Right
<1>8. Absent'
  <2>1. ASSUME NEW n \in 1 .. d, IsSeen(tables[n].size)
        PROVE  ~ Has(tables[n], calls'[n].key)
    <3>1. calls'[n].key = calls[n].key /\ n < Len(tables)
      BY <1>1, <1>2
    <3> QED
      BY <1>1, <2>1, <3>1 DEF MapInv, Absent
  <2>2. CASE item = Nothing
    BY <1>1, <2>1, <2>2 DEF Absent
  <2>3. CASE item # Nothing
    <3>1. ASSUME IsSeen(tables[d + 1].size)
          PROVE  ~ Has(tables[d + 1], calls'[d + 1].key)
      <4>1. calls'[d + 1].key = item.key
        BY <1>1, <2>3 DEF Call
      <4>2. \A x \in Held(tables[d + 1]) : x.key # item.key
        BY <1>4, <1>5, <2>3, <3>1
      <4> QED
        BY <4>1, <4>2 DEF Has, Held
    <3>2. \A n \in 1 .. Len(calls') : n \in 1 .. d \/ n = d + 1
      BY <1>1, <1>2, <2>3
    <3> QED
      BY <1>1, <2>1, <3>1, <3>2 DEF Absent
  <2> QED
    BY <2>2, <2>3
<1>9. Moved'
  <2> SUFFICES ASSUME NEW n \in 1 .. d, IsSeen(tables'[n + 1].size)
               PROVE  Below(tables'[n], calls'[n].next) = Held(tables'[n + 1]) \cup Pending(n + 1)'
    <3>1. Len(tables') - 1 = d
      BY <1>1, <1>2
    <3> QED
      BY <3>1 DEF Moved
  <2>1. CASE n = d
    <3>1. Below(tables[d], b) = Held(tables[d + 1])
      BY <1>1, <1>5, <2>1
    <3>2. CASE item = Nothing
      <4>1. Pending(n + 1)' = {}
        BY <1>1, <1>2, <2>1, <3>2 DEF Pending
      <4> QED
        BY <1>1, <1>4, <2>1, <3>1, <3>2, <4>1
    <3>3. CASE item # Nothing
      <4>1. ItemOf(calls'[d + 1]) = item
        BY <1>1, <3>3 DEF ItemOf, Call, Item
      <4>2. Pending(n + 1)' = {item}
        BY <1>1, <1>2, <2>1, <3>3, <4>1 DEF Pending
      <4> QED
        BY <1>1, <1>4, <2>1, <3>1, <3>3, <4>2
    <3> QED
      BY <3>2, <3>3
  <2>2. CASE n # d
    <3>1. n \in 1 .. Len(tables) - 1 /\ n + 1 \in 1 .. d /\ calls'[n] = calls[n]
      BY <1>1, <1>2, <2>2
    <3>2. calls'[n + 1].key = calls[n + 1].key /\ calls'[n + 1].value = calls[n + 1].value
      BY <1>1, <3>1
    <3>3. n + 1 <= Len(calls') /\ n + 1 <= Len(calls)
      BY <1>1, <1>2, <3>1
    <3>4. Pending(n + 1)' = Pending(n + 1)
      BY <3>2, <3>3 DEF Pending, ItemOf
    <3> QED
      BY <1>1, <3>1, <3>4 DEF MapInv, Moved
  <2> QED
    BY <2>1, <2>2
<1> QED
  BY <1>6, <1>7, <1>8, <1>9 DEF MapInv

\* When a resize is done its new table holds what the old one did.
LEMMA AllMoved ==
  ASSUME MapInv, defined, ~ freed, Len(calls) > 0, Len(tables) = Len(calls) + 1,
         calls[Len(calls)].next = tables[Len(calls)].size,
         IsSeen(tables[Len(calls) + 1].size)
  PROVE  LET d == Len(calls)
         IN  /\ Held(tables[d]) = Held(tables[d + 1])
             /\ IsRight(tables[d]) /\ IsRight(tables[d + 1])
             /\ tables[d] \in Table /\ tables[d + 1] \in Table
<1> DEFINE d == Len(calls)
<1>1. d \in Nat /\ Stacked
  BY StackedIs DEF MapInv
<1>2. d \in 1 .. Len(tables) /\ d + 1 \in 1 .. Len(tables) /\ d \in 1 .. Len(tables) - 1
  BY <1>1
<1>3. tables[d] \in Table /\ tables[d + 1] \in Table
  BY <1>1, <1>2, StackedIs
<1>4. IsSeen(tables[d].size)
  BY <1>1, <1>2, SeenBelow
<1>5. IsRight(tables[d]) /\ IsRight(tables[d + 1])
  BY <1>2, <1>4 DEF MapInv, Right
<1>6. Pending(d + 1) = {}
  BY <1>1 DEF Pending
<1>7. Below(tables[d], tables[d].size) = Held(tables[d + 1])
  BY <1>2, <1>6 DEF MapInv, Moved
<1>8. \A i \in Used(tables[d]) : i < tables[d].size
  BY <1>3, UsedIs, TableType
<1>9. Below(tables[d], tables[d].size) = Held(tables[d])
  BY <1>8 DEF Below, Held
<1> QED
  BY <1>3, <1>5, <1>7, <1>9

LEMMA ReplaceInv ==
  ASSUME MapInv, ReplaceTable PROVE MapInv'
<1> DEFINE d == Len(calls)
<1>1. /\ d > 0 /\ Len(tables) = d + 1 /\ defined /\ ~ freed
      /\ calls[d].next = tables[d].size
      /\ tables' \in Seq(Table) /\ Len(tables') = d
      /\ \A n \in 1 .. d : n # d => tables'[n] = tables[n]
      /\ tables'[d] = tables[d + 1]
      /\ calls' \in Seq(CallOfSet) /\ Len(calls') = d
      /\ \A n \in 1 .. d : n # d => calls'[n] = calls[n]
      /\ calls'[d].key = calls[d].key /\ calls'[d].value = calls[d].value
      /\ calls'[d].resizes = calls[d].resizes + 1
      /\ UNCHANGED <<defined, got, freed>>
  BY ReplaceIs DEF MapInv
<1>2. /\ d \in Nat /\ Stacked /\ d \in 1 .. d /\ d \in 1 .. Len(tables)
      /\ d \in 1 .. Len(tables) - 1 /\ d + 1 \in 1 .. Len(tables)
  <2>1. d \in Nat /\ Stacked
    BY StackedIs DEF MapInv
  <2> QED
    BY <1>1, <2>1
<1>3. ASSUME IsSeen(tables[d + 1].size)
      PROVE  IsSeen(tables[d].size) /\ Held(tables[d]) = Held(tables[d + 1])
  <2>1. IsSeen(tables[d].size)
    BY <1>1, <1>2, <1>3, SeenBelow
  <2> QED
    BY <1>1, <1>3, <2>1, AllMoved
\* the pairs of tables above the one that was replaced
<1>4. ASSUME NEW n \in 1 .. d - 1
      PROVE  /\ n \in 1 .. d /\ n + 1 \in 1 .. d /\ n \in 1 .. Len(tables) - 1
             /\ tables'[n] = tables[n] /\ calls'[n] = calls[n]
             /\ n + 1 # d => tables'[n + 1] = tables[n + 1]
  BY <1>1, <1>2
<1>5. Stacked'
  <2>1. ASSUME NEW n \in 1 .. d - 1
        PROVE  /\ calls'[n].next \in 0 .. tables'[n].size
               /\ calls'[n].resizes < CONSEC_RESIZE_LIMIT
               /\ IsSeen(tables'[n + 1].size) => IsSeen(tables'[n].size)
    <3>1. /\ calls'[n].next \in 0 .. tables'[n].size
          /\ calls'[n].resizes < CONSEC_RESIZE_LIMIT
          /\ IsSeen(tables[n + 1].size) => IsSeen(tables[n].size)
      BY <1>2, <1>4 DEF Stacked
    <3>2. IsSeen(tables'[n + 1].size) => IsSeen(tables[n + 1].size)
      BY <1>1, <1>3, <1>4
    <3> QED
      BY <1>4, <3>1, <3>2
  <2>2. \A n \in 1 .. d : tables'[n].size > 0
    BY <1>1, <1>2 DEF Stacked
  <2>3. Len(tables') \in {Len(calls'), Len(calls') + 1} \ {0}
    BY <1>1, <1>2
  <2> QED
    BY <1>1, <1>2, <2>1, <2>2, <2>3 DEF Stacked
<1>6. Right'
  <2> SUFFICES ASSUME NEW n \in 1 .. d, IsSeen(tables'[n].size)
               PROVE  IsRight(tables'[n])
    BY <1>1 DEF Right
  <2>1. CASE n = d
    BY <1>1, <1>2, <2>1 DEF MapInv, Right
  <2>2. CASE n # d
    <3>1. n \in 1 .. Len(tables)
      BY <1>1, <1>2
    <3> QED
      BY <1>1, <2>2, <3>1 DEF MapInv, Right
  <2> QED
    BY <2>1, <2>2
<1>7. Absent'
  <2> SUFFICES ASSUME NEW n \in 1 .. d, IsSeen(tables'[n].size)
               PROVE  ~ Has(tables'[n], calls'[n].key)
    BY <1>1 DEF Absent
  <2>1. calls'[n].key = calls[n].key /\ n < Len(tables)
    BY <1>1, <1>2
  <2>2. CASE n = d
    <3>1. IsSeen(tables[d].size) /\ Held(tables[d]) = Held(tables[d + 1])
      BY <1>1, <1>3, <2>2
    <3>2. ~ Has(tables[d], calls[d].key)
      BY <1>1, <2>1, <2>2, <3>1 DEF MapInv, Absent
    <3>3. ~ Has(tables[d + 1], calls[d].key)
      <4> SUFFICES ASSUME NEW i \in Used(tables[d + 1]),
                          tables[d + 1].items[i].key = calls[d].key
                   PROVE  FALSE
        BY DEF Has
      <4>1. tables[d + 1].items[i] \in Held(tables[d])
        BY <3>1 DEF Held
      <4>2. PICK j \in Used(tables[d]) : tables[d].items[j] = tables[d + 1].items[i]
        BY <4>1 DEF Held
      <4> QED
        BY <3>2, <4>2 DEF Has
    <3> QED
      BY <1>1, <2>1, <2>2, <3>3
  <2>3. CASE n # d
    BY <1>1, <2>1, <2>3 DEF MapInv, Absent
  <2> QED
    BY <2>2, <2>3
<1>8. Moved'
  <2> SUFFICES ASSUME NEW n \in 1 .. d - 1, IsSeen(tables'[n + 1].size)
               PROVE  Below(tables'[n], calls'[n].next) = Held(tables'[n + 1]) \cup Pending(n + 1)'
    BY <1>1 DEF Moved
  <2>1. IsSeen(tables[n + 1].size) /\ Held(tables'[n + 1]) = Held(tables[n + 1])
    BY <1>1, <1>3, <1>4
  <2>2. Pending(n + 1)' = Pending(n + 1)
    <3>1. calls'[n + 1].key = calls[n + 1].key /\ calls'[n + 1].value = calls[n + 1].value
      BY <1>1, <1>4
    <3> QED
      BY <1>1, <3>1 DEF Pending, ItemOf
  <2>3. Below(tables[n], calls[n].next) = Held(tables[n + 1]) \cup Pending(n + 1)
    BY <1>1, <1>4, <2>1 DEF MapInv, Moved
  <2> QED
    BY <1>4, <2>1, <2>2, <2>3
<1> QED
  BY <1>5, <1>6, <1>7, <1>8 DEF MapInv

-----------------------------------------------------------------------------
(* The calls, and the specification.                                        *)

LEMMA IdleIs ==
  ASSUME MapInv, IsIdle
  PROVE  /\ Stacked /\ calls = <<>> /\ Len(calls) = 0 /\ Len(tables) = 1 /\ defined /\ ~ freed
         /\ tables \in Seq(Table) /\ tables[1] \in Table /\ tables[1].size > 0
         /\ IsSeen(tables[1].size) => IsRight(tables[1])
<1>1. calls = <<>> /\ defined /\ ~ freed /\ Stacked
  BY DEF IsIdle, MapInv
<1>2. Len(calls) = 0 /\ Len(tables) = 1
  BY <1>1, StackedIs
<1> QED
  BY <1>1, <1>2, StackedIs DEF Stacked, MapInv, Right

LEMMA InitInv == HashmapInit => MapInv
<1> SUFFICES ASSUME HashmapInit PROVE MapInv
  OBVIOUS
<1> DEFINE t == Hashmap_new(STARTING_BUCKETS)
<1>1. t \in Table /\ t.size = STARTING_BUCKETS /\ IsRight(t)
  BY Constants, NewIs
<1>2. tables = <<t>> /\ calls = <<>> /\ defined = TRUE /\ got = Nothing /\ freed = FALSE
  BY DEF HashmapInit
<1> HIDE DEF t
<1>3. /\ tables \in Seq(Table) /\ Len(tables) = 1 /\ tables[1] = t
      /\ calls \in Seq(CallOfSet) /\ Len(calls) = 0
  BY <1>1, <1>2, EmptySeq
<1>4. Stacked
  <2>1. /\ defined \in BOOLEAN /\ got \in Address \cup {Nothing}
        /\ freed \in BOOLEAN /\ ~ freed
    BY <1>2
  <2> QED
    BY <1>1, <1>3, <2>1, Constants DEF Stacked
<1> QED
  BY <1>1, <1>3, <1>4 DEF MapInv, Right, Absent, Moved

LEMMA SetInv ==
  ASSUME MapInv, NEW k \in Key, NEW v \in Address, Hashmap_set(k, v) PROVE MapInv'
<1>1. /\ Stacked /\ Len(calls) = 0 /\ Len(tables) = 1 /\ defined /\ ~ freed
      /\ tables \in Seq(Table) /\ tables[1].size > 0
  BY IdleIs DEF Hashmap_set
<1>2. calls' = <<Call(k, v)>> /\ UNCHANGED <<tables, defined, got, freed>>
  BY DEF Hashmap_set
<1>3. Call(k, v) \in CallOfSet /\ Call(k, v).resizes = 0
  BY Constants DEF Call, CallOfSet
<1>4. /\ calls' \in Seq(CallOfSet) /\ Len(calls') = 1 /\ calls'[1] = Call(k, v)
      /\ Len(tables') = 1
  BY <1>1, <1>2, <1>3
<1>5. Stacked'
  <2>1. /\ tables' \in Seq(Table) /\ tables'[1].size > 0
        /\ defined' \in BOOLEAN /\ got' \in Address \cup {Nothing}
        /\ freed' \in BOOLEAN /\ ~ freed'
    BY <1>1, <1>2 DEF Stacked
  <2> QED
    BY <1>4, <2>1 DEF Stacked
<1>6. Right'
  BY <1>2 DEF MapInv, Right
<1>7. Absent'
  BY <1>3, <1>4 DEF Absent
<1>8. Moved'
  BY <1>4 DEF Moved
<1> QED
  BY <1>5, <1>6, <1>7, <1>8 DEF MapInv

LEMMA DeleteInv ==
  ASSUME MapInv, NEW k \in Key, Hashmap_delete(k) PROVE MapInv'
<1> DEFINE t == tables[1]
           u == Put(t, get_exist_item_index(t, k), Nothing)
<1>1. /\ Stacked /\ calls = <<>> /\ Len(calls) = 0 /\ Len(tables) = 1 /\ defined /\ ~ freed
      /\ tables \in Seq(Table) /\ t \in Table /\ t.size > 0
      /\ IsSeen(t.size) => IsRight(t)
  BY IdleIs DEF Hashmap_delete
<1>2. tables' = [tables EXCEPT ![1] = u] /\ UNCHANGED <<calls, defined, got, freed>>
  BY DEF Hashmap_delete
<1>3. u \in Table /\ u.size = t.size
  BY <1>1, PutIs
<1>4. IsSeen(t.size) => IsRight(u)
  BY <1>1, DeleteRight
<1> HIDE DEF u
<1>5. tables' \in Seq(Table) /\ Len(tables') = 1 /\ tables'[1] = u
  <2>1. tables \in Seq(Table) /\ 1 \in 1 .. Len(tables)
    BY <1>1
  <2>2. /\ [tables EXCEPT ![1] = u] \in Seq(Table)
        /\ Len([tables EXCEPT ![1] = u]) = Len(tables)
        /\ \A j \in 1 .. Len(tables) : [tables EXCEPT ![1] = u][j] = IF j = 1 THEN u ELSE tables[j]
    BY <1>3, <2>1, ExceptSeq
  <2> QED
    BY <1>1, <1>2, <2>1, <2>2
<1>9. /\ calls' \in Seq(CallOfSet) /\ Len(calls') = 0
      /\ defined' \in BOOLEAN /\ got' \in Address \cup {Nothing}
      /\ freed' \in BOOLEAN /\ ~ freed'
  BY <1>1, <1>2 DEF Stacked
<1>6. Stacked'
  BY <1>1, <1>3, <1>5, <1>9 DEF Stacked
<1>7. Right'
  BY <1>3, <1>4, <1>5 DEF Right
<1>8. Absent' /\ Moved'
  BY <1>5, <1>9 DEF Absent, Moved
<1> QED
  BY <1>6, <1>7, <1>8 DEF MapInv

LEMMA FreeInv ==
  ASSUME MapInv, Hashmap_free PROVE MapInv'
<1> DEFINE u == Hashmap_new(0)
<1>1. /\ Stacked /\ calls = <<>> /\ Len(calls) = 0 /\ defined
  BY IdleIs DEF Hashmap_free
<1>2. tables' = <<u>> /\ freed' = TRUE /\ UNCHANGED <<calls, defined, got>>
  BY DEF Hashmap_free
<1>3. u \in Table /\ u.size = 0 /\ IsRight(u)
  BY NewIs
<1> HIDE DEF u
<1>4. tables' \in Seq(Table) /\ Len(tables') = 1 /\ tables'[1] = u
  <2>1. <<u>> \in Seq(Table) /\ Len(<<u>>) = 1 /\ <<u>>[1] = u
    BY <1>3
  <2> QED
    BY <1>2, <2>1
<1>5. Stacked'
  <2>1. /\ calls' \in Seq(CallOfSet) /\ Len(calls') = 0
        /\ defined' \in BOOLEAN /\ got' \in Address \cup {Nothing}
    BY <1>1, <1>2 DEF Stacked
  <2>2. freed' \in BOOLEAN /\ freed'
    BY <1>2
  <2> QED
    BY <1>3, <1>4, <2>1, <2>2 DEF Stacked
<1>6. Right'
  BY <1>3, <1>4 DEF Right
<1>7. Absent' /\ Moved'
  <2>1. Len(calls') = 0 /\ Len(tables') = 1
    BY <1>1, <1>2, <1>4
  <2> QED
    BY <2>1 DEF Absent, Moved
<1> QED
  BY <1>5, <1>6, <1>7 DEF MapInv

\* What a get returns.
LEMMA GetIs ==
  ASSUME MapInv, NEW k \in Key, Hashmap_get(k)
  PROVE  /\ got' \in Address \cup {Nothing}
         /\ IsSeen(tables[1].size) => got' = Stored(tables[1], k)
<1> DEFINE t == tables[1]
           at == get_exist_item_index(t, k)
<1>1. /\ t \in Table /\ t.size > 0
      /\ IsSeen(t.size) => IsRight(t)
  BY IdleIs DEF Hashmap_get
<1>2. got' = IF at = ERR_NO_VALID_ITEM_INDEX THEN Nothing ELSE t.items[at].value
  BY DEF Hashmap_get
<1>3. ASSUME at # ERR_NO_VALID_ITEM_INDEX
      PROVE  at \in Used(t)
  <2>1. Hits(t, k) \in SUBSET (0 .. CONSEC_COLLISION_LIMIT)
    BY Constants DEF Hits
  <2>2. PICK j \in Hits(t, k) : at = Probe(t, k, j)
    BY <1>1, <1>3, <2>1, FirstOfIs DEF get_exist_item_index
  <2>3. at \in 0 .. t.size - 1
    BY <1>1, <2>1, <2>2, ProbeType
  <2> QED
    BY <1>1, <2>2, <2>3, UsedIs DEF Hits
<1>4. ASSUME IsRight(t) PROVE got' = Stored(t, k)
  <2>1. CASE Has(t, k)
    <3>1. PICK i \in Used(t) : t.items[i].key = k
      BY <2>1 DEF Has
    <3>2. at = i
      BY <1>1, <1>4, <3>1, Found
    <3>3. Stored(t, t.items[i].key) = t.items[i].value
      BY <1>1, <1>4, StoredIs DEF IsRight
    <3>4. i # ERR_NO_VALID_ITEM_INDEX
      BY <1>1, UsedIs, TableType DEF ERR_NO_VALID_ITEM_INDEX
    <3> QED
      BY <1>2, <3>1, <3>2, <3>3, <3>4
  <2>2. CASE ~ Has(t, k)
    BY <1>1, <1>2, <1>4, <2>2, NotFound, StoredIs DEF IsRight
  <2> QED
    BY <2>1, <2>2
<1>5. got' \in Address \cup {Nothing}
  <2> HIDE DEF at
  <2> QED
    BY <1>1, <1>2, <1>3, UsedIs
<1> QED
  BY <1>1, <1>4, <1>5

LEMMA StepInv == MapInv /\ [HashmapNext]_hashmapVars => MapInv'
<1> SUFFICES ASSUME MapInv, [HashmapNext]_hashmapVars PROVE MapInv'
  OBVIOUS
<1>1. ASSUME NEW k \in Key, Hashmap_get(k) PROVE MapInv'
  <2>1. UNCHANGED <<tables, calls, defined, freed>> /\ got' \in Address \cup {Nothing}
    BY <1>1, GetIs DEF Hashmap_get, memory
  <2>2. Stacked'
    BY <2>1 DEF MapInv, Stacked
  <2> QED
    BY <2>1, <2>2 DEF MapInv, Right, Absent, Moved, Pending
<1>2. ASSUME NEW k \in Key, Hashmap_delete(k) PROVE MapInv'
  BY <1>2, DeleteInv
<1>3. ASSUME NEW k \in Key, NEW v \in Address, Hashmap_set(k, v) PROVE MapInv'
  BY <1>3, SetInv
<1>4. CASE Hashmap_free
  BY <1>4, FreeInv
<1>5. CASE Step
  BY <1>5, PutItemInv, ResizeInv, SetAgainInv, ReplaceInv DEF Step
<1>6. CASE UNCHANGED hashmapVars
  <2>1. UNCHANGED <<tables, calls, defined, got, freed>>
    BY <1>6 DEF hashmapVars, memory
  <2>2. Stacked'
    BY <2>1 DEF MapInv, Stacked
  <2> QED
    BY <2>1, <2>2 DEF MapInv, Right, Absent, Moved, Pending
<1> QED
  BY <1>1, <1>2, <1>3, <1>4, <1>5, <1>6 DEF HashmapNext

LEMMA AlwaysInv == HashmapSpec => []MapInv
BY InitInv, StepInv, PTL DEF HashmapSpec

\* The tables and the calls of a set keep their types, and are one as many as
\* the other or one more, however deep resizes nest.
THEOREM HashmapTypeCorrect == HashmapSpec => []HashmapTypeOK
<1>1. MapInv => HashmapTypeOK
  <2> SUFFICES ASSUME MapInv PROVE HashmapTypeOK
    OBVIOUS
  <2>1. Stacked /\ tables \in Seq(Table) /\ calls \in Seq(CallOfSet)
    BY DEF MapInv, Stacked
  <2>2. DOMAIN tables = 1 .. Len(tables) /\ Len(tables) \in Nat
    BY <2>1, StackedIs
  <2>3. tables \in Seq({tables[n] : n \in DOMAIN tables})
    <3>1. tables \in [1 .. Len(tables) -> {tables[n] : n \in DOMAIN tables}]
      BY <2>1, <2>2, LenProperties
    <3> QED
      BY <2>2, <3>1, SeqDef
  <2>4. \A n \in DOMAIN tables : IsTable(tables[n])
    <3> SUFFICES ASSUME NEW n \in DOMAIN tables PROVE IsTable(tables[n])
      OBVIOUS
    <3>1. tables[n] \in Table
      BY <2>1, <2>2, StackedIs
    <3> QED
      BY <3>1, TableType DEF IsTable
  <2> QED
    BY <2>1, <2>3, <2>4 DEF HashmapTypeOK, Stacked, CallOfSet
<1> QED
  BY AlwaysInv, <1>1, PTL

AllSeen == \A n \in DOMAIN tables : IsSeen(tables[n].size)

LEMMA SeenRight ==
  ASSUME MapInv, AllSeen PROVE StoredOnce /\ Reachable
<1>1. Stacked
  BY DEF MapInv
<1> SUFFICES ASSUME NEW n \in DOMAIN tables
             PROVE  /\ IsOnce(tables[n])
                    /\ \A i \in Used(tables[n]) :
                         get_exist_item_index(tables[n], tables[n].items[i].key) = i
  BY DEF StoredOnce, Reachable, IsOnce
<1>2. n \in 1 .. Len(tables) /\ tables[n] \in Table
  BY <1>1, StackedIs
<1>3. IsRight(tables[n])
  BY <1>2 DEF MapInv, Right, AllSeen
<1>4. CASE tables[n].size > 0
  BY <1>2, <1>3, <1>4, Found DEF IsRight
<1>5. CASE ~ (tables[n].size > 0)
  <2>1. Used(tables[n]) = {}
    BY <1>2, <1>5, UsedIs, TableType
  <2> QED
    BY <1>3, <2>1 DEF IsRight
<1> QED
  BY <1>4, <1>5

\* While a getter looks as far as a setter does in every table there is, no
\* key is in two slots ...
THEOREM StoredOnceCorrect == HashmapSpec => [](AllSeen => StoredOnce)
<1>1. MapInv => (AllSeen => StoredOnce)
  BY SeenRight
<1> QED
  BY AlwaysInv, <1>1, PTL

\* ... and a getter finds what setters put, whatever was deleted and resized.
THEOREM ReachableCorrect == HashmapSpec => [](AllSeen => Reachable)
<1>1. MapInv => (AllSeen => Reachable)
  BY SeenRight
<1> QED
  BY AlwaysInv, <1>1, PTL

-----------------------------------------------------------------------------
(* The map.                                                                 *)

Mapped(t) == [k \in Key |-> Stored(t, k)]

LEMMA MappedPut ==
  ASSUME MapInv, IsSeen(tables[1].size), PutItem, Len(calls) = 1, defined'
  PROVE  Mapped(tables'[1]) = [Mapped(tables[1]) EXCEPT ![calls[1].key] = calls[1].value]
<1> DEFINE t    == tables[1]
           c    == calls[1]
           at   == SetterIndex(t, c)
           item == ItemOf(c)
<1>1. /\ Len(tables) = 1 /\ defined /\ ~ freed
      /\ tables'[1] = Put(t, at, item)
      /\ defined' = (at # ERR_NO_VALID_ITEM_INDEX)
  BY PutItemIs DEF MapInv
<1>2. /\ t \in Table /\ t.size > 0 /\ IsRight(t) /\ c \in CallOfSet
      /\ c.resizes > 0 => ~ Has(t, c.key)
  BY <1>1, SetterReady
<1>3. item \in Item /\ item.key = c.key /\ item.value = c.value
  BY StackedIs DEF MapInv, ItemOf
<1>4. /\ at \in 0 .. t.size - 1
      /\ \E j \in 0 .. CONSEC_COLLISION_LIMIT - 1 : Probe(t, c.key, j) = at
      /\ \A i \in Used(t) : t.items[i].key = c.key <=> i = at
  BY <1>1, <1>2, SetterIs
<1> HIDE DEF t, c, at, item
<1>5. ASSUME NEW k
      PROVE  Stored(Put(t, at, item), k) = IF k = c.key THEN c.value ELSE Stored(t, k)
  BY <1>2, <1>3, <1>4, StoredPut
<1> QED
  BY <1>1, <1>5 DEF Mapped, t, c

Setting ==
  IF calls = <<>> THEN Nothing ELSE [key |-> calls[1].key, value |-> calls[1].value]

LEMMA SettingIs ==
  ASSUME Stacked
  PROVE  /\ calls = <<>> <=> Setting = Nothing
         /\ calls # <<>> => Setting.key = calls[1].key /\ Setting.value = calls[1].value
<1>1. ASSUME calls # <<>> PROVE 1 \in 1 .. Len(calls)
  <2>1. Len(calls) \in Nat /\ Len(calls) # 0
    BY <1>1, StackedIs
  <2> QED
    BY <2>1
<1>2. ASSUME calls # <<>> PROVE Setting \in Item
  BY <1>1, <1>2, StackedIs DEF Setting, Item
<1>3. Nothing \notin Item
  BY Constants
<1> QED
  BY <1>2, <1>3 DEF Setting

\* A step that leaves the first call and what the map holds alone.
LEMMA Stutters ==
  ASSUME calls # <<>>, calls' # <<>>,
         calls'[1].key = calls[1].key, calls'[1].value = calls[1].value,
         Mapped(tables'[1]) = Mapped(tables[1]), UNCHANGED <<got, freed>>
  PROVE  UNCHANGED M!vars
<1>1. Setting' = Setting
  BY DEF Setting
<1> QED
  BY <1>1 DEF M!vars, Setting, Mapped

LEMMA InitIsMap == HashmapInit => M!Init
<1> SUFFICES ASSUME HashmapInit PROVE M!Init
  OBVIOUS
<1> DEFINE t == Hashmap_new(STARTING_BUCKETS)
<1>1. t \in Table /\ IsOnce(t) /\ \A k : ~ Has(t, k)
  BY Constants, NewIs DEF IsRight
<1>2. tables[1] = t /\ calls = <<>> /\ got = Nothing /\ freed = FALSE
  BY DEF HashmapInit
<1> HIDE DEF t
<1>3. Mapped(tables[1]) = [k \in Key |-> Nothing]
  BY <1>1, <1>2, StoredIs DEF Mapped
<1> QED
  BY <1>2, <1>3 DEF M!Init, Mapped

LEMMA SetIsMap ==
  ASSUME MapInv, NEW k \in Key, NEW v \in Address, Hashmap_set(k, v) PROVE M!Set(k, v)
<1>1. calls = <<>> /\ ~ freed
  BY DEF Hashmap_set, IsIdle
<1>2. calls' = <<Call(k, v)>> /\ UNCHANGED <<tables, got, freed>>
  BY DEF Hashmap_set
<1>3. calls' # <<>> /\ calls'[1].key = k /\ calls'[1].value = v
  BY <1>2 DEF Call
<1>4. Setting = Nothing /\ Setting' = [key |-> k, value |-> v]
  BY <1>1, <1>3 DEF Setting
<1> QED
  BY <1>1, <1>2, <1>4 DEF M!Set, M!IsIdle, Setting

LEMMA GetIsMap ==
  ASSUME MapInv, AllSeen, NEW k \in Key, Hashmap_get(k) PROVE M!Get(k)
<1>1. calls = <<>> /\ ~ freed /\ Len(tables) = 1 /\ Stacked
  BY IdleIs DEF Hashmap_get
<1>2. IsSeen(tables[1].size)
  BY <1>1, StackedIs DEF AllSeen
<1>3. got' = Mapped(tables[1])[k]
  BY <1>2, GetIs DEF Mapped
<1>4. Setting = Nothing /\ UNCHANGED <<tables, calls, freed>>
  BY <1>1 DEF Setting, Hashmap_get, memory
<1> QED
  BY <1>1, <1>3, <1>4 DEF M!Get, M!IsIdle, Setting, Mapped

LEMMA DeleteIsMap ==
  ASSUME MapInv, AllSeen, NEW k \in Key, Hashmap_delete(k) PROVE M!Delete(k)
<1> DEFINE t == tables[1]
           u == Put(t, get_exist_item_index(t, k), Nothing)
<1>1. /\ calls = <<>> /\ ~ freed /\ Len(tables) = 1 /\ Stacked /\ DOMAIN tables = 1 .. 1
      /\ t \in Table /\ t.size > 0
      /\ IsSeen(t.size) => IsRight(t)
  BY IdleIs, StackedIs DEF Hashmap_delete
<1>2. tables' = [tables EXCEPT ![1] = u] /\ UNCHANGED <<calls, got, freed>>
  BY DEF Hashmap_delete
<1>3. IsRight(t)
  <2>1. 1 \in DOMAIN tables
    BY <1>1
  <2> QED
    BY <1>1, <2>1 DEF AllSeen
<1> HIDE DEF t
<1>4. \A q : Stored(u, q) = IF q = k THEN Nothing ELSE Stored(t, q)
  <2>1. t \in Table /\ t.size > 0
    BY <1>1
  <2> QED
    BY <1>3, <2>1, DeleteRight
<1> HIDE DEF u
<1>5. tables'[1] = u
  BY <1>1, <1>2
<1>6. Mapped(tables'[1]) = [Mapped(tables[1]) EXCEPT ![k] = Nothing]
  BY <1>4, <1>5 DEF Mapped, t
<1>7. Setting = Nothing
  BY <1>1 DEF Setting
<1> QED
  BY <1>1, <1>2, <1>6, <1>7 DEF M!Delete, M!IsIdle, Setting, Mapped

LEMMA FreeIsMap ==
  ASSUME MapInv, Hashmap_free PROVE M!Free
<1> DEFINE u == Hashmap_new(0)
<1>1. calls = <<>> /\ ~ freed
  BY DEF Hashmap_free, IsIdle
<1>2. tables' = <<u>> /\ freed' = TRUE /\ UNCHANGED <<calls, got>>
  BY DEF Hashmap_free
<1>3. u \in Table /\ IsOnce(u) /\ \A k : ~ Has(u, k)
  BY NewIs DEF IsRight
<1> HIDE DEF u
<1>4. Mapped(tables'[1]) = [k \in Key |-> Nothing]
  BY <1>2, <1>3, StoredIs DEF Mapped
<1>5. Setting = Nothing
  BY <1>1 DEF Setting
<1> QED
  BY <1>1, <1>2, <1>4, <1>5 DEF M!Free, M!IsIdle, Setting, Mapped

LEMMA PutItemIsMap ==
  ASSUME MapInv, AllSeen, PutItem, defined' PROVE [M!SetIsDone]_(M!vars)
<1> DEFINE d == Len(calls)
<1>1. /\ d > 0 /\ Len(tables) = d
      /\ \A n \in 1 .. d : n # d => tables'[n] = tables[n]
      /\ calls' \in Seq(CallOfSet) /\ Len(calls') = d - 1
      /\ \A n \in 1 .. d - 1 : calls'[n] = calls[n]
      /\ UNCHANGED <<got, freed>>
  BY PutItemIs DEF MapInv
<1>2. /\ d \in Nat /\ Stacked /\ calls # <<>> /\ 1 \in 1 .. d
  <2>1. d \in Nat /\ Stacked /\ (calls = <<>> <=> d = 0)
    BY StackedIs DEF MapInv
  <2>2. calls # <<>>
    BY <1>1, <2>1
  <2> QED
    BY <1>1, <2>1, <2>2
<1>3. CASE d = 1
  <2>1. IsSeen(tables[1].size)
    BY <1>1, <1>2, StackedIs DEF AllSeen
  <2>2. Mapped(tables'[1]) = [Mapped(tables[1]) EXCEPT ![calls[1].key] = calls[1].value]
    BY <1>3, <2>1, MappedPut
  <2>3. calls' = <<>>
    BY <1>1, <1>3, EmptySeq
  <2>4. /\ Setting # Nothing /\ Setting' = Nothing
        /\ Setting.key = calls[1].key /\ Setting.value = calls[1].value
    BY <1>2, <2>3, SettingIs DEF Setting
  <2>5. Mapped(tables'[1]) = [Mapped(tables[1]) EXCEPT ![Setting.key] = Setting.value]
    BY <2>2, <2>4
  <2> QED
    BY <1>1, <2>4, <2>5 DEF M!SetIsDone, Setting, Mapped
<1>4. CASE d # 1
  <2>1. 1 \in 1 .. d - 1 /\ calls'[1] = calls[1] /\ tables'[1] = tables[1]
    BY <1>1, <1>2, <1>4
  <2>2. calls' # <<>>
    BY <1>1, <2>1, EmptySeq
  <2> QED
    BY <1>1, <1>2, <2>1, <2>2, Stutters
<1> QED
  BY <1>3, <1>4

LEMMA ReplaceIsMap ==
  ASSUME MapInv, AllSeen, ReplaceTable PROVE UNCHANGED M!vars
<1> DEFINE d == Len(calls)
<1>1. /\ d > 0 /\ Len(tables) = d + 1 /\ defined /\ ~ freed
      /\ calls[d].next = tables[d].size
      /\ \A n \in 1 .. d : n # d => tables'[n] = tables[n]
      /\ tables'[d] = tables[d + 1]
      /\ calls' \in Seq(CallOfSet) /\ Len(calls') = d
      /\ \A n \in 1 .. d : n # d => calls'[n] = calls[n]
      /\ calls'[d].key = calls[d].key /\ calls'[d].value = calls[d].value
      /\ UNCHANGED <<got, freed>>
  BY ReplaceIs DEF MapInv
<1>2. d \in Nat /\ Stacked /\ calls # <<>> /\ 1 \in 1 .. d /\ d + 1 \in DOMAIN tables
  <2>1. d \in Nat /\ Stacked
    BY StackedIs DEF MapInv
  <2> QED
    BY <1>1, <2>1, StackedIs
<1>3. Mapped(tables'[1]) = Mapped(tables[1])
  <2>1. CASE d = 1
    <3>1. IsSeen(tables[d + 1].size)
      BY <1>2 DEF AllSeen
    <3>2. /\ Held(tables[d]) = Held(tables[d + 1])
          /\ IsOnce(tables[d]) /\ IsOnce(tables[d + 1])
          /\ tables[d] \in Table /\ tables[d + 1] \in Table
      BY <1>1, <3>1, AllMoved DEF IsRight
    <3>3. \A k : Stored(tables[d], k) = Stored(tables[d + 1], k)
      BY <3>2, StoredHeld
    <3> QED
      BY <1>1, <2>1, <3>3 DEF Mapped
  <2>2. CASE d # 1
    BY <1>1, <1>2, <2>2
  <2> QED
    BY <2>1, <2>2
<1>4. calls' # <<>> /\ calls'[1].key = calls[1].key /\ calls'[1].value = calls[1].value
  BY <1>1, <1>2, EmptySeq
<1> QED
  BY <1>1, <1>2, <1>3, <1>4, Stutters

LEMMA MovingIsMap ==
  ASSUME MapInv, Hashmap_resize \/ SetAgain PROVE UNCHANGED M!vars
<1> DEFINE d == Len(calls)
<1>1. /\ d > 0 /\ calls' \in Seq(CallOfSet) /\ Len(calls') >= d
      /\ \A n \in 1 .. d : n # d => calls'[n] = calls[n]
      /\ calls'[d].key = calls[d].key /\ calls'[d].value = calls[d].value
      /\ UNCHANGED <<got, freed>>
      /\ Len(tables) >= d /\ \A n \in 1 .. d : tables'[n] = tables[n]
  <2>1. d \in Nat
    BY StackedIs DEF MapInv
  <2>2. CASE Hashmap_resize
    BY <2>1, <2>2, ResizeIs DEF MapInv
  <2>3. CASE SetAgain
    BY <2>1, <2>3, SetAgainIs DEF MapInv
  <2> QED
    BY <2>2, <2>3
<1>2. d \in Nat /\ calls # <<>> /\ 1 \in 1 .. d
  <2>1. d \in Nat /\ Stacked /\ (calls = <<>> <=> d = 0)
    BY StackedIs DEF MapInv
  <2>2. calls # <<>>
    BY <1>1, <2>1
  <2> QED
    BY <1>1, <2>1, <2>2
<1>3. calls' # <<>> /\ calls'[1].key = calls[1].key /\ calls'[1].value = calls[1].value
  BY <1>1, <1>2, EmptySeq
<1>4. Mapped(tables'[1]) = Mapped(tables[1])
  BY <1>1, <1>2
<1> QED
  BY <1>1, <1>2, <1>3, <1>4, Stutters

LEMMA StepIsMap ==
  MapInv /\ AllSeen /\ IndexIsValid' /\ [HashmapNext]_hashmapVars => [M!Next]_(M!vars)
<1> SUFFICES ASSUME MapInv, AllSeen, defined', [HashmapNext]_hashmapVars
             PROVE  [M!Next]_(M!vars)
  BY DEF IndexIsValid
<1>1. ASSUME NEW k \in Key, Hashmap_get(k) PROVE M!Next
  BY <1>1, GetIsMap DEF M!Next
<1>2. ASSUME NEW k \in Key, Hashmap_delete(k) PROVE M!Next
  BY <1>2, DeleteIsMap DEF M!Next
<1>3. ASSUME NEW k \in Key, NEW v \in Address, Hashmap_set(k, v) PROVE M!Next
  BY <1>3, SetIsMap DEF M!Next
<1>4. CASE Hashmap_free
  BY <1>4, FreeIsMap DEF M!Next
<1>5. CASE Step
  BY <1>5, PutItemIsMap, ReplaceIsMap, MovingIsMap DEF Step, M!Next
<1>6. CASE UNCHANGED hashmapVars
  BY <1>6 DEF hashmapVars, memory, M!vars
<1> QED
  BY <1>1, <1>2, <1>3, <1>4, <1>5, <1>6 DEF HashmapNext

\* Under the same condition, and while no call runs out of indices, every get
\* returns what a map would: deletions, collisions and resizes, one within
\* another, neither lose a key nor change its value.
THEOREM MapCorrect ==
  HashmapSpec /\ []AllSeen /\ []IndexIsValid => ImplementsMap
BY InitIsMap, AlwaysInv, StepIsMap, PTL DEF HashmapSpec, ImplementsMap, M!Spec

-----------------------------------------------------------------------------
(* Few keys: no resize is in vain.                                          *)

\* how far from its first slot a key may be put
Slots(s) == {Offset[j] % s : j \in 0 .. CONSEC_COLLISION_LIMIT}

(* There is a slot for each key in the table that all resizes lead to, and  *)
(* one resize earlier for more keys than the first table has buckets; no    *)
(* table up to there hides a slot.                                          *)
FewKeys(sizes) ==
  /\ CONSEC_RESIZE_LIMIT > 0
  /\ sizes \in [0 .. CONSEC_RESIZE_LIMIT -> Nat]
  /\ sizes[0] = STARTING_BUCKETS
  /\ \A m \in 1 .. CONSEC_RESIZE_LIMIT : sizes[m] = sizes[m - 1] * RESIZE_RATIO
  /\ \A m \in 0 .. CONSEC_RESIZE_LIMIT : IsSeen(sizes[m])
  /\ IsFiniteSet(Key)
  /\ Cardinality(Key) <= Cardinality(Slots(sizes[CONSEC_RESIZE_LIMIT]))
  /\ STARTING_BUCKETS < Cardinality(Slots(sizes[CONSEC_RESIZE_LIMIT - 1]))

LEMMA UsedFinite ==
  ASSUME NEW t \in Table
  PROVE  /\ IsFiniteSet(Used(t)) /\ Cardinality(Used(t)) \in Nat
         /\ Cardinality(Used(t)) <= t.size
<1>1. t.size \in Nat /\ Used(t) \in SUBSET (0 .. t.size - 1)
  BY TableType, UsedIs
<1>2. IsFiniteSet(0 .. t.size - 1) /\ Cardinality(0 .. t.size - 1) = t.size
  BY <1>1, FS_Interval
<1> QED
  BY <1>1, <1>2, FS_Subset, FS_CardinalityType

\* Tables that hold the same have as many items.
LEMMA HeldAsMany ==
  ASSUME NEW t \in Table, NEW u \in Table, IsOnce(u), Held(t) = Held(u)
  PROVE  Cardinality(Used(u)) <= Cardinality(Used(t))
<1> DEFINE f == [i \in Used(u) |-> CHOOSE j \in Used(t) : t.items[j] = u.items[i]]
<1>1. ASSUME NEW i \in Used(u) PROVE f[i] \in Used(t) /\ t.items[f[i]] = u.items[i]
  <2>1. u.items[i] \in Held(t)
    BY DEF Held
  <2>2. \E j \in Used(t) : t.items[j] = u.items[i]
    BY <2>1 DEF Held
  <2> QED
    BY <2>2
<1> HIDE DEF f
<1>2. ASSUME NEW i \in Used(u), NEW j \in Used(u), f[i] = f[j] PROVE i = j
  <2>1. u.items[i] = u.items[j]
    BY <1>1, <1>2
  <2> QED
    BY <2>1 DEF IsOnce
<1>3. f \in Injection(Used(u), Used(t))
  <2>1. f \in [Used(u) -> Used(t)]
    BY <1>1 DEF f
  <2> QED
    BY <1>2, <2>1 DEF Injection, IsInjective
<1> QED
  BY <1>3, UsedFinite, FS_Injection

LEMMA SlotsFinite ==
  ASSUME NEW s \in Nat, s > 0
  PROVE  IsFiniteSet(Slots(s)) /\ Cardinality(Slots(s)) \in Nat
<1>1. Slots(s) \in SUBSET (0 .. s - 1)
  BY OffsetType DEF Slots
<1>2. IsFiniteSet(0 .. s - 1)
  BY FS_Interval
<1>3. IsFiniteSet(Slots(s))
  BY <1>1, <1>2, FS_Subset
<1> QED
  BY <1>3, FS_CardinalityType

\* With fewer items than a key has slots one of the slots is empty.
LEMMA SlotLeft ==
  ASSUME NEW t \in Table, t.size > 0, NEW k \in Key,
         Cardinality(Used(t)) < Cardinality(Slots(t.size))
  PROVE  \E j \in 0 .. CONSEC_COLLISION_LIMIT : t.items[Probe(t, k, j)] = Nothing
<1> SUFFICES ASSUME \A j \in 0 .. CONSEC_COLLISION_LIMIT : t.items[Probe(t, k, j)] # Nothing
             PROVE  FALSE
  OBVIOUS
<1> DEFINE s == t.size
           R == Slots(s)
<1>1. s \in Nat
  BY TableType
<1>2. PICK h \in Nat : \A j \in 0 .. CONSEC_COLLISION_LIMIT : Probe(t, k, j) = (h + Offset[j]) % s
  BY ProbeType, Constants
<1>0. s > 0 /\ h \in Nat
  BY <1>2
<1> HIDE DEF s
<1>10. \A x, y \in Nat : x % s = y % s <=> (h + x) % s = (h + y) % s
  BY <1>0, <1>1, SameRest, Zenon
<1> USE DEF s
<1>3. ASSUME NEW r \in R
      PROVE  /\ r \in 0 .. s - 1
             /\ (h + r) % s \in Used(t)
  <2>1. PICK j \in 0 .. CONSEC_COLLISION_LIMIT : r = Offset[j] % s
    BY DEF Slots
  <2>2. Offset[j] \in Nat
    BY OffsetType
  <2>3. r \in 0 .. s - 1 /\ r % s = Offset[j] % s
    BY <1>1, <2>1, <2>2
  <2>4. (h + r) % s = (h + Offset[j]) % s
    <3>1. r \in Nat
      BY <1>1, <2>3
    <3> QED
      BY <1>10, <2>2, <2>3, <3>1
  <2>5. Probe(t, k, j) \in Used(t)
    BY ProbeType, UsedIs
  <2> QED
    BY <1>2, <2>3, <2>4, <2>5
<1> DEFINE f == [r \in R |-> (h + r) % s]
<1> HIDE DEF s, R
<1>4. f \in [R -> Used(t)]
  BY <1>3
<1>5. ASSUME NEW r \in R, NEW q \in R, f[r] = f[q] PROVE r = q
  <2>1. (h + r) % s = (h + q) % s
    BY <1>5
  <2>2. r \in 0 .. s - 1 /\ q \in 0 .. s - 1
    BY <1>3
  <2>3. r % s = q % s
    <3>1. r \in Nat /\ q \in Nat
      BY <1>1, <2>2
    <3> QED
      BY <1>10, <2>1, <3>1
  <2>4. r % s = r /\ q % s = q
    BY <1>1, <2>2
  <2> QED
    BY <2>3, <2>4
<1>6. f \in Injection(R, Used(t))
  BY <1>4, <1>5 DEF Injection, IsInjective
<1>7. IsFiniteSet(Used(t)) /\ Cardinality(Used(t)) \in Nat
  BY UsedFinite
<1>8. IsFiniteSet(R) /\ Cardinality(R) <= Cardinality(Used(t))
  BY <1>6, <1>7, FS_Injection
<1>9. Cardinality(R) \in Nat
  BY <1>8, FS_CardinalityType
<1> QED
  BY <1>7, <1>8, <1>9 DEF R, s

\* A table without a key has fewer items than there are keys.
LEMMA FewerThanKeys ==
  ASSUME NEW t \in Table, IsOnce(t), IsFiniteSet(Key), NEW k \in Key, ~ Has(t, k)
  PROVE  Cardinality(Used(t)) < Cardinality(Key)
<1> DEFINE f == [i \in Used(t) |-> t.items[i].key]
           T == Key \ {k}
<1>1. f \in [Used(t) -> T]
  BY UsedIs DEF Has
<1>2. f \in Injection(Used(t), T)
  BY <1>1 DEF Injection, IsInjective, IsOnce
<1> HIDE DEF T, f
<1>3. /\ IsFiniteSet(T) /\ Cardinality(T) = Cardinality(Key) - 1
      /\ Cardinality(Key) \in Nat
  BY FS_RemoveElement, FS_CardinalityType DEF T
<1>4. Cardinality(Used(t)) <= Cardinality(T)
  BY <1>2, <1>3, FS_Injection
<1> QED
  BY <1>3, <1>4, UsedFinite

LEMMA SizesGrow ==
  ASSUME NEW sizes, FewKeys(sizes)
  PROVE  /\ \A m \in 0 .. CONSEC_RESIZE_LIMIT : sizes[m] \in Nat /\ sizes[m] > 0
         /\ \A m, n \in 0 .. CONSEC_RESIZE_LIMIT : m < n => sizes[m] < sizes[n]
<1> DEFINE top == CONSEC_RESIZE_LIMIT
<1>1. /\ top \in Nat /\ sizes \in [0 .. top -> Nat] /\ sizes[0] > 0
      /\ \A m \in 1 .. top : sizes[m] = sizes[m - 1] * RESIZE_RATIO
  BY Constants DEF FewKeys
<1> HIDE DEF top
<1>2. ASSUME NEW m \in 1 .. top, sizes[m - 1] > 0
      PROVE  sizes[m] > sizes[m - 1]
  <2>1. sizes[m - 1] \in Nat /\ sizes[m] = sizes[m - 1] * RESIZE_RATIO
    BY <1>1
  <2> QED
    BY <1>2, <2>1, Constants
<1>3. \A m \in 0 .. top : sizes[m] > 0
  <2> DEFINE Bad == {m \in 0 .. top : ~ (sizes[m] > 0)}
  <2> SUFFICES ASSUME Bad # {} PROVE FALSE
    OBVIOUS
  <2> DEFINE m == Min(Bad)
  <2>1. Bad \in SUBSET Nat
    BY <1>1
  <2>2. m \in Bad /\ \A n \in Bad : m <= n
    BY <2>1, LeastIn
  <2> HIDE DEF m
  <2>3. m \in 0 .. top /\ ~ (sizes[m] > 0)
    BY <2>2
  <2>4. m \in 1 .. top /\ m - 1 \in 0 .. top
    BY <1>1, <2>3
  <2>5. m - 1 \notin Bad
    BY <2>2, <2>4
  <2>6. sizes[m - 1] > 0
    BY <2>4, <2>5
  <2>7. sizes[m] > sizes[m - 1] /\ sizes[m] \in Nat /\ sizes[m - 1] \in Nat
    BY <1>1, <1>2, <2>4, <2>6
  <2> QED
    BY <2>3, <2>6, <2>7
<1>4. ASSUME NEW m \in 0 .. top
      PROVE  \A n \in m + 1 .. top : sizes[m] < sizes[n]
  <2> DEFINE Bad == {n \in m + 1 .. top : ~ (sizes[m] < sizes[n])}
  <2> SUFFICES ASSUME Bad # {} PROVE FALSE
    OBVIOUS
  <2> DEFINE n == Min(Bad)
  <2>1. Bad \in SUBSET Nat
    BY <1>1
  <2>2. n \in Bad /\ \A i \in Bad : n <= i
    BY <2>1, LeastIn
  <2> HIDE DEF n
  <2>3. n \in m + 1 .. top /\ ~ (sizes[m] < sizes[n])
    BY <2>2
  <2>4. n \in 1 .. top /\ n - 1 \in 0 .. top
    BY <1>1, <2>3
  <2>5. /\ sizes[n] > sizes[n - 1]
        /\ sizes[n] \in Nat /\ sizes[n - 1] \in Nat /\ sizes[m] \in Nat
    BY <1>1, <1>2, <1>3, <2>4
  <2>6. CASE n = m + 1
    BY <2>3, <2>5, <2>6
  <2>7. CASE n # m + 1
    <3>1. n - 1 \in m + 1 .. top /\ n - 1 < n
      BY <1>1, <2>3, <2>7
    <3>2. n - 1 \notin Bad
      BY <2>2, <3>1
    <3>3. sizes[m] < sizes[n - 1]
      BY <3>1, <3>2
    <3> QED
      BY <2>3, <2>5, <3>3
  <2> QED
    BY <2>6, <2>7
<1> QED
  BY <1>1, <1>3, <1>4 DEF top

IsNarrow(t) == Cardinality(Used(t)) <= STARTING_BUCKETS

(* Every table has one of the sizes, and there are as many before it as its *)
(* call has seen resizes; if no more, the first of them was full at most.   *)
(* No call has used up its resizes, not even with the one under way; the    *)
(* tables of nested resizes grow.                                           *)
Fits(sizes) ==
  ~ freed =>
    /\ \A n \in 1 .. Len(tables) :
         \E m \in 0 .. CONSEC_RESIZE_LIMIT :
           /\ tables[n].size = sizes[m]
           /\ n <= Len(calls) => /\ calls[n].resizes < CONSEC_RESIZE_LIMIT
                                 /\ calls[n].resizes <= m
                                 /\ calls[n].resizes = m => IsNarrow(tables[n])
    /\ \A n \in 1 .. Len(tables) - 1 :
         /\ tables[n].size < tables[n + 1].size
         /\ calls[n].resizes < CONSEC_RESIZE_LIMIT - 1

FewInv(sizes) == MapInv /\ defined /\ Fits(sizes)

LEMMA FewSeen ==
  ASSUME NEW sizes, FewKeys(sizes), FewInv(sizes)
  PROVE  AllSeen
<1> SUFFICES ASSUME NEW n \in DOMAIN tables PROVE IsSeen(tables[n].size)
  BY DEF AllSeen
<1>1. n \in 1 .. Len(tables) /\ Stacked
  BY StackedIs DEF FewInv, MapInv
<1>2. CASE freed
  <2>1. n = 1
    BY <1>1, <1>2, StackedIs DEF Stacked
  <2> QED
    BY <1>1, <1>2, <2>1 DEF Stacked, IsSeen
<1>3. CASE ~ freed
  BY <1>1, <1>3 DEF FewInv, Fits, FewKeys
<1> QED
  BY <1>2, <1>3

\* Before the last resize, an index is found if there is room.
LEMMA RoomFits ==
  ASSUME NEW t \in Table, t.size > 0, IsSeen(t.size), IsRight(t),
         NEW c \in CallOfSet, c.resizes < CONSEC_RESIZE_LIMIT,
         c.resizes > 0 => ~ Has(t, c.key),
         ~ Has(t, c.key) => Cardinality(Used(t)) < Cardinality(Slots(t.size))
  PROVE  SetterIndex(t, c) # ERR_NO_VALID_ITEM_INDEX
<1> SUFFICES ASSUME SetterIndex(t, c) = ERR_NO_VALID_ITEM_INDEX PROVE FALSE
  OBVIOUS
<1>1. c.key \in Key /\ c.resizes \in Nat
  BY Constants, CallType
<1>2. ~ Has(t, c.key)
  BY SetterIs
<1>3. PICK j \in 0 .. CONSEC_COLLISION_LIMIT : t.items[Probe(t, c.key, j)] = Nothing
  BY <1>1, <1>2, SlotLeft
<1>4. j \in Gaps(t, c.key, c.resizes)
  BY <1>3 DEF Gaps
<1>5. SetterIndex(t, c) = FirstOf(t, c.key, Gaps(t, c.key, c.resizes))
  BY <1>1, <1>2, NotFound DEF SetterIndex
<1>6. Gaps(t, c.key, c.resizes) \in SUBSET (0 .. CONSEC_COLLISION_LIMIT)
  BY DEF Gaps
<1> QED
  BY <1>1, <1>4, <1>5, <1>6, FirstOfIs

\* The last of the sizes has room for every key ...
LEMMA LastFits ==
  ASSUME NEW sizes, FewKeys(sizes), NEW t \in Table, IsRight(t),
         t.size = sizes[CONSEC_RESIZE_LIMIT],
         NEW c \in CallOfSet, c.resizes < CONSEC_RESIZE_LIMIT,
         c.resizes > 0 => ~ Has(t, c.key)
  PROVE  SetterIndex(t, c) # ERR_NO_VALID_ITEM_INDEX
<1>1. t.size > 0 /\ IsSeen(t.size)
  <2>1. CONSEC_RESIZE_LIMIT \in 0 .. CONSEC_RESIZE_LIMIT
    BY Constants
  <2> QED
    BY <2>1, SizesGrow DEF FewKeys
<1>2. c.key \in Key
  BY CallType
<1>3. ASSUME ~ Has(t, c.key)
      PROVE  Cardinality(Used(t)) < Cardinality(Slots(t.size))
  <2>1. Cardinality(Used(t)) < Cardinality(Key)
    BY <1>2, <1>3, FewerThanKeys DEF FewKeys, IsRight
  <2>2. Cardinality(Key) <= Cardinality(Slots(t.size))
    BY DEF FewKeys
  <2>3. Cardinality(Used(t)) \in Nat /\ Cardinality(Key) \in Nat
    BY UsedFinite, FS_CardinalityType DEF FewKeys
  <2>4. IsFiniteSet(Slots(t.size)) /\ Cardinality(Slots(t.size)) \in Nat
    BY <1>1, TableType, SlotsFinite
  <2> QED
    BY <2>1, <2>2, <2>3, <2>4
<1> QED
  BY <1>1, <1>3, RoomFits

\* ... and the last but one for what was in the first table.
LEMMA NarrowFits ==
  ASSUME NEW sizes, FewKeys(sizes), NEW t \in Table, IsRight(t), IsNarrow(t),
         t.size = sizes[CONSEC_RESIZE_LIMIT - 1],
         NEW c \in CallOfSet, c.resizes < CONSEC_RESIZE_LIMIT,
         c.resizes > 0 => ~ Has(t, c.key)
  PROVE  SetterIndex(t, c) # ERR_NO_VALID_ITEM_INDEX
<1>1. t.size > 0 /\ IsSeen(t.size)
  <2>1. CONSEC_RESIZE_LIMIT - 1 \in 0 .. CONSEC_RESIZE_LIMIT
    BY Constants DEF FewKeys
  <2> QED
    BY <2>1, SizesGrow DEF FewKeys
<1>2. Cardinality(Used(t)) < Cardinality(Slots(t.size))
  <2>1. Cardinality(Used(t)) \in Nat /\ STARTING_BUCKETS \in Nat
    BY UsedFinite, Constants
  <2>2. Cardinality(Slots(t.size)) \in Nat
    BY <1>1, TableType, SlotsFinite
  <2> QED
    BY <2>1, <2>2 DEF FewKeys, IsNarrow
<1> QED
  BY <1>1, <1>2, RoomFits

LEMMA FirstIsNarrow ==
  ASSUME NEW t \in Table, t.size = STARTING_BUCKETS PROVE IsNarrow(t)
BY UsedFinite DEF IsNarrow

LEMMA FewPutItem ==
  ASSUME NEW sizes, FewKeys(sizes), FewInv(sizes), PutItem
  PROVE  defined' /\ Fits(sizes)'
<1> DEFINE d == Len(calls)
<1>1. /\ d > 0 /\ Len(tables) = d /\ defined /\ ~ freed
      /\ Len(tables') = d
      /\ \A n \in 1 .. d : n # d => tables'[n] = tables[n]
      /\ tables'[d].size = tables[d].size
      /\ Len(calls') = d - 1
      /\ \A n \in 1 .. d - 1 : calls'[n] = calls[n]
      /\ defined' = (SetterIndex(tables[d], calls[d]) # ERR_NO_VALID_ITEM_INDEX)
      /\ UNCHANGED freed
  BY PutItemIs DEF FewInv, MapInv
<1>2. d \in Nat /\ d \in 1 .. d /\ Stacked /\ MapInv
  <2>1. d \in Nat /\ Stacked /\ MapInv
    BY StackedIs DEF FewInv, MapInv
  <2> QED
    BY <1>1, <2>1
<1>3. calls[d].resizes < CONSEC_RESIZE_LIMIT
  BY <1>1, <1>2 DEF FewInv, Fits
<1>4. calls[d].resizes # CONSEC_RESIZE_LIMIT
  BY <1>3, Constants
<1>5. SetterIndex(tables[d], calls[d]) # ERR_NO_VALID_ITEM_INDEX
  BY <1>4 DEF PutItem, Depth
<1>6. \A n \in 1 .. d : tables'[n].size = tables[n].size
  BY <1>1
<1>7. ASSUME NEW n \in 1 .. d
      PROVE  \E i \in 0 .. CONSEC_RESIZE_LIMIT :
               /\ tables'[n].size = sizes[i]
               /\ n <= Len(calls') => /\ calls'[n].resizes < CONSEC_RESIZE_LIMIT
                                      /\ calls'[n].resizes <= i
                                      /\ calls'[n].resizes = i => IsNarrow(tables'[n])
  <2>1. PICK i \in 0 .. CONSEC_RESIZE_LIMIT :
          /\ tables[n].size = sizes[i]
          /\ n <= Len(calls) => /\ calls[n].resizes < CONSEC_RESIZE_LIMIT
                                /\ calls[n].resizes <= i
                                /\ calls[n].resizes = i => IsNarrow(tables[n])
    BY <1>1 DEF FewInv, Fits
  <2>2. n <= Len(calls') => n <= Len(calls) /\ n \in 1 .. d - 1 /\ n # d /\ n \in 1 .. d
    BY <1>1, <1>2
  <2>3. n <= Len(calls') => calls'[n] = calls[n] /\ tables'[n] = tables[n]
    BY <1>1, <2>2
  <2> QED
    BY <1>6, <2>1, <2>2, <2>3
<1>8. ASSUME NEW n \in 1 .. d - 1
      PROVE  /\ tables'[n].size < tables'[n + 1].size
             /\ calls'[n].resizes < CONSEC_RESIZE_LIMIT - 1
  <2>1. n \in 1 .. d /\ n + 1 \in 1 .. d /\ n \in 1 .. Len(tables) - 1
    BY <1>1, <1>2
  <2>2. tables[n].size < tables[n + 1].size /\ calls[n].resizes < CONSEC_RESIZE_LIMIT - 1
    BY <1>1, <2>1 DEF FewInv, Fits
  <2> QED
    BY <1>1, <1>6, <2>1, <2>2
<1> QED
  BY <1>1, <1>5, <1>7, <1>8 DEF Fits

LEMMA FewResize ==
  ASSUME NEW sizes, FewKeys(sizes), FewInv(sizes), Hashmap_resize
  PROVE  defined' /\ Fits(sizes)'
<1> DEFINE d == Len(calls)
           s == tables[d].size * RESIZE_RATIO
           top == CONSEC_RESIZE_LIMIT
<1>1. /\ d > 0 /\ Len(tables) = d /\ defined /\ ~ freed
      /\ SetterIndex(tables[d], calls[d]) = ERR_NO_VALID_ITEM_INDEX
      /\ calls[d].resizes < CONSEC_RESIZE_LIMIT
      /\ Len(tables') = d + 1
      /\ \A n \in 1 .. d : tables'[n] = tables[n]
      /\ tables'[d + 1].size = s
      /\ Len(calls') = d
      /\ \A n \in 1 .. d : n # d => calls'[n] = calls[n]
      /\ calls'[d].resizes = calls[d].resizes
      /\ UNCHANGED <<defined, freed>>
  BY ResizeIs DEF FewInv, MapInv
<1>2. d \in Nat /\ d \in 1 .. d /\ Stacked /\ MapInv
  <2>1. d \in Nat /\ Stacked /\ MapInv
    BY StackedIs DEF FewInv, MapInv
  <2> QED
    BY <1>1, <2>1
<1>3. PICK m \in 0 .. CONSEC_RESIZE_LIMIT :
        /\ tables[d].size = sizes[m] /\ calls[d].resizes <= m
        /\ calls[d].resizes = m => IsNarrow(tables[d])
  BY <1>1, <1>2 DEF FewInv, Fits
<1>10. /\ tables[d] \in Table /\ IsRight(tables[d]) /\ calls[d] \in CallOfSet
       /\ calls[d].resizes > 0 => ~ Has(tables[d], calls[d].key)
  <2>1. IsSeen(tables[d].size)
    BY <1>3 DEF FewKeys
  <2> QED
    BY <1>1, <1>2, <2>1, SetterReady
<1>4. m # top
  BY <1>1, <1>3, <1>10, LastFits
<1>11. calls[d].resizes < CONSEC_RESIZE_LIMIT - 1
  <2>1. calls[d].resizes \in Nat
    BY <1>10, CallType, Constants
  <2> SUFFICES ASSUME calls[d].resizes = CONSEC_RESIZE_LIMIT - 1 PROVE FALSE
    BY <1>1, <2>1, Constants
  <2>2. m = CONSEC_RESIZE_LIMIT - 1 /\ calls[d].resizes = m
    BY <1>3, <1>4, <2>1, Constants
  <2> QED
    BY <1>1, <1>3, <1>10, <2>2, NarrowFits
<1>5. m + 1 \in 1 .. top /\ m + 1 \in 0 .. top /\ (m + 1) - 1 = m
  BY <1>3, <1>4, Constants
<1>6. s = sizes[m + 1] /\ tables[d].size < s
  <2>1. sizes[m + 1] = sizes[m] * RESIZE_RATIO
    BY <1>5 DEF FewKeys
  <2>2. sizes[m] \in Nat /\ sizes[m] > 0
    BY <1>3, SizesGrow
  <2>3. ASSUME NEW x \in Nat, x > 0, NEW r \in Nat, r > 1 PROVE x < x * r
    BY <2>3
  <2>4. sizes[m] < sizes[m] * RESIZE_RATIO
    BY <2>2, <2>3, Constants
  <2> QED
    BY <1>3, <2>1, <2>4
<1> HIDE DEF s, top
<1>7. ASSUME NEW n \in 1 .. d + 1
      PROVE  \E i \in 0 .. CONSEC_RESIZE_LIMIT :
               /\ tables'[n].size = sizes[i]
               /\ n <= Len(calls') => /\ calls'[n].resizes < CONSEC_RESIZE_LIMIT
                                      /\ calls'[n].resizes <= i
                                      /\ calls'[n].resizes = i => IsNarrow(tables'[n])
  <2>1. CASE n = d + 1
    <3>1. ~ (n <= Len(calls'))
      BY <1>1, <1>2, <2>1
    <3> QED
      BY <1>1, <1>5, <1>6, <2>1, <3>1 DEF top
  <2>2. CASE n # d + 1
    <3>1. n \in 1 .. d
      BY <1>2, <2>2
    <3>2. PICK i \in 0 .. CONSEC_RESIZE_LIMIT :
            /\ tables[n].size = sizes[i]
            /\ n <= Len(calls) => /\ calls[n].resizes < CONSEC_RESIZE_LIMIT
                                  /\ calls[n].resizes <= i
                                  /\ calls[n].resizes = i => IsNarrow(tables[n])
      BY <1>1, <3>1 DEF FewInv, Fits
    <3>3. tables'[n] = tables[n] /\ calls'[n].resizes = calls[n].resizes
      BY <1>1, <3>1
    <3> QED
      BY <1>1, <3>2, <3>3
  <2> QED
    BY <2>1, <2>2
<1>8. ASSUME NEW n \in 1 .. d
      PROVE  /\ tables'[n].size < tables'[n + 1].size
             /\ calls'[n].resizes < CONSEC_RESIZE_LIMIT - 1
  <2>1. CASE n = d
    BY <1>1, <1>6, <1>11, <2>1
  <2>2. CASE n # d
    <3>1. n + 1 \in 1 .. d /\ n \in 1 .. Len(tables) - 1
      BY <1>1, <1>2, <2>2
    <3>2. tables[n].size < tables[n + 1].size /\ calls[n].resizes < CONSEC_RESIZE_LIMIT - 1
      BY <1>1, <3>1 DEF FewInv, Fits
    <3> QED
      BY <1>1, <2>2, <3>1, <3>2
  <2> QED
    BY <2>1, <2>2
<1>9. Len(tables') - 1 = d
  BY <1>1, <1>2
<1> QED
  BY <1>1, <1>7, <1>8, <1>9 DEF Fits

LEMMA FewSetAgain ==
  ASSUME NEW sizes, FewKeys(sizes), FewInv(sizes), SetAgain
  PROVE  defined' /\ Fits(sizes)'
<1> DEFINE d == Len(calls)
<1>1. /\ d > 0 /\ Len(tables) = d + 1 /\ defined /\ ~ freed
      /\ \A n \in 1 .. d : n # d => calls'[n] = calls[n]
      /\ calls'[d].resizes = calls[d].resizes
      /\ \/ Len(calls') = d
         \/ Len(calls') = d + 1 /\ calls'[d + 1].resizes = 0
      /\ UNCHANGED <<tables, defined, freed>>
  <2>1. \A k, v : Call(k, v).resizes = 0
    BY DEF Call
  <2> QED
    BY <2>1, SetAgainIs DEF FewInv, MapInv
<1>2. d \in Nat /\ tables[d + 1] \in Table
  <2>1. d \in Nat /\ Stacked
    BY StackedIs DEF FewInv, MapInv
  <2>2. d + 1 \in 1 .. Len(tables)
    BY <1>1, <2>1
  <2> QED
    BY <2>1, <2>2, StackedIs
<1>6. \A n \in 1 .. d : calls'[n].resizes = calls[n].resizes
  BY <1>1
<1>3. ASSUME NEW n \in 1 .. d + 1
      PROVE  \E i \in 0 .. CONSEC_RESIZE_LIMIT :
               /\ tables[n].size = sizes[i]
               /\ n <= Len(calls') => /\ calls'[n].resizes < CONSEC_RESIZE_LIMIT
                                      /\ calls'[n].resizes <= i
                                      /\ calls'[n].resizes = i => IsNarrow(tables[n])
  <2>1. PICK i \in 0 .. CONSEC_RESIZE_LIMIT :
          /\ tables[n].size = sizes[i]
          /\ n <= Len(calls) => /\ calls[n].resizes < CONSEC_RESIZE_LIMIT
                                /\ calls[n].resizes <= i
                                /\ calls[n].resizes = i => IsNarrow(tables[n])
    BY <1>1 DEF FewInv, Fits
  <2>2. CASE n = d + 1
    <3>1. CASE n <= Len(calls')
      <4>1. calls'[n].resizes = 0
        BY <1>1, <1>2, <2>2, <3>1
      <4>2. i = 0 => IsNarrow(tables[n])
        BY <1>2, <2>1, <2>2, FirstIsNarrow DEF FewKeys
      <4>3. 0 < CONSEC_RESIZE_LIMIT /\ 0 <= i
        BY Constants DEF FewKeys
      <4> QED
        BY <2>1, <4>1, <4>2, <4>3
    <3>2. CASE ~ (n <= Len(calls'))
      BY <2>1, <3>2
    <3> QED
      BY <3>1, <3>2
  <2>3. CASE n # d + 1
    <3>1. n \in 1 .. d /\ n <= Len(calls)
      BY <1>2, <2>3
    <3> QED
      BY <1>6, <2>1, <3>1
  <2> QED
    BY <2>2, <2>3
<1>4. \A n \in 1 .. d : /\ tables[n].size < tables[n + 1].size
                        /\ calls'[n].resizes < CONSEC_RESIZE_LIMIT - 1
  <2>1. Len(tables) - 1 = d
    BY <1>1, <1>2
  <2> QED
    BY <1>1, <1>6, <2>1 DEF FewInv, Fits
<1>5. tables' = tables /\ defined' /\ ~ freed' /\ Len(tables') = d + 1 /\ Len(tables') - 1 = d
  BY <1>1, <1>2
<1> QED
  BY <1>3, <1>4, <1>5 DEF Fits

LEMMA FewReplace ==
  ASSUME NEW sizes, FewKeys(sizes), FewInv(sizes), ReplaceTable
  PROVE  defined' /\ Fits(sizes)'
<1> DEFINE d == Len(calls)
<1>1. /\ d > 0 /\ Len(tables) = d + 1 /\ defined /\ ~ freed
      /\ calls[d].next = tables[d].size
      /\ Len(tables') = d
      /\ \A n \in 1 .. d : n # d => tables'[n] = tables[n]
      /\ tables'[d] = tables[d + 1]
      /\ Len(calls') = d
      /\ \A n \in 1 .. d : n # d => calls'[n] = calls[n]
      /\ calls'[d].resizes = calls[d].resizes + 1
      /\ UNCHANGED <<defined, freed>>
  BY ReplaceIs DEF FewInv, MapInv
<1>2. d \in Nat /\ d \in 1 .. d /\ d + 1 \in 1 .. d + 1 /\ Stacked
  <2>1. d \in Nat /\ Stacked
    BY StackedIs DEF FewInv, MapInv
  <2> QED
    BY <1>1, <2>1
<1>3. /\ \A n \in 1 .. d + 1 : \E i \in 0 .. CONSEC_RESIZE_LIMIT :
           /\ tables[n].size = sizes[i]
           /\ n <= d => /\ calls[n].resizes < CONSEC_RESIZE_LIMIT
                        /\ calls[n].resizes <= i
                        /\ calls[n].resizes = i => IsNarrow(tables[n])
      /\ \A n \in 1 .. d : /\ tables[n].size < tables[n + 1].size
                           /\ calls[n].resizes < CONSEC_RESIZE_LIMIT - 1
  <2>1. Len(tables) - 1 = d
    BY <1>1, <1>2
  <2> QED
    BY <1>1, <2>1 DEF FewInv, Fits
<1>4. PICK m \in 0 .. CONSEC_RESIZE_LIMIT :
        /\ tables[d].size = sizes[m] /\ calls[d].resizes <= m
        /\ calls[d].resizes = m => IsNarrow(tables[d])
  BY <1>2, <1>3
<1>5. PICK i \in 0 .. CONSEC_RESIZE_LIMIT : tables[d + 1].size = sizes[i]
  BY <1>2, <1>3
<1>6. m < i
  <2>1. sizes[m] < sizes[i]
    BY <1>2, <1>3, <1>4, <1>5
  <2>2. i < m => sizes[i] < sizes[m]
    BY SizesGrow
  <2>3. sizes[m] \in Nat /\ sizes[i] \in Nat
    BY SizesGrow
  <2> QED
    BY <2>1, <2>2, <2>3, Constants
<1>10. calls[d].resizes \in Nat
  <2>1. calls[d].resizes \in 0 .. CONSEC_RESIZE_LIMIT
    BY <1>2, StackedIs
  <2> QED
    BY <2>1, Constants
<1>7. calls[d].resizes + 1 <= i /\ calls[d].resizes + 1 < CONSEC_RESIZE_LIMIT
  <2>1. calls[d].resizes < CONSEC_RESIZE_LIMIT - 1
    BY <1>2, <1>3
  <2> QED
    BY <1>4, <1>5, <1>6, <1>10, <2>1, Constants
<1>11. calls[d].resizes + 1 = i => IsNarrow(tables[d + 1])
  <2> SUFFICES ASSUME calls[d].resizes + 1 = i PROVE IsNarrow(tables[d + 1])
    OBVIOUS
  <2>1. calls[d].resizes = m
    BY <1>4, <1>5, <1>6, <1>10, Constants
  <2>2. IsSeen(tables[d + 1].size)
    BY <1>5 DEF FewKeys
  <2>3. /\ Held(tables[d]) = Held(tables[d + 1])
        /\ IsRight(tables[d + 1])
        /\ tables[d] \in Table /\ tables[d + 1] \in Table
    BY <1>1, <2>2, AllMoved DEF FewInv
  <2>4. Cardinality(Used(tables[d + 1])) <= Cardinality(Used(tables[d]))
    BY <2>3, HeldAsMany DEF IsRight
  <2>5. Cardinality(Used(tables[d])) \in Nat /\ Cardinality(Used(tables[d + 1])) \in Nat
    BY <2>3, UsedFinite
  <2> QED
    BY <1>4, <2>1, <2>4, <2>5, Constants DEF IsNarrow
<1>8. ASSUME NEW n \in 1 .. d
      PROVE  \E j \in 0 .. CONSEC_RESIZE_LIMIT :
               /\ tables'[n].size = sizes[j]
               /\ n <= Len(calls') => /\ calls'[n].resizes < CONSEC_RESIZE_LIMIT
                                      /\ calls'[n].resizes <= j
                                      /\ calls'[n].resizes = j => IsNarrow(tables'[n])
  <2>1. CASE n = d
    BY <1>1, <1>5, <1>7, <1>11, <2>1
  <2>2. CASE n # d
    <3>1. n \in 1 .. d + 1 /\ n <= d
      BY <1>2
    <3>2. PICK j \in 0 .. CONSEC_RESIZE_LIMIT :
            /\ tables[n].size = sizes[j]
            /\ calls[n].resizes < CONSEC_RESIZE_LIMIT
            /\ calls[n].resizes <= j
            /\ calls[n].resizes = j => IsNarrow(tables[n])
      BY <1>3, <3>1
    <3>3. tables'[n] = tables[n] /\ calls'[n] = calls[n]
      BY <1>1, <2>2
    <3> QED
      BY <3>2, <3>3
  <2> QED
    BY <2>1, <2>2
<1>9. ASSUME NEW n \in 1 .. d - 1
      PROVE  /\ tables'[n].size < tables'[n + 1].size
             /\ calls'[n].resizes < CONSEC_RESIZE_LIMIT - 1
  <2>1. n \in 1 .. d /\ n # d /\ n + 1 \in 1 .. d
    BY <1>2
  <2>2. /\ tables[n].size < tables[n + 1].size /\ tables'[n] = tables[n]
        /\ calls'[n].resizes < CONSEC_RESIZE_LIMIT - 1
    BY <1>1, <1>3, <2>1
  <2>3. CASE n + 1 # d
    BY <1>1, <2>1, <2>2, <2>3
  <2>4. CASE n + 1 = d
    <3>1. tables[d].size < tables[d + 1].size
      BY <1>2, <1>3
    <3>2. /\ tables[n].size \in Nat /\ tables[d].size \in Nat /\ tables[d + 1].size \in Nat
      <4>1. n \in 1 .. Len(tables) /\ d \in 1 .. Len(tables) /\ d + 1 \in 1 .. Len(tables)
        BY <1>1, <1>2, <2>1
      <4> QED
        BY <1>2, <4>1, StackedIs
    <3>3. tables[n].size < tables[d + 1].size
      BY <2>2, <2>4, <3>1, <3>2
    <3> QED
      BY <1>1, <2>2, <2>4, <3>3
  <2> QED
    BY <2>3, <2>4
<1> QED
  BY <1>1, <1>8, <1>9 DEF Fits

LEMMA FewIdle ==
  ASSUME NEW sizes, FewKeys(sizes), FewInv(sizes),
         \/ \E k \in Key : Hashmap_get(k) \/ Hashmap_delete(k)
                           \/ \E v \in Address : Hashmap_set(k, v)
         \/ Hashmap_free
  PROVE  defined' /\ Fits(sizes)'
<1>1. Stacked /\ Len(calls) = 0 /\ Len(tables) = 1 /\ defined /\ ~ freed /\ tables[1] \in Table
      /\ tables \in Seq(Table)
  BY IdleIs DEF FewInv, Hashmap_get, Hashmap_delete, Hashmap_set, Hashmap_free
<1>2. PICK m \in 0 .. CONSEC_RESIZE_LIMIT : tables[1].size = sizes[m]
  BY <1>1 DEF FewInv, Fits
<1>3. CASE Hashmap_free
  <2>1. freed' = TRUE /\ UNCHANGED defined
    BY <1>3 DEF Hashmap_free
  <2> QED
    BY <1>1, <2>1 DEF Fits
<1>4. ASSUME Len(tables') = 1, tables'[1] \in Table, tables'[1].size = tables[1].size, defined',
             \/ Len(calls') = 0
             \/ Len(calls') = 1 /\ calls'[1].resizes = 0
      PROVE  Fits(sizes)'
  <2>1. m = 0 => IsNarrow(tables'[1])
    BY <1>2, <1>4, FirstIsNarrow DEF FewKeys
  <2>2. Len(calls') >= 1 => /\ calls'[1].resizes = 0 /\ 0 <= m
                            /\ 0 < CONSEC_RESIZE_LIMIT
    BY <1>4, Constants DEF FewKeys
  <2> QED
    BY <1>2, <1>4, <2>1, <2>2 DEF Fits
<1>5. ASSUME NEW k \in Key, Hashmap_get(k) PROVE defined' /\ Fits(sizes)'
  <2>1. UNCHANGED <<tables, calls, defined>>
    BY <1>5 DEF Hashmap_get, memory
  <2>2. tables'[1] \in Table /\ tables'[1].size = tables[1].size
    BY <1>1, <2>1
  <2>3. Len(tables') = 1 /\ Len(calls') = 0 /\ defined'
    BY <1>1, <2>1
  <2> QED
    BY <1>4, <2>2, <2>3
<1>6. ASSUME NEW k \in Key, Hashmap_delete(k) PROVE defined' /\ Fits(sizes)'
  <2> DEFINE u == Put(tables[1], get_exist_item_index(tables[1], k), Nothing)
  <2>1. tables' = [tables EXCEPT ![1] = u] /\ UNCHANGED <<calls, defined>>
    BY <1>6 DEF Hashmap_delete
  <2>2. u \in Table /\ u.size = tables[1].size
    BY <1>1, PutIs
  <2> HIDE DEF u
  <2>3. Len(tables') = 1 /\ tables'[1] = u
    <3>1. tables \in Seq(Table) /\ 1 \in 1 .. Len(tables)
      BY <1>1
    <3>2. /\ Len([tables EXCEPT ![1] = u]) = Len(tables)
          /\ \A j \in 1 .. Len(tables) :
               [tables EXCEPT ![1] = u][j] = IF j = 1 THEN u ELSE tables[j]
      BY <2>2, <3>1, ExceptSeq
    <3> QED
      BY <1>1, <2>1, <3>1, <3>2
  <2>4. /\ tables'[1] \in Table /\ tables'[1].size = tables[1].size
        /\ defined' /\ Len(calls') = 0
    BY <1>1, <2>1, <2>2, <2>3
  <2> QED
    BY <1>4, <2>3, <2>4
<1>7. ASSUME NEW k \in Key, NEW v \in Address, Hashmap_set(k, v) PROVE defined' /\ Fits(sizes)'
  <2>1. calls' = <<Call(k, v)>> /\ UNCHANGED <<tables, defined>>
    BY <1>7 DEF Hashmap_set
  <2>2. Len(calls') = 1 /\ calls'[1].resizes = 0
    BY <2>1 DEF Call
  <2>3. /\ Len(tables') = 1 /\ tables'[1] \in Table
        /\ tables'[1].size = tables[1].size /\ defined'
    BY <1>1, <2>1
  <2> QED
    BY <1>4, <2>2, <2>3
<1> QED
  BY <1>3, <1>5, <1>6, <1>7

LEMMA FewStep ==
  ASSUME NEW sizes, FewKeys(sizes)
  PROVE  FewInv(sizes) /\ [HashmapNext]_hashmapVars => FewInv(sizes)'
<1> SUFFICES ASSUME FewInv(sizes), [HashmapNext]_hashmapVars PROVE FewInv(sizes)'
  OBVIOUS
<1>1. MapInv'
  BY StepInv DEF FewInv
<1>2. CASE Step
  BY <1>1, <1>2, FewPutItem, FewResize, FewSetAgain, FewReplace DEF Step, FewInv
<1>3. CASE \/ \E k \in Key : Hashmap_get(k) \/ Hashmap_delete(k)
                             \/ \E v \in Address : Hashmap_set(k, v)
           \/ Hashmap_free
  BY <1>1, <1>3, FewIdle DEF FewInv
<1>4. CASE UNCHANGED hashmapVars
  BY <1>1, <1>4 DEF hashmapVars, memory, FewInv, Fits
<1> QED
  BY <1>2, <1>3, <1>4 DEF HashmapNext

LEMMA FewAlways ==
  ASSUME NEW CONSTANT sizes, FewKeys(sizes)
  PROVE  HashmapSpec => [](MapInv /\ AllSeen /\ IndexIsValid)
<1>1. HashmapInit => FewInv(sizes)
  <2> SUFFICES ASSUME HashmapInit PROVE defined /\ Fits(sizes)
    BY InitInv DEF FewInv
  <2>1. 0 \in 0 .. CONSEC_RESIZE_LIMIT /\ sizes[0] = STARTING_BUCKETS
    BY Constants DEF FewKeys
  <2>2. /\ Len(tables) = 1 /\ Len(calls) = 0 /\ defined
        /\ tables[1].size = STARTING_BUCKETS
    BY DEF HashmapInit, Hashmap_new
  <2> QED
    BY <2>1, <2>2 DEF Fits
<1>2. FewInv(sizes) /\ [HashmapNext]_hashmapVars => FewInv(sizes)'
  BY FewStep
<1>3. FewInv(sizes) => MapInv /\ AllSeen /\ IndexIsValid
  BY FewSeen DEF FewInv, IndexIsValid
<1> QED
  BY <1>1, <1>2, <1>3, PTL DEF HashmapSpec

\* With no more keys than each of them has slots in the table that all resizes
\* lead to, whatever their hashes are, no call of set runs out of resizes and
\* uses items[-1] ...
THEOREM IndexCorrect ==
  ASSUME NEW CONSTANT sizes, FewKeys(sizes) PROVE HashmapSpec => []IndexIsValid
BY FewAlways, PTL

\* ... and the hash map is a map, in every state.
THEOREM FewKeysCorrect ==
  ASSUME NEW CONSTANT sizes, FewKeys(sizes)
  PROVE  HashmapSpec => ImplementsMap /\ [](StoredOnce /\ Reachable)
<1>1. MapInv /\ AllSeen => StoredOnce /\ Reachable
  BY SeenRight
<1> QED
  BY FewAlways, MapCorrect, <1>1, PTL

-----------------------------------------------------------------------------
(* The constants of the source.                                             *)

SourceConstants ==
  /\ STARTING_BUCKETS = 3
  /\ CONSEC_COLLISION_LIMIT = 10
  /\ CONSEC_RESIZE_LIMIT = 3
  /\ RESIZE_RATIO = 2

LEMMA SourceOffsets ==
  ASSUME SourceConstants
  PROVE  /\ Offset[0] = 0 /\ Offset[1] = 1 /\ Offset[2] = 5 /\ Offset[3] = 14
         /\ Offset[4] = 30 /\ Offset[5] = 55 /\ Offset[6] = 91 /\ Offset[7] = 140
         /\ Offset[8] = 204 /\ Offset[9] = 285 /\ Offset[10] = 385
BY DEF SourceConstants, Offset

\* The sizes up to 384, the largest of which 385 leaves the rest 1.
SmallSizes == {0, 3, 6, 12, 24, 48, 96, 192, 384}

LEMMA SmallSeen ==
  ASSUME SourceConstants, NEW s \in SmallSizes PROVE IsSeen(s)
<1>1. Offset[1] = 1 /\ Offset[10] = 385
  BY SourceOffsets
<1>2. s # 0 => 1 % s = 385 % s
  BY DEF SmallSizes
<1>3. 1 \in 0 .. CONSEC_COLLISION_LIMIT - 1 /\ CONSEC_COLLISION_LIMIT = 10
  BY DEF SourceConstants
<1> QED
  BY <1>1, <1>2, <1>3 DEF IsSeen

\* What the offsets leave in tables of 12 and 24 buckets.
LEMMA TwelveSlots ==
  ASSUME SourceConstants PROVE {0, 1, 2, 5} \subseteq Slots(12)
<1>1. \A j \in 0 .. 10 : Offset[j] % 12 \in Slots(12)
  BY DEF Slots, SourceConstants
<1>2. /\ Offset[0] % 12 = 0 /\ Offset[1] % 12 = 1 /\ Offset[3] % 12 = 2
      /\ Offset[2] % 12 = 5
  BY SourceOffsets
<1>3. 0 \in 0 .. 10 /\ 1 \in 0 .. 10 /\ 2 \in 0 .. 10 /\ 3 \in 0 .. 10
  OBVIOUS
<1> QED
  BY <1>1, <1>2, <1>3

LEMMA TwentyFourSlots ==
  ASSUME SourceConstants PROVE {0, 1, 5, 6, 7, 12, 14, 19, 20, 21} \subseteq Slots(24)
<1>1. \A j \in 0 .. 10 : Offset[j] % 24 \in Slots(24)
  BY DEF Slots, SourceConstants
<1>2. /\ Offset[0] % 24 = 0 /\ Offset[1] % 24 = 1 /\ Offset[2] % 24 = 5
      /\ Offset[3] % 24 = 14 /\ Offset[4] % 24 = 6 /\ Offset[5] % 24 = 7
      /\ Offset[6] % 24 = 19 /\ Offset[7] % 24 = 20 /\ Offset[8] % 24 = 12
      /\ Offset[9] % 24 = 21
  BY SourceOffsets
<1>3. /\ 0 \in 0 .. 10 /\ 1 \in 0 .. 10 /\ 2 \in 0 .. 10 /\ 3 \in 0 .. 10 /\ 4 \in 0 .. 10
      /\ 5 \in 0 .. 10 /\ 6 \in 0 .. 10 /\ 7 \in 0 .. 10 /\ 8 \in 0 .. 10 /\ 9 \in 0 .. 10
  OBVIOUS
<1> QED
  BY <1>1, <1>2, <1>3

LEMMA FourAndTen ==
  /\ Cardinality({0, 1, 2, 5}) = 4
  /\ Cardinality({0, 1, 5, 6, 7, 12, 14, 19, 20, 21}) = 10
<1>1. IsFiniteSet({0}) /\ Cardinality({0}) = 1
  BY FS_Singleton
<1>2. IsFiniteSet({0, 1}) /\ Cardinality({0, 1}) = 2
  <2>1. {0, 1} = {0} \cup {1} /\ 1 \notin {0}
    OBVIOUS
  <2> QED
    BY <1>1, <2>1, FS_AddElement
<1>3. IsFiniteSet({0, 1, 5}) /\ Cardinality({0, 1, 5}) = 3
  <2>1. {0, 1, 5} = {0, 1} \cup {5} /\ 5 \notin {0, 1}
    OBVIOUS
  <2> QED
    BY <1>2, <2>1, FS_AddElement
<1>4. IsFiniteSet({0, 1, 5, 6}) /\ Cardinality({0, 1, 5, 6}) = 4
  <2>1. {0, 1, 5, 6} = {0, 1, 5} \cup {6} /\ 6 \notin {0, 1, 5}
    OBVIOUS
  <2> QED
    BY <1>3, <2>1, FS_AddElement
<1>5. IsFiniteSet({0, 1, 5, 6, 7}) /\ Cardinality({0, 1, 5, 6, 7}) = 5
  <2>1. {0, 1, 5, 6, 7} = {0, 1, 5, 6} \cup {7} /\ 7 \notin {0, 1, 5, 6}
    OBVIOUS
  <2> QED
    BY <1>4, <2>1, FS_AddElement
<1>6. IsFiniteSet({0, 1, 5, 6, 7, 12}) /\ Cardinality({0, 1, 5, 6, 7, 12}) = 6
  <2>1. {0, 1, 5, 6, 7, 12} = {0, 1, 5, 6, 7} \cup {12} /\ 12 \notin {0, 1, 5, 6, 7}
    OBVIOUS
  <2> QED
    BY <1>5, <2>1, FS_AddElement
<1>7. IsFiniteSet({0, 1, 5, 6, 7, 12, 14}) /\ Cardinality({0, 1, 5, 6, 7, 12, 14}) = 7
  <2>1. /\ {0, 1, 5, 6, 7, 12, 14} = {0, 1, 5, 6, 7, 12} \cup {14}
        /\ 14 \notin {0, 1, 5, 6, 7, 12}
    OBVIOUS
  <2> QED
    BY <1>6, <2>1, FS_AddElement
<1>8. /\ IsFiniteSet({0, 1, 5, 6, 7, 12, 14, 19})
      /\ Cardinality({0, 1, 5, 6, 7, 12, 14, 19}) = 8
  <2>1. /\ {0, 1, 5, 6, 7, 12, 14, 19} = {0, 1, 5, 6, 7, 12, 14} \cup {19}
        /\ 19 \notin {0, 1, 5, 6, 7, 12, 14}
    OBVIOUS
  <2> QED
    BY <1>7, <2>1, FS_AddElement
<1>9. /\ IsFiniteSet({0, 1, 5, 6, 7, 12, 14, 19, 20})
      /\ Cardinality({0, 1, 5, 6, 7, 12, 14, 19, 20}) = 9
  <2>1. /\ {0, 1, 5, 6, 7, 12, 14, 19, 20} = {0, 1, 5, 6, 7, 12, 14, 19} \cup {20}
        /\ 20 \notin {0, 1, 5, 6, 7, 12, 14, 19}
    OBVIOUS
  <2> QED
    BY <1>8, <2>1, FS_AddElement
<1>10. /\ IsFiniteSet({0, 1, 5, 6, 7, 12, 14, 19, 20, 21})
       /\ Cardinality({0, 1, 5, 6, 7, 12, 14, 19, 20, 21}) = 10
  <2>1. /\ {0, 1, 5, 6, 7, 12, 14, 19, 20, 21} = {0, 1, 5, 6, 7, 12, 14, 19, 20} \cup {21}
        /\ 21 \notin {0, 1, 5, 6, 7, 12, 14, 19, 20}
    OBVIOUS
  <2> QED
    BY <1>9, <2>1, FS_AddElement
<1>11. IsFiniteSet({0, 1, 2}) /\ Cardinality({0, 1, 2}) = 3
  <2>1. {0, 1, 2} = {0, 1} \cup {2} /\ 2 \notin {0, 1}
    OBVIOUS
  <2> QED
    BY <1>2, <2>1, FS_AddElement
<1>12. IsFiniteSet({0, 1, 2, 5}) /\ Cardinality({0, 1, 2, 5}) = 4
  <2>1. {0, 1, 2, 5} = {0, 1, 2} \cup {5} /\ 5 \notin {0, 1, 2}
    OBVIOUS
  <2> QED
    BY <1>11, <2>1, FS_AddElement
<1> QED
  BY <1>10, <1>12

\* the sizes up to the last resize
SourceSizes == [m \in 0 .. 3 |-> IF m = 0 THEN 3 ELSE IF m = 1 THEN 6 ELSE IF m = 2 THEN 12 ELSE 24]

LEMMA SourceFewKeys ==
  ASSUME SourceConstants, IsFiniteSet(Key), Cardinality(Key) <= 10
  PROVE  FewKeys(SourceSizes)
<1>1. /\ SourceSizes[0] = 3 /\ SourceSizes[1] = 6
      /\ SourceSizes[2] = 12 /\ SourceSizes[3] = 24
  BY DEF SourceSizes
<1>2. SourceSizes \in [0 .. 3 -> Nat] /\ \A m \in 0 .. 3 : SourceSizes[m] \in SmallSizes
  BY DEF SourceSizes, SmallSizes
<1>3. \A m \in 1 .. 3 : SourceSizes[m] = SourceSizes[m - 1] * 2
  BY <1>1
<1>4. \A m \in 0 .. 3 : IsSeen(SourceSizes[m])
  BY <1>2, SmallSeen
<1>5. Cardinality(Slots(12)) >= 4
  BY TwelveSlots, FourAndTen, SlotsFinite, FS_Subset
<1>6. Cardinality(Slots(24)) >= 10
  BY TwentyFourSlots, FourAndTen, SlotsFinite, FS_Subset
<1>7. /\ Cardinality(Slots(12)) \in Nat /\ Cardinality(Slots(24)) \in Nat
      /\ Cardinality(Key) \in Nat
  BY SlotsFinite, FS_CardinalityType
<1>8. Cardinality(Key) <= Cardinality(Slots(24)) /\ 3 < Cardinality(Slots(12))
  BY <1>5, <1>6, <1>7
<1> QED
  BY <1>1, <1>2, <1>3, <1>4, <1>8 DEF FewKeys, SourceConstants

\* With the constants of the source, up to ten keys of any hashes are safe:
\* every get returns what a map would, and no call uses items[-1].  Eleven
\* keys of one hash are not.
THEOREM TenKeysCorrect ==
  ASSUME SourceConstants, IsFiniteSet(Key), Cardinality(Key) <= 10
  PROVE  HashmapSpec => ImplementsMap /\ [](StoredOnce /\ Reachable /\ IndexIsValid)
<1>1. FewKeys(SourceSizes)
  BY SourceFewKeys
<1>2. HashmapSpec => []IndexIsValid
  BY <1>1, IndexCorrect
<1>3. HashmapSpec => ImplementsMap /\ [](StoredOnce /\ Reachable)
  BY <1>1, FewKeysCorrect
<1> QED
  BY <1>2, <1>3, PTL

\* A table has one of the small sizes, or is larger than any of them.
Sized == \A n \in 1 .. Len(tables) : tables[n].size \in SmallSizes \/ tables[n].size > 384

LEMMA SizedStep ==
  ASSUME SourceConstants, MapInv, Sized, [HashmapNext]_hashmapVars
  PROVE  Sized'
<1> DEFINE d == Len(calls)
<1>1. Stacked
  BY DEF MapInv
<1>2. SUFFICES ASSUME NEW n \in 1 .. Len(tables')
               PROVE  \/ tables'[n].size = 0
                      \/ \E m \in 1 .. Len(tables) :
                           \/ tables'[n].size = tables[m].size
                           \/ tables'[n].size = tables[m].size * 2
  <2> SUFFICES ASSUME NEW n \in 1 .. Len(tables')
               PROVE  tables'[n].size \in SmallSizes \/ tables'[n].size > 384
    BY DEF Sized
  <2>1. CASE tables'[n].size = 0
    BY <2>1 DEF SmallSizes
  <2>2. ASSUME NEW m \in 1 .. Len(tables),
               \/ tables'[n].size = tables[m].size
               \/ tables'[n].size = tables[m].size * 2
        PROVE  tables'[n].size \in SmallSizes \/ tables'[n].size > 384
    <3>1. tables[m].size \in Nat
      BY <1>1, StackedIs
    <3>2. tables[m].size \in SmallSizes \/ tables[m].size > 384
      BY DEF Sized
    <3> DEFINE a == tables[m].size
               b == tables'[n].size
    <3>3. b = a \/ b = a * 2
      BY <2>2
    <3> HIDE DEF a, b
    <3>4. \/ a = 0 \/ a = 3 \/ a = 6 \/ a = 12 \/ a = 24 \/ a = 48 \/ a = 96 \/ a = 192
          \/ a = 384 \/ a > 384
      BY <3>2 DEF SmallSizes, a
    <3>5. \/ b = 0 \/ b = 3 \/ b = 6 \/ b = 12 \/ b = 24 \/ b = 48 \/ b = 96 \/ b = 192
          \/ b = 384 \/ b > 384
      BY <3>1, <3>3, <3>4 DEF a
    <3> QED
      BY <3>5 DEF SmallSizes, b
  <2> QED
    BY <1>2, <2>1, <2>2
<1>3. CASE Hashmap_resize
  <2>1. /\ Len(tables) = d /\ Len(tables') = d + 1 /\ d \in Nat /\ d > 0
        /\ \A m \in 1 .. d : tables'[m] = tables[m]
        /\ tables'[d + 1].size = tables[d].size * 2
    BY <1>1, <1>3, ResizeIs, StackedIs DEF SourceConstants
  <2> QED
    BY <2>1
<1>4. CASE PutItem
  <2>1. /\ Len(tables) = d /\ Len(tables') = d
        /\ \A m \in 1 .. d : m # d => tables'[m] = tables[m]
        /\ tables'[d].size = tables[d].size
    BY <1>1, <1>4, PutItemIs
  <2> QED
    BY <2>1
<1>5. CASE ReplaceTable
  <2>1. /\ Len(tables) = d + 1 /\ Len(tables') = d /\ d \in Nat
        /\ \A m \in 1 .. d : m # d => tables'[m] = tables[m]
        /\ tables'[d] = tables[d + 1]
    BY <1>1, <1>5, ReplaceIs, StackedIs
  <2> QED
    BY <2>1
<1>6. CASE UNCHANGED tables
  BY <1>6
<1>7. CASE Hashmap_free
  <2>1. tables' = <<Hashmap_new(0)>>
    BY <1>7 DEF Hashmap_free
  <2>2. Len(tables') = 1 /\ tables'[1].size = 0
    BY <2>1 DEF Hashmap_new
  <2> QED
    BY <2>2
<1>8. ASSUME NEW k \in Key, Hashmap_delete(k)
      PROVE  Len(tables') = 1 /\ Len(tables) = 1 /\ tables'[1].size = tables[1].size
  <2> DEFINE u == Put(tables[1], get_exist_item_index(tables[1], k), Nothing)
  <2>1. tables' = [tables EXCEPT ![1] = u]
    BY <1>8 DEF Hashmap_delete
  <2>2. tables \in Seq(Table) /\ Len(tables) = 1 /\ tables[1] \in Table
    BY <1>8, IdleIs DEF Hashmap_delete
  <2>3. u \in Table /\ u.size = tables[1].size
    BY <2>2, PutIs
  <2> HIDE DEF u
  <2>4. 1 \in 1 .. Len(tables)
    BY <2>2
  <2>5. /\ Len([tables EXCEPT ![1] = u]) = Len(tables)
        /\ \A j \in 1 .. Len(tables) : [tables EXCEPT ![1] = u][j] = IF j = 1 THEN u ELSE tables[j]
    BY <2>2, <2>3, <2>4, ExceptSeq
  <2> QED
    BY <2>1, <2>2, <2>3, <2>4, <2>5
<1>9. CASE \E k \in Key : Hashmap_delete(k)
  <2>1. Len(tables') = 1 /\ Len(tables) = 1 /\ tables'[1].size = tables[1].size
    BY <1>8, <1>9
  <2>2. n = 1 /\ 1 \in 1 .. Len(tables)
    BY <2>1
  <2> QED
    BY <2>1, <2>2
<1>10. \/ UNCHANGED tables \/ Hashmap_resize \/ PutItem \/ ReplaceTable \/ Hashmap_free
       \/ \E k \in Key : Hashmap_delete(k)
  BY DEF HashmapNext, Step, SetAgain, Hashmap_set, Hashmap_get, hashmapVars, memory
<1> QED
  BY <1>3, <1>4, <1>5, <1>6, <1>7, <1>9, <1>10

\* With the constants of the source, whatever the keys and however many, no
\* key is in two slots and none is lost while the tables have at most 384
\* buckets: 385, the farthest slot, is as far as the second one in all of them.
THEOREM SmallTablesCorrect ==
  ASSUME SourceConstants
  PROVE  HashmapSpec => []((\A n \in DOMAIN tables : tables[n].size <= 384)
                             => StoredOnce /\ Reachable)
<1>1. HashmapInit => Sized
  <2> SUFFICES ASSUME HashmapInit, NEW n \in 1 .. Len(tables)
               PROVE  tables[n].size \in SmallSizes
    BY DEF Sized
  <2>1. tables = <<Hashmap_new(3)>>
    BY DEF HashmapInit, SourceConstants
  <2>2. n = 1
    BY <2>1
  <2>3. tables[1].size = 3
    BY <2>1 DEF Hashmap_new
  <2> QED
    BY <2>2, <2>3 DEF SmallSizes
<1>2. MapInv /\ Sized /\ [HashmapNext]_hashmapVars => Sized'
  BY SizedStep
<1>3. MapInv /\ Sized => ((\A n \in DOMAIN tables : tables[n].size <= 384)
                            => StoredOnce /\ Reachable)
  <2> SUFFICES ASSUME MapInv, Sized, \A n \in DOMAIN tables : tables[n].size <= 384
               PROVE  AllSeen
    BY SeenRight
  <2> SUFFICES ASSUME NEW n \in DOMAIN tables PROVE IsSeen(tables[n].size)
    BY DEF AllSeen
  <2>1. n \in 1 .. Len(tables) /\ tables[n].size \in Nat
    BY StackedIs DEF MapInv
  <2>2. tables[n].size \in SmallSizes
    BY <2>1 DEF Sized
  <2> QED
    BY <2>2, SmallSeen
<1> QED
  BY AlwaysInv, <1>1, <1>2, <1>3, PTL DEF HashmapSpec

=============================================================================
