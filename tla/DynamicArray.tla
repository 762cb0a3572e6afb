----------------------------- MODULE DynamicArray -----------------------------
(***************************************************************************)
(* The dynamic array of src/basics/dynamic_array.c: a block of memory that *)
(* realloc() doubles when it is full.  The block is a function from the    *)
(* indices it has room for; NULL has room for none.                        *)
(*                                                                         *)
(* Integers are of type int: see Wrap.  Definitions named Slip* are wrong  *)
(* on purpose: see HttpMessage.                                            *)
(***************************************************************************)
EXTENDS Integers, Sequences

CONSTANTS
  Value,               \* the pointers that are pushed
  None,                \* NULL as a result
  Garbage,             \* what fresh memory holds
  STARTING_CAPACITY,
  INT_MAX,
  Faults,              \* "realloc": realloc() may fail
  Index,               \* the indices that get and set are called with
  MaxItems             \* bound: no push beyond this size

EXPAND_RATIO == 2

ASSUME DynamicArrayAssumption ==
  /\ None \notin Value /\ Garbage \notin Value
  /\ {STARTING_CAPACITY, INT_MAX} \subseteq Nat \ {0}
  /\ STARTING_CAPACITY <= INT_MAX
  /\ Faults \subseteq {"realloc"}
  /\ Index \subseteq Int
  /\ MaxItems \in Nat

VARIABLES
  items, size, capacity,
  result,              \* what the last call returned
  state,               \* of the program: "ok", "freed", or "undefined" once it
                       \* has used memory it does not have
  exhausted            \* whether realloc() has failed or the capacity has
                       \* overflowed (history)

fields == <<items, size, capacity>>
vars   == <<fields, result, state, exhausted>>

NULL == [i \in {} |-> Garbage]

\* malloc() of n pointers
Block(n) == [i \in 0 .. n - 1 |-> Garbage]

\* the outcome of an addition or doubling of ints
Wrap(n)     == IF n > INT_MAX THEN n - 2 * (INT_MAX + 1) ELSE n

\* DA_new()
Init ==
  /\ items = Block(STARTING_CAPACITY)
  /\ size = 0
  /\ capacity = STARTING_CAPACITY
  /\ result = None
  /\ state = "ok"
  /\ exhausted = FALSE

InUse == state = "ok"

\* block[i] = x, into a block that may not have room for it
Store(block, i, x) ==
  /\ items' = IF i \in DOMAIN block THEN [block EXCEPT ![i] = x] ELSE block
  /\ state' = IF i \in DOMAIN block THEN state ELSE "undefined"

\* result = items[i]
Load(i) ==
  /\ result' = IF i \in DOMAIN items THEN items[i] ELSE result
  /\ state' = IF i \in DOMAIN items THEN state ELSE "undefined"

-----------------------------------------------------------------------------
\* the end of DA_push(): items[size++] = x
PutLast(block, x) ==
  /\ Store(block, size, x)
  /\ size' = Wrap(size + 1)
  /\ UNCHANGED result

SlipIsFull == size = capacity + 1
IsFull     == size = capacity

PushInPlace(x) ==
  /\ InUse
  /\ size < MaxItems
  /\ ~ IsFull
  /\ PutLast(items, x)
  /\ UNCHANGED <<capacity, exhausted>>

\* The block realloc() returns, with what the old one held.  The size it is
\* asked for is unsigned: one that was negative is too much to be had.
SlipRealloc(n) == Block(n)
Realloc(n) ==
  [i \in 0 .. n - 1 |-> IF i \in DOMAIN items THEN items[i] ELSE Garbage]

PushGrows(x) ==
  /\ InUse
  /\ size < MaxItems
  /\ IsFull /\ capacity >= 0
  /\ capacity' = Wrap(capacity * EXPAND_RATIO)
  /\ PutLast(Realloc(capacity * EXPAND_RATIO), x)
  /\ exhausted' = (exhausted \/ capacity' < 0)

\* realloc() returns NULL, which is assigned before it is looked at
PushFails ==
  /\ InUse
  /\ size < MaxItems
  /\ IsFull
  /\ "realloc" \in Faults \/ capacity < 0
  /\ items' = NULL
  /\ exhausted' = TRUE
  /\ UNCHANGED <<size, capacity, result, state>>

Push(x) == PushInPlace(x) \/ PushGrows(x) \/ PushFails

SlipPop ==
  /\ InUse
  /\ IF size <= 0
     THEN result' = None /\ UNCHANGED <<size, state>>
     ELSE size' = size - 1 /\ Load(size)
  /\ UNCHANGED <<items, capacity, exhausted>>

Pop ==
  /\ InUse
  /\ IF size <= 0
     THEN result' = None /\ UNCHANGED <<size, state>>
     ELSE size' = size - 1 /\ Load(size')
  /\ UNCHANGED <<items, capacity, exhausted>>

InRange(i) == ~ (i < 0 \/ i >= size)

Set(x, i) ==
  /\ InUse
  /\ IF InRange(i) THEN Store(items, i, x) ELSE UNCHANGED <<items, state>>
  /\ UNCHANGED <<size, capacity, result, exhausted>>

Get(i) ==
  /\ InUse
  /\ IF InRange(i) THEN Load(i) ELSE result' = None /\ UNCHANGED state
  /\ UNCHANGED <<fields, exhausted>>

Size ==
  /\ InUse
  /\ result' = size
  /\ UNCHANGED <<fields, state, exhausted>>

Free ==
  /\ InUse
  /\ state' = "freed"
  /\ items' = NULL
  /\ size' = 0
  /\ capacity' = 0
  /\ UNCHANGED <<result, exhausted>>

Next ==
  \/ \E x \in Value : Push(x) \/ \E i \in Index : Set(x, i)
  \/ \E i \in Index : Get(i)
  \/ Pop \/ Size \/ Free

Spec == Init /\ [][Next]_vars

-----------------------------------------------------------------------------
TypeOK ==
  /\ DOMAIN items \subseteq Nat
  /\ \A i \in DOMAIN items : items[i] \in Value \cup {Garbage}
  /\ size \in Int /\ size <= INT_MAX
  /\ capacity \in Int /\ capacity <= INT_MAX
  /\ result \in Value \cup {None, Garbage} \cup Int
  /\ state \in {"ok", "freed", "undefined"}
  /\ exhausted \in BOOLEAN

\* No call uses memory outside the block, while there is one: what makes a
\* push grow it and what it grows it by fit together (lines 40, 49 and 59),
\* however pushes and pops alternate around the capacity, and even when first
\* the capacity and then the size overflow, which are powers of two.
MemoryIsSafe == state = "undefined" => items = NULL

\* "size indicates how many items there are in the items array", "capacity
\* is the memory size" (lines 16-17): the block has room for capacity items,
\* and the first size of them were pushed, until resources are exhausted.
SizeIsItems ==
  state = "ok" /\ ~ exhausted =>
    /\ DOMAIN items = 0 .. capacity - 1
    /\ 0 <= size /\ size <= capacity
    /\ \A i \in 0 .. size - 1 : items[i] \in Value

\* The array is a list, wherever realloc() moves its items.
L == INSTANCE List WITH
       list  <- IF exhausted THEN <<>> ELSE [i \in 1 .. size |-> items[i - 1]],
       freed <- state = "freed"

ImplementsList == L!Spec

=============================================================================
