------------------------------- MODULE Hashmap -------------------------------
(***************************************************************************)
(* The hash map of src/basics/hashmap.c: open addressing, quadratic        *)
(* probing, and a table that doubles when a new key finds no slot.  A      *)
(* table is a function from the indices of its buckets to an item or       *)
(* Nothing (NULL).                                                         *)
(*                                                                         *)
(* A resize sets every item again in a new table, which may have to be     *)
(* resized in turn.  So Hashmap_set is a call that takes steps: tables     *)
(* holds the map's table and, behind it, the table that each resize under  *)
(* way fills; calls holds the calls of Hashmap_set under way, of which     *)
(* each but the first was made by the resize the one before it waits for.  *)
(* The thread is one: its caller goes on when the first call returns.      *)
(*                                                                         *)
(* Definitions named Slip* are wrong on purpose: see HttpMessage.          *)
(***************************************************************************)
EXTENDS Djb2

CONSTANTS
  Key, Address,            \* the keys and the value_addr they are set to
  Nothing,
  Hash,                    \* of each key, in two halves of 16 bits: see Djb2
  STARTING_BUCKETS,
  CONSEC_COLLISION_LIMIT,
  CONSEC_RESIZE_LIMIT,
  RESIZE_RATIO

Item == [key : Key, value : Address]

ASSUME HashmapAssumption ==
  /\ Nothing \notin Address \cup Item
  /\ Hash \in [Key -> (0 .. HALF - 1) \X (0 .. HALF - 1)]
  /\ {STARTING_BUCKETS, CONSEC_COLLISION_LIMIT} \subseteq Nat \ {0}
  /\ CONSEC_RESIZE_LIMIT \in Nat
  /\ RESIZE_RATIO \in Nat \ {0, 1}

VARIABLES
  tables, calls,
  defined,       \* no call has used items[-1]
  got,           \* what the last get returned
  freed

memory == <<tables, calls, defined>>
hashmapVars == <<memory, got, freed>>

-----------------------------------------------------------------------------
(* Probing.                                                                 *)

\* The squares that probe_offset() adds up in the first j collisions.
Offset ==
  [j \in 0 .. CONSEC_COLLISION_LIMIT |-> (j * (j + 1) * (2 * j + 1)) \div 6]

\* the index after j collisions
Probe(t, k, j) ==
  (Hash[k][1] * (HALF % t.size) + Hash[k][2] + Offset[j]) % t.size

ERR_NO_VALID_ITEM_INDEX == -1

SlipHits(t, k) ==
  {j \in 0 .. CONSEC_COLLISION_LIMIT - 1 :
     /\ \A i \in 0 .. j : t.items[Probe(t, k, i)] # Nothing
     /\ t.items[Probe(t, k, j)].key = k}

\* where get_exist_item_index() finds the key: empty slots are passed over, for
\* there may have been a key in them when this one was set
Hits(t, k) ==
  {j \in 0 .. CONSEC_COLLISION_LIMIT - 1 :
     LET item == t.items[Probe(t, k, j)] IN item # Nothing /\ item.key = k}

\* where it can be put; after the last resize the first slot alone is looked at
Gaps(t, k, resizes) ==
  {j \in 0 .. CONSEC_COLLISION_LIMIT :
     /\ t.items[Probe(t, k, j)] = Nothing
     /\ j = 0 \/ resizes < CONSEC_RESIZE_LIMIT}

FirstOf(t, k, js) ==
  IF js = {} THEN ERR_NO_VALID_ITEM_INDEX ELSE Probe(t, k, Min(js))

get_exist_item_index(t, k) == FirstOf(t, k, Hits(t, k))

\* the index get_setter_index() comes to before it resizes; the key, which may
\* be there already, is looked for once
SlipSetterIndex(t, c) == FirstOf(t, c.key, Gaps(t, c.key, c.resizes))
SetterIndex(t, c) ==
  IF c.resizes = 0 /\ Hits(t, c.key) # {}
  THEN get_exist_item_index(t, c.key)
  ELSE FirstOf(t, c.key, Gaps(t, c.key, c.resizes))

-----------------------------------------------------------------------------
Hashmap_new(size) == [items |-> [i \in 0 .. size - 1 |-> Nothing], size |-> size]

HashmapInit ==
  /\ tables = <<Hashmap_new(STARTING_BUCKETS)>>
  /\ calls = <<>>
  /\ defined = TRUE
  /\ got = Nothing
  /\ freed = FALSE

(* A call of Hashmap_set.                                                   *)

\* resizes and next: resize_count, and the bucket the resize has come to
Call(k, v) == [key |-> k, value |-> v, resizes |-> 0, next |-> 0]

Depth == Len(calls)
IsSetting  == calls # <<>> /\ defined /\ Len(tables) = Depth
IsResizing == calls # <<>> /\ defined /\ Len(tables) = Depth + 1

\* Hashmap_resize(), up to its loop: the key finds no slot
Hashmap_resize ==
  /\ IsSetting
  /\ SetterIndex(tables[Depth], calls[Depth]) = ERR_NO_VALID_ITEM_INDEX
  /\ calls[Depth].resizes < CONSEC_RESIZE_LIMIT
  /\ tables' = Append(tables, Hashmap_new(tables[Depth].size * RESIZE_RATIO))
  /\ calls' = [calls EXCEPT ![Depth].next = 0]
  /\ UNCHANGED <<defined, got, freed>>

\* items[at] = item; without an index there is nothing to put it in
Put(t, at, item) ==
  [t EXCEPT !.items = [i \in DOMAIN t.items |-> IF i = at THEN item ELSE t.items[i]]]

\* The item is put, or its value replaced, and the call returns.  The index is
\* not looked at: without one, after the last resize, items[-1] is used, which
\* is outside the array.
PutItem ==
  /\ IsSetting
  /\ LET c  == calls[Depth]
         at == SetterIndex(tables[Depth], c)
     IN  /\ at # ERR_NO_VALID_ITEM_INDEX \/ c.resizes = CONSEC_RESIZE_LIMIT
         /\ tables' = [tables EXCEPT ![Depth] =
                         Put(@, at, [key |-> c.key, value |-> c.value])]
         /\ defined' = (at # ERR_NO_VALID_ITEM_INDEX)
  /\ calls' = SubSeq(calls, 1, Depth - 1)
  /\ UNCHANGED <<got, freed>>

\* One round of the loop: an item is set again in the new table.
SetAgain ==
  /\ IsResizing
  /\ calls[Depth].next < tables[Depth].size
  /\ LET item == tables[Depth].items[calls[Depth].next]
         on   == [calls EXCEPT ![Depth].next = @ + 1]
     IN  calls' = IF item = Nothing THEN on
                  ELSE Append(on, Call(item.key, item.value))
  /\ UNCHANGED <<tables, defined, got, freed>>

\* the old table is freed, the new one forgotten
SlipReplaceTable ==
  /\ IsResizing
  /\ calls[Depth].next = tables[Depth].size
  /\ tables' = SubSeq(tables, 1, Depth)
  /\ calls' = [calls EXCEPT ![Depth].resizes = @ + 1]
  /\ UNCHANGED <<defined, got, freed>>

\* one bucket is left out
SlipTooShort ==
  /\ IsResizing
  /\ calls[Depth].next >= tables[Depth].size - 1
  /\ tables' = SubSeq(tables, 1, Depth - 1) \o <<tables[Depth + 1]>>
  /\ calls' = [calls EXCEPT ![Depth].resizes = @ + 1]
  /\ UNCHANGED <<defined, got, freed>>

\* The new table takes the place of the old one, and the key is tried again (in
\* get_setter_index(), lines 168-175).
ReplaceTable ==
  /\ IsResizing
  /\ calls[Depth].next = tables[Depth].size
  /\ tables' = SubSeq(tables, 1, Depth - 1) \o <<tables[Depth + 1]>>
  /\ calls' = [calls EXCEPT ![Depth].resizes = @ + 1]
  /\ UNCHANGED <<defined, got, freed>>

Step == Hashmap_resize \/ PutItem \/ SetAgain \/ ReplaceTable

-----------------------------------------------------------------------------
(* The caller.                                                              *)

IsIdle == ~ freed /\ defined /\ calls = <<>>

Hashmap_set(k, v) ==
  /\ IsIdle
  /\ calls' = <<Call(k, v)>>
  /\ UNCHANGED <<tables, defined, got, freed>>

Hashmap_get(k) ==
  /\ IsIdle
  /\ LET index == get_exist_item_index(tables[1], k)
     IN  got' = IF index = ERR_NO_VALID_ITEM_INDEX THEN Nothing
                ELSE tables[1].items[index].value
  /\ UNCHANGED <<memory, freed>>

\* the key is freed, and the item only marked
SlipDelete(k) ==
  /\ IsIdle
  /\ LET index == get_exist_item_index(tables[1], k)
     IN  tables' = IF index = ERR_NO_VALID_ITEM_INDEX THEN tables
                   ELSE [tables EXCEPT ![1].items[index].key = Nothing]
  /\ UNCHANGED <<calls, defined, got, freed>>

Hashmap_delete(k) ==
  /\ IsIdle
  /\ tables' = [tables EXCEPT ![1] = Put(@, get_exist_item_index(@, k), Nothing)]
  /\ UNCHANGED <<calls, defined, got, freed>>

Hashmap_free ==
  /\ IsIdle
  /\ freed' = TRUE
  /\ tables' = <<Hashmap_new(0)>>
  /\ UNCHANGED <<calls, defined, got>>

HashmapNext ==
  \/ \E k \in Key :
       Hashmap_get(k) \/ Hashmap_delete(k) \/ \E v \in Address : Hashmap_set(k, v)
  \/ Hashmap_free
  \/ Step

HashmapSpec == HashmapInit /\ [][HashmapNext]_hashmapVars

-----------------------------------------------------------------------------
IsTable(t) == t \in [items : [0 .. t.size - 1 -> Item \cup {Nothing}],
                     size : {t.size} \cap Nat]
Used(t) == {i \in DOMAIN t.items : t.items[i] # Nothing}

HashmapTypeOK ==
  /\ tables \in Seq({tables[n] : n \in DOMAIN tables})
  /\ \A n \in DOMAIN tables : IsTable(tables[n])
  /\ calls \in Seq([key : Key, value : Address,
                    resizes : 0 .. CONSEC_RESIZE_LIMIT, next : Nat])
  /\ Len(tables) \in {Len(calls), Len(calls) + 1} \ {0}
  /\ defined \in BOOLEAN
  /\ got \in Address \cup {Nothing}
  /\ freed \in BOOLEAN

\* A key is in one slot, in the map and in each table a resize fills: one that
\* was set behind a slot that a deletion has emptied since is not set once more
\* in front of it (lines 145-151).
StoredOnce ==
  \A n \in DOMAIN tables : \A i, j \in Used(tables[n]) :
    tables[n].items[i].key = tables[n].items[j].key => i = j

\* What is in a table can be found: get_exist_item_index(), which gives up
\* after ten collisions, finds every slot that get_setter_index() chose,
\* whatever was deleted and resized in the meantime.
Reachable ==
  \A n \in DOMAIN tables : \A i \in Used(tables[n]) :
    get_exist_item_index(tables[n], tables[n].items[i].key) = i

\* No call has used items[-1] (lines 183-187 and 216-231).
IndexIsValid == defined

\* What is under a key in the map's table, once or by some choice.
Stored(t, k) ==
  IF \E i \in Used(t) : t.items[i].key = k
  THEN t.items[CHOOSE i \in Used(t) : t.items[i].key = k].value
  ELSE Nothing

\* The hash map is a map: a set puts its key, and no deletion, collision or
\* resize changes what is under another.
M == INSTANCE KeyValueMap WITH
       Value <- Address, None <- Nothing, result <- got,
       map <- [k \in Key |-> Stored(tables[1], k)],
       setting <- IF calls = <<>> THEN Nothing
                  ELSE [key |-> calls[1].key, value |-> calls[1].value]

ImplementsMap == M!Spec

=============================================================================
