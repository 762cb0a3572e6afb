----------------------------- MODULE KeyValueMap -----------------------------
(***************************************************************************)
(* What a hash map promises: the value that was set last under a key is    *)
(* the one that is got, until the key is deleted.  A set takes its time,   *)
(* and nothing else changes the map until it is done.                      *)
(***************************************************************************)
CONSTANTS Key, Value, None

VARIABLES
  map,       \* the value of each key, or None
  setting,   \* the key and the value of the set under way, or None
  result,    \* what the last get returned
  freed

vars == <<map, setting, result, freed>>

IsIdle == ~ freed /\ setting = None

Init ==
  /\ map = [k \in Key |-> None]
  /\ setting = None
  /\ result = None
  /\ freed = FALSE

Set(k, v) ==
  /\ IsIdle
  /\ setting' = [key |-> k, value |-> v]
  /\ UNCHANGED <<map, result, freed>>

SetIsDone ==
  /\ setting # None
  /\ map' = [map EXCEPT ![setting.key] = setting.value]
  /\ setting' = None
  /\ UNCHANGED <<result, freed>>

Get(k) ==
  /\ IsIdle
  /\ result' = map[k]
  /\ UNCHANGED <<map, setting, freed>>

Delete(k) ==
  /\ IsIdle
  /\ map' = [map EXCEPT ![k] = None]
  /\ UNCHANGED <<setting, result, freed>>

Free ==
  /\ IsIdle
  /\ freed' = TRUE
  /\ map' = [k \in Key |-> None]
  /\ UNCHANGED <<setting, result>>

Next ==
  \/ \E k \in Key : Get(k) \/ Delete(k) \/ \E v \in Value : Set(k, v)
  \/ SetIsDone
  \/ Free

Spec == Init /\ [][Next]_vars

=============================================================================
