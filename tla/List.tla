--------------------------------- MODULE List ---------------------------------
(***************************************************************************)
(* What a dynamic array promises: a list that grows and shrinks at its end.*)
(* Indices start at zero; one that is out of range changes nothing.        *)
(* Once its resources are exhausted nothing is promised.                   *)
(***************************************************************************)
EXTENDS Integers, Sequences

CONSTANTS Value, None, Index

VARIABLES
  list,
  result,    \* what the last call returned
  freed,
  exhausted

vars == <<list, result, freed, exhausted>>

Init ==
  /\ list = <<>>
  /\ result = None
  /\ freed = FALSE
  /\ exhausted = FALSE

InRange(i) == 0 <= i /\ i < Len(list)

Push(x) ==
  /\ ~ freed
  /\ list' = Append(list, x)
  /\ UNCHANGED <<result, freed>>

Pop ==
  /\ ~ freed
  /\ IF list = <<>>
     THEN result' = None /\ UNCHANGED list
     ELSE /\ result' = list[Len(list)]
          /\ list' = SubSeq(list, 1, Len(list) - 1)
  /\ UNCHANGED freed

Set(x, i) ==
  /\ ~ freed
  /\ list' = IF InRange(i) THEN [list EXCEPT ![i + 1] = x] ELSE list
  /\ UNCHANGED <<result, freed>>

Get(i) ==
  /\ ~ freed
  /\ result' = IF InRange(i) THEN list[i + 1] ELSE None
  /\ UNCHANGED <<list, freed>>

Size ==
  /\ ~ freed
  /\ result' = Len(list)
  /\ UNCHANGED <<list, freed>>

Free ==
  /\ ~ freed
  /\ freed' = TRUE
  /\ list' = <<>>
  /\ UNCHANGED result

Call ==
  \/ \E x \in Value : Push(x) \/ \E i \in Index : Set(x, i)
  \/ \E i \in Index : Get(i)
  \/ Pop \/ Size \/ Free

Next ==
  \/ exhausted'
  \/ Call /\ UNCHANGED exhausted

Spec == Init /\ [][Next]_vars

=============================================================================
