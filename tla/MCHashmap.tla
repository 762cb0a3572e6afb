------------------------------ MODULE MCHashmap ------------------------------
(* Keys for Hashmap, which are strings.                                      *)
EXTENDS Hashmap

CONSTANTS v1, v2

\* "H", "d" and "," share all their slots in tables of 7, 14 and 28 buckets;
\* "s" and "w" are in their way: with these a resize has to resize in turn.
MCKeys == {<<72>>, <<100>>, <<44>>, <<115>>, <<119>>}

MCHash == [k \in Key |-> HashFunction(k)]

-----------------------------------------------------------------------------
(* As many colliding keys as the test of main() would set one by one.        *)

\* "ab", "bA" and "c " have one djb2 hash, and so have all strings of as many
\* of these pairs.
Same == {<<97, 98>>, <<98, 65>>, <<99, 32>>}

Colliding == {FlattenSeq(s) : s \in [1 .. 3 -> Same]}

\* the keys are set once each, in an order that makes no difference
Missing == Key \ {tables[1].items[i].key : i \in Used(tables[1])}

FillSpec ==
  HashmapInit /\ [][\/ Missing # {} /\ Hashmap_set(CHOOSE k \in Missing : TRUE, v1)
                    \/ Step]_hashmapVars

=============================================================================
