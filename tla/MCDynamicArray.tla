---------------------------- MODULE MCDynamicArray ----------------------------
(* Ints of four bits, and a starting capacity of two.                        *)
EXTENDS DynamicArray

CONSTANTS x, y

MCIndex == -1 .. 5

=============================================================================
