--------------------------------- MODULE Djb2 ---------------------------------
(* The hash function of src/basics/hashmap.c.                                *)
EXTENDS Integers, SequencesExt

HALF == 65536

\* hash_function(key): djb2 in 32 bits, kept as two halves of 16; a key is the
\* sequence of its character codes
HashFunction(key) ==
  LET step(h, c) ==
        LET low == h[2] * 33 + c
        IN  <<(h[1] * 33 + low \div HALF) % HALF, low % HALF>>
  IN  FoldLeft(step, <<0, 5381>>, key)

=============================================================================
