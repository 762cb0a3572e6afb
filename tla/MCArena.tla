-------------------------------- MODULE MCArena --------------------------------
(* The arena on words of two bytes and regions of three words.               *)
EXTENDS Arena

\* nothing, less than a word, two words, and more than a region usually holds
MCRequest == {0, 1, 4, 7}
=============================================================================
