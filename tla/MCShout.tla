-------------------------------- MODULE MCShout --------------------------------
(* Two clients that type a line longer than the buffer, an empty line, and   *)
(* a last line without an end.                                               *)
EXTENDS Shout, TLC

CONSTANTS c1, c2, a, b, nl

MCInput == c1 :> <<a, b, a, nl, b>> @@ c2 :> <<b, nl, nl, a>>

=============================================================================
