----------------------------- MODULE MCDnsClient -----------------------------
(* Two names, one a part of the other, and their addresses; and for DnsNames *)
(* every name of up to six characters: two letters and the dot.              *)
EXTENDS DnsNames, TLC

ab == <<97, 46, 98>>
b  == <<98>>

MCHost      == {ab, b}
MCAddressOf == ab :> <<10, 0, 0, 7>> @@ b :> <<10, 0, 1, 0>>

\* another id, and the client's own: the answers to earlier runs, that asked
\* for the one name or for the other
MCElsewhere ==
  {[origin |-> "elsewhere", id |-> id, kind |-> "address", host |-> host] :
     id \in {99, 100}, host \in MCHost}

MCCharacter == {97, 98, DOT}
MCAddress   == <<10, 0, 0, 7>>

\* nothing, a second end, a label without an end, and lengths that lead behind
\* the end
MCFollowing == {<<>>, <<0>>, <<1, DOT>>, <<97, 0, 1>>, <<255>>}

=============================================================================
