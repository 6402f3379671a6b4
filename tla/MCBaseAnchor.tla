---------------------------- MODULE MCBaseAnchor ----------------------------
(* Blocks 1 .. MaxIndex of one checkout, each with a hash of its own, and one *)
(* hash that another checkout may anchor in their place.                      *)
EXTENDS BaseAnchor
CONSTANT p1
MCBlockHash == [i \in 0 .. MaxIndex |-> <<"block", i>>]
MCGenesisHash == MCBlockHash[0]
MCForeign == {<<"other", 0>>}
MCHashes == {MCBlockHash[i] : i \in 0 .. MaxIndex} \cup MCForeign
=============================================================================
