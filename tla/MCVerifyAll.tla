---------------------------- MODULE MCVerifyAll ----------------------------
(* Three nodes, which the world tells apart only by the set that lies. *)
EXTENDS VerifyAll, TLC
CONSTANTS n1, n2, n3
MCSymmetry == Permutations(Nodes)
=============================================================================
