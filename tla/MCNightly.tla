----------------------------- MODULE MCNightly ------------------------------
(* The bounds of OtsProof are numbers; nothing else needs a value here. *)
EXTENDS Nightly
=============================================================================
