----------------------------- MODULE MCBlockRun -----------------------------
(* The bounds of BlockRun are numbers; nothing else needs a value here. *)
EXTENDS BlockRun
=============================================================================
