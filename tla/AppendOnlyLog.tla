--------------------------- MODULE AppendOnlyLog ---------------------------
(***************************************************************************)
(* What both ledgers of the Aikiri Network promise: a log that only ever   *)
(* grows, one entry at a time, at its end.  The contract on Base and the   *)
(* block directory on disk are each shown to implement it.                 *)
(***************************************************************************)
EXTENDS Naturals, Sequences

CONSTANT Entries      \* what may stand in the log: block hashes

VARIABLE log          \* the entries so far, the genesis entry first

Init == log \in {<< >>} \cup {<<e>> : e \in Entries}

Grow == \E e \in Entries : log' = Append(log, e)

Spec == Init /\ [][Grow]_log
=============================================================================
