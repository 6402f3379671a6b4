--------------------------- MODULE MCLedgerStore ---------------------------
(* One device, which may get a second key, and two validator keys. *)
EXTENDS LedgerStore, TLC
CONSTANTS p1, p2, n1, n2, n3, mac, phone, k1, k2, v1, v2
MCSymmetry == Permutations(Procs)
=============================================================================
