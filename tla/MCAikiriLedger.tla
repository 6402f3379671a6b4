--------------------------- MODULE MCAikiriLedger ---------------------------
(* Three accounts, three hashes, indices 0 .. 5. *)
EXTENDS AikiriLedger, TLC
CONSTANTS a1, a2, a3, h1, h2, h3
MCAccounts == {a1, a2, a3}
MCHashes == {h1, h2, h3}
=============================================================================
