-------------------------- MODULE MCBitcoinLookup --------------------------
(* Two blocks of the ledger, two of Bitcoin, and the two public sources. *)
EXTENDS BitcoinLookup
=============================================================================
