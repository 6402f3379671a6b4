------------------------------- MODULE MCSeal -------------------------------
(* Two machines and two documents; the chat of one machine names a document of *)
(* the other's as another kind.                                              *)
EXTENDS Seal, TLC
CONSTANTS m1, m2, d1, d2, acceptance, invoice
MCLines == (m1 :> {[doc |-> d1, kind |-> acceptance], [doc |-> d2, kind |-> acceptance]})
           @@ (m2 :> {[doc |-> d1, kind |-> invoice]})
=============================================================================
