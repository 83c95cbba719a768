------------------------- MODULE MCConcurrencySlots -------------------------
(* A small instance of ConcurrencySlots for TLC. *)
EXTENDS ConcurrencySlots, TLC

CONSTANTS r1, r2, r3, p1, p2

MCProcess == (r1 :> p1) @@ (r2 :> p1) @@ (r3 :> p2)
=============================================================================
