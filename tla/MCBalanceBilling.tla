-------------------------- MODULE MCBalanceBilling --------------------------
(* Small instances of BalanceBilling for TLC. *)
EXTENDS BalanceBilling, TLC

CONSTANTS r1, r2

\* Requests are interchangeable.
Symmetry == Permutations(Requests)
=============================================================================
