--------------------------- MODULE MCIdempotency ---------------------------
(* Small instances of Idempotency for TLC. *)
EXTENDS Idempotency, TLC

CONSTANTS c1, c2, f1, f2

\* Calls are interchangeable, and so are payloads.
Symmetry == Permutations(Callers) \cup Permutations(Fingerprints)
=============================================================================
