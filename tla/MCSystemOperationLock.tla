----------------------- MODULE MCSystemOperationLock -----------------------
(* Small instances of SystemOperationLock for TLC. *)
EXTENDS SystemOperationLock, TLC

CONSTANTS c1, c2, f1, f2

\* Requests are interchangeable, and so are operation ids.
Symmetry == Permutations(Callers) \cup Permutations(Fingerprints)
=============================================================================
