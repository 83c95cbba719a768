-------------------------- MODULE MCPaymentRefund --------------------------
(* Small instances of PaymentRefund for TLC. *)
EXTENDS PaymentRefund, TLC

CONSTANTS o1, a1, a2

\* Admin calls are interchangeable.
AdminSymmetry == Permutations(Admins)
=============================================================================
