------------------------ MODULE MCPaymentFulfillment ------------------------
(* Small instances of PaymentFulfillment for TLC. *)
EXTENDS PaymentFulfillment, TLC

CONSTANTS o1, w1, w2

\* Workers are interchangeable; safety runs only.
WorkerSymmetry == Permutations(Workers)
=============================================================================
