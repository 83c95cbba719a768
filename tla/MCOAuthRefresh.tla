--------------------------- MODULE MCOAuthRefresh ---------------------------
(* A small instance of OAuthRefresh for TLC. *)
EXTENDS OAuthRefresh, TLC

CONSTANTS a1, a2, p1, p2

MCProcess == (a1 :> p1) @@ (a2 :> p2)

\* The two instances are interchangeable.
Symmetry == Permutations(Attempts)
=============================================================================
