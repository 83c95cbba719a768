--------------------------- MODULE PaymentPromise ---------------------------
(***************************************************************************)
(* What the payment system promises about an order, with no worker, lease, *)
(* lock or clock: money first, then value, once, and only then the word    *)
(* "completed".  PaymentFulfillment implements it.                         *)
(***************************************************************************)
EXTENDS Naturals

CONSTANT Orders

VARIABLES paid,     \* orders paid in full at the provider
          given,    \* how often the value of each order was given
          done      \* orders reported completed

promiseVars == <<paid, given, done>>

Init ==
    /\ paid = {}
    /\ given = [o \in Orders |-> 0]
    /\ done = {}

Pay(o) ==
    /\ o \notin paid
    /\ paid' = paid \cup {o}
    /\ UNCHANGED <<given, done>>

Give(o) ==
    /\ o \in paid /\ given[o] = 0
    /\ given' = [given EXCEPT ![o] = 1]
    /\ UNCHANGED <<paid, done>>

Complete(o) ==
    /\ given[o] = 1 /\ o \notin done
    /\ done' = done \cup {o}
    /\ UNCHANGED <<paid, given>>

Next == \E o \in Orders : Pay(o) \/ Give(o) \/ Complete(o)

Spec == Init /\ [][Next]_promiseVars
=============================================================================
