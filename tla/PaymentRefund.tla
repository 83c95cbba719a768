---------------------------- MODULE PaymentRefund ----------------------------
(***************************************************************************)
(* Refunds of completed balance orders: the user's request, the two halves *)
(* of an admin refund (PrepareRefund's plan, ExecuteRefund's deduction,    *)
(* gateway call, rollback), and the later finalization of a refund the     *)
(* gateway left pending.  Admins interleave with each other and with a     *)
(* user who keeps spending the same balance.                               *)
(*                                                                         *)
(* step[a] names the next effect of admin call a, plan[a] is its           *)
(* RefundPlan.  taken[o] is what refunds of o have deducted and not given  *)
(* back; payouts[o] counts the refunds the gateway really carried out.     *)
(***************************************************************************)
EXTENDS PaymentOrders

CONSTANTS Admins,          \* concurrent admin calls
          Amount,          \* the credited amount of an order
          MaxOverdraft, MaxBalance,  \* bounds on the user's balance
          NoPlan

ASSUME RefundAssumption ==
    /\ Amount \in Nat \ {0}
    /\ MaxOverdraft \in Nat /\ MaxBalance \in Nat /\ MaxBalance >= Amount

VARIABLES step, plan,
          balance,    \* users.balance
          taken,      \* deducted for refunds of the order, net of returns
          hold,       \* balanceDeducted of the order's REFUND_PENDING audit row
          refund,     \* payment_orders.refund_amount
          payouts,    \* refunds carried out by the gateway
          upstream,   \* the gateway's state of a refund it accepted
          missed      \* "audit": an audit statement failed unnoticed;
                      \* "reply": the gateway refunded and its answer was lost

ledgerVars == <<balance, taken, hold>>
gwVars     == <<payouts, upstream>>
rvars      == <<step, plan, ledgerVars, refund, gwVars, missed>>
vars       == <<storeVars, faults, rvars>>

Plans == [order : Orders, amount : 1..Amount, deduct : 0..Amount,
          prev : Statuses]

Steps == {"idle", "lock", "deduct", "restore", "gateway", "rollback", "refundFailed",
          "ok", "pending", "queryRefund", "finalizeOk", "finalizeFailed", "keepHold"}

TypeOK ==
    /\ kind \in [Orders -> OrderTypes] /\ status \in [Orders -> Statuses]
    /\ audit \in [Orders -> SUBSET AuditActions]
    /\ faults \in 0..MaxFaults
    /\ step \in [Admins -> Steps]
    /\ plan \in [Admins -> Plans \cup {NoPlan}]
    /\ \A a \in Admins : step[a] # "idle" => plan[a] \in Plans
    /\ balance \in Int /\ balance >= -MaxOverdraft
    /\ taken \in [Orders -> Nat]
    /\ hold \in [Orders -> 0..Amount]
    /\ refund \in [Orders -> 0..Amount]
    /\ payouts \in [Orders -> Nat]
    /\ upstream \in [Orders -> {"none", "pending", "done", "failed"}]
    /\ missed \in SUBSET {"audit", "reply"}

RefundInit ==
    /\ step = [a \in Admins |-> "idle"] /\ plan = [a \in Admins |-> NoPlan]
    /\ taken = [o \in Orders |-> 0] /\ hold = [o \in Orders |-> 0]
    /\ refund = [o \in Orders |-> 0]
    /\ payouts = [o \in Orders |-> 0] /\ upstream = [o \in Orders |-> "none"]
    /\ missed = {}

\* Every order completed, its amount still on the balance.
Init ==
    /\ kind \in [Orders -> OrderTypes]
    /\ status = [o \in Orders |-> "COMPLETED"]
    /\ age = [o \in Orders |-> 0] /\ current = [o \in Orders |-> {}]
    /\ audit = [o \in Orders |-> {}] /\ granted = [o \in Orders |-> 1]
    /\ faults = MaxFaults
    /\ balance = Amount
    /\ RefundInit

-----------------------------------------------------------------------------
GoTo(a, s) == step' = [step EXCEPT ![a] = s] /\ UNCHANGED plan

GoToWith(a, s, p) ==
    step' = [step EXCEPT ![a] = s] /\ plan' = [plan EXCEPT ![a] = p]

Return(a) == GoToWith(a, "idle", NoPlan)

AuditMissed == SpendFault /\ missed' = missed \cup {"audit"}

Adjust(o, amount) ==
    /\ balance' = balance - amount
    /\ taken' = [taken EXCEPT ![o] = @ + amount]

\* The user spends, which may overdraw, or tops up by other means.
UserMovesBalance ==
    /\ \/ balance > -MaxOverdraft /\ balance' = balance - 1
       \/ balance < MaxBalance /\ balance' = balance + 1
    /\ UNCHANGED <<storeVars, faults, step, plan, taken, hold, refund, gwVars, missed>>

\* WHERE status = COMPLETED AND order_type = balance
RequestRefund(o) ==
    /\ status[o] = "COMPLETED" /\ kind[o] = "balance" /\ balance >= Amount
    /\ SetStatus(o, "REFUND_REQUESTED")
    /\ refund' = [refund EXCEPT ![o] = Amount]
    /\ UNCHANGED <<audit, granted, faults, step, plan, ledgerVars, gwVars, missed>>

\* Mutant: a refund stuck in REFUNDING may be started again.
RefundableOrStuck == {"COMPLETED", "REFUND_REQUESTED", "REFUND_FAILED", "REFUNDING"}

Refundable == {"COMPLETED", "REFUND_REQUESTED", "REFUND_FAILED"}

Least(m, n) == IF m < n THEN m ELSE n

\* math.Max(0, math.Min(amt, balance))
Deductible(amt) == Least(amt, IF balance > 0 THEN balance ELSE 0)

\* The plan remembers the status and the balance of this moment.
PrepareRefund(a, o) ==
    /\ step[a] = "idle"
    /\ status[o] \in Refundable /\ kind[o] = "balance"
    /\ \E amt \in 1..Amount, force \in BOOLEAN, deduct \in BOOLEAN :
         /\ deduct /\ ~force => balance >= amt
         /\ GoToWith(a, "lock",
              [order |-> o, amount |-> amt, prev |-> status[o],
               deduct |-> IF deduct THEN Deductible(amt) ELSE 0])
    /\ UNCHANGED <<storeVars, faults, ledgerVars, refund, gwVars, missed>>

-----------------------------------------------------------------------------
(* ExecuteRefund.                                                          *)

\* WHERE status IN (COMPLETED, REFUND_REQUESTED, REFUND_FAILED)
LockRefund(a) ==
    LET p == plan[a] IN
    /\ step[a] = "lock"
    /\ IF status[p.order] \in Refundable
         THEN SetStatus(p.order, "REFUNDING") /\ GoTo(a, "deduct")
         ELSE UNCHANGED orderRow /\ Return(a)
    /\ UNCHANGED <<audit, granted, faults, ledgerVars, refund, gwVars, missed>>

\* Mutant: a retry does not look for the flag.
NothingStillTaken(o) == FALSE

StillTaken(o) == HasAudit(o, "REFUND_ROLLBACK_FAILED")

\* DeductAvailableBalance, unless an earlier deduction was never given back.
\* hasAuditLog answers FALSE when its query fails.
DeductBalance(a) ==
    LET p == plan[a]
        amt == Deductible(p.deduct) IN
    /\ step[a] = "deduct"
    /\ \/ /\ p.deduct = 0
          /\ GoTo(a, "gateway") /\ UNCHANGED <<ledgerVars, faults, missed>>
       \/ /\ p.deduct > 0
          /\ IF StillTaken(p.order)
               THEN AuditMissed ELSE UNCHANGED <<faults, missed>>
          /\ Adjust(p.order, amt) /\ UNCHANGED hold
          /\ GoToWith(a, "gateway", [p EXCEPT !.deduct = amt])
       \/ /\ p.deduct > 0 /\ StillTaken(p.order)
          /\ GoToWith(a, "gateway", [p EXCEPT !.deduct = 0])
          /\ UNCHANGED <<ledgerVars, faults, missed>>
       \* the deduction failed
       \/ /\ p.deduct > 0 /\ SpendFault
          /\ GoTo(a, "restore") /\ UNCHANGED <<ledgerVars, missed>>
    /\ UNCHANGED <<storeVars, refund, gwVars>>

\* The gateway refunds, leaves the refund pending, or refuses it; or it
\* refunds and the caller sees an error all the same.
GatewayRefund(a) ==
    LET o == plan[a].order IN
    /\ step[a] = "gateway"
    /\ \/ /\ GoTo(a, "ok")
          /\ payouts' = [payouts EXCEPT ![o] = @ + 1] /\ UNCHANGED <<upstream, faults, missed>>
       \/ /\ GoTo(a, "pending")
          /\ upstream' = [upstream EXCEPT ![o] = "pending"] /\ UNCHANGED <<payouts, faults, missed>>
       \/ GoTo(a, "rollback") /\ UNCHANGED <<gwVars, faults, missed>>
       \/ /\ GoTo(a, "rollback") /\ SpendFault
          /\ missed' = missed \cup {"reply"}
          /\ payouts' = [payouts EXCEPT ![o] = @ + 1] /\ UNCHANGED upstream
    /\ UNCHANGED <<storeVars, ledgerVars, refund>>

MarkRefundOk(a) ==
    LET p == plan[a] IN
    /\ step[a] = "ok"
    /\ SetStatus(p.order, IF p.amount < Amount THEN "PARTIALLY_REFUNDED" ELSE "REFUNDED")
    /\ refund' = [refund EXCEPT ![p.order] = p.amount]
    /\ Return(a)
    /\ UNCHANGED <<audit, granted, faults, ledgerVars, gwVars, missed>>

\* Mutant: the audit row records what was asked for, not what was taken.
AskedDeduction(p) == p.amount

HeldDeduction(p) == p.deduct

\* One transaction; the audit row is the order's only REFUND_PENDING row, so
\* a second one rolls it back and the caller gets an error.
MarkRefundPending(a) ==
    LET p == plan[a] IN
    /\ step[a] = "pending"
    /\ IF HasAudit(p.order, "REFUND_PENDING")
         THEN UNCHANGED <<orderRow, audit, hold, refund>>
         ELSE /\ SetStatus(p.order, "REFUND_PENDING")
              /\ WriteAudit(p.order, "REFUND_PENDING")
              /\ hold' = [hold EXCEPT ![p.order] = HeldDeduction(p)]
              /\ refund' = [refund EXCEPT ![p.order] = p.amount]
    /\ Return(a)
    /\ UNCHANGED <<granted, faults, balance, taken, gwVars, missed>>

\* handleGwFail and RollbackRefund: give the deduction back, or flag it.
RollbackRefund(a) ==
    LET p == plan[a] IN
    /\ step[a] = "rollback"
    /\ \/ /\ Adjust(p.order, -p.deduct)
          /\ GoTo(a, "restore") /\ UNCHANGED <<audit, faults, missed>>
       \/ /\ p.deduct > 0 /\ GoTo(a, "refundFailed")
          /\ \/ SpendFault /\ WriteAudit(p.order, "REFUND_ROLLBACK_FAILED") /\ UNCHANGED missed
             \/ AuditMissed /\ UNCHANGED audit
          /\ UNCHANGED <<balance, taken>>
    /\ UNCHANGED <<orderRow, granted, hold, refund, gwVars>>

\* The status in the plan, not of the row, decides; the error is ignored.
RestoreStatus(a) ==
    LET p == plan[a] IN
    /\ step[a] = "restore"
    /\ SetStatus(p.order, IF p.prev = "REFUND_REQUESTED" THEN p.prev ELSE "COMPLETED")
    /\ Return(a)
    /\ UNCHANGED <<audit, granted, faults, ledgerVars, refund, gwVars, missed>>

\* The error of the update is ignored, and the audit row written regardless.
MarkRefundFailed(a) ==
    LET o == plan[a].order IN
    /\ step[a] = "refundFailed"
    /\ \/ SetStatus(o, "REFUND_FAILED") /\ UNCHANGED faults
       \/ SpendFault /\ UNCHANGED orderRow
    /\ WriteAudit(o, "REFUND_FAILED")
    /\ Return(a)
    /\ UNCHANGED <<granted, ledgerVars, refund, gwVars, missed>>

-----------------------------------------------------------------------------
(* QueryAndFinalizeRefund.                                                 *)

\* The gateway decides a pending refund.
GatewayResolves(o) ==
    /\ upstream[o] = "pending"
    /\ \/ /\ upstream' = [upstream EXCEPT ![o] = "done"]
          /\ payouts' = [payouts EXCEPT ![o] = @ + 1]
       \/ upstream' = [upstream EXCEPT ![o] = "failed"] /\ UNCHANGED payouts
    /\ UNCHANGED <<storeVars, faults, step, plan, ledgerVars, refund, missed>>

\* The plan is rebuilt from the row and the REFUND_PENDING audit row.
QueryAndFinalizeRefund(a, o) ==
    /\ step[a] = "idle"
    /\ status[o] = "REFUND_PENDING"
    /\ GoToWith(a, "queryRefund",
         [order |-> o, amount |-> refund[o], prev |-> status[o], deduct |-> hold[o]])
    /\ UNCHANGED <<storeVars, faults, ledgerVars, refund, gwVars, missed>>

\* Mutant: an undecided refund counts as carried out.
NotRefused(u) == u # "failed"

Confirmed(u) == u = "done"

QueryRefund(a) ==
    LET u == upstream[plan[a].order] IN
    /\ step[a] = "queryRefund"
    /\ \/ Confirmed(u) /\ GoTo(a, "finalizeOk")
       \/ u = "failed" /\ GoTo(a, "finalizeFailed")
       \/ u \notin {"done", "failed"} /\ Return(a)
    /\ UNCHANGED <<storeVars, faults, ledgerVars, refund, gwVars, missed>>

\* One transaction: REFUND_PENDING -> REFUNDING -> REFUNDED.  The deduction
\* was held all along, so nothing more is taken.
FinalizePendingRefundSuccess(a) ==
    LET p == plan[a] IN
    /\ step[a] = "finalizeOk"
    /\ IF status[p.order] = "REFUND_PENDING"
         THEN SetStatus(p.order, IF p.amount < Amount THEN "PARTIALLY_REFUNDED" ELSE "REFUNDED")
         ELSE UNCHANGED orderRow
    /\ Return(a)
    /\ UNCHANGED <<audit, granted, faults, ledgerVars, refund, gwVars, missed>>

\* The rows finalizeRefundFailedTx inserts; an existing one fails the tx.
CanInsert(o, actions) == audit[o] \cap actions = {}

\* One transaction: the status, the return of the held deduction, the audit.
FinalizeRefundFailed(a) ==
    LET p == plan[a] IN
    /\ step[a] = "finalizeFailed"
    /\ \/ /\ IF status[p.order] = "REFUND_PENDING" /\ CanInsert(p.order, {"REFUND_FAILED"})
               THEN /\ SetStatus(p.order, "REFUND_FAILED")
                    /\ WriteAudit(p.order, "REFUND_FAILED")
                    /\ Adjust(p.order, -p.deduct)
               ELSE UNCHANGED <<orderRow, audit, balance, taken>>
          /\ Return(a) /\ UNCHANGED faults
       \* the return failed and rolled everything back
       \/ /\ status[p.order] = "REFUND_PENDING" /\ p.deduct > 0 /\ SpendFault
          /\ GoTo(a, "keepHold")
          /\ UNCHANGED <<orderRow, audit, balance, taken>>
    /\ UNCHANGED <<granted, hold, refund, gwVars, missed>>

RowsWhenKept == {"REFUND_ROLLBACK_FAILED", "REFUND_FAILED"}

\* The second transaction: REFUND_FAILED without a return, and flagged so.
FinalizeKeepingDeduction(a) ==
    LET o == plan[a].order IN
    /\ step[a] = "keepHold"
    /\ IF status[o] = "REFUND_PENDING" /\ CanInsert(o, RowsWhenKept)
         THEN SetStatus(o, "REFUND_FAILED") /\ audit' = [audit EXCEPT ![o] = @ \cup RowsWhenKept]
         ELSE UNCHANGED <<orderRow, audit>>
    /\ Return(a)
    /\ UNCHANGED <<granted, faults, ledgerVars, refund, gwVars, missed>>

-----------------------------------------------------------------------------
(* A call fails before its effect and returns an error, or the process     *)
(* dies: either way the admin call ends here, its claim still in the row.  *)
AdminCallEnds(a) ==
    /\ step[a] # "idle" /\ SpendFault
    /\ Return(a)
    /\ UNCHANGED <<storeVars, ledgerVars, refund, gwVars, missed>>

Step(a) ==
    \/ LockRefund(a) \/ DeductBalance(a) \/ GatewayRefund(a)
    \/ MarkRefundOk(a) \/ MarkRefundPending(a)
    \/ RollbackRefund(a) \/ RestoreStatus(a) \/ MarkRefundFailed(a)
    \/ QueryRefund(a) \/ FinalizePendingRefundSuccess(a)
    \/ FinalizeRefundFailed(a) \/ FinalizeKeepingDeduction(a)

Next ==
    \/ \E a \in Admins, o \in Orders : PrepareRefund(a, o) \/ QueryAndFinalizeRefund(a, o)
    \/ \E a \in Admins : Step(a) \/ AdminCallEnds(a)
    \/ \E o \in Orders : RequestRefund(o) \/ GatewayResolves(o)
    \/ UserMovesBalance

Spec == Init /\ [][Next]_vars

-----------------------------------------------------------------------------
(* Properties.                                                             *)

\* Two admins, retries and finalizations never make the gateway pay out an
\* order twice, as long as the gateway's answers arrive.
PaidOutAtMostOnce == "reply" \in missed \/ \A o \in Orders : payouts[o] <= 1

\* An order reported (partially) refunded was refunded by the gateway.
RefundedMeansPaidOut ==
    \A o \in Orders :
        status[o] \in {"REFUNDED", "PARTIALLY_REFUNDED"} => payouts[o] >= 1

\* A retried refund never takes the user's balance a second time for the
\* same order: REFUND_ROLLBACK_FAILED makes the retry skip the deduction, as
\* long as the audit row is written and read.
DeductedAtMostOnce == "audit" \in missed \/ \A o \in Orders : taken[o] <= Amount

Flagged(o) == HasAudit(o, "REFUND_ROLLBACK_FAILED")

\* While the gateway has not decided, exactly the deduction recorded in the
\* audit row is held, so a failure can return it in full.
PendingHoldsDeduction ==
    \A o \in Orders :
        status[o] = "REFUND_PENDING" /\ ~Flagged(o) /\ "audit" \notin missed => taken[o] = hold[o]

\* A refund that did not go through leaves nothing deducted, unless the
\* failed return was flagged, and nothing paid out: an order open to a new
\* refund is where it was before the last one.
FailedRefundReturnsDeduction ==
    \A o \in Orders :
        status[o] \in Refundable /\ ~Flagged(o) =>
            /\ "audit" \in missed \/ taken[o] = 0
            /\ "reply" \in missed \/ payouts[o] = 0

\* The order always says what is deducted for it: an undecided refund in its
\* audit row, one that failed by its status or by the flag.
DeductionIsTracked == PendingHoldsDeduction /\ FailedRefundReturnsDeduction

\* No admin call is working on o.
AtRest(o) == \A a \in Admins : step[a] = "idle" \/ plan[a].order # o

\* Without faults an admin refund always ends in a status that some operation
\* accepts: REFUNDING is left before the call returns.
RefundingIsTransient ==
    \A o \in Orders : status[o] = "REFUNDING" => ~AtRest(o)
=============================================================================
