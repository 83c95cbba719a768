------------------------- MODULE PaymentRefundProofs -------------------------
(***************************************************************************)
(* Proofs about PaymentRefund, for any number of orders and admin calls,   *)
(* any amount and bounds on the balance, and any number of faults.         *)
(***************************************************************************)
EXTENDS PaymentRefund, TLAPS

LEMMA Constants ==
  /\ OrderTypes \subseteq Kinds /\ MaxFaults \in Nat
  /\ Amount \in Nat /\ Amount > 0 /\ MaxOverdraft \in Nat /\ MaxBalance \in Nat
  BY OrdersAssumption, BoundsAssumption, RefundAssumption

USE Constants

-----------------------------------------------------------------------------
(* The inductive invariant.  LockRefund makes an admin call the only one   *)
(* at work on its order until the status leaves REFUNDING; what the order  *)
(* has been paid back and debited then depends on how far that call is.    *)

Claimed    == {"deduct", "restore", "gateway", "rollback", "refundFailed", "ok", "pending"}
Finalizing == {"queryRefund", "finalizeOk", "finalizeFailed", "keepHold"}

\* Steps at which the plan's deduction has been made.
Deducted == {"gateway", "rollback", "ok", "pending"}
\* Steps at which the gateway has not accepted the refund.
Unpaid   == {"deduct", "restore", "gateway", "rollback", "refundFailed"}

Returned == {"none", "failed"}
AsGateway(o) == payouts[o] = IF upstream[o] = "done" THEN 1 ELSE 0

ClaimInv ==
    /\ \A a \in Admins : step[a] \in Claimed => status[plan[a].order] = "REFUNDING"
    /\ \A a, b \in Admins :
         /\ step[a] \in Claimed /\ step[b] \in Claimed
         /\ plan[a].order = plan[b].order
         => a = b

\* A finalization belongs to the order's only pending refund.
FinalInv ==
    /\ \A o \in Orders : status[o] = "REFUND_PENDING" =>
         HasAudit(o, "REFUND_PENDING") /\ refund[o] >= 1
    /\ \A a \in Admins : step[a] \in Finalizing =>
         LET o == plan[a].order IN
         /\ HasAudit(o, "REFUND_PENDING")
         /\ status[o] = "REFUND_PENDING" =>
              /\ plan[a].deduct = hold[o]
              /\ step[a] = "finalizeOk" => upstream[o] = "done"
              /\ step[a] \in {"finalizeFailed", "keepHold"} => upstream[o] = "failed"

\* What the gateway has paid out, whatever answers were lost.
PaidInv ==
    /\ \A o \in Orders :
         status[o] \in {"REFUNDED", "PARTIALLY_REFUNDED"} \/ upstream[o] = "done" => payouts[o] >= 1
    /\ \A a \in Admins : step[a] = "ok" => payouts[plan[a].order] >= 1

\* ... and when none was.
OnceInv ==
    /\ \A o \in Orders :
         /\ payouts[o] <= 1 /\ (upstream[o] = "pending" => payouts[o] = 0)
         /\ status[o] \in Refundable => payouts[o] = 0 /\ upstream[o] \in Returned
         /\ status[o] = "REFUND_PENDING" => AsGateway(o)
    /\ \A a \in Admins :
         LET o == plan[a].order IN
         /\ step[a] \in Unpaid => payouts[o] = 0 /\ upstream[o] \in Returned
         /\ step[a] = "pending" => AsGateway(o)

\* What is deducted covers what a rollback or a finalization would give back.
CoverInv ==
    /\ \A o \in Orders : status[o] = "REFUND_PENDING" => taken[o] >= hold[o]
    /\ \A a \in Admins : step[a] \in Deducted => taken[plan[a].order] >= plan[a].deduct

\* ... and is exactly that, unless flagged, when no audit statement failed.
TakenInv ==
    /\ \A o \in Orders :
         /\ taken[o] <= Amount
         /\ status[o] \in Refundable => Flagged(o) \/ taken[o] = 0
         /\ status[o] = "REFUND_PENDING" => IF Flagged(o) THEN hold[o] = 0 ELSE taken[o] = hold[o]
    /\ \A a \in Admins :
         LET o == plan[a].order IN
         /\ step[a] \in {"deduct", "restore"} => Flagged(o) \/ taken[o] = 0
         /\ step[a] = "refundFailed" => Flagged(o)
         /\ step[a] \in Deducted =>
              IF Flagged(o) THEN plan[a].deduct = 0 ELSE taken[o] = plan[a].deduct

IInv ==
    /\ TypeOK /\ ClaimInv /\ FinalInv /\ PaidInv /\ CoverInv
    /\ "reply" \in missed \/ OnceInv
    /\ "audit" \in missed \/ TakenInv

-----------------------------------------------------------------------------
(* Plans and the balance.                                                  *)

LEMMA PlanType ==
  ASSUME TypeOK, NEW a \in Admins, step[a] # "idle"
  PROVE  /\ plan[a] \in Plans /\ plan[a].order \in Orders
         /\ plan[a].amount \in 1..Amount /\ plan[a].deduct \in 0..Amount
         /\ plan[a].prev \in Statuses
  BY DEF TypeOK, Plans

LEMMA PlanWithDeduct ==
  ASSUME NEW p \in Plans, NEW d \in 0..Amount
  PROVE  /\ [p EXCEPT !.deduct = d] \in Plans
         /\ [p EXCEPT !.deduct = d].order = p.order
         /\ [p EXCEPT !.deduct = d].deduct = d
  BY DEF Plans

LEMMA DeductibleBounds ==
  ASSUME balance \in Int, NEW amt \in Nat
  PROVE  /\ Deductible(amt) \in 0..amt
         /\ Deductible(amt) > 0 => balance >= Deductible(amt)
  BY DEF Deductible, Least

-----------------------------------------------------------------------------
(* Type correctness, in parts.                                             *)

RowsOK ==
    /\ kind \in [Orders -> OrderTypes] /\ status \in [Orders -> Statuses]
    /\ audit \in [Orders -> SUBSET AuditActions]
    /\ refund \in [Orders -> 0..Amount]

LedgerOK ==
    /\ balance \in Int /\ balance >= -MaxOverdraft
    /\ taken \in [Orders -> Nat] /\ hold \in [Orders -> 0..Amount]

GatewayOK ==
    /\ payouts \in [Orders -> Nat]
    /\ upstream \in [Orders -> {"none", "pending", "done", "failed"}]

AdminsOK ==
    /\ step \in [Admins -> Steps] /\ plan \in [Admins -> Plans \cup {NoPlan}]
    /\ \A a \in Admins : step[a] # "idle" => plan[a] \in Plans

FaultsOK == faults \in 0..MaxFaults /\ missed \in SUBSET {"audit", "reply"}

Parts == RowsOK /\ LedgerOK /\ GatewayOK /\ AdminsOK /\ FaultsOK

LEMMA TypeParts == TypeOK <=> Parts
  BY DEF TypeOK, Parts, RowsOK, LedgerOK, GatewayOK, AdminsOK, FaultsOK

LEMMA SetStatusType ==
  ASSUME status \in [Orders -> Statuses], kind \in [Orders -> OrderTypes],
         NEW o \in Orders, NEW s \in Statuses, SetStatus(o, s)
  PROVE  status' \in [Orders -> Statuses] /\ kind' \in [Orders -> OrderTypes]
  BY DEF SetStatus, Touch

LEMMA GoToType ==
  ASSUME AdminsOK, NEW a \in Admins, step[a] # "idle", NEW s \in Steps, GoTo(a, s)
  PROVE  AdminsOK'
  BY DEF AdminsOK, GoTo

LEMMA GoToWithType ==
  ASSUME AdminsOK, NEW a \in Admins, NEW s \in Steps, NEW p \in Plans, GoToWith(a, s, p)
  PROVE  AdminsOK'
  BY DEF AdminsOK, GoToWith

LEMMA ReturnType ==
  ASSUME AdminsOK, NEW a \in Admins, Return(a)
  PROVE  AdminsOK'
  BY DEF AdminsOK, Return, GoToWith, Steps

LEMMA InitType == Init => TypeOK
  <1> SUFFICES ASSUME Init PROVE Parts
    BY TypeParts
  <1> USE DEF Init, RefundInit
  <1>1. RowsOK
    BY DEF RowsOK, Statuses
  <1>2. LedgerOK
    BY DEF LedgerOK
  <1>3. GatewayOK
    BY DEF GatewayOK
  <1>4. AdminsOK
    BY DEF AdminsOK, Steps
  <1>5. FaultsOK
    BY DEF FaultsOK
  <1> QED
    BY <1>1, <1>2, <1>3, <1>4, <1>5 DEF Parts

LEMMA NextType ==
  ASSUME TypeOK, FinalInv, CoverInv, [Next]_vars
  PROVE  TypeOK'
  <1>p. TypeOK' <=> Parts'
    BY TypeParts, PTL
  <1> SUFFICES Parts'
    BY <1>p
  <1>q. RowsOK /\ LedgerOK /\ GatewayOK /\ AdminsOK /\ FaultsOK
    BY TypeParts DEF Parts
  <1> USE <1>q DEF storeVars, orderRow, ledgerVars, gwVars
  <1>1. ASSUME NEW a \in Admins, NEW o \in Orders, PrepareRefund(a, o) PROVE Parts'
    <2>1. RowsOK'
      BY <1>1 DEF RowsOK, PrepareRefund
    <2>2. LedgerOK'
      BY <1>1 DEF LedgerOK, PrepareRefund
    <2>3. GatewayOK'
      BY <1>1 DEF GatewayOK, PrepareRefund
    <2>4. AdminsOK'
      BY <1>1, DeductibleBounds DEF PrepareRefund, GoToWith, AdminsOK, RowsOK, LedgerOK,
         Steps, Plans
    <2>5. FaultsOK'
      BY <1>1 DEF FaultsOK, PrepareRefund
    <2> QED
      BY <2>1, <2>2, <2>3, <2>4, <2>5 DEF Parts
  <1>2. ASSUME NEW a \in Admins, NEW o \in Orders, QueryAndFinalizeRefund(a, o) PROVE Parts'
    <2>1. RowsOK'
      BY <1>2 DEF RowsOK, QueryAndFinalizeRefund
    <2>2. LedgerOK'
      BY <1>2 DEF LedgerOK, QueryAndFinalizeRefund
    <2>3. GatewayOK'
      BY <1>2 DEF GatewayOK, QueryAndFinalizeRefund
    <2>4. AdminsOK'
      BY <1>2 DEF QueryAndFinalizeRefund, GoToWith, AdminsOK, RowsOK, LedgerOK, FinalInv,
         Steps, Plans
    <2>5. FaultsOK'
      BY <1>2 DEF FaultsOK, QueryAndFinalizeRefund
    <2> QED
      BY <2>1, <2>2, <2>3, <2>4, <2>5 DEF Parts
  <1>3. ASSUME NEW a \in Admins, LockRefund(a) PROVE Parts'
    <2>p. step[a] # "idle" /\ plan[a] \in Plans /\ plan[a].order \in Orders
          /\ plan[a].amount \in 1..Amount /\ plan[a].deduct \in 0..Amount
          /\ plan[a].prev \in Statuses
      BY <1>3, PlanType, TypeParts DEF LockRefund
    <2>1. RowsOK'
      BY <1>3, <2>p, SetStatusType DEF RowsOK, LockRefund, Statuses, RefundStatuses
    <2>2. LedgerOK'
      BY <1>3, <2>p DEF LedgerOK, LockRefund
    <2>3. GatewayOK'
      BY <1>3, <2>p DEF GatewayOK, LockRefund
    <2>4. AdminsOK'
      BY <1>3, <2>p, GoToType, GoToWithType, ReturnType DEF LockRefund, Steps
    <2>5. FaultsOK'
      BY <1>3, <2>p DEF FaultsOK, LockRefund
    <2> QED
      BY <2>1, <2>2, <2>3, <2>4, <2>5 DEF Parts
  <1>4. ASSUME NEW a \in Admins, DeductBalance(a) PROVE Parts'
    <2>p. step[a] # "idle" /\ plan[a] \in Plans /\ plan[a].order \in Orders
          /\ plan[a].amount \in 1..Amount /\ plan[a].deduct \in 0..Amount
          /\ plan[a].prev \in Statuses
      BY <1>4, PlanType, TypeParts DEF DeductBalance
    <2>1. RowsOK'
      BY <1>4, <2>p DEF RowsOK, DeductBalance
    <2>2. LedgerOK'
      BY <1>4, <2>p, DeductibleBounds DEF LedgerOK, DeductBalance, Adjust
    <2>3. GatewayOK'
      BY <1>4, <2>p DEF GatewayOK, DeductBalance
    <2>4. AdminsOK'
      BY <1>4, <2>p, GoToType, GoToWithType, ReturnType, DeductibleBounds, PlanWithDeduct
         DEF DeductBalance, Steps, LedgerOK
    <2>5. FaultsOK'
      BY <1>4, <2>p DEF FaultsOK, DeductBalance, SpendFault, AuditMissed
    <2> QED
      BY <2>1, <2>2, <2>3, <2>4, <2>5 DEF Parts
  <1>5. ASSUME NEW a \in Admins, GatewayRefund(a) PROVE Parts'
    <2>p. step[a] # "idle" /\ plan[a] \in Plans /\ plan[a].order \in Orders
          /\ plan[a].amount \in 1..Amount /\ plan[a].deduct \in 0..Amount
          /\ plan[a].prev \in Statuses
      BY <1>5, PlanType, TypeParts DEF GatewayRefund
    <2>1. RowsOK'
      BY <1>5, <2>p DEF RowsOK, GatewayRefund
    <2>2. LedgerOK'
      BY <1>5, <2>p DEF LedgerOK, GatewayRefund
    <2>3. GatewayOK'
      BY <1>5, <2>p DEF GatewayOK, GatewayRefund
    <2>4. AdminsOK'
      BY <1>5, <2>p, GoToType, GoToWithType, ReturnType DEF GatewayRefund, Steps
    <2>5. FaultsOK'
      BY <1>5, <2>p DEF FaultsOK, GatewayRefund, SpendFault, AuditMissed
    <2> QED
      BY <2>1, <2>2, <2>3, <2>4, <2>5 DEF Parts
  <1>6. ASSUME NEW a \in Admins, MarkRefundOk(a) PROVE Parts'
    <2>p. step[a] # "idle" /\ plan[a] \in Plans /\ plan[a].order \in Orders
          /\ plan[a].amount \in 1..Amount /\ plan[a].deduct \in 0..Amount
          /\ plan[a].prev \in Statuses
      BY <1>6, PlanType, TypeParts DEF MarkRefundOk
    <2>1. RowsOK'
      BY <1>6, <2>p, SetStatusType DEF RowsOK, MarkRefundOk, Statuses, RefundStatuses
    <2>2. LedgerOK'
      BY <1>6, <2>p DEF LedgerOK, MarkRefundOk
    <2>3. GatewayOK'
      BY <1>6, <2>p DEF GatewayOK, MarkRefundOk
    <2>4. AdminsOK'
      BY <1>6, <2>p, GoToType, GoToWithType, ReturnType DEF MarkRefundOk, Steps
    <2>5. FaultsOK'
      BY <1>6, <2>p DEF FaultsOK, MarkRefundOk
    <2> QED
      BY <2>1, <2>2, <2>3, <2>4, <2>5 DEF Parts
  <1>7. ASSUME NEW a \in Admins, MarkRefundPending(a) PROVE Parts'
    <2>p. step[a] # "idle" /\ plan[a] \in Plans /\ plan[a].order \in Orders
          /\ plan[a].amount \in 1..Amount /\ plan[a].deduct \in 0..Amount
          /\ plan[a].prev \in Statuses
      BY <1>7, PlanType, TypeParts DEF MarkRefundPending
    <2>1. RowsOK'
      BY <1>7, <2>p, SetStatusType DEF RowsOK, MarkRefundPending, WriteAudit, AuditActions,
         Statuses, RefundStatuses
    <2>2. LedgerOK'
      BY <1>7, <2>p DEF LedgerOK, MarkRefundPending, HeldDeduction
    <2>3. GatewayOK'
      BY <1>7, <2>p DEF GatewayOK, MarkRefundPending
    <2>4. AdminsOK'
      BY <1>7, <2>p, GoToType, GoToWithType, ReturnType DEF MarkRefundPending, Steps
    <2>5. FaultsOK'
      BY <1>7, <2>p DEF FaultsOK, MarkRefundPending
    <2> QED
      BY <2>1, <2>2, <2>3, <2>4, <2>5 DEF Parts
  <1>8. ASSUME NEW a \in Admins, RollbackRefund(a) PROVE Parts'
    <2>p. step[a] # "idle" /\ plan[a] \in Plans /\ plan[a].order \in Orders
          /\ plan[a].amount \in 1..Amount /\ plan[a].deduct \in 0..Amount
          /\ plan[a].prev \in Statuses
      BY <1>8, PlanType, TypeParts DEF RollbackRefund
    <2>1. RowsOK'
      BY <1>8, <2>p DEF RowsOK, RollbackRefund, WriteAudit, AuditActions
    <2>2. LedgerOK'
      BY <1>8, <2>p DEF LedgerOK, RollbackRefund, Adjust, CoverInv, Deducted
    <2>3. GatewayOK'
      BY <1>8, <2>p DEF GatewayOK, RollbackRefund
    <2>4. AdminsOK'
      BY <1>8, <2>p, GoToType, GoToWithType, ReturnType DEF RollbackRefund, Steps
    <2>5. FaultsOK'
      <3>1. missed' \in {missed, missed \cup {"audit"}}
        BY <1>8 DEF RollbackRefund, AuditMissed
      <3>2. UNCHANGED faults \/ SpendFault
        BY <1>8 DEF RollbackRefund, AuditMissed
      <3> QED
        BY <3>1, <3>2 DEF FaultsOK, SpendFault
    <2> QED
      BY <2>1, <2>2, <2>3, <2>4, <2>5 DEF Parts
  <1>9. ASSUME NEW a \in Admins, RestoreStatus(a) PROVE Parts'
    <2>p. step[a] # "idle" /\ plan[a] \in Plans /\ plan[a].order \in Orders
          /\ plan[a].amount \in 1..Amount /\ plan[a].deduct \in 0..Amount
          /\ plan[a].prev \in Statuses
      BY <1>9, PlanType, TypeParts DEF RestoreStatus
    <2>1. RowsOK'
      BY <1>9, <2>p, SetStatusType DEF RowsOK, RestoreStatus, Statuses, RefundStatuses
    <2>2. LedgerOK'
      BY <1>9, <2>p DEF LedgerOK, RestoreStatus
    <2>3. GatewayOK'
      BY <1>9, <2>p DEF GatewayOK, RestoreStatus
    <2>4. AdminsOK'
      BY <1>9, <2>p, GoToType, GoToWithType, ReturnType DEF RestoreStatus, Steps
    <2>5. FaultsOK'
      BY <1>9, <2>p DEF FaultsOK, RestoreStatus
    <2> QED
      BY <2>1, <2>2, <2>3, <2>4, <2>5 DEF Parts
  <1>10. ASSUME NEW a \in Admins, MarkRefundFailed(a) PROVE Parts'
    <2>p. step[a] # "idle" /\ plan[a] \in Plans /\ plan[a].order \in Orders
          /\ plan[a].amount \in 1..Amount /\ plan[a].deduct \in 0..Amount
          /\ plan[a].prev \in Statuses
      BY <1>10, PlanType, TypeParts DEF MarkRefundFailed
    <2>1. RowsOK'
      BY <1>10, <2>p, SetStatusType DEF RowsOK, MarkRefundFailed, WriteAudit, AuditActions,
         Statuses, RefundStatuses
    <2>2. LedgerOK'
      BY <1>10, <2>p DEF LedgerOK, MarkRefundFailed
    <2>3. GatewayOK'
      BY <1>10, <2>p DEF GatewayOK, MarkRefundFailed
    <2>4. AdminsOK'
      BY <1>10, <2>p, GoToType, GoToWithType, ReturnType DEF MarkRefundFailed, Steps
    <2>5. FaultsOK'
      BY <1>10, <2>p DEF FaultsOK, MarkRefundFailed, SpendFault, AuditMissed
    <2> QED
      BY <2>1, <2>2, <2>3, <2>4, <2>5 DEF Parts
  <1>11. ASSUME NEW a \in Admins, QueryRefund(a) PROVE Parts'
    <2>p. step[a] # "idle" /\ plan[a] \in Plans /\ plan[a].order \in Orders
          /\ plan[a].amount \in 1..Amount /\ plan[a].deduct \in 0..Amount
          /\ plan[a].prev \in Statuses
      BY <1>11, PlanType, TypeParts DEF QueryRefund
    <2>1. RowsOK'
      BY <1>11, <2>p DEF RowsOK, QueryRefund
    <2>2. LedgerOK'
      BY <1>11, <2>p DEF LedgerOK, QueryRefund
    <2>3. GatewayOK'
      BY <1>11, <2>p DEF GatewayOK, QueryRefund
    <2>4. AdminsOK'
      BY <1>11, <2>p, GoToType, GoToWithType, ReturnType DEF QueryRefund, Steps
    <2>5. FaultsOK'
      BY <1>11, <2>p DEF FaultsOK, QueryRefund
    <2> QED
      BY <2>1, <2>2, <2>3, <2>4, <2>5 DEF Parts
  <1>12. ASSUME NEW a \in Admins, FinalizePendingRefundSuccess(a) PROVE Parts'
    <2>p. step[a] # "idle" /\ plan[a] \in Plans /\ plan[a].order \in Orders
          /\ plan[a].amount \in 1..Amount /\ plan[a].deduct \in 0..Amount
          /\ plan[a].prev \in Statuses
      BY <1>12, PlanType, TypeParts DEF FinalizePendingRefundSuccess
    <2>1. RowsOK'
      BY <1>12, <2>p, SetStatusType DEF RowsOK, FinalizePendingRefundSuccess, Statuses,
         RefundStatuses
    <2>2. LedgerOK'
      BY <1>12, <2>p DEF LedgerOK, FinalizePendingRefundSuccess
    <2>3. GatewayOK'
      BY <1>12, <2>p DEF GatewayOK, FinalizePendingRefundSuccess
    <2>4. AdminsOK'
      BY <1>12, <2>p, GoToType, GoToWithType, ReturnType DEF FinalizePendingRefundSuccess, Steps
    <2>5. FaultsOK'
      BY <1>12, <2>p DEF FaultsOK, FinalizePendingRefundSuccess
    <2> QED
      BY <2>1, <2>2, <2>3, <2>4, <2>5 DEF Parts
  <1>13. ASSUME NEW a \in Admins, FinalizeRefundFailed(a) PROVE Parts'
    <2>p. step[a] # "idle" /\ plan[a] \in Plans /\ plan[a].order \in Orders
          /\ plan[a].amount \in 1..Amount /\ plan[a].deduct \in 0..Amount
          /\ plan[a].prev \in Statuses
      BY <1>13, PlanType, TypeParts DEF FinalizeRefundFailed
    <2>1. RowsOK'
      BY <1>13, <2>p, SetStatusType DEF RowsOK, FinalizeRefundFailed, WriteAudit,
         AuditActions, Statuses, RefundStatuses
    <2>2. LedgerOK'
      BY <1>13, <2>p DEF LedgerOK, FinalizeRefundFailed, Adjust, CoverInv, FinalInv, Finalizing
    <2>3. GatewayOK'
      BY <1>13, <2>p DEF GatewayOK, FinalizeRefundFailed
    <2>4. AdminsOK'
      BY <1>13, <2>p, GoToType, GoToWithType, ReturnType DEF FinalizeRefundFailed, Steps
    <2>5. FaultsOK'
      BY <1>13, <2>p DEF FaultsOK, FinalizeRefundFailed, SpendFault, AuditMissed
    <2> QED
      BY <2>1, <2>2, <2>3, <2>4, <2>5 DEF Parts
  <1>14. ASSUME NEW a \in Admins, FinalizeKeepingDeduction(a) PROVE Parts'
    <2>p. step[a] # "idle" /\ plan[a] \in Plans /\ plan[a].order \in Orders
          /\ plan[a].amount \in 1..Amount /\ plan[a].deduct \in 0..Amount
          /\ plan[a].prev \in Statuses
      BY <1>14, PlanType, TypeParts DEF FinalizeKeepingDeduction
    <2>1. RowsOK'
      BY <1>14, <2>p, SetStatusType DEF RowsOK, FinalizeKeepingDeduction, WriteAudit,
         AuditActions, Statuses, RefundStatuses, RowsWhenKept
    <2>2. LedgerOK'
      BY <1>14, <2>p DEF LedgerOK, FinalizeKeepingDeduction
    <2>3. GatewayOK'
      BY <1>14, <2>p DEF GatewayOK, FinalizeKeepingDeduction
    <2>4. AdminsOK'
      BY <1>14, <2>p, GoToType, GoToWithType, ReturnType DEF FinalizeKeepingDeduction, Steps
    <2>5. FaultsOK'
      BY <1>14, <2>p DEF FaultsOK, FinalizeKeepingDeduction
    <2> QED
      BY <2>1, <2>2, <2>3, <2>4, <2>5 DEF Parts
  <1>15. ASSUME NEW a \in Admins, AdminCallEnds(a) PROVE Parts'
    <2>p. step[a] # "idle" /\ plan[a] \in Plans /\ plan[a].order \in Orders
          /\ plan[a].amount \in 1..Amount /\ plan[a].deduct \in 0..Amount
          /\ plan[a].prev \in Statuses
      BY <1>15, PlanType, TypeParts DEF AdminCallEnds
    <2>1. RowsOK'
      BY <1>15, <2>p DEF RowsOK, AdminCallEnds
    <2>2. LedgerOK'
      BY <1>15, <2>p DEF LedgerOK, AdminCallEnds
    <2>3. GatewayOK'
      BY <1>15, <2>p DEF GatewayOK, AdminCallEnds
    <2>4. AdminsOK'
      BY <1>15, <2>p, GoToType, GoToWithType, ReturnType DEF AdminCallEnds, Steps
    <2>5. FaultsOK'
      BY <1>15, <2>p DEF FaultsOK, AdminCallEnds, SpendFault, AuditMissed
    <2> QED
      BY <2>1, <2>2, <2>3, <2>4, <2>5 DEF Parts
  <1>16. ASSUME NEW o \in Orders, RequestRefund(o) PROVE Parts'
    <2>1. RowsOK'
      BY <1>16, SetStatusType DEF RowsOK, RequestRefund, Statuses, RefundStatuses
    <2>2. LedgerOK'
      BY <1>16 DEF LedgerOK, RequestRefund
    <2>3. GatewayOK'
      BY <1>16 DEF GatewayOK, RequestRefund
    <2>4. AdminsOK'
      BY <1>16 DEF RequestRefund, AdminsOK
    <2>5. FaultsOK'
      BY <1>16 DEF FaultsOK, RequestRefund
    <2> QED
      BY <2>1, <2>2, <2>3, <2>4, <2>5 DEF Parts
  <1>17. ASSUME NEW o \in Orders, GatewayResolves(o) PROVE Parts'
    <2>1. RowsOK'
      BY <1>17 DEF RowsOK, GatewayResolves
    <2>2. LedgerOK'
      BY <1>17 DEF LedgerOK, GatewayResolves
    <2>3. GatewayOK'
      BY <1>17 DEF GatewayOK, GatewayResolves
    <2>4. AdminsOK'
      BY <1>17 DEF GatewayResolves, AdminsOK
    <2>5. FaultsOK'
      BY <1>17 DEF FaultsOK, GatewayResolves
    <2> QED
      BY <2>1, <2>2, <2>3, <2>4, <2>5 DEF Parts
  <1>18. CASE UserMovesBalance
    <2>1. RowsOK'
      BY <1>18 DEF RowsOK, UserMovesBalance
    <2>2. LedgerOK'
      BY <1>18 DEF LedgerOK, UserMovesBalance
    <2>3. GatewayOK'
      BY <1>18 DEF GatewayOK, UserMovesBalance
    <2>4. AdminsOK'
      BY <1>18 DEF UserMovesBalance, AdminsOK
    <2>5. FaultsOK'
      BY <1>18 DEF FaultsOK, UserMovesBalance
    <2> QED
      BY <2>1, <2>2, <2>3, <2>4, <2>5 DEF Parts
  <1>19. CASE UNCHANGED vars
    BY <1>19 DEF vars, rvars, Parts, RowsOK, LedgerOK, GatewayOK, AdminsOK, FaultsOK
  <1> QED
    BY <1>1, <1>2, <1>3, <1>4, <1>5, <1>6, <1>7, <1>8, <1>9, <1>10, <1>11, <1>12, <1>13,
       <1>14, <1>15, <1>16, <1>17, <1>18, <1>19
       DEF Next, Step

-----------------------------------------------------------------------------
(* Who works on an order.                                                  *)

\* What the proofs below use of TypeOK.
LEMMA Typed ==
  ASSUME TypeOK
  PROVE  /\ status \in [Orders -> Statuses] /\ audit \in [Orders -> SUBSET AuditActions]
         /\ step \in [Admins -> Steps] /\ plan \in [Admins -> Plans \cup {NoPlan}]
         /\ taken \in [Orders -> Nat] /\ hold \in [Orders -> 0..Amount]
         /\ refund \in [Orders -> 0..Amount] /\ payouts \in [Orders -> Nat]
         /\ upstream \in [Orders -> {"none", "pending", "done", "failed"}]
         /\ balance \in Int
         /\ \A a \in Admins : step[a] # "idle" =>
              /\ plan[a] \in Plans /\ plan[a].order \in Orders
              /\ plan[a].amount \in 1..Amount /\ plan[a].deduct \in 0..Amount
              /\ plan[a].prev \in Statuses
  BY PlanType DEF TypeOK

LEMMA NextClaim ==
  ASSUME TypeOK, ClaimInv, [Next]_vars
  PROVE  ClaimInv'
  <1>t. /\ status \in [Orders -> Statuses] /\ audit \in [Orders -> SUBSET AuditActions]
        /\ step \in [Admins -> Steps] /\ plan \in [Admins -> Plans \cup {NoPlan}]
        /\ taken \in [Orders -> Nat] /\ hold \in [Orders -> 0..Amount]
        /\ refund \in [Orders -> 0..Amount] /\ payouts \in [Orders -> Nat]
        /\ upstream \in [Orders -> {"none", "pending", "done", "failed"}]
        /\ balance \in Int
        /\ \A a \in Admins : step[a] # "idle" =>
             /\ plan[a] \in Plans /\ plan[a].order \in Orders
             /\ plan[a].amount \in 1..Amount /\ plan[a].deduct \in 0..Amount
             /\ plan[a].prev \in Statuses
    BY Typed
  <1> USE DEF ClaimInv, Claimed, GoTo, GoToWith, Return, SetStatus, HasAudit,
        storeVars, orderRow, ledgerVars, gwVars
  <1>1. ASSUME NEW a \in Admins, NEW o \in Orders, PrepareRefund(a, o) PROVE ClaimInv'
    BY <1>t, <1>1 DEF PrepareRefund, Steps, Plans
  <1>2. ASSUME NEW a \in Admins, NEW o \in Orders, QueryAndFinalizeRefund(a, o) PROVE ClaimInv'
    BY <1>t, <1>2 DEF QueryAndFinalizeRefund, Steps, Plans
  <1>3. ASSUME NEW a \in Admins, LockRefund(a) PROVE ClaimInv'
    BY <1>t, <1>3 DEF LockRefund, Refundable
  <1>4. ASSUME NEW a \in Admins, DeductBalance(a) PROVE ClaimInv'
    BY <1>t, <1>4 DEF DeductBalance, Plans, Adjust, AuditMissed, SpendFault
  <1>5. ASSUME NEW a \in Admins, GatewayRefund(a) PROVE ClaimInv'
    BY <1>t, <1>5 DEF GatewayRefund, SpendFault
  <1>6. ASSUME NEW a \in Admins, MarkRefundOk(a) PROVE ClaimInv'
    BY <1>t, <1>6 DEF MarkRefundOk, Statuses
  <1>7. ASSUME NEW a \in Admins, MarkRefundPending(a) PROVE ClaimInv'
    BY <1>t, <1>7 DEF MarkRefundPending, WriteAudit, HeldDeduction
  <1>8. ASSUME NEW a \in Admins, RollbackRefund(a) PROVE ClaimInv'
    BY <1>t, <1>8 DEF RollbackRefund, Adjust, WriteAudit, AuditMissed, SpendFault
  <1>9. ASSUME NEW a \in Admins, RestoreStatus(a) PROVE ClaimInv'
    BY <1>t, <1>9 DEF RestoreStatus, Statuses
  <1>10. ASSUME NEW a \in Admins, MarkRefundFailed(a) PROVE ClaimInv'
    BY <1>t, <1>10 DEF MarkRefundFailed, WriteAudit, SpendFault
  <1>11. ASSUME NEW a \in Admins, QueryRefund(a) PROVE ClaimInv'
    BY <1>t, <1>11 DEF QueryRefund, Confirmed
  <1>12. ASSUME NEW a \in Admins, FinalizePendingRefundSuccess(a) PROVE ClaimInv'
    BY <1>t, <1>12 DEF FinalizePendingRefundSuccess, SpendFault
  <1>13. ASSUME NEW a \in Admins, FinalizeRefundFailed(a) PROVE ClaimInv'
    BY <1>t, <1>13 DEF FinalizeRefundFailed, Adjust, WriteAudit, CanInsert, SpendFault
  <1>14. ASSUME NEW a \in Admins, FinalizeKeepingDeduction(a) PROVE ClaimInv'
    BY <1>t, <1>14 DEF FinalizeKeepingDeduction, CanInsert, RowsWhenKept
  <1>15. ASSUME NEW a \in Admins, AdminCallEnds(a) PROVE ClaimInv'
    BY <1>t, <1>15 DEF AdminCallEnds, SpendFault
  <1>16. ASSUME NEW o \in Orders, RequestRefund(o) PROVE ClaimInv'
    BY <1>t, <1>16 DEF RequestRefund, Statuses
  <1>17. ASSUME NEW o \in Orders, GatewayResolves(o) PROVE ClaimInv'
    BY <1>t, <1>17 DEF GatewayResolves, Statuses
  <1>18. CASE UserMovesBalance
    BY <1>t, <1>18 DEF UserMovesBalance, Statuses
  <1>19. CASE UNCHANGED vars
    BY <1>19 DEF vars, rvars
  <1> QED
    BY <1>1, <1>2, <1>3, <1>4, <1>5, <1>6, <1>7, <1>8, <1>9, <1>10, <1>11, <1>12, <1>13,
       <1>14, <1>15, <1>16, <1>17, <1>18, <1>19
       DEF Next, Step

LEMMA NextFinal ==
  ASSUME TypeOK, ClaimInv, FinalInv, [Next]_vars
  PROVE  FinalInv'
  <1>t. /\ status \in [Orders -> Statuses] /\ audit \in [Orders -> SUBSET AuditActions]
        /\ step \in [Admins -> Steps] /\ plan \in [Admins -> Plans \cup {NoPlan}]
        /\ taken \in [Orders -> Nat] /\ hold \in [Orders -> 0..Amount]
        /\ refund \in [Orders -> 0..Amount] /\ payouts \in [Orders -> Nat]
        /\ upstream \in [Orders -> {"none", "pending", "done", "failed"}]
        /\ balance \in Int
        /\ \A a \in Admins : step[a] # "idle" =>
             /\ plan[a] \in Plans /\ plan[a].order \in Orders
             /\ plan[a].amount \in 1..Amount /\ plan[a].deduct \in 0..Amount
             /\ plan[a].prev \in Statuses
    BY Typed
  <1> USE DEF ClaimInv, Claimed, FinalInv, Finalizing, GoTo, GoToWith, Return, SetStatus, HasAudit,
        storeVars, orderRow, ledgerVars, gwVars
  <1>1. ASSUME NEW a \in Admins, NEW o \in Orders, PrepareRefund(a, o) PROVE FinalInv'
    BY <1>t, <1>1 DEF PrepareRefund, Steps, Plans
  <1>2. ASSUME NEW a \in Admins, NEW o \in Orders, QueryAndFinalizeRefund(a, o) PROVE FinalInv'
    BY <1>t, <1>2 DEF QueryAndFinalizeRefund, Steps, Plans
  <1>3. ASSUME NEW a \in Admins, LockRefund(a) PROVE FinalInv'
    BY <1>t, <1>3 DEF LockRefund, Refundable
  <1>4. ASSUME NEW a \in Admins, DeductBalance(a) PROVE FinalInv'
    BY <1>t, <1>4 DEF DeductBalance, Plans, Adjust, AuditMissed, SpendFault
  <1>5. ASSUME NEW a \in Admins, GatewayRefund(a) PROVE FinalInv'
    BY <1>t, <1>5 DEF GatewayRefund, SpendFault
  <1>6. ASSUME NEW a \in Admins, MarkRefundOk(a) PROVE FinalInv'
    BY <1>t, <1>6 DEF MarkRefundOk, Statuses
  <1>7. ASSUME NEW a \in Admins, MarkRefundPending(a) PROVE FinalInv'
    BY <1>t, <1>7 DEF MarkRefundPending, WriteAudit, HeldDeduction
  <1>8. ASSUME NEW a \in Admins, RollbackRefund(a) PROVE FinalInv'
    BY <1>t, <1>8 DEF RollbackRefund, Adjust, WriteAudit, AuditMissed, SpendFault
  <1>9. ASSUME NEW a \in Admins, RestoreStatus(a) PROVE FinalInv'
    BY <1>t, <1>9 DEF RestoreStatus, Statuses
  <1>10. ASSUME NEW a \in Admins, MarkRefundFailed(a) PROVE FinalInv'
    BY <1>t, <1>10 DEF MarkRefundFailed, WriteAudit, SpendFault
  <1>11. ASSUME NEW a \in Admins, QueryRefund(a) PROVE FinalInv'
    BY <1>t, <1>11 DEF QueryRefund, Confirmed
  <1>12. ASSUME NEW a \in Admins, FinalizePendingRefundSuccess(a) PROVE FinalInv'
    BY <1>t, <1>12 DEF FinalizePendingRefundSuccess, SpendFault
  <1>13. ASSUME NEW a \in Admins, FinalizeRefundFailed(a) PROVE FinalInv'
    BY <1>t, <1>13 DEF FinalizeRefundFailed, Adjust, WriteAudit, CanInsert, SpendFault
  <1>14. ASSUME NEW a \in Admins, FinalizeKeepingDeduction(a) PROVE FinalInv'
    BY <1>t, <1>14 DEF FinalizeKeepingDeduction, CanInsert, RowsWhenKept
  <1>15. ASSUME NEW a \in Admins, AdminCallEnds(a) PROVE FinalInv'
    BY <1>t, <1>15 DEF AdminCallEnds, SpendFault
  <1>16. ASSUME NEW o \in Orders, RequestRefund(o) PROVE FinalInv'
    BY <1>t, <1>16 DEF RequestRefund, Statuses
  <1>17. ASSUME NEW o \in Orders, GatewayResolves(o) PROVE FinalInv'
    BY <1>t, <1>17 DEF GatewayResolves, Statuses
  <1>18. CASE UserMovesBalance
    BY <1>t, <1>18 DEF UserMovesBalance, Statuses
  <1>19. CASE UNCHANGED vars
    BY <1>19 DEF vars, rvars
  <1> QED
    BY <1>1, <1>2, <1>3, <1>4, <1>5, <1>6, <1>7, <1>8, <1>9, <1>10, <1>11, <1>12, <1>13,
       <1>14, <1>15, <1>16, <1>17, <1>18, <1>19
       DEF Next, Step

LEMMA NextPaid ==
  ASSUME TypeOK, ClaimInv, FinalInv, PaidInv, [Next]_vars
  PROVE  PaidInv'
  <1>t. /\ status \in [Orders -> Statuses] /\ audit \in [Orders -> SUBSET AuditActions]
        /\ step \in [Admins -> Steps] /\ plan \in [Admins -> Plans \cup {NoPlan}]
        /\ taken \in [Orders -> Nat] /\ hold \in [Orders -> 0..Amount]
        /\ refund \in [Orders -> 0..Amount] /\ payouts \in [Orders -> Nat]
        /\ upstream \in [Orders -> {"none", "pending", "done", "failed"}]
        /\ balance \in Int
        /\ \A a \in Admins : step[a] # "idle" =>
             /\ plan[a] \in Plans /\ plan[a].order \in Orders
             /\ plan[a].amount \in 1..Amount /\ plan[a].deduct \in 0..Amount
             /\ plan[a].prev \in Statuses
    BY Typed
  <1> USE DEF PaidInv, FinalInv, Finalizing, ClaimInv, Claimed, GoTo, GoToWith, Return, SetStatus, HasAudit,
        storeVars, orderRow, ledgerVars, gwVars
  <1>1. ASSUME NEW a \in Admins, NEW o \in Orders, PrepareRefund(a, o) PROVE PaidInv'
    BY <1>t, <1>1 DEF PrepareRefund, Steps, Plans
  <1>2. ASSUME NEW a \in Admins, NEW o \in Orders, QueryAndFinalizeRefund(a, o) PROVE PaidInv'
    BY <1>t, <1>2 DEF QueryAndFinalizeRefund, Steps, Plans
  <1>3. ASSUME NEW a \in Admins, LockRefund(a) PROVE PaidInv'
    BY <1>t, <1>3 DEF LockRefund, Refundable
  <1>4. ASSUME NEW a \in Admins, DeductBalance(a) PROVE PaidInv'
    BY <1>t, <1>4 DEF DeductBalance, Plans, Adjust, AuditMissed, SpendFault
  <1>5. ASSUME NEW a \in Admins, GatewayRefund(a) PROVE PaidInv'
    BY <1>t, <1>5 DEF GatewayRefund, SpendFault
  <1>6. ASSUME NEW a \in Admins, MarkRefundOk(a) PROVE PaidInv'
    BY <1>t, <1>6 DEF MarkRefundOk, Statuses
  <1>7. ASSUME NEW a \in Admins, MarkRefundPending(a) PROVE PaidInv'
    BY <1>t, <1>7 DEF MarkRefundPending, WriteAudit, HeldDeduction
  <1>8. ASSUME NEW a \in Admins, RollbackRefund(a) PROVE PaidInv'
    BY <1>t, <1>8 DEF RollbackRefund, Adjust, WriteAudit, AuditMissed, SpendFault
  <1>9. ASSUME NEW a \in Admins, RestoreStatus(a) PROVE PaidInv'
    BY <1>t, <1>9 DEF RestoreStatus, Statuses
  <1>10. ASSUME NEW a \in Admins, MarkRefundFailed(a) PROVE PaidInv'
    BY <1>t, <1>10 DEF MarkRefundFailed, WriteAudit, SpendFault
  <1>11. ASSUME NEW a \in Admins, QueryRefund(a) PROVE PaidInv'
    BY <1>t, <1>11 DEF QueryRefund, Confirmed
  <1>12. ASSUME NEW a \in Admins, FinalizePendingRefundSuccess(a) PROVE PaidInv'
    BY <1>t, <1>12 DEF FinalizePendingRefundSuccess, SpendFault
  <1>13. ASSUME NEW a \in Admins, FinalizeRefundFailed(a) PROVE PaidInv'
    BY <1>t, <1>13 DEF FinalizeRefundFailed, Adjust, WriteAudit, CanInsert, SpendFault
  <1>14. ASSUME NEW a \in Admins, FinalizeKeepingDeduction(a) PROVE PaidInv'
    BY <1>t, <1>14 DEF FinalizeKeepingDeduction, CanInsert, RowsWhenKept
  <1>15. ASSUME NEW a \in Admins, AdminCallEnds(a) PROVE PaidInv'
    BY <1>t, <1>15 DEF AdminCallEnds, SpendFault
  <1>16. ASSUME NEW o \in Orders, RequestRefund(o) PROVE PaidInv'
    BY <1>t, <1>16 DEF RequestRefund, Statuses
  <1>17. ASSUME NEW o \in Orders, GatewayResolves(o) PROVE PaidInv'
    BY <1>t, <1>17 DEF GatewayResolves, Statuses
  <1>18. CASE UserMovesBalance
    BY <1>t, <1>18 DEF UserMovesBalance, Statuses
  <1>19. CASE UNCHANGED vars
    BY <1>19 DEF vars, rvars
  <1> QED
    BY <1>1, <1>2, <1>3, <1>4, <1>5, <1>6, <1>7, <1>8, <1>9, <1>10, <1>11, <1>12, <1>13,
       <1>14, <1>15, <1>16, <1>17, <1>18, <1>19
       DEF Next, Step

LEMMA NextCover ==
  ASSUME TypeOK, ClaimInv, FinalInv, CoverInv, [Next]_vars
  PROVE  CoverInv'
  <1>t. /\ status \in [Orders -> Statuses] /\ audit \in [Orders -> SUBSET AuditActions]
        /\ step \in [Admins -> Steps] /\ plan \in [Admins -> Plans \cup {NoPlan}]
        /\ taken \in [Orders -> Nat] /\ hold \in [Orders -> 0..Amount]
        /\ refund \in [Orders -> 0..Amount] /\ payouts \in [Orders -> Nat]
        /\ upstream \in [Orders -> {"none", "pending", "done", "failed"}]
        /\ balance \in Int
        /\ \A a \in Admins : step[a] # "idle" =>
             /\ plan[a] \in Plans /\ plan[a].order \in Orders
             /\ plan[a].amount \in 1..Amount /\ plan[a].deduct \in 0..Amount
             /\ plan[a].prev \in Statuses
    BY Typed
  <1> USE DEF CoverInv, Deducted, FinalInv, Finalizing, ClaimInv, Claimed, GoTo, GoToWith, Return, SetStatus, HasAudit,
        storeVars, orderRow, ledgerVars, gwVars
  <1>1. ASSUME NEW a \in Admins, NEW o \in Orders, PrepareRefund(a, o) PROVE CoverInv'
    BY <1>t, <1>1, DeductibleBounds DEF PrepareRefund, Steps, Plans
  <1>2. ASSUME NEW a \in Admins, NEW o \in Orders, QueryAndFinalizeRefund(a, o) PROVE CoverInv'
    BY <1>t, <1>2, DeductibleBounds DEF QueryAndFinalizeRefund, Steps, Plans
  <1>3. ASSUME NEW a \in Admins, LockRefund(a) PROVE CoverInv'
    BY <1>t, <1>3, DeductibleBounds DEF LockRefund, Refundable
  <1>4. ASSUME NEW a \in Admins, DeductBalance(a) PROVE CoverInv'
    BY <1>t, <1>4, DeductibleBounds DEF DeductBalance, Plans, Adjust, AuditMissed, SpendFault
  <1>5. ASSUME NEW a \in Admins, GatewayRefund(a) PROVE CoverInv'
    BY <1>t, <1>5, DeductibleBounds DEF GatewayRefund, SpendFault
  <1>6. ASSUME NEW a \in Admins, MarkRefundOk(a) PROVE CoverInv'
    BY <1>t, <1>6, DeductibleBounds DEF MarkRefundOk, Statuses
  <1>7. ASSUME NEW a \in Admins, MarkRefundPending(a) PROVE CoverInv'
    BY <1>t, <1>7, DeductibleBounds DEF MarkRefundPending, WriteAudit, HeldDeduction
  <1>8. ASSUME NEW a \in Admins, RollbackRefund(a) PROVE CoverInv'
    <2> DEFINE o == plan[a].order
    <2>o. /\ o \in Orders /\ status[o] = "REFUNDING"
          /\ \A b \in Admins \ {a} : step[b] \in Claimed => plan[b].order # o
      BY <1>t, <1>8 DEF RollbackRefund
    <2> HIDE DEF o
    <2>1. CASE Adjust(o, -plan[a].deduct) /\ GoTo(a, "restore")
      <3>1. \A x \in Orders \ {o} : taken'[x] = taken[x]
        BY <1>t, <2>1 DEF Adjust
      <3> QED
        BY <1>t, <1>8, <2>o, <2>1, <3>1 DEF RollbackRefund
    <2>2. CASE GoTo(a, "refundFailed") /\ UNCHANGED taken
      BY <1>t, <1>8, <2>2 DEF RollbackRefund
    <2> QED
      BY <1>8, <2>1, <2>2 DEF RollbackRefund, o
  <1>9. ASSUME NEW a \in Admins, RestoreStatus(a) PROVE CoverInv'
    BY <1>t, <1>9, DeductibleBounds DEF RestoreStatus, Statuses
  <1>10. ASSUME NEW a \in Admins, MarkRefundFailed(a) PROVE CoverInv'
    BY <1>t, <1>10, DeductibleBounds DEF MarkRefundFailed, WriteAudit, SpendFault
  <1>11. ASSUME NEW a \in Admins, QueryRefund(a) PROVE CoverInv'
    BY <1>t, <1>11, DeductibleBounds DEF QueryRefund, Confirmed
  <1>12. ASSUME NEW a \in Admins, FinalizePendingRefundSuccess(a) PROVE CoverInv'
    BY <1>t, <1>12, DeductibleBounds DEF FinalizePendingRefundSuccess, SpendFault
  <1>13. ASSUME NEW a \in Admins, FinalizeRefundFailed(a) PROVE CoverInv'
    <2> DEFINE o == plan[a].order
    <2>1. CASE UNCHANGED <<status, taken>>
      BY <1>t, <1>13, <2>1 DEF FinalizeRefundFailed
    <2>2. CASE /\ status[o] = "REFUND_PENDING" /\ SetStatus(o, "REFUND_FAILED")
               /\ Adjust(o, -plan[a].deduct) /\ Return(a)
      <3>1. o \in Orders /\ \A x \in Orders \ {o} : taken'[x] = taken[x] /\ status'[x] = status[x]
        BY <1>t, <1>13, <2>2 DEF FinalizeRefundFailed, Adjust
      <3>2. status'[o] = "REFUND_FAILED"
        BY <1>t, <2>2, <3>1
      <3> QED
        BY <1>t, <1>13, <2>2, <3>1, <3>2 DEF FinalizeRefundFailed
    <2> QED
      BY <1>13, <2>1, <2>2 DEF FinalizeRefundFailed
  <1>14. ASSUME NEW a \in Admins, FinalizeKeepingDeduction(a) PROVE CoverInv'
    BY <1>t, <1>14, DeductibleBounds DEF FinalizeKeepingDeduction, CanInsert, RowsWhenKept
  <1>15. ASSUME NEW a \in Admins, AdminCallEnds(a) PROVE CoverInv'
    BY <1>t, <1>15, DeductibleBounds DEF AdminCallEnds, SpendFault
  <1>16. ASSUME NEW o \in Orders, RequestRefund(o) PROVE CoverInv'
    BY <1>t, <1>16, DeductibleBounds DEF RequestRefund, Statuses
  <1>17. ASSUME NEW o \in Orders, GatewayResolves(o) PROVE CoverInv'
    BY <1>t, <1>17, DeductibleBounds DEF GatewayResolves, Statuses
  <1>18. CASE UserMovesBalance
    BY <1>t, <1>18, DeductibleBounds DEF UserMovesBalance, Statuses
  <1>19. CASE UNCHANGED vars
    BY <1>19 DEF vars, rvars
  <1> QED
    BY <1>1, <1>2, <1>3, <1>4, <1>5, <1>6, <1>7, <1>8, <1>9, <1>10, <1>11, <1>12, <1>13,
       <1>14, <1>15, <1>16, <1>17, <1>18, <1>19
       DEF Next, Step

LEMMA NextOnce ==
  ASSUME TypeOK, ClaimInv, FinalInv, PaidInv, OnceInv, "reply" \notin missed', [Next]_vars
  PROVE  OnceInv'
  <1>t. /\ status \in [Orders -> Statuses] /\ audit \in [Orders -> SUBSET AuditActions]
        /\ step \in [Admins -> Steps] /\ plan \in [Admins -> Plans \cup {NoPlan}]
        /\ taken \in [Orders -> Nat] /\ hold \in [Orders -> 0..Amount]
        /\ refund \in [Orders -> 0..Amount] /\ payouts \in [Orders -> Nat]
        /\ upstream \in [Orders -> {"none", "pending", "done", "failed"}]
        /\ balance \in Int
        /\ \A a \in Admins : step[a] # "idle" =>
             /\ plan[a] \in Plans /\ plan[a].order \in Orders
             /\ plan[a].amount \in 1..Amount /\ plan[a].deduct \in 0..Amount
             /\ plan[a].prev \in Statuses
    BY Typed
  <1> USE DEF OnceInv, PaidInv, Unpaid, Returned, AsGateway, Refundable, FinalInv, Finalizing, ClaimInv, Claimed, GoTo, GoToWith, Return, SetStatus, HasAudit,
        storeVars, orderRow, ledgerVars, gwVars
  <1>1. ASSUME NEW a \in Admins, NEW o \in Orders, PrepareRefund(a, o) PROVE OnceInv'
    BY <1>t, <1>1 DEF PrepareRefund, Steps, Plans
  <1>2. ASSUME NEW a \in Admins, NEW o \in Orders, QueryAndFinalizeRefund(a, o) PROVE OnceInv'
    BY <1>t, <1>2 DEF QueryAndFinalizeRefund, Steps, Plans
  <1>3. ASSUME NEW a \in Admins, LockRefund(a) PROVE OnceInv'
    BY <1>t, <1>3 DEF LockRefund, Refundable
  <1>4. ASSUME NEW a \in Admins, DeductBalance(a) PROVE OnceInv'
    BY <1>t, <1>4 DEF DeductBalance, Plans, Adjust, AuditMissed, SpendFault
  <1>5. ASSUME NEW a \in Admins, GatewayRefund(a) PROVE OnceInv'
    BY <1>t, <1>5 DEF GatewayRefund, SpendFault
  <1>6. ASSUME NEW a \in Admins, MarkRefundOk(a) PROVE OnceInv'
    BY <1>t, <1>6 DEF MarkRefundOk, Statuses
  <1>7. ASSUME NEW a \in Admins, MarkRefundPending(a) PROVE OnceInv'
    BY <1>t, <1>7 DEF MarkRefundPending, WriteAudit, HeldDeduction
  <1>8. ASSUME NEW a \in Admins, RollbackRefund(a) PROVE OnceInv'
    BY <1>t, <1>8 DEF RollbackRefund, Adjust, WriteAudit, AuditMissed, SpendFault
  <1>9. ASSUME NEW a \in Admins, RestoreStatus(a) PROVE OnceInv'
    BY <1>t, <1>9 DEF RestoreStatus, Statuses
  <1>10. ASSUME NEW a \in Admins, MarkRefundFailed(a) PROVE OnceInv'
    BY <1>t, <1>10 DEF MarkRefundFailed, WriteAudit, SpendFault
  <1>11. ASSUME NEW a \in Admins, QueryRefund(a) PROVE OnceInv'
    BY <1>t, <1>11 DEF QueryRefund, Confirmed
  <1>12. ASSUME NEW a \in Admins, FinalizePendingRefundSuccess(a) PROVE OnceInv'
    BY <1>t, <1>12 DEF FinalizePendingRefundSuccess, SpendFault
  <1>13. ASSUME NEW a \in Admins, FinalizeRefundFailed(a) PROVE OnceInv'
    BY <1>t, <1>13 DEF FinalizeRefundFailed, Adjust, WriteAudit, CanInsert, SpendFault
  <1>14. ASSUME NEW a \in Admins, FinalizeKeepingDeduction(a) PROVE OnceInv'
    BY <1>t, <1>14 DEF FinalizeKeepingDeduction, CanInsert, RowsWhenKept
  <1>15. ASSUME NEW a \in Admins, AdminCallEnds(a) PROVE OnceInv'
    BY <1>t, <1>15 DEF AdminCallEnds, SpendFault
  <1>16. ASSUME NEW o \in Orders, RequestRefund(o) PROVE OnceInv'
    BY <1>t, <1>16 DEF RequestRefund, Statuses
  <1>17. ASSUME NEW o \in Orders, GatewayResolves(o) PROVE OnceInv'
    BY <1>t, <1>17 DEF GatewayResolves, Statuses
  <1>18. CASE UserMovesBalance
    BY <1>t, <1>18 DEF UserMovesBalance, Statuses
  <1>19. CASE UNCHANGED vars
    BY <1>19 DEF vars, rvars
  <1> QED
    BY <1>1, <1>2, <1>3, <1>4, <1>5, <1>6, <1>7, <1>8, <1>9, <1>10, <1>11, <1>12, <1>13,
       <1>14, <1>15, <1>16, <1>17, <1>18, <1>19
       DEF Next, Step

LEMMA NextTaken ==
  ASSUME TypeOK, ClaimInv, FinalInv, CoverInv, TakenInv, "audit" \notin missed', [Next]_vars
  PROVE  TakenInv'
  <1>t. /\ status \in [Orders -> Statuses] /\ audit \in [Orders -> SUBSET AuditActions]
        /\ step \in [Admins -> Steps] /\ plan \in [Admins -> Plans \cup {NoPlan}]
        /\ taken \in [Orders -> Nat] /\ hold \in [Orders -> 0..Amount]
        /\ refund \in [Orders -> 0..Amount] /\ payouts \in [Orders -> Nat]
        /\ upstream \in [Orders -> {"none", "pending", "done", "failed"}]
        /\ balance \in Int
        /\ \A a \in Admins : step[a] # "idle" =>
             /\ plan[a] \in Plans /\ plan[a].order \in Orders
             /\ plan[a].amount \in 1..Amount /\ plan[a].deduct \in 0..Amount
             /\ plan[a].prev \in Statuses
    BY Typed
  <1> USE DEF TakenInv, CoverInv, Deducted, Flagged, Refundable, FinalInv, Finalizing, ClaimInv, Claimed, GoTo, GoToWith, Return, SetStatus, HasAudit,
        storeVars, orderRow, ledgerVars, gwVars
  <1>1. ASSUME NEW a \in Admins, NEW o \in Orders, PrepareRefund(a, o) PROVE TakenInv'
    BY <1>t, <1>1, DeductibleBounds DEF PrepareRefund, Steps, Plans
  <1>2. ASSUME NEW a \in Admins, NEW o \in Orders, QueryAndFinalizeRefund(a, o) PROVE TakenInv'
    BY <1>t, <1>2, DeductibleBounds DEF QueryAndFinalizeRefund, Steps, Plans
  <1>3. ASSUME NEW a \in Admins, LockRefund(a) PROVE TakenInv'
    BY <1>t, <1>3, DeductibleBounds DEF LockRefund, Refundable
  <1>4. ASSUME NEW a \in Admins, DeductBalance(a) PROVE TakenInv'
    <2> DEFINE o == plan[a].order
    <2>o. /\ o \in Orders /\ status[o] = "REFUNDING"
          /\ \A b \in Admins \ {a} : step[b] \in Claimed => plan[b].order # o
      BY <1>t, <1>4 DEF DeductBalance
    <2> HIDE DEF o
    <2> DEFINE p == plan[a]
               amt == Deductible(p.deduct)
    <2>u. UNCHANGED <<status, hold, audit>>
      BY <1>4 DEF DeductBalance
    <2>1. CASE p.deduct = 0 /\ GoTo(a, "gateway") /\ UNCHANGED taken
      BY <1>t, <2>o, <2>u, <2>1, <1>4 DEF DeductBalance, o
    <2>2. CASE ~StillTaken(o) /\ Adjust(o, amt) /\ GoToWith(a, "gateway", [p EXCEPT !.deduct = amt])
      <3>1. amt \in 0..Amount /\ p \in Plans /\ taken[o] = 0 /\ ~Flagged(o)
        BY <1>t, <1>4, <2>2, DeductibleBounds DEF DeductBalance, StillTaken, o
      <3>2. taken'[o] = amt /\ \A x \in Orders \ {o} : taken'[x] = taken[x]
        BY <1>t, <2>o, <2>2, <3>1 DEF Adjust
      <3>3. plan'[a].deduct = amt /\ plan'[a].order = o /\ step'[a] = "gateway"
        BY <1>t, <2>2, <3>1, PlanWithDeduct DEF o
      <3>4. \A b \in Admins \ {a} : plan'[b] = plan[b] /\ step'[b] = step[b]
        BY <1>t, <2>2
      <3> HIDE DEF amt
      <3> QED
        BY <1>t, <2>o, <2>u, <3>1, <3>2, <3>3, <3>4
    <2>3. CASE StillTaken(o) /\ GoToWith(a, "gateway", [p EXCEPT !.deduct = 0]) /\ UNCHANGED taken
      <3>1. plan'[a].deduct = 0 /\ plan'[a].order = o /\ step'[a] = "gateway"
        BY <1>t, <1>4, <2>3, PlanWithDeduct DEF DeductBalance, o
      <3>2. \A b \in Admins \ {a} : plan'[b] = plan[b] /\ step'[b] = step[b]
        BY <1>t, <2>3
      <3> QED
        BY <1>t, <2>o, <2>u, <2>3, <3>1, <3>2 DEF StillTaken
    <2>4. CASE GoTo(a, "restore") /\ UNCHANGED taken
      BY <1>t, <2>o, <2>u, <2>4, <1>4 DEF DeductBalance, o
    <2> QED
      BY <1>4, <2>1, <2>2, <2>3, <2>4 DEF DeductBalance, AuditMissed, o
  <1>5. ASSUME NEW a \in Admins, GatewayRefund(a) PROVE TakenInv'
    BY <1>t, <1>5, DeductibleBounds DEF GatewayRefund, SpendFault
  <1>6. ASSUME NEW a \in Admins, MarkRefundOk(a) PROVE TakenInv'
    BY <1>t, <1>6, DeductibleBounds DEF MarkRefundOk, Statuses
  <1>7. ASSUME NEW a \in Admins, MarkRefundPending(a) PROVE TakenInv'
    BY <1>t, <1>7, DeductibleBounds DEF MarkRefundPending, WriteAudit, HeldDeduction
  <1>8. ASSUME NEW a \in Admins, RollbackRefund(a) PROVE TakenInv'
    <2> DEFINE o == plan[a].order
    <2>o. /\ o \in Orders /\ status[o] = "REFUNDING"
          /\ \A b \in Admins \ {a} : step[b] \in Claimed => plan[b].order # o
      BY <1>t, <1>8 DEF RollbackRefund
    <2> HIDE DEF o
    <2>u. UNCHANGED <<status, hold, plan>> /\ step[a] = "rollback"
      BY <1>8 DEF RollbackRefund
    <2>1. CASE Adjust(o, -plan[a].deduct) /\ GoTo(a, "restore") /\ UNCHANGED audit
      <3>1. /\ \A x \in Orders \ {o} : taken'[x] = taken[x]
            /\ taken'[o] = taken[o] - plan[a].deduct
        BY <1>t, <2>o, <2>u, <2>1 DEF Adjust
      <3>2. (Flagged(o) /\ taken'[o] = taken[o]) \/ taken'[o] = 0
        BY <1>t, <2>o, <2>u, <3>1 DEF o
      <3>3. step'[a] = "restore" /\ \A b \in Admins \ {a} : step'[b] = step[b]
        BY <1>t, <2>1
      <3>4. \A x \in Orders : taken'[x] <= Amount
        BY <2>o, <3>1, <3>2
      <3> QED
        BY <1>t, <2>o, <2>u, <2>1, <3>1, <3>2, <3>3, <3>4 DEF o
    <2>2. CASE /\ GoTo(a, "refundFailed") /\ WriteAudit(o, "REFUND_ROLLBACK_FAILED")
               /\ plan[a].deduct > 0 /\ UNCHANGED taken
      <3>1. ~Flagged(o) /\ Flagged(o)' /\ \A x \in Orders \ {o} : audit'[x] = audit[x]
        BY <1>t, <2>o, <2>u, <2>2 DEF WriteAudit, o
      <3>2. step'[a] = "refundFailed" /\ \A b \in Admins \ {a} : step'[b] = step[b]
        BY <1>t, <2>2
      <3> QED
        BY <1>t, <2>o, <2>u, <2>2, <3>1, <3>2 DEF o
    <2> QED
      BY <1>8, <2>1, <2>2 DEF RollbackRefund, AuditMissed, o
  <1>9. ASSUME NEW a \in Admins, RestoreStatus(a) PROVE TakenInv'
    BY <1>t, <1>9, DeductibleBounds DEF RestoreStatus, Statuses
  <1>10. ASSUME NEW a \in Admins, MarkRefundFailed(a) PROVE TakenInv'
    BY <1>t, <1>10, DeductibleBounds DEF MarkRefundFailed, WriteAudit, SpendFault
  <1>11. ASSUME NEW a \in Admins, QueryRefund(a) PROVE TakenInv'
    BY <1>t, <1>11, DeductibleBounds DEF QueryRefund, Confirmed
  <1>12. ASSUME NEW a \in Admins, FinalizePendingRefundSuccess(a) PROVE TakenInv'
    BY <1>t, <1>12, DeductibleBounds DEF FinalizePendingRefundSuccess, SpendFault
  <1>13. ASSUME NEW a \in Admins, FinalizeRefundFailed(a) PROVE TakenInv'
    BY <1>t, <1>13, DeductibleBounds DEF FinalizeRefundFailed, Adjust, WriteAudit,
       CanInsert, SpendFault
  <1>14. ASSUME NEW a \in Admins, FinalizeKeepingDeduction(a) PROVE TakenInv'
    BY <1>t, <1>14, DeductibleBounds, SMTT(40) DEF FinalizeKeepingDeduction, CanInsert,
       RowsWhenKept
  <1>15. ASSUME NEW a \in Admins, AdminCallEnds(a) PROVE TakenInv'
    BY <1>t, <1>15, DeductibleBounds DEF AdminCallEnds, SpendFault
  <1>16. ASSUME NEW o \in Orders, RequestRefund(o) PROVE TakenInv'
    BY <1>t, <1>16, DeductibleBounds DEF RequestRefund, Statuses
  <1>17. ASSUME NEW o \in Orders, GatewayResolves(o) PROVE TakenInv'
    BY <1>t, <1>17, DeductibleBounds DEF GatewayResolves, Statuses
  <1>18. CASE UserMovesBalance
    BY <1>t, <1>18, DeductibleBounds DEF UserMovesBalance, Statuses
  <1>19. CASE UNCHANGED vars
    BY <1>19 DEF vars, rvars
  <1> QED
    BY <1>1, <1>2, <1>3, <1>4, <1>5, <1>6, <1>7, <1>8, <1>9, <1>10, <1>11, <1>12, <1>13,
       <1>14, <1>15, <1>16, <1>17, <1>18, <1>19
       DEF Next, Step

-----------------------------------------------------------------------------
(* The inductive invariant and the theorems.                               *)

LEMMA InitInv == Init => IInv
  <1> SUFFICES ASSUME Init PROVE IInv
    OBVIOUS
  <1>1. TypeOK
    BY InitType
  <1>2. \A a \in Admins : step[a] = "idle"
    BY DEF Init, RefundInit
  <1>3. \A o \in Orders : /\ status[o] = "COMPLETED" /\ payouts[o] = 0 /\ upstream[o] = "none"
                          /\ taken[o] = 0
    BY DEF Init, RefundInit
  <1>4. ClaimInv /\ FinalInv
    BY <1>2, <1>3 DEF ClaimInv, Claimed, FinalInv, Finalizing
  <1>5. PaidInv /\ CoverInv
    BY <1>2, <1>3 DEF PaidInv, CoverInv, Deducted
  <1>6. OnceInv
    BY <1>2, <1>3 DEF OnceInv, Unpaid, Returned
  <1>7. TakenInv
    BY <1>2, <1>3 DEF TakenInv, Deducted, Refundable
  <1> QED
    BY <1>1, <1>4, <1>5, <1>6, <1>7 DEF IInv

\* A lost answer or a failed audit statement is never unlearnt.
LEMMA MissedGrows ==
  ASSUME [Next]_vars
  PROVE  missed \subseteq missed'
  <1> USE DEF AuditMissed, SpendFault, storeVars, orderRow, ledgerVars, gwVars
  <1>1. ASSUME NEW a \in Admins, NEW o \in Orders, PrepareRefund(a, o) \/ QueryAndFinalizeRefund(a, o)
        PROVE  missed \subseteq missed'
    BY <1>1 DEF PrepareRefund, QueryAndFinalizeRefund
  <1>2. ASSUME NEW a \in Admins, LockRefund(a) \/ MarkRefundOk(a) \/ MarkRefundPending(a)
        PROVE  missed \subseteq missed'
    BY <1>2 DEF LockRefund, MarkRefundOk, MarkRefundPending
  <1>3. ASSUME NEW a \in Admins, DeductBalance(a) PROVE missed \subseteq missed'
    BY <1>3 DEF DeductBalance
  <1>4. ASSUME NEW a \in Admins, GatewayRefund(a) PROVE missed \subseteq missed'
    BY <1>4 DEF GatewayRefund
  <1>5. ASSUME NEW a \in Admins, RollbackRefund(a) PROVE missed \subseteq missed'
    BY <1>5 DEF RollbackRefund
  <1>6. ASSUME NEW a \in Admins, RestoreStatus(a) \/ MarkRefundFailed(a) \/ QueryRefund(a)
        PROVE  missed \subseteq missed'
    BY <1>6 DEF RestoreStatus, MarkRefundFailed, QueryRefund
  <1>7. ASSUME NEW a \in Admins,
               \/ FinalizePendingRefundSuccess(a) \/ FinalizeRefundFailed(a)
               \/ FinalizeKeepingDeduction(a) \/ AdminCallEnds(a)
        PROVE  missed \subseteq missed'
    BY <1>7 DEF FinalizePendingRefundSuccess, FinalizeRefundFailed, FinalizeKeepingDeduction,
                AdminCallEnds
  <1>8. ASSUME NEW o \in Orders, RequestRefund(o) \/ GatewayResolves(o)
        PROVE  missed \subseteq missed'
    BY <1>8 DEF RequestRefund, GatewayResolves
  <1>9. CASE UserMovesBalance
    BY <1>9 DEF UserMovesBalance
  <1>10. CASE UNCHANGED vars
    BY <1>10 DEF vars, rvars
  <1> QED
    BY <1>1, <1>2, <1>3, <1>4, <1>5, <1>6, <1>7, <1>8, <1>9, <1>10 DEF Next, Step

LEMMA NextInv == IInv /\ [Next]_vars => IInv'
  <1> SUFFICES ASSUME IInv, [Next]_vars PROVE IInv'
    OBVIOUS
  <1>1. TypeOK /\ ClaimInv /\ FinalInv /\ PaidInv /\ CoverInv
    BY DEF IInv
  <1>2. TypeOK'
    BY <1>1, NextType
  <1>3. ClaimInv' /\ FinalInv'
    BY <1>1, NextClaim, NextFinal
  <1>4. PaidInv' /\ CoverInv'
    BY <1>1, NextPaid, NextCover
  <1>5. ("reply" \in missed \/ OnceInv)'
    <2>1. CASE "reply" \in missed'
      BY <2>1
    <2>2. CASE "reply" \notin missed'
      <3>1. OnceInv
        BY <2>2, MissedGrows DEF IInv
      <3> QED
        BY <1>1, <2>2, <3>1, NextOnce
    <2> QED
      BY <2>1, <2>2
  <1>6. ("audit" \in missed \/ TakenInv)'
    <2>1. CASE "audit" \in missed'
      BY <2>1
    <2>2. CASE "audit" \notin missed'
      <3>1. TakenInv
        BY <2>2, MissedGrows DEF IInv
      <3> QED
        BY <1>1, <2>2, <3>1, NextTaken
    <2> QED
      BY <2>1, <2>2
  <1> QED
    BY <1>2, <1>3, <1>4, <1>5, <1>6 DEF IInv

LEMMA Invariance == Spec => []IInv
  BY InitInv, NextInv, PTL DEF Spec

\* The rows, plans and counters of a refund stay what the code declares them
\* to be; a plan never asks for more than the order credited.
THEOREM TypeCorrect == Spec => []TypeOK
  <1>1. IInv => TypeOK
    BY DEF IInv
  <1> QED
    BY <1>1, Invariance, PTL

\* Whatever admins, retries and finalizations do, the gateway pays an order
\* out at most once as long as none of its answers was lost: LockRefund's
\* conditional update lets one call through, and a finalization of a pending
\* refund calls no refund API.
THEOREM PaidOutOnce == Spec => []PaidOutAtMostOnce
  <1>1. IInv => PaidOutAtMostOnce
    BY DEF IInv, OnceInv, PaidOutAtMostOnce
  <1> QED
    BY <1>1, Invariance, PTL

\* An order is only reported REFUNDED or PARTIALLY_REFUNDED, by MarkRefundOk
\* or by a finalization, when the gateway has carried the refund out.
THEOREM RefundedPaidOut == Spec => []RefundedMeansPaidOut
  <1>1. IInv => RefundedMeansPaidOut
    BY DEF IInv, PaidInv, RefundedMeansPaidOut
  <1> QED
    BY <1>1, Invariance, PTL

\* No sequence of failed, flagged and retried refunds deducts more for an
\* order than it credited, as long as the audit statements succeed.
THEOREM DeductedOnce == Spec => []DeductedAtMostOnce
  <1>1. IInv => DeductedAtMostOnce
    BY DEF IInv, TakenInv, DeductedAtMostOnce
  <1> QED
    BY <1>1, Invariance, PTL

\* The deduction an order carries is the one its REFUND_PENDING row records
\* or its REFUND_ROLLBACK_FAILED row flags; an order open to a new refund
\* and not flagged has nothing deducted and nothing paid out.
THEOREM DeductionTracked == Spec => []DeductionIsTracked
  <1>1. IInv => PendingHoldsDeduction
    BY DEF IInv, TakenInv, PendingHoldsDeduction
  <1>2. IInv => FailedRefundReturnsDeduction
    BY DEF IInv, TakenInv, OnceInv, FailedRefundReturnsDeduction
  <1> QED
    BY <1>1, <1>2, Invariance, PTL DEF DeductionIsTracked
=============================================================================
