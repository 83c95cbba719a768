---------------------- MODULE PaymentFulfillmentProofs ----------------------
(***************************************************************************)
(* Proofs about PaymentFulfillment, for any number of orders and workers,  *)
(* any lease, grace and timeout, and any number of faults.                 *)
(***************************************************************************)
EXTENDS PaymentFulfillment, TLAPS

USE OrdersAssumption, BoundsAssumption, FulfillmentAssumption

-----------------------------------------------------------------------------
(* Type correctness.                                                       *)

LEMMA AgeCapNat == AgeCap \in Nat /\ AgeCap > 0
  BY DEF AgeCap

LEMMA InitType == Init => TypeOK
  BY AgeCapNat DEF Init, TypeOK, Kinds, Statuses, PCs, Answers

LEMMA StartType == TypeOK /\ (\E w \in Workers, o \in Orders : Start(w, o)) => TypeOK'
  <1> SUFFICES ASSUME TypeOK, NEW w \in Workers, NEW o \in Orders, Start(w, o)
               PROVE  TypeOK'
    OBVIOUS
  <1> USE AgeCapNat DEF Begin, StartUpstreamCheck, PCs, CallSteps,
          storeVars, orderRow, rowVars, codeVars, gateVars
  <1>1. CASE CreateOrder(w, o)
    BY <1>1 DEF CreateOrder, TypeOK, SetStatus, Touch, Statuses
  <1>2. CASE Webhook(w, o)
    BY <1>2 DEF Webhook, TypeOK
  <1>3. CASE CancelOrder(w, o)
    BY <1>3 DEF CancelOrder, TypeOK
  <1>4. CASE ExpireTimedOutOrder(w, o)
    BY <1>4 DEF ExpireTimedOutOrder, TypeOK
  <1>5. CASE VerifyOrder(w, o)
    BY <1>5 DEF VerifyOrder, TypeOK
  <1>6. CASE ReconcilePendingOrder(w, o)
    BY <1>6 DEF ReconcilePendingOrder, TypeOK
  <1>7. CASE RetryFulfillment(w, o)
    BY <1>7 DEF RetryFulfillment, TypeOK
  <1>8. QED
    BY <1>1, <1>2, <1>3, <1>4, <1>5, <1>6, <1>7 DEF Start
\* TypeOK in parts: what workers carry, and what the rows hold.
WorkerType ==
    /\ pc \in [Workers -> PCs]
    /\ job \in [Workers -> Jobs \cup {"none"}]
    /\ ord \in [Workers -> Orders \cup {NoOrder}]
    /\ \A w \in Workers : pc[w] = "idle" \/ ord[w] \in Orders
    /\ seen \in [Workers -> BOOLEAN] /\ late \in SUBSET Workers
    /\ acked \in [Orders -> Answers]

OrderRowType ==
    /\ kind \in [Orders -> OrderTypes] /\ status \in [Orders -> Statuses]
    /\ age \in [Orders -> 0..AgeCap]
    /\ current \in [Orders -> SUBSET Workers]

RowType ==
    /\ OrderRowType
    /\ audit \in [Orders -> SUBSET AuditActions]
    /\ granted \in [Orders -> Nat] /\ rebates \in [Orders -> Nat]
    /\ ttl \in [Orders -> 0..OrderTimeout]
    /\ paidAt \in [Orders -> BOOLEAN] /\ tradeNo \in [Orders -> BOOLEAN]
    /\ code \in [Orders -> {"none", "unused", "used"}]
    /\ locked \in [Orders -> BOOLEAN]
    /\ gateway \in [Orders -> {"none", "created", "open", "closed"} \cup PaidAtGateway]
    /\ faults \in 0..MaxFaults

LEMMA SetStatusType ==
  ASSUME OrderRowType, NEW o \in Orders, NEW s \in Statuses, SetStatus(o, s)
  PROVE  OrderRowType'
  BY AgeCapNat DEF OrderRowType, SetStatus, Touch

LEMMA SpendFaultType ==
  ASSUME faults \in 0..MaxFaults, SpendFault
  PROVE  faults' \in 0..MaxFaults
  BY DEF SpendFault

LEMMA GoToType ==
  ASSUME WorkerType, NEW w \in Workers, ord[w] \in Orders, NEW s \in PCs, GoTo(w, s)
  PROVE  WorkerType'
  BY DEF WorkerType, GoTo

LEMMA ReturnType ==
  ASSUME WorkerType, NEW w \in Workers, NEW answer \in Answers, ReturnWith(w, answer)
  PROVE  WorkerType'
  BY DEF WorkerType, ReturnWith, Idle, PCs

LEMMA StepType == TypeOK /\ (\E w \in Workers : Step(w)) => TypeOK'
  <1> SUFFICES ASSUME WorkerType, RowType, NEW w \in Workers, Step(w)
               PROVE  WorkerType' /\ RowType'
    BY DEF TypeOK, WorkerType, RowType, OrderRowType
  <1>a. pc[w] # "idle" /\ ord[w] \in Orders
    BY DEF Step, WorkerType, InvokeProvider, StorePaymentDetails, AbortCreate,
          QueryUpstream, CloseUpstream, SettleUnpaid, PersistTradeNo, ConfirmPayment,
          ToPaid, AlreadyProcessed, BeginFulfillment, RejectUnsupportedOrderType,
          AcquireLease, LeaseNotAcquired, ClaimLease, LookupCode, CreateCode,
          AcquireRedeemLock, CheckCode, UseCode, CheckAssigned, AssignSubscription,
          ApplyAffiliateRebate, MarkCompleted, CompletedByAnother, MarkFailed
  <1>g. \A s \in PCs : GoTo(w, s) => WorkerType'
    BY <1>a, GoToType
  <1>r. \A ok : Return(w, ok) => WorkerType'
    BY ReturnType DEF Return, Answers
  <1>s. \A s \in Statuses : SetStatus(ord[w], s) => OrderRowType'
    BY <1>a, SetStatusType DEF RowType
  <1>u. UNCHANGED orderRow => OrderRowType'
    BY DEF RowType, OrderRowType, orderRow
  <1> USE <1>a
  <1>1. CASE InvokeProvider(w)
    <2>1. WorkerType'
      BY <1>1, <1>g, <1>r DEF InvokeProvider, PCs, CallSteps, LeaseSteps
    <2>2. RowType'
      BY <1>1, <1>s, <1>u DEF InvokeProvider, RowType, storeVars, rowVars, codeVars
    <2> QED
      BY <2>1, <2>2
  <1>2. CASE StorePaymentDetails(w)
    <2>1. WorkerType'
      BY <1>2, <1>g, <1>r DEF StorePaymentDetails, PCs, CallSteps, LeaseSteps
    <2>2. RowType'
      BY <1>2, AgeCapNat DEF StorePaymentDetails, RowType, storeVars, rowVars, codeVars,
            Touch, OrderRowType
    <2> QED
      BY <2>1, <2>2
  <1>3. CASE AbortCreate(w)
    <2>1. WorkerType'
      BY <1>3, <1>g, <1>r DEF AbortCreate, PCs, CallSteps, LeaseSteps
    <2>2. RowType'
      BY <1>3, <1>s, <1>u DEF AbortCreate, RowType, storeVars, rowVars, codeVars, Statuses
    <2> QED
      BY <2>1, <2>2
  <1>4. CASE QueryUpstream(w)
    <2>1. WorkerType'
      BY <1>4, <1>g, <1>r DEF QueryUpstream, PCs, CallSteps, LeaseSteps, UpstreamUnknown
    <2>2. RowType'
      BY <1>4, <1>s, <1>u DEF QueryUpstream, RowType, storeVars, rowVars, codeVars,
            UpstreamUnknown
    <2> QED
      BY <2>1, <2>2
  <1>5. CASE CloseUpstream(w)
    <2>1. WorkerType'
      BY <1>5, <1>g, <1>r DEF CloseUpstream, PCs, CallSteps, LeaseSteps
    <2>2. RowType'
      BY <1>5, <1>s, <1>u DEF CloseUpstream, RowType, storeVars, rowVars, codeVars
    <2> QED
      BY <2>1, <2>2
  <1>6. CASE SettleUnpaid(w)
    <2>1. WorkerType'
      BY <1>6, <1>g, <1>r DEF SettleUnpaid, PCs, CallSteps, LeaseSteps
    <2>2. RowType'
      BY <1>6, <1>s, <1>u DEF SettleUnpaid, RowType, storeVars, rowVars, codeVars, Statuses
    <2> QED
      BY <2>1, <2>2
  <1>7. CASE PersistTradeNo(w)
    <2>1. WorkerType'
      BY <1>7, <1>g, <1>r DEF PersistTradeNo, PCs, CallSteps, LeaseSteps
    <2>2. RowType'
      BY <1>7, AgeCapNat DEF PersistTradeNo, RowType, storeVars, rowVars, codeVars, Touch,
            OrderRowType
    <2> QED
      BY <2>1, <2>2
  <1>8. CASE ConfirmPayment(w)
    <2>1. WorkerType'
      BY <1>8, <1>g, <1>r DEF ConfirmPayment, PCs, CallSteps, LeaseSteps
    <2>2. RowType'
      BY <1>8, <1>s, <1>u DEF ConfirmPayment, RowType, storeVars, rowVars, codeVars
    <2> QED
      BY <2>1, <2>2
  <1>9. CASE ToPaid(w)
    <2>1. WorkerType'
      BY <1>9, <1>g, <1>r DEF ToPaid, PCs, CallSteps, LeaseSteps
    <2>2. RowType'
      BY <1>9, <1>s, <1>u DEF ToPaid, RowType, storeVars, rowVars, codeVars, Statuses
    <2> QED
      BY <2>1, <2>2
  <1>10. CASE AlreadyProcessed(w)
    <2>1. WorkerType'
      BY <1>10, <1>g, <1>r DEF AlreadyProcessed, PCs, CallSteps, LeaseSteps
    <2>2. RowType'
      BY <1>10, <1>s, <1>u DEF AlreadyProcessed, RowType, storeVars, rowVars, codeVars,
            WriteAudit, AuditActions, SpendFault
    <2> QED
      BY <2>1, <2>2
  <1>11. CASE BeginFulfillment(w)
    <2>1. WorkerType'
      BY <1>11, <1>g, <1>r DEF BeginFulfillment, PCs, CallSteps, LeaseSteps
    <2>2. RowType'
      BY <1>11, <1>s, <1>u DEF BeginFulfillment, RowType, storeVars, rowVars, codeVars
    <2> QED
      BY <2>1, <2>2
  <1>12. CASE RejectUnsupportedOrderType(w)
    <2>1. WorkerType'
      BY <1>12, <1>g, <1>r DEF RejectUnsupportedOrderType, PCs, CallSteps, LeaseSteps
    <2>2. RowType'
      BY <1>12, <1>s, <1>u DEF RejectUnsupportedOrderType, RowType, storeVars, rowVars,
            codeVars, Statuses
    <2> QED
      BY <2>1, <2>2
  <1>13. CASE AcquireLease(w)
    <2>1. WorkerType'
      BY <1>13, <1>g, <1>r DEF AcquireLease, PCs, CallSteps, LeaseSteps
    <2>2. RowType'
      BY <1>13, <1>s, <1>u DEF AcquireLease, RowType, storeVars, rowVars, codeVars, Statuses
    <2> QED
      BY <2>1, <2>2
  <1>14. CASE LeaseNotAcquired(w)
    <2>1. WorkerType'
      BY <1>14, <1>g, <1>r DEF LeaseNotAcquired, PCs, CallSteps, LeaseSteps
    <2>2. RowType'
      BY <1>14, <1>s, <1>u DEF LeaseNotAcquired, RowType, storeVars, rowVars, codeVars
    <2> QED
      BY <2>1, <2>2
  <1>15. CASE ClaimLease(w)
    <2>1. WorkerType'
      BY <1>15, <1>g, <1>r DEF ClaimLease, PCs, CallSteps, LeaseSteps
    <2>2. RowType'
      <3>1. current[ord[w]] \cup {w} \in SUBSET Workers
        BY DEF RowType, OrderRowType
      <3>2. current' \in [Orders -> SUBSET Workers]
        BY <3>1, <1>15, ZenonT(40) DEF ClaimLease, RowType, OrderRowType
      <3> QED
        BY <3>2, <1>15 DEF ClaimLease, RowType, OrderRowType, rowVars, codeVars
    <2> QED
      BY <2>1, <2>2
  <1>16. CASE LookupCode(w)
    <2>1. WorkerType'
      BY <1>16, <1>g, <1>r DEF LookupCode, PCs, CallSteps, LeaseSteps, RedeemAction
    <2>2. RowType'
      BY <1>16, <1>s, <1>u DEF LookupCode, RowType, storeVars, rowVars, codeVars, RedeemAction
    <2> QED
      BY <2>1, <2>2
  <1>17. CASE CreateCode(w)
    <2>1. WorkerType'
      BY <1>17, <1>g, <1>r DEF CreateCode, PCs, CallSteps, LeaseSteps
    <2>2. RowType'
      BY <1>17, <1>s, <1>u DEF CreateCode, RowType, storeVars, rowVars, codeVars
    <2> QED
      BY <2>1, <2>2
  <1>18. CASE AcquireRedeemLock(w)
    <2>1. WorkerType'
      BY <1>18, <1>g, <1>r DEF AcquireRedeemLock, PCs, CallSteps, LeaseSteps
    <2>2. RowType'
      <3>1. locked' \in [Orders -> BOOLEAN]
        BY <1>18 DEF AcquireRedeemLock, RowType
      <3>2. faults' \in 0..MaxFaults
        BY <1>18, SpendFaultType DEF AcquireRedeemLock, RowType
      <3> QED
        BY <3>1, <3>2, <1>18, <1>u DEF AcquireRedeemLock, RowType, storeVars, rowVars
    <2> QED
      BY <2>1, <2>2
  <1>19. CASE CheckCode(w)
    <2>1. WorkerType'
      BY <1>19, <1>g, <1>r DEF CheckCode, PCs, CallSteps, LeaseSteps
    <2>2. RowType'
      BY <1>19, <1>s, <1>u DEF CheckCode, RowType, storeVars, rowVars, codeVars,
            ReleaseRedeemLock
    <2> QED
      BY <2>1, <2>2
  <1>20. CASE UseCode(w)
    <2>1. WorkerType'
      BY <1>20, <1>g, <1>r DEF UseCode, PCs, CallSteps, LeaseSteps
    <2>2. RowType'
      BY <1>20, <1>s, <1>u DEF UseCode, RowType, storeVars, rowVars, codeVars, Grant,
            ReleaseRedeemLock
    <2> QED
      BY <2>1, <2>2
  <1>21. CASE CheckAssigned(w)
    <2>1. WorkerType'
      BY <1>21, <1>g, <1>r DEF CheckAssigned, PCs, CallSteps, LeaseSteps
    <2>2. RowType'
      BY <1>21, <1>s, <1>u DEF CheckAssigned, RowType, storeVars, rowVars, codeVars
    <2> QED
      BY <2>1, <2>2
  <1>22. CASE AssignSubscription(w)
    <2>1. WorkerType'
      BY <1>22, <1>g, <1>r DEF AssignSubscription, PCs, CallSteps, LeaseSteps
    <2>2. RowType'
      BY <1>22, <1>s, <1>u DEF AssignSubscription, RowType, storeVars, rowVars, codeVars,
            WriteAudit, Grant, AuditActions
    <2> QED
      BY <2>1, <2>2
  <1>23. CASE ApplyAffiliateRebate(w)
    <2>1. WorkerType'
      BY <1>23, <1>g, <1>r DEF ApplyAffiliateRebate, PCs, CallSteps, LeaseSteps
    <2>2. RowType'
      BY <1>23, <1>s, <1>u DEF ApplyAffiliateRebate, RowType, storeVars, rowVars,
            codeVars, WriteAudit, AuditActions
    <2> QED
      BY <2>1, <2>2
  <1>24. CASE MarkCompleted(w)
    <2>1. WorkerType'
      BY <1>24, <1>g, <1>r DEF MarkCompleted, PCs, CallSteps, LeaseSteps
    <2>2. RowType'
      BY <1>24, <1>s, <1>u DEF MarkCompleted, RowType, storeVars, rowVars, codeVars, Statuses
    <2> QED
      BY <2>1, <2>2
  <1>25. CASE CompletedByAnother(w)
    <2>1. WorkerType'
      BY <1>25, <1>g, <1>r DEF CompletedByAnother, PCs, CallSteps, LeaseSteps
    <2>2. RowType'
      BY <1>25, <1>s, <1>u DEF CompletedByAnother, RowType, storeVars, rowVars, codeVars
    <2> QED
      BY <2>1, <2>2
  <1>26. CASE MarkFailed(w)
    <2>1. WorkerType'
      BY <1>26, <1>g, <1>r DEF MarkFailed, PCs, CallSteps, LeaseSteps
    <2>2. RowType'
      BY <1>26, <1>s, <1>u DEF MarkFailed, RowType, storeVars, rowVars, codeVars, Statuses
    <2> QED
      BY <2>1, <2>2
  <1>27. QED
    BY <1>1, <1>2, <1>3, <1>4, <1>5, <1>6, <1>7, <1>8, <1>9, <1>10, <1>11, <1>12, <1>13,
          <1>14, <1>15, <1>16, <1>17, <1>18, <1>19, <1>20, <1>21, <1>22, <1>23, <1>24,
          <1>25, <1>26 DEF Step

LEMMA ErrorType == TypeOK /\ (\E w \in Workers : StepFails(w) \/ Crash(w)) => TypeOK'
  <1> SUFFICES ASSUME WorkerType, RowType, NEW w \in Workers, StepFails(w) \/ Crash(w)
               PROVE  WorkerType' /\ RowType'
    BY DEF TypeOK, WorkerType, RowType, OrderRowType
  <1>a. pc[w] # "idle" /\ ord[w] \in Orders
    BY DEF StepFails, Crash, WorkerType
  <1>g. \A s \in PCs : GoTo(w, s) => WorkerType'
    BY <1>a, GoToType
  <1>r. \A answer \in Answers : ReturnWith(w, answer) => WorkerType'
    BY ReturnType
  <1>r2. \A ok : Return(w, ok) => WorkerType'
    BY <1>r DEF Return, Answers
  <1>1. CASE StepFails(w)
    <2>1. WorkerType'
      BY <1>1, <1>a, <1>g, <1>r, <1>r2
      DEF StepFails, OnError, UpstreamUnknown, PCs, CallSteps, LeaseSteps, Answers
    <2>2. RowType'
      <3>1. locked' \in [Orders -> BOOLEAN]
        BY <1>1, <1>a DEF StepFails, RowType, ReleaseRedeemLock
      <3>2. faults' \in 0..MaxFaults
        BY <1>1, SpendFaultType DEF StepFails, RowType
      <3> QED
        BY <3>1, <3>2, <1>1 DEF StepFails, RowType, OrderRowType, storeVars, orderRow, rowVars
    <2> QED
      BY <2>1, <2>2
  <1>2. CASE Crash(w)
    BY <1>2 DEF Crash, WorkerType, RowType, OrderRowType, Idle, PCs, SpendFault,
                storeVars, orderRow, rowVars, codeVars, gateVars
  <1> QED
    BY <1>1, <1>2

LEMMA EnvironmentType ==
    TypeOK /\ (Tick \/ \E o \in Orders : UserPays(o) \/ RedeemLockExpires(o)) => TypeOK'
  <1> SUFFICES ASSUME TypeOK, Tick \/ \E o \in Orders : UserPays(o) \/ RedeemLockExpires(o)
               PROVE  TypeOK'
    OBVIOUS
  <1>1. CASE Tick
    BY <1>1, AgeCapNat DEF Tick, TypeOK, Older, SpendFault, codeVars, gateVars
  <1>2. ASSUME NEW o \in Orders, UserPays(o) PROVE TypeOK'
    BY <1>2 DEF UserPays, TypeOK, PaidAtGateway, storeVars, orderRow, rowVars, codeVars,
          workerVars
  <1>3. ASSUME NEW o \in Orders, RedeemLockExpires(o) PROVE TypeOK'
    BY <1>3 DEF RedeemLockExpires, ReleaseRedeemLock, TypeOK, storeVars, orderRow, rowVars,
                workerVars, gateVars
  <1> QED
    BY <1>1, <1>2, <1>3

LEMMA NextType == TypeOK /\ [Next]_vars => TypeOK'
  <1> SUFFICES ASSUME TypeOK, [Next]_vars PROVE TypeOK'
    OBVIOUS
  <1>1. CASE Next
    BY <1>1, StartType, StepType, ErrorType, EnvironmentType DEF Next
  <1>2. CASE UNCHANGED vars
    BY <1>2 DEF vars, fvars, storeVars, orderRow, workerVars, rowVars, codeVars, gateVars,
          TypeOK
  <1> QED
    BY <1>1, <1>2

\* Every variable keeps its type: a busy worker always has an order, ages and
\* fault counts stay in their bounds.
THEOREM TypeCorrect == Spec => []TypeOK
  BY InitType, NextType, PTL DEF Spec
-----------------------------------------------------------------------------
(* The inductive invariant.  None of the safety properties is inductive    *)
(* alone: what a worker may write next depends on how far it has come.     *)

CreateSteps   == {"createPayment", "details", "abort"}
UpstreamSteps == {"query", "close", "settle", "persist"}
\* Steps on the far side of confirmPayment, and of toPaid.
PaidSteps     == {"toPaid", "reread", "fulfil", "acquire", "lost", "claim", "fail"} \cup
      LeaseSteps
AfterToPaid   == PaidSteps \ {"toPaid"}
BalanceSteps  == {"lookup", "createCode", "lock", "check", "use"}
AssignSteps   == {"assignCheck", "assign"}
GrantedSteps  == {"rebate", "complete", "recheck"}

\* A worker follows the path of its order's type.
KindInv ==
    \A w \in Workers :
        /\ pc[w] \in {"acquire", "claim"} => kind[ord[w]] # "unsupported"
        /\ pc[w] \in BalanceSteps => kind[ord[w]] = "balance"
        /\ pc[w] \in AssignSteps => kind[ord[w]] = "subscription"

GrantRecorded(o) ==
    \/ kind[o] = "balance" /\ code[o] = "used"
    \/ kind[o] = "subscription" /\ Assigned(o)

\* The redeem code and the audit rows are exact ledgers of what was given.
LedgerInv ==
    \A o \in Orders :
        /\ granted[o] = IF GrantRecorded(o) THEN 1 ELSE 0
        /\ rebates[o] = IF HasAudit(o, "AFFILIATE_REBATE_APPLIED") THEN 1 ELSE 0

DoneInv ==
    /\ CompletedMeansGranted
    /\ \A w \in Workers : pc[w] \in GrantedSteps => granted[ord[w]] = 1

PaidInv ==
    /\ GrantedMeansPaid
    /\ \A w \in Workers : pc[w] \in PaidSteps => gateway[ord[w]] = "paid"
    /\ \A o \in Orders : paidAt[o] => status[o] \notin UnpaidStatuses

\* One worker creates an order, and until it is through nobody can pay.
CreateInv ==
    /\ \A o \in Orders : status[o] = "NEW" => gateway[o] = "none" /\ \A w \in Workers :
          ord[w] # o
    /\ \A w \in Workers :
          /\ pc[w] = "createPayment" => gateway[ord[w]] = "none"
          /\ pc[w] \in CreateSteps => gateway[ord[w]] \in {"none", "created", "closed"}
    /\ \A v, w \in Workers :
          pc[v] \in CreateSteps /\ pc[w] \in CreateSteps /\ ord[v] = ord[w] => v = w

\* Notifications take no upstream check, and past toPaid the order is at
\* least paid, expired or failed.
FlowInv ==
    \A w \in Workers :
        /\ pc[w] \in CreateSteps \cup UpstreamSteps => job[w] # "webhook"
        /\ pc[w] \in AfterToPaid => status[ord[w]] \notin {"NEW", "PENDING", "CANCELLED"}

IInv == TypeOK /\ KindInv /\ LedgerInv /\ DoneInv /\ PaidInv /\ CreateInv /\ FlowInv

LEMMA KindStep ==
  ASSUME TypeOK, TypeOK', KindInv, Next
  PROVE  KindInv'
  <1> USE DEF KindInv, BalanceSteps, AssignSteps, Kinds, GoTo, Return, ReturnWith, Idle,
        SetStatus, Touch, Grant, WriteAudit, SpendFault, UpstreamUnknown,
        ReleaseRedeemLock, RedeemAction, storeVars, orderRow, rowVars, codeVars, gateVars,
        workerVars, Begin, StartUpstreamCheck, TypeOK, CallSteps, LeaseSteps, PCs
  <1>1. ASSUME NEW w \in Workers, InvokeProvider(w) PROVE KindInv'
    BY <1>1 DEF InvokeProvider
  <1>2. ASSUME NEW w \in Workers, StorePaymentDetails(w) PROVE KindInv'
    BY <1>2 DEF StorePaymentDetails
  <1>3. ASSUME NEW w \in Workers, AbortCreate(w) PROVE KindInv'
    BY <1>3 DEF AbortCreate
  <1>4. ASSUME NEW w \in Workers, QueryUpstream(w) PROVE KindInv'
    BY <1>4 DEF QueryUpstream
  <1>5. ASSUME NEW w \in Workers, CloseUpstream(w) PROVE KindInv'
    BY <1>5 DEF CloseUpstream
  <1>6. ASSUME NEW w \in Workers, SettleUnpaid(w) PROVE KindInv'
    BY <1>6 DEF SettleUnpaid
  <1>7. ASSUME NEW w \in Workers, PersistTradeNo(w) PROVE KindInv'
    BY <1>7 DEF PersistTradeNo
  <1>8. ASSUME NEW w \in Workers, ConfirmPayment(w) PROVE KindInv'
    BY <1>8 DEF ConfirmPayment
  <1>9. ASSUME NEW w \in Workers, ToPaid(w) PROVE KindInv'
    BY <1>9 DEF ToPaid
  <1>10. ASSUME NEW w \in Workers, AlreadyProcessed(w) PROVE KindInv'
    BY <1>10 DEF AlreadyProcessed
  <1>11. ASSUME NEW w \in Workers, BeginFulfillment(w) PROVE KindInv'
    BY <1>11 DEF BeginFulfillment
  <1>12. ASSUME NEW w \in Workers, RejectUnsupportedOrderType(w) PROVE KindInv'
    BY <1>12 DEF RejectUnsupportedOrderType
  <1>13. ASSUME NEW w \in Workers, AcquireLease(w) PROVE KindInv'
    BY <1>13 DEF AcquireLease
  <1>14. ASSUME NEW w \in Workers, LeaseNotAcquired(w) PROVE KindInv'
    BY <1>14 DEF LeaseNotAcquired
  <1>15. ASSUME NEW w \in Workers, ClaimLease(w) PROVE KindInv'
    <2>1. kind[ord[w]] \in {"balance", "subscription", "unsupported"}
      BY <1>15 DEF ClaimLease, Kinds
    <2>2. CASE kind[ord[w]] = "balance"
      BY <2>2, <1>15 DEF ClaimLease
    <2>3. CASE kind[ord[w]] = "subscription"
      BY <2>3, <1>15 DEF ClaimLease
    <2> QED
      BY <2>1, <2>2, <2>3, <1>15 DEF ClaimLease
  <1>16. ASSUME NEW w \in Workers, LookupCode(w) PROVE KindInv'
    BY <1>16 DEF LookupCode
  <1>17. ASSUME NEW w \in Workers, CreateCode(w) PROVE KindInv'
    BY <1>17 DEF CreateCode
  <1>18. ASSUME NEW w \in Workers, AcquireRedeemLock(w) PROVE KindInv'
    BY <1>18 DEF AcquireRedeemLock
  <1>19. ASSUME NEW w \in Workers, CheckCode(w) PROVE KindInv'
    BY <1>19 DEF CheckCode
  <1>20. ASSUME NEW w \in Workers, UseCode(w) PROVE KindInv'
    BY <1>20 DEF UseCode
  <1>21. ASSUME NEW w \in Workers, CheckAssigned(w) PROVE KindInv'
    BY <1>21 DEF CheckAssigned
  <1>22. ASSUME NEW w \in Workers, AssignSubscription(w) PROVE KindInv'
    BY <1>22 DEF AssignSubscription
  <1>23. ASSUME NEW w \in Workers, ApplyAffiliateRebate(w) PROVE KindInv'
    BY <1>23 DEF ApplyAffiliateRebate
  <1>24. ASSUME NEW w \in Workers, MarkCompleted(w) PROVE KindInv'
    BY <1>24 DEF MarkCompleted
  <1>25. ASSUME NEW w \in Workers, CompletedByAnother(w) PROVE KindInv'
    BY <1>25, SMTT(30) DEF CompletedByAnother
  <1>26. ASSUME NEW w \in Workers, MarkFailed(w) PROVE KindInv'
    BY <1>26 DEF MarkFailed
  <1>27. ASSUME NEW w \in Workers, NEW o \in Orders, CreateOrder(w, o) PROVE KindInv'
    BY <1>27 DEF CreateOrder
  <1>28. ASSUME NEW w \in Workers, NEW o \in Orders, Webhook(w, o) PROVE KindInv'
    BY <1>28 DEF Webhook
  <1>29. ASSUME NEW w \in Workers, NEW o \in Orders, CancelOrder(w, o) PROVE KindInv'
    BY <1>29 DEF CancelOrder
  <1>30. ASSUME NEW w \in Workers, NEW o \in Orders, ExpireTimedOutOrder(w, o) PROVE KindInv'
    BY <1>30 DEF ExpireTimedOutOrder
  <1>31. ASSUME NEW w \in Workers, NEW o \in Orders, VerifyOrder(w, o) PROVE KindInv'
    BY <1>31 DEF VerifyOrder
  <1>32. ASSUME NEW w \in Workers, NEW o \in Orders, ReconcilePendingOrder(w, o) PROVE KindInv'
    BY <1>32 DEF ReconcilePendingOrder
  <1>33. ASSUME NEW w \in Workers, NEW o \in Orders, RetryFulfillment(w, o) PROVE KindInv'
    BY <1>33 DEF RetryFulfillment
  <1>34. ASSUME NEW w \in Workers, StepFails(w) PROVE KindInv'
    BY <1>34 DEF StepFails, OnError
  <1>35. ASSUME NEW w \in Workers, Crash(w) PROVE KindInv'
    BY <1>35 DEF Crash, OnError
  <1>36. ASSUME NEW o \in Orders, UserPays(o) PROVE KindInv'
    BY <1>36 DEF UserPays
  <1>37. ASSUME NEW o \in Orders, RedeemLockExpires(o) PROVE KindInv'
    BY <1>37 DEF RedeemLockExpires
  <1>38. CASE Tick
    BY <1>38 DEF Tick
  <1> QED
    BY <1>1, <1>2, <1>3, <1>4, <1>5, <1>6, <1>7, <1>8, <1>9, <1>10, <1>11, <1>12, <1>13,
          <1>14, <1>15, <1>16, <1>17, <1>18, <1>19, <1>20, <1>21, <1>22, <1>23, <1>24,
          <1>25, <1>26, <1>27, <1>28, <1>29, <1>30, <1>31, <1>32, <1>33, <1>34, <1>35,
          <1>36, <1>37, <1>38 DEF Next, Start, Step

LEMMA LedgerStep ==
  ASSUME TypeOK, TypeOK', LedgerInv, KindInv, Next
  PROVE  LedgerInv'
  <1> USE DEF LedgerInv, GrantRecorded, Assigned, HasAudit, RebateClaimed, UsableCode,
        BalanceSteps, AssignSteps, KindInv, GoTo, Return, ReturnWith, Idle, SetStatus,
        Touch, Grant, WriteAudit, SpendFault, UpstreamUnknown, ReleaseRedeemLock,
        RedeemAction, storeVars, orderRow, rowVars, codeVars, gateVars, workerVars, Begin,
        StartUpstreamCheck, TypeOK, CallSteps, LeaseSteps, PCs
  <1>1. ASSUME NEW w \in Workers, InvokeProvider(w) PROVE LedgerInv'
    BY <1>1 DEF InvokeProvider
  <1>2. ASSUME NEW w \in Workers, StorePaymentDetails(w) PROVE LedgerInv'
    BY <1>2 DEF StorePaymentDetails
  <1>3. ASSUME NEW w \in Workers, AbortCreate(w) PROVE LedgerInv'
    BY <1>3 DEF AbortCreate
  <1>4. ASSUME NEW w \in Workers, QueryUpstream(w) PROVE LedgerInv'
    BY <1>4 DEF QueryUpstream
  <1>5. ASSUME NEW w \in Workers, CloseUpstream(w) PROVE LedgerInv'
    BY <1>5 DEF CloseUpstream
  <1>6. ASSUME NEW w \in Workers, SettleUnpaid(w) PROVE LedgerInv'
    BY <1>6 DEF SettleUnpaid
  <1>7. ASSUME NEW w \in Workers, PersistTradeNo(w) PROVE LedgerInv'
    BY <1>7 DEF PersistTradeNo
  <1>8. ASSUME NEW w \in Workers, ConfirmPayment(w) PROVE LedgerInv'
    BY <1>8 DEF ConfirmPayment
  <1>9. ASSUME NEW w \in Workers, ToPaid(w) PROVE LedgerInv'
    BY <1>9 DEF ToPaid
  <1>10. ASSUME NEW w \in Workers, AlreadyProcessed(w) PROVE LedgerInv'
    BY <1>10, SMTT(30) DEF AlreadyProcessed
  <1>11. ASSUME NEW w \in Workers, BeginFulfillment(w) PROVE LedgerInv'
    BY <1>11 DEF BeginFulfillment
  <1>12. ASSUME NEW w \in Workers, RejectUnsupportedOrderType(w) PROVE LedgerInv'
    BY <1>12 DEF RejectUnsupportedOrderType
  <1>13. ASSUME NEW w \in Workers, AcquireLease(w) PROVE LedgerInv'
    BY <1>13 DEF AcquireLease
  <1>14. ASSUME NEW w \in Workers, LeaseNotAcquired(w) PROVE LedgerInv'
    BY <1>14 DEF LeaseNotAcquired
  <1>15. ASSUME NEW w \in Workers, ClaimLease(w) PROVE LedgerInv'
    BY <1>15 DEF ClaimLease
  <1>16. ASSUME NEW w \in Workers, LookupCode(w) PROVE LedgerInv'
    BY <1>16 DEF LookupCode
  <1>17. ASSUME NEW w \in Workers, CreateCode(w) PROVE LedgerInv'
    BY <1>17 DEF CreateCode
  <1>18. ASSUME NEW w \in Workers, AcquireRedeemLock(w) PROVE LedgerInv'
    BY <1>18 DEF AcquireRedeemLock
  <1>19. ASSUME NEW w \in Workers, CheckCode(w) PROVE LedgerInv'
    BY <1>19 DEF CheckCode
  <1>20. ASSUME NEW w \in Workers, UseCode(w) PROVE LedgerInv'
    BY <1>20 DEF UseCode
  <1>21. ASSUME NEW w \in Workers, CheckAssigned(w) PROVE LedgerInv'
    BY <1>21 DEF CheckAssigned
  <1>22. ASSUME NEW w \in Workers, AssignSubscription(w) PROVE LedgerInv'
    BY <1>22 DEF AssignSubscription
  <1>23. ASSUME NEW w \in Workers, ApplyAffiliateRebate(w) PROVE LedgerInv'
    BY <1>23 DEF ApplyAffiliateRebate
  <1>24. ASSUME NEW w \in Workers, MarkCompleted(w) PROVE LedgerInv'
    BY <1>24 DEF MarkCompleted
  <1>25. ASSUME NEW w \in Workers, CompletedByAnother(w) PROVE LedgerInv'
    BY <1>25 DEF CompletedByAnother
  <1>26. ASSUME NEW w \in Workers, MarkFailed(w) PROVE LedgerInv'
    BY <1>26 DEF MarkFailed
  <1>27. ASSUME NEW w \in Workers, NEW o \in Orders, CreateOrder(w, o) PROVE LedgerInv'
    BY <1>27 DEF CreateOrder
  <1>28. ASSUME NEW w \in Workers, NEW o \in Orders, Webhook(w, o) PROVE LedgerInv'
    BY <1>28 DEF Webhook
  <1>29. ASSUME NEW w \in Workers, NEW o \in Orders, CancelOrder(w, o) PROVE LedgerInv'
    BY <1>29 DEF CancelOrder
  <1>30. ASSUME NEW w \in Workers, NEW o \in Orders, ExpireTimedOutOrder(w, o) PROVE LedgerInv'
    BY <1>30 DEF ExpireTimedOutOrder
  <1>31. ASSUME NEW w \in Workers, NEW o \in Orders, VerifyOrder(w, o) PROVE LedgerInv'
    BY <1>31 DEF VerifyOrder
  <1>32. ASSUME NEW w \in Workers, NEW o \in Orders, ReconcilePendingOrder(w, o) PROVE
        LedgerInv'
    BY <1>32 DEF ReconcilePendingOrder
  <1>33. ASSUME NEW w \in Workers, NEW o \in Orders, RetryFulfillment(w, o) PROVE LedgerInv'
    BY <1>33 DEF RetryFulfillment
  <1>34. ASSUME NEW w \in Workers, StepFails(w) PROVE LedgerInv'
    BY <1>34 DEF StepFails, OnError
  <1>35. ASSUME NEW w \in Workers, Crash(w) PROVE LedgerInv'
    BY <1>35 DEF Crash, OnError
  <1>36. ASSUME NEW o \in Orders, UserPays(o) PROVE LedgerInv'
    BY <1>36 DEF UserPays
  <1>37. ASSUME NEW o \in Orders, RedeemLockExpires(o) PROVE LedgerInv'
    BY <1>37 DEF RedeemLockExpires
  <1>38. CASE Tick
    BY <1>38 DEF Tick
  <1> QED
    BY <1>1, <1>2, <1>3, <1>4, <1>5, <1>6, <1>7, <1>8, <1>9, <1>10, <1>11, <1>12, <1>13,
          <1>14, <1>15, <1>16, <1>17, <1>18, <1>19, <1>20, <1>21, <1>22, <1>23, <1>24,
          <1>25, <1>26, <1>27, <1>28, <1>29, <1>30, <1>31, <1>32, <1>33, <1>34, <1>35,
          <1>36, <1>37, <1>38 DEF Next, Start, Step

LEMMA DoneStep ==
  ASSUME TypeOK, TypeOK', DoneInv, LedgerInv, KindInv, Next
  PROVE  DoneInv'
  <1> USE DEF DoneInv, CompletedMeansGranted, GrantedSteps, GrantRecorded, LedgerInv,
        Assigned, HasAudit, UsableCode, KindInv, BalanceSteps, AssignSteps, HoldsLease,
        DoneByAnother, GoTo, Return, ReturnWith, Idle, SetStatus, Touch, Grant,
        WriteAudit, SpendFault, UpstreamUnknown, ReleaseRedeemLock, RedeemAction,
        storeVars, orderRow, rowVars, codeVars, gateVars, workerVars, Begin,
        StartUpstreamCheck, TypeOK, CallSteps, LeaseSteps, PCs
  <1>1. ASSUME NEW w \in Workers, InvokeProvider(w) PROVE DoneInv'
    BY <1>1 DEF InvokeProvider
  <1>2. ASSUME NEW w \in Workers, StorePaymentDetails(w) PROVE DoneInv'
    BY <1>2 DEF StorePaymentDetails
  <1>3. ASSUME NEW w \in Workers, AbortCreate(w) PROVE DoneInv'
    BY <1>3 DEF AbortCreate
  <1>4. ASSUME NEW w \in Workers, QueryUpstream(w) PROVE DoneInv'
    BY <1>4 DEF QueryUpstream
  <1>5. ASSUME NEW w \in Workers, CloseUpstream(w) PROVE DoneInv'
    BY <1>5 DEF CloseUpstream
  <1>6. ASSUME NEW w \in Workers, SettleUnpaid(w) PROVE DoneInv'
    BY <1>6 DEF SettleUnpaid
  <1>7. ASSUME NEW w \in Workers, PersistTradeNo(w) PROVE DoneInv'
    BY <1>7 DEF PersistTradeNo
  <1>8. ASSUME NEW w \in Workers, ConfirmPayment(w) PROVE DoneInv'
    BY <1>8 DEF ConfirmPayment
  <1>9. ASSUME NEW w \in Workers, ToPaid(w) PROVE DoneInv'
    BY <1>9 DEF ToPaid
  <1>10. ASSUME NEW w \in Workers, AlreadyProcessed(w) PROVE DoneInv'
    BY <1>10, SMTT(30) DEF AlreadyProcessed
  <1>11. ASSUME NEW w \in Workers, BeginFulfillment(w) PROVE DoneInv'
    BY <1>11, SMTT(30) DEF BeginFulfillment
  <1>12. ASSUME NEW w \in Workers, RejectUnsupportedOrderType(w) PROVE DoneInv'
    BY <1>12 DEF RejectUnsupportedOrderType
  <1>13. ASSUME NEW w \in Workers, AcquireLease(w) PROVE DoneInv'
    BY <1>13 DEF AcquireLease
  <1>14. ASSUME NEW w \in Workers, LeaseNotAcquired(w) PROVE DoneInv'
    BY <1>14 DEF LeaseNotAcquired
  <1>15. ASSUME NEW w \in Workers, ClaimLease(w) PROVE DoneInv'
    BY <1>15 DEF ClaimLease
  <1>16. ASSUME NEW w \in Workers, LookupCode(w) PROVE DoneInv'
    BY <1>16 DEF LookupCode
  <1>17. ASSUME NEW w \in Workers, CreateCode(w) PROVE DoneInv'
    BY <1>17 DEF CreateCode
  <1>18. ASSUME NEW w \in Workers, AcquireRedeemLock(w) PROVE DoneInv'
    BY <1>18 DEF AcquireRedeemLock
  <1>19. ASSUME NEW w \in Workers, CheckCode(w) PROVE DoneInv'
    BY <1>19 DEF CheckCode
  <1>20. ASSUME NEW w \in Workers, UseCode(w) PROVE DoneInv'
    BY <1>20, SMTT(30) DEF UseCode
  <1>21. ASSUME NEW w \in Workers, CheckAssigned(w) PROVE DoneInv'
    BY <1>21 DEF CheckAssigned
  <1>22. ASSUME NEW w \in Workers, AssignSubscription(w) PROVE DoneInv'
    BY <1>22 DEF AssignSubscription
  <1>23. ASSUME NEW w \in Workers, ApplyAffiliateRebate(w) PROVE DoneInv'
    BY <1>23 DEF ApplyAffiliateRebate
  <1>24. ASSUME NEW w \in Workers, MarkCompleted(w) PROVE DoneInv'
    <2>1. UNCHANGED granted /\ granted[ord[w]] = 1
      BY <1>24 DEF MarkCompleted
    <2>2. \A o \in Orders : status'[o] = "COMPLETED" => status[o] = "COMPLETED" \/ o = ord[w]
      BY <1>24 DEF MarkCompleted
    <2>3. \A v \in Workers : pc'[v] \in GrantedSteps => pc[v] \in GrantedSteps /\ ord'[v]
          = ord[v]
      BY <1>24 DEF MarkCompleted
    <2> QED
      BY <2>1, <2>2, <2>3
  <1>25. ASSUME NEW w \in Workers, CompletedByAnother(w) PROVE DoneInv'
    BY <1>25 DEF CompletedByAnother
  <1>26. ASSUME NEW w \in Workers, MarkFailed(w) PROVE DoneInv'
    BY <1>26 DEF MarkFailed
  <1>27. ASSUME NEW w \in Workers, NEW o \in Orders, CreateOrder(w, o) PROVE DoneInv'
    BY <1>27 DEF CreateOrder
  <1>28. ASSUME NEW w \in Workers, NEW o \in Orders, Webhook(w, o) PROVE DoneInv'
    BY <1>28 DEF Webhook
  <1>29. ASSUME NEW w \in Workers, NEW o \in Orders, CancelOrder(w, o) PROVE DoneInv'
    BY <1>29 DEF CancelOrder
  <1>30. ASSUME NEW w \in Workers, NEW o \in Orders, ExpireTimedOutOrder(w, o) PROVE DoneInv'
    BY <1>30 DEF ExpireTimedOutOrder
  <1>31. ASSUME NEW w \in Workers, NEW o \in Orders, VerifyOrder(w, o) PROVE DoneInv'
    BY <1>31 DEF VerifyOrder
  <1>32. ASSUME NEW w \in Workers, NEW o \in Orders, ReconcilePendingOrder(w, o) PROVE DoneInv'
    BY <1>32 DEF ReconcilePendingOrder
  <1>33. ASSUME NEW w \in Workers, NEW o \in Orders, RetryFulfillment(w, o) PROVE DoneInv'
    BY <1>33 DEF RetryFulfillment
  <1>34. ASSUME NEW w \in Workers, StepFails(w) PROVE DoneInv'
    BY <1>34 DEF StepFails, OnError
  <1>35. ASSUME NEW w \in Workers, Crash(w) PROVE DoneInv'
    BY <1>35 DEF Crash, OnError
  <1>36. ASSUME NEW o \in Orders, UserPays(o) PROVE DoneInv'
    BY <1>36 DEF UserPays
  <1>37. ASSUME NEW o \in Orders, RedeemLockExpires(o) PROVE DoneInv'
    BY <1>37 DEF RedeemLockExpires
  <1>38. CASE Tick
    BY <1>38 DEF Tick
  <1> QED
    BY <1>1, <1>2, <1>3, <1>4, <1>5, <1>6, <1>7, <1>8, <1>9, <1>10, <1>11, <1>12, <1>13,
          <1>14, <1>15, <1>16, <1>17, <1>18, <1>19, <1>20, <1>21, <1>22, <1>23, <1>24,
          <1>25, <1>26, <1>27, <1>28, <1>29, <1>30, <1>31, <1>32, <1>33, <1>34, <1>35,
          <1>36, <1>37, <1>38 DEF Next, Start, Step

LEMMA PaidStep ==
  ASSUME TypeOK, TypeOK', PaidInv, LedgerInv, DoneInv, CreateInv, Next
  PROVE  PaidInv'
  <1> USE DEF PaidInv, GrantedMeansPaid, PaidSteps, UnpaidStatuses, PaidAtGateway,
        AmountMatches, CreateInv, CreateSteps, HoldsLease, StillPending, Payable,
        Leasable, GoTo, Return, ReturnWith, Idle, SetStatus, Touch, Grant, WriteAudit,
        SpendFault, UpstreamUnknown, ReleaseRedeemLock, RedeemAction, storeVars, orderRow,
        rowVars, codeVars, gateVars, workerVars, Begin, StartUpstreamCheck, TypeOK,
        CallSteps, LeaseSteps, PCs
  <1>1. ASSUME NEW w \in Workers, InvokeProvider(w) PROVE PaidInv'
    BY <1>1 DEF InvokeProvider
  <1>2. ASSUME NEW w \in Workers, StorePaymentDetails(w) PROVE PaidInv'
    BY <1>2 DEF StorePaymentDetails
  <1>3. ASSUME NEW w \in Workers, AbortCreate(w) PROVE PaidInv'
    BY <1>3 DEF AbortCreate
  <1>4. ASSUME NEW w \in Workers, QueryUpstream(w) PROVE PaidInv'
    BY <1>4 DEF QueryUpstream
  <1>5. ASSUME NEW w \in Workers, CloseUpstream(w) PROVE PaidInv'
    BY <1>5 DEF CloseUpstream
  <1>6. ASSUME NEW w \in Workers, SettleUnpaid(w) PROVE PaidInv'
    BY <1>6 DEF SettleUnpaid
  <1>7. ASSUME NEW w \in Workers, PersistTradeNo(w) PROVE PaidInv'
    BY <1>7 DEF PersistTradeNo
  <1>8. ASSUME NEW w \in Workers, ConfirmPayment(w) PROVE PaidInv'
    BY <1>8 DEF ConfirmPayment
  <1>9. ASSUME NEW w \in Workers, ToPaid(w) PROVE PaidInv'
    BY <1>9 DEF ToPaid
  <1>10. ASSUME NEW w \in Workers, AlreadyProcessed(w) PROVE PaidInv'
    BY <1>10 DEF AlreadyProcessed
  <1>11. ASSUME NEW w \in Workers, BeginFulfillment(w) PROVE PaidInv'
    BY <1>11 DEF BeginFulfillment
  <1>12. ASSUME NEW w \in Workers, RejectUnsupportedOrderType(w) PROVE PaidInv'
    BY <1>12 DEF RejectUnsupportedOrderType
  <1>13. ASSUME NEW w \in Workers, AcquireLease(w) PROVE PaidInv'
    BY <1>13 DEF AcquireLease
  <1>14. ASSUME NEW w \in Workers, LeaseNotAcquired(w) PROVE PaidInv'
    BY <1>14 DEF LeaseNotAcquired
  <1>15. ASSUME NEW w \in Workers, ClaimLease(w) PROVE PaidInv'
    BY <1>15 DEF ClaimLease
  <1>16. ASSUME NEW w \in Workers, LookupCode(w) PROVE PaidInv'
    BY <1>16 DEF LookupCode
  <1>17. ASSUME NEW w \in Workers, CreateCode(w) PROVE PaidInv'
    BY <1>17 DEF CreateCode
  <1>18. ASSUME NEW w \in Workers, AcquireRedeemLock(w) PROVE PaidInv'
    BY <1>18 DEF AcquireRedeemLock
  <1>19. ASSUME NEW w \in Workers, CheckCode(w) PROVE PaidInv'
    BY <1>19 DEF CheckCode
  <1>20. ASSUME NEW w \in Workers, UseCode(w) PROVE PaidInv'
    BY <1>20 DEF UseCode
  <1>21. ASSUME NEW w \in Workers, CheckAssigned(w) PROVE PaidInv'
    BY <1>21 DEF CheckAssigned
  <1>22. ASSUME NEW w \in Workers, AssignSubscription(w) PROVE PaidInv'
    BY <1>22, SMTT(30) DEF AssignSubscription
  <1>23. ASSUME NEW w \in Workers, ApplyAffiliateRebate(w) PROVE PaidInv'
    BY <1>23, SMTT(30) DEF ApplyAffiliateRebate
  <1>24. ASSUME NEW w \in Workers, MarkCompleted(w) PROVE PaidInv'
    <2>1. CASE HoldsLease(w, ord[w])
      BY <2>1, <1>24 DEF MarkCompleted
    <2>2. CASE ~HoldsLease(w, ord[w])
      BY <2>2, <1>24 DEF MarkCompleted
    <2> QED
      BY <2>1, <2>2
  <1>25. ASSUME NEW w \in Workers, CompletedByAnother(w) PROVE PaidInv'
    BY <1>25, SMTT(30) DEF CompletedByAnother
  <1>26. ASSUME NEW w \in Workers, MarkFailed(w) PROVE PaidInv'
    BY <1>26 DEF MarkFailed
  <1>27. ASSUME NEW w \in Workers, NEW o \in Orders, CreateOrder(w, o) PROVE PaidInv'
    BY <1>27 DEF CreateOrder
  <1>28. ASSUME NEW w \in Workers, NEW o \in Orders, Webhook(w, o) PROVE PaidInv'
    BY <1>28 DEF Webhook
  <1>29. ASSUME NEW w \in Workers, NEW o \in Orders, CancelOrder(w, o) PROVE PaidInv'
    BY <1>29 DEF CancelOrder
  <1>30. ASSUME NEW w \in Workers, NEW o \in Orders, ExpireTimedOutOrder(w, o) PROVE PaidInv'
    BY <1>30 DEF ExpireTimedOutOrder
  <1>31. ASSUME NEW w \in Workers, NEW o \in Orders, VerifyOrder(w, o) PROVE PaidInv'
    BY <1>31 DEF VerifyOrder
  <1>32. ASSUME NEW w \in Workers, NEW o \in Orders, ReconcilePendingOrder(w, o) PROVE PaidInv'
    BY <1>32 DEF ReconcilePendingOrder
  <1>33. ASSUME NEW w \in Workers, NEW o \in Orders, RetryFulfillment(w, o) PROVE PaidInv'
    BY <1>33 DEF RetryFulfillment
  <1>34. ASSUME NEW w \in Workers, StepFails(w) PROVE PaidInv'
    BY <1>34 DEF StepFails, OnError
  <1>35. ASSUME NEW w \in Workers, Crash(w) PROVE PaidInv'
    BY <1>35 DEF Crash, OnError
  <1>36. ASSUME NEW o \in Orders, UserPays(o) PROVE PaidInv'
    BY <1>36 DEF UserPays
  <1>37. ASSUME NEW o \in Orders, RedeemLockExpires(o) PROVE PaidInv'
    BY <1>37 DEF RedeemLockExpires
  <1>38. CASE Tick
    BY <1>38 DEF Tick
  <1> QED
    BY <1>1, <1>2, <1>3, <1>4, <1>5, <1>6, <1>7, <1>8, <1>9, <1>10, <1>11, <1>12, <1>13,
          <1>14, <1>15, <1>16, <1>17, <1>18, <1>19, <1>20, <1>21, <1>22, <1>23, <1>24,
          <1>25, <1>26, <1>27, <1>28, <1>29, <1>30, <1>31, <1>32, <1>33, <1>34, <1>35,
          <1>36, <1>37, <1>38 DEF Next, Start, Step

\* A job that goes on or ends touches no other worker.
Moves(w) ==
    /\ \A v \in Workers \ {w} : pc'[v] = pc[v] /\ ord'[v] = ord[v]
    /\ \/ ord'[w] = ord[w]
       \/ pc'[w] = "idle" /\ ord'[w] = NoOrder

LEMMA GoToMoves ==
  ASSUME TypeOK, NEW w \in Workers, NEW s \in PCs, GoTo(w, s)
  PROVE  Moves(w) /\ pc'[w] = s
  <1>1. pc' = [pc EXCEPT ![w] = s] /\ ord' = ord
    BY DEF GoTo
  <1>2. pc'[w] = s /\ \A v \in Workers \ {w} : pc'[v] = pc[v]
    BY <1>1 DEF TypeOK
  <1> QED
    BY <1>1, <1>2 DEF Moves

LEMMA ReturnMoves ==
  ASSUME TypeOK, NEW w \in Workers, NEW answer, ReturnWith(w, answer)
  PROVE  Moves(w) /\ pc'[w] = "idle"
  BY DEF TypeOK, ReturnWith, Idle, Moves

\* The steps whose effect on the worker is a choice: none begins a creation.
ChoosingStep(w) ==
    \/ QueryUpstream(w) \/ ConfirmPayment(w) \/ AlreadyProcessed(w) \/ BeginFulfillment(w)
    \/ ClaimLease(w) \/ MarkCompleted(w) \/ CompletedByAnother(w) \/ StepFails(w)
    \/ ToPaid(w)

LEMMA StepMoves ==
  ASSUME TypeOK, NEW w \in Workers, ChoosingStep(w)
  PROVE  /\ Moves(w)
         /\ pc'[w] \in CreateSteps => pc[w] \in CreateSteps /\ pc'[w] = "abort"
         /\ UNCHANGED gateway
         /\ \A o \in Orders : status'[o] = "NEW" => status[o] = "NEW"
  <1>g. \A s \in PCs : GoTo(w, s) => Moves(w) /\ pc'[w] = s
    BY GoToMoves
  <1>r. \A answer : ReturnWith(w, answer) => Moves(w) /\ pc'[w] = "idle"
    BY ReturnMoves
  <1>1. Moves(w) /\ (pc'[w] \in CreateSteps => pc[w] \in CreateSteps /\ pc'[w] = "abort")
    <2> USE <1>g, <1>r DEF Return, UpstreamUnknown, CreateSteps, PCs, CallSteps, LeaseSteps
    <2>1. CASE QueryUpstream(w)
      BY <2>1 DEF QueryUpstream
    <2>2. CASE ConfirmPayment(w)
      BY <2>2 DEF ConfirmPayment
    <2>3. CASE AlreadyProcessed(w)
      BY <2>3 DEF AlreadyProcessed
    <2>4. CASE BeginFulfillment(w)
      BY <2>4 DEF BeginFulfillment
    <2>5. CASE ClaimLease(w)
      BY <2>5 DEF ClaimLease
    <2>6. CASE MarkCompleted(w)
      BY <2>6 DEF MarkCompleted
    <2>7. CASE CompletedByAnother(w)
      BY <2>7 DEF CompletedByAnother
    <2>8. CASE StepFails(w)
      BY <2>8 DEF StepFails, OnError
    <2>9. CASE ToPaid(w)
      BY <2>9 DEF ToPaid
    <2> QED
      BY <2>1, <2>2, <2>3, <2>4, <2>5, <2>6, <2>7, <2>8, <2>9 DEF ChoosingStep
  <1>2. UNCHANGED gateway /\ \A o \in Orders : status'[o] = "NEW" => status[o] = "NEW"
    <2> USE DEF SetStatus, storeVars, orderRow, gateVars, TypeOK
    <2>1. CASE ToPaid(w)
      BY <2>1 DEF ToPaid
    <2>2. CASE ~ToPaid(w)
      BY <2>2 DEF ChoosingStep, QueryUpstream, ConfirmPayment, AlreadyProcessed,
            BeginFulfillment, ClaimLease, MarkCompleted, CompletedByAnother, StepFails
    <2> QED
      BY <2>1, <2>2
  <1> QED
    BY <1>1, <1>2

\* Only the steps of a creation, and what the gateway does, disturb CreateInv.
LEMMA CreateFrame ==
  ASSUME TypeOK, CreateInv, NEW w \in Workers, Moves(w), UNCHANGED gateway,
         \A o \in Orders : status'[o] = "NEW" => status[o] = "NEW",
         pc'[w] \in CreateSteps => pc[w] \in CreateSteps /\ pc'[w] = "abort"
  PROVE  CreateInv'
  <1> USE DEF TypeOK, CreateInv, Moves, CreateSteps
  <1>1. \A v \in Workers : ord'[v] \in {ord[v], NoOrder}
    OBVIOUS
  <1>2. \A v \in Workers : pc'[v] \in CreateSteps => pc[v] \in CreateSteps /\ ord'[v] = ord[v]
    OBVIOUS
  <1>3. \A v \in Workers : pc'[v] = "createPayment" => pc[v] = "createPayment"
    OBVIOUS
  <1> QED
    BY <1>1, <1>2, <1>3

LEMMA CreateStep ==
  ASSUME TypeOK, TypeOK', CreateInv, PaidInv, FlowInv, Next
  PROVE  CreateInv'
  <1>1. ASSUME NEW w \in Workers, ChoosingStep(w) PROVE CreateInv'
    BY <1>1, StepMoves, CreateFrame
  <1>8. ASSUME NEW w \in Workers, ToPaid(w) PROVE CreateInv'
    BY <1>1, <1>8 DEF ChoosingStep
  <1> USE DEF ChoosingStep, CreateInv, PaidInv, GrantedMeansPaid, CreateSteps,
        PaidAtGateway, HoldsLease, StillPending, Payable, Leasable, Rejectable, GoTo,
        Return, ReturnWith, Idle, SetStatus, Touch, Grant, WriteAudit, SpendFault,
        UpstreamUnknown, ReleaseRedeemLock, RedeemAction, storeVars, orderRow, rowVars,
        codeVars, gateVars, workerVars, Begin, StartUpstreamCheck, TypeOK, CallSteps,
        LeaseSteps, PCs
  <1>2. ASSUME NEW w \in Workers, InvokeProvider(w) PROVE CreateInv'
    BY <1>2 DEF InvokeProvider
  <1>3. ASSUME NEW w \in Workers, StorePaymentDetails(w) PROVE CreateInv'
    BY <1>3 DEF StorePaymentDetails
  <1>4. ASSUME NEW w \in Workers, AbortCreate(w) PROVE CreateInv'
    BY <1>4 DEF AbortCreate
  <1>5. ASSUME NEW w \in Workers, CloseUpstream(w) PROVE CreateInv'
    BY <1>5 DEF CloseUpstream
  <1>6. ASSUME NEW w \in Workers, SettleUnpaid(w) PROVE CreateInv'
    BY <1>6 DEF SettleUnpaid
  <1>7. ASSUME NEW w \in Workers, PersistTradeNo(w) PROVE CreateInv'
    BY <1>7 DEF PersistTradeNo
  <1>9. ASSUME NEW w \in Workers, RejectUnsupportedOrderType(w) PROVE CreateInv'
    BY <1>9 DEF RejectUnsupportedOrderType
  <1>10. ASSUME NEW w \in Workers, AcquireLease(w) PROVE CreateInv'
    BY <1>10, SMTT(30) DEF AcquireLease
  <1>11. ASSUME NEW w \in Workers, LeaseNotAcquired(w) PROVE CreateInv'
    BY <1>11 DEF LeaseNotAcquired
  <1>12. ASSUME NEW w \in Workers, LookupCode(w) PROVE CreateInv'
    BY <1>12 DEF LookupCode
  <1>13. ASSUME NEW w \in Workers, CreateCode(w) PROVE CreateInv'
    BY <1>13, SMTT(30) DEF CreateCode
  <1>14. ASSUME NEW w \in Workers, AcquireRedeemLock(w) PROVE CreateInv'
    BY <1>14 DEF AcquireRedeemLock
  <1>15. ASSUME NEW w \in Workers, CheckCode(w) PROVE CreateInv'
    BY <1>15, SMTT(30) DEF CheckCode
  <1>16. ASSUME NEW w \in Workers, UseCode(w) PROVE CreateInv'
    BY <1>16, SMTT(30) DEF UseCode
  <1>17. ASSUME NEW w \in Workers, CheckAssigned(w) PROVE CreateInv'
    BY <1>17 DEF CheckAssigned
  <1>18. ASSUME NEW w \in Workers, AssignSubscription(w) PROVE CreateInv'
    BY <1>18 DEF AssignSubscription
  <1>19. ASSUME NEW w \in Workers, ApplyAffiliateRebate(w) PROVE CreateInv'
    BY <1>19 DEF ApplyAffiliateRebate
  <1>20. ASSUME NEW w \in Workers, MarkFailed(w) PROVE CreateInv'
    BY <1>20 DEF MarkFailed
  <1>21. ASSUME NEW w \in Workers, NEW o \in Orders, CreateOrder(w, o) PROVE CreateInv'
    BY <1>21 DEF CreateOrder
  <1>22. ASSUME NEW w \in Workers, NEW o \in Orders, Webhook(w, o) PROVE CreateInv'
    BY <1>22 DEF Webhook
  <1>23. ASSUME NEW w \in Workers, NEW o \in Orders, CancelOrder(w, o) PROVE CreateInv'
    BY <1>23 DEF CancelOrder
  <1>24. ASSUME NEW w \in Workers, NEW o \in Orders, ExpireTimedOutOrder(w, o) PROVE CreateInv'
    BY <1>24 DEF ExpireTimedOutOrder
  <1>25. ASSUME NEW w \in Workers, NEW o \in Orders, VerifyOrder(w, o) PROVE CreateInv'
    BY <1>25 DEF VerifyOrder
  <1>26. ASSUME NEW w \in Workers, NEW o \in Orders, ReconcilePendingOrder(w, o) PROVE
        CreateInv'
    BY <1>26 DEF ReconcilePendingOrder
  <1>27. ASSUME NEW w \in Workers, NEW o \in Orders, RetryFulfillment(w, o) PROVE CreateInv'
    BY <1>27 DEF RetryFulfillment
  <1>28. ASSUME NEW w \in Workers, Crash(w) PROVE CreateInv'
    BY <1>28 DEF Crash, OnError
  <1>29. ASSUME NEW o \in Orders, UserPays(o) PROVE CreateInv'
    BY <1>29 DEF UserPays
  <1>30. ASSUME NEW o \in Orders, RedeemLockExpires(o) PROVE CreateInv'
    BY <1>30 DEF RedeemLockExpires
  <1>31. CASE Tick
    BY <1>31 DEF Tick
  <1> QED
    BY <1>1, <1>2, <1>3, <1>4, <1>5, <1>6, <1>7, <1>8, <1>9, <1>10, <1>11, <1>12, <1>13,
          <1>14, <1>15, <1>16, <1>17, <1>18, <1>19, <1>20, <1>21, <1>22, <1>23, <1>24,
          <1>25, <1>26, <1>27, <1>28, <1>29, <1>30, <1>31 DEF Next, Start, Step

LEMMA FlowStep ==
  ASSUME TypeOK, TypeOK', FlowInv, CreateInv, PaidInv, Next
  PROVE  FlowInv'
  <1> USE DEF FlowInv, CreateInv, PaidInv, CreateSteps, UpstreamSteps, AfterToPaid,
        PaidSteps, UnpaidStatuses, HoldsLease, StillPending, Payable, Leasable,
        Rejectable, GoTo, Return, ReturnWith, Idle, SetStatus, Touch, Grant, WriteAudit,
        SpendFault, UpstreamUnknown, ReleaseRedeemLock, RedeemAction, storeVars, orderRow,
        rowVars, codeVars, gateVars, workerVars, Begin, StartUpstreamCheck, TypeOK,
        CallSteps, LeaseSteps, PCs
  <1>1. ASSUME NEW w \in Workers, InvokeProvider(w) PROVE FlowInv'
    BY <1>1 DEF InvokeProvider
  <1>2. ASSUME NEW w \in Workers, StorePaymentDetails(w) PROVE FlowInv'
    BY <1>2 DEF StorePaymentDetails
  <1>3. ASSUME NEW w \in Workers, AbortCreate(w) PROVE FlowInv'
    BY <1>3 DEF AbortCreate
  <1>4. ASSUME NEW w \in Workers, QueryUpstream(w) PROVE FlowInv'
    BY <1>4 DEF QueryUpstream
  <1>5. ASSUME NEW w \in Workers, CloseUpstream(w) PROVE FlowInv'
    BY <1>5 DEF CloseUpstream
  <1>6. ASSUME NEW w \in Workers, SettleUnpaid(w) PROVE FlowInv'
    BY <1>6 DEF SettleUnpaid
  <1>7. ASSUME NEW w \in Workers, PersistTradeNo(w) PROVE FlowInv'
    BY <1>7 DEF PersistTradeNo
  <1>8. ASSUME NEW w \in Workers, ConfirmPayment(w) PROVE FlowInv'
    BY <1>8 DEF ConfirmPayment
  <1>9. ASSUME NEW w \in Workers, ToPaid(w) PROVE FlowInv'
    BY <1>9 DEF ToPaid
  <1>10. ASSUME NEW w \in Workers, AlreadyProcessed(w) PROVE FlowInv'
    BY <1>10 DEF AlreadyProcessed
  <1>11. ASSUME NEW w \in Workers, BeginFulfillment(w) PROVE FlowInv'
    BY <1>11 DEF BeginFulfillment
  <1>12. ASSUME NEW w \in Workers, RejectUnsupportedOrderType(w) PROVE FlowInv'
    BY <1>12 DEF RejectUnsupportedOrderType
  <1>13. ASSUME NEW w \in Workers, AcquireLease(w) PROVE FlowInv'
    BY <1>13 DEF AcquireLease
  <1>14. ASSUME NEW w \in Workers, LeaseNotAcquired(w) PROVE FlowInv'
    BY <1>14 DEF LeaseNotAcquired
  <1>15. ASSUME NEW w \in Workers, ClaimLease(w) PROVE FlowInv'
    BY <1>15 DEF ClaimLease
  <1>16. ASSUME NEW w \in Workers, LookupCode(w) PROVE FlowInv'
    BY <1>16 DEF LookupCode
  <1>17. ASSUME NEW w \in Workers, CreateCode(w) PROVE FlowInv'
    BY <1>17 DEF CreateCode
  <1>18. ASSUME NEW w \in Workers, AcquireRedeemLock(w) PROVE FlowInv'
    BY <1>18 DEF AcquireRedeemLock
  <1>19. ASSUME NEW w \in Workers, CheckCode(w) PROVE FlowInv'
    BY <1>19 DEF CheckCode
  <1>20. ASSUME NEW w \in Workers, UseCode(w) PROVE FlowInv'
    BY <1>20 DEF UseCode
  <1>21. ASSUME NEW w \in Workers, CheckAssigned(w) PROVE FlowInv'
    BY <1>21 DEF CheckAssigned
  <1>22. ASSUME NEW w \in Workers, AssignSubscription(w) PROVE FlowInv'
    BY <1>22 DEF AssignSubscription
  <1>23. ASSUME NEW w \in Workers, ApplyAffiliateRebate(w) PROVE FlowInv'
    BY <1>23 DEF ApplyAffiliateRebate
  <1>24. ASSUME NEW w \in Workers, MarkCompleted(w) PROVE FlowInv'
    BY <1>24 DEF MarkCompleted
  <1>25. ASSUME NEW w \in Workers, CompletedByAnother(w) PROVE FlowInv'
    BY <1>25 DEF CompletedByAnother
  <1>26. ASSUME NEW w \in Workers, MarkFailed(w) PROVE FlowInv'
    BY <1>26 DEF MarkFailed
  <1>27. ASSUME NEW w \in Workers, NEW o \in Orders, CreateOrder(w, o) PROVE FlowInv'
    BY <1>27 DEF CreateOrder
  <1>28. ASSUME NEW w \in Workers, NEW o \in Orders, Webhook(w, o) PROVE FlowInv'
    BY <1>28 DEF Webhook
  <1>29. ASSUME NEW w \in Workers, NEW o \in Orders, CancelOrder(w, o) PROVE FlowInv'
    BY <1>29 DEF CancelOrder
  <1>30. ASSUME NEW w \in Workers, NEW o \in Orders, ExpireTimedOutOrder(w, o) PROVE FlowInv'
    BY <1>30 DEF ExpireTimedOutOrder
  <1>31. ASSUME NEW w \in Workers, NEW o \in Orders, VerifyOrder(w, o) PROVE FlowInv'
    BY <1>31 DEF VerifyOrder
  <1>32. ASSUME NEW w \in Workers, NEW o \in Orders, ReconcilePendingOrder(w, o) PROVE FlowInv'
    BY <1>32 DEF ReconcilePendingOrder
  <1>33. ASSUME NEW w \in Workers, NEW o \in Orders, RetryFulfillment(w, o) PROVE FlowInv'
    BY <1>33 DEF RetryFulfillment
  <1>34. ASSUME NEW w \in Workers, StepFails(w) PROVE FlowInv'
    <2>1. CASE pc[w] \in AfterToPaid
      BY <2>1, <1>34 DEF StepFails, OnError, ErrorDropped
    <2>2. CASE pc[w] \notin AfterToPaid
      BY <2>2, <1>34 DEF StepFails, OnError, ErrorDropped
    <2> QED
      BY <2>1, <2>2
  <1>35. ASSUME NEW w \in Workers, Crash(w) PROVE FlowInv'
    BY <1>35 DEF Crash, OnError
  <1>36. ASSUME NEW o \in Orders, UserPays(o) PROVE FlowInv'
    BY <1>36 DEF UserPays
  <1>37. ASSUME NEW o \in Orders, RedeemLockExpires(o) PROVE FlowInv'
    BY <1>37 DEF RedeemLockExpires
  <1>38. CASE Tick
    BY <1>38 DEF Tick
  <1> QED
    BY <1>1, <1>2, <1>3, <1>4, <1>5, <1>6, <1>7, <1>8, <1>9, <1>10, <1>11, <1>12, <1>13,
          <1>14, <1>15, <1>16, <1>17, <1>18, <1>19, <1>20, <1>21, <1>22, <1>23, <1>24,
          <1>25, <1>26, <1>27, <1>28, <1>29, <1>30, <1>31, <1>32, <1>33, <1>34, <1>35,
          <1>36, <1>37, <1>38 DEF Next, Start, Step

-----------------------------------------------------------------------------
(* The invariant and what it implies.                                      *)

LEMMA InitInv == Init => IInv
  <1> SUFFICES ASSUME Init PROVE IInv
    OBVIOUS
  <1>1. TypeOK
    BY InitType
  <1>2. KindInv /\ FlowInv
    BY DEF Init, KindInv, FlowInv, BalanceSteps, AssignSteps, CreateSteps, UpstreamSteps,
           AfterToPaid, PaidSteps, LeaseSteps
  <1>3. LedgerInv
    BY DEF Init, LedgerInv, GrantRecorded, Assigned, HasAudit
  <1>4. DoneInv /\ PaidInv
    BY DEF Init, DoneInv, PaidInv, CompletedMeansGranted, GrantedMeansPaid, GrantedSteps,
           PaidSteps, LeaseSteps
  <1>5. CreateInv
    BY DEF Init, CreateInv, CreateSteps
  <1> QED
    BY <1>1, <1>2, <1>3, <1>4, <1>5 DEF IInv

LEMMA NextInv == IInv /\ [Next]_vars => IInv'
  <1> SUFFICES ASSUME IInv, [Next]_vars PROVE IInv'
    OBVIOUS
  <1>1. TypeOK'
    BY NextType DEF IInv
  <1>2. CASE Next
    BY <1>1, <1>2, KindStep, LedgerStep, DoneStep, PaidStep, CreateStep, FlowStep DEF IInv
  <1>3. CASE UNCHANGED vars
    <2>1. KindInv' /\ LedgerInv' /\ FlowInv'
      BY <1>3 DEF vars, fvars, storeVars, orderRow, workerVars, rowVars, codeVars,
            gateVars, IInv,
                  KindInv, LedgerInv, FlowInv, GrantRecorded, Assigned, HasAudit
    <2>2. DoneInv' /\ PaidInv' /\ CreateInv'
      BY <1>3 DEF vars, fvars, storeVars, orderRow, workerVars, rowVars, codeVars,
            gateVars, IInv,
                  DoneInv, PaidInv, CreateInv, CompletedMeansGranted, GrantedMeansPaid
    <2> QED
      BY <1>1, <2>1, <2>2 DEF IInv
  <1> QED
    BY <1>2, <1>3

THEOREM Invariance == Spec => []IInv
  BY InitInv, NextInv, PTL DEF Spec

\* However many workers run, fail and resume the fulfillment of an order, its
\* value is granted at most once: UseCode and AssignSubscription leave a record
\* in the transaction that grants, and the record admits one grant.
THEOREM GrantedOnce == Spec => []GrantedAtMostOnce
  <1>1. IInv => GrantedAtMostOnce
    BY DEF IInv, LedgerInv, GrantedAtMostOnce
  <1> QED
    BY <1>1, Invariance, PTL

\* applyAffiliateRebateForOrder accrues at most one rebate for an order.
THEOREM RebatedOnce == Spec => []RebatedAtMostOnce
  <1>1. IInv => RebatedAtMostOnce
    BY DEF IInv, LedgerInv, RebatedAtMostOnce
  <1> QED
    BY <1>1, Invariance, PTL

\* markCompleted never reports COMPLETED for an order whose value is missing.
THEOREM CompletedGranted == Spec => []CompletedMeansGranted
  <1>1. IInv => CompletedMeansGranted
    BY DEF IInv, DoneInv
  <1> QED
    BY <1>1, Invariance, PTL

\* Nothing is granted, rebated or called paid without a payment in full.
THEOREM GrantedPaid == Spec => []GrantedMeansPaid
  <1>1. IInv => GrantedMeansPaid
    BY DEF IInv, PaidInv
  <1> QED
    BY <1>1, Invariance, PTL

LEMMA StepKeepsPaid ==
  ASSUME IInv, IInv', Next
  PROVE  KeepsPaid
  <1> USE DEF KeepsPaid, IInv, TypeOK, PaidInv, DoneInv, CreateInv, GrantedMeansPaid,
        CompletedMeansGranted, CreateSteps, UnpaidStatuses, StillPending, Payable,
        Leasable, Rejectable, HoldsLease, PaidAtGateway, GoTo, Return, ReturnWith, Idle,
        SetStatus, Touch, Grant, WriteAudit, UpstreamUnknown, ReleaseRedeemLock,
        storeVars, orderRow, rowVars, codeVars, gateVars, workerVars, Begin,
        StartUpstreamCheck
  <1>1. ASSUME NEW w \in Workers, InvokeProvider(w) PROVE KeepsPaid
    BY <1>1 DEF InvokeProvider
  <1>2. ASSUME NEW w \in Workers, StorePaymentDetails(w) PROVE KeepsPaid
    BY <1>2 DEF StorePaymentDetails
  <1>3. ASSUME NEW w \in Workers, AbortCreate(w) PROVE KeepsPaid
    BY <1>3 DEF AbortCreate
  <1>4. ASSUME NEW w \in Workers, QueryUpstream(w) PROVE KeepsPaid
    BY <1>4 DEF QueryUpstream
  <1>5. ASSUME NEW w \in Workers, CloseUpstream(w) PROVE KeepsPaid
    BY <1>5 DEF CloseUpstream
  <1>6. ASSUME NEW w \in Workers, SettleUnpaid(w) PROVE KeepsPaid
    BY <1>6 DEF SettleUnpaid
  <1>7. ASSUME NEW w \in Workers, PersistTradeNo(w) PROVE KeepsPaid
    BY <1>7 DEF PersistTradeNo
  <1>8. ASSUME NEW w \in Workers, ConfirmPayment(w) PROVE KeepsPaid
    BY <1>8 DEF ConfirmPayment
  <1>9. ASSUME NEW w \in Workers, ToPaid(w) PROVE KeepsPaid
    BY <1>9 DEF ToPaid
  <1>10. ASSUME NEW w \in Workers, AlreadyProcessed(w) PROVE KeepsPaid
    BY <1>10 DEF AlreadyProcessed
  <1>11. ASSUME NEW w \in Workers, BeginFulfillment(w) PROVE KeepsPaid
    BY <1>11 DEF BeginFulfillment
  <1>12. ASSUME NEW w \in Workers, RejectUnsupportedOrderType(w) PROVE KeepsPaid
    BY <1>12 DEF RejectUnsupportedOrderType
  <1>13. ASSUME NEW w \in Workers, AcquireLease(w) PROVE KeepsPaid
    BY <1>13 DEF AcquireLease
  <1>14. ASSUME NEW w \in Workers, LeaseNotAcquired(w) PROVE KeepsPaid
    BY <1>14 DEF LeaseNotAcquired
  <1>15. ASSUME NEW w \in Workers, ClaimLease(w) PROVE KeepsPaid
    BY <1>15 DEF ClaimLease
  <1>16. ASSUME NEW w \in Workers, LookupCode(w) PROVE KeepsPaid
    BY <1>16 DEF LookupCode
  <1>17. ASSUME NEW w \in Workers, CreateCode(w) PROVE KeepsPaid
    BY <1>17 DEF CreateCode
  <1>18. ASSUME NEW w \in Workers, AcquireRedeemLock(w) PROVE KeepsPaid
    BY <1>18 DEF AcquireRedeemLock
  <1>19. ASSUME NEW w \in Workers, CheckCode(w) PROVE KeepsPaid
    BY <1>19 DEF CheckCode
  <1>20. ASSUME NEW w \in Workers, UseCode(w) PROVE KeepsPaid
    BY <1>20 DEF UseCode
  <1>21. ASSUME NEW w \in Workers, CheckAssigned(w) PROVE KeepsPaid
    BY <1>21 DEF CheckAssigned
  <1>22. ASSUME NEW w \in Workers, AssignSubscription(w) PROVE KeepsPaid
    BY <1>22 DEF AssignSubscription
  <1>23. ASSUME NEW w \in Workers, ApplyAffiliateRebate(w) PROVE KeepsPaid
    BY <1>23 DEF ApplyAffiliateRebate
  <1>24. ASSUME NEW w \in Workers, MarkCompleted(w) PROVE KeepsPaid
    BY <1>24 DEF MarkCompleted
  <1>25. ASSUME NEW w \in Workers, CompletedByAnother(w) PROVE KeepsPaid
    BY <1>25 DEF CompletedByAnother
  <1>26. ASSUME NEW w \in Workers, MarkFailed(w) PROVE KeepsPaid
    BY <1>26 DEF MarkFailed
  <1>27. ASSUME NEW w \in Workers, NEW o \in Orders, CreateOrder(w, o) PROVE KeepsPaid
    BY <1>27 DEF CreateOrder
  <1>28. ASSUME NEW w \in Workers, NEW o \in Orders, Webhook(w, o) PROVE KeepsPaid
    BY <1>28 DEF Webhook
  <1>29. ASSUME NEW w \in Workers, NEW o \in Orders, CancelOrder(w, o) PROVE KeepsPaid
    BY <1>29 DEF CancelOrder
  <1>30. ASSUME NEW w \in Workers, NEW o \in Orders, ExpireTimedOutOrder(w, o) PROVE KeepsPaid
    BY <1>30 DEF ExpireTimedOutOrder
  <1>31. ASSUME NEW w \in Workers, NEW o \in Orders, VerifyOrder(w, o) PROVE KeepsPaid
    BY <1>31 DEF VerifyOrder
  <1>32. ASSUME NEW w \in Workers, NEW o \in Orders, ReconcilePendingOrder(w, o) PROVE
        KeepsPaid
    BY <1>32 DEF ReconcilePendingOrder
  <1>33. ASSUME NEW w \in Workers, NEW o \in Orders, RetryFulfillment(w, o) PROVE KeepsPaid
    BY <1>33 DEF RetryFulfillment
  <1>34. ASSUME NEW w \in Workers, StepFails(w) PROVE KeepsPaid
    BY <1>34 DEF StepFails, OnError, ErrorDropped
  <1>35. ASSUME NEW w \in Workers, Crash(w) PROVE KeepsPaid
    BY <1>35 DEF Crash, OnError, ErrorDropped
  <1>36. ASSUME NEW o \in Orders, UserPays(o) PROVE KeepsPaid
    BY <1>36 DEF UserPays
  <1>37. ASSUME NEW o \in Orders, RedeemLockExpires(o) PROVE KeepsPaid
    BY <1>37 DEF RedeemLockExpires
  <1>38. CASE Tick
    BY <1>38 DEF Tick
  <1> QED
    BY <1>1, <1>2, <1>3, <1>4, <1>5, <1>6, <1>7, <1>8, <1>9, <1>10, <1>11, <1>12, <1>13,
          <1>14, <1>15, <1>16, <1>17, <1>18, <1>19, <1>20, <1>21, <1>22, <1>23, <1>24,
          <1>25, <1>26, <1>27, <1>28, <1>29, <1>30, <1>31, <1>32, <1>33, <1>34, <1>35,
          <1>36, <1>37, <1>38 DEF Next, Start, Step

\* No cancellation, expiry, failed creation or repeated notification takes a
\* paid order back, or reopens a completed one.
THEOREM PaidStays == Spec => PaidNeverUndone
  <1>1. IInv /\ IInv' /\ [Next]_vars => [KeepsPaid]_vars
    BY StepKeepsPaid
  <1> QED
    BY <1>1, Invariance, PTL DEF Spec, PaidNeverUndone

LEMMA StepAcksOnlySettled ==
  ASSUME IInv, IInv', Next
  PROVE  AcksOnlySettled
  <1> USE DEF AcksOnlySettled, IInv, TypeOK, FlowInv, CreateSteps, UpstreamSteps,
        AfterToPaid, PaidSteps, LeaseSteps, Settled, RefundStatuses, Statuses, Rejectable,
        DoneByAnother, Answers, GoTo, Return, ReturnWith, Idle, SetStatus, Touch, Grant,
        WriteAudit, UpstreamUnknown, ReleaseRedeemLock, storeVars, orderRow, rowVars,
        codeVars, gateVars, workerVars, Begin, StartUpstreamCheck
  <1>1. ASSUME NEW w \in Workers, InvokeProvider(w) PROVE AcksOnlySettled
    BY <1>1 DEF InvokeProvider
  <1>2. ASSUME NEW w \in Workers, StorePaymentDetails(w) PROVE AcksOnlySettled
    BY <1>2 DEF StorePaymentDetails
  <1>3. ASSUME NEW w \in Workers, AbortCreate(w) PROVE AcksOnlySettled
    BY <1>3 DEF AbortCreate
  <1>4. ASSUME NEW w \in Workers, QueryUpstream(w) PROVE AcksOnlySettled
    BY <1>4 DEF QueryUpstream
  <1>5. ASSUME NEW w \in Workers, CloseUpstream(w) PROVE AcksOnlySettled
    BY <1>5 DEF CloseUpstream
  <1>6. ASSUME NEW w \in Workers, SettleUnpaid(w) PROVE AcksOnlySettled
    BY <1>6 DEF SettleUnpaid
  <1>7. ASSUME NEW w \in Workers, PersistTradeNo(w) PROVE AcksOnlySettled
    BY <1>7 DEF PersistTradeNo
  <1>8. ASSUME NEW w \in Workers, ConfirmPayment(w) PROVE AcksOnlySettled
    BY <1>8 DEF ConfirmPayment
  <1>9. ASSUME NEW w \in Workers, ToPaid(w) PROVE AcksOnlySettled
    BY <1>9 DEF ToPaid
  <1>10. ASSUME NEW w \in Workers, AlreadyProcessed(w) PROVE AcksOnlySettled
    BY <1>10 DEF AlreadyProcessed
  <1>11. ASSUME NEW w \in Workers, BeginFulfillment(w) PROVE AcksOnlySettled
    BY <1>11 DEF BeginFulfillment
  <1>12. ASSUME NEW w \in Workers, RejectUnsupportedOrderType(w) PROVE AcksOnlySettled
    BY <1>12 DEF RejectUnsupportedOrderType
  <1>13. ASSUME NEW w \in Workers, AcquireLease(w) PROVE AcksOnlySettled
    BY <1>13 DEF AcquireLease
  <1>14. ASSUME NEW w \in Workers, LeaseNotAcquired(w) PROVE AcksOnlySettled
    BY <1>14 DEF LeaseNotAcquired
  <1>15. ASSUME NEW w \in Workers, ClaimLease(w) PROVE AcksOnlySettled
    BY <1>15 DEF ClaimLease
  <1>16. ASSUME NEW w \in Workers, LookupCode(w) PROVE AcksOnlySettled
    BY <1>16 DEF LookupCode
  <1>17. ASSUME NEW w \in Workers, CreateCode(w) PROVE AcksOnlySettled
    BY <1>17 DEF CreateCode
  <1>18. ASSUME NEW w \in Workers, AcquireRedeemLock(w) PROVE AcksOnlySettled
    BY <1>18 DEF AcquireRedeemLock
  <1>19. ASSUME NEW w \in Workers, CheckCode(w) PROVE AcksOnlySettled
    BY <1>19 DEF CheckCode
  <1>20. ASSUME NEW w \in Workers, UseCode(w) PROVE AcksOnlySettled
    BY <1>20 DEF UseCode
  <1>21. ASSUME NEW w \in Workers, CheckAssigned(w) PROVE AcksOnlySettled
    BY <1>21 DEF CheckAssigned
  <1>22. ASSUME NEW w \in Workers, AssignSubscription(w) PROVE AcksOnlySettled
    BY <1>22 DEF AssignSubscription
  <1>23. ASSUME NEW w \in Workers, ApplyAffiliateRebate(w) PROVE AcksOnlySettled
    BY <1>23 DEF ApplyAffiliateRebate
  <1>24. ASSUME NEW w \in Workers, MarkCompleted(w) PROVE AcksOnlySettled
    BY <1>24 DEF MarkCompleted
  <1>25. ASSUME NEW w \in Workers, CompletedByAnother(w) PROVE AcksOnlySettled
    BY <1>25 DEF CompletedByAnother
  <1>26. ASSUME NEW w \in Workers, MarkFailed(w) PROVE AcksOnlySettled
    BY <1>26 DEF MarkFailed
  <1>27. ASSUME NEW w \in Workers, NEW o \in Orders, CreateOrder(w, o) PROVE AcksOnlySettled
    BY <1>27 DEF CreateOrder
  <1>28. ASSUME NEW w \in Workers, NEW o \in Orders, Webhook(w, o) PROVE AcksOnlySettled
    BY <1>28 DEF Webhook
  <1>29. ASSUME NEW w \in Workers, NEW o \in Orders, CancelOrder(w, o) PROVE AcksOnlySettled
    BY <1>29 DEF CancelOrder
  <1>30. ASSUME NEW w \in Workers, NEW o \in Orders, ExpireTimedOutOrder(w, o) PROVE
        AcksOnlySettled
    BY <1>30 DEF ExpireTimedOutOrder
  <1>31. ASSUME NEW w \in Workers, NEW o \in Orders, VerifyOrder(w, o) PROVE AcksOnlySettled
    BY <1>31 DEF VerifyOrder
  <1>32. ASSUME NEW w \in Workers, NEW o \in Orders, ReconcilePendingOrder(w, o) PROVE
        AcksOnlySettled
    BY <1>32 DEF ReconcilePendingOrder
  <1>33. ASSUME NEW w \in Workers, NEW o \in Orders, RetryFulfillment(w, o) PROVE
        AcksOnlySettled
    BY <1>33 DEF RetryFulfillment
  <1>34. ASSUME NEW w \in Workers, StepFails(w) PROVE AcksOnlySettled
    BY <1>34 DEF StepFails, OnError, ErrorDropped
  <1>35. ASSUME NEW w \in Workers, Crash(w) PROVE AcksOnlySettled
    BY <1>35 DEF Crash, OnError, ErrorDropped
  <1>36. ASSUME NEW o \in Orders, UserPays(o) PROVE AcksOnlySettled
    BY <1>36 DEF UserPays
  <1>37. ASSUME NEW o \in Orders, RedeemLockExpires(o) PROVE AcksOnlySettled
    BY <1>37 DEF RedeemLockExpires
  <1>38. CASE Tick
    BY <1>38 DEF Tick
  <1> QED
    BY <1>1, <1>2, <1>3, <1>4, <1>5, <1>6, <1>7, <1>8, <1>9, <1>10, <1>11, <1>12, <1>13,
          <1>14, <1>15, <1>16, <1>17, <1>18, <1>19, <1>20, <1>21, <1>22, <1>23, <1>24,
          <1>25, <1>26, <1>27, <1>28, <1>29, <1>30, <1>31, <1>32, <1>33, <1>34, <1>35,
          <1>36, <1>37, <1>38 DEF Next, Start, Step

\* The provider is told to stop only when the order needs no notification any
\* more, unless an error was dropped on the way.
THEOREM AckedSettled == Spec => AckedWhenSettled
  <1>1. IInv /\ IInv' /\ [Next]_vars => [AcksOnlySettled]_vars
    BY StepAcksOnlySettled
  <1> QED
    BY <1>1, Invariance, PTL DEF Spec, AckedWhenSettled

-----------------------------------------------------------------------------
(* The refinement.                                                         *)

\* What the promise speaks of does not change.
Unseen ==
    /\ UNCHANGED granted
    /\ \A o \in Orders : gateway'[o] = "paid" <=> gateway[o] = "paid"
    /\ \A o \in Orders : status'[o] = "COMPLETED" <=> status[o] = "COMPLETED"

LEMMA StepUnseen ==
  ASSUME IInv, IInv', Next,
         \A w \in Workers : ~UseCode(w) /\ ~AssignSubscription(w) /\ ~MarkCompleted(w),
         \A o \in Orders : ~UserPays(o)
  PROVE  Unseen
  <1> USE DEF Unseen, IInv, TypeOK, PaidInv, DoneInv, CreateInv, CompletedMeansGranted,
        GrantedMeansPaid, CreateSteps, UnpaidStatuses, StillPending, Payable, Leasable,
        Rejectable, HoldsLease, PaidAtGateway, GoTo, Return, ReturnWith, Idle, SetStatus,
        Touch, Grant, WriteAudit, UpstreamUnknown, ReleaseRedeemLock, storeVars, orderRow,
        rowVars, codeVars, gateVars, workerVars, Begin, StartUpstreamCheck
  <1>1. ASSUME NEW w \in Workers, InvokeProvider(w) PROVE Unseen
    BY <1>1 DEF InvokeProvider
  <1>2. ASSUME NEW w \in Workers, StorePaymentDetails(w) PROVE Unseen
    BY <1>2 DEF StorePaymentDetails
  <1>3. ASSUME NEW w \in Workers, AbortCreate(w) PROVE Unseen
    BY <1>3, SMTT(30) DEF AbortCreate
  <1>4. ASSUME NEW w \in Workers, QueryUpstream(w) PROVE Unseen
    BY <1>4 DEF QueryUpstream
  <1>5. ASSUME NEW w \in Workers, CloseUpstream(w) PROVE Unseen
    BY <1>5 DEF CloseUpstream
  <1>6. ASSUME NEW w \in Workers, SettleUnpaid(w) PROVE Unseen
    BY <1>6 DEF SettleUnpaid
  <1>7. ASSUME NEW w \in Workers, PersistTradeNo(w) PROVE Unseen
    BY <1>7 DEF PersistTradeNo
  <1>8. ASSUME NEW w \in Workers, ConfirmPayment(w) PROVE Unseen
    BY <1>8 DEF ConfirmPayment
  <1>9. ASSUME NEW w \in Workers, ToPaid(w) PROVE Unseen
    BY <1>9 DEF ToPaid
  <1>10. ASSUME NEW w \in Workers, AlreadyProcessed(w) PROVE Unseen
    BY <1>10 DEF AlreadyProcessed
  <1>11. ASSUME NEW w \in Workers, BeginFulfillment(w) PROVE Unseen
    BY <1>11 DEF BeginFulfillment
  <1>12. ASSUME NEW w \in Workers, RejectUnsupportedOrderType(w) PROVE Unseen
    BY <1>12 DEF RejectUnsupportedOrderType
  <1>13. ASSUME NEW w \in Workers, AcquireLease(w) PROVE Unseen
    BY <1>13 DEF AcquireLease
  <1>14. ASSUME NEW w \in Workers, LeaseNotAcquired(w) PROVE Unseen
    BY <1>14 DEF LeaseNotAcquired
  <1>15. ASSUME NEW w \in Workers, ClaimLease(w) PROVE Unseen
    BY <1>15 DEF ClaimLease
  <1>16. ASSUME NEW w \in Workers, LookupCode(w) PROVE Unseen
    BY <1>16 DEF LookupCode
  <1>17. ASSUME NEW w \in Workers, CreateCode(w) PROVE Unseen
    BY <1>17 DEF CreateCode
  <1>18. ASSUME NEW w \in Workers, AcquireRedeemLock(w) PROVE Unseen
    BY <1>18 DEF AcquireRedeemLock
  <1>19. ASSUME NEW w \in Workers, CheckCode(w) PROVE Unseen
    BY <1>19 DEF CheckCode
  <1>20. ASSUME NEW w \in Workers, CheckAssigned(w) PROVE Unseen
    BY <1>20 DEF CheckAssigned
  <1>21. ASSUME NEW w \in Workers, ApplyAffiliateRebate(w) PROVE Unseen
    BY <1>21 DEF ApplyAffiliateRebate
  <1>22. ASSUME NEW w \in Workers, CompletedByAnother(w) PROVE Unseen
    BY <1>22 DEF CompletedByAnother
  <1>23. ASSUME NEW w \in Workers, MarkFailed(w) PROVE Unseen
    BY <1>23 DEF MarkFailed
  <1>24. ASSUME NEW w \in Workers, NEW o \in Orders, CreateOrder(w, o) PROVE Unseen
    BY <1>24 DEF CreateOrder
  <1>25. ASSUME NEW w \in Workers, NEW o \in Orders, Webhook(w, o) PROVE Unseen
    BY <1>25 DEF Webhook
  <1>26. ASSUME NEW w \in Workers, NEW o \in Orders, CancelOrder(w, o) PROVE Unseen
    BY <1>26 DEF CancelOrder
  <1>27. ASSUME NEW w \in Workers, NEW o \in Orders, ExpireTimedOutOrder(w, o) PROVE Unseen
    BY <1>27 DEF ExpireTimedOutOrder
  <1>28. ASSUME NEW w \in Workers, NEW o \in Orders, VerifyOrder(w, o) PROVE Unseen
    BY <1>28 DEF VerifyOrder
  <1>29. ASSUME NEW w \in Workers, NEW o \in Orders, ReconcilePendingOrder(w, o) PROVE Unseen
    BY <1>29 DEF ReconcilePendingOrder
  <1>30. ASSUME NEW w \in Workers, NEW o \in Orders, RetryFulfillment(w, o) PROVE Unseen
    BY <1>30 DEF RetryFulfillment
  <1>31. ASSUME NEW w \in Workers, StepFails(w) PROVE Unseen
    BY <1>31 DEF StepFails, OnError, ErrorDropped
  <1>32. ASSUME NEW w \in Workers, Crash(w) PROVE Unseen
    BY <1>32 DEF Crash, OnError, ErrorDropped
  <1>33. ASSUME NEW o \in Orders, RedeemLockExpires(o) PROVE Unseen
    BY <1>33 DEF RedeemLockExpires
  <1>34. CASE Tick
    BY <1>34 DEF Tick
  <1> QED
    BY <1>1, <1>2, <1>3, <1>4, <1>5, <1>6, <1>7, <1>8, <1>9, <1>10, <1>11, <1>12, <1>13,
          <1>14, <1>15, <1>16, <1>17, <1>18, <1>19, <1>20, <1>21, <1>22, <1>23, <1>24,
          <1>25, <1>26, <1>27, <1>28, <1>29, <1>30, <1>31, <1>32, <1>33, <1>34 DEF Next,
          Start, Step

LEMMA UnseenStutters ==
  ASSUME Unseen
  PROVE  UNCHANGED <<{o \in Orders : gateway[o] = "paid"}, granted,
                     {o \in Orders : status[o] = "COMPLETED"}>>
  BY DEF Unseen

LEMMA PaySeen ==
  ASSUME IInv, NEW o \in Orders, UserPays(o)
  PROVE  Promise!Pay(o) \/ Unseen
  <1>1. gateway[o] = "open" /\ UNCHANGED <<granted, status>>
    BY DEF UserPays, storeVars, orderRow
  <1>2. gateway' = [gateway EXCEPT ![o] = gateway'[o]] /\ gateway \in [Orders -> {"none",
        "created", "open", "closed", "paid", "mispaid"}]
    BY DEF UserPays, PaidAtGateway, IInv, TypeOK
  <1>3. CASE gateway'[o] = "paid"
    BY <1>1, <1>2, <1>3 DEF Promise!Pay
  <1>4. CASE gateway'[o] # "paid"
    BY <1>1, <1>2, <1>4 DEF Unseen
  <1> QED
    BY <1>3, <1>4

LEMMA GiveSeen ==
  ASSUME IInv, IInv', NEW w \in Workers, UseCode(w) \/ AssignSubscription(w)
  PROVE  Promise!Give(ord[w]) \/ Unseen
  <1>1. ord[w] \in Orders /\ gateway[ord[w]] = "paid" /\ UNCHANGED <<gateway, status>>
    BY DEF IInv, PaidInv, PaidSteps, LeaseSteps, TypeOK, UseCode, AssignSubscription,
          orderRow, gateVars,
           GoTo
  <1>2. \/ UNCHANGED granted
        \/ granted' = [granted EXCEPT ![ord[w]] = granted[ord[w]] + 1]
    BY DEF UseCode, AssignSubscription, Grant
  <1>3. granted \in [Orders -> {0, 1}] /\ granted' \in [Orders -> {0, 1}]
    BY DEF IInv, LedgerInv, TypeOK
  <1>4. CASE UNCHANGED granted
    BY <1>1, <1>4 DEF Unseen
  <1>5. CASE granted' = [granted EXCEPT ![ord[w]] = granted[ord[w]] + 1]
    <2>1. granted'[ord[w]] = granted[ord[w]] + 1
      BY <1>1, <1>3, <1>5
    <2>2. granted[ord[w]] = 0
      BY <1>1, <1>3, <2>1
    <2> QED
      BY <1>1, <1>5, <2>2 DEF Promise!Give
  <1> QED
    BY <1>2, <1>4, <1>5

LEMMA CompleteSeen ==
  ASSUME IInv, NEW w \in Workers, MarkCompleted(w)
  PROVE  Promise!Next \/ Unseen
  <1>1. ord[w] \in Orders /\ granted[ord[w]] = 1 /\ UNCHANGED <<gateway, granted>>
    BY DEF IInv, DoneInv, GrantedSteps, TypeOK, MarkCompleted
  <1>2. ASSUME NEW o \in Orders, o = ord[w], HoldsLease(w, o) PROVE Promise!Complete(o)
    <2>1. status[o] = "RECHARGING" /\ status' = [status EXCEPT ![o] = "COMPLETED"]
      BY <1>2 DEF MarkCompleted, HoldsLease, SetStatus
    <2> QED
      BY <1>1, <1>2, <2>1 DEF Promise!Complete, IInv, TypeOK
  <1>3. CASE HoldsLease(w, ord[w])
    <2>1. \E o \in Orders : Promise!Complete(o)
      BY <1>1, <1>2, <1>3
    <2> QED
      BY <2>1 DEF Promise!Next
  <1>4. CASE ~HoldsLease(w, ord[w])
    BY <1>1, <1>4 DEF MarkCompleted, orderRow, Unseen
  <1> QED
    BY <1>3, <1>4

\* The whole machinery of workers, leases, locks and retries implements the
\* promise: paid, then given once, then completed.
THEOREM Refinement == Spec => KeepsPromise
  <1>1. Init => Promise!Init
    BY DEF Init, Promise!Init
  <1>2. IInv /\ IInv' /\ [Next]_vars => [Promise!Next]_(Promise!promiseVars)
    <2> SUFFICES ASSUME IInv, IInv', [Next]_vars
                 PROVE  Promise!Next \/ UNCHANGED Promise!promiseVars
      OBVIOUS
    <2>1. CASE Unseen
      BY <2>1, UnseenStutters DEF Promise!promiseVars
    <2>2. ASSUME NEW o \in Orders, UserPays(o) PROVE Promise!Next \/ Unseen
      BY <2>2, PaySeen DEF Promise!Next
    <2>3. ASSUME NEW w \in Workers, UseCode(w) \/ AssignSubscription(w) \/ MarkCompleted(w)
          PROVE  Promise!Next \/ Unseen
      <3>1. ord[w] \in Orders
        BY <2>3 DEF IInv, TypeOK, UseCode, AssignSubscription, MarkCompleted
      <3>2. CASE UseCode(w) \/ AssignSubscription(w)
        <4>1. Promise!Give(ord[w]) \/ Unseen
          BY <3>2, GiveSeen
        <4> QED
          BY <3>1, <4>1 DEF Promise!Next
      <3>3. CASE MarkCompleted(w)
        BY <3>3, CompleteSeen
      <3> QED
        BY <2>3, <3>2, <3>3
    <2>4. CASE UNCHANGED vars
      <3>1. Unseen
        BY <2>4 DEF vars, fvars, storeVars, orderRow, gateVars, Unseen
      <3> QED
        BY <3>1, UnseenStutters DEF Promise!promiseVars
    <2> QED
      BY <2>1, <2>2, <2>3, <2>4, StepUnseen
  <1> QED
    BY <1>1, <1>2, Invariance, PTL DEF Spec, KeepsPromise, Promise!Spec
=============================================================================
