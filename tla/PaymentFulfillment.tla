------------------------- MODULE PaymentFulfillment -------------------------
(***************************************************************************)
(* From CreateOrder to COMPLETED: creation, payment at the gateway, the    *)
(* webhook, cancellation, expiry, reconciliation, and fulfillment under a  *)
(* lease, run by workers that interleave, fail and crash.                  *)
(*                                                                         *)
(* One action is one atomic effect: a database statement or transaction, a *)
(* Redis call, or a call to the gateway.  Between two of them another      *)
(* worker may run, time may pass, and the worker may crash.  pc[w] names   *)
(* the next effect of w, job[w] the entry point it serves, ord[w] its      *)
(* order.  gateway and acked belong to the payment provider.               *)
(***************************************************************************)
EXTENDS PaymentOrders

CONSTANTS OrderTimeout,  \* cfg.OrderTimeoutMin, in ticks
          Jobs,          \* the entry points this instance uses
          DroppedErrors, \* may the statements fail whose error the code drops?
          StallsAreFaults,\* must a job that outlasts a whole tick spend a fault?
          NoOrder        \* the order of an idle worker

AllJobs == {"create", "webhook", "cancel", "expire", "verify", "retry"}

ASSUME FulfillmentAssumption ==
    /\ OrderTimeout \in Nat
    /\ Jobs \subseteq AllJobs
    /\ DroppedErrors \in BOOLEAN /\ StallsAreFaults \in BOOLEAN
    /\ NoOrder \notin Orders

VARIABLES pc, job, ord,
          late,     \* workers whose job was running at the last tick (if counted)
          seen,     \* the trade no. w read with the order was the upstream's
          ttl,      \* ticks until expires_at
          paidAt,   \* paid_at is set
          tradeNo,  \* the stored trade no. is the upstream's
          code,     \* the order's redeem code
          locked,   \* redeem locks held in Redis
          rebates,  \* affiliate rebates accrued for the order
          gateway,  \* the provider's side of the payment
          acked     \* whether a notification got a 2xx, and for which reason

workerVars == <<pc, job, ord, seen, late>>
rowVars    == <<ttl, paidAt, tradeNo>>
codeVars   == <<code, locked>>
gateVars   == <<gateway, acked>>
fvars      == <<workerVars, rowVars, codeVars, rebates, gateVars>>
vars       == <<storeVars, faults, fvars>>

CallSteps == {"createPayment", "details", "abort", "query", "persist",
              "close", "settle", "confirm", "toPaid", "reread", "fulfil",
              "acquire", "lost", "claim"}
\* The steps under a lease; an error in any of them leads to markFailed.
LeaseSteps == {"lookup", "createCode", "lock", "check", "use", "assignCheck",
               "assign", "rebate", "complete", "recheck"}
PCs == {"idle", "fail"} \cup CallSteps \cup LeaseSteps

PaidAtGateway == {"paid", "mispaid"}

\* "dropped": the 2xx was given because an error was dropped on the way.
Answers == {"no", "ok", "dropped"}

TypeOK ==
    /\ kind \in [Orders -> OrderTypes] /\ status \in [Orders -> Statuses]
    /\ age \in [Orders -> 0..AgeCap]
    /\ current \in [Orders -> SUBSET Workers]
    /\ audit \in [Orders -> SUBSET AuditActions]
    /\ granted \in [Orders -> Nat] /\ rebates \in [Orders -> Nat]
    /\ pc \in [Workers -> PCs]
    /\ job \in [Workers -> Jobs \cup {"none"}]
    /\ ord \in [Workers -> Orders \cup {NoOrder}]
    /\ \A w \in Workers : pc[w] = "idle" \/ ord[w] \in Orders
    /\ seen \in [Workers -> BOOLEAN] /\ late \in SUBSET Workers
    /\ ttl \in [Orders -> 0..OrderTimeout]
    /\ paidAt \in [Orders -> BOOLEAN] /\ tradeNo \in [Orders -> BOOLEAN]
    /\ code \in [Orders -> {"none", "unused", "used"}]
    /\ locked \in [Orders -> BOOLEAN]
    /\ gateway \in [Orders -> {"none", "created", "open", "closed"} \cup PaidAtGateway]
    /\ acked \in [Orders -> Answers]
    /\ faults \in 0..MaxFaults

Init ==
    /\ kind \in [Orders -> OrderTypes]
    /\ status = [o \in Orders |-> "NEW"]
    /\ age = [o \in Orders |-> 0]
    /\ current = [o \in Orders |-> {}]
    /\ audit = [o \in Orders |-> {}]
    /\ granted = [o \in Orders |-> 0] /\ rebates = [o \in Orders |-> 0]
    /\ pc = [w \in Workers |-> "idle"]
    /\ job = [w \in Workers |-> "none"]
    /\ ord = [w \in Workers |-> NoOrder]
    /\ seen = [w \in Workers |-> FALSE] /\ late = {}
    /\ ttl = [o \in Orders |-> OrderTimeout]
    /\ paidAt = [o \in Orders |-> FALSE] /\ tradeNo = [o \in Orders |-> FALSE]
    /\ code = [o \in Orders |-> "none"] /\ locked = [o \in Orders |-> FALSE]
    /\ gateway = [o \in Orders |-> "none"] /\ acked = [o \in Orders |-> "no"]
    /\ faults = MaxFaults

-----------------------------------------------------------------------------
(* Control flow of a worker.                                               *)

\* Mutant: a job starts without loading its order.
BeginUnloaded(w, o, j, step) ==
    /\ pc[w] = "idle" /\ j \in Jobs
    /\ pc' = [pc EXCEPT ![w] = step]
    /\ job' = [job EXCEPT ![w] = j]
    /\ UNCHANGED <<ord, seen, late>>

Begin(w, o, j, step) ==
    /\ pc[w] = "idle" /\ j \in Jobs
    /\ pc' = [pc EXCEPT ![w] = step]
    /\ job' = [job EXCEPT ![w] = j]
    /\ ord' = [ord EXCEPT ![w] = o]
    /\ seen' = [seen EXCEPT ![w] = tradeNo[o]]
    /\ UNCHANGED late

GoTo(w, step) ==
    /\ pc' = [pc EXCEPT ![w] = step]
    /\ UNCHANGED <<job, ord, seen, late, acked>>

Idle(w) ==
    /\ pc' = [pc EXCEPT ![w] = "idle"]
    /\ job' = [job EXCEPT ![w] = "none"]
    /\ ord' = [ord EXCEPT ![w] = NoOrder]
    /\ seen' = [seen EXCEPT ![w] = FALSE]
    /\ late' = late \ {w}

\* The entry point returns; the webhook handler answers 2xx only on nil.
\* The first 2xx is the one that counts.
ReturnWith(w, answer) ==
    /\ Idle(w)
    /\ acked' = IF job[w] = "webhook" /\ acked[ord[w]] = "no"
                  THEN [acked EXCEPT ![ord[w]] = answer] ELSE acked

Return(w, ok) == ReturnWith(w, IF ok THEN "ok" ELSE "no")

-----------------------------------------------------------------------------
(* Creating the order.                                                     *)

\* createOrderInTx commits a PENDING row.
CreateOrder(w, o) ==
    /\ status[o] = "NEW"
    /\ Begin(w, o, "create", "createPayment")
    /\ SetStatus(o, "PENDING")
    /\ ttl' = [ttl EXCEPT ![o] = OrderTimeout]
    /\ UNCHANGED <<audit, granted, paidAt, tradeNo, codeVars, rebates, gateVars, faults>>

\* CreatePayment opens the payment; nobody but us knows its URL yet.
InvokeProvider(w) ==
    /\ pc[w] = "createPayment"
    /\ gateway' = [gateway EXCEPT ![ord[w]] = "created"]
    /\ GoTo(w, "details")
    /\ UNCHANGED <<storeVars, rowVars, codeVars, rebates, faults>>

\* The details are stored whatever the status is by now; then the URL is shown.
\* The trade no. the provider returns may or may not be its final one.
StorePaymentDetails(w) ==
    LET o == ord[w] IN
    /\ pc[w] = "details"
    /\ Touch(o)
    /\ \E t \in BOOLEAN : tradeNo' = [tradeNo EXCEPT ![o] = t]
    /\ gateway' = [gateway EXCEPT ![o] = IF @ = "created" THEN "open" ELSE @]
    /\ Return(w, TRUE)
    /\ UNCHANGED <<status, audit, granted, ttl, paidAt, codeVars, rebates, faults>>

\* invokeProvider failed: FAILED, without looking at the status.
AbortCreate(w) ==
    /\ pc[w] = "abort"
    /\ SetStatus(ord[w], "FAILED")
    /\ Return(w, FALSE)
    /\ UNCHANGED <<audit, granted, rowVars, codeVars, rebates, gateway, faults>>

-----------------------------------------------------------------------------
(* The user and the provider.                                              *)

\* The user pays what was asked, or an amount confirmPayment will refuse.
UserPays(o) ==
    /\ gateway[o] = "open"
    /\ \E g \in PaidAtGateway : gateway' = [gateway EXCEPT ![o] = g]
    /\ UNCHANGED <<storeVars, workerVars, rowVars, codeVars, rebates, acked, faults>>

\* A success notification, delivered any number of times, in any order.
Webhook(w, o) ==
    /\ gateway[o] \in PaidAtGateway
    /\ Begin(w, o, "webhook", "confirm")
    /\ UNCHANGED <<storeVars, rowVars, codeVars, rebates, gateVars, faults>>

-----------------------------------------------------------------------------
(* Cancelling, expiring, verifying: ask upstream first.                    *)

StartUpstreamCheck(w, o, j) ==
    /\ Begin(w, o, j, "query")
    /\ UNCHANGED <<storeVars, rowVars, codeVars, rebates, gateVars, faults>>

CancelOrder(w, o) ==
    status[o] = "PENDING" /\ StartUpstreamCheck(w, o, "cancel")

ExpireTimedOutOrder(w, o) ==
    status[o] = "PENDING" /\ ttl[o] = 0 /\ StartUpstreamCheck(w, o, "expire")

VerifyOrder(w, o) ==
    status[o] \in {"PENDING", "EXPIRED"} /\ StartUpstreamCheck(w, o, "verify")

ReconcilePendingOrder(w, o) ==
    status[o] = "PENDING" /\ ttl[o] > 0 /\ StartUpstreamCheck(w, o, "verify")

CancelsIfUnpaid(w) == job[w] \in {"cancel", "expire"}

\* checkPaidWithOptions returned "": cancelCore goes on, reconcilePaid stops.
UpstreamUnknown(w) ==
    IF CancelsIfUnpaid(w) THEN GoTo(w, "settle") ELSE Return(w, TRUE)

QueryUpstream(w) ==
    LET o == ord[w] IN
    /\ pc[w] = "query"
    /\ \/ /\ gateway[o] \in PaidAtGateway
          /\ GoTo(w, IF seen[w] THEN "confirm" ELSE "persist")
       \* an invalid amount, invalid again on the second query
       \/ gateway[o] = "mispaid" /\ UpstreamUnknown(w)
       \/ /\ gateway[o] \notin PaidAtGateway
          /\ IF CancelsIfUnpaid(w) THEN GoTo(w, "close") ELSE Return(w, TRUE)
    /\ UNCHANGED <<storeVars, rowVars, codeVars, rebates, gateway, faults>>

\* CancelPayment, where the provider has it; its error is ignored.
CloseUpstream(w) ==
    LET o == ord[w] IN
    /\ pc[w] = "close"
    /\ \/ gateway' = [gateway EXCEPT ![o] = IF @ \in {"created", "open"} THEN "closed" ELSE @]
       \/ UNCHANGED gateway
    /\ GoTo(w, "settle")
    /\ UNCHANGED <<storeVars, rowVars, codeVars, rebates, faults>>

\* Mutant: the settling update has no condition on the status.
AnyStatus(o) == TRUE

\* WHERE status = PENDING
StillPending(o) == status[o] = "PENDING"

SettleUnpaid(w) ==
    LET o == ord[w] IN
    /\ pc[w] = "settle"
    /\ IF StillPending(o)
         THEN SetStatus(o, IF job[w] = "expire" THEN "EXPIRED" ELSE "CANCELLED")
         ELSE UNCHANGED orderRow
    /\ Return(w, TRUE)
    /\ UNCHANGED <<audit, granted, rowVars, codeVars, rebates, gateway, faults>>

\* UPDATE ... WHERE id = o, whatever the status is by now.
PersistTradeNo(w) ==
    /\ pc[w] = "persist"
    /\ Touch(ord[w])
    /\ tradeNo' = [tradeNo EXCEPT ![ord[w]] = TRUE]
    /\ GoTo(w, "confirm")
    /\ UNCHANGED <<status, audit, granted, ttl, paidAt, codeVars, rebates, gateway, faults>>

-----------------------------------------------------------------------------
(* HandlePaymentNotification.                                              *)

\* Mutant: any amount is accepted.
AnyAmount(o) == gateway[o] \in PaidAtGateway

\* The amount, currency, provider and merchant are the order's.
AmountMatches(o) == gateway[o] = "paid"

ConfirmPayment(w) ==
    /\ pc[w] = "confirm"
    /\ IF AmountMatches(ord[w]) THEN GoTo(w, "toPaid") ELSE Return(w, FALSE)
    /\ UNCHANGED <<storeVars, rowVars, codeVars, rebates, gateway, faults>>

\* Mutant: the update to PAID has no condition on the status.
AlwaysPayable(o) == TRUE

Payable(o) ==
    \/ status[o] \in {"PENDING", "CANCELLED"}
    \/ status[o] = "EXPIRED" /\ age[o] <= GracePeriod

ToPaid(w) ==
    LET o == ord[w] IN
    /\ pc[w] = "toPaid"
    /\ IF Payable(o)
         THEN /\ SetStatus(o, "PAID")
              /\ paidAt' = [paidAt EXCEPT ![o] = TRUE]
              /\ tradeNo' = [tradeNo EXCEPT ![o] = TRUE]
              /\ GoTo(w, "fulfil")
         ELSE /\ GoTo(w, "reread")
              /\ UNCHANGED <<orderRow, paidAt, tradeNo>>
    /\ UNCHANGED <<audit, granted, ttl, codeVars, rebates, gateway, faults>>

\* The CAS of toPaid matched no row.
AlreadyProcessed(w) ==
    LET o == ord[w] IN
    /\ pc[w] = "reread"
    /\ IF status[o] \in {"FAILED", "PAID", "RECHARGING"}
         THEN GoTo(w, "fulfil") ELSE Return(w, TRUE)
    /\ \/ /\ IF status[o] = "EXPIRED" THEN WriteAudit(o, "PAYMENT_AFTER_EXPIRY")
                                      ELSE UNCHANGED audit
          /\ UNCHANGED faults
       \/ status[o] = "EXPIRED" /\ SpendFault /\ UNCHANGED audit
    /\ UNCHANGED <<orderRow, granted, rowVars, codeVars, rebates, gateway>>

-----------------------------------------------------------------------------
(* executeFulfillment: the lease.                                          *)

RetryFulfillment(w, o) ==
    /\ paidAt[o] /\ status[o] \in {"FAILED", "PAID", "RECHARGING"}
    /\ kind[o] # "unsupported"
    /\ Begin(w, o, "retry", "fulfil")
    /\ UNCHANGED <<storeVars, rowVars, codeVars, rebates, gateVars, faults>>

BeginFulfillment(w) ==
    LET o == ord[w] IN
    /\ pc[w] = "fulfil" /\ kind[o] # "unsupported"
    /\ IF status[o] \in {"PAID", "FAILED", "RECHARGING"}
         THEN GoTo(w, "acquire")
         ELSE Return(w, status[o] = "COMPLETED")
    /\ UNCHANGED <<storeVars, rowVars, codeVars, rebates, gateway, faults>>

Rejectable(o) == status[o] \in {"PAID", "RECHARGING"}

RejectUnsupportedOrderType(w) ==
    LET o == ord[w] IN
    /\ pc[w] = "fulfil" /\ kind[o] = "unsupported"
    /\ IF Rejectable(o)
         THEN SetStatus(o, "FAILED") ELSE UNCHANGED orderRow
    /\ Return(w, TRUE)
    /\ UNCHANGED <<audit, granted, rowVars, codeVars, rebates, gateway, faults>>

\* Mutant: nobody takes over the lease of a worker that crashed.
LeasableUnlessTaken(o) == status[o] \in {"PAID", "FAILED"}

Leasable(o) ==
    \/ status[o] \in {"PAID", "FAILED"}
    \/ status[o] = "RECHARGING" /\ age[o] >= LeaseDuration

AcquireLease(w) ==
    LET o == ord[w] IN
    /\ pc[w] = "acquire"
    /\ IF Leasable(o)
         THEN SetStatus(o, "RECHARGING") /\ GoTo(w, "claim")
         ELSE UNCHANGED orderRow /\ GoTo(w, "lost")
    /\ UNCHANGED <<audit, granted, rowVars, codeVars, rebates, gateway, faults>>

\* Mutant: an order another worker is fulfilling counts as done.
InGoodHands(o) == status[o] \in {"RECHARGING", "COMPLETED"}

DoneByAnother(o) == status[o] = "COMPLETED"

LeaseNotAcquired(w) ==
    /\ pc[w] = "lost"
    /\ Return(w, DoneByAnother(ord[w]))
    /\ UNCHANGED <<storeVars, rowVars, codeVars, rebates, gateway, faults>>

\* The lease version is the updated_at of a SECOND read of the row.
ClaimLease(w) ==
    LET o == ord[w] IN
    /\ pc[w] = "claim"
    /\ IF status[o] = "RECHARGING"
         THEN /\ current' = [current EXCEPT ![o] = @ \cup {w}]
              /\ GoTo(w, IF kind[o] = "balance" THEN "lookup" ELSE "assignCheck")
         ELSE Return(w, FALSE) /\ UNCHANGED current
    /\ UNCHANGED <<kind, status, age, audit, granted, rowVars, codeVars, rebates, gateway, faults>>

-----------------------------------------------------------------------------
(* doBalance: create the redeem code, then redeem it.                      *)

\* Mutant: a code that exists is taken for a code that was redeemed.
ExistingIsRedeemed(c) == IF c = "none" THEN "createCode" ELSE "rebate"

RedeemAction(c) ==
    CASE c = "used" -> "rebate" [] c = "unused" -> "lock" [] OTHER -> "createCode"

LookupCode(w) ==
    /\ pc[w] = "lookup"
    /\ GoTo(w, RedeemAction(code[ord[w]]))
    /\ UNCHANGED <<storeVars, rowVars, codeVars, rebates, gateway, faults>>

\* The code column is unique.
CreateCode(w) ==
    LET o == ord[w] IN
    /\ pc[w] = "createCode"
    /\ IF code[o] = "none"
         THEN code' = [code EXCEPT ![o] = "unused"] /\ GoTo(w, "lock")
         ELSE UNCHANGED code /\ GoTo(w, "fail")
    /\ UNCHANGED <<storeVars, rowVars, locked, rebates, gateway, faults>>

\* A Redis error lets the caller proceed without the lock.
AcquireRedeemLock(w) ==
    LET o == ord[w] IN
    /\ pc[w] = "lock"
    /\ \/ /\ IF locked[o] THEN GoTo(w, "fail") ELSE GoTo(w, "check")
          /\ locked' = [locked EXCEPT ![o] = TRUE]
          /\ UNCHANGED faults
       \/ SpendFault /\ GoTo(w, "check") /\ UNCHANGED locked
    /\ UNCHANGED <<storeVars, rowVars, code, rebates, gateway>>

\* The deferred release deletes the key, whoever holds it by now.
ReleaseRedeemLock(o) == locked' = [locked EXCEPT ![o] = FALSE]

CheckCode(w) ==
    LET o == ord[w] IN
    /\ pc[w] = "check"
    /\ IF code[o] = "unused"
         THEN GoTo(w, "use") /\ UNCHANGED locked
         ELSE GoTo(w, "fail") /\ ReleaseRedeemLock(o)
    /\ UNCHANGED <<storeVars, rowVars, code, rebates, gateway, faults>>

\* Mutant: the update that uses a code has no condition on its status.
AnyCode(o) == TRUE

\* WHERE status = 'unused'
UsableCode(o) == code[o] = "unused"

\* One transaction: use the code, then add to the balance.
UseCode(w) ==
    LET o == ord[w] IN
    /\ pc[w] = "use"
    /\ IF UsableCode(o)
         THEN code' = [code EXCEPT ![o] = "used"] /\ Grant(o) /\ GoTo(w, "rebate")
         ELSE UNCHANGED <<code, granted>> /\ GoTo(w, "fail")
    /\ ReleaseRedeemLock(o)
    /\ UNCHANGED <<orderRow, audit, rowVars, rebates, gateway, faults>>

-----------------------------------------------------------------------------
(* doSub: assign the subscription once, by way of the audit table.         *)

Assigned(o) == HasAudit(o, "SUBSCRIPTION_ASSIGNED")

CheckAssigned(w) ==
    /\ pc[w] = "assignCheck"
    /\ GoTo(w, IF Assigned(ord[w]) THEN "rebate" ELSE "assign")
    /\ UNCHANGED <<storeVars, rowVars, codeVars, rebates, gateway, faults>>

\* The transaction that assigns and inserts the audit row: a second row
\* violates the unique index and rolls the assignment back.
AssignSubscription(w) ==
    LET o == ord[w] IN
    /\ pc[w] = "assign"
    /\ IF Assigned(o)
         THEN UNCHANGED <<audit, granted>>
         ELSE WriteAudit(o, "SUBSCRIPTION_ASSIGNED") /\ Grant(o)
    /\ GoTo(w, "rebate")
    /\ UNCHANGED <<orderRow, rowVars, codeVars, rebates, gateway, faults>>

-----------------------------------------------------------------------------
(* The rebate, and the end of fulfillment.                                 *)

\* Mutant: the claim ignores a rebate already applied.
RebateSkipped(o) == HasAudit(o, "AFFILIATE_REBATE_SKIPPED")

RebateClaimed(o) ==
    HasAudit(o, "AFFILIATE_REBATE_APPLIED") \/ HasAudit(o, "AFFILIATE_REBATE_SKIPPED")

\* One transaction: claim the audit row, accrue; without an inviter, SKIPPED.
ApplyAffiliateRebate(w) ==
    LET o == ord[w] IN
    /\ pc[w] = "rebate"
    /\ \/ RebateClaimed(o) /\ UNCHANGED <<audit, rebates>>
       \/ /\ ~RebateClaimed(o)
          /\ WriteAudit(o, "AFFILIATE_REBATE_APPLIED")
          /\ rebates' = [rebates EXCEPT ![o] = @ + 1]
       \/ /\ ~RebateClaimed(o)
          /\ WriteAudit(o, "AFFILIATE_REBATE_SKIPPED")
          /\ UNCHANGED rebates
    /\ GoTo(w, "complete")
    /\ UNCHANGED <<orderRow, granted, rowVars, codeVars, gateway, faults>>

\* WHERE status = RECHARGING AND updated_at = lease.version
HoldsLease(w, o) == status[o] = "RECHARGING" /\ w \in current[o]

MarkCompleted(w) ==
    LET o == ord[w] IN
    /\ pc[w] = "complete"
    /\ IF HoldsLease(w, o)
         THEN SetStatus(o, "COMPLETED") /\ Return(w, TRUE)
         ELSE UNCHANGED orderRow /\ GoTo(w, "recheck")
    /\ UNCHANGED <<audit, granted, rowVars, codeVars, rebates, gateway, faults>>

CompletedByAnother(w) ==
    /\ pc[w] = "recheck"
    /\ IF DoneByAnother(ord[w]) THEN Return(w, TRUE) ELSE GoTo(w, "fail")
    /\ UNCHANGED <<storeVars, rowVars, codeVars, rebates, gateway, faults>>

MarkFailed(w) ==
    LET o == ord[w] IN
    /\ pc[w] = "fail"
    /\ IF HoldsLease(w, o) THEN SetStatus(o, "FAILED") ELSE UNCHANGED orderRow
    /\ Return(w, FALSE)
    /\ UNCHANGED <<audit, granted, rowVars, codeVars, rebates, gateway, faults>>

-----------------------------------------------------------------------------
(* Failures and time.  A call that fails before its effect takes the       *)
(* code's error path; one that fails after it is the effect followed by    *)
(* the failure of the next call.                                           *)

\* confirmPayment and alreadyProcessed return nil when their read fails, and
\* executeFulfillment when rejectUnsupportedOrderType's update does; before that
\* handleNotify answers 2xx, except to Wxpay, when it cannot load the provider.
ErrorDropped(w) ==
    \/ pc[w] \in {"confirm", "reread"}
    \/ pc[w] = "fulfil" /\ kind[ord[w]] = "unsupported"

OnError(w) ==
    CASE pc[w] \in LeaseSteps -> GoTo(w, "fail")
      [] pc[w] \in {"createPayment", "details"} -> GoTo(w, "abort")
      [] pc[w] = "query" -> UpstreamUnknown(w)
      [] pc[w] = "close" -> GoTo(w, "settle")
      [] pc[w] = "persist" -> GoTo(w, "confirm")
      [] OTHER -> \/ Return(w, FALSE) /\ pc[w] # "reread"
                  \/ DroppedErrors /\ ErrorDropped(w) /\ ReturnWith(w, "dropped")

StepFails(w) ==
    /\ pc[w] # "idle" /\ SpendFault
    /\ OnError(w)
    /\ IF pc[w] \in {"check", "use"} THEN ReleaseRedeemLock(ord[w]) ELSE UNCHANGED locked
    /\ UNCHANGED <<storeVars, rowVars, code, rebates, gateway>>

\* The process dies: no error path, no deferred release, no answer.
Crash(w) ==
    /\ pc[w] # "idle" /\ SpendFault
    /\ Idle(w)
    /\ UNCHANGED <<storeVars, rowVars, codeVars, rebates, gateVars>>

\* The TTL of redeemLockDuration ends, perhaps before its holder does.
RedeemLockExpires(o) ==
    /\ locked[o]
    /\ ReleaseRedeemLock(o)
    /\ UNCHANGED <<storeVars, workerVars, rowVars, code, rebates, gateVars, faults>>

Tick ==
    /\ age' = [o \in Orders |-> Older(age[o])]
    /\ ttl' = [o \in Orders |-> IF ttl[o] > 0 THEN ttl[o] - 1 ELSE 0]
    /\ late' = IF StallsAreFaults THEN {w \in Workers : pc[w] # "idle"} ELSE {}
    /\ IF late = {} THEN UNCHANGED faults ELSE SpendFault
    /\ UNCHANGED <<kind, status, current, audit, granted, pc, job, ord, seen, paidAt,
                   tradeNo, codeVars, rebates, gateVars>>

-----------------------------------------------------------------------------
Start(w, o) ==
    \/ CreateOrder(w, o) \/ Webhook(w, o) \/ CancelOrder(w, o)
    \/ ExpireTimedOutOrder(w, o) \/ VerifyOrder(w, o)
    \/ ReconcilePendingOrder(w, o) \/ RetryFulfillment(w, o)

\* The next effect of a worker that is serving a job.
Step(w) ==
    \/ InvokeProvider(w) \/ StorePaymentDetails(w) \/ AbortCreate(w)
    \/ QueryUpstream(w) \/ CloseUpstream(w) \/ SettleUnpaid(w) \/ PersistTradeNo(w)
    \/ ConfirmPayment(w) \/ ToPaid(w) \/ AlreadyProcessed(w)
    \/ BeginFulfillment(w) \/ RejectUnsupportedOrderType(w)
    \/ AcquireLease(w) \/ LeaseNotAcquired(w) \/ ClaimLease(w)
    \/ LookupCode(w) \/ CreateCode(w) \/ AcquireRedeemLock(w) \/ CheckCode(w) \/ UseCode(w)
    \/ CheckAssigned(w) \/ AssignSubscription(w) \/ ApplyAffiliateRebate(w)
    \/ MarkCompleted(w) \/ CompletedByAnother(w) \/ MarkFailed(w)

Next ==
    \/ \E w \in Workers, o \in Orders : Start(w, o)
    \/ \E w \in Workers : Step(w) \/ StepFails(w) \/ Crash(w)
    \/ \E o \in Orders : UserPays(o) \/ RedeemLockExpires(o)
    \/ Tick

Spec == Init /\ [][Next]_vars

\* The provider repeats a notification until it is acknowledged.
Redeliver(o) == acked[o] = "no" /\ \E w \in Workers : Webhook(w, o)

Fairness ==
    /\ \A w \in Workers : WF_vars(Step(w))
    /\ \A o \in Orders : SF_vars(Redeliver(o)) /\ WF_vars(RedeemLockExpires(o))
    /\ WF_vars(Tick)

FairSpec == Spec /\ Fairness

-----------------------------------------------------------------------------
(* Properties.                                                             *)

\* However often an order is notified, retried, resumed after a crash or run
\* by two workers at once, its value reaches the user at most once.
GrantedAtMostOnce == \A o \in Orders : granted[o] <= 1

\* applyAffiliateRebateForOrder pays the inviter at most once per order.
RebatedAtMostOnce == \A o \in Orders : rebates[o] <= 1

\* An order that reports COMPLETED has given the user what was bought.
CompletedMeansGranted ==
    \A o \in Orders : status[o] = "COMPLETED" => granted[o] = 1

\* Nothing is given, nor called paid, that was not paid in full at the gateway.
GrantedMeansPaid ==
    \A o \in Orders :
        granted[o] > 0 \/ rebates[o] > 0 \/ paidAt[o]
            \/ status[o] \in {"PAID", "RECHARGING", "COMPLETED"} => gateway[o] = "paid"

\* The order has reached an end that needs no further notification.
Settled(o) ==
    \/ status[o] \in {"COMPLETED", "EXPIRED"} \cup RefundStatuses
    \/ kind[o] = "unsupported" /\ status[o] = "FAILED"

AcksOnlySettled ==
    \A o \in Orders : acked[o] = "no" /\ acked'[o] = "ok" => Settled(o)'

\* A 2xx stops the provider's retries, so it is first given when the order
\* needs none: completed, refused as late, or of a type nobody fulfils.  Only
\* a dropped error is answered with 2xx before that.
AckedWhenSettled == [][AcksOnlySettled]_vars

UnpaidStatuses == {"NEW", "PENDING", "EXPIRED", "CANCELLED"}

KeepsPaid ==
    \A o \in Orders :
        /\ paidAt[o] => paidAt'[o] /\ status'[o] \notin UnpaidStatuses
        /\ status[o] = "COMPLETED" => status'[o] = "COMPLETED"

\* Once paid_at is set, no cancellation, expiry or failed creation that raced
\* the payment takes the order back among the unpaid ones, and fulfillment
\* never reopens a completed order.
PaidNeverUndone == [][KeepsPaid]_vars

Promise == INSTANCE PaymentPromise WITH
    paid  <- {o \in Orders : gateway[o] = "paid"},
    given <- granted,
    done  <- {o \in Orders : status[o] = "COMPLETED"}

\* Under every interleaving, crash and retry, each step is one of paying,
\* giving the value once, completing, or nothing the user can see.
KeepsPromise == Promise!Spec

\* Redelivery, lease expiry and idempotent steps together: a payment made in
\* full is in the end acknowledged with the order granted, or refused as late.
PaidEventuallySettled ==
    \A o \in Orders : gateway[o] = "paid" ~> acked[o] = "ok" /\ Settled(o)
=============================================================================
