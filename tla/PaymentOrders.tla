--------------------------- MODULE PaymentOrders ---------------------------
(***************************************************************************)
(* The rows that every payment worker shares: payment_orders (status and   *)
(* updated_at), payment_audit_logs, and what the orders have granted.      *)
(*                                                                         *)
(* updated_at plays two roles in the code and has two variables here.      *)
(*  - As a time it is compared with now - 5 minutes, so only its age is    *)
(*    kept, in ticks, up to the first value both comparisons call old.     *)
(*  - As the version of a fulfillment lease it is compared for equality    *)
(*    with a value a worker read earlier.  current[o] is the set of        *)
(*    workers whose lease carries the row's present updated_at.            *)
(* The ent schema gives updated_at an UpdateDefault, so EVERY update of a  *)
(* row is a Touch.                                                         *)
(***************************************************************************)
EXTENDS Integers, FiniteSets

CONSTANTS Orders,         \* payment orders that may be created
          Workers,        \* request goroutines, the sweep and admin calls
          OrderTypes,     \* the order types that occur
          LeaseDuration,  \* paymentFulfillmentLeaseDuration, in ticks
          GracePeriod,    \* paymentGraceMinutes, in ticks
          MaxFaults       \* bound: failed calls and crashes in a behaviour

Kinds == {"balance", "subscription", "unsupported"}

ASSUME OrdersAssumption == OrderTypes \subseteq Kinds

ASSUME BoundsAssumption ==
    LeaseDuration \in Nat /\ GracePeriod \in Nat /\ MaxFaults \in Nat

VARIABLES kind,     \* payment_orders.order_type, which no update changes
          status,   \* payment_orders.status; "NEW" until the row exists
          age,      \* ticks since payment_orders.updated_at, capped
          current,  \* workers whose lease version equals updated_at
          audit,    \* payment_audit_logs: UNIQUE(order_id, action), so a set
          granted,  \* times the order's value was given to the user
          faults    \* faults left

orderRow  == <<kind, status, age, current>>
storeVars == <<orderRow, audit, granted>>

RefundStatuses == {"REFUND_REQUESTED", "REFUNDING", "REFUND_PENDING",
                   "PARTIALLY_REFUNDED", "REFUNDED", "REFUND_FAILED"}

Statuses == {"NEW", "PENDING", "PAID", "RECHARGING", "COMPLETED", "EXPIRED",
             "CANCELLED", "FAILED"} \cup RefundStatuses

AuditActions == {"SUBSCRIPTION_ASSIGNED", "PAYMENT_AFTER_EXPIRY",
                 "AFFILIATE_REBATE_APPLIED", "AFFILIATE_REBATE_SKIPPED",
                 "REFUND_PENDING", "REFUND_FAILED", "REFUND_ROLLBACK_FAILED"}

\* Older than this nothing in the code tells two ages apart.
AgeCap == 1 + (IF LeaseDuration > GracePeriod THEN LeaseDuration ELSE GracePeriod)

Older(n) == IF n < AgeCap THEN n + 1 ELSE n

\* Any UPDATE of the row: a new updated_at, which no lease carries.
Touch(o) ==
    /\ age' = [age EXCEPT ![o] = 0]
    /\ current' = [current EXCEPT ![o] = {}]
    /\ UNCHANGED kind

SetStatus(o, s) ==
    /\ status' = [status EXCEPT ![o] = s]
    /\ Touch(o)

\* An INSERT of an audit row; writeAuditLog drops a duplicate's error.
WriteAudit(o, action) == audit' = [audit EXCEPT ![o] = @ \cup {action}]

HasAudit(o, action) == action \in audit[o]

Grant(o) == granted' = [granted EXCEPT ![o] = @ + 1]

SpendFault == faults > 0 /\ faults' = faults - 1
=============================================================================
