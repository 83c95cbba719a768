------------------------- MODULE IdempotencyRecords -------------------------
(***************************************************************************)
(* One row of idempotency_records, the statements of idempotency_repo.go   *)
(* that read and change it, and the clock they compare with.  Both the     *)
(* idempotency coordinator and the system operation lock are built on it.  *)
(*                                                                         *)
(* A row is addressed by the id its caller read or inserted.  A row that   *)
(* is deleted and inserted again has a new id, so known is the set of      *)
(* callers whose id is that of the present row.                            *)
(***************************************************************************)
EXTENDS Naturals, FiniteSets

CONSTANTS Callers,       \* concurrent calls with the same scope and key
          Fingerprints,  \* request fingerprints; operation ids for the lock
          Lease,         \* ProcessingTimeout, in ticks
          TTL,           \* how long a record lives, in ticks
          MaxClock,      \* bound on the clock
          MaxFaults,     \* bound: failed statements and crashes in a behaviour
          NoRow, NoResult

Statuses == {"processing", "succeeded", "failed_retryable"}

\* lock = 0 is locked_until NULL.
Rows == [fp : Fingerprints, status : Statuses, lock : Nat, exp : Nat,
         result : Fingerprints \cup {NoResult}]

ASSUME RecordsAssumption ==
    /\ Lease \in Nat \ {0} /\ TTL \in Nat \ {0}
    /\ MaxClock \in Nat /\ MaxFaults \in Nat
    /\ NoRow \notin Rows /\ NoResult \notin Fingerprints

VARIABLES row,     \* the record of the key, or NoRow
          known,   \* callers whose record id is the row's
          clock,
          faults   \* faults left

recordVars == <<row, known, clock, faults>>

RecordsOK ==
    /\ row \in Rows \cup {NoRow}
    /\ known \subseteq Callers /\ (row = NoRow => known = {})
    /\ clock \in 0..MaxClock /\ faults \in 0..MaxFaults

RecordsInit == row = NoRow /\ known = {} /\ clock = 0 /\ faults = MaxFaults

SpendFault == faults > 0 /\ faults' = faults - 1

\* INSERT ... ON CONFLICT DO NOTHING, when there is no conflict.
CreateProcessing(c, fp, lockedUntil, expiresAt) ==
    /\ row' = [fp |-> fp, status |-> "processing", lock |-> lockedUntil,
               exp |-> expiresAt, result |-> NoResult]
    /\ known' = {c}

GetByScopeAndKeyHash(c) ==
    known' = (IF row = NoRow THEN {} ELSE known \cup {c}) /\ UNCHANGED row

\* Mutant: the lock window of the row is not looked at.
ReclaimableAnyTime(c, from, now) == c \in known /\ row.status = from

\* The WHERE of TryReclaim; expires_at is not part of it.
Reclaimable(c, from, now) == c \in known /\ row.status = from /\ row.lock <= now

\* The SET of TryReclaim; request_fingerprint is not part of it.
Reclaim(lockedUntil, expiresAt) ==
    /\ row' = [row EXCEPT !.status = "processing", !.lock = lockedUntil,
                          !.exp = expiresAt]
    /\ UNCHANGED known

Extendable(c, fp) == c \in known /\ row.status = "processing" /\ row.fp = fp

\* Mutant: a renewal does not put the expiry off.
ExtendLockOnly(lockedUntil, expiresAt) ==
    row' = [row EXCEPT !.lock = lockedUntil] /\ UNCHANGED known

ExtendProcessingLock(lockedUntil, expiresAt) ==
    /\ row' = [row EXCEPT !.lock = lockedUntil, !.exp = expiresAt]
    /\ UNCHANGED known

\* UPDATE ... WHERE id = c's record: no other condition.
MarkSucceeded(c, result, expiresAt) ==
    row' = IF c \in known
             THEN [row EXCEPT !.status = "succeeded", !.lock = 0, !.exp = expiresAt,
                              !.result = result]
             ELSE row

MarkFailedRetryable(c, lockedUntil, expiresAt) ==
    row' = IF c \in known
             THEN [row EXCEPT !.status = "failed_retryable", !.lock = lockedUntil,
                              !.exp = expiresAt]
             ELSE row

\* The cleanup service: expired rows go, whatever their status.
DeleteExpired ==
    /\ row # NoRow /\ row.exp <= clock
    /\ row' = NoRow /\ known' = {}
=============================================================================
