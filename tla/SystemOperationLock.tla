------------------------- MODULE SystemOperationLock -------------------------
(***************************************************************************)
(* SystemOperationLockService: updates, rollbacks and restarts of the      *)
(* system exclude each other by one idempotency record, which stays when   *)
(* the lock is released and is reclaimed by the next operation.  A         *)
(* goroutine renews the record while the operation runs.                   *)
(*                                                                         *)
(* Callers are the concurrent admin requests, Fingerprints the operation   *)
(* ids.  stage[c] names the next statement of request c.  No name is one   *)
(* of Idempotency's: IdempotencyProofs extends both.                       *)
(***************************************************************************)
EXTENDS IdempotencyRecords

\* 30 seconds and one hour in the configuration's defaults.
ASSUME LockAssumption == Lease <= TTL

VARIABLES stage,
          operationID,
          asked,     \* time.Now() when Acquire was called
          seen,      \* the status the row had when c read it
          renewals,  \* requests whose renewLoop has a statement to make
          renewed,   \* those of them that have renewed in this tick
          leaseEnd,  \* what c last wrote into locked_until
          lapsed,    \* an operation went on after its lease had ended
          met        \* requests in whose Acquire an operation was running

lockVars      == <<stage, operationID, asked, seen, leaseEnd, renewals, renewed>>
operationVars == <<recordVars, lockVars, lapsed, met>>

Running   == {c \in Callers : stage[c] = "run"}
Acquiring == {c \in Callers : stage[c] \in {"create", "get", "reclaim"}}

LockTypeOK ==
    /\ RecordsOK
    /\ stage \in [Callers -> {"idle", "create", "get", "reclaim", "run"}]
    /\ operationID \in [Callers -> Fingerprints \cup {NoResult}]
    /\ \A c \in Running : operationID[c] \in Fingerprints
    /\ asked \in [Callers -> 0..MaxClock] /\ seen \in [Callers -> Statuses]
    /\ leaseEnd \in [Callers -> Nat]
    /\ renewals \subseteq Callers \ Acquiring /\ renewed \subseteq Callers
    /\ lapsed \in BOOLEAN /\ met \subseteq Acquiring

LockInit ==
    /\ RecordsInit
    /\ stage = [c \in Callers |-> "idle"]
    /\ operationID = [c \in Callers |-> NoResult]
    /\ asked = [c \in Callers |-> 0] /\ leaseEnd = [c \in Callers |-> 0]
    /\ seen = [c \in Callers |-> "processing"]
    /\ renewals = {} /\ renewed = {} /\ lapsed = FALSE /\ met = {}

-----------------------------------------------------------------------------
Acquire(c, id) ==
    /\ stage[c] = "idle" /\ c \notin renewals
    /\ stage' = [stage EXCEPT ![c] = "create"]
    /\ operationID' = [operationID EXCEPT ![c] = id]
    /\ asked' = [asked EXCEPT ![c] = clock]
    /\ known' = known \ {c}
    /\ met' = IF Running # {} THEN met \cup {c} ELSE met
    /\ UNCHANGED <<row, clock, faults, seen, leaseEnd, renewals, renewed, lapsed>>

\* The request is over, unless a renewal is still under way.
Over(c) ==
    /\ stage' = [stage EXCEPT ![c] = "idle"]
    /\ asked' = [asked EXCEPT ![c] = 0] /\ leaseEnd' = [leaseEnd EXCEPT ![c] = 0]
    /\ seen' = [seen EXCEPT ![c] = "processing"]
    /\ renewed' = renewed \ {c} /\ met' = met \ {c}
    /\ UNCHANGED operationID

StageTo(c, step) ==
    /\ stage' = [stage EXCEPT ![c] = step]
    /\ UNCHANGED <<operationID, asked, leaseEnd, renewals, renewed, met>>

LeaseUntil(c) == asked[c] + Lease

\* The lock is c's, and its renewLoop starts.
Acquired(c) ==
    /\ stage' = [stage EXCEPT ![c] = "run"]
    /\ leaseEnd' = [leaseEnd EXCEPT ![c] = LeaseUntil(c)]
    /\ renewals' = renewals \cup {c} /\ renewed' = renewed \cup {c}
    /\ lapsed' = (lapsed \/ LeaseUntil(c) <= clock)
    /\ met' = (met \cup Acquiring) \ {c}
    /\ UNCHANGED <<operationID, asked, seen>>

AcquireCreate(c) ==
    /\ stage[c] = "create"
    /\ IF row = NoRow
         THEN /\ CreateProcessing(c, operationID[c], LeaseUntil(c), asked[c] + TTL)
              /\ Acquired(c)
         ELSE StageTo(c, "get") /\ UNCHANGED <<row, known, seen, lapsed>>
    /\ UNCHANGED <<clock, faults>>

\* Mutant: the status of the record is not looked at.
LockedAnyStatus(c) == row.lock >= asked[c]

Busy(c) == row.status = "processing" /\ row.lock > asked[c]

AcquireGet(c) ==
    /\ stage[c] = "get"
    /\ GetByScopeAndKeyHash(c)
    /\ \/ row = NoRow /\ Over(c) /\ UNCHANGED renewals
       \/ row # NoRow /\ Busy(c) /\ Over(c) /\ UNCHANGED renewals
       \/ /\ row # NoRow /\ ~Busy(c)
          /\ StageTo(c, "reclaim") /\ seen' = [seen EXCEPT ![c] = row.status]
    /\ UNCHANGED <<clock, faults, lapsed>>

\* A lost race is answered busy; what is read after it only words the error.
AcquireReclaim(c) ==
    /\ stage[c] = "reclaim"
    /\ IF Reclaimable(c, seen[c], asked[c])
         THEN Reclaim(LeaseUntil(c), asked[c] + TTL) /\ Acquired(c)
         ELSE Over(c) /\ UNCHANGED <<row, known, renewals, lapsed>>
    /\ UNCHANGED <<clock, faults>>

\* The operation is over; a statement of renewLoop may be under way.
Release(c) ==
    /\ stage[c] = "run"
    /\ \/ MarkSucceeded(c, operationID[c], clock + TTL)
       \/ MarkFailedRetryable(c, clock, clock + TTL)
    /\ Over(c)
    /\ renewals' \in {renewals, renewals \ {c}}
    /\ UNCHANGED <<known, clock, faults, lapsed>>

\* One round of renewLoop, which ends when it finds the ownership lost.
RenewLock(c) ==
    /\ c \in renewals
    /\ IF Extendable(c, operationID[c])
         THEN ExtendProcessingLock(clock + Lease, clock + TTL)
         ELSE UNCHANGED <<row, known>>
    /\ IF Extendable(c, operationID[c]) /\ c \in Running
         THEN /\ leaseEnd' = [leaseEnd EXCEPT ![c] = clock + Lease]
              /\ renewed' = renewed \cup {c} /\ UNCHANGED renewals
         ELSE /\ renewals' = renewals \ {c} /\ renewed' = renewed \ {c}
              /\ UNCHANGED leaseEnd
    /\ UNCHANGED <<clock, faults, stage, operationID, asked, seen, lapsed, met>>

\* A statement fails and its error is returned or dropped, or the process dies.
Fail(c) ==
    /\ stage[c] # "idle" /\ SpendFault
    /\ Over(c)
    /\ renewals' = renewals \ {c}
    /\ UNCHANGED <<row, known, clock, lapsed>>

LockCleanup ==
    /\ DeleteExpired
    /\ UNCHANGED <<clock, faults, lockVars, lapsed, met>>

\* A renewal is due in every tick, and Acquire does not take a tick.
Punctual == renewals \subseteq renewed /\ Acquiring = {}

LockTick ==
    /\ clock < MaxClock /\ clock' = clock + 1
    /\ (Punctual /\ UNCHANGED faults) \/ (~Punctual /\ SpendFault)
    /\ renewed' = {}
    /\ lapsed' = (lapsed \/ \E c \in Running : leaseEnd[c] <= clock')
    /\ UNCHANGED <<row, known, stage, operationID, asked, seen, leaseEnd, renewals, met>>

LockNext ==
    \/ \E c \in Callers, id \in Fingerprints : Acquire(c, id)
    \/ \E c \in Callers :
         \/ AcquireCreate(c) \/ AcquireGet(c) \/ AcquireReclaim(c)
         \/ Release(c) \/ RenewLock(c) \/ Fail(c)
    \/ LockCleanup \/ LockTick

LockSpec == LockInit /\ [][LockNext]_operationVars

-----------------------------------------------------------------------------
(* Properties.                                                             *)

\* As long as no lease has ended under a running operation, there is at most
\* one: releases, lost races, late renewals, failed statements and the
\* cleanup of the record never let a second one in.
\* Its record is its own and locked for as long as it thinks, whatever the
\* statements of earlier operations still do to it.
OneOperationPerLease ==
    lapsed \/ /\ Cardinality(Running) <= 1
              /\ \A c \in Running : /\ c \in known /\ row.status = "processing"
                                    /\ row.lock >= leaseEnd[c] /\ row.exp > clock

\* While no statement has failed and no lease has ended, a request is told
\* that the system is busy only because of an operation: at the read of the
\* record one runs at that moment; after a lost TryReclaim one has run since
\* the request asked, or the cleanup has deleted the record in between, which
\* the code calls busy too.  Releases and late renewals never leave a lock
\* that nobody holds.
Refused(c)     == stage[c] = "get" /\ row # NoRow /\ stage'[c] = "idle"
LostReclaim(c) == stage[c] = "reclaim" /\ stage'[c] = "idle"
BusyMeansRunning ==
    [][faults' = MaxFaults /\ ~lapsed =>
         \A c \in Callers : /\ Refused(c) => Running # {}
                            /\ LostReclaim(c) => c \in met \/ c \notin known]_operationVars

\* What the lock is for: two operations never run at once.
OperationsAreExclusive == Cardinality(Running) <= 1
=============================================================================
