----------------------------- MODULE Idempotency -----------------------------
(***************************************************************************)
(* IdempotencyCoordinator.Execute for calls that carry the same key: claim *)
(* the record or learn its outcome, execute, store the outcome.  The time  *)
(* of a call is read once, when it starts, and may be old by the time a    *)
(* statement uses it.  With an ExecutionTimeout (detached) a goroutine     *)
(* renews the record while the executor runs.                              *)
(*                                                                         *)
(* pc[c] names the next statement of call c; "idle" callers may call       *)
(* again, as clients that retry do.                                        *)
(***************************************************************************)
EXTENDS IdempotencyRecords

CONSTANT Backoff   \* FailedRetryBackoff, in ticks

ASSUME BackoffAssumption == Backoff \in Nat

VARIABLES detached,  \* the scope's calls have an ExecutionTimeout
          pc,
          payload,   \* the fingerprint of the call
          now,       \* time.Now() at its start
          from,      \* the status the row had when c read it
          renewing,  \* callers whose renewal goroutine is alive
          claimEnd,  \* when the claim of c expires, unless renewed
          answer,    \* the execution whose result the last call of c got
          okUntil,   \* when the success stored last expires
          earlier,   \* calls that were under way when it was stored
          overran    \* an execution outlasted its claim, or a call claimed
                     \* the record with a lock window that was over

progress == <<pc, payload, answer, earlier>>
claim    == <<now, from, claimEnd, renewing>>
ghosts   == <<okUntil, overran, detached>>
vars     == <<recordVars, progress, claim, ghosts>>

Executing == {c \in Callers : pc[c] \in {"run", "markOk", "markFailed"}}

TypeOK ==
    /\ RecordsOK
    /\ detached \in BOOLEAN /\ overran \in BOOLEAN
    /\ pc \in [Callers -> {"idle", "create", "get", "reclaim", "reget",
                           "retry", "run", "markOk", "markFailed"}]
    /\ payload \in [Callers -> Fingerprints \cup {NoResult}]
    /\ \A c \in Callers : pc[c] # "idle" => payload[c] \in Fingerprints
    /\ now \in [Callers -> 0..MaxClock]
    /\ from \in [Callers -> Statuses]
    /\ renewing \subseteq Executing
    /\ claimEnd \in [Callers -> Nat]
    /\ answer \in [Callers -> Fingerprints \cup {NoResult}]
    /\ okUntil \in Nat /\ earlier \subseteq Callers

Init ==
    /\ RecordsInit
    /\ detached \in BOOLEAN /\ overran = FALSE
    /\ pc = [c \in Callers |-> "idle"]
    /\ payload = [c \in Callers |-> NoResult] /\ answer = [c \in Callers |-> NoResult]
    /\ now = [c \in Callers |-> 0] /\ claimEnd = [c \in Callers |-> 0]
    /\ from = [c \in Callers |-> "processing"]
    /\ renewing = {} /\ okUntil = 0 /\ earlier = {}

-----------------------------------------------------------------------------
GoTo(c, step) ==
    /\ pc' = [pc EXCEPT ![c] = step]
    /\ UNCHANGED <<payload, answer, earlier>>

\* Execute returns, with the result of an execution or an error (NoResult).
Return(c, result) ==
    /\ pc' = [pc EXCEPT ![c] = "idle"]
    /\ answer' = [answer EXCEPT ![c] = result]
    /\ earlier' = earlier \ {c}
    /\ now' = [now EXCEPT ![c] = 0] /\ claimEnd' = [claimEnd EXCEPT ![c] = 0]
    /\ from' = [from EXCEPT ![c] = "processing"]
    /\ renewing' = renewing \ {c}
    /\ UNCHANGED payload

Call(c, p) ==
    /\ pc[c] = "idle"
    /\ pc' = [pc EXCEPT ![c] = "create"]
    /\ payload' = [payload EXCEPT ![c] = p]
    /\ answer' = [answer EXCEPT ![c] = NoResult]
    /\ now' = [now EXCEPT ![c] = clock]
    /\ known' = known \ {c}
    /\ UNCHANGED <<row, clock, faults, earlier, from, claimEnd, renewing, ghosts>>

LockedUntil(c) == now[c] + Lease
ExpiresAt(c)   == now[c] + TTL

\* The claim is c's: start the executor, and the renewal if there is one.
StartExecution(c) ==
    /\ GoTo(c, "run")
    /\ claimEnd' = [claimEnd EXCEPT ![c] = ExpiresAt(c)]
    /\ renewing' = IF detached THEN renewing \cup {c} ELSE renewing
    /\ overran' = (overran \/ ExpiresAt(c) <= clock \/ LockedUntil(c) <= clock)
    /\ okUntil' = IF c \in earlier THEN 0 ELSE okUntil
    /\ UNCHANGED <<now, from, detached>>

Create(c) ==
    /\ pc[c] = "create"
    /\ IF row = NoRow
         THEN /\ CreateProcessing(c, payload[c], LockedUntil(c), ExpiresAt(c))
              /\ StartExecution(c)
         ELSE GoTo(c, "get") /\ UNCHANGED <<row, known, claim, ghosts>>
    /\ UNCHANGED <<clock, faults>>

\* Mutant: the payload is not compared with the record's.
AnyPayload(c) == row # NoRow

\* There is a record, and it is of the same payload.
SamePayload(c) == row # NoRow /\ row.fp = payload[c]

\* Mutant: a record is taken for expired when its lock window is over.
Unlocked(c) == row.lock <= now[c]

Expired(c) == row.exp <= now[c]

\* Go on to a reclaim, from the status of the row as read.
ToReclaim(c, step) ==
    /\ from' = [from EXCEPT ![c] = row.status]
    /\ GoTo(c, step)
    /\ UNCHANGED <<now, claimEnd, renewing>>

\* What the status says to do next.
Decide(c) ==
    \/ row.status = "succeeded" /\ Return(c, row.result)
    \/ row.status = "processing" /\ Return(c, NoResult)
    \/ row.status = "failed_retryable" /\ row.lock > now[c] /\ Return(c, NoResult)
    \/ row.status = "failed_retryable" /\ row.lock <= now[c] /\ ToReclaim(c, "retry")

Get(c) ==
    /\ pc[c] = "get"
    /\ GetByScopeAndKeyHash(c)
    /\ \/ ~SamePayload(c) /\ Return(c, NoResult)
       \/ SamePayload(c) /\ Expired(c) /\ ToReclaim(c, "reclaim")
       \/ SamePayload(c) /\ ~Expired(c) /\ Decide(c)
    /\ UNCHANGED <<clock, faults, ghosts>>

\* Of an expired record, or of a failed one whose backoff is over.  Who lost
\* the race for an expired record looks again; for a failed one, gives up.
TryReclaim(c) ==
    /\ pc[c] \in {"reclaim", "retry"}
    /\ IF Reclaimable(c, from[c], now[c])
         THEN Reclaim(LockedUntil(c), ExpiresAt(c)) /\ StartExecution(c)
         ELSE /\ \/ pc[c] = "reclaim" /\ GoTo(c, "reget") /\ UNCHANGED claim
                 \/ pc[c] = "retry" /\ Return(c, NoResult)
              /\ UNCHANGED <<row, known, ghosts>>
    /\ UNCHANGED <<clock, faults>>

GetAgain(c) ==
    /\ pc[c] = "reget"
    /\ GetByScopeAndKeyHash(c)
    /\ \/ ~SamePayload(c) /\ Return(c, NoResult)
       \/ SamePayload(c) /\ Decide(c)
    /\ UNCHANGED <<clock, faults, ghosts>>

\* The executor succeeds, or fails.
Execute(c) ==
    /\ pc[c] = "run"
    /\ GoTo(c, "markOk") \/ GoTo(c, "markFailed")
    /\ UNCHANGED <<recordVars, claim, ghosts>>

StoredUntil(c) == IF detached THEN clock + TTL ELSE ExpiresAt(c)

\* Every call under way by then is older than the success.
StoreSuccess(c) ==
    /\ pc[c] = "markOk"
    /\ MarkSucceeded(c, payload[c], StoredUntil(c))
    /\ pc' = [pc EXCEPT ![c] = "idle"]
    /\ answer' = [answer EXCEPT ![c] = payload[c]]
    /\ now' = [now EXCEPT ![c] = 0] /\ claimEnd' = [claimEnd EXCEPT ![c] = 0]
    /\ from' = [from EXCEPT ![c] = "processing"]
    /\ renewing' = renewing \ {c}
    /\ IF c \in known
         THEN okUntil' = StoredUntil(c) /\ earlier' = {d \in Callers \ {c} : pc[d] # "idle"}
         ELSE earlier' = earlier \ {c} /\ UNCHANGED okUntil
    /\ UNCHANGED <<payload, known, clock, faults, overran, detached>>

StoreFailure(c) ==
    /\ pc[c] = "markFailed"
    /\ MarkFailedRetryable(c, clock + Backoff, StoredUntil(c))
    /\ Return(c, NoResult)
    /\ UNCHANGED <<known, clock, faults, ghosts>>

\* The renewal goroutine; it ends when the record is no longer the call's.
Renew(c) ==
    /\ c \in renewing
    /\ IF Extendable(c, payload[c])
         THEN /\ ExtendProcessingLock(clock + Lease, clock + TTL)
              /\ claimEnd' = [claimEnd EXCEPT ![c] = clock + TTL]
              /\ UNCHANGED renewing
         ELSE renewing' = renewing \ {c} /\ UNCHANGED <<row, known, claimEnd>>
    /\ UNCHANGED <<clock, faults, now, from, progress, ghosts>>

\* A statement fails and the call returns an error, or the process dies.
CallEnds(c) ==
    /\ pc[c] # "idle" /\ SpendFault
    /\ Return(c, NoResult)
    /\ UNCHANGED <<row, known, clock, ghosts>>

Cleanup ==
    /\ DeleteExpired
    /\ UNCHANGED <<clock, faults, progress, claim, ghosts>>

Tick ==
    /\ clock < MaxClock /\ clock' = clock + 1
    /\ overran' = (overran \/ \E c \in Executing : claimEnd[c] <= clock')
    /\ UNCHANGED <<row, known, faults, progress, claim, okUntil, detached>>

Next ==
    \/ \E c \in Callers, p \in Fingerprints : Call(c, p)
    \/ \E c \in Callers :
         \/ Create(c) \/ Get(c) \/ TryReclaim(c) \/ GetAgain(c)
         \/ Execute(c) \/ StoreSuccess(c) \/ StoreFailure(c)
         \/ Renew(c) \/ CallEnds(c)
    \/ Cleanup \/ Tick

Spec == Init /\ [][Next]_vars

-----------------------------------------------------------------------------
(* Properties.                                                             *)

\* Concurrent calls with one key execute one at a time, also when a record
\* expires, is cleaned up or is reclaimed, unless an execution outlasted the
\* record's lifetime or a call stalled for the lock window before its claim.
OneExecutionAtATime == overran \/ Cardinality(Executing) <= 1

Starts(c) == pc[c] # "run" /\ pc'[c] = "run"

\* Once a success is stored, a call that comes later is not executed before
\* the record expires, whatever crashes and failed statements do; a call that
\* was under way already may still reclaim the row it read as expired.
SuccessIsReplayed ==
    [][\A c \in Callers :
         Starts(c) => overran' \/ c \in earlier \/ clock >= okUntil]_vars

\* A key reused with a different payload never gets the result of the other.
AnswersOwnPayload == \A c \in Callers : answer[c] \in {payload[c], NoResult}
=============================================================================
