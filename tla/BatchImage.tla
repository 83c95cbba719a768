------------------------------- MODULE BatchImage -------------------------------
(***************************************************************************)
(* One batch image job, from its submission to the end of its hold.        *)
(*                                                                         *)
(* A submission reserves an amount of the user's balance, creates a batch  *)
(* at an upstream provider, stores its name and puts the job on a queue in *)
(* Redis.  Workers follow the batch, read its output and settle: the hold  *)
(* is captured, or it is released when the job fails or is cancelled.      *)
(* A sweep fails submissions that never reached the provider, and the      *)
(* owner may cancel at any time.                                           *)
(*                                                                         *)
(* PostgreSQL holds the job and the balance; a claimed request id makes    *)
(* each of hold, capture and release happen once.  Every actor goes from   *)
(* call to call, and a call may fail before or after it took effect.       *)
(***************************************************************************)
EXTENDS Integers, TLC

CONSTANTS
    Client,      \* the request that submits the job
    Owner,       \* requests that cancel it or submit it again
    Sweep,       \* the recovery of stale submissions
    Workers,     \* workers of the queue, in any process
    MaxRetries,  \* batchImageSettlementMaxRetries
    OtherHolds,  \* holds of the same user's other jobs
    MaxFaults,   \* bound on lost calls, crashes and stalls
    None         \* no lock holder

ASSUME BatchImageAssumption ==
    /\ MaxRetries \in Nat \ {0} /\ OtherHolds \in Nat /\ MaxFaults \in Nat
    /\ None \notin Workers
    /\ Client # Owner /\ Client # Sweep /\ Owner # Sweep
    /\ {Client, Owner, Sweep} \cap Workers = {}

VARIABLES
    db,        \* the job, its claimed request ids and the frozen balance
    queue,     \* copies on the ready list, membership of the other structures
    lock,      \* holder of the job lock
    upstream,  \* the batch at the provider
    pc,        \* the call every actor makes next
    stalled,   \* actors that outlive their heartbeat
    faults,    \* faults so far
    gaps       \* what happened that the code does not recover from

vars == <<db, queue, lock, upstream, pc, stalled, faults, gaps>>

Actors == {Client, Owner, Sweep} \cup Workers

Init ==
    /\ db = [status |-> "none", named |-> FALSE, excess |-> FALSE, retries |-> 0,
             hold |-> FALSE, captured |-> FALSE, released |-> "no",
             frozen |-> OtherHolds]
    /\ queue = [ready |-> 0, delayed |-> FALSE, active |-> FALSE, inflight |-> FALSE]
    /\ lock = None
    /\ upstream = "none"
    /\ pc = [a \in Actors |-> "idle"]
    /\ stalled = {}
    /\ faults = 0
    /\ gaps = {}

--------------------------------------------------------------------------------
(* The job's status. *)

Terminal == {"completed", "failed", "cancelled"}

(* CanTransitionBatchImageJob. *)
CanTransition(from, to) ==
    \/ to = "failed" /\ from \notin Terminal
    \/ from = "created" /\ to \in {"uploading", "submitted", "cancelled"}
    \/ from = "uploading" /\ to \in {"submitted", "cancelled"}
    \/ from \in {"submitted", "running"} /\ to \in {"running", "indexing", "cancelled"}
    \/ from = "indexing" /\ to = "settling"
    \/ from = "settling" /\ to = "completed"

Becomes(status) == [db EXCEPT !.status = status]

--------------------------------------------------------------------------------
(* The balance.  A request id that was claimed before makes the call do      *)
(* nothing; a call that fails claims nothing.                                *)

Reserved == [db EXCEPT !.hold = TRUE, !.frozen = @ + 1]

\* Mutant: a capture does not claim its request id.
CaptureAgain == IF db.frozen > 0 THEN [db EXCEPT !.captured = TRUE, !.frozen = @ - 1] ELSE db

(* CaptureBatchImageBalance. *)
Captured ==
    IF db.captured \/ db.frozen = 0 THEN db
    ELSE [db EXCEPT !.captured = TRUE, !.frozen = @ - 1]

(* ReleaseBatchImageBalance: without a hold it claims its id all the same. *)
Released ==
    IF db.released # "no" THEN db
    ELSE IF ~db.hold THEN [db EXCEPT !.released = "void"]
    ELSE IF db.frozen = 0 THEN db
    ELSE [db EXCEPT !.released = "real", !.frozen = @ - 1]

(* The hold was taken and has not ended. *)
OpenHold == db.hold /\ ~db.captured /\ db.released # "real"

(* Nobody may come back to the hold: its release came before it, a call that *)
(* nobody repeats was lost, or a job was taken for settled.                  *)
Lost == db.released = "void" \/ gaps \cap {"dropped", "unsettled"} # {}

--------------------------------------------------------------------------------
(* How an actor goes on. *)

At(a, call) == pc[a] = call

(* An actor at rest is no longer late. *)
Rests == {"idle", "done", "hidden"}
GoTo(a, call) ==
    /\ pc' = [pc EXCEPT ![a] = call]
    /\ stalled' = IF call \in Rests THEN stalled \ {a} ELSE stalled

Fault == faults < MaxFaults /\ faults' = faults + 1

(* Nobody else ends the hold, or tells that it has ended, if the answer of   *)
(* these calls is lost.                                                      *)
Unanswered(a) ==
    IF pc[a] \in {"reserve", "name", "cancel", "idle"} THEN {"dropped"} ELSE {}

(* An owner cancels a job that was read before the provider's name was       *)
(* stored; a worker that is late fails a settlement under way; a settlement  *)
(* is given up though an earlier attempt captured, or the other way round.   *)
Untimely(a) ==
    IF At(a, "cancel") /\ db.named THEN {"blind"}
    ELSE IF At(a, "toFailed") /\ db.status = "settling" THEN {"late"}
    ELSE IF \/ At(a, "exhaust") /\ db.captured
            \/ At(a, "capture") /\ db.released = "real"
    THEN {"charge"} ELSE {}

(* a calls the database: "new" is the effect of the call if it is allowed,  *)
(* "yes" and "no" follow its answers and "error" follows an error.          *)
Query(a, allowed, new, yes, no, error) ==
    LET after == IF allowed THEN new ELSE db IN
    /\ \/ /\ db' = after
          /\ GoTo(a, IF allowed THEN yes ELSE no)
          /\ gaps' = IF allowed THEN gaps \cup Untimely(a) ELSE gaps
          /\ UNCHANGED faults
       \/ /\ Fault /\ GoTo(a, error)
          /\ db' \in {db, after}
          /\ gaps' = IF db' = db THEN gaps ELSE gaps \cup Untimely(a) \cup Unanswered(a)
    /\ UNCHANGED <<queue, lock, upstream>>

Transition(a, to, yes, no, error) ==
    Query(a, CanTransition(db.status, to), Becomes(to), yes, no, error)

(* A release that does not fail leaves its request id claimed. *)
Release(a, yes, error) ==
    Query(a, Released.released # "no", Released, yes, error, error)

(* A decision that changes nothing. *)
Turn(a, call) ==
    /\ GoTo(a, call)
    /\ UNCHANGED <<db, queue, lock, upstream, faults, gaps>>

--------------------------------------------------------------------------------
(* The queue: a ready list, two sorted sets and a key for what is in flight. *)

(* Enqueue. *)
Enqueued ==
    IF queue.inflight THEN queue
    ELSE [queue EXCEPT !.ready = @ + 1, !.inflight = TRUE]

Queued == queue.ready > 0 \/ queue.delayed \/ queue.active

(* a puts the job on the queue and is finished; without it nobody may come   *)
(* back to a job that waits, or to a hold that is due.                       *)
PutOnQueue(a) ==
    /\ At(a, "enqueue")
    /\ GoTo(a, IF a = Client THEN "done" ELSE "idle")
    /\ \/ queue' = Enqueued /\ UNCHANGED <<faults, gaps>>
       \/ Fault /\ UNCHANGED queue
          /\ gaps' = IF queue.inflight THEN gaps ELSE gaps \cup {"dropped"}
    /\ UNCHANGED <<db, lock, upstream>>

--------------------------------------------------------------------------------
(* Submit. *)

Submit ==
    /\ At(Client, "idle")
    /\ db' = Becomes("created") /\ GoTo(Client, "reserve")
    /\ UNCHANGED <<queue, lock, upstream, faults, gaps>>

Reserve ==
    /\ At(Client, "reserve")
    /\ Query(Client, TRUE, Reserved, "items", "refuse", "refuse")

InsufficientBalance == At(Client, "reserve") /\ Turn(Client, "refuse")

(* RecordBatchImageJobSubmitFailure fails the job whatever its status, and   *)
(* the owner does not see it any more.                                       *)
RecordFailure ==
    /\ At(Client, "refuse")
    /\ Query(Client, TRUE, Becomes("failed"), "hidden", "done", "done")

CreateItems ==
    /\ At(Client, "items")
    /\ Query(Client, TRUE, db, "upload", "undo", "undo")

StartUpload ==
    /\ At(Client, "upload")
    /\ Transition(Client, "uploading", "submit", "withdraw", "undo")

(* The provider creates the batch, or refuses, or its answer gets lost. *)
SubmitUpstream ==
    /\ At(Client, "submit")
    /\ \/ upstream' = "running" /\ GoTo(Client, "name") /\ UNCHANGED <<faults, gaps>>
       \/ GoTo(Client, "undo") /\ UNCHANGED <<upstream, faults, gaps>>
       \/ Fault /\ upstream' = "running" /\ GoTo(Client, "undo")
          /\ gaps' = gaps \cup {"orphan"}
    /\ UNCHANGED <<db, queue, lock>>

(* releaseFailedSubmitHold, and what follows it. *)
ReleaseFailedSubmit ==
    \/ At(Client, "undo") /\ Release(Client, "refuse", "owed")
    \/ At(Client, "withdraw") /\ Release(Client, "done", "owed")

RecordReleaseFailure ==
    /\ At(Client, "owed")
    /\ Query(Client, TRUE, Becomes("failed"), "enqueue", "enqueue", "enqueue")

\* Mutant: the status is not checked.
NameAnyJob ==
    /\ At(Client, "name")
    /\ Query(Client, TRUE, [Becomes("submitted") EXCEPT !.named = TRUE],
             "enqueue", "abort", "abort")

(* UpdateBatchImageJobProviderSubmit. *)
NameProviderJob ==
    /\ At(Client, "name")
    /\ Query(Client, CanTransition(db.status, "submitted"),
             [Becomes("submitted") EXCEPT !.named = TRUE], "enqueue", "abort", "abort")

Stopped == IF upstream = "running" THEN "cancelled" ELSE upstream

(* abortOrphanProviderJob. *)
AbortOrphan ==
    /\ At(Client, "abort")
    /\ GoTo(Client, "done")
    /\ \/ upstream' = Stopped /\ UNCHANGED <<faults, gaps>>
       \/ Fault /\ UNCHANGED upstream /\ gaps' = gaps \cup {"orphan"}
    /\ UNCHANGED <<db, queue, lock>>

ClientGoesOn ==
    \/ Reserve \/ InsufficientBalance \/ RecordFailure \/ CreateItems \/ StartUpload
    \/ SubmitUpstream \/ ReleaseFailedSubmit \/ RecordReleaseFailure
    \/ NameProviderJob \/ AbortOrphan \/ PutOnQueue(Client)

--------------------------------------------------------------------------------
(* Cancel, and a second submission with the same idempotency key. *)

Visible == At(Owner, "idle") /\ db.status # "none" /\ ~At(Client, "hidden")

Resubmit ==
    /\ Visible /\ db.status = "submitted"
    /\ Turn(Owner, "enqueue")

CancelEnded ==
    /\ Visible /\ db.status \in {"failed", "cancelled"}
    /\ Turn(Owner, "release")

(* The provider is asked to stop; a worker will see how the batch ended. *)
CancelUpstream ==
    /\ Visible /\ db.status \notin Terminal \cup {"settling"} /\ db.named
    /\ upstream' = Stopped /\ GoTo(Owner, "enqueue")
    /\ UNCHANGED <<db, queue, lock, faults, gaps>>

CancelUnsubmitted ==
    /\ Visible /\ db.status \notin Terminal \cup {"settling"} /\ ~db.named
    /\ Turn(Owner, "cancel")

CancelJob ==
    /\ At(Owner, "cancel")
    /\ Transition(Owner, "cancelled", "release", "idle", "idle")

ReleaseCancelled == At(Owner, "release") /\ Release(Owner, "idle", "enqueue")

OwnerGoesOn == CancelJob \/ ReleaseCancelled \/ PutOnQueue(Owner)

--------------------------------------------------------------------------------
(* ReleaseStaleUnsubmittedOnce. *)

(* Nobody has renewed updated_at for long. *)
Stale == pc[Client] \in {"done", "hidden"} \/ Client \in stalled

Unsubmitted == db.status \in {"created", "uploading"} /\ ~db.named

FailStaleUnsubmitted ==
    /\ At(Sweep, "idle") /\ Unsubmitted /\ Stale
    /\ Query(Sweep, TRUE, Becomes("failed"), "release", "idle", "idle")

ReleaseStale == At(Sweep, "release") /\ Release(Sweep, "idle", "enqueue")

SweepGoesOn == FailStaleUnsubmitted \/ ReleaseStale \/ PutOnQueue(Sweep)

--------------------------------------------------------------------------------
(* RunOnce. *)

Waiting == {"idle", "lock", "conflict"}

ReserveJob(w) ==
    /\ At(w, "idle") /\ queue.ready > 0
    /\ queue' = [queue EXCEPT !.ready = @ - 1, !.active = TRUE]
    /\ GoTo(w, "lock")
    /\ UNCHANGED <<db, lock, upstream, faults, gaps>>

TryLock(w) ==
    /\ At(w, "lock")
    /\ \/ lock = None /\ lock' = w /\ GoTo(w, "look") /\ UNCHANGED faults
       \/ lock # None /\ GoTo(w, "conflict") /\ UNCHANGED <<lock, faults>>
       \/ Fault /\ GoTo(w, "conflict") /\ lock' \in {lock, IF lock = None THEN w ELSE lock}
    /\ UNCHANGED <<db, queue, upstream, gaps>>

Delayed == [queue EXCEPT !.active = FALSE, !.delayed = TRUE]
Acked == [queue EXCEPT !.active = FALSE, !.delayed = FALSE, !.inflight = FALSE]

Unlocked(w) == IF lock = w THEN None ELSE lock

(* The last call about the job, and the release of the lock.  If the call    *)
(* fails the job stays in the active set.                                    *)
Leave(w, left) ==
    /\ GoTo(w, "idle")
    /\ \/ queue' = left /\ UNCHANGED <<faults, gaps>>
       \/ Fault /\ UNCHANGED queue
          /\ gaps' = IF Queued THEN gaps ELSE gaps \cup {"dropped"}
    /\ UNCHANGED <<db, upstream>>

RequeueConflict(w) == At(w, "conflict") /\ Leave(w, Delayed) /\ UNCHANGED lock
Requeue(w) == At(w, "requeue") /\ Leave(w, Delayed) /\ lock' = Unlocked(w)
Ack(w) == At(w, "ack") /\ Leave(w, Acked) /\ lock' = Unlocked(w)

--------------------------------------------------------------------------------
(* BatchImagePipelineProcessor and BatchImageProviderProcessor. *)

(* The job is read; an error requeues it. *)
Decide(w, call) ==
    /\ \/ GoTo(w, call) /\ UNCHANGED faults
       \/ GoTo(w, "requeue") /\ Fault
    /\ UNCHANGED <<db, queue, lock, upstream>>

Route(w) ==
    /\ At(w, "look")
    /\ Turn(w, IF db.status = "settling" THEN "settle" ELSE "process")

(* The job is read again, and the state of its batch with it.  A job that    *)
(* another worker moved to settling in between is taken for finished.        *)
NextCall ==
    IF db.status \in {"failed", "cancelled"} THEN "release"
    ELSE IF db.status \in {"completed", "settling"} THEN "ack"
    ELSE IF ~db.named THEN "requeue"
    ELSE IF db.status = "indexing" THEN "index"
    ELSE CASE upstream = "succeeded" -> "toIndexing"
           [] upstream = "failed" -> "toFailed"
           [] upstream = "cancelled" -> "toCancelled"
           [] upstream = "running" /\ db.status # "running" -> "toRunning"
           [] OTHER -> "requeue"

Process(w) ==
    /\ At(w, "process") /\ Decide(w, NextCall)
    /\ gaps' = IF db.status = "settling" THEN gaps \cup {"unsettled"} ELSE gaps

FollowProvider(w) ==
    \/ At(w, "toRunning") /\ Transition(w, "running", "requeue", "requeue", "requeue")
    \/ At(w, "toIndexing") /\ Transition(w, "indexing", "index", "requeue", "requeue")
    \/ At(w, "toFailed") /\ Transition(w, "failed", "release", "requeue", "requeue")
    \/ At(w, "toCancelled") /\ Transition(w, "cancelled", "release", "requeue", "requeue")
    \/ At(w, "toSettling") /\ Transition(w, "settling", "requeue", "requeue", "requeue")

(* Index: the output may be worth more than the hold.  An output that cannot *)
(* be used fails the job, and so does a failed call to the database.         *)
Index(w) ==
    /\ At(w, "index")
    /\ \/ \E excess \in BOOLEAN :
             Query(w, db.status = "indexing", [db EXCEPT !.excess = excess],
                   "toSettling", "requeue", "toFailed")
       \/ Turn(w, "toFailed")

\* Mutant: an error of the release is only logged.
ReleaseTerminalAnyhow(w) == At(w, "release") /\ Release(w, "ack", "ack")

ReleaseTerminal(w) == At(w, "release") /\ Release(w, "ack", "requeue")

--------------------------------------------------------------------------------
(* Settle. *)

Exhausted == db.retries >= MaxRetries

Settle(w) ==
    /\ At(w, "settle")
    /\ Decide(w, IF db.status = "completed" THEN "ack"
                 ELSE IF db.status # "settling" THEN "requeue"
                 ELSE IF Exhausted THEN "exhaust"
                 ELSE IF db.excess THEN "record" ELSE "capture")
    /\ UNCHANGED gaps

\* Mutant: an error of the capture is ignored.
CaptureHoldUnchecked(w) ==
    /\ At(w, "capture")
    /\ Query(w, Captured.captured, Captured, "settled", "settled", "settled")

CaptureHold(w) ==
    /\ At(w, "capture")
    /\ Query(w, Captured.captured, Captured, "settled", "record", "record")

MarkSettled(w) ==
    /\ At(w, "settled")
    /\ Query(w, db.status = "settling", Becomes("completed"), "ack", "requeue", "requeue")

\* Mutant: the failure is recorded and not counted.
RetriedUncounted == db

(* SetBatchImageJobSettlementFailed; no more than MaxRetries is counted. *)
Retried == [db EXCEPT !.retries = IF Exhausted THEN @ ELSE @ + 1]

(* A cost above the hold is an error; after failed billing, or a failed      *)
(* release, the job is read again.                                           *)
RecordSettlementFailure(w) ==
    \/ /\ At(w, "record")
       /\ LET next == IF db.excess THEN "requeue" ELSE "recheck" IN
          Query(w, TRUE, Retried,
                IF Retried.retries >= MaxRetries THEN "exhaust" ELSE next, next, next)
    \/ At(w, "note") /\ Query(w, TRUE, Retried, "recheck", "recheck", "recheck")

(* A terminal job is taken for finished. *)
Recheck(w) ==
    /\ At(w, "recheck")
    /\ Decide(w, IF db.status \in Terminal THEN "ack" ELSE "requeue")
    /\ gaps' = IF db.status \in Terminal THEN gaps \cup {"unsettled"} ELSE gaps

(* failExhaustedSettlement. *)
FailExhausted(w) ==
    \/ At(w, "exhaust") /\ Release(w, "giveUp", "note")
    \/ At(w, "giveUp") /\ Transition(w, "failed", "ack", "requeue", "requeue")

WorkerGoesOn(w) ==
    \/ ReserveJob(w) \/ TryLock(w) \/ RequeueConflict(w) \/ Requeue(w) \/ Ack(w)
    \/ Route(w) \/ Process(w) \/ FollowProvider(w) \/ Index(w) \/ ReleaseTerminal(w)
    \/ Settle(w) \/ CaptureHold(w) \/ MarkSettled(w) \/ RecordSettlementFailure(w)
    \/ Recheck(w) \/ FailExhausted(w)

--------------------------------------------------------------------------------
(* The provider, the clock and what goes wrong. *)

UpstreamEnds ==
    /\ upstream = "running" /\ upstream' \in {"succeeded", "failed"}
    /\ UNCHANGED <<db, queue, lock, pc, stalled, faults, gaps>>

MoveDue ==
    /\ queue.delayed
    /\ queue' = [queue EXCEPT !.delayed = FALSE, !.ready = @ + 1]
    /\ UNCHANGED <<db, lock, upstream, pc, stalled, faults, gaps>>

(* Nobody has renewed the job's score for long. *)
RecoverStaleActive ==
    /\ queue.active /\ \A w \in Workers : At(w, "idle") \/ w \in stalled
    /\ queue' = [queue EXCEPT !.active = FALSE, !.ready = @ + 1]
    /\ UNCHANGED <<db, lock, upstream, pc, stalled, faults, gaps>>

(* The lock of a worker that died, or that is late. *)
LockLapses ==
    /\ lock # None /\ (pc[lock] \in Waiting \/ lock \in stalled)
    /\ lock' = None
    /\ UNCHANGED <<db, queue, upstream, pc, stalled, faults, gaps>>

(* An actor lives on and its heartbeats do not arrive. *)
Stall(a) ==
    /\ a \in Workers \cup {Client} /\ pc[a] \notin Rests \cup {"lock", "conflict"}
    /\ a \notin stalled /\ Fault
    /\ stalled' = stalled \cup {a}
    /\ UNCHANGED <<db, queue, lock, upstream, pc, gaps>>

(* A process dies.  A batch whose name is not stored is lost sight of, and   *)
(* nobody else knows of a hold that was about to be released.                *)
Crash(a) ==
    /\ pc[a] \notin Rests /\ Fault
    /\ GoTo(a, IF a = Client THEN "done" ELSE "idle")
    /\ gaps' = gaps \cup (IF pc[a] \in {"name", "abort"} THEN {"orphan"} ELSE {})
                    \cup (IF IF a \in Workers THEN ~Queued ELSE pc[a] \in {"release", "enqueue"}
                          THEN {"dropped"} ELSE {})
    /\ UNCHANGED <<db, queue, lock, upstream>>

--------------------------------------------------------------------------------
Next ==
    \/ Submit \/ ClientGoesOn
    \/ Resubmit \/ CancelEnded \/ CancelUpstream \/ CancelUnsubmitted \/ OwnerGoesOn
    \/ SweepGoesOn
    \/ \E w \in Workers : WorkerGoesOn(w)
    \/ UpstreamEnds \/ MoveDue \/ RecoverStaleActive \/ LockLapses
    \/ \E a \in Actors : Stall(a) \/ Crash(a)

(* Calls end, workers and the sweep run on tickers, batches end.  Nothing    *)
(* makes a client submit or an owner cancel.                                 *)
Fairness ==
    /\ WF_vars(ClientGoesOn) /\ WF_vars(OwnerGoesOn) /\ WF_vars(SweepGoesOn)
    /\ \A w \in Workers : WF_vars(WorkerGoesOn(w))
    /\ WF_vars(UpstreamEnds) /\ WF_vars(MoveDue) /\ WF_vars(RecoverStaleActive)
    /\ WF_vars(LockLapses)

Spec == Init /\ [][Next]_vars /\ Fairness

--------------------------------------------------------------------------------
(* Properties. *)

(* Values of the job and of the queue; inflight keeps copies of a job from   *)
(* piling up on the ready list, whatever is enqueued, recovered and requeued.*)
TypeOK ==
    /\ db.status \in {"none", "created", "uploading", "submitted", "running",
                      "indexing", "settling"} \cup Terminal
    /\ db.named \in BOOLEAN /\ db.excess \in BOOLEAN
    /\ db.retries \in 0..MaxRetries
    /\ db.hold \in BOOLEAN /\ db.captured \in BOOLEAN
    /\ db.released \in {"no", "void", "real"}
    /\ db.frozen \in 0..OtherHolds + 1
    /\ queue \in [ready : 0..MaxFaults + 1, delayed : BOOLEAN, active : BOOLEAN, inflight : BOOLEAN]
    /\ lock \in Workers \cup {None}
    /\ upstream \in {"none", "running", "succeeded", "failed", "cancelled"}
    /\ stalled \subseteq Workers \cup {Client}
    /\ faults \in 0..MaxFaults
    /\ gaps \subseteq {"charge", "late", "dropped", "blind", "orphan", "unsettled"}

(* claimUsageBillingRequest: however often the steps that end a hold are     *)
(* repeated, they take this job's hold from the frozen balance once and leave *)
(* the holds of other jobs alone.  A capture and a release that both take    *)
(* effect take the hold of another job too, at most one: when a settlement   *)
(* is given up whose capture took effect, its answer lost, or takes effect   *)
(* later, and when a late worker fails a settlement under way.               *)
HoldEndsOnce ==
    /\ gaps \cap {"charge", "late"} = {}
         => db.frozen = OtherHolds + (IF OpenHold THEN 1 ELSE 0)
    /\ db.frozen >= OtherHolds - 1

(* a ends the hold or puts the job on the queue. *)
Handling(a) ==
    IF a \in Workers THEN ~At(a, "idle") /\ ~At(a, "ack")
    ELSE pc[a] \in {"undo", "withdraw", "owed", "release", "enqueue"}

(* releaseFailedSubmitHold, Cancel, the recovery and releaseTerminalHold: a  *)
(* hold that was not ended is on the queue, or will be found by the sweep,   *)
(* or somebody is about to see to it, whichever step failed.  Excepted: the  *)
(* calls nobody repeats, and a release that came before its hold.            *)
HoldIsNotForgotten ==
    OpenHold => \/ Queued \/ Unsubmitted
                \/ \E a \in Actors : Handling(a)
                \/ Lost

(* FailStaleUnsubmitted, UpdateBatchImageJobProviderSubmit, abortOrphan: the *)
(* hold of a batch that runs at the provider is not given back, unless the   *)
(* submission is about to find out.  Excepted: a cancellation decided before *)
(* the submission went through, and a provider that did not answer.          *)
RefundedIsStopped ==
    db.released = "real" /\ upstream = "running"
        => pc[Client] \in {"name", "abort"} \/ gaps \cap {"blind", "orphan"} # {}

(* Settle: a job is completed only after its hold was captured; a job whose  *)
(* hold was captured is settling or completed, or it has failed, and then    *)
(* its settlement had used up MaxRetries attempts, or a late worker failed   *)
(* it while it was settling.  It is never cancelled.                         *)
ChargedIffCompleted ==
    /\ db.status = "completed" => db.captured
    /\ db.captured => \/ db.status \in {"settling", "completed"}
                      \/ db.status = "failed" /\ (Exhausted \/ "late" \in gaps)

(* isBatchImageSettlementRetryExhausted: every hold ends, however the job    *)
(* ends and whatever failed on the way.                                      *)
HoldEnds ==
    OpenHold ~> ~OpenHold \/ Lost
=============================================================================
