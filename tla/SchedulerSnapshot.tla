--------------------------- MODULE SchedulerSnapshot ---------------------------
(***************************************************************************)
(* The scheduler's snapshot of one account bucket of one group.            *)
(*                                                                         *)
(* Accounts and groups live in PostgreSQL.  Every change of them leaves a  *)
(* row in scheduler_outbox; a poller in every process follows the rows     *)
(* with a watermark kept in Redis and rebuilds the bucket's snapshot       *)
(* there.  A full rebuild does the same from time to time, and a request   *)
(* that finds no snapshot publishes what it loads.                         *)
(* Epochs and a tombstone fence writers of a bucket whose group was        *)
(* switched off.                                                           *)
(*                                                                         *)
(* Jobs are the pollers, the full rebuild of each process, and requests    *)
(* that miss; writers are the repository calls that change an account or   *)
(* the group.  An account's state is a version number.                     *)
(***************************************************************************)
EXTENDS Integers, Sequences, FiniteSets, TLC

CONSTANTS
    Pollers,        \* the outbox worker of each process
    Rebuilders,     \* the full rebuild of each process, one at a time there
    Readers,        \* requests that look for the snapshot, one shot each
    Writers,        \* repository calls that change the account or the group
    GroupWriters,   \* the writers that switch the group on or off
    InTransaction,  \* account writers that enqueue before they commit
    Forced,         \* the bucket is the forced one of its group and platform
    MaxChanges,     \* bound on the changes
    MaxFaults,      \* bound on failed calls, crashes and lapsed locks
    None            \* no job, no snapshot

Jobs == Pollers \cup Rebuilders \cup Readers

ASSUME SnapshotAssumption ==
    /\ IsFiniteSet(Jobs) /\ IsFiniteSet(Writers)
    /\ Pollers \cap Rebuilders = {} /\ Pollers \cap Readers = {} /\ Rebuilders \cap Readers = {}
    /\ None \notin Jobs \cup [members : Nat, since : Nat]
    /\ GroupWriters \subseteq Writers
    /\ InTransaction \subseteq Writers \ GroupWriters
    /\ Forced \in BOOLEAN /\ MaxChanges \in Nat /\ MaxFaults \in Nat

VARIABLES
    db,      \* committed state: versions of the account and of the group
    outbox,  \* rows of scheduler_outbox, a row's id is its index
    cache,   \* Redis: watermark, snapshot, fences, locks
    job,     \* progress of every job
    writer,  \* progress of every writer
    faults,  \* faults so far
    lost     \* newest change whose event may be lost, of each kind

vars == <<db, outbox, cache, job, writer, faults, lost>>

(* A group is created active and every change switches it. *)
Active == db.group % 2 = 0

(* The progress of a job at rest.  "loaded" is the account version it read   *)
(* and "since" the epoch at that time, "early" if the account then changed   *)
(* before the job had the lock; with "strict" a busy lock and a fence are    *)
(* errors.                                                                   *)
Rest == [pc |-> "idle", batch |-> {}, last |-> 0, seen |-> {}, on |-> FALSE,
         token |-> 0, loaded |-> 0, since |-> 0, early |-> FALSE,
         strict |-> FALSE, failed |-> FALSE]

Init ==
    /\ db = [account |-> 0, group |-> 0]
    /\ outbox = <<>>
    /\ cache = [watermark |-> 0, snapshot |-> None, epoch |-> 1,
                retired |-> FALSE, order |-> <<>>, lock |-> None, lease |-> None]
    /\ job = [j \in Jobs |-> Rest]
    /\ writer = [w \in Writers |-> [pc |-> "idle", row |-> 0]]
    /\ faults = 0
    /\ lost = [account |-> 0, group |-> 0]

--------------------------------------------------------------------------------
(* Outbox rows. *)

Key(w) == IF w \in GroupWriters THEN "group" ELSE "account"

Committed(r) == outbox[r].state = "committed"

(* The row that holds the key of w, which has not been polled yet. *)
Holder(w) == {r \in DOMAIN outbox : outbox[r].key = Key(w) /\ outbox[r].open}

(* enqueueSchedulerOutbox: an open row with the same key makes the insert do *)
(* nothing once the transaction that inserted it is over.                    *)
Enqueue(w, state) ==
    /\ \A r \in Holder(w) : Committed(r)
    /\ outbox' = IF Holder(w) = {}
                 THEN Append(outbox, [key |-> Key(w), state |-> state, open |-> TRUE])
                 ELSE outbox

RowOf(w) == IF Holder(w) = {} THEN Len(outbox) + 1
            ELSE CHOOSE r \in Holder(w) : TRUE

(* The watermark is past row r, or will be when a poll under way ends. *)
Passed(r) == r <= cache.watermark \/ \E p \in Pollers : r < job[p].last

Unheard(r) == Passed(r) \/ ~outbox[r].open

(* The event of the newest change of the account, or of the group, may never *)
(* lead to a refresh.                                                        *)
AccountLost(now) == [lost EXCEPT !.account = now.account]
Lost(w, now) ==
    IF w \in GroupWriters THEN [lost EXCEPT !.group = now.group] ELSE AccountLost(now)

--------------------------------------------------------------------------------
(* Writers. *)

WriterAt(w, pc) == writer[w].pc = pc

(* The row of the account is locked by a transaction under way. *)
RowFree(w) == w \in GroupWriters \/ \A u \in InTransaction : ~WriterAt(u, "open")

Bounded == db.account + db.group < MaxChanges

Changed(w) ==
    IF w \in GroupWriters THEN [db EXCEPT !.group = @ + 1]
                         ELSE [db EXCEPT !.account = @ + 1]

(* UpdateExtra: the change and its row in one transaction. *)
OpenTransaction(w) ==
    /\ WriterAt(w, "idle") /\ w \in InTransaction /\ RowFree(w) /\ Bounded
    /\ Enqueue(w, "pending")
    /\ writer' = [writer EXCEPT ![w].pc = "open", ![w].row = RowOf(w)]
    /\ UNCHANGED <<db, cache, job, faults, lost>>

(* A row becomes visible with its commit, and nobody hears of the change     *)
(* when the watermark is past it by then, or when the row it was folded into *)
(* has been listed or is itself a row that was passed.                       *)
CommitTransaction(w) ==
    LET r == writer[w].row IN
    /\ WriterAt(w, "open")
    /\ db' = Changed(w)
    /\ outbox' = [outbox EXCEPT ![r].state = IF @ = "pending" THEN "committed" ELSE @]
    /\ writer' = [writer EXCEPT ![w].pc = "idle", ![w].row = 0]
    /\ lost' = IF Unheard(r) THEN Lost(w, db') ELSE lost
    /\ UNCHANGED <<cache, job, faults>>

Deleted(row) == [row EXCEPT !.state = "void", !.open = FALSE]

Rollback(w) ==
    LET r == writer[w].row IN
    /\ WriterAt(w, "open") /\ faults < MaxFaults
    /\ outbox' = IF outbox[r].state = "pending"
                 THEN [outbox EXCEPT ![r] = Deleted(@)] ELSE outbox
    /\ writer' = [writer EXCEPT ![w].pc = "idle", ![w].row = 0]
    /\ faults' = faults + 1
    /\ UNCHANGED <<db, cache, job, lost>>

(* SetError, SetRateLimited, changes of a group: the change commits by itself. *)
Change(w) ==
    /\ WriterAt(w, "idle") /\ w \notin InTransaction /\ RowFree(w) /\ Bounded
    /\ db' = Changed(w)
    /\ writer' = [writer EXCEPT ![w].pc = "enqueue"]
    /\ UNCHANGED <<outbox, cache, job, faults, lost>>

EnqueueAfter(w) ==
    /\ WriterAt(w, "enqueue")
    /\ Enqueue(w, "committed")
    /\ writer' = [writer EXCEPT ![w].pc = "idle"]
    /\ lost' = IF Holder(w) # {} /\ Unheard(RowOf(w)) THEN Lost(w, db) ELSE lost
    /\ UNCHANGED <<db, cache, job, faults>>

(* The insert fails and is only logged. *)
EnqueueFails(w) ==
    /\ WriterAt(w, "enqueue") /\ faults < MaxFaults
    /\ writer' = [writer EXCEPT ![w].pc = "idle"]
    /\ faults' = faults + 1
    /\ lost' = Lost(w, db)
    /\ UNCHANGED <<db, outbox, cache, job>>

--------------------------------------------------------------------------------
(* How a job goes on. *)

At(j, pc) == job[j].pc = pc
Becomes(j, r) == job' = [job EXCEPT ![j] = r]
GoTo(j, pc) == Becomes(j, [job[j] EXCEPT !.pc = pc])

(* j is over: what it was doing is dropped, a poller keeps the watermark. *)
Over(j) == IF j \in Readers THEN [Rest EXCEPT !.pc = "done"] ELSE Rest

(* The event of its batch that j is at. *)
First(j) == CHOOSE r \in job[j].batch : \A s \in job[j].batch : r <= s
EventKey(j) == outbox[First(j)].key

(* What j was doing ended without an error: a poller turns to the next event *)
(* of its batch and remembers what it rebuilt for this one.                  *)
Done(j) ==
    IF j \notin Pollers THEN Over(j)
    ELSE [Rest EXCEPT
            !.pc = IF job[j].batch = {First(j)} THEN "advance" ELSE "event",
            !.batch = job[j].batch \ {First(j)},
            !.last = job[j].last,
            !.seen = job[j].seen \cup
                IF EventKey(j) = "group" THEN {"members", "lifecycle"} ELSE {"members"}]

Locked == {"load", "alloc", "activate", "unlock"}
Holds(j) == j \notin Readers /\ job[j].pc \in Locked
InLease(j) == job[j].pc \in {"decide", "apply", "release"}

\* Mutant: the epoch of the token is not compared.
FencedByTombstone(j) == cache.retired

(* A bucket is closed to tokens captured before it was last retired. *)
Fenced(j) == cache.retired \/ job[j].token # cache.epoch

--------------------------------------------------------------------------------
(* pollOutbox. *)

After(id) == {r \in DOMAIN outbox : r > id /\ Committed(r)}

Listed(j, rows) ==
    \E last \in rows :
        /\ \A r \in rows : r <= last
        /\ Becomes(j, [Rest EXCEPT !.pc = "event", !.batch = rows, !.last = last])

\* Mutant: the rows are listed and keep their keys.
ListAfter(j) ==
    LET rows == After(cache.watermark) IN
    /\ j \in Pollers /\ At(j, "idle") /\ Listed(j, rows)
    /\ UNCHANGED <<db, outbox, cache, writer, faults, lost>>

(* The watermark is read; one statement lists the rows after it and opens    *)
(* their keys to new rows.                                                   *)
ListAfterAndReleaseDedup(j) ==
    LET rows == After(cache.watermark) IN
    /\ j \in Pollers /\ At(j, "idle") /\ Listed(j, rows)
    /\ outbox' = [r \in DOMAIN outbox |-> [outbox[r] EXCEPT !.open = @ /\ r \notin rows]]
    /\ UNCHANGED <<db, cache, writer, faults, lost>>

(* handleAccountEvent: the bucket, unless this batch has rebuilt it. *)
AccountEvent(j) ==
    /\ At(j, "event") /\ EventKey(j) = "account"
    /\ Becomes(j, IF "members" \in job[j].seen THEN Done(j)
                  ELSE [job[j] EXCEPT !.pc = "capture"])
    /\ UNCHANGED <<db, outbox, cache, writer, faults, lost>>

SkipGroup(j) ==
    /\ At(j, "event") /\ EventKey(j) = "group" /\ "lifecycle" \in job[j].seen
    /\ Becomes(j, Done(j))
    /\ UNCHANGED <<db, outbox, cache, writer, faults, lost>>

(* The watermark is set to the batch's last row, whatever it is now.  Rows    *)
(* behind it are deleted ten seconds after they were inserted: at once here  *)
(* when they were listed, maybe when they were passed unseen.                *)
Advance(j) ==
    /\ At(j, "advance")
    /\ cache' = [cache EXCEPT !.watermark = job[j].last]
    /\ \E old \in BOOLEAN : outbox' = [r \in DOMAIN outbox |->
          IF r <= job[j].last /\ Committed(r) /\ (old \/ ~outbox[r].open)
          THEN Deleted(outbox[r]) ELSE outbox[r]]
    /\ Becomes(j, Rest)
    /\ UNCHANGED <<db, writer, faults, lost>>

--------------------------------------------------------------------------------
(* prepareGroupLifecycle: a fresh decision about the bucket, in a lease. *)

\* Mutant: a lease under way is taken over.
AcquireAnyLease(j) ==
    /\ \/ At(j, "lease")
       \/ At(j, "event") /\ EventKey(j) = "group" /\ "lifecycle" \notin job[j].seen
    /\ cache' = [cache EXCEPT !.lease = j] /\ GoTo(j, "decide")
    /\ UNCHANGED <<db, outbox, writer, faults, lost>>

AcquireLease(j) ==
    /\ \/ At(j, "lease")
       \/ At(j, "event") /\ EventKey(j) = "group" /\ "lifecycle" \notin job[j].seen
    /\ IF cache.lease = None
       THEN cache' = [cache EXCEPT !.lease = j] /\ GoTo(j, "decide")
       ELSE Becomes(j, Over(j)) /\ UNCHANGED cache
    /\ UNCHANGED <<db, outbox, writer, faults, lost>>

ReadGroup(j) ==
    /\ At(j, "decide")
    /\ Becomes(j, [job[j] EXCEPT !.pc = "apply", !.on = Active])
    /\ UNCHANGED <<db, outbox, cache, writer, faults, lost>>

(* Clears the tombstone, and with it the snapshot; keeps the epoch. *)
Reopened ==
    IF cache.retired THEN [cache EXCEPT !.retired = FALSE, !.snapshot = None] ELSE cache

(* Only the first retirement moves the epoch. *)
Retired ==
    [cache EXCEPT !.retired = TRUE, !.snapshot = None, !.order = <<>>,
                  !.epoch = IF cache.retired THEN @ ELSE @ + 1]

ApplyDecision(j) ==
    /\ At(j, "apply")
    /\ cache' = IF job[j].on THEN Reopened ELSE Retired
    /\ Becomes(j, [job[j] EXCEPT !.pc = "release",
                                 !.token = IF job[j].on THEN cache'.epoch ELSE 0])
    /\ lost' = IF job[j].on = Active THEN [lost EXCEPT !.group = 0] ELSE lost
    /\ UNCHANGED <<db, outbox, writer, faults>>

ReleaseLease(j) ==
    /\ At(j, "release")
    /\ cache' = [cache EXCEPT !.lease = IF @ = j THEN None ELSE @]
    /\ Becomes(j, IF cache.lease # j THEN Over(j)
                  ELSE IF job[j].on
                  THEN [job[j] EXCEPT !.pc = "lock", !.on = FALSE, !.strict = TRUE]
                  ELSE Done(j))
    /\ UNCHANGED <<db, outbox, writer, faults, lost>>

--------------------------------------------------------------------------------
(* rebuildFullSnapshot and ListSchedulableAccounts, how they begin. *)

(* ListBuckets and ListActiveIDs.  A group that is off though its bucket is  *)
(* registered is looked at again in its lease.                               *)
StartRebuild(j) ==
    /\ j \in Rebuilders /\ At(j, "idle")
    /\ GoTo(j, IF Active THEN "capture" ELSE IF cache.snapshot # None THEN "lease" ELSE "idle")
    /\ UNCHANGED <<db, outbox, cache, writer, faults, lost>>

(* A request that finds no snapshot or could not read it; both share the     *)
(* bound of the faults.                                                      *)
GetSnapshotMisses(j) ==
    /\ j \in Readers /\ At(j, "idle") /\ faults < MaxFaults
    /\ GoTo(j, "capture")
    /\ faults' = faults + 1
    /\ UNCHANGED <<db, outbox, cache, writer, lost>>

--------------------------------------------------------------------------------
(* Writing the bucket. *)

(* CaptureBucketWriteToken.  A full rebuild that finds an active group's     *)
(* bucket retired goes through the lifecycle; others leave it alone.         *)
Capture(j) ==
    /\ At(j, "capture")
    /\ Becomes(j, IF ~cache.retired
                  THEN [job[j] EXCEPT !.token = cache.epoch, !.on = FALSE,
                                      !.pc = IF j \in Readers THEN "load" ELSE "lock"]
                  ELSE IF j \in Rebuilders THEN [job[j] EXCEPT !.pc = "lease"] ELSE Done(j))
    /\ UNCHANGED <<db, outbox, cache, writer, faults, lost>>

Reads(j, pc) ==
    Becomes(j, [job[j] EXCEPT !.pc = pc, !.loaded = db.account, !.since = cache.epoch])

(* The single bucket of the same group and platform comes first, and what    *)
(* was loaded under its lock is kept for the forced one.                     *)
LoadForSingle(j) ==
    /\ Forced /\ At(j, "lock")
    /\ Reads(j, "reuse")
    /\ UNCHANGED <<db, outbox, cache, writer, faults, lost>>

AtLock(j) == At(j, "lock") \/ At(j, "reuse")

TryLock(j) ==
    /\ AtLock(j) /\ cache.lock = None
    /\ cache' = [cache EXCEPT !.lock = j]
    /\ Becomes(j, [job[j] EXCEPT !.pc = IF At(j, "lock") THEN "load" ELSE "alloc",
                                 !.early = At(j, "reuse") /\ job[j].loaded < db.account])
    /\ UNCHANGED <<db, outbox, writer, faults, lost>>

(* A busy lock fails a strict rebuild.  Any other is skipped, and the event  *)
(* it is for counts as handled: it is left to whoever holds the lock.        *)
LockBusy(j) ==
    /\ AtLock(j) /\ cache.lock # None
    /\ Becomes(j, IF job[j].strict THEN Over(j) ELSE Done(j))
    /\ lost' = IF j \in Pollers /\ ~job[j].strict THEN AccountLost(db) ELSE lost
    /\ UNCHANGED <<db, outbox, cache, writer, faults>>

Load(j) ==
    /\ At(j, "load")
    /\ Reads(j, "alloc")
    /\ UNCHANGED <<db, outbox, cache, writer, faults, lost>>

Published(j, fenced) ==
    IF j \in Readers THEN Over(j)
    ELSE [job[j] EXCEPT !.pc = "unlock", !.failed = fenced /\ job[j].strict,
                        !.token = 0, !.loaded = 0, !.since = 0, !.early = FALSE,
                        !.strict = FALSE]

(* allocateSnapshotVersion: the first fence.  Versions that are not active   *)
(* and newer than the active one are kept as the order of their jobs.        *)
Allocate(j) ==
    /\ At(j, "alloc")
    /\ IF Fenced(j) THEN Becomes(j, Published(j, TRUE)) /\ UNCHANGED cache
       ELSE GoTo(j, "activate") /\ cache' = [cache EXCEPT !.order = Append(@, j)]
    /\ UNCHANGED <<db, outbox, writer, faults, lost>>

(* What j loaded may be older than what an event has refreshed meanwhile: j  *)
(* holds no lock, or got it too late, or the bucket is closed to it.         *)
Unguarded(j) == j \in Readers \/ cache.lock # j \/ job[j].early \/ Fenced(j)

Newest(j) == \E i \in DOMAIN cache.order : cache.order[i] = j

(* Version i is the last that j was given. *)
LastOf(j, i) ==
    cache.order[i] = j /\ \A k \in DOMAIN cache.order : cache.order[k] = j => k <= i

(* The snapshot is j's; versions that are not newer are dropped. *)
Switched(j, i) ==
    [cache EXCEPT !.snapshot = [members |-> job[j].loaded, since |-> job[j].since],
                  !.order = SubSeq(@, i + 1, Len(@))]

(* activateSnapshotVersion: the second fence; an older version than the      *)
(* active one is dropped.                                                    *)
Activate(j) ==
    /\ At(j, "activate")
    /\ Becomes(j, Published(j, Fenced(j)))
    /\ IF Fenced(j) \/ ~Newest(j) THEN UNCHANGED <<cache, lost>>
       ELSE /\ \E i \in DOMAIN cache.order : LastOf(j, i) /\ cache' = Switched(j, i)
            /\ lost' = IF job[j].loaded < db.account /\ Unguarded(j)
                       THEN [lost EXCEPT !.account = db.account] ELSE lost
    /\ UNCHANGED <<db, outbox, writer, faults>>

(* The lock is deleted whoever holds it now. *)
Unlock(j) ==
    /\ At(j, "unlock")
    /\ cache' = [cache EXCEPT !.lock = None]
    /\ Becomes(j, IF job[j].failed THEN Over(j) ELSE Done(j))
    /\ UNCHANGED <<db, outbox, writer, faults, lost>>

--------------------------------------------------------------------------------
(* Faults. *)

(* A call of j fails and j gives up what it holds, or its process dies and   *)
(* leaves it.                                                                *)
JobFails(j) ==
    /\ j \notin Readers /\ ~At(j, "idle") /\ faults < MaxFaults
    /\ faults' = faults + 1
    /\ \E dies \in BOOLEAN :
          cache' = [cache EXCEPT
              !.lease = IF ~dies /\ InLease(j) /\ @ = j THEN None ELSE @,
              !.lock = IF ~dies /\ Holds(j) THEN None ELSE @]
    /\ Becomes(j, Over(j))
    /\ UNCHANGED <<db, outbox, writer, lost>>

\* Mutant: the lock is set without a time to live.
LockStays == FALSE /\ UNCHANGED vars

(* A lock that nobody holds any more runs out. *)
LockLapses ==
    /\ cache.lock # None /\ ~Holds(cache.lock)
    /\ cache' = [cache EXCEPT !.lock = None]
    /\ UNCHANGED <<db, outbox, job, writer, faults, lost>>

(* The lock's thirty seconds are also all its holder has: it may run out     *)
(* just before the holder ends.                                              *)
LockLapsesEarly ==
    /\ cache.lock # None /\ Holds(cache.lock) /\ faults < MaxFaults
    /\ faults' = faults + 1
    /\ cache' = [cache EXCEPT !.lock = None]
    /\ UNCHANGED <<db, outbox, job, writer, lost>>

(* The lease outlives the time its holder has for the decision. *)
LeaseLapses ==
    /\ cache.lease # None /\ ~InLease(cache.lease)
    /\ cache' = [cache EXCEPT !.lease = None]
    /\ UNCHANGED <<db, outbox, job, writer, faults, lost>>

--------------------------------------------------------------------------------
WriterGoesOn(w) ==
    CommitTransaction(w) \/ EnqueueAfter(w)

JobGoesOn(j) ==
    \/ ListAfterAndReleaseDedup(j) \/ AccountEvent(j) \/ SkipGroup(j) \/ Advance(j)
    \/ AcquireLease(j) \/ ReadGroup(j) \/ ApplyDecision(j) \/ ReleaseLease(j)
    \/ StartRebuild(j)
    \/ Capture(j) \/ LoadForSingle(j) \/ TryLock(j) \/ LockBusy(j) \/ Load(j) \/ Allocate(j)
    \/ Activate(j) \/ Unlock(j)

Next ==
    \/ \E w \in Writers :
          \/ OpenTransaction(w) \/ Change(w) \/ WriterGoesOn(w)
          \/ Rollback(w) \/ EnqueueFails(w)
    \/ \E j \in Jobs : JobGoesOn(j) \/ GetSnapshotMisses(j) \/ JobFails(j)
    \/ LockLapses \/ LockLapsesEarly \/ LeaseLapses

(* Workers run on tickers and their calls end, locks and leases run out.     *)
(* Nothing is asked of writers and requests, which may stop halfway.         *)
Fairness ==
    /\ \A j \in Pollers \cup Rebuilders : WF_vars(JobGoesOn(j))
    /\ WF_vars(LockLapses) /\ WF_vars(LeaseLapses)

Spec == Init /\ [][Next]_vars /\ Fairness

--------------------------------------------------------------------------------
(* Properties. *)

(* The rows of the outbox, what Redis holds and who locks it are what the    *)
(* scripts and statements write; the watermark never passes the last row.    *)
TypeOK ==
    /\ db \in [account : 0..MaxChanges, group : 0..MaxChanges]
    /\ \A r \in DOMAIN outbox : outbox[r] \in
          [key : {"account", "group"}, state : {"pending", "committed", "void"}, open : BOOLEAN]
    /\ cache.watermark \in 0..Len(outbox)
    /\ cache.snapshot \in [members : Nat, since : Nat] \cup {None}
    /\ cache.epoch \in Nat \ {0} /\ cache.retired \in BOOLEAN
    /\ cache.lock \in Jobs \cup {None} /\ cache.lease \in Jobs \cup {None}
    /\ \A i \in DOMAIN cache.order : cache.order[i] \in Jobs
    /\ faults \in 0..MaxFaults

(* Nothing is under way and every visible row is behind the watermark. *)
Quiet ==
    /\ \A w \in Writers : WriterAt(w, "idle")
    /\ \A j \in Jobs : job[j].pc \in {"idle", "done"}
    /\ After(cache.watermark) = {}

(* pollOutbox: once all visible rows are handled, the snapshot that requests *)
(* choose from holds the account as it is, unless the event of a newer       *)
(* change could be lost: it committed behind the watermark or was folded     *)
(* into a row that did, it could not be inserted, its rebuild met a busy     *)
(* lock, or older data was published after it by a request, by a rebuild     *)
(* whose lock ran out, or by one that reused what it had loaded for the      *)
(* single bucket before it locked this one.                                  *)
SnapshotIsFresh ==
    Quiet /\ cache.snapshot # None
        => cache.snapshot.members = db.account \/ cache.snapshot.members < lost.account

(* prepareGroupLifecycle: once all visible rows are handled the bucket is    *)
(* retired exactly if its group is off, whoever decided last and however     *)
(* slowly, unless the event of the group's last change could be lost.        *)
GroupIsFollowed ==
    Quiet => (cache.retired <=> ~Active) \/ lost.group = db.group

(* activateSnapshotVersion: no published snapshot was loaded before the      *)
(* bucket was last retired, by whatever slow rebuild or request.             *)
LoadedSinceRetirement ==
    cache.snapshot # None => ~cache.retired /\ cache.snapshot.since = cache.epoch

(* The bucket shows the database: the account as it is, or nothing when the  *)
(* group is off.                                                             *)
Healed ==
    IF Active
    THEN cache.snapshot # None /\ cache.snapshot.members = db.account
    ELSE cache.snapshot = None

(* rebuildFullSnapshot: whatever was lost, skipped or left locked by a       *)
(* process that died, the bucket ends up showing the database.               *)
Heals == <>[]Healed
=============================================================================
