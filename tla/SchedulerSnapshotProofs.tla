------------------------ MODULE SchedulerSnapshotProofs ------------------------
(***************************************************************************)
(* Proofs about SchedulerSnapshot, for any number of processes, requests   *)
(* and writers, and any number of changes and faults.                      *)
(***************************************************************************)
EXTENDS SchedulerSnapshot, SequenceTheorems, WellFoundedInduction, TLAPS

-----------------------------------------------------------------------------
(* The inductive invariant.                                                *)

PCs == {"idle", "event", "advance", "lease", "decide", "apply", "release",
        "capture", "lock", "reuse", "load", "alloc", "activate", "unlock", "done"}

Rows    == [key : {"account", "group"}, state : {"pending", "committed", "void"},
            open : BOOLEAN]
JobRecs == [pc : PCs, batch : SUBSET Nat, last : Nat, seen : SUBSET {"members", "lifecycle"},
            on : BOOLEAN, token : Nat, loaded : Nat, since : Nat, early : BOOLEAN,
            strict : BOOLEAN, failed : BOOLEAN]
Caches  == [watermark : Nat, snapshot : [members : Nat, since : Nat] \cup {None},
            epoch : Nat \ {0}, retired : BOOLEAN, order : Seq(Jobs),
            lock : Jobs \cup {None}, lease : Jobs \cup {None}]

StoreOK ==
    /\ db \in [account : Nat, group : Nat] /\ lost \in [account : Nat, group : Nat]
    /\ outbox \in Seq(Rows)
    /\ cache \in Caches /\ cache.watermark <= Len(outbox)
    /\ faults \in 0..MaxFaults

\* A request only publishes; only a poller has events.
Fits(j, pc) ==
    /\ j \in Readers => pc \in {"idle", "capture", "load", "alloc", "activate", "done"}
    /\ j \in Pollers => pc \notin {"lease", "done"}
    /\ j \in Rebuilders => pc \notin {"event", "advance", "done"}

JobsOK == job \in [Jobs -> JobRecs] /\ \A j \in Jobs : Fits(j, job[j].pc)

\* The row of a transaction under way.
WriterOK(w) ==
    writer[w].pc = "open" =>
        /\ w \in InTransaction
        /\ writer[w].row \in DOMAIN outbox /\ outbox[writer[w].row].key = "account"

WritersOK ==
    /\ writer \in [Writers -> [pc : {"idle", "open", "enqueue"}, row : Nat]]
    /\ \A w \in Writers : WriterOK(w)

TypeInv == StoreOK /\ JobsOK /\ WritersOK

\* No row that was listed or deleted takes in a key.
RowInv ==
    /\ \A r \in DOMAIN outbox :
         /\ outbox[r].state = "void" => ~outbox[r].open
         /\ outbox[r].key = "group" => outbox[r].state # "pending"
    /\ \A p \in Pollers :
         /\ job[p].last <= Len(outbox)
         /\ job[p].last > 0 => ~outbox[job[p].last].open
         /\ "lifecycle" \in job[p].seen => "members" \in job[p].seen
         /\ job[p].batch \subseteq DOMAIN outbox

\* Whoever is about to decide holds the lease.
LeaseInv == \A j \in Jobs : InLease(j) => cache.lease = j

\* A token is never of an epoch to come; a retired bucket has outdated them all.
TokenInv ==
    /\ \A j \in Jobs :
         /\ job[j].token <= cache.epoch /\ job[j].since <= cache.epoch
         /\ cache.retired => job[j].token < cache.epoch
         /\ job[j].pc \in {"reuse", "alloc", "activate"} => job[j].token <= job[j].since
    /\ LoadedSinceRetirement

\* The versions that were read are not ahead.
VersionInv ==
    /\ lost.account <= db.account
    /\ cache.snapshot # None => cache.snapshot.members <= db.account
    /\ \A j \in Jobs : job[j].loaded <= db.account

-----------------------------------------------------------------------------
\* Row r has been written and will be listed, or every poller that is past it has
\* it still to handle.
Ahead(r, key) ==
    /\ r \in DOMAIN outbox /\ outbox[r].key = key /\ Committed(r) /\ r > cache.watermark

Announcing(key) == \E w \in Writers : WriterAt(w, "enqueue") /\ Key(w) = key

\* p has still to decide about the group for row r, or has decided as it is now.
Decides(p, r) ==
    /\ r \in job[p].batch /\ "lifecycle" \notin job[p].seen
    /\ \/ job[p].pc \in {"event", "decide"}
       \/ job[p].pc = "apply" /\ job[p].on = Active
       \/ /\ job[p].pc \in {"capture", "lock", "reuse", "load", "alloc", "activate", "unlock"}
          /\ EventKey(p) = "account"

GroupHeard ==
    \/ Announcing("group")
    \/ \E r \in DOMAIN outbox : Ahead(r, "group") /\
         \A p \in Pollers : job[p].last >= r => Decides(p, r)

GroupInv ==
    /\ (cache.retired <=> ~Active) \/ lost.group = db.group \/ GroupHeard
    /\ \A j \in Jobs : job[j].pc = "apply" =>
         job[j].on = Active \/ lost.group = db.group \/ GroupHeard

\* What p is to publish is the account as it is now, or will count as a loss.
CurrentOrEarly(p) == job[p].loaded = db.account \/ job[p].early

\* p has still to get at the lock for row r ...
Prepares(p, r) ==
    /\ r \in job[p].batch /\ "members" \notin job[p].seen
    /\ \/ job[p].pc \in {"event", "decide", "apply", "capture"}
       \/ job[p].pc = "release" /\ job[p].on /\ ~Fenced(p)
       \/ job[p].pc \in {"lock", "reuse"} /\ ~Fenced(p)

\* ... or will load, or has loaded, such a state, and its version is not dropped.
Rebuilds(p, r) ==
    \/ Prepares(p, r)
    \/ /\ r \in job[p].batch /\ "members" \notin job[p].seen /\ ~Fenced(p)
       /\ \/ job[p].pc = "load"
          \/ job[p].pc = "alloc" /\ CurrentOrEarly(p)
          \/ job[p].pc = "activate" /\ CurrentOrEarly(p) /\ Newest(p)

NobodyLocked ==
    \/ Announcing("account")
    \/ \E r \in DOMAIN outbox : Ahead(r, "account") /\
         \A p \in Pollers : job[p].last >= r => Prepares(p, r)

AccountHeard ==
    \/ Announcing("account")
    \/ \E r \in DOMAIN outbox : Ahead(r, "account") /\
         \A p \in Pollers : job[p].last >= r => Rebuilds(p, r)

\* A guarded job that is about to publish something old: its event is still to come.
MembersInv ==
    /\ cache.snapshot # None =>
         \/ cache.snapshot.members = db.account \/ cache.snapshot.members < lost.account
         \/ AccountHeard
    /\ \A j \in Jobs : job[j].pc \in {"alloc", "activate"} /\ ~Unguarded(j) =>
         \/ job[j].loaded = db.account \/ job[j].loaded < lost.account
         \/ NobodyLocked

\* One transaction at a time has the account, and leaves room for its change.
BoundInv ==
    /\ db.account <= MaxChanges /\ db.group <= MaxChanges
    /\ \A w \in Writers : writer[w].pc = "open" =>
         db.account < MaxChanges /\ \A u \in Writers : writer[u].pc = "open" => u = w

IInv == /\ TypeInv /\ RowInv /\ LeaseInv /\ TokenInv /\ VersionInv /\ GroupInv /\ MembersInv
        /\ BoundInv

-----------------------------------------------------------------------------
(* Facts every step needs.                                                 *)

LEMMA Constants ==
  /\ Pollers \cap Rebuilders = {} /\ Pollers \cap Readers = {} /\ Rebuilders \cap Readers = {}
  /\ None \notin Jobs /\ None \notin [members : Nat, since : Nat]
  /\ GroupWriters \subseteq Writers /\ InTransaction \subseteq Writers \ GroupWriters
  /\ MaxChanges \in Nat /\ MaxFaults \in Nat
  BY SnapshotAssumption

USE Constants

LEMMA MapRows ==
  ASSUME NEW s \in Seq(Rows), NEW t \in [DOMAIN s -> Rows]
  PROVE  t \in Seq(Rows) /\ DOMAIN t = DOMAIN s /\ Len(t) = Len(s)
  OBVIOUS

LEMMA RowsFields ==
  ASSUME StoreOK
  PROVE  /\ Len(outbox) \in Nat /\ DOMAIN outbox = 1..Len(outbox)
         /\ \A r \in DOMAIN outbox : outbox[r] \in Rows
  BY DEF StoreOK

LEMMA RestFields ==
  /\ Rest \in JobRecs /\ Rest.pc = "idle" /\ Rest.batch = {} /\ Rest.last = 0 /\ Rest.seen = {}
  /\ Rest.on = FALSE /\ Rest.token = 0 /\ Rest.loaded = 0 /\ Rest.since = 0
  BY DEF Rest, JobRecs, PCs

LEMMA JobFields ==
  ASSUME JobsOK, NEW j \in Jobs
  PROVE  job[j] \in JobRecs /\ Fits(j, job[j].pc)
  BY DEF JobsOK

-----------------------------------------------------------------------------
(* What an operator does to the job of an action.                          *)

Only(j) == \A k \in Jobs : k # j => job'[k] = job[k]

\* j goes on with what it does.
Goes(j) ==
    /\ job'[j].batch = job[j].batch /\ job'[j].last = job[j].last
    /\ job'[j].seen = job[j].seen

\* j forgets what it did, its batch included.
Quits(j) ==
    /\ job'[j].batch = {} /\ job'[j].last = 0 /\ job'[j].seen = {}
    /\ job'[j].token = 0 /\ job'[j].loaded = 0 /\ job'[j].since = 0
    /\ job'[j].pc \in {"idle", "done"}

\* A poller has handled an event of its batch.
Handles(j) ==
    /\ job'[j].batch = job[j].batch \ {First(j)} /\ job'[j].last = job[j].last
    /\ job'[j].seen = job[j].seen \cup
         IF EventKey(j) = "group" THEN {"members", "lifecycle"} ELSE {"members"}
    /\ job'[j].token = 0 /\ job'[j].loaded = 0 /\ job'[j].since = 0
    /\ job'[j].pc = IF job[j].batch = {First(j)} THEN "advance" ELSE "event"

\* What j did is over.
Ends(j) == (j \notin Pollers /\ Quits(j)) \/ (j \in Pollers /\ Handles(j))

LEMMA BecomesFields ==
  ASSUME JobsOK, NEW j \in Jobs, NEW rec \in JobRecs, Becomes(j, rec), Fits(j, rec.pc)
  PROVE  JobsOK' /\ Only(j) /\ job'[j] = rec
  <1>1. job' = [job EXCEPT ![j] = rec]
    BY DEF Becomes
  <1>2. Only(j) /\ job'[j] = rec /\ job' \in [Jobs -> JobRecs]
    BY <1>1 DEF JobsOK, Only
  <1>3. \A k \in Jobs : Fits(k, job'[k].pc)
    BY <1>2 DEF JobsOK, Only
  <1> QED
    BY <1>2, <1>3 DEF JobsOK

LEMMA GoToFields ==
  ASSUME JobsOK, NEW j \in Jobs, NEW pc \in PCs, GoTo(j, pc), Fits(j, pc)
  PROVE  /\ JobsOK' /\ Only(j) /\ Goes(j) /\ job'[j].pc = pc
         /\ job'[j].on = job[j].on /\ job'[j].token = job[j].token
         /\ job'[j].loaded = job[j].loaded /\ job'[j].since = job[j].since
         /\ job'[j].early = job[j].early
  <1> DEFINE rec == [job[j] EXCEPT !.pc = pc]
  <1>1. job[j] \in JobRecs
    BY JobFields
  <1>2. /\ rec \in JobRecs /\ rec.pc = pc /\ rec.batch = job[j].batch /\ rec.last = job[j].last
        /\ rec.seen = job[j].seen /\ rec.on = job[j].on /\ rec.token = job[j].token
        /\ rec.loaded = job[j].loaded /\ rec.since = job[j].since /\ rec.early = job[j].early
    BY <1>1 DEF JobRecs
  <1>3. Becomes(j, rec)
    BY DEF GoTo
  <1> HIDE DEF rec
  <1>4. JobsOK' /\ Only(j) /\ job'[j] = rec
    BY <1>2, <1>3, BecomesFields
  <1> QED
    BY <1>2, <1>4 DEF Goes

LEMMA OverFields ==
  ASSUME JobsOK, NEW j \in Jobs, Becomes(j, Over(j))
  PROVE  JobsOK' /\ Only(j) /\ Quits(j) /\ job'[j].on = FALSE
  <1> DEFINE rec == Over(j)
  <1>1. /\ rec \in JobRecs /\ rec.pc = IF j \in Readers THEN "done" ELSE "idle"
        /\ rec.batch = {} /\ rec.last = 0 /\ rec.seen = {} /\ rec.on = FALSE
        /\ rec.token = 0 /\ rec.loaded = 0 /\ rec.since = 0
    BY RestFields DEF Over, JobRecs, PCs
  <1>2. Becomes(j, rec)
    OBVIOUS
  <1> HIDE DEF rec
  <1>3. Fits(j, rec.pc)
    BY <1>1 DEF Fits
  <1>4. JobsOK' /\ Only(j) /\ job'[j] = rec
    BY <1>1, <1>2, <1>3, BecomesFields
  <1> QED
    BY <1>1, <1>4 DEF Quits

LEMMA DoneFields ==
  ASSUME JobsOK, NEW j \in Jobs, Becomes(j, Done(j))
  PROVE  JobsOK' /\ Only(j) /\ Ends(j) /\ job'[j].on = FALSE
  <1>1. CASE j \notin Pollers
    BY <1>1, OverFields DEF Done, Ends
  <1>2. CASE j \in Pollers
    <2> DEFINE more == IF EventKey(j) = "group" THEN {"members", "lifecycle"} ELSE {"members"}
               next == IF job[j].batch = {First(j)} THEN "advance" ELSE "event"
               seen == job[j].seen \cup more
               left == job[j].batch \ {First(j)}
               last == job[j].last
               rec  == [Rest EXCEPT !.pc = next, !.batch = left, !.last = last, !.seen = seen]
    <2>1. job[j] \in JobRecs
      BY JobFields
    <2>2. /\ next \in {"event", "advance"} /\ seen \in SUBSET {"members", "lifecycle"}
          /\ left \in SUBSET Nat /\ last \in Nat
      BY <2>1 DEF JobRecs
    <2>3. Becomes(j, rec)
      BY <1>2 DEF Done
    <2> HIDE DEF next, seen, left, last
    <2>4. /\ rec \in JobRecs /\ rec.pc = next /\ rec.batch = left /\ rec.last = last
          /\ rec.seen = seen /\ rec.on = FALSE
          /\ rec.token = 0 /\ rec.loaded = 0 /\ rec.since = 0
      BY <2>2, RestFields DEF JobRecs, PCs
    <2> HIDE DEF rec
    <2>5. Fits(j, rec.pc)
      BY <1>2, <2>2, <2>4 DEF Fits
    <2>6. JobsOK' /\ Only(j) /\ job'[j] = rec
      BY <2>3, <2>4, <2>5, BecomesFields
    <2>7. Handles(j)
      BY <2>2, <2>4, <2>6 DEF Handles, next, seen, left, last
    <2> QED
      BY <1>2, <2>4, <2>6, <2>7 DEF Ends
  <1> QED
    BY <1>1, <1>2

LEMMA PublishedFields ==
  ASSUME JobsOK, NEW j \in Jobs, NEW fenced \in BOOLEAN, Becomes(j, Published(j, fenced)),
         job[j].pc \in {"alloc", "activate"}
  PROVE  /\ JobsOK' /\ Only(j)
         /\ \/ j \notin Pollers /\ Quits(j)
            \/ Goes(j) /\ job'[j].pc = "unlock"
         /\ job'[j].token = 0 /\ job'[j].loaded = 0 /\ job'[j].since = 0
  <1>1. CASE j \in Readers
    BY <1>1, OverFields DEF Published, Quits
  <1>2. CASE j \notin Readers
    <2> DEFINE failed == fenced /\ job[j].strict
               rec == [job[j] EXCEPT !.pc = "unlock", !.failed = failed,
                         !.token = 0, !.loaded = 0, !.since = 0, !.early = FALSE,
                         !.strict = FALSE]
    <2>1. job[j] \in JobRecs /\ failed \in BOOLEAN
      BY JobFields DEF JobRecs
    <2>2. Becomes(j, rec)
      BY <1>2 DEF Published
    <2> HIDE DEF failed
    <2>3. /\ rec \in JobRecs /\ rec.pc = "unlock" /\ rec.batch = job[j].batch
          /\ rec.last = job[j].last /\ rec.seen = job[j].seen
          /\ rec.token = 0 /\ rec.loaded = 0 /\ rec.since = 0
      BY <2>1 DEF JobRecs, PCs
    <2> HIDE DEF rec
    <2>4. Fits(j, rec.pc)
      BY <1>2, <2>3 DEF Fits
    <2>5. JobsOK' /\ Only(j) /\ job'[j] = rec
      BY <2>2, <2>3, <2>4, BecomesFields
    <2> QED
      BY <2>3, <2>5 DEF Goes
  <1> QED
    BY <1>1, <1>2

-----------------------------------------------------------------------------
(* What the steps of a job do.                                             *)

\* The store is as it was, but for what is lost.
StoreKept == UNCHANGED <<db, outbox, cache, writer>>
\* Nobody is fenced, nor is anything published.
ShotKept ==
    /\ cache'.watermark = cache.watermark /\ cache'.snapshot = cache.snapshot
    /\ cache'.epoch = cache.epoch /\ cache'.retired = cache.retired

LEMMA KeptType ==
  ASSUME TypeInv, StoreKept, JobsOK', faults' \in 0..MaxFaults, lost' \in [account : Nat, group : Nat]
  PROVE  TypeInv'
  <1>1. StoreOK'
    BY DEF TypeInv, StoreKept, StoreOK
  <1>2. WritersOK'
    BY DEF TypeInv, StoreKept, WritersOK, WriterOK
  <1> QED
    BY <1>1, <1>2 DEF TypeInv

\* The rows keep their keys, and none opens.
RowsKept ==
    /\ DOMAIN outbox' = DOMAIN outbox /\ Len(outbox') = Len(outbox)
    /\ \A r \in DOMAIN outbox :
         /\ outbox'[r].key = outbox[r].key
         /\ outbox'[r].open => outbox[r].open

LEMMA ListStep ==
  ASSUME TypeInv, NEW j \in Jobs, ListAfterAndReleaseDedup(j)
  PROVE  /\ TypeInv' /\ Only(j) /\ UNCHANGED <<db, cache, writer, faults, lost>>
         /\ j \in Pollers /\ job[j].pc = "idle" /\ job'[j].pc = "event"
         /\ job'[j].batch = After(cache.watermark) /\ job'[j].last \in After(cache.watermark)
         /\ job'[j].seen = {}
         /\ job'[j].token = 0 /\ job'[j].loaded = 0 /\ job'[j].since = 0
         /\ RowsKept
         /\ \A r \in DOMAIN outbox : outbox'[r].state = outbox[r].state
         /\ \A r \in After(cache.watermark) : ~outbox'[r].open
  <1> DEFINE rows == After(cache.watermark)
  <1>1. StoreOK /\ JobsOK /\ WritersOK
    BY DEF TypeInv
  <1>2. rows \subseteq DOMAIN outbox /\ rows \in SUBSET Nat
    BY <1>1, RowsFields DEF After
  <1>3. /\ j \in Pollers /\ job[j].pc = "idle" /\ Listed(j, rows)
        /\ outbox' = [r \in DOMAIN outbox |-> [outbox[r] EXCEPT !.open = @ /\ r \notin rows]]
        /\ UNCHANGED <<db, cache, writer, faults, lost>>
    BY DEF ListAfterAndReleaseDedup, At
  <1> HIDE DEF rows
  <1>4. PICK last \in rows :
          Becomes(j, [Rest EXCEPT !.pc = "event", !.batch = rows, !.last = last])
    BY <1>3 DEF Listed
  <1> DEFINE rec == [Rest EXCEPT !.pc = "event", !.batch = rows, !.last = last]
  <1>5. /\ rec \in JobRecs /\ rec.pc = "event" /\ rec.batch = rows /\ rec.last = last
        /\ rec.seen = {} /\ rec.token = 0 /\ rec.loaded = 0 /\ rec.since = 0
    BY <1>2, <1>4, RestFields DEF JobRecs, PCs
  <1>6. Becomes(j, rec)
    BY <1>4
  <1> HIDE DEF rec
  <1>7. Fits(j, rec.pc)
    BY <1>3, <1>5 DEF Fits
  <1>8. JobsOK' /\ Only(j) /\ job'[j] = rec
    BY <1>1, <1>5, <1>6, <1>7, BecomesFields
  <1>9. \A r \in DOMAIN outbox : /\ outbox'[r] \in Rows
                                 /\ outbox'[r].key = outbox[r].key
                                 /\ outbox'[r].state = outbox[r].state
                                 /\ outbox'[r].open = (outbox[r].open /\ r \notin rows)
    <2> SUFFICES ASSUME NEW r \in DOMAIN outbox
                 PROVE  /\ outbox'[r] \in Rows
                        /\ outbox'[r].key = outbox[r].key
                        /\ outbox'[r].state = outbox[r].state
                        /\ outbox'[r].open = (outbox[r].open /\ r \notin rows)
      OBVIOUS
    <2> DEFINE open == outbox[r].open /\ r \notin rows
    <2>1. outbox[r] \in Rows /\ open \in BOOLEAN
      BY <1>1, RowsFields DEF Rows
    <2>2. outbox'[r] = [outbox[r] EXCEPT !.open = open]
      BY <1>3
    <2> HIDE DEF open
    <2>3. /\ outbox'[r] \in Rows /\ outbox'[r].key = outbox[r].key
          /\ outbox'[r].state = outbox[r].state /\ outbox'[r].open = open
      BY <2>1, <2>2 DEF Rows
    <2> QED
      BY <2>3 DEF open
  <1>10. outbox' \in Seq(Rows) /\ DOMAIN outbox' = DOMAIN outbox /\ Len(outbox') = Len(outbox)
    <2>1. outbox' \in [DOMAIN outbox -> Rows]
      BY <1>3, <1>9
    <2> QED
      BY <1>1, <2>1, MapRows DEF StoreOK
  <1>11. RowsKept
    BY <1>9, <1>10 DEF RowsKept
  <1>12. StoreOK'
    BY <1>1, <1>3, <1>10 DEF StoreOK
  <1>13. WritersOK'
    BY <1>1, <1>3, <1>9, <1>10 DEF WritersOK, WriterOK
  <1>14. TypeInv'
    BY <1>8, <1>12, <1>13 DEF TypeInv
  <1> QED
    BY <1>2, <1>3, <1>4, <1>5, <1>8, <1>9, <1>11, <1>14 DEF rows

LEMMA EventStep ==
  ASSUME TypeInv, NEW j \in Jobs, AccountEvent(j) \/ SkipGroup(j)
  PROVE  /\ TypeInv' /\ Only(j) /\ StoreKept /\ UNCHANGED <<faults, lost>>
         /\ j \in Pollers /\ job[j].pc = "event"
         /\ \/ EventKey(j) = "account" /\ "members" \in job[j].seen /\ Handles(j)
            \/ EventKey(j) = "group" /\ "lifecycle" \in job[j].seen /\ Handles(j)
            \/ /\ EventKey(j) = "account" /\ Goes(j) /\ job'[j].pc = "capture"
               /\ job'[j].token = job[j].token /\ job'[j].loaded = job[j].loaded
               /\ job'[j].since = job[j].since
  <1>1. JobsOK /\ StoreOK
    BY DEF TypeInv
  <1>2. job[j].pc = "event" /\ StoreKept /\ UNCHANGED <<faults, lost>>
    BY DEF AccountEvent, SkipGroup, At, StoreKept
  <1>3. j \in Pollers
    BY <1>1, <1>2, JobFields DEF Fits, Jobs
  <1>4. faults' \in 0..MaxFaults /\ lost' \in [account : Nat, group : Nat]
    BY <1>1, <1>2 DEF StoreOK
  <1>5. ASSUME JobsOK'
        PROVE  TypeInv'
    BY <1>2, <1>4, <1>5, KeptType
  <1>6. CASE Becomes(j, Done(j))
    <2>1. JobsOK' /\ Only(j) /\ Handles(j)
      BY <1>1, <1>3, <1>6, DoneFields DEF Ends
    <2>2. \/ EventKey(j) = "account" /\ "members" \in job[j].seen
          \/ EventKey(j) = "group" /\ "lifecycle" \in job[j].seen
          \/ EventKey(j) = "account" /\ Becomes(j, [job[j] EXCEPT !.pc = "capture"])
      BY DEF AccountEvent, SkipGroup
    <2>3. ~Becomes(j, [job[j] EXCEPT !.pc = "capture"])
      <3>1. job'[j].pc # "capture"
        BY <2>1 DEF Handles
      <3> QED
        BY <1>1, <3>1, JobFields DEF Becomes, JobsOK, JobRecs
    <2> QED
      BY <1>2, <1>3, <1>5, <2>1, <2>2, <2>3
  <1>7. CASE EventKey(j) = "account" /\ Becomes(j, [job[j] EXCEPT !.pc = "capture"])
    <2>1. GoTo(j, "capture") /\ Fits(j, "capture")
      BY <1>3, <1>7 DEF GoTo, Fits
    <2>2. /\ JobsOK' /\ Only(j) /\ Goes(j) /\ job'[j].pc = "capture"
          /\ job'[j].token = job[j].token /\ job'[j].loaded = job[j].loaded
          /\ job'[j].since = job[j].since
      BY <1>1, <2>1, GoToFields DEF PCs
    <2> QED
      BY <1>2, <1>3, <1>5, <1>7, <2>2
  <1> QED
    BY <1>6, <1>7 DEF AccountEvent, SkipGroup

\* The cache alone changes, or the cache and what is lost.
LEMMA CacheType ==
  ASSUME TypeInv, UNCHANGED <<db, outbox, writer>>, JobsOK', cache' \in Caches,
         cache'.watermark <= Len(outbox), faults' \in 0..MaxFaults,
         lost' \in [account : Nat, group : Nat]
  PROVE  TypeInv'
  <1>1. StoreOK'
    BY DEF TypeInv, StoreOK
  <1>2. WritersOK'
    BY DEF TypeInv, WritersOK, WriterOK
  <1> QED
    BY <1>1, <1>2 DEF TypeInv

LEMMA AdvanceStep ==
  ASSUME TypeInv, RowInv, NEW j \in Jobs, Advance(j)
  PROVE  /\ TypeInv' /\ Only(j) /\ UNCHANGED <<db, writer, faults, lost>>
         /\ j \in Pollers /\ job[j].pc = "advance" /\ Quits(j)
         /\ cache'.watermark = job[j].last
         /\ cache'.snapshot = cache.snapshot /\ cache'.order = cache.order
         /\ cache'.epoch = cache.epoch /\ cache'.retired = cache.retired
         /\ cache'.lock = cache.lock /\ cache'.lease = cache.lease
         /\ RowsKept
         /\ \A r \in DOMAIN outbox :
              \/ outbox'[r] = outbox[r]
              \/ r <= job[j].last /\ outbox'[r].state = "void" /\ ~outbox'[r].open
  <1>1. StoreOK /\ JobsOK /\ WritersOK /\ cache \in Caches
    BY DEF TypeInv, StoreOK
  <1>2. /\ job[j].pc = "advance" /\ cache' = [cache EXCEPT !.watermark = job[j].last]
        /\ UNCHANGED <<db, writer, faults, lost>>
    BY DEF Advance, At
  <1>3. j \in Pollers
    BY <1>1, <1>2, JobFields DEF Fits, Jobs
  <1>4. JobsOK' /\ Only(j) /\ Quits(j)
    <2>1. Becomes(j, Over(j))
      BY <1>3 DEF Advance, Over
    <2> QED
      BY <1>1, <2>1, OverFields
  <1>5. job[j].last \in Nat /\ job[j].last <= Len(outbox)
    BY <1>1, <1>3, JobFields DEF RowInv, JobRecs
  <1>6. PICK old \in BOOLEAN : outbox' = [r \in DOMAIN outbox |->
            IF r <= job[j].last /\ Committed(r) /\ (old \/ ~outbox[r].open)
            THEN Deleted(outbox[r]) ELSE outbox[r]]
    BY DEF Advance
  <1>7. \A r \in DOMAIN outbox :
          /\ Deleted(outbox[r]) \in Rows /\ Deleted(outbox[r]).key = outbox[r].key
          /\ Deleted(outbox[r]).state = "void" /\ Deleted(outbox[r]).open = FALSE
    BY <1>1, RowsFields DEF Deleted, Rows
  <1>8. \A r \in DOMAIN outbox :
          /\ outbox'[r] \in Rows /\ outbox'[r].key = outbox[r].key
          /\ outbox'[r].open => outbox[r].open
          /\ \/ outbox'[r] = outbox[r]
             \/ r <= job[j].last /\ outbox'[r].state = "void" /\ ~outbox'[r].open
    BY <1>1, <1>6, <1>7, RowsFields
  <1>9. outbox' \in Seq(Rows) /\ DOMAIN outbox' = DOMAIN outbox /\ Len(outbox') = Len(outbox)
    <2>1. outbox' \in [DOMAIN outbox -> Rows]
      BY <1>6, <1>8
    <2> QED
      BY <1>1, <2>1, MapRows DEF StoreOK
  <1>10. RowsKept
    BY <1>8, <1>9 DEF RowsKept
  <1>11. /\ cache' \in Caches /\ cache'.watermark = job[j].last
         /\ cache'.snapshot = cache.snapshot /\ cache'.order = cache.order
         /\ cache'.epoch = cache.epoch /\ cache'.retired = cache.retired
         /\ cache'.lock = cache.lock /\ cache'.lease = cache.lease
    BY <1>1, <1>2, <1>5 DEF Caches
  <1>12. StoreOK'
    BY <1>1, <1>2, <1>5, <1>9, <1>11 DEF StoreOK
  <1>13. WritersOK'
    BY <1>1, <1>2, <1>8, <1>9 DEF WritersOK, WriterOK
  <1>14. TypeInv'
    BY <1>4, <1>12, <1>13 DEF TypeInv
  <1> QED
    BY <1>2, <1>3, <1>4, <1>8, <1>10, <1>11, <1>14

LEMMA LeaseStep ==
  ASSUME TypeInv, NEW j \in Jobs, AcquireLease(j)
  PROVE  /\ TypeInv' /\ Only(j) /\ UNCHANGED <<db, outbox, writer, faults, lost>> /\ ShotKept
         /\ cache'.order = cache.order /\ cache'.lock = cache.lock
         /\ job[j].pc \in {"lease", "event"}
         /\ \/ /\ Goes(j) /\ job'[j].pc = "decide" /\ cache.lease = None /\ cache'.lease = j
               /\ job'[j].token = job[j].token /\ job'[j].loaded = job[j].loaded
               /\ job'[j].since = job[j].since
            \/ Quits(j) /\ cache'.lease = cache.lease
  <1>1. StoreOK /\ JobsOK /\ WritersOK /\ cache \in Caches
    BY DEF TypeInv, StoreOK
  <1>2. job[j].pc \in {"lease", "event"} /\ UNCHANGED <<db, outbox, writer, faults, lost>>
    BY DEF AcquireLease, At
  <1>3. CASE cache.lease = None
    <2>1. cache' = [cache EXCEPT !.lease = j] /\ GoTo(j, "decide")
      BY <1>3 DEF AcquireLease
    <2>2. Fits(j, "decide")
      BY <1>1, <1>2, JobFields DEF Fits
    <2>3. /\ JobsOK' /\ Only(j) /\ Goes(j) /\ job'[j].pc = "decide"
          /\ job'[j].token = job[j].token /\ job'[j].loaded = job[j].loaded
          /\ job'[j].since = job[j].since
      BY <1>1, <2>1, <2>2, GoToFields DEF PCs
    <2>4. /\ cache' \in Caches /\ ShotKept /\ cache'.order = cache.order
          /\ cache'.lock = cache.lock /\ cache'.lease = j
      BY <1>1, <2>1 DEF Caches, ShotKept
    <2>5. TypeInv'
      BY <1>1, <1>2, <2>3, <2>4, CacheType DEF StoreOK, ShotKept
    <2> QED
      BY <1>2, <1>3, <2>3, <2>4, <2>5
  <1>4. CASE cache.lease # None
    <2>1. Becomes(j, Over(j)) /\ cache' = cache
      BY <1>4 DEF AcquireLease
    <2>2. JobsOK' /\ Only(j) /\ Quits(j)
      BY <1>1, <2>1, OverFields
    <2>3. TypeInv'
      BY <1>1, <1>2, <2>1, <2>2, CacheType DEF StoreOK
    <2> QED
      BY <1>2, <2>1, <2>2, <2>3 DEF ShotKept
  <1> QED
    BY <1>3, <1>4

LEMMA ReadGroupStep ==
  ASSUME TypeInv, NEW j \in Jobs, ReadGroup(j)
  PROVE  /\ TypeInv' /\ Only(j) /\ StoreKept /\ UNCHANGED <<faults, lost>>
         /\ job[j].pc = "decide" /\ job'[j].pc = "apply" /\ job'[j].on = Active /\ Goes(j)
         /\ job'[j].token = job[j].token /\ job'[j].loaded = job[j].loaded
         /\ job'[j].since = job[j].since
  <1>1. StoreOK /\ JobsOK
    BY DEF TypeInv
  <1>2. job[j].pc = "decide" /\ StoreKept /\ UNCHANGED <<faults, lost>>
    BY DEF ReadGroup, At, StoreKept
  <1> DEFINE on  == Active
             rec == [job[j] EXCEPT !.pc = "apply", !.on = on]
  <1>3. on \in BOOLEAN /\ job[j] \in JobRecs
    BY <1>1, JobFields DEF Active
  <1>8. Becomes(j, rec)
    BY DEF ReadGroup
  <1> HIDE DEF on
  <1>4. /\ rec \in JobRecs /\ rec.pc = "apply" /\ rec.on = on /\ rec.batch = job[j].batch
        /\ rec.last = job[j].last /\ rec.seen = job[j].seen /\ rec.token = job[j].token
        /\ rec.loaded = job[j].loaded /\ rec.since = job[j].since
    BY <1>3 DEF JobRecs, PCs
  <1> HIDE DEF rec
  <1>5. Fits(j, rec.pc)
    BY <1>1, <1>2, <1>4, JobFields DEF Fits
  <1>6. JobsOK' /\ Only(j) /\ job'[j] = rec
    BY <1>1, <1>4, <1>5, <1>8, BecomesFields
  <1>7. TypeInv'
    BY <1>1, <1>2, <1>6, KeptType DEF StoreOK
  <1> QED
    BY <1>2, <1>4, <1>6, <1>7 DEF Goes, on

LEMMA ApplyStep ==
  ASSUME TypeInv, NEW j \in Jobs, ApplyDecision(j)
  PROVE  /\ TypeInv' /\ Only(j) /\ UNCHANGED <<db, outbox, writer, faults>>
         /\ cache'.watermark = cache.watermark
         /\ cache'.lock = cache.lock /\ cache'.lease = cache.lease
         /\ job[j].pc = "apply" /\ job'[j].pc = "release" /\ Goes(j)
         /\ job'[j].on = job[j].on /\ job[j].on \in BOOLEAN
         /\ job'[j].loaded = job[j].loaded /\ job'[j].since = job[j].since
         /\ job'[j].token = IF job[j].on THEN cache'.epoch ELSE 0
         /\ lost'.account = lost.account
         /\ lost' = IF job[j].on = Active THEN [lost EXCEPT !.group = 0] ELSE lost
         /\ IF job[j].on
            THEN /\ cache'.retired = FALSE /\ cache'.epoch = cache.epoch
                 /\ cache'.order = cache.order
                 /\ IF cache.retired THEN cache'.snapshot = None ELSE cache' = cache
            ELSE /\ cache'.retired = TRUE /\ cache'.snapshot = None
                 /\ cache'.epoch = IF cache.retired THEN cache.epoch ELSE cache.epoch + 1
  <1>1. StoreOK /\ JobsOK /\ cache \in Caches
    BY DEF TypeInv, StoreOK
  <1>2. /\ job[j].pc = "apply" /\ UNCHANGED <<db, outbox, writer, faults>>
        /\ cache' = IF job[j].on THEN Reopened ELSE Retired
        /\ lost' = IF job[j].on = Active THEN [lost EXCEPT !.group = 0] ELSE lost
    BY DEF ApplyDecision, At
  <1>3. job[j] \in JobRecs /\ job[j].on \in BOOLEAN
    BY <1>1, JobFields DEF JobRecs
  <1>4. /\ cache' \in Caches /\ cache'.watermark = cache.watermark
        /\ cache'.lock = cache.lock /\ cache'.lease = cache.lease
        /\ IF job[j].on
           THEN /\ cache'.retired = FALSE /\ cache'.epoch = cache.epoch
                /\ cache'.order = cache.order
                /\ IF cache.retired THEN cache'.snapshot = None ELSE cache' = cache
           ELSE /\ cache'.retired = TRUE /\ cache'.snapshot = None
                /\ cache'.epoch = IF cache.retired THEN cache.epoch ELSE cache.epoch + 1
    <2>1. CASE job[j].on /\ cache.retired
      <3>1. cache' = [cache EXCEPT !.retired = FALSE, !.snapshot = None]
        BY <1>2, <2>1 DEF Reopened
      <3> QED
        BY <1>1, <2>1, <3>1 DEF Caches
    <2>2. CASE job[j].on /\ ~cache.retired
      BY <1>1, <1>2, <2>2 DEF Reopened, Caches
    <2>3. CASE ~job[j].on
      <3> DEFINE epoch == IF cache.retired THEN cache.epoch ELSE cache.epoch + 1
                 none  == <<>>
      <3>1. cache' = [cache EXCEPT !.retired = TRUE, !.snapshot = None, !.order = none,
                                   !.epoch = epoch]
        BY <1>2, <2>3 DEF Retired
      <3>2. epoch \in Nat \ {0} /\ none \in Seq(Jobs)
        BY <1>1 DEF Caches
      <3> HIDE DEF epoch, none
      <3>3. /\ cache' \in Caches /\ cache'.watermark = cache.watermark
            /\ cache'.lock = cache.lock /\ cache'.lease = cache.lease
            /\ cache'.retired = TRUE /\ cache'.snapshot = None /\ cache'.epoch = epoch
        BY <1>1, <3>1, <3>2 DEF Caches
      <3> QED
        BY <2>3, <3>3 DEF epoch
    <2> QED
      BY <1>3, <2>1, <2>2, <2>3
  <1> DEFINE token == IF job[j].on THEN cache'.epoch ELSE 0
             rec   == [job[j] EXCEPT !.pc = "release", !.token = token]
  <1>5. token \in Nat /\ Becomes(j, rec)
    BY <1>4 DEF ApplyDecision, Caches
  <1> HIDE DEF token
  <1>6. /\ rec \in JobRecs /\ rec.pc = "release" /\ rec.on = job[j].on
        /\ rec.batch = job[j].batch /\ rec.last = job[j].last /\ rec.seen = job[j].seen
        /\ rec.token = token /\ rec.loaded = job[j].loaded /\ rec.since = job[j].since
    BY <1>3, <1>5 DEF JobRecs, PCs
  <1> HIDE DEF rec
  <1>7. Fits(j, rec.pc)
    BY <1>1, <1>2, <1>6, JobFields DEF Fits
  <1>8. JobsOK' /\ Only(j) /\ job'[j] = rec
    BY <1>1, <1>5, <1>6, <1>7, BecomesFields
  <1>9. lost' \in [account : Nat, group : Nat] /\ lost'.account = lost.account
    BY <1>1, <1>2 DEF StoreOK
  <1>10. TypeInv'
    BY <1>1, <1>2, <1>4, <1>8, <1>9, CacheType DEF StoreOK
  <1> QED
    BY <1>2, <1>3, <1>4, <1>6, <1>8, <1>9, <1>10 DEF Goes, token

LEMMA ReleaseStep ==
  ASSUME TypeInv, NEW j \in Jobs, ReleaseLease(j)
  PROVE  /\ TypeInv' /\ Only(j) /\ UNCHANGED <<db, outbox, writer, faults, lost>> /\ ShotKept
         /\ cache'.order = cache.order /\ cache'.lock = cache.lock
         /\ cache'.lease = IF cache.lease = j THEN None ELSE cache.lease
         /\ job[j].pc = "release"
         /\ \/ Quits(j)
            \/ /\ job[j].on /\ Goes(j) /\ job'[j].pc = "lock"
               /\ job'[j].token = job[j].token /\ job'[j].loaded = job[j].loaded
               /\ job'[j].since = job[j].since
            \/ ~job[j].on /\ Ends(j)
  <1>1. StoreOK /\ JobsOK /\ cache \in Caches
    BY DEF TypeInv, StoreOK
  <1>2. /\ job[j].pc = "release" /\ UNCHANGED <<db, outbox, writer, faults, lost>>
        /\ cache' = [cache EXCEPT !.lease = IF cache.lease = j THEN None ELSE cache.lease]
    BY DEF ReleaseLease, At
  <1>3. /\ cache' \in Caches /\ ShotKept /\ cache'.order = cache.order
        /\ cache'.lock = cache.lock
        /\ cache'.lease = IF cache.lease = j THEN None ELSE cache.lease
    BY <1>1, <1>2 DEF Caches, ShotKept
  <1>4. ASSUME JobsOK'
        PROVE  TypeInv'
    BY <1>1, <1>2, <1>3, <1>4, CacheType DEF StoreOK, ShotKept
  <1>5. CASE cache.lease # j
    <2>1. Becomes(j, Over(j))
      BY <1>5 DEF ReleaseLease
    <2> QED
      BY <1>1, <1>2, <1>3, <1>4, <2>1, OverFields
  <1>6. CASE cache.lease = j /\ job[j].on
    <2> DEFINE rec == [job[j] EXCEPT !.pc = "lock", !.on = FALSE, !.strict = TRUE]
    <2>1. Becomes(j, rec)
      BY <1>6 DEF ReleaseLease
    <2>2. job[j] \in JobRecs
      BY <1>1, JobFields
    <2>3. /\ rec \in JobRecs /\ rec.pc = "lock" /\ rec.batch = job[j].batch
          /\ rec.last = job[j].last /\ rec.seen = job[j].seen
          /\ rec.token = job[j].token /\ rec.loaded = job[j].loaded /\ rec.since = job[j].since
      BY <2>2 DEF JobRecs, PCs
    <2> HIDE DEF rec
    <2>4. Fits(j, rec.pc)
      BY <1>1, <1>2, <2>3, JobFields DEF Fits
    <2>5. JobsOK' /\ Only(j) /\ job'[j] = rec
      BY <1>1, <2>1, <2>3, <2>4, BecomesFields
    <2> QED
      BY <1>2, <1>3, <1>4, <1>6, <2>3, <2>5 DEF Goes
  <1>7. CASE cache.lease = j /\ ~job[j].on
    <2>1. Becomes(j, Done(j))
      BY <1>7 DEF ReleaseLease
    <2> QED
      BY <1>1, <1>2, <1>3, <1>4, <1>7, <2>1, DoneFields
  <1> QED
    BY <1>5, <1>6, <1>7

LEMMA StartStep ==
  ASSUME TypeInv, NEW j \in Jobs, StartRebuild(j) \/ GetSnapshotMisses(j)
  PROVE  /\ TypeInv' /\ Only(j) /\ StoreKept /\ lost' = lost
         /\ j \notin Pollers /\ Goes(j)
         /\ job[j].pc = "idle" /\ job'[j].pc \in {"capture", "lease", "idle"}
         /\ job'[j].token = job[j].token /\ job'[j].loaded = job[j].loaded
         /\ job'[j].since = job[j].since
  <1>1. StoreOK /\ JobsOK
    BY DEF TypeInv
  <1>2. CASE StartRebuild(j)
    <2> DEFINE pc == IF Active THEN "capture" ELSE IF cache.snapshot # None THEN "lease" ELSE "idle"
    <2>1. GoTo(j, pc) /\ pc \in {"capture", "lease", "idle"}
      BY <1>2 DEF StartRebuild
    <2>2. j \in Rebuilders /\ job[j].pc = "idle" /\ StoreKept /\ UNCHANGED <<faults, lost>>
      BY <1>2 DEF StartRebuild, At, StoreKept
    <2> HIDE DEF pc
    <2>3. Fits(j, pc)
      BY <2>1, <2>2 DEF Fits
    <2>4. /\ JobsOK' /\ Only(j) /\ Goes(j) /\ job'[j].pc = pc
          /\ job'[j].token = job[j].token /\ job'[j].loaded = job[j].loaded
          /\ job'[j].since = job[j].since
      BY <1>1, <2>1, <2>3, GoToFields DEF PCs
    <2>5. TypeInv'
      BY <1>1, <2>2, <2>4, KeptType DEF StoreOK
    <2> QED
      BY <2>1, <2>2, <2>4, <2>5
  <1>3. CASE GetSnapshotMisses(j)
    <2>1. /\ j \in Readers /\ job[j].pc = "idle" /\ StoreKept /\ lost' = lost
          /\ faults < MaxFaults /\ faults' = faults + 1 /\ GoTo(j, "capture")
      BY <1>3 DEF GetSnapshotMisses, At, StoreKept
    <2>2. Fits(j, "capture")
      BY <2>1 DEF Fits
    <2>3. /\ JobsOK' /\ Only(j) /\ Goes(j) /\ job'[j].pc = "capture"
          /\ job'[j].token = job[j].token /\ job'[j].loaded = job[j].loaded
          /\ job'[j].since = job[j].since
      BY <1>1, <2>1, <2>2, GoToFields DEF PCs
    <2>4. TypeInv'
      BY <1>1, <2>1, <2>3, KeptType DEF StoreOK
    <2> QED
      BY <2>1, <2>3, <2>4
  <1> QED
    BY <1>2, <1>3

LEMMA CaptureStep ==
  ASSUME TypeInv, NEW j \in Jobs, Capture(j)
  PROVE  /\ TypeInv' /\ Only(j) /\ StoreKept /\ UNCHANGED <<faults, lost>>
         /\ job[j].pc = "capture"
         /\ \/ /\ ~cache.retired /\ Goes(j) /\ job'[j].pc \in {"load", "lock"}
               /\ j \in Pollers => job'[j].pc = "lock"
               /\ job'[j].token = cache.epoch /\ job'[j].loaded = job[j].loaded
               /\ job'[j].since = job[j].since
            \/ /\ cache.retired /\ j \notin Pollers /\ Goes(j) /\ job'[j].pc = "lease"
               /\ job'[j].token = job[j].token /\ job'[j].loaded = job[j].loaded
               /\ job'[j].since = job[j].since
            \/ cache.retired /\ Ends(j)
  <1>1. StoreOK /\ JobsOK
    BY DEF TypeInv
  <1>2. job[j].pc = "capture" /\ StoreKept /\ UNCHANGED <<faults, lost>>
    BY DEF Capture, At, StoreKept
  <1>3. job[j] \in JobRecs
    BY <1>1, JobFields
  <1>4. ASSUME JobsOK'
        PROVE  TypeInv'
    BY <1>1, <1>2, <1>4, KeptType DEF StoreOK
  <1>5. CASE ~cache.retired
    <2> DEFINE token == cache.epoch
               pc    == IF j \in Readers THEN "load" ELSE "lock"
               rec   == [job[j] EXCEPT !.token = token, !.on = FALSE, !.pc = pc]
    <2>1. Becomes(j, rec)
      BY <1>5 DEF Capture
    <2>2. token \in Nat /\ pc \in {"load", "lock"} /\ (j \in Pollers => pc = "lock")
      BY <1>1 DEF StoreOK, Caches
    <2>3. Fits(j, pc)
      BY DEF Fits
    <2> HIDE DEF token, pc
    <2>4. rec \in JobRecs
      BY <1>3, <2>2 DEF JobRecs, PCs
    <2>5. /\ rec.pc = pc /\ rec.batch = job[j].batch /\ rec.last = job[j].last
          /\ rec.seen = job[j].seen /\ rec.token = token
          /\ rec.loaded = job[j].loaded /\ rec.since = job[j].since
      BY <1>3 DEF JobRecs
    <2> HIDE DEF rec
    <2>6. JobsOK' /\ Only(j) /\ job'[j] = rec
      BY <1>1, <2>1, <2>3, <2>4, <2>5, BecomesFields
    <2> QED
      BY <1>2, <1>4, <1>5, <2>2, <2>5, <2>6 DEF Goes, token
  <1>6. CASE cache.retired /\ j \in Rebuilders
    <2>1. GoTo(j, "lease") /\ Fits(j, "lease")
      BY <1>6 DEF Capture, GoTo, Fits
    <2>2. /\ JobsOK' /\ Only(j) /\ Goes(j) /\ job'[j].pc = "lease"
          /\ job'[j].token = job[j].token /\ job'[j].loaded = job[j].loaded
          /\ job'[j].since = job[j].since
      BY <1>1, <2>1, GoToFields DEF PCs
    <2> QED
      BY <1>2, <1>4, <1>6, <2>2
  <1>7. CASE cache.retired /\ j \notin Rebuilders
    <2>1. Becomes(j, Done(j))
      BY <1>7 DEF Capture
    <2> QED
      BY <1>1, <1>2, <1>4, <1>7, <2>1, DoneFields
  <1> QED
    BY <1>5, <1>6, <1>7

LEMMA LockStep ==
  ASSUME TypeInv, NEW j \in Jobs, TryLock(j)
  PROVE  /\ TypeInv' /\ Only(j) /\ UNCHANGED <<db, outbox, writer, faults, lost>> /\ ShotKept
         /\ cache'.order = cache.order /\ cache'.lease = cache.lease
         /\ cache.lock = None /\ cache'.lock = j /\ Goes(j)
         /\ \/ job[j].pc = "lock" /\ job'[j].pc = "load"
            \/ /\ job[j].pc = "reuse" /\ job'[j].pc = "alloc"
               /\ job'[j].early <=> job[j].loaded < db.account
         /\ job'[j].token = job[j].token /\ job'[j].loaded = job[j].loaded
         /\ job'[j].since = job[j].since
  <1> DEFINE pc    == IF job[j].pc = "lock" THEN "load" ELSE "alloc"
             early == job[j].pc = "reuse" /\ job[j].loaded < db.account
             rec   == [job[j] EXCEPT !.pc = pc, !.early = early]
  <1>1. StoreOK /\ JobsOK /\ cache \in Caches /\ job[j] \in JobRecs /\ Fits(j, job[j].pc)
    BY JobFields DEF TypeInv, StoreOK
  <1>2. /\ job[j].pc \in {"lock", "reuse"} /\ cache.lock = None
        /\ cache' = [cache EXCEPT !.lock = j] /\ UNCHANGED <<db, outbox, writer, faults, lost>>
    BY DEF TryLock, AtLock, At
  <1>3. Becomes(j, rec)
    BY DEF TryLock, At
  <1>4. /\ pc \in {"load", "alloc"} /\ early \in BOOLEAN
        /\ \/ job[j].pc = "lock" /\ pc = "load"
           \/ job[j].pc = "reuse" /\ pc = "alloc" /\ (early <=> job[j].loaded < db.account)
    BY <1>2
  <1> HIDE DEF pc, early
  <1>5. /\ rec \in JobRecs /\ rec.pc = pc /\ rec.early = early /\ rec.batch = job[j].batch
        /\ rec.last = job[j].last /\ rec.seen = job[j].seen /\ rec.token = job[j].token
        /\ rec.loaded = job[j].loaded /\ rec.since = job[j].since
    BY <1>1, <1>4 DEF JobRecs, PCs
  <1> HIDE DEF rec
  <1>6. Fits(j, rec.pc)
    BY <1>4, <1>5 DEF Fits
  <1>7. JobsOK' /\ Only(j) /\ job'[j] = rec
    BY <1>1, <1>3, <1>5, <1>6, BecomesFields
  <1>8. /\ cache' \in Caches /\ ShotKept /\ cache'.order = cache.order
        /\ cache'.lease = cache.lease /\ cache'.lock = j
    BY <1>1, <1>2 DEF Caches, ShotKept
  <1>9. TypeInv'
    BY <1>1, <1>2, <1>7, <1>8, CacheType DEF StoreOK, ShotKept
  <1> QED
    BY <1>2, <1>4, <1>5, <1>7, <1>8, <1>9 DEF Goes

LEMMA BusyStep ==
  ASSUME TypeInv, NEW j \in Jobs, LockBusy(j)
  PROVE  /\ TypeInv' /\ Only(j) /\ StoreKept /\ UNCHANGED faults
         /\ job[j].pc \in {"lock", "reuse"}
         /\ lost' = [lost EXCEPT !.account = db.account] \/ lost' = lost
         /\ lost'.group = lost.group
         /\ \/ Quits(j)
            \/ j \in Pollers /\ Handles(j) /\ lost'.account = db.account
  <1>1. StoreOK /\ JobsOK
    BY DEF TypeInv
  <1>2. /\ job[j].pc \in {"lock", "reuse"} /\ StoreKept /\ UNCHANGED faults
        /\ Becomes(j, IF job[j].strict THEN Over(j) ELSE Done(j))
        /\ lost' = IF j \in Pollers /\ ~job[j].strict THEN AccountLost(db) ELSE lost
    BY DEF LockBusy, AtLock, At, StoreKept
  <1>3. /\ lost' \in [account : Nat, group : Nat] /\ lost'.group = lost.group
        /\ lost' = [lost EXCEPT !.account = db.account] \/ lost' = lost
        /\ j \in Pollers /\ ~job[j].strict => lost'.account = db.account
    BY <1>1, <1>2 DEF AccountLost, StoreOK
  <1>4. ASSUME JobsOK'
        PROVE  TypeInv'
    BY <1>1, <1>2, <1>3, <1>4, KeptType DEF StoreOK
  <1>5. CASE job[j].strict
    BY <1>1, <1>2, <1>3, <1>4, <1>5, OverFields
  <1>6. CASE ~job[j].strict
    BY <1>1, <1>2, <1>3, <1>4, <1>6, DoneFields DEF Ends
  <1> QED
    BY <1>5, <1>6

LEMMA ReadsFields ==
  ASSUME TypeInv, NEW j \in Jobs, NEW pc \in PCs, Reads(j, pc), Fits(j, pc),
         StoreKept, UNCHANGED <<faults, lost>>
  PROVE  /\ TypeInv' /\ Only(j) /\ Goes(j) /\ job'[j].pc = pc
         /\ job'[j].token = job[j].token /\ job'[j].loaded = db.account
         /\ job'[j].since = cache.epoch
  <1>1. StoreOK /\ JobsOK /\ cache \in Caches
    BY DEF TypeInv, StoreOK
  <1> DEFINE loaded == db.account
             since  == cache.epoch
             rec    == [job[j] EXCEPT !.pc = pc, !.loaded = loaded, !.since = since]
  <1>2. loaded \in Nat /\ since \in Nat /\ job[j] \in JobRecs
    BY <1>1, JobFields DEF StoreOK, Caches
  <1>3. Becomes(j, rec)
    BY DEF Reads
  <1> HIDE DEF loaded, since
  <1>4. rec \in JobRecs
    BY <1>2 DEF JobRecs
  <1>5. /\ rec.pc = pc /\ rec.batch = job[j].batch /\ rec.last = job[j].last
        /\ rec.seen = job[j].seen /\ rec.token = job[j].token
        /\ rec.loaded = loaded /\ rec.since = since
    BY <1>2 DEF JobRecs
  <1> HIDE DEF rec
  <1>6. JobsOK' /\ Only(j) /\ job'[j] = rec
    BY <1>1, <1>3, <1>4, <1>5, BecomesFields
  <1>7. TypeInv'
    BY <1>1, <1>6, KeptType DEF StoreOK
  <1> QED
    BY <1>5, <1>6, <1>7 DEF Goes, loaded, since

LEMMA ReuseStep ==
  ASSUME TypeInv, NEW j \in Jobs, LoadForSingle(j)
  PROVE  /\ TypeInv' /\ Only(j) /\ StoreKept /\ UNCHANGED <<faults, lost>>
         /\ job[j].pc = "lock" /\ job'[j].pc = "reuse" /\ Goes(j)
         /\ job'[j].token = job[j].token /\ job'[j].loaded = db.account
         /\ job'[j].since = cache.epoch
  <1>1. /\ job[j].pc = "lock" /\ Reads(j, "reuse") /\ StoreKept /\ UNCHANGED <<faults, lost>>
    BY DEF LoadForSingle, At, StoreKept
  <1>2. Fits(j, "reuse")
    BY <1>1, JobFields DEF Fits, TypeInv
  <1> QED
    BY <1>1, <1>2, ReadsFields DEF PCs

LEMMA LoadStep ==
  ASSUME TypeInv, NEW j \in Jobs, Load(j)
  PROVE  /\ TypeInv' /\ Only(j) /\ StoreKept /\ UNCHANGED <<faults, lost>>
         /\ job[j].pc = "load" /\ job'[j].pc = "alloc" /\ Goes(j)
         /\ job'[j].token = job[j].token /\ job'[j].loaded = db.account
         /\ job'[j].since = cache.epoch
  <1>1. /\ job[j].pc = "load" /\ Reads(j, "alloc") /\ StoreKept /\ UNCHANGED <<faults, lost>>
    BY DEF Load, At, StoreKept
  <1>2. Fits(j, "alloc")
    BY DEF Fits
  <1> QED
    BY <1>1, <1>2, ReadsFields DEF PCs

LEMMA AllocateStep ==
  ASSUME TypeInv, NEW j \in Jobs, Allocate(j)
  PROVE  /\ TypeInv' /\ Only(j) /\ UNCHANGED <<db, outbox, writer, faults, lost>> /\ ShotKept
         /\ cache'.lock = cache.lock /\ cache'.lease = cache.lease
         /\ job[j].pc = "alloc"
         /\ \/ /\ Fenced(j) /\ cache' = cache
               /\ (j \notin Pollers /\ Quits(j)) \/ (Goes(j) /\ job'[j].pc = "unlock")
               /\ job'[j].token = 0 /\ job'[j].loaded = 0 /\ job'[j].since = 0
            \/ /\ ~Fenced(j) /\ Goes(j) /\ job'[j].pc = "activate"
               /\ cache'.order = Append(cache.order, j)
               /\ job'[j].token = job[j].token /\ job'[j].loaded = job[j].loaded
               /\ job'[j].since = job[j].since /\ job'[j].early = job[j].early
  <1>1. StoreOK /\ JobsOK /\ cache \in Caches
    BY DEF TypeInv, StoreOK
  <1>2. job[j].pc = "alloc" /\ UNCHANGED <<db, outbox, writer, faults, lost>>
    BY DEF Allocate, At
  <1>3. CASE Fenced(j)
    <2>1. Becomes(j, Published(j, TRUE)) /\ cache' = cache
      BY <1>3 DEF Allocate
    <2>2. /\ JobsOK' /\ Only(j)
          /\ (j \notin Pollers /\ Quits(j)) \/ (Goes(j) /\ job'[j].pc = "unlock")
          /\ job'[j].token = 0 /\ job'[j].loaded = 0 /\ job'[j].since = 0
      BY <1>1, <1>2, <2>1, PublishedFields
    <2>3. TypeInv'
      BY <1>1, <1>2, <2>1, <2>2, CacheType DEF StoreOK
    <2> QED
      BY <1>2, <1>3, <2>1, <2>2, <2>3 DEF ShotKept
  <1>4. CASE ~Fenced(j)
    <2> DEFINE order == Append(cache.order, j)
    <2>1. GoTo(j, "activate") /\ cache' = [cache EXCEPT !.order = order]
      BY <1>4 DEF Allocate
    <2>2. order \in Seq(Jobs)
      BY <1>1 DEF Caches
    <2> HIDE DEF order
    <2>3. Fits(j, "activate")
      BY DEF Fits
    <2>4. /\ JobsOK' /\ Only(j) /\ Goes(j) /\ job'[j].pc = "activate"
          /\ job'[j].token = job[j].token /\ job'[j].loaded = job[j].loaded
          /\ job'[j].since = job[j].since /\ job'[j].early = job[j].early
      BY <1>1, <2>1, <2>3, GoToFields DEF PCs
    <2>5. /\ cache' \in Caches /\ ShotKept /\ cache'.order = order
          /\ cache'.lock = cache.lock /\ cache'.lease = cache.lease
      BY <1>1, <2>1, <2>2 DEF Caches, ShotKept
    <2>6. TypeInv'
      BY <1>1, <1>2, <2>4, <2>5, CacheType DEF StoreOK, ShotKept
    <2> QED
      BY <1>2, <1>4, <2>4, <2>5, <2>6 DEF order
  <1> QED
    BY <1>3, <1>4


LEMMA ActivateStep ==
  ASSUME TypeInv, NEW j \in Jobs, Activate(j)
  PROVE  /\ TypeInv' /\ Only(j) /\ UNCHANGED <<db, outbox, writer, faults>>
         /\ job[j].pc = "activate"
         /\ (j \notin Pollers /\ Quits(j)) \/ (Goes(j) /\ job'[j].pc = "unlock")
         /\ job'[j].token = 0 /\ job'[j].loaded = 0 /\ job'[j].since = 0
         /\ lost'.group = lost.group /\ cache'.watermark = cache.watermark
         /\ cache'.epoch = cache.epoch /\ cache'.retired = cache.retired
         /\ cache'.lock = cache.lock /\ cache'.lease = cache.lease
         /\ \/ (Fenced(j) \/ ~Newest(j)) /\ cache' = cache /\ lost' = lost
            \/ /\ ~Fenced(j)
               /\ cache'.snapshot = [members |-> job[j].loaded, since |-> job[j].since]
               /\ cache'.snapshot # None
               /\ lost' = IF job[j].loaded < db.account /\ Unguarded(j)
                          THEN [lost EXCEPT !.account = db.account] ELSE lost
  <1>1. StoreOK /\ JobsOK /\ cache \in Caches
    BY DEF TypeInv, StoreOK
  <1>2. job[j].pc = "activate" /\ UNCHANGED <<db, outbox, writer, faults>>
    BY DEF Activate, At
  <1> DEFINE fenced == Fenced(j)
  <1>3. fenced \in BOOLEAN /\ Becomes(j, Published(j, fenced))
    BY <1>1 DEF Activate, Fenced, Caches
  <1> HIDE DEF fenced
  <1>4. /\ JobsOK' /\ Only(j)
        /\ (j \notin Pollers /\ Quits(j)) \/ (Goes(j) /\ job'[j].pc = "unlock")
        /\ job'[j].token = 0 /\ job'[j].loaded = 0 /\ job'[j].since = 0
    BY <1>1, <1>2, <1>3, PublishedFields
  <1>5. CASE Fenced(j) \/ ~Newest(j)
    <2>1. cache' = cache /\ lost' = lost
      BY <1>5 DEF Activate
    <2>2. TypeInv'
      BY <1>1, <1>2, <1>4, <2>1, CacheType DEF StoreOK
    <2> QED
      BY <1>2, <1>4, <1>5, <2>1, <2>2
  <1>6. CASE ~Fenced(j) /\ Newest(j)
    <2> DEFINE members == job[j].loaded
               since   == job[j].since
               shot    == [members |-> members, since |-> since]
    <2>1. /\ \E i \in DOMAIN cache.order : cache' = Switched(j, i)
          /\ lost' = IF job[j].loaded < db.account /\ Unguarded(j)
                     THEN [lost EXCEPT !.account = db.account] ELSE lost
      BY <1>6 DEF Activate
    <2>2. PICK i \in DOMAIN cache.order : cache' = Switched(j, i)
      BY <2>1
    <2> DEFINE order == SubSeq(cache.order, i + 1, Len(cache.order))
    <2>3. cache' = [cache EXCEPT !.snapshot = shot, !.order = order]
      BY <2>2 DEF Switched
    <2>4. order \in Seq(Jobs)
      BY <1>1 DEF Caches
    <2>5. job[j] \in JobRecs
      BY <1>1, JobFields
    <2>6. members \in Nat /\ since \in Nat
      BY <2>5 DEF JobRecs
    <2> HIDE DEF members, since, order
    <2>7. shot \in [members : Nat, since : Nat] /\ shot # None
      BY <2>6
    <2> HIDE DEF shot
    <2>8. /\ cache' \in Caches /\ cache'.watermark = cache.watermark /\ cache'.snapshot = shot
          /\ cache'.epoch = cache.epoch /\ cache'.retired = cache.retired
          /\ cache'.lock = cache.lock /\ cache'.lease = cache.lease
      BY <1>1, <2>3, <2>4, <2>7 DEF Caches
    <2>9. lost' \in [account : Nat, group : Nat] /\ lost'.group = lost.group
      BY <1>1, <2>1 DEF StoreOK
    <2>10. TypeInv'
      BY <1>1, <1>2, <1>4, <2>8, <2>9, CacheType DEF StoreOK
    <2> QED
      BY <1>2, <1>4, <1>6, <2>1, <2>7, <2>8, <2>9, <2>10 DEF shot, members, since
  <1> QED
    BY <1>5, <1>6

LEMMA UnlockStep ==
  ASSUME TypeInv, NEW j \in Jobs, Unlock(j)
  PROVE  /\ TypeInv' /\ Only(j) /\ UNCHANGED <<db, outbox, writer, faults, lost>> /\ ShotKept
         /\ cache'.order = cache.order /\ cache'.lease = cache.lease /\ cache'.lock = None
         /\ job[j].pc = "unlock"
         /\ Quits(j) \/ Ends(j)
  <1>1. StoreOK /\ JobsOK /\ cache \in Caches
    BY DEF TypeInv, StoreOK
  <1>2. /\ job[j].pc = "unlock" /\ UNCHANGED <<db, outbox, writer, faults, lost>>
        /\ cache' = [cache EXCEPT !.lock = None]
    BY DEF Unlock, At
  <1>3. /\ cache' \in Caches /\ ShotKept /\ cache'.order = cache.order
        /\ cache'.lease = cache.lease /\ cache'.lock = None
    BY <1>1, <1>2 DEF Caches, ShotKept
  <1>4. JobsOK' /\ Only(j) /\ (Quits(j) \/ Ends(j))
    BY <1>1, OverFields, DoneFields DEF Unlock
  <1>5. TypeInv'
    BY <1>1, <1>2, <1>3, <1>4, CacheType DEF StoreOK, ShotKept
  <1> QED
    BY <1>2, <1>3, <1>4, <1>5

LEMMA FailStep ==
  ASSUME TypeInv, NEW j \in Jobs, JobFails(j)
  PROVE  /\ TypeInv' /\ Only(j) /\ UNCHANGED <<db, outbox, writer, lost>> /\ ShotKept
         /\ Quits(j) /\ cache'.order = cache.order
         /\ cache'.lease = cache.lease \/ (InLease(j) /\ cache.lease = j /\ cache'.lease = None)
         /\ cache'.lock = cache.lock \/ cache'.lock = None
  <1>1. StoreOK /\ JobsOK /\ cache \in Caches
    BY DEF TypeInv, StoreOK
  <1>2. /\ UNCHANGED <<db, outbox, writer, lost>> /\ Becomes(j, Over(j))
        /\ faults < MaxFaults /\ faults' = faults + 1
    BY DEF JobFails
  <1>3. JobsOK' /\ Only(j) /\ Quits(j)
    BY <1>1, <1>2, OverFields
  <1>4. PICK dies \in BOOLEAN : cache' = [cache EXCEPT
            !.lease = IF ~dies /\ InLease(j) /\ @ = j THEN None ELSE @,
            !.lock = IF ~dies /\ Holds(j) THEN None ELSE @]
    BY DEF JobFails
  <1> DEFINE lease == IF ~dies /\ InLease(j) /\ cache.lease = j THEN None ELSE cache.lease
             lock  == IF ~dies /\ Holds(j) THEN None ELSE cache.lock
  <1>5. cache' = [cache EXCEPT !.lease = lease, !.lock = lock]
    BY <1>1, <1>4 DEF Caches
  <1>6. lease \in Jobs \cup {None} /\ lock \in Jobs \cup {None}
    BY <1>1 DEF Caches
  <1> HIDE DEF lease, lock
  <1>7. /\ cache' \in Caches /\ ShotKept /\ cache'.order = cache.order
        /\ cache'.lease = lease /\ cache'.lock = lock
    BY <1>1, <1>5, <1>6 DEF Caches, ShotKept
  <1>8. TypeInv'
    BY <1>1, <1>2, <1>3, <1>7, CacheType DEF StoreOK, ShotKept
  <1> QED
    BY <1>2, <1>3, <1>7, <1>8 DEF lease, lock

LEMMA LapseStep ==
  ASSUME TypeInv, LockLapses \/ LockLapsesEarly \/ LeaseLapses
  PROVE  /\ TypeInv' /\ UNCHANGED <<db, outbox, job, writer, lost>> /\ ShotKept
         /\ cache'.order = cache.order
         /\ cache'.lease = cache.lease \/ (cache.lease \in Jobs /\ ~InLease(cache.lease))
         /\ cache'.lock = cache.lock \/ cache'.lock = None
  <1>1. StoreOK /\ JobsOK /\ cache \in Caches
    BY DEF TypeInv, StoreOK
  <1>2. UNCHANGED <<db, outbox, job, writer, lost>> /\ faults' \in 0..MaxFaults
    BY <1>1 DEF LockLapses, LockLapsesEarly, LeaseLapses, StoreOK
  <1>3. \/ cache' = [cache EXCEPT !.lock = None]
        \/ cache' = [cache EXCEPT !.lease = None] /\ cache.lease # None /\ ~InLease(cache.lease)
    BY DEF LockLapses, LockLapsesEarly, LeaseLapses
  <1>4. /\ cache' \in Caches /\ ShotKept /\ cache'.order = cache.order
        /\ cache'.lease = cache.lease \/ (cache.lease \in Jobs /\ ~InLease(cache.lease))
        /\ cache'.lock = cache.lock \/ cache'.lock = None
    BY <1>1, <1>3 DEF Caches, ShotKept
  <1>5. JobsOK'
    BY <1>1, <1>2 DEF JobsOK
  <1>6. TypeInv'
    BY <1>1, <1>2, <1>4, <1>5, CacheType DEF StoreOK, ShotKept
  <1> QED
    BY <1>2, <1>4, <1>6

-----------------------------------------------------------------------------
(* What the steps of a writer do.                                          *)

OnlyWriter(w) == \A u \in Writers : u # w => writer'[u] = writer[u]

\* Every job goes on where it is and the rows there are stay.
RowsGrow ==
    /\ outbox' \in Seq(Rows) /\ Len(outbox) <= Len(outbox')
    /\ \A r \in DOMAIN outbox : r \in DOMAIN outbox' /\ outbox'[r] = outbox[r]

LEMMA EnqueueStep ==
  ASSUME StoreOK, NEW w \in Writers, NEW state \in {"pending", "committed"}, Enqueue(w, state)
  PROVE  /\ RowsGrow
         /\ RowOf(w) \in DOMAIN outbox' /\ RowOf(w) \in Nat
         /\ outbox'[RowOf(w)].key = Key(w) /\ outbox'[RowOf(w)].open = TRUE
         /\ Key(w) \in {"account", "group"}
         /\ \/ /\ Holder(w) # {} /\ outbox' = outbox /\ RowOf(w) \in DOMAIN outbox
               /\ Committed(RowOf(w))
            \/ /\ Holder(w) = {} /\ RowOf(w) = Len(outbox) + 1 /\ Len(outbox') = Len(outbox) + 1
               /\ outbox'[RowOf(w)].state = state
  <1>1. /\ Len(outbox) \in Nat /\ DOMAIN outbox = 1..Len(outbox)
        /\ \A r \in DOMAIN outbox : outbox[r] \in Rows
    BY RowsFields
  <1>2. Key(w) \in {"account", "group"}
    BY DEF Key
  <1>3. CASE Holder(w) # {}
    <2>1. outbox' = outbox /\ \A r \in Holder(w) : Committed(r)
      BY <1>3 DEF Enqueue
    <2>2. RowOf(w) \in Holder(w)
      BY <1>3 DEF RowOf
    <2>3. RowOf(w) \in DOMAIN outbox /\ outbox[RowOf(w)].key = Key(w) /\ outbox[RowOf(w)].open
      BY <2>2 DEF Holder
    <2>4. outbox[RowOf(w)].open = TRUE
      BY <1>1, <2>3 DEF Rows
    <2>5. RowsGrow
      BY <1>1, <2>1 DEF RowsGrow, StoreOK
    <2>6. RowOf(w) \in DOMAIN outbox' /\ RowOf(w) \in Nat /\ Committed(RowOf(w))
      BY <1>1, <2>1, <2>2, <2>3
    <2>7. outbox'[RowOf(w)].key = Key(w) /\ outbox'[RowOf(w)].open = TRUE
      BY <2>1, <2>3, <2>4
    <2> QED
      BY <1>2, <1>3, <2>1, <2>3, <2>5, <2>6, <2>7
  <1>4. CASE Holder(w) = {}
    <2> DEFINE row == [key |-> Key(w), state |-> state, open |-> TRUE]
    <2>1. outbox' = Append(outbox, row) /\ RowOf(w) = Len(outbox) + 1
      BY <1>4 DEF Enqueue, RowOf
    <2>2. row \in Rows /\ row.key = Key(w) /\ row.state = state /\ row.open = TRUE
      BY <1>2 DEF Rows
    <2> HIDE DEF row
    <2>3. /\ outbox' \in Seq(Rows) /\ Len(outbox') = Len(outbox) + 1
          /\ outbox'[Len(outbox) + 1] = row
          /\ \A r \in DOMAIN outbox : r \in DOMAIN outbox' /\ outbox'[r] = outbox[r]
          /\ Len(outbox) + 1 \in DOMAIN outbox'
      BY <1>1, <2>1, <2>2 DEF StoreOK
    <2>4. RowsGrow
      BY <1>1, <2>3 DEF RowsGrow
    <2> QED
      BY <1>1, <1>2, <1>4, <2>1, <2>2, <2>3, <2>4
  <1> QED
    BY <1>3, <1>4

LEMMA WriterFields ==
  ASSUME WritersOK, NEW w \in Writers
  PROVE  /\ writer[w] \in [pc : {"idle", "open", "enqueue"}, row : Nat] /\ WriterOK(w)
  BY DEF WritersOK

\* A writer's record goes to a place and a row.
LEMMA MovesTo ==
  ASSUME WritersOK, NEW w \in Writers, NEW pc \in {"idle", "open", "enqueue"}, NEW row \in Nat,
         \/ writer' = [writer EXCEPT ![w].pc = pc, ![w].row = row]
         \/ writer' = [writer EXCEPT ![w].pc = pc] /\ row = writer[w].row
  PROVE  /\ writer' \in [Writers -> [pc : {"idle", "open", "enqueue"}, row : Nat]]
         /\ OnlyWriter(w) /\ writer'[w].pc = pc /\ writer'[w].row = row
  BY DEF WritersOK, OnlyWriter

\* The store after a writer's step.
LEMMA WriterType ==
  ASSUME TypeInv, UNCHANGED <<cache, job>>, faults' \in 0..MaxFaults,
         db' \in [account : Nat, group : Nat], lost' \in [account : Nat, group : Nat],
         outbox' \in Seq(Rows), Len(outbox) <= Len(outbox'),
         \A r \in DOMAIN outbox : outbox'[r].key = outbox[r].key,
         writer' \in [Writers -> [pc : {"idle", "open", "enqueue"}, row : Nat]],
         NEW w \in Writers, OnlyWriter(w), WriterOK(w)'
  PROVE  TypeInv'
  <1>1. /\ Len(outbox) \in Nat /\ DOMAIN outbox = 1..Len(outbox)
        /\ Len(outbox') \in Nat /\ DOMAIN outbox' = 1..Len(outbox')
    BY DEF TypeInv, StoreOK
  <1>2. StoreOK'
    BY <1>1 DEF TypeInv, StoreOK, Caches
  <1>3. JobsOK'
    BY DEF TypeInv, JobsOK
  <1>4. ASSUME NEW u \in Writers
        PROVE  WriterOK(u)'
    <2>1. CASE u = w
      BY <2>1
    <2>2. CASE u # w
      <3>1. writer'[u] = writer[u]
        BY <2>2 DEF OnlyWriter
      <3>2. WriterOK(u)
        BY WriterFields DEF TypeInv
      <3>3. \A r \in DOMAIN outbox : r \in DOMAIN outbox'
        BY <1>1
      <3> QED
        BY <3>1, <3>2, <3>3 DEF WriterOK
    <2> QED
      BY <2>1, <2>2
  <1> QED
    BY <1>2, <1>3, <1>4 DEF TypeInv, WritersOK

LEMMA OpenStep ==
  ASSUME TypeInv, NEW w \in Writers, OpenTransaction(w)
  PROVE  /\ TypeInv' /\ OnlyWriter(w) /\ UNCHANGED <<db, cache, job, faults, lost>>
         /\ RowsGrow /\ writer[w].pc = "idle" /\ writer'[w].pc = "open"
         /\ \A r \in DOMAIN outbox' \ DOMAIN outbox :
              /\ outbox'[r].key = "account" /\ outbox'[r].state = "pending"
              /\ outbox'[r].open /\ r > Len(outbox)
  <1>1. StoreOK /\ WritersOK
    BY DEF TypeInv
  <1>2. /\ writer[w].pc = "idle" /\ w \in InTransaction /\ Enqueue(w, "pending")
        /\ writer' = [writer EXCEPT ![w].pc = "open", ![w].row = RowOf(w)]
        /\ UNCHANGED <<db, cache, job, faults, lost>>
    BY DEF OpenTransaction, WriterAt
  <1>3. Key(w) = "account"
    BY <1>2 DEF Key
  <1>4. /\ RowsGrow /\ RowOf(w) \in DOMAIN outbox' /\ RowOf(w) \in Nat
        /\ outbox'[RowOf(w)].key = "account" /\ outbox'[RowOf(w)].open
    BY <1>1, <1>2, <1>3, EnqueueStep
  <1>5. \A r \in DOMAIN outbox' \ DOMAIN outbox :
          /\ outbox'[r].key = "account" /\ outbox'[r].state = "pending"
          /\ outbox'[r].open /\ r > Len(outbox)
    <2>1. /\ Len(outbox) \in Nat /\ DOMAIN outbox = 1..Len(outbox)
          /\ Len(outbox') \in Nat /\ DOMAIN outbox' = 1..Len(outbox')
      BY <1>1, <1>4 DEF StoreOK, RowsGrow
    <2> SUFFICES ASSUME NEW r \in DOMAIN outbox' \ DOMAIN outbox
                 PROVE  /\ outbox'[r].key = "account" /\ outbox'[r].state = "pending"
                        /\ outbox'[r].open /\ r > Len(outbox)
      OBVIOUS
    <2>2. Holder(w) = {}
      BY <1>2 DEF Enqueue
    <2>3. /\ RowOf(w) = Len(outbox) + 1 /\ Len(outbox') = Len(outbox) + 1
          /\ outbox'[RowOf(w)].state = "pending"
      BY <1>1, <1>2, <2>2, EnqueueStep
    <2> QED
      BY <1>4, <2>1, <2>3
  <1>6. /\ writer' \in [Writers -> [pc : {"idle", "open", "enqueue"}, row : Nat]]
        /\ OnlyWriter(w) /\ writer'[w].pc = "open" /\ writer'[w].row = RowOf(w)
    BY <1>1, <1>2, <1>4, MovesTo
  <1>7. WriterOK(w)'
    BY <1>2, <1>4, <1>6 DEF WriterOK
  <1>8. TypeInv'
    BY <1>1, <1>2, <1>4, <1>6, <1>7, WriterType DEF StoreOK, RowsGrow
  <1> QED
    BY <1>2, <1>4, <1>5, <1>6, <1>8

LEMMA ChangedFields ==
  ASSUME db \in [account : Nat, group : Nat], NEW w \in Writers
  PROVE  /\ Changed(w) \in [account : Nat, group : Nat]
         /\ Key(w) = "account" => /\ Changed(w).account = db.account + 1
                                  /\ Changed(w).group = db.group
         /\ Key(w) = "group" => /\ Changed(w).group = db.group + 1
                                /\ Changed(w).account = db.account
         /\ Key(w) \in {"account", "group"}
  BY DEF Changed, Key

LEMMA LostFields ==
  ASSUME lost \in [account : Nat, group : Nat], NEW now \in [account : Nat, group : Nat],
         NEW w \in Writers
  PROVE  /\ Lost(w, now) \in [account : Nat, group : Nat]
         /\ Key(w) = "account" => /\ Lost(w, now).account = now.account
                                  /\ Lost(w, now).group = lost.group
         /\ Key(w) = "group" => /\ Lost(w, now).group = now.group
                                /\ Lost(w, now).account = lost.account
  BY DEF Lost, AccountLost, Key

LEMMA CommitStep ==
  ASSUME TypeInv, NEW w \in Writers, CommitTransaction(w)
  PROVE  LET r == writer[w].row IN
         /\ TypeInv' /\ OnlyWriter(w) /\ UNCHANGED <<cache, job, faults>>
         /\ writer[w].pc = "open" /\ writer'[w].pc = "idle"
         /\ db'.account = db.account + 1 /\ db'.group = db.group
         /\ r \in DOMAIN outbox /\ outbox[r].key = "account" /\ RowsKept
         /\ \A s \in DOMAIN outbox : /\ outbox'[s].open = outbox[s].open
                                     /\ s # r => outbox'[s] = outbox[s]
                                     /\ s = r => outbox'[s].state = IF outbox[s].state = "pending"
                                                   THEN "committed" ELSE outbox[s].state
         /\ lost'.group = lost.group
         /\ lost'.account = IF Unheard(r) THEN db'.account ELSE lost.account
  <1> DEFINE r     == writer[w].row
             state == IF outbox[r].state = "pending" THEN "committed" ELSE outbox[r].state
  <1>1. StoreOK /\ WritersOK
    BY DEF TypeInv
  <1>2. /\ writer[w].pc = "open" /\ db' = Changed(w)
        /\ writer' = [writer EXCEPT ![w].pc = "idle", ![w].row = 0]
        /\ lost' = (IF Unheard(r) THEN Lost(w, db') ELSE lost)
        /\ UNCHANGED <<cache, job, faults>>
    BY DEF CommitTransaction, WriterAt
  <1>3. w \in InTransaction /\ r \in DOMAIN outbox /\ outbox[r].key = "account"
    BY <1>1, <1>2, WriterFields DEF WriterOK
  <1>4. Key(w) = "account"
    BY <1>3 DEF Key
  <1>5. outbox' = [outbox EXCEPT ![r].state = state]
    BY DEF CommitTransaction
  <1>6. outbox[r] \in Rows /\ state \in {"pending", "committed", "void"}
    BY <1>1, <1>3, RowsFields DEF Rows
  <1>7. outbox' = [outbox EXCEPT ![r] = [outbox[r] EXCEPT !.state = state]]
    BY <1>5
  <1> HIDE DEF state
  <1> DEFINE row == [outbox[r] EXCEPT !.state = state]
  <1>8. row \in Rows /\ row.key = outbox[r].key /\ row.open = outbox[r].open /\ row.state = state
    BY <1>6 DEF Rows
  <1> HIDE DEF row, r
  <1>9. outbox' = [outbox EXCEPT ![r] = row]
    BY <1>7 DEF row
  <1>10. /\ outbox' \in Seq(Rows) /\ DOMAIN outbox' = DOMAIN outbox /\ Len(outbox') = Len(outbox)
         /\ outbox'[r] = row /\ \A s \in DOMAIN outbox : s # r => outbox'[s] = outbox[s]
    BY <1>1, <1>3, <1>8, <1>9 DEF StoreOK
  <1>11. RowsKept
    BY <1>8, <1>10 DEF RowsKept
  <1>12. /\ db' \in [account : Nat, group : Nat]
         /\ db'.account = db.account + 1 /\ db'.group = db.group
    BY <1>1, <1>2, <1>4, ChangedFields DEF StoreOK
  <1>13. /\ lost' \in [account : Nat, group : Nat] /\ lost'.group = lost.group
         /\ lost'.account = IF Unheard(r) THEN db'.account ELSE lost.account
    <2>1. lost \in [account : Nat, group : Nat]
      BY <1>1 DEF StoreOK
    <2>2. /\ Lost(w, db') \in [account : Nat, group : Nat]
          /\ Lost(w, db').account = db'.account /\ Lost(w, db').group = lost.group
      BY <1>4, <1>12, <2>1, LostFields
    <2> QED
      BY <1>2, <2>1, <2>2
  <1>14. /\ writer' \in [Writers -> [pc : {"idle", "open", "enqueue"}, row : Nat]]
         /\ OnlyWriter(w) /\ writer'[w].pc = "idle"
    BY <1>1, <1>2, MovesTo
  <1>15. WriterOK(w)'
    BY <1>14 DEF WriterOK
  <1>16. TypeInv'
    BY <1>1, <1>2, <1>8, <1>10, <1>12, <1>13, <1>14, <1>15, WriterType DEF StoreOK
  <1> QED
    BY <1>2, <1>3, <1>8, <1>10, <1>11, <1>12, <1>13, <1>14, <1>16 DEF r, state

LEMMA RollbackStep ==
  ASSUME TypeInv, NEW w \in Writers, Rollback(w)
  PROVE  /\ TypeInv' /\ OnlyWriter(w) /\ UNCHANGED <<db, cache, job, lost>>
         /\ writer[w].pc = "open" /\ writer'[w].pc = "idle" /\ RowsKept
         /\ \A s \in DOMAIN outbox : \/ outbox'[s] = outbox[s]
                                     \/ /\ outbox[s].state = "pending"
                                        /\ outbox'[s].state = "void" /\ ~outbox'[s].open
  <1> DEFINE r == writer[w].row
  <1>1. StoreOK /\ WritersOK
    BY DEF TypeInv
  <1>2. /\ writer[w].pc = "open" /\ faults < MaxFaults /\ faults' = faults + 1
        /\ writer' = [writer EXCEPT ![w].pc = "idle", ![w].row = 0]
        /\ outbox' = (IF outbox[r].state = "pending"
                      THEN [outbox EXCEPT ![r] = Deleted(outbox[r])] ELSE outbox)
        /\ UNCHANGED <<db, cache, job, lost>>
    BY DEF Rollback, WriterAt
  <1>3. r \in DOMAIN outbox
    BY <1>1, <1>2, WriterFields DEF WriterOK
  <1> HIDE DEF r
  <1>4. /\ Deleted(outbox[r]) \in Rows /\ Deleted(outbox[r]).key = outbox[r].key
        /\ Deleted(outbox[r]).state = "void" /\ Deleted(outbox[r]).open = FALSE
    BY <1>1, <1>3, RowsFields DEF Deleted, Rows
  <1>5. /\ outbox' \in Seq(Rows) /\ DOMAIN outbox' = DOMAIN outbox /\ Len(outbox') = Len(outbox)
        /\ \A s \in DOMAIN outbox :
             /\ outbox'[s].key = outbox[s].key
             /\ outbox'[s].open => outbox[s].open
             /\ \/ outbox'[s] = outbox[s]
                \/ /\ outbox[s].state = "pending"
                   /\ outbox'[s].state = "void" /\ ~outbox'[s].open
    BY <1>1, <1>2, <1>3, <1>4 DEF StoreOK
  <1>6. RowsKept
    BY <1>5 DEF RowsKept
  <1>7. /\ writer' \in [Writers -> [pc : {"idle", "open", "enqueue"}, row : Nat]]
        /\ OnlyWriter(w) /\ writer'[w].pc = "idle"
    BY <1>1, <1>2, MovesTo
  <1>8. WriterOK(w)'
    BY <1>7 DEF WriterOK
  <1>9. TypeInv'
    BY <1>1, <1>2, <1>5, <1>7, <1>8, WriterType DEF StoreOK
  <1> QED
    BY <1>2, <1>5, <1>6, <1>7, <1>9

LEMMA ChangeStep ==
  ASSUME TypeInv, NEW w \in Writers, Change(w)
  PROVE  /\ TypeInv' /\ OnlyWriter(w) /\ UNCHANGED <<outbox, cache, job, faults, lost>>
         /\ writer[w].pc = "idle" /\ writer'[w].pc = "enqueue"
         /\ Key(w) = "account" => db'.account = db.account + 1 /\ db'.group = db.group
         /\ Key(w) = "group" => db'.group = db.group + 1 /\ db'.account = db.account
         /\ Key(w) \in {"account", "group"}
  <1>1. StoreOK /\ WritersOK
    BY DEF TypeInv
  <1>2. /\ writer[w].pc = "idle" /\ db' = Changed(w)
        /\ writer' = [writer EXCEPT ![w].pc = "enqueue"]
        /\ UNCHANGED <<outbox, cache, job, faults, lost>>
    BY DEF Change, WriterAt
  <1>3. /\ db' \in [account : Nat, group : Nat]
        /\ Key(w) = "account" => db'.account = db.account + 1 /\ db'.group = db.group
        /\ Key(w) = "group" => db'.group = db.group + 1 /\ db'.account = db.account
        /\ Key(w) \in {"account", "group"}
    BY <1>1, <1>2, ChangedFields DEF StoreOK
  <1>4. /\ writer' \in [Writers -> [pc : {"idle", "open", "enqueue"}, row : Nat]]
        /\ OnlyWriter(w) /\ writer'[w].pc = "enqueue"
    BY <1>1, <1>2, WriterFields, MovesTo
  <1>5. WriterOK(w)'
    BY <1>4 DEF WriterOK
  <1>6. TypeInv'
    BY <1>1, <1>2, <1>3, <1>4, <1>5, WriterType DEF StoreOK
  <1> QED
    BY <1>2, <1>3, <1>4, <1>6

LEMMA EnqueueAfterStep ==
  ASSUME TypeInv, NEW w \in Writers, EnqueueAfter(w)
  PROVE  LET r == RowOf(w) IN
         /\ TypeInv' /\ OnlyWriter(w) /\ UNCHANGED <<db, cache, job, faults>>
         /\ writer[w].pc = "enqueue" /\ writer'[w].pc = "idle"
         /\ RowsGrow /\ r \in DOMAIN outbox'
         /\ outbox'[r].key = Key(w) /\ outbox'[r].open /\ outbox'[r].state = "committed"
         /\ \A s \in DOMAIN outbox' \ DOMAIN outbox : s = r
         /\ r \in DOMAIN outbox \/ r = Len(outbox) + 1
         /\ Key(w) \in {"account", "group"}
         /\ IF r \in DOMAIN outbox /\ Unheard(r)
            THEN /\ Key(w) = "account" => lost'.account = db.account /\ lost'.group = lost.group
                 /\ Key(w) = "group" => lost'.group = db.group /\ lost'.account = lost.account
            ELSE lost' = lost
  <1> DEFINE r == RowOf(w)
  <1>1. StoreOK /\ WritersOK
    BY DEF TypeInv
  <1>2. /\ writer[w].pc = "enqueue" /\ Enqueue(w, "committed")
        /\ writer' = [writer EXCEPT ![w].pc = "idle"]
        /\ lost' = (IF Holder(w) # {} /\ Unheard(r) THEN Lost(w, db) ELSE lost)
        /\ UNCHANGED <<db, cache, job, faults>>
    BY DEF EnqueueAfter, WriterAt
  <1>3. /\ RowsGrow /\ r \in DOMAIN outbox' /\ r \in Nat
        /\ outbox'[r].key = Key(w) /\ outbox'[r].open
        /\ Key(w) \in {"account", "group"}
        /\ \/ /\ Holder(w) # {} /\ outbox' = outbox /\ r \in DOMAIN outbox /\ Committed(r)
           \/ /\ Holder(w) = {} /\ r = Len(outbox) + 1 /\ Len(outbox') = Len(outbox) + 1
              /\ outbox'[r].state = "committed"
    BY <1>1, <1>2, EnqueueStep
  <1> HIDE DEF r
  <1>4. DOMAIN outbox = 1..Len(outbox) /\ DOMAIN outbox' = 1..Len(outbox') /\ Len(outbox) \in Nat
    BY <1>1, <1>3 DEF StoreOK, RowsGrow
  <1>5. /\ outbox'[r].state = "committed" /\ \A s \in DOMAIN outbox' \ DOMAIN outbox : s = r
        /\ r \in DOMAIN outbox \/ r = Len(outbox) + 1
        /\ Holder(w) # {} <=> r \in DOMAIN outbox
    <2>1. CASE Holder(w) # {}
      <3>1. outbox' = outbox /\ r \in DOMAIN outbox /\ outbox[r].state = "committed"
        BY <1>3, <2>1 DEF Committed
      <3> QED
        BY <2>1, <3>1
    <2>2. CASE Holder(w) = {}
      BY <1>3, <1>4, <2>2
    <2> QED
      BY <2>1, <2>2
  <1>6. /\ lost' \in [account : Nat, group : Nat]
        /\ IF r \in DOMAIN outbox /\ Unheard(r)
           THEN /\ Key(w) = "account" => lost'.account = db.account /\ lost'.group = lost.group
                /\ Key(w) = "group" => lost'.group = db.group /\ lost'.account = lost.account
           ELSE lost' = lost
    <2>1. lost \in [account : Nat, group : Nat] /\ db \in [account : Nat, group : Nat]
      BY <1>1 DEF StoreOK
    <2>2. CASE r \in DOMAIN outbox /\ Unheard(r)
      <3>1. lost' = Lost(w, db)
        BY <1>2, <1>5, <2>2
      <3> QED
        BY <2>1, <2>2, <3>1, LostFields
    <2>3. CASE ~(r \in DOMAIN outbox /\ Unheard(r))
      BY <1>2, <1>5, <2>1, <2>3
    <2> QED
      BY <2>2, <2>3
  <1>7. /\ writer' \in [Writers -> [pc : {"idle", "open", "enqueue"}, row : Nat]]
        /\ OnlyWriter(w) /\ writer'[w].pc = "idle"
    BY <1>1, <1>2, WriterFields, MovesTo
  <1>8. WriterOK(w)'
    BY <1>7 DEF WriterOK
  <1>9. TypeInv'
    BY <1>1, <1>2, <1>3, <1>6, <1>7, <1>8, WriterType DEF StoreOK, RowsGrow
  <1> QED
    BY <1>2, <1>3, <1>5, <1>6, <1>7, <1>9 DEF r

LEMMA EnqueueFailsStep ==
  ASSUME TypeInv, NEW w \in Writers, EnqueueFails(w)
  PROVE  /\ TypeInv' /\ OnlyWriter(w) /\ UNCHANGED <<db, outbox, cache, job>>
         /\ writer[w].pc = "enqueue" /\ writer'[w].pc = "idle"
         /\ Key(w) \in {"account", "group"}
         /\ Key(w) = "account" => lost'.account = db.account /\ lost'.group = lost.group
         /\ Key(w) = "group" => lost'.group = db.group /\ lost'.account = lost.account
  <1>1. StoreOK /\ WritersOK
    BY DEF TypeInv
  <1>2. /\ writer[w].pc = "enqueue" /\ faults < MaxFaults /\ faults' = faults + 1
        /\ writer' = [writer EXCEPT ![w].pc = "idle"] /\ lost' = Lost(w, db)
        /\ UNCHANGED <<db, outbox, cache, job>>
    BY DEF EnqueueFails, WriterAt
  <1>3. /\ lost' \in [account : Nat, group : Nat] /\ Key(w) \in {"account", "group"}
        /\ Key(w) = "account" => lost'.account = db.account /\ lost'.group = lost.group
        /\ Key(w) = "group" => lost'.group = db.group /\ lost'.account = lost.account
    BY <1>1, <1>2, LostFields DEF StoreOK, Key
  <1>4. /\ writer' \in [Writers -> [pc : {"idle", "open", "enqueue"}, row : Nat]]
        /\ OnlyWriter(w) /\ writer'[w].pc = "idle"
    BY <1>1, <1>2, WriterFields, MovesTo
  <1>5. WriterOK(w)'
    BY <1>4 DEF WriterOK
  <1>6. TypeInv'
    BY <1>1, <1>2, <1>3, <1>4, <1>5, WriterType DEF StoreOK
  <1> QED
    BY <1>2, <1>3, <1>4, <1>6

-----------------------------------------------------------------------------
(* The type of the state, and the rows.                                    *)

\* The steps of job j that neither list rows nor set the watermark.
Moves(j) ==
    \/ AccountEvent(j) \/ SkipGroup(j) \/ AcquireLease(j) \/ ReadGroup(j) \/ ApplyDecision(j)
    \/ ReleaseLease(j) \/ StartRebuild(j) \/ GetSnapshotMisses(j) \/ Capture(j)
    \/ LoadForSingle(j) \/ TryLock(j) \/ LockBusy(j) \/ Load(j) \/ Allocate(j) \/ Activate(j) \/ Unlock(j) \/ JobFails(j)

LEMMA MovesStep ==
  ASSUME TypeInv, NEW j \in Jobs, Moves(j)
  PROVE  /\ TypeInv' /\ Only(j) /\ UNCHANGED <<db, outbox, writer>>
         /\ cache'.watermark = cache.watermark
         /\ Goes(j) \/ Quits(j) \/ (j \in Pollers /\ Handles(j))
  <1>1. CASE AccountEvent(j) \/ SkipGroup(j)
    BY <1>1, EventStep DEF StoreKept
  <1>2. CASE AcquireLease(j)
    BY <1>2, LeaseStep DEF ShotKept
  <1>3. CASE ReadGroup(j)
    BY <1>3, ReadGroupStep DEF StoreKept
  <1>4. CASE ApplyDecision(j)
    BY <1>4, ApplyStep
  <1>5. CASE ReleaseLease(j)
    BY <1>5, ReleaseStep DEF ShotKept, Ends
  <1>6. CASE StartRebuild(j) \/ GetSnapshotMisses(j)
    BY <1>6, StartStep DEF StoreKept
  <1>7. CASE Capture(j)
    BY <1>7, CaptureStep DEF StoreKept, Ends
  <1>8. CASE TryLock(j)
    BY <1>8, LockStep DEF ShotKept
  <1>9. CASE LockBusy(j)
    BY <1>9, BusyStep DEF StoreKept
  <1>10. CASE Load(j)
    BY <1>10, LoadStep DEF StoreKept
  <1>11. CASE Allocate(j)
    BY <1>11, AllocateStep DEF ShotKept
  <1>12. CASE Activate(j)
    BY <1>12, ActivateStep
  <1>13. CASE Unlock(j)
    BY <1>13, UnlockStep DEF ShotKept, Ends
  <1>14. CASE JobFails(j)
    BY <1>14, FailStep DEF ShotKept
  <1>15. CASE LoadForSingle(j)
    BY <1>15, ReuseStep DEF StoreKept
  <1> QED
    BY <1>1, <1>2, <1>3, <1>4, <1>5, <1>6, <1>7, <1>8, <1>9, <1>10, <1>11, <1>12, <1>13, <1>14,
       <1>15 DEF Moves

Writes(w) ==
    \/ OpenTransaction(w) \/ Change(w) \/ CommitTransaction(w) \/ EnqueueAfter(w)
    \/ Rollback(w) \/ EnqueueFails(w)

Lapses == LockLapses \/ LockLapsesEarly \/ LeaseLapses

\* Every step is one of these.
LEMMA NextSplit ==
  ASSUME Next
  PROVE  \/ \E w \in Writers : Writes(w)
         \/ \E j \in Jobs : ListAfterAndReleaseDedup(j) \/ Advance(j) \/ Moves(j)
         \/ Lapses
  BY DEF Next, WriterGoesOn, JobGoesOn, Writes, Moves, Lapses

LEMMA WritesStep ==
  ASSUME TypeInv, NEW w \in Writers, Writes(w)
  PROVE  /\ TypeInv' /\ OnlyWriter(w) /\ UNCHANGED <<cache, job>>
         /\ RowsKept \/ RowsGrow
  <1>1. CASE OpenTransaction(w)
    BY <1>1, OpenStep
  <1>2. CASE Change(w)
    <2>1. outbox' = outbox /\ TypeInv' /\ OnlyWriter(w) /\ UNCHANGED <<cache, job>>
      BY <1>2, ChangeStep
    <2> QED
      BY <2>1 DEF RowsKept
  <1>3. CASE CommitTransaction(w)
    BY <1>3, CommitStep
  <1>4. CASE EnqueueAfter(w)
    BY <1>4, EnqueueAfterStep
  <1>5. CASE Rollback(w)
    BY <1>5, RollbackStep
  <1>6. CASE EnqueueFails(w)
    <2>1. outbox' = outbox /\ TypeInv' /\ OnlyWriter(w) /\ UNCHANGED <<cache, job>>
      BY <1>6, EnqueueFailsStep
    <2> QED
      BY <2>1 DEF RowsKept
  <1> QED
    BY <1>1, <1>2, <1>3, <1>4, <1>5, <1>6 DEF Writes

LEMMA NextType ==
  ASSUME TypeInv, RowInv, Next
  PROVE  TypeInv'
  BY NextSplit, WritesStep, MovesStep, ListStep, AdvanceStep, LapseStep DEF Lapses

\* What RowInv says of the rows, and of the jobs.
RowsRight ==
    \A r \in DOMAIN outbox :
         /\ outbox[r].state = "void" => ~outbox[r].open
         /\ outbox[r].key = "group" => outbox[r].state # "pending"
LastRight(p) ==
    /\ job[p].last <= Len(outbox)
    /\ job[p].last > 0 => ~outbox[job[p].last].open
    /\ "lifecycle" \in job[p].seen => "members" \in job[p].seen
    /\ job[p].batch \subseteq DOMAIN outbox

LEMMA LastKept ==
  ASSUME TypeInv, TypeInv', RowInv, RowsKept \/ RowsGrow, NEW p \in Pollers,
         job'[p].last = 0 \/ job'[p].last = job[p].last, job'[p].batch \subseteq job[p].batch,
         "lifecycle" \in job'[p].seen => "members" \in job'[p].seen
  PROVE  LastRight(p)'
  <1>1. p \in Jobs
    BY DEF Jobs
  <1>2. job[p] \in JobRecs
    BY <1>1, JobFields DEF TypeInv
  <1>3. job[p].last \in Nat
    BY <1>2 DEF JobRecs
  <1>4. /\ Len(outbox) \in Nat /\ DOMAIN outbox = 1..Len(outbox) /\ Len(outbox') \in Nat
        /\ Len(outbox) <= Len(outbox')
    BY DEF TypeInv, StoreOK, RowsKept, RowsGrow
  <1>5. \A r \in DOMAIN outbox : outbox'[r].open => outbox[r].open
    BY DEF RowsKept, RowsGrow
  <1> QED
    BY <1>3, <1>4, <1>5 DEF LastRight, RowInv

LEMMA RowNext ==
  ASSUME TypeInv, RowInv, Next
  PROVE  RowInv'
  <1>1. TypeInv'
    BY NextType
  <1>2. RowsRight /\ \A p \in Pollers : LastRight(p) /\ p \in Jobs
    BY DEF RowInv, RowsRight, LastRight, Jobs
  <1>3. ASSUME NEW p \in Pollers, job'[p] = job[p]
        PROVE  /\ "lifecycle" \in job'[p].seen => "members" \in job'[p].seen
               /\ job'[p].batch \subseteq job[p].batch
    BY <1>2, <1>3 DEF LastRight
  <1> SUFFICES RowsRight' /\ \A p \in Pollers : LastRight(p)'
    BY DEF RowInv, RowsRight, LastRight
  <1>4. ASSUME NEW w \in Writers, Writes(w)
        PROVE  RowsRight' /\ \A p \in Pollers : LastRight(p)'
    <2>1. job' = job /\ (RowsKept \/ RowsGrow)
      BY <1>4, WritesStep
    <2>2. \A p \in Pollers : LastRight(p)'
      BY <1>1, <1>3, <2>1, LastKept
    <2> SUFFICES RowsRight'
      BY <2>2
    <2>3. CASE OpenTransaction(w)
      BY <1>2, <2>3, OpenStep DEF RowsGrow, RowsRight
    <2>4. CASE Change(w) \/ EnqueueFails(w)
      <3>1. outbox' = outbox
        BY <2>4, ChangeStep, EnqueueFailsStep
      <3> QED
        BY <1>2, <3>1 DEF RowsRight
    <2>5. CASE CommitTransaction(w)
      <3> DEFINE r == writer[w].row
      <3>1. /\ DOMAIN outbox' = DOMAIN outbox /\ outbox[r].key = "account"
            /\ \A s \in DOMAIN outbox : /\ outbox'[s].open = outbox[s].open
                                        /\ outbox'[s].key = outbox[s].key
                                        /\ s # r => outbox'[s] = outbox[s]
                                        /\ s = r => outbox'[s].state = IF outbox[s].state = "pending"
                                                      THEN "committed" ELSE outbox[s].state
        BY <2>5, CommitStep DEF RowsKept
      <3> HIDE DEF r
      <3> QED
        BY <1>2, <3>1 DEF RowsRight
    <2>6. CASE EnqueueAfter(w)
      <3> DEFINE r == RowOf(w)
      <3>1. /\ \A s \in DOMAIN outbox : s \in DOMAIN outbox' /\ outbox'[s] = outbox[s]
            /\ outbox'[r].state = "committed" /\ \A s \in DOMAIN outbox' \ DOMAIN outbox : s = r
        BY <2>6, EnqueueAfterStep DEF RowsGrow
      <3> HIDE DEF r
      <3> QED
        BY <1>2, <3>1 DEF RowsRight
    <2>7. CASE Rollback(w)
      BY <1>2, <2>7, RollbackStep DEF RowsKept, RowsRight
    <2> QED
      BY <1>4, <2>3, <2>4, <2>5, <2>6, <2>7 DEF Writes
  <1>5. ASSUME NEW j \in Jobs, ListAfterAndReleaseDedup(j)
        PROVE  RowsRight' /\ \A p \in Pollers : LastRight(p)'
    <2>1. /\ RowsKept /\ Only(j) /\ job'[j].seen = {}
          /\ job'[j].last \in After(cache.watermark) /\ job'[j].batch = After(cache.watermark)
          /\ \A r \in DOMAIN outbox : outbox'[r].state = outbox[r].state
          /\ \A r \in After(cache.watermark) : ~outbox'[r].open
      BY <1>5, ListStep
    <2>2. RowsRight'
      BY <1>2, <2>1 DEF RowsKept, RowsRight
    <2>3. LastRight(j)'
      BY <2>1, RowsFields DEF LastRight, After, RowsKept, TypeInv
    <2>4. ASSUME NEW p \in Pollers, p # j
          PROVE  LastRight(p)'
      <3>1. job'[p] = job[p]
        BY <1>2, <2>1, <2>4 DEF Only
      <3> QED
        BY <1>1, <1>3, <2>1, <3>1, LastKept
    <2> QED
      BY <2>2, <2>3, <2>4
  <1>6. ASSUME NEW j \in Jobs, Advance(j)
        PROVE  RowsRight' /\ \A p \in Pollers : LastRight(p)'
    <2>1. /\ RowsKept /\ Only(j) /\ Quits(j)
          /\ \A r \in DOMAIN outbox :
               \/ outbox'[r] = outbox[r]
               \/ r <= job[j].last /\ outbox'[r].state = "void" /\ ~outbox'[r].open
      BY <1>6, AdvanceStep
    <2>2. RowsRight'
      BY <1>2, <2>1 DEF RowsKept, RowsRight
    <2>3. ASSUME NEW p \in Pollers
          PROVE  LastRight(p)'
      <3>1. p # j => job'[p] = job[p]
        BY <1>2, <2>1 DEF Only
      <3>2. p = j => job'[p].last = 0 /\ job'[p].seen = {} /\ job'[p].batch = {}
        BY <2>1 DEF Quits
      <3> QED
        BY <1>1, <1>3, <2>1, <3>1, <3>2, LastKept
    <2> QED
      BY <2>2, <2>3
  <1>7. ASSUME NEW j \in Jobs, Moves(j)
        PROVE  RowsRight' /\ \A p \in Pollers : LastRight(p)'
    <2>1. /\ Only(j) /\ outbox' = outbox
          /\ Goes(j) \/ Quits(j) \/ (j \in Pollers /\ Handles(j))
      BY <1>7, MovesStep
    <2>2. RowsRight' /\ RowsKept
      BY <1>2, <2>1 DEF RowsKept, RowsRight
    <2>3. ASSUME NEW p \in Pollers
          PROVE  LastRight(p)'
      <3>1. CASE p # j
        <4>1. job'[p] = job[p]
          BY <1>2, <2>1, <3>1 DEF Only
        <4> QED
          BY <1>1, <1>3, <2>2, <4>1, LastKept
      <3>2. CASE p = j
        <4>1. "lifecycle" \in job'[p].seen => "members" \in job'[p].seen
          BY <1>2, <2>1, <3>2 DEF Goes, Quits, Handles, LastRight
        <4>2. /\ job'[p].last = 0 \/ job'[p].last = job[p].last
              /\ job'[p].batch \subseteq job[p].batch
          BY <2>1, <3>2 DEF Goes, Quits, Handles
        <4> QED
          BY <1>1, <2>2, <4>1, <4>2, LastKept
      <3> QED
        BY <3>1, <3>2
    <2> QED
      BY <2>2, <2>3
  <1>8. ASSUME Lapses
        PROVE  RowsRight' /\ \A p \in Pollers : LastRight(p)'
    <2>1. outbox' = outbox /\ job' = job
      BY <1>8, LapseStep DEF Lapses
    <2> QED
      BY <1>2, <2>1 DEF RowsRight, LastRight
  <1> QED
    BY <1>4, <1>5, <1>6, <1>7, <1>8, NextSplit

-----------------------------------------------------------------------------
(* The lease, the tokens and the versions.                                 *)

LEMMA LeaseNext ==
  ASSUME TypeInv, RowInv, LeaseInv, Next
  PROVE  LeaseInv'
  <1>1. \A k \in Jobs : InLease(k) => cache.lease = k
    BY DEF LeaseInv
  \* The lease of the others stays as it is.
  <1>2. ASSUME NEW j \in Jobs, Only(j), job'[j].pc \in {"decide", "apply", "release"} => cache'.lease = j,
               cache'.lease = cache.lease \/ cache.lease \in {None, j}
        PROVE  LeaseInv'
    <2> SUFFICES ASSUME NEW k \in Jobs, job'[k].pc \in {"decide", "apply", "release"}
                 PROVE  cache'.lease = k
      BY DEF LeaseInv, InLease
    <2>1. CASE k = j
      BY <1>2, <2>1
    <2>2. CASE k # j
      <3>1. InLease(k)
        BY <1>2, <2>2 DEF Only, InLease
      <3> QED
        BY <1>1, <1>2, <2>2, <3>1
    <2> QED
      BY <2>1, <2>2
  <1>3. ASSUME NEW w \in Writers, Writes(w)
        PROVE  LeaseInv'
    BY <1>1, <1>3, WritesStep DEF LeaseInv, InLease
  <1>4. ASSUME NEW j \in Jobs, ListAfterAndReleaseDedup(j)
        PROVE  LeaseInv'
    BY <1>2, <1>4, ListStep
  <1>5. ASSUME NEW j \in Jobs, Advance(j)
        PROVE  LeaseInv'
    BY <1>2, <1>5, AdvanceStep DEF Quits
  <1>6. ASSUME NEW j \in Jobs, Moves(j)
        PROVE  LeaseInv'
    <2>1. CASE AccountEvent(j) \/ SkipGroup(j)
      BY <1>2, <2>1, EventStep DEF Handles, StoreKept
    <2>2. CASE AcquireLease(j)
      BY <1>2, <2>2, LeaseStep DEF Quits
    <2>3. CASE ReadGroup(j)
      BY <1>1, <1>2, <2>3, ReadGroupStep DEF StoreKept, InLease
    <2>4. CASE ApplyDecision(j)
      <3>1. Only(j) /\ cache'.lease = cache.lease /\ job[j].pc = "apply"
        BY <2>4, ApplyStep
      <3> QED
        BY <1>1, <1>2, <3>1 DEF InLease
    <2>5. CASE ReleaseLease(j)
      <3>1. /\ Only(j) /\ cache'.lease = IF cache.lease = j THEN None ELSE cache.lease
            /\ job'[j].pc \in {"idle", "done", "lock", "event", "advance"}
        BY <2>5, ReleaseStep DEF Quits, Ends, Handles
      <3> QED
        BY <1>2, <3>1
    <2>6. CASE StartRebuild(j) \/ GetSnapshotMisses(j)
      BY <1>2, <2>6, StartStep DEF StoreKept
    <2>7. CASE Capture(j)
      BY <1>2, <2>7, CaptureStep DEF StoreKept, Ends, Quits, Handles
    <2>8. CASE TryLock(j)
      BY <1>2, <2>8, LockStep
    <2>9. CASE LockBusy(j)
      BY <1>2, <2>9, BusyStep DEF StoreKept, Quits, Handles
    <2>10. CASE Load(j)
      BY <1>2, <2>10, LoadStep DEF StoreKept
    <2>11. CASE Allocate(j)
      BY <1>2, <2>11, AllocateStep DEF Quits
    <2>12. CASE Activate(j)
      BY <1>2, <2>12, ActivateStep DEF Quits
    <2>13. CASE Unlock(j)
      BY <1>2, <2>13, UnlockStep DEF Ends, Quits, Handles
    <2>14. CASE JobFails(j)
      <3>1. /\ Only(j) /\ job'[j].pc \in {"idle", "done"}
            /\ cache'.lease = cache.lease \/ cache.lease = j
        BY <2>14, FailStep DEF Quits
      <3> QED
        BY <1>2, <3>1
    <2>15. CASE LoadForSingle(j)
      BY <1>2, <2>15, ReuseStep DEF StoreKept
    <2> QED
      BY <1>6, <2>1, <2>2, <2>3, <2>4, <2>5, <2>6, <2>7, <2>8, <2>9, <2>10, <2>11, <2>12,
         <2>13, <2>14, <2>15 DEF Moves
  <1>7. ASSUME Lapses
        PROVE  LeaseInv'
    <2>1. job' = job /\ (cache'.lease = cache.lease \/ (cache.lease \in Jobs /\ ~InLease(cache.lease)))
      BY <1>7, LapseStep DEF Lapses
    <2>2. \A k \in Jobs : InLease(k)' => InLease(k)
      BY <2>1 DEF InLease
    <2>3. \A k \in Jobs : InLease(k) => cache'.lease = k
      BY <1>1, <2>1
    <2> QED
      BY <2>2, <2>3 DEF LeaseInv
  <1> QED
    BY <1>3, <1>4, <1>5, <1>6, <1>7, NextSplit

\* What TokenInv says of a job, and of the snapshot.
TokenRight(j) ==
    /\ job[j].token <= cache.epoch /\ job[j].since <= cache.epoch
    /\ cache.retired => job[j].token < cache.epoch
    /\ job[j].pc \in {"reuse", "alloc", "activate"} => job[j].token <= job[j].since

\* j keeps or drops its token and what it read.
Retains(j) ==
    /\ job'[j].token \in {0, job[j].token} /\ job'[j].since \in {0, job[j].since}
    /\ job'[j].loaded \in {0, job[j].loaded}
    /\ job'[j].pc \in {"reuse", "alloc", "activate"} =>
         /\ job[j].pc \in {"reuse", "alloc", "activate"}
         /\ job'[j].token = job[j].token /\ job'[j].since = job[j].since

LEMMA NumberFields ==
  ASSUME TypeInv
  PROVE  /\ cache.epoch \in Nat \ {0} /\ cache.retired \in BOOLEAN
         /\ db.account \in Nat /\ db.group \in Nat
         /\ lost.account \in Nat /\ lost.group \in Nat /\ cache.watermark \in Nat
         /\ cache.snapshot \in [members : Nat, since : Nat] \cup {None}
         /\ \A j \in Jobs : /\ job[j].token \in Nat /\ job[j].since \in Nat
                            /\ job[j].loaded \in Nat /\ job[j].last \in Nat
                            /\ job[j].on \in BOOLEAN /\ job[j].batch \in SUBSET Nat
  <1>1. cache.epoch \in Nat \ {0} /\ cache.retired \in BOOLEAN /\ cache.watermark \in Nat
    BY DEF TypeInv, StoreOK, Caches
  <1>2. cache.snapshot \in [members : Nat, since : Nat] \cup {None}
    BY DEF TypeInv, StoreOK, Caches
  <1>3. /\ db.account \in Nat /\ db.group \in Nat
        /\ lost.account \in Nat /\ lost.group \in Nat
    BY DEF TypeInv, StoreOK
  <1>4. ASSUME NEW j \in Jobs
        PROVE  /\ job[j].token \in Nat /\ job[j].since \in Nat
               /\ job[j].loaded \in Nat /\ job[j].last \in Nat
               /\ job[j].on \in BOOLEAN /\ job[j].batch \in SUBSET Nat
    <2>1. job[j] \in JobRecs
      BY JobFields DEF TypeInv
    <2> QED
      BY <2>1 DEF JobRecs
  <1> QED
    BY <1>1, <1>2, <1>3, <1>4

LEMMA TokenKept ==
  ASSUME TypeInv, TokenInv, NEW j \in Jobs, Only(j), Retains(j),
         cache'.snapshot = cache.snapshot, cache'.epoch = cache.epoch,
         cache'.retired = cache.retired
  PROVE  TokenInv'
  <1>1. \A k \in Jobs : TokenRight(k)
    BY DEF TokenInv, TokenRight
  <1>2. ASSUME NEW k \in Jobs
        PROVE  TokenRight(k)'
    <2>1. CASE k = j
      BY <1>1, <2>1, NumberFields DEF TokenRight, Retains
    <2>2. CASE k # j
      BY <1>1, <2>2 DEF TokenRight, Only
    <2> QED
      BY <2>1, <2>2
  <1>3. LoadedSinceRetirement'
    BY DEF TokenInv, LoadedSinceRetirement
  <1> QED
    BY <1>2, <1>3 DEF TokenInv, TokenRight

LEMMA TokenNext ==
  ASSUME TypeInv, RowInv, TokenInv, Next
  PROVE  TokenInv'
  <1>1. (\A k \in Jobs : TokenRight(k)) /\ LoadedSinceRetirement
    BY DEF TokenInv, TokenRight
  <1>2. ASSUME \A k \in Jobs : TokenRight(k)', LoadedSinceRetirement'
        PROVE  TokenInv'
    BY <1>2 DEF TokenInv, TokenRight
  <1>3. ASSUME NEW w \in Writers, Writes(w)
        PROVE  TokenInv'
    <2>1. UNCHANGED <<cache, job>>
      BY <1>3, WritesStep
    <2> QED
      BY <1>1, <1>2, <2>1 DEF TokenRight, LoadedSinceRetirement
  <1>4. ASSUME NEW j \in Jobs, ListAfterAndReleaseDedup(j)
        PROVE  TokenInv'
    BY <1>4, ListStep, TokenKept DEF Retains
  <1>5. ASSUME NEW j \in Jobs, Advance(j)
        PROVE  TokenInv'
    BY <1>5, AdvanceStep, TokenKept DEF Retains, Quits
  <1>6. ASSUME NEW j \in Jobs, Moves(j)
        PROVE  TokenInv'
    <2>1. CASE AccountEvent(j) \/ SkipGroup(j)
      BY <2>1, EventStep, TokenKept DEF Retains, Handles, StoreKept
    <2>2. CASE AcquireLease(j)
      BY <2>2, LeaseStep, TokenKept DEF Retains, Quits, ShotKept
    <2>3. CASE ReadGroup(j)
      BY <2>3, ReadGroupStep, TokenKept DEF Retains, StoreKept
    <2>4. CASE ApplyDecision(j)
      <3>1. /\ Only(j) /\ job'[j].pc = "release" /\ job[j].on \in BOOLEAN
            /\ job'[j].since = job[j].since
            /\ job'[j].token = IF job[j].on THEN cache'.epoch ELSE 0
            /\ IF job[j].on
               THEN /\ cache'.retired = FALSE /\ cache'.epoch = cache.epoch
                    /\ IF cache.retired THEN cache'.snapshot = None ELSE cache' = cache
               ELSE /\ cache'.retired = TRUE /\ cache'.snapshot = None
                    /\ cache'.epoch = IF cache.retired THEN cache.epoch ELSE cache.epoch + 1
        BY <2>4, ApplyStep
      <3>2. ASSUME NEW k \in Jobs
            PROVE  TokenRight(k)'
        <4>1. CASE k = j
          BY <1>1, <3>1, <4>1, NumberFields DEF TokenRight
        <4>2. CASE k # j
          BY <1>1, <3>1, <4>2, NumberFields DEF TokenRight, Only
        <4> QED
          BY <4>1, <4>2
      <3>3. LoadedSinceRetirement'
        BY <1>1, <3>1, NumberFields DEF LoadedSinceRetirement
      <3> QED
        BY <1>2, <3>2, <3>3
    <2>5. CASE ReleaseLease(j)
      BY <2>5, ReleaseStep, TokenKept DEF Retains, Quits, Ends, Handles, ShotKept
    <2>6. CASE StartRebuild(j) \/ GetSnapshotMisses(j)
      BY <2>6, StartStep, TokenKept DEF Retains, StoreKept
    <2>7. CASE Capture(j)
      <3>1. Only(j) /\ cache' = cache
        BY <2>7, CaptureStep DEF StoreKept
      <3>2. \/ Retains(j)
            \/ /\ ~cache.retired /\ job'[j].pc \in {"load", "lock"}
               /\ job'[j].token = cache.epoch /\ job'[j].since = job[j].since
        BY <2>7, CaptureStep DEF Retains, Ends, Quits, Handles
      <3>3. CASE Retains(j)
        BY <3>1, <3>3, TokenKept
      <3>4. CASE /\ ~cache.retired /\ job'[j].pc \in {"load", "lock"}
                 /\ job'[j].token = cache.epoch /\ job'[j].since = job[j].since
        <4>1. TokenRight(j)'
          BY <1>1, <3>1, <3>4, NumberFields DEF TokenRight
        <4>2. \A k \in Jobs : k # j => TokenRight(k)'
          BY <1>1, <3>1 DEF TokenRight, Only
        <4>3. LoadedSinceRetirement'
          BY <1>1, <3>1 DEF LoadedSinceRetirement
        <4> QED
          BY <1>2, <4>1, <4>2, <4>3
      <3> QED
        BY <3>2, <3>3, <3>4
    <2>8. CASE TryLock(j)
      BY <2>8, LockStep, TokenKept DEF Retains, ShotKept
    <2>9. CASE LockBusy(j)
      BY <2>9, BusyStep, TokenKept DEF Retains, StoreKept, Quits, Handles
    <2>10. CASE Load(j) \/ LoadForSingle(j)
      <3>1. /\ Only(j) /\ cache' = cache /\ job'[j].token = job[j].token
            /\ job'[j].since = cache.epoch
        BY <2>10, LoadStep, ReuseStep DEF StoreKept
      <3>2. TokenRight(j)'
        BY <1>1, <3>1, NumberFields DEF TokenRight
      <3>3. \A k \in Jobs : k # j => TokenRight(k)'
        BY <1>1, <3>1 DEF TokenRight, Only
      <3>4. LoadedSinceRetirement'
        BY <1>1, <3>1 DEF LoadedSinceRetirement
      <3> QED
        BY <1>2, <3>2, <3>3, <3>4
    <2>11. CASE Allocate(j)
      BY <2>11, AllocateStep, TokenKept DEF Retains, Quits, ShotKept
    <2>12. CASE Activate(j)
      <3>1. /\ Only(j) /\ job[j].pc = "activate"
            /\ job'[j].token = 0 /\ job'[j].loaded = 0 /\ job'[j].since = 0
            /\ job'[j].pc \notin {"reuse", "alloc", "activate"}
            /\ cache'.epoch = cache.epoch /\ cache'.retired = cache.retired
            /\ \/ cache' = cache
               \/ ~Fenced(j) /\ cache'.snapshot = [members |-> job[j].loaded, since |-> job[j].since]
        BY <2>12, ActivateStep DEF Quits
      <3>2. TokenRight(j)'
        BY <1>1, <3>1, NumberFields DEF TokenRight
      <3>3. \A k \in Jobs : k # j => TokenRight(k)'
        BY <1>1, <3>1 DEF TokenRight, Only
      <3>4. LoadedSinceRetirement'
        <4>1. CASE cache' = cache
          BY <1>1, <4>1 DEF LoadedSinceRetirement
        <4>2. CASE ~Fenced(j) /\ cache'.snapshot = [members |-> job[j].loaded, since |-> job[j].since]
          <5>1. ~cache.retired /\ job[j].token = cache.epoch
            BY <4>2 DEF Fenced
          <5>2. job[j].since = cache.epoch
            BY <1>1, <3>1, <5>1, NumberFields DEF TokenRight
          <5> QED
            BY <3>1, <4>2, <5>1, <5>2 DEF LoadedSinceRetirement
        <4> QED
          BY <3>1, <4>1, <4>2
      <3> QED
        BY <1>2, <3>2, <3>3, <3>4
    <2>13. CASE Unlock(j)
      BY <2>13, UnlockStep, TokenKept DEF Retains, Ends, Quits, Handles, ShotKept
    <2>14. CASE JobFails(j)
      BY <2>14, FailStep, TokenKept DEF Retains, Quits, ShotKept
    <2> QED
      BY <1>6, <2>1, <2>2, <2>3, <2>4, <2>5, <2>6, <2>7, <2>8, <2>9, <2>10, <2>11, <2>12,
         <2>13, <2>14 DEF Moves
  <1>7. ASSUME Lapses
        PROVE  TokenInv'
    <2>1. job' = job /\ ShotKept
      BY <1>7, LapseStep DEF Lapses
    <2> QED
      BY <1>1, <1>2, <2>1 DEF TokenRight, LoadedSinceRetirement, ShotKept
  <1> QED
    BY <1>3, <1>4, <1>5, <1>6, <1>7, NextSplit

LEMMA VersionNext ==
  ASSUME TypeInv, RowInv, VersionInv, Next
  PROVE  VersionInv'
  <1>1. /\ lost.account <= db.account
        /\ cache.snapshot # None => cache.snapshot.members <= db.account
        /\ \A k \in Jobs : job[k].loaded <= db.account
    BY DEF VersionInv
  <1>2. /\ cache.snapshot # None => cache.snapshot.members \in Nat
        /\ \A k \in Jobs : job[k].loaded \in Nat
        /\ db.account \in Nat /\ lost.account \in Nat
    BY NumberFields
  <1>3. ASSUME NEW j \in Jobs, Only(j), UNCHANGED db, job'[j].loaded \in {0, job[j].loaded, db.account},
               cache'.snapshot \in {None, cache.snapshot, [members |-> job[j].loaded, since |-> job[j].since]},
               lost'.account \in {lost.account, db.account}
        PROVE  VersionInv'
    <2>1. \A k \in Jobs : job'[k].loaded <= db'.account
      BY <1>1, <1>2, <1>3 DEF Only
    <2>2. cache'.snapshot # None => cache'.snapshot.members <= db'.account
      BY <1>1, <1>2, <1>3
    <2>3. lost'.account <= db'.account
      BY <1>1, <1>2, <1>3
    <2> QED
      BY <2>1, <2>2, <2>3 DEF VersionInv
  <1>4. ASSUME NEW w \in Writers, Writes(w)
        PROVE  VersionInv'
    <2>1. UNCHANGED <<cache, job>>
      BY <1>4, WritesStep
    <2>2. /\ db'.account = db.account \/ db'.account = db.account + 1
          /\ lost'.account = lost.account \/ lost'.account = db'.account
      <3>1. CASE OpenTransaction(w)
        BY <3>1, OpenStep
      <3>2. CASE Change(w)
        BY <3>2, ChangeStep
      <3>3. CASE CommitTransaction(w)
        BY <3>3, CommitStep
      <3>4. CASE EnqueueAfter(w)
        BY <3>4, EnqueueAfterStep
      <3>5. CASE Rollback(w)
        BY <3>5, RollbackStep
      <3>6. CASE EnqueueFails(w)
        BY <3>6, EnqueueFailsStep
      <3> QED
        BY <1>4, <3>1, <3>2, <3>3, <3>4, <3>5, <3>6 DEF Writes
    <2> QED
      BY <1>1, <1>2, <2>1, <2>2 DEF VersionInv
  <1>5. ASSUME NEW j \in Jobs, ListAfterAndReleaseDedup(j)
        PROVE  VersionInv'
    BY <1>3, <1>5, ListStep
  <1>6. ASSUME NEW j \in Jobs, Advance(j)
        PROVE  VersionInv'
    BY <1>3, <1>6, AdvanceStep DEF Quits
  <1>7. ASSUME NEW j \in Jobs, Moves(j)
        PROVE  VersionInv'
    <2>1. CASE AccountEvent(j) \/ SkipGroup(j)
      BY <1>3, <2>1, EventStep DEF Handles, StoreKept
    <2>2. CASE AcquireLease(j)
      BY <1>3, <2>2, LeaseStep DEF Quits, ShotKept
    <2>3. CASE ReadGroup(j)
      BY <1>3, <2>3, ReadGroupStep DEF StoreKept
    <2>4. CASE ApplyDecision(j)
      <3>1. /\ Only(j) /\ UNCHANGED db /\ job'[j].loaded = job[j].loaded
            /\ lost'.account = lost.account
            /\ cache'.snapshot = None \/ cache'.snapshot = cache.snapshot
        BY <2>4, ApplyStep
      <3> QED
        BY <1>3, <3>1
    <2>5. CASE ReleaseLease(j)
      BY <1>3, <2>5, ReleaseStep DEF Quits, Ends, Handles, ShotKept
    <2>6. CASE StartRebuild(j) \/ GetSnapshotMisses(j)
      BY <1>3, <2>6, StartStep DEF StoreKept
    <2>7. CASE Capture(j)
      BY <1>3, <2>7, CaptureStep DEF Ends, Quits, Handles, StoreKept
    <2>8. CASE TryLock(j)
      BY <1>3, <2>8, LockStep DEF ShotKept
    <2>9. CASE LockBusy(j)
      <3>1. /\ Only(j) /\ UNCHANGED <<db, cache>> /\ job'[j].loaded = 0
            /\ lost'.account = lost.account \/ lost'.account = db.account
        <4>1. lost \in [account : Nat, group : Nat]
          BY DEF TypeInv, StoreOK
        <4> QED
          BY <2>9, <4>1, BusyStep DEF Quits, Handles, StoreKept
      <3> QED
        BY <1>3, <3>1
    <2>10. CASE Load(j) \/ LoadForSingle(j)
      BY <1>3, <2>10, LoadStep, ReuseStep DEF StoreKept
    <2>11. CASE Allocate(j)
      BY <1>3, <2>11, AllocateStep DEF Quits, ShotKept
    <2>12. CASE Activate(j)
      <3>1. /\ Only(j) /\ UNCHANGED db /\ job'[j].loaded = 0
            /\ \/ cache' = cache
               \/ cache'.snapshot = [members |-> job[j].loaded, since |-> job[j].since]
            /\ lost'.account = lost.account \/ lost'.account = db.account
        <4>1. lost \in [account : Nat, group : Nat]
          BY DEF TypeInv, StoreOK
        <4> QED
          BY <2>12, <4>1, ActivateStep
      <3> QED
        BY <1>3, <3>1
    <2>13. CASE Unlock(j)
      BY <1>3, <2>13, UnlockStep DEF Ends, Quits, Handles, ShotKept
    <2>14. CASE JobFails(j)
      BY <1>3, <2>14, FailStep DEF Quits, ShotKept
    <2> QED
      BY <1>7, <2>1, <2>2, <2>3, <2>4, <2>5, <2>6, <2>7, <2>8, <2>9, <2>10, <2>11, <2>12,
         <2>13, <2>14 DEF Moves
  <1>8. ASSUME Lapses
        PROVE  VersionInv'
    BY <1>1, <1>8, LapseStep DEF Lapses, ShotKept, VersionInv
  <1> QED
    BY <1>4, <1>5, <1>6, <1>7, <1>8, NextSplit

-----------------------------------------------------------------------------
(* Events that are still to come.                                          *)

Less == OpToRel(<, Nat)

LEMMA LeastOf ==
  ASSUME NEW S \in SUBSET Nat, S # {}
  PROVE  \E r \in S : \A s \in S : r <= s
  <1>1. IsWellFoundedOn(Less, Nat)
    BY NatLessThanWellFounded, PTL DEF Less
  <1>2. PICK r \in S : \A s \in S : ~(<<s, r>> \in Less)
    BY <1>1, WFMin, Zenon
  <1>3. \A s \in S : ~(s < r)
    BY <1>2 DEF OpToRel, Less
  <1> QED
    BY <1>3

\* The keys of the events of a batch do not change.
LEMMA KeyKept ==
  ASSUME TypeInv, RowInv, RowsKept \/ RowsGrow, NEW p \in Pollers, job'[p].batch = job[p].batch,
         job[p].batch # {}
  PROVE  First(p) \in job[p].batch /\ EventKey(p)' = EventKey(p)
  <1>1. p \in Jobs /\ job[p].batch \subseteq DOMAIN outbox
    BY DEF RowInv, Jobs
  <1>2. job[p].batch \in SUBSET Nat
    BY <1>1, NumberFields
  <1>3. First(p) \in job[p].batch
    BY <1>2, LeastOf DEF First
  <1>4. First(p)' = First(p)
    BY DEF First
  <1>5. \A r \in DOMAIN outbox : outbox'[r].key = outbox[r].key
    BY DEF RowsKept, RowsGrow
  <1> QED
    BY <1>1, <1>3, <1>4, <1>5 DEF EventKey

LEMMA AnnouncingKept ==
  ASSUME NEW w \in Writers, OnlyWriter(w), NEW key, writer[w].pc # "enqueue" \/ Key(w) # key,
         Announcing(key)
  PROVE  Announcing(key)'
  BY DEF Announcing, OnlyWriter, WriterAt, Key

\* What comes of the row w's event is in.
LEMMA EventAhead ==
  ASSUME TypeInv, TypeInv', RowInv, UNCHANGED <<cache, job>>, NEW r \in DOMAIN outbox',
         NEW key, outbox'[r].state = "committed", outbox'[r].key = key,
         r \in DOMAIN outbox => ~Unheard(r),
         r \in DOMAIN outbox \/ r > Len(outbox)
  PROVE  Ahead(r, key)' /\ \A p \in Pollers : ~(job'[p].last >= r)
  <1>1. /\ DOMAIN outbox = 1..Len(outbox) /\ Len(outbox) \in Nat /\ DOMAIN outbox' \subseteq Nat
        /\ cache.watermark <= Len(outbox) /\ cache.watermark \in Nat
    BY NumberFields DEF TypeInv, StoreOK
  <1>2. \A p \in Pollers : /\ job[p].last \in Nat /\ job[p].last <= Len(outbox)
                           /\ job[p].last > 0 => ~outbox[job[p].last].open
    BY NumberFields DEF RowInv, Jobs
  <1>3. CASE r \in DOMAIN outbox
    <2>1. /\ outbox[r].open /\ r > cache.watermark
          /\ \A p \in Pollers : ~(r < job[p].last)
      BY <1>1, <1>3 DEF Unheard, Passed
    <2>2. \A p \in Pollers : job[p].last # r
      BY <1>1, <1>2, <1>3, <2>1
    <2>3. \A p \in Pollers : ~(job[p].last >= r)
      BY <1>1, <1>2, <1>3, <2>1, <2>2
    <2> QED
      BY <2>1, <2>3 DEF Ahead, Committed
  <1>4. CASE r \notin DOMAIN outbox
    <2>1. r > Len(outbox)
      BY <1>4
    <2>2. r > cache.watermark /\ \A p \in Pollers : ~(job[p].last >= r)
      BY <1>1, <1>2, <2>1
    <2> QED
      BY <2>2 DEF Ahead, Committed
  <1> QED
    BY <1>3, <1>4

-----------------------------------------------------------------------------
(* The group.                                                              *)

\* The jobs in K alone change, and they do not drop a group's event.
LEMMA GroupHeardKept ==
  ASSUME TypeInv, TypeInv', RowInv, RowsKept \/ RowsGrow,
         Announcing("group") => Announcing("group")', db'.group = db.group,
         NEW K \in SUBSET Jobs, \A k \in Jobs \ K : job'[k] = job[k],
         \A r \in DOMAIN outbox :
           Ahead(r, "group") /\ (\A p \in Pollers : job[p].last >= r => Decides(p, r))
             => /\ Ahead(r, "group")'
                /\ \A p \in Pollers \cap K : job'[p].last >= r => Decides(p, r)',
         GroupHeard
  PROVE  GroupHeard'
  <1>1. CASE Announcing("group")
    BY <1>1 DEF GroupHeard
  <1>2. CASE ~Announcing("group")
    <2>1. PICK r \in DOMAIN outbox :
            Ahead(r, "group") /\ \A p \in Pollers : job[p].last >= r => Decides(p, r)
      BY <1>2 DEF GroupHeard
    <2>2. Ahead(r, "group")' /\ \A p \in Pollers \cap K : job'[p].last >= r => Decides(p, r)'
      BY <2>1
    <2>3. ASSUME NEW p \in Pollers, p \notin K, job'[p].last >= r
          PROVE  Decides(p, r)'
      <3>1. job'[p] = job[p]
        BY <2>3 DEF Jobs
      <3>2. Decides(p, r)
        BY <2>1, <2>3, <3>1
      <3>3. EventKey(p)' = EventKey(p)
        BY <3>1, <3>2, KeyKept DEF Decides
      <3>4. job[p].pc = "apply" => job[p].on = Active
        BY <3>2 DEF Decides
      <3> QED
        BY <3>1, <3>2, <3>3 DEF Decides, Active
    <2>4. r \in DOMAIN outbox'
      BY <2>2 DEF Ahead
    <2> QED
      BY <2>2, <2>3, <2>4 DEF GroupHeard
  <1> QED
    BY <1>1, <1>2

\* The decision itself is not taken, and what it followed stays.
GroupRight == (cache.retired <=> ~Active) \/ lost.group = db.group \/ GroupHeard
DecidesRight(j) ==
    job[j].pc = "apply" => job[j].on = Active \/ lost.group = db.group \/ GroupHeard

LEMMA GroupKept ==
  ASSUME TypeInv, GroupInv, GroupHeard => GroupHeard',
         db'.group = db.group, lost'.group = lost.group, cache'.retired = cache.retired,
         NEW K \in SUBSET Jobs, \A k \in Jobs \ K : job'[k] = job[k],
         \A k \in K : job'[k].pc = "apply" => job'[k].on = Active
  PROVE  GroupInv'
  <1>1. Active' = Active
    BY DEF Active
  <1>2. GroupRight /\ \A k \in Jobs : DecidesRight(k)
    BY DEF GroupInv, GroupRight, DecidesRight
  <1>3. GroupRight'
    BY <1>1, <1>2 DEF GroupRight
  <1>4. ASSUME NEW k \in Jobs
        PROVE  DecidesRight(k)'
    <2>1. CASE k \in K
      BY <1>1, <2>1 DEF DecidesRight
    <2>2. CASE k \notin K
      BY <1>1, <1>2, <2>2 DEF DecidesRight
    <2> QED
      BY <2>1, <2>2
  <1> QED
    BY <1>3, <1>4 DEF GroupInv, GroupRight, DecidesRight

\* j does not drop the event of a group that it has still to decide about.
KeepsGroup(j) ==
    j \in Pollers =>
      \A r \in DOMAIN outbox :
        outbox[r].key = "group" /\ Decides(j, r) /\ job'[j].last > 0 => Decides(j, r)'

LEMMA GroupMoves ==
  ASSUME TypeInv, RowInv, GroupInv, NEW j \in Jobs, Moves(j), KeepsGroup(j),
         lost'.group = lost.group, cache'.retired = cache.retired,
         job'[j].pc = "apply" => job'[j].on = Active
  PROVE  GroupInv'
  <1>1. /\ TypeInv' /\ Only(j) /\ UNCHANGED <<db, outbox, writer>>
        /\ cache'.watermark = cache.watermark
        /\ Goes(j) \/ Quits(j) \/ (j \in Pollers /\ Handles(j))
    BY MovesStep
  <1>2. RowsKept
    BY <1>1 DEF RowsKept
  <1>3. Announcing("group") => Announcing("group")'
    BY <1>1 DEF Announcing, WriterAt, Key
  <1>4. \A k \in Jobs \ {j} : job'[k] = job[k]
    BY <1>1 DEF Only
  <1>5. DOMAIN outbox \subseteq Nat /\ 0 \notin DOMAIN outbox
    BY RowsFields DEF TypeInv
  <1>6. ASSUME NEW r \in DOMAIN outbox, Ahead(r, "group"),
               \A p \in Pollers : job[p].last >= r => Decides(p, r)
        PROVE  /\ Ahead(r, "group")'
               /\ \A p \in Pollers \cap {j} : job'[p].last >= r => Decides(p, r)'
    <2>1. Ahead(r, "group")'
      BY <1>1, <1>6 DEF Ahead, Committed
    <2>2. ASSUME j \in Pollers, job'[j].last >= r
          PROVE  Decides(j, r)'
      <3>1. job'[j].last = job[j].last \/ job'[j].last = 0
        BY <1>1 DEF Goes, Quits, Handles
      <3>2. job'[j].last = job[j].last /\ job[j].last > 0 /\ job[j].last >= r
        BY <1>5, <2>2, <3>1, NumberFields
      <3> QED
        BY <1>6, <2>2, <3>2 DEF KeepsGroup, Ahead
    <2> QED
      BY <2>1, <2>2
  <1>7. GroupHeard => GroupHeard'
    BY <1>1, <1>2, <1>3, <1>4, <1>6, GroupHeardKept
  <1> DEFINE K == {j}
  <1>8. /\ K \in SUBSET Jobs /\ \A k \in Jobs \ K : job'[k] = job[k]
        /\ \A k \in K : job'[k].pc = "apply" => job'[k].on = Active
        /\ db'.group = db.group
    BY <1>1, <1>4
  <1> HIDE DEF K
  <1> QED
    BY <1>7, <1>8, GroupKept

\* A poller that is past the decision, or at an account's event.
LEMMA KeepsGroupLater ==
  ASSUME TypeInv, RowInv, NEW j \in Jobs, UNCHANGED <<db, outbox>>,
         \/ Quits(j)
         \/ Goes(j) /\ job'[j].pc \in {"capture", "lock", "reuse", "load", "alloc", "activate", "unlock"}
         \/ j \in Pollers /\ Handles(j),
         \/ job[j].pc \in {"capture", "lock", "reuse", "load", "alloc", "activate", "unlock"}
         \/ job[j].pc = "event" /\ (EventKey(j) = "account" \/ "lifecycle" \in job[j].seen)
         \/ job[j].pc = "release"
  PROVE  KeepsGroup(j)
  <1> SUFFICES ASSUME j \in Pollers, NEW r \in DOMAIN outbox, outbox[r].key = "group",
                      Decides(j, r), job'[j].last > 0
               PROVE  Decides(j, r)'
    BY DEF KeepsGroup
  <1>1. /\ r \in job[j].batch /\ "lifecycle" \notin job[j].seen /\ EventKey(j) = "account"
    BY DEF Decides
  <1>2. RowsKept
    BY DEF RowsKept
  <1>3. CASE Quits(j)
    BY <1>3 DEF Quits
  <1>4. CASE Goes(j) /\ job'[j].pc \in {"capture", "lock", "reuse", "load", "alloc", "activate", "unlock"}
    <2>1. EventKey(j)' = EventKey(j)
      BY <1>1, <1>2, <1>4, KeyKept DEF Goes
    <2> QED
      BY <1>1, <1>4, <2>1 DEF Goes, Decides
  <1>5. CASE Handles(j)
    <2>1. r # First(j)
      BY <1>1 DEF EventKey
    <2>2. r \in job'[j].batch /\ job[j].batch # {First(j)}
      BY <1>1, <1>5, <2>1 DEF Handles
    <2>3. "lifecycle" \notin job'[j].seen
      BY <1>1, <1>5 DEF Handles
    <2>4. job'[j].pc = "event"
      BY <1>5, <2>2 DEF Handles
    <2> QED
      BY <2>2, <2>3, <2>4 DEF Decides
  <1> QED
    BY <1>3, <1>4, <1>5

LEMMA GroupMovesNext ==
  ASSUME TypeInv, RowInv, LeaseInv, GroupInv, NEW j \in Jobs, Moves(j)
  PROVE  GroupInv'
  <1>1. Only(j) /\ UNCHANGED <<db, outbox>>
    BY MovesStep
  <1>2. CASE AccountEvent(j) \/ SkipGroup(j)
    <2>1. KeepsGroup(j)
      BY <1>1, <1>2, EventStep, KeepsGroupLater
    <2>2. job'[j].pc # "apply" /\ lost'.group = lost.group /\ cache'.retired = cache.retired
      BY <1>2, EventStep DEF StoreKept, Handles
    <2> QED
      BY <2>1, <2>2, GroupMoves
  <1>3. CASE AcquireLease(j)
    <2>1. /\ job[j].pc \in {"event", "lease"}
          /\ Quits(j) \/ (Goes(j) /\ job'[j].pc = "decide")
          /\ lost'.group = lost.group /\ cache'.retired = cache.retired
      BY <1>3, LeaseStep DEF ShotKept
    <2>2. KeepsGroup(j)
      BY <2>1 DEF KeepsGroup, Quits, Goes, Decides
    <2>3. job'[j].pc # "apply"
      BY <2>1 DEF Quits
    <2> QED
      BY <2>1, <2>2, <2>3, GroupMoves
  <1>4. CASE ReadGroup(j)
    <2>1. /\ Goes(j) /\ job[j].pc = "decide" /\ job'[j].pc = "apply" /\ job'[j].on = Active
          /\ lost'.group = lost.group /\ cache'.retired = cache.retired
      BY <1>4, ReadGroupStep DEF StoreKept
    <2>2. Active' = Active
      BY <1>1 DEF Active
    <2>3. KeepsGroup(j)
      BY <2>1, <2>2 DEF KeepsGroup, Goes, Decides
    <2> QED
      BY <2>1, <2>3, GroupMoves
  <1>5. CASE ApplyDecision(j)
    <2>1. /\ job[j].pc = "apply" /\ job'[j].pc = "release" /\ job[j].on \in BOOLEAN
          /\ cache'.retired = ~job[j].on
          /\ job[j].on # Active => lost' = lost
      BY <1>5, ApplyStep
    <2>2. Active' = Active /\ Active \in BOOLEAN
      BY <1>1 DEF Active
    <2>3. ASSUME NEW k \in Jobs
          PROVE  job'[k].pc # "apply"
      <3>1. CASE k = j
        BY <2>1, <3>1
      <3>2. CASE k # j
        BY <1>1, <2>1, <3>2 DEF LeaseInv, InLease, Only
      <3> QED
        BY <3>1, <3>2
    <2>4. CASE job[j].on = Active
      <3>1. cache'.retired <=> ~Active'
        BY <2>1, <2>2, <2>4
      <3> QED
        BY <2>3, <3>1 DEF GroupInv
    <2>5. CASE job[j].on # Active
      <3>1. lost.group = db.group \/ GroupHeard
        BY <2>1, <2>5 DEF GroupInv
      <3>2. /\ TypeInv' /\ UNCHANGED <<db, outbox, writer>> /\ cache'.watermark = cache.watermark
            /\ Goes(j) /\ \A k \in Jobs \ {j} : job'[k] = job[k]
        BY <1>1, <1>5, ApplyStep DEF Only
      <3>3. RowsKept /\ (Announcing("group") => Announcing("group")')
        BY <3>2 DEF RowsKept, Announcing, WriterAt, Key
      <3>4. ASSUME NEW r \in DOMAIN outbox, Ahead(r, "group"),
                   \A p \in Pollers : job[p].last >= r => Decides(p, r)
            PROVE  /\ Ahead(r, "group")'
                   /\ \A p \in Pollers \cap {j} : job'[p].last >= r => Decides(p, r)'
        <4>1. Ahead(r, "group")'
          BY <3>2, <3>4 DEF Ahead, Committed
        <4>2. j \in Pollers => ~(job'[j].last >= r)
          BY <2>1, <2>5, <3>2, <3>4 DEF Goes, Decides
        <4> QED
          BY <4>1, <4>2
      <3>5. GroupHeard => GroupHeard'
        BY <3>2, <3>3, <3>4, GroupHeardKept
      <3>6. lost'.group = db'.group \/ GroupHeard'
        BY <2>1, <2>5, <3>1, <3>2, <3>5
      <3> QED
        BY <2>3, <3>6 DEF GroupInv
    <2> QED
      BY <2>4, <2>5
  <1>6. CASE ReleaseLease(j)
    <2>1. /\ Quits(j) \/ (Goes(j) /\ job'[j].pc = "lock") \/ (j \in Pollers /\ Handles(j))
          /\ job[j].pc = "release" /\ job'[j].pc # "apply"
          /\ lost'.group = lost.group /\ cache'.retired = cache.retired
      BY <1>6, ReleaseStep DEF ShotKept, Ends, Quits, Handles
    <2>2. KeepsGroup(j)
      BY <1>1, <2>1, KeepsGroupLater
    <2> QED
      BY <2>1, <2>2, GroupMoves
  <1>7. CASE StartRebuild(j) \/ GetSnapshotMisses(j)
    <2>1. /\ j \notin Pollers /\ job'[j].pc # "apply"
          /\ lost'.group = lost.group /\ cache'.retired = cache.retired
      BY <1>7, StartStep DEF StoreKept
    <2>2. KeepsGroup(j)
      BY <2>1 DEF KeepsGroup
    <2> QED
      BY <2>1, <2>2, GroupMoves
  <1>8. CASE Capture(j)
    <2>1. /\ job[j].pc = "capture" /\ job'[j].pc # "apply"
          /\ lost'.group = lost.group /\ cache'.retired = cache.retired
          /\ \/ j \notin Pollers
             \/ Goes(j) /\ job'[j].pc = "lock"
             \/ j \in Pollers /\ Handles(j)
      BY <1>8, CaptureStep DEF StoreKept, Ends, Quits, Handles
    <2>2. KeepsGroup(j)
      BY <1>1, <2>1, KeepsGroupLater DEF KeepsGroup
    <2> QED
      BY <2>1, <2>2, GroupMoves
  <1>9. CASE LoadForSingle(j) \/ TryLock(j) \/ Load(j)
    <2>1. /\ job[j].pc \in {"lock", "reuse", "load"} /\ Goes(j)
          /\ job'[j].pc \in {"reuse", "load", "alloc"}
          /\ lost'.group = lost.group /\ cache'.retired = cache.retired
      BY <1>9, LockStep, LoadStep, ReuseStep DEF StoreKept, ShotKept
    <2>2. KeepsGroup(j)
      BY <1>1, <2>1, KeepsGroupLater
    <2> QED
      BY <2>1, <2>2, GroupMoves
  <1>10. CASE LockBusy(j)
    <2>1. /\ job[j].pc \in {"lock", "reuse"} /\ (Quits(j) \/ (j \in Pollers /\ Handles(j)))
          /\ lost'.group = lost.group /\ cache'.retired = cache.retired
      BY <1>10, BusyStep DEF StoreKept
    <2>2. job'[j].pc # "apply"
      BY <2>1 DEF Quits, Handles
    <2>3. KeepsGroup(j)
      BY <1>1, <2>1, KeepsGroupLater
    <2> QED
      BY <2>1, <2>2, <2>3, GroupMoves
  <1>11. CASE Allocate(j)
    <2>1. /\ job[j].pc = "alloc" /\ lost'.group = lost.group /\ cache'.retired = cache.retired
          /\ Quits(j) \/ (Goes(j) /\ job'[j].pc \in {"activate", "unlock"})
      BY <1>11, AllocateStep DEF ShotKept
    <2>2. job'[j].pc # "apply"
      BY <2>1 DEF Quits
    <2>3. KeepsGroup(j)
      BY <1>1, <2>1, KeepsGroupLater
    <2> QED
      BY <2>1, <2>2, <2>3, GroupMoves
  <1>12. CASE Activate(j)
    <2>1. /\ job[j].pc = "activate" /\ lost'.group = lost.group /\ cache'.retired = cache.retired
          /\ Quits(j) \/ (Goes(j) /\ job'[j].pc = "unlock")
      BY <1>12, ActivateStep
    <2>2. job'[j].pc # "apply"
      BY <2>1 DEF Quits
    <2>3. KeepsGroup(j)
      BY <1>1, <2>1, KeepsGroupLater
    <2> QED
      BY <2>1, <2>2, <2>3, GroupMoves
  <1>13. CASE Unlock(j)
    <2>1. /\ job[j].pc = "unlock" /\ lost'.group = lost.group /\ cache'.retired = cache.retired
          /\ Quits(j) \/ (j \in Pollers /\ Handles(j))
      BY <1>13, UnlockStep DEF ShotKept, Ends
    <2>2. job'[j].pc # "apply"
      BY <2>1 DEF Quits, Handles
    <2>3. KeepsGroup(j)
      BY <1>1, <2>1, KeepsGroupLater
    <2> QED
      BY <2>1, <2>2, <2>3, GroupMoves
  <1>14. CASE JobFails(j)
    <2>1. Quits(j) /\ lost'.group = lost.group /\ cache'.retired = cache.retired
      BY <1>14, FailStep DEF ShotKept
    <2>2. KeepsGroup(j) /\ job'[j].pc # "apply"
      BY <2>1 DEF KeepsGroup, Quits
    <2> QED
      BY <2>1, <2>2, GroupMoves
  <1> QED
    BY <1>2, <1>3, <1>4, <1>5, <1>6, <1>7, <1>8, <1>9, <1>10, <1>11, <1>12, <1>13, <1>14 DEF Moves

LEMMA GroupWritesNext ==
  ASSUME TypeInv, RowInv, GroupInv, NEW w \in Writers, Writes(w)
  PROVE  GroupInv'
  <1>1. /\ TypeInv' /\ OnlyWriter(w) /\ UNCHANGED <<cache, job>>
        /\ RowsKept \/ RowsGrow
    BY WritesStep
  \* What says that the event will be heard is enough ...
  <1>2. ASSUME lost'.group = db'.group \/ GroupHeard'
        PROVE  GroupInv'
    BY <1>2 DEF GroupInv
  \* ... and a writer that does not change the group leaves it to the others.
  <1>3. ASSUME db'.group = db.group, lost'.group = lost.group,
               writer[w].pc # "enqueue" \/ Key(w) # "group",
               \A r \in DOMAIN outbox : Ahead(r, "group") => Ahead(r, "group")'
        PROVE  GroupInv'
    <2> DEFINE K == {}
    <2>1. /\ K \in SUBSET Jobs /\ \A k \in Jobs \ K : job'[k] = job[k]
          /\ \A p \in Pollers \cap K : FALSE
          /\ \A k \in K : job'[k].pc = "apply" => job'[k].on = Active
      BY <1>1
    <2> HIDE DEF K
    <2>2. Announcing("group") => Announcing("group")'
      BY <1>1, <1>3, AnnouncingKept
    <2>3. GroupHeard => GroupHeard'
      BY <1>1, <1>3, <2>1, <2>2, GroupHeardKept
    <2>4. cache'.retired = cache.retired
      BY <1>1
    <2> QED
      BY <1>3, <2>1, <2>3, <2>4, GroupKept
  <1>4. ASSUME UNCHANGED outbox, NEW r \in DOMAIN outbox, Ahead(r, "group")
        PROVE  Ahead(r, "group")'
    BY <1>1, <1>4 DEF Ahead, Committed
  <1>5. ASSUME RowsGrow, NEW r \in DOMAIN outbox, Ahead(r, "group")
        PROVE  Ahead(r, "group")'
    BY <1>1, <1>5 DEF Ahead, Committed, RowsGrow
  <1>6. CASE OpenTransaction(w)
    <2>1. /\ db'.group = db.group /\ lost'.group = lost.group /\ writer[w].pc # "enqueue"
          /\ RowsGrow
      BY <1>6, OpenStep
    <2> QED
      BY <1>3, <1>5, <2>1
  <1>7. CASE Change(w)
    <2>1. /\ outbox' = outbox /\ lost'.group = lost.group /\ writer[w].pc = "idle"
          /\ writer'[w].pc = "enqueue" /\ Key(w) \in {"account", "group"}
          /\ Key(w) = "account" => db'.group = db.group
      BY <1>7, ChangeStep
    <2>2. CASE Key(w) = "account"
      BY <1>3, <1>4, <2>1, <2>2
    <2>3. CASE Key(w) = "group"
      <3>1. Announcing("group")'
        BY <2>1, <2>3 DEF Announcing, WriterAt, Key
      <3> QED
        BY <1>2, <3>1 DEF GroupHeard
    <2> QED
      BY <2>1, <2>2, <2>3
  <1>8. CASE CommitTransaction(w)
    <2>1. /\ db'.group = db.group /\ lost'.group = lost.group /\ writer[w].pc = "open"
          /\ outbox[writer[w].row].key = "account" /\ RowsKept
          /\ \A s \in DOMAIN outbox : s # writer[w].row => outbox'[s] = outbox[s]
      BY <1>8, CommitStep
    <2>2. ASSUME NEW r \in DOMAIN outbox, Ahead(r, "group")
          PROVE  Ahead(r, "group")'
      <3>1. r # writer[w].row
        BY <2>1, <2>2 DEF Ahead
      <3> QED
        BY <1>1, <2>1, <2>2, <3>1 DEF Ahead, Committed, RowsKept
    <2> QED
      BY <1>3, <2>1, <2>2
  <1>9. CASE EnqueueAfter(w)
    <2>1. PICK r :
          /\ db' = db /\ writer[w].pc = "enqueue" /\ RowsGrow /\ r \in DOMAIN outbox'
          /\ outbox'[r].key = Key(w) /\ outbox'[r].state = "committed"
          /\ r \in DOMAIN outbox \/ r = Len(outbox) + 1
          /\ Key(w) \in {"account", "group"}
          /\ IF r \in DOMAIN outbox /\ Unheard(r)
             THEN /\ Key(w) = "account" => lost'.group = lost.group
                  /\ Key(w) = "group" => lost'.group = db.group
             ELSE lost' = lost
      BY <1>9, EnqueueAfterStep
    <2>2. CASE Key(w) = "account"
      <3>1. lost'.group = lost.group
        BY <2>1, <2>2
      <3> QED
        BY <1>3, <1>5, <2>1, <2>2, <3>1
    <2>3. CASE Key(w) = "group" /\ r \in DOMAIN outbox /\ Unheard(r)
      BY <1>2, <2>1, <2>3
    <2>4. CASE Key(w) = "group" /\ ~(r \in DOMAIN outbox /\ Unheard(r))
      <3>1. r \in DOMAIN outbox \/ r > Len(outbox)
        BY <2>1, RowsFields DEF TypeInv
      <3>2. Ahead(r, "group")' /\ \A p \in Pollers : ~(job'[p].last >= r)
        BY <1>1, <2>1, <2>4, <3>1, EventAhead
      <3> QED
        BY <1>2, <2>1, <3>2 DEF GroupHeard
    <2> QED
      BY <2>1, <2>2, <2>3, <2>4
  <1>10. CASE Rollback(w)
    <2>1. /\ db'.group = db.group /\ lost'.group = lost.group /\ writer[w].pc = "open" /\ RowsKept
          /\ \A s \in DOMAIN outbox : outbox'[s] = outbox[s] \/ outbox[s].state = "pending"
      BY <1>10, RollbackStep
    <2>2. ASSUME NEW r \in DOMAIN outbox, Ahead(r, "group")
          PROVE  Ahead(r, "group")'
      BY <1>1, <2>1, <2>2 DEF Ahead, Committed, RowsKept
    <2> QED
      BY <1>3, <2>1, <2>2
  <1>11. CASE EnqueueFails(w)
    <2>1. /\ db' = db /\ outbox' = outbox /\ Key(w) \in {"account", "group"}
          /\ Key(w) = "account" => lost'.group = lost.group
          /\ Key(w) = "group" => lost'.group = db.group
      BY <1>11, EnqueueFailsStep
    <2>2. CASE Key(w) = "account"
      BY <1>3, <1>4, <2>1, <2>2
    <2>3. CASE Key(w) = "group"
      BY <1>2, <2>1, <2>3
    <2> QED
      BY <2>1, <2>2, <2>3
  <1> QED
    BY <1>6, <1>7, <1>8, <1>9, <1>10, <1>11 DEF Writes

\* A poller lists the rows, or sets the watermark behind what it has handled.
LEMMA ListedAhead ==
  ASSUME TypeInv, NEW j \in Jobs, ListAfterAndReleaseDedup(j), NEW key, NEW r \in DOMAIN outbox,
         Ahead(r, key)
  PROVE  Ahead(r, key)' /\ r \in job'[j].batch /\ job'[j].seen = {} /\ job'[j].pc = "event"
  BY ListStep DEF Ahead, Committed, After, RowsKept

LEMMA AdvancedAhead ==
  ASSUME TypeInv, RowInv, NEW j \in Jobs, Advance(j), NEW key, NEW r \in DOMAIN outbox,
         Ahead(r, key), ~(job[j].last >= r)
  PROVE  Ahead(r, key)' /\ ~(job'[j].last >= r)
  <1>1. /\ cache'.watermark = job[j].last /\ Quits(j) /\ RowsKept
        /\ outbox'[r] = outbox[r] \/ r <= job[j].last
    BY AdvanceStep
  <1>2. r \in Nat /\ r > 0 /\ job[j].last \in Nat
    BY RowsFields, NumberFields DEF TypeInv
  <1> QED
    BY <1>1, <1>2 DEF Ahead, Committed, RowsKept, Quits

LEMMA GroupPolls ==
  ASSUME TypeInv, RowInv, GroupInv, NEW j \in Jobs, ListAfterAndReleaseDedup(j) \/ Advance(j)
  PROVE  GroupInv'
  <1> DEFINE K == {j}
  <1>1. /\ K \in SUBSET Jobs /\ \A k \in Jobs \ K : job'[k] = job[k]
        /\ \A k \in K : job'[k].pc = "apply" => job'[k].on = Active
        /\ TypeInv' /\ UNCHANGED <<db, writer, lost>> /\ cache'.retired = cache.retired
        /\ RowsKept /\ j \in Pollers
    BY ListStep, AdvanceStep DEF Only, Quits
  <1>2. Announcing("group") => Announcing("group")'
    BY <1>1 DEF Announcing, WriterAt, Key
  <1>3. ASSUME NEW r \in DOMAIN outbox, Ahead(r, "group"),
               \A p \in Pollers : job[p].last >= r => Decides(p, r)
        PROVE  /\ Ahead(r, "group")'
               /\ \A p \in Pollers \cap K : job'[p].last >= r => Decides(p, r)'
    <2>1. CASE ListAfterAndReleaseDedup(j)
      BY <1>3, <2>1, ListedAhead DEF Decides
    <2>2. CASE Advance(j)
      <3>1. ~(job[j].last >= r)
        BY <1>1, <1>3, <2>2, AdvanceStep DEF Decides
      <3> QED
        BY <1>3, <2>2, <3>1, AdvancedAhead
    <2> QED
      BY <2>1, <2>2
  <1> HIDE DEF K
  <1>4. GroupHeard => GroupHeard'
    BY <1>1, <1>2, <1>3, GroupHeardKept
  <1> QED
    BY <1>1, <1>4, GroupKept

LEMMA GroupNext ==
  ASSUME TypeInv, RowInv, LeaseInv, GroupInv, Next
  PROVE  GroupInv'
  <1>1. ASSUME Lapses
        PROVE  GroupInv'
    <2>1. /\ UNCHANGED <<db, outbox, job, writer, lost>>
          /\ cache'.watermark = cache.watermark /\ cache'.retired = cache.retired
      BY <1>1, LapseStep DEF Lapses, ShotKept
    <2>2. GroupHeard => GroupHeard'
      BY <2>1 DEF GroupHeard, Announcing, WriterAt, Key, Ahead, Committed, Decides, EventKey, First,
                  Active
    <2> QED
      BY <2>1, <2>2 DEF GroupInv, Active
  <1> QED
    BY <1>1, NextSplit, GroupWritesNext, GroupPolls, GroupMovesNext

-----------------------------------------------------------------------------
(* The account.                                                            *)

\* The jobs in K alone change or are fenced, and they do not drop an account's event.
LEMMA NobodyLockedKept ==
  ASSUME TypeInv, Announcing("account") => Announcing("account")',
         NEW K \in SUBSET Jobs,
         \A k \in Jobs \ K : job'[k] = job[k] /\ (Fenced(k) <=> Fenced(k)'),
         \A r \in DOMAIN outbox :
           Ahead(r, "account") /\ (\A p \in Pollers : job[p].last >= r => Prepares(p, r))
             => /\ Ahead(r, "account")'
                /\ \A p \in Pollers \cap K : job'[p].last >= r => Prepares(p, r)',
         NobodyLocked
  PROVE  NobodyLocked'
  <1>1. CASE Announcing("account")
    BY <1>1 DEF NobodyLocked
  <1>2. CASE ~Announcing("account")
    <2>1. PICK r \in DOMAIN outbox :
            Ahead(r, "account") /\ \A p \in Pollers : job[p].last >= r => Prepares(p, r)
      BY <1>2 DEF NobodyLocked
    <2>2. Ahead(r, "account")' /\ \A p \in Pollers \cap K : job'[p].last >= r => Prepares(p, r)'
      BY <2>1
    <2>3. ASSUME NEW p \in Pollers, p \notin K, job'[p].last >= r
          PROVE  Prepares(p, r)'
      <3>1. job'[p] = job[p] /\ (Fenced(p) <=> Fenced(p)')
        BY <2>3 DEF Jobs
      <3>2. Prepares(p, r)
        BY <2>1, <2>3, <3>1
      <3> QED
        BY <3>1, <3>2 DEF Prepares
    <2>4. r \in DOMAIN outbox'
      BY <2>2 DEF Ahead
    <2> QED
      BY <2>2, <2>3, <2>4 DEF NobodyLocked
  <1> QED
    BY <1>1, <1>2

LEMMA AccountHeardKept ==
  ASSUME TypeInv, Announcing("account") => Announcing("account")', db'.account = db.account,
         NEW K \in SUBSET Jobs,
         \A k \in Jobs \ K : /\ job'[k] = job[k] /\ (Fenced(k) <=> Fenced(k)')
                             /\ Newest(k) => Newest(k)',
         \A r \in DOMAIN outbox :
           Ahead(r, "account") /\ (\A p \in Pollers : job[p].last >= r => Rebuilds(p, r))
             => /\ Ahead(r, "account")'
                /\ \A p \in Pollers \cap K : job'[p].last >= r => Rebuilds(p, r)',
         AccountHeard
  PROVE  AccountHeard'
  <1>1. CASE Announcing("account")
    BY <1>1 DEF AccountHeard
  <1>2. CASE ~Announcing("account")
    <2>1. PICK r \in DOMAIN outbox :
            Ahead(r, "account") /\ \A p \in Pollers : job[p].last >= r => Rebuilds(p, r)
      BY <1>2 DEF AccountHeard
    <2>2. Ahead(r, "account")' /\ \A p \in Pollers \cap K : job'[p].last >= r => Rebuilds(p, r)'
      BY <2>1
    <2>3. ASSUME NEW p \in Pollers, p \notin K, job'[p].last >= r
          PROVE  Rebuilds(p, r)'
      <3>1. job'[p] = job[p] /\ (Fenced(p) <=> Fenced(p)') /\ (Newest(p) => Newest(p)')
        BY <2>3 DEF Jobs
      <3>2. Rebuilds(p, r)
        BY <2>1, <2>3, <3>1
      <3>3. Prepares(p, r) => Prepares(p, r)'
        BY <3>1 DEF Prepares
      <3> QED
        BY <3>1, <3>2, <3>3 DEF Rebuilds, CurrentOrEarly
    <2>4. r \in DOMAIN outbox'
      BY <2>2 DEF Ahead
    <2> QED
      BY <2>2, <2>3, <2>4 DEF AccountHeard
  <1> QED
    BY <1>1, <1>2

\* What MembersInv says of the snapshot, and of a job.
ShotRight ==
    cache.snapshot # None =>
      \/ cache.snapshot.members = db.account \/ cache.snapshot.members < lost.account
      \/ AccountHeard
LoadRight(j) ==
    job[j].pc \in {"alloc", "activate"} /\ ~Unguarded(j) =>
      \/ job[j].loaded = db.account \/ job[j].loaded < lost.account
      \/ NobodyLocked

LEMMA MembersParts == MembersInv <=> ShotRight /\ \A j \in Jobs : LoadRight(j)
  BY DEF MembersInv, ShotRight, LoadRight

\* A change whose event may be lost excuses every older version.
LEMMA MembersLost ==
  ASSUME TypeInv', VersionInv', lost'.account = db'.account
  PROVE  MembersInv'
  <1>1. /\ cache'.snapshot # None => cache'.snapshot.members <= db'.account
        /\ \A k \in Jobs : job'[k].loaded <= db'.account
    BY DEF VersionInv
  <1>2. /\ db'.account \in Nat
        /\ cache'.snapshot # None => cache'.snapshot.members \in Nat
        /\ \A k \in Jobs : job'[k].loaded \in Nat
    BY DEF TypeInv, StoreOK, Caches, JobsOK, JobRecs
  <1>3. ShotRight'
    BY <1>1, <1>2 DEF ShotRight
  <1>4. \A k \in Jobs : LoadRight(k)'
    BY <1>1, <1>2 DEF LoadRight
  <1> QED
    BY <1>3, <1>4 DEF MembersInv, ShotRight, LoadRight

\* Nor is anything old while the newest change has its event to come.
LEMMA MembersHeard ==
  ASSUME NobodyLocked'
  PROVE  MembersInv'
  <1>1. AccountHeard'
    BY DEF NobodyLocked, AccountHeard, Rebuilds
  <1> QED
    BY <1>1 DEF MembersInv

LEMMA MembersKept ==
  ASSUME TypeInv, TypeInv', VersionInv, MembersInv, db'.account = db.account,
         lost'.account \in {lost.account, db.account},
         cache'.snapshot = None \/ cache'.snapshot = cache.snapshot,
         NobodyLocked => NobodyLocked', AccountHeard => AccountHeard',
         NEW K \in SUBSET Jobs,
         \A k \in Jobs \ K : job'[k] = job[k] /\ (Unguarded(k) => Unguarded(k)'),
         \A k \in K : LoadRight(k)'
  PROVE  MembersInv'
  <1>1. ShotRight /\ \A k \in Jobs : LoadRight(k)
    BY MembersParts
  <1>2. /\ lost.account <= db.account /\ lost.account \in Nat /\ db.account \in Nat
        /\ cache.snapshot # None => cache.snapshot.members \in Nat
        /\ \A k \in Jobs : job[k].loaded \in Nat
    BY NumberFields DEF VersionInv
  <1>3. ASSUME NEW n \in Nat, n < lost.account
        PROVE  n < lost'.account
    BY <1>2, <1>3
  <1>4. ShotRight'
    BY <1>1, <1>2, <1>3 DEF ShotRight
  <1>5. ASSUME NEW k \in Jobs
        PROVE  LoadRight(k)'
    <2>1. CASE k \in K
      BY <2>1
    <2>2. CASE k \notin K
      BY <1>1, <1>2, <1>3, <2>2 DEF LoadRight
    <2> QED
      BY <2>1, <2>2
  <1> QED
    BY <1>4, <1>5 DEF MembersInv, ShotRight, LoadRight

\* j does not drop the event of an account that it has still to handle.
KeepsPrepares(j) ==
    j \in Pollers =>
      \A r \in DOMAIN outbox : Prepares(j, r) /\ job'[j].last > 0 => Prepares(j, r)'
KeepsRebuilds(j) ==
    j \in Pollers =>
      \A r \in DOMAIN outbox : Rebuilds(j, r) /\ job'[j].last > 0 => Rebuilds(j, r)'

LEMMA MovesRows ==
  ASSUME TypeInv, NEW j \in Jobs, Moves(j), NEW key, NEW r \in DOMAIN outbox, Ahead(r, key),
         job'[j].last >= r
  PROVE  /\ job'[j].last > 0 /\ job'[j].last = job[j].last
  <1>1. /\ job'[j].last = job[j].last \/ job'[j].last = 0
    BY MovesStep DEF Goes, Quits, Handles
  <1>2. r \in Nat /\ r > 0 /\ job[j].last \in Nat
    BY RowsFields, NumberFields DEF TypeInv
  <1> QED
    BY <1>1, <1>2

LEMMA MovesAhead ==
  ASSUME TypeInv, NEW j \in Jobs, Moves(j), NEW key
  PROVE  /\ Announcing(key) => Announcing(key)'
         /\ \A r \in DOMAIN outbox : Ahead(r, key) => Ahead(r, key)'
  <1>1. UNCHANGED <<outbox, writer>> /\ cache'.watermark = cache.watermark
    BY MovesStep
  <1> QED
    BY <1>1 DEF Announcing, WriterAt, Key, Ahead, Committed

LEMMA NobodyLockedMoves ==
  ASSUME TypeInv, NEW j \in Jobs, Moves(j), KeepsPrepares(j),
         \A k \in Jobs : k # j => (Fenced(k) <=> Fenced(k)'),
         NobodyLocked
  PROVE  NobodyLocked'
  <1> DEFINE K == {j}
  <1>1. /\ K \in SUBSET Jobs
        /\ \A k \in Jobs \ K : job'[k] = job[k] /\ (Fenced(k) <=> Fenced(k)')
    BY MovesStep DEF Only
  <1>2. ASSUME NEW r \in DOMAIN outbox, Ahead(r, "account"),
               \A p \in Pollers : job[p].last >= r => Prepares(p, r)
        PROVE  /\ Ahead(r, "account")'
               /\ \A p \in Pollers \cap K : job'[p].last >= r => Prepares(p, r)'
    <2>1. ASSUME j \in Pollers, job'[j].last >= r
          PROVE  Prepares(j, r)'
      <3>1. job'[j].last > 0 /\ job[j].last >= r
        BY <1>2, <2>1, MovesRows
      <3> QED
        BY <1>2, <2>1, <3>1 DEF KeepsPrepares
    <2> QED
      BY <1>2, <2>1, MovesAhead
  <1>3. Announcing("account") => Announcing("account")'
    BY MovesAhead
  <1> HIDE DEF K
  <1> QED
    BY <1>1, <1>2, <1>3, NobodyLockedKept

LEMMA AccountHeardMoves ==
  ASSUME TypeInv, NEW j \in Jobs, Moves(j), KeepsRebuilds(j),
         \A k \in Jobs : k # j => (Fenced(k) <=> Fenced(k)') /\ (Newest(k) => Newest(k)'),
         AccountHeard
  PROVE  AccountHeard'
  <1> DEFINE K == {j}
  <1>1. /\ K \in SUBSET Jobs /\ db'.account = db.account
        /\ \A k \in Jobs \ K : /\ job'[k] = job[k] /\ (Fenced(k) <=> Fenced(k)')
                               /\ Newest(k) => Newest(k)'
    BY MovesStep DEF Only
  <1>2. ASSUME NEW r \in DOMAIN outbox, Ahead(r, "account"),
               \A p \in Pollers : job[p].last >= r => Rebuilds(p, r)
        PROVE  /\ Ahead(r, "account")'
               /\ \A p \in Pollers \cap K : job'[p].last >= r => Rebuilds(p, r)'
    <2>1. ASSUME j \in Pollers, job'[j].last >= r
          PROVE  Rebuilds(j, r)'
      <3>1. job'[j].last > 0 /\ job[j].last >= r
        BY <1>2, <2>1, MovesRows
      <3> QED
        BY <1>2, <2>1, <3>1 DEF KeepsRebuilds
    <2> QED
      BY <1>2, <2>1, MovesAhead
  <1>3. Announcing("account") => Announcing("account")'
    BY MovesAhead
  <1> HIDE DEF K
  <1> QED
    BY <1>1, <1>2, <1>3, AccountHeardKept

LEMMA FencedKept ==
  ASSUME NEW j \in Jobs, Only(j), cache'.epoch = cache.epoch, cache'.retired = cache.retired
  PROVE  \A k \in Jobs : k # j => (Fenced(k) <=> Fenced(k)')
  BY DEF Fenced, Only

\* j moves while the bucket and its lock are left as they are, but for a lock let go.
LEMMA MembersMoves ==
  ASSUME TypeInv, VersionInv, MembersInv, NEW j \in Jobs, Moves(j),
         lost' = lost, ShotKept, cache'.lock = cache.lock \/ cache'.lock = None,
         \A k \in Jobs : k # j /\ Newest(k) => Newest(k)',
         KeepsPrepares(j), KeepsRebuilds(j), LoadRight(j)'
  PROVE  MembersInv'
  <1> DEFINE K == {j}
  <1>1. TypeInv' /\ Only(j) /\ UNCHANGED <<db, outbox, writer>>
    BY MovesStep
  <1>2. \A k \in Jobs : k # j => (Fenced(k) <=> Fenced(k)')
    BY <1>1, FencedKept DEF ShotKept
  <1>3. NobodyLocked => NobodyLocked'
    BY <1>2, NobodyLockedMoves
  <1>4. AccountHeard => AccountHeard'
    BY <1>2, AccountHeardMoves
  <1>5. /\ K \in SUBSET Jobs /\ \A k \in K : LoadRight(k)'
        /\ db'.account = db.account /\ lost'.account \in {lost.account, db.account}
        /\ cache'.snapshot = None \/ cache'.snapshot = cache.snapshot
    BY <1>1 DEF ShotKept
  <1>6. ASSUME NEW k \in Jobs \ K
        PROVE  job'[k] = job[k] /\ (Unguarded(k) => Unguarded(k)')
    BY <1>1, <1>2 DEF Only, Unguarded
  <1> HIDE DEF K
  <1> QED
    BY <1>1, <1>3, <1>4, <1>5, <1>6, MembersKept

\* j gives up, or has nothing to drop, or goes on before the lock.
LEMMA KeepsBoth ==
  ASSUME TypeInv, RowInv, NEW j \in Jobs,
         \/ Quits(j)
         \/ j \notin Pollers
         \/ job[j].pc \in {"unlock", "advance", "idle"}
         \/ "members" \in job[j].seen \/ "lifecycle" \in job[j].seen
         \/ job[j].pc = "release" /\ ~job[j].on
         \/ /\ job[j].pc \in {"event", "lease", "decide", "apply", "capture"}
            /\ Goes(j) /\ job'[j].pc \in {"event", "decide", "apply", "capture"}
  PROVE  KeepsPrepares(j) /\ KeepsRebuilds(j)
  <1>1. CASE Quits(j) \/ j \notin Pollers
    BY <1>1 DEF Quits, KeepsPrepares, KeepsRebuilds
  <1>2. CASE j \in Pollers /\ \/ job[j].pc \in {"unlock", "advance", "idle"}
                              \/ "members" \in job[j].seen \/ "lifecycle" \in job[j].seen
                              \/ job[j].pc = "release" /\ ~job[j].on
    <2>1. \A r \in DOMAIN outbox : ~Prepares(j, r)
      BY <1>2 DEF Prepares, RowInv
    <2>2. \A r \in DOMAIN outbox : ~Rebuilds(j, r)
      BY <1>2, <2>1 DEF Rebuilds, RowInv
    <2> QED
      BY <2>1, <2>2 DEF KeepsPrepares, KeepsRebuilds
  <1>3. CASE /\ job[j].pc \in {"event", "lease", "decide", "apply", "capture"}
             /\ Goes(j) /\ job'[j].pc \in {"event", "decide", "apply", "capture"}
    <2>1. \A r \in DOMAIN outbox : Prepares(j, r) => Prepares(j, r)'
      BY <1>3 DEF Prepares, Goes
    <2>2. \A r \in DOMAIN outbox : Rebuilds(j, r) => Prepares(j, r)
      BY <1>3 DEF Rebuilds
    <2>3. \A r \in DOMAIN outbox : Prepares(j, r)' => Rebuilds(j, r)'
      BY DEF Rebuilds
    <2> QED
      BY <2>1, <2>2, <2>3 DEF KeepsPrepares, KeepsRebuilds
  <1> QED
    BY <1>1, <1>2, <1>3

\* j goes on to the lock with a token that is good.
LEMMA KeepsLock ==
  ASSUME NEW j \in Jobs, Goes(j), job[j].pc \in {"capture", "release"}, job'[j].pc = "lock",
         job[j].pc = "release" => (Fenced(j) <=> Fenced(j)'),
         job[j].pc = "capture" => ~Fenced(j)'
  PROVE  KeepsPrepares(j) /\ KeepsRebuilds(j)
  <1>1. \A r \in DOMAIN outbox : Prepares(j, r) => Prepares(j, r)'
    BY DEF Prepares, Goes
  <1>2. \A r \in DOMAIN outbox : Rebuilds(j, r) => Prepares(j, r)
    BY DEF Rebuilds
  <1>3. \A r \in DOMAIN outbox : Prepares(j, r)' => Rebuilds(j, r)'
    BY DEF Rebuilds
  <1> QED
    BY <1>1, <1>2, <1>3 DEF KeepsPrepares, KeepsRebuilds

\* A bucket that is retired and empty shows nothing, and is closed to everybody.
LEMMA MembersRetired ==
  ASSUME cache'.retired = TRUE, cache'.snapshot = None
  PROVE  MembersInv'
  BY DEF MembersInv, Unguarded, Fenced

LEMMA OrderKept ==
  ASSUME cache'.order = cache.order
  PROVE  \A k \in Jobs : Newest(k) => Newest(k)'
  BY DEF Newest

LEMMA AppliedMembers ==
  ASSUME TypeInv, RowInv, TokenInv, VersionInv, MembersInv, NEW j \in Jobs, ApplyDecision(j)
  PROVE  MembersInv'
  <1>1. /\ TypeInv' /\ Only(j) /\ UNCHANGED <<db, outbox, writer, faults>>
        /\ job[j].pc = "apply" /\ job'[j].pc = "release" /\ Goes(j) /\ cache'.lock = cache.lock
        /\ job'[j].on = job[j].on /\ job[j].on \in BOOLEAN /\ lost'.account = lost.account
        /\ job'[j].token = IF job[j].on THEN cache'.epoch ELSE 0
        /\ IF job[j].on
           THEN /\ cache'.retired = FALSE /\ cache'.epoch = cache.epoch
                /\ cache'.order = cache.order
                /\ IF cache.retired THEN cache'.snapshot = None ELSE cache' = cache
           ELSE cache'.retired = TRUE /\ cache'.snapshot = None
    BY ApplyStep
  <1>2. CASE ~job[j].on
    BY <1>1, <1>2, MembersRetired
  <1>3. CASE job[j].on
    <2> DEFINE K == {j}
    <2>1. Moves(j)
      BY DEF Moves
    <2>2. ASSUME NEW k \in Jobs, k # j
          PROVE  job'[k] = job[k] /\ (Fenced(k) <=> Fenced(k)')
      <3>1. job'[k] = job[k] /\ cache'.epoch = cache.epoch /\ cache'.retired = FALSE
        BY <1>1, <1>3, <2>2 DEF Only
      <3>2. CASE cache.retired
        <4>1. job[k].token < cache.epoch
          BY <3>2 DEF TokenInv
        <4>2. job[k].token # cache.epoch
          BY <4>1, NumberFields
        <4> QED
          BY <3>1, <3>2, <4>2 DEF Fenced
      <3>3. CASE ~cache.retired
        BY <3>1, <3>3 DEF Fenced
      <3> QED
        BY <3>1, <3>2, <3>3
    <2>3. ~Fenced(j)'
      BY <1>1, <1>3 DEF Fenced
    <2>4. ASSUME NEW r \in DOMAIN outbox
          PROVE  /\ Prepares(j, r) => Prepares(j, r)'
                 /\ Rebuilds(j, r) => Rebuilds(j, r)'
      <3>1. Prepares(j, r) => Prepares(j, r)'
        BY <1>1, <1>3, <2>3 DEF Prepares, Goes
      <3>2. Rebuilds(j, r) => Prepares(j, r)
        BY <1>1 DEF Rebuilds
      <3>3. Prepares(j, r)' => Rebuilds(j, r)'
        BY DEF Rebuilds
      <3> QED
        BY <3>1, <3>2, <3>3
    <2>5. KeepsPrepares(j) /\ KeepsRebuilds(j)
      BY <2>4 DEF KeepsPrepares, KeepsRebuilds
    <2>6. NobodyLocked => NobodyLocked'
      BY <2>1, <2>2, <2>5, NobodyLockedMoves
    <2>7. AccountHeard => AccountHeard'
      BY <1>1, <1>3, <2>1, <2>2, <2>5, AccountHeardMoves, OrderKept
    <2>8. \A k \in Jobs : k # j => (Unguarded(k) => Unguarded(k)')
      BY <1>1, <2>2 DEF Unguarded
    <2>9. LoadRight(j)'
      BY <1>1 DEF LoadRight
    <2>10. /\ K \in SUBSET Jobs /\ \A k \in K : LoadRight(k)'
           /\ \A k \in Jobs \ K : job'[k] = job[k] /\ (Unguarded(k) => Unguarded(k)')
           /\ db'.account = db.account /\ lost'.account \in {lost.account, db.account}
           /\ cache'.snapshot = None \/ cache'.snapshot = cache.snapshot
      BY <1>1, <1>3, <2>2, <2>8, <2>9
    <2> HIDE DEF K
    <2> QED
      BY <1>1, <2>6, <2>7, <2>10, MembersKept
  <1> QED
    BY <1>1, <1>2, <1>3

LEMMA LockedMembers ==
  ASSUME TypeInv, RowInv, TokenInv, VersionInv, MembersInv, NEW j \in Jobs, TryLock(j)
  PROVE  MembersInv'
  <1>1. /\ TypeInv' /\ Only(j) /\ UNCHANGED <<db, outbox, writer, faults, lost>> /\ ShotKept
        /\ cache'.order = cache.order /\ cache'.lock = j
        /\ Goes(j) /\ job'[j].token = job[j].token /\ job'[j].loaded = job[j].loaded
        /\ \/ job[j].pc = "lock" /\ job'[j].pc = "load"
           \/ /\ job[j].pc = "reuse" /\ job'[j].pc = "alloc"
              /\ job'[j].early <=> job[j].loaded < db.account
    BY LockStep
  <1>2. Moves(j)
    BY DEF Moves
  <1>3. \A k \in Jobs : k # j => (Fenced(k) <=> Fenced(k)')
    BY <1>1, FencedKept DEF ShotKept
  <1>4. Fenced(j) <=> Fenced(j)'
    BY <1>1 DEF Fenced, ShotKept
  \* What was loaded for the single bucket is the account as it is now, or counts as early.
  <1>5. job'[j].pc = "alloc" => job'[j].loaded = db'.account \/ job'[j].early
    BY <1>1, NumberFields DEF VersionInv
  <1>6. KeepsRebuilds(j)
    <2>1. \A r \in DOMAIN outbox : Rebuilds(j, r) => Rebuilds(j, r)'
      BY <1>1, <1>4, <1>5 DEF Rebuilds, Prepares, Goes, CurrentOrEarly
    <2> QED
      BY <2>1 DEF KeepsRebuilds
  <1>7. AccountHeard => AccountHeard'
    BY <1>1, <1>2, <1>3, <1>6, AccountHeardMoves, OrderKept
  <1>8. ShotRight'
    <2>1. ShotRight
      BY MembersParts
    <2> QED
      BY <1>1, <1>7, <2>1 DEF ShotRight, ShotKept
  <1>9. ASSUME NEW k \in Jobs
        PROVE  LoadRight(k)'
    <2>1. k # j => Unguarded(k)'
      BY <1>1 DEF Unguarded
    <2>2. CASE k = j
      <3>1. job'[j].early => Unguarded(j)'
        BY DEF Unguarded
      <3> QED
        BY <1>1, <1>5, <2>2, <3>1 DEF LoadRight
    <2> QED
      BY <2>1, <2>2 DEF LoadRight
  <1> QED
    BY <1>8, <1>9 DEF MembersInv, ShotRight, LoadRight

LEMMA ActivatedMembers ==
  ASSUME TypeInv, RowInv, TokenInv, VersionInv, VersionInv', MembersInv,
         NEW j \in Jobs, Activate(j)
  PROVE  MembersInv'
  <1>1. /\ TypeInv' /\ Only(j) /\ UNCHANGED <<db, outbox, writer, faults>>
        /\ job[j].pc = "activate" /\ job'[j].pc \notin {"alloc", "activate"}
        /\ cache'.epoch = cache.epoch /\ cache'.retired = cache.retired
        /\ cache'.lock = cache.lock
        /\ \/ (Fenced(j) \/ ~Newest(j)) /\ cache' = cache /\ lost' = lost
           \/ /\ ~Fenced(j)
              /\ cache'.snapshot = [members |-> job[j].loaded, since |-> job[j].since]
              /\ lost' = IF job[j].loaded < db.account /\ Unguarded(j)
                         THEN [lost EXCEPT !.account = db.account] ELSE lost
    BY ActivateStep DEF Quits
  <1>2. Moves(j)
    BY DEF Moves
  <1>3. \A k \in Jobs : k # j => (Fenced(k) <=> Fenced(k)')
    BY <1>1, FencedKept
  <1>4. KeepsPrepares(j)
    BY <1>1 DEF KeepsPrepares, Prepares
  <1>5. LoadRight(j)'
    BY <1>1 DEF LoadRight
  <1>6. CASE (Fenced(j) \/ ~Newest(j)) /\ cache' = cache /\ lost' = lost
    <2>1. KeepsRebuilds(j)
      BY <1>1, <1>6 DEF KeepsRebuilds, Rebuilds, Prepares
    <2> QED
      BY <1>2, <1>4, <1>5, <1>6, <2>1, MembersMoves, OrderKept DEF ShotKept
  <1>7. CASE /\ ~Fenced(j)
             /\ cache'.snapshot = [members |-> job[j].loaded, since |-> job[j].since]
             /\ lost' = IF job[j].loaded < db.account /\ Unguarded(j)
                        THEN [lost EXCEPT !.account = db.account] ELSE lost
    <2>1. /\ job[j].loaded \in Nat /\ db.account \in Nat /\ job[j].loaded <= db.account
          /\ lost \in [account : Nat, group : Nat] /\ cache'.snapshot.members = job[j].loaded
      BY <1>7, NumberFields DEF VersionInv, TypeInv, StoreOK
    <2>2. CASE job[j].loaded < db.account /\ Unguarded(j)
      <3>1. lost'.account = db'.account
        BY <1>1, <1>7, <2>1, <2>2
      <3> QED
        BY <1>1, <3>1, MembersLost
    <2>3. CASE ~(job[j].loaded < db.account /\ Unguarded(j))
      <3>1. lost' = lost
        BY <1>7, <2>3
      <3>2. NobodyLocked => NobodyLocked'
        BY <1>2, <1>3, <1>4, NobodyLockedMoves
      <3>3. \/ job[j].loaded = db.account \/ job[j].loaded < lost.account
            \/ NobodyLocked
        <4>1. LoadRight(j)
          BY MembersParts
        <4> QED
          BY <1>1, <2>1, <2>3, <4>1 DEF LoadRight
      <3>4. CASE NobodyLocked
        BY <3>2, <3>4, MembersHeard
      <3>5. CASE job[j].loaded = db.account \/ job[j].loaded < lost.account
        <4>1. ShotRight'
          BY <1>1, <2>1, <3>1, <3>5 DEF ShotRight
        <4>2. ASSUME NEW k \in Jobs
              PROVE  LoadRight(k)'
          <5>1. CASE k = j
            BY <1>5, <5>1
          <5>2. CASE k # j
            <6>1. LoadRight(k) /\ job'[k] = job[k] /\ (Unguarded(k) => Unguarded(k)')
              BY <1>1, <1>3, <5>2, MembersParts DEF Only, Unguarded
            <6> QED
              BY <1>1, <3>1, <3>2, <6>1 DEF LoadRight
          <5> QED
            BY <5>1, <5>2
        <4> QED
          BY <4>1, <4>2 DEF MembersInv, ShotRight, LoadRight
      <3> QED
        BY <3>3, <3>4, <3>5
    <2> QED
      BY <2>2, <2>3
  <1> QED
    BY <1>1, <1>6, <1>7

LEMMA MembersMovesNext ==
  ASSUME TypeInv, RowInv, TokenInv, VersionInv, VersionInv', MembersInv,
         NEW j \in Jobs, Moves(j)
  PROVE  MembersInv'
  <1>1. Only(j) /\ UNCHANGED <<db, outbox, writer>> /\ TypeInv'
    BY MovesStep
  <1>2. job'[j].pc \notin {"alloc", "activate"} => LoadRight(j)'
    BY DEF LoadRight
  <1>3. CASE AccountEvent(j) \/ SkipGroup(j)
    <2>1. /\ lost' = lost /\ cache' = cache /\ job[j].pc = "event"
          /\ \/ "members" \in job[j].seen \/ "lifecycle" \in job[j].seen
             \/ Goes(j) /\ job'[j].pc = "capture"
          /\ job'[j].pc \notin {"alloc", "activate"}
      BY <1>3, EventStep DEF StoreKept, Handles
    <2>2. KeepsPrepares(j) /\ KeepsRebuilds(j)
      BY <2>1, KeepsBoth
    <2> QED
      BY <1>2, <2>1, <2>2, MembersMoves, OrderKept DEF ShotKept
  <1>4. CASE AcquireLease(j)
    <2>1. /\ lost' = lost /\ ShotKept /\ cache'.order = cache.order /\ cache'.lock = cache.lock
          /\ job[j].pc \in {"event", "lease"}
          /\ Quits(j) \/ (Goes(j) /\ job'[j].pc = "decide")
      BY <1>4, LeaseStep
    <2>2. KeepsPrepares(j) /\ KeepsRebuilds(j)
      BY <2>1, KeepsBoth
    <2>3. job'[j].pc \notin {"alloc", "activate"}
      BY <2>1 DEF Quits
    <2> QED
      BY <1>2, <2>1, <2>2, <2>3, MembersMoves, OrderKept
  <1>5. CASE ReadGroup(j)
    <2>1. /\ lost' = lost /\ cache' = cache
          /\ job[j].pc = "decide" /\ Goes(j) /\ job'[j].pc = "apply"
      BY <1>5, ReadGroupStep DEF StoreKept
    <2>2. KeepsPrepares(j) /\ KeepsRebuilds(j)
      BY <2>1, KeepsBoth
    <2> QED
      BY <1>2, <2>1, <2>2, MembersMoves, OrderKept DEF ShotKept
  <1>6. CASE ApplyDecision(j)
    BY <1>6, AppliedMembers
  <1>7. CASE ReleaseLease(j)
    <2>1. /\ lost' = lost /\ ShotKept /\ cache'.order = cache.order /\ cache'.lock = cache.lock
          /\ job[j].pc = "release" /\ job'[j].pc \notin {"alloc", "activate"}
          /\ \/ Quits(j)
             \/ Goes(j) /\ job'[j].pc = "lock" /\ job'[j].token = job[j].token
             \/ ~job[j].on
      BY <1>7, ReleaseStep DEF Quits, Ends, Handles
    <2>2. CASE Quits(j) \/ ~job[j].on
      BY <1>2, <2>1, <2>2, KeepsBoth, MembersMoves, OrderKept
    <2>3. CASE Goes(j) /\ job'[j].pc = "lock" /\ job'[j].token = job[j].token
      <3>1. Fenced(j) <=> Fenced(j)'
        BY <2>1, <2>3 DEF Fenced, ShotKept
      <3>2. KeepsPrepares(j) /\ KeepsRebuilds(j)
        BY <2>1, <2>3, <3>1, KeepsLock
      <3> QED
        BY <1>2, <2>1, <3>2, MembersMoves, OrderKept
    <2> QED
      BY <2>1, <2>2, <2>3
  <1>8. CASE StartRebuild(j) \/ GetSnapshotMisses(j)
    <2>1. /\ lost' = lost /\ cache' = cache /\ j \notin Pollers
          /\ job'[j].pc \notin {"alloc", "activate"}
      BY <1>8, StartStep DEF StoreKept
    <2> QED
      BY <1>2, <2>1, KeepsBoth, MembersMoves, OrderKept DEF ShotKept
  <1>9. CASE Capture(j)
    <2>1. /\ lost' = lost /\ cache' = cache /\ job[j].pc = "capture"
          /\ job'[j].pc \notin {"alloc", "activate"}
          /\ \/ cache.retired
             \/ j \notin Pollers
             \/ /\ ~cache.retired /\ Goes(j) /\ job'[j].pc = "lock"
                /\ job'[j].token = cache.epoch
      BY <1>9, CaptureStep DEF StoreKept, Ends, Quits, Handles
    <2>2. CASE cache.retired
      <3>1. cache'.retired = TRUE /\ cache'.snapshot = None
        BY <2>1, <2>2, NumberFields DEF TokenInv, LoadedSinceRetirement
      <3> QED
        BY <3>1, MembersRetired
    <2>3. CASE j \notin Pollers
      BY <1>2, <2>1, <2>3, KeepsBoth, MembersMoves, OrderKept DEF ShotKept
    <2>4. CASE /\ ~cache.retired /\ Goes(j) /\ job'[j].pc = "lock"
               /\ job'[j].token = cache.epoch
      <3>1. ~Fenced(j)'
        BY <2>1, <2>4 DEF Fenced
      <3>2. KeepsPrepares(j) /\ KeepsRebuilds(j)
        BY <2>1, <2>4, <3>1, KeepsLock
      <3> QED
        BY <1>2, <2>1, <3>2, MembersMoves, OrderKept DEF ShotKept
    <2> QED
      BY <2>1, <2>2, <2>3, <2>4
  <1>10. CASE TryLock(j)
    BY <1>10, LockedMembers
  <1>11. CASE LockBusy(j)
    <2>1. /\ lost \in [account : Nat, group : Nat] /\ cache' = cache
          /\ lost' = [lost EXCEPT !.account = db.account] \/ lost' = lost
          /\ Quits(j) \/ lost'.account = db.account
      BY <1>11, BusyStep DEF TypeInv, StoreOK, StoreKept
    <2>2. CASE lost'.account = db.account
      BY <1>1, <2>2, MembersLost
    <2>3. CASE lost' = lost /\ Quits(j)
      <3>1. job'[j].pc \notin {"alloc", "activate"}
        BY <2>3 DEF Quits
      <3> QED
        BY <1>2, <2>1, <2>3, <3>1, KeepsBoth, MembersMoves, OrderKept DEF ShotKept
    <2> QED
      BY <2>1, <2>2, <2>3
  <1>12. CASE Load(j)
    <2>1. /\ lost' = lost /\ cache' = cache
          /\ job[j].pc = "load" /\ Goes(j) /\ job'[j].pc = "alloc"
          /\ job'[j].token = job[j].token /\ job'[j].loaded = db.account
      BY <1>12, LoadStep DEF StoreKept
    <2>2. KeepsPrepares(j)
      BY <2>1 DEF KeepsPrepares, Prepares
    <2>3. \A r \in DOMAIN outbox : Rebuilds(j, r) => Rebuilds(j, r)'
      BY <1>1, <2>1 DEF Rebuilds, Prepares, Goes, Fenced, CurrentOrEarly
    <2>4. KeepsRebuilds(j)
      BY <2>3 DEF KeepsRebuilds
    <2>5. LoadRight(j)'
      BY <1>1, <2>1 DEF LoadRight
    <2> QED
      BY <2>1, <2>2, <2>4, <2>5, MembersMoves, OrderKept DEF ShotKept
  <1>13. CASE Allocate(j)
    <2>1. /\ lost' = lost /\ ShotKept /\ cache'.lock = cache.lock /\ job[j].pc = "alloc"
          /\ \/ Fenced(j) /\ cache' = cache /\ job'[j].pc \notin {"alloc", "activate"}
             \/ /\ ~Fenced(j) /\ Goes(j) /\ job'[j].pc = "activate"
                /\ cache'.order = Append(cache.order, j)
                /\ job'[j].token = job[j].token /\ job'[j].loaded = job[j].loaded
                /\ job'[j].early = job[j].early
      BY <1>13, AllocateStep DEF Quits
    <2>2. KeepsPrepares(j)
      BY <2>1 DEF KeepsPrepares, Prepares
    <2>3. CASE Fenced(j) /\ cache' = cache /\ job'[j].pc \notin {"alloc", "activate"}
      <3>1. KeepsRebuilds(j)
        BY <2>1, <2>3 DEF KeepsRebuilds, Rebuilds, Prepares
      <3> QED
        BY <1>2, <2>1, <2>2, <2>3, <3>1, MembersMoves, OrderKept
    <2>4. CASE /\ ~Fenced(j) /\ Goes(j) /\ job'[j].pc = "activate"
               /\ cache'.order = Append(cache.order, j)
               /\ job'[j].token = job[j].token /\ job'[j].loaded = job[j].loaded
               /\ job'[j].early = job[j].early
      <3>1. cache.order \in Seq(Jobs)
        BY DEF TypeInv, StoreOK, Caches
      <3>2. (\A k \in Jobs : Newest(k) => Newest(k)') /\ Newest(j)'
        BY <2>4, <3>1 DEF Newest
      <3>3. Fenced(j) <=> Fenced(j)'
        BY <2>1, <2>4 DEF Fenced, ShotKept
      <3>4. \A r \in DOMAIN outbox : Rebuilds(j, r) => Rebuilds(j, r)'
        BY <1>1, <2>1, <2>4, <3>2, <3>3 DEF Rebuilds, Prepares, Goes, CurrentOrEarly
      <3>5. KeepsRebuilds(j)
        BY <3>4 DEF KeepsRebuilds
      <3>6. NobodyLocked => NobodyLocked'
        BY <1>1, <2>1, <2>2, FencedKept, NobodyLockedMoves DEF ShotKept
      <3>7. LoadRight(j)'
        <4>1. LoadRight(j) /\ (Unguarded(j) <=> Unguarded(j)')
          BY <2>1, <2>4, <3>3, MembersParts DEF Unguarded
        <4> QED
          BY <1>1, <2>1, <2>4, <3>6, <4>1 DEF LoadRight
      <3> QED
        BY <2>1, <2>2, <3>2, <3>5, <3>7, MembersMoves
    <2> QED
      BY <2>1, <2>3, <2>4
  <1>14. CASE Activate(j)
    BY <1>14, ActivatedMembers
  <1>15. CASE Unlock(j)
    <2>1. /\ lost' = lost /\ ShotKept /\ cache'.order = cache.order /\ cache'.lock = None
          /\ job[j].pc = "unlock" /\ job'[j].pc \notin {"alloc", "activate"}
      BY <1>15, UnlockStep DEF Quits, Ends, Handles
    <2>2. KeepsPrepares(j) /\ KeepsRebuilds(j)
      BY <2>1, KeepsBoth
    <2> QED
      BY <1>2, <2>1, <2>2, MembersMoves, OrderKept
  <1>16. CASE JobFails(j)
    <2>1. /\ lost' = lost /\ ShotKept /\ cache'.order = cache.order /\ Quits(j)
          /\ cache'.lock = cache.lock \/ cache'.lock = None
      BY <1>16, FailStep
    <2>2. job'[j].pc \notin {"alloc", "activate"}
      BY <2>1 DEF Quits
    <2> QED
      BY <1>2, <2>1, <2>2, KeepsBoth, MembersMoves, OrderKept
  <1>17. CASE LoadForSingle(j)
    <2>1. /\ lost' = lost /\ cache' = cache /\ job[j].pc = "lock" /\ Goes(j)
          /\ job'[j].pc = "reuse" /\ job'[j].token = job[j].token
      BY <1>17, ReuseStep DEF StoreKept
    <2>2. Fenced(j) <=> Fenced(j)'
      BY <2>1 DEF Fenced
    <2>3. \A r \in DOMAIN outbox : Prepares(j, r) => Prepares(j, r)'
      BY <2>1, <2>2 DEF Prepares, Goes
    <2>4. \A r \in DOMAIN outbox : Rebuilds(j, r) => Rebuilds(j, r)'
      BY <2>1, <2>3 DEF Rebuilds
    <2>5. KeepsPrepares(j) /\ KeepsRebuilds(j)
      BY <2>3, <2>4 DEF KeepsPrepares, KeepsRebuilds
    <2> QED
      BY <1>2, <2>1, <2>5, MembersMoves, OrderKept DEF ShotKept
  <1> QED
    BY <1>3, <1>4, <1>5, <1>6, <1>7, <1>8, <1>9, <1>10, <1>11, <1>12, <1>13, <1>14, <1>15, <1>16,
       <1>17 DEF Moves

LEMMA MembersWritesNext ==
  ASSUME TypeInv, RowInv, VersionInv, VersionInv', MembersInv, NEW w \in Writers, Writes(w)
  PROVE  MembersInv'
  <1>1. /\ TypeInv' /\ OnlyWriter(w) /\ UNCHANGED <<cache, job>>
    BY WritesStep
  <1>2. \A k \in Jobs : /\ Fenced(k) <=> Fenced(k)'
                        /\ Newest(k) => Newest(k)'
                        /\ Unguarded(k) => Unguarded(k)'
    BY <1>1 DEF Fenced, Newest, Unguarded
  \* A writer that does not change the account leaves it to the others.
  <1>3. ASSUME db'.account = db.account, lost'.account = lost.account,
               writer[w].pc # "enqueue" \/ Key(w) # "account",
               \A r \in DOMAIN outbox : Ahead(r, "account") => Ahead(r, "account")'
        PROVE  MembersInv'
    <2> DEFINE K == {}
    <2>1. /\ K \in SUBSET Jobs /\ \A p \in Pollers \cap K : FALSE
          /\ \A k \in Jobs \ K : /\ job'[k] = job[k] /\ (Fenced(k) <=> Fenced(k)')
                                 /\ Newest(k) => Newest(k)'
                                 /\ Unguarded(k) => Unguarded(k)'
          /\ \A k \in K : LoadRight(k)'
      BY <1>1, <1>2
    <2> HIDE DEF K
    <2>2. Announcing("account") => Announcing("account")'
      BY <1>1, <1>3, AnnouncingKept
    <2>3. NobodyLocked => NobodyLocked'
      BY <1>3, <2>1, <2>2, NobodyLockedKept
    <2>4. AccountHeard => AccountHeard'
      BY <1>3, <2>1, <2>2, AccountHeardKept
    <2>5. cache'.snapshot = cache.snapshot /\ lost'.account \in {lost.account, db.account}
      BY <1>1, <1>3
    <2> QED
      BY <1>1, <1>3, <2>1, <2>3, <2>4, <2>5, MembersKept
  <1>4. ASSUME UNCHANGED outbox, NEW r \in DOMAIN outbox, Ahead(r, "account")
        PROVE  Ahead(r, "account")'
    BY <1>1, <1>4 DEF Ahead, Committed
  <1>5. ASSUME RowsGrow, NEW r \in DOMAIN outbox, Ahead(r, "account")
        PROVE  Ahead(r, "account")'
    BY <1>1, <1>5 DEF Ahead, Committed, RowsGrow
  \* The row of an event that nobody is past yet is enough.
  <1>6. ASSUME NEW r \in DOMAIN outbox', outbox'[r].state = "committed",
               outbox'[r].key = "account",
               r \in DOMAIN outbox => ~Unheard(r), r \in DOMAIN outbox \/ r > Len(outbox)
        PROVE  MembersInv'
    <2>1. Ahead(r, "account")' /\ \A p \in Pollers : ~(job'[p].last >= r)
      BY <1>1, <1>6, EventAhead
    <2>2. NobodyLocked'
      BY <1>6, <2>1 DEF NobodyLocked
    <2> QED
      BY <2>2, MembersHeard
  <1>7. CASE OpenTransaction(w)
    <2>1. /\ db'.account = db.account /\ lost'.account = lost.account
          /\ writer[w].pc # "enqueue" /\ RowsGrow
      BY <1>7, OpenStep
    <2> QED
      BY <1>3, <1>5, <2>1
  <1>8. CASE Change(w)
    <2>1. /\ outbox' = outbox /\ lost'.account = lost.account /\ writer[w].pc = "idle"
          /\ writer'[w].pc = "enqueue" /\ Key(w) \in {"account", "group"}
          /\ Key(w) = "group" => db'.account = db.account
      BY <1>8, ChangeStep
    <2>2. CASE Key(w) = "group"
      BY <1>3, <1>4, <2>1, <2>2
    <2>3. CASE Key(w) = "account"
      <3>1. Announcing("account")'
        BY <2>1, <2>3 DEF Announcing, WriterAt, Key
      <3> QED
        BY <3>1, MembersHeard DEF NobodyLocked
    <2> QED
      BY <2>1, <2>2, <2>3
  <1>9. CASE CommitTransaction(w)
    <2>1. PICK r \in DOMAIN outbox :
          /\ outbox[r].key = "account" /\ RowsKept
          /\ outbox'[r].state = IF outbox[r].state = "pending" THEN "committed" ELSE outbox[r].state
          /\ lost'.account = IF Unheard(r) THEN db'.account ELSE lost.account
      BY <1>9, CommitStep
    <2>2. CASE Unheard(r)
      BY <1>1, <2>1, <2>2, MembersLost
    <2>3. CASE ~Unheard(r)
      <3>1. outbox[r].open /\ outbox[r] \in Rows
        BY <2>3, RowsFields DEF Unheard, TypeInv
      <3>2. outbox[r].state \in {"pending", "committed"}
        BY <3>1 DEF RowInv, Rows
      <3>3. /\ r \in DOMAIN outbox' /\ outbox'[r].state = "committed"
            /\ outbox'[r].key = "account"
        BY <2>1, <3>2 DEF RowsKept
      <3> QED
        BY <1>6, <2>3, <3>3
    <2> QED
      BY <2>2, <2>3
  <1>10. CASE EnqueueAfter(w)
    <2>1. PICK r :
          /\ db' = db /\ writer[w].pc = "enqueue" /\ RowsGrow /\ r \in DOMAIN outbox'
          /\ outbox'[r].key = Key(w) /\ outbox'[r].state = "committed"
          /\ r \in DOMAIN outbox \/ r = Len(outbox) + 1
          /\ Key(w) \in {"account", "group"}
          /\ IF r \in DOMAIN outbox /\ Unheard(r)
             THEN /\ Key(w) = "account" => lost'.account = db.account
                  /\ Key(w) = "group" => lost'.account = lost.account
             ELSE lost' = lost
      BY <1>10, EnqueueAfterStep
    <2>2. CASE Key(w) = "group"
      <3>1. lost'.account = lost.account
        BY <2>1, <2>2
      <3> QED
        BY <1>3, <1>5, <2>1, <2>2, <3>1
    <2>3. CASE Key(w) = "account" /\ r \in DOMAIN outbox /\ Unheard(r)
      BY <1>1, <2>1, <2>3, MembersLost
    <2>4. CASE Key(w) = "account" /\ ~(r \in DOMAIN outbox /\ Unheard(r))
      <3>1. r \in DOMAIN outbox \/ r > Len(outbox)
        BY <2>1, RowsFields DEF TypeInv
      <3> QED
        BY <1>6, <2>1, <2>4, <3>1
    <2> QED
      BY <2>1, <2>2, <2>3, <2>4
  <1>11. CASE Rollback(w)
    <2>1. /\ db'.account = db.account /\ lost'.account = lost.account
          /\ writer[w].pc = "open" /\ RowsKept
          /\ \A s \in DOMAIN outbox : outbox'[s] = outbox[s] \/ outbox[s].state = "pending"
      BY <1>11, RollbackStep
    <2>2. ASSUME NEW r \in DOMAIN outbox, Ahead(r, "account")
          PROVE  Ahead(r, "account")'
      BY <1>1, <2>1, <2>2 DEF Ahead, Committed, RowsKept
    <2> QED
      BY <1>3, <2>1, <2>2
  <1>12. CASE EnqueueFails(w)
    <2>1. /\ db' = db /\ outbox' = outbox /\ Key(w) \in {"account", "group"}
          /\ Key(w) = "account" => lost'.account = db.account
          /\ Key(w) = "group" => lost'.account = lost.account
      BY <1>12, EnqueueFailsStep
    <2>2. CASE Key(w) = "group"
      BY <1>3, <1>4, <2>1, <2>2
    <2>3. CASE Key(w) = "account"
      BY <1>1, <2>1, <2>3, MembersLost
    <2> QED
      BY <2>1, <2>2, <2>3
  <1> QED
    BY <1>7, <1>8, <1>9, <1>10, <1>11, <1>12 DEF Writes

LEMMA MembersPolls ==
  ASSUME TypeInv, RowInv, VersionInv, MembersInv, NEW j \in Jobs,
         ListAfterAndReleaseDedup(j) \/ Advance(j)
  PROVE  MembersInv'
  <1> DEFINE K == {j}
  <1>1. /\ TypeInv' /\ Only(j) /\ UNCHANGED <<db, writer, lost>> /\ j \in Pollers
        /\ cache'.snapshot = cache.snapshot /\ cache'.epoch = cache.epoch
        /\ cache'.retired = cache.retired /\ cache'.order = cache.order
        /\ cache'.lock = cache.lock
        /\ job'[j].pc \in {"idle", "event", "done"}
    BY ListStep, AdvanceStep DEF Quits
  <1>2. \A k \in Jobs : k # j => (Fenced(k) <=> Fenced(k)')
    BY <1>1, FencedKept
  <1>3. ASSUME NEW k \in Jobs \ K
        PROVE  /\ job'[k] = job[k] /\ (Fenced(k) <=> Fenced(k)')
               /\ Newest(k) => Newest(k)'
               /\ Unguarded(k) => Unguarded(k)'
    BY <1>1, <1>2, OrderKept DEF Only, Unguarded
  <1>4. Announcing("account") => Announcing("account")'
    BY <1>1 DEF Announcing, WriterAt, Key
  <1>5. ASSUME NEW r \in DOMAIN outbox, Ahead(r, "account"),
               job[j].last >= r => Rebuilds(j, r)
        PROVE  Ahead(r, "account")' /\ (job'[j].last >= r => Prepares(j, r)')
    <2>1. CASE ListAfterAndReleaseDedup(j)
      BY <1>5, <2>1, ListedAhead DEF Prepares
    <2>2. CASE Advance(j)
      <3>1. ~(job[j].last >= r)
        BY <1>5, <2>2, AdvanceStep DEF Rebuilds, Prepares
      <3> QED
        BY <1>5, <2>2, <3>1, AdvancedAhead
    <2> QED
      BY <2>1, <2>2
  <1>6. \A r \in DOMAIN outbox : /\ Prepares(j, r) => Rebuilds(j, r)
                                 /\ Prepares(j, r)' => Rebuilds(j, r)'
    BY DEF Rebuilds
  <1>7. \A r \in DOMAIN outbox :
          Ahead(r, "account") /\ (\A p \in Pollers : job[p].last >= r => Prepares(p, r))
            => /\ Ahead(r, "account")'
               /\ \A p \in Pollers \cap K : job'[p].last >= r => Prepares(p, r)'
    BY <1>1, <1>5, <1>6
  <1>8. \A r \in DOMAIN outbox :
          Ahead(r, "account") /\ (\A p \in Pollers : job[p].last >= r => Rebuilds(p, r))
            => /\ Ahead(r, "account")'
               /\ \A p \in Pollers \cap K : job'[p].last >= r => Rebuilds(p, r)'
    BY <1>1, <1>5, <1>6
  <1>9. /\ K \in SUBSET Jobs /\ \A k \in K : LoadRight(k)'
        /\ db'.account = db.account /\ lost'.account \in {lost.account, db.account}
    BY <1>1 DEF LoadRight
  <1> HIDE DEF K
  <1>10. NobodyLocked => NobodyLocked'
    BY <1>3, <1>4, <1>7, <1>9, NobodyLockedKept
  <1>11. AccountHeard => AccountHeard'
    BY <1>3, <1>4, <1>8, <1>9, AccountHeardKept
  <1> QED
    BY <1>1, <1>3, <1>9, <1>10, <1>11, MembersKept

LEMMA MembersNext ==
  ASSUME TypeInv, RowInv, TokenInv, VersionInv, MembersInv, Next
  PROVE  MembersInv'
  <1>1. VersionInv'
    BY VersionNext
  <1>2. ASSUME Lapses
        PROVE  MembersInv'
    <2> DEFINE K == {}
    <2>1. /\ TypeInv' /\ UNCHANGED <<db, outbox, job, writer, lost>> /\ ShotKept
          /\ cache'.order = cache.order
          /\ cache'.lock = cache.lock \/ cache'.lock = None
      BY <1>2, LapseStep DEF Lapses
    <2>2. ASSUME NEW k \in Jobs \ K
          PROVE  /\ job'[k] = job[k] /\ (Fenced(k) <=> Fenced(k)')
                 /\ Newest(k) => Newest(k)'
                 /\ Unguarded(k) => Unguarded(k)'
      BY <2>1, OrderKept DEF Fenced, ShotKept, Unguarded
    <2>3. /\ K \in SUBSET Jobs /\ \A k \in K : LoadRight(k)' /\ \A p \in Pollers \cap K : FALSE
          /\ db'.account = db.account /\ lost'.account \in {lost.account, db.account}
          /\ cache'.snapshot = cache.snapshot
          /\ Announcing("account") => Announcing("account")'
          /\ \A r \in DOMAIN outbox : Ahead(r, "account") => Ahead(r, "account")'
      BY <2>1 DEF Announcing, WriterAt, Key, Ahead, Committed, ShotKept
    <2> HIDE DEF K
    <2>4. NobodyLocked => NobodyLocked'
      BY <2>2, <2>3, NobodyLockedKept
    <2>5. AccountHeard => AccountHeard'
      BY <2>2, <2>3, AccountHeardKept
    <2> QED
      BY <2>1, <2>2, <2>3, <2>4, <2>5, MembersKept
  <1> QED
    BY <1>1, <1>2, NextSplit, MembersWritesNext, MembersPolls, MembersMovesNext

-----------------------------------------------------------------------------
(* The bound of the changes.                                               *)

LEMMA BoundNext ==
  ASSUME TypeInv, RowInv, BoundInv, Next
  PROVE  BoundInv'
  <1>1. /\ db.account \in Nat /\ db.group \in Nat /\ db \in [account : Nat, group : Nat]
        /\ WritersOK
    BY NumberFields DEF TypeInv, StoreOK
  <1>2. \A u \in Writers : writer[u].pc = "open" => u \in InTransaction
    BY <1>1, WriterFields DEF WriterOK
  <1>3. ASSUME UNCHANGED <<db, writer>>
        PROVE  BoundInv'
    BY <1>3 DEF BoundInv
  <1>4. ASSUME NEW w \in Writers, RowFree(w), w \notin GroupWriters, NEW u \in Writers
        PROVE  writer[u].pc # "open"
    BY <1>2, <1>4 DEF RowFree, WriterAt
  <1>5. ASSUME NEW w \in Writers, Writes(w)
        PROVE  BoundInv'
    <2>1. CASE OpenTransaction(w)
      <3>1. /\ OnlyWriter(w) /\ UNCHANGED db
        BY <2>1, OpenStep
      <3>2. /\ w \notin GroupWriters /\ RowFree(w) /\ db.account + db.group < MaxChanges
        BY <2>1 DEF OpenTransaction, Bounded
      <3>3. db.account < MaxChanges
        BY <1>1, <3>2
      <3> QED
        BY <1>4, <3>1, <3>2, <3>3 DEF BoundInv, OnlyWriter
    <2>2. CASE Change(w)
      <3>1. OnlyWriter(w) /\ writer'[w].pc = "enqueue"
        BY <2>2, ChangeStep
      <3>2. /\ RowFree(w) /\ db.account + db.group < MaxChanges /\ db' = Changed(w)
        BY <2>2 DEF Change, Bounded
      <3>3. CASE w \in GroupWriters
        <4>1. db'.account = db.account /\ db'.group = db.group + 1
          BY <1>1, <3>2, <3>3, ChangedFields DEF Key
        <4>2. db'.group <= MaxChanges /\ db'.account <= MaxChanges
          BY <1>1, <3>2, <4>1
        <4> QED
          BY <3>1, <4>1, <4>2 DEF BoundInv, OnlyWriter
      <3>4. CASE w \notin GroupWriters
        <4>1. db'.account = db.account + 1 /\ db'.group = db.group
          BY <1>1, <3>2, <3>4, ChangedFields DEF Key
        <4>2. db'.group <= MaxChanges /\ db'.account <= MaxChanges
          BY <1>1, <3>2, <4>1
        <4>3. \A u \in Writers : writer'[u].pc # "open"
          BY <1>4, <3>1, <3>2, <3>4 DEF OnlyWriter
        <4> QED
          BY <4>2, <4>3 DEF BoundInv
      <3> QED
        BY <3>3, <3>4
    <2>3. CASE CommitTransaction(w)
      <3>1. /\ OnlyWriter(w) /\ writer[w].pc = "open" /\ writer'[w].pc = "idle"
            /\ db'.account = db.account + 1 /\ db'.group = db.group
        BY <2>3, CommitStep
      <3>2. db'.account <= MaxChanges /\ db'.group <= MaxChanges
        BY <1>1, <3>1 DEF BoundInv
      <3>3. \A u \in Writers : writer'[u].pc # "open"
        BY <3>1 DEF BoundInv, OnlyWriter
      <3> QED
        BY <3>2, <3>3 DEF BoundInv
    <2>4. CASE EnqueueAfter(w) \/ Rollback(w) \/ EnqueueFails(w)
      <3>1. OnlyWriter(w) /\ db' = db /\ writer'[w].pc = "idle"
        BY <2>4, EnqueueAfterStep, RollbackStep, EnqueueFailsStep
      <3> QED
        BY <3>1 DEF BoundInv, OnlyWriter
    <2> QED
      BY <1>5, <2>1, <2>2, <2>3, <2>4 DEF Writes
  <1>6. ASSUME NEW j \in Jobs, ListAfterAndReleaseDedup(j) \/ Advance(j) \/ Moves(j)
        PROVE  BoundInv'
    BY <1>3, <1>6, ListStep, AdvanceStep, MovesStep
  <1>7. ASSUME Lapses
        PROVE  BoundInv'
    BY <1>3, <1>7, LapseStep DEF Lapses
  <1> QED
    BY <1>5, <1>6, <1>7, NextSplit

-----------------------------------------------------------------------------
(* The theorems.                                                           *)

LEMMA InitInv ==
  ASSUME Init
  PROVE  IInv
  <1>1. /\ db = [account |-> 0, group |-> 0] /\ outbox = <<>>
        /\ cache = [watermark |-> 0, snapshot |-> None, epoch |-> 1,
                    retired |-> FALSE, order |-> <<>>, lock |-> None, lease |-> None]
        /\ job = [j \in Jobs |-> Rest]
        /\ writer = [w \in Writers |-> [pc |-> "idle", row |-> 0]]
        /\ faults = 0 /\ lost = [account |-> 0, group |-> 0]
    BY DEF Init
  <1>2. cache \in Caches
    <2> DEFINE none == <<>>
    <2>1. none \in Seq(Jobs)
      OBVIOUS
    <2> HIDE DEF none
    <2>2. cache = [watermark |-> 0, snapshot |-> None, epoch |-> 1,
                   retired |-> FALSE, order |-> none, lock |-> None, lease |-> None]
      BY <1>1 DEF none
    <2> QED
      BY <2>1, <2>2 DEF Caches
  <1>3. /\ outbox \in Seq(Rows) /\ Len(outbox) = 0 /\ DOMAIN outbox = {}
    BY <1>1
  <1>4. StoreOK
    BY <1>1, <1>2, <1>3 DEF StoreOK
  <1>5. \A j \in Jobs : job[j] = Rest
    BY <1>1
  <1>6. JobsOK
    BY <1>1, <1>5, RestFields DEF JobsOK, Fits
  <1>7. \A w \in Writers : writer[w].pc = "idle"
    BY <1>1
  <1>8. WritersOK
    BY <1>1, <1>7 DEF WritersOK, WriterOK
  <1>9. RowInv
    BY <1>3, <1>5, RestFields DEF RowInv, Jobs
  <1>10. LeaseInv /\ VersionInv
    BY <1>1, <1>5, RestFields DEF LeaseInv, InLease, VersionInv
  <1>11. TokenInv
    BY <1>1, <1>5, RestFields DEF TokenInv, LoadedSinceRetirement
  <1>12. GroupInv
    BY <1>1, <1>5, RestFields DEF GroupInv
  <1>13. MembersInv
    BY <1>1, <1>5, RestFields DEF MembersInv
  <1>14. BoundInv
    BY <1>1, <1>7 DEF BoundInv
  <1> QED
    BY <1>4, <1>6, <1>8, <1>9, <1>10, <1>11, <1>12, <1>13, <1>14 DEF IInv, TypeInv

LEMMA NextInv ==
  ASSUME IInv, [Next]_vars
  PROVE  IInv'
  <1>1. CASE Next
    BY <1>1, NextType, RowNext, LeaseNext, TokenNext, VersionNext, GroupNext, MembersNext, BoundNext
    DEF IInv
  <1>2. CASE UNCHANGED vars
    <2>1. UNCHANGED <<db, outbox, cache, job, writer, faults, lost>>
      BY <1>2 DEF vars
    <2>2. TypeInv'
      BY <2>1 DEF IInv, TypeInv, StoreOK, JobsOK, WritersOK, WriterOK
    <2>3. RowInv' /\ LeaseInv' /\ TokenInv' /\ VersionInv' /\ BoundInv'
      BY <2>1 DEF IInv, RowInv, LeaseInv, InLease, TokenInv, LoadedSinceRetirement, VersionInv,
                  BoundInv
    <2>4. GroupHeard' = GroupHeard
      BY <2>1 DEF GroupHeard, Announcing, WriterAt, Key, Ahead, Committed, Decides, EventKey, First,
                  Active
    <2>5. GroupInv'
      BY <2>1, <2>4 DEF IInv, GroupInv, Active
    <2>6. \A k \in Jobs : (Fenced(k)' = Fenced(k)) /\ (Newest(k)' = Newest(k))
      BY <2>1 DEF Fenced, Newest
    <2>7. \A k \in Jobs, r \in DOMAIN outbox : Prepares(k, r)' = Prepares(k, r)
      BY <2>1, <2>6 DEF Prepares
    <2>8. \A k \in Jobs, r \in DOMAIN outbox : Rebuilds(k, r)' = Rebuilds(k, r)
      BY <2>1, <2>6, <2>7 DEF Rebuilds, CurrentOrEarly
    <2>9. NobodyLocked => NobodyLocked'
      BY <2>1, <2>7 DEF NobodyLocked, Announcing, WriterAt, Key, Ahead, Committed, Jobs
    <2>10. AccountHeard => AccountHeard'
      BY <2>1, <2>8 DEF AccountHeard, Announcing, WriterAt, Key, Ahead, Committed, Jobs
    <2>11. MembersInv'
      BY <2>1, <2>6, <2>9, <2>10 DEF IInv, MembersInv, Unguarded
    <2> QED
      BY <2>2, <2>3, <2>5, <2>11 DEF IInv
  <1> QED
    BY <1>1, <1>2

LEMMA Invariant == Spec => []IInv
  <1>1. Init => IInv
    BY InitInv
  <1>2. IInv /\ [Next]_vars => IInv'
    BY NextInv
  <1> QED
    BY <1>1, <1>2, PTL DEF Spec

\* A quiet system hears of nothing any more.
LEMMA QuietHeard ==
  ASSUME Quiet
  PROVE  ~GroupHeard /\ ~AccountHeard
  <1>1. ~Announcing("group") /\ ~Announcing("account")
    BY DEF Quiet, Announcing, WriterAt
  <1>2. ASSUME NEW r \in DOMAIN outbox, NEW key, Ahead(r, key)
        PROVE  FALSE
    BY <1>2 DEF Quiet, Ahead, After
  <1> QED
    BY <1>1, <1>2 DEF GroupHeard, AccountHeard

\* The store, the outbox and the cache hold what the scripts and statements write, and the
\* watermark, which a poller sets blindly, never passes the last row.
THEOREM TypeCorrect == Spec => []TypeOK
  <1>1. IInv => TypeOK
    <2> SUFFICES ASSUME IInv
                 PROVE  TypeOK
      OBVIOUS
    <2>1. StoreOK /\ cache \in Caches
      BY DEF IInv, TypeInv, StoreOK
    <2>2. db \in [account : 0..MaxChanges, group : 0..MaxChanges]
      BY <2>1 DEF StoreOK, IInv, BoundInv
    <2>3. \A r \in DOMAIN outbox : outbox[r] \in Rows
      BY <2>1, RowsFields
    <2>4. cache.watermark \in 0..Len(outbox) /\ faults \in 0..MaxFaults
      BY <2>1, RowsFields DEF StoreOK, Caches
    <2>5. cache.order \in Seq(Jobs)
      BY <2>1 DEF Caches
    <2>6. \A i \in DOMAIN cache.order : cache.order[i] \in Jobs
      BY <2>5
    <2>7. /\ cache.snapshot \in [members : Nat, since : Nat] \cup {None}
          /\ cache.epoch \in Nat \ {0} /\ cache.retired \in BOOLEAN
          /\ cache.lock \in Jobs \cup {None} /\ cache.lease \in Jobs \cup {None}
      BY <2>1 DEF Caches
    <2> QED
      BY <2>2, <2>3, <2>4, <2>6, <2>7 DEF TypeOK, Rows
  <1> QED
    BY <1>1, Invariant, PTL

\* activateSnapshotVersion: no snapshot that was loaded before the bucket was last retired is
\* published or kept, however slow the rebuild or the request that publishes it.
THEOREM LoadedSince == Spec => []LoadedSinceRetirement
  <1>1. IInv => LoadedSinceRetirement
    BY DEF IInv, TokenInv
  <1> QED
    BY <1>1, Invariant, PTL

\* prepareGroupLifecycle: once every visible row is handled, the bucket is retired exactly if
\* its group is off, or the event of the group's last change may have been lost.
THEOREM GroupFollowed == Spec => []GroupIsFollowed
  <1>1. IInv => GroupIsFollowed
    BY QuietHeard DEF IInv, GroupInv, GroupIsFollowed
  <1> QED
    BY <1>1, Invariant, PTL

\* pollOutbox: once every visible row is handled, a published snapshot holds the account as it
\* is, or is older than a change whose event may have been lost: committed or folded behind the
\* watermark, not inserted, left to the holder of a busy lock, or overtaken by older data of a
\* request, of a rebuild whose lock ran out, or of one that reused what it had loaded before it
\* had the bucket's lock.
THEOREM SnapshotFresh == Spec => []SnapshotIsFresh
  <1>1. IInv => SnapshotIsFresh
    BY QuietHeard DEF IInv, MembersInv, SnapshotIsFresh
  <1> QED
    BY <1>1, Invariant, PTL
=============================================================================
