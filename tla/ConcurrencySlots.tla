-------------------------- MODULE ConcurrencySlots --------------------------
(***************************************************************************)
(* The concurrency limit of one user in Redis: slots taken and given back  *)
(* by requests, the counter of waiting requests, the leases of Live calls  *)
(* that take over from a slot, and the index from which a starting process *)
(* finds what dead processes left behind.  An account has the same keys    *)
(* and scripts, and its Live lease moves in the same script.               *)
(*                                                                         *)
(* A request is made once: its id begins with the prefix of its process,   *)
(* and a process that restarts is a new one with a new prefix.  A call to  *)
(* Redis is one step; request[r].at names the next one of request r.       *)
(***************************************************************************)
EXTENDS Integers, FiniteSets

CONSTANTS Requests, LiveCalls, Processes, Process, FirstProcess,
          maxConcurrency, queueLimit,
          SlotTTL, LiveTTL, WaitTTL, WaitTimeout,
          MaxFaults                              \* bound

ASSUME SlotsAssumption ==
    /\ IsFiniteSet(Requests)
    /\ Process \in [Requests -> Processes] /\ FirstProcess \in Processes
    /\ LiveCalls \subseteq Requests
    /\ {maxConcurrency, queueLimit, SlotTTL, LiveTTL, WaitTTL, WaitTimeout}
         \subseteq Nat \ {0}
    /\ WaitTimeout < WaitTTL      \* as the default configuration has it
    /\ MaxFaults \in Nat

VARIABLES slots, live,   \* ages of the members of the two sorted sets; who reads
                         \* the second removes expired ones first, and they are
                         \* removed here when they expire
          wait,          \* the waiting counter, and the age of its key
          index,         \* time left to the user's member of the active index
          request,
          process,       \* by process, where its startup cleanup is
          worker,        \* what the cleanup worker has read
          faults,        \* faults to come
          gaps           \* cases in which the code gives no protection

redis == <<slots, live, wait, index>>
procs == <<process, worker>>
vars  == <<redis, request, procs, faults, gaps>>

Gone     == -1
Nobody   == [r \in Requests |-> Gone]
Larger(x, y) == IF x > y THEN x ELSE y
IndexTTL == Larger(SlotTTL, WaitTTL)
\* lost: the slot was taken away under the request; leaked: a failed call left
\* it behind.
NoLoad   == [ttl |-> Gone, busy |-> FALSE]
Idle     == [at |-> "idle", next |-> "idle", waited |-> 0, load |-> NoLoad,
             lost |-> FALSE, leaked |-> FALSE]
Off      == [is |-> "off", remaining |-> FALSE, dead |-> {}]

Steps == {"idle", "touch", "enqueue", "touchWait", "waiting", "dequeue", "running",
          "create", "talking", "release", "index", "over"}

Reads == [ttl : Gone..IndexTTL, busy : BOOLEAN]

TypeOK ==
    /\ slots \in [Requests -> Gone..SlotTTL] /\ live \in [Requests -> Gone..(LiveTTL - 1)]
    /\ wait \in [n : 0..queueLimit, age : 0..(WaitTTL - 1)]
    /\ index \in Gone..IndexTTL /\ worker \in Reads
    /\ request \in [Requests -> [at : Steps, next : Steps, waited : 0..WaitTimeout,
                                 load : Reads, lost : BOOLEAN, leaked : BOOLEAN]]
    /\ process \in [Processes -> [is : {"off", "sweep", "delete", "index", "up", "dead"},
                                  remaining : BOOLEAN, dead : SUBSET Processes]]
    /\ faults \in 0..MaxFaults
    /\ gaps \subseteq {"unbacked", "miscounted", "unindexed"}

Init ==
    /\ slots = Nobody /\ live = Nobody /\ wait = [n |-> 0, age |-> 0] /\ index = Gone
    /\ request = [r \in Requests |-> Idle] /\ worker = NoLoad
    /\ process = [p \in Processes |->
                    IF p = FirstProcess THEN [Off EXCEPT !.is = "up"] ELSE Off]
    /\ faults = MaxFaults /\ gaps = {}

-----------------------------------------------------------------------------
Members(ages)    == {r \in Requests : ages[r] # Gone}
Fresh(ages, ttl) == {r \in Members(ages) : ages[r] < ttl}
ZCard(ages)      == Cardinality(Members(ages))
ZAdd(ages, r)    == [ages EXCEPT ![r] = 0]
ZRem(ages, r)    == [ages EXCEPT ![r] = Gone]

\* Mutant: a member expires a second early.
TrimEarly(ages, ttl) ==
    [r \in Requests |-> IF r \in Fresh(ages, ttl - 1) THEN ages[r] ELSE Gone]

Trim(ages, ttl)  == [r \in Requests |-> IF r \in Fresh(ages, ttl) THEN ages[r] ELSE Gone]

Becomes(r, rec)  == request' = [request EXCEPT ![r] = rec]
GoTo(r, step)    == Becomes(r, [request[r] EXCEPT !.at = step])
GoVia(r, step, next) == Becomes(r, [request[r] EXCEPT !.at = step, !.next = next])
\* r goes on to the step it was bound for.
Onward(rec, step) == [Idle EXCEPT !.at = step, !.leaked = rec.leaked,
                                  !.lost = rec.lost /\ step # "over"]
Continue(r)      == Becomes(r, Onward(request[r], request[r].next))
End(r)           == Becomes(r, Onward(request[r], "over"))
Leaking(rec)     == [rec EXCEPT !.leaked = TRUE]
Is(r, step)      == request[r].at = step

Fault        == faults > 0 /\ faults' = faults - 1
NoFault      == UNCHANGED faults
Note(gap)    == gaps' = gaps \cup {gap}
Clear(gap)   == gaps' = gaps \ {gap}

\* Counted as waiting and not yet uncounted.
Waiters    == {r \in Requests : \/ request[r].at \in {"touchWait", "waiting", "dequeue"}
                                \/ Is(r, "touch") /\ request[r].next = "dequeue"}
\* The session of r goes on.
InSession  == {"running", "create", "talking"}
Running    == {r \in Requests : \/ request[r].at \in InSession
                                \/ Is(r, "index") /\ request[r].next = "talking"}
Counted    == Fresh(slots, SlotTTL) \cup Members(live)
Load       == Fresh(slots, SlotTTL) # {} \/ wait.n > 0

-----------------------------------------------------------------------------
(* Keeping the index true: the load is read, then the index is written.    *)
(* A request reads it in the step of the call before, as what comes between *)
(* the two only makes it newer.                                            *)

activeIndexTTL(slotCount, waitCount) ==
    Larger(IF slotCount > 0 THEN SlotTTL ELSE 0, IF waitCount > 0 THEN WaitTTL ELSE 0)

\* busy says if there was a load, whatever is made of it.
readActiveLoad(s, n) ==
    LET count == Cardinality(Fresh(s, SlotTTL))
    IN  [ttl |-> activeIndexTTL(count, n), busy |-> count > 0 \/ n > 0]

\* Somebody may have come since the load was read.
WriteIndex(read) ==
    /\ index' = IF read.ttl = 0 THEN Gone ELSE read.ttl
    /\ IF index' = Gone /\ Load /\ ~read.busy THEN Note("unindexed")
                                             ELSE Clear("unindexed")
    /\ UNCHANGED <<slots, live, wait>>

\* r is to refresh the index, with the load it has read, and then goes on.
Refresh(r, next, n) ==
    Becomes(r, [request[r] EXCEPT !.at = "index", !.next = next,
                                  !.load = readActiveLoad(slots', n)])

refreshActiveIndex(r) ==
    /\ Is(r, "index") /\ Continue(r)
    /\ \/ NoFault /\ WriteIndex(request[r].load)
       \/ Fault /\ UNCHANGED <<redis, gaps>>
    /\ UNCHANGED <<procs>>

ReadExpiredMembers ==
    /\ index = 0 /\ worker = NoLoad /\ worker' = readActiveLoad(slots, wait.n)
    /\ slots' = Trim(slots, SlotTTL) /\ UNCHANGED <<live, wait, index>>
    /\ UNCHANGED <<request, process, faults, gaps>>

reconcileExpiredIndexCandidates ==
    /\ worker # NoLoad /\ worker' = NoLoad /\ WriteIndex(worker)
    /\ UNCHANGED <<request, process, faults>>

-----------------------------------------------------------------------------
(* Taking a slot.                                                          *)

\* Mutant: only slots count against the limit, not the leases of Live calls.
LiveNotCounted(s, l) == ZCard(s) < maxConcurrency

HasRoom(s, l) == ZCard(s) + ZCard(l) < maxConcurrency

acquireScript(r) ==
    LET s == Trim(slots, SlotTTL)
    IN  /\ slots' = IF HasRoom(s, live) THEN ZAdd(s, r) ELSE s
        /\ UNCHANGED <<live, wait, index>>
Acquired(r) == slots'[r] # Gone

\* The first try; a Live call makes no other.
TryAcquire(r) ==
    /\ Is(r, "idle") /\ process[Process[r]].is = "up"
    /\ acquireScript(r) /\ NoFault
    /\ IF Acquired(r) THEN GoVia(r, "touch", "running")
       ELSE IF r \in LiveCalls THEN End(r) ELSE GoTo(r, "enqueue")
    /\ UNCHANGED <<procs, gaps>>

\* A try of the wait loop.
AcquireAgain(r) ==
    /\ Is(r, "waiting")
    /\ acquireScript(r) /\ NoFault
    /\ IF Acquired(r) THEN GoVia(r, "touch", "dequeue") ELSE UNCHANGED request
    /\ UNCHANGED <<procs, gaps>>

\* The script may have run when its answer is lost.
AcquireFails(r) ==
    /\ \/ Is(r, "idle") /\ process[Process[r]].is = "up"
       \/ Is(r, "waiting")
    /\ acquireScript(r) \/ UNCHANGED redis
    /\ Fault
    /\ LET rec == IF Acquired(r) THEN Leaking(request[r]) ELSE request[r]
       IN  Becomes(r, IF Is(r, "idle") THEN Onward(rec, "over")
                      ELSE [rec EXCEPT !.at = "dequeue", !.next = "over"])
    /\ IF Acquired(r) /\ index = Gone THEN Note("unindexed") ELSE UNCHANGED gaps
    /\ UNCHANGED procs

\* The index is written by a call of its own, whose failure is only logged.
touchActiveIndexAt(r) ==
    /\ Is(r, "touch")
    /\ \/ NoFault /\ index' = SlotTTL /\ Clear("unindexed")
       \/ Fault /\ UNCHANGED index /\ IF index = Gone THEN Note("unindexed") ELSE UNCHANGED gaps
    /\ IF request[r].next = "dequeue" THEN GoVia(r, "dequeue", "running") ELSE Continue(r)
    /\ UNCHANGED <<slots, live, wait, procs>>

-----------------------------------------------------------------------------
(* Waiting for a slot.                                                     *)

QueueFull == wait.n >= queueLimit
Waiting(n, age) == IF n = 0 THEN [n |-> 0, age |-> 0] ELSE [n |-> n, age |-> age]
Counting  == wait' = Waiting(wait.n + 1, 0)

IncrementWaitCount(r) ==
    /\ Is(r, "enqueue") /\ NoFault
    /\ IF QueueFull THEN End(r) /\ UNCHANGED wait
                    ELSE GoTo(r, "touchWait") /\ Counting
    /\ UNCHANGED <<slots, live, index, procs, gaps>>

\* An error lets the request wait all the same, and be uncounted later.
IncrementFails(r) ==
    /\ Is(r, "enqueue") /\ Fault /\ GoTo(r, "waiting")
    /\ \/ ~QueueFull /\ Counting /\
            (IF index = Gone THEN Note("unindexed") ELSE UNCHANGED gaps)
       \/ UNCHANGED wait /\ Note("miscounted")
    /\ UNCHANGED <<slots, live, index, procs>>

TouchWaiting(r) ==
    /\ Is(r, "touchWait") /\ GoTo(r, "waiting")
    /\ \/ NoFault /\ index' = WaitTTL /\ Clear("unindexed")
       \/ Fault /\ UNCHANGED index /\ IF index = Gone THEN Note("unindexed") ELSE UNCHANGED gaps
    /\ UNCHANGED <<slots, live, wait, procs>>

\* Mutant: a request that gives up is not uncounted.
UncountOnlyServed(r) ==
    IF Is(r, "waiting") \/ wait.n = 0 THEN wait.n ELSE wait.n - 1

Uncounted(r) == IF wait.n > 0 THEN wait.n - 1 ELSE wait.n

\* The deferred decrement: after the slot was taken, or when the wait times out
\* or the client goes away.
DecrementWaitCount(r) ==
    /\ Is(r, "dequeue") \/ Is(r, "waiting")
    /\ LET next == IF Is(r, "waiting") THEN "over" ELSE request[r].next
       IN  \/ /\ NoFault /\ slots' = Trim(slots, SlotTTL) /\ UNCHANGED gaps
              /\ wait' = Waiting(Uncounted(r), wait.age)
              /\ Refresh(r, next, wait'.n)
           \/ /\ Fault /\ Becomes(r, Onward(request[r], next))
              /\ UNCHANGED <<slots, wait>> /\ Note("miscounted")
    /\ UNCHANGED <<live, index, procs>>

-----------------------------------------------------------------------------
(* The session, and giving the slot back.                                  *)

\* When the request is over, when its client goes away (wrapReleaseOnDone; the rest
\* of its answer is read uncounted, and for the limit it is over), or when a Live
\* call was created, or was not.
Parts(r) == (Is(r, "running") /\ r \notin LiveCalls) \/ Is(r, "create") \/ Is(r, "release")

\* A failed release is logged: the slot stays until it expires.
ReleaseUserSlot(r) ==
    LET next == IF Is(r, "create") THEN "talking" ELSE "over"
    IN  /\ Parts(r)
        /\ \/ NoFault /\ slots' = ZRem(Trim(slots, SlotTTL), r) /\ Refresh(r, next, wait.n)
           \/ Fault /\ Becomes(r, Onward(Leaking(request[r]), next)) /\ UNCHANGED slots
        /\ UNCHANGED <<live, wait, index, procs, gaps>>

\* A Live call takes its lease while it holds its slot: one more than the limit
\* is allowed.  Slots are counted here without removing expired ones.
acquireLiveLeaseScript(r) ==
    LET full == ZCard(slots) + ZCard(live) >= maxConcurrency + 1
    IN  /\ live' = IF full THEN live ELSE ZAdd(live, r)
        /\ UNCHANGED <<slots, wait, index>>
        /\ IF ~full /\ r \notin Fresh(slots, SlotTTL) THEN Note("unbacked")
                                                      ELSE UNCHANGED gaps

AcquireLiveLease(r) ==
    /\ Is(r, "running") /\ r \in LiveCalls /\ acquireLiveLeaseScript(r)
    /\ LET out == [request[r] EXCEPT !.at = "release"]
       IN  \/ NoFault /\ IF live'[r] # Gone THEN GoTo(r, "create") ELSE Becomes(r, out)
           \/ Fault /\ Becomes(r, Leaking(out))
    /\ UNCHANGED procs

\* Mutant: the lease of a call that came to nothing is left to expire.
LeaseLeft(r) == IF Is(r, "create") THEN live ELSE ZRem(live, r)

releaseLiveLease(r) == ZRem(live, r)

\* The call is not created upstream: the lease is dropped, and another account is
\* tried or not.  A call whose lease could not be dropped tries no other.
CreateFails(r) ==
    /\ Is(r, "create")
    /\ \/ NoFault /\ live' = releaseLiveLease(r) /\ (GoTo(r, "running") \/ GoTo(r, "release"))
       \/ /\ Fault /\ UNCHANGED live
          /\ Becomes(r, Leaking([request[r] EXCEPT !.at = "release"]))
    /\ UNCHANGED <<slots, wait, index, procs, gaps>>

Holds(r) == live[r] # Gone

\* A lease that is gone is not taken again: the call ends.
RefreshLiveLease(r) ==
    /\ Is(r, "talking")
    /\ IF Holds(r) THEN live' = ZAdd(live, r) /\ UNCHANGED request
                   ELSE UNCHANGED live /\ End(r)
    /\ UNCHANGED <<slots, wait, index, procs, faults, gaps>>

\* The call ends, or its lease could not be confirmed.
finalizeLiveCall(r) ==
    /\ Is(r, "talking")
    /\ \/ NoFault /\ live' = releaseLiveLease(r) /\ End(r)
       \/ Fault /\ UNCHANGED live /\ Becomes(r, Onward(Leaking(request[r]), "over"))
    /\ UNCHANGED <<slots, wait, index, procs, gaps>>

-----------------------------------------------------------------------------
(* Processes start and die; time passes.                                   *)

\* The slots of rs are taken away under their requests.
Losing(req, rs) == [r \in Requests |-> IF r \in rs /\ req[r].at # "over"
                      THEN [req[r] EXCEPT !.lost = TRUE] ELSE req[r]]
Lose(rs)        == request' = Losing(request, rs)

Startup(p, rec) == process' = [process EXCEPT ![p] = rec]
Dead            == {p \in Processes : process[p].is = "dead"}

\* Mutant: only members whose time has not come are read.
ActiveMembers == index > 0

allIndexMembers == index # Gone

\* dead: whose slots this startup has to find.
CleanupStaleProcessSlots(p) ==
    /\ process[p].is = "off"
    /\ Startup(p, [is |-> IF allIndexMembers THEN "sweep" ELSE "up",
                   remaining |-> FALSE,
                   dead |-> IF index = Gone THEN {} ELSE Dead])
    /\ UNCHANGED <<redis, request, worker, faults, gaps>>

\* Every slot that does not carry the prefix of p, so also those of other
\* processes that are alive.
startupCleanupSlotScript(p) ==
    LET own == {r \in Members(slots) : Process[r] = p}
    IN  /\ process[p].is = "sweep"
        /\ slots' = [r \in Requests |-> IF r \in own THEN slots[r] ELSE Gone]
        /\ Lose(Members(slots) \ own)
        /\ Startup(p, [process[p] EXCEPT !.is = "delete", !.remaining = own # {}])
        /\ UNCHANGED <<live, wait, index, worker, faults, gaps>>

DeleteWaitKey(p) ==
    /\ process[p].is = "delete" /\ Startup(p, [process[p] EXCEPT !.is = "index"])
    /\ wait' = [n |-> 0, age |-> 0]
    /\ IF Waiters # {} THEN Note("miscounted") ELSE Clear("miscounted")
    /\ UNCHANGED <<slots, live, index, request, worker, faults>>

WriteBackIndex(p) ==
    /\ process[p].is = "index" /\ Startup(p, [process[p] EXCEPT !.is = "up", !.remaining = FALSE])
    /\ WriteIndex([ttl |-> IF process[p].remaining THEN SlotTTL ELSE 0,
                   busy |-> process[p].remaining])
    /\ UNCHANGED <<request, worker, faults>>

\* A failed cleanup is logged and the process serves.
CleanupFails(p) ==
    /\ process[p].is \in {"sweep", "delete"} /\ Fault
    /\ Startup(p, [Off EXCEPT !.is = "up"])
    /\ UNCHANGED <<redis, request, worker, gaps>>

Crash(p) ==
    LET mine == {r \in Requests : Process[r] = p /\ request[r].at \notin {"idle", "over"}}
    IN  /\ process[p].is = "up" /\ Fault /\ Startup(p, [Off EXCEPT !.is = "dead"])
        /\ request' = [r \in Requests |-> IF r \in mine
                          THEN Onward(Leaking(request[r]), "over") ELSE request[r]]
        /\ gaps' = gaps \cup (IF mine \cap Waiters # {} THEN {"miscounted"} ELSE {})
                        \cup (IF index = Gone /\ Load THEN {"unindexed"} ELSE {})
        /\ UNCHANGED <<redis, worker>>

Older(ages, ttl) == [r \in Requests |->
                       IF ages[r] \in 0..(ttl - 1) THEN ages[r] + 1 ELSE ages[r]]

\* Time passes; a request that has waited long enough waits no more.
Tick ==
    /\ \A r \in Waiters : request[r].waited < WaitTimeout
    /\ slots' = Older(slots, SlotTTL) /\ live' = Trim(Older(live, LiveTTL), LiveTTL)
    /\ index' = IF index > 0 THEN index - 1 ELSE index
    /\ wait' = IF wait.n = 0 \/ wait.age + 1 = WaitTTL THEN [n |-> 0, age |-> 0]
               ELSE [wait EXCEPT !.age = @ + 1]
    /\ LET longer == [r \in Requests |-> IF r \in Waiters
                        THEN [request[r] EXCEPT !.waited = @ + 1] ELSE request[r]]
       IN  request' = Losing(longer, (Fresh(slots, SlotTTL) \ Fresh(slots', SlotTTL))
                                      \cup (Members(live) \ Members(live')))
    /\ IF wait.n > 0 /\ wait'.n = 0 /\ Waiters = {} THEN Clear("miscounted")
                                                    ELSE UNCHANGED gaps
    /\ UNCHANGED <<procs, faults>>

-----------------------------------------------------------------------------
RequestStep(r) ==
    \/ TryAcquire(r) \/ AcquireAgain(r) \/ AcquireFails(r) \/ touchActiveIndexAt(r)
    \/ IncrementWaitCount(r) \/ IncrementFails(r) \/ TouchWaiting(r)
    \/ DecrementWaitCount(r)
    \/ refreshActiveIndex(r)
    \/ ReleaseUserSlot(r)
    \/ AcquireLiveLease(r) \/ CreateFails(r)
    \/ RefreshLiveLease(r) \/ finalizeLiveCall(r)

ProcessStep(p) ==
    \/ CleanupStaleProcessSlots(p) \/ startupCleanupSlotScript(p)
    \/ DeleteWaitKey(p) \/ WriteBackIndex(p) \/ CleanupFails(p) \/ Crash(p)

Next ==
    \/ \E r \in Requests : RequestStep(r)
    \/ \E p \in Processes : ProcessStep(p)
    \/ ReadExpiredMembers \/ reconcileExpiredIndexCandidates
    \/ Tick

Spec == Init /\ [][Next]_vars

-----------------------------------------------------------------------------
\* The limit holds for slots and Live leases together, a call that holds both
\* counted once: the extra place acquireLiveLeaseScript allows never lets a
\* session too many in, unless the slot the lease replaces was already gone.
LimitHolds ==
    Cardinality(Counted) <= maxConcurrency \/ "unbacked" \in gaps

\* A session that goes on is counted, through the change from slot to lease too.
\* It loses its place only because it outlives the TTL of a slot nobody renews
\* (or of a lease while its call reconnects), or because another process starts
\* and sweeps the slots of every prefix but its own (startupCleanupSlotScript).
RunningIsCounted == \A r \in Running \ Counted : request[r].lost

\* The counter the queue limit is checked against (incrementWaitScript) is the
\* number of requests that wait, and so never above the limit - after a crash or
\* a failed call not before the key expires or a startup deletes it, and a startup
\* that deletes the counter under waiting requests loses count itself.
WaitCountIsTrue ==
    "miscounted" \in gaps \/ (wait.n = Cardinality(Waiters) /\ wait.n <= queueLimit)

\* What a startup has to find is in the index: a slot or a waiting request leaves
\* its user out of it only between its script and the touch that follows, or when
\* that touch was lost, or when a refresh that had read no load removed the member
\* under it.
IndexFollowsLoad ==
    index = Gone /\ Load =>
      \/ "unindexed" \in gaps
      \/ \E r \in Requests : request[r].at \in {"touch", "touchWait"}

\* Once a process is up after a cleanup that did not fail, no slot is left of a
\* process that was dead when it started, expired index member or not.
DeadAreSwept ==
    \A p \in Processes : process[p].is \in {"delete", "index", "up"} =>
      \A r \in Requests : Process[r] \in process[p].dead => slots[r] = Gone

\* Load is indexed while somebody holds it, so that what the dead leave is found.
DeadAreFound == IndexFollowsLoad /\ DeadAreSwept

\* A request that is over holds neither slot nor lease, on whatever path it ended,
\* unless a call to Redis failed or its process died.
NothingLeaks ==
    \A r \in Requests :
      Is(r, "over") /\ ~request[r].leaked => slots[r] = Gone /\ live[r] = Gone
=============================================================================
