------------------------ MODULE ConcurrencySlotsProofs ------------------------
(***************************************************************************)
(* Proofs about ConcurrencySlots, for any finite set of requests, any set  *)
(* of processes, any limits and times that satisfy SlotsAssumption, and    *)
(* any number of faults.                                                   *)
(***************************************************************************)
EXTENDS ConcurrencySlots, FiniteSetTheorems, TLAPS

-----------------------------------------------------------------------------
(* The inductive invariant.                                                *)

Reqs  == [at : Steps, next : Steps, waited : 0..WaitTimeout, load : Reads,
          lost : BOOLEAN, leaked : BOOLEAN]
Procs == [is : {"off", "sweep", "delete", "index", "up", "dead"},
          remaining : BOOLEAN, dead : SUBSET Processes]

RedisOK ==
    /\ slots \in [Requests -> Gone..SlotTTL] /\ live \in [Requests -> Gone..(LiveTTL - 1)]
    /\ wait \in [n : 0..queueLimit, age : 0..(WaitTTL - 1)]
    /\ index \in Gone..IndexTTL

\* A load is read as busy only if the index is to be written for it.
Sound(load) == load.busy => load.ttl > 0

\* Where a request goes on to when it has made the call it is at.
Bound(rec) ==
    /\ rec.at = "touch" => rec.next \in {"running", "dequeue"}
    /\ rec.at = "dequeue" => rec.next \in {"running", "over"}
    /\ rec.at = "index" => rec.next \in {"running", "talking", "over"}

RequestsOK ==
    /\ request \in [Requests -> Reqs]
    /\ \A r \in Requests : Bound(request[r]) /\ Sound(request[r].load)

ProcsOK ==
    /\ process \in [Processes -> Procs]
    /\ worker \in Reads /\ Sound(worker)

RestOK == faults \in 0..MaxFaults /\ gaps \subseteq {"unbacked", "miscounted", "unindexed"}

TypeInv == RedisOK /\ RequestsOK /\ ProcsOK /\ RestOK

\* Who goes on with a slot, or with a lease, once the call it is at is made.
SlotUser(r) ==
    \/ request[r].at \in {"touch", "running", "create"}
    \/ request[r].at \in {"dequeue", "index"} /\ request[r].next = "running"

LeaseUser(r) ==
    \/ request[r].at \in {"create", "talking"}
    \/ Is(r, "index") /\ request[r].next = "talking"

FreshSlots == Fresh(slots, SlotTTL)

\* It has it, or it was taken away ...
Backed(r) ==
    /\ SlotUser(r) => r \in FreshSlots \/ request[r].lost
    /\ LeaseUser(r) => live[r] # Gone \/ request[r].lost

\* ... and nobody else has one, unless a failed call left it behind.
Clean(r) == ~request[r].leaked =>
    /\ slots[r] # Gone => SlotUser(r) \/ Is(r, "release")
    /\ live[r] # Gone => LeaseUser(r)

HoldInv == \A r \in Requests : Backed(r)
LeakInv == \A r \in Requests : Clean(r)

\* A process serves while it is up, and is dead for good: nothing adds slots to
\* those of the dead.
DeadInv ==
    /\ \A r \in Requests :
         process[Process[r]].is # "up" => request[r].at \in {"idle", "over"}
    /\ \A p \in Processes : process[p].dead \subseteq Dead
    /\ DeadAreSwept

\* The counter's key is no older than the wait of anyone it counts.
WaitInv ==
    /\ wait.n = Cardinality(Waiters)
    /\ \A r \in Waiters : wait.age <= request[r].waited

CountInv == "miscounted" \in gaps \/ WaitInv

IInv ==
    /\ TypeInv /\ HoldInv /\ LeakInv /\ DeadInv
    /\ IndexFollowsLoad /\ CountInv /\ LimitHolds

-----------------------------------------------------------------------------
(* Facts every step needs.                                                 *)

LEMMA Constants ==
  /\ IsFiniteSet(Requests) /\ Process \in [Requests -> Processes]
  /\ maxConcurrency \in Nat /\ queueLimit \in Nat
  /\ SlotTTL \in Nat /\ SlotTTL > 0 /\ LiveTTL \in Nat /\ LiveTTL > 0
  /\ WaitTTL \in Nat /\ WaitTTL > 0 /\ WaitTimeout \in Nat
  /\ WaitTimeout < WaitTTL /\ MaxFaults \in Nat
  BY SlotsAssumption

USE Constants

LEMMA TTLs ==
  /\ Gone = -1 /\ IndexTTL \in Nat
  /\ SlotTTL \in Gone..IndexTTL /\ WaitTTL \in Gone..IndexTTL
  BY DEF Gone, IndexTTL, Larger

LEMMA IdleFields ==
  /\ NoLoad \in Reads /\ NoLoad.ttl = Gone /\ NoLoad.busy = FALSE
  /\ Idle \in Reqs /\ Idle.at = "idle" /\ Idle.next = "idle" /\ Idle.load = NoLoad
  /\ Idle.waited = 0 /\ Idle.lost = FALSE /\ Idle.leaked = FALSE
  <1>1. NoLoad \in Reads /\ NoLoad.ttl = Gone /\ NoLoad.busy = FALSE
    BY TTLs DEF NoLoad, Reads
  <1>2. /\ Idle.at = "idle" /\ Idle.next = "idle" /\ Idle.load = NoLoad
        /\ Idle.waited = 0 /\ Idle.lost = FALSE /\ Idle.leaked = FALSE
    BY DEF Idle
  <1>3. Idle \in Reqs
    <2> HIDE DEF NoLoad, Reads
    <2> QED
      BY <1>1 DEF Idle, Reqs, Steps
  <1> QED
    BY <1>1, <1>2, <1>3

LEMMA OnwardFields ==
  ASSUME NEW rec \in Reqs, NEW step \in Steps
  PROVE  /\ Onward(rec, step) \in Reqs
         /\ Onward(rec, step).at = step /\ Onward(rec, step).next = "idle"
         /\ Onward(rec, step).load = NoLoad
         /\ Onward(rec, step).leaked = rec.leaked
         /\ Onward(rec, step).lost = (rec.lost /\ step # "over")
  <1>1. rec.leaked \in BOOLEAN /\ rec.lost \in BOOLEAN
    BY DEF Reqs
  <1> DEFINE lost == rec.lost /\ step # "over"
  <1>2. lost \in BOOLEAN
    OBVIOUS
  <1>3. Onward(rec, step) = [Idle EXCEPT !.at = step, !.leaked = rec.leaked, !.lost = lost]
    BY DEF Onward
  <1> HIDE DEF lost
  <1> DEFINE res == [Idle EXCEPT !.at = step, !.leaked = rec.leaked, !.lost = lost]
  <1>4. res \in Reqs
    BY IdleFields, <1>1, <1>2 DEF Reqs
  <1>5. /\ res.at = step /\ res.next = "idle" /\ res.load = NoLoad
        /\ res.leaked = rec.leaked /\ res.lost = lost
    BY IdleFields, <1>1, <1>2 DEF Reqs
  <1> HIDE DEF res
  <1> QED
    BY <1>3, <1>4, <1>5 DEF res, lost

-----------------------------------------------------------------------------
(* What an operator does to the request of an action.                      *)

Only(r)  == \A q \in Requests : q # r => request'[q] = request[q]
\* What r holds, it goes on holding.
Keeps(r) == request'[r].leaked = request[r].leaked /\ request'[r].lost = request[r].lost

LEMMA BecomesFields ==
  ASSUME RequestsOK, NEW r \in Requests, NEW rec \in Reqs, Becomes(r, rec),
         Bound(rec), Sound(rec.load)
  PROVE  RequestsOK' /\ Only(r) /\ request'[r] = rec
  <1>1. request' = [request EXCEPT ![r] = rec]
    BY DEF Becomes
  <1>2. Only(r) /\ request'[r] = rec /\ request' \in [Requests -> Reqs]
    BY <1>1 DEF RequestsOK, Only
  <1>3. \A q \in Requests : Bound(request'[q]) /\ Sound(request'[q].load)
    BY <1>2 DEF RequestsOK, Only
  <1> QED
    BY <1>2, <1>3 DEF RequestsOK

LEMMA GoToFields ==
  ASSUME RequestsOK, NEW r \in Requests, NEW step \in Steps, GoTo(r, step),
         step \notin {"touch", "dequeue", "index"}
  PROVE  /\ RequestsOK' /\ Only(r) /\ Keeps(r)
         /\ request'[r].at = step /\ request'[r].waited = request[r].waited
  <1> DEFINE rec == [request[r] EXCEPT !.at = step]
  <1>1. request[r] \in Reqs /\ Sound(request[r].load)
    BY DEF RequestsOK
  <1>2. /\ rec \in Reqs /\ rec.at = step /\ rec.load = request[r].load
        /\ rec.leaked = request[r].leaked /\ rec.lost = request[r].lost
        /\ rec.waited = request[r].waited
    BY <1>1 DEF Reqs
  <1>3. Becomes(r, rec)
    BY DEF GoTo
  <1> HIDE DEF rec
  <1>4. Bound(rec) /\ Sound(rec.load)
    BY <1>1, <1>2 DEF Bound
  <1>5. RequestsOK' /\ Only(r) /\ request'[r] = rec
    BY <1>2, <1>3, <1>4, BecomesFields
  <1> QED
    BY <1>2, <1>5 DEF Keeps

LEMMA GoViaFields ==
  ASSUME RequestsOK, NEW r \in Requests, NEW step \in Steps, NEW next \in Steps,
         GoVia(r, step, next),
         (step = "touch" /\ next \in {"running", "dequeue"}) \/
           (step = "dequeue" /\ next = "running")
  PROVE  /\ RequestsOK' /\ Only(r) /\ Keeps(r)
         /\ request'[r].at = step /\ request'[r].next = next
         /\ request'[r].waited = request[r].waited
  <1> DEFINE rec == [request[r] EXCEPT !.at = step, !.next = next]
  <1>1. request[r] \in Reqs /\ Sound(request[r].load)
    BY DEF RequestsOK
  <1>2. /\ rec \in Reqs /\ rec.at = step /\ rec.next = next /\ rec.load = request[r].load
        /\ rec.leaked = request[r].leaked /\ rec.lost = request[r].lost
        /\ rec.waited = request[r].waited
    BY <1>1 DEF Reqs
  <1>3. Becomes(r, rec)
    BY DEF GoVia
  <1> HIDE DEF rec
  <1>4. Bound(rec) /\ Sound(rec.load)
    BY <1>1, <1>2 DEF Bound
  <1>5. RequestsOK' /\ Only(r) /\ request'[r] = rec
    BY <1>2, <1>3, <1>4, BecomesFields
  <1> QED
    BY <1>2, <1>5 DEF Keeps

\* rec is the record of r itself, or marked as leaking.
LEMMA OnwardStep ==
  ASSUME RequestsOK, NEW r \in Requests, NEW rec \in Reqs, NEW step \in Steps,
         Becomes(r, Onward(rec, step)), step \notin {"touch", "dequeue", "index"}
  PROVE  /\ RequestsOK' /\ Only(r) /\ request'[r].at = step
         /\ request'[r].leaked = rec.leaked
         /\ request'[r].lost = (rec.lost /\ step # "over")
  <1> DEFINE res == Onward(rec, step)
  <1>1. /\ res \in Reqs /\ res.at = step /\ res.load = NoLoad
        /\ res.leaked = rec.leaked /\ res.lost = (rec.lost /\ step # "over")
    BY OnwardFields
  <1> HIDE DEF res
  <1>2. Bound(res) /\ Sound(res.load)
    BY <1>1, IdleFields DEF Bound, Sound
  <1>3. RequestsOK' /\ Only(r) /\ request'[r] = res
    BY <1>1, <1>2, BecomesFields DEF res
  <1> QED
    BY <1>1, <1>3

LEMMA LeakingFields ==
  ASSUME NEW rec \in Reqs
  PROVE  /\ Leaking(rec) \in Reqs /\ Leaking(rec).leaked = TRUE
         /\ Leaking(rec).at = rec.at /\ Leaking(rec).next = rec.next
         /\ Leaking(rec).load = rec.load /\ Leaking(rec).lost = rec.lost
         /\ Leaking(rec).waited = rec.waited
  BY DEF Leaking, Reqs

\* The load r reads is sound.
LEMMA ReadLoad ==
  ASSUME NEW s \in [Requests -> Gone..SlotTTL], NEW n \in Nat
  PROVE  readActiveLoad(s, n) \in Reads /\ Sound(readActiveLoad(s, n))
  <1> DEFINE count == Cardinality(Fresh(s, SlotTTL))
  <1>1. IsFiniteSet(Fresh(s, SlotTTL)) /\ count \in Nat
    <2>1. Fresh(s, SlotTTL) \subseteq Requests
      BY DEF Fresh, Members
    <2> QED
      BY <2>1, FS_Subset, FS_CardinalityType
  <1> HIDE DEF count
  <1> DEFINE ttl == activeIndexTTL(count, n)
  <1>2. /\ ttl \in Gone..IndexTTL /\ (count > 0 \/ n > 0 => ttl > 0)
    BY <1>1, TTLs DEF activeIndexTTL, Larger, IndexTTL
  <1> HIDE DEF ttl
  <1>3. readActiveLoad(s, n) = [ttl |-> ttl, busy |-> count > 0 \/ n > 0]
    BY DEF readActiveLoad, count, ttl
  <1> DEFINE busy == count > 0 \/ n > 0
  <1>4. busy \in BOOLEAN
    OBVIOUS
  <1>5. busy => ttl > 0
    BY <1>2
  <1> HIDE DEF busy
  <1>6. readActiveLoad(s, n) = [ttl |-> ttl, busy |-> busy]
    BY <1>3 DEF busy
  <1> QED
    BY <1>2, <1>4, <1>5, <1>6 DEF Reads, Sound

LEMMA RefreshFields ==
  ASSUME RequestsOK, NEW r \in Requests, NEW next \in {"running", "talking", "over"},
         NEW n \in Nat, slots' \in [Requests -> Gone..SlotTTL], Refresh(r, next, n)
  PROVE  /\ RequestsOK' /\ Only(r) /\ Keeps(r)
         /\ request'[r].at = "index" /\ request'[r].next = next
  <1> DEFINE load == readActiveLoad(slots', n)
             rec  == [request[r] EXCEPT !.at = "index", !.next = next, !.load = load]
  <1>1. request[r] \in Reqs
    BY DEF RequestsOK
  <1>2. load \in Reads /\ Sound(load)
    BY ReadLoad
  <1>3. Becomes(r, rec)
    BY DEF Refresh
  <1> HIDE DEF load
  <1>4. /\ rec \in Reqs /\ rec.at = "index" /\ rec.next = next /\ rec.load = load
        /\ rec.leaked = request[r].leaked /\ rec.lost = request[r].lost
    BY <1>1, <1>2 DEF Reqs, Steps
  <1> HIDE DEF rec
  <1>5. Bound(rec) /\ Sound(rec.load)
    BY <1>2, <1>4 DEF Bound
  <1>6. RequestsOK' /\ Only(r) /\ request'[r] = rec
    BY <1>3, <1>4, <1>5, BecomesFields
  <1> QED
    BY <1>4, <1>6 DEF Keeps

-----------------------------------------------------------------------------
(* What the scripts do to the two sets.                                    *)

LEMMA TrimSlots ==
  ASSUME RedisOK, NEW s, s = Trim(slots, SlotTTL)
  PROVE  /\ s \in [Requests -> Gone..SlotTTL]
         /\ \A q \in Requests : s[q] = IF q \in FreshSlots THEN slots[q] ELSE Gone
         /\ Fresh(s, SlotTTL) = FreshSlots /\ Members(s) = FreshSlots
  <1>1. \A q \in Requests : q \in FreshSlots <=> slots[q] # Gone /\ slots[q] < SlotTTL
    BY DEF FreshSlots, Fresh, Members
  <1>2. \A q \in Requests : s[q] = IF q \in FreshSlots THEN slots[q] ELSE Gone
    BY DEF Trim, FreshSlots
  <1>3. s \in [Requests -> Gone..SlotTTL]
    BY TTLs DEF Trim, RedisOK
  <1>4. FreshSlots \subseteq Requests
    BY DEF FreshSlots, Fresh, Members
  <1>5. Members(s) = FreshSlots
    BY <1>1, <1>2, <1>4 DEF Members
  <1>6. Fresh(s, SlotTTL) = FreshSlots
    BY <1>1, <1>2, <1>4, <1>5 DEF Fresh
  <1> QED
    BY <1>2, <1>3, <1>5, <1>6

LEMMA RemSlots ==
  ASSUME NEW s \in [Requests -> Gone..SlotTTL], NEW r \in Requests
  PROVE  /\ ZRem(s, r) \in [Requests -> Gone..SlotTTL] /\ ZRem(s, r)[r] = Gone
         /\ \A q \in Requests : q # r => ZRem(s, r)[q] = s[q]
  BY TTLs DEF ZRem

LEMMA LiveSet ==
  ASSUME RedisOK, NEW r \in Requests
  PROVE  /\ ZRem(live, r) \in [Requests -> Gone..(LiveTTL - 1)] /\ ZRem(live, r)[r] = Gone
         /\ ZAdd(live, r) \in [Requests -> Gone..(LiveTTL - 1)] /\ ZAdd(live, r)[r] # Gone
         /\ \A q \in Requests : q # r => ZRem(live, r)[q] = live[q] /\ ZAdd(live, r)[q] = live[q]
  BY TTLs DEF ZRem, ZAdd, RedisOK

LEMMA AcquireEffect ==
  ASSUME RedisOK, NEW r \in Requests, acquireScript(r)
  PROVE  /\ RedisOK' /\ live' = live /\ wait' = wait /\ index' = index
         /\ \A q \in Requests : q # r =>
              /\ slots'[q] # Gone => slots[q] # Gone
              /\ q \in FreshSlots' <=> q \in FreshSlots
         /\ Acquired(r) => r \in FreshSlots'
         /\ ~Acquired(r) => FreshSlots' = FreshSlots
  <1> DEFINE s == Trim(slots, SlotTTL)
  <1>1. /\ s \in [Requests -> Gone..SlotTTL]
        /\ \A q \in Requests : s[q] = IF q \in FreshSlots THEN slots[q] ELSE Gone
    BY TrimSlots
  <1>2. /\ slots' = IF HasRoom(s, live) THEN ZAdd(s, r) ELSE s
        /\ UNCHANGED <<live, wait, index>>
    BY DEF acquireScript
  <1> HIDE DEF s
  <1>3. \/ slots' = s
        \/ slots' = [s EXCEPT ![r] = 0]
    BY <1>2 DEF ZAdd
  <1>4. slots' \in [Requests -> Gone..SlotTTL]
    BY <1>1, <1>3, TTLs
  <1>5. \A q \in Requests : q \in FreshSlots <=> slots[q] # Gone /\ slots[q] < SlotTTL
    BY DEF FreshSlots, Fresh, Members
  <1>6. \A q \in Requests : q \in FreshSlots' <=> slots'[q] # Gone /\ slots'[q] < SlotTTL
    BY DEF FreshSlots, Fresh, Members
  <1>7. \A q \in Requests : q # r => slots'[q] = s[q]
    BY <1>1, <1>3
  <1>8. \/ slots'[r] = s[r]
        \/ slots'[r] = 0
    BY <1>1, <1>3
  <1>9. RedisOK'
    BY <1>2, <1>4 DEF RedisOK
  <1>10. \A q \in Requests : q # r =>
           /\ slots'[q] # Gone => slots[q] # Gone
           /\ q \in FreshSlots' <=> q \in FreshSlots
    BY <1>1, <1>5, <1>6, <1>7
  <1>11. Acquired(r) => r \in FreshSlots'
    BY <1>1, <1>5, <1>6, <1>8, TTLs DEF Acquired
  <1>12. ASSUME ~Acquired(r)
         PROVE  FreshSlots' = FreshSlots
    <2>1. slots'[r] = Gone
      BY <1>12 DEF Acquired
    <2>2. r \notin FreshSlots /\ r \notin FreshSlots'
      BY <1>1, <1>5, <1>6, <1>8, <2>1, TTLs
    <2>3. FreshSlots \subseteq Requests /\ FreshSlots' \subseteq Requests
      BY DEF FreshSlots, Fresh, Members
    <2> QED
      BY <1>10, <2>2, <2>3
  <1> QED
    BY <1>2, <1>9, <1>10, <1>11, <1>12

LEMMA TrimEffect ==
  ASSUME RedisOK, slots' = Trim(slots, SlotTTL)
  PROVE  /\ slots' \in [Requests -> Gone..SlotTTL] /\ FreshSlots' = FreshSlots
         /\ \A q \in Requests : slots'[q] # Gone => slots[q] # Gone
  <1>1. /\ slots' \in [Requests -> Gone..SlotTTL]
        /\ \A q \in Requests : slots'[q] = IF q \in FreshSlots THEN slots[q] ELSE Gone
        /\ Fresh(slots', SlotTTL) = FreshSlots
    BY TrimSlots
  <1> QED
    BY <1>1 DEF FreshSlots

LEMMA RemEffect ==
  ASSUME RedisOK, NEW r \in Requests, slots' = ZRem(Trim(slots, SlotTTL), r)
  PROVE  /\ slots' \in [Requests -> Gone..SlotTTL] /\ slots'[r] = Gone
         /\ FreshSlots' = FreshSlots \ {r}
         /\ \A q \in Requests : slots'[q] # Gone => slots[q] # Gone
  <1> DEFINE s == Trim(slots, SlotTTL)
  <1>1. /\ s \in [Requests -> Gone..SlotTTL]
        /\ \A q \in Requests : s[q] = IF q \in FreshSlots THEN slots[q] ELSE Gone
    BY TrimSlots
  <1>2. slots' = ZRem(s, r)
    OBVIOUS
  <1> HIDE DEF s
  <1>3. /\ slots' \in [Requests -> Gone..SlotTTL] /\ slots'[r] = Gone
        /\ \A q \in Requests : q # r => slots'[q] = s[q]
    BY <1>1, <1>2, RemSlots
  <1>4. \A q \in Requests : q \in FreshSlots <=> slots[q] # Gone /\ slots[q] < SlotTTL
    BY DEF FreshSlots, Fresh, Members
  <1>5. \A q \in Requests : q \in FreshSlots' <=> slots'[q] # Gone /\ slots'[q] < SlotTTL
    BY DEF FreshSlots, Fresh, Members
  <1>6. FreshSlots \subseteq Requests /\ FreshSlots' \subseteq Requests
    BY DEF FreshSlots, Fresh, Members
  <1>7. \A q \in Requests : q \in FreshSlots' <=> q \in FreshSlots \ {r}
    BY <1>1, <1>3, <1>4, <1>5
  <1>8. FreshSlots' = FreshSlots \ {r}
    BY <1>6, <1>7
  <1> QED
    BY <1>1, <1>3, <1>8

-----------------------------------------------------------------------------
(* What the steps of a request do.                                         *)

LEMMA TryAcquireStep ==
  ASSUME TypeInv, NEW r \in Requests, TryAcquire(r)
  PROVE  /\ TypeInv' /\ Only(r) /\ UNCHANGED <<procs, gaps>>
         /\ Is(r, "idle") /\ process[Process[r]].is = "up" /\ acquireScript(r)
         /\ request'[r].leaked = request[r].leaked
         /\ \/ /\ Acquired(r) /\ request'[r].lost = request[r].lost
               /\ request'[r].at = "touch" /\ request'[r].next = "running"
            \/ ~Acquired(r) /\ request'[r].at \in {"over", "enqueue"}
  <1>1. RedisOK /\ RequestsOK /\ ProcsOK /\ RestOK
    BY DEF TypeInv
  <1>2. /\ Is(r, "idle") /\ process[Process[r]].is = "up" /\ acquireScript(r)
        /\ UNCHANGED <<faults, procs, gaps>>
    BY DEF TryAcquire, NoFault
  <1>3. RedisOK'
    BY <1>1, <1>2, AcquireEffect
  <1>4. ProcsOK' /\ RestOK'
    BY <1>1, <1>2 DEF procs, ProcsOK, RestOK
  <1>5. CASE Acquired(r)
    <2>1. GoVia(r, "touch", "running")
      BY <1>5 DEF TryAcquire
    <2> QED
      BY <1>1, <1>2, <1>3, <1>4, <1>5, <2>1, GoViaFields DEF TypeInv, Keeps, Steps
  <1>6. CASE ~Acquired(r)
    <2>1. CASE End(r)
      <3>1. request[r] \in Reqs
        BY <1>1 DEF RequestsOK
      <3> QED
        BY <1>1, <1>2, <1>3, <1>4, <1>6, <2>1, <3>1, OnwardStep DEF End, TypeInv, Steps
    <2>2. CASE GoTo(r, "enqueue")
      BY <1>1, <1>2, <1>3, <1>4, <1>6, <2>2, GoToFields DEF TypeInv, Keeps, Steps
    <2> QED
      BY <1>6, <2>1, <2>2 DEF TryAcquire
  <1> QED
    BY <1>5, <1>6

LEMMA AcquireAgainStep ==
  ASSUME TypeInv, NEW r \in Requests, AcquireAgain(r)
  PROVE  /\ TypeInv' /\ Only(r) /\ Keeps(r) /\ UNCHANGED <<procs, gaps>>
         /\ Is(r, "waiting") /\ acquireScript(r)
         /\ request'[r].waited = request[r].waited
         /\ \/ /\ Acquired(r)
               /\ request'[r].at = "touch" /\ request'[r].next = "dequeue"
            \/ ~Acquired(r) /\ request' = request
  <1>1. RedisOK /\ RequestsOK /\ ProcsOK /\ RestOK
    BY DEF TypeInv
  <1>2. Is(r, "waiting") /\ acquireScript(r) /\ UNCHANGED <<faults, procs, gaps>>
    BY DEF AcquireAgain, NoFault
  <1>3. RedisOK'
    BY <1>1, <1>2, AcquireEffect
  <1>4. ProcsOK' /\ RestOK'
    BY <1>1, <1>2 DEF procs, ProcsOK, RestOK
  <1>5. CASE Acquired(r)
    <2>1. GoVia(r, "touch", "dequeue")
      BY <1>5 DEF AcquireAgain
    <2> QED
      BY <1>1, <1>2, <1>3, <1>4, <1>5, <2>1, GoViaFields DEF TypeInv, Steps
  <1>6. CASE ~Acquired(r)
    <2>1. UNCHANGED request
      BY <1>6 DEF AcquireAgain
    <2> QED
      BY <1>1, <1>2, <1>3, <1>4, <1>6, <2>1 DEF TypeInv, RequestsOK, Only, Keeps
  <1> QED
    BY <1>5, <1>6

LEMMA AcquireFailsStep ==
  ASSUME TypeInv, NEW r \in Requests, AcquireFails(r)
  PROVE  /\ TypeInv' /\ Only(r) /\ UNCHANGED procs
         /\ acquireScript(r) \/ UNCHANGED redis
         /\ Acquired(r) \/ request[r].leaked => request'[r].leaked
         /\ \/ /\ Is(r, "idle") /\ process[Process[r]].is = "up"
               /\ request'[r].at = "over"
            \/ /\ Is(r, "waiting")
               /\ request'[r].at = "dequeue" /\ request'[r].next = "over"
               /\ request'[r].waited = request[r].waited
         /\ IF Acquired(r) /\ index = Gone THEN Note("unindexed") ELSE UNCHANGED gaps
  <1>1. RedisOK /\ RequestsOK /\ ProcsOK /\ RestOK
    BY DEF TypeInv
  <1> DEFINE rec == IF Acquired(r) THEN Leaking(request[r]) ELSE request[r]
             new == [rec EXCEPT !.at = "dequeue", !.next = "over"]
  <1>2. /\ (Is(r, "idle") /\ process[Process[r]].is = "up") \/ Is(r, "waiting")
        /\ acquireScript(r) \/ UNCHANGED redis
        /\ UNCHANGED procs /\ Fault
        /\ Becomes(r, IF Is(r, "idle") THEN Onward(rec, "over") ELSE new)
        /\ IF Acquired(r) /\ index = Gone THEN Note("unindexed") ELSE UNCHANGED gaps
    BY DEF AcquireFails
  <1>3. RedisOK'
    <2>1. CASE acquireScript(r)
      BY <1>1, <2>1, AcquireEffect
    <2>2. CASE UNCHANGED redis
      BY <1>1, <2>2 DEF redis, RedisOK
    <2> QED
      BY <1>2, <2>1, <2>2
  <1>4. ProcsOK' /\ RestOK'
    BY <1>1, <1>2 DEF procs, ProcsOK, RestOK, Fault, Note
  <1>5. request[r] \in Reqs /\ Sound(request[r].load)
    BY <1>1 DEF RequestsOK
  <1>6. /\ rec \in Reqs /\ rec.load = request[r].load /\ rec.waited = request[r].waited
        /\ Acquired(r) \/ request[r].leaked => rec.leaked
    BY <1>5, LeakingFields
  <1> HIDE DEF rec
  <1>7. CASE Is(r, "idle")
    <2>1. Becomes(r, Onward(rec, "over"))
      BY <1>2, <1>7
    <2> QED
      BY <1>1, <1>2, <1>3, <1>4, <1>6, <1>7, <2>1, OnwardStep DEF TypeInv, Steps, Is
  <1>8. CASE ~Is(r, "idle")
    <2>1. Becomes(r, new)
      BY <1>2, <1>8
    <2>2. /\ new \in Reqs /\ new.at = "dequeue" /\ new.next = "over" /\ new.load = rec.load
          /\ new.leaked = rec.leaked /\ new.waited = rec.waited
      BY <1>6 DEF Reqs, Steps
    <2> HIDE DEF new
    <2>3. Bound(new) /\ Sound(new.load)
      BY <1>5, <1>6, <2>2 DEF Bound
    <2>4. RequestsOK' /\ Only(r) /\ request'[r] = new
      BY <1>1, <2>1, <2>2, <2>3, BecomesFields
    <2> QED
      BY <1>2, <1>3, <1>4, <1>6, <1>8, <2>2, <2>4 DEF TypeInv
  <1> QED
    BY <1>7, <1>8

\* A call that writes the index: it is made, or its failure is only logged.
Touched(ttl) ==
    \/ index' = ttl /\ gaps' = gaps \ {"unindexed"}
    \/ /\ index' = index
       /\ gaps' = IF index = Gone THEN gaps \cup {"unindexed"} ELSE gaps

LEMMA TouchedType ==
  ASSUME RedisOK, RestOK, NEW ttl \in {SlotTTL, WaitTTL}, Touched(ttl),
         UNCHANGED <<slots, live, wait>>, faults' \in 0..MaxFaults
  PROVE  RedisOK' /\ RestOK'
  BY TTLs DEF RedisOK, RestOK, Touched

LEMMA FaultType ==
  ASSUME RestOK, Fault \/ NoFault
  PROVE  faults' \in 0..MaxFaults
  BY DEF RestOK, Fault, NoFault

LEMMA TouchStep ==
  ASSUME TypeInv, NEW r \in Requests, touchActiveIndexAt(r)
  PROVE  /\ TypeInv' /\ Only(r) /\ Keeps(r) /\ UNCHANGED <<slots, live, wait, procs>>
         /\ Is(r, "touch") /\ Touched(SlotTTL)
         /\ \/ /\ request[r].next = "dequeue" /\ request'[r].waited = request[r].waited
               /\ request'[r].at = "dequeue" /\ request'[r].next = "running"
            \/ request[r].next = "running" /\ request'[r].at = "running"
  <1>1. RedisOK /\ RequestsOK /\ ProcsOK /\ RestOK
    BY DEF TypeInv
  <1>2. /\ Is(r, "touch") /\ UNCHANGED <<slots, live, wait, procs>>
        /\ Fault \/ NoFault
    BY DEF touchActiveIndexAt, Touched, Note, Clear
  <1>3. Touched(SlotTTL)
    BY DEF touchActiveIndexAt, Touched, Note, Clear
  <1>4. RedisOK' /\ RestOK' /\ ProcsOK'
    BY <1>1, <1>2, <1>3, TouchedType, FaultType DEF procs, ProcsOK
  <1>5. request[r] \in Reqs /\ request[r].next \in {"running", "dequeue"}
    BY <1>1, <1>2 DEF RequestsOK, Bound, Is
  <1>6. CASE request[r].next = "dequeue"
    <2>1. GoVia(r, "dequeue", "running")
      BY <1>6 DEF touchActiveIndexAt
    <2> QED
      BY <1>1, <1>2, <1>3, <1>4, <1>6, <2>1, GoViaFields DEF TypeInv, Steps
  <1>7. CASE request[r].next = "running"
    <2>1. Becomes(r, Onward(request[r], "running"))
      BY <1>7 DEF touchActiveIndexAt, Continue
    <2>2. request[r].lost \in BOOLEAN
      BY <1>5 DEF Reqs
    <2> QED
      BY <1>1, <1>2, <1>3, <1>4, <1>5, <1>7, <2>1, <2>2, OnwardStep DEF TypeInv, Steps, Keeps
  <1> QED
    BY <1>5, <1>6, <1>7

LEMMA TouchWaitingStep ==
  ASSUME TypeInv, NEW r \in Requests, TouchWaiting(r)
  PROVE  /\ TypeInv' /\ Only(r) /\ Keeps(r) /\ UNCHANGED <<slots, live, wait, procs>>
         /\ Is(r, "touchWait") /\ Touched(WaitTTL)
         /\ request'[r].at = "waiting" /\ request'[r].waited = request[r].waited
  <1>1. RedisOK /\ RequestsOK /\ ProcsOK /\ RestOK
    BY DEF TypeInv
  <1>2. /\ Is(r, "touchWait") /\ UNCHANGED <<slots, live, wait, procs>>
        /\ Fault \/ NoFault
    BY DEF TouchWaiting, Touched, Note, Clear
  <1>3. Touched(WaitTTL) /\ GoTo(r, "waiting")
    BY DEF TouchWaiting, Touched, Note, Clear
  <1>4. RedisOK' /\ RestOK' /\ ProcsOK'
    BY <1>1, <1>2, <1>3, TouchedType, FaultType DEF procs, ProcsOK
  <1> QED
    BY <1>1, <1>2, <1>3, <1>4, GoToFields DEF TypeInv, Steps

LEMMA EnqueueStep ==
  ASSUME TypeInv, NEW r \in Requests, IncrementWaitCount(r) \/ IncrementFails(r)
  PROVE  /\ TypeInv' /\ Only(r) /\ UNCHANGED <<slots, live, index, procs>>
         /\ Is(r, "enqueue")
         /\ \/ /\ request'[r].at = "over" /\ request'[r].leaked = request[r].leaked
               /\ wait' = wait /\ gaps' = gaps
            \/ /\ request'[r].at \in {"touchWait", "waiting"} /\ Keeps(r)
               /\ request'[r].waited = request[r].waited
               /\ \/ /\ wait' = [n |-> wait.n + 1, age |-> 0]
                     /\ \/ gaps' = gaps /\ (request'[r].at = "touchWait" \/ index # Gone)
                        \/ gaps' = gaps \cup {"unindexed"}
                  \/ wait' = wait /\ gaps' = gaps \cup {"miscounted"}
  <1>1. RedisOK /\ RequestsOK /\ ProcsOK /\ RestOK
    BY DEF TypeInv
  <1>2. /\ Is(r, "enqueue") /\ UNCHANGED <<slots, live, index, procs>>
        /\ Fault \/ NoFault
    BY DEF IncrementWaitCount, IncrementFails
  <1>3. ProcsOK' /\ faults' \in 0..MaxFaults
    BY <1>1, <1>2, FaultType DEF procs, ProcsOK
  <1>4. ASSUME ~QueueFull, Counting
        PROVE  RedisOK' /\ wait' = [n |-> wait.n + 1, age |-> 0]
    <2>1. wait.n \in 0..queueLimit /\ wait.n < queueLimit
      BY <1>1, <1>4 DEF RedisOK, QueueFull
    <2>2. wait' = [n |-> wait.n + 1, age |-> 0]
      BY <1>4, <2>1 DEF Counting, Waiting
    <2> QED
      BY <1>1, <1>2, <2>1, <2>2 DEF RedisOK
  <1>5. ASSUME UNCHANGED wait
        PROVE  RedisOK'
    BY <1>1, <1>2, <1>5 DEF RedisOK
  <1>6. request[r] \in Reqs
    BY <1>1 DEF RequestsOK
  <1>7. CASE IncrementWaitCount(r)
    <2>1. gaps' = gaps /\ RestOK'
      BY <1>1, <1>3, <1>7 DEF IncrementWaitCount, RestOK
    <2>2. CASE QueueFull
      <3>1. Becomes(r, Onward(request[r], "over")) /\ UNCHANGED wait
        BY <1>7, <2>2 DEF IncrementWaitCount, End
      <3> QED
        BY <1>1, <1>2, <1>3, <1>5, <1>6, <2>1, <3>1, OnwardStep DEF TypeInv, Steps
    <2>3. CASE ~QueueFull
      <3>1. GoTo(r, "touchWait") /\ Counting
        BY <1>7, <2>3 DEF IncrementWaitCount
      <3> QED
        BY <1>1, <1>2, <1>3, <1>4, <2>1, <2>3, <3>1, GoToFields DEF TypeInv, Steps
    <2> QED
      BY <2>2, <2>3
  <1>8. CASE IncrementFails(r)
    <2>1. RequestsOK' /\ Only(r) /\ Keeps(r) /\ request'[r].at = "waiting"
          /\ request'[r].waited = request[r].waited
      BY <1>1, <1>8, GoToFields DEF IncrementFails, Steps
    <2>2. \/ /\ ~QueueFull /\ Counting
             /\ \/ gaps' = gaps \cup {"unindexed"}
                \/ gaps' = gaps /\ index # Gone
          \/ UNCHANGED wait /\ gaps' = gaps \cup {"miscounted"}
      BY <1>8 DEF IncrementFails, Note
    <2>3. RestOK'
      BY <1>1, <1>3, <2>2 DEF RestOK
    <2>4. CASE /\ ~QueueFull /\ Counting
               /\ \/ gaps' = gaps \cup {"unindexed"}
                  \/ gaps' = gaps /\ index # Gone
      BY <1>2, <1>3, <1>4, <2>1, <2>3, <2>4 DEF TypeInv
    <2>5. CASE UNCHANGED wait /\ gaps' = gaps \cup {"miscounted"}
      BY <1>2, <1>3, <1>5, <2>1, <2>3, <2>5 DEF TypeInv
    <2> QED
      BY <2>2, <2>4, <2>5
  <1> QED
    BY <1>7, <1>8

LEMMA DequeueStep ==
  ASSUME TypeInv, NEW r \in Requests, DecrementWaitCount(r)
  PROVE  /\ TypeInv' /\ Only(r) /\ UNCHANGED <<live, index, procs>>
         /\ Is(r, "dequeue") \/ Is(r, "waiting")
         /\ \E next \in {"running", "over"} :
              /\ next = "running" => Is(r, "dequeue") /\ request[r].next = "running"
              /\ Is(r, "dequeue") => next = request[r].next
              /\ \/ /\ slots' = Trim(slots, SlotTTL) /\ gaps' = gaps
                    /\ wait' = Waiting(Uncounted(r), wait.age)
                    /\ request'[r].at = "index" /\ request'[r].next = next /\ Keeps(r)
                 \/ /\ UNCHANGED <<slots, wait>> /\ gaps' = gaps \cup {"miscounted"}
                    /\ request'[r].at = next /\ request'[r].leaked = request[r].leaked
                    /\ request'[r].lost = (request[r].lost /\ next # "over")
  <1>1. RedisOK /\ RequestsOK /\ ProcsOK /\ RestOK
    BY DEF TypeInv
  <1> DEFINE next == IF Is(r, "waiting") THEN "over" ELSE request[r].next
  <1>2. /\ Is(r, "dequeue") \/ Is(r, "waiting")
        /\ UNCHANGED <<live, index, procs>>
        /\ \/ /\ NoFault /\ slots' = Trim(slots, SlotTTL) /\ UNCHANGED gaps
              /\ wait' = Waiting(Uncounted(r), wait.age)
              /\ Refresh(r, next, wait'.n)
           \/ /\ Fault /\ Becomes(r, Onward(request[r], next))
              /\ UNCHANGED <<slots, wait>> /\ gaps' = gaps \cup {"miscounted"}
    BY DEF DecrementWaitCount, Note
  <1>3. request[r] \in Reqs /\ (Is(r, "dequeue") => request[r].next \in {"running", "over"})
    BY <1>1 DEF RequestsOK, Bound, Is
  <1>4. /\ next \in {"running", "over"}
        /\ next = "running" => Is(r, "dequeue") /\ request[r].next = "running"
        /\ Is(r, "dequeue") => next = request[r].next
    BY <1>2, <1>3 DEF Is
  <1> HIDE DEF next
  <1>5. ProcsOK' /\ faults' \in 0..MaxFaults
    BY <1>1, <1>2, FaultType DEF procs, ProcsOK
  <1>6. CASE /\ NoFault /\ slots' = Trim(slots, SlotTTL) /\ UNCHANGED gaps
             /\ wait' = Waiting(Uncounted(r), wait.age)
             /\ Refresh(r, next, wait'.n)
    <2>1. slots' \in [Requests -> Gone..SlotTTL]
      BY <1>1, <1>6, TrimEffect
    <2>2. wait' \in [n : 0..queueLimit, age : 0..(WaitTTL - 1)] /\ wait'.n \in Nat
      <3>1. wait.n \in 0..queueLimit /\ wait.age \in 0..(WaitTTL - 1)
        BY <1>1 DEF RedisOK
      <3>2. Uncounted(r) \in 0..queueLimit
        BY <3>1 DEF Uncounted
      <3> QED
        BY <1>6, <3>1, <3>2 DEF Waiting
    <2>3. RequestsOK' /\ Only(r) /\ Keeps(r)
          /\ request'[r].at = "index" /\ request'[r].next = next
      BY <1>1, <1>4, <1>6, <2>1, <2>2, RefreshFields
    <2>4. RedisOK' /\ RestOK'
      BY <1>1, <1>2, <1>5, <1>6, <2>1, <2>2 DEF RedisOK, RestOK
    <2> QED
      BY <1>2, <1>4, <1>5, <1>6, <2>3, <2>4 DEF TypeInv
  <1>7. CASE /\ Fault /\ Becomes(r, Onward(request[r], next))
             /\ UNCHANGED <<slots, wait>> /\ gaps' = gaps \cup {"miscounted"}
    <2>1. /\ RequestsOK' /\ Only(r) /\ request'[r].at = next
          /\ request'[r].leaked = request[r].leaked
          /\ request'[r].lost = (request[r].lost /\ next # "over")
      BY <1>1, <1>3, <1>4, <1>7, OnwardStep DEF Steps
    <2>2. RedisOK' /\ RestOK'
      BY <1>1, <1>2, <1>5, <1>7 DEF RedisOK, RestOK
    <2> QED
      BY <1>2, <1>4, <1>5, <1>7, <2>1, <2>2 DEF TypeInv
  <1> QED
    BY <1>2, <1>6, <1>7

LEMMA WriteType ==
  ASSUME RedisOK, RestOK, NEW read \in Reads, WriteIndex(read), faults' \in 0..MaxFaults
  PROVE  RedisOK' /\ RestOK'
  <1>1. index' \in Gone..IndexTTL
    BY TTLs DEF WriteIndex, Reads
  <1>2. gaps' \subseteq {"unbacked", "miscounted", "unindexed"}
    BY DEF WriteIndex, Note, Clear, RestOK
  <1> QED
    BY <1>1, <1>2 DEF WriteIndex, RedisOK, RestOK

LEMMA RefreshStep ==
  ASSUME TypeInv, NEW r \in Requests, refreshActiveIndex(r)
  PROVE  /\ TypeInv' /\ Only(r) /\ UNCHANGED <<slots, live, wait, procs>>
         /\ Is(r, "index") /\ Sound(request[r].load)
         /\ WriteIndex(request[r].load) \/ (index' = index /\ gaps' = gaps)
         /\ request[r].next \in {"running", "talking", "over"}
         /\ request'[r].at = request[r].next
         /\ request'[r].leaked = request[r].leaked
         /\ request'[r].lost = (request[r].lost /\ request[r].next # "over")
  <1>1. RedisOK /\ RequestsOK /\ ProcsOK /\ RestOK
    BY DEF TypeInv
  <1>2. /\ Is(r, "index") /\ Becomes(r, Onward(request[r], request[r].next))
        /\ \/ NoFault /\ WriteIndex(request[r].load)
           \/ Fault /\ UNCHANGED <<redis, gaps>>
        /\ UNCHANGED procs
    BY DEF refreshActiveIndex, Continue
  <1>3. /\ request[r] \in Reqs /\ request[r].next \in {"running", "talking", "over"}
        /\ request[r].load \in Reads /\ Sound(request[r].load)
    <2>1. request[r] \in Reqs /\ Bound(request[r]) /\ Sound(request[r].load)
      BY <1>1 DEF RequestsOK
    <2> QED
      BY <1>2, <2>1 DEF Bound, Is, Reqs
  <1>4. /\ RequestsOK' /\ Only(r) /\ request'[r].at = request[r].next
        /\ request'[r].leaked = request[r].leaked
        /\ request'[r].lost = (request[r].lost /\ request[r].next # "over")
    BY <1>1, <1>2, <1>3, OnwardStep DEF Steps
  <1>5. ProcsOK' /\ faults' \in 0..MaxFaults
    BY <1>1, <1>2, FaultType DEF procs, ProcsOK
  <1>6. CASE NoFault /\ WriteIndex(request[r].load)
    <2>1. RedisOK' /\ RestOK' /\ UNCHANGED <<slots, live, wait>>
      BY <1>1, <1>3, <1>5, <1>6, WriteType DEF WriteIndex
    <2> QED
      BY <1>2, <1>3, <1>4, <1>5, <1>6, <2>1 DEF TypeInv
  <1>7. CASE Fault /\ UNCHANGED <<redis, gaps>>
    <2>1. RedisOK' /\ RestOK' /\ UNCHANGED <<slots, live, wait, index>>
      BY <1>1, <1>5, <1>7 DEF redis, RedisOK, RestOK
    <2> QED
      BY <1>2, <1>3, <1>4, <1>5, <1>7, <2>1 DEF TypeInv
  <1> QED
    BY <1>2, <1>6, <1>7

LEMMA ReleaseStep ==
  ASSUME TypeInv, NEW r \in Requests, ReleaseUserSlot(r)
  PROVE  /\ TypeInv' /\ Only(r) /\ UNCHANGED <<live, wait, index, procs, gaps>>
         /\ request[r].at \in {"running", "create", "release"}
         /\ \E next \in {"talking", "over"} :
              /\ next = "talking" <=> Is(r, "create")
              /\ \/ /\ slots' = ZRem(Trim(slots, SlotTTL), r) /\ Keeps(r)
                    /\ request'[r].at = "index" /\ request'[r].next = next
                 \/ /\ slots' = slots /\ request'[r].leaked
                    /\ request'[r].at = next
                    /\ request'[r].lost = (request[r].lost /\ next # "over")
  <1>1. RedisOK /\ RequestsOK /\ ProcsOK /\ RestOK
    BY DEF TypeInv
  <1> DEFINE next == IF Is(r, "create") THEN "talking" ELSE "over"
  <1>2. /\ request[r].at \in {"running", "create", "release"}
        /\ UNCHANGED <<live, wait, index, procs, gaps>>
        /\ \/ /\ NoFault /\ slots' = ZRem(Trim(slots, SlotTTL), r)
              /\ Refresh(r, next, wait.n)
           \/ /\ Fault /\ Becomes(r, Onward(Leaking(request[r]), next)) /\ UNCHANGED slots
    BY DEF ReleaseUserSlot, Parts, Is
  <1>3. next \in {"talking", "over"} /\ (next = "talking" <=> Is(r, "create"))
    OBVIOUS
  <1> HIDE DEF next
  <1>4. ProcsOK' /\ RestOK'
    BY <1>1, <1>2, FaultType DEF procs, ProcsOK, RestOK
  <1>5. CASE /\ NoFault /\ slots' = ZRem(Trim(slots, SlotTTL), r)
             /\ Refresh(r, next, wait.n)
    <2>1. slots' \in [Requests -> Gone..SlotTTL] /\ wait.n \in Nat
      BY <1>1, <1>5, RemEffect DEF RedisOK
    <2>2. RequestsOK' /\ Only(r) /\ Keeps(r)
          /\ request'[r].at = "index" /\ request'[r].next = next
      BY <1>1, <1>3, <1>5, <2>1, RefreshFields
    <2>3. RedisOK'
      BY <1>1, <1>2, <2>1 DEF RedisOK
    <2> QED
      BY <1>2, <1>3, <1>4, <1>5, <2>2, <2>3 DEF TypeInv
  <1>6. CASE /\ Fault /\ Becomes(r, Onward(Leaking(request[r]), next)) /\ UNCHANGED slots
    <2>1. request[r] \in Reqs
      BY <1>1 DEF RequestsOK
    <2>2. /\ Leaking(request[r]) \in Reqs /\ Leaking(request[r]).leaked = TRUE
          /\ Leaking(request[r]).lost = request[r].lost
      BY <2>1, LeakingFields
    <2>3. /\ RequestsOK' /\ Only(r) /\ request'[r].at = next /\ request'[r].leaked
          /\ request'[r].lost = (request[r].lost /\ next # "over")
      BY <1>1, <1>3, <1>6, <2>2, OnwardStep DEF Steps
    <2>4. RedisOK'
      BY <1>1, <1>2, <1>6 DEF RedisOK
    <2> QED
      BY <1>2, <1>3, <1>4, <1>6, <2>3, <2>4 DEF TypeInv
  <1> QED
    BY <1>2, <1>5, <1>6

LEMMA LiveStep ==
  ASSUME TypeInv, NEW r \in Requests, AcquireLiveLease(r)
  PROVE  /\ TypeInv' /\ Only(r) /\ UNCHANGED <<slots, wait, index, procs>>
         /\ Is(r, "running") /\ acquireLiveLeaseScript(r)
         /\ live' = live \/ live' = ZAdd(live, r)
         /\ request'[r].lost = request[r].lost
         /\ \/ /\ request'[r].at = "create" /\ live'[r] # Gone
               /\ request'[r].leaked = request[r].leaked
            \/ /\ request'[r].at = "release" /\ live'[r] = Gone
               /\ request'[r].leaked = request[r].leaked
            \/ request'[r].at = "release" /\ request'[r].leaked
  <1>1. RedisOK /\ RequestsOK /\ ProcsOK /\ RestOK
    BY DEF TypeInv
  <1> DEFINE out == [request[r] EXCEPT !.at = "release"]
  <1>2. /\ Is(r, "running") /\ acquireLiveLeaseScript(r) /\ UNCHANGED procs
        /\ \/ NoFault /\ IF live'[r] # Gone THEN GoTo(r, "create") ELSE Becomes(r, out)
           \/ Fault /\ Becomes(r, Leaking(out))
    BY DEF AcquireLiveLease
  <1>3. request[r] \in Reqs /\ Sound(request[r].load)
    BY <1>1 DEF RequestsOK
  <1>4. /\ out \in Reqs /\ out.at = "release" /\ out.load = request[r].load
        /\ out.lost = request[r].lost /\ out.leaked = request[r].leaked
    BY <1>3 DEF Reqs, Steps
  <1> HIDE DEF out
  <1>5. /\ Leaking(out) \in Reqs /\ Leaking(out).at = "release"
        /\ Leaking(out).load = request[r].load
        /\ Leaking(out).lost = request[r].lost /\ Leaking(out).leaked = TRUE
    BY <1>4, LeakingFields
  <1>6. Bound(out) /\ Sound(out.load) /\ Bound(Leaking(out)) /\ Sound(Leaking(out).load)
    BY <1>3, <1>4, <1>5 DEF Bound
  <1>7. /\ live' = live \/ live' = ZAdd(live, r)
        /\ UNCHANGED <<slots, wait, index>>
        /\ gaps' = gaps \/ gaps' = gaps \cup {"unbacked"}
    BY <1>2 DEF acquireLiveLeaseScript, Note
  <1>8. RedisOK' /\ ProcsOK' /\ RestOK'
    <2>1. live' \in [Requests -> Gone..(LiveTTL - 1)]
      BY <1>1, <1>7, LiveSet DEF RedisOK
    <2> QED
      BY <1>1, <1>2, <1>7, <2>1, FaultType DEF RedisOK, procs, ProcsOK, RestOK
  <1>9. CASE live'[r] # Gone /\ GoTo(r, "create")
    <2>1. /\ RequestsOK' /\ Only(r) /\ Keeps(r) /\ request'[r].at = "create"
      BY <1>1, <1>9, GoToFields DEF Steps
    <2> QED
      BY <1>2, <1>7, <1>8, <1>9, <2>1 DEF TypeInv, Keeps
  <1>10. CASE live'[r] = Gone /\ Becomes(r, out)
    <2>1. RequestsOK' /\ Only(r) /\ request'[r] = out
      BY <1>1, <1>4, <1>6, <1>10, BecomesFields
    <2> QED
      BY <1>2, <1>4, <1>7, <1>8, <1>10, <2>1 DEF TypeInv
  <1>11. CASE Becomes(r, Leaking(out))
    <2>1. RequestsOK' /\ Only(r) /\ request'[r] = Leaking(out)
      BY <1>1, <1>5, <1>6, <1>11, BecomesFields
    <2> QED
      BY <1>2, <1>5, <1>7, <1>8, <2>1 DEF TypeInv
  <1> QED
    BY <1>2, <1>9, <1>10, <1>11

LEMMA CreateStep ==
  ASSUME TypeInv, NEW r \in Requests, CreateFails(r)
  PROVE  /\ TypeInv' /\ Only(r) /\ UNCHANGED <<slots, wait, index, procs, gaps>>
         /\ Is(r, "create") /\ request'[r].lost = request[r].lost
         /\ \/ /\ live' = ZRem(live, r) /\ request'[r].at \in {"running", "release"}
               /\ request'[r].leaked = request[r].leaked
            \/ live' = live /\ request'[r].at = "release" /\ request'[r].leaked
  <1>1. RedisOK /\ RequestsOK /\ ProcsOK /\ RestOK
    BY DEF TypeInv
  <1> DEFINE out == [request[r] EXCEPT !.at = "release"]
  <1>2. /\ Is(r, "create") /\ UNCHANGED <<slots, wait, index, procs, gaps>>
        /\ \/ /\ NoFault /\ live' = ZRem(live, r)
              /\ GoTo(r, "running") \/ GoTo(r, "release")
           \/ Fault /\ UNCHANGED live /\ Becomes(r, Leaking(out))
    BY DEF CreateFails, releaseLiveLease
  <1>3. request[r] \in Reqs /\ Sound(request[r].load)
    BY <1>1 DEF RequestsOK
  <1>4. /\ out \in Reqs /\ out.at = "release" /\ out.load = request[r].load
        /\ out.lost = request[r].lost
    BY <1>3 DEF Reqs, Steps
  <1> HIDE DEF out
  <1>5. /\ Leaking(out) \in Reqs /\ Leaking(out).at = "release"
        /\ Leaking(out).load = request[r].load
        /\ Leaking(out).lost = request[r].lost /\ Leaking(out).leaked = TRUE
    BY <1>4, LeakingFields
  <1>6. Bound(Leaking(out)) /\ Sound(Leaking(out).load)
    BY <1>3, <1>5 DEF Bound
  <1>7. RedisOK' /\ ProcsOK' /\ RestOK'
    <2>1. live' \in [Requests -> Gone..(LiveTTL - 1)]
      BY <1>1, <1>2, LiveSet DEF RedisOK
    <2> QED
      BY <1>1, <1>2, <2>1, FaultType DEF RedisOK, procs, ProcsOK, RestOK
  <1>8. CASE live' = ZRem(live, r) /\ (GoTo(r, "running") \/ GoTo(r, "release"))
    <2>1. /\ RequestsOK' /\ Only(r) /\ Keeps(r) /\ request'[r].at \in {"running", "release"}
      BY <1>1, <1>8, GoToFields DEF Steps
    <2> QED
      BY <1>2, <1>7, <1>8, <2>1 DEF TypeInv, Keeps
  <1>9. CASE UNCHANGED live /\ Becomes(r, Leaking(out))
    <2>1. RequestsOK' /\ Only(r) /\ request'[r] = Leaking(out)
      BY <1>1, <1>5, <1>6, <1>9, BecomesFields
    <2> QED
      BY <1>2, <1>5, <1>7, <1>9, <2>1 DEF TypeInv
  <1> QED
    BY <1>2, <1>8, <1>9

LEMMA TalkStep ==
  ASSUME TypeInv, NEW r \in Requests, RefreshLiveLease(r) \/ finalizeLiveCall(r)
  PROVE  /\ TypeInv' /\ Only(r) /\ UNCHANGED <<slots, wait, index, procs, gaps>>
         /\ Is(r, "talking")
         /\ \/ live[r] # Gone /\ live' = ZAdd(live, r) /\ request' = request
            \/ /\ live' \in {live, ZRem(live, r)} /\ request'[r].at = "over"
               /\ request'[r].leaked = request[r].leaked /\ live'[r] = Gone
            \/ live' = live /\ request'[r].at = "over" /\ request'[r].leaked
  <1>1. RedisOK /\ RequestsOK /\ ProcsOK /\ RestOK
    BY DEF TypeInv
  <1>2. /\ Is(r, "talking") /\ UNCHANGED <<slots, wait, index, procs, gaps>>
        /\ live' \in {live, ZAdd(live, r), ZRem(live, r)}
        /\ Fault \/ NoFault
    BY DEF RefreshLiveLease, finalizeLiveCall, releaseLiveLease, NoFault
  <1>3. RedisOK' /\ ProcsOK' /\ RestOK'
    <2>1. live' \in [Requests -> Gone..(LiveTTL - 1)]
      BY <1>1, <1>2, LiveSet DEF RedisOK
    <2> QED
      BY <1>1, <1>2, <2>1, FaultType DEF RedisOK, procs, ProcsOK, RestOK
  <1>4. request[r] \in Reqs
    BY <1>1 DEF RequestsOK
  <1>5. CASE RefreshLiveLease(r) /\ Holds(r)
    <2>1. live' = ZAdd(live, r) /\ request' = request
      BY <1>5 DEF RefreshLiveLease
    <2>2. RequestsOK' /\ Only(r)
      BY <1>1, <2>1 DEF RequestsOK, Only
    <2> QED
      BY <1>2, <1>3, <1>5, <2>1, <2>2 DEF TypeInv, Holds
  <1>6. ASSUME End(r)
        PROVE  /\ RequestsOK' /\ Only(r) /\ request'[r].at = "over"
               /\ request'[r].leaked = request[r].leaked
    BY <1>1, <1>4, <1>6, OnwardStep DEF End, Steps
  <1>7. CASE RefreshLiveLease(r) /\ ~Holds(r)
    <2>1. End(r) /\ live' = live /\ live'[r] = Gone
      BY <1>7 DEF RefreshLiveLease, Holds
    <2> QED
      BY <1>2, <1>3, <1>6, <2>1 DEF TypeInv
  <1>8. CASE finalizeLiveCall(r) /\ live' = releaseLiveLease(r) /\ End(r)
    <2>1. live' = ZRem(live, r) /\ live'[r] = Gone
      BY <1>1, <1>8, LiveSet DEF releaseLiveLease
    <2> QED
      BY <1>2, <1>3, <1>6, <1>8, <2>1 DEF TypeInv
  <1>9. CASE UNCHANGED live /\ Becomes(r, Onward(Leaking(request[r]), "over"))
    <2>1. Leaking(request[r]) \in Reqs /\ Leaking(request[r]).leaked = TRUE
      BY <1>4, LeakingFields
    <2>2. RequestsOK' /\ Only(r) /\ request'[r].at = "over" /\ request'[r].leaked
      BY <1>1, <1>9, <2>1, OnwardStep DEF Steps
    <2> QED
      BY <1>2, <1>3, <1>9, <2>2 DEF TypeInv
  <1> QED
    BY <1>5, <1>7, <1>8, <1>9 DEF finalizeLiveCall

-----------------------------------------------------------------------------
(* What processes, the worker and time do.                                 *)

\* The requests stay where they are.
Still == \A q \in Requests :
    /\ request'[q].at = request[q].at /\ request'[q].next = request[q].next
    /\ request'[q].leaked = request[q].leaked

LEMMA LosingFields ==
  ASSUME NEW req \in [Requests -> Reqs], NEW rs
  PROVE  /\ Losing(req, rs) \in [Requests -> Reqs]
         /\ \A q \in Requests :
              /\ Losing(req, rs)[q].at = req[q].at
              /\ Losing(req, rs)[q].next = req[q].next
              /\ Losing(req, rs)[q].leaked = req[q].leaked
              /\ Losing(req, rs)[q].waited = req[q].waited
              /\ Losing(req, rs)[q].load = req[q].load
              /\ Losing(req, rs)[q].lost = (req[q].lost \/ (q \in rs /\ req[q].at # "over"))
  <1>1. ASSUME NEW q \in Requests
        PROVE  /\ Losing(req, rs)[q] \in Reqs
               /\ Losing(req, rs)[q].at = req[q].at
               /\ Losing(req, rs)[q].next = req[q].next
               /\ Losing(req, rs)[q].leaked = req[q].leaked
               /\ Losing(req, rs)[q].waited = req[q].waited
               /\ Losing(req, rs)[q].load = req[q].load
               /\ Losing(req, rs)[q].lost = (req[q].lost \/ (q \in rs /\ req[q].at # "over"))
    <2> DEFINE old == req[q]
               new == [old EXCEPT !.lost = TRUE]
    <2>1. old \in Reqs
      OBVIOUS
    <2>2. /\ new \in Reqs /\ new.at = old.at /\ new.next = old.next
          /\ new.leaked = old.leaked /\ new.waited = old.waited /\ new.load = old.load
          /\ new.lost = TRUE
      <3> HIDE DEF old
      <3> QED
        BY <2>1 DEF Reqs
    <2>3. Losing(req, rs)[q] = IF q \in rs /\ old.at # "over" THEN new ELSE old
      BY DEF Losing
    <2>4. old.lost \in BOOLEAN
      <3> HIDE DEF old
      <3> QED
        BY <2>1 DEF Reqs
    <2>5. CASE q \in rs /\ old.at # "over"
      BY <2>2, <2>3, <2>5
    <2>6. CASE ~(q \in rs /\ old.at # "over")
      <3>1. Losing(req, rs)[q] = old
        BY <2>3, <2>6
      <3> QED
        BY <2>1, <2>4, <2>6, <3>1
    <2> QED
      BY <2>5, <2>6
  <1>2. Losing(req, rs) \in [Requests -> Reqs]
    BY <1>1 DEF Losing
  <1> QED
    BY <1>1, <1>2

LEMMA LosingStep ==
  ASSUME RequestsOK, NEW req \in [Requests -> Reqs], NEW rs, request' = Losing(req, rs),
         \A q \in Requests : /\ req[q].at = request[q].at /\ req[q].next = request[q].next
                             /\ req[q].load = request[q].load
                             /\ req[q].leaked = request[q].leaked
                             /\ req[q].lost = request[q].lost
  PROVE  /\ RequestsOK' /\ Still
         /\ \A q \in Requests :
              /\ request'[q].waited = req[q].waited
              /\ request'[q].lost = (request[q].lost \/ (q \in rs /\ request[q].at # "over"))
  <1>1. /\ request' \in [Requests -> Reqs]
        /\ \A q \in Requests :
             /\ request'[q].at = request[q].at /\ request'[q].next = request[q].next
             /\ request'[q].load = request[q].load /\ request'[q].leaked = request[q].leaked
             /\ request'[q].waited = req[q].waited
             /\ request'[q].lost = (request[q].lost \/ (q \in rs /\ request[q].at # "over"))
    BY LosingFields
  <1>2. \A q \in Requests : Bound(request[q]) /\ Sound(request[q].load)
    BY DEF RequestsOK
  <1>3. \A q \in Requests : Bound(request'[q]) /\ Sound(request'[q].load)
    BY <1>1, <1>2 DEF Bound
  <1> QED
    BY <1>1, <1>3 DEF RequestsOK, Still

OnlyP(p) == \A q \in Processes : q # p => process'[q] = process[q]

LEMMA StartupFields ==
  ASSUME ProcsOK, NEW p \in Processes, NEW rec \in Procs, Startup(p, rec)
  PROVE  /\ process' \in [Processes -> Procs] /\ OnlyP(p) /\ process'[p] = rec
  BY DEF Startup, ProcsOK, OnlyP

LEMMA OffFields ==
  ASSUME NEW is \in {"up", "dead"}
  PROVE  /\ [Off EXCEPT !.is = is] \in Procs /\ [Off EXCEPT !.is = is].is = is
         /\ [Off EXCEPT !.is = is].dead = {}
  BY DEF Off, Procs

LEMMA StaleStep ==
  ASSUME TypeInv, NEW p \in Processes, CleanupStaleProcessSlots(p)
  PROVE  /\ TypeInv' /\ OnlyP(p) /\ UNCHANGED <<redis, request, worker, faults, gaps>>
         /\ process[p].is = "off"
         /\ \/ process'[p].is = "sweep" /\ process'[p].dead = Dead
            \/ process'[p].is = "up" /\ process'[p].dead = {}
  <1> DEFINE rec == [is |-> IF index # Gone THEN "sweep" ELSE "up", remaining |-> FALSE,
                     dead |-> IF index = Gone THEN {} ELSE Dead]
  <1>1. rec \in Procs
    BY DEF Procs, Dead
  <1>2. /\ process[p].is = "off" /\ Startup(p, rec)
        /\ UNCHANGED <<redis, request, worker, faults, gaps>>
    BY DEF CleanupStaleProcessSlots, allIndexMembers
  <1>3. /\ rec.is = (IF index # Gone THEN "sweep" ELSE "up")
        /\ rec.dead = (IF index = Gone THEN {} ELSE Dead)
    OBVIOUS
  <1> HIDE DEF rec
  <1>4. process' \in [Processes -> Procs] /\ OnlyP(p) /\ process'[p] = rec
    BY <1>1, <1>2, StartupFields DEF TypeInv
  <1>5. TypeInv'
    BY <1>2, <1>4 DEF TypeInv, redis, RedisOK, RequestsOK, ProcsOK, RestOK
  <1> QED
    BY <1>2, <1>3, <1>4, <1>5

LEMMA SweepStep ==
  ASSUME TypeInv, NEW p \in Processes, startupCleanupSlotScript(p)
  PROVE  /\ TypeInv' /\ OnlyP(p) /\ Still /\ UNCHANGED <<live, wait, index, worker, gaps>>
         /\ process[p].is = "sweep" /\ process'[p].is = "delete"
         /\ process'[p].dead = process[p].dead
         /\ \A q \in Requests :
              /\ slots'[q] = IF Process[q] = p THEN slots[q] ELSE Gone
              /\ request'[q].waited = request[q].waited
              /\ request'[q].lost = (request[q].lost \/
                   (slots[q] # Gone /\ Process[q] # p /\ request[q].at # "over"))
  <1>1. RedisOK /\ RequestsOK /\ ProcsOK /\ RestOK
    BY DEF TypeInv
  <1> DEFINE own == {r \in Members(slots) : Process[r] = p}
             rec == [process[p] EXCEPT !.is = "delete", !.remaining = own # {}]
             rs  == Members(slots) \ own
  <1>2. /\ process[p].is = "sweep" /\ Startup(p, rec) /\ request' = Losing(request, rs)
        /\ slots' = [r \in Requests |-> IF r \in own THEN slots[r] ELSE Gone]
        /\ UNCHANGED <<live, wait, index, worker, faults, gaps>>
    BY DEF startupCleanupSlotScript, Lose
  <1>3. \A q \in Requests : /\ q \in own <=> slots[q] # Gone /\ Process[q] = p
                            /\ q \in rs <=> slots[q] # Gone /\ Process[q] # p
    BY DEF Members
  <1>4. \A q \in Requests : slots'[q] = IF Process[q] = p THEN slots[q] ELSE Gone
    BY <1>2, <1>3
  <1>5. rec \in Procs /\ rec.is = "delete" /\ rec.dead = process[p].dead
    <2> DEFINE left == own # {}
    <2>1. left \in BOOLEAN /\ process[p] \in Procs
      BY <1>1 DEF ProcsOK
    <2>2. rec = [process[p] EXCEPT !.is = "delete", !.remaining = left]
      OBVIOUS
    <2> HIDE DEF left
    <2> QED
      BY <2>1, <2>2 DEF Procs
  <1> HIDE DEF own, rec, rs
  <1>6. process' \in [Processes -> Procs] /\ OnlyP(p) /\ process'[p] = rec
    BY <1>1, <1>2, <1>5, StartupFields
  <1>7. request \in [Requests -> Reqs]
    BY <1>1 DEF RequestsOK
  <1>8. /\ RequestsOK' /\ Still
        /\ \A q \in Requests :
             /\ request'[q].waited = request[q].waited
             /\ request'[q].lost = (request[q].lost \/ (q \in rs /\ request[q].at # "over"))
    BY <1>1, <1>2, <1>7, LosingStep
  <1>9. RedisOK'
    <2>1. \A q \in Requests : slots[q] \in Gone..SlotTTL
      BY <1>1 DEF RedisOK
    <2>2. slots' \in [Requests -> Gone..SlotTTL]
      BY <1>2, <2>1, TTLs
    <2> QED
      BY <1>1, <1>2, <2>2 DEF RedisOK
  <1>10. TypeInv'
    BY <1>1, <1>2, <1>6, <1>8, <1>9 DEF TypeInv, ProcsOK, RestOK
  <1> QED
    BY <1>2, <1>3, <1>4, <1>5, <1>6, <1>8, <1>10

LEMMA DeleteStep ==
  ASSUME TypeInv, NEW p \in Processes, DeleteWaitKey(p)
  PROVE  /\ TypeInv' /\ OnlyP(p) /\ UNCHANGED <<slots, live, index, request, worker>>
         /\ process[p].is = "delete" /\ process'[p].is = "index"
         /\ process'[p].dead = process[p].dead
         /\ wait' = [n |-> 0, age |-> 0]
         /\ gaps' = IF Waiters # {} THEN gaps \cup {"miscounted"} ELSE gaps \ {"miscounted"}
  <1>1. RedisOK /\ RequestsOK /\ ProcsOK /\ RestOK
    BY DEF TypeInv
  <1> DEFINE rec == [process[p] EXCEPT !.is = "index"]
  <1>2. /\ process[p].is = "delete" /\ Startup(p, rec)
        /\ wait' = [n |-> 0, age |-> 0]
        /\ gaps' = IF Waiters # {} THEN gaps \cup {"miscounted"} ELSE gaps \ {"miscounted"}
        /\ UNCHANGED <<slots, live, index, request, worker, faults>>
    BY DEF DeleteWaitKey, Note, Clear
  <1>3. rec \in Procs /\ rec.is = "index" /\ rec.dead = process[p].dead
    BY <1>1 DEF ProcsOK, Procs
  <1> HIDE DEF rec
  <1>4. process' \in [Processes -> Procs] /\ OnlyP(p) /\ process'[p] = rec
    BY <1>1, <1>2, <1>3, StartupFields
  <1>5. wait' \in [n : 0..queueLimit, age : 0..(WaitTTL - 1)]
    BY <1>2
  <1>6. TypeInv'
    BY <1>1, <1>2, <1>4, <1>5 DEF TypeInv, RedisOK, RequestsOK, ProcsOK, RestOK
  <1> QED
    BY <1>2, <1>3, <1>4, <1>6

LEMMA WriteBackStep ==
  ASSUME TypeInv, NEW p \in Processes, WriteBackIndex(p)
  PROVE  /\ TypeInv' /\ OnlyP(p) /\ UNCHANGED <<slots, live, wait, request, worker>>
         /\ process[p].is = "index" /\ process'[p].is = "up"
         /\ process'[p].dead = process[p].dead
         /\ \E read \in Reads : Sound(read) /\ WriteIndex(read)
  <1>1. RedisOK /\ RequestsOK /\ ProcsOK /\ RestOK
    BY DEF TypeInv
  <1> DEFINE rec  == [process[p] EXCEPT !.is = "up", !.remaining = FALSE]
             read == [ttl |-> IF process[p].remaining THEN SlotTTL ELSE 0,
                      busy |-> process[p].remaining]
  <1>2. /\ process[p].is = "index" /\ Startup(p, rec) /\ WriteIndex(read)
        /\ UNCHANGED <<request, worker, faults>>
    BY DEF WriteBackIndex
  <1>3. process[p] \in Procs /\ process[p].remaining \in BOOLEAN
    BY <1>1 DEF ProcsOK, Procs
  <1>4. rec \in Procs /\ rec.is = "up" /\ rec.dead = process[p].dead
    BY <1>3 DEF Procs
  <1>5. read \in Reads /\ Sound(read)
    BY <1>3, TTLs DEF Reads, Sound
  <1> HIDE DEF rec, read
  <1>6. process' \in [Processes -> Procs] /\ OnlyP(p) /\ process'[p] = rec
    BY <1>1, <1>2, <1>4, StartupFields
  <1>7. RedisOK' /\ RestOK' /\ UNCHANGED <<slots, live, wait>>
    <2>1. faults' \in 0..MaxFaults
      BY <1>1, <1>2 DEF RestOK
    <2> QED
      BY <1>1, <1>2, <1>5, <2>1, WriteType DEF WriteIndex
  <1>8. TypeInv'
    BY <1>1, <1>2, <1>6, <1>7 DEF TypeInv, RequestsOK, ProcsOK
  <1> QED
    BY <1>2, <1>4, <1>5, <1>6, <1>7, <1>8

LEMMA CleanupFailsStep ==
  ASSUME TypeInv, NEW p \in Processes, CleanupFails(p)
  PROVE  /\ TypeInv' /\ OnlyP(p) /\ UNCHANGED <<redis, request, worker, gaps>>
         /\ process[p].is \in {"sweep", "delete"}
         /\ process'[p].is = "up" /\ process'[p].dead = {}
  <1>1. RedisOK /\ RequestsOK /\ ProcsOK /\ RestOK
    BY DEF TypeInv
  <1> DEFINE rec == [Off EXCEPT !.is = "up"]
  <1>2. /\ process[p].is \in {"sweep", "delete"} /\ Fault /\ Startup(p, rec)
        /\ UNCHANGED <<redis, request, worker, gaps>>
    BY DEF CleanupFails
  <1>3. rec \in Procs /\ rec.is = "up" /\ rec.dead = {}
    BY OffFields
  <1> HIDE DEF rec
  <1>4. process' \in [Processes -> Procs] /\ OnlyP(p) /\ process'[p] = rec
    BY <1>1, <1>2, <1>3, StartupFields
  <1>5. TypeInv'
    BY <1>1, <1>2, <1>4, FaultType DEF TypeInv, redis, RedisOK, RequestsOK, ProcsOK, RestOK
  <1> QED
    BY <1>2, <1>3, <1>4, <1>5

LEMMA CrashStep ==
  ASSUME TypeInv, NEW p \in Processes, Crash(p)
  PROVE  /\ TypeInv' /\ OnlyP(p) /\ UNCHANGED <<redis, worker>>
         /\ process[p].is = "up" /\ process'[p].is = "dead" /\ process'[p].dead = {}
         /\ \A q \in Requests :
              \/ /\ request'[q] = request[q]
                 /\ Process[q] # p \/ request[q].at \in {"idle", "over"}
              \/ /\ request'[q].at = "over" /\ request'[q].leaked
                 /\ q \in Waiters => "miscounted" \in gaps'
         /\ gaps \subseteq gaps'
         /\ index = Gone /\ Load => "unindexed" \in gaps'
  <1>1. RedisOK /\ RequestsOK /\ ProcsOK /\ RestOK
    BY DEF TypeInv
  <1> DEFINE rec  == [Off EXCEPT !.is = "dead"]
             mine == {r \in Requests : Process[r] = p /\ request[r].at \notin {"idle", "over"}}
             new(q) == Onward(Leaking(request[q]), "over")
  <1>2. /\ process[p].is = "up" /\ Fault /\ Startup(p, rec)
        /\ request' = [r \in Requests |-> IF r \in mine THEN new(r) ELSE request[r]]
        /\ gaps' = gaps \cup (IF mine \cap Waiters # {} THEN {"miscounted"} ELSE {})
                        \cup (IF index = Gone /\ Load THEN {"unindexed"} ELSE {})
        /\ UNCHANGED <<redis, worker>>
    BY DEF Crash
  <1>3. rec \in Procs /\ rec.is = "dead" /\ rec.dead = {}
    BY OffFields
  <1> HIDE DEF rec
  <1>4. process' \in [Processes -> Procs] /\ OnlyP(p) /\ process'[p] = rec
    BY <1>1, <1>2, <1>3, StartupFields
  <1>5. ASSUME NEW q \in Requests
        PROVE  /\ new(q) \in Reqs /\ new(q).at = "over" /\ new(q).leaked
               /\ Bound(new(q)) /\ Sound(new(q).load)
    <2>1. request[q] \in Reqs
      BY <1>1 DEF RequestsOK
    <2>2. Leaking(request[q]) \in Reqs /\ Leaking(request[q]).leaked = TRUE
      BY <2>1, LeakingFields
    <2>3. "over" \in Steps
      BY DEF Steps
    <2>4. /\ new(q) \in Reqs /\ new(q).at = "over" /\ new(q).load = NoLoad
          /\ new(q).leaked = Leaking(request[q]).leaked
      BY <2>2, <2>3, OnwardFields
    <2> HIDE DEF new
    <2> QED
      BY <2>2, <2>4, IdleFields DEF Bound, Sound
  <1> HIDE DEF new
  <1>6. \A q \in Requests : request'[q] = IF q \in mine THEN new(q) ELSE request[q]
    BY <1>2
  <1>7. RequestsOK'
    <2>1. \A q \in Requests : request'[q] \in Reqs /\ Bound(request'[q]) /\ Sound(request'[q].load)
      BY <1>1, <1>5, <1>6 DEF RequestsOK
    <2>2. request' \in [Requests -> Reqs]
      BY <1>2, <2>1
    <2> QED
      BY <2>1, <2>2 DEF RequestsOK
  <1>8. TypeInv'
    BY <1>1, <1>2, <1>4, <1>7, FaultType DEF TypeInv, redis, RedisOK, ProcsOK, RestOK
  <1>9. \A q \in Requests :
          \/ /\ request'[q] = request[q]
             /\ Process[q] # p \/ request[q].at \in {"idle", "over"}
          \/ /\ request'[q].at = "over" /\ request'[q].leaked
             /\ q \in Waiters => "miscounted" \in gaps'
    BY <1>2, <1>5, <1>6
  <1>10. gaps \subseteq gaps' /\ (index = Gone /\ Load => "unindexed" \in gaps')
    BY <1>2
  <1> QED
    BY <1>2, <1>3, <1>4, <1>8, <1>9, <1>10

LEMMA WorkerStep ==
  ASSUME TypeInv, ReadExpiredMembers \/ reconcileExpiredIndexCandidates
  PROVE  /\ TypeInv' /\ UNCHANGED <<live, wait, request, process>>
         /\ slots' = slots \/ slots' = Trim(slots, SlotTTL)
         /\ \/ \E read \in Reads : Sound(read) /\ WriteIndex(read)
            \/ index' = index /\ gaps' = gaps
  <1>1. RedisOK /\ RequestsOK /\ ProcsOK /\ RestOK
    BY DEF TypeInv
  <1>2. CASE ReadExpiredMembers
    <2>1. /\ worker' = readActiveLoad(slots, wait.n) /\ slots' = Trim(slots, SlotTTL)
          /\ UNCHANGED <<live, wait, index, request, process, faults, gaps>>
      BY <1>2 DEF ReadExpiredMembers
    <2>2. slots \in [Requests -> Gone..SlotTTL] /\ wait.n \in Nat
      BY <1>1 DEF RedisOK
    <2>3. worker' \in Reads /\ Sound(worker')
      BY <2>1, <2>2, ReadLoad
    <2>4. slots' \in [Requests -> Gone..SlotTTL]
      BY <1>1, <2>1, TrimEffect
    <2>5. TypeInv'
      BY <1>1, <2>1, <2>3, <2>4 DEF TypeInv, RedisOK, RequestsOK, ProcsOK, RestOK
    <2> QED
      BY <2>1, <2>5
  <1>3. CASE reconcileExpiredIndexCandidates
    <2>1. worker' = NoLoad /\ WriteIndex(worker) /\ UNCHANGED <<request, process, faults>>
      BY <1>3 DEF reconcileExpiredIndexCandidates
    <2>2. worker' \in Reads /\ Sound(worker')
      BY <2>1, IdleFields DEF Sound
    <2>3. worker \in Reads /\ Sound(worker) /\ faults' \in 0..MaxFaults
      BY <1>1, <2>1 DEF ProcsOK, RestOK
    <2>4. RedisOK' /\ RestOK' /\ UNCHANGED <<slots, live, wait>>
      BY <1>1, <2>1, <2>3, WriteType DEF WriteIndex
    <2>5. TypeInv'
      BY <1>1, <2>1, <2>2, <2>4 DEF TypeInv, RequestsOK, ProcsOK
    <2> QED
      BY <2>1, <2>3, <2>4, <2>5
  <1> QED
    BY <1>2, <1>3

LEMMA TickStep ==
  ASSUME TypeInv, Tick
  PROVE  /\ TypeInv' /\ Still /\ UNCHANGED <<procs, faults>>
         /\ \A q \in Requests :
              /\ slots'[q] # Gone <=> slots[q] # Gone
              /\ q \in FreshSlots' => q \in FreshSlots
              /\ live'[q] # Gone => live[q] # Gone
              /\ request'[q].lost = (request[q].lost \/
                   (request[q].at # "over" /\
                      ((q \in FreshSlots /\ q \notin FreshSlots') \/
                         (live[q] # Gone /\ live'[q] = Gone))))
              /\ q \in Waiters => /\ request[q].waited < WaitTimeout
                                  /\ request'[q].waited = request[q].waited + 1
         /\ index' = Gone => index = Gone
         /\ \/ wait' = [n |-> 0, age |-> 0] /\ (wait.n = 0 \/ wait.age + 1 = WaitTTL)
            \/ wait' = [wait EXCEPT !.age = @ + 1]
         /\ gaps' = IF wait.n > 0 /\ wait'.n = 0 /\ Waiters = {}
                      THEN gaps \ {"miscounted"} ELSE gaps
  <1>1. RedisOK /\ RequestsOK /\ ProcsOK /\ RestOK
    BY DEF TypeInv
  <1> DEFINE older  == Older(live, LiveTTL)
             longer == [r \in Requests |-> IF r \in Waiters
                          THEN [request[r] EXCEPT !.waited = @ + 1] ELSE request[r]]
             rs == (Fresh(slots, SlotTTL) \ Fresh(slots', SlotTTL))
                     \cup (Members(live) \ Members(live'))
  <1>2. /\ \A r \in Waiters : request[r].waited < WaitTimeout
        /\ slots' = Older(slots, SlotTTL) /\ live' = Trim(older, LiveTTL)
        /\ index' = IF index > 0 THEN index - 1 ELSE index
        /\ wait' = IF wait.n = 0 \/ wait.age + 1 = WaitTTL THEN [n |-> 0, age |-> 0]
                   ELSE [wait EXCEPT !.age = @ + 1]
        /\ request' = Losing(longer, rs)
        /\ gaps' = IF wait.n > 0 /\ wait'.n = 0 /\ Waiters = {}
                     THEN gaps \ {"miscounted"} ELSE gaps
        /\ UNCHANGED <<procs, faults>>
    BY DEF Tick, Clear
  <1>3. /\ slots \in [Requests -> Gone..SlotTTL] /\ live \in [Requests -> Gone..(LiveTTL - 1)]
        /\ wait \in [n : 0..queueLimit, age : 0..(WaitTTL - 1)] /\ index \in Gone..IndexTTL
    BY <1>1 DEF RedisOK
  <1>4. ASSUME NEW q \in Requests
        PROVE  /\ slots'[q] \in Gone..SlotTTL
               /\ slots'[q] # Gone <=> slots[q] # Gone
               /\ slots'[q] < SlotTTL => slots[q] < SlotTTL
    <2>1. slots'[q] = IF slots[q] \in 0..(SlotTTL - 1) THEN slots[q] + 1 ELSE slots[q]
      BY <1>2 DEF Older
    <2>2. slots[q] \in Gone..SlotTTL
      BY <1>3
    <2> QED
      BY <2>1, <2>2, TTLs
  <1>5. ASSUME NEW q \in Requests
        PROVE  /\ live'[q] \in Gone..(LiveTTL - 1)
               /\ live'[q] # Gone => live[q] # Gone
    <2>1. older[q] = IF live[q] \in 0..(LiveTTL - 1) THEN live[q] + 1 ELSE live[q]
      BY DEF Older
    <2>2. live[q] \in Gone..(LiveTTL - 1)
      BY <1>3
    <2> HIDE DEF older
    <2>3. live'[q] = IF older[q] # Gone /\ older[q] < LiveTTL THEN older[q] ELSE Gone
      BY <1>2 DEF Trim, Fresh, Members
    <2> QED
      BY <2>1, <2>2, <2>3, TTLs
  <1>6. slots' \in [Requests -> Gone..SlotTTL]
    BY <1>2, <1>4 DEF Older
  <1>7. live' \in [Requests -> Gone..(LiveTTL - 1)]
    <2> HIDE DEF older
    <2> QED
      BY <1>2, <1>5 DEF Trim
  <1>8. \A q \in Requests :
          /\ q \in FreshSlots <=> slots[q] # Gone /\ slots[q] < SlotTTL
          /\ q \in FreshSlots' <=> slots'[q] # Gone /\ slots'[q] < SlotTTL
    BY DEF FreshSlots, Fresh, Members
  <1>9. \A q \in Requests : q \in FreshSlots' => q \in FreshSlots
    BY <1>4, <1>8
  <1>10. \A q \in Requests :
           q \in rs <=> \/ q \in FreshSlots /\ q \notin FreshSlots'
                        \/ live[q] # Gone /\ live'[q] = Gone
    BY DEF FreshSlots, Members
  <1>11. ASSUME NEW q \in Requests
         PROVE  /\ longer[q] \in Reqs
                /\ longer[q].at = request[q].at /\ longer[q].next = request[q].next
                /\ longer[q].load = request[q].load
                /\ longer[q].leaked = request[q].leaked /\ longer[q].lost = request[q].lost
                /\ q \in Waiters => longer[q].waited = request[q].waited + 1
    <2>1. request[q] \in Reqs
      BY <1>1 DEF RequestsOK
    <2>2. CASE q \in Waiters
      <3>1. request[q].waited \in 0..WaitTimeout /\ request[q].waited < WaitTimeout
        BY <1>2, <2>1, <2>2 DEF Reqs
      <3> DEFINE new == [request[q] EXCEPT !.waited = @ + 1]
      <3>2. longer[q] = new
        BY <2>2
      <3>3. /\ new \in Reqs /\ new.at = request[q].at /\ new.next = request[q].next
            /\ new.load = request[q].load /\ new.leaked = request[q].leaked
            /\ new.lost = request[q].lost /\ new.waited = request[q].waited + 1
        BY <2>1, <3>1 DEF Reqs
      <3> QED
        BY <3>2, <3>3
    <2>3. CASE q \notin Waiters
      <3>1. longer[q] = request[q]
        BY <2>3
      <3> QED
        BY <2>1, <2>3, <3>1
    <2> QED
      BY <2>2, <2>3
  <1>12. longer \in [Requests -> Reqs]
    BY <1>11
  <1> HIDE DEF longer, rs, older
  <1>13. /\ RequestsOK' /\ Still
         /\ \A q \in Requests :
              /\ request'[q].waited = longer[q].waited
              /\ request'[q].lost = (request[q].lost \/ (q \in rs /\ request[q].at # "over"))
    BY <1>1, <1>2, <1>11, <1>12, LosingStep
  <1>14. index' \in Gone..IndexTTL /\ (index' = Gone => index = Gone)
    BY <1>2, <1>3, TTLs
  <1>15. wait' \in [n : 0..queueLimit, age : 0..(WaitTTL - 1)]
    BY <1>2, <1>3
  <1>16. TypeInv'
    BY <1>1, <1>2, <1>6, <1>7, <1>13, <1>14, <1>15
       DEF TypeInv, RedisOK, procs, ProcsOK, RestOK
  <1>17. \A q \in Waiters : q \in Requests
    BY DEF Waiters
  <1>18. \A q \in Requests : request'[q].lost = (request[q].lost \/
            (request[q].at # "over" /\
               ((q \in FreshSlots /\ q \notin FreshSlots') \/
                  (live[q] # Gone /\ live'[q] = Gone))))
    BY <1>10, <1>13
  <1>19. \A q \in Requests : q \in Waiters =>
           /\ request[q].waited < WaitTimeout
           /\ request'[q].waited = request[q].waited + 1
    BY <1>2, <1>11, <1>13
  <1>20. \/ wait' = [n |-> 0, age |-> 0] /\ (wait.n = 0 \/ wait.age + 1 = WaitTTL)
         \/ wait' = [wait EXCEPT !.age = @ + 1]
    BY <1>2
  <1> QED
    BY <1>2, <1>4, <1>5, <1>9, <1>13, <1>14, <1>16, <1>18, <1>19, <1>20

LEMMA InitType == Init => TypeInv
  <1> SUFFICES ASSUME Init
               PROVE  TypeInv
    OBVIOUS
  <1>1. RedisOK
    BY TTLs DEF Init, Nobody, RedisOK
  <1>2. RequestsOK
    <2>1. \A r \in Requests : request[r] = Idle
      BY DEF Init
    <2>2. Bound(Idle) /\ Sound(Idle.load)
      BY IdleFields DEF Bound, Sound
    <2>3. request \in [Requests -> Reqs]
      BY IdleFields DEF Init
    <2> QED
      BY <2>1, <2>2, <2>3 DEF RequestsOK
  <1>3. ProcsOK
    <2>1. Off \in Procs
      BY DEF Off, Procs
    <2>2. [Off EXCEPT !.is = "up"] \in Procs
      BY OffFields
    <2>3. process \in [Processes -> Procs]
      BY <2>1, <2>2 DEF Init
    <2> QED
      BY <2>3, IdleFields DEF Init, ProcsOK, Sound
  <1>4. RestOK
    BY DEF Init, RestOK
  <1> QED
    BY <1>1, <1>2, <1>3, <1>4 DEF TypeInv

LEMMA NextType == TypeInv /\ [Next]_vars => TypeInv'
  <1> SUFFICES ASSUME TypeInv, [Next]_vars
               PROVE  TypeInv'
    OBVIOUS
  <1>1. ASSUME NEW r \in Requests, RequestStep(r)
        PROVE  TypeInv'
    BY <1>1, TryAcquireStep, AcquireAgainStep, AcquireFailsStep, TouchStep, TouchWaitingStep,
       EnqueueStep, DequeueStep, RefreshStep, ReleaseStep, LiveStep, CreateStep, TalkStep
       DEF RequestStep
  <1>2. ASSUME NEW p \in Processes, ProcessStep(p)
        PROVE  TypeInv'
    BY <1>2, StaleStep, SweepStep, DeleteStep, WriteBackStep, CleanupFailsStep, CrashStep
       DEF ProcessStep
  <1>3. CASE ReadExpiredMembers \/ reconcileExpiredIndexCandidates
    BY <1>3, WorkerStep
  <1>4. CASE Tick
    BY <1>4, TickStep
  <1>5. CASE UNCHANGED vars
    BY <1>5 DEF vars, redis, procs, TypeInv, RedisOK, RequestsOK, ProcsOK, RestOK
  <1> QED
    BY <1>1, <1>2, <1>3, <1>4, <1>5 DEF Next

-----------------------------------------------------------------------------
(* A session has its place.                                                *)

OthersKeep(r) == \A q \in Requests : q # r =>
    /\ q \in FreshSlots => q \in FreshSlots'
    /\ live[q] # Gone => live'[q] # Gone

OthersGetNone(r) == \A q \in Requests : q # r =>
    /\ slots'[q] # Gone => slots[q] # Gone
    /\ live'[q] # Gone => live[q] # Gone

LEMMA HoldRequest ==
  ASSUME TypeInv, HoldInv, NEW r \in Requests, RequestStep(r)
  PROVE  HoldInv'
  <1>1. RedisOK /\ Backed(r) /\ \A q \in Requests : q # r => Backed(q)
    BY DEF TypeInv, HoldInv
  <1>2. ASSUME NEW q \in Requests, q # r, request'[q] = request[q],
               q \in FreshSlots => q \in FreshSlots', live[q] # Gone => live'[q] # Gone
        PROVE  Backed(q)'
    BY <1>1, <1>2 DEF Backed, SlotUser, LeaseUser, Is
  <1>3. ASSUME Only(r), Backed(r)',
               OthersKeep(r)
        PROVE  HoldInv'
    BY <1>2, <1>3 DEF HoldInv, Only, OthersKeep
  <1>4. CASE TryAcquire(r)
    <2>1. Only(r) /\ OthersKeep(r)
      BY <1>1, <1>4, TryAcquireStep, AcquireEffect DEF OthersKeep, FreshSlots
    <2>2. Backed(r)'
      BY <1>1, <1>4, TryAcquireStep, AcquireEffect
         DEF Backed, SlotUser, LeaseUser, Is, Keeps, FreshSlots, Acquired
    <2> QED
      BY <1>3, <2>1, <2>2
  <1>5. CASE AcquireAgain(r)
    <2>1. Only(r) /\ OthersKeep(r)
      BY <1>1, <1>5, AcquireAgainStep, AcquireEffect DEF OthersKeep, FreshSlots
    <2>2. Backed(r)'
      BY <1>1, <1>5, AcquireAgainStep, AcquireEffect
         DEF Backed, SlotUser, LeaseUser, Is, Keeps, FreshSlots, Acquired
    <2> QED
      BY <1>3, <2>1, <2>2
  <1>6. CASE AcquireFails(r)
    <2>1. Only(r) /\ OthersKeep(r)
      BY <1>1, <1>6, AcquireFailsStep, AcquireEffect DEF OthersKeep, FreshSlots, redis
    <2>2. Backed(r)'
      BY <1>1, <1>6, AcquireFailsStep, AcquireEffect
         DEF Backed, SlotUser, LeaseUser, Is, Keeps, FreshSlots, Acquired, redis
    <2> QED
      BY <1>3, <2>1, <2>2
  <1>7. CASE touchActiveIndexAt(r)
    <2>1. Only(r) /\ OthersKeep(r)
      BY <1>1, <1>7, TouchStep DEF OthersKeep, FreshSlots
    <2>2. Backed(r)'
      BY <1>1, <1>7, TouchStep
         DEF Backed, SlotUser, LeaseUser, Is, Keeps, FreshSlots
    <2> QED
      BY <1>3, <2>1, <2>2
  <1>8. CASE TouchWaiting(r)
    <2>1. Only(r) /\ OthersKeep(r)
      BY <1>1, <1>8, TouchWaitingStep DEF OthersKeep, FreshSlots
    <2>2. Backed(r)'
      BY <1>1, <1>8, TouchWaitingStep
         DEF Backed, SlotUser, LeaseUser, Is, Keeps, FreshSlots
    <2> QED
      BY <1>3, <2>1, <2>2
  <1>9. CASE IncrementWaitCount(r) \/ IncrementFails(r)
    <2>1. Only(r) /\ OthersKeep(r)
      BY <1>1, <1>9, EnqueueStep DEF OthersKeep, FreshSlots
    <2>2. Backed(r)'
      BY <1>1, <1>9, EnqueueStep
         DEF Backed, SlotUser, LeaseUser, Is, Keeps, FreshSlots
    <2> QED
      BY <1>3, <2>1, <2>2
  <1>10. CASE DecrementWaitCount(r)
    <2>1. Only(r) /\ OthersKeep(r)
      BY <1>1, <1>10, DequeueStep, TrimEffect DEF OthersKeep, FreshSlots
    <2>2. Backed(r)'
      BY <1>1, <1>10, DequeueStep, TrimEffect
         DEF Backed, SlotUser, LeaseUser, Is, Keeps, FreshSlots
    <2> QED
      BY <1>3, <2>1, <2>2
  <1>11. CASE refreshActiveIndex(r)
    <2>1. Only(r) /\ OthersKeep(r)
      BY <1>1, <1>11, RefreshStep DEF OthersKeep, FreshSlots
    <2>2. Backed(r)'
      BY <1>1, <1>11, RefreshStep
         DEF Backed, SlotUser, LeaseUser, Is, Keeps, FreshSlots
    <2> QED
      BY <1>3, <2>1, <2>2
  <1>12. CASE ReleaseUserSlot(r)
    <2>1. Only(r) /\ OthersKeep(r)
      BY <1>1, <1>12, ReleaseStep, RemEffect DEF OthersKeep, FreshSlots
    <2>2. Backed(r)'
      BY <1>1, <1>12, ReleaseStep, RemEffect
         DEF Backed, SlotUser, LeaseUser, Is, Keeps, FreshSlots
    <2> QED
      BY <1>3, <2>1, <2>2
  <1>13. CASE AcquireLiveLease(r)
    <2>1. Only(r) /\ OthersKeep(r)
      BY <1>1, <1>13, LiveStep, LiveSet DEF OthersKeep, FreshSlots
    <2>2. Backed(r)'
      BY <1>1, <1>13, LiveStep, LiveSet
         DEF Backed, SlotUser, LeaseUser, Is, Keeps, FreshSlots
    <2> QED
      BY <1>3, <2>1, <2>2
  <1>14. CASE CreateFails(r)
    <2>1. Only(r) /\ OthersKeep(r)
      BY <1>1, <1>14, CreateStep, LiveSet DEF OthersKeep, FreshSlots
    <2>2. Backed(r)'
      BY <1>1, <1>14, CreateStep, LiveSet
         DEF Backed, SlotUser, LeaseUser, Is, Keeps, FreshSlots
    <2> QED
      BY <1>3, <2>1, <2>2
  <1>15. CASE RefreshLiveLease(r) \/ finalizeLiveCall(r)
    <2>1. Only(r) /\ OthersKeep(r)
      BY <1>1, <1>15, TalkStep, LiveSet DEF OthersKeep, FreshSlots
    <2>2. Backed(r)'
      BY <1>1, <1>15, TalkStep, LiveSet
         DEF Backed, SlotUser, LeaseUser, Is, Keeps, FreshSlots
    <2> QED
      BY <1>3, <2>1, <2>2
  <1> QED
    BY <1>4, <1>5, <1>6, <1>7, <1>8, <1>9, <1>10, <1>11, <1>12, <1>13, <1>14, <1>15
       DEF RequestStep

LEMMA LeakRequest ==
  ASSUME TypeInv, LeakInv, NEW r \in Requests, RequestStep(r)
  PROVE  LeakInv'
  <1>1. RedisOK /\ Clean(r) /\ \A q \in Requests : q # r => Clean(q)
    BY DEF TypeInv, LeakInv
  <1>2. ASSUME NEW q \in Requests, q # r, request'[q] = request[q],
               slots'[q] # Gone => slots[q] # Gone, live'[q] # Gone => live[q] # Gone
        PROVE  Clean(q)'
    BY <1>1, <1>2 DEF Clean, SlotUser, LeaseUser, Is
  <1>3. ASSUME Only(r), Clean(r)',
               OthersGetNone(r)
        PROVE  LeakInv'
    BY <1>2, <1>3 DEF LeakInv, Only, OthersGetNone
  <1>4. CASE TryAcquire(r)
    <2>1. Only(r) /\ OthersGetNone(r)
      BY <1>1, <1>4, TryAcquireStep, AcquireEffect DEF OthersGetNone, FreshSlots
    <2>2. Clean(r)'
      BY <1>1, <1>4, TryAcquireStep, AcquireEffect
         DEF Clean, SlotUser, LeaseUser, Is, Keeps, FreshSlots, Acquired
    <2> QED
      BY <1>3, <2>1, <2>2
  <1>5. CASE AcquireAgain(r)
    <2>1. Only(r) /\ OthersGetNone(r)
      BY <1>1, <1>5, AcquireAgainStep, AcquireEffect DEF OthersGetNone, FreshSlots
    <2>2. Clean(r)'
      BY <1>1, <1>5, AcquireAgainStep, AcquireEffect
         DEF Clean, SlotUser, LeaseUser, Is, Keeps, FreshSlots, Acquired
    <2> QED
      BY <1>3, <2>1, <2>2
  <1>6. CASE AcquireFails(r)
    <2>1. Only(r) /\ OthersGetNone(r)
      BY <1>1, <1>6, AcquireFailsStep, AcquireEffect DEF OthersGetNone, FreshSlots, redis
    <2>2. Clean(r)'
      BY <1>1, <1>6, AcquireFailsStep, AcquireEffect
         DEF Clean, SlotUser, LeaseUser, Is, Keeps, FreshSlots, Acquired, redis
    <2> QED
      BY <1>3, <2>1, <2>2
  <1>7. CASE touchActiveIndexAt(r)
    <2>1. Only(r) /\ OthersGetNone(r)
      BY <1>1, <1>7, TouchStep DEF OthersGetNone, FreshSlots
    <2>2. Clean(r)'
      BY <1>1, <1>7, TouchStep
         DEF Clean, SlotUser, LeaseUser, Is, Keeps, FreshSlots
    <2> QED
      BY <1>3, <2>1, <2>2
  <1>8. CASE TouchWaiting(r)
    <2>1. Only(r) /\ OthersGetNone(r)
      BY <1>1, <1>8, TouchWaitingStep DEF OthersGetNone, FreshSlots
    <2>2. Clean(r)'
      BY <1>1, <1>8, TouchWaitingStep
         DEF Clean, SlotUser, LeaseUser, Is, Keeps, FreshSlots
    <2> QED
      BY <1>3, <2>1, <2>2
  <1>9. CASE IncrementWaitCount(r) \/ IncrementFails(r)
    <2>1. Only(r) /\ OthersGetNone(r)
      BY <1>1, <1>9, EnqueueStep DEF OthersGetNone, FreshSlots
    <2>2. Clean(r)'
      BY <1>1, <1>9, EnqueueStep
         DEF Clean, SlotUser, LeaseUser, Is, Keeps, FreshSlots
    <2> QED
      BY <1>3, <2>1, <2>2
  <1>10. CASE DecrementWaitCount(r)
    <2>1. Only(r) /\ OthersGetNone(r)
      BY <1>1, <1>10, DequeueStep, TrimEffect DEF OthersGetNone, FreshSlots
    <2>2. Clean(r)'
      BY <1>1, <1>10, DequeueStep, TrimEffect
         DEF Clean, SlotUser, LeaseUser, Is, Keeps, FreshSlots
    <2> QED
      BY <1>3, <2>1, <2>2
  <1>11. CASE refreshActiveIndex(r)
    <2>1. Only(r) /\ OthersGetNone(r)
      BY <1>1, <1>11, RefreshStep DEF OthersGetNone, FreshSlots
    <2>2. Clean(r)'
      BY <1>1, <1>11, RefreshStep
         DEF Clean, SlotUser, LeaseUser, Is, Keeps, FreshSlots
    <2> QED
      BY <1>3, <2>1, <2>2
  <1>12. CASE ReleaseUserSlot(r)
    <2>1. Only(r) /\ OthersGetNone(r)
      BY <1>1, <1>12, ReleaseStep, RemEffect DEF OthersGetNone, FreshSlots
    <2>2. Clean(r)'
      BY <1>1, <1>12, ReleaseStep, RemEffect
         DEF Clean, SlotUser, LeaseUser, Is, Keeps, FreshSlots
    <2> QED
      BY <1>3, <2>1, <2>2
  <1>13. CASE AcquireLiveLease(r)
    <2>1. Only(r) /\ OthersGetNone(r)
      BY <1>1, <1>13, LiveStep, LiveSet DEF OthersGetNone, FreshSlots
    <2>2. Clean(r)'
      BY <1>1, <1>13, LiveStep, LiveSet
         DEF Clean, SlotUser, LeaseUser, Is, Keeps, FreshSlots
    <2> QED
      BY <1>3, <2>1, <2>2
  <1>14. CASE CreateFails(r)
    <2>1. Only(r) /\ OthersGetNone(r)
      BY <1>1, <1>14, CreateStep, LiveSet DEF OthersGetNone, FreshSlots
    <2>2. Clean(r)'
      BY <1>1, <1>14, CreateStep, LiveSet
         DEF Clean, SlotUser, LeaseUser, Is, Keeps, FreshSlots
    <2> QED
      BY <1>3, <2>1, <2>2
  <1>15. CASE RefreshLiveLease(r) \/ finalizeLiveCall(r)
    <2>1. Only(r) /\ OthersGetNone(r)
      BY <1>1, <1>15, TalkStep, LiveSet DEF OthersGetNone, FreshSlots
    <2>2. Clean(r)'
      BY <1>1, <1>15, TalkStep, LiveSet
         DEF Clean, SlotUser, LeaseUser, Is, Keeps, FreshSlots
    <2> QED
      BY <1>3, <2>1, <2>2
  <1> QED
    BY <1>4, <1>5, <1>6, <1>7, <1>8, <1>9, <1>10, <1>11, <1>12, <1>13, <1>14, <1>15
       DEF RequestStep

\* Processes and time take places away, and say so.
LEMMA HoldRest ==
  ASSUME TypeInv, HoldInv, LeakInv,
         \/ \E p \in Processes : ProcessStep(p)
         \/ ReadExpiredMembers \/ reconcileExpiredIndexCandidates \/ Tick
  PROVE  HoldInv' /\ LeakInv'
  <1>1. RedisOK /\ \A q \in Requests : Backed(q) /\ Clean(q)
    BY DEF TypeInv, HoldInv, LeakInv
  <1>2. ASSUME NEW q \in Requests, request'[q] = request[q],
               q \in FreshSlots => q \in FreshSlots', slots'[q] # Gone => slots[q] # Gone,
               live'[q] = live[q]
        PROVE  Backed(q)' /\ Clean(q)'
    BY <1>1, <1>2 DEF Backed, Clean, SlotUser, LeaseUser, Is
  <1>3. ASSUME UNCHANGED <<slots, live, request>>
        PROVE  HoldInv' /\ LeakInv'
    BY <1>2, <1>3 DEF HoldInv, LeakInv, FreshSlots
  <1>4. ASSUME NEW p \in Processes, ProcessStep(p)
        PROVE  HoldInv' /\ LeakInv'
    <2>1. CASE CleanupStaleProcessSlots(p)
      BY <1>3, <2>1, StaleStep DEF redis
    <2>2. CASE startupCleanupSlotScript(p)
      <3>1. /\ Still /\ live' = live
            /\ \A q \in Requests :
                 /\ slots'[q] = IF Process[q] = p THEN slots[q] ELSE Gone
                 /\ request'[q].lost = (request[q].lost \/
                      (slots[q] # Gone /\ Process[q] # p /\ request[q].at # "over"))
        BY <2>2, SweepStep
      <3>2. \A q \in Requests :
              /\ q \in FreshSlots <=> slots[q] # Gone /\ slots[q] < SlotTTL
              /\ q \in FreshSlots' <=> slots'[q] # Gone /\ slots'[q] < SlotTTL
        BY DEF FreshSlots, Fresh, Members
      <3>3. ASSUME NEW q \in Requests
            PROVE  Backed(q)' /\ Clean(q)'
        <4>1. Backed(q)'
          BY <1>1, <3>1, <3>2 DEF Backed, SlotUser, LeaseUser, Is, Still
        <4>2. Clean(q)'
          BY <1>1, <3>1 DEF Clean, SlotUser, LeaseUser, Is, Still
        <4> QED
          BY <4>1, <4>2
      <3> QED
        BY <3>3 DEF HoldInv, LeakInv
    <2>3. CASE DeleteWaitKey(p)
      BY <1>3, <2>3, DeleteStep
    <2>4. CASE WriteBackIndex(p)
      BY <1>3, <2>4, WriteBackStep
    <2>5. CASE CleanupFails(p)
      BY <1>3, <2>5, CleanupFailsStep DEF redis
    <2>6. CASE Crash(p)
      <3>1. /\ slots' = slots /\ live' = live
            /\ \A q \in Requests : \/ request'[q] = request[q]
                                   \/ request'[q].at = "over" /\ request'[q].leaked
        BY <2>6, CrashStep DEF redis
      <3>2. ASSUME NEW q \in Requests, request'[q].at = "over", request'[q].leaked
            PROVE  Backed(q)' /\ Clean(q)'
        BY <3>2 DEF Backed, Clean, SlotUser, LeaseUser, Is
      <3>3. ASSUME NEW q \in Requests
            PROVE  Backed(q)' /\ Clean(q)'
        BY <1>2, <3>1, <3>2 DEF FreshSlots
      <3> QED
        BY <3>3 DEF HoldInv, LeakInv
    <2> QED
      BY <1>4, <2>1, <2>2, <2>3, <2>4, <2>5, <2>6 DEF ProcessStep
  <1>5. CASE ReadExpiredMembers \/ reconcileExpiredIndexCandidates
    <2>1. /\ UNCHANGED <<live, request>>
          /\ slots' = slots \/ slots' = Trim(slots, SlotTTL)
      BY <1>5, WorkerStep
    <2>2. /\ FreshSlots' = FreshSlots
          /\ \A q \in Requests : slots'[q] # Gone => slots[q] # Gone
      BY <1>1, <2>1, TrimEffect DEF FreshSlots
    <2> QED
      BY <1>2, <2>1, <2>2 DEF HoldInv, LeakInv
  <1>6. CASE Tick
    <2>1. /\ Still
          /\ \A q \in Requests :
               /\ slots'[q] # Gone <=> slots[q] # Gone
               /\ live'[q] # Gone => live[q] # Gone
               /\ request'[q].lost = (request[q].lost \/
                    (request[q].at # "over" /\
                       ((q \in FreshSlots /\ q \notin FreshSlots') \/
                          (live[q] # Gone /\ live'[q] = Gone))))
      BY <1>6, TickStep
    <2>2. ASSUME NEW q \in Requests
          PROVE  Backed(q)' /\ Clean(q)'
      <3>1. Backed(q)'
        BY <1>1, <2>1 DEF Backed, SlotUser, LeaseUser, Is, Still
      <3>2. Clean(q)'
        BY <1>1, <2>1 DEF Clean, SlotUser, LeaseUser, Is, Still
      <3> QED
        BY <3>1, <3>2
    <2> QED
      BY <2>2 DEF HoldInv, LeakInv
  <1> QED
    BY <1>4, <1>5, <1>6

-----------------------------------------------------------------------------
(* The dead are found.                                                     *)

\* A request of a process that is not up makes no calls, so that its slots are
\* only taken away.
LEMMA DeadRequest ==
  ASSUME TypeInv, DeadInv, NEW r \in Requests, RequestStep(r)
  PROVE  DeadInv'
  <1>1. RedisOK /\ process \in [Processes -> Procs] /\ Process[r] \in Processes
    BY DEF TypeInv, ProcsOK
  <1>2. /\ Only(r) /\ process' = process
        /\ process[Process[r]].is = "up" \/ (slots'[r] # Gone => slots[r] # Gone)
        /\ process[Process[r]].is = "up" \/ request[r].at \notin {"idle", "over"}
        /\ \A q \in Requests : q # r => (slots'[q] # Gone => slots[q] # Gone)
    <2> USE <1>1
    <2>1. CASE TryAcquire(r)
      BY <2>1, TryAcquireStep, AcquireEffect DEF procs
    <2>2. ASSUME request[r].at \notin {"idle", "over"}
          PROVE  process[Process[r]].is = "up"
      BY <2>2 DEF DeadInv
    <2>3. CASE AcquireAgain(r)
      BY <2>2, <2>3, AcquireAgainStep, AcquireEffect DEF procs, Is
    <2>4. CASE AcquireFails(r)
      BY <2>2, <2>4, AcquireFailsStep, AcquireEffect DEF procs, Is, redis
    <2>5. CASE touchActiveIndexAt(r) \/ TouchWaiting(r)
      BY <2>5, TouchStep, TouchWaitingStep DEF procs, Is
    <2>6. CASE IncrementWaitCount(r) \/ IncrementFails(r) \/ refreshActiveIndex(r)
      BY <2>6, EnqueueStep, RefreshStep DEF procs, Is
    <2>7. CASE DecrementWaitCount(r)
      BY <2>7, DequeueStep, TrimEffect DEF procs, Is
    <2>8. CASE ReleaseUserSlot(r)
      BY <2>8, ReleaseStep, RemEffect DEF procs, Is
    <2>9. CASE AcquireLiveLease(r) \/ CreateFails(r) \/ RefreshLiveLease(r) \/ finalizeLiveCall(r)
      BY <2>9, LiveStep, CreateStep, TalkStep DEF procs, Is
    <2> QED
      BY <2>1, <2>3, <2>4, <2>5, <2>6, <2>7, <2>8, <2>9 DEF RequestStep
  <1>3. process[Process[r]].is = "up"
    BY <1>2 DEF DeadInv
  <1>4. \A q \in Requests : process'[Process[q]].is # "up" => request'[q].at \in {"idle", "over"}
    BY <1>2, <1>3 DEF DeadInv, Only
  <1>5. Dead' = Dead
    BY <1>2 DEF Dead
  <1>6. \A p \in Processes : process'[p].dead \subseteq Dead'
    BY <1>2, <1>5 DEF DeadInv
  <1>7. \A p \in Processes : Process[r] \notin process[p].dead
    BY <1>3 DEF DeadInv, Dead
  <1>8. DeadAreSwept'
    BY <1>2, <1>7 DEF DeadInv, DeadAreSwept
  <1> QED
    BY <1>4, <1>6, <1>8 DEF DeadInv

LEMMA DeadProcess ==
  ASSUME TypeInv, DeadInv, NEW p \in Processes, ProcessStep(p)
  PROVE  DeadInv'
  <1>1. /\ process \in [Processes -> Procs] /\ \A r \in Requests : Process[r] \in Processes
        /\ \A q \in Processes : process[q].dead \subseteq Processes
    BY DEF TypeInv, ProcsOK, Procs
  <1>2. /\ OnlyP(p) /\ process[p].is # "dead"
        /\ \A q \in Requests : slots'[q] # Gone => slots[q] # Gone
    <2>1. CASE CleanupStaleProcessSlots(p) \/ CleanupFails(p) \/ Crash(p)
      BY <2>1, StaleStep, CleanupFailsStep, CrashStep DEF redis
    <2>2. CASE startupCleanupSlotScript(p)
      BY <2>2, SweepStep
    <2>3. CASE DeleteWaitKey(p) \/ WriteBackIndex(p)
      BY <2>3, DeleteStep, WriteBackStep
    <2> QED
      BY <2>1, <2>2, <2>3 DEF ProcessStep
  <1>3. \A r \in Requests : process'[Process[r]].is # "up" => request'[r].at \in {"idle", "over"}
    <2>0. \A r \in Requests : Process[r] # p => process'[Process[r]] = process[Process[r]]
      BY <1>1, <1>2 DEF OnlyP
    <2>1. CASE Crash(p)
      <3>1. \A q \in Requests :
              \/ /\ request'[q] = request[q]
                 /\ Process[q] # p \/ request[q].at \in {"idle", "over"}
              \/ request'[q].at = "over"
        BY <2>1, CrashStep
      <3> QED
        BY <2>0, <3>1 DEF DeadInv
    <2>2. CASE ~Crash(p)
      <3>1. \A q \in Requests : request'[q].at = request[q].at
        BY <2>2, StaleStep, SweepStep, DeleteStep, WriteBackStep, CleanupFailsStep
           DEF ProcessStep, Still
      <3>2. process'[p].is = "up" \/ process[p].is # "up"
        BY <2>2, StaleStep, SweepStep, DeleteStep, WriteBackStep, CleanupFailsStep
           DEF ProcessStep
      <3> QED
        BY <2>0, <3>1, <3>2 DEF DeadInv
    <2> QED
      BY <2>1, <2>2
  <1>4. Dead \subseteq Dead'
    BY <1>2 DEF Dead, OnlyP
  <1>5. process'[p].dead \subseteq Dead
    BY StaleStep, SweepStep, DeleteStep, WriteBackStep, CleanupFailsStep, CrashStep
       DEF ProcessStep, DeadInv
  <1>6. \A q \in Processes : process'[q].dead \subseteq Dead'
    BY <1>2, <1>4, <1>5 DEF DeadInv, OnlyP
  <1>7. ASSUME process'[p].is \in {"delete", "index", "up"}, NEW r \in Requests,
               Process[r] \in process'[p].dead
        PROVE  slots'[r] = Gone
    <2>1. CASE startupCleanupSlotScript(p)
      <3>1. p \notin Dead
        BY <1>2 DEF Dead
      <3>2. Process[r] # p
        BY <1>5, <1>7, <3>1
      <3> QED
        BY <2>1, <3>2, SweepStep
    <2>2. CASE DeleteWaitKey(p) \/ WriteBackIndex(p)
      <3>1. process[p].is \in {"delete", "index", "up"} /\ process'[p].dead = process[p].dead
        BY <2>2, DeleteStep, WriteBackStep
      <3>2. slots[r] = Gone
        BY <1>7, <3>1 DEF DeadInv, DeadAreSwept
      <3> QED
        BY <1>2, <3>2
    <2>3. CASE CleanupStaleProcessSlots(p) \/ CleanupFails(p) \/ Crash(p)
      BY <1>7, <2>3, StaleStep, CleanupFailsStep, CrashStep
    <2> QED
      BY <2>1, <2>2, <2>3 DEF ProcessStep
  <1>8. DeadAreSwept'
    BY <1>2, <1>7 DEF DeadInv, DeadAreSwept, OnlyP
  <1> QED
    BY <1>3, <1>6, <1>8 DEF DeadInv

LEMMA DeadRest ==
  ASSUME TypeInv, DeadInv, ReadExpiredMembers \/ reconcileExpiredIndexCandidates \/ Tick
  PROVE  DeadInv'
  <1>1. RedisOK
    BY DEF TypeInv
  <1>2. /\ process' = process
        /\ \A q \in Requests : /\ slots'[q] # Gone => slots[q] # Gone
                               /\ request'[q].at = request[q].at
    <2>1. CASE ReadExpiredMembers \/ reconcileExpiredIndexCandidates
      BY <1>1, <2>1, WorkerStep, TrimEffect
    <2>2. CASE Tick
      BY <2>2, TickStep DEF Still, procs
    <2> QED
      BY <2>1, <2>2
  <1> QED
    BY <1>2 DEF DeadInv, DeadAreSwept, Dead

-----------------------------------------------------------------------------
(* The index follows the load.                                             *)

AtTouch(q) == request[q].at \in {"touch", "touchWait"}

\* Nothing is added to the load, nor taken from the index, and nobody comes
\* out of a touch.
LEMMA IndexKept ==
  ASSUME IndexFollowsLoad, FreshSlots' \subseteq FreshSlots, wait'.n > 0 => wait.n > 0,
         index' = Gone => index = Gone, "unindexed" \in gaps => "unindexed" \in gaps',
         \A q \in Requests : AtTouch(q) => AtTouch(q)'
  PROVE  IndexFollowsLoad'
  BY DEF IndexFollowsLoad, Load, FreshSlots, AtTouch

LEMMA IndexTouched ==
  ASSUME NEW ttl \in {SlotTTL, WaitTTL}, Touched(ttl)
  PROVE  IndexFollowsLoad'
  <1>1. index' = Gone => "unindexed" \in gaps'
    BY TTLs DEF Touched
  <1> QED
    BY <1>1 DEF IndexFollowsLoad

LEMMA IndexWritten ==
  ASSUME NEW read \in Reads, Sound(read), WriteIndex(read)
  PROVE  IndexFollowsLoad'
  <1>1. index' = IF read.ttl = 0 THEN Gone ELSE read.ttl
    BY DEF WriteIndex
  <1>2. read.busy => index' # Gone
    BY <1>1, TTLs DEF Sound, Reads
  <1>3. index' = Gone /\ Load => "unindexed" \in gaps'
    BY <1>2 DEF WriteIndex, Note
  <1>4. Load' <=> Load
    BY DEF WriteIndex, Load
  <1> QED
    BY <1>3, <1>4 DEF IndexFollowsLoad

LEMMA IndexRequest ==
  ASSUME TypeInv, IndexFollowsLoad, NEW r \in Requests, RequestStep(r)
  PROVE  IndexFollowsLoad'
  <1>1. RedisOK /\ wait.n \in Nat
    BY DEF TypeInv, RedisOK
  <1>2. ASSUME Only(r), ~AtTouch(r) \/ AtTouch(r)'
        PROVE  \A q \in Requests : AtTouch(q) => AtTouch(q)'
    BY <1>2 DEF Only, AtTouch
  <1>3. ASSUME AtTouch(r)'
        PROVE  IndexFollowsLoad'
    BY <1>3 DEF IndexFollowsLoad, AtTouch
  <1>4. CASE TryAcquire(r) \/ AcquireAgain(r)
    <2>1. /\ Only(r) /\ request[r].at \in {"idle", "waiting"} /\ acquireScript(r) /\ gaps' = gaps
          /\ Acquired(r) => request'[r].at = "touch"
      BY <1>4, TryAcquireStep, AcquireAgainStep DEF Is
    <2>2. /\ wait' = wait /\ index' = index
          /\ ~Acquired(r) => FreshSlots' = FreshSlots
      BY <1>1, <2>1, AcquireEffect
    <2>3. ~AtTouch(r)
      BY <2>1 DEF AtTouch
    <2>4. CASE Acquired(r)
      BY <1>3, <2>1, <2>4 DEF AtTouch
    <2>5. CASE ~Acquired(r)
      BY <1>2, <2>1, <2>2, <2>3, <2>5, IndexKept
    <2> QED
      BY <2>4, <2>5
  <1>5. CASE AcquireFails(r)
    <2>1. /\ Only(r) /\ request[r].at \in {"idle", "waiting"}
          /\ acquireScript(r) \/ UNCHANGED redis
          /\ IF Acquired(r) /\ index = Gone THEN Note("unindexed") ELSE UNCHANGED gaps
      BY <1>5, AcquireFailsStep DEF Is
    <2>2. /\ wait' = wait /\ index' = index
          /\ ~Acquired(r) => FreshSlots' = FreshSlots
      BY <1>1, <2>1, AcquireEffect DEF redis, FreshSlots
    <2>3. ~AtTouch(r)
      BY <2>1 DEF AtTouch
    <2>4. CASE Acquired(r)
      BY <2>1, <2>2, <2>4 DEF IndexFollowsLoad, Note
    <2>5. CASE ~Acquired(r)
      BY <1>2, <2>1, <2>2, <2>3, <2>5, IndexKept
    <2> QED
      BY <2>4, <2>5
  <1>6. CASE touchActiveIndexAt(r) \/ TouchWaiting(r)
    BY <1>6, TouchStep, TouchWaitingStep, IndexTouched
  <1>7. CASE IncrementWaitCount(r) \/ IncrementFails(r)
    <2>1. /\ Only(r) /\ Is(r, "enqueue") /\ UNCHANGED <<slots, index>>
          /\ \/ request'[r].at = "touchWait"
             \/ index # Gone \/ "unindexed" \in gaps'
             \/ wait' = wait /\ gaps \subseteq gaps'
      BY <1>7, EnqueueStep
    <2>2. ~AtTouch(r)
      BY <2>1 DEF AtTouch, Is
    <2>3. CASE request'[r].at = "touchWait"
      BY <1>3, <2>3 DEF AtTouch
    <2>4. CASE index # Gone \/ "unindexed" \in gaps'
      BY <2>1, <2>4 DEF IndexFollowsLoad
    <2>5. CASE wait' = wait /\ gaps \subseteq gaps'
      BY <1>2, <2>1, <2>2, <2>5, IndexKept DEF FreshSlots
    <2> QED
      BY <2>1, <2>3, <2>4, <2>5
  <1>8. CASE DecrementWaitCount(r)
    <2>1. /\ Only(r) /\ request[r].at \in {"dequeue", "waiting"} /\ index' = index
          /\ gaps \subseteq gaps'
          /\ \/ /\ slots' = Trim(slots, SlotTTL)
                /\ wait' = Waiting(Uncounted(r), wait.age)
             \/ UNCHANGED <<slots, wait>>
      BY <1>8, DequeueStep DEF Is
    <2>2. FreshSlots' = FreshSlots
      BY <1>1, <2>1, TrimEffect DEF FreshSlots
    <2>3. wait'.n > 0 => wait.n > 0
      BY <1>1, <2>1 DEF Waiting, Uncounted
    <2>4. ~AtTouch(r)
      BY <2>1 DEF AtTouch
    <2> QED
      BY <1>2, <2>1, <2>2, <2>3, <2>4, IndexKept
  <1>9. CASE refreshActiveIndex(r)
    <2>1. /\ Only(r) /\ UNCHANGED <<slots, wait>> /\ Is(r, "index")
          /\ Sound(request[r].load) /\ request[r].load \in Reads
          /\ WriteIndex(request[r].load) \/ (index' = index /\ gaps' = gaps)
      BY <1>9, RefreshStep DEF TypeInv, RequestsOK, Reqs
    <2>2. ~AtTouch(r)
      BY <2>1 DEF AtTouch, Is
    <2>3. CASE WriteIndex(request[r].load)
      BY <2>1, <2>3, IndexWritten
    <2>4. CASE index' = index /\ gaps' = gaps
      BY <1>2, <2>1, <2>2, <2>4, IndexKept DEF FreshSlots
    <2> QED
      BY <2>1, <2>3, <2>4
  <1>10. CASE ReleaseUserSlot(r)
    <2>1. /\ Only(r) /\ UNCHANGED <<wait, index, gaps>> /\ ~AtTouch(r)
          /\ slots' = slots \/ slots' = ZRem(Trim(slots, SlotTTL), r)
      BY <1>10, ReleaseStep DEF AtTouch
    <2>2. FreshSlots' \subseteq FreshSlots
      BY <1>1, <2>1, RemEffect DEF FreshSlots
    <2> QED
      BY <1>2, <2>1, <2>2, IndexKept
  <1>11. CASE AcquireLiveLease(r) \/ CreateFails(r) \/ RefreshLiveLease(r) \/ finalizeLiveCall(r)
    <2>1. /\ Only(r) /\ UNCHANGED <<slots, wait, index>> /\ gaps \subseteq gaps'
          /\ ~AtTouch(r)
      BY <1>11, LiveStep, CreateStep, TalkStep DEF AtTouch, Is, acquireLiveLeaseScript, Note
    <2> QED
      BY <1>2, <2>1, IndexKept DEF FreshSlots
  <1> QED
    BY <1>4, <1>5, <1>6, <1>7, <1>8, <1>9, <1>10, <1>11 DEF RequestStep

LEMMA IndexRest ==
  ASSUME TypeInv, IndexFollowsLoad,
         \/ \E p \in Processes : ProcessStep(p)
         \/ ReadExpiredMembers \/ reconcileExpiredIndexCandidates \/ Tick
  PROVE  IndexFollowsLoad'
  <1>1. RedisOK /\ wait.n \in Nat
    BY DEF TypeInv, RedisOK
  <1>2. ASSUME \A q \in Requests : request'[q].at = request[q].at
        PROVE  \A q \in Requests : AtTouch(q) => AtTouch(q)'
    BY <1>2 DEF AtTouch
  <1>3. ASSUME NEW p \in Processes, ProcessStep(p)
        PROVE  IndexFollowsLoad'
    <2>1. CASE CleanupStaleProcessSlots(p)
      BY <1>2, <2>1, StaleStep, IndexKept DEF redis, FreshSlots
    <2>2. CASE startupCleanupSlotScript(p)
      <3>1. /\ Still /\ UNCHANGED <<wait, index, gaps>>
            /\ \A q \in Requests : slots'[q] = IF Process[q] = p THEN slots[q] ELSE Gone
        BY <2>2, SweepStep
      <3>2. FreshSlots' \subseteq FreshSlots
        BY <3>1 DEF FreshSlots, Fresh, Members
      <3> QED
        BY <1>2, <3>1, <3>2, IndexKept DEF Still
    <2>3. CASE DeleteWaitKey(p)
      <3>1. /\ UNCHANGED <<slots, index, request>> /\ wait'.n = 0
            /\ "unindexed" \in gaps => "unindexed" \in gaps'
        BY <2>3, DeleteStep
      <3> QED
        BY <1>2, <3>1, IndexKept DEF FreshSlots
    <2>4. CASE WriteBackIndex(p)
      BY <2>4, WriteBackStep, IndexWritten
    <2>5. CASE CleanupFails(p)
      BY <1>2, <2>5, CleanupFailsStep, IndexKept DEF redis, FreshSlots
    <2>6. CASE Crash(p)
      BY <2>6, CrashStep DEF IndexFollowsLoad, Load, redis
    <2> QED
      BY <1>3, <2>1, <2>2, <2>3, <2>4, <2>5, <2>6 DEF ProcessStep
  <1>4. CASE ReadExpiredMembers \/ reconcileExpiredIndexCandidates
    <2>1. /\ UNCHANGED <<wait, request>>
          /\ slots' = slots \/ slots' = Trim(slots, SlotTTL)
          /\ \/ \E read \in Reads : Sound(read) /\ WriteIndex(read)
             \/ index' = index /\ gaps' = gaps
      BY <1>4, WorkerStep
    <2>2. FreshSlots' = FreshSlots
      BY <1>1, <2>1, TrimEffect DEF FreshSlots
    <2>3. CASE \E read \in Reads : Sound(read) /\ WriteIndex(read)
      BY <2>3, IndexWritten
    <2>4. CASE index' = index /\ gaps' = gaps
      BY <1>2, <2>1, <2>2, <2>4, IndexKept
    <2> QED
      BY <2>1, <2>3, <2>4
  <1>5. CASE Tick
    <2>1. /\ Still /\ (index' = Gone => index = Gone)
          /\ \A q \in Requests : q \in FreshSlots' => q \in FreshSlots
          /\ wait' = [n |-> 0, age |-> 0] \/ wait' = [wait EXCEPT !.age = @ + 1]
          /\ "unindexed" \in gaps => "unindexed" \in gaps'
      BY <1>5, TickStep
    <2>2. wait'.n > 0 => wait.n > 0
      BY <1>1, <2>1 DEF RedisOK
    <2>3. FreshSlots' \subseteq FreshSlots
      BY <2>1 DEF FreshSlots, Fresh, Members
    <2> QED
      BY <1>2, <2>1, <2>2, <2>3, IndexKept DEF Still
  <1> QED
    BY <1>3, <1>4, <1>5

-----------------------------------------------------------------------------
(* The counter counts.                                                     *)

LEMMA WaitersFinite ==
  /\ Waiters \subseteq Requests /\ IsFiniteSet(Waiters) /\ Cardinality(Waiters) \in Nat
  <1>1. Waiters \subseteq Requests
    BY DEF Waiters
  <1> QED
    BY <1>1, FS_Subset, FS_CardinalityType

LEMMA CountSame ==
  ASSUME CountInv, NEW r \in Requests, Only(r), wait' = wait,
         "miscounted" \in gaps => "miscounted" \in gaps',
         \/ r \notin Waiters /\ r \notin Waiters'
         \/ r \in Waiters /\ r \in Waiters' /\ request'[r].waited = request[r].waited
  PROVE  CountInv'
  <1>1. \A q \in Requests : q # r => (q \in Waiters' <=> q \in Waiters)
    BY DEF Waiters, Is, Only
  <1>2. Waiters' \subseteq Requests /\ Waiters \subseteq Requests
    BY DEF Waiters
  <1>3. Waiters' = Waiters
    BY <1>1, <1>2
  <1>4. \A q \in Waiters : request'[q].waited = request[q].waited
    BY <1>2 DEF Only
  <1> QED
    BY <1>3, <1>4 DEF CountInv, WaitInv

LEMMA CountIn ==
  ASSUME RequestsOK', CountInv, NEW r \in Requests, Only(r), gaps \subseteq gaps',
         wait' = [n |-> wait.n + 1, age |-> 0], r \notin Waiters, r \in Waiters'
  PROVE  CountInv'
  <1>1. \A q \in Requests : q # r => (q \in Waiters' <=> q \in Waiters)
    BY DEF Waiters, Is, Only
  <1>2. Waiters' \subseteq Requests /\ Waiters \subseteq Requests
    BY DEF Waiters
  <1>3. Waiters' = Waiters \cup {r}
    BY <1>1, <1>2
  <1>4. Cardinality(Waiters') = Cardinality(Waiters) + 1
    BY <1>3, WaitersFinite, FS_AddElement
  <1>5. \A q \in Requests : request'[q].waited >= 0
    BY DEF RequestsOK, Reqs
  <1> QED
    BY <1>2, <1>4, <1>5 DEF CountInv, WaitInv

LEMMA CountOut ==
  ASSUME RedisOK, CountInv, NEW r \in Requests, Only(r), gaps' = gaps,
         wait' = Waiting(Uncounted(r), wait.age), r \in Waiters, r \notin Waiters'
  PROVE  CountInv'
  <1>1. \A q \in Requests : q # r => (q \in Waiters' <=> q \in Waiters)
    BY DEF Waiters, Is, Only
  <1>2. Waiters' \subseteq Requests /\ Waiters \subseteq Requests
    BY DEF Waiters
  <1>3. Waiters' = Waiters \ {r}
    BY <1>1, <1>2
  <1>4. /\ Cardinality(Waiters') = Cardinality(Waiters) - 1
        /\ Cardinality(Waiters) \in Nat /\ Cardinality(Waiters') \in Nat
    <2>1. Cardinality(Waiters \ {r}) = Cardinality(Waiters) - 1 /\ IsFiniteSet(Waiters \ {r})
      BY WaitersFinite, FS_RemoveElement
    <2>2. Cardinality(Waiters \ {r}) \in Nat
      BY <2>1, FS_CardinalityType
    <2> QED
      BY <1>3, <2>1, <2>2, WaitersFinite
  <1>5. SUFFICES ASSUME WaitInv
                 PROVE  WaitInv'
    BY DEF CountInv
  <1>6. wait.n > 0 /\ wait.n = Cardinality(Waiters) /\ wait.age \in Nat
    BY <1>4, <1>5 DEF WaitInv, RedisOK
  <1>7. /\ wait'.n = wait.n - 1
        /\ wait'.age \in {0, wait.age} /\ wait'.age <= wait.age
    BY <1>6 DEF Waiting, Uncounted
  <1>8. wait'.n = Cardinality(Waiters')
    BY <1>4, <1>6, <1>7
  <1>9. ASSUME NEW q \in Waiters'
        PROVE  wait'.age <= request'[q].waited
    <2>1. q \in Waiters /\ q # r /\ request'[q] = request[q]
      BY <1>2, <1>3 DEF Only
    <2>2. CASE wait'.age = wait.age
      BY <1>5, <2>1, <2>2 DEF WaitInv
    <2>3. CASE wait'.age # wait.age
      <3>1. wait'.n = 0
        BY <1>6, <1>7, <2>3 DEF Waiting, Uncounted
      <3>2. IsFiniteSet(Waiters')
        BY <1>3, WaitersFinite, FS_RemoveElement
      <3>3. Waiters' = {}
        BY <1>8, <3>1, <3>2, FS_EmptySet
      <3> QED
        BY <3>3
    <2> QED
      BY <2>2, <2>3
  <1> QED
    BY <1>8, <1>9 DEF WaitInv

LEMMA CountRequest ==
  ASSUME TypeInv, CountInv, NEW r \in Requests, RequestStep(r)
  PROVE  CountInv'
  <1>1. RedisOK /\ RequestsOK'
    BY NextType DEF TypeInv, Next
  <1>2. \A q \in Requests : /\ q \in Waiters <=>
                                 \/ request[q].at \in {"touchWait", "waiting", "dequeue"}
                                 \/ request[q].at = "touch" /\ request[q].next = "dequeue"
                            /\ q \in Waiters' <=>
                                 \/ request'[q].at \in {"touchWait", "waiting", "dequeue"}
                                 \/ request'[q].at = "touch" /\ request'[q].next = "dequeue"
    BY DEF Waiters, Is
  <1>3. ASSUME NEW x, gaps' = gaps \cup {x}
        PROVE  "miscounted" \in gaps => "miscounted" \in gaps'
    BY <1>3
  <1>4. CASE TryAcquire(r)
    BY <1>1, <1>2, <1>4, TryAcquireStep, AcquireEffect, CountSame DEF Is
  <1>5. CASE AcquireAgain(r)
    BY <1>1, <1>2, <1>5, AcquireAgainStep, AcquireEffect, CountSame DEF Is
  <1>6. CASE AcquireFails(r)
    <2>1. wait' = wait
      BY <1>1, <1>6, AcquireFailsStep, AcquireEffect DEF redis
    <2>2. "miscounted" \in gaps => "miscounted" \in gaps'
      BY <1>6, AcquireFailsStep DEF Note
    <2> QED
      BY <1>2, <1>6, <2>1, <2>2, AcquireFailsStep, CountSame DEF Is
  <1>7. CASE touchActiveIndexAt(r)
    <2>1. "miscounted" \in gaps => "miscounted" \in gaps'
      BY <1>7, TouchStep DEF Touched
    <2> QED
      BY <1>2, <1>7, <2>1, TouchStep, CountSame DEF Is
  <1>8. CASE TouchWaiting(r)
    <2>1. "miscounted" \in gaps => "miscounted" \in gaps'
      BY <1>8, TouchWaitingStep DEF Touched
    <2> QED
      BY <1>2, <1>8, <2>1, TouchWaitingStep, CountSame DEF Is
  <1>9. CASE IncrementWaitCount(r) \/ IncrementFails(r)
    <2>1. r \notin Waiters /\ Only(r) /\ gaps \subseteq gaps'
      BY <1>2, <1>9, EnqueueStep DEF Is
    <2>2. CASE request'[r].at = "over" /\ wait' = wait
      BY <1>2, <2>1, <2>2, CountSame
    <2>3. CASE /\ request'[r].at \in {"touchWait", "waiting"}
               /\ wait' = [n |-> wait.n + 1, age |-> 0]
      BY <1>1, <1>2, <2>1, <2>3, CountIn
    <2>4. CASE "miscounted" \in gaps'
      BY <2>4 DEF CountInv
    <2> QED
      BY <1>9, <2>2, <2>3, <2>4, EnqueueStep
  <1>10. CASE DecrementWaitCount(r)
    <2>1. /\ Only(r) /\ r \in Waiters
          /\ request'[r].at \in {"index", "running", "over"}
          /\ \/ gaps' = gaps /\ wait' = Waiting(Uncounted(r), wait.age)
             \/ "miscounted" \in gaps'
      BY <1>2, <1>10, DequeueStep DEF Is
    <2>2. CASE gaps' = gaps /\ wait' = Waiting(Uncounted(r), wait.age)
      BY <1>1, <1>2, <2>1, <2>2, CountOut
    <2>3. CASE "miscounted" \in gaps'
      BY <2>3 DEF CountInv
    <2> QED
      BY <2>1, <2>2, <2>3
  <1>11. CASE refreshActiveIndex(r)
    <2>1. "miscounted" \in gaps => "miscounted" \in gaps'
      BY <1>11, RefreshStep DEF WriteIndex, Note, Clear
    <2> QED
      BY <1>2, <1>11, <2>1, RefreshStep, CountSame DEF Is
  <1>12. CASE ReleaseUserSlot(r)
    <2>1. /\ Only(r) /\ wait' = wait /\ gaps' = gaps
          /\ request[r].at \in {"running", "create", "release"}
          /\ request'[r].at \in {"index", "talking", "over"}
      BY <1>12, ReleaseStep
    <2> QED
      BY <1>2, <2>1, CountSame
  <1>13. CASE AcquireLiveLease(r)
    <2>1. "miscounted" \in gaps => "miscounted" \in gaps'
      BY <1>13, LiveStep DEF acquireLiveLeaseScript, Note
    <2> QED
      BY <1>2, <1>13, <2>1, LiveStep, CountSame DEF Is
  <1>14. CASE CreateFails(r)
    BY <1>2, <1>14, CreateStep, CountSame DEF Is
  <1>15. CASE RefreshLiveLease(r) \/ finalizeLiveCall(r)
    BY <1>2, <1>15, TalkStep, CountSame DEF Is
  <1> QED
    BY <1>4, <1>5, <1>6, <1>7, <1>8, <1>9, <1>10, <1>11, <1>12, <1>13, <1>14, <1>15
       DEF RequestStep

LEMMA CountStill ==
  ASSUME CountInv, wait' = wait, "miscounted" \in gaps => "miscounted" \in gaps',
         UNCHANGED request
  PROVE  CountInv'
  BY DEF CountInv, WaitInv, Waiters, Is

LEMMA CountRest ==
  ASSUME TypeInv, CountInv,
         \/ \E p \in Processes : ProcessStep(p)
         \/ ReadExpiredMembers \/ reconcileExpiredIndexCandidates \/ Tick
  PROVE  CountInv'
  <1>1. RedisOK
    BY DEF TypeInv
  <1>2. \A q \in Requests : /\ q \in Waiters <=>
                                 \/ request[q].at \in {"touchWait", "waiting", "dequeue"}
                                 \/ request[q].at = "touch" /\ request[q].next = "dequeue"
                            /\ q \in Waiters' <=>
                                 \/ request'[q].at \in {"touchWait", "waiting", "dequeue"}
                                 \/ request'[q].at = "touch" /\ request'[q].next = "dequeue"
    BY DEF Waiters, Is
  <1>3. Waiters \subseteq Requests /\ Waiters' \subseteq Requests
    BY DEF Waiters
  <1>4. ASSUME Still
        PROVE  Waiters' = Waiters
    BY <1>2, <1>3, <1>4 DEF Still
  <1>5. ASSUME NEW p \in Processes, ProcessStep(p)
        PROVE  CountInv'
    <2>1. CASE CleanupStaleProcessSlots(p)
      BY <2>1, StaleStep, CountStill DEF redis
    <2>2. CASE startupCleanupSlotScript(p)
      <3>1. /\ Still /\ UNCHANGED <<wait, gaps>>
            /\ \A q \in Requests : request'[q].waited = request[q].waited
        BY <2>2, SweepStep
      <3> QED
        BY <1>3, <1>4, <3>1 DEF CountInv, WaitInv
    <2>3. CASE DeleteWaitKey(p)
      <3>1. /\ request' = request /\ wait' = [n |-> 0, age |-> 0]
            /\ Waiters # {} => "miscounted" \in gaps'
        BY <2>3, DeleteStep
      <3>2. Waiters = {} => Waiters' = {} /\ Cardinality(Waiters') = 0
        BY <3>1, FS_EmptySet DEF Waiters, Is
      <3> QED
        BY <3>1, <3>2 DEF CountInv, WaitInv
    <2>4. CASE WriteBackIndex(p)
      <3>1. "miscounted" \in gaps => "miscounted" \in gaps'
        BY <2>4, WriteBackStep DEF WriteIndex, Note, Clear
      <3> QED
        BY <2>4, <3>1, WriteBackStep, CountStill
    <2>5. CASE CleanupFails(p)
      BY <2>5, CleanupFailsStep, CountStill DEF redis
    <2>6. CASE Crash(p)
      <3>1. /\ wait' = wait /\ gaps \subseteq gaps'
            /\ \A q \in Requests :
                 \/ request'[q] = request[q]
                 \/ request'[q].at = "over" /\ (q \in Waiters => "miscounted" \in gaps')
        BY <2>6, CrashStep DEF redis
      <3>2. CASE "miscounted" \in gaps'
        BY <3>2 DEF CountInv
      <3>3. CASE "miscounted" \notin gaps'
        <4>1. \A q \in Requests : q \in Waiters' <=> q \in Waiters
          BY <1>2, <3>1, <3>3
        <4>2. Waiters' = Waiters
          BY <1>3, <4>1
        <4>3. \A q \in Waiters : request'[q] = request[q]
          BY <1>2, <1>3, <3>1, <3>3
        <4> QED
          BY <3>1, <3>3, <4>2, <4>3 DEF CountInv, WaitInv
      <3> QED
        BY <3>2, <3>3
    <2> QED
      BY <1>5, <2>1, <2>2, <2>3, <2>4, <2>5, <2>6 DEF ProcessStep
  <1>6. CASE ReadExpiredMembers \/ reconcileExpiredIndexCandidates
    <2>1. "miscounted" \in gaps => "miscounted" \in gaps'
      BY <1>6, WorkerStep DEF WriteIndex, Note, Clear
    <2> QED
      BY <1>6, <2>1, WorkerStep, CountStill
  <1>7. CASE Tick
    <2>1. /\ Still
          /\ \A q \in Requests : q \in Waiters =>
               /\ request[q].waited < WaitTimeout
               /\ request'[q].waited = request[q].waited + 1
          /\ \/ wait' = [n |-> 0, age |-> 0] /\ (wait.n = 0 \/ wait.age + 1 = WaitTTL)
             \/ wait' = [wait EXCEPT !.age = @ + 1]
          /\ gaps' = IF wait.n > 0 /\ wait'.n = 0 /\ Waiters = {}
                       THEN gaps \ {"miscounted"} ELSE gaps
      BY <1>7, TickStep
    <2>2. Waiters' = Waiters
      BY <1>4, <2>1
    <2>3. wait.n \in Nat /\ wait.age \in Nat /\ wait \in [n : 0..queueLimit, age : 0..(WaitTTL - 1)]
      BY <1>1 DEF RedisOK
    <2>4. \A q \in Requests : request[q].waited \in Nat
      BY DEF TypeInv, RequestsOK, Reqs
    <2>5. CASE wait.n > 0 /\ wait'.n = 0 /\ Waiters = {}
      <3>1. wait'.n = 0 /\ Cardinality(Waiters') = 0
        BY <2>2, <2>5, FS_EmptySet
      <3> QED
        BY <2>2, <2>5, <3>1 DEF CountInv, WaitInv
    <2>6. CASE gaps' = gaps
      <3>1. SUFFICES ASSUME WaitInv
                     PROVE  WaitInv'
        BY <2>6 DEF CountInv
      <3>2. CASE wait' = [wait EXCEPT !.age = @ + 1]
        <4>1. wait'.n = wait.n /\ wait'.age = wait.age + 1
          BY <2>3, <3>2
        <4>2. \A q \in Waiters : wait'.age <= request'[q].waited
          BY <1>3, <2>1, <2>3, <2>4, <3>1, <4>1 DEF WaitInv
        <4> QED
          BY <2>2, <3>1, <4>1, <4>2 DEF WaitInv
      <3>3. CASE wait' = [n |-> 0, age |-> 0] /\ wait.n = 0
        <4>1. Cardinality(Waiters') = 0 /\ Waiters = {}
          BY <2>2, <3>1, <3>3, WaitersFinite, FS_EmptySet DEF WaitInv
        <4> QED
          BY <2>2, <3>3, <4>1 DEF WaitInv
      <3>4. CASE wait' = [n |-> 0, age |-> 0] /\ wait.age + 1 = WaitTTL /\ wait.n # 0
        <4>1. Waiters # {}
          BY <3>1, <3>4, FS_EmptySet DEF WaitInv
        <4>2. PICK q \in Waiters : wait.age <= request[q].waited
          BY <3>1, <4>1 DEF WaitInv
        <4>3. request[q].waited < WaitTimeout
          BY <1>3, <2>1
        <4> QED
          BY <1>3, <2>3, <2>4, <3>4, <4>2, <4>3
      <3> QED
        BY <2>1, <3>2, <3>3, <3>4
    <2> QED
      BY <2>1, <2>5, <2>6
  <1> QED
    BY <1>5, <1>6, <1>7

-----------------------------------------------------------------------------
(* The limit holds.                                                        *)

LEMMA CountedFinite ==
  /\ Counted = FreshSlots \cup Members(live)
  /\ Counted \subseteq Requests /\ IsFiniteSet(Counted) /\ Cardinality(Counted) \in Nat
  /\ IsFiniteSet(FreshSlots) /\ Cardinality(FreshSlots) \in Nat
  /\ IsFiniteSet(Members(live)) /\ Cardinality(Members(live)) \in Nat
  <1>1. FreshSlots \subseteq Requests /\ Members(live) \subseteq Requests
    BY DEF FreshSlots, Fresh, Members
  <1>2. Counted = FreshSlots \cup Members(live)
    BY DEF Counted, FreshSlots
  <1>3. IsFiniteSet(Counted) /\ IsFiniteSet(FreshSlots) /\ IsFiniteSet(Members(live))
    BY <1>1, <1>2, FS_Subset
  <1> QED
    BY <1>1, <1>2, <1>3, FS_CardinalityType

LEMMA CountedIff ==
  \A q \in Requests : /\ q \in Counted <=> q \in FreshSlots \/ live[q] # Gone
                      /\ q \in Counted' <=> q \in FreshSlots' \/ live'[q] # Gone
  BY DEF Counted, FreshSlots, Members

\* A step that counts nobody anew.
LEMMA LimitKept ==
  ASSUME LimitHolds, "unbacked" \in gaps => "unbacked" \in gaps',
         \A q \in Requests : q \in Counted' => q \in Counted
  PROVE  LimitHolds'
  <1>1. Counted \subseteq Requests /\ IsFiniteSet(Counted) /\ Cardinality(Counted) \in Nat
    BY CountedFinite
  <1>2. Counted' \subseteq Requests
    BY DEF Counted, Fresh, Members
  <1>3. Counted' \subseteq Counted
    BY <1>2
  <1>4. Cardinality(Counted') <= Cardinality(Counted) /\ Cardinality(Counted') \in Nat
    BY <1>1, <1>3, FS_Subset, FS_CardinalityType
  <1> QED
    BY <1>1, <1>4 DEF LimitHolds

\* The script counts both sets and adds one member.
LEMMA LimitAcquire ==
  ASSUME RedisOK, LimitHolds, NEW r \in Requests, acquireScript(r),
         "unbacked" \in gaps => "unbacked" \in gaps'
  PROVE  LimitHolds'
  <1> DEFINE s == Trim(slots, SlotTTL)
  <1>1. Members(s) = FreshSlots
    BY TrimSlots
  <1>2. /\ live' = live
        /\ \A q \in Requests : q # r => (q \in FreshSlots' <=> q \in FreshSlots)
        /\ ~Acquired(r) => FreshSlots' = FreshSlots
    BY AcquireEffect
  <1>3. CASE ~Acquired(r)
    BY <1>2, <1>3, CountedIff, LimitKept
  <1>4. CASE Acquired(r) /\ ~HasRoom(s, live)
    <2>1. slots' = s
      BY <1>4 DEF acquireScript
    <2>2. FreshSlots' = FreshSlots
      BY <2>1, TrimEffect
    <2> QED
      BY <1>2, <2>2, CountedIff, LimitKept
  <1>5. CASE HasRoom(s, live)
    <2>1. Cardinality(FreshSlots) + Cardinality(Members(live)) < maxConcurrency
      BY <1>1, <1>5 DEF HasRoom, ZCard
    <2>2. Cardinality(Counted) <= Cardinality(FreshSlots) + Cardinality(Members(live))
      <3>1. Cardinality(FreshSlots \cup Members(live)) = Cardinality(FreshSlots)
              + Cardinality(Members(live)) - Cardinality(FreshSlots \cap Members(live))
        BY CountedFinite, FS_Union
      <3>2. Cardinality(FreshSlots \cap Members(live)) \in Nat
        BY CountedFinite, FS_Subset, FS_CardinalityType
      <3> QED
        BY <3>1, <3>2, CountedFinite
    <2>3. Counted' \subseteq Requests /\ Counted \subseteq Requests
      BY DEF Counted, Fresh, Members
    <2>4. Counted' \subseteq Counted \cup {r}
      <3>1. \A q \in Requests : q # r /\ q \in Counted' => q \in Counted
        BY <1>2, CountedIff
      <3> QED
        BY <2>3, <3>1
    <2>5. /\ IsFiniteSet(Counted \cup {r})
          /\ Cardinality(Counted \cup {r}) <= Cardinality(Counted) + 1
      <3>1. IsFiniteSet(Counted) /\ Cardinality(Counted) \in Nat
        BY CountedFinite
      <3>2. /\ IsFiniteSet(Counted \cup {r})
            /\ Cardinality(Counted \cup {r}) =
                 IF r \in Counted THEN Cardinality(Counted) ELSE Cardinality(Counted) + 1
        BY <3>1, FS_AddElement
      <3> QED
        BY <3>1, <3>2
    <2>6. /\ Cardinality(Counted') <= Cardinality(Counted \cup {r})
          /\ Cardinality(Counted') \in Nat /\ Cardinality(Counted \cup {r}) \in Nat
      BY <2>4, <2>5, FS_Subset, FS_CardinalityType
    <2>7. Cardinality(Counted') <= maxConcurrency
      BY <2>1, <2>2, <2>5, <2>6, CountedFinite
    <2> QED
      BY <2>7 DEF LimitHolds
  <1> QED
    BY <1>3, <1>4, <1>5

LEMMA LimitRequest ==
  ASSUME TypeInv, LimitHolds, NEW r \in Requests, RequestStep(r)
  PROVE  LimitHolds'
  <1>1. RedisOK
    BY DEF TypeInv
  <1>2. ASSUME slots' = slots, live' = live, "unbacked" \in gaps => "unbacked" \in gaps'
        PROVE  LimitHolds'
    <2>1. Counted' = Counted
      BY <1>2 DEF Counted, Fresh, Members
    <2> QED
      BY <1>2, <2>1, LimitKept
  <1>3. CASE TryAcquire(r)
    BY <1>1, <1>3, TryAcquireStep, LimitAcquire
  <1>4. CASE AcquireAgain(r)
    BY <1>1, <1>4, AcquireAgainStep, LimitAcquire
  <1>5. CASE AcquireFails(r)
    <2>1. "unbacked" \in gaps => "unbacked" \in gaps'
      BY <1>5, AcquireFailsStep DEF Note
    <2>2. CASE acquireScript(r)
      BY <1>1, <2>1, <2>2, LimitAcquire
    <2>3. CASE UNCHANGED redis
      BY <1>2, <2>1, <2>3 DEF redis
    <2> QED
      BY <1>5, <2>2, <2>3, AcquireFailsStep
  <1>6. CASE touchActiveIndexAt(r) \/ TouchWaiting(r)
    <2>1. "unbacked" \in gaps => "unbacked" \in gaps'
      BY <1>6, TouchStep, TouchWaitingStep DEF Touched
    <2> QED
      BY <1>2, <1>6, <2>1, TouchStep, TouchWaitingStep
  <1>7. CASE IncrementWaitCount(r) \/ IncrementFails(r)
    <2>1. "unbacked" \in gaps => "unbacked" \in gaps'
      BY <1>7, EnqueueStep
    <2> QED
      BY <1>2, <1>7, <2>1, EnqueueStep
  <1>8. CASE DecrementWaitCount(r)
    <2>1. /\ live' = live /\ slots' \in {slots, Trim(slots, SlotTTL)}
          /\ "unbacked" \in gaps => "unbacked" \in gaps'
      BY <1>8, DequeueStep
    <2>2. FreshSlots' = FreshSlots
      BY <1>1, <2>1, TrimEffect DEF FreshSlots
    <2> QED
      BY <2>1, <2>2, CountedIff, LimitKept
  <1>9. CASE refreshActiveIndex(r)
    <2>1. "unbacked" \in gaps => "unbacked" \in gaps'
      BY <1>9, RefreshStep DEF WriteIndex, Note, Clear
    <2> QED
      BY <1>2, <1>9, <2>1, RefreshStep
  <1>10. CASE ReleaseUserSlot(r)
    <2>1. /\ live' = live /\ gaps' = gaps
          /\ slots' = slots \/ slots' = ZRem(Trim(slots, SlotTTL), r)
      BY <1>10, ReleaseStep
    <2>2. FreshSlots' \subseteq FreshSlots
      <3>1. CASE slots' = slots
        BY <3>1 DEF FreshSlots
      <3>2. CASE slots' = ZRem(Trim(slots, SlotTTL), r)
        BY <1>1, <3>2, RemEffect
      <3> QED
        BY <2>1, <3>1, <3>2
    <2> QED
      BY <2>1, <2>2, CountedIff, LimitKept
  <1>11. CASE AcquireLiveLease(r)
    <2>1. /\ slots' = slots
          /\ live' = live \/ live' = ZAdd(live, r)
          /\ acquireLiveLeaseScript(r)
      BY <1>11, LiveStep
    <2>2. "unbacked" \in gaps => "unbacked" \in gaps'
      BY <2>1 DEF acquireLiveLeaseScript, Note
    <2>3. CASE live' = live
      BY <1>2, <2>1, <2>2, <2>3
    <2>4. CASE live' # live /\ r \notin FreshSlots
      <3>1. "unbacked" \in gaps'
        BY <2>1, <2>4 DEF acquireLiveLeaseScript, Note, FreshSlots
      <3> QED
        BY <3>1 DEF LimitHolds
    <2>5. CASE live' = ZAdd(live, r) /\ r \in FreshSlots
      <3>1. \A q \in Requests : q # r => live'[q] = live[q]
        BY <1>1, <2>5, LiveSet
      <3>2. FreshSlots' = FreshSlots
        BY <2>1 DEF FreshSlots
      <3> QED
        BY <2>2, <2>5, <3>1, <3>2, CountedIff, LimitKept
    <2> QED
      BY <2>1, <2>3, <2>4, <2>5
  <1>12. CASE CreateFails(r)
    <2>1. /\ slots' = slots /\ gaps' = gaps
          /\ \A q \in Requests : live'[q] # Gone => live[q] # Gone
      BY <1>1, <1>12, CreateStep, LiveSet
    <2> QED
      BY <2>1, CountedIff, LimitKept DEF FreshSlots
  <1>13. CASE RefreshLiveLease(r) \/ finalizeLiveCall(r)
    <2>1. /\ slots' = slots /\ gaps' = gaps
          /\ \A q \in Requests : live'[q] # Gone => live[q] # Gone
      BY <1>1, <1>13, TalkStep, LiveSet
    <2> QED
      BY <2>1, CountedIff, LimitKept DEF FreshSlots
  <1> QED
    BY <1>3, <1>4, <1>5, <1>6, <1>7, <1>8, <1>9, <1>10, <1>11, <1>12, <1>13
       DEF RequestStep

LEMMA LimitRest ==
  ASSUME TypeInv, LimitHolds,
         \/ \E p \in Processes : ProcessStep(p)
         \/ ReadExpiredMembers \/ reconcileExpiredIndexCandidates \/ Tick
  PROVE  LimitHolds'
  <1>1. RedisOK
    BY DEF TypeInv
  <1>2. ASSUME slots' = slots, live' = live, "unbacked" \in gaps => "unbacked" \in gaps'
        PROVE  LimitHolds'
    <2>1. Counted' = Counted
      BY <1>2 DEF Counted, Fresh, Members
    <2> QED
      BY <1>2, <2>1, LimitKept
  <1>3. ASSUME NEW p \in Processes, ProcessStep(p)
        PROVE  LimitHolds'
    <2>1. CASE CleanupStaleProcessSlots(p)
      BY <1>2, <2>1, StaleStep DEF redis
    <2>2. CASE startupCleanupSlotScript(p)
      <3>1. /\ live' = live /\ gaps' = gaps
            /\ \A q \in Requests : slots'[q] \in {slots[q], Gone}
        BY <2>2, SweepStep
      <3>2. \A q \in Requests : q \in FreshSlots' => q \in FreshSlots
        BY <3>1 DEF FreshSlots, Fresh, Members
      <3> QED
        BY <3>1, <3>2, CountedIff, LimitKept
    <2>3. CASE DeleteWaitKey(p)
      BY <1>2, <2>3, DeleteStep
    <2>4. CASE WriteBackIndex(p)
      <3>1. "unbacked" \in gaps => "unbacked" \in gaps'
        BY <2>4, WriteBackStep DEF WriteIndex, Note, Clear
      <3> QED
        BY <1>2, <2>4, <3>1, WriteBackStep
    <2>5. CASE CleanupFails(p)
      BY <1>2, <2>5, CleanupFailsStep DEF redis
    <2>6. CASE Crash(p)
      <3>1. slots' = slots /\ live' = live /\ gaps \subseteq gaps'
        BY <2>6, CrashStep DEF redis
      <3> QED
        BY <1>2, <3>1
    <2> QED
      BY <1>3, <2>1, <2>2, <2>3, <2>4, <2>5, <2>6 DEF ProcessStep
  <1>4. CASE ReadExpiredMembers \/ reconcileExpiredIndexCandidates
    <2>1. live' = live /\ (slots' = slots \/ slots' = Trim(slots, SlotTTL))
      BY <1>4, WorkerStep
    <2>2. FreshSlots' = FreshSlots
      BY <1>1, <2>1, TrimEffect DEF FreshSlots
    <2>3. "unbacked" \in gaps => "unbacked" \in gaps'
      BY <1>4, WorkerStep DEF WriteIndex, Note, Clear
    <2> QED
      BY <2>1, <2>2, <2>3, CountedIff, LimitKept
  <1>5. CASE Tick
    <2>1. \A q \in Requests : q \in Counted' => q \in Counted
      BY <1>5, TickStep, CountedIff
    <2>2. "unbacked" \in gaps => "unbacked" \in gaps'
      BY <1>5, TickStep
    <2> QED
      BY <2>1, <2>2, LimitKept
  <1> QED
    BY <1>3, <1>4, <1>5

-----------------------------------------------------------------------------
(* The invariant.                                                          *)

LEMMA InitInv == Init => IInv
  <1> SUFFICES ASSUME Init
               PROVE  IInv
    OBVIOUS
  <1>1. TypeInv
    BY InitType
  <1>2. /\ \A r \in Requests : slots[r] = Gone /\ live[r] = Gone /\ request[r].at = "idle"
        /\ wait.n = 0 /\ gaps = {}
        /\ \A p \in Processes : process[p].is \in {"up", "off"} /\ process[p].dead = {}
    <2>1. \A r \in Requests : slots[r] = Gone /\ live[r] = Gone /\ request[r] = Idle
      BY DEF Init, Nobody
    <2>2. wait.n = 0 /\ gaps = {}
      BY DEF Init
    <2>3. \A p \in Processes : process[p] \in {[Off EXCEPT !.is = "up"], Off}
      BY DEF Init
    <2>4. /\ [Off EXCEPT !.is = "up"].is = "up" /\ [Off EXCEPT !.is = "up"].dead = {}
          /\ Off.is = "off" /\ Off.dead = {}
      BY DEF Off
    <2> QED
      BY <2>1, <2>2, <2>3, <2>4, IdleFields
  <1>3. Waiters = {} /\ FreshSlots = {} /\ Members(live) = {} /\ Counted = {}
    BY <1>2 DEF Waiters, Is, FreshSlots, Fresh, Members, Counted
  <1>4. HoldInv /\ LeakInv
    BY <1>2 DEF HoldInv, LeakInv, Backed, Clean, SlotUser, LeaseUser, Is
  <1>5. DeadInv
    BY <1>2 DEF DeadInv, DeadAreSwept
  <1>6. IndexFollowsLoad
    BY <1>2, <1>3 DEF IndexFollowsLoad, Load, FreshSlots
  <1>7. CountInv /\ LimitHolds
    <2>1. Cardinality(Waiters) = 0 /\ Cardinality(Counted) = 0
      BY <1>3, FS_EmptySet
    <2> QED
      BY <1>2, <1>3, <2>1 DEF CountInv, WaitInv, LimitHolds
  <1> QED
    BY <1>1, <1>4, <1>5, <1>6, <1>7 DEF IInv

LEMMA SameInv == IInv /\ UNCHANGED vars => IInv'
  <1> SUFFICES ASSUME IInv, UNCHANGED vars
               PROVE  IInv'
    OBVIOUS
  <1>1. UNCHANGED <<slots, live, wait, index, request, process, worker, faults, gaps>>
    BY DEF vars, redis, procs
  <1>2. TypeInv'
    BY NextType DEF IInv
  <1>3. HoldInv' /\ LeakInv'
    BY <1>1 DEF IInv, HoldInv, LeakInv, Backed, Clean, SlotUser, LeaseUser, Is, FreshSlots,
                Fresh, Members
  <1>4. DeadInv'
    BY <1>1 DEF IInv, DeadInv, DeadAreSwept, Dead
  <1>5. IndexFollowsLoad'
    BY <1>1 DEF IInv, IndexFollowsLoad, Load, Fresh, Members
  <1>6. CountInv' /\ LimitHolds'
    BY <1>1 DEF IInv, CountInv, WaitInv, Waiters, Is, LimitHolds, Counted, Fresh, Members
  <1> QED
    BY <1>2, <1>3, <1>4, <1>5, <1>6 DEF IInv

LEMMA NextInv == IInv /\ [Next]_vars => IInv'
  <1> SUFFICES ASSUME IInv, [Next]_vars
               PROVE  IInv'
    OBVIOUS
  <1>1. /\ TypeInv /\ HoldInv /\ LeakInv /\ DeadInv
        /\ IndexFollowsLoad /\ CountInv /\ LimitHolds
    BY DEF IInv
  <1>2. TypeInv'
    BY <1>1, NextType
  <1>3. ASSUME NEW r \in Requests, RequestStep(r)
        PROVE  IInv'
    BY <1>1, <1>2, <1>3, HoldRequest, LeakRequest, DeadRequest, IndexRequest, CountRequest,
       LimitRequest DEF IInv
  <1>4. CASE \/ \E p \in Processes : ProcessStep(p)
             \/ ReadExpiredMembers \/ reconcileExpiredIndexCandidates \/ Tick
    <2>1. DeadInv'
      BY <1>1, <1>4, DeadProcess, DeadRest
    <2>2. HoldInv' /\ LeakInv'
      BY <1>1, <1>4, HoldRest
    <2>3. IndexFollowsLoad' /\ CountInv' /\ LimitHolds'
      BY <1>1, <1>4, IndexRest, CountRest, LimitRest
    <2> QED
      BY <1>2, <2>1, <2>2, <2>3 DEF IInv
  <1>5. CASE UNCHANGED vars
    BY <1>5, SameInv
  <1> QED
    BY <1>3, <1>4, <1>5 DEF Next

LEMMA Invariant == Spec => []IInv
  BY InitInv, NextInv, PTL DEF Spec

-----------------------------------------------------------------------------
\* Every reachable state has its type: no more wait than the queue limit, no wait
\* is longer than its timeout, and a lease in Redis has not expired.
THEOREM TypeCorrect == Spec => []TypeOK
  <1>1. IInv => TypeOK
    BY DEF IInv, TypeInv, RedisOK, RequestsOK, ProcsOK, RestOK, Reqs, Procs, TypeOK
  <1> QED
    BY <1>1, Invariant, PTL

\* Slots and Live leases together stay within the limit that acquireScript and
\* acquireLiveLeaseScript check, unless a lease was taken for a slot already gone.
THEOREM WithinLimit == Spec => []LimitHolds
  <1>1. IInv => LimitHolds
    BY DEF IInv
  <1> QED
    BY <1>1, Invariant, PTL

\* A session that goes on is counted, from the slot to the lease that replaces it,
\* unless its place was taken away under it (ReleaseUserSlot gives a slot back only
\* for a session that is over, or that has its lease).
THEOREM SessionCounted == Spec => []RunningIsCounted
  <1>1. IInv => RunningIsCounted
    <2> SUFFICES ASSUME IInv, NEW r \in Running, r \notin Counted
                 PROVE  request[r].lost
      BY DEF RunningIsCounted
    <2>1. r \in Requests
      BY DEF Running
    <2>2. SlotUser(r) \/ LeaseUser(r)
      BY <2>1 DEF Running, InSession, SlotUser, LeaseUser, Is
    <2>3. r \notin FreshSlots /\ live[r] = Gone
      BY <2>1, CountedIff
    <2>4. Backed(r)
      BY <2>1 DEF IInv, HoldInv
    <2> QED
      BY <2>2, <2>3, <2>4 DEF Backed
  <1> QED
    BY <1>1, Invariant, PTL

\* The counter incrementWaitScript checks is the number of requests that wait:
\* its key outlives the longest wait, so it never expires under one.
THEOREM WaitCounted == Spec => []WaitCountIsTrue
  <1>1. IInv => WaitCountIsTrue
    <2> SUFFICES ASSUME IInv, "miscounted" \notin gaps
                 PROVE  wait.n = Cardinality(Waiters) /\ wait.n <= queueLimit
      BY DEF WaitCountIsTrue
    <2>1. wait.n \in 0..queueLimit
      BY DEF IInv, TypeInv, RedisOK
    <2> QED
      BY <2>1 DEF IInv, CountInv, WaitInv
  <1> QED
    BY <1>1, Invariant, PTL

\* Whoever holds load is in the active index, and what CleanupStaleProcessSlots
\* finds there of the dead is swept before its process serves.
THEOREM DeadFound == Spec => []DeadAreFound
  <1>1. IInv => DeadAreFound
    BY DEF IInv, DeadInv, DeadAreFound
  <1> QED
    BY <1>1, Invariant, PTL

\* A request that is over holds nothing, on every path on which no call failed
\* (ReleaseUserSlot, CreateFails, finalizeLiveCall).
THEOREM NoLeak == Spec => []NothingLeaks
  <1>1. IInv => NothingLeaks
    BY DEF IInv, LeakInv, Clean, SlotUser, LeaseUser, Is, NothingLeaks
  <1> QED
    BY <1>1, Invariant, PTL
=============================================================================
