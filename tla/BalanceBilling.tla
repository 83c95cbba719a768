---------------------------- MODULE BalanceBilling ----------------------------
(***************************************************************************)
(* The requests of one user billed from the balance: two reads of the      *)
(* cached balance, the in-flight reservation, the handler, and the usage   *)
(* task that deducts, corrects the cache and returns the last reference.   *)
(* All requests run in one process, which may restart; the database and    *)
(* Redis stay.                                                             *)
(*                                                                         *)
(* pc[r] follows the handler of r, task[r] its usage task.  A tick is the  *)
(* renewal interval.                                                       *)
(***************************************************************************)
EXTENDS Integers, FiniteSets, FiniteSetsExt

CONSTANTS Requests,
          StartBalance,  \* the balance before the first request
          MaxEst,        \* the highest estimate of a request
          MaxCost,       \* the highest cost of a request
          QueueSize,     \* capacity of the cache write queue
          TTL,           \* how long a reservation lives, in ticks
          MaxFaults,     \* bound: failed calls, stalls and restarts
          NoBalance      \* no cached balance, no load under way

Balances == (StartBalance - MaxCost * Cardinality(Requests))..StartBalance

ASSUME BillingAssumption ==
    /\ IsFiniteSet(Requests)
    /\ StartBalance \in Nat /\ MaxEst \in Nat \ {0} /\ MaxCost \in Nat
    /\ QueueSize \in Nat
    /\ TTL \in Nat /\ TTL >= 2 /\ MaxFaults \in Nat
    /\ NoBalance \notin Int

VARIABLES pc, task,
          est,      \* the estimated cost, guessed and capped: what is reserved
          cost,     \* the actual cost, which only the usage task learns
          bal,      \* the balance r brings to the reservation script
          db,       \* users.balance
          beyond,   \* by how much requests billed cost more than estimated
          cache,    \* the balance in Redis, or NoBalance
          flight,   \* what the load under way has read, or NoBalance
          sets,     \* queued cache writes of a loaded balance, by balance
          deducts,  \* requests whose deduction of the cache is queued
          left,     \* ticks until the reservation expires; 0: there is none
          renewed,  \* reservations renewed in this tick
          since,    \* ticks a reservation has outlived its handler
          faults,
          missed,   \* requests that got no reservation, or missed a renewal
          blind,    \* a request was admitted that the script could not judge
          raced     \* a deduction met a load that had read the old balance

reqVars   == <<pc, task, est, cost, bal>>
dbVars    == <<db, beyond>>
cacheVars == <<cache, flight, sets, deducts>>
holdVars  == <<left, renewed, since>>
ghosts    == <<missed, blind, raced>>
vars      == <<reqVars, dbVars, cacheVars, holdVars, faults, ghosts>>

Arriving == {"check", "checkLoad", "read", "readLoad", "reserve"}
\* Handlers that have returned.
Returned == {"ended", "release", "over", "gone"}
PCs      == {"refused", "run"} \cup Arriving \cup Returned

TypeOK ==
    /\ pc \in [Requests -> PCs]
    /\ task \in [Requests -> {"none", "queued", "deduct", "invalidate", "done"}]
    /\ est \in [Requests -> 0..MaxEst] /\ cost \in [Requests -> 0..MaxCost]
    /\ bal \in [Requests -> Int]
    /\ db \in Balances /\ beyond \in Nat
    /\ cache \in Int \cup {NoBalance} /\ flight \in Balances \cup {NoBalance}
    /\ sets \in [Balances -> Nat] /\ deducts \subseteq Requests
    /\ left \in [Requests -> 0..TTL] /\ since \in [Requests -> 0..TTL]
    /\ renewed \subseteq Requests /\ missed \subseteq Requests
    /\ faults \in 0..MaxFaults
    /\ blind \in BOOLEAN /\ raced \in BOOLEAN

Init ==
    /\ pc = [r \in Requests |-> "check"] /\ task = [r \in Requests |-> "none"]
    /\ est \in [Requests -> 1..MaxEst] /\ cost \in [Requests -> 1..MaxCost]
    /\ bal = [r \in Requests |-> 0]
    /\ db = StartBalance /\ beyond = 0
    /\ cache \in {StartBalance, NoBalance} /\ flight = NoBalance
    /\ sets = [b \in Balances |-> 0] /\ deducts = {}
    /\ left = [r \in Requests |-> 0] /\ since = [r \in Requests |-> 0]
    /\ renewed = {} /\ faults = MaxFaults
    /\ missed = {} /\ blind = FALSE /\ raced = FALSE

SumOf(f, S) == MapThenSumSet(LAMBDA r : f[r], S)

Held == {r \in Requests : left[r] > 0}

SpendFault == faults > 0 /\ faults' = faults - 1

GoTo(r, step) ==
    /\ pc' = [pc EXCEPT ![r] = step]
    /\ UNCHANGED <<task, est, cost, bal>>

TaskTo(r, step) ==
    /\ task' = [task EXCEPT ![r] = step]
    /\ UNCHANGED <<pc, est, cost, bal>>

\* The handler goes on, or the request is over; bal is read no more.
Leave(r, step) ==
    /\ pc' = [pc EXCEPT ![r] = step] /\ bal' = [bal EXCEPT ![r] = 0]
    /\ UNCHANGED <<task, est, cost>>

-----------------------------------------------------------------------------
(* Admission.                                                              *)

\* checkBalanceEligibility, then reserveInflight, each with its own read.
AfterRead(step, b) ==
    CASE step \in {"check", "checkLoad"} -> IF b > 0 THEN "read" ELSE "refused"
      [] OTHER -> "reserve"

\* Only the second read is kept.
Kept(r, step, b) == IF AfterRead(step, b) = "reserve" THEN b ELSE bal[r]

ReadCache(r) ==
    /\ pc[r] \in {"check", "read"} /\ cache # NoBalance
    /\ pc' = [pc EXCEPT ![r] = AfterRead(@, cache)]
    /\ bal' = [bal EXCEPT ![r] = Kept(r, pc[r], cache)]
    /\ UNCHANGED <<task, est, cost, dbVars, cacheVars, holdVars, faults, ghosts>>

\* There is no cached balance, or Redis fails.
MissCache(r) ==
    /\ pc[r] \in {"check", "read"}
    /\ \/ cache = NoBalance /\ UNCHANGED faults
       \/ cache # NoBalance /\ SpendFault
    /\ GoTo(r, IF pc[r] = "check" THEN "checkLoad" ELSE "readLoad")
    /\ UNCHANGED <<dbVars, cacheVars, holdVars, ghosts>>

Loading == {r \in Requests : pc[r] \in {"checkLoad", "readLoad"}}

\* The one load that singleflight lets through reads the database.
LoadBalance ==
    /\ Loading # {} /\ flight = NoBalance
    /\ flight' = db
    /\ UNCHANGED <<reqVars, dbVars, cache, sets, deducts, holdVars, faults, ghosts>>

QueueFull == SumOf(sets, Balances) + Cardinality(deducts) >= QueueSize

\* It queues the cache write, unless the queue is full, and every request
\* that waits for it goes on with its result.
LoadReturns ==
    /\ flight # NoBalance /\ flight' = NoBalance
    /\ sets' = IF QueueFull THEN sets ELSE [sets EXCEPT ![flight] = @ + 1]
    /\ pc' = [r \in Requests |-> IF r \in Loading THEN AfterRead(pc[r], flight) ELSE pc[r]]
    /\ bal' = [r \in Requests |-> IF r \in Loading THEN Kept(r, pc[r], flight) ELSE bal[r]]
    /\ UNCHANGED <<task, est, cost, dbVars, cache, deducts, holdVars, faults, ghosts>>

\* A failed check refuses; a failed read before the reservation admits.
LoadFails ==
    /\ Loading # {} /\ flight = NoBalance /\ SpendFault
    /\ LET admitted == {r \in Loading : pc[r] = "readLoad"} IN
       /\ pc' = [r \in Requests |-> IF r \notin Loading THEN pc[r]
                                    ELSE IF r \in admitted THEN "run" ELSE "refused"]
       /\ missed' = missed \cup admitted /\ blind' = (blind \/ admitted # {})
    /\ UNCHANGED <<task, est, cost, bal, dbVars, cacheVars, holdVars, raced>>

\* Mutant: the estimate of the request itself is left out.
RoomLeft(r) == bal[r] - SumOf(est, Held) >= 0

\* The condition of reserveInflightBalanceScript.
Room(r) == bal[r] - SumOf(est, Held) >= est[r]

\* Admitted, and not yet billed.
Owing == {r \in Requests : pc[r] \in {"run", "ended"} /\ task[r] \in {"none", "queued"}}

\* Billed, and still counted by the script.
Landing == {r \in Held : task[r] \notin {"none", "queued"}}

\* The balance is no older than what has been billed and released since, a
\* request alone has one, and all that is owed is reserved.
Judged(r) ==
    /\ bal[r] \in 1..(db + SumOf(cost, Landing))
    /\ Owing \subseteq Held

Reserve(r) ==
    /\ pc[r] = "reserve"
    /\ IF Held = {} \/ Room(r)
         THEN /\ Leave(r, "run")
              /\ left' = [left EXCEPT ![r] = TTL] /\ renewed' = renewed \cup {r}
              /\ blind' = (blind \/ ~Judged(r))
         ELSE Leave(r, "refused") /\ UNCHANGED <<left, renewed, blind>>
    /\ UNCHANGED <<dbVars, cacheVars, since, faults, missed, raced>>

\* Redis fails, or its answer is lost: the request is admitted, and the
\* reservation it may have is nobody's.
ReserveFails(r) ==
    /\ pc[r] = "reserve" /\ SpendFault
    /\ Leave(r, "run")
    /\ left' \in {left, [left EXCEPT ![r] = TTL]}
    /\ missed' = missed \cup {r} /\ blind' = TRUE
    /\ UNCHANGED <<dbVars, cacheVars, renewed, since, raced>>

-----------------------------------------------------------------------------
(* The handler and its reservation.                                        *)

Renewing(r) == pc[r] = "run"

Renew(r) ==
    /\ Renewing(r) /\ left[r] > 0 /\ r \notin renewed
    /\ left' = [left EXCEPT ![r] = TTL] /\ renewed' = renewed \cup {r}
    /\ UNCHANGED <<reqVars, dbVars, cacheVars, since, faults, ghosts>>

\* The usage task takes a reference and is queued.
SubmitUsage(r) ==
    /\ pc[r] = "run" /\ task[r] = "none"
    /\ TaskTo(r, "queued")
    /\ UNCHANGED <<dbVars, cacheVars, holdVars, faults, ghosts>>

\* Mutant: the handler releases whatever its task still has to do.
HandlerReleases(r) == TRUE

\* No usage task holds a reference.
LastReference(r) == task[r] \in {"none", "done"}

HandlerDone(r) ==
    /\ pc[r] = "run"
    /\ GoTo(r, IF LastReference(r) THEN "release" ELSE "ended")
    /\ renewed' = renewed \ {r}
    /\ UNCHANGED <<dbVars, cacheVars, left, since, faults, ghosts>>

\* Who returned the last reference removes the reservation; if Redis fails,
\* it is left to expire, its amount counted until then.
Release(r) ==
    /\ pc[r] = "release" /\ pc' = [pc EXCEPT ![r] = "over"]
    /\ \/ /\ left' = [left EXCEPT ![r] = 0]
          /\ est' = [est EXCEPT ![r] = 0] /\ cost' = [cost EXCEPT ![r] = 0]
          /\ UNCHANGED faults
       \/ SpendFault /\ UNCHANGED <<left, est, cost>>
    /\ UNCHANGED <<task, bal, dbVars, cacheVars, renewed, since, ghosts>>

-----------------------------------------------------------------------------
(* The usage task.                                                         *)

\* By how much r costs more than was reserved for it.
Beyond(r) == IF cost[r] > est[r] THEN cost[r] - est[r] ELSE 0

\* The transaction of Apply takes what the request did cost; it may overdraw.
Deduct(r) == db' = db - cost[r] /\ beyond' = beyond + Beyond(r)

ApplyBilling(r) ==
    /\ task[r] = "queued"
    /\ Deduct(r)
    /\ TaskTo(r, IF db' <= 0 THEN "invalidate" ELSE "deduct")
    /\ raced' = (raced \/ flight # NoBalance \/ \E b \in Balances : sets[b] > 0)
    /\ UNCHANGED <<cacheVars, holdVars, faults, missed, blind>>

\* The task returns its reference, the last one if the handler is through.
TaskDone(r) ==
    /\ task' = [task EXCEPT ![r] = "done"]
    /\ pc' = [pc EXCEPT ![r] = IF @ = "ended" THEN "release" ELSE @]
    /\ UNCHANGED <<est, bal>>

\* It fails, or its answer is lost: the error is logged, the cache is left as
\* it is, and a request that was not billed never is.
ApplyFails(r) ==
    /\ task[r] = "queued" /\ SpendFault
    /\ TaskDone(r)
    /\ \/ cost' = [cost EXCEPT ![r] = 0] /\ UNCHANGED dbVars
       \/ Deduct(r) /\ UNCHANGED cost
    /\ UNCHANGED <<cacheVars, holdVars, ghosts>>

\* DeductUserBalance: nothing to do where there is no cached balance.
Deducted(r) == IF cache = NoBalance THEN NoBalance ELSE cache - cost[r]

\* Mutant: the deduction of the cache is queued, as without reservations.
QueueDeduct(r) == deducts' = deducts \cup {r} /\ UNCHANGED <<cache, faults>>

\* Synchronous; if Redis fails it is queued, or tried again if the queue is
\* full.
DeductCache(r) ==
    \/ cache' = Deducted(r) /\ UNCHANGED <<deducts, faults>>
    \/ /\ SpendFault
       /\ IF QueueFull THEN cache' \in {cache, Deducted(r)} /\ UNCHANGED deducts
                       ELSE deducts' = deducts \cup {r} /\ UNCHANGED cache

InvalidateCache ==
    /\ \/ cache' = NoBalance /\ UNCHANGED faults
       \/ SpendFault /\ UNCHANGED cache
    /\ UNCHANGED deducts

SyncBalanceCache(r) ==
    /\ \/ task[r] = "deduct" /\ DeductCache(r)
       \/ task[r] = "invalidate" /\ InvalidateCache
    /\ TaskDone(r) /\ UNCHANGED cost
    /\ UNCHANGED <<dbVars, flight, sets, holdVars, ghosts>>

-----------------------------------------------------------------------------
(* The cache write workers, which only log a failure, the cache's own TTL, *)
(* time, and restarts.                                                     *)

WriteLoaded(b) ==
    /\ sets[b] > 0
    /\ sets' = [sets EXCEPT ![b] = @ - 1]
    /\ \/ cache' = b /\ UNCHANGED faults
       \/ SpendFault /\ UNCHANGED cache
    /\ UNCHANGED <<reqVars, dbVars, flight, deducts, holdVars, ghosts>>

WriteDeduct(r) ==
    /\ r \in deducts
    /\ deducts' = deducts \ {r}
    /\ \/ cache' = Deducted(r) /\ UNCHANGED faults
       \/ SpendFault /\ UNCHANGED cache
    /\ UNCHANGED <<reqVars, dbVars, flight, sets, holdVars, ghosts>>

CacheExpires ==
    /\ cache # NoBalance /\ cache' = NoBalance
    /\ UNCHANGED <<reqVars, dbVars, flight, sets, deducts, holdVars, faults, ghosts>>

Less(n) == IF n > 0 THEN n - 1 ELSE 0

\* Reservations whose renewal is due.
Due == {r \in Held \ renewed : Renewing(r)}

Tick ==
    /\ \/ Due = {} /\ UNCHANGED <<faults, missed>>
       \/ Due # {} /\ SpendFault /\ missed' = missed \cup Due
    /\ left' = [r \in Requests |-> Less(left[r])]
    /\ since' = [r \in Requests |-> IF pc[r] \in Returned /\ r \in Held
                                      THEN since[r] + 1 ELSE since[r]]
    /\ renewed' = {}
    /\ UNCHANGED <<reqVars, dbVars, cacheVars, blind, raced>>

\* What was in memory is lost, usage tasks included.
Restart ==
    /\ SpendFault
    /\ pc' = [r \in Requests |-> CASE pc[r] \in Arriving -> "refused"
                                   [] pc[r] \in {"run", "ended", "release"} -> "gone"
                                   [] OTHER -> pc[r]]
    /\ task' = [r \in Requests |-> IF task[r] = "none" THEN "none" ELSE "done"]
    /\ cost' = [r \in Requests |-> IF task[r] = "queued" THEN 0 ELSE cost[r]]
    /\ flight' = NoBalance /\ sets' = [b \in Balances |-> 0] /\ deducts' = {}
    /\ renewed' = {}
    /\ UNCHANGED <<est, bal, dbVars, cache, left, since, ghosts>>

Next ==
    \/ \E r \in Requests :
         \/ ReadCache(r) \/ MissCache(r) \/ Reserve(r) \/ ReserveFails(r)
         \/ Renew(r) \/ SubmitUsage(r) \/ HandlerDone(r) \/ Release(r)
         \/ ApplyBilling(r) \/ ApplyFails(r) \/ SyncBalanceCache(r) \/ WriteDeduct(r)
    \/ LoadBalance \/ LoadReturns \/ LoadFails
    \/ \E b \in Balances : WriteLoaded(b)
    \/ CacheExpires \/ Tick \/ Restart

Spec == Init /\ [][Next]_vars

-----------------------------------------------------------------------------
(* Properties.                                                             *)

\* A request that the usage task has still to bill, or to take from the cache.
Unbilled(r) == pc[r] # "gone" /\ task[r] \in {"queued", "deduct", "invalidate"}

\* Whatever the order in which a handler and its usage task end, the
\* reservation stays until both have: as long as the handler runs, and for
\* all but the last tick of a TTL after it while there is something to bill.
\* A reservation whose task is stuck, whose release failed, or whose process
\* died blocks the user for no longer than a TTL after its handler.
HeldUntilBilled ==
    /\ \A r \in Requests \ missed :
         pc[r] = "run" \/ (Unbilled(r) /\ since[r] < TTL - 1) => left[r] > 0
    /\ \A r \in Requests : since[r] = TTL => left[r] = 0

\* Concurrent requests cannot together overdraw the balance by more than one
\* estimate, and what those billed cost beyond theirs, unless one was admitted
\* on a balance older than what had been billed and released, on no balance,
\* or beside unreserved debt.
OverdraftOnlyIfBlind ==
    blind \/ db - SumOf(est, Owing) >= 1 - MaxEst - beyond

\* A released request is deducted from the cached balance, so no admission
\* takes place in between.
ReleasedIsDeducted ==
    cache # NoBalance =>
        cache <= db + SumOf(cost, {r \in Requests :
                                     /\ task[r] \notin {"none", "queued"}
                                     /\ pc[r] \in {"run", "ended", "release"}})

\* This fails only after a fault, or if a load read the balance before a
\* deduction and writes it after.
StaleOnlyIfRaced == raced \/ faults < MaxFaults \/ ReleasedIsDeducted
=============================================================================
