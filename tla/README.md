# AetherGate in TLA+

AetherGate is a gateway for AI APIs, written in Go. It authenticates API keys, picks an
upstream account, forwards the request, meters the usage, and charges the user's balance or
subscription, which the user buys through payment providers. Its state is in PostgreSQL and
Redis, and several processes may share both. This directory models the parts of the backend
(`src/backend/internal`) whose correctness depends on the order in which goroutines, processes
and outside services act.

All paths below are relative to `src/backend/internal` unless they begin with `src/`.

## Inventory

### Payment: `service/payment_*.go`, `handler/payment_webhook_handler.go`

*State.* `payment_orders` (status, `updated_at`, `expires_at`, `paid_at`, the upstream trade
number, the refund amount), `payment_audit_logs` (unique per order and action), redeem codes,
the Redis redeem lock, users' balances and subscriptions, and the provider's own state.
*Operations.* Create, cancel, expire (sweep), verify and reconcile an order; receive a
notification; fulfil; retry; request, plan, execute and finalize a refund.
*Interactions.* The provider calls the webhook until it gets a 2xx; the service queries, closes
and refunds at the provider; fulfillment redeems a code, which credits the balance, or assigns
a subscription, and pays the affiliate rebate.
*Hard.* Notifications are repeated, late and concurrent with cancellation and expiry; a worker
may die anywhere and another takes its lease over; a failed query is a guess; a refund spans
the database and a provider whose answer can be lost.
*Correct when* a paid order gives its value exactly once, an unpaid one never does, no race
undoes a payment, the provider is told to stop only when nothing is left to do, and a refund
pays out once and debits once.

### Idempotency: `service/idempotency.go`, `repository/idempotency_repo.go`, `service/idempotency_cleanup_service.go`

*State.* `idempotency_records`, unique per scope and key: fingerprint, status, lock window,
expiry, stored response. *Operations.* Claim by insert; replay; reclaim by compare-and-set;
renew while the executor runs; mark; delete expired rows. *Hard.* The time is read once per
call, the reclaim does not look at the expiry, the marks name a row by id alone, and the cleanup
removes rows under calls that are under way. *Correct when* one call with a key executes at a
time, a stored success is replayed and not executed again, and never to another payload.

### System operation lock: `service/system_operation_lock_service.go`, `handler/admin/system_handler.go`

*State.* One idempotency record, and a renewal goroutine per holder. *Operations.* Acquire, renew,
release; updates, rollbacks and restarts run under it. *Hard.* The record is reclaimed, never
replaced; a renewal may be under way when the lock is released. *Correct when* one operation
runs at a time and a free lock is never refused.

### Balance billing of requests: `service/billing_inflight_reservation.go`, `service/billing_cache_service.go`, `service/gateway_usage_billing.go`, `repository/usage_billing_repo.go`, `service/usage_record_worker_pool.go`

*State.* `users.balance`, the cached balance in Redis, a sorted set of in-flight reservations
per user, queues of cache writes and of usage records. *Operations.* Check eligibility,
reserve, renew, release, record usage and deduct once per request id, refresh the cache.
*Hard.* The balance is read, compared and written in different places; cache writes are
asynchronous and can be reordered or dropped; a reservation can expire under a slow request.
*Correct when* every served request is billed once and concurrent requests do not overdraw the
balance together.

### Concurrency slots: `service/concurrency_service.go`, `repository/concurrency_cache.go`, `service/openai_live.go`

*State.* Per user or account a sorted set of slots scored by the time they were taken, a second one
of the leases of Live calls, a waiting counter, an index of the ids in use; in each process a prefix
that marks its slots. *Operations.* Acquire, release, trim, count and uncount a waiting request,
acquire, renew and release a Live lease, clean up at start, touch and refresh the index. *Hard.* A
slot outlives its process and is not renewed; a starting process cleans up beside others that run;
counters are incremented and decremented by different calls; the index is written after the set it
describes. *Correct when* no more requests run than the limit allows, every running request counts,
slots of dead processes are found, and a request that ended holds nothing.

### OAuth token refresh: `service/oauth_refresh_api.go`, `service/token_refresh_service.go`, the token providers

*State.* The account row with its credentials and their version, the refresh lock in Redis and its
in-process companion, the cached access token, one-time refresh tokens at the provider.
*Operations.* The refresh cycle, the refresh a request asks for, retries, quarantine of accounts
whose grant is gone, and the administrator's refresh, re-authorization and edit. *Hard.* Two processes
refresh one account; a lease runs out under an attempt; an answer is lost after the old token was
consumed; an error is judged by rereading the row. *Correct when* a refresh token is used once,
what is stored can still be used, a healthy account is not quarantined, and no one overwrites a
newer grant.

### Scheduler snapshot and outbox: `service/scheduler_snapshot_service.go`, `repository/scheduler_cache.go`, `repository/scheduler_outbox_repo.go`

*State.* The outbox table with its deduplication keys, a watermark in Redis, the published snapshot
of a bucket with its epoch and tombstone, a lock per bucket and a lease per group. *Operations.*
Write an account or a group and its event, poll, rebuild a bucket or all of them, retire and reopen
a bucket, publish after a miss. *Hard.* Rows become visible out of order and are folded into each
other; rebuilds overlap, outlive their locks and finish after the group was switched off. *Correct
when* a change that was heard of shows, an old snapshot never replaces a newer one across a
retirement, and whatever was lost is healed by the rebuild.

### Batch image jobs: `service/batch_image_*.go`, `repository/batch_image_*.go`, `repository/usage_billing_repo.go`

*State.* The job row, the claimed request ids of hold, capture and release, the user's frozen
balance; in Redis a ready list, a delayed and an active set, a key per job in flight and a lock per
job; the batch at the provider. *Operations.* Submit, cancel, submit again, sweep stale submissions;
reserve a job, follow its batch, index its output, settle, retry or give up; requeue, acknowledge,
recover. *Hard.* Every step of a submission may fail between PostgreSQL, Redis and the provider; the
owner and the sweep end a job that is being submitted; a worker may be late and meet its successor.
*Correct when* a hold is captured or released once, is always somebody's business until then, is not
returned while the batch runs on, and a completed job was paid for.

### Other parts

User message queue (a per-account lease); auth cache invalidation (an outbox like the scheduler's); platform
quotas (Redis counters flushed to the database); account scheduling and failover; rate limits; the OpenAI
WebSocket pool; leader locks; prompt audit; refresh token cache; backup; monitoring; protocol translation;
pricing; plugins; generated data access; the frontend. `PROJECT.json` says of each why it is not modelled or
where it is in the plan.

## Modules and the code

| module | what it is |
|---|---|
| `PaymentOrders` | the rows all payment code shares: order, audit rows, what was granted |
| `PaymentFulfillment` | creation, notification, cancellation, expiry, verification, fulfillment under a lease |
| `PaymentPromise` | the abstract specification: pay, then give once, then complete |
| `PaymentRefund` | refunds of completed balance orders |
| `IdempotencyRecords` | one record of `idempotency_records` and the statements that touch it |
| `Idempotency` | `IdempotencyCoordinator.Execute` |
| `SystemOperationLock` | the lock service, on the same statements |
| `BalanceBilling` | one user's requests, from admission to the deduction of the cached balance |
| `OAuthRefresh` | attempts to refresh one account, in two processes, and the administrator |
| `ConcurrencySlots` | the slots, Live leases, waiting counter and index of one user |
| `SchedulerSnapshot` | the outbox and the snapshot of one bucket |
| `BatchImage` | one batch image job, from submission to the end of its hold |
| `…Proofs` | the theorems about the module of that name; `IdempotencyProofs` has those about both users of `IdempotencyRecords` |
| `MC…` | model values and symmetry for TLC |

**Granularity.** One action is one statement, transaction, Redis call or call of the provider.
Between two of them any other process may act, time may pass, and the process may die. A worker
has a program counter that names its next effect; the guards are the code's conditions and the
`WHERE` clauses of its updates.

**PaymentOrders and PaymentFulfillment.** `status`, `paidAt`, `tradeNo` are columns. `updated_at` has
two readings and two variables: as a time it is `age`, in ticks, compared with the five minutes of
the lease and of the grace period; as the version of a lease it is `current[o]`, the workers whose
version equals the column. The generated code gives `updated_at` a new value in every update, so
`Touch` clears both. `ttl` is the time left to `expires_at`. `code` and `locked` are the redeem code
and its Redis lock; `gateway` is what the provider has of the payment, and `acked` whether a
notification has been answered 2xx, and whether only because an error was dropped. Workers take
jobs: `CreateOrder`, `Webhook`, `CancelOrder`, `ExpireTimedOutOrder`, `VerifyOrder`,
`ReconcilePendingOrder`, `RetryFulfillment`. `UpstreamUnknown` is the code's reading of a failed
query as "not paid". The second read in `acquirePaymentFulfillmentLease` is `ClaimLease`.

`StepFails` is a call that fails before its effect, and takes the code's error path (`OnError`);
a call whose answer is lost after its effect is the effect followed by the failure of the next
step. `Crash` forgets the worker. `late` supports the liveness run: with `StallsAreFaults`, a job
that is still running at its second tick spends a fault.

**PaymentRefund.** An admin call is `PrepareRefund` (which makes a plan) and the steps of
`ExecuteRefund`, or `QueryAndFinalizeRefund` and its steps. `taken` is the deduction that the refunds
of an order hold, `hold` the one its `REFUND_PENDING` audit row records. The user spends and tops up
meanwhile. `missed` remembers what happened that the code cannot know of: an audit statement
whose error it drops, a refund whose answer was lost.

**IdempotencyRecords, Idempotency, SystemOperationLock.** A row deleted and inserted again has a new id, so
`known` is the set of callers whose id is that of the present row; a statement of any other caller matches
nothing. Times are ticks. `now[c]` (`asked` of the lock) is read once, when a call starts, as in the code.
`pc` (`stage`) distinguishes the reclaim of an expired record, whose loser looks again, from that of a
failed one, whose loser gives up. `overran`, `earlier` and `lapsed` are ghosts that name the cases the code
gives no protection in: an execution that outlasts its record, a call that was under way when a success was
stored, an operation whose lease has ended. The properties state what holds outside of them, and the run
`SystemOperationOverlap` shows that the last one occurs without any fault. A request is told that the system
is busy in two places: at the read of a record that is locked, and after a lost `TryReclaim`, whatever has
become of the record by then. `met` remembers in whose call to `Acquire` an operation was running;
`BusyMeansRunning` asks for one at the moment of the first refusal, and at the second for one in `met`, or
that the clean-up deleted the record between the read and the reclaim.

**BalanceBilling.** `pc[r]` is the handler: the check of the balance, the second read, the reservation
script, the upstream call (`run`), and the end. `task[r]` is the usage task, which deducts in the database
and then corrects the cache. `left[r]` is the score of the reservation, in ticks of the renewal interval
`ttl / 3`. `flight` is the singleflight load between its read and its return; `sets` and `deducts` are the
queue of cache writes, taken by several workers and therefore unordered. A request is made once: a client
that repeats it makes another request. Its cost does not depend on its estimate, which the code guesses from
the size of the body and caps; `beyond` is by how much the billed ones cost more than was reserved, and
widens the bound of the overdraft. A restart turns the requests that were running into `gone` and loses
queued usage tasks. Three ghosts name what the code gives no protection against: `missed` (a reservation
that was never made, or whose renewal was late), `blind` (a request admitted on a balance that had been
overtaken, on none, or beside a debt without a reservation) and `raced` (a deduction that met a load of the
old balance). The last one needs no fault. The properties state what holds outside of them.

**OAuthRefresh.** An attempt is a call of `RefreshIfNeeded` with what surrounds it, from the check of the
lock to the cached token; the account is OpenAI's or Grok's, whose one-time tokens and error handling
differ. A grant is a pair of a generation, which a re-authorization raises, and a number that each refresh
raises; the provider knows which was used. Lock leases and the deadlines of an attempt are ticks. A request
to Grok that finds the lock taken waits (`WaitCache`, `WaitRow`) and may repair the cache with what it read
of the row. `gaps` names what the code gives no protection against: a lease that ran out under an attempt
(`lease`), an administrator's refresh or edit beside one (`manual`, `clobbered`), a mark after the
credentials changed (`late`), a re-authorization that could not clear the error (`uncleared`), and a token
cached after its row changed or after a check that could not read the row, or a cache that could not be
written (`cache`).

**ConcurrencySlots.** Scores are ticks, and a set's members carry the request and its process. The Lua
scripts are the actions; `Trim` is the removal of old members every script begins with. A Live call takes a
lease beside its slot and gives the slot back. A request whose client goes away gives its slot back at once
and counts as over, though the rest of its answer is still read. `gaps` names requests whose slot was swept
or outlived (`unbacked`), counters that a failed or swept increment made wrong (`miscounted`) and members
that the index may have missed (`unindexed`).

**SchedulerSnapshot.** A row is its index in `outbox` and becomes `committed` when its transaction ends;
`open` means that its key still swallows others. A poller's `batch` holds the rows it listed and has still
to handle, lowest first; `order` gives the versions Redis handed out, oldest first. A version of the account
is a number, and a snapshot is what its members were and the epoch they were loaded in. `lost` is the newest
change whose event may never lead to a refresh, and `SnapshotIsFresh` excuses no older state than that. With
`Forced` the bucket is the second of its group and platform: a rebuild may fill it with what it loaded for
the single bucket (`LoadForSingle`) before it had this bucket's lock. The job is `early` if the account
changed in between, and what it publishes over a handled event is a named loss, like what a request
publishes without the lock. A row that commits behind the watermark is another: the comment at
`scheduler_outbox_repo.go:137` counts on the clean-up's grace period, which deletes the row without its
having been read, and until then its open key swallows the changes after it.

**BatchImage.** `pc[a]` is the next call of the client, the owner, the sweep or a worker. `Query` is a call
of the database: it takes effect or is refused, or it fails with or without its effect. `hold`, `captured`
and `released` are the claimed request ids; a release that found no hold is `"void"`. `frozen` counts the
holds of the user. A worker whose heartbeats do not arrive is in `stalled`, which lets its lock lapse and
its job be recovered while it goes on. `gaps` names what no code undoes: a lost answer or a death after
which nobody returns to the hold (`dropped`), a job that another worker moved and that is acknowledged as
finished (`unsettled`), a cancellation decided before the submission went through (`blind`), a batch nobody
knows or could stop (`orphan`), a settlement under way that a late worker fails (`late`), one given up after
its capture took effect, or captured after it was given up (`charge`). With the last two a capture and a
release can both take effect, which costs the user one other hold and no more. A job that was charged and
did not complete has failed, after all its retries or by a late worker. Two of the cases the properties
except need no fault: a cancellation between the job's creation and its hold voids the release of that hold,
and a cancellation that read the job before its batch had a name returns the hold while the batch runs.

## Runs

| run | states | question |
|---|---|---|
| `PaymentFulfillment` | 2.9 M | do two workers, all entry points, two faults and dropped errors keep the six invariants and the abstract promise? |
| `PaymentFulfillmentLive` | 0.4 M | is every full payment settled and acknowledged in the end? |
| `PaymentRefund` | 1.8 M | do two admins and a spending user keep payouts and deductions straight? |
| `Idempotency` | 1.7 M | do repeats of a key execute once, replay, and keep payloads apart? |
| `SystemOperationLock` | 0.6 M | while no lease ends under an operation, is it alone, and is busy said only because of one? |
| `BalanceBilling` | 3.5 M | does a reservation last until its request is billed, and which overdrafts and stale balances are there? |
| `OAuthRefresh` | 1.7 M | is each refresh token used once, and are the stored and the cached one good, while leases lapse and an administrator acts? |
| `ConcurrencySlots` | 1.7 M | does the limit hold, and is every running or waiting request counted, through crashes, starts and expiry? |
| `SchedulerSnapshot` | 1.7 M | is every stale snapshot due to a named loss, and does each bucket heal? |
| `BatchImage` | 0.4 M | does every hold end once, and in step with the job and its batch? |
| `PaymentRefundPending` | violation | is `REFUNDING` always left? Not by the second pending refund |
| `SystemOperationOverlap` | violation | do system operations exclude each other? Not after the first one |

**Bounds.** One order: orders share nothing but the user's balance, and no property relates two orders. Two
workers or admins: the races are between a holder and the one that overtakes it; the proofs cover any
number. Two faults let a worker fail, and its successor fail as well; three ticks of age suffice to tell all
ages the code tells apart. `MaxOverdraft` and `MaxBalance` let the balance fall below and rise above the
amount of a refund. In `Idempotency` a record lives two ticks and the clock runs to five, so that two
generations of a record meet; in `SystemOperationLock` the lease is two ticks, so that a renewal falls
inside it, and the clock reaches three leases. In `BalanceBilling` two requests suffice for a holder and one
that is judged against it; a balance of two with estimates of one or two lets them fit together or not, and
costs of one or two lie below, at and above the estimates (the invariants hold with three as well); `TTL =
3` is the code's own ratio of the lifetime to the renewal interval, and one place in the queue lets it be
full. In `OAuthRefresh` two attempts run in different processes, the lock lives two ticks and an attempt
three, so that a lease can end under it; two grants and one re-authorization let an old answer meet a newer
grant, and an administrator's operation counts as one of two faults. In `ConcurrencySlots` two requests, one
of them Live, run in a process that may die and one in a process that starts later; the limit and the queue
are one, so that every second request meets them, and the times are the smallest that keep the order of the
code's. In `SchedulerSnapshot` one poller, one rebuild and one miss can all overlap; two changes suffice for
an old state that overwrites a new one. In `BatchImage` two workers are a holder and its successor, another
hold of the user shows what is taken twice, two failures before giving up separate the last one from the
others, and two faults let a worker fail after a call was lost. The invariants hold with three faults as
well.

**Fairness.** `FairSpec` of `PaymentFulfillment` assumes weak fairness of a worker's steps (a goroutine is
scheduled and its calls return or time out), of time, and of the TTL of the redeem lock, and strong fairness
of redelivery: the provider repeats a notification as long as it gets no 2xx. Nothing makes a worker quick,
so a worker could be overtaken by the lease for ever; with `StallsAreFaults` such a stall counts as a fault,
of which there are finitely many. Dropped errors are off in this run: a failed read in `confirmPayment` or
`alreadyProcessed`, or, but for Wxpay, in `GetWebhookProviders`, is answered 2xx, and the provider stops.

`Heals` of `SchedulerSnapshot` assumes that the poller and the rebuild, which run on tickers with deadlines,
go on and start again, and that locks and leases lapse. Nothing is asked of writers and requests, which may
stop anywhere. `HoldEnds` of `BatchImage` assumes that calls end, that workers, the mover, the recovery and
the sweep run on their tickers, and that a batch ends at the provider; nothing makes an owner cancel or a
client repeat its submission. A missing output is a fault there, because the code asks for it every minute
without end.

## Proofs

Eight modules prove theorems about nine components, for all sets of actors, all durations and bounds
the assumptions allow, and any number of faults. Each shows that `IInv` holds in `Init` and is kept
by every action (one lemma per action or per conjunct, one step per action), and draws the
properties from it. None of the properties is inductive alone, since whether a statement may take
effect depends on what its caller read earlier; what `IInv` adds is said below. TLC has checked every
`IInv` on the instances of the runs.

| module | theorems |
|---|---|
| `PaymentFulfillmentProofs` | `GrantedOnce`, `RebatedOnce`, `CompletedGranted`, `GrantedPaid` (invariants), `PaidStays`, `AckedSettled` (action properties), `Refinement` of `PaymentPromise` |
| `PaymentRefundProofs` | `PaidOutOnce`, `RefundedPaidOut`, `DeductedOnce`, `DeductionTracked` |
| `IdempotencyProofs` | `OneExecution`, `OwnPayload`, `SuccessReplayed`; of `SystemOperationLock`: `OneOperation`, `BusyRunning`, `LockTypeCorrect` |
| `BalanceBillingProofs` | `HeldTillBilled`, `OverdraftBounded`, `BalanceBounded`, `StaleRaced` |
| `BatchImageProofs` | `HoldEndsAtMostOnce`, `HoldRemembered`, `RefundedStops`, `ChargedCompletes` |
| `OAuthRefreshProofs` | `UsedOnce`, `StoredUsable`, `QuarantineDeserved`, `LoginKept`, `CacheCurrent` |
| `ConcurrencySlotsProofs` | `WithinLimit`, `SessionCounted`, `WaitCounted`, `DeadFound`, `NoLeak` |
| `SchedulerSnapshotProofs` | `SnapshotFresh`, `GroupFollowed`, `LoadedSince` |

and in each of them `TypeCorrect`.

**PaymentFulfillment.** `KindInv`: a worker follows the path of its order's type. `LedgerInv`: the used
code, or the `SUBSCRIPTION_ASSIGNED` row, is the exact ledger of what was granted, and
`AFFILIATE_REBATE_APPLIED` of the rebates. It is what makes the grant safe without an exclusive
lease, which the code does not have: the second read of `acquirePaymentFulfillmentLease` gives the
version of the successor to a worker that stalls before it. `DoneInv`: a worker past the grant has its
order granted. `PaidInv`: a worker past `confirmPayment` has its order paid, and a set `paid_at`
excludes the unpaid statuses. `CreateInv`: an order has one creator, and until it is through nobody can
pay. `FlowInv`: what a worker past `toPaid` knows of the status.

**PaymentRefund.** `ClaimInv`: between `LockRefund` and its end an admin call is the only one of its
order, and the status is `REFUNDING`. `FinalInv`: a finalization works on the order's one pending refund,
and its verdict is the gateway's. `PaidInv` and `OnceInv`: how often each step finds the order paid
out, with lost answers and without. `CoverInv` and `TakenInv`: the deduction a rollback gives back has been
made, and is exactly the one recorded, as long as no audit statement failed.

**Idempotency.** `ClaimInv`: an execution holds its record, and whoever read the record earlier
reads it too early to reclaim it; `SuccessInv`: a success that has not expired stays, and only calls
older than it try to reclaim its record; both hold until an execution overruns. `PayloadInv`, without
exception: who gets as far as a claim has a record of its own payload.

**SystemOperationLock.** `LeaseInv`: until a lease lapses, the running operation is the only one, holds the
record, and the record's lock and expiry cover its lease. That needs `LockAssumption`, `Lease <= TTL`: a
record must not expire under a lease. The defaults are 30 seconds and one hour; `config.go` checks that each
is positive and compares them not. `MetInv`, for `BusyRunning`: while no operation has run since a request
asked, the record is not locked beyond that time and is as the request read it, unless it was deleted.

**BalanceBilling.** `StepsInv`: a request that is not billed, or not taken from the cache, has a handler
that runs or waits. `MoneyInv`: each request lowers the balance once. `BeyondInv`: `beyond` is at least what
the billed requests cost above their estimates, so what was spent can be measured in the estimates the
script judged by (`SumSplit`). `HoldInv`: what is left of a reservation, and what has gone of it after the
handler, add up to no more than a lifetime, and while no renewal was missed to no less than a tick under it.
`CacheInv`: without a fault or a race, whatever is in Redis or on the way to it is the balance, but for
deductions that are pending. `OverdraftOnlyIfBlind` is kept as it stands: a request that is admitted has its
estimate left beside all that is owed (`AdmittedWithin`, from `ReservedCoversDebt`: the reservations cover
what is owed and what the script still counts of the billed), and one that is billed leaves the debt with
its estimate and the balance with no more (`BilledWithin`). The bounds are sums over the requests, which the
model takes with a fold of `FiniteSetsExt`. The module first proves what it needs of them: that the fold's
recursion is well-founded (`FoldExists`), that it does not matter which element comes first (`SumTake`),
that sums of disjoint sets add up and that they are monotonic. Where a book would use induction, the proofs
take a smallest counterexample (`SmallestSet`), which the library's well-founded order of the finite subsets
provides. The requests are a finite set, estimates are positive, and a reservation outlives two ticks.

**BatchImage.** `ClientInv` and `JobInv`: what the steps of the client, of the job's life and of a worker
have behind them. `ChargeInv`: until one of the gaps `charge` and `late`, the frozen balance is the other
holds plus this one while it is open. `FrozenInv`: whatever happens, a capture and a release take a hold
once each. `PaidInv`: who captures, or has captured, does so for a settlement that completes, or that failed
with its retries used up or by a late worker. `HoldInv`: an open hold is queued, in reach of the sweep, or
somebody whose next calls lead to its end has it in hand. `UpstreamInv`: who may believe that no batch runs.
The assumption is that client, owner, sweep and workers are different actors.

**OAuthRefresh.** `KnownInv`: no copy of the credentials is ahead of the provider. `AnswerInv`: a token the
provider just issued is in one hand only until it is stored. `LeaseInv`: an attempt at work holds the lock,
and the lease is as old as the attempt; since `clampRefreshAttemptToLockLease` ends an attempt before the
lease, nobody else can acquire it (`DeadlineBound`). `StoredInv`: the stored token is the provider's or one
answer away from it. `UsedInv`: whose token is refused found it spent by an attempt that lost its answer.
`DeadInv` and `ErrorInv`: a refused token stays refused, and while the account is in error nobody may still
store a new one. `GrantInv`, `VersionInv`: logins and versions only move on. `CacheInv`: whoever makes the
cached token stale is about to empty or replace it, and whoever is about to cache a token has the row's, or
is known to be late. Each excepts the gaps its property does. The assumptions are those of the
configuration: a request to Grok ends before the lock's lease, and the lock lives more than one tick.

**ConcurrencySlots.** `HoldInv`: whoever goes on with a slot or a lease once its call is made has it, or was
marked when it was taken away; `LeakInv`: nobody else has one, unless a failed call left it behind. Both
follow a place through the calls that come between taking it and running on it. `DeadInv`: requests of a
process that is not up make no calls, so nothing is added to what a startup has swept. `IndexFollowsLoad` is
kept because every load that is read is sound (`Sound`: a busy one never removes the index). `CountInv`: the
counter's key is no older than the wait of anyone it counts, so it cannot expire under one; that needs
`WaitTimeout < WaitTTL`, as the default configuration has it. `LimitHolds` is kept as it stands: both
scripts count the union from above. The requests are a finite set.

**SchedulerSnapshot.** `TokenInv`: no token is of an epoch to come, and a bucket that is closed has outdated
all of them, so the two fences keep out whatever was loaded before. `LeaseInv`: whoever is about to decide
about the group holds the lease, so decisions come one after the other. `GroupInv` and `MembersInv` are one
argument: while the bucket does not show the newest change, that change is `lost`, or is heard of, by a
writer about to enqueue it or in a visible row ahead of the watermark, such that every poller past that row
has it still to handle. What that means differs: for the group a decision to come or one that agrees with
the group (`Decides`); for the account a rebuild to come or one that loaded the account as it is and whose
version will not be dropped, or that reused what it had loaded before, whose publication is a loss by itself
(`Rebuilds`). A job that holds the lock with an old state is why `MembersInv` has a second half: the change
it missed is in a row that still has to get at the lock (`Prepares`). Setting the watermark, forwards or
back, keeps such a row ahead of it, since a poller that is done with its batch is not past the row.
`BoundInv`: the transaction that has the account's row has room for its change. The kinds of jobs are
disjoint, and a job is no snapshot. That a batch has a first row rests on the least element of a set of
naturals, which the library's `WFMin` gives.

Only model-checked are

- liveness: `PaidEventuallySettled` and its likes, `Heals`, `HoldEnds`: fairness is beyond the prover;
- the two runs that expect a violation.

## Further hazards

`PROJECT.json` lists the hazards the properties were chosen for, one line for several that bite alike. The
models contain more of them: the redeem lock without Redis, an idempotency record reclaimed from an old
reading or a stalled clock, a first reservation admitted on the balance it is given, a refresh token refused
under its other name, a row written back whole by an edit, a lost answer of an acquire script, the lock of a
bucket freed by a late rebuild, a settlement failed by a late worker. No property covers the following.

- `payment_order_lifecycle.go:292`: storing the upstream trade number renews `updated_at`, the time the grace
  period of an expired order runs from. No document says which is meant; `KeepsPromise` allows it.
- `payment_refund.go:353`: a process that dies in `REFUNDING` leaves an order nothing picks up again.
- `payment_order.go:253`: two creations pass the limit on pending orders at once, a mere throttle.
- `idempotency.go:521`: a stored response that was cut can not be replayed; lengths are not modelled.
- `gateway_usage_billing.go:375`: usage tasks are in memory, and a restart or a failed `Apply` leaves a
  request unbilled. The model lets both happen.
- `account_repo.go:1812`: the record of an account beside the snapshot has no version, and the slower of two
  readings wins until the next event; with it the run outgrows its bounds.
- `batch_image_processor.go:189`: an output that is never found keeps its job and its hold waiting for ever.

## What is not modelled

- Refunds of subscription orders and of orders without a trade number; choice of a provider
  instance, fees and limits at creation; the resume token.
- Calls without an idempotency key and the observe-only mode, which run the executor unguarded; the
  length and encoding of stored responses.
- Billing of requests without an estimate, of subscriptions and API key scopes, fixed charges, a
  minimum reserve, top-ups, a request id that is billed twice, and the configurations that drop usage
  tasks when their queue is full.
- Of the slots: API key statistics, load reports, the leases of WebSocket ingress, legacy waiting
  counters and the controllers of Live calls. Of the refresh: the token formats, proxies and the
  schedules of cycles. Of the scheduler: the account records beside the snapshot and the copy a process
  keeps, last-used times, rebuilds triggered by lag, coalescing, several buckets. Of batch images: hidden
  records but for failed submissions, downloads, the clean-up of inputs and outputs, prices, the parsing
  of the output, the expiry of the key of a job in flight after a week.
- The parts the inventory lists without a module.

## Plan

1. The user message queue. 2. Auth cache invalidation. 3. Deduplication of usage by request id,
   platform quotas and subscription usage, beside `BalanceBilling`. 4. Subscription refunds.

Every safety property of the passing runs is a theorem; each new module brings its own.
