-------------------------- MODULE IdempotencyProofs --------------------------
(***************************************************************************)
(* Proofs about the two users of idempotency_records.  Idempotency: for    *)
(* any number of calls and payloads, any lock window, lifetime and         *)
(* backoff, and any number of faults.  SystemOperationLock: for any number *)
(* of requests and operations, any lease no longer than the life of a      *)
(* record, and any number of faults.                                       *)
(***************************************************************************)
EXTENDS Idempotency, SystemOperationLock, FiniteSetTheorems, TLAPS

LEMMA Constants ==
  /\ Lease \in Nat /\ Lease > 0 /\ TTL \in Nat /\ TTL > 0 /\ Backoff \in Nat
  /\ MaxClock \in Nat /\ MaxFaults \in Nat /\ NoResult \notin Fingerprints
  BY RecordsAssumption, BackoffAssumption

USE Constants

LEMMA AtMostOne ==
  ASSUME NEW S, \A x, y \in S : x = y
  PROVE  Cardinality(S) <= 1
  <1>1. CASE S = {}
    BY <1>1, FS_EmptySet
  <1>2. ASSUME NEW x \in S PROVE Cardinality(S) <= 1
    <2>1. S = {x}
      BY <1>2
    <2> QED
      BY <2>1, FS_Singleton
  <1> QED
    BY <1>1, <1>2

-----------------------------------------------------------------------------
(* The inductive invariant.                                                *)

Reclaiming == {c \in Callers : pc[c] \in {"reclaim", "retry"}}

\* A call only gets as far as a claim with a record of its own payload, and a
\* success holds the result of the record's payload.
PayloadInv ==
    /\ \A c \in Reclaiming \cup Executing : c \in known => row.fp = payload[c]
    /\ row # NoRow /\ row.status = "succeeded" => row.result = row.fp
    /\ AnswersOwnPayload

\* The execution holds the record, and nobody who read the record before may
\* reclaim it.
Holds(c) ==
    /\ claimEnd[c] > clock
    /\ c \in known /\ row.status = "processing" /\ row.exp >= claimEnd[c]
    /\ \A d \in Reclaiming \cap known : from[d] = "processing" => now[d] < row.lock

ClaimInv ==
    /\ \A c \in Executing : Holds(c)
    /\ \A c, d \in Executing : c = d

\* A success that has not expired stays, and only calls older than it may
\* still try to reclaim its record.
SuccessInv ==
    clock < okUntil =>
      /\ Executing = {} /\ Reclaiming \subseteq earlier
      /\ row # NoRow /\ row.status = "succeeded" /\ row.exp >= okUntil

TypeInv == TypeOK /\ \A c \in Callers : now[c] <= clock

IInv == TypeInv /\ PayloadInv /\ (overran \/ (ClaimInv /\ SuccessInv))
-----------------------------------------------------------------------------
(* What the statements of idempotency_repo.go make of the row.             *)

LEMMA CreateRow ==
  ASSUME NEW c, NEW fp \in Fingerprints, NEW lock \in Nat, NEW exp \in Nat,
         CreateProcessing(c, fp, lock, exp)
  PROVE  /\ row' \in Rows /\ known' = {c} /\ row'.status = "processing"
         /\ row'.lock = lock /\ row'.exp = exp /\ row'.fp = fp
  BY DEF CreateProcessing, Rows, Statuses

LEMMA LockRow ==
  ASSUME row \in Rows, NEW lock \in Nat, NEW exp \in Nat,
         Reclaim(lock, exp) \/ (row.status = "processing" /\ ExtendProcessingLock(lock, exp))
  PROVE  /\ row' \in Rows /\ known' = known /\ row'.status = "processing"
         /\ row'.lock = lock /\ row'.exp = exp /\ row'.fp = row.fp
  BY DEF Reclaim, ExtendProcessingLock, Rows, Statuses

LEMMA SuccessRow ==
  ASSUME row \in Rows, NEW c \in known, NEW fp \in Fingerprints, NEW exp \in Nat,
         MarkSucceeded(c, fp, exp)
  PROVE  /\ row' \in Rows /\ row'.status = "succeeded" /\ row'.exp = exp
         /\ row'.fp = row.fp /\ row'.result = fp
  BY DEF MarkSucceeded, Rows, Statuses

LEMMA FailureRow ==
  ASSUME row \in Rows, NEW c \in known, NEW lock \in Nat, NEW exp \in Nat,
         MarkFailedRetryable(c, lock, exp)
  PROVE  /\ row' \in Rows /\ row'.status = "failed_retryable" /\ row'.fp = row.fp
  BY DEF MarkFailedRetryable, Rows, Statuses

-----------------------------------------------------------------------------
(* Type correctness, in parts.                                             *)

Steps == {"idle", "create", "get", "reclaim", "reget", "retry", "run", "markOk",
          "markFailed"}

CallsOK ==
    /\ pc \in [Callers -> Steps] /\ from \in [Callers -> Statuses]
    /\ payload \in [Callers -> Fingerprints \cup {NoResult}]
    /\ answer \in [Callers -> Fingerprints \cup {NoResult}]
    /\ now \in [Callers -> 0..MaxClock] /\ claimEnd \in [Callers -> Nat]

CallInv(c) == now[c] <= clock /\ (pc[c] # "idle" => payload[c] \in Fingerprints)

RestOK == renewing \subseteq Executing /\ okUntil \in Nat /\ earlier \subseteq Callers

FlagsOK == detached \in BOOLEAN /\ overran \in BOOLEAN

Parts == RecordsOK /\ CallsOK /\ RestOK /\ FlagsOK /\ \A c \in Callers : CallInv(c)

LEMMA TypeParts == TypeInv <=> Parts
  BY DEF TypeInv, TypeOK, Parts, CallsOK, CallInv, RestOK, FlagsOK, Steps

LEMMA InitType == Init => Parts
  <1> SUFFICES ASSUME Init PROVE Parts
    OBVIOUS
  <1> USE DEF Init, RecordsInit
  <1>1. RecordsOK
    BY DEF RecordsOK
  <1>2. CallsOK
    <2>1. now \in [Callers -> 0..MaxClock] /\ claimEnd \in [Callers -> Nat]
      OBVIOUS
    <2> QED
      BY <2>1 DEF CallsOK, Statuses, Steps
  <1>3. RestOK
    BY DEF RestOK
  <1>4. FlagsOK
    BY DEF FlagsOK
  <1>5. \A c \in Callers : CallInv(c)
    BY DEF CallInv
  <1> QED
    BY <1>1, <1>2, <1>3, <1>4, <1>5 DEF Parts

LEMMA NextType == TypeInv /\ [Next]_vars => TypeInv'
  <1>p. TypeInv' <=> Parts'
    BY TypeParts, PTL
  <1> SUFFICES ASSUME Parts, [Next]_vars PROVE Parts'
    BY TypeParts, <1>p
  <1>q. RecordsOK /\ CallsOK /\ RestOK /\ FlagsOK /\ \A c \in Callers : CallInv(c)
    BY DEF Parts
  <1> USE <1>q DEF RecordsOK, progress, claim, ghosts
  <1>1. ASSUME NEW c \in Callers, NEW p \in Fingerprints, Call(c, p) PROVE Parts'
    <2>1. RecordsOK'
      BY <1>1 DEF Call
    <2>2. CallsOK'
      BY <1>1 DEF CallsOK, Steps, Call
    <2>3. RestOK'
      BY <1>1 DEF RestOK, CallsOK, Steps, Executing, Call
    <2>4. FlagsOK'
      BY <1>1 DEF FlagsOK, Call
    <2>5. \A d \in Callers : CallInv(d)'
      BY <1>1 DEF CallInv, CallsOK, Call
    <2> QED
      BY <2>1, <2>2, <2>3, <2>4, <2>5 DEF Parts
  <1>2. ASSUME NEW c \in Callers, Create(c) PROVE Parts'
    <2>0. /\ LockedUntil(c) \in Nat /\ ExpiresAt(c) \in Nat
          /\ pc[c] # "idle" /\ payload[c] \in Fingerprints
      BY <1>2 DEF Create, LockedUntil, ExpiresAt, CallInv, CallsOK
    <2>1. RecordsOK'
      BY <1>2, <2>0, RecordsAssumption, CreateRow DEF Create, GoTo
    <2>2. CallsOK'
      BY <1>2, <2>0 DEF CallsOK, Steps, Create, StartExecution, GoTo
    <2>3. RestOK'
      BY <1>2, <2>0 DEF RestOK, CallsOK, Steps, Executing, Create, StartExecution, GoTo
    <2>4. FlagsOK'
      BY <1>2 DEF FlagsOK, Create, StartExecution, GoTo
    <2>5. \A d \in Callers : CallInv(d)'
      BY <1>2 DEF CallInv, CallsOK, Create, StartExecution, GoTo
    <2> QED
      BY <2>1, <2>2, <2>3, <2>4, <2>5 DEF Parts
  <1>3. ASSUME NEW c \in Callers, Get(c) PROVE Parts'
    <2>1. RecordsOK'
      BY <1>3 DEF Get, GetByScopeAndKeyHash
    <2>2. CallsOK'
      BY <1>3 DEF CallsOK, Steps, Get, Return, Decide, ToReclaim, GoTo, SamePayload, Rows, Statuses
    <2>3. RestOK'
      BY <1>3 DEF RestOK, CallsOK, Steps, Executing, Get, Return, Decide, ToReclaim, GoTo, SamePayload, Rows, Statuses
    <2>4. FlagsOK'
      BY <1>3 DEF FlagsOK, Get, Return, Decide, ToReclaim, GoTo, SamePayload, Rows, Statuses
    <2>5. \A d \in Callers : CallInv(d)'
      BY <1>3 DEF CallInv, CallsOK, Get, Return, Decide, ToReclaim, GoTo, SamePayload, Rows, Statuses
    <2> QED
      BY <2>1, <2>2, <2>3, <2>4, <2>5 DEF Parts
  <1>4. ASSUME NEW c \in Callers, TryReclaim(c) PROVE Parts'
    <2>0. /\ LockedUntil(c) \in Nat /\ ExpiresAt(c) \in Nat
          /\ pc[c] # "idle" /\ payload[c] \in Fingerprints
      BY <1>4 DEF TryReclaim, LockedUntil, ExpiresAt, CallInv, CallsOK
    <2>1. RecordsOK'
      BY <1>4, <2>0, RecordsAssumption, LockRow DEF TryReclaim, Reclaimable
    <2>2. CallsOK'
      BY <1>4, <2>0 DEF CallsOK, Steps, TryReclaim, StartExecution, Return, GoTo, Statuses
    <2>3. RestOK'
      BY <1>4, <2>0 DEF RestOK, CallsOK, Steps, Executing, TryReclaim, StartExecution, Return, GoTo, Statuses
    <2>4. FlagsOK'
      BY <1>4 DEF FlagsOK, TryReclaim, StartExecution, Return, GoTo, Statuses
    <2>5. \A d \in Callers : CallInv(d)'
      BY <1>4 DEF CallInv, CallsOK, TryReclaim, StartExecution, Return, GoTo, Statuses
    <2> QED
      BY <2>1, <2>2, <2>3, <2>4, <2>5 DEF Parts
  <1>5. ASSUME NEW c \in Callers, GetAgain(c) PROVE Parts'
    <2>1. RecordsOK'
      BY <1>5 DEF GetAgain, GetByScopeAndKeyHash
    <2>2. CallsOK'
      BY <1>5 DEF CallsOK, Steps, GetAgain, Return, Decide, ToReclaim, GoTo, SamePayload, Rows, Statuses
    <2>3. RestOK'
      BY <1>5 DEF RestOK, CallsOK, Steps, Executing, GetAgain, Return, Decide, ToReclaim, GoTo, SamePayload, Rows, Statuses
    <2>4. FlagsOK'
      BY <1>5 DEF FlagsOK, GetAgain, Return, Decide, ToReclaim, GoTo, SamePayload, Rows, Statuses
    <2>5. \A d \in Callers : CallInv(d)'
      BY <1>5 DEF CallInv, CallsOK, GetAgain, Return, Decide, ToReclaim, GoTo, SamePayload, Rows, Statuses
    <2> QED
      BY <2>1, <2>2, <2>3, <2>4, <2>5 DEF Parts
  <1>6. ASSUME NEW c \in Callers, Execute(c) PROVE Parts'
    <2>1. RecordsOK'
      BY <1>6 DEF Execute, recordVars
    <2>2. CallsOK'
      BY <1>6 DEF CallsOK, Steps, Execute, GoTo, recordVars
    <2>3. RestOK'
      BY <1>6 DEF RestOK, CallsOK, Steps, Executing, Execute, GoTo, recordVars
    <2>4. FlagsOK'
      BY <1>6 DEF FlagsOK, Execute, GoTo, recordVars
    <2>5. \A d \in Callers : CallInv(d)'
      BY <1>6 DEF CallInv, CallsOK, Execute, GoTo, recordVars
    <2> QED
      BY <2>1, <2>2, <2>3, <2>4, <2>5 DEF Parts
  <1>7. ASSUME NEW c \in Callers, StoreSuccess(c) PROVE Parts'
    <2>0. /\ StoredUntil(c) \in Nat /\ clock + Backoff \in Nat
          /\ payload[c] \in Fingerprints
      BY <1>7 DEF StoreSuccess, StoredUntil, ExpiresAt, CallInv, CallsOK
    <2>1. RecordsOK'
      BY <1>7, <2>0, RecordsAssumption, SuccessRow DEF StoreSuccess, MarkSucceeded
    <2>2. CallsOK'
      BY <1>7, <2>0 DEF CallsOK, Steps, StoreSuccess, Statuses
    <2>3. RestOK'
      BY <1>7, <2>0 DEF RestOK, CallsOK, Steps, Executing, StoreSuccess, Statuses
    <2>4. FlagsOK'
      BY <1>7 DEF FlagsOK, StoreSuccess, Statuses
    <2>5. \A d \in Callers : CallInv(d)'
      BY <1>7 DEF CallInv, CallsOK, StoreSuccess, Statuses
    <2> QED
      BY <2>1, <2>2, <2>3, <2>4, <2>5 DEF Parts
  <1>8. ASSUME NEW c \in Callers, StoreFailure(c) PROVE Parts'
    <2>0. /\ StoredUntil(c) \in Nat /\ clock + Backoff \in Nat
          /\ payload[c] \in Fingerprints
      BY <1>8 DEF StoreFailure, StoredUntil, ExpiresAt, CallInv, CallsOK
    <2>1. RecordsOK'
      BY <1>8, <2>0, RecordsAssumption, FailureRow DEF StoreFailure, MarkFailedRetryable
    <2>2. CallsOK'
      BY <1>8, <2>0 DEF CallsOK, Steps, StoreFailure, Return, Statuses
    <2>3. RestOK'
      BY <1>8, <2>0 DEF RestOK, CallsOK, Steps, Executing, StoreFailure, Return, Statuses
    <2>4. FlagsOK'
      BY <1>8 DEF FlagsOK, StoreFailure, Return, Statuses
    <2>5. \A d \in Callers : CallInv(d)'
      BY <1>8 DEF CallInv, CallsOK, StoreFailure, Return, Statuses
    <2> QED
      BY <2>1, <2>2, <2>3, <2>4, <2>5 DEF Parts
  <1>9. ASSUME NEW c \in Callers, Renew(c) PROVE Parts'
    <2>1. RecordsOK'
      BY <1>9, RecordsAssumption, LockRow DEF Renew, Extendable
    <2>2. CallsOK'
      BY <1>9 DEF CallsOK, Steps, Renew
    <2>3. RestOK'
      BY <1>9 DEF RestOK, CallsOK, Steps, Executing, Renew
    <2>4. FlagsOK'
      BY <1>9 DEF FlagsOK, Renew
    <2>5. \A d \in Callers : CallInv(d)'
      BY <1>9 DEF CallInv, CallsOK, Renew
    <2> QED
      BY <2>1, <2>2, <2>3, <2>4, <2>5 DEF Parts
  <1>10. ASSUME NEW c \in Callers, CallEnds(c) PROVE Parts'
    <2>1. RecordsOK'
      BY <1>10 DEF CallEnds, SpendFault
    <2>2. CallsOK'
      BY <1>10 DEF CallsOK, Steps, CallEnds, Return, Statuses
    <2>3. RestOK'
      BY <1>10 DEF RestOK, CallsOK, Steps, Executing, CallEnds, Return, Statuses
    <2>4. FlagsOK'
      BY <1>10 DEF FlagsOK, CallEnds, Return, Statuses
    <2>5. \A d \in Callers : CallInv(d)'
      BY <1>10 DEF CallInv, CallsOK, CallEnds, Return, Statuses
    <2> QED
      BY <2>1, <2>2, <2>3, <2>4, <2>5 DEF Parts
  <1>11. CASE Cleanup
    <2>1. RecordsOK'
      BY <1>11 DEF Cleanup, DeleteExpired
    <2>2. CallsOK'
      BY <1>11 DEF CallsOK, Steps, Cleanup
    <2>3. RestOK'
      BY <1>11 DEF RestOK, CallsOK, Steps, Executing, Cleanup
    <2>4. FlagsOK'
      BY <1>11 DEF FlagsOK, Cleanup
    <2>5. \A d \in Callers : CallInv(d)'
      BY <1>11 DEF CallInv, CallsOK, Cleanup
    <2> QED
      BY <2>1, <2>2, <2>3, <2>4, <2>5 DEF Parts
  <1>12. CASE Tick
    <2>1. RecordsOK'
      BY <1>12 DEF Tick
    <2>2. CallsOK'
      BY <1>12 DEF CallsOK, Steps, Tick
    <2>3. RestOK'
      BY <1>12 DEF RestOK, CallsOK, Steps, Executing, Tick
    <2>4. FlagsOK'
      BY <1>12 DEF FlagsOK, Tick
    <2>5. \A d \in Callers : CallInv(d)'
      BY <1>12 DEF CallInv, CallsOK, Tick
    <2> QED
      BY <2>1, <2>2, <2>3, <2>4, <2>5 DEF Parts
  <1>13. CASE UNCHANGED vars
    BY <1>13 DEF vars, recordVars, Parts, CallsOK, CallInv, RestOK, FlagsOK, Executing
  <1> QED
    BY <1>1, <1>2, <1>3, <1>4, <1>5, <1>6, <1>7, <1>8, <1>9, <1>10, <1>11, <1>12, <1>13
       DEF Next

-----------------------------------------------------------------------------
(* What a call has in common with its record.                              *)

\* What the proofs below use of TypeInv.
LEMMA Typed ==
  ASSUME TypeInv
  PROVE  /\ clock \in Nat /\ okUntil \in Nat /\ faults \in 0..MaxFaults
         /\ now \in [Callers -> Nat] /\ claimEnd \in [Callers -> Nat]
         /\ pc \in [Callers -> Steps] /\ from \in [Callers -> Statuses]
         /\ payload \in [Callers -> Fingerprints \cup {NoResult}]
         /\ answer \in [Callers -> Fingerprints \cup {NoResult}]
         /\ \A c \in Callers : now[c] <= clock /\ (pc[c] # "idle" => payload[c] \in Fingerprints)
         /\ earlier \subseteq Callers /\ renewing \subseteq Executing
         /\ known \subseteq Callers /\ (row = NoRow => known = {})
         /\ row # NoRow => row \in Rows /\ row.lock \in Nat /\ row.exp \in Nat
  BY TypeParts DEF Parts, RecordsOK, CallsOK, CallInv, RestOK, Rows

LEMMA NextPayload == TypeInv /\ PayloadInv /\ [Next]_vars => PayloadInv'
  <1> SUFFICES ASSUME TypeInv, PayloadInv, [Next]_vars PROVE PayloadInv'
    OBVIOUS
  <1>t. /\ pc \in [Callers -> Steps]
        /\ payload \in [Callers -> Fingerprints \cup {NoResult}]
        /\ answer \in [Callers -> Fingerprints \cup {NoResult}]
        /\ row = NoRow => known = {}
        /\ row # NoRow => row \in Rows
        /\ \A c \in Callers : pc[c] # "idle" => payload[c] \in Fingerprints
        /\ renewing \subseteq Executing
    BY Typed
  <1> DEFINE Own(c) == c \in Reclaiming \cup Executing /\ c \in known => row.fp = payload[c]
             Result == row # NoRow /\ row.status = "succeeded" => row.result = row.fp
  <1>p. Result /\ AnswersOwnPayload /\ \A c \in Callers : Own(c)
    BY DEF PayloadInv
  <1>q. ASSUME Result', AnswersOwnPayload', \A c \in Callers : Own(c)'
        PROVE  PayloadInv'
    BY <1>q DEF PayloadInv, Reclaiming, Executing
  <1> HIDE DEF Own, Result
  <1> USE DEF Reclaiming, Executing, progress, claim, ghosts, AnswersOwnPayload
  <1>1. ASSUME NEW c \in Callers, NEW p \in Fingerprints, Call(c, p) PROVE PayloadInv'
    <2>1. Result'
      BY <1>1, <1>t, <1>p DEF Result, Call
    <2>2. AnswersOwnPayload'
      BY <1>1, <1>t, <1>p DEF Call
    <2>3. \A d \in Callers : Own(d)'
      BY <1>1, <1>t, <1>p DEF Own, Steps, Call
    <2> QED
      BY <2>1, <2>2, <2>3, <1>q
  <1>2. ASSUME NEW c \in Callers, Create(c) PROVE PayloadInv'
    <2>1. Result'
      BY <1>2, <1>t, <1>p DEF Result, Create, CreateProcessing, StartExecution, GoTo
    <2>2. AnswersOwnPayload'
      BY <1>2, <1>t, <1>p DEF Create, CreateProcessing, StartExecution, GoTo
    <2>3. \A d \in Callers : Own(d)'
      BY <1>2, <1>t, <1>p DEF Own, Steps, Create, CreateProcessing, StartExecution, GoTo
    <2> QED
      BY <2>1, <2>2, <2>3, <1>q
  <1>3. ASSUME NEW c \in Callers, Get(c) PROVE PayloadInv'
    <2>1. Result'
      BY <1>3, <1>t, <1>p DEF Result, Get, GetByScopeAndKeyHash, SamePayload, Decide, Return, ToReclaim, GoTo, Result
    <2>2. AnswersOwnPayload'
      BY <1>3, <1>t, <1>p DEF Get, GetByScopeAndKeyHash, SamePayload, Decide, Return, ToReclaim, GoTo, Result
    <2>3. \A d \in Callers : Own(d)'
      BY <1>3, <1>t, <1>p DEF Own, Steps, Get, GetByScopeAndKeyHash, SamePayload, Decide, Return, ToReclaim, GoTo, Result
    <2> QED
      BY <2>1, <2>2, <2>3, <1>q
  <1>4. ASSUME NEW c \in Callers, TryReclaim(c) PROVE PayloadInv'
    <2>1. Result'
      BY <1>4, <1>t, <1>p DEF Result, TryReclaim, Reclaimable, Reclaim, StartExecution, Return, GoTo, Rows
    <2>2. AnswersOwnPayload'
      BY <1>4, <1>t, <1>p DEF TryReclaim, Reclaimable, Reclaim, StartExecution, Return, GoTo, Rows
    <2>3. \A d \in Callers : Own(d)'
      BY <1>4, <1>t, <1>p DEF Own, Steps, TryReclaim, Reclaimable, Reclaim, StartExecution, Return, GoTo, Rows
    <2> QED
      BY <2>1, <2>2, <2>3, <1>q
  <1>5. ASSUME NEW c \in Callers, GetAgain(c) PROVE PayloadInv'
    <2>1. Result'
      BY <1>5, <1>t, <1>p DEF Result, GetAgain, GetByScopeAndKeyHash, SamePayload, Decide, Return, ToReclaim, GoTo, Result
    <2>2. AnswersOwnPayload'
      BY <1>5, <1>t, <1>p DEF GetAgain, GetByScopeAndKeyHash, SamePayload, Decide, Return, ToReclaim, GoTo, Result
    <2>3. \A d \in Callers : Own(d)'
      BY <1>5, <1>t, <1>p DEF Own, Steps, GetAgain, GetByScopeAndKeyHash, SamePayload, Decide, Return, ToReclaim, GoTo, Result
    <2> QED
      BY <2>1, <2>2, <2>3, <1>q
  <1>6. ASSUME NEW c \in Callers, Execute(c) PROVE PayloadInv'
    <2>1. Result'
      BY <1>6, <1>t, <1>p DEF Result, Execute, GoTo, recordVars
    <2>2. AnswersOwnPayload'
      BY <1>6, <1>t, <1>p DEF Execute, GoTo, recordVars
    <2>3. \A d \in Callers : Own(d)'
      BY <1>6, <1>t, <1>p DEF Own, Steps, Execute, GoTo, recordVars
    <2> QED
      BY <2>1, <2>2, <2>3, <1>q
  <1>7. ASSUME NEW c \in Callers, StoreSuccess(c) PROVE PayloadInv'
    <2>1. Result'
      <3>1. CASE c \in known
        <4>1. row.fp = payload[c] /\ row \in Rows
          BY <1>7, <1>t, <1>p, <3>1 DEF Own, StoreSuccess
        <4> QED
          BY <1>7, <3>1, <4>1 DEF Result, StoreSuccess, MarkSucceeded, Rows
      <3>2. CASE c \notin known
        BY <1>7, <1>p, <3>2 DEF Result, StoreSuccess, MarkSucceeded
      <3> QED
        BY <3>1, <3>2
    <2>2. AnswersOwnPayload'
      BY <1>7, <1>t, <1>p DEF StoreSuccess, MarkSucceeded, Rows
    <2>3. \A d \in Callers : Own(d)'
      BY <1>7, <1>t, <1>p DEF Own, Steps, StoreSuccess, MarkSucceeded, Rows
    <2> QED
      BY <2>1, <2>2, <2>3, <1>q
  <1>8. ASSUME NEW c \in Callers, StoreFailure(c) PROVE PayloadInv'
    <2>1. Result'
      BY <1>8, <1>t, <1>p DEF Result, StoreFailure, MarkFailedRetryable, Return, Rows
    <2>2. AnswersOwnPayload'
      BY <1>8, <1>t, <1>p DEF StoreFailure, MarkFailedRetryable, Return, Rows
    <2>3. \A d \in Callers : Own(d)'
      BY <1>8, <1>t, <1>p DEF Own, Steps, StoreFailure, MarkFailedRetryable, Return, Rows
    <2> QED
      BY <2>1, <2>2, <2>3, <1>q
  <1>9. ASSUME NEW c \in Callers, Renew(c) PROVE PayloadInv'
    <2>1. Result'
      BY <1>9, <1>t, <1>p DEF Result, Renew, ExtendProcessingLock, Extendable, Rows
    <2>2. AnswersOwnPayload'
      BY <1>9, <1>t, <1>p DEF Renew, ExtendProcessingLock, Extendable, Rows
    <2>3. \A d \in Callers : Own(d)'
      BY <1>9, <1>t, <1>p DEF Own, Steps, Renew, ExtendProcessingLock, Extendable, Rows
    <2> QED
      BY <2>1, <2>2, <2>3, <1>q
  <1>10. ASSUME NEW c \in Callers, CallEnds(c) PROVE PayloadInv'
    <2>1. Result'
      BY <1>10, <1>t, <1>p DEF Result, CallEnds, Return
    <2>2. AnswersOwnPayload'
      BY <1>10, <1>t, <1>p DEF CallEnds, Return
    <2>3. \A d \in Callers : Own(d)'
      BY <1>10, <1>t, <1>p DEF Own, Steps, CallEnds, Return
    <2> QED
      BY <2>1, <2>2, <2>3, <1>q
  <1>11. CASE Cleanup
    <2>1. Result'
      BY <1>11, <1>t, <1>p DEF Result, Cleanup, DeleteExpired
    <2>2. AnswersOwnPayload'
      BY <1>11, <1>t, <1>p DEF Cleanup, DeleteExpired
    <2>3. \A d \in Callers : Own(d)'
      BY <1>11, <1>t, <1>p DEF Own, Steps, Cleanup, DeleteExpired
    <2> QED
      BY <2>1, <2>2, <2>3, <1>q
  <1>12. CASE Tick
    <2>1. Result'
      BY <1>12, <1>t, <1>p DEF Result, Tick
    <2>2. AnswersOwnPayload'
      BY <1>12, <1>t, <1>p DEF Tick
    <2>3. \A d \in Callers : Own(d)'
      BY <1>12, <1>t, <1>p DEF Own, Steps, Tick
    <2> QED
      BY <2>1, <2>2, <2>3, <1>q
  <1>13. CASE UNCHANGED vars
    BY <1>13, <1>p, <1>q DEF vars, recordVars, Own, Result
  <1> QED
    BY <1>1, <1>2, <1>3, <1>4, <1>5, <1>6, <1>7, <1>8, <1>9, <1>10, <1>11, <1>12, <1>13
       DEF Next

-----------------------------------------------------------------------------
(* What an execution, and a success, have in common with the record.       *)

ExclusiveInv == ClaimInv /\ SuccessInv

LEMMA NextExclusive ==
  ASSUME TypeInv, TypeInv', [Next]_vars, ExclusiveInv, ~overran, ~overran'
  PROVE  ExclusiveInv'
  <1>t. /\ clock \in Nat /\ okUntil \in Nat
        /\ now \in [Callers -> Nat] /\ claimEnd \in [Callers -> Nat]
        /\ pc \in [Callers -> Steps] /\ from \in [Callers -> Statuses]
        /\ \A c \in Callers : now[c] <= clock /\ (pc[c] # "idle" => payload[c] \in Fingerprints)
        /\ earlier \subseteq Callers /\ renewing \subseteq Executing
        /\ known \subseteq Callers /\ (row = NoRow => known = {})
        /\ row # NoRow => row \in Rows /\ row.lock \in Nat /\ row.exp \in Nat
    BY Typed
  <1>h. /\ \A c \in Executing : Holds(c) /\ row # NoRow /\ row \in Rows
        /\ \A c, d \in Executing : c = d
    BY <1>t DEF ExclusiveInv, ClaimInv, Holds
  <1>s. SuccessInv
    BY DEF ExclusiveInv
  \* A call that starts its execution finds nobody executing.
  <1>e. ASSUME NEW c \in Callers, StartExecution(c), Executing = {}, Holds(c)',
               clock' = clock, clock < okUntil => c \in earlier
        PROVE  ExclusiveInv'
    <2>1. Executing' = {c}
      BY <1>t, <1>e DEF Executing, StartExecution, GoTo, Steps
    <2>2. ~(clock' < okUntil')
      BY <1>t, <1>e DEF StartExecution
    <2> QED
      BY <1>e, <2>1, <2>2 DEF ExclusiveInv, ClaimInv, SuccessInv
  <1>f. ASSUME NEW c \in Callers, StartExecution(c)
        PROVE  /\ LockedUntil(c) \in Nat /\ ExpiresAt(c) \in Nat
               /\ LockedUntil(c) > clock /\ ExpiresAt(c) > clock
               /\ claimEnd'[c] = ExpiresAt(c)
               /\ UNCHANGED <<now, from>> /\ Reclaiming' = Reclaiming \ {c}
    <2>1. ~(LockedUntil(c) <= clock) /\ ~(ExpiresAt(c) <= clock)
      BY <1>f DEF StartExecution
    <2>2. LockedUntil(c) \in Nat /\ ExpiresAt(c) \in Nat
      BY <1>t DEF LockedUntil, ExpiresAt
    <2>3. claimEnd'[c] = ExpiresAt(c) /\ UNCHANGED <<now, from>>
      BY <1>t, <1>f DEF StartExecution
    <2>4. Reclaiming' = Reclaiming \ {c}
      BY <1>t, <1>f DEF StartExecution, GoTo, Reclaiming, Steps
    <2> QED
      BY <1>t, <2>1, <2>2, <2>3, <2>4
  \* A step that touches neither the record nor who executes, and brings no call
  \* to a reclaim.
  <1>g. ASSUME UNCHANGED <<row, clock, okUntil, claimEnd>>, Executing' = Executing,
               known \cap Executing \subseteq known', Reclaiming' \subseteq Reclaiming,
               Reclaiming' \cap known' \subseteq known, Reclaiming' \cap earlier \subseteq earlier',
               \A d \in Reclaiming' : now'[d] = now[d] /\ from'[d] = from[d]
        PROVE  ExclusiveInv'
    <2>1. ASSUME NEW c \in Executing PROVE Holds(c)'
      BY <1>h, <1>g, <2>1 DEF Holds
    <2>2. SuccessInv'
      BY <1>s, <1>g DEF SuccessInv
    <2> QED
      BY <1>h, <1>g, <2>1, <2>2 DEF ExclusiveInv, ClaimInv
  <1>1. ASSUME NEW c \in Callers, NEW p \in Fingerprints, Call(c, p) PROVE ExclusiveInv'
    <2>1. Executing' = Executing /\ c \notin Executing /\ Reclaiming' = Reclaiming
      BY <1>t, <1>1 DEF Executing, Reclaiming, Call, Steps
    <2>2. c \notin Reclaiming
      BY <1>1 DEF Reclaiming, Call
    <2> QED
      BY <1>t, <1>1, <1>g, <2>1, <2>2 DEF Call, ghosts, Reclaiming
  <1>2. ASSUME NEW c \in Callers, Create(c) PROVE ExclusiveInv'
    <2>1. CASE row = NoRow
      <3>1. Executing = {} /\ ~(clock < okUntil)
        BY <1>h, <1>s, <2>1 DEF SuccessInv
      <3>2. StartExecution(c) /\ clock' = clock /\ payload[c] \in Fingerprints
        BY <1>t, <1>2, <2>1 DEF Create
      <3>3. /\ row'.status = "processing" /\ row'.exp = ExpiresAt(c) /\ known' = {c}
            /\ c \notin Reclaiming'
        BY <1>2, <1>f, <2>1, <3>2, CreateRow DEF Create
      <3>4. Holds(c)'
        BY <1>f, <3>2, <3>3 DEF Holds
      <3> QED
        BY <1>e, <3>1, <3>2, <3>4
    <2>2. CASE row # NoRow
      <3>1. Executing' = Executing /\ Reclaiming' = Reclaiming
        BY <1>t, <1>2, <2>2 DEF Executing, Reclaiming, Create, GoTo, Steps
      <3> QED
        BY <1>t, <1>2, <1>g, <2>2, <3>1 DEF Create, GoTo, claim, ghosts
    <2> QED
      BY <2>1, <2>2
  \* A call that has read the record goes on to a reclaim only if it may.
  <1>r. ASSUME NEW c \in Callers, pc[c] \in {"get", "reget"}, UNCHANGED <<row, clock, okUntil>>,
               known' = IF row = NoRow THEN {} ELSE known \cup {c},
               \/ \E result : Return(c, result)
               \/ row.status = "failed_retryable" /\ ToReclaim(c, "retry")
               \/ row # NoRow /\ row.exp <= now[c] /\ ToReclaim(c, "reclaim")
        PROVE  ExclusiveInv'
    <2>1. c \notin Executing /\ c \notin Reclaiming
      BY <1>r DEF Executing, Reclaiming
    <2>2. CASE \E result : Return(c, result)
      <3>1. Executing' = Executing /\ Reclaiming' = Reclaiming
        BY <1>t, <2>1, <2>2 DEF Executing, Reclaiming, Return, Steps
      <3>2. /\ \A d \in Callers \ {c} : now'[d] = now[d] /\ from'[d] = from[d] /\ claimEnd'[d] = claimEnd[d]
            /\ earlier' = earlier \ {c}
        BY <1>t, <2>2 DEF Return
      <3>3. ASSUME NEW d \in Executing PROVE Holds(d)'
        <4>1. d \in Callers /\ d # c /\ Holds(d) /\ row # NoRow
          BY <1>h, <2>1 DEF Executing
        <4> QED
          BY <1>r, <2>1, <3>1, <3>2, <4>1 DEF Holds, Reclaiming
      <3>4. SuccessInv'
        BY <1>r, <1>s, <2>1, <3>1, <3>2 DEF SuccessInv
      <3> QED
        BY <1>h, <3>1, <3>3, <3>4 DEF ExclusiveInv, ClaimInv
    <2>3. CASE row.status = "failed_retryable" /\ ToReclaim(c, "retry")
      <3>1. Executing = {} /\ ~(clock < okUntil)
        BY <1>h, <1>s, <2>3 DEF Holds, SuccessInv
      <3>2. Executing' = {}
        BY <1>t, <2>3, <3>1 DEF Executing, ToReclaim, GoTo, Steps
      <3> QED
        BY <1>r, <3>1, <3>2 DEF ExclusiveInv, ClaimInv, SuccessInv
    <2>4. CASE row # NoRow /\ row.exp <= now[c] /\ ToReclaim(c, "reclaim")
      <3>1. row.exp <= clock
        BY <1>t, <2>4
      <3>2. Executing = {} /\ ~(clock < okUntil)
        BY <1>t, <1>h, <1>s, <2>4, <3>1 DEF Holds, SuccessInv, Executing
      <3>3. Executing' = {}
        BY <1>t, <2>4, <3>2 DEF Executing, ToReclaim, GoTo, Steps
      <3> QED
        BY <1>r, <3>2, <3>3 DEF ExclusiveInv, ClaimInv, SuccessInv
    <2> QED
      BY <1>r, <2>2, <2>3, <2>4
  <1>3. ASSUME NEW c \in Callers, Get(c) PROVE ExclusiveInv'
    <2>1. \/ \E result : Return(c, result)
          \/ row.status = "failed_retryable" /\ ToReclaim(c, "retry")
          \/ row # NoRow /\ row.exp <= now[c] /\ ToReclaim(c, "reclaim")
      BY <1>3 DEF Get, Decide, Expired, SamePayload
    <2>2. /\ pc[c] \in {"get", "reget"} /\ UNCHANGED <<row, clock, okUntil>>
          /\ known' = IF row = NoRow THEN {} ELSE known \cup {c}
      BY <1>3 DEF Get, GetByScopeAndKeyHash, ghosts
    <2> QED
      BY <1>r, <2>1, <2>2
  <1>4. ASSUME NEW c \in Callers, TryReclaim(c) PROVE ExclusiveInv'
    <2>1. CASE Reclaimable(c, from[c], now[c])
      <3>1. row \in Rows /\ c \in Reclaiming /\ c \in known
        BY <1>t, <1>4, <2>1 DEF TryReclaim, Reclaimable, Reclaiming
      <3>2. Executing = {}
        <4>1. ASSUME NEW d \in Executing PROVE FALSE
          <5>1. Holds(d)
            BY <1>h, <4>1
          <5>2. now[c] < row.lock /\ row.lock <= now[c] /\ row.lock \in Nat /\ now[c] \in Nat
            BY <1>t, <2>1, <3>1, <5>1 DEF Holds, Reclaimable
          <5> QED
            BY <5>2
        <4> QED
          BY <4>1
      <3>3. StartExecution(c) /\ Reclaim(LockedUntil(c), ExpiresAt(c)) /\ clock' = clock
        BY <1>4, <2>1 DEF TryReclaim
      <3>4. /\ row'.status = "processing" /\ row'.exp = ExpiresAt(c) /\ known' = known
            /\ row'.lock = LockedUntil(c)
        BY <1>f, <3>1, <3>3, LockRow
      <3>5. \A d \in Reclaiming' : now'[d] < row'.lock
        BY <1>t, <1>f, <3>3, <3>4 DEF Reclaiming
      <3>6. Holds(c)'
        BY <1>f, <3>1, <3>3, <3>4, <3>5 DEF Holds
      <3>7. clock < okUntil => c \in earlier
        BY <1>s, <3>1 DEF SuccessInv
      <3> QED
        BY <1>e, <3>2, <3>3, <3>6, <3>7
    <2>2. CASE ~Reclaimable(c, from[c], now[c])
      <3>1. Executing' = Executing /\ Reclaiming' = Reclaiming \ {c} /\ c \notin Executing
        BY <1>t, <1>4, <2>2 DEF Executing, Reclaiming, TryReclaim, Return, GoTo, Steps
      <3>2. /\ UNCHANGED <<row, known, clock, okUntil>>
            /\ \A d \in Callers \ {c} : now'[d] = now[d] /\ from'[d] = from[d] /\ claimEnd'[d] = claimEnd[d]
            /\ earlier \ {c} \subseteq earlier'
        BY <1>t, <1>4, <2>2 DEF TryReclaim, Return, GoTo, claim, ghosts
      <3>3. ASSUME NEW d \in Executing PROVE Holds(d)'
        <4>1. d \in Callers /\ d # c /\ Holds(d)
          BY <1>h, <3>1 DEF Executing
        <4> QED
          BY <3>1, <3>2, <4>1 DEF Holds, Reclaiming
      <3>4. SuccessInv'
        BY <1>s, <3>1, <3>2 DEF SuccessInv
      <3> QED
        BY <1>h, <3>1, <3>3, <3>4 DEF ExclusiveInv, ClaimInv
    <2> QED
      BY <2>1, <2>2
  <1>5. ASSUME NEW c \in Callers, GetAgain(c) PROVE ExclusiveInv'
    <2>1. \/ \E result : Return(c, result)
          \/ row.status = "failed_retryable" /\ ToReclaim(c, "retry")
      BY <1>5 DEF GetAgain, Decide
    <2>2. /\ pc[c] \in {"get", "reget"} /\ UNCHANGED <<row, clock, okUntil>>
          /\ known' = IF row = NoRow THEN {} ELSE known \cup {c}
      BY <1>5 DEF GetAgain, GetByScopeAndKeyHash, ghosts
    <2> QED
      BY <1>r, <2>1, <2>2
  <1>6. ASSUME NEW c \in Callers, Execute(c) PROVE ExclusiveInv'
    <2>1. Executing' = Executing /\ Reclaiming' = Reclaiming
      BY <1>t, <1>6 DEF Executing, Reclaiming, Execute, GoTo, Steps
    <2> QED
      BY <1>6, <1>g, <2>1 DEF Execute, GoTo, recordVars, claim, ghosts
  \* The execution ends; it was the only one.
  <1>7. ASSUME NEW c \in Callers, StoreSuccess(c) PROVE ExclusiveInv'
    <2>1. c \in Executing /\ c \in known /\ row \in Rows /\ row # NoRow
      BY <1>h, <1>7 DEF Executing, StoreSuccess, Holds
    <2>2. Executing' = {}
      BY <1>t, <1>h, <1>7, <2>1 DEF Executing, StoreSuccess, Steps
    <2>3. StoredUntil(c) \in Nat /\ payload[c] \in Fingerprints
      BY <1>t, <1>7 DEF StoredUntil, ExpiresAt, StoreSuccess
    <2>4. row' \in Rows /\ row'.status = "succeeded" /\ row'.exp = StoredUntil(c)
      BY <1>7, <2>1, <2>3, SuccessRow DEF StoreSuccess
    <2>5. okUntil' = StoredUntil(c) /\ earlier' = {d \in Callers \ {c} : pc[d] # "idle"}
      BY <1>7, <2>1 DEF StoreSuccess
    <2>6. Reclaiming' \subseteq earlier'
      BY <1>t, <1>7, <2>5 DEF Reclaiming, StoreSuccess
    <2> QED
      BY <2>2, <2>3, <2>4, <2>5, <2>6, RecordsAssumption DEF ExclusiveInv, ClaimInv, SuccessInv
  <1>8. ASSUME NEW c \in Callers, StoreFailure(c) PROVE ExclusiveInv'
    <2>1. c \in Executing
      BY <1>8 DEF Executing, StoreFailure
    <2>2. Executing' = {}
      BY <1>t, <1>h, <1>8, <2>1 DEF Executing, StoreFailure, Return, Steps
    <2>3. ~(clock' < okUntil')
      BY <1>s, <1>8, <2>1 DEF SuccessInv, StoreFailure, ghosts
    <2> QED
      BY <2>2, <2>3 DEF ExclusiveInv, ClaimInv, SuccessInv
  <1>9. ASSUME NEW c \in Callers, Renew(c) PROVE ExclusiveInv'
    <2>1. /\ Executing' = Executing /\ Reclaiming' = Reclaiming /\ c \in Executing
          /\ UNCHANGED <<clock, now, from, okUntil>> /\ \A d \in Executing : d = c
      BY <1>t, <1>h, <1>9 DEF Executing, Reclaiming, Renew, progress, ghosts
    <2>2. Holds(c) /\ row \in Rows /\ ~(clock < okUntil)
      BY <1>h, <1>s, <2>1 DEF SuccessInv
    <2>3. CASE Extendable(c, payload[c])
      <3>0. /\ clock + Lease \in Nat /\ clock + TTL \in Nat /\ row.status = "processing"
            /\ ExtendProcessingLock(clock + Lease, clock + TTL)
        BY <1>t, <1>9, <2>3 DEF Renew, Extendable
      <3>1. /\ row'.status = "processing" /\ known' = known
            /\ row'.lock = clock + Lease /\ row'.exp = clock + TTL
        BY <2>2, <3>0, LockRow
      <3>2. claimEnd'[c] = clock + TTL
        BY <1>t, <1>9, <2>3 DEF Renew
      <3>3. Holds(c)'
        BY <1>t, <2>1, <2>2, <3>1, <3>2 DEF Holds, Reclaiming
      <3> QED
        BY <2>1, <2>2, <3>3 DEF ExclusiveInv, ClaimInv, SuccessInv
    <2>4. CASE ~Extendable(c, payload[c])
      <3>1. Holds(c)'
        BY <1>9, <2>1, <2>2, <2>4 DEF Holds, Renew
      <3> QED
        BY <2>1, <2>2, <3>1 DEF ExclusiveInv, ClaimInv, SuccessInv
    <2> QED
      BY <2>3, <2>4
  <1>10. ASSUME NEW c \in Callers, CallEnds(c) PROVE ExclusiveInv'
    <2>1. Executing' = Executing \ {c} /\ Reclaiming' = Reclaiming \ {c}
      BY <1>t, <1>10 DEF Executing, Reclaiming, CallEnds, Return, Steps
    <2>2. /\ UNCHANGED <<row, known, clock, okUntil>> /\ earlier' = earlier \ {c}
          /\ \A d \in Callers \ {c} : now'[d] = now[d] /\ from'[d] = from[d] /\ claimEnd'[d] = claimEnd[d]
      BY <1>t, <1>10 DEF CallEnds, Return, ghosts
    <2>3. ASSUME NEW d \in Executing' PROVE Holds(d)'
      <3>1. d \in Callers /\ d # c /\ Holds(d)
        BY <1>h, <2>1 DEF Executing
      <3> QED
        BY <2>1, <2>2, <3>1 DEF Holds, Reclaiming
    <2>4. SuccessInv'
      BY <1>s, <2>1, <2>2 DEF SuccessInv
    <2> QED
      BY <1>h, <2>1, <2>3, <2>4 DEF ExclusiveInv, ClaimInv
  <1>11. CASE Cleanup
    <2>1. Executing = {} /\ ~(clock < okUntil)
      BY <1>t, <1>h, <1>s, <1>11 DEF Cleanup, DeleteExpired, Holds, SuccessInv, Executing
    <2>2. Executing' = {} /\ UNCHANGED <<clock, okUntil>>
      BY <1>11, <2>1 DEF Executing, Cleanup, DeleteExpired, progress, ghosts
    <2> QED
      BY <2>1, <2>2 DEF ExclusiveInv, ClaimInv, SuccessInv
  <1>12. CASE Tick
    <2>1. /\ Executing' = Executing /\ Reclaiming' = Reclaiming /\ clock' = clock + 1
          /\ UNCHANGED <<row, known, now, from, claimEnd, okUntil, earlier>>
      BY <1>12 DEF Executing, Reclaiming, Tick, progress, claim
    <2>2. ASSUME NEW c \in Executing PROVE Holds(c)'
      <3>1. ~(claimEnd[c] <= clock') /\ c \in Callers /\ Holds(c)
        BY <1>h, <1>12, <2>2 DEF Tick, Executing
      <3>2. claimEnd[c] > clock'
        BY <1>t, <2>1, <3>1
      <3> QED
        BY <2>1, <3>1, <3>2 DEF Holds
    <2>3. SuccessInv'
      BY <1>t, <1>s, <2>1 DEF SuccessInv
    <2> QED
      BY <1>h, <2>1, <2>2, <2>3 DEF ExclusiveInv, ClaimInv
  <1>13. CASE UNCHANGED vars
    BY <1>13, <1>g DEF vars, recordVars, progress, claim, ghosts, Executing, Reclaiming
  <1> QED
    BY <1>1, <1>2, <1>3, <1>4, <1>5, <1>6, <1>7, <1>8, <1>9, <1>10, <1>11, <1>12, <1>13
       DEF Next

-----------------------------------------------------------------------------
LEMMA InitInv == Init => IInv
  <1> SUFFICES ASSUME Init PROVE IInv
    OBVIOUS
  <1>1. TypeInv
    BY InitType, TypeParts
  <1>2. Executing = {} /\ Reclaiming = {} /\ ~(clock < okUntil)
    BY DEF Init, RecordsInit, Executing, Reclaiming
  <1>3. PayloadInv
    BY <1>2 DEF Init, RecordsInit, PayloadInv, AnswersOwnPayload
  <1> QED
    BY <1>1, <1>2, <1>3 DEF IInv, ClaimInv, SuccessInv

LEMMA Invariance == Spec => []IInv
  <1>1. ASSUME IInv, [Next]_vars PROVE IInv'
    <2>1. TypeInv' /\ PayloadInv'
      BY <1>1, NextType, NextPayload DEF IInv
    <2>2. CASE overran
      <3>1. overran'
        <4>1. ASSUME NEW c \in Callers, Create(c) PROVE overran'
          BY <2>2, <4>1 DEF Create, StartExecution, ghosts
        <4>2. ASSUME NEW c \in Callers, TryReclaim(c) PROVE overran'
          BY <2>2, <4>2 DEF TryReclaim, StartExecution, ghosts
        <4> QED
          BY <1>1, <2>2, <4>1, <4>2 DEF Next, Call, Get, GetAgain, Execute, StoreSuccess,
                StoreFailure, Renew, CallEnds, Cleanup, Tick, vars, ghosts
      <3> QED
        BY <2>1, <3>1 DEF IInv
    <2>3. CASE ~overran /\ ~overran'
      BY <1>1, <2>1, <2>3, NextExclusive DEF IInv, ExclusiveInv
    <2>4. CASE overran'
      BY <2>1, <2>4 DEF IInv
    <2> QED
      BY <2>2, <2>3, <2>4
  <1> QED
    BY InitInv, <1>1, PTL DEF Spec

\* The record, what calls carry and the renewals stay in their types; only an
\* execution is renewed.
THEOREM TypeCorrect == Spec => []TypeOK
  <1>1. IInv => TypeOK
    BY DEF IInv, TypeInv
  <1> QED
    BY <1>1, Invariance, PTL

\* Calls with one key execute one at a time, as long as none outlasts its claim
\* or claims with a lock window that is over.
THEOREM OneExecution == Spec => []OneExecutionAtATime
  <1>1. IInv => OneExecutionAtATime
    BY AtMostOne DEF IInv, ClaimInv, OneExecutionAtATime
  <1> QED
    BY <1>1, Invariance, PTL

\* decide never replays the result of an execution with another payload.
THEOREM OwnPayload == Spec => []AnswersOwnPayload
  <1>1. IInv => AnswersOwnPayload
    BY DEF IInv, PayloadInv
  <1> QED
    BY <1>1, Invariance, PTL

\* After MarkSucceeded, only a call older than the success may execute again
\* while the record lives.
THEOREM SuccessReplayed == Spec => SuccessIsReplayed
  <1> DEFINE Replayed == \A c \in Callers :
        Starts(c) => overran' \/ c \in earlier \/ clock >= okUntil
  <1>1. ASSUME IInv, IInv', [Next]_vars PROVE [Replayed]_vars
    <2> SUFFICES ASSUME Next, NEW c \in Callers, Starts(c), ~overran', c \notin earlier,
                        clock < okUntil
                 PROVE  FALSE
      <3>1. clock \in Nat /\ okUntil \in Nat
        BY <1>1, Typed DEF IInv
      <3> QED
        BY <1>1, <3>1
    <2>t. pc \in [Callers -> Steps]
      BY <1>1, Typed DEF IInv
    <2>1. Create(c) \/ TryReclaim(c)
      <3>1. ASSUME NEW d \in Callers, NEW result, Return(d, result) PROVE FALSE
        BY <2>t, <3>1 DEF Starts, Return
      <3>2. ASSUME NEW d \in Callers, NEW step, step # "run", GoTo(d, step) PROVE FALSE
        BY <2>t, <3>2 DEF Starts, GoTo
      <3>3. ASSUME NEW d \in Callers, Create(d) \/ TryReclaim(d), d # c PROVE FALSE
        BY <2>t, <3>3 DEF Starts, Create, TryReclaim, StartExecution, Return, GoTo
      <3>4. ASSUME NEW d \in Callers, Get(d) \/ GetAgain(d) PROVE FALSE
        BY <3>1, <3>2, <3>4 DEF Get, GetAgain, Decide, ToReclaim
      <3>5. ASSUME NEW d \in Callers,
                   Execute(d) \/ StoreSuccess(d) \/ StoreFailure(d) \/ Renew(d) \/ CallEnds(d)
            PROVE  FALSE
        BY <2>t, <3>1, <3>2, <3>5 DEF Starts, Execute, StoreSuccess, StoreFailure, Renew,
              CallEnds, progress
      <3>6. ASSUME NEW d \in Callers, NEW p \in Fingerprints, Call(d, p) PROVE FALSE
        BY <2>t, <3>6 DEF Starts, Call
      <3>7. ~Cleanup /\ ~Tick
        BY DEF Starts, Cleanup, Tick, progress
      <3> QED
        BY <3>3, <3>4, <3>5, <3>6, <3>7 DEF Next
    <2>2. StartExecution(c) /\ (row = NoRow \/ c \in Reclaiming)
      BY <2>t, <2>1 DEF Starts, Create, TryReclaim, Return, GoTo, Reclaiming
    <2>3. ~overran
      BY <2>2 DEF StartExecution
    <2> QED
      BY <1>1, <2>2, <2>3 DEF IInv, SuccessInv
  <1> QED
    BY <1>1, Invariance, PTL DEF Spec, SuccessIsReplayed
-----------------------------------------------------------------------------
(* The system operation lock: its inductive invariant.                     *)

\* What LockTypeOK needs to be inductive, and where the clocks of requests stand.
LockTypeInv ==
    /\ LockTypeOK
    /\ \A c \in Callers :
         /\ stage[c] # "idle" => operationID[c] \in Fingerprints
         /\ asked[c] <= clock /\ leaseEnd[c] <= clock + Lease

\* The running operation holds the record, by a lock and an expiry that cover
\* its lease.
HoldsRecord(c) ==
    /\ leaseEnd[c] > clock
    /\ c \in known /\ row.status = "processing"
    /\ row.lock >= leaseEnd[c] /\ row.exp >= leaseEnd[c]

\* While no lease has lapsed, a record in processing is held by the one
\* operation that runs, unless a failed statement left it behind.
LeaseInv ==
    /\ \A c \in Running : HoldsRecord(c)
    /\ \A c, d \in Running : c = d
    /\ (faults = MaxFaults /\ row # NoRow /\ row.status = "processing") => Running # {}

LockIInv == LockTypeInv /\ (lapsed \/ LeaseInv)

-----------------------------------------------------------------------------
\* What the statements of idempotency_repo.go make of the row.
LEMMA CreatedRow ==
  ASSUME NEW c, NEW fp \in Fingerprints, NEW lock \in Nat, NEW exp \in Nat,
         CreateProcessing(c, fp, lock, exp)
  PROVE  /\ row' \in Rows /\ known' = {c}
         /\ row'.status = "processing" /\ row'.lock = lock /\ row'.exp = exp
  BY DEF CreateProcessing, Rows, Statuses

LEMMA LockedRow ==
  ASSUME row \in Rows, NEW lock \in Nat, NEW exp \in Nat,
         Reclaim(lock, exp) \/ ExtendProcessingLock(lock, exp)
  PROVE  /\ row' \in Rows /\ known' = known
         /\ row'.lock = lock /\ row'.exp = exp
         /\ row'.status \in {row.status, "processing"}
  BY DEF Reclaim, ExtendProcessingLock, Rows, Statuses

LEMMA MarkedRow ==
  ASSUME row \in Rows \cup {NoRow}, row = NoRow => known = {},
         NEW c, NEW lock \in Nat, NEW exp \in Nat, NEW fp \in Fingerprints,
         MarkSucceeded(c, fp, exp) \/ MarkFailedRetryable(c, lock, exp)
  PROVE  /\ row' \in Rows \cup {NoRow} /\ (row' = NoRow <=> row = NoRow)
         /\ IF c \in known THEN row'.status # "processing" ELSE row' = row
  <1>1. CASE c \in known
    <2>1. row \in Rows
      BY <1>1
    <2>2. row' \in Rows /\ row'.status # "processing"
      <3>1. CASE MarkSucceeded(c, fp, exp)
        BY <1>1, <2>1, <3>1 DEF MarkSucceeded, Rows, Statuses
      <3>2. CASE MarkFailedRetryable(c, lock, exp)
        BY <1>1, <2>1, <3>2 DEF MarkFailedRetryable, Rows, Statuses
      <3> QED
        BY <3>1, <3>2
    <2> QED
      BY <1>1, <2>1, <2>2, RecordsAssumption
  <1>2. CASE c \notin known
    BY <1>2 DEF MarkSucceeded, MarkFailedRetryable
  <1> QED
    BY <1>1, <1>2

\* LockTypeInv in parts: the record, the requests, the renewals.
RequestsOK ==
    /\ stage \in [Callers -> {"idle", "create", "get", "reclaim", "run"}]
    /\ operationID \in [Callers -> Fingerprints \cup {NoResult}]
    /\ seen \in [Callers -> Statuses]
    /\ asked \in [Callers -> 0..MaxClock] /\ leaseEnd \in [Callers -> Nat]
    /\ lapsed \in BOOLEAN

MetOK == met \subseteq Acquiring

RequestInv(c) ==
    /\ stage[c] # "idle" => operationID[c] \in Fingerprints
    /\ asked[c] <= clock /\ leaseEnd[c] <= clock + Lease

RenewalsOK ==
    /\ renewals \subseteq Callers /\ renewed \subseteq Callers
    /\ \A c \in renewals : stage[c] \in {"idle", "run"}

LEMMA LockTypeParts ==
  LockTypeInv <=> RecordsOK /\ RequestsOK /\ MetOK /\ RenewalsOK /\ \A c \in Callers : RequestInv(c)
  BY DEF LockTypeInv, LockTypeOK, RequestsOK, MetOK, RenewalsOK, RequestInv, Running, Acquiring

LEMMA LockInitInv == LockInit => LockIInv
  <1> SUFFICES ASSUME LockInit PROVE LockIInv
    OBVIOUS
  <1> USE DEF LockInit, RecordsInit
  <1>1. Running = {}
    BY DEF Running
  <1>2. RecordsOK
    BY DEF RecordsOK
  <1>3. RequestsOK
    <2>1. asked \in [Callers -> 0..MaxClock] /\ leaseEnd \in [Callers -> Nat]
      OBVIOUS
    <2> QED
      BY <2>1 DEF RequestsOK, Statuses
  <1>4. RenewalsOK /\ MetOK /\ \A c \in Callers : RequestInv(c)
    BY DEF RenewalsOK, RequestInv, MetOK
  <1>5. LeaseInv
    BY <1>1 DEF LeaseInv
  <1> QED
    BY <1>2, <1>3, <1>4, <1>5, LockTypeParts DEF LockIInv

LEMMA LockNextType == LockTypeInv /\ [LockNext]_operationVars => LockTypeInv'
  <1> DEFINE LockParts == RecordsOK /\ RequestsOK /\ MetOK /\ RenewalsOK /\ \A c \in Callers : RequestInv(c)
  <1>p. LockTypeInv' <=> LockParts'
    BY LockTypeParts, PTL
  <1> SUFFICES ASSUME LockParts, [LockNext]_operationVars PROVE LockParts'
    BY LockTypeParts, <1>p
  <1>m. MetOK'
    <2> USE DEF MetOK, Acquiring
    <2>0. stage \in [Callers -> {"idle", "create", "get", "reclaim", "run"}]
      BY DEF RequestsOK
    <2>1. ASSUME NEW c \in Callers, NEW id \in Fingerprints, Acquire(c, id) PROVE MetOK'
      BY <2>0, <2>1 DEF Acquire
    <2>2. ASSUME NEW c \in Callers, AcquireCreate(c) \/ AcquireGet(c) \/ AcquireReclaim(c) PROVE MetOK'
      BY <2>0, <2>2 DEF AcquireCreate, AcquireGet, AcquireReclaim, Acquired, StageTo, Over
    <2>3. ASSUME NEW c \in Callers, Release(c) \/ RenewLock(c) \/ Fail(c) PROVE MetOK'
      BY <2>0, <2>3 DEF Release, RenewLock, Fail, Over
    <2>4. CASE LockCleanup \/ LockTick \/ UNCHANGED operationVars
      BY <2>4 DEF LockCleanup, LockTick, operationVars, lockVars
    <2> QED
      BY <2>1, <2>2, <2>3, <2>4 DEF LockNext
  <1> USE DEF RecordsOK, lockVars
  <1>1. ASSUME NEW c \in Callers, NEW id \in Fingerprints, Acquire(c, id) PROVE LockParts'
    <2>1. RecordsOK'
      BY <1>1 DEF Acquire
    <2>2. RequestsOK'
      BY <1>1 DEF RequestsOK, Acquire
    <2>3. RenewalsOK'
      BY <1>1 DEF RenewalsOK, RequestsOK, Acquire
    <2>4. \A d \in Callers : RequestInv(d)'
      BY <1>1 DEF RequestInv, RequestsOK, Acquire
    <2> QED
      BY <1>m, <2>1, <2>2, <2>3, <2>4
  <1>2. ASSUME NEW c \in Callers, AcquireCreate(c) PROVE LockParts'
    <2>0. LeaseUntil(c) \in Nat /\ asked[c] + TTL \in Nat /\ operationID[c] \in Fingerprints
      BY <1>2 DEF AcquireCreate, LeaseUntil, RequestInv, RequestsOK
    <2>1. RecordsOK'
      BY <1>2, <2>0, RecordsAssumption, CreatedRow DEF AcquireCreate, StageTo
    <2>2. RequestsOK'
      <3>1. lapsed' \in BOOLEAN
        BY <1>2 DEF RequestsOK, AcquireCreate, Acquired, StageTo
      <3> QED
        BY <1>2, <2>0, <3>1 DEF RequestsOK, AcquireCreate, Acquired, StageTo
    <2>3. RenewalsOK'
      BY <1>2 DEF RenewalsOK, RequestsOK, AcquireCreate, Acquired, StageTo, LeaseUntil
    <2>4. \A d \in Callers : RequestInv(d)'
      BY <1>2 DEF RequestInv, RequestsOK, AcquireCreate, Acquired, StageTo, LeaseUntil
    <2> QED
      BY <1>m, <2>1, <2>2, <2>3, <2>4
  <1>3. ASSUME NEW c \in Callers, AcquireGet(c) PROVE LockParts'
    <2>1. RecordsOK'
      BY <1>3 DEF AcquireGet, GetByScopeAndKeyHash
    <2>2. RequestsOK'
      BY <1>3 DEF RequestsOK, AcquireGet, Over, StageTo, Rows, Statuses
    <2>3. RenewalsOK'
      BY <1>3 DEF RenewalsOK, RequestsOK, AcquireGet, Over, StageTo
    <2>4. \A d \in Callers : RequestInv(d)'
      BY <1>3 DEF RequestInv, RequestsOK, AcquireGet, Over, StageTo
    <2> QED
      BY <1>m, <2>1, <2>2, <2>3, <2>4
  <1>4. ASSUME NEW c \in Callers, AcquireReclaim(c) PROVE LockParts'
    <2>0. LeaseUntil(c) \in Nat /\ asked[c] + TTL \in Nat
      BY <1>4 DEF LeaseUntil, RequestsOK
    <2>1. RecordsOK'
      BY <1>4, <2>0, RecordsAssumption, LockedRow DEF AcquireReclaim, Reclaimable
    <2>2. RequestsOK'
      <3>1. lapsed' \in BOOLEAN
        BY <1>4 DEF RequestsOK, AcquireReclaim, Acquired, Over, Statuses
      <3> QED
        BY <1>4, <2>0, <3>1 DEF RequestsOK, AcquireReclaim, Acquired, Over, Statuses
    <2>3. RenewalsOK'
      BY <1>4 DEF RenewalsOK, RequestsOK, AcquireReclaim, Acquired, Over, LeaseUntil, Statuses
    <2>4. \A d \in Callers : RequestInv(d)'
      BY <1>4 DEF RequestInv, RequestsOK, AcquireReclaim, Acquired, Over, LeaseUntil, Statuses
    <2> QED
      BY <1>m, <2>1, <2>2, <2>3, <2>4
  <1>5. ASSUME NEW c \in Callers, Release(c) PROVE LockParts'
    <2>1. RecordsOK'
      <3>1. clock \in Nat /\ clock + TTL \in Nat /\ operationID[c] \in Fingerprints
        BY <1>5 DEF Release, RequestInv
      <3> QED
        BY <1>5, <3>1, MarkedRow DEF Release
    <2>2. RequestsOK'
      BY <1>5 DEF RequestsOK, Release, Over, Statuses
    <2>3. RenewalsOK'
      BY <1>5 DEF RenewalsOK, RequestsOK, Release, Over, Statuses
    <2>4. \A d \in Callers : RequestInv(d)'
      BY <1>5 DEF RequestInv, RequestsOK, Release, Over, Statuses
    <2> QED
      BY <1>m, <2>1, <2>2, <2>3, <2>4
  <1>6. ASSUME NEW c \in Callers, RenewLock(c) PROVE LockParts'
    <2>1. RecordsOK'
      BY <1>6, RecordsAssumption, LockedRow DEF RenewLock, Extendable
    <2>2. RequestsOK'
      BY <1>6 DEF RequestsOK, RenewLock, Running
    <2>3. RenewalsOK'
      BY <1>6 DEF RenewalsOK, RequestsOK, RenewLock, Running
    <2>4. \A d \in Callers : RequestInv(d)'
      BY <1>6 DEF RequestInv, RequestsOK, RenewLock, Running
    <2> QED
      BY <1>m, <2>1, <2>2, <2>3, <2>4
  <1>7. ASSUME NEW c \in Callers, Fail(c) PROVE LockParts'
    <2>1. RecordsOK'
      BY <1>7 DEF Fail, SpendFault
    <2>2. RequestsOK'
      BY <1>7 DEF RequestsOK, Fail, Over, Statuses
    <2>3. RenewalsOK'
      BY <1>7 DEF RenewalsOK, RequestsOK, Fail, Over, Statuses
    <2>4. \A d \in Callers : RequestInv(d)'
      BY <1>7 DEF RequestInv, RequestsOK, Fail, Over, Statuses
    <2> QED
      BY <1>m, <2>1, <2>2, <2>3, <2>4
  <1>8. CASE LockCleanup
    <2>1. RecordsOK'
      BY <1>8 DEF LockCleanup, DeleteExpired
    <2>2. RequestsOK'
      BY <1>8 DEF RequestsOK, LockCleanup
    <2>3. RenewalsOK'
      BY <1>8 DEF RenewalsOK, RequestsOK, LockCleanup
    <2>4. \A d \in Callers : RequestInv(d)'
      BY <1>8 DEF RequestInv, RequestsOK, LockCleanup
    <2> QED
      BY <1>m, <2>1, <2>2, <2>3, <2>4
  <1>9. CASE LockTick
    <2>1. RecordsOK'
      BY <1>9 DEF LockTick, SpendFault
    <2>2. RequestsOK'
      BY <1>9 DEF RequestsOK, LockTick
    <2>3. RenewalsOK'
      BY <1>9 DEF RenewalsOK, RequestsOK, LockTick
    <2>4. \A d \in Callers : RequestInv(d)'
      BY <1>9 DEF RequestInv, RequestsOK, LockTick
    <2> QED
      BY <1>m, <2>1, <2>2, <2>3, <2>4
  <1>10. CASE UNCHANGED operationVars
    BY <1>m, <1>10 DEF operationVars, recordVars, RequestsOK, RenewalsOK, RequestInv
  <1> QED
    BY <1>1, <1>2, <1>3, <1>4, <1>5, <1>6, <1>7, <1>8, <1>9, <1>10 DEF LockNext

LEMMA NextLease == LockIInv /\ LockTypeInv' /\ [LockNext]_operationVars => (lapsed \/ LeaseInv)'
  <1> SUFFICES ASSUME LockTypeInv, LockTypeInv', [LockNext]_operationVars, lapsed \/ LeaseInv, ~lapsed'
               PROVE  LeaseInv'
    BY DEF LockIInv
  <1>a. ~lapsed /\ LeaseInv
    <2>1. ASSUME NEW c \in Callers, lapsed, AcquireCreate(c) PROVE lapsed'
      BY <2>1 DEF AcquireCreate, Acquired
    <2>2. ASSUME NEW c \in Callers, lapsed, AcquireReclaim(c) PROVE lapsed'
      BY <2>2 DEF AcquireReclaim, Acquired
    <2>3. CASE lapsed
      BY <2>1, <2>2, <2>3 DEF LockNext, Acquire, AcquireGet, Release, RenewLock, Fail, LockCleanup, LockTick, operationVars
    <2> QED
      BY <2>3
  <1>b. RecordsOK /\ RequestsOK /\ RenewalsOK /\ \A c \in Callers : RequestInv(c)
    BY LockTypeParts
  <1>c. /\ clock \in Nat /\ faults \in 0..MaxFaults
        /\ asked \in [Callers -> Nat] /\ leaseEnd \in [Callers -> Nat]
        /\ stage \in [Callers -> {"idle", "create", "get", "reclaim", "run"}]
        /\ known \subseteq Callers /\ (row = NoRow => known = {})
        /\ row # NoRow => row \in Rows /\ row.lock \in Nat /\ row.exp \in Nat
    BY <1>b DEF RecordsOK, RequestsOK, Rows
  <1>d. \A c \in Running : HoldsRecord(c) /\ row # NoRow /\ row \in Rows
    BY <1>a, <1>c DEF LeaseInv, HoldsRecord
  <1>f. ASSUME NEW c \in Callers, Acquired(c), LeaseUntil(c) \in Nat
        PROVE  leaseEnd'[c] = LeaseUntil(c) /\ LeaseUntil(c) > clock
    <2>1. ~(LeaseUntil(c) <= clock)
      BY <1>f DEF Acquired
    <2>2. leaseEnd'[c] = LeaseUntil(c)
      BY <1>f, <1>c DEF Acquired
    <2> QED
      BY <2>1, <2>2, <1>f, <1>c
  \* An operation that acquires the lock finds no other running.
  <1>e. ASSUME NEW c \in Callers, Acquired(c), Running = {}, HoldsRecord(c)',
               row' # NoRow
        PROVE  LeaseInv'
    <2>1. Running' = {c}
      BY <1>c, <1>e DEF Running, Acquired
    <2> QED
      BY <1>e, <2>1 DEF LeaseInv
  <1>1. ASSUME NEW c \in Callers, NEW id \in Fingerprints, Acquire(c, id) PROVE LeaseInv'
    <2>1. Running' = Running /\ c \notin Running
      BY <1>1, <1>c DEF Running, Acquire
    <2> QED
      BY <1>1, <1>a, <2>1 DEF LeaseInv, HoldsRecord, Acquire
  <1>2. ASSUME NEW c \in Callers, AcquireCreate(c) PROVE LeaseInv'
    <2>1. CASE row = NoRow
      <3>1. Running = {}
        BY <1>d, <2>1
      <3>2. /\ LeaseUntil(c) \in Nat /\ asked[c] + TTL \in Nat
            /\ LeaseUntil(c) <= asked[c] + TTL /\ operationID[c] \in Fingerprints
        BY <1>2, <1>b, <1>c, LockAssumption DEF LeaseUntil, AcquireCreate, RequestInv
      <3>3. Acquired(c) /\ leaseEnd'[c] = LeaseUntil(c) /\ LeaseUntil(c) > clock'
        BY <1>2, <1>f, <2>1, <3>2 DEF AcquireCreate
      <3>4. /\ row' \in Rows /\ known' = {c} /\ row'.status = "processing"
            /\ row'.lock = LeaseUntil(c) /\ row'.exp = asked[c] + TTL
        BY <1>2, <2>1, <3>2, CreatedRow DEF AcquireCreate
      <3>5. HoldsRecord(c)' /\ row' # NoRow
        BY <3>2, <3>3, <3>4, RecordsAssumption DEF HoldsRecord
      <3> QED
        BY <1>e, <3>1, <3>3, <3>5
    <2>2. CASE row # NoRow
      <3>1. Running' = Running
        BY <1>2, <1>c, <2>2 DEF Running, AcquireCreate, StageTo
      <3> QED
        BY <1>2, <1>a, <2>2, <3>1 DEF LeaseInv, HoldsRecord, AcquireCreate, StageTo
    <2> QED
      BY <2>1, <2>2
  <1>3. ASSUME NEW c \in Callers, AcquireGet(c) PROVE LeaseInv'
    <2>1. Running' = Running /\ c \notin Running
      BY <1>3, <1>c DEF Running, AcquireGet, Over, StageTo
    <2>2. \A d \in Running : leaseEnd'[d] = leaseEnd[d] /\ d \in known'
      BY <1>3, <1>c, <1>d, <2>1 DEF Running, AcquireGet, GetByScopeAndKeyHash, Over, StageTo, HoldsRecord
    <2> QED
      BY <1>3, <1>a, <2>1, <2>2 DEF LeaseInv, HoldsRecord, AcquireGet, GetByScopeAndKeyHash
  <1>4. ASSUME NEW c \in Callers, AcquireReclaim(c) PROVE LeaseInv'
    <2>1. CASE Reclaimable(c, seen[c], asked[c])
      <3>1. row \in Rows
        BY <1>c, <2>1 DEF Reclaimable
      <3>2. Running = {}
        BY <1>b, <1>c, <1>d, <2>1 DEF Reclaimable, HoldsRecord, RequestInv, Running
      <3>3. /\ LeaseUntil(c) \in Nat /\ asked[c] + TTL \in Nat
            /\ LeaseUntil(c) <= asked[c] + TTL
        BY <1>c, LockAssumption DEF LeaseUntil
      <3>4. Acquired(c) /\ leaseEnd'[c] = LeaseUntil(c) /\ LeaseUntil(c) > clock'
        BY <1>4, <1>f, <2>1, <3>3 DEF AcquireReclaim
      <3>5. row'.status = "processing" /\ row' # NoRow
        <4>1. Reclaim(LeaseUntil(c), asked[c] + TTL)
          BY <1>4, <2>1 DEF AcquireReclaim
        <4>2. row' \in Rows
          BY <3>1, <3>3, <4>1, LockedRow
        <4> QED
          BY <3>1, <4>1, <4>2, RecordsAssumption DEF Reclaim
      <3>6. HoldsRecord(c)'
        BY <1>4, <2>1, <3>1, <3>3, <3>4, <3>5, LockedRow DEF AcquireReclaim, HoldsRecord, Reclaimable
      <3> QED
        BY <1>e, <3>2, <3>4, <3>5, <3>6
    <2>2. CASE ~Reclaimable(c, seen[c], asked[c])
      <3>1. Running' = Running /\ c \notin Running
        BY <1>4, <1>c, <2>2 DEF Running, AcquireReclaim, Over
      <3>2. \A d \in Running : leaseEnd'[d] = leaseEnd[d]
        BY <1>4, <1>c, <2>2, <3>1 DEF Running, AcquireReclaim, Over
      <3> QED
        BY <1>4, <1>a, <2>2, <3>1, <3>2 DEF LeaseInv, HoldsRecord, AcquireReclaim
    <2> QED
      BY <2>1, <2>2
  <1>5. ASSUME NEW c \in Callers, Release(c) PROVE LeaseInv'
    <2>1. c \in Running /\ c \in known /\ \A d \in Running : d = c
      BY <1>5, <1>a, <1>d DEF Running, Release, LeaseInv, HoldsRecord
    <2>2. Running' = {}
      BY <1>5, <1>c, <2>1 DEF Running, Release, Over
    <2>3. row'.status # "processing"
      <3>1. clock + TTL \in Nat /\ operationID[c] \in Fingerprints
        BY <1>5, <1>b, <1>c DEF Release, RequestInv
      <3> QED
        BY <1>5, <1>c, <2>1, <3>1, MarkedRow DEF Release
    <2> QED
      BY <2>2, <2>3 DEF LeaseInv
  <1>6. ASSUME NEW c \in Callers, RenewLock(c) PROVE LeaseInv'
    <2>1. Running' = Running
      BY <1>6 DEF Running, RenewLock
    <2>2. CASE Extendable(c, operationID[c])
      <3>1. /\ row \in Rows /\ row.status = "processing" /\ row # NoRow
            /\ clock + Lease \in Nat /\ clock + TTL \in Nat
            /\ clock + Lease <= clock + TTL
        BY <1>c, <2>2, LockAssumption, RecordsAssumption DEF Extendable
      <3>2. /\ row' \in Rows /\ known' = known /\ row'.status = "processing"
            /\ row'.lock = clock + Lease /\ row'.exp = clock + TTL
        BY <1>6, <2>2, <3>1, LockedRow DEF RenewLock
      <3>3. ASSUME NEW d \in Running PROVE HoldsRecord(d)'
        <4>1. d \in Callers /\ HoldsRecord(d) /\ leaseEnd[d] <= clock + Lease
          BY <1>b, <1>d DEF Running, RequestInv
        <4>2. leaseEnd'[d] \in {leaseEnd[d], clock + Lease} /\ clock' = clock
          BY <1>6, <1>c, <4>1 DEF RenewLock
        <4> QED
          BY <1>c, <3>1, <3>2, <4>1, <4>2 DEF HoldsRecord
      <3> QED
        BY <1>6, <1>a, <2>1, <3>1, <3>3 DEF LeaseInv, RenewLock
    <2>3. CASE ~Extendable(c, operationID[c])
      BY <1>6, <1>a, <2>1, <2>3 DEF LeaseInv, HoldsRecord, RenewLock
    <2> QED
      BY <2>2, <2>3
  <1>7. ASSUME NEW c \in Callers, Fail(c) PROVE LeaseInv'
    <2>1. Running' = Running \ {c}
      BY <1>7, <1>c DEF Running, Fail, Over
    <2>2. faults' # MaxFaults
      BY <1>7, <1>c DEF Fail, SpendFault
    <2>3. \A d \in Running' : HoldsRecord(d)'
      BY <1>7, <1>c, <1>d, <2>1 DEF Running, Fail, Over, HoldsRecord
    <2> QED
      BY <1>a, <2>1, <2>2, <2>3 DEF LeaseInv
  <1>8. CASE LockCleanup
    <2>1. Running = {}
      BY <1>8, <1>c, <1>d DEF LockCleanup, DeleteExpired, HoldsRecord, Running
    <2>2. Running' = {} /\ row' = NoRow
      BY <1>8, <2>1 DEF Running, LockCleanup, DeleteExpired, lockVars
    <2> QED
      BY <2>2 DEF LeaseInv
  <1>9. CASE LockTick
    <2>1. Running' = Running /\ UNCHANGED <<row, known, leaseEnd>>
      BY <1>9 DEF Running, LockTick
    <2>2. \A d \in Running : leaseEnd[d] > clock'
      <3>1. ASSUME NEW d \in Running PROVE ~(leaseEnd[d] <= clock')
        BY <1>9 DEF LockTick
      <3> QED
        BY <1>9, <1>c, <3>1 DEF LockTick, Running
    <2>3. faults' = MaxFaults => faults = MaxFaults
      BY <1>9, <1>c DEF LockTick, SpendFault
    <2> QED
      BY <1>a, <2>1, <2>2, <2>3 DEF LeaseInv, HoldsRecord
  <1>10. CASE UNCHANGED operationVars
    BY <1>10, <1>a DEF operationVars, recordVars, lockVars, LeaseInv, HoldsRecord, Running
  <1> QED
    BY <1>1, <1>2, <1>3, <1>4, <1>5, <1>6, <1>7, <1>8, <1>9, <1>10 DEF LockNext

LEMMA LockInvariance == LockSpec => []LockIInv
  <1>1. LockIInv /\ [LockNext]_operationVars => LockIInv'
    BY LockNextType, NextLease DEF LockIInv
  <1> QED
    BY LockInitInv, <1>1, PTL DEF LockSpec

\* The record, the requests and the renewals stay in their types; no request
\* is renewing before it has acquired the lock.
THEOREM LockTypeCorrect == LockSpec => []LockTypeOK
  <1>1. LockIInv => LockTypeOK
    BY DEF LockIInv, LockTypeInv
  <1> QED
    BY <1>1, LockInvariance, PTL

\* Until a lease ends under a running operation, Acquire lets in one operation
\* at a time, and the record stays its own, locked and unexpired.
THEOREM OneOperation == LockSpec => []OneOperationPerLease
  <1>1. ASSUME LockIInv PROVE OneOperationPerLease
    <2> SUFFICES ASSUME ~lapsed PROVE OneOperationPerLease
      BY DEF OneOperationPerLease
    <2>1. Cardinality(Running) <= 1
      BY <1>1, AtMostOne DEF LockIInv, LeaseInv
    <2>2. ASSUME NEW c \in Running
          PROVE  /\ c \in known /\ row.status = "processing"
                 /\ row.lock >= leaseEnd[c] /\ row.exp > clock
      <3>1. HoldsRecord(c) /\ row \in Rows /\ c \in Callers
        BY <1>1 DEF LockIInv, LockTypeInv, LockTypeOK, RecordsOK, LeaseInv, HoldsRecord, Running
      <3> QED
        BY <1>1, <3>1 DEF LockIInv, LockTypeInv, LockTypeOK, RecordsOK, HoldsRecord, Rows
    <2> QED
      BY <2>1, <2>2 DEF OneOperationPerLease
  <1> QED
    BY <1>1, LockInvariance, PTL

-----------------------------------------------------------------------------
(* Who met an operation while it asked for the lock.                       *)

\* A record that is marked is not locked beyond the time of its mark; a request
\* that has met no operation sees the record as it was when it asked, unless
\* the cleanup has deleted it.
MetInv ==
    /\ row # NoRow /\ row.status # "processing" => row.lock <= clock
    /\ \A c \in Acquiring : Running # {} => c \in met
    /\ \A c \in Acquiring \ met :
         /\ row # NoRow /\ row.status # "processing" => row.lock <= asked[c]
         /\ stage[c] = "reclaim" /\ c \in known => row.status = seen[c]

LEMMA NextMet == LockTypeInv /\ LockTypeInv' /\ MetInv /\ [LockNext]_operationVars => MetInv'
  <1> SUFFICES ASSUME LockTypeInv, LockTypeInv', MetInv, [LockNext]_operationVars
               PROVE  MetInv'
    OBVIOUS
  <1>t. /\ RecordsOK /\ RequestsOK /\ MetOK /\ RenewalsOK /\ \A c \in Callers : RequestInv(c)
        /\ (row \in Rows \cup {NoRow} /\ met \subseteq Acquiring /\ clock \in 0..MaxClock)'
    BY LockTypeParts DEF LockTypeInv, LockTypeOK, RecordsOK
  <1>c. /\ clock \in Nat /\ asked \in [Callers -> Nat]
        /\ seen \in [Callers -> Statuses] /\ leaseEnd \in [Callers -> Nat]
        /\ stage \in [Callers -> {"idle", "create", "get", "reclaim", "run"}]
        /\ known \subseteq Callers /\ (row = NoRow => known = {})
        /\ row # NoRow => row \in Rows /\ row.lock \in Nat
        /\ met \subseteq Acquiring
    BY <1>t DEF RecordsOK, RequestsOK, MetOK, Rows
  \* A step that brings an operation in meets every request.
  <1>a. ASSUME NEW c \in Callers, Acquired(c), c \in Acquiring, row' # NoRow => row'.status = "processing"
        PROVE  MetInv'
    <2>1. Acquiring' = Acquiring \ {c} /\ met' = (met \cup Acquiring) \ {c}
      BY <1>a, <1>c DEF Acquiring, Acquired
    <2> QED
      BY <1>a, <2>1 DEF MetInv
  \* A step that leaves the operations and the record alone.
  <1>s. ASSUME NEW c \in Callers, UNCHANGED <<row, clock>>, Running' = Running,
               Acquiring' \subseteq Acquiring, met \ {c} \subseteq met',
               c \in Acquiring' => /\ UNCHANGED asked
                                   /\ c \in met => c \in met'
                                   /\ stage'[c] = "reclaim" /\ c \in known' => row.status = seen'[c],
               \A d \in Acquiring' \ {c} : /\ stage'[d] = stage[d] /\ asked'[d] = asked[d]
                                           /\ seen'[d] = seen[d] /\ (d \in known' => d \in known)
        PROVE  MetInv'
    <2>1. (row # NoRow /\ row.status # "processing" => row.lock <= clock)'
      BY <1>s DEF MetInv
    <2>2. ASSUME NEW d \in Acquiring', Running' # {} PROVE d \in met'
      BY <1>s, <2>2 DEF MetInv
    <2>3. ASSUME NEW d \in Acquiring' \ met'
          PROVE  /\ (row # NoRow /\ row.status # "processing" => row.lock <= asked[d])'
                 /\ (stage[d] = "reclaim" /\ d \in known => row.status = seen[d])'
      <3>1. d \in Acquiring \ met
        BY <1>s, <2>3
      <3>2. CASE d = c
        BY <1>s, <2>3, <3>1, <3>2 DEF MetInv
      <3>3. CASE d # c
        BY <1>s, <2>3, <3>1, <3>3 DEF MetInv
      <3> QED
        BY <3>2, <3>3
    <2> QED
      BY <2>1, <2>2, <2>3 DEF MetInv
  <1>1. ASSUME NEW c \in Callers, NEW id \in Fingerprints, Acquire(c, id) PROVE MetInv'
    <2>1. /\ Running' = Running /\ Acquiring' = Acquiring \cup {c} /\ c \notin Acquiring
          /\ asked' = [asked EXCEPT ![c] = clock] /\ stage'[c] = "create"
          /\ \A d \in Acquiring : stage'[d] = stage[d] /\ asked'[d] = asked[d]
          /\ UNCHANGED <<row, clock, seen>> /\ known' = known \ {c}
      BY <1>1, <1>c DEF Acquire, Running, Acquiring
    <2>2. met \subseteq met' /\ (Running # {} => c \in met')
      BY <1>1 DEF Acquire
    <2>3. asked'[c] = clock
      BY <2>1, <1>c
    <2> QED
      BY <1>c, <2>1, <2>2, <2>3 DEF MetInv
  <1>2. ASSUME NEW c \in Callers, AcquireCreate(c) PROVE MetInv'
    <2>1. CASE row = NoRow
      <3>1. LeaseUntil(c) \in Nat /\ asked[c] + TTL \in Nat /\ operationID[c] \in Fingerprints
        BY <1>2, <1>c, <1>t, RecordsAssumption DEF AcquireCreate, LeaseUntil, RequestInv
      <3>2. row'.status = "processing" /\ Acquired(c) /\ c \in Acquiring
        BY <1>2, <2>1, <3>1, CreatedRow DEF AcquireCreate, Acquiring
      <3> QED
        BY <1>a, <3>2
    <2>2. CASE row # NoRow
      <3>1. /\ Running' = Running /\ Acquiring' = Acquiring /\ stage'[c] = "get"
            /\ UNCHANGED <<row, clock, met, asked, seen, known>>
            /\ \A d \in Callers \ {c} : stage'[d] = stage[d]
        BY <1>2, <1>c, <2>2 DEF AcquireCreate, StageTo, Running, Acquiring
      <3> QED
        BY <1>s, <3>1 DEF Acquiring
    <2> QED
      BY <2>1, <2>2
  <1>3. ASSUME NEW c \in Callers, AcquireGet(c) PROVE MetInv'
    <2>1. UNCHANGED <<row, clock>> /\ c \in Acquiring
      BY <1>3 DEF AcquireGet, GetByScopeAndKeyHash, Acquiring
    <2>2. \A d \in Callers \ {c} : /\ stage'[d] = stage[d] /\ asked'[d] = asked[d]
                                   /\ seen'[d] = seen[d] /\ (d \in known' => d \in known)
      BY <1>3, <1>c DEF AcquireGet, GetByScopeAndKeyHash, Over, StageTo
    <2>3. met \ {c} \subseteq met' /\ stage'[c] \in {"idle", "reclaim"}
      BY <1>3, <1>c DEF AcquireGet, Over, StageTo
    <2>4. Running' = Running /\ Acquiring' \subseteq Acquiring
      BY <1>3, <2>1, <2>2, <2>3 DEF Running, Acquiring, AcquireGet
    <2>5. stage'[c] = "reclaim" => UNCHANGED <<asked, met>> /\ seen'[c] = row.status
      BY <1>3, <1>c DEF AcquireGet, Over, StageTo
    <2>6. c \in Acquiring' => stage'[c] = "reclaim"
      BY <2>3 DEF Acquiring
    <2> QED
      BY <1>s, <2>1, <2>2, <2>3, <2>4, <2>5, <2>6 DEF Acquiring
  <1>4. ASSUME NEW c \in Callers, AcquireReclaim(c) PROVE MetInv'
    <2>1. CASE Reclaimable(c, seen[c], asked[c])
      <3>1. row \in Rows
        BY <1>c, <2>1 DEF Reclaimable
      <3>2. Acquired(c) /\ c \in Acquiring /\ row'.status = "processing"
        BY <1>4, <2>1, <3>1 DEF AcquireReclaim, Acquiring, Reclaim, Rows
      <3> QED
        BY <1>a, <3>2
    <2>2. CASE ~Reclaimable(c, seen[c], asked[c])
      <3>1. /\ UNCHANGED <<row, clock, known>> /\ stage'[c] = "idle" /\ c \in Acquiring
            /\ met' = met \ {c}
            /\ \A d \in Callers \ {c} : /\ stage'[d] = stage[d] /\ asked'[d] = asked[d]
                                        /\ seen'[d] = seen[d]
        BY <1>4, <1>c, <2>2 DEF AcquireReclaim, Over, Acquiring
      <3>2. Running' = Running /\ Acquiring' = Acquiring \ {c}
        BY <1>4, <3>1 DEF Running, Acquiring, AcquireReclaim
      <3> QED
        BY <1>s, <3>1, <3>2 DEF Acquiring
    <2> QED
      BY <2>1, <2>2
  <1>5. ASSUME NEW c \in Callers, Release(c) PROVE MetInv'
    <2>1. c \in Running /\ Acquiring' = Acquiring /\ clock' = clock /\ c \notin Acquiring
      BY <1>5, <1>c DEF Release, Over, Running, Acquiring
    <2>2. Acquiring \subseteq met' /\ c \notin met
      BY <1>5, <1>c, <2>1 DEF Release, Over, MetInv
    <2>3. row' # NoRow /\ row'.status # "processing" => row'.lock <= clock
      <3>1. CASE c \in known
        <4>1. row \in Rows
          BY <1>c, <3>1
        <4>2. row'.lock \in {0, clock}
          BY <1>5, <3>1, <4>1 DEF Release, MarkSucceeded, MarkFailedRetryable, Rows
        <4> QED
          BY <1>c, <4>2
      <3>2. CASE c \notin known
        BY <1>5, <3>2 DEF Release, MarkSucceeded, MarkFailedRetryable, MetInv
      <3> QED
        BY <3>1, <3>2
    <2> QED
      BY <2>1, <2>2, <2>3 DEF MetInv
  <1>6. ASSUME NEW c \in Callers, RenewLock(c) PROVE MetInv'
    <2>1. Running' = Running /\ Acquiring' = Acquiring /\ UNCHANGED <<clock, asked, seen, met, stage, known>>
      BY <1>6 DEF Running, Acquiring, RenewLock, ExtendProcessingLock
    <2>2. \/ row' = row
          \/ row # NoRow /\ row.status = "processing" /\ row'.status = "processing"
      <3>1. CASE Extendable(c, operationID[c])
        BY <1>6, <1>c, <3>1 DEF RenewLock, ExtendProcessingLock, Extendable, Rows
      <3>2. CASE ~Extendable(c, operationID[c])
        BY <1>6, <3>2 DEF RenewLock
      <3> QED
        BY <3>1, <3>2
    <2> QED
      BY <2>1, <2>2 DEF MetInv
  <1>7. ASSUME NEW c \in Callers, Fail(c) PROVE MetInv'
    <2>1. /\ UNCHANGED <<row, known, clock>> /\ stage'[c] = "idle" /\ met' = met \ {c}
          /\ \A d \in Callers \ {c} : /\ stage'[d] = stage[d] /\ asked'[d] = asked[d]
                                      /\ seen'[d] = seen[d]
      BY <1>7, <1>c DEF Fail, Over
    <2>2. Running' = Running \ {c} /\ Acquiring' = Acquiring \ {c}
      BY <1>7, <1>c, <2>1 DEF Running, Acquiring
    <2> QED
      BY <1>c, <2>1, <2>2 DEF MetInv, Acquiring
  <1>8. CASE LockCleanup
    BY <1>8 DEF LockCleanup, DeleteExpired, lockVars, MetInv, Running, Acquiring
  <1>9. CASE LockTick
    <2>1. Running' = Running /\ Acquiring' = Acquiring /\ clock' = clock + 1
          /\ UNCHANGED <<row, known, asked, seen, met, stage>>
      BY <1>9 DEF Running, Acquiring, LockTick
    <2> QED
      BY <1>c, <2>1 DEF MetInv
  <1>10. CASE UNCHANGED operationVars
    BY <1>10 DEF operationVars, recordVars, lockVars, MetInv, Running, Acquiring
  <1> QED
    BY <1>1, <1>2, <1>3, <1>4, <1>5, <1>6, <1>7, <1>8, <1>9, <1>10 DEF LockNext

\* While nothing has failed and no lease has ended, a request that is answered
\* busy by what it read is turned away by an operation that runs, and one that
\* loses TryReclaim has met an operation since it asked or has had the record
\* deleted by the cleanup.
THEOREM BusyRunning == LockSpec => BusyMeansRunning
  <1> DEFINE Justified == faults' = MaxFaults /\ ~lapsed =>
        \A c \in Callers : /\ Refused(c) => Running # {}
                           /\ LostReclaim(c) => c \in met \/ c \notin known
  <1>1. ASSUME LockIInv, MetInv, [LockNext]_operationVars PROVE [Justified]_operationVars
    <2> SUFFICES ASSUME LockNext, NEW c \in Callers, faults' = MaxFaults, ~lapsed
                 PROVE  /\ Refused(c) => Running # {}
                        /\ LostReclaim(c) => c \in met \/ c \notin known
      BY <1>1
    <2> USE <1>1 DEF LockIInv, LockTypeInv, LockTypeOK, RecordsOK
    <2>1. ASSUME Refused(c) \/ LostReclaim(c) PROVE AcquireGet(c) \/ AcquireReclaim(c) \/ Fail(c)
      BY <2>1 DEF LockNext, Acquire, AcquireCreate, Acquired, StageTo, AcquireGet, AcquireReclaim,
            Over, Release, RenewLock, Fail, LockCleanup, lockVars, LockTick, Refused, LostReclaim
    <2>2. ~Fail(c)
      BY DEF Fail, SpendFault
    <2>3. ASSUME Refused(c) PROVE Running # {}
      <3>1. Busy(c) /\ faults = MaxFaults
        BY <2>1, <2>2, <2>3 DEF AcquireGet, AcquireReclaim, StageTo, Refused
      <3> QED
        BY <2>3, <3>1 DEF Busy, LeaseInv, Refused
    <2>4. ASSUME LostReclaim(c), c \notin met, c \in known PROVE FALSE
      <3>1. AcquireReclaim(c) /\ stage[c] = "reclaim"
        BY <2>1, <2>2, <2>4 DEF AcquireGet, LostReclaim
      <3>2. ~Reclaimable(c, seen[c], asked[c]) /\ faults = MaxFaults
        BY <2>4, <3>1 DEF AcquireReclaim, Acquired, LostReclaim
      <3>3. row # NoRow /\ c \in Acquiring /\ Running = {}
        BY <2>4, <3>1 DEF MetInv, Acquiring
      <3>4. row.status # "processing"
        BY <3>2, <3>3 DEF LeaseInv
      <3> QED
        BY <2>4, <3>1, <3>2, <3>3, <3>4 DEF MetInv, Reclaimable
    <2> QED
      BY <2>3, <2>4
  <1>2. LockInit => MetInv
    BY DEF LockInit, RecordsInit, MetInv, Acquiring
  <1>3. LockIInv /\ LockIInv' /\ MetInv /\ [LockNext]_operationVars => MetInv'
    BY NextMet DEF LockIInv
  <1> QED
    BY <1>1, <1>2, <1>3, LockInvariance, PTL DEF LockSpec, BusyMeansRunning
=============================================================================
