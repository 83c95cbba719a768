--------------------------- MODULE BatchImageProofs ---------------------------
(***************************************************************************)
(* Proofs about BatchImage, for any number of workers, settlement retries, *)
(* other holds of the user and faults.                                     *)
(***************************************************************************)
EXTENDS BatchImage, TLAPS

-----------------------------------------------------------------------------
(* The inductive invariant.                                                *)

Statuses == {"none", "created", "uploading", "submitted", "running",
             "indexing", "settling"} \cup Terminal
Ended    == {"succeeded", "failed", "cancelled"}

Jobs ==
    [status : Statuses, named : BOOLEAN, excess : BOOLEAN, retries : 0..MaxRetries,
     hold : BOOLEAN, captured : BOOLEAN, released : {"no", "void", "real"},
     frozen : Nat]

DbOK == db \in Jobs

Queues  == [ready : Nat, delayed : BOOLEAN, active : BOOLEAN, inflight : BOOLEAN]
QueueOK == queue \in Queues

RestOK ==
    /\ pc = [a \in Actors |-> pc[a]]
    /\ upstream \in {"none", "running"} \cup Ended
    /\ faults \in 0..MaxFaults

\* The job's status never comes back from these.
GivenUp == db.status \in {"failed", "cancelled"}

\* What the client has done when it makes a call.
ClientInv ==
    /\ pc[Client] = "idle" <=> db.status = "none"
    /\ pc[Client] \in {"idle", "reserve"} => ~db.hold
    /\ pc[Client] \in {"items", "upload", "submit", "name", "undo", "withdraw"} => db.hold
    /\ pc[Client] \in {"idle", "reserve", "refuse", "items", "upload", "submit", "name",
                       "undo", "withdraw", "owed"} => ~db.named

\* What the steps of a job's life, and of a worker's, have behind them.
JobInv ==
    /\ db.named \/ db.captured \/ db.released = "real" => db.hold
    /\ db.status \in {"submitted", "running", "indexing", "settling", "completed"} => db.named
    /\ db.released = "void" => GivenUp
    /\ db.status = "completed" => db.captured
    /\ \A a \in Actors : pc[a] = "release" => GivenUp
    /\ \A w \in Workers :
         /\ pc[w] \in {"toIndexing", "index", "toFailed", "capture", "record", "exhaust", "giveUp"}
              => db.named
         /\ pc[w] = "settled" => db.captured
         /\ pc[w] = "giveUp" => db.released # "no"

\* The frozen balance, when no settlement was given up too late.
ChargeInv ==
    /\ db.frozen = OtherHolds + (IF OpenHold THEN 1 ELSE 0)
    /\ ~(db.captured /\ db.released = "real")
    /\ db.captured => db.status \in {"settling", "completed"}
    /\ \A w \in Workers : pc[w] = "capture" =>
         db.status \in {"settling", "completed"} \/ db.released = "real"

\* Whatever was given up too late: a hold leaves the frozen balance by its
\* capture and by its release, each once, and what was captured, or is about
\* to be, is a settlement that completes or that was given up for a reason.
Paid ==
    \/ db.status \in {"settling", "completed"}
    \/ db.status = "failed" /\ (Exhausted \/ "late" \in gaps)

FrozenInv ==
    db.frozen = (OtherHolds + (IF db.hold THEN 1 ELSE 0))
                  - ((IF db.captured THEN 1 ELSE 0) + (IF db.released = "real" THEN 1 ELSE 0))

PaidInv ==
    /\ db.captured => Paid
    /\ \A w \in Workers : /\ pc[w] = "capture" => Paid
                          /\ pc[w] \in {"exhaust", "giveUp"} => Exhausted

\* The hold that was taken, or may be, and that has not ended.
Due == OpenHold \/ pc[Client] \in {"idle", "reserve"}

Responsible(a) ==
    IF a \in Workers THEN pc[a] \notin {"idle", "ack"}
    ELSE pc[a] = "enqueue" \/ (a # Client /\ pc[a] = "release")

Followed == Queued \/ Lost \/ \E a \in Actors : Responsible(a)

HoldInv ==
    /\ Due /\ db.status # "none" /\ ~Unsubmitted => Followed
    /\ Due /\ queue.inflight => Queued \/ Lost \/ \E w \in Workers : Responsible(w)
    /\ \A w \in Workers : pc[w] = "ack" => Lost \/ db.captured \/ db.released = "real"
    /\ pc[Client] = "refuse" => Lost \/ ~OpenHold

Blind == gaps \cap {"blind", "orphan"} # {}

\* What is known of the batch at the provider.
UpstreamInv ==
    /\ pc[Client] \in {"idle", "reserve", "items", "upload", "submit"} => upstream = "none"
    /\ pc[Client] \in {"refuse", "undo", "withdraw", "owed"} => upstream = "none" \/ "orphan" \in gaps
    /\ upstream = "running" => pc[Client] \in {"name", "abort"} \/ "orphan" \in gaps \/ db.named
    /\ db.status \in {"indexing", "settling", "completed"} => upstream \in Ended
    /\ \A w \in Workers :
         pc[w] \in {"toIndexing", "index", "toSettling", "toFailed", "toCancelled",
                    "capture", "record", "exhaust", "giveUp"} => upstream \in Ended
    /\ pc[Client] \in {"items", "upload", "submit"} /\ db.released = "real" => GivenUp
    /\ upstream = "running" /\ db.named /\ GivenUp => Blind
    /\ upstream = "running" /\ db.released = "real" =>
         Blind \/ pc[Client] = "abort" \/ (pc[Client] = "name" /\ GivenUp)

IInv ==
    /\ DbOK /\ QueueOK /\ RestOK /\ ClientInv /\ JobInv
    /\ gaps \cap {"charge", "late"} # {} \/ ChargeInv
    /\ FrozenInv /\ PaidInv
    /\ HoldInv /\ UpstreamInv

-----------------------------------------------------------------------------
(* Facts every step needs.                                                 *)

LEMMA Constants ==
  /\ MaxRetries \in Nat /\ MaxRetries > 0 /\ OtherHolds \in Nat /\ MaxFaults \in Nat
  /\ Client # Owner /\ Client # Sweep /\ Owner # Sweep
  /\ Client \notin Workers /\ Owner \notin Workers /\ Sweep \notin Workers
  /\ Client \in Actors /\ Owner \in Actors /\ Sweep \in Actors
  /\ \A w \in Workers : w \in Actors
  /\ \A a \in Actors : a \in Workers \/ a \in {Client, Owner, Sweep}
  BY BatchImageAssumption DEF Actors

USE Constants

TypeInv == DbOK /\ QueueOK /\ RestOK

LEMMA Typed ==
  ASSUME TypeInv
  PROVE  /\ db.frozen \in Nat /\ db.named \in BOOLEAN /\ db.hold \in BOOLEAN
         /\ db.captured \in BOOLEAN /\ db.released \in {"no", "void", "real"}
         /\ pc = [a \in Actors |-> pc[a]]
         /\ queue.ready \in Nat
  <1>1. /\ db.frozen \in Nat /\ db.named \in BOOLEAN /\ db.hold \in BOOLEAN
        /\ db.captured \in BOOLEAN /\ db.released \in {"no", "void", "real"}
    BY DEF TypeInv, DbOK, Jobs
  <1>2. pc = [a \in Actors |-> pc[a]]
    BY DEF TypeInv, RestOK
  <1>3. queue.ready \in Nat
    BY DEF TypeInv, QueueOK, Queues
  <1> QED
    BY <1>1, <1>2, <1>3

\* The fields of the job that its history depends on.
SameJob(d) == d.status = db.status /\ d.named = db.named
SameHold(d) == /\ d.hold = db.hold /\ d.captured = db.captured
               /\ d.released = db.released /\ d.frozen = db.frozen

LEMMA Updates ==
  ASSUME TypeInv
  PROVE  /\ \A s \in Statuses : /\ Becomes(s).status = s /\ Becomes(s).named = db.named
                      /\ SameHold(Becomes(s))
                      /\ [Becomes(s) EXCEPT !.named = TRUE].status = s
                      /\ [Becomes(s) EXCEPT !.named = TRUE].named
                      /\ SameHold([Becomes(s) EXCEPT !.named = TRUE])
         /\ SameJob(Reserved) /\ Reserved.hold /\ Reserved.captured = db.captured
         /\ Reserved.released = db.released /\ Reserved.frozen = db.frozen + 1
         /\ SameJob(Captured) /\ Captured.hold = db.hold /\ Captured.released = db.released
         /\ SameJob(Released) /\ Released.hold = db.hold /\ Released.captured = db.captured
         /\ SameJob(Retried) /\ SameHold(Retried)
         /\ \A b \in BOOLEAN : SameJob([db EXCEPT !.excess = b]) /\ SameHold([db EXCEPT !.excess = b])
  <1> USE DEF TypeInv, DbOK, Jobs, SameJob, SameHold
  <1>1. \A s \in Statuses : /\ Becomes(s).status = s /\ Becomes(s).named = db.named
                      /\ SameHold(Becomes(s))
    BY DEF Becomes
  <1>2. \A s \in Statuses : /\ [Becomes(s) EXCEPT !.named = TRUE].status = s
                      /\ [Becomes(s) EXCEPT !.named = TRUE].named
                      /\ SameHold([Becomes(s) EXCEPT !.named = TRUE])
    BY DEF Becomes
  <1>3. /\ SameJob(Reserved) /\ Reserved.hold /\ Reserved.captured = db.captured
         /\ Reserved.released = db.released /\ Reserved.frozen = db.frozen + 1
    BY DEF Reserved
  <1>4. SameJob(Captured) /\ Captured.hold = db.hold /\ Captured.released = db.released
    <2>1. Captured = db \/ Captured = [db EXCEPT !.captured = TRUE, !.frozen = db.frozen - 1]
      BY DEF Captured
    <2> QED
      BY <2>1
  <1>5. SameJob(Released) /\ Released.hold = db.hold /\ Released.captured = db.captured
    BY DEF Released
  <1>6. SameJob(Retried) /\ SameHold(Retried)
    BY DEF Retried, Exhausted
  <1>7. \A b \in BOOLEAN : SameJob([db EXCEPT !.excess = b]) /\ SameHold([db EXCEPT !.excess = b])
    OBVIOUS
  <1> QED
    BY <1>1, <1>2, <1>3, <1>4, <1>5, <1>6, <1>7

LEMMA JobUpdates ==
  ASSUME DbOK
  PROVE  /\ \A s \in Statuses : Becomes(s) \in Jobs /\ [Becomes(s) EXCEPT !.named = TRUE] \in Jobs
         /\ Reserved \in Jobs /\ Captured \in Jobs /\ Released \in Jobs /\ Retried \in Jobs
         /\ \A b \in BOOLEAN : [db EXCEPT !.excess = b] \in Jobs
  <1> USE DEF DbOK, Jobs
  <1>1. \A s \in Statuses : Becomes(s) \in Jobs /\ [Becomes(s) EXCEPT !.named = TRUE] \in Jobs
    BY DEF Becomes
  <1>2. Reserved \in Jobs
    <2>1. db.frozen + 1 \in Nat
      OBVIOUS
    <2>2. \A n \in Nat : [db EXCEPT !.hold = TRUE, !.frozen = n] \in Jobs
      OBVIOUS
    <2> HIDE DEF Jobs
    <2> QED
      BY <2>1, <2>2 DEF Reserved
  <1>3. Captured \in Jobs
    <2>1. db.frozen # 0 => db.frozen - 1 \in Nat
      OBVIOUS
    <2>2. \A n \in Nat : [db EXCEPT !.captured = TRUE, !.frozen = n] \in Jobs
      OBVIOUS
    <2>3. Captured = db \/ (db.frozen # 0 /\ Captured = [db EXCEPT !.captured = TRUE, !.frozen = db.frozen - 1])
      BY DEF Captured
    <2> HIDE DEF Jobs
    <2> QED
      BY <2>1, <2>2, <2>3
  <1>4. Released \in Jobs
    <2>1. db.frozen # 0 => db.frozen - 1 \in Nat
      OBVIOUS
    <2>2. /\ \A n \in Nat : [db EXCEPT !.released = "real", !.frozen = n] \in Jobs
          /\ [db EXCEPT !.released = "void"] \in Jobs
      OBVIOUS
    <2>3. \/ Released = db \/ Released = [db EXCEPT !.released = "void"]
          \/ db.frozen # 0 /\ Released = [db EXCEPT !.released = "real", !.frozen = db.frozen - 1]
      BY DEF Released
    <2> HIDE DEF Jobs
    <2> QED
      BY <2>1, <2>2, <2>3
  <1>5. Retried \in Jobs
    <2>1. ~Exhausted => db.retries + 1 \in 0..MaxRetries
      BY DEF Exhausted
    <2>2. \A n \in 0..MaxRetries : [db EXCEPT !.retries = n] \in Jobs
      OBVIOUS
    <2>3. db.retries \in 0..MaxRetries
      OBVIOUS
    <2>4. Retried = [db EXCEPT !.retries = IF Exhausted THEN db.retries ELSE db.retries + 1]
      BY DEF Retried
    <2> HIDE DEF Jobs
    <2> QED
      BY <2>1, <2>2, <2>3, <2>4
  <1>6. \A b \in BOOLEAN : [db EXCEPT !.excess = b] \in Jobs
    OBVIOUS
  <1> QED
    BY <1>1, <1>2, <1>3, <1>4, <1>5, <1>6

LEMMA StatusNames ==
  /\ "created" \in Statuses /\ "uploading" \in Statuses /\ "submitted" \in Statuses
  /\ "running" \in Statuses /\ "indexing" \in Statuses /\ "settling" \in Statuses
  /\ "completed" \in Statuses /\ "failed" \in Statuses /\ "cancelled" \in Statuses
  BY SMTT(40) DEF Statuses, Terminal

LEMMA QueueUpdates ==
  ASSUME QueueOK
  PROVE  /\ Enqueued \in Queues /\ Delayed \in Queues /\ Acked \in Queues
         /\ queue.ready > 0 => [queue EXCEPT !.ready = @ - 1, !.active = TRUE] \in Queues
         /\ [queue EXCEPT !.delayed = FALSE, !.ready = @ + 1] \in Queues
         /\ [queue EXCEPT !.active = FALSE, !.ready = @ + 1] \in Queues
  <1> USE DEF QueueOK, Queues
  <1>1. queue.ready \in Nat /\ queue.ready + 1 \in Nat
        /\ (queue.ready > 0 => queue.ready - 1 \in Nat)
    OBVIOUS
  <1>2. \A n \in Nat : /\ [queue EXCEPT !.ready = n, !.inflight = TRUE] \in Queues
                      /\ [queue EXCEPT !.ready = n, !.active = TRUE] \in Queues
    OBVIOUS
  <1>3. \A n \in Nat : /\ [queue EXCEPT !.delayed = FALSE, !.ready = n] \in Queues
                      /\ [queue EXCEPT !.active = FALSE, !.ready = n] \in Queues
    OBVIOUS
  <1>4. Delayed \in Queues
    BY DEF Delayed
  <1>5. Acked \in Queues
    BY DEF Acked
  <1>6. Enqueued \in {queue, [queue EXCEPT !.ready = queue.ready + 1, !.inflight = TRUE]}
    BY DEF Enqueued
  <1> HIDE DEF Queues
  <1> QED
    BY <1>1, <1>2, <1>3, <1>4, <1>5, <1>6

LEMMA ExcessUpdate ==
  ASSUME TypeInv, NEW d, NEW b \in BOOLEAN, d = db \/ d = [db EXCEPT !.excess = b]
  PROVE  SameJob(d) /\ SameHold(d)
  BY DEF TypeInv, DbOK, Jobs, SameJob, SameHold

\* A release: what it may do to the hold, and what its caller knows then.
LEMMA ReleaseStep ==
  ASSUME TypeInv, NEW a \in Actors, NEW yes, NEW error, Release(a, yes, error)
  PROVE  /\ UNCHANGED <<queue, upstream>> /\ gaps \subseteq gaps'
         /\ SameJob(db') /\ db'.hold = db.hold /\ db'.captured = db.captured
         /\ \/ pc' = [pc EXCEPT ![a] = yes] /\ db'.released # "no"
            \/ pc' = [pc EXCEPT ![a] = error]
         /\ \/ db'.released = db.released /\ db'.frozen = db.frozen
            \/ /\ db.released = "no" /\ ~db.hold
               /\ db'.released = "void" /\ db'.frozen = db.frozen
            \/ /\ db.released = "no" /\ db.hold /\ Untimely(a) \subseteq gaps'
               /\ db'.released = "real" /\ db'.frozen = db.frozen - 1
  <1>1. CASE db' = db
    BY <1>1 DEF Release, Query, GoTo, SameJob
  <1>2. CASE db' = Released
    <2>1. SameJob(db') /\ db'.hold = db.hold /\ db'.captured = db.captured
      BY <1>2, Updates
    <2>2. \/ pc' = [pc EXCEPT ![a] = yes] /\ db'.released # "no"
          \/ pc' = [pc EXCEPT ![a] = error]
      BY <1>2 DEF Release, Query, GoTo
    <2>3. UNCHANGED <<queue, upstream>> /\ gaps \subseteq gaps'
      BY DEF Release, Query
    <2>4. \/ db' = db
          \/ /\ db.released = "no" /\ ~db.hold
             /\ db'.released = "void" /\ db'.frozen = db.frozen
          \/ /\ db.released = "no" /\ db.hold
             /\ db'.released = "real" /\ db'.frozen = db.frozen - 1
      BY <1>2 DEF Released, TypeInv, DbOK, Jobs
    <2>5. db' = db \/ Untimely(a) \subseteq gaps'
      BY <1>2 DEF Release, Query
    <2> QED
      BY <2>1, <2>2, <2>3, <2>4, <2>5
  <1> QED
    BY <1>1, <1>2 DEF Release, Query

LEMMA CaptureStep ==
  ASSUME TypeInv, NEW w \in Workers, CaptureHold(w)
  PROVE  /\ UNCHANGED <<queue, upstream>> /\ gaps \subseteq gaps' /\ pc[w] = "capture"
         /\ SameJob(db') /\ db'.hold = db.hold /\ db'.released = db.released
         /\ \/ pc' = [pc EXCEPT ![w] = "settled"] /\ db'.captured
            \/ pc' = [pc EXCEPT ![w] = "record"]
         /\ \/ db'.captured = db.captured /\ db'.frozen = db.frozen
            \/ /\ ~db.captured /\ db'.captured /\ db'.frozen = db.frozen - 1
               /\ db.released = "real" => "charge" \in gaps'
  <1> USE DEF CaptureHold, At
  <1>1. CASE db' = db
    BY <1>1 DEF Query, GoTo, SameJob
  <1>2. CASE db' = Captured
    <2>1. SameJob(db') /\ db'.hold = db.hold /\ db'.released = db.released
      BY <1>2, Updates
    <2>2. \/ pc' = [pc EXCEPT ![w] = "settled"] /\ db'.captured
          \/ pc' = [pc EXCEPT ![w] = "record"]
      BY <1>2 DEF Query, GoTo
    <2>3. UNCHANGED <<queue, upstream>> /\ gaps \subseteq gaps'
      BY DEF Query
    <2>4. db' = db \/ (~db.captured /\ db'.captured /\ db'.frozen = db.frozen - 1)
      BY <1>2 DEF Captured, TypeInv, DbOK, Jobs
    <2>5. db' = db \/ Untimely(w) \subseteq gaps'
      BY <1>2 DEF Query
    <2>6. db.released = "real" => "charge" \in Untimely(w)
      BY DEF Untimely
    <2> QED
      BY <2>1, <2>2, <2>3, <2>4, <2>5, <2>6
  <1> QED
    BY <1>1, <1>2 DEF Query

LEMMA TransitionStep ==
  ASSUME TypeInv, NEW a \in Actors, NEW to \in Statuses, NEW yes, NEW no, NEW error,
         Transition(a, to, yes, no, error)
  PROVE  /\ UNCHANGED <<queue, upstream>> /\ gaps \subseteq gaps'
         /\ db'.named = db.named /\ SameHold(db')
         /\ \/ pc' = [pc EXCEPT ![a] = yes] /\ db'.status = to
            \/ pc' = [pc EXCEPT ![a] = no] /\ db'.status = db.status
            \/ pc' = [pc EXCEPT ![a] = error]
               /\ (db'.status = db.status \/ Unanswered(a) \subseteq gaps')
         /\ \/ db'.status = db.status
            \/ CanTransition(db.status, to) /\ db'.status = to /\ Untimely(a) \subseteq gaps'
  <1> USE DEF Transition, Query, GoTo
  <1>1. CASE db' = db
    <2>1. SameHold(db') /\ db'.named = db.named /\ db'.status = db.status
      BY <1>1 DEF SameHold
    <2>2. \/ pc' = [pc EXCEPT ![a] = yes] /\ CanTransition(db.status, to) /\ db' = Becomes(to)
          \/ pc' = [pc EXCEPT ![a] = no] \/ pc' = [pc EXCEPT ![a] = error]
      OBVIOUS
    <2>3. Becomes(to).status = to
      BY Updates
    <2> QED
      BY <2>1, <2>2, <2>3
  <1>2. CASE CanTransition(db.status, to) /\ db' = Becomes(to) /\ db' # db
    <2>1. SameHold(db') /\ db'.named = db.named /\ db'.status = to
      BY <1>2, Updates
    <2>2. pc' = [pc EXCEPT ![a] = yes]
          \/ (pc' = [pc EXCEPT ![a] = error] /\ Unanswered(a) \subseteq gaps')
      BY <1>2
    <2> QED
      BY <1>2, <2>1, <2>2
  <1> QED
    BY <1>1, <1>2

\* The transitions a worker makes while it follows the batch.
LEMMA FollowStep ==
  ASSUME TypeInv, NEW w \in Workers, FollowProvider(w)
  PROVE  /\ UNCHANGED <<queue, upstream>> /\ gaps \subseteq gaps'
         /\ db'.named = db.named /\ SameHold(db')
         /\ pc[w] \in {"toRunning", "toIndexing", "toFailed", "toCancelled", "toSettling"}
         /\ \/ pc' = [pc EXCEPT ![w] = "requeue"]
            \/ /\ pc' = [pc EXCEPT ![w] = "index"]
               /\ pc[w] = "toIndexing"
            \/ /\ pc' = [pc EXCEPT ![w] = "release"]
               /\ db'.status \in {"failed", "cancelled"}
         /\ \/ db'.status = db.status
            \/ db'.status = "running" /\ db.status \in {"submitted", "running"}
            \/ /\ db'.status = "indexing" /\ db.status \in {"submitted", "running"}
               /\ pc[w] = "toIndexing"
            \/ db'.status = "settling" /\ db.status = "indexing"
            \/ /\ db'.status = "cancelled" /\ pc[w] = "toCancelled"
               /\ db.status \in {"created", "uploading", "submitted", "running"}
            \/ /\ db'.status = "failed" /\ pc[w] = "toFailed"
               /\ db.status \notin Terminal
               /\ db.status = "settling" => "late" \in gaps'
  <1> USE DEF Statuses
  <1>1. CASE At(w, "toRunning") /\ Transition(w, "running", "requeue", "requeue", "requeue")
    BY <1>1, TransitionStep DEF CanTransition, At
  <1>2. CASE At(w, "toIndexing") /\ Transition(w, "indexing", "index", "requeue", "requeue")
    BY <1>2, TransitionStep DEF CanTransition, At
  <1>3. CASE At(w, "toFailed") /\ Transition(w, "failed", "release", "requeue", "requeue")
    <2>1. db.status = "settling" => "late" \in Untimely(w)
      BY <1>3 DEF Untimely, At
    <2> QED
      BY <1>3, <2>1, TransitionStep DEF CanTransition, At, Terminal
  <1>4. CASE At(w, "toCancelled") /\ Transition(w, "cancelled", "release", "requeue", "requeue")
    BY <1>4, TransitionStep DEF CanTransition, At, Terminal
  <1>5. CASE At(w, "toSettling") /\ Transition(w, "settling", "requeue", "requeue", "requeue")
    <2>1. CanTransition(db.status, "settling") => db.status = "indexing"
      BY DEF CanTransition
    <2>2. pc[w] = "toSettling" /\ "settling" \in Statuses
      BY <1>5 DEF At
    <2> HIDE DEF Statuses
    <2> QED
      BY <1>5, <2>1, <2>2, TransitionStep
  <1> QED
    BY <1>1, <1>2, <1>3, <1>4, <1>5 DEF FollowProvider

\* A settlement that is given up.
LEMMA GiveUpStep ==
  ASSUME TypeInv, NEW w \in Workers, pc[w] = "giveUp",
         Transition(w, "failed", "ack", "requeue", "requeue")
  PROVE  /\ UNCHANGED <<queue, upstream>> /\ gaps \subseteq gaps'
         /\ db'.named = db.named /\ SameHold(db')
         /\ pc' = [pc EXCEPT ![w] = "ack"] \/ pc' = [pc EXCEPT ![w] = "requeue"]
         /\ \/ db'.status = db.status
            \/ db'.status = "failed" /\ db.status \notin Terminal
  BY TransitionStep DEF CanTransition, Statuses, Terminal

LEMMA CancelStep ==
  ASSUME TypeInv, CancelJob
  PROVE  /\ UNCHANGED <<queue, upstream>> /\ gaps \subseteq gaps'
         /\ db'.named = db.named /\ SameHold(db')
         /\ pc[Owner] = "cancel"
         /\ \/ pc' = [pc EXCEPT ![Owner] = "release"] /\ db'.status = "cancelled"
            \/ pc' = [pc EXCEPT ![Owner] = "idle"] /\ db'.status = db.status
            \/ pc' = [pc EXCEPT ![Owner] = "idle"] /\ "dropped" \in gaps'
         /\ \/ db'.status = db.status
            \/ /\ db'.status = "cancelled"
               /\ db.status \in {"created", "uploading", "submitted", "running"}
               /\ db.named => "blind" \in gaps'
  <1>1. pc[Owner] = "cancel" /\ Transition(Owner, "cancelled", "release", "idle", "idle")
    BY DEF CancelJob, At
  <1>2. db.named => "blind" \in Untimely(Owner)
    BY <1>1 DEF Untimely, At
  <1>3. "dropped" \in Unanswered(Owner)
    BY <1>1 DEF Unanswered
  <1> QED
    BY <1>1, <1>2, <1>3, TransitionStep DEF CanTransition, Statuses, Terminal

LEMMA NameStep ==
  ASSUME TypeInv, NameProviderJob
  PROVE  /\ UNCHANGED <<queue, upstream>> /\ gaps \subseteq gaps' /\ pc[Client] = "name"
         /\ SameHold(db')
         /\ \/ pc' = [pc EXCEPT ![Client] = "enqueue"] /\ db'.named
            \/ pc' = [pc EXCEPT ![Client] = "abort"] /\ (SameJob(db') \/ "dropped" \in gaps')
         /\ \/ SameJob(db')
            \/ CanTransition(db.status, "submitted") /\ db'.status = "submitted" /\ db'.named
  <1> USE DEF NameProviderJob, At
  <1>0. "submitted" \in Statuses
    BY DEF Statuses
  <1>1. CASE db' = db
    <2>1. SameHold(db') /\ SameJob(db')
      BY <1>1 DEF SameHold, SameJob
    <2>2. pc' = [pc EXCEPT ![Client] = "enqueue"] => db'.named
      BY <1>0, <1>1, Updates, ZenonT(40) DEF Query, GoTo, TypeInv, RestOK
    <2> QED
      BY <1>1, <2>1, <2>2 DEF Query, GoTo
  <1>2. CASE CanTransition(db.status, "submitted") /\ db' = [Becomes("submitted") EXCEPT !.named = TRUE]
    <2>1. SameHold(db') /\ db'.named /\ db'.status = "submitted"
      BY <1>0, <1>2, Updates
    <2>2. db' # db => pc' = [pc EXCEPT ![Client] = "enqueue"] \/ "dropped" \in gaps'
      BY <1>2 DEF Query, GoTo, Unanswered
    <2>3. db' = db => SameJob(db')
      BY DEF SameJob
    <2> QED
      BY <1>2, <2>1, <2>2, <2>3 DEF Query, GoTo
  <1> QED
    BY <1>1, <1>2 DEF Query

\* What a worker makes of the job it has read.
LEMMA SettleStep ==
  ASSUME NEW w \in Workers, Settle(w)
  PROVE  /\ UNCHANGED <<db, queue, upstream, gaps>> /\ pc[w] = "settle"
         /\ \E c : /\ pc' = [pc EXCEPT ![w] = c]
                   /\ \/ c = "requeue"
                      \/ c = "ack" /\ db.status = "completed"
                      \/ c \in {"exhaust", "record", "capture"} /\ db.status = "settling"
  <1> DEFINE c == IF db.status = "completed" THEN "ack"
                  ELSE IF db.status # "settling" THEN "requeue"
                  ELSE IF Exhausted THEN "exhaust"
                  ELSE IF db.excess THEN "record" ELSE "capture"
  <1>1. \/ c = "requeue"
        \/ c = "ack" /\ db.status = "completed"
        \/ c \in {"exhaust", "record", "capture"} /\ db.status = "settling"
    OBVIOUS
  <1>2. UNCHANGED <<db, queue, upstream, gaps>> /\ pc[w] = "settle" /\ Decide(w, c)
    BY DEF Settle, Decide, At
  <1> HIDE DEF c
  <1>3. pc' = [pc EXCEPT ![w] = c] \/ pc' = [pc EXCEPT ![w] = "requeue"]
    BY <1>2 DEF Decide, GoTo
  <1> QED
    BY <1>1, <1>2, <1>3

LEMMA ProcessStep ==
  ASSUME TypeInv, NEW w \in Workers, Process(w)
  PROVE  /\ UNCHANGED <<db, queue, upstream>> /\ pc[w] = "process" /\ gaps \subseteq gaps'
         /\ \E c : /\ pc' = [pc EXCEPT ![w] = c]
                   /\ \/ c \in {"requeue", "toRunning"}
                      \/ c = "release" /\ db.status \in {"failed", "cancelled"}
                      \/ /\ c = "ack"
                         /\ db.status = "completed" \/ "unsettled" \in gaps'
                      \/ /\ c = "index" /\ db.named /\ db.status = "indexing"
                      \/ /\ c \in {"toIndexing", "toFailed", "toCancelled"}
                         /\ db.named /\ upstream \in Ended
  <1>1. \/ NextCall \in {"requeue", "toRunning"}
        \/ NextCall = "release" /\ db.status \in {"failed", "cancelled"}
        \/ NextCall = "ack" /\ db.status \in {"completed", "settling"}
        \/ NextCall = "index" /\ db.named /\ db.status = "indexing"
        \/ /\ NextCall \in {"toIndexing", "toFailed", "toCancelled"}
           /\ db.named /\ upstream \in Ended
    <2> DEFINE d == CASE upstream = "succeeded" -> "toIndexing"
                      [] upstream = "failed" -> "toFailed"
                      [] upstream = "cancelled" -> "toCancelled"
                      [] upstream = "running" /\ db.status # "running" -> "toRunning"
                      [] OTHER -> "requeue"
    <2>1. d \in {"requeue", "toRunning"} \/ (d \in {"toIndexing", "toFailed", "toCancelled"} /\ upstream \in Ended)
      BY DEF TypeInv, RestOK, Ended
    <2>2. NextCall = IF db.status \in {"failed", "cancelled"} THEN "release"
                     ELSE IF db.status \in {"completed", "settling"} THEN "ack"
                     ELSE IF ~db.named THEN "requeue"
                     ELSE IF db.status = "indexing" THEN "index" ELSE d
      BY DEF NextCall
    <2> HIDE DEF d
    <2> QED
      BY <2>1, <2>2
  <1>2. /\ UNCHANGED <<db, queue, upstream>> /\ pc[w] = "process" /\ gaps \subseteq gaps'
        /\ db.status = "settling" => "unsettled" \in gaps'
    BY DEF Process, Decide, At
  <1>3. pc' = [pc EXCEPT ![w] = NextCall] \/ pc' = [pc EXCEPT ![w] = "requeue"]
    BY DEF Process, Decide, GoTo
  <1> QED
    BY <1>1, <1>2, <1>3

LEMMA NextDb ==
  ASSUME TypeInv, [Next]_vars
  PROVE  DbOK'
  <1> USE DEF TypeInv, DbOK
  <1>1. CASE Submit \/ Reserve \/ InsufficientBalance
    BY <1>1, JobUpdates, StatusNames DEF Submit, Reserve, Query, InsufficientBalance, Turn
  <1>2. CASE RecordFailure \/ CreateItems \/ StartUpload
    BY <1>2, JobUpdates, StatusNames DEF RecordFailure, Query, CreateItems, StartUpload,
          Transition
  <1>3. CASE SubmitUpstream \/ ReleaseFailedSubmit \/ RecordReleaseFailure
    BY <1>3, JobUpdates, StatusNames DEF SubmitUpstream, ReleaseFailedSubmit, Query, Release,
          RecordReleaseFailure
  <1>4. CASE NameProviderJob \/ AbortOrphan \/ Resubmit
    BY <1>4, JobUpdates, StatusNames DEF NameProviderJob, Query, AbortOrphan, Resubmit, Turn
  <1>5. CASE CancelEnded \/ CancelUpstream \/ CancelUnsubmitted
    BY <1>5, JobUpdates, StatusNames DEF CancelEnded, Turn, CancelUpstream, CancelUnsubmitted
  <1>6. CASE CancelJob \/ ReleaseCancelled \/ FailStaleUnsubmitted
    BY <1>6, JobUpdates, StatusNames DEF CancelJob, Query, Transition, ReleaseCancelled,
          Release, FailStaleUnsubmitted
  <1>7. CASE ReleaseStale \/ UpstreamEnds \/ MoveDue
    BY <1>7, JobUpdates, StatusNames DEF ReleaseStale, Query, Release, UpstreamEnds, MoveDue
  <1>8. CASE RecoverStaleActive \/ LockLapses
    BY <1>8, JobUpdates, StatusNames DEF RecoverStaleActive, LockLapses
  <1>9. ASSUME NEW a \in {Client, Owner, Sweep}, PutOnQueue(a)
        PROVE  DbOK'
    BY <1>9, JobUpdates, StatusNames DEF PutOnQueue
  <1>10. ASSUME NEW w \in Workers, ReserveJob(w) \/ TryLock(w) \/ RequeueConflict(w)
        PROVE  DbOK'
    BY <1>10, JobUpdates, StatusNames DEF ReserveJob, TryLock, RequeueConflict, Leave
  <1>11. ASSUME NEW w \in Workers, Requeue(w) \/ Ack(w) \/ Route(w)
        PROVE  DbOK'
    BY <1>11, JobUpdates, StatusNames DEF Requeue, Leave, Ack, Route, Turn
  <1>12. ASSUME NEW w \in Workers, Process(w) \/ FollowProvider(w) \/ Index(w)
        PROVE  DbOK'
    BY <1>12, JobUpdates, StatusNames DEF Process, Decide, FollowProvider, Query, Transition,
          Index, Turn
  <1>13. ASSUME NEW w \in Workers, ReleaseTerminal(w) \/ Settle(w) \/ CaptureHold(w)
        PROVE  DbOK'
    BY <1>13, JobUpdates, StatusNames DEF ReleaseTerminal, Query, Release, Settle, Decide,
          CaptureHold
  <1>14. ASSUME NEW w \in Workers, MarkSettled(w) \/ RecordSettlementFailure(w) \/ Recheck(w)
        PROVE  DbOK'
    BY <1>14, JobUpdates, StatusNames DEF MarkSettled, Query, RecordSettlementFailure, Recheck,
          Decide
  <1>15. ASSUME NEW w \in Workers, FailExhausted(w)
        PROVE  DbOK'
    BY <1>15, JobUpdates, StatusNames DEF FailExhausted, Query, Release, Transition
  <1>16. ASSUME NEW a \in Actors, Stall(a) \/ Crash(a)
        PROVE  DbOK'
    BY <1>16, JobUpdates, StatusNames DEF Stall, Crash
  <1>17. CASE UNCHANGED vars
    BY <1>17 DEF vars
  <1> QED
    BY <1>1, <1>2, <1>3, <1>4, <1>5, <1>6, <1>7, <1>8, <1>9, <1>10, <1>11, <1>12, <1>13, <1>14,
          <1>15, <1>16, <1>17 DEF Next, ClientGoesOn, OwnerGoesOn, SweepGoesOn, WorkerGoesOn

LEMMA NextQueue ==
  ASSUME TypeInv, [Next]_vars
  PROVE  QueueOK'
  <1> USE DEF TypeInv, QueueOK
  <1>1. CASE Submit \/ Reserve \/ InsufficientBalance \/ RecordFailure
    BY <1>1, QueueUpdates DEF Submit, Reserve, Query, InsufficientBalance, Turn, RecordFailure
  <1>2. CASE CreateItems \/ StartUpload \/ SubmitUpstream \/ ReleaseFailedSubmit
    BY <1>2, QueueUpdates DEF CreateItems, Query, StartUpload, Transition, SubmitUpstream,
          ReleaseFailedSubmit, Release
  <1>3. CASE RecordReleaseFailure \/ NameProviderJob \/ AbortOrphan \/ Resubmit
    BY <1>3, QueueUpdates DEF RecordReleaseFailure, Query, NameProviderJob, AbortOrphan,
          Resubmit, Turn
  <1>4. CASE CancelEnded \/ CancelUpstream \/ CancelUnsubmitted \/ CancelJob
    BY <1>4, QueueUpdates DEF CancelEnded, Turn, CancelUpstream, CancelUnsubmitted, CancelJob,
          Query, Transition
  <1>5. CASE ReleaseCancelled \/ FailStaleUnsubmitted \/ ReleaseStale \/ UpstreamEnds
    BY <1>5, QueueUpdates DEF ReleaseCancelled, Query, Release, FailStaleUnsubmitted,
          ReleaseStale, UpstreamEnds
  <1>6. CASE MoveDue \/ RecoverStaleActive \/ LockLapses
    BY <1>6, QueueUpdates DEF MoveDue, RecoverStaleActive, LockLapses
  <1>7. ASSUME NEW a \in {Client, Owner, Sweep}, PutOnQueue(a)
        PROVE  QueueOK'
    BY <1>7, QueueUpdates DEF PutOnQueue
  <1>8. ASSUME NEW w \in Workers, ReserveJob(w) \/ TryLock(w) \/ RequeueConflict(w) \/ Requeue(w)
        PROVE  QueueOK'
    BY <1>8, QueueUpdates DEF ReserveJob, TryLock, RequeueConflict, Leave, Requeue
  <1>9. ASSUME NEW w \in Workers, Ack(w) \/ Route(w) \/ Process(w) \/ FollowProvider(w)
        PROVE  QueueOK'
    BY <1>9, QueueUpdates DEF Ack, Leave, Route, Turn, Process, Decide, FollowProvider, Query,
          Transition
  <1>10. ASSUME NEW w \in Workers, Index(w) \/ ReleaseTerminal(w) \/ Settle(w) \/ CaptureHold(w)
        PROVE  QueueOK'
    BY <1>10, QueueUpdates DEF Index, Query, Turn, ReleaseTerminal, Release, Settle, Decide,
          CaptureHold
  <1>11. ASSUME NEW w \in Workers, MarkSettled(w) \/ RecordSettlementFailure(w) \/ Recheck(w) \/ FailExhausted(w)
        PROVE  QueueOK'
    BY <1>11, QueueUpdates DEF MarkSettled, Query, RecordSettlementFailure, Recheck, Decide,
          FailExhausted, Release, Transition
  <1>12. ASSUME NEW a \in Actors, Stall(a) \/ Crash(a)
        PROVE  QueueOK'
    BY <1>12, QueueUpdates DEF Stall, Crash
  <1>13. CASE UNCHANGED vars
    BY <1>13 DEF vars
  <1> QED
    BY <1>1, <1>2, <1>3, <1>4, <1>5, <1>6, <1>7, <1>8, <1>9, <1>10, <1>11, <1>12, <1>13 DEF
          Next, ClientGoesOn, OwnerGoesOn, SweepGoesOn, WorkerGoesOn

LEMMA NextRest ==
  ASSUME TypeInv, [Next]_vars
  PROVE  RestOK'
  <1> USE DEF TypeInv, RestOK, Ended, GoTo, Fault
  <1>1. CASE Submit \/ Reserve \/ InsufficientBalance
    BY <1>1 DEF Submit, Reserve, Query, InsufficientBalance, Turn
  <1>2. CASE RecordFailure \/ CreateItems \/ StartUpload
    BY <1>2 DEF RecordFailure, Query, CreateItems, StartUpload, Transition
  <1>3. CASE SubmitUpstream \/ ReleaseFailedSubmit \/ RecordReleaseFailure
    BY <1>3 DEF SubmitUpstream, ReleaseFailedSubmit, Query, Release, RecordReleaseFailure
  <1>4. CASE NameProviderJob \/ AbortOrphan \/ Resubmit
    BY <1>4 DEF NameProviderJob, Query, AbortOrphan, Stopped, Resubmit, Turn
  <1>5. CASE CancelEnded \/ CancelUpstream \/ CancelUnsubmitted
    BY <1>5 DEF CancelEnded, Turn, CancelUpstream, Stopped, CancelUnsubmitted
  <1>6. CASE CancelJob \/ ReleaseCancelled \/ FailStaleUnsubmitted
    BY <1>6 DEF CancelJob, Query, Transition, ReleaseCancelled, Release, FailStaleUnsubmitted
  <1>7. CASE ReleaseStale \/ UpstreamEnds \/ MoveDue
    BY <1>7 DEF ReleaseStale, Query, Release, UpstreamEnds, MoveDue
  <1>8. CASE RecoverStaleActive \/ LockLapses
    BY <1>8 DEF RecoverStaleActive, LockLapses
  <1>9. ASSUME NEW a \in {Client, Owner, Sweep}, PutOnQueue(a)
        PROVE  RestOK'
    BY <1>9 DEF PutOnQueue
  <1>10. ASSUME NEW w \in Workers, ReserveJob(w) \/ TryLock(w) \/ RequeueConflict(w)
        PROVE  RestOK'
    BY <1>10 DEF ReserveJob, TryLock, RequeueConflict, Leave
  <1>11. ASSUME NEW w \in Workers, Requeue(w) \/ Ack(w) \/ Route(w)
        PROVE  RestOK'
    BY <1>11 DEF Requeue, Leave, Ack, Route, Turn
  <1>12. ASSUME NEW w \in Workers, Process(w) \/ FollowProvider(w) \/ Index(w)
        PROVE  RestOK'
    BY <1>12 DEF Process, Decide, FollowProvider, Query, Transition, Index, Turn
  <1>13. ASSUME NEW w \in Workers, ReleaseTerminal(w) \/ Settle(w) \/ CaptureHold(w)
        PROVE  RestOK'
    BY <1>13 DEF ReleaseTerminal, Query, Release, Settle, Decide, CaptureHold
  <1>14. ASSUME NEW w \in Workers, MarkSettled(w) \/ RecordSettlementFailure(w) \/ Recheck(w)
        PROVE  RestOK'
    BY <1>14 DEF MarkSettled, Query, RecordSettlementFailure, Recheck, Decide
  <1>15. ASSUME NEW w \in Workers, FailExhausted(w)
        PROVE  RestOK'
    BY <1>15 DEF FailExhausted, Query, Release, Transition
  <1>16. ASSUME NEW a \in Actors, Stall(a) \/ Crash(a)
        PROVE  RestOK'
    BY <1>16 DEF Stall, Crash
  <1>17. CASE UNCHANGED vars
    BY <1>17 DEF vars
  <1> QED
    BY <1>1, <1>2, <1>3, <1>4, <1>5, <1>6, <1>7, <1>8, <1>9, <1>10, <1>11, <1>12, <1>13, <1>14,
          <1>15, <1>16, <1>17 DEF Next, ClientGoesOn, OwnerGoesOn, SweepGoesOn, WorkerGoesOn

LEMMA NextClient ==
  ASSUME TypeInv, ClientInv, JobInv, [Next]_vars
  PROVE  ClientInv'
  <1>t. /\ db.frozen \in Nat /\ db.named \in BOOLEAN /\ db.hold \in BOOLEAN /\ db.captured \in BOOLEAN
        /\ pc = [a \in Actors |-> pc[a]]
    BY Typed
  <1> USE DEF At, GoTo, Fault, ClientInv, JobInv, GivenUp, SameJob, SameHold, Statuses, Terminal
  <1>1. CASE Submit
    BY <1>t, <1>1, Updates DEF Submit
  <1>2. CASE Reserve
    BY <1>t, <1>2, Updates DEF Reserve, Query
  <1>3. CASE InsufficientBalance
    BY <1>t, <1>3, Updates DEF InsufficientBalance, Turn
  <1>4. CASE RecordFailure
    BY <1>t, <1>4, Updates DEF RecordFailure, Query
  <1>5. CASE CreateItems
    BY <1>t, <1>5, Updates DEF CreateItems, Query
  <1>6. CASE StartUpload
    BY <1>t, <1>6, Updates DEF StartUpload, Query, Transition, CanTransition
  <1>7. CASE SubmitUpstream
    BY <1>t, <1>7, Updates DEF SubmitUpstream
  <1>8. CASE ReleaseFailedSubmit
    <2>1. CASE At(Client, "undo") /\ Release(Client, "refuse", "owed")
      BY <1>t, <2>1, ReleaseStep
    <2>2. CASE At(Client, "withdraw") /\ Release(Client, "done", "owed")
      BY <1>t, <2>2, ReleaseStep
    <2> QED
      BY <1>8, <2>1, <2>2 DEF ReleaseFailedSubmit
  <1>9. CASE RecordReleaseFailure
    BY <1>t, <1>9, Updates DEF RecordReleaseFailure, Query
  <1>10. CASE NameProviderJob
    BY <1>t, <1>10, NameStep DEF CanTransition
  <1>11. CASE AbortOrphan
    BY <1>t, <1>11, Updates DEF AbortOrphan, Stopped
  <1>12. ASSUME NEW a \in {Client, Owner, Sweep}, PutOnQueue(a) PROVE ClientInv'
    BY <1>t, <1>12, Updates DEF PutOnQueue, Enqueued
  <1>13. CASE Resubmit
    BY <1>t, <1>13, Updates DEF Resubmit, Turn, Visible
  <1>14. CASE CancelEnded
    BY <1>t, <1>14, Updates DEF CancelEnded, Turn, Visible
  <1>15. CASE CancelUpstream
    BY <1>t, <1>15, Updates DEF CancelUpstream, Visible, Stopped
  <1>16. CASE CancelUnsubmitted
    BY <1>t, <1>16, Updates DEF CancelUnsubmitted, Visible, Turn
  <1>17. CASE CancelJob
    BY <1>t, <1>17, CancelStep
  <1>18. CASE ReleaseCancelled
    BY <1>t, <1>18, ReleaseStep DEF ReleaseCancelled
  <1>19. CASE FailStaleUnsubmitted
    BY <1>t, <1>19, Updates DEF FailStaleUnsubmitted, Query, Unsubmitted
  <1>20. CASE ReleaseStale
    BY <1>t, <1>20, ReleaseStep DEF ReleaseStale
  <1>21. ASSUME NEW w \in Workers, ReserveJob(w) PROVE ClientInv'
    BY <1>t, <1>21, Updates DEF ReserveJob
  <1>22. ASSUME NEW w \in Workers, TryLock(w) PROVE ClientInv'
    BY <1>t, <1>22, Updates DEF TryLock
  <1>23. ASSUME NEW w \in Workers, RequeueConflict(w) PROVE ClientInv'
    BY <1>t, <1>23, Updates DEF RequeueConflict, Leave, Delayed
  <1>24. ASSUME NEW w \in Workers, Requeue(w) PROVE ClientInv'
    BY <1>t, <1>24, Updates DEF Requeue, Leave, Delayed
  <1>25. ASSUME NEW w \in Workers, Ack(w) PROVE ClientInv'
    BY <1>t, <1>25, Updates DEF Ack, Leave, Acked
  <1>26. ASSUME NEW w \in Workers, Route(w) PROVE ClientInv'
    BY <1>t, <1>26, Updates DEF Route, Turn
  <1>27. ASSUME NEW w \in Workers, Process(w) PROVE ClientInv'
    BY <1>t, <1>27, ProcessStep
  <1>28. ASSUME NEW w \in Workers, FollowProvider(w) PROVE ClientInv'
    BY <1>t, <1>28, FollowStep
  <1>29. ASSUME NEW w \in Workers, Index(w) PROVE ClientInv'
    <2>1. ASSUME NEW excess \in BOOLEAN, At(w, "index"),
                 Query(w, db.status = "indexing", [db EXCEPT !.excess = excess],
                       "toSettling", "requeue", "toFailed")
          PROVE  ClientInv'
      <3>1. db' = db \/ db' = [db EXCEPT !.excess = excess]
        BY <2>1 DEF Query
      <3>2. SameJob(db') /\ SameHold(db')
        BY <3>1, ExcessUpdate
      <3> QED
        BY <1>t, <2>1, <3>2 DEF Query
    <2>2. CASE At(w, "index") /\ Turn(w, "toFailed")
      BY <1>t, <2>2 DEF Turn
    <2> QED
      BY <1>29, <2>1, <2>2 DEF Index
  <1>30. ASSUME NEW w \in Workers, ReleaseTerminal(w) PROVE ClientInv'
    BY <1>t, <1>30, ReleaseStep DEF ReleaseTerminal
  <1>31. ASSUME NEW w \in Workers, Settle(w) PROVE ClientInv'
    BY <1>t, <1>31, SettleStep
  <1>32. ASSUME NEW w \in Workers, CaptureHold(w) PROVE ClientInv'
    BY <1>t, <1>32, CaptureStep
  <1>33. ASSUME NEW w \in Workers, MarkSettled(w) PROVE ClientInv'
    BY <1>t, <1>33, Updates DEF MarkSettled, Query
  <1>34. ASSUME NEW w \in Workers, RecordSettlementFailure(w) PROVE ClientInv'
    BY <1>t, <1>34, Updates DEF RecordSettlementFailure, Query, Exhausted
  <1>35. ASSUME NEW w \in Workers, Recheck(w) PROVE ClientInv'
    BY <1>t, <1>35, Updates DEF Recheck, Decide
  <1>36. ASSUME NEW w \in Workers, FailExhausted(w) PROVE ClientInv'
    <2>1. CASE At(w, "exhaust") /\ Release(w, "giveUp", "note")
      BY <1>t, <2>1, ReleaseStep
    <2>2. CASE At(w, "giveUp") /\ Transition(w, "failed", "ack", "requeue", "requeue")
      BY <1>t, <2>2, GiveUpStep
    <2> QED
      BY <1>36, <2>1, <2>2 DEF FailExhausted
  <1>37. CASE UpstreamEnds
    BY <1>t, <1>37, Updates DEF UpstreamEnds
  <1>38. CASE MoveDue
    BY <1>t, <1>38, Updates DEF MoveDue
  <1>39. CASE RecoverStaleActive
    BY <1>t, <1>39, Updates DEF RecoverStaleActive
  <1>40. CASE LockLapses
    BY <1>t, <1>40, Updates DEF LockLapses
  <1>41. ASSUME NEW a \in Actors, Stall(a) PROVE ClientInv'
    BY <1>t, <1>41, Updates DEF Stall
  <1>42. ASSUME NEW a \in Actors, Crash(a) PROVE ClientInv'
    BY <1>t, <1>42, Updates DEF Crash, Rests
  <1>43. CASE UNCHANGED vars
    BY <1>43 DEF vars
  <1> QED
    BY <1>1, <1>2, <1>3, <1>4, <1>5, <1>6, <1>7, <1>8, <1>9, <1>10, <1>11, <1>12, <1>13,
       <1>14, <1>15, <1>16, <1>17, <1>18, <1>19, <1>20, <1>21, <1>22, <1>23, <1>24, <1>25,
       <1>26, <1>27, <1>28, <1>29, <1>30, <1>31, <1>32, <1>33, <1>34, <1>35, <1>36, <1>37,
       <1>38, <1>39, <1>40, <1>41, <1>42, <1>43
       DEF Next, ClientGoesOn, OwnerGoesOn, SweepGoesOn, WorkerGoesOn

LEMMA NextJob ==
  ASSUME TypeInv, ClientInv, JobInv, [Next]_vars
  PROVE  JobInv'
  <1>t. /\ db.frozen \in Nat /\ db.named \in BOOLEAN /\ db.hold \in BOOLEAN /\ db.captured \in BOOLEAN
        /\ pc = [a \in Actors |-> pc[a]]
    BY Typed
  <1> USE DEF At, GoTo, Fault, ClientInv, JobInv, GivenUp, SameJob, SameHold, Statuses, Terminal
  <1>1. CASE Submit
    BY <1>t, <1>1, Updates DEF Submit
  <1>2. CASE Reserve
    BY <1>t, <1>2, Updates DEF Reserve, Query
  <1>3. CASE InsufficientBalance
    BY <1>t, <1>3, Updates DEF InsufficientBalance, Turn
  <1>4. CASE RecordFailure
    BY <1>t, <1>4, Updates DEF RecordFailure, Query
  <1>5. CASE CreateItems
    BY <1>t, <1>5, Updates DEF CreateItems, Query
  <1>6. CASE StartUpload
    BY <1>t, <1>6, Updates DEF StartUpload, Query, Transition, CanTransition
  <1>7. CASE SubmitUpstream
    BY <1>t, <1>7, Updates DEF SubmitUpstream
  <1>8. CASE ReleaseFailedSubmit
    <2>1. CASE At(Client, "undo") /\ Release(Client, "refuse", "owed")
      BY <1>t, <2>1, ReleaseStep
    <2>2. CASE At(Client, "withdraw") /\ Release(Client, "done", "owed")
      BY <1>t, <2>2, ReleaseStep
    <2> QED
      BY <1>8, <2>1, <2>2 DEF ReleaseFailedSubmit
  <1>9. CASE RecordReleaseFailure
    BY <1>t, <1>9, Updates DEF RecordReleaseFailure, Query
  <1>10. CASE NameProviderJob
    BY <1>t, <1>10, NameStep DEF CanTransition
  <1>11. CASE AbortOrphan
    BY <1>t, <1>11, Updates DEF AbortOrphan, Stopped
  <1>12. ASSUME NEW a \in {Client, Owner, Sweep}, PutOnQueue(a) PROVE JobInv'
    BY <1>t, <1>12, Updates DEF PutOnQueue, Enqueued
  <1>13. CASE Resubmit
    BY <1>t, <1>13, Updates DEF Resubmit, Turn, Visible
  <1>14. CASE CancelEnded
    BY <1>t, <1>14, Updates DEF CancelEnded, Turn, Visible
  <1>15. CASE CancelUpstream
    BY <1>t, <1>15, Updates DEF CancelUpstream, Visible, Stopped
  <1>16. CASE CancelUnsubmitted
    BY <1>t, <1>16, Updates DEF CancelUnsubmitted, Visible, Turn
  <1>17. CASE CancelJob
    BY <1>t, <1>17, CancelStep
  <1>18. CASE ReleaseCancelled
    BY <1>t, <1>18, ReleaseStep DEF ReleaseCancelled
  <1>19. CASE FailStaleUnsubmitted
    BY <1>t, <1>19, Updates DEF FailStaleUnsubmitted, Query, Unsubmitted
  <1>20. CASE ReleaseStale
    BY <1>t, <1>20, ReleaseStep DEF ReleaseStale
  <1>21. ASSUME NEW w \in Workers, ReserveJob(w) PROVE JobInv'
    BY <1>t, <1>21, Updates DEF ReserveJob
  <1>22. ASSUME NEW w \in Workers, TryLock(w) PROVE JobInv'
    BY <1>t, <1>22, Updates DEF TryLock
  <1>23. ASSUME NEW w \in Workers, RequeueConflict(w) PROVE JobInv'
    BY <1>t, <1>23, Updates DEF RequeueConflict, Leave, Delayed
  <1>24. ASSUME NEW w \in Workers, Requeue(w) PROVE JobInv'
    BY <1>t, <1>24, Updates DEF Requeue, Leave, Delayed
  <1>25. ASSUME NEW w \in Workers, Ack(w) PROVE JobInv'
    BY <1>t, <1>25, Updates DEF Ack, Leave, Acked
  <1>26. ASSUME NEW w \in Workers, Route(w) PROVE JobInv'
    BY <1>t, <1>26, Updates DEF Route, Turn
  <1>27. ASSUME NEW w \in Workers, Process(w) PROVE JobInv'
    BY <1>t, <1>27, ProcessStep
  <1>28. ASSUME NEW w \in Workers, FollowProvider(w) PROVE JobInv'
    BY <1>t, <1>28, FollowStep
  <1>29. ASSUME NEW w \in Workers, Index(w) PROVE JobInv'
    <2>1. ASSUME NEW excess \in BOOLEAN, At(w, "index"),
                 Query(w, db.status = "indexing", [db EXCEPT !.excess = excess],
                       "toSettling", "requeue", "toFailed")
          PROVE  JobInv'
      <3>1. db' = db \/ db' = [db EXCEPT !.excess = excess]
        BY <2>1 DEF Query
      <3>2. SameJob(db') /\ SameHold(db')
        BY <3>1, ExcessUpdate
      <3> QED
        BY <1>t, <2>1, <3>2 DEF Query
    <2>2. CASE At(w, "index") /\ Turn(w, "toFailed")
      BY <1>t, <2>2 DEF Turn
    <2> QED
      BY <1>29, <2>1, <2>2 DEF Index
  <1>30. ASSUME NEW w \in Workers, ReleaseTerminal(w) PROVE JobInv'
    BY <1>t, <1>30, ReleaseStep DEF ReleaseTerminal
  <1>31. ASSUME NEW w \in Workers, Settle(w) PROVE JobInv'
    BY <1>t, <1>31, SettleStep
  <1>32. ASSUME NEW w \in Workers, CaptureHold(w) PROVE JobInv'
    <2>1. /\ SameJob(db') /\ db'.hold = db.hold /\ db'.released = db.released
          /\ db.captured => db'.captured
          /\ pc[w] = "capture" /\ db.named
      BY <1>32, CaptureStep
    <2>2. \A a \in Actors : pc'[a] = "release" => pc[a] = "release"
      BY <1>t, <1>32, CaptureStep
    <2>3. \A v \in Workers :
            \/ v = w /\ pc'[v] \in {"settled", "record"} /\ (pc'[v] = "settled" => db'.captured)
            \/ v # w /\ pc'[v] = pc[v]
      BY <1>t, <1>32, CaptureStep
    <2> QED
      BY <2>1, <2>2, <2>3
  <1>33. ASSUME NEW w \in Workers, MarkSettled(w) PROVE JobInv'
    BY <1>t, <1>33, Updates DEF MarkSettled, Query
  <1>34. ASSUME NEW w \in Workers, RecordSettlementFailure(w) PROVE JobInv'
    BY <1>t, <1>34, Updates DEF RecordSettlementFailure, Query, Exhausted
  <1>35. ASSUME NEW w \in Workers, Recheck(w) PROVE JobInv'
    BY <1>t, <1>35, Updates DEF Recheck, Decide
  <1>36. ASSUME NEW w \in Workers, FailExhausted(w) PROVE JobInv'
    <2>1. CASE At(w, "exhaust") /\ Release(w, "giveUp", "note")
      BY <1>t, <2>1, ReleaseStep
    <2>2. CASE At(w, "giveUp") /\ Transition(w, "failed", "ack", "requeue", "requeue")
      BY <1>t, <2>2, GiveUpStep
    <2> QED
      BY <1>36, <2>1, <2>2 DEF FailExhausted
  <1>37. CASE UpstreamEnds
    BY <1>t, <1>37, Updates DEF UpstreamEnds
  <1>38. CASE MoveDue
    BY <1>t, <1>38, Updates DEF MoveDue
  <1>39. CASE RecoverStaleActive
    BY <1>t, <1>39, Updates DEF RecoverStaleActive
  <1>40. CASE LockLapses
    BY <1>t, <1>40, Updates DEF LockLapses
  <1>41. ASSUME NEW a \in Actors, Stall(a) PROVE JobInv'
    BY <1>t, <1>41, Updates DEF Stall
  <1>42. ASSUME NEW a \in Actors, Crash(a) PROVE JobInv'
    BY <1>t, <1>42, Updates DEF Crash, Rests
  <1>43. CASE UNCHANGED vars
    BY <1>43 DEF vars
  <1> QED
    BY <1>1, <1>2, <1>3, <1>4, <1>5, <1>6, <1>7, <1>8, <1>9, <1>10, <1>11, <1>12, <1>13,
       <1>14, <1>15, <1>16, <1>17, <1>18, <1>19, <1>20, <1>21, <1>22, <1>23, <1>24, <1>25,
       <1>26, <1>27, <1>28, <1>29, <1>30, <1>31, <1>32, <1>33, <1>34, <1>35, <1>36, <1>37,
       <1>38, <1>39, <1>40, <1>41, <1>42, <1>43
       DEF Next, ClientGoesOn, OwnerGoesOn, SweepGoesOn, WorkerGoesOn

LEMMA NextCharge ==
  ASSUME TypeInv, ClientInv, JobInv, ChargeInv, "charge" \notin gaps', "late" \notin gaps', [Next]_vars
  PROVE  ChargeInv'
  <1>t. /\ db.frozen \in Nat /\ db.named \in BOOLEAN /\ db.hold \in BOOLEAN /\ db.captured \in BOOLEAN
        /\ pc = [a \in Actors |-> pc[a]]
    BY Typed
  <1> USE DEF At, GoTo, Fault, ClientInv, JobInv, GivenUp, ChargeInv, OpenHold, SameJob, SameHold, Statuses, Terminal
  <1>1. CASE Submit
    BY <1>t, <1>1, Updates DEF Submit
  <1>2. CASE Reserve
    BY <1>t, <1>2, Updates DEF Reserve, Query
  <1>3. CASE InsufficientBalance
    BY <1>t, <1>3, Updates DEF InsufficientBalance, Turn
  <1>4. CASE RecordFailure
    BY <1>t, <1>4, Updates DEF RecordFailure, Query
  <1>5. CASE CreateItems
    BY <1>t, <1>5, Updates DEF CreateItems, Query
  <1>6. CASE StartUpload
    BY <1>t, <1>6, Updates DEF StartUpload, Query, Transition, CanTransition
  <1>7. CASE SubmitUpstream
    BY <1>t, <1>7, Updates DEF SubmitUpstream
  <1>8. CASE ReleaseFailedSubmit
    <2>1. CASE At(Client, "undo") /\ Release(Client, "refuse", "owed")
      BY <1>t, <2>1, ReleaseStep
    <2>2. CASE At(Client, "withdraw") /\ Release(Client, "done", "owed")
      BY <1>t, <2>2, ReleaseStep
    <2> QED
      BY <1>8, <2>1, <2>2 DEF ReleaseFailedSubmit
  <1>9. CASE RecordReleaseFailure
    BY <1>t, <1>9, Updates DEF RecordReleaseFailure, Query
  <1>10. CASE NameProviderJob
    BY <1>t, <1>10, NameStep DEF CanTransition
  <1>11. CASE AbortOrphan
    BY <1>t, <1>11, Updates DEF AbortOrphan, Stopped
  <1>12. ASSUME NEW a \in {Client, Owner, Sweep}, PutOnQueue(a) PROVE ChargeInv'
    BY <1>t, <1>12, Updates DEF PutOnQueue, Enqueued
  <1>13. CASE Resubmit
    BY <1>t, <1>13, Updates DEF Resubmit, Turn, Visible
  <1>14. CASE CancelEnded
    BY <1>t, <1>14, Updates DEF CancelEnded, Turn, Visible
  <1>15. CASE CancelUpstream
    BY <1>t, <1>15, Updates DEF CancelUpstream, Visible, Stopped
  <1>16. CASE CancelUnsubmitted
    BY <1>t, <1>16, Updates DEF CancelUnsubmitted, Visible, Turn
  <1>17. CASE CancelJob
    BY <1>t, <1>17, CancelStep
  <1>18. CASE ReleaseCancelled
    <2>1. pc[Owner] = "release" /\ Release(Owner, "idle", "enqueue")
      BY <1>18 DEF ReleaseCancelled
    <2>2. ~db.captured
      BY <1>t, <2>1
    <2>3. /\ UNCHANGED <<queue, upstream>> /\ SameJob(db') /\ db'.hold = db.hold /\ ~db'.captured
          /\ \A w \in Workers : pc'[w] = "capture" => pc[w] = "capture"
      BY <1>t, <2>1, <2>2, ReleaseStep
    <2>4. \/ db'.released = db.released /\ db'.frozen = db.frozen
          \/ /\ db.released = "no" /\ ~db.hold
             /\ db'.released = "void" /\ db'.frozen = db.frozen
          \/ /\ db.released = "no" /\ db.hold
             /\ db'.released = "real" /\ db'.frozen = db.frozen - 1
      BY <2>1, ReleaseStep
    <2> QED
      BY <1>t, <2>2, <2>3, <2>4
  <1>19. CASE FailStaleUnsubmitted
    BY <1>t, <1>19, Updates DEF FailStaleUnsubmitted, Query, Unsubmitted
  <1>20. CASE ReleaseStale
    <2>1. pc[Sweep] = "release" /\ Release(Sweep, "idle", "enqueue")
      BY <1>20 DEF ReleaseStale
    <2>2. ~db.captured
      BY <1>t, <2>1
    <2>3. /\ UNCHANGED <<queue, upstream>> /\ SameJob(db') /\ db'.hold = db.hold /\ ~db'.captured
          /\ \A w \in Workers : pc'[w] = "capture" => pc[w] = "capture"
      BY <1>t, <2>1, <2>2, ReleaseStep
    <2>4. \/ db'.released = db.released /\ db'.frozen = db.frozen
          \/ /\ db.released = "no" /\ ~db.hold
             /\ db'.released = "void" /\ db'.frozen = db.frozen
          \/ /\ db.released = "no" /\ db.hold
             /\ db'.released = "real" /\ db'.frozen = db.frozen - 1
      BY <2>1, ReleaseStep
    <2> QED
      BY <1>t, <2>2, <2>3, <2>4
  <1>21. ASSUME NEW w \in Workers, ReserveJob(w) PROVE ChargeInv'
    BY <1>t, <1>21, Updates DEF ReserveJob
  <1>22. ASSUME NEW w \in Workers, TryLock(w) PROVE ChargeInv'
    BY <1>t, <1>22, Updates DEF TryLock
  <1>23. ASSUME NEW w \in Workers, RequeueConflict(w) PROVE ChargeInv'
    BY <1>t, <1>23, Updates DEF RequeueConflict, Leave, Delayed
  <1>24. ASSUME NEW w \in Workers, Requeue(w) PROVE ChargeInv'
    BY <1>t, <1>24, Updates DEF Requeue, Leave, Delayed
  <1>25. ASSUME NEW w \in Workers, Ack(w) PROVE ChargeInv'
    BY <1>t, <1>25, Updates DEF Ack, Leave, Acked
  <1>26. ASSUME NEW w \in Workers, Route(w) PROVE ChargeInv'
    BY <1>t, <1>26, Updates DEF Route, Turn
  <1>27. ASSUME NEW w \in Workers, Process(w) PROVE ChargeInv'
    BY <1>t, <1>27, ProcessStep, ZenonT(40)
  <1>28. ASSUME NEW w \in Workers, FollowProvider(w) PROVE ChargeInv'
    <2>1. SameHold(db') /\ \A v \in Workers : pc'[v] = "capture" => pc[v] = "capture"
      BY <1>t, <1>28, FollowStep
    <2>2. db.status \in {"settling", "completed"} => db'.status \in {"settling", "completed"}
      BY <1>28, FollowStep
    <2> QED
      BY <2>1, <2>2
  <1>29. ASSUME NEW w \in Workers, Index(w) PROVE ChargeInv'
    <2>1. ASSUME NEW excess \in BOOLEAN, At(w, "index"),
                 Query(w, db.status = "indexing", [db EXCEPT !.excess = excess],
                       "toSettling", "requeue", "toFailed")
          PROVE  ChargeInv'
      <3>1. db' = db \/ db' = [db EXCEPT !.excess = excess]
        BY <2>1 DEF Query
      <3>2. SameJob(db') /\ SameHold(db')
        BY <3>1, ExcessUpdate
      <3> QED
        BY <1>t, <2>1, <3>2 DEF Query
    <2>2. CASE At(w, "index") /\ Turn(w, "toFailed")
      BY <1>t, <2>2 DEF Turn
    <2> QED
      BY <1>29, <2>1, <2>2 DEF Index
  <1>30. ASSUME NEW w \in Workers, ReleaseTerminal(w) PROVE ChargeInv'
    <2>1. pc[w] = "release" /\ Release(w, "ack", "requeue")
      BY <1>30 DEF ReleaseTerminal
    <2>2. ~db.captured
      BY <1>t, <2>1
    <2>3. /\ UNCHANGED <<queue, upstream>> /\ SameJob(db') /\ db'.hold = db.hold /\ ~db'.captured
          /\ \A v \in Workers : pc'[v] = "capture" => pc[v] = "capture"
      BY <1>t, <2>1, <2>2, ReleaseStep
    <2>4. \/ db'.released = db.released /\ db'.frozen = db.frozen
          \/ /\ db.released = "no" /\ ~db.hold
             /\ db'.released = "void" /\ db'.frozen = db.frozen
          \/ /\ db.released = "no" /\ db.hold
             /\ db'.released = "real" /\ db'.frozen = db.frozen - 1
      BY <2>1, ReleaseStep
    <2> QED
      BY <1>t, <2>2, <2>3, <2>4
  <1>31. ASSUME NEW w \in Workers, Settle(w) PROVE ChargeInv'
    BY <1>t, <1>31, SettleStep
  <1>32. ASSUME NEW w \in Workers, CaptureHold(w) PROVE ChargeInv'
    <2>1. /\ SameJob(db') /\ db'.hold = db.hold /\ db'.released = db.released
          /\ pc[w] = "capture" /\ db.hold
      BY <1>32, CaptureStep
    <2>2. \/ db'.captured = db.captured /\ db'.frozen = db.frozen
          \/ /\ ~db.captured /\ db'.captured /\ db'.frozen = db.frozen - 1
             /\ db.released # "real"
      BY <1>32, CaptureStep
    <2>3. \A v \in Workers : pc'[v] = "capture" => pc[v] = "capture"
      BY <1>t, <1>32, CaptureStep
    <2> QED
      BY <1>t, <2>1, <2>2, <2>3
  <1>33. ASSUME NEW w \in Workers, MarkSettled(w) PROVE ChargeInv'
    BY <1>t, <1>33, Updates DEF MarkSettled, Query
  <1>34. ASSUME NEW w \in Workers, RecordSettlementFailure(w) PROVE ChargeInv'
    BY <1>t, <1>34, Updates DEF RecordSettlementFailure, Query, Exhausted
  <1>35. ASSUME NEW w \in Workers, Recheck(w) PROVE ChargeInv'
    BY <1>t, <1>35, Updates DEF Recheck, Decide
  <1>36. ASSUME NEW w \in Workers, FailExhausted(w) PROVE ChargeInv'
    <2>1. CASE At(w, "exhaust") /\ Release(w, "giveUp", "note")
      BY <1>t, <2>1, ReleaseStep DEF Untimely
    <2>2. CASE At(w, "giveUp") /\ Transition(w, "failed", "ack", "requeue", "requeue")
      <3>1. SameHold(db') /\ \A v \in Workers : pc'[v] = "capture" => pc[v] = "capture"
        BY <1>t, <2>2, GiveUpStep
      <3>2. db'.status = db.status \/ db.released = "real"
        BY <2>2, GiveUpStep, Typed
      <3> QED
        BY <3>1, <3>2
    <2> QED
      BY <1>36, <2>1, <2>2 DEF FailExhausted
  <1>37. CASE UpstreamEnds
    BY <1>t, <1>37, Updates DEF UpstreamEnds
  <1>38. CASE MoveDue
    BY <1>t, <1>38, Updates DEF MoveDue
  <1>39. CASE RecoverStaleActive
    BY <1>t, <1>39, Updates DEF RecoverStaleActive
  <1>40. CASE LockLapses
    BY <1>t, <1>40, Updates DEF LockLapses
  <1>41. ASSUME NEW a \in Actors, Stall(a) PROVE ChargeInv'
    BY <1>t, <1>41, Updates DEF Stall
  <1>42. ASSUME NEW a \in Actors, Crash(a) PROVE ChargeInv'
    BY <1>t, <1>42, Updates DEF Crash, Rests
  <1>43. CASE UNCHANGED vars
    BY <1>43 DEF vars
  <1> QED
    BY <1>1, <1>2, <1>3, <1>4, <1>5, <1>6, <1>7, <1>8, <1>9, <1>10, <1>11, <1>12, <1>13,
       <1>14, <1>15, <1>16, <1>17, <1>18, <1>19, <1>20, <1>21, <1>22, <1>23, <1>24, <1>25,
       <1>26, <1>27, <1>28, <1>29, <1>30, <1>31, <1>32, <1>33, <1>34, <1>35, <1>36, <1>37,
       <1>38, <1>39, <1>40, <1>41, <1>42, <1>43
       DEF Next, ClientGoesOn, OwnerGoesOn, SweepGoesOn, WorkerGoesOn

\* A worker that goes on with the job leaves it followed.
LEMMA WorkerGoes ==
  ASSUME TypeInv, ClientInv', JobInv', HoldInv, NEW w \in Workers, NEW c,
         pc' = [pc EXCEPT ![w] = c], c # "idle", UNCHANGED queue, gaps \subseteq gaps',
         OpenHold' => OpenHold,
         db.captured => db'.captured,
         db.released # "no" => db'.released = db.released,
         c = "ack" => Lost' \/ db'.captured \/ db'.released = "real"
  PROVE  HoldInv'
  <1>t. /\ pc = [a \in Actors |-> pc[a]] /\ pc'[w] = c
        /\ \A a \in Actors \ {w} : pc'[a] = pc[a]
    BY Typed
  <1> USE DEF HoldInv, Due, Followed, Responsible
  <1>1. Queued' = Queued
    BY DEF Queued
  <1>2. Lost => Lost'
    BY DEF Lost
  <1>3. Due' => Due
    BY <1>t
  <1>4. Due' /\ c = "ack" => Lost'
    BY <1>t DEF OpenHold, ClientInv, JobInv
  <1>5. Due' => Followed'
    BY <1>t, <1>4
  <1>6. Due' /\ queue'.inflight => (Queued \/ Lost \/ \E v \in Workers : Responsible(v))'
    BY <1>t, <1>4
  <1>7. \A v \in Workers : pc'[v] = "ack" => Lost' \/ db'.captured \/ db'.released = "real"
    BY <1>t, <1>2
  <1>8. pc'[Client] = "refuse" => Lost' \/ ~OpenHold'
    BY <1>t, <1>2, SMTT(40)
  <1> QED
    BY <1>5, <1>6, <1>7, <1>8

LEMMA NextHold ==
  ASSUME TypeInv, ClientInv, JobInv, HoldInv, ClientInv', JobInv', [Next]_vars
  PROVE  HoldInv'
  <1>t. /\ db.frozen \in Nat /\ db.named \in BOOLEAN /\ db.hold \in BOOLEAN /\ db.captured \in BOOLEAN
        /\ pc = [a \in Actors |-> pc[a]]
    BY Typed
  <1> USE DEF At, GoTo, Fault, ClientInv, JobInv, GivenUp, HoldInv, Due, Followed, Responsible, Queued, Unsubmitted, Lost, OpenHold, SameJob, SameHold, Statuses, Terminal
  <1>1. CASE Submit
    BY <1>t, <1>1, Updates DEF Submit
  <1>2. CASE Reserve
    <2>1. /\ UNCHANGED queue /\ gaps \subseteq gaps' /\ pc[Client] = "reserve"
          /\ pc' = [pc EXCEPT ![Client] = "items"] \/ pc' = [pc EXCEPT ![Client] = "refuse"]
      BY <1>2 DEF Reserve, Query
    <2>2. SameJob(db') /\ db'.captured = db.captured /\ db'.released = db.released
      BY <1>2, Updates DEF Reserve, Query
    <2>3. pc' = [pc EXCEPT ![Client] = "refuse"] => db' = db \/ "dropped" \in gaps'
      BY <1>t, <1>2 DEF Reserve, Query, Unanswered
    <2> QED
      BY <1>t, <2>1, <2>2, <2>3
  <1>3. CASE InsufficientBalance
    BY <1>t, <1>3, Updates DEF InsufficientBalance, Turn
  <1>4. CASE RecordFailure
    BY <1>t, <1>4, Updates DEF RecordFailure, Query
  <1>5. CASE CreateItems
    BY <1>t, <1>5, Updates DEF CreateItems, Query
  <1>6. CASE StartUpload
    BY <1>t, <1>6, Updates DEF StartUpload, Query, Transition, CanTransition
  <1>7. CASE SubmitUpstream
    BY <1>t, <1>7, Updates DEF SubmitUpstream
  <1>8. CASE ReleaseFailedSubmit
    <2>1. CASE At(Client, "undo") /\ Release(Client, "refuse", "owed")
      <3>1. /\ UNCHANGED queue /\ gaps \subseteq gaps' /\ SameJob(db')
            /\ db'.hold = db.hold /\ db'.captured = db.captured
            /\ db.released # "no" => db'.released = db.released
        BY <2>1, ReleaseStep
      <3>2. \/ pc' = [pc EXCEPT ![Client] = "owed"]
            \/ pc' = [pc EXCEPT ![Client] = "refuse"] /\ db'.released \in {"void", "real"}
        BY <2>1, ReleaseStep, Typed
      <3> QED
        BY <1>t, <2>1, <3>1, <3>2
    <2>2. CASE At(Client, "withdraw") /\ Release(Client, "done", "owed")
      BY <1>t, <2>2, ReleaseStep
    <2> QED
      BY <1>8, <2>1, <2>2 DEF ReleaseFailedSubmit
  <1>9. CASE RecordReleaseFailure
    BY <1>t, <1>9, Updates DEF RecordReleaseFailure, Query
  <1>10. CASE NameProviderJob
    BY <1>t, <1>10, NameStep DEF CanTransition
  <1>11. CASE AbortOrphan
    BY <1>t, <1>11, Updates DEF AbortOrphan, Stopped
  <1>12. ASSUME NEW a \in {Client, Owner, Sweep}, PutOnQueue(a) PROVE HoldInv'
    <2>1. Queued' \/ "dropped" \in gaps' \/ (UNCHANGED queue /\ queue.inflight)
      <3>1. \/ queue' = Enqueued
            \/ UNCHANGED queue /\ (queue.inflight \/ "dropped" \in gaps')
        BY <1>12 DEF PutOnQueue
      <3>2. ~queue.inflight /\ queue' = Enqueued => queue'.ready > 0
        BY DEF Enqueued, TypeInv, QueueOK, Queues
      <3>3. queue.inflight => Enqueued = queue
        BY DEF Enqueued
      <3> QED
        BY <3>1, <3>2, <3>3
    <2>2. UNCHANGED db /\ gaps \subseteq gaps'
      BY <1>12 DEF PutOnQueue
    <2>3. /\ pc'[Client] # pc[Client] => pc'[Client] = "done"
          /\ \A v \in Workers : pc'[v] = pc[v]
      BY <1>t, <1>12 DEF PutOnQueue
    <2>4. Due' => Due
      BY <2>2, <2>3
    <2>5. UNCHANGED queue => Queued' = Queued
      OBVIOUS
    <2>6. Due' => Queued' \/ Lost' \/ \E v \in Workers : Responsible(v)'
      BY <1>t, <2>1, <2>2, <2>3, <2>4, <2>5
    <2> HIDE DEF Queued
    <2> QED
      BY <1>t, <2>2, <2>3, <2>6
  <1>13. CASE Resubmit
    BY <1>t, <1>13, Updates DEF Resubmit, Turn, Visible
  <1>14. CASE CancelEnded
    BY <1>t, <1>14, Updates DEF CancelEnded, Turn, Visible
  <1>15. CASE CancelUpstream
    BY <1>t, <1>15, Updates DEF CancelUpstream, Visible, Stopped
  <1>16. CASE CancelUnsubmitted
    BY <1>t, <1>16, Updates DEF CancelUnsubmitted, Visible, Turn
  <1>17. CASE CancelJob
    BY <1>t, <1>17, CancelStep
  <1>18. CASE ReleaseCancelled
    <2>1. /\ UNCHANGED queue /\ gaps \subseteq gaps' /\ SameJob(db')
          /\ db'.hold = db.hold /\ db'.captured = db.captured
          /\ db.released # "no" => db'.released = db.released
      BY <1>18, ReleaseStep DEF ReleaseCancelled
    <2>2. \/ pc' = [pc EXCEPT ![Owner] = "enqueue"]
          \/ pc' = [pc EXCEPT ![Owner] = "idle"] /\ db'.released \in {"void", "real"}
      BY <1>18, ReleaseStep, Typed DEF ReleaseCancelled
    <2>3. pc'[Client] = pc[Client] /\ \A v \in Workers : pc'[v] = pc[v]
      BY <1>t, <2>2
    <2>4. Due' => Due
      BY <2>1, <2>3
    <2>5. Due' => Responsible(Owner)' \/ Lost'
      BY <1>t, <2>1, <2>2, <2>3
    <2>6. Queued' = Queued /\ (Lost => Lost')
      BY <2>1
    <2> HIDE DEF Queued
    <2> QED
      BY <1>t, <2>1, <2>3, <2>4, <2>5, <2>6
  <1>19. CASE FailStaleUnsubmitted
    <2>1. /\ UNCHANGED queue /\ gaps \subseteq gaps' /\ pc[Sweep] = "idle"
          /\ pc' = [pc EXCEPT ![Sweep] = "release"] \/ pc' = [pc EXCEPT ![Sweep] = "idle"]
      BY <1>19 DEF FailStaleUnsubmitted, Query
    <2>2. SameHold(db') /\ db'.named = db.named
      BY <1>19, Updates DEF FailStaleUnsubmitted, Query
    <2>3. db' = db \/ pc' = [pc EXCEPT ![Sweep] = "release"] \/ "dropped" \in gaps'
      BY <1>19 DEF FailStaleUnsubmitted, Query, Unanswered
    <2>4. db.status # "none"
      BY <1>19 DEF FailStaleUnsubmitted
    <2> QED
      BY <1>t, <2>1, <2>2, <2>3, <2>4
  <1>20. CASE ReleaseStale
    <2>1. /\ UNCHANGED queue /\ gaps \subseteq gaps' /\ SameJob(db')
          /\ db'.hold = db.hold /\ db'.captured = db.captured
          /\ db.released # "no" => db'.released = db.released
      BY <1>20, ReleaseStep DEF ReleaseStale
    <2>2. \/ pc' = [pc EXCEPT ![Sweep] = "enqueue"]
          \/ pc' = [pc EXCEPT ![Sweep] = "idle"] /\ db'.released \in {"void", "real"}
      BY <1>20, ReleaseStep, Typed DEF ReleaseStale
    <2>3. pc'[Client] = pc[Client] /\ \A v \in Workers : pc'[v] = pc[v]
      BY <1>t, <2>2
    <2>4. Due' => Due
      BY <2>1, <2>3
    <2>5. Due' => Responsible(Sweep)' \/ Lost'
      BY <1>t, <2>1, <2>2, <2>3
    <2>6. Queued' = Queued /\ (Lost => Lost')
      BY <2>1
    <2> HIDE DEF Queued
    <2> QED
      BY <1>t, <2>1, <2>3, <2>4, <2>5, <2>6
  <1>21. ASSUME NEW w \in Workers, ReserveJob(w) PROVE HoldInv'
    BY <1>t, <1>21, Updates DEF ReserveJob
  <1>22. ASSUME NEW w \in Workers, TryLock(w) PROVE HoldInv'
    BY <1>t, <1>22, Updates DEF TryLock
  <1>23. ASSUME NEW w \in Workers, RequeueConflict(w) PROVE HoldInv'
    <2>1. Queued' \/ "dropped" \in gaps'
      BY <1>23 DEF RequeueConflict, Leave, Delayed, TypeInv, QueueOK, Queues
    <2>2. UNCHANGED db /\ gaps \subseteq gaps'
      BY <1>23 DEF RequeueConflict, Leave, Delayed
    <2>3. pc' = [pc EXCEPT ![w] = "idle"]
      BY <1>23 DEF RequeueConflict, Leave, Delayed
    <2> HIDE DEF Queued
    <2> QED
      BY <1>t, <2>1, <2>2, <2>3
  <1>24. ASSUME NEW w \in Workers, Requeue(w) PROVE HoldInv'
    <2>1. Queued' \/ "dropped" \in gaps'
      BY <1>24 DEF Requeue, Leave, Delayed, TypeInv, QueueOK, Queues
    <2>2. UNCHANGED db /\ gaps \subseteq gaps'
      BY <1>24 DEF Requeue, Leave, Delayed
    <2>3. pc' = [pc EXCEPT ![w] = "idle"]
      BY <1>24 DEF Requeue, Leave, Delayed
    <2> HIDE DEF Queued
    <2> QED
      BY <1>t, <2>1, <2>2, <2>3
  <1>25. ASSUME NEW w \in Workers, Ack(w) PROVE HoldInv'
    <2>1. /\ UNCHANGED db /\ gaps \subseteq gaps' /\ pc' = [pc EXCEPT ![w] = "idle"]
          /\ pc[w] = "ack"
      BY <1>25 DEF Ack, Leave
    <2>2. Lost' \/ ~Due'
      BY <1>t, <2>1
    <2>3. \A v \in Workers : pc'[v] = "ack" => pc[v] = "ack"
      BY <1>t, <2>1
    <2>4. pc'[Client] = pc[Client]
      BY <1>t, <2>1
    <2> QED
      BY <2>1, <2>2, <2>3, <2>4
  <1>26. ASSUME NEW w \in Workers, Route(w) PROVE HoldInv'
    BY <1>t, <1>26, Updates DEF Route, Turn
  <1>27. ASSUME NEW w \in Workers, Process(w) PROVE HoldInv'
    BY <1>t, <1>27, ProcessStep
  <1>28. ASSUME NEW w \in Workers, FollowProvider(w) PROVE HoldInv'
    BY <1>t, <1>28, FollowStep
  <1>29. ASSUME NEW w \in Workers, Index(w) PROVE HoldInv'
    <2>1. ASSUME NEW excess \in BOOLEAN, At(w, "index"),
                 Query(w, db.status = "indexing", [db EXCEPT !.excess = excess],
                       "toSettling", "requeue", "toFailed")
          PROVE  HoldInv'
      <3>1. db' = db \/ db' = [db EXCEPT !.excess = excess]
        BY <2>1 DEF Query
      <3>2. SameJob(db') /\ SameHold(db')
        BY <3>1, ExcessUpdate
      <3> QED
        BY <1>t, <2>1, <3>2 DEF Query
    <2>2. CASE At(w, "index") /\ Turn(w, "toFailed")
      BY <1>t, <2>2 DEF Turn
    <2> QED
      BY <1>29, <2>1, <2>2 DEF Index
  <1>30. ASSUME NEW w \in Workers, ReleaseTerminal(w) PROVE HoldInv'
    <2>1. /\ UNCHANGED queue /\ gaps \subseteq gaps' /\ SameJob(db')
          /\ db'.hold = db.hold /\ db'.captured = db.captured
          /\ db.released # "no" => db'.released = db.released
      BY <1>30, ReleaseStep DEF ReleaseTerminal
    <2>2. \/ pc' = [pc EXCEPT ![w] = "requeue"]
          \/ pc' = [pc EXCEPT ![w] = "ack"] /\ db'.released \in {"void", "real"}
      BY <1>30, ReleaseStep, Typed DEF ReleaseTerminal
    <2>3. CASE pc' = [pc EXCEPT ![w] = "requeue"]
      BY <2>1, <2>3, WorkerGoes
    <2>4. CASE pc' = [pc EXCEPT ![w] = "ack"] /\ db'.released \in {"void", "real"}
      BY <2>1, <2>4, WorkerGoes
    <2> QED
      BY <2>2, <2>3, <2>4
  <1>31. ASSUME NEW w \in Workers, Settle(w) PROVE HoldInv'
    <2>1. UNCHANGED <<db, queue, gaps>>
      BY <1>31, SettleStep
    <2>2. PICK c : /\ pc' = [pc EXCEPT ![w] = c]
                   /\ \/ c = "requeue"
                      \/ c = "ack" /\ db.status = "completed"
                      \/ c \in {"exhaust", "record", "capture"} /\ db.status = "settling"
      BY <1>31, SettleStep
    <2>3. c # "idle" /\ (c = "ack" => db.captured)
      BY <2>2
    <2> QED
      BY <2>1, <2>2, <2>3, WorkerGoes
  <1>32. ASSUME NEW w \in Workers, CaptureHold(w) PROVE HoldInv'
    <2>1. /\ UNCHANGED queue /\ gaps \subseteq gaps' /\ SameJob(db')
          /\ db'.hold = db.hold
          /\ db.captured => db'.captured
          /\ db'.released = db.released
      BY <1>32, CaptureStep
    <2>2. pc' = [pc EXCEPT ![w] = "settled"] \/ pc' = [pc EXCEPT ![w] = "record"]
      BY <1>32, CaptureStep
    <2> QED
      BY <2>1, <2>2, WorkerGoes
  <1>33. ASSUME NEW w \in Workers, MarkSettled(w) PROVE HoldInv'
    BY <1>t, <1>33, Updates DEF MarkSettled, Query
  <1>34. ASSUME NEW w \in Workers, RecordSettlementFailure(w) PROVE HoldInv'
    BY <1>t, <1>34, Updates DEF RecordSettlementFailure, Query, Exhausted
  <1>35. ASSUME NEW w \in Workers, Recheck(w) PROVE HoldInv'
    BY <1>t, <1>35, Updates, SMTT(40) DEF Recheck, Decide
  <1>36. ASSUME NEW w \in Workers, FailExhausted(w) PROVE HoldInv'
    <2>1. CASE At(w, "exhaust") /\ Release(w, "giveUp", "note")
      <3>1. /\ UNCHANGED queue /\ gaps \subseteq gaps' /\ SameJob(db')
            /\ db'.hold = db.hold /\ db'.captured = db.captured
            /\ db.released # "no" => db'.released = db.released
        BY <2>1, ReleaseStep
      <3>2. pc' = [pc EXCEPT ![w] = "giveUp"] \/ pc' = [pc EXCEPT ![w] = "note"]
        BY <2>1, ReleaseStep
      <3> QED
        BY <3>1, <3>2, WorkerGoes
    <2>2. CASE At(w, "giveUp") /\ Transition(w, "failed", "ack", "requeue", "requeue")
      <3>1. UNCHANGED queue /\ gaps \subseteq gaps' /\ SameHold(db')
        BY <2>2, GiveUpStep
      <3>2. pc' = [pc EXCEPT ![w] = "ack"] \/ pc' = [pc EXCEPT ![w] = "requeue"]
        BY <2>2, GiveUpStep
      <3>3. db'.released \in {"void", "real"}
        BY <2>2, <3>1, Typed
      <3> QED
        BY <3>1, <3>2, <3>3, WorkerGoes
    <2> QED
      BY <1>36, <2>1, <2>2 DEF FailExhausted
  <1>37. CASE UpstreamEnds
    BY <1>t, <1>37, Updates DEF UpstreamEnds
  <1>38. CASE MoveDue
    <2>1. Queued'
      BY <1>38 DEF MoveDue, TypeInv, QueueOK, Queues
    <2>2. UNCHANGED <<db, pc, gaps>>
      BY <1>38 DEF MoveDue
    <2> HIDE DEF Queued
    <2> QED
      BY <1>t, <2>1, <2>2
  <1>39. CASE RecoverStaleActive
    <2>1. Queued'
      BY <1>39 DEF RecoverStaleActive, TypeInv, QueueOK, Queues
    <2>2. UNCHANGED <<db, pc, gaps>>
      BY <1>39 DEF RecoverStaleActive
    <2> HIDE DEF Queued
    <2> QED
      BY <1>t, <2>1, <2>2
  <1>40. CASE LockLapses
    BY <1>t, <1>40, Updates DEF LockLapses
  <1>41. ASSUME NEW a \in Actors, Stall(a) PROVE HoldInv'
    BY <1>t, <1>41, Updates DEF Stall
  <1>42. ASSUME NEW a \in Actors, Crash(a) PROVE HoldInv'
    <2>1. /\ UNCHANGED <<db, queue>> /\ gaps \subseteq gaps'
          /\ pc' = [pc EXCEPT ![a] = IF a = Client THEN "done" ELSE "idle"]
      BY <1>42 DEF Crash
    <2>2. /\ a \in Workers => Queued \/ "dropped" \in gaps'
          /\ a \notin Workers /\ pc[a] \in {"release", "enqueue"} => "dropped" \in gaps'
      BY <1>42 DEF Crash
    <2>3. /\ pc'[Client] \in {"done", pc[Client]}
          /\ \A v \in Workers : pc'[v] \in {"idle", pc[v]}
          /\ \A b \in Actors : b # a => pc'[b] = pc[b]
      BY <1>t, <2>1
    <2>4. Responsible(a) => Queued' \/ Lost'
      BY <2>1, <2>2
    <2>5. Queued' = Queued /\ (Lost => Lost') /\ (Due' => Due)
      BY <2>1, <2>3
    <2>6. \A b \in Actors : b # a => Responsible(b)' = Responsible(b)
      BY <2>3
    <2> HIDE DEF Queued, Responsible
    <2> QED
      BY <2>1, <2>3, <2>4, <2>5, <2>6
  <1>43. CASE UNCHANGED vars
    BY <1>43 DEF vars
  <1> QED
    BY <1>1, <1>2, <1>3, <1>4, <1>5, <1>6, <1>7, <1>8, <1>9, <1>10, <1>11, <1>12, <1>13,
       <1>14, <1>15, <1>16, <1>17, <1>18, <1>19, <1>20, <1>21, <1>22, <1>23, <1>24, <1>25,
       <1>26, <1>27, <1>28, <1>29, <1>30, <1>31, <1>32, <1>33, <1>34, <1>35, <1>36, <1>37,
       <1>38, <1>39, <1>40, <1>41, <1>42, <1>43
       DEF Next, ClientGoesOn, OwnerGoesOn, SweepGoesOn, WorkerGoesOn

LEMMA NextUpstream ==
  ASSUME TypeInv, ClientInv, JobInv, UpstreamInv, [Next]_vars
  PROVE  UpstreamInv'
  <1>t. /\ db.frozen \in Nat /\ db.named \in BOOLEAN /\ db.hold \in BOOLEAN /\ db.captured \in BOOLEAN
        /\ pc = [a \in Actors |-> pc[a]]
    BY Typed
  <1> USE DEF At, GoTo, Fault, ClientInv, JobInv, GivenUp, UpstreamInv, Ended, Blind, SameJob, SameHold, Statuses, Terminal
  <1>1. CASE Submit
    BY <1>t, <1>1, Updates DEF Submit
  <1>2. CASE Reserve
    BY <1>t, <1>2, Updates DEF Reserve, Query
  <1>3. CASE InsufficientBalance
    BY <1>t, <1>3, Updates DEF InsufficientBalance, Turn
  <1>4. CASE RecordFailure
    BY <1>t, <1>4, Updates DEF RecordFailure, Query
  <1>5. CASE CreateItems
    BY <1>t, <1>5, Updates DEF CreateItems, Query
  <1>6. CASE StartUpload
    BY <1>t, <1>6, Updates DEF StartUpload, Query, Transition, CanTransition
  <1>7. CASE SubmitUpstream
    <2>1. /\ UNCHANGED db /\ gaps \subseteq gaps' /\ pc[Client] = "submit"
          /\ \/ upstream' = "running" /\ pc' = [pc EXCEPT ![Client] = "name"]
             \/ upstream' = upstream /\ pc' = [pc EXCEPT ![Client] = "undo"]
             \/ /\ upstream' = "running" /\ pc' = [pc EXCEPT ![Client] = "undo"]
                /\ "orphan" \in gaps'
      BY <1>7 DEF SubmitUpstream
    <2>2. upstream = "none" /\ ~db.named
      BY <1>t, <2>1
    <2>3. db.status \notin {"indexing", "settling", "completed"}
      BY <2>2
    <2>4. \A w \in Workers : pc'[w] = pc[w]
      BY <1>t, <2>1
    <2>5. db.released = "real" => GivenUp
      BY <1>t, <2>1, <2>2
    <2> QED
      BY <1>t, <2>1, <2>2, <2>3, <2>4, <2>5
  <1>8. CASE ReleaseFailedSubmit
    <2>1. CASE At(Client, "undo") /\ Release(Client, "refuse", "owed")
      BY <1>t, <2>1, ReleaseStep
    <2>2. CASE At(Client, "withdraw") /\ Release(Client, "done", "owed")
      BY <1>t, <2>2, ReleaseStep
    <2> QED
      BY <1>8, <2>1, <2>2 DEF ReleaseFailedSubmit
  <1>9. CASE RecordReleaseFailure
    BY <1>t, <1>9, Updates DEF RecordReleaseFailure, Query
  <1>10. CASE NameProviderJob
    BY <1>t, <1>10, NameStep DEF CanTransition
  <1>11. CASE AbortOrphan
    BY <1>t, <1>11, Updates DEF AbortOrphan, Stopped
  <1>12. ASSUME NEW a \in {Client, Owner, Sweep}, PutOnQueue(a) PROVE UpstreamInv'
    BY <1>t, <1>12, Updates DEF PutOnQueue, Enqueued
  <1>13. CASE Resubmit
    BY <1>t, <1>13, Updates DEF Resubmit, Turn, Visible
  <1>14. CASE CancelEnded
    BY <1>t, <1>14, Updates DEF CancelEnded, Turn, Visible
  <1>15. CASE CancelUpstream
    BY <1>t, <1>15, Updates DEF CancelUpstream, Visible, Stopped
  <1>16. CASE CancelUnsubmitted
    BY <1>t, <1>16, Updates DEF CancelUnsubmitted, Visible, Turn
  <1>17. CASE CancelJob
    BY <1>t, <1>17, CancelStep
  <1>18. CASE ReleaseCancelled
    BY <1>t, <1>18, ReleaseStep DEF ReleaseCancelled
  <1>19. CASE FailStaleUnsubmitted
    BY <1>t, <1>19, Updates DEF FailStaleUnsubmitted, Query, Unsubmitted
  <1>20. CASE ReleaseStale
    BY <1>t, <1>20, ReleaseStep DEF ReleaseStale
  <1>21. ASSUME NEW w \in Workers, ReserveJob(w) PROVE UpstreamInv'
    BY <1>t, <1>21, Updates DEF ReserveJob
  <1>22. ASSUME NEW w \in Workers, TryLock(w) PROVE UpstreamInv'
    BY <1>t, <1>22, Updates DEF TryLock
  <1>23. ASSUME NEW w \in Workers, RequeueConflict(w) PROVE UpstreamInv'
    BY <1>t, <1>23, Updates DEF RequeueConflict, Leave, Delayed
  <1>24. ASSUME NEW w \in Workers, Requeue(w) PROVE UpstreamInv'
    BY <1>t, <1>24, Updates DEF Requeue, Leave, Delayed
  <1>25. ASSUME NEW w \in Workers, Ack(w) PROVE UpstreamInv'
    BY <1>t, <1>25, Updates DEF Ack, Leave, Acked
  <1>26. ASSUME NEW w \in Workers, Route(w) PROVE UpstreamInv'
    BY <1>t, <1>26, Updates DEF Route, Turn
  <1>27. ASSUME NEW w \in Workers, Process(w) PROVE UpstreamInv'
    BY <1>t, <1>27, ProcessStep
  <1>28. ASSUME NEW w \in Workers, FollowProvider(w) PROVE UpstreamInv'
    BY <1>t, <1>28, FollowStep, SMTT(40)
  <1>29. ASSUME NEW w \in Workers, Index(w) PROVE UpstreamInv'
    <2>1. ASSUME NEW excess \in BOOLEAN, At(w, "index"),
                 Query(w, db.status = "indexing", [db EXCEPT !.excess = excess],
                       "toSettling", "requeue", "toFailed")
          PROVE  UpstreamInv'
      <3>1. db' = db \/ db' = [db EXCEPT !.excess = excess]
        BY <2>1 DEF Query
      <3>2. SameJob(db') /\ SameHold(db')
        BY <3>1, ExcessUpdate
      <3> QED
        BY <1>t, <2>1, <3>2 DEF Query
    <2>2. CASE At(w, "index") /\ Turn(w, "toFailed")
      BY <1>t, <2>2 DEF Turn
    <2> QED
      BY <1>29, <2>1, <2>2 DEF Index
  <1>30. ASSUME NEW w \in Workers, ReleaseTerminal(w) PROVE UpstreamInv'
    BY <1>t, <1>30, ReleaseStep DEF ReleaseTerminal
  <1>31. ASSUME NEW w \in Workers, Settle(w) PROVE UpstreamInv'
    BY <1>t, <1>31, SettleStep
  <1>32. ASSUME NEW w \in Workers, CaptureHold(w) PROVE UpstreamInv'
    BY <1>t, <1>32, CaptureStep
  <1>33. ASSUME NEW w \in Workers, MarkSettled(w) PROVE UpstreamInv'
    BY <1>t, <1>33, Updates DEF MarkSettled, Query
  <1>34. ASSUME NEW w \in Workers, RecordSettlementFailure(w) PROVE UpstreamInv'
    BY <1>t, <1>34, Updates DEF RecordSettlementFailure, Query, Exhausted
  <1>35. ASSUME NEW w \in Workers, Recheck(w) PROVE UpstreamInv'
    BY <1>t, <1>35, Updates DEF Recheck, Decide
  <1>36. ASSUME NEW w \in Workers, FailExhausted(w) PROVE UpstreamInv'
    <2>1. CASE At(w, "exhaust") /\ Release(w, "giveUp", "note")
      BY <1>t, <2>1, ReleaseStep
    <2>2. CASE At(w, "giveUp") /\ Transition(w, "failed", "ack", "requeue", "requeue")
      BY <1>t, <2>2, GiveUpStep
    <2> QED
      BY <1>36, <2>1, <2>2 DEF FailExhausted
  <1>37. CASE UpstreamEnds
    BY <1>t, <1>37, Updates DEF UpstreamEnds
  <1>38. CASE MoveDue
    BY <1>t, <1>38, Updates DEF MoveDue
  <1>39. CASE RecoverStaleActive
    BY <1>t, <1>39, Updates DEF RecoverStaleActive
  <1>40. CASE LockLapses
    BY <1>t, <1>40, Updates DEF LockLapses
  <1>41. ASSUME NEW a \in Actors, Stall(a) PROVE UpstreamInv'
    BY <1>t, <1>41, Updates DEF Stall
  <1>42. ASSUME NEW a \in Actors, Crash(a) PROVE UpstreamInv'
    BY <1>t, <1>42, Updates DEF Crash, Rests
  <1>43. CASE UNCHANGED vars
    BY <1>43 DEF vars
  <1> QED
    BY <1>1, <1>2, <1>3, <1>4, <1>5, <1>6, <1>7, <1>8, <1>9, <1>10, <1>11, <1>12, <1>13,
       <1>14, <1>15, <1>16, <1>17, <1>18, <1>19, <1>20, <1>21, <1>22, <1>23, <1>24, <1>25,
       <1>26, <1>27, <1>28, <1>29, <1>30, <1>31, <1>32, <1>33, <1>34, <1>35, <1>36, <1>37,
       <1>38, <1>39, <1>40, <1>41, <1>42, <1>43
       DEF Next, ClientGoesOn, OwnerGoesOn, SweepGoesOn, WorkerGoesOn

-----------------------------------------------------------------------------
(* The inductive invariant and the theorems.                               *)

LEMMA InitInv == Init => IInv
  <1> SUFFICES ASSUME Init PROVE IInv
    OBVIOUS
  <1> USE DEF Init
  <1>1. \A a \in Actors : pc[a] = "idle"
    OBVIOUS
  <1>2. DbOK /\ QueueOK
    BY DEF DbOK, Jobs, QueueOK, Queues, Statuses
  <1>3. RestOK
    BY DEF RestOK
  <1>4. ClientInv /\ HoldInv
    BY <1>1 DEF ClientInv, HoldInv, OpenHold
  <1>5. JobInv
    BY <1>1 DEF JobInv
  <1>6. ChargeInv
    BY <1>1 DEF ChargeInv, OpenHold
  <1>7. UpstreamInv
    BY <1>1 DEF UpstreamInv
  <1>8. FrozenInv /\ PaidInv
    BY <1>1 DEF FrozenInv, PaidInv
  <1> QED
    BY <1>2, <1>3, <1>4, <1>5, <1>6, <1>7, <1>8 DEF IInv

\* What the code does not recover from is never unlearnt.
LEMMA GapsGrow ==
  ASSUME TypeInv, [Next]_vars
  PROVE  gaps \subseteq gaps'
  <1>1. CASE Submit \/ Reserve \/ InsufficientBalance \/ RecordFailure
    BY <1>1 DEF Submit, Reserve, Query, InsufficientBalance, Turn, RecordFailure
  <1>2. CASE CreateItems \/ StartUpload \/ SubmitUpstream \/ ReleaseFailedSubmit
    BY <1>2 DEF CreateItems, Query, StartUpload, Transition, SubmitUpstream,
          ReleaseFailedSubmit, Release
  <1>3. CASE RecordReleaseFailure \/ NameProviderJob \/ AbortOrphan \/ Resubmit
    BY <1>3 DEF RecordReleaseFailure, Query, NameProviderJob, AbortOrphan, Resubmit, Turn
  <1>4. CASE CancelEnded \/ CancelUpstream \/ CancelUnsubmitted \/ CancelJob
    BY <1>4 DEF CancelEnded, Turn, CancelUpstream, CancelUnsubmitted, CancelJob, Query,
          Transition
  <1>5. CASE ReleaseCancelled \/ FailStaleUnsubmitted \/ ReleaseStale \/ UpstreamEnds
    BY <1>5 DEF ReleaseCancelled, Query, Release, FailStaleUnsubmitted, ReleaseStale,
          UpstreamEnds
  <1>6. CASE MoveDue \/ RecoverStaleActive \/ LockLapses
    BY <1>6 DEF MoveDue, RecoverStaleActive, LockLapses
  <1>7. ASSUME NEW a \in {Client, Owner, Sweep}, PutOnQueue(a)
        PROVE  gaps \subseteq gaps'
    BY <1>7 DEF PutOnQueue
  <1>8. ASSUME NEW w \in Workers, ReserveJob(w) \/ TryLock(w) \/ RequeueConflict(w) \/ Requeue(w)
        PROVE  gaps \subseteq gaps'
    BY <1>8 DEF ReserveJob, TryLock, RequeueConflict, Leave, Requeue
  <1>9. ASSUME NEW w \in Workers, Ack(w) \/ Route(w) \/ Process(w) \/ FollowProvider(w)
        PROVE  gaps \subseteq gaps'
    BY <1>9 DEF Ack, Leave, Route, Turn, Process, Decide, FollowProvider, Query, Transition
  <1>10. ASSUME NEW w \in Workers, Index(w) \/ ReleaseTerminal(w) \/ Settle(w) \/ CaptureHold(w)
        PROVE  gaps \subseteq gaps'
    BY <1>10 DEF Index, Query, Turn, ReleaseTerminal, Release, Settle, Decide, CaptureHold
  <1>11. ASSUME NEW w \in Workers, MarkSettled(w) \/ RecordSettlementFailure(w) \/ Recheck(w) \/ FailExhausted(w)
        PROVE  gaps \subseteq gaps'
    BY <1>11 DEF MarkSettled, Query, RecordSettlementFailure, Recheck, Decide, FailExhausted,
          Release, Transition
  <1>12. ASSUME NEW a \in Actors, Stall(a) \/ Crash(a)
        PROVE  gaps \subseteq gaps'
    BY <1>12 DEF Stall, Crash
  <1>13. CASE UNCHANGED vars
    BY <1>13 DEF vars
  <1> QED
    BY <1>1, <1>2, <1>3, <1>4, <1>5, <1>6, <1>7, <1>8, <1>9, <1>10, <1>11, <1>12, <1>13 DEF
          Next, ClientGoesOn, OwnerGoesOn, SweepGoesOn, WorkerGoesOn

-----------------------------------------------------------------------------
(* Settlements: the retries that are counted and what is taken.            *)

LEMMA RetriesUpdates ==
  ASSUME TypeInv
  PROVE  /\ \A s : /\ Becomes(s).retries = db.retries
                  /\ [Becomes(s) EXCEPT !.named = TRUE].retries = db.retries
         /\ Reserved.retries = db.retries /\ Captured.retries = db.retries
         /\ Released.retries = db.retries /\ (Exhausted => Retried.retries = db.retries)
         /\ \A b : [db EXCEPT !.excess = b].retries = db.retries
  <1> USE DEF TypeInv, DbOK, Jobs
  <1>1. \A s : /\ Becomes(s).retries = db.retries
              /\ [Becomes(s) EXCEPT !.named = TRUE].retries = db.retries
    BY DEF Becomes
  <1>2. Reserved.retries = db.retries /\ Captured.retries = db.retries
    BY DEF Reserved, Captured
  <1>3. Released.retries = db.retries /\ (Exhausted => Retried.retries = db.retries)
    BY DEF Released, Retried
  <1>4. \A b : [db EXCEPT !.excess = b].retries = db.retries
    OBVIOUS
  <1> QED
    BY <1>1, <1>2, <1>3, <1>4

\* An exhausted settlement stays exhausted.
LEMMA RetriesGrow ==
  ASSUME TypeInv, [Next]_vars
  PROVE  Exhausted => Exhausted'
  <1>0. Exhausted /\ db'.retries = db.retries => Exhausted'
    BY DEF Exhausted
  <1>1. CASE Submit \/ Reserve \/ InsufficientBalance
    BY <1>1, <1>0, RetriesUpdates DEF Submit, Reserve, Query, InsufficientBalance, Turn
  <1>2. CASE RecordFailure \/ CreateItems \/ StartUpload
    BY <1>2, <1>0, RetriesUpdates DEF RecordFailure, Query, CreateItems, StartUpload,
          Transition
  <1>3. CASE SubmitUpstream \/ ReleaseFailedSubmit \/ RecordReleaseFailure
    BY <1>3, <1>0, RetriesUpdates DEF SubmitUpstream, ReleaseFailedSubmit, Query, Release,
          RecordReleaseFailure
  <1>4. CASE NameProviderJob \/ AbortOrphan \/ Resubmit
    BY <1>4, <1>0, RetriesUpdates DEF NameProviderJob, Query, AbortOrphan, Resubmit, Turn
  <1>5. CASE CancelEnded \/ CancelUpstream \/ CancelUnsubmitted
    BY <1>5, <1>0, RetriesUpdates DEF CancelEnded, Turn, CancelUpstream, CancelUnsubmitted
  <1>6. CASE CancelJob \/ ReleaseCancelled \/ FailStaleUnsubmitted
    BY <1>6, <1>0, RetriesUpdates DEF CancelJob, Query, Transition, ReleaseCancelled,
          Release, FailStaleUnsubmitted
  <1>7. CASE ReleaseStale \/ UpstreamEnds \/ MoveDue
    BY <1>7, <1>0, RetriesUpdates DEF ReleaseStale, Query, Release, UpstreamEnds, MoveDue
  <1>8. CASE RecoverStaleActive \/ LockLapses
    BY <1>8, <1>0, RetriesUpdates DEF RecoverStaleActive, LockLapses
  <1>9. ASSUME NEW a \in {Client, Owner, Sweep}, PutOnQueue(a)
        PROVE  Exhausted => Exhausted'
    BY <1>9, <1>0, RetriesUpdates DEF PutOnQueue
  <1>10. ASSUME NEW w \in Workers, ReserveJob(w) \/ TryLock(w) \/ RequeueConflict(w)
        PROVE  Exhausted => Exhausted'
    BY <1>10, <1>0, RetriesUpdates DEF ReserveJob, TryLock, RequeueConflict, Leave
  <1>11. ASSUME NEW w \in Workers, Requeue(w) \/ Ack(w) \/ Route(w)
        PROVE  Exhausted => Exhausted'
    BY <1>11, <1>0, RetriesUpdates DEF Requeue, Leave, Ack, Route, Turn
  <1>12. ASSUME NEW w \in Workers, Process(w) \/ FollowProvider(w) \/ Index(w)
        PROVE  Exhausted => Exhausted'
    BY <1>12, <1>0, RetriesUpdates DEF Process, Decide, FollowProvider, Query, Transition,
          Index, Turn
  <1>13. ASSUME NEW w \in Workers, ReleaseTerminal(w) \/ Settle(w) \/ CaptureHold(w)
        PROVE  Exhausted => Exhausted'
    BY <1>13, <1>0, RetriesUpdates DEF ReleaseTerminal, Query, Release, Settle, Decide,
          CaptureHold
  <1>14. ASSUME NEW w \in Workers, MarkSettled(w) \/ RecordSettlementFailure(w) \/ Recheck(w)
        PROVE  Exhausted => Exhausted'
    BY <1>14, <1>0, RetriesUpdates DEF MarkSettled, Query, RecordSettlementFailure, Recheck,
          Decide
  <1>15. ASSUME NEW w \in Workers, FailExhausted(w)
        PROVE  Exhausted => Exhausted'
    BY <1>15, <1>0, RetriesUpdates DEF FailExhausted, Query, Release, Transition
  <1>16. ASSUME NEW a \in Actors, Stall(a) \/ Crash(a)
        PROVE  Exhausted => Exhausted'
    BY <1>16, <1>0, RetriesUpdates DEF Stall, Crash
  <1>17. CASE UNCHANGED vars
    BY <1>0, <1>17 DEF vars
  <1> QED
    BY <1>1, <1>2, <1>3, <1>4, <1>5, <1>6, <1>7, <1>8, <1>9, <1>10, <1>11, <1>12, <1>13, <1>14,
          <1>15, <1>16, <1>17 DEF Next, ClientGoesOn, OwnerGoesOn, SweepGoesOn, WorkerGoesOn

\* The frozen balance counts the job's hold, its capture and its release.
LEMMA NextFrozen ==
  ASSUME TypeInv, ClientInv, JobInv, FrozenInv, [Next]_vars
  PROVE  FrozenInv'
  <1>t. /\ db.frozen \in Nat /\ db.hold \in BOOLEAN /\ db.captured \in BOOLEAN
        /\ db.released \in {"no", "void", "real"} /\ OtherHolds \in Nat
    BY Typed
  <1>s. ASSUME SameHold(db') PROVE FrozenInv'
    BY <1>s DEF FrozenInv, SameHold
  <1>u. db' = db => FrozenInv'
    BY DEF FrozenInv
  <1>r. ASSUME NEW a \in Actors, NEW yes, NEW error, Release(a, yes, error) PROVE FrozenInv'
    <2>1. db'.hold = db.hold /\ db'.captured = db.captured
      BY <1>r, ReleaseStep
    <2>2. \/ db'.released = db.released /\ db'.frozen = db.frozen
          \/ db.released = "no" /\ db'.released = "void" /\ db'.frozen = db.frozen
          \/ db.released = "no" /\ db'.released = "real" /\ db'.frozen = db.frozen - 1
      BY <1>r, ReleaseStep
    <2> QED
      BY <1>t, <2>1, <2>2 DEF FrozenInv
  <1>1. CASE Submit \/ InsufficientBalance \/ RecordFailure \/ CreateItems \/ StartUpload
    BY <1>1, <1>s, <1>u, Updates, StatusNames DEF Submit, InsufficientBalance, Turn, RecordFailure,
          Query, CreateItems, StartUpload, Transition
  <1>2. CASE Reserve
    <2>1. ~db.hold /\ ~db.captured /\ db.released # "real"
      BY <1>2 DEF Reserve, At, ClientInv, JobInv
    <2>2. db' = db \/ db' = Reserved
      BY <1>2 DEF Reserve, Query
    <2> QED
      BY <1>t, <1>u, <2>1, <2>2, Updates DEF FrozenInv
  <1>3. CASE SubmitUpstream \/ RecordReleaseFailure \/ AbortOrphan \/ Resubmit
    BY <1>3, <1>s, <1>u, Updates, StatusNames DEF SubmitUpstream, RecordReleaseFailure, Query,
          AbortOrphan, Resubmit, Turn
  <1>4. CASE NameProviderJob \/ CancelJob
    BY <1>4, <1>s, NameStep, CancelStep
  <1>5. CASE CancelEnded \/ CancelUpstream \/ CancelUnsubmitted \/ FailStaleUnsubmitted
    BY <1>5, <1>s, <1>u, Updates, StatusNames DEF CancelEnded, Turn, CancelUpstream,
          CancelUnsubmitted, FailStaleUnsubmitted, Query
  <1>6. CASE ReleaseFailedSubmit \/ ReleaseCancelled \/ ReleaseStale
    BY <1>6, <1>r DEF ReleaseFailedSubmit, ReleaseCancelled, ReleaseStale
  <1>7. CASE UpstreamEnds \/ MoveDue \/ RecoverStaleActive \/ LockLapses
    BY <1>7, <1>u DEF UpstreamEnds, MoveDue, RecoverStaleActive, LockLapses
  <1>8. ASSUME NEW a \in {Client, Owner, Sweep}, PutOnQueue(a) PROVE FrozenInv'
    BY <1>8, <1>u DEF PutOnQueue
  <1>9. ASSUME NEW w \in Workers,
               \/ ReserveJob(w) \/ TryLock(w) \/ RequeueConflict(w) \/ Requeue(w) \/ Ack(w)
               \/ Route(w) \/ Process(w) \/ Settle(w) \/ Recheck(w)
        PROVE  FrozenInv'
    BY <1>9, <1>u DEF ReserveJob, TryLock, RequeueConflict, Leave, Requeue, Ack, Route, Turn,
          Process, Decide, Settle, Recheck
  <1>10. ASSUME NEW w \in Workers,
                FollowProvider(w) \/ Index(w) \/ MarkSettled(w) \/ RecordSettlementFailure(w)
         PROVE  FrozenInv'
    BY <1>10, <1>s, <1>u, FollowStep, Updates, StatusNames DEF Index, Query, Turn, MarkSettled,
          RecordSettlementFailure
  <1>11. ASSUME NEW w \in Workers, ReleaseTerminal(w) \/ FailExhausted(w) PROVE FrozenInv'
    BY <1>11, <1>r, <1>s, GiveUpStep DEF ReleaseTerminal, FailExhausted, At
  <1>12. ASSUME NEW w \in Workers, CaptureHold(w) PROVE FrozenInv'
    <2>1. db'.hold = db.hold /\ db'.released = db.released
      BY <1>12, CaptureStep
    <2>2. \/ db'.captured = db.captured /\ db'.frozen = db.frozen
          \/ ~db.captured /\ db'.captured /\ db'.frozen = db.frozen - 1
      BY <1>12, CaptureStep
    <2> QED
      BY <1>t, <2>1, <2>2 DEF FrozenInv
  <1>13. ASSUME NEW a \in Actors, Stall(a) \/ Crash(a) PROVE FrozenInv'
    BY <1>13, <1>u DEF Stall, Crash
  <1>14. CASE UNCHANGED vars
    BY <1>14, <1>u DEF vars
  <1> QED
    BY <1>1, <1>2, <1>3, <1>4, <1>5, <1>6, <1>7, <1>8, <1>9, <1>10, <1>11, <1>12, <1>13,
       <1>14 DEF Next, ClientGoesOn, OwnerGoesOn, SweepGoesOn, WorkerGoesOn

\* What a step must do to settlements for PaidInv to last.
LEMMA PaidStep ==
  ASSUME PaidInv, Exhausted => Exhausted', gaps \subseteq gaps',
         db'.captured => db.captured \/ \E w \in Workers : pc[w] = "capture",
         db.status \in {"settling", "completed"} => Paid',
         db.status = "failed" => db'.status = "failed",
         \A w \in Workers :
           /\ pc'[w] = "capture" => pc[w] = "capture" \/ db'.status = "settling"
           /\ pc'[w] \in {"exhaust", "giveUp"} => pc[w] \in {"exhaust", "giveUp"} \/ Exhausted'
  PROVE  PaidInv'
  <1>1. Paid => Paid'
    BY DEF Paid
  <1>2. db'.status = "settling" => Paid'
    BY DEF Paid
  <1> QED
    BY <1>1, <1>2 DEF PaidInv

LEMMA NextPaid ==
  ASSUME TypeInv, ClientInv, JobInv, PaidInv, [Next]_vars
  PROVE  PaidInv'
  <1>t. /\ db.frozen \in Nat /\ db.named \in BOOLEAN /\ db.hold \in BOOLEAN /\ db.captured \in BOOLEAN
        /\ pc = [a \in Actors |-> pc[a]]
    BY Typed
  <1>g. gaps \subseteq gaps' /\ (Exhausted => Exhausted')
    BY GapsGrow, RetriesGrow
  <1>p. db'.status \in {"settling", "completed"} => Paid'
    BY DEF Paid
  <1> USE DEF At, GoTo, Fault, ClientInv, JobInv, GivenUp, SameJob, SameHold, Statuses, Terminal
  <1>1. CASE Submit
    BY <1>t, <1>g, <1>p, <1>1, PaidStep, Updates DEF Submit
  <1>2. CASE Reserve
    BY <1>t, <1>g, <1>p, <1>2, PaidStep, Updates DEF Reserve, Query
  <1>3. CASE InsufficientBalance
    BY <1>t, <1>g, <1>p, <1>3, PaidStep, Updates DEF InsufficientBalance, Turn
  <1>4. CASE RecordFailure
    BY <1>t, <1>g, <1>p, <1>4, PaidStep, Updates DEF RecordFailure, Query
  <1>5. CASE CreateItems
    BY <1>t, <1>g, <1>p, <1>5, PaidStep, Updates DEF CreateItems, Query
  <1>6. CASE StartUpload
    BY <1>t, <1>g, <1>p, <1>6, PaidStep, Updates DEF StartUpload, Query, Transition, CanTransition
  <1>7. CASE SubmitUpstream
    BY <1>t, <1>g, <1>p, <1>7, PaidStep, Updates DEF SubmitUpstream
  <1>8. CASE ReleaseFailedSubmit
    <2>1. CASE At(Client, "undo") /\ Release(Client, "refuse", "owed")
      BY <1>t, <1>g, <1>p, <2>1, PaidStep, ReleaseStep
    <2>2. CASE At(Client, "withdraw") /\ Release(Client, "done", "owed")
      BY <1>t, <1>g, <1>p, <2>2, PaidStep, ReleaseStep
    <2> QED
      BY <1>8, <2>1, <2>2 DEF ReleaseFailedSubmit
  <1>9. CASE RecordReleaseFailure
    BY <1>t, <1>g, <1>p, <1>9, PaidStep, Updates DEF RecordReleaseFailure, Query
  <1>10. CASE NameProviderJob
    BY <1>t, <1>g, <1>p, <1>10, PaidStep, NameStep DEF CanTransition
  <1>11. CASE AbortOrphan
    BY <1>t, <1>g, <1>p, <1>11, PaidStep, Updates DEF AbortOrphan, Stopped
  <1>12. ASSUME NEW a \in {Client, Owner, Sweep}, PutOnQueue(a) PROVE PaidInv'
    BY <1>t, <1>g, <1>p, <1>12, PaidStep, Updates DEF PutOnQueue, Enqueued
  <1>13. CASE Resubmit
    BY <1>t, <1>g, <1>p, <1>13, PaidStep, Updates DEF Resubmit, Turn, Visible
  <1>14. CASE CancelEnded
    BY <1>t, <1>g, <1>p, <1>14, PaidStep, Updates DEF CancelEnded, Turn, Visible
  <1>15. CASE CancelUpstream
    BY <1>t, <1>g, <1>p, <1>15, PaidStep, Updates DEF CancelUpstream, Visible, Stopped
  <1>16. CASE CancelUnsubmitted
    BY <1>t, <1>g, <1>p, <1>16, PaidStep, Updates DEF CancelUnsubmitted, Visible, Turn
  <1>17. CASE CancelJob
    BY <1>t, <1>g, <1>p, <1>17, PaidStep, CancelStep
  <1>18. CASE ReleaseCancelled
    BY <1>t, <1>g, <1>p, <1>18, PaidStep, ReleaseStep DEF ReleaseCancelled
  <1>19. CASE FailStaleUnsubmitted
    BY <1>t, <1>g, <1>p, <1>19, PaidStep, Updates DEF FailStaleUnsubmitted, Query, Unsubmitted
  <1>20. CASE ReleaseStale
    BY <1>t, <1>g, <1>p, <1>20, PaidStep, ReleaseStep DEF ReleaseStale
  <1>21. ASSUME NEW w \in Workers, ReserveJob(w) PROVE PaidInv'
    BY <1>t, <1>g, <1>p, <1>21, PaidStep, Updates DEF ReserveJob
  <1>22. ASSUME NEW w \in Workers, TryLock(w) PROVE PaidInv'
    BY <1>t, <1>g, <1>p, <1>22, PaidStep, Updates DEF TryLock
  <1>23. ASSUME NEW w \in Workers, RequeueConflict(w) PROVE PaidInv'
    BY <1>t, <1>g, <1>p, <1>23, PaidStep, Updates DEF RequeueConflict, Leave, Delayed
  <1>24. ASSUME NEW w \in Workers, Requeue(w) PROVE PaidInv'
    BY <1>t, <1>g, <1>p, <1>24, PaidStep, Updates DEF Requeue, Leave, Delayed
  <1>25. ASSUME NEW w \in Workers, Ack(w) PROVE PaidInv'
    BY <1>t, <1>g, <1>p, <1>25, PaidStep, Updates DEF Ack, Leave, Acked
  <1>26. ASSUME NEW w \in Workers, Route(w) PROVE PaidInv'
    BY <1>t, <1>g, <1>p, <1>26, PaidStep, Updates DEF Route, Turn
  <1>27. ASSUME NEW w \in Workers, Process(w) PROVE PaidInv'
    BY <1>t, <1>g, <1>p, <1>27, PaidStep, ProcessStep, ZenonT(40)
  <1>28. ASSUME NEW w \in Workers, FollowProvider(w) PROVE PaidInv'
    <2>1. SameHold(db') /\ \A v \in Workers : pc'[v] \in {"capture", "exhaust", "giveUp"} => pc'[v] = pc[v]
      BY <1>t, <1>28, FollowStep
    <2>2. db.status \in {"settling", "completed"} => Paid'
      BY <1>28, <1>p, FollowStep DEF Paid
    <2>3. db.status = "failed" => db'.status = "failed"
      BY <1>28, FollowStep
    <2> QED
      BY <1>g, <2>1, <2>2, <2>3, PaidStep
  <1>29. ASSUME NEW w \in Workers, Index(w) PROVE PaidInv'
    <2>1. ASSUME NEW excess \in BOOLEAN, At(w, "index"),
                 Query(w, db.status = "indexing", [db EXCEPT !.excess = excess],
                       "toSettling", "requeue", "toFailed")
          PROVE  PaidInv'
      <3>1. db' = db \/ db' = [db EXCEPT !.excess = excess]
        BY <2>1 DEF Query
      <3>2. SameJob(db') /\ SameHold(db')
        BY <3>1, ExcessUpdate
      <3> QED
        BY <1>t, <1>g, <1>p, <2>1, PaidStep, <3>2 DEF Query
    <2>2. CASE At(w, "index") /\ Turn(w, "toFailed")
      BY <1>t, <1>g, <1>p, <2>2, PaidStep DEF Turn
    <2> QED
      BY <1>29, <2>1, <2>2 DEF Index
  <1>30. ASSUME NEW w \in Workers, ReleaseTerminal(w) PROVE PaidInv'
    BY <1>t, <1>g, <1>p, <1>30, PaidStep, ReleaseStep DEF ReleaseTerminal
  <1>31. ASSUME NEW w \in Workers, Settle(w) PROVE PaidInv'
    <2>1. UNCHANGED db /\ \A v \in Workers \ {w} : pc'[v] = pc[v]
      BY <1>t, <1>31, SettleStep
    <2>2. /\ pc'[w] = "capture" => db.status = "settling"
          /\ pc'[w] \in {"exhaust", "giveUp"} => Exhausted
      BY <1>t, <1>31 DEF Settle, Decide
    <2>3. db.status \in {"settling", "completed"} => Paid'
      BY <1>p, <2>1
    <2> QED
      BY <1>g, <2>1, <2>2, <2>3, PaidStep
  <1>32. ASSUME NEW w \in Workers, CaptureHold(w) PROVE PaidInv'
    <2>1. SameJob(db') /\ pc[w] = "capture"
      BY <1>32, CaptureStep
    <2>2. \A v \in Workers : pc'[v] \in {"capture", "exhaust", "giveUp"} => pc'[v] = pc[v]
      BY <1>t, <1>32, CaptureStep
    <2> QED
      BY <1>g, <1>p, <2>1, <2>2, PaidStep
  <1>33. ASSUME NEW w \in Workers, MarkSettled(w) PROVE PaidInv'
    BY <1>t, <1>g, <1>p, <1>33, PaidStep, Updates DEF MarkSettled, Query
  <1>34. ASSUME NEW w \in Workers, RecordSettlementFailure(w) PROVE PaidInv'
    BY <1>t, <1>g, <1>p, <1>34, PaidStep, Updates DEF RecordSettlementFailure, Query, Exhausted
  <1>35. ASSUME NEW w \in Workers, Recheck(w) PROVE PaidInv'
    BY <1>t, <1>g, <1>p, <1>35, PaidStep, Updates DEF Recheck, Decide
  <1>36. ASSUME NEW w \in Workers, FailExhausted(w) PROVE PaidInv'
    <2>1. CASE At(w, "exhaust") /\ Release(w, "giveUp", "note")
      BY <1>t, <1>g, <1>p, <2>1, PaidStep, ReleaseStep
    <2>2. CASE At(w, "giveUp") /\ Transition(w, "failed", "ack", "requeue", "requeue")
      <3>1. SameHold(db') /\ \A v \in Workers : pc'[v] \in {"capture", "exhaust", "giveUp"} => pc'[v] = pc[v]
        BY <1>t, <2>2, GiveUpStep
      <3>2. db'.status \in {db.status, "failed"} /\ Exhausted'
        BY <1>g, <2>2, GiveUpStep DEF PaidInv
      <3>3. db.status \in {"settling", "completed"} => Paid'
        BY <3>2 DEF Paid
      <3> QED
        BY <1>g, <3>1, <3>2, <3>3, PaidStep
    <2> QED
      BY <1>36, <2>1, <2>2 DEF FailExhausted
  <1>37. CASE UpstreamEnds
    BY <1>t, <1>g, <1>p, <1>37, PaidStep, Updates DEF UpstreamEnds
  <1>38. CASE MoveDue
    BY <1>t, <1>g, <1>p, <1>38, PaidStep, Updates DEF MoveDue
  <1>39. CASE RecoverStaleActive
    BY <1>t, <1>g, <1>p, <1>39, PaidStep, Updates DEF RecoverStaleActive
  <1>40. CASE LockLapses
    BY <1>t, <1>g, <1>p, <1>40, PaidStep, Updates DEF LockLapses
  <1>41. ASSUME NEW a \in Actors, Stall(a) PROVE PaidInv'
    BY <1>t, <1>g, <1>p, <1>41, PaidStep, Updates DEF Stall
  <1>42. ASSUME NEW a \in Actors, Crash(a) PROVE PaidInv'
    BY <1>t, <1>g, <1>p, <1>42, PaidStep, Updates DEF Crash, Rests
  <1>43. CASE UNCHANGED vars
    <2>1. PaidInv' = PaidInv
      BY <1>43 DEF vars, PaidInv, Paid, Exhausted
    <2> QED
      BY <2>1
  <1> QED
    BY <1>1, <1>2, <1>3, <1>4, <1>5, <1>6, <1>7, <1>8, <1>9, <1>10, <1>11, <1>12, <1>13,
       <1>14, <1>15, <1>16, <1>17, <1>18, <1>19, <1>20, <1>21, <1>22, <1>23, <1>24, <1>25,
       <1>26, <1>27, <1>28, <1>29, <1>30, <1>31, <1>32, <1>33, <1>34, <1>35, <1>36, <1>37,
       <1>38, <1>39, <1>40, <1>41, <1>42, <1>43
       DEF Next, ClientGoesOn, OwnerGoesOn, SweepGoesOn, WorkerGoesOn

LEMMA NextInv == IInv /\ [Next]_vars => IInv'
  <1> SUFFICES ASSUME IInv, [Next]_vars PROVE IInv'
    OBVIOUS
  <1>1. TypeInv /\ ClientInv /\ JobInv /\ HoldInv /\ UpstreamInv
    BY DEF IInv, TypeInv
  <1>2. DbOK' /\ QueueOK' /\ RestOK'
    BY <1>1, NextDb, NextQueue, NextRest
  <1>3. ClientInv' /\ JobInv'
    BY <1>1, NextClient, NextJob
  <1>4. HoldInv' /\ UpstreamInv'
    BY <1>1, <1>3, NextHold, NextUpstream
  <1>5. (gaps \cap {"charge", "late"} # {} \/ ChargeInv)'
    <2>1. CASE "charge" \in gaps' \/ "late" \in gaps'
      BY <2>1
    <2>2. CASE "charge" \notin gaps' /\ "late" \notin gaps'
      <3>1. ChargeInv
        BY <1>1, <2>2, GapsGrow DEF IInv
      <3> QED
        BY <1>1, <2>2, <3>1, NextCharge
    <2> QED
      BY <2>1, <2>2
  <1>6. FrozenInv' /\ PaidInv'
    BY <1>1, NextFrozen, NextPaid DEF IInv
  <1> QED
    BY <1>2, <1>3, <1>4, <1>5, <1>6 DEF IInv

LEMMA Invariance == Spec => []IInv
  BY InitInv, NextInv, PTL DEF Spec

\* The job's row, the user's frozen balance and the job's place in the queue
\* stay what their columns and keys allow, for any number of faults.
THEOREM TypeCorrect == Spec => [](DbOK /\ QueueOK)
  <1>1. IInv => DbOK /\ QueueOK
    BY DEF IInv
  <1> QED
    BY <1>1, Invariance, PTL

\* However often captures and releases are repeated, by whichever workers,
\* owners and sweeps, one of them takes the job's hold out of the frozen
\* balance.  Both do only if a settlement is given up before or after its
\* capture took effect, or a late worker fails it; even then what is taken is
\* no more than one hold of another job.
THEOREM HoldEndsAtMostOnce == Spec => []HoldEndsOnce
  <1>1. ASSUME IInv PROVE HoldEndsOnce
    <2>1. gaps \cap {"charge", "late"} = {}
            => db.frozen = OtherHolds + (IF OpenHold THEN 1 ELSE 0)
      BY <1>1 DEF IInv, ChargeInv
    <2>2. db.captured \/ db.released = "real" => db.hold
      BY <1>1 DEF IInv, JobInv
    <2>3. db.frozen >= OtherHolds - 1
      BY <1>1, <2>2 DEF IInv, FrozenInv
    <2> QED
      BY <2>1, <2>3 DEF HoldEndsOnce
  <1> QED
    BY <1>1, Invariance, PTL

\* Whichever step fails or dies, an open hold stays on the queue, within the
\* sweep's reach or in somebody's hands, the exceptions being those of Lost.
THEOREM HoldRemembered == Spec => []HoldIsNotForgotten
  <1>1. IInv => HoldIsNotForgotten
    <2> SUFFICES ASSUME IInv, OpenHold
                 PROVE  \/ Queued \/ Unsubmitted
                        \/ \E a \in Actors : Handling(a)
                        \/ Lost
      BY DEF HoldIsNotForgotten
    <2>1. db.status # "none"
      BY DEF IInv, ClientInv, OpenHold
    <2>2. Unsubmitted \/ Followed
      BY <2>1 DEF IInv, HoldInv, Due
    <2>3. \A a \in Actors : Responsible(a) => Handling(a)
      BY DEF Responsible, Handling, At
    <2> QED
      BY <2>2, <2>3 DEF Followed
  <1> QED
    BY <1>1, Invariance, PTL

\* Nobody gives the hold back while the batch runs at the provider, unless
\* the submission is about to stop that batch: a cancellation decided blind
\* and a provider that did not answer are the only exceptions.
THEOREM RefundedStops == Spec => []RefundedIsStopped
  <1>1. IInv => RefundedIsStopped
    BY DEF IInv, UpstreamInv, Blind, RefundedIsStopped
  <1> QED
    BY <1>1, Invariance, PTL

\* A job that Settle completes was paid for.  A job that was paid for is never
\* cancelled, and it fails only after its settlement has used up MaxRetries
\* attempts or by a late worker, while it was settling.
THEOREM ChargedCompletes == Spec => []ChargedIffCompleted
  <1>1. IInv => ChargedIffCompleted
    BY DEF IInv, PaidInv, Paid, JobInv, ChargedIffCompleted
  <1> QED
    BY <1>1, Invariance, PTL
==============================================================================
