-------------------------- MODULE OAuthRefreshProofs --------------------------
(***************************************************************************)
(* Proofs about OAuthRefresh, for any set of attempts in any placement on  *)
(* processes, any durations that satisfy RefreshAssumption, and any number *)
(* of logins, rotations, requests and faults.                              *)
(***************************************************************************)
EXTENDS OAuthRefresh, TLAPS

-----------------------------------------------------------------------------
(* The inductive invariant.                                                *)

Rows   == Row \cup {NoRow}
Usable == [grant: 1..MaxGrants, gen: 1..MaxGen]  \* what a refresh may present
Tries  == [pc: Steps, kind: {"background", "request"}, mine: Rows, acct: Rows,
           age: Nat, tries: 0..MaxRetries, locked: BOOLEAN, out: Outcomes,
           late: BOOLEAN, cached: Cred \cup {None}]
Edits  == [pc: {"idle", "call", "reread", "write", "clear", "invalidate"},
           op: {"refresh", "reauth", "edit"}, acct: Rows, new: Cred \cup {None},
           grant: 1..MaxGrants]

\* The provider refused the token of attempt a.
Refused(a) == attempt[a].pc = "denied" \/
                (attempt[a].pc = "release" /\ attempt[a].out = "denied")
Denied(a)  == attempt[a].pc = "denied" \/
                (attempt[a].pc \in {"release", "done"} /\ attempt[a].out = "denied")
\* The administrator brings a token the row does not have yet.
Bringing  == admin.pc \in {"reread", "write"} /\ admin.op # "edit"

StoreOK ==
    /\ platform \in {"grok", "openai"}
    /\ live \in [1..MaxGrants -> 0..(MaxGen + 1)]
    /\ account \in Row /\ expiring \subseteq Usable /\ dropped \subseteq Cred
    /\ cache \in Cred \cup {None}

LockOK == lock = Free \/ lock \in [by: Attempts, age: 0..(LockTTL - 1)]

AttemptsOK ==
    /\ attempt \in [Attempts -> Tries]
    /\ \A a \in Attempts :
         /\ attempt[a].pc = "idle" => attempt[a] = Idle
         /\ attempt[a].pc = "lock" => attempt[a].age = 0
         /\ attempt[a].pc \in {"call", "answered"} => attempt[a].acct.cred \in Usable
         /\ Denied(a) => attempt[a].acct.cred \in Usable
         /\ attempt[a].pc = "durable" => attempt[a].out = "refreshed"

AdminOK ==
    /\ admin \in Edits
    /\ admin.pc # "idle" => admin.acct \in Row
    /\ Bringing => admin.new \in Cred
    /\ admin.pc = "call" => admin.op = "refresh"

RestOK ==
    /\ left \in [requests: Nat, faults: Nat]
    /\ gaps \subseteq {"lease", "manual", "late", "clobbered", "cache", "uncleared"}

TypeInv == StoreOK /\ LockOK /\ AttemptsOK /\ AdminOK /\ RestOK

\* A copy of the credentials is never ahead of the provider.
Known(c) == c \in Cred => c.gen <= live[c.grant]

KnownInv ==
    /\ Known(account.cred) /\ Known(admin.acct.cred)
    /\ \A a \in Attempts : Known(attempt[a].acct.cred) /\ Known(attempt[a].mine.cred)

\* A token the provider accepts and nobody has a copy of.
Fresh(c) ==
    /\ Live(c) /\ c # account.cred /\ c # admin.acct.cred
    /\ \A a \in Attempts : c # attempt[a].acct.cred /\ c # attempt[a].mine.cred

\* What the provider answered is in one hand until it is stored.
AnswerInv ==
    /\ \A a \in Attempts : attempt[a].pc = "answered" => Fresh(Successor(attempt[a].acct.cred))
    /\ \A a, b \in Attempts :
         /\ attempt[a].pc = "answered" /\ attempt[b].pc = "answered"
         /\ attempt[a].acct.cred = attempt[b].acct.cred
         => a = b
    /\ Bringing =>
         /\ Fresh(admin.new)
         /\ admin.op = "refresh" => admin.new.grant = admin.acct.cred.grant /\ "manual" \in gaps
         /\ \A a \in Attempts :
              attempt[a].pc = "answered" => admin.new # Successor(attempt[a].acct.cred)

\* Who works has the lock, as old as its work.
LeaseInv ==
    \A a \in Attempts : Working(a) =>
        /\ attempt[a].locked /\ lock.by = a
        /\ HasDeadline(a) => lock.age = attempt[a].age

\* The stored token is the provider's, or one answer away from it.
StoredInv ==
    \/ Live(account.cred)
    \/ account.cred \in dropped
    \/ \E a \in Attempts : attempt[a].pc = "answered"
                               /\ attempt[a].acct.cred = account.cred
    \/ Bringing /\ admin.op = "refresh" /\ admin.acct.cred = account.cred

\* The token was used up, and the answer is lost or will be dropped.
Spent(c) ==
    \/ c \in dropped
    \/ \E b \in Attempts : attempt[b].pc = "answered" /\ CtxDone(b)
                              /\ attempt[b].acct.cred = c

UsedInv ==
    \A a \in Attempts :
        /\ Working(a) /\ attempt[a].pc = "call" =>
             Live(attempt[a].acct.cred) \/ Spent(attempt[a].acct.cred)
        /\ Refused(a) => Spent(attempt[a].acct.cred)

\* A token once refused stays refused.
Dead(c)  == c.gen < live[c.grant]
DeadInv  == \A a \in Attempts : Denied(a) => Dead(attempt[a].acct.cred)

\* Attempt a may still store an answer.
Using(a) == Working(a) /\ (attempt[a].pc = "answered" \/
                             (attempt[a].pc = "call" /\ Live(attempt[a].acct.cred)))

InError   == account.status = "error" /\ admin.pc # "clear"
EditWrite == admin.pc = "write" /\ admin.op = "edit"

ErrorInv ==
    /\ InError => Dead(account.cred) /\ (\A a \in Attempts : ~Using(a))
    /\ \A a \in Attempts :
         Denied(a) /\ attempt[a].acct.cred = account.cred => \A b \in Attempts : ~Using(b)
    /\ \A a \in Attempts :
         /\ Denied(a) \/ (Working(a) /\ attempt[a].pc = "call")
         /\ EditWrite /\ admin.acct.cred = attempt[a].acct.cred
         => account.cred = admin.acct.cred
    /\ admin.pc = "write" /\ admin.acct.status = "error" => account.status = "error"
    /\ EditWrite /\ admin.acct.status = "error" => Dead(admin.acct.cred)

\* The gaps that QuarantineIsDeserved excepts.
Calm == gaps \cap {"lease", "manual", "uncleared"} = {} /\ ~(platform = "openai" /\ "late" \in gaps)

\* The login of the row, and of what is about to become the row.
GrantInv ==
    /\ account.cred.grant = admin.grant
    /\ admin.op = "refresh" /\ admin.pc \in {"call", "reread", "write"}
         => admin.acct.cred.grant = admin.grant

VersionInv == admin.pc \in {"call", "reread", "write"} => admin.acct.ver <= account.ver

\* Attempt a is going to empty or replace the cached token.
Current(r) == r.cred = account.cred /\ account.ver <= r.ver
Cleans(a) ==
    \/ attempt[a].pc \in {"durable", "invalidate"}
    \/ /\ attempt[a].pc \in {"release", "done"} /\ attempt[a].out = "refreshed"
       /\ attempt[a].kind = "background" \/ (platform = "openai" /\ Current(attempt[a].acct))
    \/ attempt[a].pc \in {"check", "set"} /\ Current(attempt[a].acct)

CacheInv ==
    /\ \A a \in Attempts : attempt[a].pc = "set" =>
         attempt[a].late \/ account.ver <= attempt[a].acct.ver
    /\ \/ cache \in {None, account.cred}
       \/ admin.pc \in {"clear", "invalidate"}
       \/ \E a \in Attempts : Cleans(a)

IInv ==
    /\ TypeInv /\ KnownInv /\ AnswerInv /\ DeadInv /\ VersionInv
    /\ "lease" \in gaps \/ LeaseInv
    /\ "clobbered" \in gaps \/ StoredInv
    /\ gaps \cap {"lease", "manual", "clobbered"} # {} \/ UsedInv
    /\ Calm => ErrorInv
    /\ platform = "grok" /\ "clobbered" \notin gaps => GrantInv
    /\ gaps \cap {"cache", "clobbered"} # {} \/ CacheInv

-----------------------------------------------------------------------------
(* Facts every step needs.                                                 *)

LEMMA Constants ==
  /\ LockTTL \in Nat /\ LockTTL > 1 /\ AttemptTimeout \in Nat
  /\ GrokRequestTimeout \in Nat /\ GrokRequestTimeout > 0 /\ GrokRequestTimeout < LockTTL
  /\ LockSafetyMargin \in Nat /\ LockSafetyMargin > 0
  /\ MaxRetries \in Nat /\ MaxRetries > 0 /\ MaxGrants \in Nat /\ MaxGrants > 0
  /\ MaxGen \in Nat /\ MaxRequests \in Nat /\ MaxFaults \in Nat
  /\ "nobody" \notin Attempts
  BY RefreshAssumption

USE Constants

\* A deadline leaves the lock its last moment: clampRefreshAttemptToLockLease.
LEMMA DeadlineBound ==
  ASSUME NEW a
  PROVE  Deadline(a) \in Int /\ Deadline(a) < LockTTL
  <1>1. LockTTL \div 10 \in Int
    OBVIOUS
  <1> DEFINE tenth  == LockTTL \div 10
             margin == CASE tenth > LockSafetyMargin -> LockSafetyMargin
                         [] tenth = 0                -> 1
                         [] OTHER                    -> tenth
  <1>2. tenth >= 0
    OBVIOUS
  <1>3. margin \in Nat /\ margin > 0
    <2> HIDE DEF tenth
    <2> QED
      BY <1>1, <1>2 DEF tenth
  <1>4. clampRefreshAttemptToLockLease(AttemptTimeout, LockTTL)
          = IF AttemptTimeout > LockTTL - margin THEN LockTTL - margin ELSE AttemptTimeout
    BY DEF clampRefreshAttemptToLockLease
  <1> HIDE DEF margin
  <1>5. clampRefreshAttemptToLockLease(AttemptTimeout, LockTTL) \in Int
    BY <1>3, <1>4
  <1>6. clampRefreshAttemptToLockLease(AttemptTimeout, LockTTL) < LockTTL
    BY <1>3, <1>4
  <1> QED
    BY <1>5, <1>6 DEF Deadline

LEMMA IdleFields ==
  /\ Idle \in Tries /\ NoRow \in Rows /\ NoRow.cred = None /\ None \notin Cred
  /\ Idle.pc = "idle" /\ Idle.out = "none" /\ Idle.age = 0
  /\ Idle.acct = NoRow /\ Idle.mine = NoRow
  /\ \A p \in Steps : /\ [Idle EXCEPT !.pc = p] \in Tries /\ [Idle EXCEPT !.pc = p].pc = p
                      /\ [Idle EXCEPT !.pc = p].out = "none" /\ [Idle EXCEPT !.pc = p].age = 0
                      /\ [Idle EXCEPT !.pc = p].acct = NoRow /\ [Idle EXCEPT !.pc = p].mine = NoRow
  <1>1. NoRow \in Rows /\ NoRow.cred = None
    BY DEF Rows, NoRow
  <1>2. None \notin Cred
    BY DEF None, Cred
  <1>3. "idle" \in Steps /\ "none" \in Outcomes
    BY DEF Steps, Outcomes
  <1>4. /\ Idle.pc = "idle" /\ Idle.out = "none" /\ Idle.age = 0
        /\ Idle.acct = NoRow /\ Idle.mine = NoRow
    BY DEF Idle
  <1>5. Idle \in Tries
    <2> HIDE DEF NoRow, Rows
    <2> QED
      BY <1>1, <1>3 DEF Idle, Tries
  <1>6. ASSUME NEW p \in Steps
        PROVE  /\ [Idle EXCEPT !.pc = p].pc = p
               /\ [Idle EXCEPT !.pc = p].out = "none" /\ [Idle EXCEPT !.pc = p].age = 0
               /\ [Idle EXCEPT !.pc = p].acct = NoRow /\ [Idle EXCEPT !.pc = p].mine = NoRow
    BY DEF Idle
  <1>7. \A p \in Steps : [Idle EXCEPT !.pc = p] \in Tries
    BY <1>5 DEF Tries
  <1> QED
    BY <1>1, <1>2, <1>4, <1>5, <1>6, <1>7

-----------------------------------------------------------------------------
(* What an action does to the attempt that takes it.                       *)

Only(a) == \A b \in Attempts : b # a => attempt'[b] = attempt[b]

\* What the attempt knows of rows is left alone.
Keeps(a) ==
    /\ attempt'[a].kind = attempt[a].kind /\ attempt'[a].age = attempt[a].age
    /\ attempt'[a].locked = attempt[a].locked
    /\ attempt'[a].acct = attempt[a].acct /\ attempt'[a].mine = attempt[a].mine

LEMMA GoToFields ==
  ASSUME AttemptsOK, NEW a \in Attempts, NEW p, GoTo(a, p)
  PROVE  Only(a) /\ Keeps(a) /\ attempt'[a].pc = p /\ attempt'[a].out = attempt[a].out
  BY DEF AttemptsOK, GoTo, Becomes, Only, Keeps, Tries

LEMMA LeaveFields ==
  ASSUME AttemptsOK, NEW a \in Attempts, NEW o, Leave(a, o)
  PROVE  Only(a) /\ Keeps(a) /\ attempt'[a].pc = "release" /\ attempt'[a].out = o
  BY DEF AttemptsOK, Leave, Becomes, Only, Keeps, Tries

LEMMA BecomesIdle ==
  ASSUME AttemptsOK, NEW a \in Attempts, Becomes(a, Idle)
  PROVE  Only(a) /\ attempt'[a] = Idle
  BY DEF AttemptsOK, Becomes, Only

LEMMA StartStep ==
  ASSUME AttemptsOK, NEW a \in Attempts, StartBackground(a) \/ GetAccessToken(a)
  PROVE  /\ attempt[a].pc = "idle" /\ Only(a)
         /\ attempt'[a].pc \in {"lock", "check"} /\ attempt'[a].out = "none"
         /\ attempt'[a].acct \in {account, NoRow} /\ attempt'[a].mine \in {account, NoRow}
  <1>1. CASE StartBackground(a)
    BY <1>1 DEF StartBackground, Becomes, AttemptsOK, Only, Idle
  <1>2. CASE GetAccessToken(a)
    BY <1>2 DEF GetAccessToken, Becomes, AttemptsOK, Only, Idle
  <1> QED
    BY <1>1, <1>2

LEMMA AcquireStep ==
  ASSUME AttemptsOK, NEW a \in Attempts, AcquireRefreshLock(a)
  PROVE  /\ attempt[a].pc = "lock" /\ attempt[a].age = 0 /\ Only(a)
         /\ \/ /\ lock = Free /\ lock' = [by |-> a, age |-> 0] /\ gaps' = gaps
               /\ attempt'[a].pc = "read" /\ attempt'[a].locked
            \/ /\ lock' = lock /\ gaps' = gaps
               /\ attempt'[a].pc \in {"idle", "done"} /\ attempt'[a].out \in {"none", "held"}
            \/ /\ lock' = lock /\ gaps' = gaps \cup {"lease"}
               /\ attempt'[a].pc = "read"
         /\ attempt'[a] # Idle =>
              /\ attempt'[a].kind = attempt[a].kind /\ attempt'[a].age = 0
              /\ attempt'[a].acct = attempt[a].acct /\ attempt'[a].mine = attempt[a].mine
  <1>t. attempt \in [Attempts -> Tries] /\ attempt[a].pc = "lock" /\ attempt[a].age = 0
    BY DEF AcquireRefreshLock, AttemptsOK
  <1>1. CASE /\ lock = Free /\ lock' = [by |-> a, age |-> 0]
             /\ Becomes(a, [attempt[a] EXCEPT !.pc = "read", !.locked = TRUE])
             /\ UNCHANGED <<left, gaps>>
    BY <1>1, <1>t DEF Becomes, Only, Tries
  <1>2. CASE /\ Returns(a, [attempt[a] EXCEPT !.out = "held"])
             /\ UNCHANGED <<lock, left, gaps>>
    <2> DEFINE rec == [attempt[a] EXCEPT !.out = "held"]
    <2>1. CASE Becomes(a, Idle)
      BY <1>2, <1>t, <2>1, BecomesIdle, IdleFields
    <2>2. CASE Becomes(a, [rec EXCEPT !.pc = "done"])
      BY <1>2, <1>t, <2>2 DEF Becomes, Only, Tries
    <2> QED
      BY <1>2, <2>1, <2>2 DEF Returns
  <1>3. CASE gaps' = gaps \cup {"lease"} /\ GoTo(a, "read") /\ UNCHANGED lock
    BY <1>3, <1>t, GoToFields DEF Keeps
  <1> QED
    BY <1>1, <1>2, <1>3 DEF AcquireRefreshLock

LEMMA TimeoutStep ==
  ASSUME AttemptsOK, NEW a \in Attempts, LockTimesOut(a)
  PROVE  /\ attempt[a].pc = "lock" /\ Only(a) /\ Keeps(a)
         /\ attempt'[a].pc = "done" /\ attempt'[a].out = "failed"
  BY DEF LockTimesOut, Becomes, AttemptsOK, Only, Tries, Keeps

LEMMA RereadStep ==
  ASSUME AttemptsOK, NEW a \in Attempts, Reread(a)
  PROVE  /\ attempt[a].pc = "read" /\ Only(a)
         /\ attempt'[a].kind = attempt[a].kind /\ attempt'[a].age = attempt[a].age
         /\ attempt'[a].locked = attempt[a].locked /\ attempt'[a].mine = attempt[a].mine
         /\ attempt'[a].acct \in {attempt[a].acct, account}
         /\ \/ attempt'[a].pc = "release" /\ attempt'[a].out \in {"stop", "current"}
            \/ /\ attempt'[a].pc = "call" /\ attempt'[a].acct = account /\ ~CtxDone(a)
               /\ account.status = "active" /\ account.cred \in expiring
  <1>t. attempt \in [Attempts -> Tries] /\ attempt[a].pc = "read"
    BY DEF Reread, AttemptsOK
  <1> DEFINE fresh == [attempt[a] EXCEPT !.acct = account]
  <1>1. CASE Leave(a, "stop")
    BY <1>1, <1>t, LeaveFields DEF Keeps
  <1>2. CASE /\ ~CtxDone(a) /\ account.status = "active" /\ Expiring(account)
             /\ Becomes(a, [fresh EXCEPT !.pc = "call"])
    BY <1>2, <1>t DEF Becomes, Only, Tries, Expiring
  <1>3. CASE Becomes(a, [fresh EXCEPT !.pc = "release", !.out = "current"])
    BY <1>3, <1>t DEF Becomes, Only, Tries
  <1> QED
    BY <1>1, <1>2, <1>3 DEF Reread

LEMMA RefreshStep ==
  ASSUME AttemptsOK, NEW a \in Attempts, Refresh(a)
  PROVE  /\ attempt[a].pc = "call" /\ Only(a) /\ Keeps(a)
         /\ \/ /\ ~CtxDone(a) /\ Live(attempt[a].acct.cred) /\ Rotate(attempt[a].acct.cred)
               /\ \/ attempt'[a].pc = "answered" /\ dropped' = dropped
                  \/ /\ attempt'[a].pc = "release" /\ attempt'[a].out = "failed"
                     /\ dropped' = dropped \cup {attempt[a].acct.cred}
            \/ /\ ~CtxDone(a) /\ ~Live(attempt[a].acct.cred) /\ Denied(a)'
               /\ attempt'[a].pc \in {"denied", "release"}
               /\ live' = live /\ dropped' = dropped
            \/ /\ attempt'[a].pc = "release" /\ attempt'[a].out = "failed"
               /\ live' = live /\ dropped' = dropped
  <1> DEFINE c == attempt[a].acct.cred
  <1>1. CASE ~CtxDone(a) /\ Live(c) /\ Rotate(c) /\ GoTo(a, "answered") /\ dropped' = dropped
    BY <1>1, GoToFields DEF Refresh
  <1>2. CASE ~CtxDone(a) /\ ~Live(c) /\ GoTo(a, "denied") /\ UNCHANGED <<live, left, dropped>>
    BY <1>2, GoToFields DEF Refresh, Denied
  <1>3. CASE ~CtxDone(a) /\ ~Live(c) /\ Leave(a, "denied") /\ UNCHANGED <<live, left, dropped>>
    BY <1>3, LeaveFields DEF Refresh, Denied
  <1>4. CASE Leave(a, "failed") /\ UNCHANGED <<live, dropped>>
    BY <1>4, LeaveFields DEF Refresh
  <1>5. CASE /\ ~CtxDone(a) /\ Live(c) /\ Rotate(c)
             /\ dropped' = dropped \cup {c} /\ Leave(a, "failed")
    BY <1>5, LeaveFields DEF Refresh
  <1> QED
    BY <1>1, <1>2, <1>3, <1>4, <1>5 DEF Refresh

LEMMA PersistStep ==
  ASSUME AttemptsOK, NEW a \in Attempts, Persist(a)
  PROVE  /\ attempt[a].pc = "answered"
         /\ \A b \in Attempts : b # a =>
              attempt'[b] \in {attempt[b], [attempt[b] EXCEPT !.late = TRUE]}
         /\ attempt'[a].kind = attempt[a].kind /\ attempt'[a].age = attempt[a].age
         /\ attempt'[a].mine = attempt[a].mine /\ attempt'[a].pc \in {"durable", "release"}
         /\ \/ /\ account' = account /\ attempt'[a].acct \in {attempt[a].acct, account}
               /\ attempt'[a].pc = "release" /\ attempt'[a].out \in {"failed", "stop", "current"}
               /\ dropped' = dropped \cup {attempt[a].acct.cred} /\ gaps' = gaps /\ Only(a)
            \/ /\ ~CtxDone(a) /\ dropped' = dropped
               /\ platform = "grok" => account.cred = attempt[a].acct.cred
               /\ account' = [account EXCEPT !.cred = Successor(attempt[a].acct.cred),
                                             !.ver = account.ver + 1]
               /\ \/ /\ gaps' = gaps \cup {"cache"} /\ Only(a)
                     /\ attempt'[a].acct = attempt[a].acct
                     /\ attempt'[a].pc = "release" /\ attempt'[a].out \in {"failed", "stop"}
                  \/ /\ gaps' = gaps /\ attempt'[a].acct = account'
                     /\ attempt'[a].out = "refreshed"
                     /\ attempt'[a].pc = IF platform = "grok" THEN "durable" ELSE "release"
                     /\ \A b \in Attempts : b # a /\ attempt[b].pc = "set" => attempt'[b].late
  <1> DEFINE c == attempt[a].acct.cred
             row == [account EXCEPT !.cred = Successor(c), !.ver = account.ver + 1]
             miss == platform = "grok" /\ CredentialsChanged(a)
  <1>r. ~miss => (platform = "grok" => account.cred = c)
    BY DEF CredentialsChanged
  <1>t. attempt \in [Attempts -> Tries] /\ attempt[a] \in Tries /\ attempt[a].pc = "answered"
    BY DEF AttemptsOK, Persist
  <1>1. CASE CtxDone(a) /\ Leave(a, "failed") /\ dropped' = dropped \cup {c}
             /\ UNCHANGED <<account, left, gaps>>
    BY <1>1, <1>t DEF Leave, Becomes, Only, Tries
  <1>2. CASE Leave(a, IF platform = "grok" THEN "stop" ELSE "failed")
             /\ dropped' = dropped \cup {c} /\ UNCHANGED <<account, gaps>>
    BY <1>2, <1>t DEF Leave, Becomes, Only, Tries
  <1>3. CASE /\ Leave(a, IF platform = "grok" THEN "stop" ELSE "failed") /\ ~CtxDone(a)
             /\ ~miss /\ account' = row /\ gaps' = gaps \cup {"cache"} /\ UNCHANGED dropped
    BY <1>3, <1>t, <1>r DEF Leave, Becomes, Only, Tries
  <1>4. CASE /\ Becomes(a, [attempt[a] EXCEPT !.pc = "release", !.out = "current",
                                              !.acct = account])
             /\ dropped' = dropped \cup {c} /\ UNCHANGED <<account, left, gaps>>
    BY <1>4, <1>t DEF Becomes, Only, Tries
  <1>5. CASE /\ ~CtxDone(a) /\ ~miss /\ account' = row
             /\ attempt' = [Outdated(attempt) EXCEPT ![a] =
                   [attempt[a] EXCEPT !.acct = row, !.out = "refreshed",
                      !.pc = IF platform = "grok" THEN "durable" ELSE "release"]]
             /\ UNCHANGED <<left, dropped, gaps>>
    <2> HIDE DEF row, miss
    <2>1. /\ attempt'[a].kind = attempt[a].kind /\ attempt'[a].age = attempt[a].age
          /\ attempt'[a].mine = attempt[a].mine /\ attempt'[a].acct = row
          /\ attempt'[a].out = "refreshed"
          /\ attempt'[a].pc = IF platform = "grok" THEN "durable" ELSE "release"
      BY <1>5, <1>t DEF Outdated, Tries
    <2>2. \A b \in Attempts : b # a =>
            /\ attempt'[b] \in {attempt[b], [attempt[b] EXCEPT !.late = TRUE]}
            /\ attempt[b].pc = "set" => attempt'[b].late
      BY <1>5, <1>t DEF Outdated, Tries
    <2> QED
      BY <2>1, <2>2, <1>5, <1>t, <1>r DEF row
  <1> QED
    BY <1>1, <1>2, <1>3, <1>4, <1>5 DEF Persist

LEMMA DurableStep ==
  ASSUME AttemptsOK, NEW a \in Attempts, LoadDurable(a)
  PROVE  /\ attempt[a].pc = "durable" /\ Only(a) /\ attempt'[a].pc = "release"
         /\ attempt'[a].kind = attempt[a].kind /\ attempt'[a].mine = attempt[a].mine
         /\ \/ /\ cache' = None /\ gaps' = gaps /\ attempt'[a].acct = account
               /\ attempt'[a].out = attempt[a].out
            \/ /\ cache' = cache /\ gaps' = gaps \cup {"cache"}
               /\ attempt'[a].acct = attempt[a].acct /\ attempt'[a].out = "stop"
  <1>t. attempt \in [Attempts -> Tries]
    BY DEF AttemptsOK
  <1>u. attempt[a].pc = "durable"
    BY DEF LoadDurable
  <1>1. CASE gaps' = gaps \cup {"cache"} /\ Leave(a, "stop") /\ UNCHANGED cache
    BY <1>1, <1>u, LeaveFields DEF Keeps
  <1>2. CASE /\ cache' = None /\ UNCHANGED <<left, gaps>>
             /\ Becomes(a, [attempt[a] EXCEPT !.pc = "release", !.acct = account])
    BY <1>2, <1>u, <1>t DEF Becomes, Only, Tries
  <1> QED
    BY <1>1, <1>2 DEF LoadDurable

LEMMA RecoverStep ==
  ASSUME AttemptsOK, NEW a \in Attempts, tryRecoverFromRefreshRace(a)
  PROVE  /\ attempt[a].pc = "denied" /\ Only(a) /\ attempt'[a].pc = "release"
         /\ attempt'[a].kind = attempt[a].kind /\ attempt'[a].mine = attempt[a].mine
         /\ \/ attempt'[a].out \in {"failed", "denied"} /\ attempt'[a].acct = attempt[a].acct
            \/ attempt'[a].out = "current" /\ attempt'[a].acct = account
  <1>t. attempt \in [Attempts -> Tries]
    BY DEF AttemptsOK
  <1>1. CASE Leave(a, "failed") \/ Leave(a, "denied")
    BY <1>1, LeaveFields DEF tryRecoverFromRefreshRace, Keeps
  <1>2. CASE Becomes(a, [attempt[a] EXCEPT !.pc = "release", !.out = "current",
                                           !.acct = account])
    BY <1>2, <1>t DEF tryRecoverFromRefreshRace, Becomes, Only, Tries
  <1> QED
    BY <1>1, <1>2 DEF tryRecoverFromRefreshRace

LEMMA ReleaseStep ==
  ASSUME AttemptsOK, NEW a \in Attempts, ReleaseRefreshLock(a)
  PROVE  /\ attempt[a].pc = "release" /\ Only(a)
         /\ \/ attempt'[a] = Idle /\ attempt[a].out \in {"current", "held", "stop"}
            \/ /\ attempt'[a].pc = "done" /\ attempt'[a].kind = attempt[a].kind
               /\ attempt'[a].out = attempt[a].out
               /\ attempt'[a].acct = attempt[a].acct /\ attempt'[a].mine = attempt[a].mine
         /\ lock' \in {lock, Free} /\ gaps \subseteq gaps' /\ gaps' \subseteq gaps \cup {"lease"}
         /\ lock' # lock /\ lock.by # a => "lease" \in gaps'
  BY DEF ReleaseRefreshLock, Returns, Becomes, AttemptsOK, Only, Tries

LEMMA PostStep ==
  ASSUME AttemptsOK, NEW a \in Attempts, postRefreshActions(a)
  PROVE  /\ attempt[a].pc = "done" /\ attempt[a].out = "refreshed" /\ Only(a)
         /\ attempt'[a] = [Idle EXCEPT !.pc = "invalidate"]
  BY DEF postRefreshActions, Done, Becomes, AttemptsOK, Only

LEMMA ErrorStep ==
  ASSUME AttemptsOK, NEW a \in Attempts, SetError(a)
  PROVE  /\ attempt[a].pc = "done" /\ attempt[a].out = "denied" /\ Denied(a) /\ Only(a)
         /\ \/ attempt'[a] = Idle /\ account' = account /\ gaps' = gaps
            \/ /\ attempt'[a] = [Idle EXCEPT !.pc = "invalidate"]
               /\ account' = [account EXCEPT !.status = "error"]
               /\ \/ account.cred = attempt[a].acct.cred /\ gaps' = gaps
                  \/ platform = "openai" /\ gaps' = gaps \cup {"late"}
  BY DEF SetError, Done, MayMark, CredentialsChanged, End, Becomes, AttemptsOK, Only, Denied

LEMMA RetryStep ==
  ASSUME AttemptsOK, NEW a \in Attempts, Retry(a)
  PROVE  /\ attempt[a].pc = "done" /\ attempt[a].out = "failed" /\ Only(a)
         /\ attempt'[a].pc = "lock" /\ attempt'[a].out = "none"
         /\ attempt'[a].acct = attempt[a].acct /\ attempt'[a].mine = attempt[a].mine
  BY DEF Retry, Done, Becomes, AttemptsOK, Only, Tries

LEMMA EndStep ==
  ASSUME AttemptsOK, NEW a \in Attempts,
         SetTempUnschedulable(a) \/ InvalidateToken(a) \/ SetAccessToken(a)
  PROVE  /\ Only(a) /\ attempt'[a] = Idle
         /\ \/ attempt[a].pc = "done" /\ attempt[a].out = "failed"
            \/ attempt[a].pc \in {"invalidate", "set"}
  BY DEF SetTempUnschedulable, InvalidateToken, SetAccessToken, Done, End, Becomes, AttemptsOK,
     Only

LEMMA AfterStep ==
  ASSUME AttemptsOK, NEW a \in Attempts, AfterRefresh(a)
  PROVE  /\ attempt[a].pc = "done" /\ attempt[a].kind = "request" /\ Only(a)
         /\ \/ attempt'[a] = Idle
            \/ /\ attempt'[a].pc = "check" /\ attempt'[a].out = "none"
               /\ attempt'[a].acct \in {attempt[a].acct, attempt[a].mine}
               /\ attempt'[a].mine = NoRow
            \/ /\ attempt'[a].pc = "wait" /\ attempt'[a].out = "none"
               /\ attempt'[a].acct = NoRow /\ attempt'[a].mine = attempt[a].mine
         /\ attempt[a].out = "refreshed" /\ platform = "openai" =>
              attempt'[a].pc = "check" /\ attempt'[a].acct = attempt[a].acct
  <1>t. attempt \in [Attempts -> Tries] /\ attempt[a].pc = "done" /\ attempt[a].kind = "request"
    BY DEF AfterRefresh, Done, AttemptsOK
  <1> DEFINE att == attempt[a]
  <1>1. CASE Becomes(a, Idle) /\ ~(att.out = "refreshed" /\ platform = "openai")
    BY <1>1, <1>t, BecomesIdle
  <1>2. CASE Becomes(a, [Idle EXCEPT !.pc = "check", !.acct = att.acct])
    BY <1>2, <1>t DEF Becomes, Only, Idle
  <1>3. CASE Becomes(a, [Idle EXCEPT !.pc = "check", !.acct = att.mine]) /\ att.out # "refreshed"
    BY <1>3, <1>t DEF Becomes, Only, Idle
  <1>4. CASE /\ att.out = "held"
             /\ Becomes(a, [Idle EXCEPT !.pc = "wait", !.kind = "request", !.mine = att.mine])
    BY <1>4, <1>t DEF Becomes, Only, Idle
  <1> QED
    BY <1>1, <1>2, <1>3, <1>4 DEF AfterRefresh, End

LEMMA WaitStep ==
  ASSUME AttemptsOK, NEW a \in Attempts, WaitCache(a) \/ WaitRow(a)
  PROVE  /\ attempt[a].pc \in {"wait", "waitRow"} /\ Only(a)
         /\ \/ attempt'[a] = Idle
            \/ /\ attempt'[a].pc \in {"wait", "waitRow"}
               /\ attempt'[a].out = attempt[a].out /\ Keeps(a)
            \/ /\ attempt'[a].pc = "set" /\ attempt'[a].out = "none" /\ WaitRow(a)
               /\ attempt'[a].acct = account /\ attempt'[a].mine = NoRow
  <1>t. /\ attempt \in [Attempts -> Tries] /\ attempt[a] \in Tries
        /\ attempt[a].pc \in {"wait", "waitRow"}
    BY DEF WaitCache, WaitRow, AttemptsOK
  <1>1. CASE Becomes(a, Idle)
    BY <1>1, <1>t, BecomesIdle
  <1>2. ASSUME NEW p \in {"wait", "waitRow"}, NEW c,
               Becomes(a, [attempt[a] EXCEPT !.pc = p, !.cached = c])
        PROVE  Only(a) /\ Keeps(a) /\ attempt'[a].pc = p /\ attempt'[a].out = attempt[a].out
    BY <1>2, <1>t DEF Becomes, Only, Keeps, Tries
  <1>3. CASE WaitRow(a) /\ Becomes(a, [Idle EXCEPT !.pc = "set", !.acct = account])
    BY <1>3, <1>t DEF Becomes, Only, Idle
  <1>4. \/ Becomes(a, Idle)
        \/ \E p \in {"wait", "waitRow"}, c \in {cache, None} :
             Becomes(a, [attempt[a] EXCEPT !.pc = p, !.cached = c])
        \/ WaitRow(a) /\ Becomes(a, [Idle EXCEPT !.pc = "set", !.acct = account])
    BY DEF WaitCache, WaitRow, End
  <1> QED
    BY <1>1, <1>2, <1>3, <1>4, <1>t

LEMMA CheckStep ==
  ASSUME AttemptsOK, NEW a \in Attempts, CheckTokenVersion(a)
  PROVE  /\ attempt[a].pc = "check" /\ Only(a)
         /\ \/ attempt'[a] = Idle /\ account.ver > attempt[a].acct.ver
            \/ /\ attempt'[a].pc = "set"
               /\ ~(account.ver > attempt[a].acct.ver) \/ "cache" \in gaps'
               /\ attempt'[a].acct = attempt[a].acct /\ attempt'[a].mine = attempt[a].mine
               /\ attempt'[a].out = attempt[a].out
  BY DEF CheckTokenVersion, GoTo, End, Becomes, AttemptsOK, Only, Tries

-----------------------------------------------------------------------------
(* Type correctness, variable by variable.                                 *)

LEMMA BecomesType ==
  ASSUME AttemptsOK, NEW a \in Attempts, NEW rec \in Tries, Becomes(a, rec),
         rec.pc = "idle" => rec = Idle,
         rec.pc = "lock" => rec.age = 0,
         rec.pc \in {"call", "answered", "denied"} => rec.acct.cred \in Usable,
         rec.pc \in {"release", "done"} /\ rec.out = "denied" => rec.acct.cred \in Usable,
         rec.pc = "durable" => rec.out = "refreshed"
  PROVE  AttemptsOK'
  <1>1. attempt' \in [Attempts -> Tries]
    BY DEF AttemptsOK, Becomes
  <1>2. attempt'[a] = rec /\ \A b \in Attempts : b # a => attempt'[b] = attempt[b]
    BY DEF AttemptsOK, Becomes
  <1> QED
    BY <1>1, <1>2 DEF AttemptsOK, Denied

LEMMA StepNames ==
  /\ Steps = {"idle", "lock", "read", "call", "answered", "denied", "durable",
              "release", "done", "invalidate", "check", "set", "wait", "waitRow"}
  /\ Outcomes = {"none", "refreshed", "current", "held", "denied", "failed", "stop"}
  BY DEF Steps, Outcomes

LEMMA GoToType ==
  ASSUME AttemptsOK, NEW a \in Attempts, NEW p \in Steps, GoTo(a, p),
         p \notin {"idle", "lock", "durable", "release", "done"},
         p \in {"call", "answered", "denied"} => attempt[a].acct.cred \in Usable
  PROVE  AttemptsOK'
  <1> DEFINE rec == [attempt[a] EXCEPT !.pc = p]
  <1>1. rec \in Tries /\ rec.pc = p /\ rec.acct = attempt[a].acct
    BY DEF AttemptsOK, Tries
  <1> HIDE DEF rec
  <1>2. Becomes(a, rec)
    BY DEF rec, GoTo
  <1> QED
    BY <1>1, <1>2, BecomesType

LEMMA LeaveType ==
  ASSUME AttemptsOK, NEW a \in Attempts, NEW o \in Outcomes, Leave(a, o),
         o = "denied" => attempt[a].acct.cred \in Usable
  PROVE  AttemptsOK'
  <1> DEFINE rec == [attempt[a] EXCEPT !.pc = "release", !.out = o]
  <1>0. attempt[a] \in Tries /\ "release" \in Steps
    BY StepNames DEF AttemptsOK
  <1>1. rec \in Tries /\ rec.pc = "release" /\ rec.out = o /\ rec.acct = attempt[a].acct
    BY <1>0 DEF Tries
  <1> HIDE DEF rec
  <1>2. Becomes(a, rec)
    BY DEF rec, Leave
  <1> QED
    BY <1>1, <1>2, BecomesType

LEMMA IdleType ==
  ASSUME AttemptsOK, NEW a \in Attempts,
         Becomes(a, Idle) \/ Becomes(a, [Idle EXCEPT !.pc = "invalidate"])
  PROVE  AttemptsOK'
  <1>1. CASE Becomes(a, Idle)
    <2>1. Idle \in Tries /\ Idle.pc = "idle"
      BY IdleFields
    <2> QED
      BY <1>1, <2>1, BecomesType
  <1>2. CASE Becomes(a, [Idle EXCEPT !.pc = "invalidate"])
    <2> DEFINE rec == [Idle EXCEPT !.pc = "invalidate"]
    <2>1. rec \in Tries /\ rec.pc = "invalidate"
      BY IdleFields, StepNames
    <2> HIDE DEF rec
    <2>2. Becomes(a, rec)
      BY <1>2 DEF rec
    <2> QED
      BY <2>1, <2>2, BecomesType
  <1> QED
    BY <1>1, <1>2

LEMMA CheckType ==
  ASSUME AttemptsOK, NEW a \in Attempts, NEW r \in Rows, NEW p \in {"check", "set"},
         Becomes(a, [Idle EXCEPT !.pc = p, !.acct = r])
  PROVE  AttemptsOK'
  <1> DEFINE checked == [Idle EXCEPT !.pc = p]
             rec     == [checked EXCEPT !.acct = r]
  <1>1. checked \in Tries /\ checked.pc = p
    BY IdleFields, StepNames
  <1>2. Becomes(a, rec)
    OBVIOUS
  <1> HIDE DEF checked
  <1>3. rec \in Tries /\ rec.pc = p
    BY <1>1 DEF Tries
  <1> HIDE DEF rec
  <1> QED
    BY <1>2, <1>3, BecomesType

\* The steps that copy a row into the attempt, or set several of its fields.
LEMMA CopyType ==
  ASSUME AttemptsOK, NEW a \in Attempts, NEW r \in Rows,
         \/ r.cred \in Usable /\ Becomes(a, [attempt[a] EXCEPT !.acct = r, !.pc = "call"])
         \/ \E p \in {"release", "durable"}, o \in {"current", "refreshed"} :
              /\ p = "durable" => o = "refreshed"
              /\ Becomes(a, [attempt[a] EXCEPT !.acct = r, !.pc = p, !.out = o])
         \/ /\ attempt[a].pc = "durable"
            /\ Becomes(a, [attempt[a] EXCEPT !.pc = "release", !.acct = r])
  PROVE  AttemptsOK'
  <1>t. attempt[a] \in Tries
    BY DEF AttemptsOK
  <1>1. CASE r.cred \in Usable /\ Becomes(a, [attempt[a] EXCEPT !.acct = r, !.pc = "call"])
    <2> DEFINE rec == [attempt[a] EXCEPT !.acct = r, !.pc = "call"]
    <2>1. rec \in Tries /\ rec.pc = "call" /\ rec.acct = r
      BY <1>t, StepNames DEF Tries
    <2> HIDE DEF rec
    <2>2. Becomes(a, rec)
      BY <1>1 DEF rec
    <2> QED
      BY <1>1, <2>1, <2>2, BecomesType
  <1>2. ASSUME NEW p \in {"release", "durable"}, NEW o \in {"current", "refreshed"},
               p = "durable" => o = "refreshed",
               Becomes(a, [attempt[a] EXCEPT !.acct = r, !.pc = p, !.out = o])
        PROVE  AttemptsOK'
    <2> DEFINE rec == [attempt[a] EXCEPT !.acct = r, !.pc = p, !.out = o]
    <2>1. rec \in Tries /\ rec.pc = p /\ rec.out = o
      BY <1>t, StepNames DEF Tries
    <2> HIDE DEF rec
    <2>2. Becomes(a, rec)
      BY <1>2 DEF rec
    <2> QED
      BY <1>2, <2>1, <2>2, BecomesType
  <1>3. CASE /\ attempt[a].pc = "durable"
             /\ Becomes(a, [attempt[a] EXCEPT !.pc = "release", !.acct = r])
    <2> DEFINE rec == [attempt[a] EXCEPT !.pc = "release", !.acct = r]
    <2>1. rec \in Tries /\ rec.pc = "release" /\ rec.out = attempt[a].out
      BY <1>t, StepNames DEF Tries
    <2>3. rec.out = "refreshed"
      BY <1>3, <2>1 DEF AttemptsOK
    <2> HIDE DEF rec
    <2>2. Becomes(a, rec)
      BY <1>3 DEF rec
    <2> QED
      BY <2>1, <2>2, <2>3, BecomesType
  <1> QED
    BY <1>1, <1>2, <1>3

LEMMA Successors ==
  ASSUME NEW c \in Usable
  PROVE  /\ c \in Cred /\ c # None /\ c.gen \in Nat /\ c.gen > 0 /\ c.gen <= MaxGen
         /\ c.grant \in 1..MaxGrants
         /\ Successor(c) \in Cred /\ Successor(c) # None
         /\ Successor(c).grant = c.grant /\ Successor(c).gen = c.gen + 1
  BY DEF Usable, Cred, Successor, None

LEMMA Creds ==
  ASSUME NEW c \in Cred
  PROVE  c # None /\ c.gen \in Nat /\ c.gen > 0 /\ c.grant \in 1..MaxGrants
         /\ (c.gen <= MaxGen => c \in Usable)
  BY DEF Usable, Cred, None

LEMMA RowFields ==
  ASSUME NEW r \in Row
  PROVE  /\ r \in Rows /\ r.cred \in Cred /\ r.ver \in Nat
         /\ r.status \in {"active", "error"} /\ r.temp \in BOOLEAN
  BY DEF Row, Rows

LEMMA RowsFields ==
  ASSUME NEW r \in Rows
  PROVE  r.cred \in Cred \cup {None} /\ r.ver \in Nat
  BY DEF Row, Rows, NoRow

LEMMA SetCred ==
  ASSUME NEW r \in Row, NEW c \in Cred, NEW n \in Nat
  PROVE  LET q == [r EXCEPT !.cred = c, !.ver = n] IN
         q \in Row /\ q.cred = c /\ q.ver = n /\ q.status = r.status
  BY DEF Row

LEMMA SetStatus ==
  ASSUME NEW r \in Row, NEW s \in {"active", "error"}
  PROVE  LET q == [r EXCEPT !.status = s] IN
         q \in Row /\ q.cred = r.cred /\ q.ver = r.ver /\ q.status = s
  BY DEF Row

LEMMA Temps ==
  ASSUME NEW r \in Row, NEW t \in BOOLEAN
  PROVE  /\ [r EXCEPT !.temp = t] \in Row /\ [r EXCEPT !.temp = t].status = r.status
         /\ [r EXCEPT !.temp = t].cred = r.cred /\ [r EXCEPT !.temp = t].ver = r.ver
         /\ [r EXCEPT !.status = "active", !.temp = t] \in Row
         /\ [r EXCEPT !.status = "active", !.temp = t].status = "active"
         /\ [r EXCEPT !.status = "active", !.temp = t].cred = r.cred
         /\ [r EXCEPT !.status = "active", !.temp = t].ver = r.ver
  BY DEF Row

LEMMA AttemptsNext ==
  ASSUME StoreOK, AttemptsOK, [Next]_vars
  PROVE  AttemptsOK'
  <1>1. CASE Expire \/ TempExpires \/ AdminCall \/ AdminReread
    BY <1>1 DEF Expire, AttemptsOK, Denied, TempExpires, AdminCall, AdminReread
  <1>2. CASE ClearAccountError \/ AdminInvalidate \/ AdminFails
    BY <1>2 DEF ClearAccountError, AttemptsOK, Denied, AdminInvalidate, AdminFails
  <1>3. ASSUME NEW op \in {"refresh", "reauth", "edit"},
               AdminStart(op)
        PROVE  AttemptsOK'
    BY <1>3 DEF AdminStart, AttemptsOK, Denied
  <1>4. CASE Tick
    <2>1. \A a \in Attempts : attempt'[a] = attempt[a] \/
            (Working(a) /\ HasDeadline(a) /\ attempt'[a] = [attempt[a] EXCEPT !.age = @ + 1])
      BY <1>4 DEF Tick
    <2>2. attempt' = [a \in Attempts |-> attempt'[a]]
      BY <1>4 DEF Tick
    <2>3. \A a \in Attempts : [attempt[a] EXCEPT !.age = @ + 1] \in Tries
      <3> SUFFICES ASSUME NEW a \in Attempts PROVE [attempt[a] EXCEPT !.age = @ + 1] \in Tries
        OBVIOUS
      <3>1. attempt[a] \in Tries /\ attempt[a].age + 1 \in Nat
        BY DEF AttemptsOK, Tries
      <3>2. \A n \in Nat : [attempt[a] EXCEPT !.age = n] \in Tries
        BY <3>1 DEF Tries
      <3> HIDE DEF Tries
      <3> QED
        BY <3>1, <3>2
    <2>4. \A a \in Attempts : attempt[a] \in Tries
      BY DEF AttemptsOK
    <2>5. attempt' \in [Attempts -> Tries]
      BY <2>1, <2>2, <2>3, <2>4
    <2>6. \A a \in Attempts :
            LET rec == [attempt[a] EXCEPT !.age = @ + 1] IN
            rec.pc = attempt[a].pc /\ rec.out = attempt[a].out /\ rec.acct = attempt[a].acct
      BY <2>4 DEF Tries
    <2>7. \A a \in Attempts : Working(a) => attempt[a].pc \in {"read", "call", "answered", "denied"}
      BY DEF Working, Refreshing
    <2> DEFINE Same(a) == /\ attempt'[a].pc = attempt[a].pc /\ attempt'[a].out = attempt[a].out
                          /\ attempt'[a].acct = attempt[a].acct
                          /\ attempt'[a] = attempt[a]
                               \/ attempt[a].pc \in {"read", "call", "answered", "denied"}
    <2>8. \A a \in Attempts : Same(a)
      BY <2>1, <2>6, <2>7
    <2> QED
      BY <2>5, <2>8 DEF AttemptsOK, Denied
  <1>5. ASSUME NEW a \in Attempts, StartBackground(a) PROVE AttemptsOK'
    <2> DEFINE base == [Idle EXCEPT !.pc = "lock"]
               rec  == [base EXCEPT !.acct = account, !.tries = 1]
    <2>2. Becomes(a, rec)
      BY <1>5 DEF StartBackground
    <2>3. base \in Tries /\ base.pc = "lock" /\ base.age = 0
      BY IdleFields, StepNames
    <2>4. account \in Rows
      BY RowFields DEF StoreOK
    <2> HIDE DEF base
    <2>5. 1 \in 0..MaxRetries
      OBVIOUS
    <2>6. \A r \in Rows, n \in 0..MaxRetries :
            LET b == [base EXCEPT !.acct = r, !.tries = n]
            IN  b \in Tries /\ b.pc = "lock" /\ b.age = 0
      BY <2>3 DEF Tries
    <2>1. rec \in Tries /\ rec.pc = "lock" /\ rec.age = 0
      BY <2>4, <2>5, <2>6
    <2> HIDE DEF rec
    <2> QED
      BY <2>1, <2>2, BecomesType
  <1>6. ASSUME NEW a \in Attempts, GetAccessToken(a) PROVE AttemptsOK'
    <2> DEFINE base == [Idle EXCEPT !.pc = "lock"]
               rec == [base EXCEPT !.kind = "request", !.mine = account]
    <2>1. account \in Rows
      BY RowFields DEF StoreOK
    <2>2. Becomes(a, rec) \/ Becomes(a, [Idle EXCEPT !.pc = "check", !.acct = account])
      BY <1>6 DEF GetAccessToken
    <2>6. base \in Tries /\ base.pc = "lock" /\ base.age = 0
      BY IdleFields, StepNames
    <2> HIDE DEF base
    <2>3. rec \in Tries /\ rec.pc = "lock" /\ rec.age = 0
      BY <2>1, <2>6 DEF Tries
    <2> HIDE DEF rec
    <2>4. CASE Becomes(a, rec)
      BY <2>3, <2>4, BecomesType
    <2>5. CASE Becomes(a, [Idle EXCEPT !.pc = "check", !.acct = account])
      BY <2>1, <2>5, CheckType
    <2> QED
      BY <2>2, <2>4, <2>5
  <1>7. ASSUME NEW a \in Attempts, AcquireRefreshLock(a) PROVE AttemptsOK'
    <2>t. attempt[a] \in Tries /\ attempt[a].pc = "lock"
      BY <1>7 DEF AcquireRefreshLock, AttemptsOK
    <2> DEFINE got  == [attempt[a] EXCEPT !.pc = "read", !.locked = TRUE]
               held == [attempt[a] EXCEPT !.out = "held"]
               rec  == [held EXCEPT !.pc = "done"]
    <2>1. got \in Tries /\ got.pc = "read"
      BY <2>t, StepNames DEF Tries
    <2>2. rec \in Tries /\ rec.pc = "done" /\ rec.out = "held"
      BY <2>t, StepNames DEF Tries
    <2>3. Becomes(a, got) \/ Becomes(a, Idle) \/ Becomes(a, rec) \/ GoTo(a, "read")
      BY <1>7 DEF AcquireRefreshLock, Returns
    <2> HIDE DEF got, rec
    <2>4. CASE Becomes(a, got)
      BY <2>1, <2>4, BecomesType
    <2>5. CASE Becomes(a, Idle)
      BY <2>5, IdleType
    <2>6. CASE Becomes(a, rec)
      BY <2>2, <2>6, BecomesType
    <2>7. CASE GoTo(a, "read")
      BY <2>7, GoToType, StepNames
    <2> QED
      BY <2>3, <2>4, <2>5, <2>6, <2>7
  <1>8. ASSUME NEW a \in Attempts, LockTimesOut(a) PROVE AttemptsOK'
    <2>t. attempt[a] \in Tries
      BY DEF AttemptsOK
    <2> DEFINE rec == [attempt[a] EXCEPT !.pc = "done", !.out = "failed"]
    <2>1. rec \in Tries /\ rec.pc = "done" /\ rec.out = "failed"
      BY <2>t, StepNames DEF Tries
    <2>2. Becomes(a, rec)
      BY <1>8 DEF LockTimesOut
    <2> HIDE DEF rec
    <2> QED
      BY <2>1, <2>2, BecomesType
  <1>9. ASSUME NEW a \in Attempts, Reread(a) PROVE AttemptsOK'
    <2>1. Leave(a, "stop")
          \/ (Expiring(account) /\ Becomes(a, [attempt[a] EXCEPT !.acct = account, !.pc = "call"]))
          \/ Becomes(a, [attempt[a] EXCEPT !.acct = account, !.pc = "release", !.out = "current"])
      BY <1>9 DEF Reread
    <2>2. account \in Rows
      BY RowFields DEF StoreOK
    <2>3. CASE Leave(a, "stop")
      BY <2>3, LeaveType, StepNames
    <2>4. CASE Expiring(account) /\ Becomes(a, [attempt[a] EXCEPT !.acct = account, !.pc = "call"])
      <3>1. account.cred \in Usable
        <4>1. expiring \subseteq Usable /\ account.cred \in expiring
          BY <2>4 DEF Expiring, StoreOK
        <4> QED
          BY <4>1
      <3> QED
        BY <2>2, <2>4, <3>1, CopyType
    <2>5. CASE Becomes(a, [attempt[a] EXCEPT !.acct = account, !.pc = "release", !.out = "current"])
      BY <2>2, <2>5, CopyType
    <2> QED
      BY <2>1, <2>3, <2>4, <2>5
  <1>10. ASSUME NEW a \in Attempts, Refresh(a) PROVE AttemptsOK'
    <2>1. attempt[a].acct.cred \in Usable
      BY <1>10 DEF Refresh, AttemptsOK
    <2>2. GoTo(a, "answered") \/ GoTo(a, "denied") \/ Leave(a, "denied") \/ Leave(a, "failed")
      BY <1>10 DEF Refresh
    <2>3. CASE GoTo(a, "answered") \/ GoTo(a, "denied")
      BY <2>1, <2>3, GoToType, StepNames
    <2>4. CASE Leave(a, "denied") \/ Leave(a, "failed")
      BY <2>1, <2>4, LeaveType, StepNames
    <2> QED
      BY <2>2, <2>3, <2>4
  <1>11. ASSUME NEW a \in Attempts, Persist(a) PROVE AttemptsOK'
    <2>t. attempt \in [Attempts -> Tries] /\ attempt[a] \in Tries /\ attempt[a].acct.cred \in Usable
      <3>1. attempt[a].pc = "answered"
        BY <1>11 DEF Persist
      <3> QED
        BY <3>1 DEF AttemptsOK
    <2> DEFINE row == [account EXCEPT !.cred = Successor(attempt[a].acct.cred),
                                      !.ver = account.ver + 1]
               rec == [attempt[a] EXCEPT !.acct = row, !.out = "refreshed",
                          !.pc = IF platform = "grok" THEN "durable" ELSE "release"]
    <2>1. row \in Rows /\ account \in Rows
      <3>1. Successor(attempt[a].acct.cred) \in Cred
        BY <2>t, Successors
      <3>2. account \in Row /\ account.ver + 1 \in Nat
        BY RowFields DEF StoreOK
      <3>3. row \in Row
        BY <3>1, <3>2, SetCred
      <3> QED
        BY <3>2, <3>3 DEF Rows
    <2>2. \/ Leave(a, "failed") \/ Leave(a, "stop")
          \/ Becomes(a, [attempt[a] EXCEPT !.pc = "release", !.out = "current", !.acct = account])
          \/ attempt' = [Outdated(attempt) EXCEPT ![a] = rec]
      BY <1>11 DEF Persist
    <2> HIDE DEF row
    <2>3. rec \in Tries /\ rec.out = "refreshed" /\ rec.pc \in {"durable", "release"}
      BY <2>t, <2>1, StepNames DEF Tries
    <2> HIDE DEF rec
    <2>4. CASE Leave(a, "failed") \/ Leave(a, "stop")
      BY <2>4, LeaveType, StepNames
    <2>5. CASE Becomes(a, [attempt[a] EXCEPT !.pc = "release", !.out = "current", !.acct = account])
      <3> DEFINE cur == [attempt[a] EXCEPT !.pc = "release", !.out = "current", !.acct = account]
      <3>1. cur \in Tries /\ cur.pc = "release" /\ cur.out = "current"
        BY <2>t, <2>1, StepNames DEF Tries
      <3> HIDE DEF cur
      <3>2. Becomes(a, cur)
        BY <2>5 DEF cur
      <3> QED
        BY <3>1, <3>2, BecomesType
    <2>6. CASE attempt' = [Outdated(attempt) EXCEPT ![a] = rec]
      <3>1. AttemptsOK /\ attempt'[a] = rec
        BY <2>6, <2>t DEF Outdated
      <3>2. /\ Outdated(attempt) \in [Attempts -> Tries]
            /\ \A b \in Attempts : Outdated(attempt)[b] = attempt[b] \/
                 (attempt[b].pc = "set" /\ Outdated(attempt)[b].pc = "set")
        BY <2>t DEF Outdated, Tries
      <3>3. attempt' \in [Attempts -> Tries]
        BY <2>6, <2>3, <3>2
      <3>4. \A b \in Attempts : b # a => attempt'[b] = Outdated(attempt)[b]
        BY <2>6, <3>2
      <3> QED
        BY <2>3, <3>1, <3>2, <3>3, <3>4 DEF AttemptsOK, Denied
    <2> QED
      BY <2>2, <2>4, <2>5, <2>6
  <1>12. ASSUME NEW a \in Attempts, LoadDurable(a) PROVE AttemptsOK'
    <2>1. account \in Rows /\ attempt[a].pc = "durable"
      BY <1>12, RowFields DEF StoreOK, LoadDurable
    <2>2. Leave(a, "stop") \/ Becomes(a, [attempt[a] EXCEPT !.pc = "release", !.acct = account])
      BY <1>12 DEF LoadDurable
    <2>3. CASE Leave(a, "stop")
      BY <2>3, LeaveType, StepNames
    <2>4. CASE Becomes(a, [attempt[a] EXCEPT !.pc = "release", !.acct = account])
      BY <2>1, <2>4, CopyType
    <2> QED
      BY <2>2, <2>3, <2>4
  <1>13. ASSUME NEW a \in Attempts, tryRecoverFromRefreshRace(a) PROVE AttemptsOK'
    <2>t. attempt[a] \in Tries /\ attempt[a].acct.cred \in Usable /\ account \in Rows
      BY <1>13, RowFields DEF tryRecoverFromRefreshRace, AttemptsOK, StoreOK, Denied
    <2> DEFINE rec == [attempt[a] EXCEPT !.pc = "release", !.out = "current", !.acct = account]
    <2>1. rec \in Tries /\ rec.pc = "release" /\ rec.out = "current"
      BY <2>t, StepNames DEF Tries
    <2>2. Leave(a, "failed") \/ Leave(a, "denied") \/ Becomes(a, rec)
      BY <1>13 DEF tryRecoverFromRefreshRace
    <2> HIDE DEF rec
    <2>3. CASE Leave(a, "failed") \/ Leave(a, "denied")
      BY <2>t, <2>3, LeaveType, StepNames
    <2>4. CASE Becomes(a, rec)
      BY <2>1, <2>4, BecomesType
    <2> QED
      BY <2>2, <2>3, <2>4
  <1>14. ASSUME NEW a \in Attempts, ReleaseRefreshLock(a) PROVE AttemptsOK'
    <2>t. attempt[a] \in Tries /\ attempt[a].pc = "release"
          /\ (attempt[a].out = "denied" => attempt[a].acct.cred \in Usable)
      BY <1>14 DEF ReleaseRefreshLock, AttemptsOK, Denied
    <2> DEFINE free == [attempt[a] EXCEPT !.locked = FALSE, !.age = 0]
               rec  == [free EXCEPT !.pc = "done"]
    <2>1. rec \in Tries /\ rec.pc = "done" /\ rec.out = attempt[a].out /\ rec.acct = attempt[a].acct
      BY <2>t, StepNames DEF Tries
    <2>2. Becomes(a, Idle) \/ Becomes(a, rec)
      BY <1>14 DEF ReleaseRefreshLock, Returns
    <2> HIDE DEF rec
    <2>3. CASE Becomes(a, Idle)
      BY <2>3, IdleType
    <2>4. CASE Becomes(a, rec)
      BY <2>t, <2>1, <2>4, BecomesType
    <2> QED
      BY <2>2, <2>3, <2>4
  <1>15. ASSUME NEW a \in Attempts, postRefreshActions(a) PROVE AttemptsOK'
    BY <1>15, IdleType DEF postRefreshActions, End
  <1>16. ASSUME NEW a \in Attempts, SetError(a) PROVE AttemptsOK'
    BY <1>16, IdleType DEF SetError, End
  <1>17. ASSUME NEW a \in Attempts, Retry(a) PROVE AttemptsOK'
    <2>t. attempt[a] \in Tries /\ attempt[a].tries + 1 \in 0..MaxRetries
      BY <1>17 DEF Retry, AttemptsOK, Tries
    <2> DEFINE n   == attempt[a].tries + 1
               rec == [attempt[a] EXCEPT !.pc = "lock", !.out = "none", !.age = 0, !.tries = n]
    <2>1. Becomes(a, rec)
      BY <1>17 DEF Retry
    <2> HIDE DEF n
    <2>2. rec \in Tries /\ rec.pc = "lock" /\ rec.age = 0
      <3>1. n \in 0..MaxRetries
        BY <2>t DEF n
      <3> QED
        BY <2>t, <3>1, StepNames DEF Tries
    <2> HIDE DEF rec
    <2> QED
      BY <2>1, <2>2, BecomesType
  <1>18. ASSUME NEW a \in Attempts, SetTempUnschedulable(a) PROVE AttemptsOK'
    BY <1>18, IdleType DEF SetTempUnschedulable, End
  <1>19. ASSUME NEW a \in Attempts, InvalidateToken(a) PROVE AttemptsOK'
    BY <1>19, IdleType DEF InvalidateToken, End
  <1>20. ASSUME NEW a \in Attempts, AfterRefresh(a) PROVE AttemptsOK'
    <2>1. attempt[a].acct \in Rows /\ attempt[a].mine \in Rows
      BY DEF AttemptsOK, Tries
    <2>2. \/ Becomes(a, Idle)
          \/ Becomes(a, [Idle EXCEPT !.pc = "check", !.acct = attempt[a].acct])
          \/ Becomes(a, [Idle EXCEPT !.pc = "check", !.acct = attempt[a].mine])
          \/ Becomes(a, [Idle EXCEPT !.pc = "wait", !.kind = "request", !.mine = attempt[a].mine])
      BY <1>20 DEF AfterRefresh, End
    <2>3. CASE Becomes(a, Idle)
      BY <2>3, IdleType
    <2>4. CASE Becomes(a, [Idle EXCEPT !.pc = "check", !.acct = attempt[a].acct])
      BY <2>1, <2>4, CheckType
    <2>5. CASE Becomes(a, [Idle EXCEPT !.pc = "check", !.acct = attempt[a].mine])
      BY <2>1, <2>5, CheckType
    <2>6. CASE Becomes(a, [Idle EXCEPT !.pc = "wait", !.kind = "request", !.mine = attempt[a].mine])
      <3> DEFINE base == [Idle EXCEPT !.pc = "wait"]
                 rec  == [base EXCEPT !.kind = "request", !.mine = attempt[a].mine]
      <3>1. base \in Tries /\ base.pc = "wait"
        BY IdleFields, StepNames
      <3>2. Becomes(a, rec)
        BY <2>6
      <3> HIDE DEF base
      <3>3. rec \in Tries /\ rec.pc = "wait"
        BY <2>1, <3>1 DEF Tries
      <3> HIDE DEF rec
      <3> QED
        BY <3>2, <3>3, BecomesType
    <2> QED
      BY <2>2, <2>3, <2>4, <2>5, <2>6
  <1>21. ASSUME NEW a \in Attempts, CheckTokenVersion(a) PROVE AttemptsOK'
    <2>1. Becomes(a, Idle) \/ GoTo(a, "set")
      BY <1>21 DEF CheckTokenVersion, End
    <2>2. CASE Becomes(a, Idle)
      BY <2>2, IdleType
    <2>3. CASE GoTo(a, "set")
      BY <2>3, GoToType, StepNames
    <2> QED
      BY <2>1, <2>2, <2>3
  <1>22. ASSUME NEW a \in Attempts, SetAccessToken(a) PROVE AttemptsOK'
    BY <1>22, IdleType DEF SetAccessToken, End
  <1>23. CASE UpdateAccount
    <2>t. attempt \in [Attempts -> Tries]
      BY DEF AttemptsOK
    <2>1. attempt' \in {attempt, Outdated(attempt)}
      BY <1>23 DEF UpdateAccount
    <2>2. /\ Outdated(attempt) \in [Attempts -> Tries]
          /\ \A b \in Attempts : Outdated(attempt)[b] = attempt[b] \/
               (attempt[b].pc = "set" /\ Outdated(attempt)[b].pc = "set")
      BY <2>t DEF Outdated, Tries
    <2> QED
      BY <2>1, <2>2 DEF AttemptsOK, Denied
  <1>24. CASE UNCHANGED vars
    BY <1>24 DEF vars, AttemptsOK, Denied
  <1>25. ASSUME NEW a \in Attempts, WaitCache(a) \/ WaitRow(a) PROVE AttemptsOK'
    <2>t. attempt[a] \in Tries /\ account \in Rows /\ {cache, None} \subseteq Cred \cup {None}
      BY RowFields DEF AttemptsOK, StoreOK
    <2>1. \/ Becomes(a, Idle)
          \/ \E p \in {"wait", "waitRow"}, c \in {cache, None} :
               Becomes(a, [attempt[a] EXCEPT !.pc = p, !.cached = c])
          \/ Becomes(a, [Idle EXCEPT !.pc = "set", !.acct = account])
      BY <1>25 DEF WaitCache, WaitRow, End
    <2>2. ASSUME NEW p \in {"wait", "waitRow"}, NEW c \in {cache, None},
                 Becomes(a, [attempt[a] EXCEPT !.pc = p, !.cached = c])
          PROVE  AttemptsOK'
      <3> DEFINE rec == [attempt[a] EXCEPT !.pc = p, !.cached = c]
      <3>1. rec \in Tries /\ rec.pc = p
        BY <2>t, StepNames DEF Tries
      <3> HIDE DEF rec
      <3>2. Becomes(a, rec)
        BY <2>2 DEF rec
      <3> QED
        BY <3>1, <3>2, BecomesType
    <2>3. CASE Becomes(a, Idle)
      BY <2>3, IdleType
    <2>4. CASE Becomes(a, [Idle EXCEPT !.pc = "set", !.acct = account])
      BY <2>t, <2>4, CheckType
    <2> QED
      BY <2>1, <2>2, <2>3, <2>4
  <1> QED
    BY <1>1, <1>2, <1>3, <1>4, <1>5, <1>6, <1>7, <1>8, <1>9, <1>10, <1>11, <1>12, <1>13,
       <1>14, <1>15, <1>16, <1>17, <1>18, <1>19, <1>20, <1>21, <1>22, <1>23, <1>24, <1>25
       DEF Next, Attempt, Admin

LEMMA RotateFields ==
  ASSUME StoreOK, NEW c \in Usable, Live(c), Rotate(c)
  PROVE  /\ live' \in [1..MaxGrants -> 0..(MaxGen + 1)]
         /\ live[c.grant] = c.gen /\ live'[c.grant] = c.gen + 1
         /\ \A g \in 1..MaxGrants : g # c.grant => live'[g] = live[g]
  <1>1. live[c.grant] = c.gen /\ c.grant \in 1..MaxGrants /\ c.gen + 1 \in 0..(MaxGen + 1)
    BY Successors DEF Live
  <1>2. live' = [live EXCEPT ![c.grant] = c.gen + 1]
    BY <1>1 DEF Rotate
  <1> QED
    BY <1>1, <1>2 DEF StoreOK

\* A login the provider has not seen, if the administrator brings one.
LEMMA AdminStartFields ==
  ASSUME StoreOK, AdminOK, NEW op \in {"refresh", "reauth", "edit"}, AdminStart(op)
  PROVE  /\ admin.pc = "idle" /\ admin'.op = op /\ admin'.acct = account
         /\ admin'.grant = admin.grant
         /\ \/ op = "reauth" /\ \E g \in 1..MaxGrants :
                 /\ live[g] = 0 /\ live' = [live EXCEPT ![g] = 1]
                 /\ admin'.pc = "reread" /\ admin'.new = [grant |-> g, gen |-> 1]
            \/ /\ op \in {"refresh", "edit"} /\ live' = live /\ admin'.new = None
               /\ admin'.pc = IF op = "refresh" THEN "call" ELSE "reread"
         /\ admin' \in Edits
  <1> DEFINE g == CHOOSE g \in 1..MaxGrants : live[g] = 0
             p == IF op = "refresh" THEN "call" ELSE "reread"
             n == IF op = "reauth" THEN [grant |-> g, gen |-> 1] ELSE None
  <1>1. op = "reauth" => g \in 1..MaxGrants /\ live[g] = 0
    BY DEF AdminStart
  <1>2. /\ live' = IF op = "reauth" THEN [live EXCEPT ![g] = 1] ELSE live
        /\ admin' = [admin EXCEPT !.op = op, !.acct = account, !.pc = p, !.new = n]
        /\ admin.pc = "idle"
    BY DEF AdminStart
  <1>3. n \in Cred \cup {None}
    BY <1>1 DEF Cred
  <1>4. admin \in Edits /\ account \in Rows
    BY RowFields DEF AdminOK, StoreOK
  <1> HIDE DEF n, g
  <1>5. /\ admin' \in Edits /\ admin'.op = op /\ admin'.acct = account /\ admin'.pc = p
        /\ admin'.new = n /\ admin'.grant = admin.grant
    BY <1>2, <1>3, <1>4 DEF Edits
  <1> QED
    BY <1>1, <1>2, <1>5 DEF n

LEMMA NoEditFields ==
  ASSUME NEW g \in 1..MaxGrants
  PROVE  LET e == [NoEdit EXCEPT !.grant = g] IN
         e \in Edits /\ e.pc = "idle" /\ e.op = "edit" /\ e.acct = NoRow /\ e.grant = g
  <1>1. NoRow \in Rows
    BY DEF Rows
  <1> QED
    BY <1>1 DEF NoEdit, Edits

LEMMA AdminCallFields ==
  ASSUME StoreOK, AdminOK, AdminCall
  PROVE  /\ admin.pc = "call" /\ admin.acct.cred \in Cred /\ admin' \in Edits
         /\ admin'.grant = admin.grant
         /\ \/ /\ Live(admin.acct.cred) /\ admin.acct.cred \in Usable
               /\ Rotate(admin.acct.cred) /\ gaps' = gaps \cup {"manual"}
               /\ admin'.pc = "reread" /\ admin'.op = admin.op /\ admin'.acct = admin.acct
               /\ admin'.new = Successor(admin.acct.cred)
            \/ /\ live' = live /\ gaps' = gaps
               /\ admin'.pc = "idle" /\ admin'.op = "edit" /\ admin'.acct = NoRow
  <1>1. admin.pc = "call" /\ admin \in Edits /\ admin.acct \in Row
    BY DEF AdminCall, AdminOK
  <1>2. admin.acct.cred \in Cred /\ admin.grant \in 1..MaxGrants
    BY <1>1, RowFields DEF Edits
  <1>3. CASE Live(admin.acct.cred) /\ admin.acct.cred.gen <= MaxGen
    <2> DEFINE n == Successor(admin.acct.cred)
    <2>1. admin.acct.cred \in Usable /\ n \in Cred
      BY <1>2, <1>3, Creds, Successors
    <2>2. admin' = [admin EXCEPT !.pc = "reread", !.new = n]
      BY <1>3 DEF AdminCall
    <2> HIDE DEF n
    <2>3. /\ admin' \in Edits /\ admin'.pc = "reread" /\ admin'.op = admin.op
          /\ admin'.acct = admin.acct /\ admin'.new = n /\ admin'.grant = admin.grant
      BY <1>1, <2>1, <2>2 DEF Edits
    <2> QED
      BY <1>1, <1>2, <1>3, <2>1, <2>3 DEF AdminCall, n
  <1>4. CASE ~(Live(admin.acct.cred) /\ admin.acct.cred.gen <= MaxGen)
    <2>1. admin' = [NoEdit EXCEPT !.grant = admin.grant] /\ UNCHANGED <<live, gaps>>
      BY <1>4 DEF AdminCall
    <2> QED
      BY <1>1, <1>2, <2>1, NoEditFields
  <1> QED
    BY <1>3, <1>4

LEMMA RereadFields ==
  ASSUME StoreOK, AdminOK, AdminReread
  PROVE  /\ admin.pc = "reread" /\ admin'.pc = "write" /\ admin'.op = admin.op
         /\ admin'.new = admin.new /\ admin'.grant = admin.grant
         /\ admin' \in Edits /\ admin'.acct \in Row /\ admin'.acct.status = account.status
         /\ IF admin.op = "edit" THEN admin'.acct = account
            ELSE admin'.acct.cred = admin.acct.cred /\ admin'.acct.ver = admin.acct.ver
  <1> DEFINE r == IF admin.op = "edit" THEN account
                  ELSE [admin.acct EXCEPT !.status = account.status]
  <1>1. admin.pc = "reread" /\ admin \in Edits /\ admin.acct \in Row /\ account \in Row
    BY DEF AdminReread, AdminOK, StoreOK
  <1>2. /\ r \in Row /\ r.status = account.status
        /\ IF admin.op = "edit" THEN r = account
           ELSE r.cred = admin.acct.cred /\ r.ver = admin.acct.ver
    BY <1>1, RowFields, SetStatus
  <1>3. admin' = [admin EXCEPT !.pc = "write", !.acct = r]
    BY DEF AdminReread
  <1> HIDE DEF r
  <1>4. r \in Rows
    BY <1>2 DEF Rows
  <1> QED
    BY <1>1, <1>2, <1>3, <1>4 DEF Edits

LEMMA UpdateFields ==
  ASSUME StoreOK, AdminOK, UpdateAccount
  PROVE  LET cred == IF admin.op = "edit" THEN admin.acct.cred ELSE admin.new IN
         /\ admin.pc = "write" /\ admin' \in Edits /\ cred \in Cred
         /\ admin'.pc # "idle" => admin'.acct = admin.acct
         /\ account' \in Row /\ account'.cred = cred /\ account'.ver = admin.acct.ver
         /\ account'.status = admin.acct.status
         /\ admin'.grant = IF admin.op = "reauth" THEN cred.grant ELSE admin.grant
         /\ admin.op = "edit" => admin'.pc = "idle" /\ admin'.op = "edit" /\ admin'.acct = NoRow
         /\ admin.op = "refresh" => admin'.pc = "invalidate" /\ admin'.acct = admin.acct
         /\ admin.op = "reauth" => admin'.pc = "clear" /\ admin'.acct = admin.acct
         /\ admin.op = "edit" /\ cred # account.cred => "clobbered" \in gaps'
  <1> DEFINE cred == IF admin.op = "edit" THEN admin.acct.cred ELSE admin.new
  <1>1. admin.pc = "write" /\ admin \in Edits /\ admin.acct \in Row /\ account \in Row
    BY DEF UpdateAccount, AdminOK, StoreOK
  <1>2. /\ cred \in Cred /\ admin.grant \in 1..MaxGrants /\ cred.grant \in 1..MaxGrants
        /\ admin.acct.ver \in Nat /\ admin.acct.status \in {"active", "error"}
    BY <1>1, RowFields, Creds DEF AdminOK, Bringing, Edits
  <1>3. account' = [account EXCEPT !.cred = cred, !.ver = admin.acct.ver,
                                   !.status = admin.acct.status]
    BY DEF UpdateAccount
  <1>4. /\ account' \in Row /\ account'.cred = cred /\ account'.ver = admin.acct.ver
        /\ account'.status = admin.acct.status
    <2> DEFINE n == admin.acct.ver
               s == admin.acct.status
    <2>1. n \in Nat /\ s \in {"active", "error"} /\ cred \in Cred /\ account \in Row
      BY <1>1, <1>2
    <2>2. account' = [account EXCEPT !.cred = cred, !.ver = n, !.status = s]
      BY <1>3
    <2> HIDE DEF cred, n, s
    <2>3. account' \in Row /\ account'.cred = cred /\ account'.ver = n /\ account'.status = s
      BY <2>1, <2>2 DEF Row
    <2> QED
      BY <2>3 DEF n, s
  <1>5. admin.op = "edit" /\ cred # account.cred => "clobbered" \in gaps'
    BY DEF UpdateAccount
  <1> HIDE DEF cred
  <1>6. CASE admin.op = "edit"
    <2>1. admin' = [NoEdit EXCEPT !.grant = admin.grant]
      BY <1>6 DEF UpdateAccount
    <2> QED
      BY <1>1, <1>2, <1>4, <1>5, <1>6, <2>1, NoEditFields DEF cred
  <1>7. CASE admin.op = "refresh"
    <2>1. admin' = [admin EXCEPT !.pc = "invalidate"]
      BY <1>7 DEF UpdateAccount
    <2>2. admin' \in Edits /\ admin'.pc = "invalidate" /\ admin'.acct = admin.acct
          /\ admin'.grant = admin.grant
      BY <1>1, <2>1 DEF Edits
    <2> QED
      BY <1>1, <1>2, <1>4, <1>5, <1>7, <2>2 DEF cred
  <1>8. CASE admin.op = "reauth"
    <2>1. admin' = [admin EXCEPT !.pc = "clear", !.grant = cred.grant]
      BY <1>8 DEF UpdateAccount, cred
    <2>2. admin' \in Edits /\ admin'.pc = "clear" /\ admin'.acct = admin.acct
          /\ admin'.grant = cred.grant
      BY <1>1, <1>2, <2>1 DEF Edits
    <2> QED
      BY <1>1, <1>2, <1>4, <1>5, <1>8, <2>2 DEF cred
  <1> QED
    BY <1>1, <1>6, <1>7, <1>8 DEF Edits

\* The last statements of the administrator.
LEMMA ClosingFields ==
  ASSUME AdminOK, ClearAccountError \/ AdminInvalidate
  PROVE  /\ admin' \in Edits /\ admin'.grant = admin.grant
         /\ \/ /\ ClearAccountError /\ admin.pc = "clear" /\ admin'.pc = "invalidate"
               /\ admin'.acct = admin.acct /\ admin'.op = admin.op
            \/ /\ AdminInvalidate /\ admin.pc = "invalidate" /\ admin'.pc = "idle"
               /\ admin'.op = "edit" /\ admin'.acct = NoRow
  <1>1. admin \in Edits /\ admin.grant \in 1..MaxGrants
    BY DEF AdminOK, Edits
  <1>2. CASE ClearAccountError
    BY <1>1, <1>2 DEF ClearAccountError, Edits
  <1>3. CASE AdminInvalidate
    BY <1>1, <1>3, NoEditFields DEF AdminInvalidate
  <1> QED
    BY <1>2, <1>3

\* The administrator gives up: UpdateAccount failed.
LEMMA FailsFields ==
  ASSUME AdminOK, AdminFails
  PROVE  /\ admin.pc \in {"reread", "write"} /\ admin.acct \in Row
         /\ admin' \in Edits /\ admin'.grant = admin.grant /\ admin'.pc = "idle"
         /\ admin'.op = "edit" /\ admin'.acct = NoRow
         /\ UNCHANGED <<platform, account, live, expiring, lock, cache, attempt, gaps>>
  <1>1. /\ admin.pc \in {"reread", "write"} /\ admin' = [NoEdit EXCEPT !.grant = admin.grant]
        /\ UNCHANGED <<platform, account, live, expiring, lock, cache, attempt, gaps>>
    BY DEF AdminFails
  <1>2. admin \in Edits /\ admin.grant \in 1..MaxGrants /\ admin.acct \in Row
    BY <1>1 DEF AdminOK, Edits
  <1> QED
    BY <1>1, <1>2, NoEditFields

LEMMA StoreNext ==
  ASSUME StoreOK, AttemptsOK, AdminOK, [Next]_vars
  PROVE  StoreOK'
  <1>1. CASE Tick \/ AdminReread \/ AdminInvalidate
    BY <1>1 DEF Tick, StoreOK, AdminReread, AdminInvalidate
  <1>2. ASSUME NEW a \in Attempts,
               \/ StartBackground(a) \/ GetAccessToken(a) \/ AcquireRefreshLock(a)
               \/ LockTimesOut(a) \/ Reread(a)
        PROVE  StoreOK'
    BY <1>2 DEF StartBackground, StoreOK, GetAccessToken, AcquireRefreshLock, LockTimesOut,
       Reread
  <1>3. ASSUME NEW a \in Attempts,
               \/ LoadDurable(a) \/ tryRecoverFromRefreshRace(a)
               \/ ReleaseRefreshLock(a) \/ Retry(a) \/ InvalidateToken(a)
        PROVE  StoreOK'
    BY <1>3 DEF LoadDurable, StoreOK, tryRecoverFromRefreshRace, ReleaseRefreshLock, Retry,
       InvalidateToken
  <1>4. ASSUME NEW a \in Attempts,
               AfterRefresh(a) \/ CheckTokenVersion(a)
        PROVE  StoreOK'
    BY <1>4 DEF AfterRefresh, StoreOK, CheckTokenVersion
  <1>5. CASE Expire
    <2>1. account.cred \in Usable
      BY <1>5, Creds, RowFields DEF Expire, StoreOK
    <2> QED
      BY <1>5, <2>1 DEF Expire, StoreOK
  <1>6. CASE TempExpires
    <2>1. account' \in Row
      BY <1>6, Temps DEF TempExpires, StoreOK
    <2> QED
      BY <1>6, <2>1 DEF TempExpires, StoreOK
  <1>7. ASSUME NEW a \in Attempts, Refresh(a) PROVE StoreOK'
    <2> DEFINE c == attempt[a].acct.cred
    <2>1. c \in Usable
      BY <1>7 DEF Refresh, AttemptsOK
    <2>2. dropped' \in {dropped, dropped \cup {c}} /\ (live' = live \/ (Live(c) /\ Rotate(c)))
          /\ UNCHANGED <<platform, account, expiring, cache>>
      BY <1>7 DEF Refresh
    <2>3. live' \in [1..MaxGrants -> 0..(MaxGen + 1)]
      <3>1. live \in [1..MaxGrants -> 0..(MaxGen + 1)]
        BY DEF StoreOK
      <3> QED
        BY <2>1, <2>2, <3>1, RotateFields
    <2>4. dropped' \subseteq Cred
      BY <2>1, <2>2, Successors DEF StoreOK
    <2> QED
      BY <2>2, <2>3, <2>4 DEF StoreOK
  <1>8. ASSUME NEW a \in Attempts, Persist(a) PROVE StoreOK'
    <2> DEFINE c == attempt[a].acct.cred
    <2>1. c \in Usable
      <3>1. attempt[a].pc = "answered"
        BY <1>8 DEF Persist
      <3> QED
        BY <3>1 DEF AttemptsOK
    <2>2. dropped' \in {dropped, dropped \cup {c}}
          /\ account' \in {account, [account EXCEPT !.cred = Successor(c), !.ver = account.ver + 1]}
      BY <1>8, PersistStep
    <2>3. UNCHANGED <<platform, live, expiring, cache>>
      BY <1>8 DEF Persist
    <2>4. account' \in Row
      <3>1. account \in Row /\ account.ver + 1 \in Nat
        BY RowFields DEF StoreOK
      <3>2. Successor(c) \in Cred
        BY <2>1, Successors
      <3>3. [account EXCEPT !.cred = Successor(c), !.ver = account.ver + 1] \in Row
        BY <3>1, <3>2, SetCred
      <3> QED
        BY <2>2, <3>1, <3>3
    <2>5. dropped' \subseteq Cred
      BY <2>1, <2>2, Successors DEF StoreOK
    <2> QED
      BY <2>3, <2>4, <2>5 DEF StoreOK
  <1>9. ASSUME NEW a \in Attempts, postRefreshActions(a) PROVE StoreOK'
    <2>1. account.temp \in BOOLEAN
      BY RowFields DEF StoreOK
    <2>2. (account.temp /\ ~attempt[a].acct.temp) \in BOOLEAN
      OBVIOUS
    <2>3. account' \in Row
      BY <1>9, <2>2, Temps DEF postRefreshActions, StoreOK
    <2> QED
      BY <1>9, <2>3 DEF postRefreshActions, StoreOK
  <1>10. ASSUME NEW a \in Attempts, SetError(a) PROVE StoreOK'
    <2>1. account \in Row /\ "error" \in {"active", "error"}
      BY DEF StoreOK
    <2>2. \A s \in {"active", "error"} : [account EXCEPT !.status = s] \in Row
      BY <2>1, SetStatus
    <2>3. account' \in Row
      BY <1>10, <2>1, <2>2 DEF SetError
    <2> QED
      BY <1>10, <2>3 DEF SetError, StoreOK
  <1>11. ASSUME NEW a \in Attempts, SetTempUnschedulable(a) PROVE StoreOK'
    <2>1. account' \in Row
      BY <1>11, Temps DEF SetTempUnschedulable, StoreOK
    <2> QED
      BY <1>11, <2>1 DEF SetTempUnschedulable, StoreOK
  <1>12. ASSUME NEW a \in Attempts, SetAccessToken(a) PROVE StoreOK'
    <2>1. attempt[a].acct \in Rows
      BY DEF AttemptsOK, Tries
    <2>2. attempt[a].acct.cred \in Cred \cup {None}
      BY <2>1, RowsFields
    <2> QED
      BY <1>12, <2>2 DEF SetAccessToken, StoreOK
  <1>13. ASSUME NEW op \in {"refresh", "reauth", "edit"}, AdminStart(op) PROVE StoreOK'
    <2>1. UNCHANGED <<platform, account, expiring, cache, dropped>>
      BY <1>13 DEF AdminStart
    <2>2. live' = live \/ \E g \in 1..MaxGrants : live' = [live EXCEPT ![g] = 1]
      BY <1>13, AdminStartFields
    <2>3. live' \in [1..MaxGrants -> 0..(MaxGen + 1)]
      <3>1. 1 \in 0..(MaxGen + 1) /\ live \in [1..MaxGrants -> 0..(MaxGen + 1)]
        BY DEF StoreOK
      <3> QED
        BY <2>2, <3>1
    <2> QED
      BY <2>1, <2>3 DEF StoreOK
  <1>14. CASE AdminCall
    <2> DEFINE c == admin.acct.cred
    <2>1. UNCHANGED <<platform, account, expiring, cache, dropped>>
          /\ (live' = live \/ (Live(c) /\ c.gen <= MaxGen /\ Rotate(c)))
      BY <1>14 DEF AdminCall
    <2>2. c \in Cred
      BY <1>14, RowFields DEF AdminCall, AdminOK
    <2>3. live' \in [1..MaxGrants -> 0..(MaxGen + 1)]
      BY <2>1, <2>2, Creds, RotateFields DEF StoreOK
    <2> QED
      BY <2>1, <2>3 DEF StoreOK
  <1>15. CASE UpdateAccount
    <2>1. UNCHANGED <<platform, live, expiring, cache, dropped>>
      BY <1>15 DEF UpdateAccount
    <2>2. account' \in Row
      BY <1>15, UpdateFields
    <2> QED
      BY <2>1, <2>2 DEF StoreOK
  <1>16. CASE ClearAccountError
    <2>1. account' \in Row
      BY <1>16, Temps DEF ClearAccountError, StoreOK
    <2> QED
      BY <1>16, <2>1 DEF ClearAccountError, StoreOK
  <1>17. CASE UNCHANGED vars
    BY <1>17 DEF vars, StoreOK
  <1>18. ASSUME NEW a \in Attempts, WaitCache(a) \/ WaitRow(a) PROVE StoreOK'
    BY <1>18 DEF WaitCache, WaitRow, StoreOK
  <1>19. CASE AdminFails
    <2>1. /\ admin.acct.cred \in Cred /\ dropped' \in {dropped, dropped \cup {admin.acct.cred}}
          /\ UNCHANGED <<platform, account, live, expiring, cache>>
      BY <1>19, FailsFields, RowFields DEF AdminFails
    <2> QED
      BY <2>1 DEF StoreOK
  <1> QED
    BY <1>1, <1>2, <1>3, <1>4, <1>5, <1>6, <1>7, <1>8, <1>9, <1>10, <1>11, <1>12, <1>13,
       <1>14, <1>15, <1>16, <1>17, <1>18, <1>19 DEF Next, Attempt, Admin

LEMMA LockNext ==
  ASSUME LockOK, AttemptsOK, [Next]_vars
  PROVE  LockOK'
  <1>1. CASE \/ Expire \/ TempExpires \/ AdminCall \/ AdminReread \/ UpdateAccount
            \/ ClearAccountError
    BY <1>1 DEF Expire, LockOK, TempExpires, AdminCall, AdminReread, UpdateAccount,
       ClearAccountError
  <1>2. CASE AdminInvalidate \/ AdminFails
    BY <1>2 DEF AdminInvalidate, AdminFails, LockOK
  <1>3. ASSUME NEW a \in Attempts,
               \/ StartBackground(a) \/ GetAccessToken(a) \/ LockTimesOut(a)
               \/ Reread(a) \/ Refresh(a) \/ Persist(a)
        PROVE  LockOK'
    BY <1>3 DEF StartBackground, LockOK, GetAccessToken, LockTimesOut, Reread, Refresh,
       Persist
  <1>4. ASSUME NEW a \in Attempts,
               \/ LoadDurable(a) \/ tryRecoverFromRefreshRace(a)
               \/ postRefreshActions(a) \/ SetError(a) \/ Retry(a)
               \/ SetTempUnschedulable(a)
        PROVE  LockOK'
    BY <1>4 DEF LoadDurable, LockOK, tryRecoverFromRefreshRace, postRefreshActions,
       SetError, Retry, SetTempUnschedulable
  <1>5. ASSUME NEW a \in Attempts,
               \/ InvalidateToken(a) \/ AfterRefresh(a) \/ CheckTokenVersion(a)
               \/ SetAccessToken(a) \/ WaitCache(a) \/ WaitRow(a)
        PROVE  LockOK'
    BY <1>5 DEF InvalidateToken, LockOK, AfterRefresh, CheckTokenVersion, SetAccessToken,
       WaitCache, WaitRow
  <1>6. ASSUME NEW op \in {"refresh", "reauth", "edit"},
               AdminStart(op)
        PROVE  LockOK'
    BY <1>6 DEF AdminStart, LockOK
  <1>7. CASE Tick
    <2>1. \/ lock' \in {lock, Free}
          \/ lock # Free /\ lock.age + 1 # LockTTL /\ lock' = [lock EXCEPT !.age = @ + 1]
      BY <1>7 DEF Tick
    <2>2. CASE lock \in [by: Attempts, age: 0..(LockTTL - 1)] /\ lock.age + 1 # LockTTL
               /\ lock' = [lock EXCEPT !.age = @ + 1]
      <3>1. lock.age + 1 \in 0..(LockTTL - 1)
        BY <2>2
      <3> QED
        BY <2>2, <3>1 DEF LockOK
    <2> QED
      BY <2>1, <2>2 DEF LockOK
  <1>8. ASSUME NEW a \in Attempts, AcquireRefreshLock(a) PROVE LockOK'
    <2>1. lock' = lock \/ lock' = [by |-> a, age |-> 0]
      BY <1>8, AcquireStep
    <2> QED
      BY <2>1 DEF LockOK
  <1>9. ASSUME NEW a \in Attempts, ReleaseRefreshLock(a) PROVE LockOK'
    <2>1. lock' = lock \/ lock' = Free
      BY <1>9, ReleaseStep
    <2> QED
      BY <2>1 DEF LockOK
  <1>10. CASE UNCHANGED vars
    BY <1>10 DEF vars, LockOK
  <1> QED
    BY <1>1, <1>2, <1>3, <1>4, <1>5, <1>6, <1>7, <1>8, <1>9, <1>10 DEF Next, Attempt, Admin

LEMMA AdminNext ==
  ASSUME StoreOK, AdminOK, [Next]_vars
  PROVE  AdminOK'
  <1>1. CASE Expire \/ Tick \/ TempExpires
    BY <1>1 DEF Expire, AdminOK, Bringing, Tick, TempExpires
  <1>2. ASSUME NEW a \in Attempts,
               \/ StartBackground(a) \/ GetAccessToken(a) \/ AcquireRefreshLock(a)
               \/ LockTimesOut(a) \/ Reread(a) \/ Refresh(a)
        PROVE  AdminOK'
    BY <1>2 DEF StartBackground, AdminOK, Bringing, GetAccessToken, AcquireRefreshLock,
       LockTimesOut, Reread, Refresh
  <1>3. ASSUME NEW a \in Attempts,
               \/ Persist(a) \/ LoadDurable(a) \/ tryRecoverFromRefreshRace(a)
               \/ ReleaseRefreshLock(a) \/ postRefreshActions(a) \/ SetError(a)
        PROVE  AdminOK'
    BY <1>3 DEF Persist, AdminOK, Bringing, LoadDurable, tryRecoverFromRefreshRace,
       ReleaseRefreshLock, postRefreshActions, SetError
  <1>4. ASSUME NEW a \in Attempts,
               \/ Retry(a) \/ SetTempUnschedulable(a) \/ InvalidateToken(a)
               \/ AfterRefresh(a) \/ CheckTokenVersion(a) \/ SetAccessToken(a)
        PROVE  AdminOK'
    BY <1>4 DEF Retry, AdminOK, Bringing, SetTempUnschedulable, InvalidateToken,
       AfterRefresh, CheckTokenVersion, SetAccessToken
  <1>5. ASSUME NEW op \in {"refresh", "reauth", "edit"}, AdminStart(op) PROVE AdminOK'
    <2>1. admin'.acct = account /\ account \in Row
      BY <1>5, AdminStartFields DEF StoreOK
    <2>2. admin' \in Edits
      BY <1>5, AdminStartFields
    <2>3. Bringing' => admin'.new \in Cred
      <3>1. \A g \in 1..MaxGrants : [grant |-> g, gen |-> 1] \in Cred
        BY DEF Cred
      <3>2. /\ admin'.op = op
            /\ op = "reauth" \/ admin'.pc = IF op = "refresh" THEN "call" ELSE "reread"
        BY <1>5, AdminStartFields
      <3>3. op = "reauth" => \E g \in 1..MaxGrants : admin'.new = [grant |-> g, gen |-> 1]
        BY <1>5, AdminStartFields
      <3> QED
        BY <3>1, <3>2, <3>3 DEF Bringing
    <2>4. admin'.pc = "call" => admin'.op = "refresh"
      BY <1>5, AdminStartFields
    <2> QED
      BY <2>1, <2>2, <2>3, <2>4 DEF AdminOK
  <1>6. CASE AdminCall
    <2>1. admin' \in Edits /\ (admin'.pc # "idle" => admin'.acct \in Row)
      BY <1>6, AdminCallFields DEF AdminOK
    <2>2. Bringing' => admin'.new \in Cred
      BY <1>6, AdminCallFields, Successors DEF Bringing
    <2>3. admin'.pc # "call"
      BY <1>6, AdminCallFields
    <2> QED
      BY <2>1, <2>2, <2>3 DEF AdminOK
  <1>7. CASE AdminReread
    BY <1>7, RereadFields DEF AdminOK, Bringing
  <1>8. CASE UpdateAccount
    BY <1>8, UpdateFields DEF AdminOK, Bringing, Edits
  <1>9. CASE ClearAccountError
    BY <1>9, ClosingFields DEF AdminOK, Bringing
  <1>10. CASE AdminInvalidate
    BY <1>10, ClosingFields DEF AdminOK, Bringing
  <1>11. CASE UNCHANGED vars
    BY <1>11 DEF vars, AdminOK, Bringing
  <1>12. ASSUME NEW a \in Attempts, WaitCache(a) \/ WaitRow(a) PROVE AdminOK'
    BY <1>12 DEF WaitCache, WaitRow, AdminOK, Bringing
  <1>13. CASE AdminFails
    BY <1>13, FailsFields DEF AdminOK, Bringing
  <1> QED
    BY <1>1, <1>2, <1>3, <1>4, <1>5, <1>6, <1>7, <1>8, <1>9, <1>10, <1>11, <1>12, <1>13
       DEF Next, Attempt, Admin

\* A request or a fault fewer, and at most one gap more.
Grows == /\ left' = left \/ Use("requests") \/ Use("faults")
         /\ \/ gaps' = gaps
            \/ \E g \in {"lease", "manual", "late", "clobbered", "cache", "uncleared"} :
                 gaps' = gaps \cup {g}

LEMMA UseType ==
  ASSUME left \in [requests: Nat, faults: Nat], NEW w \in {"requests", "faults"}, Use(w)
  PROVE  left' \in [requests: Nat, faults: Nat]
  <1>1. left[w] > 0 => left[w] - 1 \in Nat
    OBVIOUS
  <1>2. \A n \in Nat : [left EXCEPT ![w] = n] \in [requests: Nat, faults: Nat]
    OBVIOUS
  <1> QED
    BY <1>1, <1>2 DEF Use

LEMMA GrowsNext ==
  ASSUME [Next]_vars
  PROVE  Grows
  <1>1. CASE Expire \/ Tick \/ TempExpires
    BY <1>1 DEF Expire, Grows, Tick, TempExpires
  <1>2. CASE AdminCall \/ AdminReread \/ UpdateAccount
    BY <1>2 DEF AdminCall, Grows, AdminReread, UpdateAccount
  <1>3. CASE ClearAccountError \/ AdminInvalidate \/ AdminFails
    BY <1>3 DEF ClearAccountError, Grows, AdminInvalidate, AdminFails
  <1>4. ASSUME NEW a \in Attempts,
               StartBackground(a) \/ GetAccessToken(a) \/ AcquireRefreshLock(a)
        PROVE  Grows
    BY <1>4 DEF StartBackground, Grows, GetAccessToken, AcquireRefreshLock
  <1>5. ASSUME NEW a \in Attempts,
               LockTimesOut(a) \/ Reread(a) \/ Refresh(a)
        PROVE  Grows
    BY <1>5 DEF LockTimesOut, Grows, Reread, Refresh
  <1>6. ASSUME NEW a \in Attempts,
               Persist(a) \/ LoadDurable(a) \/ tryRecoverFromRefreshRace(a)
        PROVE  Grows
    BY <1>6 DEF Persist, Grows, LoadDurable, tryRecoverFromRefreshRace
  <1>7. ASSUME NEW a \in Attempts,
               ReleaseRefreshLock(a) \/ postRefreshActions(a) \/ SetError(a)
        PROVE  Grows
    BY <1>7 DEF ReleaseRefreshLock, Grows, postRefreshActions, SetError
  <1>8. ASSUME NEW a \in Attempts,
               Retry(a) \/ SetTempUnschedulable(a) \/ InvalidateToken(a)
        PROVE  Grows
    BY <1>8 DEF Retry, Grows, SetTempUnschedulable, InvalidateToken
  <1>9. ASSUME NEW a \in Attempts,
               \/ AfterRefresh(a) \/ CheckTokenVersion(a) \/ SetAccessToken(a)
               \/ WaitCache(a) \/ WaitRow(a)
        PROVE  Grows
    BY <1>9 DEF AfterRefresh, Grows, CheckTokenVersion, SetAccessToken, WaitCache, WaitRow
  <1>10. ASSUME NEW op \in {"refresh", "reauth", "edit"},
               AdminStart(op)
        PROVE  Grows
    BY <1>10 DEF AdminStart, Grows
  <1>11. CASE UNCHANGED vars
    BY <1>11 DEF vars, Grows
  <1> QED
    BY <1>1, <1>2, <1>3, <1>4, <1>5, <1>6, <1>7, <1>8, <1>9, <1>10, <1>11 DEF Next, Attempt,
       Admin

LEMMA NextType ==
  ASSUME TypeInv, [Next]_vars
  PROVE  TypeInv'
  <1>1. RestOK'
    BY GrowsNext, UseType DEF TypeInv, RestOK, Grows
  <1> QED
    BY <1>1, StoreNext, LockNext, AttemptsNext, AdminNext DEF TypeInv

LEMMA InitType == Init => TypeInv
  <1> SUFFICES ASSUME Init PROVE TypeInv
    OBVIOUS
  <1>0. First \in Cred /\ None \notin Cred
    BY DEF First, Cred, None
  <1>1. StoreOK
    <2>1. account \in Row
      BY <1>0 DEF Init, Row, NoRow
    <2>2. live \in [1..MaxGrants -> 0..(MaxGen + 1)]
      BY DEF Init
    <2>3. cache \in Cred \cup {None}
      BY <1>0 DEF Init
    <2> QED
      BY <2>1, <2>2, <2>3 DEF Init, StoreOK
  <1>2. LockOK
    BY DEF Init, LockOK
  <1>3. AttemptsOK
    <2>1. Idle \in Tries /\ Idle.pc = "idle"
      BY IdleFields
    <2> QED
      BY <2>1 DEF Init, AttemptsOK, Denied
  <1>4. AdminOK
    <2>1. NoRow \in Rows
      BY DEF Rows
    <2>2. 1 \in 1..MaxGrants
      OBVIOUS
    <2>3. admin \in Edits /\ admin.pc = "idle"
      BY <2>1, <2>2 DEF Init, NoEdit, Edits
    <2> QED
      BY <2>3 DEF AdminOK, Bringing
  <1>5. RestOK
    BY DEF Init, RestOK
  <1> QED
    BY <1>1, <1>2, <1>3, <1>4, <1>5 DEF TypeInv

-----------------------------------------------------------------------------
(* How the variables can change.                                           *)

Monotone ==
    /\ platform' = platform
    /\ \A g \in {"lease", "manual", "late", "clobbered", "cache", "uncleared"} :
         g \in gaps => g \in gaps'
    /\ \A c \in Cred : c \in dropped => c \in dropped'

LEMMA MonotoneNext ==
  ASSUME [Next]_vars
  PROVE  Monotone
  <1>1. CASE Expire \/ Tick \/ TempExpires
    BY <1>1 DEF Expire, Monotone, Tick, TempExpires
  <1>2. CASE AdminCall \/ AdminReread \/ UpdateAccount
    BY <1>2 DEF AdminCall, Monotone, AdminReread, UpdateAccount
  <1>3. CASE ClearAccountError \/ AdminInvalidate \/ AdminFails
    BY <1>3 DEF ClearAccountError, Monotone, AdminInvalidate, AdminFails
  <1>4. ASSUME NEW a \in Attempts,
               StartBackground(a) \/ GetAccessToken(a) \/ AcquireRefreshLock(a)
        PROVE  Monotone
    BY <1>4 DEF StartBackground, Monotone, GetAccessToken, AcquireRefreshLock
  <1>5. ASSUME NEW a \in Attempts,
               LockTimesOut(a) \/ Reread(a) \/ Refresh(a)
        PROVE  Monotone
    BY <1>5 DEF LockTimesOut, Monotone, Reread, Refresh
  <1>6. ASSUME NEW a \in Attempts,
               Persist(a) \/ LoadDurable(a) \/ tryRecoverFromRefreshRace(a)
        PROVE  Monotone
    BY <1>6 DEF Persist, Monotone, LoadDurable, tryRecoverFromRefreshRace
  <1>7. ASSUME NEW a \in Attempts,
               ReleaseRefreshLock(a) \/ postRefreshActions(a) \/ SetError(a)
        PROVE  Monotone
    BY <1>7 DEF ReleaseRefreshLock, Monotone, postRefreshActions, SetError
  <1>8. ASSUME NEW a \in Attempts,
               Retry(a) \/ SetTempUnschedulable(a) \/ InvalidateToken(a)
        PROVE  Monotone
    BY <1>8 DEF Retry, Monotone, SetTempUnschedulable, InvalidateToken
  <1>9. ASSUME NEW a \in Attempts,
               \/ AfterRefresh(a) \/ CheckTokenVersion(a) \/ SetAccessToken(a)
               \/ WaitCache(a) \/ WaitRow(a)
        PROVE  Monotone
    BY <1>9 DEF AfterRefresh, Monotone, CheckTokenVersion, SetAccessToken, WaitCache, WaitRow
  <1>10. ASSUME NEW op \in {"refresh", "reauth", "edit"},
               AdminStart(op)
        PROVE  Monotone
    BY <1>10 DEF AdminStart, Monotone
  <1>11. CASE UNCHANGED vars
    BY <1>11 DEF vars, Monotone
  <1> QED
    BY <1>1, <1>2, <1>3, <1>4, <1>5, <1>6, <1>7, <1>8, <1>9, <1>10, <1>11 DEF Next, Attempt,
       Admin

\* The actions that leave the tokens, the row and the administrator alone.
Minor ==
    /\ live' = live /\ admin' = admin /\ dropped' = dropped
    /\ account'.cred = account.cred /\ account'.ver = account.ver
    /\ account'.status = account.status

Major ==
    \/ \E a \in Attempts : Refresh(a) \/ Persist(a) \/ SetError(a)
    \/ \E op \in {"refresh", "reauth", "edit"} : AdminStart(op)
    \/ AdminCall \/ AdminReread \/ UpdateAccount \/ AdminFails
    \/ ClearAccountError \/ AdminInvalidate

LEMMA Classify ==
  ASSUME StoreOK, [Next]_vars
  PROVE  Minor \/ Major
  <1>1. CASE Expire \/ Tick
    BY <1>1 DEF Expire, Minor, Tick
  <1>2. ASSUME NEW a \in Attempts,
               \/ StartBackground(a) \/ GetAccessToken(a) \/ AcquireRefreshLock(a)
               \/ LockTimesOut(a) \/ Reread(a)
        PROVE  Minor \/ Major
    BY <1>2 DEF StartBackground, Minor, GetAccessToken, AcquireRefreshLock, LockTimesOut,
       Reread
  <1>3. ASSUME NEW a \in Attempts,
               \/ LoadDurable(a) \/ tryRecoverFromRefreshRace(a)
               \/ ReleaseRefreshLock(a) \/ Retry(a) \/ InvalidateToken(a)
        PROVE  Minor \/ Major
    BY <1>3 DEF LoadDurable, Minor, tryRecoverFromRefreshRace, ReleaseRefreshLock, Retry,
       InvalidateToken
  <1>4. ASSUME NEW a \in Attempts,
               \/ AfterRefresh(a) \/ CheckTokenVersion(a) \/ SetAccessToken(a)
               \/ WaitCache(a) \/ WaitRow(a)
        PROVE  Minor \/ Major
    BY <1>4 DEF AfterRefresh, Minor, CheckTokenVersion, SetAccessToken, WaitCache, WaitRow
  <1>5. CASE TempExpires
    BY <1>5, Temps DEF TempExpires, StoreOK, Minor
  <1>6. ASSUME NEW a \in Attempts, postRefreshActions(a) PROVE Minor \/ Major
    <2> DEFINE t == account.temp /\ ~attempt[a].acct.temp
    <2>1. t \in BOOLEAN
      OBVIOUS
    <2>2. account' = [account EXCEPT !.temp = t] /\ account \in Row
      BY <1>6 DEF postRefreshActions, StoreOK
    <2>3. live' = live /\ admin' = admin /\ dropped' = dropped
      BY <1>6 DEF postRefreshActions
    <2> HIDE DEF t
    <2> QED
      BY <2>1, <2>2, <2>3, Temps DEF Minor
  <1>7. ASSUME NEW a \in Attempts, SetTempUnschedulable(a) PROVE Minor \/ Major
    BY <1>7, Temps DEF SetTempUnschedulable, StoreOK, Minor
  <1>8. CASE UNCHANGED vars
    BY <1>8 DEF vars, Minor
  <1> QED
    BY <1>1, <1>2, <1>3, <1>4, <1>5, <1>6, <1>7, <1>8 DEF Next, Major, Attempt, Admin

Own(a) ==
    StartBackground(a) \/ GetAccessToken(a) \/ Attempt(a)

\* Attempt a is where it was.
Stays(a) ==
    /\ attempt'[a].pc = attempt[a].pc /\ attempt'[a].out = attempt[a].out
    /\ attempt'[a].kind = attempt[a].kind /\ attempt'[a].locked = attempt[a].locked
    /\ attempt'[a].acct = attempt[a].acct /\ attempt'[a].mine = attempt[a].mine
    /\ attempt[a].late => attempt'[a].late
    /\ attempt'[a].age = attempt[a].age \/
         (Tick /\ Working(a) /\ HasDeadline(a) /\ attempt'[a].age = attempt[a].age + 1)

LEMMA StaysWhenLate ==
  ASSUME AttemptsOK, NEW a \in Attempts,
         attempt'[a] \in {attempt[a], [attempt[a] EXCEPT !.late = TRUE]}
  PROVE  Stays(a)
  BY DEF AttemptsOK, Tries, Stays

LEMMA Moves ==
  ASSUME AttemptsOK, [Next]_vars, NEW b \in Attempts
  PROVE  Stays(b) \/ Own(b)
  <1>t. attempt \in [Attempts -> Tries] /\ attempt[b] \in Tries
    BY DEF AttemptsOK
  <1>1. CASE UNCHANGED attempt
    BY <1>1 DEF Stays
  <1>2. CASE Tick
    <2>1. \/ attempt'[b] = attempt[b]
          \/ Working(b) /\ HasDeadline(b) /\ attempt'[b] = [attempt[b] EXCEPT !.age = @ + 1]
      BY <1>2 DEF Tick
    <2>2. CASE Working(b) /\ HasDeadline(b) /\ attempt'[b] = [attempt[b] EXCEPT !.age = @ + 1]
      BY <1>2, <1>t, <2>2 DEF Tries, Stays
    <2> QED
      BY <2>1, <2>2 DEF Stays
  <1>3. CASE UpdateAccount
    <2>1. attempt' = attempt \/ attempt' = Outdated(attempt)
      BY <1>3 DEF UpdateAccount
    <2>2. attempt'[b] \in {attempt[b], [attempt[b] EXCEPT !.late = TRUE]}
      BY <2>1 DEF Outdated
    <2> QED
      BY <2>2, StaysWhenLate
  <1>4. ASSUME NEW a \in Attempts, a # b, StartBackground(a) \/ GetAccessToken(a) \/ Attempt(a)
        PROVE  Stays(b)
    <2>1. CASE Persist(a)
      BY <1>4, <2>1, PersistStep, StaysWhenLate
    <2>2. CASE ~Persist(a)
      <3>1. Only(a)
        BY <1>4, <2>2, StartStep, AcquireStep, TimeoutStep, RereadStep, RefreshStep, DurableStep,
           RecoverStep, ReleaseStep, PostStep, ErrorStep, RetryStep, EndStep, AfterStep, CheckStep,
           WaitStep DEF Attempt
      <3> QED
        BY <1>4, <3>1 DEF Only, Stays
    <2> QED
      BY <2>1, <2>2
  <1>5. Expire \/ TempExpires \/ AdminCall \/ AdminReread \/ ClearAccountError \/ AdminInvalidate
          \/ AdminFails
          \/ (\E op \in {"refresh", "reauth", "edit"} : AdminStart(op)) \/ UNCHANGED vars
          => UNCHANGED attempt
    BY DEF Expire, TempExpires, AdminCall, AdminReread, ClearAccountError, AdminInvalidate,
       AdminFails, AdminStart, vars
  <1> QED
    BY <1>1, <1>2, <1>3, <1>4, <1>5 DEF Next, Admin, Own

\* CtxDone depends on the kind and the age of the attempt only.
LEMMA Clocks ==
  ASSUME NEW a, platform' = platform, attempt'[a].kind = attempt[a].kind,
         attempt[a].age \in Nat, attempt'[a].age \in Nat, attempt'[a].age >= attempt[a].age
  PROVE  /\ HasDeadline(a)' <=> HasDeadline(a)
         /\ Deadline(a)' = Deadline(a)
         /\ CtxDone(a) => CtxDone(a)'
         /\ attempt'[a].age = attempt[a].age /\ CtxDone(a)' => CtxDone(a)
  <1>1. HasDeadline(a)' <=> HasDeadline(a)
    BY DEF HasDeadline
  <1>2. Deadline(a)' = Deadline(a)
    BY DEF Deadline
  <1>3. Deadline(a) \in Int
    BY DeadlineBound
  <1> QED
    BY <1>1, <1>2, <1>3 DEF CtxDone

LEMMA Flat ==
  /\ NoRow.cred = None /\ None \notin Cred /\ NoRow \in Rows
  /\ Idle.pc = "idle" /\ Idle.out = "none" /\ Idle.acct.cred = None /\ Idle.mine.cred = None
  /\ LET i == [Idle EXCEPT !.pc = "invalidate"] IN
     i.pc = "invalidate" /\ i.out = "none" /\ i.acct.cred = None /\ i.mine.cred = None
  BY IdleFields, StepNames

LEMMA Copies ==
  ASSUME TypeInv, [Next]_vars, NEW b \in Attempts
  PROVE  /\ attempt'[b].acct.cred \in {attempt[b].acct.cred, attempt[b].mine.cred,
                                     account.cred, account'.cred, None}
         /\ attempt'[b].mine.cred \in {attempt[b].mine.cred, account.cred, None}
  <1>m. Stays(b) \/ Own(b)
    BY Moves DEF TypeInv
  <1>t. AttemptsOK /\ attempt[b] \in Tries
    BY DEF TypeInv, AttemptsOK
  <1> USE DEF Stays, Keeps
  <1>1. CASE Stays(b)
    BY <1>1, <1>t
  <1>2. CASE StartBackground(b) \/ GetAccessToken(b)
    BY <1>2, <1>t, StartStep, Flat
  <1>3. CASE AcquireRefreshLock(b)
    BY <1>3, <1>t, AcquireStep, Flat
  <1>4. CASE LockTimesOut(b)
    BY <1>4, <1>t, TimeoutStep
  <1>5. CASE Reread(b)
    BY <1>5, <1>t, RereadStep
  <1>6. CASE Refresh(b)
    BY <1>6, <1>t, RefreshStep
  <1>7. CASE Persist(b)
    BY <1>7, <1>t, PersistStep
  <1>8. CASE LoadDurable(b)
    BY <1>8, <1>t, DurableStep
  <1>9. CASE tryRecoverFromRefreshRace(b)
    BY <1>9, <1>t, RecoverStep
  <1>10. CASE ReleaseRefreshLock(b)
    BY <1>10, <1>t, ReleaseStep, Flat
  <1>11. CASE postRefreshActions(b)
    BY <1>11, <1>t, PostStep, Flat
  <1>12. CASE SetError(b)
    BY <1>12, <1>t, ErrorStep, Flat
  <1>13. CASE Retry(b)
    BY <1>13, <1>t, RetryStep
  <1>14. CASE AfterRefresh(b)
    BY <1>14, <1>t, AfterStep, Flat
  <1>15. CASE CheckTokenVersion(b)
    BY <1>15, <1>t, CheckStep, Flat
  <1>16. CASE SetTempUnschedulable(b) \/ InvalidateToken(b) \/ SetAccessToken(b)
    BY <1>16, <1>t, EndStep, Flat
  <1>17. CASE WaitCache(b) \/ WaitRow(b)
    BY <1>17, <1>t, WaitStep, Flat
  <1> HIDE DEF Stays, Keeps
  <1> QED
    BY <1>1, <1>2, <1>3, <1>4, <1>5, <1>6, <1>7, <1>8, <1>9, <1>10, <1>11, <1>12, <1>13,
       <1>14, <1>15, <1>16, <1>17, <1>m, Zenon DEF Own, Attempt

-----------------------------------------------------------------------------
(* Where an attempt came from, and where it goes.                          *)

LEMMA AnsweredFrom ==
  ASSUME TypeInv, [Next]_vars, NEW b \in Attempts
  PROVE  /\ attempt'[b].pc = "answered" => Stays(b) \/ Refresh(b)
         /\ attempt[b].pc = "answered" => Stays(b) \/ Persist(b)
  <1>m. Stays(b) \/ Own(b)
    BY Moves DEF TypeInv
  <1>t. AttemptsOK /\ attempt[b] \in Tries
    BY DEF TypeInv, AttemptsOK
  <1> USE DEF Keeps
  <1>1. CASE Stays(b)
    BY <1>1, <1>t
  <1>2. CASE StartBackground(b) \/ GetAccessToken(b)
    BY <1>2, <1>t, StartStep, Flat
  <1>3. CASE AcquireRefreshLock(b)
    BY <1>3, <1>t, AcquireStep, Flat
  <1>4. CASE LockTimesOut(b)
    BY <1>4, <1>t, TimeoutStep
  <1>5. CASE Reread(b)
    BY <1>5, <1>t, RereadStep
  <1>6. CASE Refresh(b)
    BY <1>6, <1>t, RefreshStep
  <1>7. CASE Persist(b)
    BY <1>7, <1>t, PersistStep
  <1>8. CASE LoadDurable(b)
    BY <1>8, <1>t, DurableStep
  <1>9. CASE tryRecoverFromRefreshRace(b)
    BY <1>9, <1>t, RecoverStep
  <1>10. CASE ReleaseRefreshLock(b)
    BY <1>10, <1>t, ReleaseStep, Flat
  <1>11. CASE postRefreshActions(b)
    BY <1>11, <1>t, PostStep, Flat
  <1>12. CASE SetError(b)
    BY <1>12, <1>t, ErrorStep, Flat
  <1>13. CASE Retry(b)
    BY <1>13, <1>t, RetryStep
  <1>14. CASE AfterRefresh(b)
    BY <1>14, <1>t, AfterStep, Flat
  <1>15. CASE CheckTokenVersion(b)
    BY <1>15, <1>t, CheckStep, Flat
  <1>16. CASE SetTempUnschedulable(b) \/ InvalidateToken(b) \/ SetAccessToken(b)
    BY <1>16, <1>t, EndStep, Flat
  <1>17. CASE WaitCache(b) \/ WaitRow(b)
    BY <1>17, <1>t, WaitStep, Flat
  <1> HIDE DEF Keeps
  <1> QED
    BY <1>1, <1>2, <1>3, <1>4, <1>5, <1>6, <1>7, <1>8, <1>9, <1>10, <1>11, <1>12, <1>13,
       <1>14, <1>15, <1>16, <1>17, <1>m, Zenon DEF Own, Attempt

LEMMA CallFrom ==
  ASSUME TypeInv, [Next]_vars, NEW b \in Attempts
  PROVE  attempt'[b].pc = "call" => Stays(b) \/ Reread(b)
  <1>m. Stays(b) \/ Own(b)
    BY Moves DEF TypeInv
  <1>t. AttemptsOK /\ attempt[b] \in Tries
    BY DEF TypeInv, AttemptsOK
  <1> USE DEF Keeps
  <1>1. CASE Stays(b)
    BY <1>1, <1>t
  <1>2. CASE StartBackground(b) \/ GetAccessToken(b)
    BY <1>2, <1>t, StartStep, Flat
  <1>3. CASE AcquireRefreshLock(b)
    BY <1>3, <1>t, AcquireStep, Flat
  <1>4. CASE LockTimesOut(b)
    BY <1>4, <1>t, TimeoutStep
  <1>5. CASE Reread(b)
    BY <1>5, <1>t, RereadStep
  <1>6. CASE Refresh(b)
    BY <1>6, <1>t, RefreshStep
  <1>7. CASE Persist(b)
    BY <1>7, <1>t, PersistStep
  <1>8. CASE LoadDurable(b)
    BY <1>8, <1>t, DurableStep
  <1>9. CASE tryRecoverFromRefreshRace(b)
    BY <1>9, <1>t, RecoverStep
  <1>10. CASE ReleaseRefreshLock(b)
    BY <1>10, <1>t, ReleaseStep, Flat
  <1>11. CASE postRefreshActions(b)
    BY <1>11, <1>t, PostStep, Flat
  <1>12. CASE SetError(b)
    BY <1>12, <1>t, ErrorStep, Flat
  <1>13. CASE Retry(b)
    BY <1>13, <1>t, RetryStep
  <1>14. CASE AfterRefresh(b)
    BY <1>14, <1>t, AfterStep, Flat
  <1>15. CASE CheckTokenVersion(b)
    BY <1>15, <1>t, CheckStep, Flat
  <1>16. CASE SetTempUnschedulable(b) \/ InvalidateToken(b) \/ SetAccessToken(b)
    BY <1>16, <1>t, EndStep, Flat
  <1>17. CASE WaitCache(b) \/ WaitRow(b)
    BY <1>17, <1>t, WaitStep, Flat
  <1> HIDE DEF Keeps
  <1> QED
    BY <1>1, <1>2, <1>3, <1>4, <1>5, <1>6, <1>7, <1>8, <1>9, <1>10, <1>11, <1>12, <1>13,
       <1>14, <1>15, <1>16, <1>17, <1>m, Zenon DEF Own, Attempt

LEMMA DeniedFrom ==
  ASSUME TypeInv, [Next]_vars, NEW b \in Attempts
  PROVE  Denied(b)' => \/ Denied(b) /\ attempt'[b].acct = attempt[b].acct
                       \/ Refresh(b)
  <1>m. Stays(b) \/ Own(b)
    BY Moves DEF TypeInv
  <1>t. AttemptsOK /\ attempt[b] \in Tries
    BY DEF TypeInv, AttemptsOK
  <1> USE DEF Keeps, Stays, Denied
  <1>1. CASE Stays(b)
    BY <1>1, <1>t
  <1>2. CASE StartBackground(b) \/ GetAccessToken(b)
    BY <1>2, <1>t, StartStep, Flat
  <1>3. CASE AcquireRefreshLock(b)
    BY <1>3, <1>t, AcquireStep, Flat
  <1>4. CASE LockTimesOut(b)
    BY <1>4, <1>t, TimeoutStep
  <1>5. CASE Reread(b)
    BY <1>5, <1>t, RereadStep
  <1>6. CASE Refresh(b)
    BY <1>6
  <1>7. CASE Persist(b)
    BY <1>7, <1>t, PersistStep
  <1>8. CASE LoadDurable(b)
    <2>1. attempt[b].out = "refreshed"
      BY <1>8, <1>t, DurableStep DEF AttemptsOK
    <2> QED
      BY <1>8, <1>t, <2>1, DurableStep
  <1>9. CASE tryRecoverFromRefreshRace(b)
    BY <1>9, <1>t, RecoverStep
  <1>10. CASE ReleaseRefreshLock(b)
    BY <1>10, <1>t, ReleaseStep, Flat
  <1>11. CASE postRefreshActions(b)
    BY <1>11, <1>t, PostStep, Flat
  <1>12. CASE SetError(b)
    BY <1>12, <1>t, ErrorStep, Flat
  <1>13. CASE Retry(b)
    BY <1>13, <1>t, RetryStep
  <1>14. CASE AfterRefresh(b)
    BY <1>14, <1>t, AfterStep, Flat
  <1>15. CASE CheckTokenVersion(b)
    BY <1>15, <1>t, CheckStep, Flat
  <1>16. CASE SetTempUnschedulable(b) \/ InvalidateToken(b) \/ SetAccessToken(b)
    BY <1>16, <1>t, EndStep, Flat
  <1>17. CASE WaitCache(b) \/ WaitRow(b)
    BY <1>17, <1>t, WaitStep, Flat
  <1> HIDE DEF Keeps, Stays, Denied
  <1> QED
    BY <1>1, <1>2, <1>3, <1>4, <1>5, <1>6, <1>7, <1>8, <1>9, <1>10, <1>11, <1>12, <1>13,
       <1>14, <1>15, <1>16, <1>17, <1>m, Zenon DEF Own, Attempt

LEMMA RefusedFrom ==
  ASSUME TypeInv, [Next]_vars, NEW b \in Attempts
  PROVE  Refused(b)' => \/ Refused(b) /\ attempt'[b].acct = attempt[b].acct
                        \/ Refresh(b)
  <1>m. Stays(b) \/ Own(b)
    BY Moves DEF TypeInv
  <1>t. AttemptsOK /\ attempt[b] \in Tries
    BY DEF TypeInv, AttemptsOK
  <1> USE DEF Keeps, Stays, Refused
  <1>1. CASE Stays(b)
    BY <1>1, <1>t
  <1>2. CASE StartBackground(b) \/ GetAccessToken(b)
    BY <1>2, <1>t, StartStep, Flat
  <1>3. CASE AcquireRefreshLock(b)
    BY <1>3, <1>t, AcquireStep, Flat
  <1>4. CASE LockTimesOut(b)
    BY <1>4, <1>t, TimeoutStep
  <1>5. CASE Reread(b)
    BY <1>5, <1>t, RereadStep
  <1>6. CASE Refresh(b)
    BY <1>6
  <1>7. CASE Persist(b)
    BY <1>7, <1>t, PersistStep
  <1>8. CASE LoadDurable(b)
    <2>1. attempt[b].out = "refreshed"
      BY <1>8, <1>t, DurableStep DEF AttemptsOK
    <2> QED
      BY <1>8, <1>t, <2>1, DurableStep
  <1>9. CASE tryRecoverFromRefreshRace(b)
    BY <1>9, <1>t, RecoverStep
  <1>10. CASE ReleaseRefreshLock(b)
    BY <1>10, <1>t, ReleaseStep, Flat
  <1>11. CASE postRefreshActions(b)
    BY <1>11, <1>t, PostStep, Flat
  <1>12. CASE SetError(b)
    BY <1>12, <1>t, ErrorStep, Flat
  <1>13. CASE Retry(b)
    BY <1>13, <1>t, RetryStep
  <1>14. CASE AfterRefresh(b)
    BY <1>14, <1>t, AfterStep, Flat
  <1>15. CASE CheckTokenVersion(b)
    BY <1>15, <1>t, CheckStep, Flat
  <1>16. CASE SetTempUnschedulable(b) \/ InvalidateToken(b) \/ SetAccessToken(b)
    BY <1>16, <1>t, EndStep, Flat
  <1>17. CASE WaitCache(b) \/ WaitRow(b)
    BY <1>17, <1>t, WaitStep, Flat
  <1> HIDE DEF Keeps, Stays, Refused
  <1> QED
    BY <1>1, <1>2, <1>3, <1>4, <1>5, <1>6, <1>7, <1>8, <1>9, <1>10, <1>11, <1>12, <1>13,
       <1>14, <1>15, <1>16, <1>17, <1>m, Zenon DEF Own, Attempt

LEMMA RefreshingFrom ==
  ASSUME TypeInv, [Next]_vars, NEW b \in Attempts
  PROVE  Refreshing(b)' =>
           \/ /\ Refreshing(b) /\ attempt'[b].kind = attempt[b].kind
              /\ attempt'[b].locked = attempt[b].locked
              /\ attempt'[b].age = attempt[b].age \/
                   (Tick /\ Working(b) /\ HasDeadline(b)
                      /\ attempt'[b].age = attempt[b].age + 1)
           \/ AcquireRefreshLock(b)
  <1>m. Stays(b) \/ Own(b)
    BY Moves DEF TypeInv
  <1>t. AttemptsOK /\ attempt[b] \in Tries
    BY DEF TypeInv, AttemptsOK
  <1> USE DEF Keeps, Stays, Refreshing
  <1>1. CASE Stays(b)
    BY <1>1, <1>t
  <1>2. CASE StartBackground(b) \/ GetAccessToken(b)
    BY <1>2, <1>t, StartStep, Flat
  <1>3. CASE AcquireRefreshLock(b)
    BY <1>3
  <1>4. CASE LockTimesOut(b)
    BY <1>4, <1>t, TimeoutStep
  <1>5. CASE Reread(b)
    BY <1>5, <1>t, RereadStep
  <1>6. CASE Refresh(b)
    BY <1>6, <1>t, RefreshStep
  <1>7. CASE Persist(b)
    BY <1>7, <1>t, PersistStep
  <1>8. CASE LoadDurable(b)
    BY <1>8, <1>t, DurableStep
  <1>9. CASE tryRecoverFromRefreshRace(b)
    BY <1>9, <1>t, RecoverStep
  <1>10. CASE ReleaseRefreshLock(b)
    BY <1>10, <1>t, ReleaseStep, Flat
  <1>11. CASE postRefreshActions(b)
    BY <1>11, <1>t, PostStep, Flat
  <1>12. CASE SetError(b)
    BY <1>12, <1>t, ErrorStep, Flat
  <1>13. CASE Retry(b)
    BY <1>13, <1>t, RetryStep
  <1>14. CASE AfterRefresh(b)
    BY <1>14, <1>t, AfterStep, Flat
  <1>15. CASE CheckTokenVersion(b)
    BY <1>15, <1>t, CheckStep, Flat
  <1>16. CASE SetTempUnschedulable(b) \/ InvalidateToken(b) \/ SetAccessToken(b)
    BY <1>16, <1>t, EndStep, Flat
  <1>17. CASE WaitCache(b) \/ WaitRow(b)
    BY <1>17, <1>t, WaitStep, Flat
  <1> HIDE DEF Keeps, Stays, Refreshing
  <1> QED
    BY <1>1, <1>2, <1>3, <1>4, <1>5, <1>6, <1>7, <1>8, <1>9, <1>10, <1>11, <1>12, <1>13,
       <1>14, <1>15, <1>16, <1>17, <1>m, Zenon DEF Own, Attempt

-----------------------------------------------------------------------------
(* The provider's generations grow, and no copy is ahead of them.          *)

LEMMA LiveType ==
  ASSUME StoreOK, NEW g \in 1..MaxGrants
  PROVE  live[g] \in Int /\ live[g] >= 0
  BY DEF StoreOK

LEMMA LiveFrom ==
  ASSUME TypeInv, [Next]_vars
  PROVE  \/ live' = live
         \/ \E a \in Attempts : /\ Refresh(a) /\ attempt[a].acct.cred \in Usable
                                /\ Live(attempt[a].acct.cred) /\ Rotate(attempt[a].acct.cred)
         \/ /\ AdminCall /\ admin.acct.cred \in Usable
            /\ Live(admin.acct.cred) /\ Rotate(admin.acct.cred)
         \/ /\ AdminStart("reauth")
            /\ \E g \in 1..MaxGrants : live[g] = 0 /\ live' = [live EXCEPT ![g] = 1]
  <1>1. CASE Minor
    BY <1>1 DEF Minor
  <1>2. ASSUME NEW a \in Attempts, Refresh(a)
        PROVE  live' = live \/ (/\ attempt[a].acct.cred \in Usable
                                /\ Live(attempt[a].acct.cred) /\ Rotate(attempt[a].acct.cred))
    BY <1>2, RefreshStep DEF TypeInv, AttemptsOK
  <1>3. ASSUME NEW a \in Attempts, Persist(a) \/ SetError(a) PROVE live' = live
    BY <1>3 DEF Persist, SetError
  <1>4. ASSUME NEW op \in {"refresh", "reauth", "edit"}, AdminStart(op)
        PROVE  \/ live' = live
               \/ /\ op = "reauth"
                  /\ \E g \in 1..MaxGrants : live[g] = 0 /\ live' = [live EXCEPT ![g] = 1]
    BY <1>4, AdminStartFields DEF TypeInv
  <1>5. ASSUME AdminCall
        PROVE  live' = live \/ (/\ admin.acct.cred \in Usable
                                /\ Live(admin.acct.cred) /\ Rotate(admin.acct.cred))
    BY <1>5, AdminCallFields DEF TypeInv
  <1>6. AdminReread \/ UpdateAccount \/ AdminFails \/ ClearAccountError \/ AdminInvalidate
          => live' = live
    BY DEF AdminReread, UpdateAccount, AdminFails, ClearAccountError, AdminInvalidate
  <1>7. Minor \/ Major
    BY Classify DEF TypeInv
  <1> QED
    BY <1>1, <1>2, <1>3, <1>4, <1>5, <1>6, <1>7 DEF Major

LEMMA LiveGrows ==
  ASSUME TypeInv, [Next]_vars, NEW g \in 1..MaxGrants
  PROVE  live'[g] \in Int /\ live'[g] >= live[g] /\ live[g] >= 0
  <1>1. StoreOK /\ live[g] \in Int /\ live[g] >= 0
    BY LiveType DEF TypeInv
  <1>2. ASSUME NEW c \in Usable, Live(c), Rotate(c)
        PROVE  live'[g] \in Int /\ live'[g] >= live[g]
    <2>1. c.gen \in Nat
      BY Successors
    <2> QED
      BY <1>1, <1>2, <2>1, RotateFields
  <1>3. ASSUME NEW h \in 1..MaxGrants, live[h] = 0, live' = [live EXCEPT ![h] = 1]
        PROVE  live'[g] \in Int /\ live'[g] >= live[g]
    BY <1>1, <1>3 DEF StoreOK
  <1> QED
    BY <1>1, <1>2, <1>3, LiveFrom

\* Where the stored credentials come from.
LEMMA AccountFrom ==
  ASSUME TypeInv, [Next]_vars
  PROVE  \/ account'.cred = account.cred
         \/ \E b \in Attempts : /\ Persist(b) /\ ~CtxDone(b) /\ attempt[b].pc = "answered"
                                /\ account'.cred = Successor(attempt[b].acct.cred)
         \/ /\ UpdateAccount /\ admin.pc = "write"
            /\ account'.cred = IF admin.op = "edit" THEN admin.acct.cred ELSE admin.new
  <1>0. StoreOK /\ AttemptsOK /\ AdminOK /\ account \in Row
    BY DEF TypeInv, StoreOK
  <1>1. CASE Minor
    BY <1>1 DEF Minor
  <1>2. ASSUME NEW a \in Attempts, Persist(a)
        PROVE  account'.cred = account.cred \/ (/\ ~CtxDone(a) /\ attempt[a].pc = "answered"
                                 /\ account'.cred = Successor(attempt[a].acct.cred))
    BY <1>0, <1>2, PersistStep DEF Row
  <1>3. ASSUME NEW a \in Attempts, Refresh(a) \/ SetError(a) PROVE account'.cred = account.cred
    BY <1>0, <1>3, ErrorStep, SetStatus DEF Refresh
  <1>4. UpdateAccount => /\ admin.pc = "write"
                         /\ account'.cred = IF admin.op = "edit" THEN admin.acct.cred ELSE admin.new
    BY <1>0, UpdateFields
  <1>5. ASSUME NEW op \in {"refresh", "reauth", "edit"}, AdminStart(op) PROVE account' = account
    BY <1>5 DEF AdminStart
  <1>6. ClearAccountError => account'.cred = account.cred
    BY <1>0, Temps DEF ClearAccountError
  <1>7. AdminCall \/ AdminReread \/ AdminFails \/ AdminInvalidate => account' = account
    BY DEF AdminCall, AdminReread, AdminFails, AdminInvalidate
  <1>8. Minor \/ Major
    BY <1>0, Classify
  <1> QED
    BY <1>1, <1>2, <1>3, <1>4, <1>5, <1>6, <1>7, <1>8 DEF Major

LEMMA AdminFrom ==
  ASSUME TypeInv, [Next]_vars
  PROVE  admin'.acct.cred \in {admin.acct.cred, account.cred, None}
  <1>0. StoreOK /\ AttemptsOK /\ AdminOK
    BY DEF TypeInv
  <1>1. CASE Minor
    BY <1>1 DEF Minor
  <1>2. ASSUME NEW a \in Attempts, Refresh(a) \/ Persist(a) \/ SetError(a) PROVE admin' = admin
    BY <1>2 DEF Refresh, Persist, SetError
  <1>3. ASSUME NEW op \in {"refresh", "reauth", "edit"}, AdminStart(op)
        PROVE  admin'.acct = account
    BY <1>0, <1>3, AdminStartFields
  <1>4. AdminCall => admin'.acct \in {admin.acct, NoRow}
    BY <1>0, AdminCallFields
  <1>5. AdminReread => admin'.acct.cred \in {admin.acct.cred, account.cred}
    BY <1>0, RereadFields
  <1>6. UpdateAccount => admin'.acct \in {admin.acct, NoRow}
    <2>1. admin \in Edits
      BY <1>0 DEF AdminOK
    <2>2. UpdateAccount => admin.op \in {"edit", "refresh", "reauth"}
      BY <2>1 DEF Edits
    <2>3. UpdateAccount => /\ admin.op = "edit" => admin'.acct = NoRow
                           /\ admin.op \in {"refresh", "reauth"} => admin'.acct = admin.acct
      BY <1>0, UpdateFields
    <2> QED
      BY <2>2, <2>3
  <1>7. ClearAccountError \/ AdminInvalidate \/ AdminFails => admin'.acct \in {admin.acct, NoRow}
    BY <1>0, ClosingFields, FailsFields
  <1>8. Minor \/ Major
    BY <1>0, Classify
  <1>9. NoRow.cred = None
    BY Flat
  <1> QED
    BY <1>1, <1>2, <1>3, <1>4, <1>5, <1>6, <1>7, <1>8, <1>9 DEF Major

LEMMA KnownNext ==
  ASSUME TypeInv, KnownInv, AnswerInv, [Next]_vars
  PROVE  KnownInv'
  <1> DEFINE Kept(c) == c \in Cred => c.gen <= live'[c.grant]
  <1>1. \A c : Known(c) => Kept(c)
    <2> SUFFICES ASSUME NEW c \in Cred, Known(c) PROVE c.gen <= live'[c.grant]
      BY DEF Known
    <2>1. c.gen \in Nat /\ c.grant \in 1..MaxGrants
      BY Creds
    <2> QED
      BY <2>1, LiveGrows, LiveType DEF Known, TypeInv
  <1>2. Kept(None)
    BY Flat
  <1>3. Known(account.cred) /\ Known(admin.acct.cred)
        /\ \A a \in Attempts : Known(attempt[a].acct.cred) /\ Known(attempt[a].mine.cred)
    BY DEF KnownInv
  <1>4. Kept(account'.cred)
    <2>1. ASSUME NEW b \in Attempts, attempt[b].pc = "answered",
                 account'.cred = Successor(attempt[b].acct.cred)
          PROVE  Known(account'.cred)
      <3>1. Live(account'.cred) /\ account'.cred.gen \in Nat
        BY <2>1, Successors DEF AnswerInv, Fresh, TypeInv, AttemptsOK
      <3> QED
        BY <3>1 DEF Live, Known
    <2>2. ASSUME admin.pc = "write", admin.op # "edit", account'.cred = admin.new
          PROVE  Known(account'.cred)
      <3>1. Live(account'.cred) /\ account'.cred \in Cred
        BY <2>2 DEF AnswerInv, Bringing, Fresh, TypeInv, AdminOK
      <3>2. account'.cred.gen \in Nat
        BY <3>1, Creds
      <3> QED
        BY <3>1, <3>2 DEF Live, Known
    <2>3. Known(account'.cred)
      BY <1>3, <2>1, <2>2, AccountFrom
    <2> HIDE DEF Kept
    <2> QED
      BY <1>1, <2>3
  <1>5. Kept(admin'.acct.cred)
    <2> HIDE DEF Kept
    <2> QED
      BY <1>1, <1>2, <1>3, AdminFrom
  <1>6. ASSUME NEW a \in Attempts PROVE Kept(attempt'[a].acct.cred) /\ Kept(attempt'[a].mine.cred)
    <2> HIDE DEF Kept
    <2> QED
      BY <1>1, <1>2, <1>3, <1>4, Copies
  <1> QED
    BY <1>4, <1>5, <1>6 DEF KnownInv, Known

-----------------------------------------------------------------------------
(* An answer stays in one hand.                                            *)

\* Fresh in the next state.
FreshNext(c) ==
    /\ c # None /\ live'[c.grant] = c.gen /\ c # account'.cred /\ c # admin'.acct.cred
    /\ \A a \in Attempts : c # attempt'[a].acct.cred /\ c # attempt'[a].mine.cred

LEMMA Same ==
  ASSUME NEW c \in Cred, NEW d \in Cred, c.grant = d.grant, c.gen = d.gen
  PROVE  c = d
  BY DEF Cred

LEMMA SuccessorsDiffer ==
  ASSUME NEW c \in Usable, NEW d \in Usable, Successor(c) = Successor(d)
  PROVE  c = d
  <1>1. c.grant = d.grant /\ c.gen = d.gen /\ c \in Cred /\ d \in Cred
    BY Successors
  <1> QED
    BY <1>1, Same

\* Where the provider accepts c, it does not accept another one of its login.
LEMMA LiveOnce ==
  ASSUME NEW c \in Cred, NEW d \in Cred, Live(c), Live(d), c.grant = d.grant
  PROVE  c = d
  BY Same DEF Live

\* A token whose answer is under way is not accepted any more.
LEMMA AnsweredDead ==
  ASSUME TypeInv, AnswerInv, NEW a \in Attempts, attempt[a].pc = "answered"
  PROVE  /\ attempt[a].acct.cred \in Usable /\ Fresh(Successor(attempt[a].acct.cred))
         /\ ~Live(attempt[a].acct.cred) /\ Successor(attempt[a].acct.cred) \in Cred
  <1>1. attempt[a].acct.cred \in Usable /\ Fresh(Successor(attempt[a].acct.cred))
    BY DEF TypeInv, AttemptsOK, AnswerInv
  <1>2. /\ Successor(attempt[a].acct.cred) \in Cred
        /\ Successor(attempt[a].acct.cred).gen # attempt[a].acct.cred.gen
        /\ Successor(attempt[a].acct.cred).grant = attempt[a].acct.cred.grant
    BY <1>1, Successors
  <1> QED
    BY <1>1, <1>2 DEF Fresh, Live

LEMMA LiveKept ==
  ASSUME TypeInv, [Next]_vars, NEW c \in Cred, Live(c)
  PROVE  \/ live'[c.grant] = c.gen
         \/ \E a \in Attempts : Refresh(a) /\ attempt[a].acct.cred = c
         \/ AdminCall /\ admin.acct.cred = c /\ Rotate(c)
  <1>1. c # None /\ c.gen \in Nat /\ c.gen > 0 /\ c.grant \in 1..MaxGrants
    BY Creds
  <1>2. ASSUME NEW d \in Usable, Live(d), Rotate(d), d # c
        PROVE  live'[c.grant] = c.gen
    <2>1. d.grant # c.grant
      BY <1>1, <1>2, Successors, LiveOnce
    <2> QED
      BY <1>1, <1>2, <2>1, RotateFields DEF TypeInv, Live
  <1>3. ASSUME NEW g \in 1..MaxGrants, live[g] = 0, live' = [live EXCEPT ![g] = 1]
        PROVE  live'[c.grant] = c.gen
    BY <1>1, <1>3 DEF TypeInv, StoreOK, Live
  <1>4. live' = live => live'[c.grant] = c.gen
    BY <1>1 DEF Live
  <1> QED
    BY <1>2, <1>3, <1>4, LiveFrom

LEMMA FreshKept ==
  ASSUME TypeInv, [Next]_vars, NEW c \in Cred, Fresh(c), account'.cred # c
  PROVE  FreshNext(c)
  <1>1. c # None
    BY Creds
  <1>2. live'[c.grant] = c.gen
    BY LiveKept DEF Fresh
  <1>3. c # admin'.acct.cred
    BY <1>1, AdminFrom DEF Fresh
  <1>4. ASSUME NEW a \in Attempts PROVE c # attempt'[a].acct.cred /\ c # attempt'[a].mine.cred
    BY <1>1, Copies DEF Fresh
  <1> QED
    BY <1>1, <1>2, <1>3, <1>4 DEF FreshNext

LEMMA RotatedFresh ==
  ASSUME TypeInv, KnownInv, [Next]_vars, account' = account,
         NEW c \in Usable, Live(c), Rotate(c)
  PROVE  FreshNext(Successor(c))
  <1> DEFINE s == Successor(c)
  <1>1. /\ s \in Cred /\ s # None /\ s.grant = c.grant /\ s.gen = c.gen + 1
        /\ c.gen \in Nat /\ c.grant \in 1..MaxGrants
    BY Successors
  <1>2. live[s.grant] = c.gen /\ live'[s.grant] = s.gen
    BY <1>1, RotateFields DEF TypeInv
  <1>3. \A d : Known(d) => s # d
    BY <1>1, <1>2 DEF Known
  <1> HIDE DEF s
  <1>4. s # account.cred /\ s # admin.acct.cred
        /\ \A a \in Attempts : s # attempt[a].acct.cred /\ s # attempt[a].mine.cred
    BY <1>3 DEF KnownInv
  <1>5. s # admin'.acct.cred
    BY <1>1, <1>4, AdminFrom
  <1>6. ASSUME NEW a \in Attempts PROVE s # attempt'[a].acct.cred /\ s # attempt'[a].mine.cred
    BY <1>1, <1>4, Copies
  <1>7. FreshNext(s)
    BY <1>1, <1>2, <1>4, <1>5, <1>6 DEF FreshNext
  <1> QED
    BY <1>7 DEF s

LEMMA UnusedFresh ==
  ASSUME TypeInv, KnownInv, [Next]_vars, account' = account,
         NEW g \in 1..MaxGrants, live[g] = 0, live' = [live EXCEPT ![g] = 1]
  PROVE  FreshNext([grant |-> g, gen |-> 1])
  <1> DEFINE s == [grant |-> g, gen |-> 1]
  <1>1. s \in Cred /\ s # None /\ s.grant = g /\ s.gen = 1
    BY DEF Cred, None
  <1>2. live'[s.grant] = s.gen
    BY <1>1 DEF TypeInv, StoreOK
  <1>3. \A d : Known(d) => s # d
    BY <1>1 DEF Known
  <1> HIDE DEF s
  <1>4. s # account.cred /\ s # admin.acct.cred
        /\ \A a \in Attempts : s # attempt[a].acct.cred /\ s # attempt[a].mine.cred
    BY <1>3 DEF KnownInv
  <1>5. s # admin'.acct.cred
    BY <1>1, <1>4, AdminFrom
  <1>6. ASSUME NEW a \in Attempts PROVE s # attempt'[a].acct.cred /\ s # attempt'[a].mine.cred
    BY <1>1, <1>4, Copies
  <1>7. FreshNext(s)
    BY <1>1, <1>2, <1>4, <1>5, <1>6 DEF FreshNext
  <1> QED
    BY <1>7 DEF s

LEMMA AnsweredKept ==
  ASSUME TypeInv, AnswerInv, [Next]_vars, NEW a \in Attempts,
         attempt[a].pc = "answered", ~Persist(a)
  PROVE  FreshNext(Successor(attempt[a].acct.cred))
  <1> DEFINE s == Successor(attempt[a].acct.cred)
  <1>1. attempt[a].acct.cred \in Usable /\ Fresh(s) /\ s \in Cred
    BY AnsweredDead
  <1>2. ASSUME NEW b \in Attempts, b # a, attempt[b].pc = "answered"
        PROVE  s # Successor(attempt[b].acct.cred)
    <2>1. attempt[b].acct.cred \in Usable /\ attempt[b].acct.cred # attempt[a].acct.cred
      BY <1>2, AnsweredDead DEF AnswerInv
    <2> QED
      BY <1>1, <2>1, SuccessorsDiffer
  <1>3. s # account.cred /\ s # admin.acct.cred
    BY <1>1 DEF Fresh
  <1>4. admin.pc = "write" /\ admin.op # "edit" => s # admin.new
    BY DEF AnswerInv, Bringing
  <1> HIDE DEF s
  <1>5. account'.cred # s
    BY <1>2, <1>3, <1>4, AccountFrom
  <1>6. FreshNext(s)
    BY <1>1, <1>5, FreshKept
  <1> QED
    BY <1>6 DEF s

LEMMA BringingFrom ==
  ASSUME TypeInv, [Next]_vars, Bringing'
  PROVE  \/ /\ Bringing /\ ~UpdateAccount /\ admin'.new = admin.new /\ admin'.op = admin.op
            /\ admin'.acct.cred = admin.acct.cred
         \/ /\ AdminCall /\ admin.acct.cred \in Usable /\ Live(admin.acct.cred)
            /\ Rotate(admin.acct.cred) /\ gaps' = gaps \cup {"manual"}
            /\ admin'.acct = admin.acct /\ admin'.new = Successor(admin.acct.cred)
         \/ \E g \in 1..MaxGrants :
              /\ AdminStart("reauth") /\ admin'.op = "reauth"
              /\ live[g] = 0 /\ live' = [live EXCEPT ![g] = 1]
              /\ admin'.new = [grant |-> g, gen |-> 1]
  <1>0. StoreOK /\ AttemptsOK /\ AdminOK /\ admin'.pc \in {"reread", "write"} /\ admin'.op # "edit"
    BY DEF TypeInv, Bringing
  <1>1. CASE Minor
    <2>1. UpdateAccount => admin'.pc \notin {"reread", "write"}
      BY <1>0, UpdateFields DEF AdminOK, Edits
    <2> QED
      BY <1>0, <1>1, <2>1 DEF Minor, Bringing
  <1>2. ASSUME NEW a \in Attempts, Refresh(a) \/ Persist(a) \/ SetError(a)
        PROVE  admin' = admin /\ ~UpdateAccount
    <2>1. UpdateAccount => admin'.pc # admin.pc
      BY <1>0, UpdateFields DEF AdminOK, Edits
    <2> QED
      BY <1>2, <2>1 DEF Refresh, Persist, SetError
  <1>3. CASE \E a \in Attempts : Refresh(a) \/ Persist(a) \/ SetError(a)
    BY <1>0, <1>2, <1>3 DEF Bringing
  <1>4. ASSUME NEW op \in {"refresh", "reauth", "edit"}, AdminStart(op)
        PROVE  /\ op = "reauth" /\ admin'.op = "reauth"
               /\ \E g \in 1..MaxGrants :
                    /\ live[g] = 0 /\ live' = [live EXCEPT ![g] = 1]
                    /\ admin'.new = [grant |-> g, gen |-> 1]
    BY <1>0, <1>4, AdminStartFields
  <1>5. CASE AdminCall
    BY <1>0, <1>5, AdminCallFields
  <1>6. CASE AdminReread
    <2>1. UpdateAccount => admin.pc = "write"
      BY DEF UpdateAccount
    <2> QED
      BY <1>0, <1>6, <2>1, RereadFields DEF Bringing
  <1>7. UpdateAccount => admin'.pc \notin {"reread", "write"}
    BY <1>0, UpdateFields DEF AdminOK, Edits
  <1>8. ClearAccountError \/ AdminInvalidate \/ AdminFails => admin'.pc \notin {"reread", "write"}
    BY <1>0, ClosingFields, FailsFields
  <1>9. Minor \/ Major
    BY <1>0, Classify
  <1> QED
    BY <1>0, <1>1, <1>3, <1>4, <1>5, <1>6, <1>7, <1>8, <1>9 DEF Major

\* Who has an answer in the next state had it before, or was just given it.
LEMMA AnsweredNext ==
  ASSUME TypeInv, KnownInv, AnswerInv, [Next]_vars, NEW a \in Attempts,
         attempt'[a].pc = "answered"
  PROVE  /\ FreshNext(Successor(attempt'[a].acct.cred))
         /\ attempt'[a].acct.cred = attempt[a].acct.cred /\ attempt[a].acct.cred \in Usable
         /\ \/ attempt[a].pc = "answered"
            \/ Refresh(a) /\ attempt[a].pc = "call" /\ Live(attempt[a].acct.cred)
  <1>0. AttemptsOK
    BY DEF TypeInv
  <1>1. CASE Stays(a)
    <2>1. attempt[a].pc = "answered" /\ attempt'[a].acct = attempt[a].acct
      BY <1>1 DEF Stays
    <2>2. ~Persist(a)
      <3>1. Persist(a) => attempt'[a].pc \in {"durable", "release"}
        BY <1>0, PersistStep, Zenon
      <3> QED
        BY <3>1
    <2> QED
      BY <2>1, <2>2, AnsweredKept, AnsweredDead
  <1>2. CASE Refresh(a)
    <2>1. /\ attempt[a].pc = "call" /\ attempt'[a].acct = attempt[a].acct
          /\ Live(attempt[a].acct.cred) /\ Rotate(attempt[a].acct.cred)
      BY <1>0, <1>2, RefreshStep DEF Keeps, Denied
    <2>2. attempt[a].acct.cred \in Usable
      BY <1>0, <2>1 DEF AttemptsOK
    <2>3. account' = account
      BY <1>2 DEF Refresh
    <2> QED
      BY <1>2, <2>1, <2>2, <2>3, RotatedFresh
  <1> QED
    BY <1>1, <1>2, AnsweredFrom

LEMMA AnswerNext ==
  ASSUME TypeInv, KnownInv, AnswerInv, [Next]_vars
  PROVE  AnswerInv'
  <1>0. StoreOK /\ AttemptsOK /\ AdminOK
    BY DEF TypeInv
  <1>1. ASSUME NEW a \in Attempts, attempt'[a].pc = "answered"
        PROVE  Fresh(Successor(attempt[a].acct.cred))'
    <2>1. FreshNext(Successor(attempt'[a].acct.cred))
      BY <1>1, AnsweredNext
    <2> QED
      BY <2>1 DEF FreshNext, Fresh, Live
  <1>2. ASSUME NEW a \in Attempts, NEW b \in Attempts, attempt'[a].pc = "answered",
               attempt'[b].pc = "answered", attempt'[a].acct.cred = attempt'[b].acct.cred
        PROVE  a = b
    <2> DEFINE was(x) == attempt[x].pc = "answered"
    <2>1. attempt[a].acct.cred = attempt[b].acct.cred
      BY <1>2, AnsweredNext
    <2>2. CASE was(a) /\ was(b)
      BY <2>1, <2>2 DEF AnswerInv
    <2>3. was(a) \/ was(b) \/ a = b
      <3> SUFFICES ASSUME ~was(a), ~was(b) PROVE a = b
        OBVIOUS
      <3>1. Refresh(a) /\ Refresh(b) /\ attempt[b].pc = "call"
        BY <1>2, AnsweredNext
      <3> QED
        BY <1>0, <1>2, <3>1, RefreshStep DEF Only
    <2>4. was(a) => ~Live(attempt[a].acct.cred)
      BY AnsweredDead
    <2>5. was(b) => ~Live(attempt[b].acct.cred)
      BY AnsweredDead
    <2> QED
      BY <1>2, <2>1, <2>2, <2>3, <2>4, <2>5, AnsweredNext
  <1>3. ASSUME Bringing'
        PROVE  /\ FreshNext(admin'.new)
               /\ admin'.op = "refresh" => /\ admin'.new.grant = admin'.acct.cred.grant
                                           /\ "manual" \in gaps'
               /\ \A a \in Attempts : attempt'[a].pc = "answered" =>
                    admin'.new # Successor(attempt'[a].acct.cred)
    <2>m. "manual" \in gaps => "manual" \in gaps'
      BY MonotoneNext DEF Monotone
    <2>1. CASE /\ Bringing /\ ~UpdateAccount /\ admin'.new = admin.new /\ admin'.op = admin.op
               /\ admin'.acct.cred = admin.acct.cred
      <3>1. Fresh(admin.new) /\ admin.new \in Cred
        BY <2>1 DEF AnswerInv, TypeInv, AdminOK
      <3>2. ASSUME NEW b \in Attempts, attempt[b].pc = "answered"
            PROVE  admin.new # Successor(attempt[b].acct.cred)
        BY <2>1, <3>2 DEF AnswerInv
      <3>3. admin.new # account.cred
        BY <3>1 DEF Fresh
      <3>4. account'.cred # admin.new
        BY <2>1, <3>2, <3>3, AccountFrom
      <3>5. FreshNext(admin.new)
        BY <3>1, <3>4, FreshKept
      <3>6. ASSUME NEW a \in Attempts, attempt'[a].pc = "answered"
            PROVE  admin.new # Successor(attempt'[a].acct.cred)
        <4>1. CASE attempt[a].pc = "answered"
          BY <3>2, <3>6, <4>1, AnsweredNext
        <4>2. CASE Live(attempt[a].acct.cred) /\ attempt[a].acct.cred \in Usable
          <5>1. /\ Successor(attempt[a].acct.cred).grant = attempt[a].acct.cred.grant
                /\ Successor(attempt[a].acct.cred).gen # attempt[a].acct.cred.gen
            BY <4>2, Successors
          <5>2. admin.new # Successor(attempt[a].acct.cred)
            BY <3>1, <4>2, <5>1 DEF Fresh, Live
          <5> QED
            BY <3>6, <5>2, AnsweredNext
        <4> QED
          BY <3>6, <4>1, <4>2, AnsweredNext
      <3> QED
        BY <2>1, <2>m, <3>5, <3>6 DEF AnswerInv
    <2>2. CASE /\ AdminCall /\ admin.acct.cred \in Usable /\ Live(admin.acct.cred)
               /\ Rotate(admin.acct.cred) /\ gaps' = gaps \cup {"manual"}
               /\ admin'.acct = admin.acct /\ admin'.new = Successor(admin.acct.cred)
      <3>1. account' = account /\ attempt' = attempt
        BY <2>2 DEF AdminCall
      <3>2. FreshNext(admin'.new) /\ admin'.new.grant = admin'.acct.cred.grant
        BY <2>2, <3>1, RotatedFresh, Successors
      <3>3. ASSUME NEW a \in Attempts, attempt'[a].pc = "answered"
            PROVE  admin'.new # Successor(attempt'[a].acct.cred)
        <4>1. attempt[a].acct.cred \in Usable /\ ~Live(attempt[a].acct.cred)
          BY <3>1, <3>3, AnsweredDead
        <4> QED
          BY <2>2, <3>1, <4>1, SuccessorsDiffer
      <3> QED
        BY <2>2, <3>2, <3>3
    <2>3. ASSUME NEW g \in 1..MaxGrants, AdminStart("reauth"), admin'.op = "reauth",
                 live[g] = 0, live' = [live EXCEPT ![g] = 1],
                 admin'.new = [grant |-> g, gen |-> 1]
          PROVE  /\ FreshNext(admin'.new) /\ admin'.op # "refresh"
                 /\ \A a \in Attempts : attempt'[a].pc = "answered" =>
                      admin'.new # Successor(attempt'[a].acct.cred)
      <3>1. account' = account /\ attempt' = attempt
        BY <2>3 DEF AdminStart
      <3>2. FreshNext(admin'.new)
        BY <2>3, <3>1, UnusedFresh
      <3>3. ASSUME NEW a \in Attempts, attempt'[a].pc = "answered"
            PROVE  admin'.new # Successor(attempt'[a].acct.cred)
        <4>1. Live(Successor(attempt[a].acct.cred)) /\ Successor(attempt[a].acct.cred) \in Cred
          BY <3>1, <3>3, AnsweredDead DEF Fresh
        <4>2. Successor(attempt[a].acct.cred).gen > 0
          BY <4>1, Creds
        <4>3. Successor(attempt[a].acct.cred).grant # g
          BY <2>3, <4>1, <4>2 DEF Live
        <4> QED
          BY <2>3, <3>1, <4>3
      <3> QED
        BY <2>3, <3>2, <3>3
    <2> QED
      BY <1>3, <2>1, <2>2, <2>3, BringingFrom
  <1>4. Bringing' => Fresh(admin.new)'
    BY <1>3 DEF FreshNext, Fresh, Live
  <1> QED
    BY <1>1, <1>2, <1>3, <1>4 DEF AnswerInv

-----------------------------------------------------------------------------
(* Refused tokens stay refused; versions; the lease.                       *)

LEMMA DeadNext ==
  ASSUME TypeInv, KnownInv, DeadInv, [Next]_vars
  PROVE  DeadInv'
  <1> SUFFICES ASSUME NEW a \in Attempts, Denied(a)'
               PROVE  attempt'[a].acct.cred.gen < live'[attempt'[a].acct.cred.grant]
    BY DEF DeadInv, Dead
  <1> DEFINE c == attempt[a].acct.cred
  <1>1. CASE Denied(a) /\ attempt'[a].acct = attempt[a].acct
    <2>1. c \in Usable /\ c.gen < live[c.grant]
      BY <1>1 DEF TypeInv, AttemptsOK, DeadInv, Dead
    <2>2. c.gen \in Nat /\ c.grant \in 1..MaxGrants
      BY <2>1, Successors
    <2> HIDE DEF c
    <2>3. c.gen < live'[c.grant]
      BY <2>1, <2>2, LiveGrows, LiveType DEF TypeInv
    <2> QED
      BY <1>1, <2>3 DEF c
  <1>2. CASE Refresh(a)
    <2>1. AttemptsOK
      BY DEF TypeInv
    <2>2. /\ attempt[a].pc = "call" /\ ~Live(c) /\ live' = live
          /\ attempt'[a].acct = attempt[a].acct
      BY <1>2, <2>1, RefreshStep DEF Denied, Keeps
    <2>3. c \in Usable /\ Known(c)
      BY <2>1, <2>2 DEF AttemptsOK, KnownInv
    <2>4. c \in Cred /\ c # None /\ c.gen \in Nat /\ c.grant \in 1..MaxGrants
      BY <2>3, Successors
    <2> HIDE DEF c
    <2>5. live[c.grant] \in Int
      BY <2>4, LiveType DEF TypeInv
    <2>6. c.gen < live[c.grant]
      BY <2>2, <2>3, <2>4, <2>5 DEF Live, Known
    <2> QED
      BY <2>2, <2>6 DEF c
  <1> QED
    BY <1>1, <1>2, DeniedFrom

LEMMA VersionField ==
  ASSUME NEW r \in Row, NEW c, NEW n
  PROVE  [r EXCEPT !.cred = c, !.ver = n].ver = n
  BY DEF Row

\* Only storing an answer, or the administrator, changes the version.
LEMMA VersionMoves ==
  ASSUME TypeInv, [Next]_vars
  PROVE  \/ account'.ver = account.ver \/ UpdateAccount
         \/ \E b \in Attempts : Persist(b)
  <1>0. StoreOK /\ AttemptsOK /\ AdminOK /\ account \in Row
    BY DEF TypeInv, StoreOK
  <1>1. ASSUME NEW a \in Attempts, Refresh(a) \/ SetError(a) PROVE account'.ver = account.ver
    BY <1>0, <1>1, ErrorStep, SetStatus DEF Refresh
  <1>2. ASSUME NEW op \in {"refresh", "reauth", "edit"}, AdminStart(op) PROVE account' = account
    BY <1>2 DEF AdminStart
  <1>3. ClearAccountError => account'.ver = account.ver
    BY <1>0, Temps DEF ClearAccountError
  <1>4. AdminCall \/ AdminReread \/ AdminFails \/ AdminInvalidate => account' = account
    BY DEF AdminCall, AdminReread, AdminFails, AdminInvalidate
  <1>5. Minor => account'.ver = account.ver
    BY DEF Minor
  <1>6. Minor \/ Major
    BY <1>0, Classify
  <1> QED
    BY <1>1, <1>2, <1>3, <1>4, <1>5, <1>6 DEF Major

\* Only the administrator takes the version back.
LEMMA VersionFrom ==
  ASSUME TypeInv, [Next]_vars
  PROVE  /\ account'.ver \in Nat /\ account.ver \in Nat
         /\ UpdateAccount \/ account'.ver >= account.ver
  <1>0. StoreOK /\ AttemptsOK /\ AdminOK /\ account \in Row /\ account' \in Row
    BY NextType DEF TypeInv, StoreOK
  <1>1. account'.ver \in Nat /\ account.ver \in Nat
    BY <1>0, RowFields
  <1>2. ASSUME NEW a \in Attempts, Persist(a) PROVE account'.ver >= account.ver
    <2> DEFINE s == Successor(attempt[a].acct.cred)
               row == [account EXCEPT !.cred = s, !.ver = account.ver + 1]
    <2>1. row.ver = account.ver + 1
      BY <1>0, VersionField
    <2>2. account' = account \/ account' = row
      BY <1>0, <1>2, PersistStep
    <2> HIDE DEF row
    <2> QED
      BY <1>1, <2>1, <2>2
  <1> QED
    BY <1>1, <1>2, VersionMoves

LEMMA VersionNext ==
  ASSUME TypeInv, VersionInv, [Next]_vars
  PROVE  VersionInv'
  <1> DEFINE At == {"call", "reread", "write"}
  <1> SUFFICES ASSUME admin'.pc \in At PROVE admin'.acct.ver <= account'.ver
    BY DEF VersionInv
  <1>0. StoreOK /\ AttemptsOK /\ AdminOK
    BY DEF TypeInv
  <1>1. admin.pc \in At => admin.acct.ver \in Nat /\ admin.acct.ver <= account.ver
    BY <1>0, RowFields DEF AdminOK, VersionInv
  <1>2. UpdateAccount => admin'.pc \notin At
    BY <1>0, UpdateFields DEF AdminOK, Edits
  <1>3. admin' = admin => admin'.acct.ver <= account'.ver
    BY <1>1, <1>2, VersionFrom
  <1>4. CASE Minor
    BY <1>3, <1>4 DEF Minor
  <1>5. ASSUME NEW a \in Attempts, Refresh(a) \/ Persist(a) \/ SetError(a) PROVE admin' = admin
    BY <1>5 DEF Refresh, Persist, SetError
  <1>6. ASSUME NEW op \in {"refresh", "reauth", "edit"}, AdminStart(op)
        PROVE  admin'.acct = account /\ account' = account
    BY <1>0, <1>6, AdminStartFields DEF AdminStart
  <1>7. AdminCall => admin.pc \in At /\ admin'.acct = admin.acct /\ account' = account
    BY <1>0, AdminCallFields DEF AdminCall
  <1>8. AdminReread => /\ admin.pc \in At /\ account' = account
                       /\ admin'.acct.ver \in {admin.acct.ver, account.ver}
    BY <1>0, RereadFields DEF AdminReread
  <1>9. ClearAccountError \/ AdminInvalidate \/ AdminFails => admin'.pc \notin At
    BY <1>0, ClosingFields, FailsFields
  <1>10. Minor \/ Major
    BY <1>0, Classify
  <1>11. account.ver <= account.ver
    BY VersionFrom
  <1> HIDE DEF At
  <1> QED
    BY <1>1, <1>2, <1>3, <1>4, <1>5, <1>6, <1>7, <1>8, <1>9, <1>10, <1>11 DEF Major

LockMoves ==
    \/ lock' = lock \/ Tick
    \/ \E b \in Attempts : AcquireRefreshLock(b) /\ lock = Free
    \/ \E b \in Attempts : ReleaseRefreshLock(b)

LEMMA LockFrom ==
  ASSUME [Next]_vars
  PROVE  LockMoves
  <1>1. CASE \/ Expire \/ TempExpires \/ AdminCall \/ AdminReread \/ UpdateAccount
            \/ ClearAccountError
    BY <1>1 DEF LockMoves, Expire, TempExpires, AdminCall, AdminReread, UpdateAccount,
       ClearAccountError
  <1>2. CASE AdminInvalidate \/ AdminFails
    BY <1>2 DEF LockMoves, AdminInvalidate, AdminFails
  <1>3. ASSUME NEW a \in Attempts,
               \/ StartBackground(a) \/ GetAccessToken(a) \/ LockTimesOut(a)
               \/ Reread(a) \/ Refresh(a) \/ Persist(a)
        PROVE  LockMoves
    BY <1>3 DEF LockMoves, StartBackground, GetAccessToken, LockTimesOut, Reread, Refresh, Persist
  <1>4. ASSUME NEW a \in Attempts,
               \/ LoadDurable(a) \/ tryRecoverFromRefreshRace(a)
               \/ postRefreshActions(a) \/ SetError(a) \/ Retry(a)
               \/ SetTempUnschedulable(a)
        PROVE  LockMoves
    BY <1>4 DEF LockMoves, LoadDurable, tryRecoverFromRefreshRace, postRefreshActions,
       SetError, Retry, SetTempUnschedulable
  <1>5. ASSUME NEW a \in Attempts,
               \/ InvalidateToken(a) \/ AfterRefresh(a) \/ CheckTokenVersion(a)
               \/ SetAccessToken(a) \/ WaitCache(a) \/ WaitRow(a)
        PROVE  LockMoves
    BY <1>5 DEF LockMoves, InvalidateToken, AfterRefresh, CheckTokenVersion, SetAccessToken,
       WaitCache, WaitRow
  <1>6. ASSUME NEW op \in {"refresh", "reauth", "edit"},
               AdminStart(op)
        PROVE  LockMoves
    BY <1>6 DEF LockMoves, AdminStart
  <1>7. CASE Tick
    BY <1>7 DEF LockMoves
  <1>8. ASSUME NEW a \in Attempts, AcquireRefreshLock(a) PROVE LockMoves
    BY <1>8 DEF AcquireRefreshLock, LockMoves
  <1>9. ASSUME NEW a \in Attempts, ReleaseRefreshLock(a) PROVE LockMoves
    BY <1>9 DEF LockMoves
  <1>10. CASE UNCHANGED vars
    BY <1>10 DEF vars, LockMoves
  <1> QED
    BY <1>1, <1>2, <1>3, <1>4, <1>5, <1>6, <1>7, <1>8, <1>9, <1>10 DEF Next, Attempt, Admin

LEMMA LeaseNext ==
  ASSUME TypeInv, "lease" \in gaps \/ LeaseInv, [Next]_vars, "lease" \notin gaps'
  PROVE  LeaseInv /\ LeaseInv'
  <1>0. AttemptsOK /\ platform' = platform /\ "lease" \notin gaps
    BY MonotoneNext DEF Monotone, TypeInv
  <1>1. LeaseInv
    BY <1>0
  <1> SUFFICES ASSUME NEW a \in Attempts, Working(a)'
               PROVE  /\ attempt'[a].locked /\ lock'.by = a
                      /\ HasDeadline(a)' => lock'.age = attempt'[a].age
    BY <1>1 DEF LeaseInv
  <1>2. Refreshing(a)' /\ ~CtxDone(a)'
    BY DEF Working
  <1>3. CASE AcquireRefreshLock(a)
    <2>1. attempt'[a].pc \in {"read", "call", "answered", "denied"} /\ attempt'[a] # Idle
      BY <1>2, Flat DEF Refreshing
    <2>2. attempt'[a].age = 0
      BY <1>0, <1>3, <2>1, AcquireStep
    <2>3. lock' = [by |-> a, age |-> 0] /\ attempt'[a].locked
      BY <1>0, <1>3, <2>1, AcquireStep
    <2> QED
      BY <2>2, <2>3
  <1>4. CASE /\ Refreshing(a) /\ attempt'[a].kind = attempt[a].kind
             /\ attempt'[a].locked = attempt[a].locked
             /\ attempt'[a].age = attempt[a].age \/
                  (Tick /\ Working(a) /\ HasDeadline(a) /\ attempt'[a].age = attempt[a].age + 1)
    <2>1. attempt[a].age \in Nat /\ attempt'[a].age \in Nat /\ attempt'[a].age >= attempt[a].age
      BY <1>0, <1>4 DEF AttemptsOK, Tries
    <2>2. /\ HasDeadline(a)' <=> HasDeadline(a)
          /\ Deadline(a)' = Deadline(a) /\ ~CtxDone(a)
      BY <1>0, <1>2, <1>4, <2>1, Clocks
    <2>3. Working(a)
      BY <1>4, <2>2 DEF Working
    <2>4. attempt[a].locked /\ lock.by = a /\ (HasDeadline(a) => lock.age = attempt[a].age)
      BY <1>1, <2>3 DEF LeaseInv
    <2>5. lock # Free /\ lock \in [by: Attempts, age: 0..(LockTTL - 1)]
      BY <2>4 DEF Free, TypeInv, LockOK
    <2>6. CASE Tick
      <3> DEFINE ends == lock # Free /\ lock.age + 1 = LockTTL
      <3>1. ends => HasDeadline(a)
        <4>1. ends /\ ~HasDeadline(a) => "lease" \in gaps'
          BY <1>4, <2>4, <2>6 DEF Tick
        <4> QED
          BY <4>1
      <3>2. HasDeadline(a) => attempt'[a].age = attempt[a].age + 1
        BY <1>0, <2>3, <2>6 DEF Tick, AttemptsOK, Tries
      <3>3. HasDeadline(a) => attempt'[a].age < Deadline(a)
        <4>1. HasDeadline(a) => ~(attempt'[a].age >= Deadline(a))
          BY <1>2, <2>2 DEF CtxDone
        <4> QED
          BY <2>1, <4>1, DeadlineBound
      <3>4. ~ends
        BY <2>1, <2>4, <3>1, <3>2, <3>3, DeadlineBound
      <3>5. lock' = [lock EXCEPT !.age = @ + 1]
        BY <2>5, <2>6, <3>4 DEF Tick
      <3>6. lock'.by = a /\ lock'.age = lock.age + 1
        BY <2>4, <2>5, <3>5
      <3> QED
        BY <1>4, <2>2, <2>4, <3>2, <3>6
    <2>7. CASE ~Tick
      <3>1. ASSUME NEW b \in Attempts, ReleaseRefreshLock(b) PROVE lock' = lock
        <4>1. b # a
          BY <1>0, <1>4, <3>1, ReleaseStep DEF Refreshing
        <4>2. /\ attempt[b].pc = "release"
              /\ lock' = Free /\ lock # Free /\ lock.by # b => "lease" \in gaps'
          BY <3>1 DEF ReleaseRefreshLock
        <4> QED
          BY <1>0, <2>4, <2>5, <3>1, <4>1, <4>2, ReleaseStep
      <3>2. lock' = lock
        BY <2>5, <2>7, <3>1, LockFrom DEF LockMoves
      <3> QED
        BY <1>4, <2>2, <2>4, <2>7, <3>2
    <2> QED
      BY <2>6, <2>7
  <1> QED
    BY <1>2, <1>3, <1>4, RefreshingFrom

-----------------------------------------------------------------------------
(* The stored token, and tokens that are used up.                          *)

LEMMA BringingKept ==
  ASSUME TypeInv, [Next]_vars, Bringing, ~UpdateAccount, ~AdminFails
  PROVE  /\ Bringing' /\ admin'.op = admin.op /\ admin'.new = admin.new
         /\ admin'.acct.cred = admin.acct.cred
  <1>0. StoreOK /\ AttemptsOK /\ AdminOK /\ admin.pc \in {"reread", "write"} /\ admin.op # "edit"
    BY DEF TypeInv, Bringing
  <1>1. CASE admin' = admin
    BY <1>1 DEF Bringing
  <1>2. ASSUME NEW a \in Attempts, Refresh(a) \/ Persist(a) \/ SetError(a) PROVE admin' = admin
    BY <1>2 DEF Refresh, Persist, SetError
  <1>3. \A op \in {"refresh", "reauth", "edit"} : ~AdminStart(op)
    BY <1>0 DEF AdminStart
  <1>4. ~AdminCall /\ ~ClearAccountError /\ ~AdminInvalidate
    BY <1>0 DEF AdminCall, ClearAccountError, AdminInvalidate
  <1>5. CASE AdminReread
    BY <1>0, <1>5, RereadFields DEF Bringing
  <1>6. Minor \/ Major
    BY <1>0, Classify
  <1> QED
    BY <1>1, <1>2, <1>3, <1>4, <1>5, <1>6 DEF Major, Minor

LEMMA StaysClock ==
  ASSUME TypeInv, [Next]_vars, NEW b \in Attempts, Stays(b)
  PROVE  (CtxDone(b) => CtxDone(b)') /\ (Working(b)' => Working(b))
  <1>1. platform' = platform
    BY MonotoneNext DEF Monotone
  <1>2. attempt[b].age \in Nat /\ attempt'[b].age \in Nat /\ attempt'[b].age >= attempt[b].age
    BY DEF TypeInv, AttemptsOK, Tries, Stays
  <1>3. CtxDone(b) => CtxDone(b)'
    BY <1>1, <1>2, Clocks DEF Stays
  <1>4. Refreshing(b)' => Refreshing(b)
    BY DEF Stays, Refreshing
  <1> QED
    BY <1>3, <1>4 DEF Working

LEMMA CredField ==
  ASSUME NEW r \in Row, NEW s, NEW n
  PROVE  [r EXCEPT !.cred = s, !.ver = n].cred = s
  BY DEF Row

LEMMA StoredNext ==
  ASSUME TypeInv, AnswerInv, StoredInv, [Next]_vars, "clobbered" \notin gaps'
  PROVE  StoredInv'
  <1>0. StoreOK /\ AttemptsOK /\ AdminOK /\ account \in Row /\ account' \in Row
    BY NextType DEF TypeInv, StoreOK
  <1> DEFINE c == account.cred
  <1>r. c \in Cred /\ account'.cred \in Cred /\ account'.cred # None /\ c # None
    BY <1>0, RowFields, Creds
  <1>1. ASSUME NEW b \in Attempts, Persist(b), attempt[b].pc = "answered",
               account'.cred = Successor(attempt[b].acct.cred)
        PROVE  StoredInv'
    <2>1. Live(account'.cred) /\ live' = live
      BY <1>1, AnsweredDead DEF Fresh, Persist
    <2> QED
      BY <2>1 DEF StoredInv, Live
  <1>2. CASE UpdateAccount /\ admin.op # "edit"
    <2>1. admin.pc = "write" /\ account'.cred = admin.new /\ live' = live
      BY <1>0, <1>2, UpdateFields DEF UpdateAccount
    <2>2. Live(account'.cred)
      BY <1>2, <2>1 DEF AnswerInv, Bringing, Fresh
    <2> QED
      BY <2>1, <2>2 DEF StoredInv, Live
  <1>3. CASE account'.cred = c /\ ~(UpdateAccount /\ admin.op # "edit")
    <2>1. CASE Live(c)
      <3>1. CASE live'[c.grant] = c.gen
        BY <1>r, <1>3, <3>1 DEF StoredInv, Live
      <3>2. ASSUME NEW a \in Attempts, Refresh(a), attempt[a].acct.cred = c
            PROVE  StoredInv'
        <4>1. attempt'[a].pc = "answered" \/ c \in dropped' \/ live' = live
          BY <1>0, <3>2, RefreshStep
        <4>2. attempt'[a].acct.cred = c
          BY <1>0, <3>2, RefreshStep DEF Keeps
        <4>3. live' = live => Live(account.cred)'
          BY <1>3, <2>1 DEF Live
        <4> QED
          BY <1>3, <4>1, <4>2, <4>3 DEF StoredInv
      <3>3. CASE AdminCall /\ admin.acct.cred = c /\ Rotate(c)
        <4>1. live'[c.grant] = c.gen \/ (/\ admin'.pc = "reread" /\ admin'.op = admin.op
                                         /\ admin'.acct = admin.acct)
          BY <1>0, <2>1, <3>3, AdminCallFields DEF Live
        <4>2. admin.op = "refresh"
          BY <1>0, <3>3 DEF AdminCall, AdminOK
        <4>3. CASE live'[c.grant] = c.gen
          BY <1>r, <1>3, <4>3 DEF StoredInv, Live
        <4> QED
          BY <1>3, <3>3, <4>1, <4>2, <4>3 DEF StoredInv, Bringing
      <3> QED
        BY <1>r, <2>1, <3>1, <3>2, <3>3, LiveKept
    <2>2. CASE c \in dropped
      BY <1>3, <1>r, <2>2, MonotoneNext DEF Monotone, StoredInv
    <2>3. ASSUME NEW a \in Attempts, attempt[a].pc = "answered", attempt[a].acct.cred = c
          PROVE  StoredInv'
      <3>1. CASE Stays(a)
        BY <1>3, <2>3, <3>1 DEF Stays, StoredInv
      <3>2. CASE Persist(a)
        <4>1. account'.cred = Successor(c) => StoredInv'
          BY <1>1, <2>3, <3>2
        <4>2. c \in dropped' => StoredInv'
          BY <1>3 DEF StoredInv
        <4>3. c \in dropped' \/ account'.cred = Successor(c)
          <5>1. \/ attempt[a].acct.cred \in dropped'
                \/ account' = [account EXCEPT !.cred = Successor(attempt[a].acct.cred),
                                              !.ver = account.ver + 1]
            BY <1>0, <3>2, PersistStep
          <5>2. \/ c \in dropped'
                \/ account' = [account EXCEPT !.cred = Successor(c), !.ver = account.ver + 1]
            BY <2>3, <5>1
          <5>3. [account EXCEPT !.cred = Successor(c), !.ver = account.ver + 1].cred
                  = Successor(c)
            BY <1>0, CredField
          <5> QED
            BY <5>2, <5>3
        <4> QED
          BY <4>1, <4>2, <4>3
      <3> QED
        BY <2>3, <3>1, <3>2, AnsweredFrom
    <2>4. CASE Bringing /\ admin.op = "refresh" /\ admin.acct.cred = c
      <3>1. ~UpdateAccount
        BY <1>3, <2>4
      <3>2. CASE AdminFails
        <4>1. c \in dropped'
          BY <2>4, <3>2 DEF AdminFails
        <4> QED
          BY <1>3, <4>1 DEF StoredInv
      <3> QED
        BY <1>3, <2>4, <3>1, <3>2, BringingKept DEF StoredInv
    <2> QED
      BY <2>1, <2>2, <2>3, <2>4 DEF StoredInv
  <1>4. CASE UpdateAccount /\ admin.op = "edit"
    BY <1>0, <1>3, <1>4, UpdateFields
  <1> QED
    BY <1>1, <1>2, <1>3, <1>4, AccountFrom

SpentNext(c) ==
    \/ c \in dropped'
    \/ \E b \in Attempts : attempt'[b].pc = "answered" /\ CtxDone(b)'
                              /\ attempt'[b].acct.cred = c

LEMMA SpentKept ==
  ASSUME TypeInv, [Next]_vars, NEW c \in Cred, Spent(c)
  PROVE  SpentNext(c)
  <1>1. CASE c \in dropped
    BY <1>1, MonotoneNext DEF Monotone, SpentNext
  <1>2. ASSUME NEW b \in Attempts, attempt[b].pc = "answered", CtxDone(b),
               attempt[b].acct.cred = c
        PROVE  SpentNext(c)
    <2>1. CASE Stays(b)
      BY <1>2, <2>1, StaysClock DEF Stays, SpentNext
    <2>2. CASE Persist(b)
      BY <1>2, <2>2, PersistStep DEF SpentNext, TypeInv
    <2> QED
      BY <1>2, <2>1, <2>2, AnsweredFrom
  <1> QED
    BY <1>1, <1>2 DEF Spent

LEMMA OneWorks ==
  ASSUME TypeInv, LeaseInv, NEW a \in Attempts, NEW b \in Attempts, Working(a), Working(b)
  PROVE  a = b
  BY DEF LeaseInv

LEMMA UsedNext ==
  ASSUME TypeInv, KnownInv, AnswerInv, LeaseInv, StoredInv, UsedInv, [Next]_vars,
         gaps' \cap {"lease", "manual", "clobbered"} = {}
  PROVE  UsedInv'
  <1>0. StoreOK /\ AttemptsOK /\ AdminOK /\ account \in Row
    BY DEF TypeInv, StoreOK
  <1>m. "manual" \notin gaps /\ "manual" \notin gaps'
    BY MonotoneNext DEF Monotone
  <1>1. ASSUME NEW a \in Attempts, Working(a)', attempt'[a].pc = "call"
        PROVE  Live(attempt[a].acct.cred)' \/ SpentNext(attempt'[a].acct.cred)
    <2> DEFINE c == attempt[a].acct.cred
    <2>1. CASE Stays(a)
      <3>1. Working(a) /\ attempt[a].pc = "call" /\ attempt'[a].acct = attempt[a].acct
        BY <1>1, <2>1, StaysClock DEF Stays
      <3>2. c \in Usable /\ c \in Cred
        BY <1>0, <3>1, Successors DEF AttemptsOK
      <3>3. CASE Live(c)
        <4>1. ASSUME NEW b \in Attempts, Refresh(b), attempt[b].acct.cred = c
              PROVE  live'[c.grant] = c.gen
          <5>1. b # a
            BY <1>0, <1>1, <4>1, RefreshStep, Zenon
          <5>2. ~Working(b)
            BY <3>1, <5>1, OneWorks
          <5>3. CtxDone(b)
            BY <1>0, <4>1, <5>2, RefreshStep DEF Working, Refreshing
          <5> QED
            BY <1>0, <3>3, <4>1, <5>3, RefreshStep DEF Live
        <4>2. ASSUME AdminCall, admin.acct.cred = c, Rotate(c)
              PROVE  live'[c.grant] = c.gen
          BY <1>0, <1>m, <3>3, <4>2, AdminCallFields DEF Live
        <4>3. live'[c.grant] = c.gen
          BY <3>2, <3>3, <4>1, <4>2, LiveKept
        <4> QED
          BY <3>1, <3>3, <4>3 DEF Live
      <3>4. CASE Spent(c)
        BY <3>1, <3>2, <3>4, SpentKept
      <3> QED
        BY <3>1, <3>3, <3>4 DEF UsedInv
    <2>2. CASE Reread(a)
      <3>1. /\ attempt[a].pc = "read" /\ attempt'[a].acct = account /\ ~CtxDone(a)
            /\ account.cred \in Cred /\ live' = live
        BY <1>0, <1>1, <2>2, RereadStep, RowFields DEF Reread
      <3>2. Working(a)
        BY <3>1 DEF Working, Refreshing
      <3>3. CASE Live(account.cred)
        BY <3>1, <3>3 DEF Live
      <3>4. ASSUME NEW b \in Attempts, attempt[b].pc = "answered",
                   attempt[b].acct.cred = account.cred
            PROVE  Spent(account.cred)
        <4>1. ~Working(b)
          BY <3>1, <3>2, <3>4, OneWorks
        <4>2. CtxDone(b)
          BY <3>4, <4>1 DEF Working, Refreshing
        <4> QED
          BY <3>4, <4>2 DEF Spent
      <3>5. ~(Bringing /\ admin.op = "refresh")
        BY <1>m DEF AnswerInv
      <3>6. Live(account.cred) \/ Spent(account.cred)
        BY <3>4, <3>5 DEF StoredInv, Spent
      <3>7. Spent(account.cred) => SpentNext(account.cred)
        BY <3>1, SpentKept
      <3>8. CASE SpentNext(account.cred)
        BY <3>1, <3>8
      <3> QED
        BY <3>3, <3>6, <3>7, <3>8
    <2> QED
      BY <1>1, <2>1, <2>2, CallFrom
  <1>2. ASSUME NEW a \in Attempts, Refused(a)'
        PROVE  SpentNext(attempt'[a].acct.cred)
    <2> DEFINE c == attempt[a].acct.cred
    <2>1. c \in Cred /\ attempt'[a].acct = attempt[a].acct /\ Spent(c)
      <3>1. CASE Refused(a) /\ attempt'[a].acct = attempt[a].acct
        <4>1. Denied(a)
          BY <3>1 DEF Refused, Denied
        <4> QED
          BY <1>0, <3>1, <4>1, Successors DEF AttemptsOK, UsedInv
      <3>2. CASE Refresh(a)
        <4>1. /\ attempt[a].pc = "call" /\ ~CtxDone(a) /\ ~Live(c)
              /\ attempt'[a].acct = attempt[a].acct
          BY <1>0, <1>2, <3>2, RefreshStep DEF Refused, Keeps
        <4>2. Working(a)
          BY <4>1 DEF Working, Refreshing
        <4> QED
          BY <1>0, <4>1, <4>2, Successors DEF AttemptsOK, UsedInv
      <3> QED
        BY <1>2, <3>1, <3>2, RefusedFrom
    <2> QED
      BY <2>1, SpentKept
  <1>3. \A a \in Attempts :
          SpentNext(attempt'[a].acct.cred) => Spent(attempt[a].acct.cred)'
    BY DEF SpentNext, Spent
  <1> QED
    BY <1>1, <1>2, <1>3 DEF UsedInv

-----------------------------------------------------------------------------
(* Accounts in error.                                                      *)

LEMMA KnownLive ==
  ASSUME TypeInv, [Next]_vars, NEW c \in Cred, Known(c), live'[c.grant] = c.gen
  PROVE  Live(c)
  <1>1. c # None /\ c.gen \in Nat /\ c.grant \in 1..MaxGrants /\ c.gen <= live[c.grant]
    BY Creds DEF Known
  <1>2. live'[c.grant] >= live[c.grant] /\ live[c.grant] \in Int
    BY <1>1, LiveGrows, LiveType DEF TypeInv
  <1> QED
    BY <1>1, <1>2 DEF Live

\* Who may store an answer in the next state may do so now, or has just read
\* the account.
LEMMA UsingFrom ==
  ASSUME TypeInv, KnownInv, [Next]_vars, NEW b \in Attempts, Using(b)'
  PROVE  \/ Using(b)
         \/ /\ Reread(b) /\ account' = account /\ account.status = "active"
            /\ Live(account.cred)
  <1>0. AttemptsOK /\ StoreOK /\ account.cred \in Cred
    BY RowFields DEF TypeInv, StoreOK
  <1>1. CASE attempt'[b].pc = "answered"
    <2>1. CASE Stays(b)
      BY <1>1, <2>1, StaysClock DEF Using, Stays
    <2>2. CASE Refresh(b)
      <3>1. attempt[b].pc = "call" /\ ~CtxDone(b) /\ Live(attempt[b].acct.cred)
        BY <1>0, <1>1, <2>2, RefreshStep DEF Denied
      <3> QED
        BY <3>1 DEF Using, Working, Refreshing
    <2> QED
      BY <1>1, <2>1, <2>2, AnsweredFrom
  <1>2. CASE attempt'[b].pc = "call" /\ Live(attempt[b].acct.cred)'
    <2>1. CASE Stays(b)
      <3>1. Working(b) /\ attempt[b].pc = "call" /\ attempt'[b].acct = attempt[b].acct
        BY <1>2, <2>1, StaysClock DEF Using, Stays
      <3>2. attempt[b].acct.cred \in Cred /\ Known(attempt[b].acct.cred)
        BY <1>0, <3>1, Successors DEF AttemptsOK, KnownInv
      <3>3. Live(attempt[b].acct.cred)
        BY <1>2, <3>1, <3>2, KnownLive DEF Live
      <3> QED
        BY <3>1, <3>3 DEF Using
    <2>2. CASE Reread(b)
      <3>1. attempt'[b].acct = account /\ account.status = "active" /\ live' = live
        BY <1>0, <1>2, <2>2, RereadStep DEF Reread
      <3>2. account' = account
        BY <2>2 DEF Reread
      <3>3. Live(account.cred)
        BY <1>2, <3>1 DEF Live
      <3> QED
        BY <2>2, <3>1, <3>2, <3>3
    <2> QED
      BY <1>2, <2>1, <2>2, CallFrom
  <1> QED
    BY <1>1, <1>2 DEF Using

LEMMA DeadKept ==
  ASSUME TypeInv, [Next]_vars, NEW c \in Cred, Dead(c)
  PROVE  c.gen < live'[c.grant] /\ ~Live(c)
  <1>1. c.gen \in Nat /\ c.grant \in 1..MaxGrants
    BY Creds
  <1>2. live'[c.grant] >= live[c.grant] /\ live[c.grant] \in Int /\ live'[c.grant] \in Int
    BY <1>1, LiveGrows, LiveType DEF TypeInv
  <1> QED
    BY <1>1, <1>2 DEF Live, Dead

LEMMA StatusField ==
  ASSUME NEW r \in Row, NEW s, NEW n
  PROVE  [r EXCEPT !.cred = s, !.ver = n].status = r.status
  BY DEF Row

\* Where the status comes from.
LEMMA StatusFrom ==
  ASSUME TypeInv, [Next]_vars
  PROVE  \/ account'.status = account.status /\ ~UpdateAccount /\ ~ClearAccountError
         \/ /\ account'.status = "error" /\ account'.cred = account.cred
            /\ \E a \in Attempts : SetError(a) /\ Denied(a) /\
                 \/ account.cred = attempt[a].acct.cred
                 \/ platform = "openai" /\ "late" \in gaps'
         \/ UpdateAccount /\ admin.pc = "write" /\ account'.status = admin.acct.status
         \/ ClearAccountError /\ (account'.status = "active" \/ "uncleared" \in gaps')
  <1>0. StoreOK /\ AttemptsOK /\ AdminOK /\ account \in Row
    BY DEF TypeInv, StoreOK
  <1> DEFINE Kept == account'.status = account.status
             Goal == \/ Kept /\ ~UpdateAccount /\ ~ClearAccountError
                     \/ /\ account'.status = "error" /\ account'.cred = account.cred
                        /\ \E a \in Attempts : SetError(a) /\ Denied(a) /\
                             \/ account.cred = attempt[a].acct.cred
                             \/ platform = "openai" /\ "late" \in gaps'
                     \/ UpdateAccount /\ admin.pc = "write" /\ account'.status = admin.acct.status
                     \/ ClearAccountError /\ (account'.status = "active" \/ "uncleared" \in gaps')
  <1>1. UpdateAccount => Goal
    BY <1>0, UpdateFields
  <1>2. ClearAccountError => Goal
    BY <1>0, Temps DEF ClearAccountError
  <1>3. ASSUME NEW a \in Attempts, SetError(a) PROVE Goal \/ Kept
    <2>1. account' = account \/ account' = [account EXCEPT !.status = "error"]
      BY <1>0, <1>3, ErrorStep
    <2>2. CASE account' = account
      BY <2>2
    <2>3. CASE account' = [account EXCEPT !.status = "error"]
      <3>1. account'.status = "error" /\ account'.cred = account.cred
        BY <1>0, <2>3, SetStatus
      <3>2. Denied(a)
        BY <1>0, <1>3, ErrorStep
      <3>3. CASE account' = account
        BY <3>3
      <3>4. CASE account' # account
        <4>1. account.cred = attempt[a].acct.cred \/ (platform = "openai" /\ "late" \in gaps')
          BY <1>0, <1>3, <3>4, ErrorStep
        <4> QED
          BY <1>3, <3>1, <3>2, <4>1
      <3> QED
        BY <3>3, <3>4
    <2> QED
      BY <2>1, <2>2, <2>3
  <1>4. ASSUME NEW a \in Attempts, Persist(a) PROVE Kept
    <2> DEFINE s == Successor(attempt[a].acct.cred)
               row == [account EXCEPT !.cred = s, !.ver = account.ver + 1]
    <2>2. account' = account \/ account' = row
      BY <1>0, <1>4, PersistStep
    <2> HIDE DEF s
    <2>1. row.status = account.status
      BY <1>0, StatusField
    <2> HIDE DEF row
    <2> QED
      BY <2>1, <2>2
  <1>5. ASSUME NEW a \in Attempts, Refresh(a) PROVE Kept
    BY <1>5 DEF Refresh
  <1>6. ASSUME NEW op \in {"refresh", "reauth", "edit"}, AdminStart(op) PROVE Kept
    BY <1>6 DEF AdminStart
  <1>7. AdminCall \/ AdminReread \/ AdminFails \/ AdminInvalidate => Kept
    BY DEF AdminCall, AdminReread, AdminFails, AdminInvalidate
  <1>8. Minor => Kept
    BY DEF Minor
  <1>9. Minor \/ Major
    BY <1>0, Classify
  <1>10. Goal \/ Kept
    <2> HIDE DEF Goal, Kept
    <2> QED
      BY <1>1, <1>2, <1>3, <1>4, <1>5, <1>6, <1>7, <1>8, <1>9 DEF Major
  <1>11. Goal
    <2>1. CASE UpdateAccount \/ ClearAccountError
      <3> HIDE DEF Goal
      <3> QED
        BY <2>1, <1>1, <1>2
    <2>2. CASE ~UpdateAccount /\ ~ClearAccountError
      BY <2>2, <1>10
    <2> QED
      BY <2>1, <2>2
  <1> QED
    BY <1>11

LEMMA WriteFrom ==
  ASSUME TypeInv, [Next]_vars, admin'.pc = "write"
  PROVE  \/ admin' = admin /\ ~UpdateAccount /\ ~ClearAccountError
         \/ /\ admin.pc = "reread" /\ account' = account /\ live' = live /\ attempt' = attempt
            /\ admin'.op = admin.op /\ admin'.acct.status = account.status
            /\ admin.op = "edit" => admin'.acct = account
  <1>0. StoreOK /\ AttemptsOK /\ AdminOK
    BY DEF TypeInv
  <1>1. ~UpdateAccount
    BY <1>0, UpdateFields DEF AdminOK, Edits
  <1>2. ~ClearAccountError /\ ~AdminInvalidate /\ ~AdminFails
    BY <1>0, ClosingFields, FailsFields
  <1>3. ~AdminCall
    BY <1>0, AdminCallFields
  <1>4. \A op \in {"refresh", "reauth", "edit"} : ~AdminStart(op)
    BY <1>0, AdminStartFields
  <1>5. CASE AdminReread
    BY <1>0, <1>5, RereadFields DEF AdminReread
  <1>6. ASSUME NEW a \in Attempts, Refresh(a) \/ Persist(a) \/ SetError(a) PROVE admin' = admin
    BY <1>6 DEF Refresh, Persist, SetError
  <1>7. Minor => admin' = admin
    BY DEF Minor
  <1>8. Minor \/ Major
    BY <1>0, Classify
  <1> QED
    BY <1>1, <1>2, <1>3, <1>4, <1>5, <1>6, <1>7, <1>8 DEF Major

\* What an attempt reads again is active.
LEMMA RereadActive ==
  ASSUME TypeInv, [Next]_vars, NEW b \in Attempts, Reread(b), account.status = "active"
  PROVE  account'.status = "active"
  BY DEF Reread

LEMMA NobodyUsing ==
  ASSUME TypeInv, KnownInv, [Next]_vars, \A b \in Attempts : ~Using(b),
         account'.status = "error" \/ ~Live(account.cred)
  PROVE  \A b \in Attempts : ~Using(b)'
  BY UsingFrom, RereadActive

\* The token a refused attempt used stays unlike the row's, unless an edit
\* writes it back.
LEMMA DeniedMatch ==
  ASSUME TypeInv, AnswerInv, [Next]_vars, NEW a \in Attempts, account'.cred = attempt[a].acct.cred
  PROVE  \/ account.cred = attempt[a].acct.cred
         \/ EditWrite /\ admin.acct.cred = attempt[a].acct.cred
  <1>1. ASSUME NEW b \in Attempts, attempt[b].pc = "answered"
        PROVE  Successor(attempt[b].acct.cred) # attempt[a].acct.cred
    BY <1>1, AnsweredDead DEF Fresh
  <1>2. admin.pc = "write" /\ admin.op # "edit" => admin.new # attempt[a].acct.cred
    BY DEF AnswerInv, Bringing, Fresh
  <1> QED
    BY <1>1, <1>2, AccountFrom DEF EditWrite

LEMMA ErrorOne ==
  ASSUME TypeInv, KnownInv, AnswerInv, DeadInv, ErrorInv, [Next]_vars, Calm', InError'
  PROVE  Dead(account.cred)' /\ \A b \in Attempts : ~Using(b)'
  <1>0. StoreOK /\ AttemptsOK /\ AdminOK /\ account \in Row /\ account.cred \in Cred
    BY RowFields DEF TypeInv, StoreOK
  <1>m. /\ "manual" \notin gaps /\ "uncleared" \notin gaps' /\ platform' = platform
        /\ ~(platform = "openai" /\ "late" \in gaps')
    BY MonotoneNext DEF Monotone, Calm
  <1>1. account'.status = "error" /\ admin'.pc # "clear"
    BY DEF InError
  <1>2. CASE account'.status = account.status /\ ~UpdateAccount /\ ~ClearAccountError
    <2>1. admin.pc # "clear"
      <3> SUFFICES ASSUME admin.pc = "clear" PROVE FALSE
        OBVIOUS
      <3>1. \A op \in {"refresh", "reauth", "edit"} : ~AdminStart(op)
        BY DEF AdminStart
      <3>2. ~AdminCall /\ ~AdminReread /\ ~AdminFails /\ ~AdminInvalidate
        BY DEF AdminCall, AdminReread, AdminFails, AdminInvalidate
      <3>3. ASSUME NEW a \in Attempts, Refresh(a) \/ Persist(a) \/ SetError(a) PROVE admin' = admin
        BY <3>3 DEF Refresh, Persist, SetError
      <3>4. Minor \/ Major
        BY <1>0, Classify
      <3> QED
        BY <1>1, <1>2, <3>1, <3>2, <3>3, <3>4 DEF Major, Minor
    <2>2. Dead(account.cred) /\ \A b \in Attempts : ~Using(b)
      BY <1>1, <1>2, <2>1 DEF ErrorInv, InError
    <2>3. account'.cred = account.cred
      <3>1. ASSUME NEW b \in Attempts, ~CtxDone(b), attempt[b].pc = "answered" PROVE FALSE
        BY <2>2, <3>1 DEF Using, Working, Refreshing
      <3> QED
        BY <1>2, <3>1, AccountFrom
    <2>4. Dead(account.cred)'
      BY <1>0, <2>2, <2>3, DeadKept DEF Dead
    <2> QED
      BY <1>1, <2>2, <2>4, NobodyUsing
  <1>3. ASSUME NEW a \in Attempts, SetError(a), Denied(a), account.cred = attempt[a].acct.cred,
               account'.cred = account.cred
        PROVE  Dead(account.cred)' /\ \A b \in Attempts : ~Using(b)'
    <2>1. Dead(account.cred) /\ \A b \in Attempts : ~Using(b)
      BY <1>3 DEF DeadInv, ErrorInv
    <2>2. Dead(account.cred)'
      BY <1>0, <1>3, <2>1, DeadKept DEF Dead
    <2> QED
      BY <1>1, <2>1, <2>2, NobodyUsing
  <1>4. CASE UpdateAccount /\ admin.pc = "write" /\ account'.status = admin.acct.status
    <2>1. /\ admin.op \in {"refresh", "reauth", "edit"}
          /\ admin.op = "reauth" => admin'.pc = "clear"
      BY <1>0, <1>4, UpdateFields DEF AdminOK, Edits
    <2>2. admin.op # "refresh"
      BY <1>m, <1>4 DEF AnswerInv, Bringing
    <2>3. EditWrite
      BY <1>1, <1>4, <2>1, <2>2 DEF EditWrite
    <2>4. Dead(admin.acct.cred) /\ account.status = "error"
      BY <1>1, <1>4, <2>3 DEF ErrorInv
    <2>5. \A b \in Attempts : ~Using(b)
      BY <1>4, <2>4 DEF ErrorInv, InError
    <2>6. account'.cred = admin.acct.cred /\ account'.cred \in Cred /\ live' = live
      BY <1>0, <1>4, <2>3, UpdateFields DEF EditWrite, UpdateAccount
    <2>7. Dead(account.cred)'
      BY <2>4, <2>6 DEF Dead
    <2> QED
      BY <1>1, <2>5, <2>7, NobodyUsing
  <1> QED
    BY <1>1, <1>m, <1>2, <1>3, <1>4, StatusFrom

LEMMA ErrorTwo ==
  ASSUME TypeInv, KnownInv, AnswerInv, DeadInv, LeaseInv, ErrorInv, [Next]_vars,
         NEW a \in Attempts, Denied(a)', attempt'[a].acct.cred = account'.cred
  PROVE  \A b \in Attempts : ~Using(b)'
  <1>0. StoreOK /\ AttemptsOK /\ AdminOK /\ account.cred \in Cred
    BY RowFields DEF TypeInv, StoreOK
  <1>1. CASE Denied(a) /\ attempt'[a].acct = attempt[a].acct
    <2>1. attempt[a].acct.cred \in Cred /\ Dead(attempt[a].acct.cred)
      BY <1>0, <1>1, Successors DEF AttemptsOK, DeadInv
    <2>2. account.cred = attempt[a].acct.cred
      BY <1>1, DeniedMatch DEF ErrorInv
    <2>3. \A b \in Attempts : ~Using(b)
      BY <1>1, <2>2 DEF ErrorInv
    <2>4. ~Live(account.cred)
      BY <2>1, <2>2, DeadKept
    <2> QED
      BY <2>3, <2>4, NobodyUsing
  <1>2. CASE Refresh(a)
    <2>1. /\ attempt[a].pc = "call" /\ ~CtxDone(a) /\ ~Live(attempt[a].acct.cred)
          /\ attempt'[a].acct = attempt[a].acct /\ account' = account
      BY <1>0, <1>2, RefreshStep DEF Denied, Keeps, Refresh
    <2>2. Working(a) /\ ~Using(a)
      BY <2>1 DEF Working, Refreshing, Using
    <2>3. \A b \in Attempts : ~Using(b)
      BY <2>2, OneWorks DEF Using
    <2> QED
      BY <2>1, <2>3, NobodyUsing
  <1> QED
    BY <1>1, <1>2, DeniedFrom

LEMMA ErrorThree ==
  ASSUME TypeInv, KnownInv, AnswerInv, LeaseInv, ErrorInv, [Next]_vars, EditWrite',
         NEW a \in Attempts, Denied(a)' \/ (Working(a)' /\ attempt'[a].pc = "call"),
         admin'.acct.cred = attempt'[a].acct.cred
  PROVE  account'.cred = admin'.acct.cred
  <1>0. StoreOK /\ AttemptsOK /\ AdminOK
    BY DEF TypeInv
  <1>1. CASE admin' = admin /\ ~UpdateAccount
    <2>1. EditWrite
      BY <1>1 DEF EditWrite
    <2>2. CASE Reread(a)
      <3>1. account' = account
        BY <2>2 DEF Reread
      <3>2. ~Denied(a)' /\ (attempt'[a].pc = "call" => attempt'[a].acct = account)
        BY <1>0, <2>2, RereadStep DEF Denied
      <3>3. attempt'[a].acct = account
        BY <3>2
      <3> QED
        BY <3>1, <3>3
    <2>3. CASE /\ Denied(a) \/ (Working(a) /\ attempt[a].pc = "call")
               /\ attempt'[a].acct = attempt[a].acct
      <3>1. account.cred = admin.acct.cred
        BY <1>1, <2>1, <2>3 DEF ErrorInv
      <3>2. ASSUME NEW b \in Attempts, ~CtxDone(b), attempt[b].pc = "answered"
            PROVE  FALSE
        <4>1. Using(b) /\ Working(b)
          BY <3>2 DEF Using, Working, Refreshing
        <4>2. ~Denied(a)
          BY <1>1, <2>3, <3>1, <4>1 DEF ErrorInv
        <4>3. a = b
          BY <2>3, <4>1, <4>2, OneWorks
        <4> QED
          BY <2>3, <3>2, <4>2, <4>3
      <3> QED
        BY <1>1, <3>1, <3>2, AccountFrom
    <2>4. Denied(a)' => /\ Denied(a) \/ (Working(a) /\ attempt[a].pc = "call")
                        /\ attempt'[a].acct = attempt[a].acct
      <3>1. CASE Denied(a)' /\ Refresh(a)
        <4>1. /\ attempt[a].pc = "call" /\ ~CtxDone(a)
              /\ attempt'[a].acct = attempt[a].acct
          BY <1>0, <3>1, RefreshStep DEF Denied, Keeps
        <4> QED
          BY <4>1 DEF Working, Refreshing
      <3> QED
        BY <3>1, DeniedFrom
    <2>5. Working(a)' /\ attempt'[a].pc = "call" /\ Stays(a)
            => Working(a) /\ attempt[a].pc = "call" /\ attempt'[a].acct = attempt[a].acct
      BY StaysClock DEF Stays
    <2> QED
      BY <2>2, <2>3, <2>4, <2>5, CallFrom
  <1>2. CASE /\ account' = account /\ admin'.op = admin.op
             /\ admin.op = "edit" => admin'.acct = account
    BY <1>2 DEF EditWrite
  <1> QED
    BY <1>1, <1>2, WriteFrom DEF EditWrite

LEMMA ErrorNext ==
  ASSUME TypeInv, KnownInv, AnswerInv, DeadInv, LeaseInv, ErrorInv, [Next]_vars, Calm'
  PROVE  ErrorInv'
  <1>0. StoreOK /\ AttemptsOK /\ AdminOK
    BY DEF TypeInv
  <1>1. ASSUME admin'.pc = "write", admin'.acct.status = "error"
        PROVE  account'.status = "error"
    <2>1. CASE admin' = admin /\ ~UpdateAccount /\ ~ClearAccountError
      <3>1. account.status = "error"
        BY <1>1, <2>1 DEF ErrorInv
      <3> QED
        BY <2>1, <3>1, StatusFrom
    <2>2. CASE account' = account /\ admin'.acct.status = account.status
      BY <1>1, <2>2
    <2> QED
      BY <1>1, <2>1, <2>2, WriteFrom
  <1>2. ASSUME EditWrite', admin'.acct.status = "error"
        PROVE  Dead(admin.acct.cred)'
    <2>1. CASE admin' = admin
      <3>1. admin.acct \in Row /\ Dead(admin.acct.cred)
        BY <1>0, <1>2, <2>1 DEF AdminOK, ErrorInv, EditWrite
      <3>2. admin.acct.cred \in Cred
        BY <3>1, RowFields
      <3> QED
        BY <2>1, <3>1, <3>2, DeadKept DEF Dead
    <2>2. CASE /\ admin.pc = "reread" /\ account' = account /\ live' = live
               /\ admin'.acct.status = account.status /\ admin'.acct = account
      <3>1. Dead(account.cred)
        BY <1>2, <2>2 DEF ErrorInv, InError
      <3> QED
        BY <2>2, <3>1 DEF Dead
    <2> QED
      BY <1>2, <2>1, <2>2, WriteFrom DEF EditWrite
  <1>3. InError' => Dead(account.cred)' /\ \A a \in Attempts : ~Using(a)'
    BY ErrorOne
  <1>4. \A a \in Attempts :
          Denied(a)' /\ attempt'[a].acct.cred = account'.cred => \A b \in Attempts : ~Using(b)'
    BY ErrorTwo
  <1>5. \A a \in Attempts :
          /\ Denied(a)' \/ (Working(a)' /\ attempt'[a].pc = "call")
          /\ EditWrite' /\ admin'.acct.cred = attempt'[a].acct.cred
          => account'.cred = admin'.acct.cred
    BY ErrorThree
  <1> QED
    BY <1>1, <1>2, <1>3, <1>4, <1>5 DEF ErrorInv

-----------------------------------------------------------------------------
(* The login of the row.                                                   *)

\* The administrator's login is the last one brought.
LEMMA LoginFrom ==
  ASSUME TypeInv, [Next]_vars
  PROVE  /\ ~UpdateAccount => admin'.grant = admin.grant
         /\ UpdateAccount =>
              /\ admin.op = "edit" => account'.cred = admin.acct.cred /\ admin'.grant = admin.grant
              /\ admin.op = "refresh" => account'.cred = admin.new /\ admin'.grant = admin.grant
              /\ admin.op = "reauth" => admin'.grant = account'.cred.grant
              /\ admin.op \in {"refresh", "reauth", "edit"} /\ admin.pc = "write"
              /\ admin.op = "edit" /\ account'.cred # account.cred => "clobbered" \in gaps'
  <1>0. StoreOK /\ AttemptsOK /\ AdminOK
    BY DEF TypeInv
  <1>1. Minor => admin' = admin
    BY DEF Minor
  <1>2. ASSUME NEW a \in Attempts, Refresh(a) \/ Persist(a) \/ SetError(a) PROVE admin' = admin
    BY <1>2 DEF Refresh, Persist, SetError
  <1>3. ASSUME NEW op \in {"refresh", "reauth", "edit"}, AdminStart(op)
        PROVE  admin'.grant = admin.grant
    BY <1>0, <1>3, AdminStartFields
  <1>4. AdminCall => admin'.grant = admin.grant
    BY <1>0, AdminCallFields
  <1>5. AdminReread => admin'.grant = admin.grant
    BY <1>0, RereadFields
  <1>6. ClearAccountError \/ AdminInvalidate \/ AdminFails => admin'.grant = admin.grant
    BY <1>0, ClosingFields, FailsFields
  <1>7. Minor \/ Major
    BY <1>0, Classify
  <1>8. ~UpdateAccount => admin'.grant = admin.grant
    BY <1>1, <1>2, <1>3, <1>4, <1>5, <1>6, <1>7 DEF Major
  <1>9. UpdateAccount => admin.op \in {"refresh", "reauth", "edit"}
    BY <1>0 DEF AdminOK, Edits
  <1> QED
    BY <1>0, <1>8, <1>9, UpdateFields

LEMMA GrantNext ==
  ASSUME TypeInv, AnswerInv, GrantInv, [Next]_vars,
         platform = "grok", "clobbered" \notin gaps'
  PROVE  GrantInv'
  <1>0. StoreOK /\ AttemptsOK /\ AdminOK /\ account \in Row
    BY DEF TypeInv, StoreOK
  <1>1. account'.cred.grant = admin'.grant
    <2>1. CASE UpdateAccount
      <3>1. CASE admin.op = "edit"
        BY <2>1, <3>1, LoginFrom DEF GrantInv
      <3>2. CASE admin.op = "refresh"
        <4>1. admin.new.grant = admin.acct.cred.grant /\ admin.acct.cred.grant = admin.grant
          BY <2>1, <3>2, LoginFrom DEF AnswerInv, Bringing, GrantInv
        <4> QED
          BY <2>1, <3>2, <4>1, LoginFrom
      <3>3. CASE admin.op = "reauth"
        BY <2>1, <3>3, LoginFrom
      <3> QED
        BY <2>1, <3>1, <3>2, <3>3, LoginFrom
    <2>2. ASSUME NEW b \in Attempts, Persist(b), attempt[b].pc = "answered",
                 account'.cred = Successor(attempt[b].acct.cred)
          PROVE  account'.cred.grant = account.cred.grant
      <3>1. attempt[b].acct.cred \in Usable
        BY <2>2, AnsweredDead
      <3>4. Successor(attempt[b].acct.cred).grant = attempt[b].acct.cred.grant
        BY <3>1, Successors
      <3>2. account'.cred.grant = attempt[b].acct.cred.grant
        BY <2>2, <3>4
      <3>3. account' = account \/ account.cred = attempt[b].acct.cred
        BY <1>0, <2>2, PersistStep
      <3> QED
        BY <3>2, <3>3
    <2>3. CASE ~UpdateAccount
      BY <2>2, <2>3, AccountFrom, LoginFrom DEF GrantInv
    <2> QED
      BY <2>1, <2>3
  <1>2. ASSUME admin'.op = "refresh", admin'.pc \in {"call", "reread", "write"}
        PROVE  admin'.acct.cred.grant = admin'.grant
    <2>1. ~UpdateAccount
      BY <1>0, <1>2, UpdateFields DEF AdminOK, Edits
    <2>2. admin'.grant = admin.grant
      BY <2>1, LoginFrom
    <2>3. CASE admin' = admin
      BY <1>2, <2>3 DEF GrantInv
    <2>4. ASSUME NEW op \in {"refresh", "reauth", "edit"}, AdminStart(op)
          PROVE  admin'.acct = account
      BY <1>0, <2>4, AdminStartFields
    <2>5. CASE \E op \in {"refresh", "reauth", "edit"} : AdminStart(op)
      BY <2>2, <2>4, <2>5 DEF GrantInv
    <2>6. CASE AdminCall
      <3>1. admin.pc = "call" /\ admin'.op = admin.op /\ admin'.acct = admin.acct
        BY <1>0, <1>2, <2>6, AdminCallFields
      <3> QED
        BY <1>2, <2>2, <3>1 DEF GrantInv
    <2>7. CASE AdminReread
      <3>1. /\ admin.pc = "reread" /\ admin'.op = admin.op
            /\ admin'.acct.cred = admin.acct.cred
        BY <1>0, <1>2, <2>7, RereadFields
      <3> QED
        BY <1>2, <2>2, <3>1 DEF GrantInv
    <2>8. ~ClearAccountError /\ ~AdminInvalidate /\ ~AdminFails
      BY <1>0, <1>2, ClosingFields, FailsFields
    <2>9. ASSUME NEW a \in Attempts, Refresh(a) \/ Persist(a) \/ SetError(a) PROVE admin' = admin
      BY <2>9 DEF Refresh, Persist, SetError
    <2>10. Minor => admin' = admin
      BY DEF Minor
    <2>11. Minor \/ Major
      BY <1>0, Classify
    <2> QED
      BY <2>1, <2>3, <2>5, <2>6, <2>7, <2>8, <2>9, <2>10, <2>11 DEF Major
  <1> QED
    BY <1>1, <1>2 DEF GrantInv

-----------------------------------------------------------------------------
(* The cached token.                                                       *)

CacheMoves ==
    \/ cache' = cache \/ cache' = None
    \/ \E a \in Attempts : SetAccessToken(a)

LEMMA CacheFrom ==
  ASSUME [Next]_vars
  PROVE  CacheMoves
  <1>1. CASE \/ Expire \/ Tick \/ TempExpires \/ AdminCall \/ AdminReread
            \/ UpdateAccount
    BY <1>1 DEF Expire, CacheMoves, Tick, TempExpires, AdminCall, AdminReread, UpdateAccount
  <1>2. CASE ClearAccountError \/ AdminInvalidate \/ AdminFails
    BY <1>2 DEF ClearAccountError, CacheMoves, AdminInvalidate, AdminFails
  <1>3. ASSUME NEW a \in Attempts,
               \/ StartBackground(a) \/ GetAccessToken(a) \/ AcquireRefreshLock(a)
               \/ LockTimesOut(a) \/ Reread(a) \/ Refresh(a)
        PROVE  CacheMoves
    BY <1>3 DEF StartBackground, CacheMoves, GetAccessToken, AcquireRefreshLock,
       LockTimesOut, Reread, Refresh
  <1>4. ASSUME NEW a \in Attempts,
               \/ Persist(a) \/ tryRecoverFromRefreshRace(a) \/ ReleaseRefreshLock(a)
               \/ postRefreshActions(a) \/ SetError(a) \/ Retry(a)
        PROVE  CacheMoves
    BY <1>4 DEF Persist, CacheMoves, tryRecoverFromRefreshRace, ReleaseRefreshLock,
       postRefreshActions, SetError, Retry
  <1>5. ASSUME NEW a \in Attempts,
               \/ SetTempUnschedulable(a) \/ AfterRefresh(a) \/ CheckTokenVersion(a)
               \/ WaitCache(a) \/ WaitRow(a)
        PROVE  CacheMoves
    BY <1>5 DEF SetTempUnschedulable, CacheMoves, AfterRefresh, CheckTokenVersion, WaitCache,
       WaitRow
  <1>6. ASSUME NEW op \in {"refresh", "reauth", "edit"},
               AdminStart(op)
        PROVE  CacheMoves
    BY <1>6 DEF AdminStart, CacheMoves
  <1>7. ASSUME NEW a \in Attempts, LoadDurable(a) PROVE CacheMoves
    BY <1>7 DEF CacheMoves, LoadDurable
  <1>8. ASSUME NEW a \in Attempts, InvalidateToken(a) PROVE CacheMoves
    BY <1>8 DEF CacheMoves, InvalidateToken
  <1>9. ASSUME NEW a \in Attempts, SetAccessToken(a) PROVE CacheMoves
    BY <1>9 DEF CacheMoves
  <1>10. CASE UNCHANGED vars
    BY <1>10 DEF vars, CacheMoves
  <1> QED
    BY <1>1, <1>2, <1>3, <1>4, <1>5, <1>6, <1>7, <1>8, <1>9, <1>10 DEF Next, Attempt, Admin

\* The administrator's last statements empty the cache.
LEMMA AdminCleans ==
  ASSUME TypeInv, [Next]_vars, admin.pc \in {"clear", "invalidate"}
  PROVE  admin'.pc \in {"clear", "invalidate"} \/ cache' = None \/ "cache" \in gaps'
  <1>0. StoreOK /\ AttemptsOK /\ AdminOK
    BY DEF TypeInv
  <1>1. \A op \in {"refresh", "reauth", "edit"} : ~AdminStart(op)
    BY DEF AdminStart
  <1>2. ~AdminCall /\ ~AdminReread /\ ~UpdateAccount /\ ~AdminFails
    BY DEF AdminCall, AdminReread, UpdateAccount, AdminFails
  <1>3. ASSUME NEW a \in Attempts, Refresh(a) \/ Persist(a) \/ SetError(a) PROVE admin' = admin
    BY <1>3 DEF Refresh, Persist, SetError
  <1>4. ClearAccountError => admin'.pc = "invalidate"
    BY <1>0, ClosingFields DEF AdminInvalidate, ClearAccountError
  <1>5. AdminInvalidate => cache' = None \/ "cache" \in gaps'
    BY DEF AdminInvalidate
  <1>6. Minor => admin' = admin
    BY DEF Minor
  <1>7. Minor \/ Major
    BY <1>0, Classify
  <1> QED
    BY <1>1, <1>2, <1>3, <1>4, <1>5, <1>6, <1>7 DEF Major

\* Who is going to clean goes on with it, if the row is still the same.
LEMMA CleansKept ==
  ASSUME TypeInv, [Next]_vars, "cache" \notin gaps', account'.cred = account.cred,
     account'.ver <= account.ver, NEW b \in Attempts, Cleans(b)
  PROVE  Cleans(b)' \/ cache' \in {None, account.cred}
  <1>m. Stays(b) \/ Own(b)
    BY Moves DEF TypeInv
  <1>t. /\ AttemptsOK /\ attempt[b] \in Tries
        /\ attempt[b].pc = "durable" => attempt[b].out = "refreshed"
    BY DEF TypeInv, AttemptsOK
  <1>r. /\ account.ver \in Nat /\ account'.ver \in Nat /\ attempt[b].acct.ver \in Nat
        /\ platform' = platform
    BY <1>t, RowsFields, VersionFrom, MonotoneNext DEF Monotone, Tries
  <1>v. /\ account.ver <= attempt[b].acct.ver => account'.ver <= attempt[b].acct.ver
        /\ ~(account.ver > attempt[b].acct.ver) <=> account.ver <= attempt[b].acct.ver
    BY <1>r
  <1> USE DEF Cleans, Current, Stays, Keeps
  <1>1. CASE Stays(b)
    BY <1>1, <1>t, <1>r, <1>v
  <1>2. CASE StartBackground(b) \/ GetAccessToken(b)
    BY <1>2, <1>t, <1>r, <1>v, StartStep, Flat
  <1>3. CASE AcquireRefreshLock(b)
    BY <1>3, <1>t, <1>r, <1>v, AcquireStep, Flat
  <1>4. CASE LockTimesOut(b)
    BY <1>4, <1>t, <1>r, <1>v, TimeoutStep
  <1>5. CASE Reread(b)
    BY <1>5, <1>t, <1>r, <1>v, RereadStep
  <1>6. CASE Refresh(b)
    BY <1>6 DEF Refresh
  <1>7. CASE Persist(b)
    BY <1>7, <1>t, <1>r, <1>v, PersistStep
  <1>8. CASE LoadDurable(b)
    <2>1. cache' = None \/ "cache" \in gaps'
      BY <1>8, <1>t, DurableStep
    <2> QED
      BY <2>1
  <1>9. CASE tryRecoverFromRefreshRace(b)
    BY <1>9, <1>t, <1>r, <1>v, RecoverStep
  <1>10. CASE ReleaseRefreshLock(b)
    BY <1>10, <1>t, <1>r, <1>v, ReleaseStep, Flat
  <1>11. CASE postRefreshActions(b)
    BY <1>11, <1>t, <1>r, <1>v, PostStep, Flat
  <1>12. CASE SetError(b)
    BY <1>12, <1>t, <1>r, <1>v, ErrorStep, Flat
  <1>13. CASE Retry(b)
    BY <1>13, <1>t, <1>r, <1>v, RetryStep
  <1>14. CASE AfterRefresh(b)
    BY <1>14, <1>t, <1>r, <1>v, AfterStep, Flat
  <1>15. CASE CheckTokenVersion(b)
    BY <1>15, <1>t, <1>r, <1>v, CheckStep, Flat
  <1>16. CASE SetTempUnschedulable(b) \/ InvalidateToken(b) \/ SetAccessToken(b)
    <2>1. CASE InvalidateToken(b) \/ SetTempUnschedulable(b)
      BY <1>16, <1>t, <2>1, EndStep DEF InvalidateToken, SetTempUnschedulable, Done
    <2>2. CASE SetAccessToken(b)
      BY <2>2 DEF SetAccessToken
    <2> QED
      BY <1>16, <2>1, <2>2
  <1>17. CASE WaitCache(b) \/ WaitRow(b)
    BY <1>17, <1>t, WaitStep, Flat
  <1> HIDE DEF Cleans, Current, Stays, Keeps
  <1> QED
    BY <1>1, <1>2, <1>3, <1>4, <1>5, <1>6, <1>7, <1>8, <1>9, <1>10, <1>11, <1>12, <1>13,
       <1>14, <1>15, <1>16, <1>17, <1>m, Zenon DEF Own, Attempt

LEMMA RefreshSteps ==
  ASSUME AttemptsOK, NEW a \in Attempts, Refresh(a)
  PROVE  attempt'[a].pc \in {"answered", "denied", "release"}
  BY RefreshStep

LEMMA SetFrom ==
  ASSUME TypeInv, [Next]_vars, NEW b \in Attempts
  PROVE  attempt'[b].pc = "set" => Stays(b) \/ CheckTokenVersion(b) \/ WaitRow(b)
  <1>m. Stays(b) \/ Own(b)
    BY Moves DEF TypeInv
  <1>t. AttemptsOK /\ attempt[b] \in Tries
    BY DEF TypeInv, AttemptsOK
  <1> USE DEF Keeps
  <1>1. CASE Stays(b)
    BY <1>1, <1>t
  <1>2. CASE StartBackground(b) \/ GetAccessToken(b)
    BY <1>2, <1>t, StartStep, Flat
  <1>3. CASE AcquireRefreshLock(b)
    BY <1>3, <1>t, AcquireStep, Flat
  <1>4. CASE LockTimesOut(b)
    BY <1>4, <1>t, TimeoutStep
  <1>5. CASE Reread(b)
    BY <1>5, <1>t, RereadStep
  <1>6. CASE Refresh(b)
    BY <1>6, <1>t, RefreshSteps
  <1>7. CASE Persist(b)
    BY <1>7, <1>t, PersistStep
  <1>8. CASE LoadDurable(b)
    BY <1>8, <1>t, DurableStep
  <1>9. CASE tryRecoverFromRefreshRace(b)
    BY <1>9, <1>t, RecoverStep
  <1>10. CASE ReleaseRefreshLock(b)
    BY <1>10, <1>t, ReleaseStep, Flat
  <1>11. CASE postRefreshActions(b)
    BY <1>11, <1>t, PostStep, Flat
  <1>12. CASE SetError(b)
    BY <1>12, <1>t, ErrorStep, Flat
  <1>13. CASE Retry(b)
    BY <1>13, <1>t, RetryStep
  <1>14. CASE AfterRefresh(b)
    BY <1>14, <1>t, AfterStep, Flat
  <1>15. CASE CheckTokenVersion(b)
    BY <1>15, <1>t, CheckStep, Flat
  <1>16. CASE SetTempUnschedulable(b) \/ InvalidateToken(b) \/ SetAccessToken(b)
    BY <1>16, <1>t, EndStep, Flat
  <1>17. CASE WaitCache(b) \/ WaitRow(b)
    BY <1>17, <1>t, WaitStep, Flat
  <1> HIDE DEF Keeps
  <1> QED
    BY <1>1, <1>2, <1>3, <1>4, <1>5, <1>6, <1>7, <1>8, <1>9, <1>10, <1>11, <1>12, <1>13,
       <1>14, <1>15, <1>16, <1>17, <1>m, Zenon DEF Own, Attempt

LEMMA CacheNext ==
  ASSUME TypeInv, VersionInv, CacheInv, [Next]_vars,
         "cache" \notin gaps', "clobbered" \notin gaps'
  PROVE  CacheInv'
  <1>0. StoreOK /\ AttemptsOK /\ AdminOK /\ account \in Row /\ platform' = platform
    BY MonotoneNext DEF Monotone, TypeInv, StoreOK
  <1>r. /\ account.ver \in Nat /\ account'.ver \in Nat
        /\ UpdateAccount \/ account'.ver >= account.ver
    BY VersionFrom
  <1>u. UpdateAccount => /\ account'.cred # account.cred => attempt' = Outdated(attempt)
                         /\ account'.cred = account.cred => /\ attempt' = attempt
                                                            /\ account'.ver <= account.ver
    <2>1. UpdateAccount => account'.ver = admin.acct.ver /\ admin.pc = "write"
      BY <1>0, UpdateFields
    <2>2. UpdateAccount =>
            account'.cred = IF admin.op = "edit" THEN admin.acct.cred ELSE admin.new
      BY <1>0, UpdateFields
    <2> QED
      BY <2>1, <2>2 DEF UpdateAccount, VersionInv
  <1>1. ASSUME NEW a \in Attempts, attempt'[a].pc = "set"
        PROVE  attempt'[a].late \/ account'.ver <= attempt'[a].acct.ver
    <2>t. attempt[a].acct.ver \in Nat
      BY <1>0, RowsFields DEF AttemptsOK, Tries
    <2>1. CASE CheckTokenVersion(a)
      <3>1. ~(account.ver > attempt[a].acct.ver) /\ attempt'[a].acct = attempt[a].acct
        BY <1>0, <1>1, <2>1, CheckStep, Flat
      <3>2. account' = account
        BY <2>1 DEF CheckTokenVersion
      <3> QED
        BY <1>r, <2>t, <3>1, <3>2
    <2>2. CASE Stays(a)
      <3>1. /\ attempt[a].pc = "set" /\ attempt'[a].acct = attempt[a].acct
            /\ attempt[a].late => attempt'[a].late
        BY <1>1, <2>2 DEF Stays
      <3>2. attempt[a].late \/ account.ver <= attempt[a].acct.ver
        BY <3>1 DEF CacheInv
      <3>3. CASE account'.ver <= account.ver
        <4>1. account.ver <= attempt[a].acct.ver => account'.ver <= attempt[a].acct.ver
          BY <1>r, <2>t, <3>3
        <4> QED
          BY <3>1, <3>2, <4>1
      <3>4. ASSUME NEW b \in Attempts, Persist(b)
            PROVE  account' = account \/ attempt'[a].late
        <4>1. b # a
          BY <3>1, <3>4 DEF Persist
        <4>2. \/ account' = account \/ "cache" \in gaps'
              \/ \A c \in Attempts : c # b /\ attempt[c].pc = "set" => attempt'[c].late
          BY <1>0, <3>4, PersistStep
        <4> QED
          BY <3>1, <4>1, <4>2
      <3>5. ASSUME UpdateAccount
            PROVE  account'.ver <= account.ver \/ attempt'[a].late
        <4>1. attempt' = Outdated(attempt) => attempt'[a].late
          <5>1. attempt' = Outdated(attempt) => attempt'[a] = [attempt[a] EXCEPT !.late = TRUE]
            BY <3>1 DEF Outdated
          <5> QED
            BY <1>0, <5>1 DEF AttemptsOK, Tries
        <4> QED
          BY <1>u, <3>5, <4>1
      <3>6. \/ account'.ver = account.ver \/ UpdateAccount
            \/ \E b \in Attempts : Persist(b)
        BY <1>0, VersionMoves
      <3>7. account' = account => account'.ver <= account.ver
        BY <1>r
      <3>8. account'.ver = account.ver => account'.ver <= account.ver
        BY <1>r
      <3> QED
        BY <3>3, <3>4, <3>5, <3>6, <3>7, <3>8
    <2>3. CASE WaitRow(a)
      <3>1. attempt'[a].acct = account
        BY <1>0, <1>1, <2>3, WaitStep, Flat
      <3>2. account' = account
        BY <2>3 DEF WaitRow
      <3> QED
        BY <1>r, <3>1, <3>2
    <2> QED
      BY <1>1, <2>1, <2>2, <2>3, SetFrom
  <1> DEFINE Clean == \/ cache' \in {None, account'.cred}
                      \/ admin'.pc \in {"clear", "invalidate"}
                      \/ \E a \in Attempts : Cleans(a)'
  <1>2. Clean
    <2>1. ASSUME NEW b \in Attempts, Persist(b), account' # account
          PROVE  Cleans(b)'
      <3>1. /\ attempt'[b].acct = account' /\ attempt'[b].out = "refreshed"
            /\ attempt'[b].pc = IF platform = "grok" THEN "durable" ELSE "release"
        BY <1>0, <2>1, PersistStep
      <3>2. platform \in {"grok", "openai"} /\ account'.ver <= account'.ver
        BY <1>0, <1>r DEF StoreOK
      <3>3. attempt'[b].pc = "durable" => Cleans(b)'
        BY DEF Cleans
      <3>4. platform' = "openai" /\ attempt'[b].pc = "release" => Cleans(b)'
        BY <3>1, <3>2 DEF Cleans, Current
      <3> QED
        BY <1>0, <3>1, <3>2, <3>3, <3>4
    <2>2. CASE UpdateAccount /\ admin.op # "edit"
      <3>1. admin'.pc \in {"clear", "invalidate"}
        BY <1>0, <2>2, UpdateFields, LoginFrom
      <3> QED
        BY <3>1
    <2>3. UpdateAccount /\ admin.op = "edit" => account'.cred = account.cred
      BY LoginFrom
    <2>4. CASE account'.cred = account.cred /\ account'.ver <= account.ver
      <3>1. ASSUME NEW a \in Attempts, SetAccessToken(a)
            PROVE  cache' \in {account'.cred, cache}
        <4>1. attempt[a].pc = "set" /\ attempt[a].acct.ver \in Nat
          BY <1>0, <3>1, RowsFields DEF SetAccessToken, AttemptsOK, Tries
        <4>2. attempt[a].late \/ account.ver <= attempt[a].acct.ver
          BY <4>1 DEF CacheInv
        <4>3. account.ver <= attempt[a].acct.ver => attempt[a].acct.ver >= account.ver
          BY <1>r, <4>1
        <4> QED
          BY <2>4, <3>1, <4>2, <4>3 DEF SetAccessToken
      <3>2. cache' \in {cache, None, account'.cred}
        BY <3>1, CacheFrom DEF CacheMoves
      <3>3. CASE cache \in {None, account.cred}
        BY <2>4, <3>2, <3>3
      <3>4. CASE admin.pc \in {"clear", "invalidate"}
        BY <3>4, AdminCleans
      <3>5. ASSUME NEW a \in Attempts, Cleans(a)
            PROVE  Cleans(a)' \/ cache' \in {None, account'.cred}
        BY <2>4, <3>5, CleansKept
      <3> QED
        BY <3>3, <3>4, <3>5 DEF CacheInv
    <2>5. account' = account => account'.cred = account.cred /\ account'.ver <= account.ver
      BY <1>r
    <2>6. CASE UpdateAccount /\ admin.op = "edit"
      BY <1>u, <2>3, <2>4, <2>6
    <2>7. \/ account'.ver = account.ver \/ UpdateAccount
          \/ \E b \in Attempts : Persist(b)
      BY <1>0, VersionMoves
    <2>8. CASE ~UpdateAccount /\ \A b \in Attempts : ~Persist(b)
      BY <1>r, <2>4, <2>7, <2>8, AccountFrom
    <2> HIDE DEF Clean
    <2>9. CASE \E b \in Attempts : Persist(b)
      BY <2>1, <2>4, <2>5, <2>9 DEF Clean
    <2> QED
      BY <2>2, <2>6, <2>8, <2>9
  <1> QED
    BY <1>1, <1>2 DEF CacheInv

-----------------------------------------------------------------------------
(* The invariant, and the theorems.                                        *)

LEMMA InitInv == Init => IInv
  <1> SUFFICES ASSUME Init PROVE IInv
    OBVIOUS
  <1>1. /\ account.cred = First /\ account.status = "active" /\ admin = NoEdit
        /\ attempt = [a \in Attempts |-> Idle] /\ live[1] = 1 /\ cache \in {None, First}
    BY DEF Init, NoRow
  <1>2. /\ First \in Cred /\ First.grant = 1 /\ First.gen = 1 /\ First # None
        /\ admin.pc = "idle" /\ admin.acct = NoRow /\ admin.grant = 1
    BY <1>1 DEF First, Cred, None, NoEdit
  <1>3. \A a \in Attempts : /\ attempt[a].pc = "idle" /\ attempt[a].acct.cred = None
                            /\ attempt[a].mine.cred = None
    BY <1>1, Flat
  <1>4. \A a \in Attempts : ~Working(a) /\ ~Denied(a) /\ ~Refused(a) /\ ~Using(a)
    BY <1>3 DEF Working, Refreshing, Denied, Refused, Using
  <1>5. KnownInv
    BY <1>1, <1>2, <1>3, Flat DEF KnownInv, Known
  <1>6. AnswerInv /\ DeadInv /\ VersionInv /\ LeaseInv /\ UsedInv
    BY <1>2, <1>3, <1>4 DEF AnswerInv, Bringing, DeadInv, VersionInv, LeaseInv, UsedInv
  <1>7. StoredInv
    BY <1>1, <1>2 DEF StoredInv, Live
  <1>8. ErrorInv
    BY <1>1, <1>2, <1>4 DEF ErrorInv, InError, EditWrite
  <1>9. GrantInv /\ CacheInv
    BY <1>1, <1>2, <1>3 DEF GrantInv, CacheInv
  <1> QED
    BY <1>5, <1>6, <1>7, <1>8, <1>9, InitType DEF IInv

LEMMA InvNext ==
  ASSUME IInv, [Next]_vars
  PROVE  IInv'
  <1>0. /\ TypeInv /\ KnownInv /\ AnswerInv /\ DeadInv /\ VersionInv
        /\ "lease" \in gaps \/ LeaseInv
        /\ "clobbered" \in gaps \/ StoredInv
        /\ gaps \cap {"lease", "manual", "clobbered"} # {} \/ UsedInv
        /\ Calm => ErrorInv
        /\ platform = "grok" /\ "clobbered" \notin gaps => GrantInv
        /\ gaps \cap {"cache", "clobbered"} # {} \/ CacheInv
    BY DEF IInv
  <1>m. /\ platform' = platform
        /\ "lease" \in gaps => "lease" \in gaps'
        /\ "manual" \in gaps => "manual" \in gaps'
        /\ "late" \in gaps => "late" \in gaps'
        /\ "clobbered" \in gaps => "clobbered" \in gaps'
        /\ "cache" \in gaps => "cache" \in gaps'
        /\ "uncleared" \in gaps => "uncleared" \in gaps'
    BY MonotoneNext DEF Monotone
  <1>1. TypeInv' /\ KnownInv' /\ AnswerInv' /\ DeadInv' /\ VersionInv'
    BY <1>0, NextType, KnownNext, AnswerNext, DeadNext, VersionNext
  <1>2. "lease" \in gaps' \/ (LeaseInv /\ LeaseInv')
    BY <1>0, LeaseNext
  <1>3. "clobbered" \in gaps' \/ (StoredInv /\ StoredInv')
    BY <1>0, <1>m, StoredNext
  <1>4. gaps' \cap {"lease", "manual", "clobbered"} # {} \/ UsedInv'
    <2> SUFFICES ASSUME gaps' \cap {"lease", "manual", "clobbered"} = {} PROVE UsedInv'
      OBVIOUS
    <2>1. gaps \cap {"lease", "manual", "clobbered"} = {}
      BY <1>m
    <2>2. LeaseInv /\ StoredInv /\ UsedInv
      BY <1>0, <2>1
    <2> QED
      BY <1>0, <2>2, UsedNext
  <1>5. Calm' => ErrorInv'
    <2> SUFFICES ASSUME Calm' PROVE ErrorInv'
      OBVIOUS
    <2>1. Calm /\ LeaseInv
      BY <1>0, <1>m DEF Calm
    <2> QED
      BY <1>0, <2>1, ErrorNext
  <1>6. platform' = "grok" /\ "clobbered" \notin gaps' => GrantInv'
    BY <1>0, <1>m, GrantNext
  <1>7. gaps' \cap {"cache", "clobbered"} # {} \/ CacheInv'
    <2> SUFFICES ASSUME gaps' \cap {"cache", "clobbered"} = {} PROVE CacheInv'
      OBVIOUS
    <2>1. "cache" \notin gaps' /\ "clobbered" \notin gaps' /\ CacheInv
      BY <1>0, <1>m
    <2> QED
      BY <1>0, <2>1, CacheNext
  <1> QED
    BY <1>1, <1>2, <1>3, <1>4, <1>5, <1>6, <1>7 DEF IInv

LEMMA Invariant == Spec => []IInv
  <1>1. IInv /\ [Next]_vars => IInv'
    BY InvNext
  <1> QED
    BY <1>1, InitInv, PTL DEF Spec

\* The variables keep their types, and an idle attempt keeps nothing of the
\* last one.
THEOREM TypeCorrect == Spec => []TypeOK
  <1>1. IInv => TypeOK
    <2> SUFFICES ASSUME IInv PROVE TypeOK
      OBVIOUS
    <2>1. StoreOK /\ LockOK /\ AttemptsOK /\ AdminOK /\ RestOK
      BY DEF IInv, TypeInv
    <2>2. expiring \subseteq Cred
      BY <2>1, Successors DEF StoreOK
    <2>3. lock = Free \/ (lock.by \in Attempts /\ lock.age \in 0..LockTTL)
      BY <2>1 DEF LockOK
    <2>4. ASSUME NEW a \in Attempts
          PROVE  /\ attempt[a].pc \in Steps /\ attempt[a].out \in Outcomes
                 /\ attempt[a].kind \in {"background", "request"}
                 /\ {attempt[a].mine, attempt[a].acct} \subseteq Row \cup {NoRow}
                 /\ attempt[a].tries \in 0..MaxRetries
                 /\ attempt[a].pc = "idle" => attempt[a] = Idle
      BY <2>1 DEF AttemptsOK, Tries, Rows
    <2>5. /\ admin.pc \in {"idle", "call", "reread", "write", "clear", "invalidate"}
          /\ admin.new \in Cred \cup {None}
      BY <2>1 DEF AdminOK, Edits
    <2> QED
      BY <2>1, <2>2, <2>3, <2>4, <2>5 DEF TypeOK, StoreOK, RestOK
  <1> QED
    BY <1>1, Invariant, PTL

\* Two attempts refresh at once only after a gap of the lock, and a refresh
\* token is presented again only if its answer is lost, or was spent or written
\* back outside the lock (RefreshIfNeeded).
THEOREM UsedOnce == Spec => []TokenUsedOnce
  <1>1. IInv => TokenUsedOnce
    <2> SUFFICES ASSUME IInv PROVE TokenUsedOnce
      OBVIOUS
    <2>1. /\ TypeInv /\ ("lease" \in gaps \/ LeaseInv)
          /\ gaps \cap {"lease", "manual", "clobbered"} # {} \/ UsedInv
      BY DEF IInv
    <2>2. OneRefreshAtATime
      BY <2>1, OneWorks DEF OneRefreshAtATime
    <2> QED
      BY <2>1, <2>2 DEF TokenUsedOnce, UsedInv, Refused, Spent
  <1> QED
    BY <1>1, Invariant, PTL

\* The stored refresh token is the provider's, or an answer that replaces it is
\* under way, or was lost; unless an edit wrote an older row back (Persist and
\* UpdateAccount write the same row).
THEOREM StoredUsable == Spec => []StoredTokenUsable
  <1>1. IInv => StoredTokenUsable
    BY DEF IInv, StoredInv, StoredTokenUsable, Bringing
  <1> QED
    BY <1>1, Invariant, PTL

\* SetError takes only accounts out of service whose refresh token is dead, but
\* for the races the property names.
THEOREM QuarantineDeserved == Spec => []QuarantineIsDeserved
  <1>1. IInv => QuarantineIsDeserved
    <2> SUFFICES ASSUME IInv, account.status = "error", Live(account.cred), admin.pc # "clear"
                 PROVE  ~Calm
      BY DEF QuarantineIsDeserved, Calm
    <2>1. StoreOK /\ (Calm => ErrorInv)
      BY DEF IInv, TypeInv
    <2>2. account.cred \in Cred
      BY <2>1, RowFields DEF StoreOK
    <2>3. Calm => Dead(account.cred)
      BY <2>1 DEF ErrorInv, InError
    <2>4. account.cred.gen \in Nat
      BY <2>2, Creds
    <2> QED
      BY <2>3, <2>4 DEF Dead, Live
  <1> QED
    BY <1>1, Invariant, PTL

\* Grok's row keeps the login the administrator brought last: the refresh of an
\* older one does not overwrite it (the compare-and-set of Persist).
THEOREM LoginKept == Spec => []ReauthorizationKept
  <1>1. IInv => ReauthorizationKept
    BY DEF IInv, GrantInv, ReauthorizationKept
  <1> QED
    BY <1>1, Invariant, PTL

\* When everyone has finished, a cached token is the stored one, or a race or
\* failure that the property names left it (CheckTokenVersion, Outdated).
THEOREM CacheCurrent == Spec => []CachedTokenIsCurrent
  <1>1. IInv => CachedTokenIsCurrent
    <2> SUFFICES ASSUME IInv, admin.pc = "idle", \A a \in Attempts : attempt[a].pc = "idle"
                 PROVE  cache \in {None, account.cred} \/ gaps \cap {"cache", "clobbered"} # {}
      BY DEF CachedTokenIsCurrent
    <2>1. \A a \in Attempts : ~Cleans(a)
      BY DEF Cleans
    <2> QED
      BY <2>1 DEF IInv, CacheInv
  <1> QED
    BY <1>1, Invariant, PTL
=============================================================================
