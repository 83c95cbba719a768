---------------------------- MODULE OAuthRefresh ----------------------------
(***************************************************************************)
(* OAuthRefreshAPI.RefreshIfNeeded for one account, with the callers that  *)
(* reach it - the background cycle of TokenRefreshService, the token       *)
(* providers on the request path - and the administrator, who changes the  *)
(* same row without its lock.  The provider's refresh tokens are used      *)
(* once: a refresh answers with the next token of the grant and the old    *)
(* one is dead.                                                            *)
(*                                                                         *)
(* A credential is [grant, gen]: the login it descends from and how often  *)
(* it was rotated.  attempt[a].pc names the next statement of attempt a;   *)
(* acct is its copy of the row, mine the copy its caller came with, cached *)
(* the token a waiting request saw in the cache.                           *)
(* Process says which instance an attempt runs in.                         *)
(***************************************************************************)
EXTENDS Integers, FiniteSets

CONSTANTS Attempts, Process,
          LockTTL, AttemptTimeout, LockSafetyMargin, GrokRequestTimeout,
          MaxRetries,
          MaxGrants, MaxGen, MaxRequests, MaxFaults  \* bounds

ASSUME RefreshAssumption ==
    /\ LockTTL \in Nat /\ LockTTL > 1
    /\ AttemptTimeout \in Nat \ {0} /\ GrokRequestTimeout \in Nat \ {0}
    /\ GrokRequestTimeout < LockTTL /\ LockSafetyMargin \in Nat \ {0}
    /\ {MaxRetries, MaxGrants} \subseteq Nat \ {0}
    /\ {MaxGen, MaxRequests, MaxFaults} \subseteq Nat
    /\ "nobody" \notin Attempts

VARIABLES platform,   \* "grok" writes by compare-and-set, "openai" does not
          account,    \* the accounts row
          live,       \* by grant, the generation the provider accepts; 0: none
          expiring,   \* credentials whose access token is about to expire
          lock,       \* the refresh lock: its age, and who set it
          cache,      \* the credential whose access token is cached
          attempt, admin,
          left,       \* requests and faults to come; what the administrator does
                      \* counts as a fault
          dropped,    \* credentials used up whose successor nobody stored
          gaps        \* cases met in which the code gives no protection

vars == <<platform, account, live, expiring, lock, cache, attempt, admin,
          left, dropped, gaps>>

Cred   == [grant: 1..MaxGrants, gen: 1..(MaxGen + 1)]
None   == [grant |-> 0, gen |-> 0]
First  == [grant |-> 1, gen |-> 1]
\* Mutant: the old refresh token wins when the answer is merged.
OldTokenKept(c) == c

\* The provider's answer to c, merged into the stored credentials.
Successor(c) == [c EXCEPT !.gen = @ + 1]
Live(c)  == c # None /\ live[c.grant] = c.gen
Row    == [cred: Cred, ver: Nat, status: {"active", "error"}, temp: BOOLEAN]
NoRow  == [cred |-> None, ver |-> 0, status |-> "active", temp |-> FALSE]

Free   == [by |-> "nobody", age |-> 0]
Idle   == [pc |-> "idle", kind |-> "background", mine |-> NoRow,
           acct |-> NoRow, age |-> 0, tries |-> 0, locked |-> FALSE,
           out |-> "none", late |-> FALSE, cached |-> None]
NoEdit == [pc |-> "idle", op |-> "edit", acct |-> NoRow, new |-> None,
           grant |-> 1]

Outcomes == {"none", "refreshed", "current", "held", "denied", "failed", "stop"}
Steps    == {"idle", "lock", "read", "call", "answered", "denied", "durable",
             "release", "done", "invalidate", "check", "set", "wait", "waitRow"}

TypeOK ==
    /\ platform \in {"grok", "openai"}
    /\ account \in Row
    /\ live \in [1..MaxGrants -> 0..(MaxGen + 1)]
    /\ expiring \subseteq Cred /\ dropped \subseteq Cred
    /\ cache \in Cred \cup {None}
    /\ lock = Free \/ (lock.by \in Attempts /\ lock.age \in 0..LockTTL)
    /\ \A a \in Attempts :
         /\ attempt[a].pc \in Steps /\ attempt[a].out \in Outcomes
         /\ attempt[a].kind \in {"background", "request"}
         /\ {attempt[a].mine, attempt[a].acct} \subseteq Row \cup {NoRow}
         /\ attempt[a].tries \in 0..MaxRetries
         /\ attempt[a].pc = "idle" => attempt[a] = Idle
    /\ admin.pc \in {"idle", "call", "reread", "write", "clear", "invalidate"}
    /\ admin.new \in Cred \cup {None}
    /\ gaps \subseteq {"lease", "manual", "late", "clobbered", "cache",
                    "uncleared"}

Init ==
    /\ platform \in {"grok", "openai"}
    /\ account = [NoRow EXCEPT !.cred = First]
    /\ live = [g \in 1..MaxGrants |-> IF g = 1 THEN 1 ELSE 0]
    /\ expiring = {} /\ dropped = {} /\ gaps = {}
    /\ lock = Free /\ cache \in {None, First}
    /\ attempt = [a \in Attempts |-> Idle] /\ admin = NoEdit
    /\ left = [requests |-> MaxRequests, faults |-> MaxFaults]

-----------------------------------------------------------------------------
Use(what)  == left[what] > 0 /\ left' = [left EXCEPT ![what] = @ - 1]
Expiring(row) == row.cred \in expiring

\* A request may use the account; Grok also asks whether it is cooling down.
Eligible(row) == row.status = "active" /\ ~(platform = "grok" /\ row.temp)

\* Attempt a goes on with these fields changed.
Becomes(a, rec) == attempt' = [attempt EXCEPT ![a] = rec]
GoTo(a, step)   == Becomes(a, [attempt[a] EXCEPT !.pc = step])
Leave(a, out)   == Becomes(a, [attempt[a] EXCEPT !.pc = "release", !.out = out])

\* RefreshIfNeeded returns; the background cycle skips an account that is
\* current, or locked, or gone.
Returns(a, rec) ==
    Becomes(a, IF rec.kind = "background" /\ rec.out \in {"current", "held", "stop"}
                 THEN Idle ELSE [rec EXCEPT !.pc = "done"])

\* Inside the critical section: until RefreshIfNeeded has its result.
Refreshing(a) == attempt[a].pc \in {"read", "call", "answered", "denied"}
\* The process-local mutex is held until RefreshIfNeeded returns.
Inside(a)     == Refreshing(a) \/ attempt[a].pc \in {"durable", "release"}

clampRefreshAttemptToLockLease(timeout, lease) ==
    LET tenth  == lease \div 10
        margin == CASE tenth > LockSafetyMargin -> LockSafetyMargin
                    [] tenth = 0                -> 1
                    [] OTHER                    -> tenth
    IN  IF timeout > lease - margin THEN lease - margin ELSE timeout

\* When the context of the attempt ends; a request to OpenAI has no such end.
HasDeadline(a) == attempt[a].kind = "background" \/ platform = "grok"
Deadline(a) ==
    IF attempt[a].kind = "background"
      THEN clampRefreshAttemptToLockLease(AttemptTimeout, LockTTL)
      ELSE GrokRequestTimeout
CtxDone(a) == HasDeadline(a) /\ attempt[a].age >= Deadline(a)
\* In the critical section, with calls that may still take effect.
Working(a) == Refreshing(a) /\ ~CtxDone(a)

\* Everyone about to fill the token cache now does so with an older reading.
Outdated(att) == [b \in Attempts |->
    IF att[b].pc = "set" THEN [att[b] EXCEPT !.late = TRUE] ELSE att[b]]

-----------------------------------------------------------------------------
(* Time: the access token nears its end, leases and attempts age (an       *)
(* attempt from where it has the lock).  That an attempt meets its         *)
(* deadline, or the lease ends under one that has none, is a fault.        *)
Expire ==
    /\ account.cred.gen <= MaxGen /\ ~Expiring(account)
    /\ expiring' = expiring \cup {account.cred}
    /\ UNCHANGED <<platform, account, live, lock, cache, attempt, admin, left,
                   dropped, gaps>>

Tick ==
    LET work == {a \in Attempts : Working(a)}
        aged == {a \in work : HasDeadline(a)}
        late == {a \in aged : attempt[a].age + 1 = Deadline(a)}
        ends == lock # Free /\ lock.age + 1 = LockTTL
    IN  /\ IF late # {} \/ (ends /\ work \ late # {})
             THEN Use("faults") ELSE UNCHANGED left
        /\ attempt' = [a \in Attempts |->
                IF a \in aged THEN [attempt[a] EXCEPT !.age = @ + 1]
                              ELSE attempt[a]]
        /\ lock' = IF lock = Free \/ ends THEN Free ELSE [lock EXCEPT !.age = @ + 1]
        /\ gaps' = IF ends /\ \E a \in Attempts :
                        Refreshing(a) /\ attempt[a].locked /\ ~HasDeadline(a)
                     THEN gaps \cup {"lease"} ELSE gaps
        /\ UNCHANGED <<platform, account, live, expiring, cache, admin, dropped>>

TempExpires ==
    /\ account.temp
    /\ account' = [account EXCEPT !.temp = FALSE]
    /\ UNCHANGED <<platform, live, expiring, lock, cache, attempt, admin, left,
                   dropped, gaps>>

-----------------------------------------------------------------------------
(* The callers                                                             *)

\* A candidate of the background cycle: active, expiring, not cooling down.
Candidate == account.status = "active" /\ ~account.temp /\ Expiring(account)

StartBackground(a) ==
    /\ attempt[a].pc = "idle" /\ Candidate
    /\ Becomes(a, [Idle EXCEPT !.pc = "lock", !.acct = account, !.tries = 1])
    /\ UNCHANGED <<platform, account, live, expiring, lock, cache, admin, left,
                   dropped, gaps>>

\* GetAccessToken: answered from the cache, or a refresh if one is due.
\* Grok takes a cached token only if it is the account's own.
CacheHit == IF platform = "openai" THEN cache # None
            ELSE cache = account.cred /\ ~Expiring(account)

GetAccessToken(a) ==
    /\ attempt[a].pc = "idle" /\ Eligible(account)
    /\ ~CacheHit /\ Use("requests")
    /\ Becomes(a, IF Expiring(account)
         THEN [Idle EXCEPT !.pc = "lock", !.kind = "request", !.mine = account]
         ELSE [Idle EXCEPT !.pc = "check", !.acct = account])
    /\ UNCHANGED <<platform, account, live, expiring, lock, cache, admin,
                   dropped, gaps>>

-----------------------------------------------------------------------------
(* RefreshIfNeeded                                                         *)
LocalMutexFree(a) == \A b \in Attempts : Process[b] = Process[a] => ~Inside(b)

\* The local mutex, then SETNX.  If Redis fails the refresh goes on unlocked.
AcquireRefreshLock(a) ==
    /\ attempt[a].pc = "lock" /\ LocalMutexFree(a)
    /\ \/ /\ lock = Free
          /\ lock' = [by |-> a, age |-> 0]
          /\ Becomes(a, [attempt[a] EXCEPT !.pc = "read", !.locked = TRUE])
          /\ UNCHANGED <<left, gaps>>
       \/ /\ lock # Free
          /\ Returns(a, [attempt[a] EXCEPT !.out = "held"])
          /\ UNCHANGED <<lock, left, gaps>>
       \/ /\ Use("faults") /\ gaps' = gaps \cup {"lease"}
          /\ GoTo(a, "read") /\ UNCHANGED lock
    /\ UNCHANGED <<platform, account, live, expiring, cache, admin, dropped>>

\* The context ends while a waits for the mutex or for Redis.
LockTimesOut(a) ==
    /\ attempt[a].pc = "lock" /\ Use("faults")
    /\ Becomes(a, [attempt[a] EXCEPT !.pc = "done", !.out = "failed"])
    /\ UNCHANGED <<platform, account, live, expiring, lock, cache, admin,
                   dropped, gaps>>

\* Mutant: the caller's copy of the account is used.
NoReread(a) ==
    /\ attempt[a].pc = "read"
    /\ GoTo(a, "call")
    /\ UNCHANGED <<platform, account, live, expiring, lock, cache, admin, left,
                   dropped, gaps>>

\* The account is read again under the lock.
Reread(a) ==
    LET fresh   == [attempt[a] EXCEPT !.acct = account]
        blocked == attempt[a].kind = "request" /\ platform = "grok"
                     /\ ~Eligible(account)
    IN
    /\ attempt[a].pc = "read"
    /\ \/ /\ IF CtxDone(a) THEN UNCHANGED left ELSE Use("faults")
          /\ Leave(a, "stop")
       \/ /\ ~CtxDone(a) /\ UNCHANGED left
          /\ CASE blocked -> Leave(a, "stop")
               [] ~blocked /\ account.status = "active" /\ Expiring(account) ->
                    Becomes(a, [fresh EXCEPT !.pc = "call"])
               [] OTHER ->
                    Becomes(a, [fresh EXCEPT !.pc = "release", !.out = "current"])
    /\ UNCHANGED <<platform, account, live, expiring, lock, cache, admin,
                   dropped, gaps>>

Rotate(c) == live' = [live EXCEPT ![c.grant] = @ + 1]

\* executor.Refresh.  A used token is refused, by OpenAI in one of two
\* wordings, of which the recovery from a race knows only one.
Refresh(a) ==
    LET c == attempt[a].acct.cred IN
    /\ attempt[a].pc = "call"
    /\ \/ /\ ~CtxDone(a) /\ Live(c)
          /\ Rotate(c) /\ GoTo(a, "answered") /\ UNCHANGED <<left, dropped>>
       \/ /\ ~CtxDone(a) /\ ~Live(c)
          /\ \/ GoTo(a, "denied")                      \* invalid_grant
             \/ platform = "openai" /\ Leave(a, "denied")  \* refresh_token_reused
          /\ UNCHANGED <<live, left, dropped>>
       \/ /\ IF CtxDone(a) THEN UNCHANGED left ELSE Use("faults")
          /\ Leave(a, "failed") /\ UNCHANGED <<live, dropped>>
       \/ /\ ~CtxDone(a) /\ Live(c) /\ Use("faults")   \* the answer is lost
          /\ Rotate(c) /\ dropped' = dropped \cup {c} /\ Leave(a, "failed")
    /\ UNCHANGED <<platform, account, expiring, lock, cache, admin, gaps>>

\* Mutant: the update of the credentials is not conditional.
NeverChanged(a) == FALSE

\* The row has other credentials than attempt a worked with.
CredentialsChanged(a) ==
    <<account.cred, account.ver>> # <<attempt[a].acct.cred, attempt[a].acct.ver>>

\* The credentials come back: dropped if the context has ended, else stored,
\* for Grok only if the row still has those the attempt used.
Persist(a) ==
    LET c    == attempt[a].acct.cred
        drop == dropped \cup {c}
        row  == [account EXCEPT !.cred = Successor(c), !.ver = account.ver + 1]
        miss == platform = "grok" /\ CredentialsChanged(a)
    IN
    /\ attempt[a].pc = "answered"
    /\ \/ /\ CtxDone(a)
          /\ Leave(a, "failed") /\ dropped' = drop
          /\ UNCHANGED <<account, left, gaps>>
       \/ /\ ~CtxDone(a) /\ Use("faults")
          /\ Leave(a, IF platform = "grok" THEN "stop" ELSE "failed")
          /\ \/ dropped' = drop /\ UNCHANGED <<account, gaps>>
             \/ /\ ~miss /\ account' = row    \* the commit went through
                /\ gaps' = gaps \cup {"cache"} /\ UNCHANGED dropped
       \/ /\ ~CtxDone(a) /\ miss
          /\ Becomes(a, [attempt[a] EXCEPT !.pc = "release", !.out = "current",
                                           !.acct = account])
          /\ dropped' = drop /\ UNCHANGED <<account, left, gaps>>
       \/ /\ ~CtxDone(a) /\ ~miss
          /\ account' = row
          /\ attempt' = [Outdated(attempt) EXCEPT ![a] =
                [attempt[a] EXCEPT !.acct = row, !.out = "refreshed",
                   !.pc = IF platform = "grok" THEN "durable" ELSE "release"]]
          /\ UNCHANGED <<left, dropped, gaps>>
    /\ UNCHANGED <<platform, live, expiring, lock, cache, admin>>

\* loadGrokDurableAccountAfterPersist: the cached token goes at the commit,
\* and the row is read once more.
LoadDurable(a) ==
    /\ attempt[a].pc = "durable"
    /\ \/ /\ cache' = None
          /\ Becomes(a, [attempt[a] EXCEPT !.pc = "release", !.acct = account])
          /\ UNCHANGED <<left, gaps>>
       \/ /\ Use("faults") /\ gaps' = gaps \cup {"cache"}
          /\ Leave(a, "stop") /\ UNCHANGED cache
    /\ UNCHANGED <<platform, account, live, expiring, lock, admin, dropped>>

\* After invalid_grant: a refresh token other than the one used was stored
\* by somebody else.
tryRecoverFromRefreshRace(a) ==
    /\ attempt[a].pc = "denied"
    /\ CASE CtxDone(a) -> Leave(a, "failed")
         [] ~CtxDone(a) /\ account.cred = attempt[a].acct.cred -> Leave(a, "denied")
         [] OTHER -> Becomes(a, [attempt[a] EXCEPT !.pc = "release",
                                    !.out = "current", !.acct = account])
    /\ UNCHANGED <<platform, account, live, expiring, lock, cache, admin, left,
                   dropped, gaps>>

\* DEL of the lock, whoever holds it; not at all if Redis fails.
ReleaseRefreshLock(a) ==
    /\ attempt[a].pc = "release"
    /\ Returns(a, [attempt[a] EXCEPT !.locked = FALSE, !.age = 0])
    /\ \/ /\ ~attempt[a].locked /\ UNCHANGED <<lock, left, gaps>>
       \/ /\ attempt[a].locked
          /\ lock' = Free /\ UNCHANGED left
          /\ gaps' = IF lock # Free /\ lock.by # a
                       THEN gaps \cup {"lease"} ELSE gaps
       \/ /\ attempt[a].locked /\ Use("faults") /\ UNCHANGED <<lock, gaps>>
    /\ UNCHANGED <<platform, account, live, expiring, cache, admin, dropped>>

-----------------------------------------------------------------------------
(* refreshWithRetry, after the attempt                                     *)
Done(a, kind, outs) ==
    attempt[a].pc = "done" /\ attempt[a].kind = kind /\ attempt[a].out \in outs
End(a) == Becomes(a, Idle)

postRefreshActions(a) ==
    /\ Done(a, "background", {"refreshed"})
    /\ account' = [account EXCEPT !.temp = @ /\ ~attempt[a].acct.temp]
    /\ Becomes(a, [Idle EXCEPT !.pc = "invalidate"])
    /\ UNCHANGED <<platform, live, expiring, lock, cache, admin, left, dropped, gaps>>

\* Mutant: the row is marked whatever credentials it has.
MarkAny(a) == TRUE

\* Grok's row is marked only with the credentials of the attempt.
MayMark(a) == platform = "openai" \/
                (account.status = "active" /\ ~CredentialsChanged(a))

\* An error no retry cures.
SetError(a) ==
    /\ Done(a, "background", {"denied"})
    /\ IF ~MayMark(a)
         THEN /\ End(a) /\ UNCHANGED <<account, gaps>>
         ELSE /\ account' = [account EXCEPT !.status = "error"]
              /\ Becomes(a, [Idle EXCEPT !.pc = "invalidate"])
              /\ gaps' = IF account.cred # attempt[a].acct.cred
                           THEN gaps \cup {"late"} ELSE gaps
    /\ UNCHANGED <<platform, live, expiring, lock, cache, admin, left, dropped>>

Retry(a) ==
    /\ Done(a, "background", {"failed"}) /\ attempt[a].tries < MaxRetries
    /\ Becomes(a, [attempt[a] EXCEPT !.pc = "lock", !.out = "none",
                                     !.age = 0, !.tries = @ + 1])
    /\ UNCHANGED <<platform, account, live, expiring, lock, cache, admin, left,
                   dropped, gaps>>

SetTempUnschedulable(a) ==
    /\ Done(a, "background", {"failed"}) /\ attempt[a].tries = MaxRetries
    /\ End(a)
    /\ account' = IF MayMark(a) THEN [account EXCEPT !.temp = TRUE]
                               ELSE account
    /\ UNCHANGED <<platform, live, expiring, lock, cache, admin, left, dropped, gaps>>

InvalidateToken(a) ==
    /\ attempt[a].pc = "invalidate"
    /\ End(a)
    /\ \/ cache' = None /\ UNCHANGED <<left, gaps>>
       \/ Use("faults") /\ gaps' = gaps \cup {"cache"} /\ UNCHANGED cache
    /\ UNCHANGED <<platform, account, live, expiring, lock, admin, dropped>>

-----------------------------------------------------------------------------
(* GetAccessToken, after the attempt                                       *)

\* OpenAI goes on with the account it came with if the refresh failed or
\* another holds the lock, unless the cache has a token by then; Grok
\* returns the error, or waits for the other's result.
AfterRefresh(a) ==
    /\ Done(a, "request", Outcomes)
    /\ CASE attempt[a].out \in {"refreshed", "current"}
              /\ (platform = "openai" \/ Eligible(attempt[a].acct)) ->
              Becomes(a, [Idle EXCEPT !.pc = "check", !.acct = attempt[a].acct])
         [] attempt[a].out \in {"failed", "denied", "stop"} /\ platform = "openai" ->
              Becomes(a, [Idle EXCEPT !.pc = "check", !.acct = attempt[a].mine])
         [] attempt[a].out = "held" /\ platform = "openai" /\ cache = None ->
              Becomes(a, [Idle EXCEPT !.pc = "check", !.acct = attempt[a].mine])
         [] attempt[a].out = "held" /\ platform = "grok" ->
              Becomes(a, [Idle EXCEPT !.pc = "wait", !.kind = "request",
                                      !.mine = attempt[a].mine])
         [] OTHER -> End(a)
    /\ UNCHANGED <<platform, account, live, expiring, lock, cache, admin, left,
                   dropped, gaps>>

\* waitForRefreshedToken reads the cache, then the row, until the row has
\* other credentials than the request came with.  If the cached token is not
\* theirs it repairs the cache, with no further look at the row.
WaitCache(a) ==
    /\ attempt[a].pc = "wait"
    /\ Becomes(a, [attempt[a] EXCEPT !.pc = "waitRow", !.cached = cache])
    /\ UNCHANGED <<platform, account, live, expiring, lock, cache, admin, left,
                   dropped, gaps>>

WaitRow(a) ==
    LET mine    == attempt[a].mine
        changed == account.cred # mine.cred \/ account.ver > mine.ver
    IN
    /\ attempt[a].pc = "waitRow"
    /\ \/ End(a)           \* time is up, a reading failed or the row's state changed
       \/ /\ Eligible(account) /\ changed
          /\ IF attempt[a].cached \in {None, account.cred} THEN End(a)
               ELSE Becomes(a, [Idle EXCEPT !.pc = "set", !.acct = account])
       \/ /\ Eligible(account) /\ (~changed \/ Expiring(account))
          /\ Becomes(a, [attempt[a] EXCEPT !.pc = "wait", !.cached = None])
    /\ UNCHANGED <<platform, account, live, expiring, lock, cache, admin, left,
                   dropped, gaps>>

\* Mutant: the token is cached without a look at the row's version.
NoVersionCheck(a) ==
    /\ attempt[a].pc = "check"
    /\ GoTo(a, "set")
    /\ UNCHANGED <<platform, account, live, expiring, lock, cache, admin, left,
                   dropped, gaps>>

\* If the row cannot be read, the token may be cached all the same.
CheckTokenVersion(a) ==
    LET outdated == account.ver > attempt[a].acct.ver IN
    /\ attempt[a].pc = "check"
    /\ \/ /\ IF outdated THEN End(a) ELSE GoTo(a, "set")
          /\ UNCHANGED <<left, gaps>>
       \/ /\ Use("faults") /\ GoTo(a, "set")
          /\ gaps' = IF outdated THEN gaps \cup {"cache"} ELSE gaps
    /\ UNCHANGED <<platform, account, live, expiring, lock, cache, admin, dropped>>

\* late: the row changed after the check; or it changed before, but its
\* version did not grow.
SetAccessToken(a) ==
    LET acct == attempt[a].acct IN
    /\ attempt[a].pc = "set"
    /\ End(a)
    /\ \/ /\ cache' = acct.cred /\ UNCHANGED left
          /\ gaps' = IF attempt[a].late \/ (acct.cred # account.cred
                                             /\ acct.ver >= account.ver)
                       THEN gaps \cup {"cache"} ELSE gaps
       \/ Use("faults") /\ gaps' = gaps \cup {"cache"} /\ UNCHANGED cache
    /\ UNCHANGED <<platform, account, live, expiring, lock, admin, dropped>>

-----------------------------------------------------------------------------
(* The administrator: "refresh" rotates the token without the lock,        *)
(* "reauth" brings a new grant, "edit" writes the whole row back.          *)
AdminStart(op) ==
    /\ admin.pc = "idle" /\ Use("faults")
    /\ op = "reauth" => \E g \in 1..MaxGrants : live[g] = 0
    /\ LET g == CHOOSE g \in 1..MaxGrants : live[g] = 0
       IN  /\ live' = IF op = "reauth" THEN [live EXCEPT ![g] = 1] ELSE live
           /\ admin' = [admin EXCEPT !.op = op, !.acct = account,
                 !.pc  = IF op = "refresh" THEN "call" ELSE "reread",
                 !.new = IF op = "reauth" THEN [grant |-> g, gen |-> 1] ELSE None]
    /\ UNCHANGED <<platform, account, expiring, lock, cache, attempt, dropped, gaps>>

AdminCall ==
    LET c == admin.acct.cred IN
    /\ admin.pc = "call"
    /\ IF Live(c) /\ c.gen <= MaxGen
         THEN /\ Rotate(c) /\ gaps' = gaps \cup {"manual"}
              /\ admin' = [admin EXCEPT !.pc = "reread", !.new = Successor(c)]
         ELSE /\ admin' = [NoEdit EXCEPT !.grant = admin.grant]
              /\ UNCHANGED <<live, gaps>>
    /\ UNCHANGED <<platform, account, expiring, lock, cache, attempt, left, dropped>>

\* UpdateAccount reads the row it will write back.
AdminReread ==
    /\ admin.pc = "reread"
    /\ admin' = [admin EXCEPT !.pc = "write",
          !.acct = IF admin.op = "edit" THEN account
                   ELSE [@ EXCEPT !.status = account.status]]
    /\ UNCHANGED <<platform, account, live, expiring, lock, cache, attempt,
                   left, dropped, gaps>>

\* Credentials and status as read; the version stays that of the old ones.
UpdateAccount ==
    LET cred == IF admin.op = "edit" THEN admin.acct.cred ELSE admin.new IN
    /\ admin.pc = "write"
    /\ account' = [account EXCEPT !.cred = cred, !.ver = admin.acct.ver,
                                  !.status = admin.acct.status]
    /\ attempt' = IF cred # account.cred THEN Outdated(attempt) ELSE attempt
    /\ gaps' = IF admin.op = "edit" /\ cred # account.cred
                 THEN gaps \cup {"clobbered"} ELSE gaps
    /\ admin' = CASE admin.op = "edit"    -> [NoEdit EXCEPT !.grant = admin.grant]
                  [] admin.op = "refresh" -> [admin EXCEPT !.pc = "invalidate"]
                  [] admin.op = "reauth"  -> [admin EXCEPT !.pc = "clear",
                                                           !.grant = cred.grant]
    /\ UNCHANGED <<platform, live, expiring, lock, cache, left, dropped>>

\* UpdateAccount fails: what "refresh" got from the provider is lost.
AdminFails ==
    /\ admin.pc \in {"reread", "write"} /\ Use("faults")
    /\ dropped' = IF admin.op = "refresh" THEN dropped \cup {admin.acct.cred}
                                         ELSE dropped
    /\ admin' = [NoEdit EXCEPT !.grant = admin.grant]
    /\ UNCHANGED <<platform, account, live, expiring, lock, cache, attempt, gaps>>

\* A failure is logged: the account may stay out of service.
ClearAccountError ==
    /\ admin.pc = "clear"
    /\ admin' = [admin EXCEPT !.pc = "invalidate"]
    /\ \/ /\ account' = [account EXCEPT !.status = "active", !.temp = FALSE]
          /\ UNCHANGED <<left, gaps>>
       \/ Use("faults") /\ gaps' = gaps \cup {"uncleared"} /\ UNCHANGED account
    /\ UNCHANGED <<platform, live, expiring, lock, cache, attempt, dropped>>

AdminInvalidate ==
    /\ admin.pc = "invalidate"
    /\ admin' = [NoEdit EXCEPT !.grant = admin.grant]
    /\ \/ cache' = None /\ UNCHANGED <<left, gaps>>
       \/ Use("faults") /\ gaps' = gaps \cup {"cache"} /\ UNCHANGED cache
    /\ UNCHANGED <<platform, account, live, expiring, lock, attempt, dropped>>

-----------------------------------------------------------------------------
Attempt(a) ==
    \/ AcquireRefreshLock(a) \/ LockTimesOut(a) \/ Reread(a) \/ Refresh(a)
    \/ Persist(a) \/ LoadDurable(a) \/ tryRecoverFromRefreshRace(a)
    \/ ReleaseRefreshLock(a)
    \/ postRefreshActions(a) \/ SetError(a) \/ Retry(a)
    \/ SetTempUnschedulable(a) \/ InvalidateToken(a)
    \/ AfterRefresh(a) \/ WaitCache(a) \/ WaitRow(a)
    \/ CheckTokenVersion(a) \/ SetAccessToken(a)

Admin == AdminCall \/ AdminReread \/ UpdateAccount \/ AdminFails
           \/ ClearAccountError \/ AdminInvalidate

Next ==
    \/ Expire \/ Tick \/ TempExpires
    \/ \E a \in Attempts : StartBackground(a) \/ GetAccessToken(a) \/ Attempt(a)
    \/ \E op \in {"refresh", "reauth", "edit"} : AdminStart(op)
    \/ Admin

Spec == Init /\ [][Next]_vars

-----------------------------------------------------------------------------
(* Properties                                                              *)

\* Two attempts in the middle of a refresh at once: only after Redis failed,
\* after another's lock was deleted, or when a request to OpenAI, which has no
\* deadline, outlived its lease (RefreshIfNeeded, clampRefreshAttemptToLockLease).
OneRefreshAtATime ==
    (\E a, b \in Attempts : a # b /\ Working(a) /\ Working(b)) => "lease" \in gaps

\* Attempts refresh one after the other, and a refresh token is presented again
\* only if its answer is lost, or somebody outside the lock spent it or wrote it
\* back (the second reading in RefreshIfNeeded).
TokenUsedOnce ==
    /\ OneRefreshAtATime
    /\ \A a \in Attempts :
         attempt[a].pc = "denied" \/ (attempt[a].pc = "release" /\ attempt[a].out = "denied")
           => \/ attempt[a].acct.cred \in dropped
              \/ \E b \in Attempts : attempt[b].pc = "answered" /\ CtxDone(b)
                                        /\ attempt[b].acct.cred = attempt[a].acct.cred
              \/ gaps \cap {"lease", "manual", "clobbered"} # {}

\* The stored refresh token is the one the provider accepts, or an answer that
\* is about to replace it is on its way; unless that answer was lost or
\* dropped, or an edit of the account wrote an older row back.
StoredTokenUsable ==
    \/ Live(account.cred)
    \/ account.cred \in dropped
    \/ \E a \in Attempts : attempt[a].pc = "answered"
                               /\ attempt[a].acct.cred = account.cred
    \/ admin.pc # "idle" /\ admin.op = "refresh" /\ admin.acct.cred = account.cred
    \/ "clobbered" \in gaps

\* An account is out of service for good (SetError) only with a refresh token
\* that really is dead; unless a second refresh ran beside the attempt (the
\* lock failed, or the administrator refreshed), or, but for Grok, the
\* credentials changed before the row was marked, or ClearAccountError failed
\* after a re-authorization.
QuarantineIsDeserved ==
    account.status = "error" /\ Live(account.cred) /\ admin.pc # "clear"
        => \/ gaps \cap {"lease", "manual", "uncleared"} # {}
           \/ platform = "openai" /\ "late" \in gaps

\* The account uses the login the administrator brought last: no refresh of an
\* older one overwrites it (Grok's compare-and-set of the credentials).
ReauthorizationKept ==
    platform = "grok" /\ "clobbered" \notin gaps
        => account.cred.grant = admin.grant

\* With nobody at work, a cached access token is that of the stored
\* credentials.  Gap "cache" is the rest: Redis or the commit failed, the row
\* changed between CheckTokenVersion or waitForRefreshedToken and the write of
\* the token, its version did not grow, or CheckTokenVersion could not read it.
CachedTokenIsCurrent ==
    (admin.pc = "idle" /\ \A a \in Attempts : attempt[a].pc = "idle")
        => cache \in {None, account.cred} \/ gaps \cap {"cache", "clobbered"} # {}
=============================================================================
