---------------------------- MODULE RefreshLoop ----------------------------
(***************************************************************************)
(* The token refresh of the credential manager: the auto-refresh loop      *)
(* (sdk/cliproxy/auth/auto_refresh_loop.go), its workers and refreshAuth   *)
(* (conductor.go), the goroutines that update credentials, and the         *)
(* requests whose results set or clear a credential's 401.                 *)
(*                                                                         *)
(* A step is one critical section of the manager's or the loop's mutex, or *)
(* one channel operation.  The heap is a function from credentials to due  *)
(* times; the loop is its only writer once it runs.  A credential has the  *)
(* fields the two freshness tests read.  0 is Go's zero time.              *)
(***************************************************************************)
EXTENDS Integers, SequencesExt

CONSTANTS
  Auths,
  Workers,     \* refresh workers
  Updaters,    \* goroutines that register or update credentials
  Interval,    \* authPreferredInterval of each credential, 0 if it has none
  Lead,        \* ProviderRefreshLead of each credential, 0 if there is none
  Lifetimes,   \* lifetimes a provider may give a new token
  JobBuffer,   \* capacity of the jobs channel
  PendingBackoff, FailureBackoff, IneffectiveBackoff,
  MaxTime,     \* bound on the clock
  MaxUpdates,  \* bound on the updates from outside
  MaxResults,  \* bound on the request results that change the 401
  NoAuth       \* stands for the nil credential

ASSUME RefreshAssumption ==
  /\ Interval \in [Auths -> Nat] /\ Lead \in [Auths -> Nat]
  /\ Lifetimes \subseteq Nat
  /\ {JobBuffer, PendingBackoff, FailureBackoff, IneffectiveBackoff} \subseteq Nat \ {0}
  /\ {MaxTime, MaxUpdates, MaxResults} \subseteq Nat

\* What a credential has for the freshness tests.  apiKey: AccountInfo calls
\* it an API key, which has an "api_key" attribute and no email.
Freshness ==
  [expiry : Nat, last : Nat, nextAfter : Nat, unauthorized : BOOLEAN, apiKey : BOOLEAN]

ASSUME NoAuthAssumption == NoAuth \notin Auths /\ NoAuth \notin Freshness

ZeroTime == 0
Off == -1  \* not scheduled

-----------------------------------------------------------------------------
(***************************************************************************)
(* The two freshness tests, written separately in the code.                *)
(***************************************************************************)
Later(s, t) == IF s > t THEN s ELSE t
Sooner(s, t) == IF s < t THEN s ELSE t

\* The end of a preferred interval or of a token, whichever comes first.
IntervalEnd(auth, interval) ==
  IF auth.expiry = ZeroTime THEN auth.last + interval
  ELSE Sooner(auth.expiry - interval, auth.last + interval)

\* nextRefreshCheckAt.
nextRefreshCheckAt(auth, interval, lead, t) ==
  IF auth.unauthorized \/ auth.apiKey THEN Off
  ELSE IF auth.nextAfter > t THEN auth.nextAfter
  ELSE IF interval > 0
    THEN IF auth.last = ZeroTime THEN t ELSE Later(IntervalEnd(auth, interval), t)
  ELSE IF lead = 0 THEN Off
  ELSE IF auth.expiry # ZeroTime THEN Later(auth.expiry - lead, t)
  ELSE IF auth.last # ZeroTime THEN Later(auth.last + lead, t)
  ELSE t

\* Bug: the interval has to be exceeded, not reached.
shouldRefreshPastInterval(auth, interval, lead, t, clock) ==
  /\ ~auth.unauthorized
  /\ auth.nextAfter <= t
  /\ IF interval > 0
       THEN \/ auth.expiry # ZeroTime /\ auth.expiry - t <= interval
            \/ auth.last = ZeroTime
            \/ t - auth.last > interval
       ELSE /\ lead > 0
            /\ IF auth.expiry # ZeroTime THEN auth.expiry - clock <= lead
               ELSE auth.last # ZeroTime => t - auth.last >= lead

\* Manager.shouldRefresh, which asks nothing of API keys.  t is the time its
\* caller has read; time.Until reads the clock again.
shouldRefresh(auth, interval, lead, t, clock) ==
  /\ ~auth.unauthorized
  /\ auth.nextAfter <= t
  /\ IF interval > 0
       THEN \/ auth.expiry # ZeroTime /\ auth.expiry - t <= interval
            \/ auth.last = ZeroTime
            \/ t - auth.last >= interval
       ELSE /\ lead > 0
            /\ IF auth.expiry # ZeroTime THEN auth.expiry - clock <= lead
               ELSE auth.last # ZeroTime => t - auth.last >= lead

-----------------------------------------------------------------------------
VARIABLES
  auths,    \* Manager.auths
  queue,    \* the heap: when each credential is due, Off if it is not in it
  dirty,    \* credentials whose due time has to be computed again
  wake,     \* whether wakeCh holds its token
  timer,    \* when the loop's timer fires, Off if it is stopped
  jobs,     \* the jobs channel
  loop,     \* what the loop is doing
  op,       \* what each worker and updater is doing
  now,
  updates, results,  \* updates and changes of a 401 so far
  healed    \* history: credentials whose 401 a request's result has cleared

loopState == <<queue, timer, loop>>
bounds == <<updates, results>>
vars == <<auths, loopState, dirty, wake, jobs, op, now, bounds, healed>>

Known(a) == auths[a] # NoAuth
NextCheck(a, t) ==
  IF Known(a) THEN nextRefreshCheckAt(auths[a], Interval[a], Lead[a], t) ELSE Off
Due(a, t) == Known(a) /\ shouldRefresh(auths[a], Interval[a], Lead[a], t, now)

IdleOp == [todo |-> <<>>, auth |-> NoAuth, held |-> NoAuth]
AtSelect == [at |-> "select", auth |-> NoAuth, todo |-> {}, time |-> 0]

\* queueReschedule is a mark and a wake-up that does not block.  Update and
\* refreshAuth call it, and so does the worker after each job.
Reschedule == <<"dirty", "wake">>
RescheduleTwice == <<"dirty", "wake", "dirty", "wake">>
StoreAndReschedule == <<"store", "dirty", "wake">>
StoreAndRescheduleTwice == <<"store", "dirty", "wake", "dirty", "wake">>

Doing(p, step) == op[p].todo # <<>> /\ Head(op[p].todo) = step
Rest(p) == Tail(op[p].todo)
Proceed(p) == op' = [op EXCEPT ![p] = IF Rest(p) = <<>> THEN IdleOp ELSE [@ EXCEPT !.todo = Rest(p)]]

-----------------------------------------------------------------------------
(***************************************************************************)
(* The loop: woken by a dirty credential or by its timer.                  *)
(***************************************************************************)
Woken ==
  /\ loop.at = "select" /\ wake
  /\ wake' = FALSE
  /\ loop' = [AtSelect EXCEPT !.at = "drain", !.time = now]
  /\ UNCHANGED <<auths, queue, timer, dirty, jobs, op, now, bounds, healed>>

\* The timer fires: popDue.
TimerFired ==
  /\ loop.at = "select" /\ timer # Off /\ timer <= now
  /\ LET due == {a \in Auths : queue[a] # Off /\ queue[a] <= now}
     IN  /\ loop' = [AtSelect EXCEPT !.at = "due", !.todo = due, !.time = now]
         /\ queue' = [a \in Auths |-> IF a \in due THEN Off ELSE queue[a]]
  /\ timer' = Off
  /\ UNCHANGED <<auths, dirty, wake, jobs, op, now, bounds, healed>>

Schedule(a) == queue' = [queue EXCEPT ![a] = NextCheck(a, loop.time)]

\* handleDueAuth: a credential that is not to be refreshed is put back.
PutBack ==
  /\ loop.at = "due"
  /\ \E a \in loop.todo :
       /\ NextCheck(a, loop.time) = Off \/ ~Due(a, loop.time)
       /\ Schedule(a)
       /\ loop' = [loop EXCEPT !.todo = @ \ {a}]
  /\ UNCHANGED <<auths, timer, dirty, wake, jobs, op, now, bounds, healed>>

TakeDue ==
  /\ loop.at = "due"
  /\ \E a \in loop.todo :
       /\ NextCheck(a, loop.time) # Off /\ Due(a, loop.time)
       /\ loop' = [loop EXCEPT !.at = "mark", !.auth = a, !.todo = @ \ {a}]
  /\ UNCHANGED <<auths, queue, timer, dirty, wake, jobs, op, now, bounds, healed>>

\* markRefreshPending, in a critical section of its own.
MarkRefreshPending ==
  /\ loop.at = "mark"
  /\ LET a == loop.auth
     IN  IF auths[a].nextAfter > loop.time
           THEN /\ Schedule(a)
                /\ loop' = [loop EXCEPT !.at = "due", !.auth = NoAuth]
                /\ UNCHANGED auths
           ELSE /\ auths' = [auths EXCEPT ![a].nextAfter = loop.time + PendingBackoff]
                /\ loop' = [loop EXCEPT !.at = "dirty"]
                /\ UNCHANGED queue
  /\ UNCHANGED <<timer, dirty, wake, jobs, op, now, bounds, healed>>

PendingDirty ==
  /\ loop.at = "dirty"
  /\ dirty' = dirty \cup {loop.auth}
  /\ loop' = [loop EXCEPT !.at = "wake"]
  /\ UNCHANGED <<auths, queue, timer, wake, jobs, op, now, bounds, healed>>

PendingWake ==
  /\ loop.at = "wake"
  /\ wake' = TRUE
  /\ loop' = [loop EXCEPT !.at = "send"]
  /\ UNCHANGED <<auths, queue, timer, dirty, jobs, op, now, bounds, healed>>

\* The send blocks the loop while the channel is full.
SendJob ==
  /\ loop.at = "send" /\ Len(jobs) < JobBuffer
  /\ jobs' = Append(jobs, loop.auth)
  /\ loop' = [loop EXCEPT !.at = "due", !.auth = NoAuth]
  /\ UNCHANGED <<auths, queue, timer, dirty, wake, op, now, bounds, healed>>

DueHandled ==
  /\ loop.at = "due" /\ loop.todo = {}
  /\ loop' = [loop EXCEPT !.at = "drain"]
  /\ UNCHANGED <<auths, queue, timer, dirty, wake, jobs, op, now, bounds, healed>>

DrainDirty ==
  /\ loop.at = "drain"
  /\ loop' = [loop EXCEPT !.at = "apply", !.todo = dirty]
  /\ dirty' = {}
  /\ UNCHANGED <<auths, queue, timer, wake, jobs, op, now, bounds, healed>>

ApplyDirty ==
  /\ loop.at = "apply"
  /\ \E a \in loop.todo :
       /\ Schedule(a)
       /\ loop' = [loop EXCEPT !.todo = @ \ {a}]
  /\ UNCHANGED <<auths, timer, dirty, wake, jobs, op, now, bounds, healed>>

\* Bug: a timer that has been stopped is not started again.
ResetTimerIfRunning ==
  /\ loop.at = "apply" /\ loop.todo = {}
  /\ LET times == {queue[a] : a \in Auths} \ {Off}
     IN  timer' = IF timer = Off \/ times = {} THEN Off ELSE Min(times)
  /\ loop' = AtSelect
  /\ UNCHANGED <<auths, queue, dirty, wake, jobs, op, now, bounds, healed>>

ResetTimer ==
  /\ loop.at = "apply" /\ loop.todo = {}
  /\ LET times == {queue[a] : a \in Auths} \ {Off}
     IN  timer' = IF times = {} THEN Off ELSE Min(times)
  /\ loop' = AtSelect
  /\ UNCHANGED <<auths, queue, dirty, wake, jobs, op, now, bounds, healed>>

-----------------------------------------------------------------------------
(***************************************************************************)
(* Workers: refreshAuth, then queueReschedule.  The provider is called     *)
(* with a clone, and no lock is held meanwhile.                            *)
(***************************************************************************)
TakeJob(w) ==
  /\ w \in Workers /\ op[w] = IdleOp /\ jobs # <<>>
  /\ jobs' = Tail(jobs)
  /\ op' = [op EXCEPT ![w] = [todo |-> <<"call">>, auth |-> Head(jobs), held |-> auths[Head(jobs)]]]
  /\ UNCHANGED <<auths, loopState, dirty, wake, now, bounds, healed>>

\* The refreshed clone; when it is due again at once, a backoff.
\* Bug: a refresh that leaves the token due has no backoff.
RefreshedBare(a, auth, lifetime) ==
  [auth EXCEPT !.expiry = IF @ = ZeroTime THEN @ ELSE now + lifetime,
               !.last = now, !.nextAfter = ZeroTime, !.unauthorized = FALSE]

Refreshed(a, auth, lifetime) ==
  LET new == [auth EXCEPT !.expiry = IF @ = ZeroTime THEN @ ELSE now + lifetime,
                          !.last = now, !.nextAfter = ZeroTime, !.unauthorized = FALSE]
  IN  IF shouldRefresh(new, Interval[a], Lead[a], now, now)
        THEN [new EXCEPT !.nextAfter = now + IneffectiveBackoff] ELSE new

RefreshSucceeded(w) ==
  /\ Doing(w, "call")
  /\ \E lifetime \in Lifetimes :
       op' = [op EXCEPT ![w].held = Refreshed(op[w].auth, @, lifetime),
                        ![w].todo = StoreAndRescheduleTwice]
  /\ UNCHANGED <<auths, loopState, dirty, wake, jobs, now, bounds, healed>>

RefreshFailed(w) ==
  /\ Doing(w, "call")
  /\ \E unauthorized \in BOOLEAN :
       auths' = [auths EXCEPT ![op[w].auth] =
         [@ EXCEPT !.unauthorized = unauthorized,
                   !.nextAfter = IF unauthorized THEN ZeroTime ELSE now + FailureBackoff]]
  /\ op' = [op EXCEPT ![w].todo = RescheduleTwice]
  /\ UNCHANGED <<loopState, dirty, wake, jobs, now, bounds, healed>>

RefreshCanceled(w) ==
  /\ Doing(w, "call")
  /\ op' = [op EXCEPT ![w].todo = Reschedule]
  /\ UNCHANGED <<auths, loopState, dirty, wake, jobs, now, bounds, healed>>

\* Manager.Register and Manager.Update.
Store(p) ==
  /\ Doing(p, "store")
  /\ auths' = [auths EXCEPT ![op[p].auth] = op[p].held]
  /\ healed' = healed \ {op[p].auth}
  /\ Proceed(p)
  /\ UNCHANGED <<loopState, dirty, wake, jobs, now, bounds>>

MarkDirty(p) ==
  /\ Doing(p, "dirty")
  /\ dirty' = dirty \cup {op[p].auth}
  /\ Proceed(p)
  /\ UNCHANGED <<auths, loopState, wake, jobs, now, bounds, healed>>

Wake(p) ==
  /\ Doing(p, "wake")
  /\ wake' = TRUE
  /\ Proceed(p)
  /\ UNCHANGED <<auths, loopState, dirty, jobs, now, bounds, healed>>

-----------------------------------------------------------------------------
(***************************************************************************)
(* Updates from outside (applyCoreAuthAddOrUpdate): the new value takes    *)
(* the refresh times of the one GetByID returns.                           *)
(***************************************************************************)
\* Bug: the loop is not told of an update.
StartUpdateQuietly(p) ==
  /\ p \in Updaters /\ op[p] = IdleOp /\ updates < MaxUpdates
  /\ \E a \in Auths, expiry \in {ZeroTime} \cup {now + n : n \in Lifetimes}, apiKey \in BOOLEAN :
       op' = [op EXCEPT ![p] =
         [todo |-> <<"store">>, auth |-> a,
          held |-> [expiry |-> expiry, unauthorized |-> FALSE, apiKey |-> apiKey,
                    last |-> IF Known(a) THEN auths[a].last ELSE ZeroTime,
                    nextAfter |-> IF Known(a) THEN auths[a].nextAfter ELSE ZeroTime]]]
  /\ updates' = updates + 1
  /\ UNCHANGED <<auths, loopState, dirty, wake, jobs, now, results, healed>>

StartUpdate(p) ==
  /\ p \in Updaters /\ op[p] = IdleOp /\ updates < MaxUpdates
  /\ \E a \in Auths, expiry \in {ZeroTime} \cup {now + n : n \in Lifetimes}, apiKey \in BOOLEAN :
       op' = [op EXCEPT ![p] =
         [todo |-> StoreAndReschedule, auth |-> a,
          held |-> [expiry |-> expiry, unauthorized |-> FALSE, apiKey |-> apiKey,
                    last |-> IF Known(a) THEN auths[a].last ELSE ZeroTime,
                    nextAfter |-> IF Known(a) THEN auths[a].nextAfter ELSE ZeroTime]]]
  /\ updates' = updates + 1
  /\ UNCHANGED <<auths, loopState, dirty, wake, jobs, now, results, healed>>

\* MarkResult: a result sets or clears the 401, and tells the loop nothing.
MarkResult(a) ==
  /\ Known(a) /\ results < MaxResults
  /\ auths' = [auths EXCEPT ![a].unauthorized = ~@]
  /\ healed' = IF auths[a].unauthorized THEN healed \cup {a} ELSE healed \ {a}
  /\ results' = results + 1
  /\ UNCHANGED <<loopState, dirty, wake, jobs, op, now, updates>>

Tick ==
  /\ now < MaxTime
  /\ now' = now + 1
  /\ UNCHANGED <<auths, loopState, dirty, wake, jobs, op, bounds, healed>>

\* The loop is started on an empty manager.
Init ==
  /\ auths = [a \in Auths |-> NoAuth]
  /\ queue = [a \in Auths |-> Off] /\ dirty = {} /\ wake = FALSE
  /\ timer = Off /\ jobs = <<>> /\ loop = AtSelect
  /\ op = [p \in Workers \cup Updaters |-> IdleOp]
  /\ now = 1 /\ updates = 0 /\ results = 0 /\ healed = {}

LoopStep ==
  \/ Woken \/ TimerFired \/ PutBack \/ TakeDue \/ MarkRefreshPending
  \/ PendingDirty \/ PendingWake \/ SendJob \/ DueHandled
  \/ DrainDirty \/ ApplyDirty \/ ResetTimer

ProcStep(p) ==
  \/ TakeJob(p) \/ RefreshSucceeded(p) \/ RefreshFailed(p) \/ RefreshCanceled(p)
  \/ Store(p) \/ MarkDirty(p) \/ Wake(p)

Next ==
  \/ LoopStep
  \/ \E p \in Workers \cup Updaters : ProcStep(p) \/ StartUpdate(p)
  \/ \E a \in Auths : MarkResult(a)
  \/ Tick

\* Goroutines that can run do, and a call to a provider returns.  No fairness
\* for the clock, for updates or for requests.
Fairness == WF_vars(LoopStep) /\ \A p \in Workers \cup Updaters : WF_vars(ProcStep(p))

Spec == Init /\ [][Next]_vars /\ Fairness
-----------------------------------------------------------------------------
(***************************************************************************)
(* Properties.                                                             *)
(***************************************************************************)
\* The two tests, written separately, agree on every credential but an API
\* key: its next check is now exactly when it is due.  Otherwise the loop
\* would wake for it again and again, or sleep past it.  An API key may be due
\* for shouldRefresh, and has no next check at all.
TestsAgree ==
  \A a \in Auths : Known(a) =>
    (NextCheck(a, now) = now <=> Due(a, now) /\ ~auths[a].apiKey)

\* Somebody is about to look at the credential again.
InHand(a) ==
  \/ a \in dirty \/ a \in loop.todo \/ loop.auth = a
  \/ a \in ToSet(jobs)
  \/ \E p \in DOMAIN op : op[p].auth = a

Tracked(a) == InHand(a) \/ (queue[a] # Off /\ queue[a] <= NextCheck(a, now))

\* No credential that is to be checked is lost, or checked late, between the
\* heap, the dirty set, the loop, the channel and the workers: but for one
\* whose 401 was cleared by a request's result.
NotForgotten ==
  \A a \in Auths : NextCheck(a, now) # Off /\ a \notin healed => Tracked(a)

\* The loop "evaluates auth freshness every few seconds and triggers refresh
\* operations when required": no credential at all is lost.
FreshnessEvaluated == \A a \in Auths : NextCheck(a, now) # Off => Tracked(a)

\* A credential that needs a refresh and is not an API key is refreshed, or
\* put off by a failure, without the clock having to move: no wake-up is lost
\* and nobody waits for the loop while the loop waits for them.
ToRefresh(a) == Due(a, now) /\ ~auths[a].apiKey
DueIsRefreshed ==
  \A a \in Auths : ToRefresh(a) ~> (~ToRefresh(a) \/ a \in healed)

\* While the clock stands still the loop comes to rest: it does not refresh
\* one credential over and over, nor spin on a due time that never comes due.
NoTightLoop == <>[][FALSE]_loop
=============================================================================
