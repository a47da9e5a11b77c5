------------------------- MODULE RefreshLoopProofs -------------------------
(***************************************************************************)
(* Proofs about the refresh of credentials, for any number of credentials, *)
(* workers and updaters, any intervals and any bounds: the two freshness   *)
(* tests agree, and no credential is forgotten or checked late.            *)
(***************************************************************************)
EXTENDS RefreshLoop, SequenceTheorems, TLAPS

-----------------------------------------------------------------------------
(***************************************************************************)
(* The freshness tests.                                                    *)
(***************************************************************************)
\* nextRefreshCheckAt names the present instant exactly when shouldRefresh
\* says yes of a credential that is not an API key, whatever its times, its
\* lead or interval are; of an API key shouldRefresh may say yes all the same.
THEOREM TestsAgreeOnAuth ==
  ASSUME NEW auth \in Freshness, NEW interval \in Nat, NEW lead \in Nat, NEW t \in Nat
  PROVE  nextRefreshCheckAt(auth, interval, lead, t) = t
           <=> shouldRefresh(auth, interval, lead, t, t) /\ ~auth.apiKey
PROOF BY DEF Freshness, shouldRefresh, nextRefreshCheckAt, Later, Sooner, IntervalEnd, ZeroTime, Off

\* A check is never scheduled in the past.
LEMMA CheckInFuture ==
  ASSUME NEW auth \in Freshness, NEW interval \in Nat, NEW lead \in Nat, NEW t \in Nat
  PROVE  /\ nextRefreshCheckAt(auth, interval, lead, t) \in Int
         /\ \/ nextRefreshCheckAt(auth, interval, lead, t) = Off
            \/ nextRefreshCheckAt(auth, interval, lead, t) >= t
PROOF
<1> DEFINE check == nextRefreshCheckAt(auth, interval, lead, t)
<1>1. auth.expiry \in Nat /\ auth.last \in Nat /\ auth.nextAfter \in Nat /\ Off \in Int
  BY DEF Freshness, Off
<1>2. IntervalEnd(auth, interval) \in Int
  BY <1>1 DEF IntervalEnd, Sooner, ZeroTime
<1>3. \A x \in Int : Later(x, t) \in Int /\ Later(x, t) >= t
  BY DEF Later
<1>4. check = Off \/ (check \in Int /\ check >= t)
  BY <1>1, <1>2, <1>3 DEF nextRefreshCheckAt
<1> QED
  BY <1>1, <1>4

\* A due time computed a while ago is not later than one computed now.
LEMMA CheckMonotone ==
  ASSUME NEW auth \in Freshness, NEW interval \in Nat, NEW lead \in Nat,
         NEW s \in Nat, NEW t \in Nat, s <= t,
         nextRefreshCheckAt(auth, interval, lead, t) # Off
  PROVE  /\ nextRefreshCheckAt(auth, interval, lead, s) # Off
         /\ nextRefreshCheckAt(auth, interval, lead, s) <= nextRefreshCheckAt(auth, interval, lead, t)
PROOF BY DEF Freshness, nextRefreshCheckAt, Later, Sooner, IntervalEnd, ZeroTime, Off

-----------------------------------------------------------------------------
(***************************************************************************)
(* The inductive invariant.  Covered strengthens InHand: a goroutine that  *)
(* has only a wake-up left to send no longer counts, because the dirty     *)
(* mark it has set stands for it.                                          *)
(***************************************************************************)
Todos == {<<>>, <<"call">>, <<"wake">>, <<"wake", "dirty", "wake">>,
          Reschedule, RescheduleTwice, StoreAndReschedule, StoreAndRescheduleTwice}
NeedsHeld == {<<"call">>, StoreAndReschedule, StoreAndRescheduleTwice}
Carrying == {"mark", "dirty", "wake", "send"}

LoopPlaces == {"select", "due", "drain", "apply"} \cup Carrying
LoopRecords == [at : LoopPlaces, auth : Auths \cup {NoAuth}, todo : SUBSET Auths, time : Nat]
OpRecords == [todo : Todos, auth : Auths \cup {NoAuth}, held : Freshness \cup {NoAuth}]

Types ==
  /\ auths \in [Auths -> Freshness \cup {NoAuth}]
  /\ queue \in [Auths -> Int]
  /\ dirty \subseteq Auths
  /\ jobs \in Seq(Auths)
  /\ loop \in LoopRecords
  /\ op \in [Workers \cup Updaters -> OpRecords]
  /\ now \in Nat

LoopControl ==
  /\ loop.time <= now
  /\ loop.at \in {"select", "drain"} => loop.todo = {}
  /\ IF loop.at \in Carrying THEN loop.auth \in Auths /\ Known(loop.auth)
                             ELSE loop.auth = NoAuth
  /\ \A i \in DOMAIN jobs : Known(jobs[i])

OpControl(p) ==
  /\ op[p].todo # <<>> => op[p].auth \in Auths
  /\ op[p].todo \in NeedsHeld => op[p].held \in Freshness
  /\ op[p].todo = <<"call">> => Known(op[p].auth)

Covered(a) ==
  \/ a \in dirty \/ a \in loop.todo \/ loop.auth = a
  \/ a \in ToSet(jobs)
  \/ \E p \in Workers \cup Updaters :
       op[p].auth = a /\ op[p].todo # <<>> /\ op[p].todo # <<"wake">>

Waiting(a) == queue[a] # Off /\ queue[a] <= NextCheck(a, now)

Kept == \A a \in Auths : NextCheck(a, now) # Off /\ a \notin healed => Covered(a) \/ Waiting(a)

Control == LoopControl /\ \A p \in Workers \cup Updaters : OpControl(p)
IInv == Types /\ Control /\ Kept

-----------------------------------------------------------------------------
(***************************************************************************)
(* Facts about due times and programs.                                     *)
(***************************************************************************)
\* A due time is an integer: an instant, or Off.
LEMMA NextCheckType ==
  ASSUME Types, NEW a \in Auths, NEW t \in Nat
  PROVE  NextCheck(a, t) \in Int
PROOF BY CheckInFuture, RefreshAssumption DEF Types, NextCheck, Known, Off

\* The due time of a credential in the map never moves back as time passes.
LEMMA NextCheckMonotone ==
  ASSUME Types, NEW a \in Auths, NEW s \in Nat, NEW t \in Nat, s <= t, NextCheck(a, t) # Off
  PROVE  NextCheck(a, s) # Off /\ NextCheck(a, s) <= NextCheck(a, t)
PROOF
<1>1. Known(a) /\ auths[a] \in Freshness
  BY DEF Types, NextCheck, Known
<1>2. Interval[a] \in Nat /\ Lead[a] \in Nat
  BY RefreshAssumption
<1> QED
  BY <1>1, <1>2, CheckMonotone DEF NextCheck

\* Which programs can be at each step of an update or a refresh, and what is
\* left of them after it.
LEMMA TodoShape ==
  ASSUME Types, NEW p \in Workers \cup Updaters
  PROVE  /\ Doing(p, "call") => op[p].todo = <<"call">>
         /\ Doing(p, "store") =>
              \/ op[p].todo = StoreAndReschedule /\ Rest(p) = Reschedule
              \/ op[p].todo = StoreAndRescheduleTwice /\ Rest(p) = RescheduleTwice
         /\ Doing(p, "dirty") =>
              \/ op[p].todo = Reschedule /\ Rest(p) = <<"wake">>
              \/ op[p].todo = RescheduleTwice /\ Rest(p) = <<"wake", "dirty", "wake">>
         /\ Doing(p, "wake") =>
              \/ op[p].todo = <<"wake">> /\ Rest(p) = <<>>
              \/ op[p].todo = <<"wake", "dirty", "wake">> /\ Rest(p) = Reschedule
PROOF
<1>1. op[p].todo \in Todos
  BY DEF Types, OpRecords
<1>2. /\ Tail(<<"wake">>) = <<>>
      /\ Tail(<<"wake", "dirty", "wake">>) = Reschedule
      /\ Tail(Reschedule) = <<"wake">>
      /\ Tail(RescheduleTwice) = <<"wake", "dirty", "wake">>
      /\ Tail(StoreAndReschedule) = Reschedule
      /\ Tail(StoreAndRescheduleTwice) = RescheduleTwice
  BY DEF Reschedule, RescheduleTwice, StoreAndReschedule, StoreAndRescheduleTwice
<1>3. /\ Head(<<"call">>) = "call"
      /\ Head(<<"wake">>) = "wake" /\ Head(<<"wake", "dirty", "wake">>) = "wake"
      /\ Head(Reschedule) = "dirty" /\ Head(RescheduleTwice) = "dirty"
      /\ Head(StoreAndReschedule) = "store" /\ Head(StoreAndRescheduleTwice) = "store"
  BY DEF Reschedule, RescheduleTwice, StoreAndReschedule, StoreAndRescheduleTwice
<1> QED
  BY <1>1, <1>2, <1>3 DEF Todos, Doing, Rest

\* The programs, as sequences, differ from each other where it matters.
LEMMA TodosDistinct ==
  /\ <<"call">> \in NeedsHeld /\ <<"call">> # <<>> /\ <<"call">> # <<"wake">>
  /\ StoreAndReschedule \in NeedsHeld /\ StoreAndRescheduleTwice \in NeedsHeld
  /\ \A todo \in {StoreAndReschedule, StoreAndRescheduleTwice, Reschedule, RescheduleTwice,
                  <<"wake", "dirty", "wake">>} :
       todo # <<>> /\ todo # <<"wake">> /\ todo # <<"call">>
  /\ \A todo \in {<<>>, <<"wake">>, <<"wake", "dirty", "wake">>, Reschedule, RescheduleTwice} :
       todo \notin NeedsHeld /\ todo # <<"call">>
PROOF BY DEF NeedsHeld, Reschedule, RescheduleTwice, StoreAndReschedule, StoreAndRescheduleTwice

-----------------------------------------------------------------------------
(***************************************************************************)
(* Types.                                                                  *)
(***************************************************************************)
\* The loop, the workers and the map start well typed.
LEMMA InitTypes == Init => Types
PROOF BY DEF Init, Types, LoopRecords, LoopPlaces, OpRecords, AtSelect, IdleOp, Todos, Off

\* Every step of the loop's goroutine keeps the types.
LEMMA LoopTypes ==
  ASSUME Types, Control, LoopStep
  PROVE  Types'
PROOF
<1>0. /\ loop \in LoopRecords /\ loop.at \in LoopPlaces /\ loop.todo \subseteq Auths
      /\ loop.auth \in Auths \cup {NoAuth} /\ loop.time \in Nat /\ now \in Nat
  BY DEF Types, LoopRecords
<1>a. \A a \in Auths : NextCheck(a, loop.time) \in Int
  BY NextCheckType, <1>0
<1>b. \A a \in Auths : queue[a] \in Int
  BY DEF Types
<1>c. \A a \in Auths : Schedule(a) => queue' \in [Auths -> Int]
  BY <1>a DEF Types, Schedule
<1>d. loop.at \in Carrying => loop.auth \in Auths /\ Known(loop.auth)
  BY DEF Control, LoopControl
<1>1. CASE Woken
  <2>1. loop' \in LoopRecords
    BY <1>1, <1>0 DEF Woken, AtSelect, LoopRecords, LoopPlaces
  <2> QED
    BY <1>1, <2>1 DEF Woken, Types
<1>2. CASE TimerFired
  <2>1. loop' \in LoopRecords
    BY <1>2, <1>0 DEF TimerFired, AtSelect, LoopRecords, LoopPlaces
  <2>2. queue' \in [Auths -> Int]
    BY <1>2, <1>b DEF TimerFired, Off
  <2> QED
    BY <1>2, <2>1, <2>2 DEF TimerFired, Types
<1>3. CASE PutBack
  <2>1. loop' \in LoopRecords
    BY <1>3, <1>0 DEF PutBack, LoopRecords, LoopPlaces
  <2>2. queue' \in [Auths -> Int]
    BY <1>3, <1>0, <1>c DEF PutBack
  <2> QED
    BY <1>3, <2>1, <2>2 DEF PutBack, Types
<1>4. CASE TakeDue
  <2>1. loop' \in LoopRecords
    BY <1>4, <1>0 DEF TakeDue, LoopRecords, LoopPlaces, Carrying
  <2> QED
    BY <1>4, <2>1 DEF TakeDue, Types
<1>5. CASE MarkRefreshPending
  <2>1. loop.auth \in Auths /\ auths[loop.auth] \in Freshness
    BY <1>5, <1>d DEF MarkRefreshPending, Known, Types, Carrying
  <2>2. loop' \in LoopRecords
    BY <1>5, <1>0 DEF MarkRefreshPending, LoopRecords, LoopPlaces, Carrying
  <2>3. queue' \in [Auths -> Int]
    BY <1>5, <1>c, <2>1 DEF MarkRefreshPending, Types
  <2>4. loop.time + PendingBackoff \in Nat
    BY <1>0, RefreshAssumption
  <2>5. [auths[loop.auth] EXCEPT !.nextAfter = loop.time + PendingBackoff] \in Freshness
    BY <2>1, <2>4 DEF Freshness
  <2>6. auths' \in [Auths -> Freshness \cup {NoAuth}]
    BY <1>5, <2>1, <2>5 DEF MarkRefreshPending, Types
  <2> QED
    BY <1>5, <2>2, <2>3, <2>6 DEF MarkRefreshPending, Types
<1>6. CASE PendingDirty
  <2>1. loop' \in LoopRecords /\ loop.auth \in Auths
    BY <1>6, <1>0, <1>d DEF PendingDirty, LoopRecords, LoopPlaces, Carrying
  <2> QED
    BY <1>6, <2>1 DEF PendingDirty, Types
<1>7. CASE PendingWake
  <2>1. loop' \in LoopRecords
    BY <1>7, <1>0 DEF PendingWake, LoopRecords, LoopPlaces, Carrying
  <2> QED
    BY <1>7, <2>1 DEF PendingWake, Types
<1>8. CASE SendJob
  <2>1. loop' \in LoopRecords /\ loop.auth \in Auths
    BY <1>8, <1>0, <1>d DEF SendJob, LoopRecords, LoopPlaces, Carrying
  <2>2. jobs' \in Seq(Auths)
    BY <1>8, <2>1 DEF SendJob, Types
  <2> QED
    BY <1>8, <2>1, <2>2 DEF SendJob, Types
<1>9. CASE DueHandled
  <2>1. loop' \in LoopRecords
    BY <1>9, <1>0 DEF DueHandled, LoopRecords, LoopPlaces
  <2> QED
    BY <1>9, <2>1 DEF DueHandled, Types
<1>10. CASE DrainDirty
  <2>1. loop' \in LoopRecords /\ dirty' \subseteq Auths
    BY <1>10, <1>0 DEF DrainDirty, LoopRecords, LoopPlaces, Types
  <2> QED
    BY <1>10, <2>1 DEF DrainDirty, Types
<1>11. CASE ApplyDirty
  <2>1. loop' \in LoopRecords
    BY <1>11, <1>0 DEF ApplyDirty, LoopRecords, LoopPlaces
  <2>2. queue' \in [Auths -> Int]
    BY <1>11, <1>0, <1>c DEF ApplyDirty
  <2> QED
    BY <1>11, <2>1, <2>2 DEF ApplyDirty, Types
<1>12. CASE ResetTimer
  <2>1. loop' \in LoopRecords
    BY <1>12, <1>0 DEF ResetTimer, AtSelect, LoopRecords, LoopPlaces
  <2> QED
    BY <1>12, <2>1 DEF ResetTimer, Types
<1> QED
  BY <1>1, <1>2, <1>3, <1>4, <1>5, <1>6, <1>7, <1>8, <1>9, <1>10, <1>11, <1>12 DEF LoopStep

\* A successful refresh yields a well-typed credential.
LEMMA RefreshedType ==
  ASSUME now \in Nat, NEW a \in Auths, NEW auth \in Freshness, NEW lifetime \in Lifetimes
  PROVE  Refreshed(a, auth, lifetime) \in Freshness
PROOF
<1>1. now + lifetime \in Nat /\ now + IneffectiveBackoff \in Nat
  BY RefreshAssumption
<1>2. auth.expiry \in Nat
  BY DEF Freshness
<1> DEFINE new == [auth EXCEPT !.expiry = IF @ = ZeroTime THEN @ ELSE now + lifetime,
                               !.last = now, !.nextAfter = ZeroTime, !.unauthorized = FALSE]
<1>3. new \in Freshness
  BY <1>1, <1>2 DEF Freshness, ZeroTime
<1>4. [new EXCEPT !.nextAfter = now + IneffectiveBackoff] \in Freshness
  BY <1>1, <1>3 DEF Freshness
<1> QED
  BY <1>3, <1>4 DEF Refreshed

\* Every step of a worker or an updater keeps the types.
LEMMA ProcTypes ==
  ASSUME Types, Control, NEW p \in Workers \cup Updaters, ProcStep(p) \/ StartUpdate(p)
  PROVE  Types'
PROOF
<1>0. /\ op[p] \in OpRecords /\ op[p].todo \in Todos /\ op[p].auth \in Auths \cup {NoAuth}
      /\ op[p].held \in Freshness \cup {NoAuth} /\ now \in Nat
  BY DEF Types, OpRecords
<1>a. /\ <<>> \in Todos /\ <<"wake">> \in Todos /\ <<"wake", "dirty", "wake">> \in Todos
      /\ <<"call">> \in Todos /\ Reschedule \in Todos /\ RescheduleTwice \in Todos
      /\ StoreAndReschedule \in Todos /\ StoreAndRescheduleTwice \in Todos
  BY DEF Todos
<1>b. /\ op[p].todo # <<>> => op[p].auth \in Auths
      /\ op[p].todo \in NeedsHeld => op[p].held \in Freshness
      /\ op[p].todo = <<"call">> => Known(op[p].auth)
  BY DEF Control, OpControl
<1>c. ASSUME Proceed(p), Rest(p) \in Todos
      PROVE  op' \in [Workers \cup Updaters -> OpRecords]
  <2>1. IdleOp \in OpRecords
    BY <1>a DEF IdleOp, OpRecords
  <2>2. [op[p] EXCEPT !.todo = Rest(p)] \in OpRecords
    BY <1>c, <1>0 DEF OpRecords
  <2> QED
    BY <1>c, <2>1, <2>2 DEF Types, Proceed
<1>1. CASE TakeJob(p)
  <2>1. Head(jobs) \in Auths /\ Tail(jobs) \in Seq(Auths)
    BY <1>1 DEF TakeJob, Types
  <2>2. auths[Head(jobs)] \in Freshness \cup {NoAuth}
    BY <2>1 DEF Types
  <2>3. op' \in [Workers \cup Updaters -> OpRecords]
    BY <1>1, <1>a, <2>1, <2>2 DEF TakeJob, Types, OpRecords
  <2> QED
    BY <1>1, <2>1, <2>3 DEF TakeJob, Types, loopState
<1>2. CASE RefreshSucceeded(p)
  <2>1. op[p].auth \in Auths /\ op[p].held \in Freshness
    BY <1>2, <1>b, TodoShape, TodosDistinct DEF RefreshSucceeded
  <2>2. \A lifetime \in Lifetimes : Refreshed(op[p].auth, op[p].held, lifetime) \in Freshness
    BY <2>1, <1>0, RefreshedType
  <2>3. PICK lifetime \in Lifetimes :
          op' = [op EXCEPT ![p].held = Refreshed(op[p].auth, @, lifetime),
                           ![p].todo = StoreAndRescheduleTwice]
    BY <1>2 DEF RefreshSucceeded
  <2>4. op' = [op EXCEPT ![p] = [op[p] EXCEPT
                 !.held = Refreshed(op[p].auth, op[p].held, lifetime),
                 !.todo = StoreAndRescheduleTwice]]
    BY <2>3 DEF Types, OpRecords
  <2>5. op' \in [Workers \cup Updaters -> OpRecords]
    BY <2>4, <2>2, <1>0, <1>a DEF Types, OpRecords
  <2> QED
    BY <1>2, <2>5 DEF RefreshSucceeded, Types, loopState
<1>3. CASE RefreshFailed(p)
  <2>1. op[p].auth \in Auths /\ auths[op[p].auth] \in Freshness
    BY <1>3, <1>b, TodoShape, TodosDistinct DEF RefreshFailed, Types, Known
  <2>2. ZeroTime \in Nat /\ now + FailureBackoff \in Nat
    BY <1>0, RefreshAssumption DEF ZeroTime
  <2>3. \A unauthorized \in BOOLEAN :
          [auths[op[p].auth] EXCEPT !.unauthorized = unauthorized,
             !.nextAfter = IF unauthorized THEN ZeroTime ELSE now + FailureBackoff] \in Freshness
    BY <2>1, <2>2 DEF Freshness
  <2>4. auths' \in [Auths -> Freshness \cup {NoAuth}]
    BY <1>3, <2>1, <2>3 DEF RefreshFailed, Types
  <2>5. op' \in [Workers \cup Updaters -> OpRecords]
    BY <1>3, <1>0, <1>a DEF RefreshFailed, Types, OpRecords
  <2> QED
    BY <1>3, <2>4, <2>5 DEF RefreshFailed, Types, loopState
<1>4. CASE RefreshCanceled(p)
  <2>1. op' \in [Workers \cup Updaters -> OpRecords]
    BY <1>4, <1>0, <1>a DEF RefreshCanceled, Types, OpRecords
  <2> QED
    BY <1>4, <2>1 DEF RefreshCanceled, Types, loopState
<1>5. CASE Store(p)
  <2>1. op' \in [Workers \cup Updaters -> OpRecords]
    BY <1>5, <1>a, <1>c, TodoShape DEF Store
  <2>2. op[p].auth \in Auths
    BY <1>5, <1>b DEF Store, Doing
  <2> QED
    BY <1>5, <1>0, <2>1, <2>2 DEF Store, Types, loopState
<1>6. CASE MarkDirty(p)
  <2>1. op' \in [Workers \cup Updaters -> OpRecords]
    BY <1>6, <1>a, <1>c, TodoShape DEF MarkDirty
  <2>2. op[p].auth \in Auths
    BY <1>6, <1>b DEF MarkDirty, Doing
  <2> QED
    BY <1>6, <2>1, <2>2 DEF MarkDirty, Types, loopState
<1>7. CASE Wake(p)
  <2>1. op' \in [Workers \cup Updaters -> OpRecords]
    BY <1>7, <1>a, <1>c, TodoShape DEF Wake
  <2> QED
    BY <1>7, <2>1 DEF Wake, Types, loopState
<1>8. CASE StartUpdate(p)
  <2>1. PICK a \in Auths, expiry \in {ZeroTime} \cup {now + n : n \in Lifetimes},
               apiKey \in BOOLEAN :
          op' = [op EXCEPT ![p] =
            [todo |-> StoreAndReschedule, auth |-> a,
             held |-> [expiry |-> expiry, unauthorized |-> FALSE, apiKey |-> apiKey,
                       last |-> IF Known(a) THEN auths[a].last ELSE ZeroTime,
                       nextAfter |-> IF Known(a) THEN auths[a].nextAfter ELSE ZeroTime]]]
    BY <1>8 DEF StartUpdate
  <2>2. expiry \in Nat
    BY <1>0, RefreshAssumption DEF ZeroTime
  <2>3. Known(a) => auths[a].last \in Nat /\ auths[a].nextAfter \in Nat
    BY DEF Types, Known, Freshness
  <2>4. [expiry |-> expiry, unauthorized |-> FALSE, apiKey |-> apiKey,
         last |-> IF Known(a) THEN auths[a].last ELSE ZeroTime,
         nextAfter |-> IF Known(a) THEN auths[a].nextAfter ELSE ZeroTime] \in Freshness
    BY <2>2, <2>3 DEF Freshness, ZeroTime
  <2>5. op' \in [Workers \cup Updaters -> OpRecords]
    BY <2>1, <2>4, <1>a DEF Types, OpRecords
  <2> QED
    BY <1>8, <2>5 DEF StartUpdate, Types, loopState
<1> QED
  BY <1>1, <1>2, <1>3, <1>4, <1>5, <1>6, <1>7, <1>8 DEF ProcStep

\* Request results and the clock keep the types.
LEMMA OtherTypes ==
  ASSUME Types, (\E a \in Auths : MarkResult(a)) \/ Tick \/ UNCHANGED vars
  PROVE  Types'
PROOF
<1>1. CASE \E a \in Auths : MarkResult(a)
  <2>1. PICK a \in Auths : MarkResult(a)
    BY <1>1
  <2>2. auths[a] \in Freshness
    BY <2>1 DEF MarkResult, Known, Types
  <2> QED
    BY <2>1, <2>2 DEF MarkResult, Types, loopState, Freshness
<1>2. CASE Tick
  BY <1>2 DEF Tick, Types, loopState
<1>3. CASE UNCHANGED vars
  BY <1>3 DEF vars, loopState, Types
<1> QED
  BY <1>1, <1>2, <1>3

-----------------------------------------------------------------------------
(***************************************************************************)
(* Control.  Credentials are never removed from the manager.               *)
(***************************************************************************)
\* The control facts hold before anything runs.
LEMMA InitControl == Init => Control
PROOF
<1> SUFFICES ASSUME Init
             PROVE  Control
  OBVIOUS
<1>1. LoopControl
  BY DEF Init, LoopControl, AtSelect, Carrying
<1>2. \A p \in Workers \cup Updaters : op[p].todo = <<>>
  BY DEF Init, IdleOp
<1>3. \A p \in Workers \cup Updaters : OpControl(p)
  BY <1>2, TodosDistinct DEF OpControl
<1> QED
  BY <1>1, <1>3 DEF Control

\* Only a credential that is in the map can be due.
LEMMA DueIsKnown == \A a \in Auths : \A t : Due(a, t) => Known(a)
PROOF BY DEF Due

\* What the steps of the loop leave alone.
LEMMA LoopControlPreserved ==
  ASSUME Types, Types', Control, LoopStep
  PROVE  Control'
PROOF
<1>0. /\ loop \in LoopRecords /\ loop.todo \subseteq Auths /\ loop.time <= now
      /\ jobs \in Seq(Auths) /\ now \in Nat
  BY DEF Types, LoopRecords, Control, LoopControl
<1>1. op' = op /\ now' = now /\ \A a \in Auths : Known(a) => auths'[a] # NoAuth
  <2>1. CASE MarkRefreshPending
    <3>1. loop.auth \in Auths /\ auths[loop.auth] \in Freshness
      BY <2>1 DEF MarkRefreshPending, Control, LoopControl, Known, Types, Carrying
    <3>2. loop.time + PendingBackoff \in Nat
      BY <1>0, RefreshAssumption DEF LoopRecords
    <3>3. [auths[loop.auth] EXCEPT !.nextAfter = loop.time + PendingBackoff] # NoAuth
      BY <3>1, <3>2, NoAuthAssumption DEF Freshness
    <3> QED
      BY <2>1, <3>1, <3>3 DEF MarkRefreshPending, Known, Types
  <2>2. CASE ~MarkRefreshPending
    BY <2>2 DEF LoopStep, Woken, TimerFired, PutBack, TakeDue, PendingDirty, PendingWake,
                SendJob, DueHandled, DrainDirty, ApplyDirty, ResetTimer, Known
  <2> QED
    BY <2>1, <2>2
<1>2. \A p \in Workers \cup Updaters : OpControl(p)'
  BY <1>1 DEF Control, OpControl, Known
<1>3. /\ loop'.time <= now
      /\ loop'.at \in {"select", "drain"} => loop'.todo = {}
      /\ IF loop'.at \in Carrying THEN loop'.auth \in Auths /\ Known(loop'.auth)
                                  ELSE loop'.auth = NoAuth
  <2> USE <1>0 DEF LoopRecords, Carrying
  <2>0. IF loop.at \in Carrying THEN loop.auth \in Auths /\ Known(loop.auth) ELSE loop.auth = NoAuth
    BY DEF Control, LoopControl
  <2>1. CASE Woken
    BY <2>1 DEF Woken, AtSelect
  <2>2. CASE TimerFired
    BY <2>2 DEF TimerFired, AtSelect
  <2>3. CASE PutBack
    BY <2>3, <2>0 DEF PutBack
  <2>4. CASE TakeDue
    BY <2>4, DueIsKnown DEF TakeDue
  <2>5. CASE MarkRefreshPending
    BY <2>5, <2>0 DEF MarkRefreshPending
  <2>6. CASE PendingDirty
    BY <2>6, <2>0 DEF PendingDirty
  <2>7. CASE PendingWake
    BY <2>7, <2>0 DEF PendingWake
  <2>8. CASE SendJob
    BY <2>8 DEF SendJob
  <2>9. CASE DueHandled
    BY <2>9, <2>0 DEF DueHandled
  <2>10. CASE DrainDirty
    BY <2>10, <2>0 DEF DrainDirty
  <2>11. CASE ApplyDirty
    BY <2>11, <2>0 DEF ApplyDirty
  <2>12. CASE ResetTimer
    BY <2>12 DEF ResetTimer, AtSelect
  <2> QED
    BY <2>1, <2>2, <2>3, <2>4, <2>5, <2>6, <2>7, <2>8, <2>9, <2>10, <2>11, <2>12 DEF LoopStep
<1>4. \A i \in DOMAIN jobs' : jobs'[i] \in Auths /\ Known(jobs'[i])
  <2>0. \A i \in DOMAIN jobs : jobs[i] \in Auths /\ Known(jobs[i])
    BY <1>0 DEF Control, LoopControl
  <2>1. CASE SendJob
    <3>1. loop.auth \in Auths /\ Known(loop.auth)
      BY <2>1 DEF SendJob, Control, LoopControl, Carrying
    <3>2. jobs' = Append(jobs, loop.auth)
      BY <2>1 DEF SendJob
    <3>3. \A i \in DOMAIN jobs' : jobs'[i] = loop.auth \/ (i \in DOMAIN jobs /\ jobs'[i] = jobs[i])
      BY <3>1, <3>2, <1>0, AppendProperties, LenProperties
    <3> QED
      BY <2>0, <3>1, <3>3
  <2>2. CASE ~SendJob
    <3>1. jobs' = jobs
      BY <2>2 DEF LoopStep, Woken, TimerFired, PutBack, TakeDue, MarkRefreshPending,
           PendingDirty, PendingWake, DueHandled, DrainDirty, ApplyDirty, ResetTimer
    <3> QED
      BY <3>1, <2>0
  <2> QED
    BY <2>1, <2>2
<1>5. LoopControl'
  <2>1. loop'.at \in Carrying => auths'[loop'.auth] # NoAuth
    BY <1>1, <1>3
  <2>2. \A i \in DOMAIN jobs' : auths'[jobs'[i]] # NoAuth
    BY <1>1, <1>4
  <2> QED
    BY <1>1, <1>3, <2>1, <2>2 DEF LoopControl, Known
<1> QED
  BY <1>2, <1>5 DEF Control

\* A worker or an updater names a credential, and holds a value to store, for
\* as long as its program needs them.
LEMMA ProcControlPreserved ==
  ASSUME Types, Types', Control, NEW p \in Workers \cup Updaters, ProcStep(p) \/ StartUpdate(p)
  PROVE  Control'
PROOF
<1>0. /\ op \in [Workers \cup Updaters -> OpRecords] /\ op[p] \in OpRecords
      /\ op' \in [Workers \cup Updaters -> OpRecords] /\ jobs \in Seq(Auths)
      /\ auths' \in [Auths -> Freshness \cup {NoAuth}]
  BY DEF Types
<1>1. loop' = loop /\ now' = now
  BY DEF ProcStep, TakeJob, RefreshSucceeded, RefreshFailed, RefreshCanceled, Store, MarkDirty,
         Wake, StartUpdate, loopState
<1>2. \A i \in DOMAIN jobs' : jobs'[i] \in Auths /\ Known(jobs'[i])
  <2>0. \A i \in DOMAIN jobs : jobs[i] \in Auths /\ Known(jobs[i])
    BY <1>0 DEF Control, LoopControl
  <2>1. CASE TakeJob(p)
    <3>1. jobs' = Tail(jobs) /\ jobs # <<>>
      BY <2>1 DEF TakeJob
    <3>2. \A i \in DOMAIN jobs' : i + 1 \in DOMAIN jobs /\ jobs'[i] = jobs[i + 1]
      BY <3>1, <1>0, HeadTailProperties, LenProperties
    <3> QED
      BY <3>2, <2>0
  <2>2. CASE ~TakeJob(p)
    BY <2>0, <2>2 DEF ProcStep, RefreshSucceeded, RefreshFailed, RefreshCanceled, Store,
         MarkDirty, Wake, StartUpdate
  <2> QED
    BY <2>1, <2>2
<1>3. /\ op[p].todo # <<>> => op[p].auth \in Auths
      /\ op[p].todo \in NeedsHeld => op[p].held \in Freshness
      /\ op[p].todo = <<"call">> => Known(op[p].auth)
  BY DEF Control, OpControl
<1>4. \A a \in Auths : Known(a) => auths'[a] # NoAuth
  <2>1. CASE RefreshFailed(p)
    <3>1. op[p].auth \in Auths /\ auths[op[p].auth] \in Freshness
      BY <2>1, <1>3, TodoShape, TodosDistinct DEF RefreshFailed, Known, Types
    <3>a. ZeroTime \in Nat /\ now + FailureBackoff \in Nat
      BY RefreshAssumption DEF ZeroTime, Types
    <3>2. \A b \in BOOLEAN : [auths[op[p].auth] EXCEPT !.unauthorized = b,
            !.nextAfter = IF b THEN ZeroTime ELSE now + FailureBackoff] \in Freshness
      BY <3>1, <3>a DEF Freshness
    <3> QED
      BY <2>1, <3>1, <3>2, NoAuthAssumption DEF RefreshFailed, Known, Types
  <2>2. CASE Store(p)
    <3>1. op[p].auth \in Auths /\ op[p].held # NoAuth
      BY <2>2, <1>3, TodoShape, TodosDistinct, NoAuthAssumption DEF Store
    <3> QED
      BY <2>2, <3>1 DEF Store, Known, Types
  <2>3. CASE ~RefreshFailed(p) /\ ~Store(p)
    BY <2>3 DEF ProcStep, TakeJob, RefreshSucceeded, RefreshCanceled, MarkDirty, Wake,
                StartUpdate, Known
  <2> QED
    BY <2>1, <2>2, <2>3
<1>5. /\ op'[p].todo # <<>> => op'[p].auth \in Auths
      /\ op'[p].todo \in NeedsHeld => op'[p].held \in Freshness
      /\ op'[p].todo = <<"call">> => auths'[op'[p].auth] # NoAuth
  <2> USE <1>3
  <2>1. CASE TakeJob(p)
    <3>1. Head(jobs) \in Auths /\ Known(Head(jobs))
      <4>1. jobs # <<>> /\ 1 \in DOMAIN jobs /\ Head(jobs) = jobs[1]
        BY <2>1, <1>0, LenProperties DEF TakeJob
      <4> QED
        BY <4>1, <1>0 DEF Control, LoopControl
    <3>2. auths[Head(jobs)] \in Freshness
      BY <3>1 DEF Types, Known
    <3>3. op'[p] = [todo |-> <<"call">>, auth |-> Head(jobs), held |-> auths[Head(jobs)]]
      BY <2>1, <1>0 DEF TakeJob
    <3> QED
      BY <3>1, <3>2, <3>3, <1>4
  <2>2. CASE RefreshSucceeded(p)
    <3>1. op[p].todo = <<"call">>
      BY <2>2, TodoShape DEF RefreshSucceeded
    <3>2. op[p].auth \in Auths /\ op[p].held \in Freshness
      BY <3>1, TodosDistinct
    <3>3. /\ op'[p].todo = StoreAndRescheduleTwice /\ op'[p].auth = op[p].auth
          /\ \E lifetime \in Lifetimes : op'[p].held = Refreshed(op[p].auth, op[p].held, lifetime)
      BY <2>2, <1>0 DEF RefreshSucceeded, OpRecords
    <3>4. op'[p].held # NoAuth
      <4>1. PICK lifetime \in Lifetimes : op'[p].held = Refreshed(op[p].auth, op[p].held, lifetime)
        BY <3>3
      <4>2. Refreshed(op[p].auth, op[p].held, lifetime) \in Freshness
        BY <3>2, RefreshedType DEF Types
      <4> QED
        BY <4>1, <4>2, NoAuthAssumption
    <3> QED
      BY <3>2, <3>3, <3>4, <1>0, TodosDistinct DEF OpRecords
  <2>3. CASE RefreshFailed(p) \/ RefreshCanceled(p)
    <3>1. op[p].todo = <<"call">>
      BY <2>3, TodoShape DEF RefreshFailed, RefreshCanceled
    <3>2. op' = [op EXCEPT ![p].todo = Reschedule] \/ op' = [op EXCEPT ![p].todo = RescheduleTwice]
      BY <2>3 DEF RefreshFailed, RefreshCanceled
    <3>3. op'[p].todo \in {Reschedule, RescheduleTwice} /\ op'[p].auth = op[p].auth
      BY <3>2, <1>0 DEF OpRecords
    <3> QED
      BY <3>1, <3>3, TodosDistinct
  <2>4. CASE Store(p) \/ MarkDirty(p) \/ Wake(p)
    <3>1. op[p].todo # <<>> /\ Proceed(p)
      BY <2>4 DEF Store, MarkDirty, Wake, Doing
    <3>2. Rest(p) \notin NeedsHeld /\ Rest(p) # <<"call">>
      <4>1. Rest(p) = <<>> \/ Rest(p) = <<"wake">> \/ Rest(p) = <<"wake", "dirty", "wake">>
              \/ Rest(p) = Reschedule \/ Rest(p) = RescheduleTwice
        BY <2>4, TodoShape DEF Store, MarkDirty, Wake
      <4> QED
        BY <4>1, TodosDistinct
    <3>3. \/ op'[p] = IdleOp
          \/ op'[p].todo = Rest(p) /\ op'[p].auth = op[p].auth
      BY <3>1, <1>0 DEF Proceed, OpRecords
    <3> QED
      BY <3>1, <3>2, <3>3, TodosDistinct DEF IdleOp
  <2>5. CASE StartUpdate(p)
    <3>1. PICK a \in Auths, expiry \in {ZeroTime} \cup {now + n : n \in Lifetimes},
               apiKey \in BOOLEAN :
            op' = [op EXCEPT ![p] = [todo |-> StoreAndReschedule, auth |-> a,
              held |-> [expiry |-> expiry, unauthorized |-> FALSE, apiKey |-> apiKey,
                        last |-> IF Known(a) THEN auths[a].last ELSE ZeroTime,
                        nextAfter |-> IF Known(a) THEN auths[a].nextAfter ELSE ZeroTime]]]
      BY <2>5 DEF StartUpdate
    <3>a. expiry \in Nat
      <4>1. now \in Nat /\ Lifetimes \subseteq Nat
        BY RefreshAssumption DEF Types
      <4> QED
        BY <4>1 DEF ZeroTime
    <3>2. expiry \in Nat /\ (Known(a) => auths[a].last \in Nat /\ auths[a].nextAfter \in Nat)
      BY <3>a DEF Types, Known, Freshness
    <3>3. [expiry |-> expiry, unauthorized |-> FALSE, apiKey |-> apiKey,
           last |-> IF Known(a) THEN auths[a].last ELSE ZeroTime,
           nextAfter |-> IF Known(a) THEN auths[a].nextAfter ELSE ZeroTime] \in Freshness
      BY <3>2 DEF Freshness, ZeroTime
    <3>4. op'[p] = [todo |-> StoreAndReschedule, auth |-> a,
            held |-> [expiry |-> expiry, unauthorized |-> FALSE, apiKey |-> apiKey,
                      last |-> IF Known(a) THEN auths[a].last ELSE ZeroTime,
                      nextAfter |-> IF Known(a) THEN auths[a].nextAfter ELSE ZeroTime]]
      BY <3>1, <1>0
    <3> QED
      BY <3>4, <3>3, TodosDistinct
  <2> QED
    BY <2>1, <2>2, <2>3, <2>4, <2>5 DEF ProcStep
<1>6. \A q \in Workers \cup Updaters : q # p => op'[q] = op[q]
  BY <1>0 DEF ProcStep, TakeJob, RefreshSucceeded, RefreshFailed, RefreshCanceled, Store,
         MarkDirty, Wake, StartUpdate, Proceed
<1>7. ASSUME NEW q \in Workers \cup Updaters
      PROVE  OpControl(q)'
  <2>1. CASE q = p
    BY <1>5, <2>1 DEF OpControl, Known
  <2>2. CASE q # p
    BY <1>4, <1>6, <2>2, TodosDistinct DEF Control, OpControl, Known
  <2> QED
    BY <2>1, <2>2
<1>8. LoopControl'
  <2>1. loop'.at \in Carrying => auths'[loop'.auth] # NoAuth
    BY <1>1, <1>4 DEF Control, LoopControl
  <2>2. \A i \in DOMAIN jobs' : auths'[jobs'[i]] # NoAuth
    BY <1>2, <1>4
  <2> QED
    BY <1>1, <2>1, <2>2 DEF Control, LoopControl, Known
<1> QED
  BY <1>7, <1>8 DEF Control

\* Request results and the clock do not touch the control facts.
LEMMA OtherControlPreserved ==
  ASSUME Types, Types', Control, (\E a \in Auths : MarkResult(a)) \/ Tick \/ UNCHANGED vars
  PROVE  Control'
PROOF
<1>1. loop' = loop /\ op' = op /\ jobs' = jobs /\ now <= now'
  BY DEF MarkResult, Tick, vars, loopState, Types
<1>2. \A a \in Auths : Known(a) => auths'[a] # NoAuth
  <2>1. CASE \E a \in Auths : MarkResult(a)
    <3>1. PICK a \in Auths : MarkResult(a)
      BY <2>1
    <3>2. auths[a] \in Freshness
      BY <3>1 DEF MarkResult, Known, Types
    <3>3. [auths[a] EXCEPT !.unauthorized = ~@] \in Freshness
      BY <3>2 DEF Freshness
    <3> QED
      BY <3>1, <3>3, NoAuthAssumption DEF MarkResult, Known, Types
  <2>2. CASE Tick \/ UNCHANGED vars
    BY <2>2 DEF Tick, vars, Known
  <2> QED
    BY <2>1, <2>2
<1>3. jobs \in Seq(Auths) /\ loop.time \in Nat /\ now \in Nat /\ now' \in Nat
  BY DEF Types, LoopRecords
<1>4. \A i \in DOMAIN jobs' : auths'[jobs'[i]] # NoAuth
  BY <1>1, <1>2, <1>3 DEF Control, LoopControl
<1>5. LoopControl'
  BY <1>1, <1>2, <1>3, <1>4 DEF Control, LoopControl, Known
<1>6. \A q \in Workers \cup Updaters : OpControl(q)'
  BY <1>1, <1>2, TodosDistinct DEF Control, OpControl, Known
<1> QED
  BY <1>5, <1>6 DEF Control

-----------------------------------------------------------------------------
(***************************************************************************)
(* What a channel holds.                                                   *)
(***************************************************************************)
\* Appending to a sequence adds the element to its range.
LEMMA ToSetAppend ==
  ASSUME NEW S, NEW s \in Seq(S), NEW e \in S
  PROVE  ToSet(Append(s, e)) = ToSet(s) \cup {e}
PROOF
<1>1. /\ DOMAIN s = 1..Len(s) /\ Len(s) \in Nat
      /\ DOMAIN Append(s, e) = 1..Len(s) + 1
      /\ \A i \in 1..Len(s) : Append(s, e)[i] = s[i]
      /\ Append(s, e)[Len(s) + 1] = e
  BY AppendProperties, LenProperties
<1>2. 1..Len(s) + 1 = (1..Len(s)) \cup {Len(s) + 1}
  BY <1>1
<1> QED
  BY <1>1, <1>2 DEF ToSet

\* The range of a sequence is its head and the range of its tail.
LEMMA ToSetTail ==
  ASSUME NEW S, NEW s \in Seq(S), s # <<>>
  PROVE  ToSet(s) = ToSet(Tail(s)) \cup {Head(s)}
PROOF
<1>1. /\ DOMAIN s = 1..Len(s) /\ Len(s) \in Nat \ {0} /\ Head(s) = s[1]
      /\ DOMAIN Tail(s) = 1..Len(s) - 1
      /\ \A i \in 1..Len(s) - 1 : Tail(s)[i] = s[i + 1]
  <2>1. /\ DOMAIN s = 1..Len(s) /\ Len(s) \in Nat \ {0} /\ Head(s) = s[1]
    OBVIOUS
  <2>2. /\ Tail(s) \in Seq(S) /\ Len(Tail(s)) = Len(s) - 1
        /\ \A i \in 1..Len(Tail(s)) : Tail(s)[i] = s[i + 1]
    BY HeadTailProperties
  <2> QED
    BY <2>1, <2>2, LenProperties
<1>2. \A i \in 1..Len(s) : i = 1 \/ (i - 1 \in 1..Len(s) - 1 /\ s[i] = Tail(s)[i - 1])
  BY <1>1
<1>3. \A i \in 1..Len(s) - 1 : i + 1 \in 1..Len(s) /\ Tail(s)[i] = s[i + 1]
  BY <1>1
<1>4. ASSUME NEW e \in ToSet(s)
      PROVE  e = Head(s) \/ e \in ToSet(Tail(s))
  <2>1. PICK i \in 1..Len(s) : e = s[i]
    BY <1>1 DEF ToSet
  <2>2. CASE i = 1
    BY <1>1, <2>1, <2>2
  <2>3. CASE i # 1
    <3>1. i - 1 \in DOMAIN Tail(s) /\ e = Tail(s)[i - 1]
      BY <1>1, <1>2, <2>1, <2>3
    <3> QED
      BY <3>1 DEF ToSet
  <2> QED
    BY <2>2, <2>3
<1>5. Head(s) \in ToSet(s)
  BY <1>1 DEF ToSet
<1>6. ToSet(Tail(s)) \subseteq ToSet(s)
  BY <1>1, <1>3 DEF ToSet
<1> QED
  BY <1>4, <1>5, <1>6

-----------------------------------------------------------------------------
(***************************************************************************)
(* No credential is lost.                                                  *)
(***************************************************************************)
\* Nothing is due before a credential has been stored.
LEMMA InitKept == Init => Kept
PROOF BY DEF Init, Kept, NextCheck, Known, Off

\* A credential a step leaves alone stays kept.
LEMMA KeptFrame ==
  ASSUME Kept, NEW a \in Auths, auths'[a] = auths[a], now' = now, queue'[a] = queue[a],
         a \in healed => a \in healed', Covered(a) => Covered(a)'
  PROVE  NextCheck(a, now)' # Off /\ a \notin healed' => Covered(a)' \/ Waiting(a)'
PROOF
<1>1. NextCheck(a, now)' = NextCheck(a, now)
  BY DEF NextCheck, Known
<1>2. Waiting(a) => Waiting(a)'
  BY <1>1 DEF Waiting
<1> QED
  BY <1>1, <1>2 DEF Kept

\* A credential that is given a due time computed when the loop woke waits.
LEMMA ScheduleKeeps ==
  ASSUME Types, NEW a \in Auths, Schedule(a), loop.time <= now, auths'[a] = auths[a], now' = now,
         NextCheck(a, now)' # Off
  PROVE  Waiting(a)'
PROOF
<1>1. NextCheck(a, now)' = NextCheck(a, now)
  BY DEF NextCheck, Known
<1>2. queue'[a] = NextCheck(a, loop.time)
  BY DEF Schedule, Types
<1>3. loop.time \in Nat /\ now \in Nat
  BY DEF Types, LoopRecords
<1> QED
  BY <1>1, <1>2, <1>3, NextCheckMonotone DEF Waiting

\* The loop takes a credential out of one place only when it is in another.
LEMMA LoopKept ==
  ASSUME Types, Control, Kept, LoopStep
  PROVE  Kept'
PROOF
<1>0. /\ now' = now /\ op' = op /\ healed' = healed /\ loop.time <= now
      /\ loop \in LoopRecords /\ loop.todo \subseteq Auths /\ queue \in [Auths -> Int]
      /\ auths \in [Auths -> Freshness \cup {NoAuth}] /\ jobs \in Seq(Auths)
  BY DEF LoopStep, Woken, TimerFired, PutBack, TakeDue, MarkRefreshPending, PendingDirty,
         PendingWake, SendJob, DueHandled, DrainDirty, ApplyDirty, ResetTimer, Types, LoopRecords,
         Control, LoopControl
<1>a. \A a \in Auths : NextCheck(a, now)' # Off /\ Schedule(a) /\ auths'[a] = auths[a] => Waiting(a)'
  BY <1>0, ScheduleKeeps
<1>b. /\ loop.at \in {"select", "drain"} => loop.todo = {}
      /\ loop.at \notin Carrying => \A a \in Auths : loop.auth # a
  BY NoAuthAssumption DEF Control, LoopControl
<1> SUFFICES ASSUME NEW a \in Auths, NextCheck(a, now)' # Off, a \notin healed'
             PROVE  Covered(a)' \/ Waiting(a)'
  BY DEF Kept
<1>c. auths'[a] = auths[a] /\ queue'[a] = queue[a] /\ (Covered(a) => Covered(a)') =>
        Covered(a)' \/ Waiting(a)'
  BY <1>0, KeptFrame
<1>1. CASE Woken
  BY <1>1, <1>0, <1>b, <1>c DEF Woken, AtSelect, Covered, Carrying
<1>2. CASE TimerFired
  <2>1. CASE a \in loop'.todo
    BY <2>1 DEF Covered
  <2>2. CASE a \notin loop'.todo
    BY <1>2, <2>2, <1>0, <1>b, <1>c DEF TimerFired, AtSelect, Covered, Carrying
  <2> QED
    BY <2>1, <2>2
<1>3. CASE PutBack
  <2>1. PICK b \in loop.todo : Schedule(b) /\ loop' = [loop EXCEPT !.todo = @ \ {b}]
    BY <1>3 DEF PutBack
  <2>2. CASE a = b
    BY <1>3, <1>a, <2>1, <2>2 DEF PutBack
  <2>3. CASE a # b
    BY <1>3, <1>0, <1>c, <2>1, <2>3 DEF PutBack, Schedule, Covered, LoopRecords
  <2> QED
    BY <2>2, <2>3
<1>4. CASE TakeDue
  <2>1. PICK b \in loop.todo : loop' = [loop EXCEPT !.at = "mark", !.auth = b, !.todo = @ \ {b}]
    BY <1>4 DEF TakeDue
  <2>2. Covered(a) => Covered(a)'
    BY <1>4, <1>0, <1>b, <2>1 DEF TakeDue, Covered, LoopRecords, Carrying
  <2> QED
    BY <1>4, <1>c, <2>2 DEF TakeDue
<1>5. CASE MarkRefreshPending
  <2>1. CASE a = loop.auth /\ auths[a].nextAfter > loop.time
    BY <1>5, <1>a, <2>1 DEF MarkRefreshPending
  <2>2. CASE a = loop.auth /\ ~(auths[a].nextAfter > loop.time)
    BY <1>5, <1>0, <2>2 DEF MarkRefreshPending, Covered, LoopRecords
  <2>3. CASE a # loop.auth
    <3>1. auths'[a] = auths[a] /\ queue'[a] = queue[a]
      BY <1>5, <1>0, <2>3 DEF MarkRefreshPending, Schedule
    <3>2. Covered(a) => Covered(a)'
      BY <1>5, <1>0, <2>3 DEF MarkRefreshPending, Covered, LoopRecords
    <3> QED
      BY <1>c, <3>1, <3>2
  <2> QED
    BY <2>1, <2>2, <2>3
<1>6. CASE PendingDirty
  BY <1>6, <1>0, <1>c DEF PendingDirty, Covered, LoopRecords
<1>7. CASE PendingWake
  BY <1>7, <1>0, <1>c DEF PendingWake, Covered, LoopRecords
<1>8. CASE SendJob
  <2>1. loop.auth \in Auths
    BY <1>8 DEF SendJob, Control, LoopControl, Carrying
  <2>2. ToSet(jobs') = ToSet(jobs) \cup {loop.auth}
    <3>1. jobs' = Append(jobs, loop.auth)
      BY <1>8 DEF SendJob
    <3> QED
      BY <3>1, <2>1, <1>0, ToSetAppend
  <2>3. Covered(a) => Covered(a)'
    BY <1>8, <1>0, <2>2 DEF SendJob, Covered, LoopRecords
  <2> QED
    BY <1>8, <1>c, <2>3 DEF SendJob
<1>9. CASE DueHandled
  BY <1>9, <1>0, <1>c DEF DueHandled, Covered, LoopRecords
<1>10. CASE DrainDirty
  BY <1>10, <1>0, <1>b, <1>c DEF DrainDirty, Covered, LoopRecords
<1>11. CASE ApplyDirty
  <2>1. PICK b \in loop.todo : Schedule(b) /\ loop' = [loop EXCEPT !.todo = @ \ {b}]
    BY <1>11 DEF ApplyDirty
  <2>2. CASE a = b
    BY <1>11, <1>a, <2>1, <2>2 DEF ApplyDirty
  <2>3. CASE a # b
    BY <1>11, <1>0, <1>c, <2>1, <2>3 DEF ApplyDirty, Schedule, Covered, LoopRecords
  <2> QED
    BY <2>2, <2>3
<1>12. CASE ResetTimer
  BY <1>12, <1>0, <1>b, <1>c DEF ResetTimer, AtSelect, Covered, Carrying
<1> QED
  BY <1>1, <1>2, <1>3, <1>4, <1>5, <1>6, <1>7, <1>8, <1>9, <1>10, <1>11, <1>12 DEF LoopStep

\* A worker or an updater that changes a credential still has to mark it dirty.
LEMMA ProcKept ==
  ASSUME Types, Control, Kept, NEW p \in Workers \cup Updaters, ProcStep(p) \/ StartUpdate(p)
  PROVE  Kept'
PROOF
<1>0. /\ now' = now /\ loop' = loop /\ queue' = queue
      /\ op \in [Workers \cup Updaters -> OpRecords] /\ op[p] \in OpRecords
      /\ auths \in [Auths -> Freshness \cup {NoAuth}] /\ jobs \in Seq(Auths)
  BY DEF ProcStep, TakeJob, RefreshSucceeded, RefreshFailed, RefreshCanceled, Store, MarkDirty,
         Wake, StartUpdate, loopState, Types
<1>1. op[p].todo # <<>> => op[p].auth \in Auths
  BY DEF Control, OpControl
<1>2. \A q \in Workers \cup Updaters : q # p => op'[q] = op[q]
  BY <1>0 DEF ProcStep, TakeJob, RefreshSucceeded, RefreshFailed, RefreshCanceled, Store,
         MarkDirty, Wake, StartUpdate, Proceed
<1> SUFFICES ASSUME NEW a \in Auths, NextCheck(a, now)' # Off, a \notin healed'
             PROVE  Covered(a)' \/ Waiting(a)'
  BY DEF Kept
<1>c. auths'[a] = auths[a] /\ (a \in healed => a \in healed') /\ (Covered(a) => Covered(a)') =>
        Covered(a)' \/ Waiting(a)'
  BY <1>0, KeptFrame
<1>d. op'[p].auth = a /\ op'[p].todo # <<>> /\ op'[p].todo # <<"wake">> => Covered(a)'
  BY DEF Covered
\* A goroutine that keeps its credential, and something to do for it but a wake-up.
<1>e. /\ op'[p].auth = op[p].auth /\ op'[p].todo # <<>> /\ op'[p].todo # <<"wake">>
      /\ dirty \subseteq dirty' /\ jobs' = jobs
      => (Covered(a) => Covered(a)')
  BY <1>0, <1>2 DEF Covered
<1>3. CASE TakeJob(p)
  <2>1. op[p].todo = <<>> /\ auths' = auths /\ healed' = healed /\ dirty' = dirty
    BY <1>3 DEF TakeJob, IdleOp
  <2>2. op'[p].auth = Head(jobs) /\ op'[p].todo = <<"call">>
    BY <1>3, <1>0 DEF TakeJob
  <2>3. ToSet(jobs) = ToSet(jobs') \cup {Head(jobs)}
    BY <1>3, <1>0, ToSetTail DEF TakeJob
  <2>4. CASE a = Head(jobs)
    BY <2>2, <2>4, <1>d, TodosDistinct
  <2>5. CASE a # Head(jobs)
    BY <2>1, <2>3, <2>5, <1>0, <1>2, <1>c DEF Covered
  <2> QED
    BY <2>4, <2>5
<1>4. CASE RefreshSucceeded(p)
  <2>1. op'[p].auth = op[p].auth /\ op'[p].todo = StoreAndRescheduleTwice
    BY <1>4, <1>0 DEF RefreshSucceeded, OpRecords
  <2> QED
    BY <1>4, <2>1, <1>c, <1>e, TodosDistinct DEF RefreshSucceeded
<1>5. CASE RefreshFailed(p)
  <2>1. op'[p].auth = op[p].auth /\ op'[p].todo = RescheduleTwice
    BY <1>5, <1>0 DEF RefreshFailed, OpRecords
  <2>2. CASE a = op[p].auth
    BY <2>1, <2>2, <1>d, TodosDistinct
  <2>3. CASE a # op[p].auth
    BY <1>5, <1>0, <2>1, <2>3, <1>c, <1>e, TodosDistinct DEF RefreshFailed
  <2> QED
    BY <2>2, <2>3
<1>6. CASE RefreshCanceled(p)
  <2>1. op'[p].auth = op[p].auth /\ op'[p].todo = Reschedule
    BY <1>6, <1>0 DEF RefreshCanceled, OpRecords
  <2> QED
    BY <1>6, <2>1, <1>c, <1>e, TodosDistinct DEF RefreshCanceled
<1>7. CASE Store(p)
  <2>1. op'[p].auth = op[p].auth /\ op'[p].todo \in {Reschedule, RescheduleTwice}
    BY <1>7, <1>0, TodoShape, TodosDistinct DEF Store, Proceed, OpRecords
  <2>2. CASE a = op[p].auth
    BY <2>1, <2>2, <1>d, TodosDistinct
  <2>3. CASE a # op[p].auth
    BY <1>7, <1>0, <2>1, <2>3, <1>c, <1>e, TodosDistinct DEF Store
  <2> QED
    BY <2>2, <2>3
<1>8. CASE MarkDirty(p)
  <2>1. CASE a = op[p].auth
    BY <1>8, <2>1 DEF MarkDirty, Covered
  <2>2. CASE a # op[p].auth
    BY <1>8, <1>0, <1>2, <2>2, <1>c DEF MarkDirty, Covered
  <2> QED
    BY <2>1, <2>2
<1>9. CASE Wake(p)
  <2>1. CASE op[p].todo = <<"wake">>
    BY <1>9, <1>0, <1>2, <2>1, <1>c DEF Wake, Covered
  <2>2. CASE op[p].todo # <<"wake">>
    <3>1. op'[p].auth = op[p].auth /\ op'[p].todo = Reschedule
      BY <1>9, <1>0, <2>2, TodoShape, TodosDistinct DEF Wake, Proceed, OpRecords
    <3> QED
      BY <1>9, <3>1, <1>c, <1>e, TodosDistinct DEF Wake
  <2> QED
    BY <2>1, <2>2
<1>10. CASE StartUpdate(p)
  <2>1. op[p].todo = <<>> /\ auths' = auths /\ healed' = healed /\ dirty' = dirty /\ jobs' = jobs
    BY <1>10 DEF StartUpdate, IdleOp
  <2> QED
    BY <2>1, <1>0, <1>2, <1>c DEF Covered
<1> QED
  BY <1>3, <1>4, <1>5, <1>6, <1>7, <1>8, <1>9, <1>10 DEF ProcStep

\* Request results and the clock forget no credential that was not healed.
LEMMA OtherKept ==
  ASSUME Types, Control, Kept, (\E a \in Auths : MarkResult(a)) \/ Tick \/ UNCHANGED vars
  PROVE  Kept'
PROOF
<1>0. \A a \in Auths : Covered(a) => Covered(a)'
  BY DEF MarkResult, Tick, vars, loopState, Covered
<1>1. CASE \E b \in Auths : MarkResult(b)
  <2>1. PICK b \in Auths : MarkResult(b)
    BY <1>1
  <2>2. auths[b] \in Freshness /\ auths'[b] = [auths[b] EXCEPT !.unauthorized = ~@]
    BY <2>1 DEF MarkResult, Known, Types
  <2>3. CASE auths[b].unauthorized
    <3>1. b \in healed'
      BY <2>1, <2>3 DEF MarkResult
    <3>2. \A a \in Auths : a # b => auths'[a] = auths[a] /\ (a \in healed => a \in healed')
      BY <2>1, <2>3 DEF MarkResult, Types
    <3> QED
      BY <2>1, <3>1, <3>2, <1>0, KeptFrame DEF Kept, MarkResult, loopState
  <2>4. CASE ~auths[b].unauthorized
    <3>1. auths'[b].unauthorized
      BY <2>2, <2>4 DEF Freshness
    <3>2. NextCheck(b, now)' = Off
      BY <3>1 DEF NextCheck, Known, nextRefreshCheckAt
    <3>3. \A a \in Auths : a # b => auths'[a] = auths[a] /\ (a \in healed => a \in healed')
      BY <2>1, <2>4 DEF MarkResult, Types
    <3> QED
      BY <2>1, <3>2, <3>3, <1>0, KeptFrame DEF Kept, MarkResult, loopState
  <2> QED
    BY <2>3, <2>4
<1>2. CASE Tick
  <2> SUFFICES ASSUME NEW a \in Auths, NextCheck(a, now)' # Off, a \notin healed'
               PROVE  Covered(a)' \/ Waiting(a)'
    BY DEF Kept
  <2>1. now \in Nat /\ now' = now + 1 /\ healed' = healed /\ queue' = queue /\ auths' = auths
    BY <1>2 DEF Tick, Types, loopState
  <2>2. NextCheck(a, now)' = NextCheck(a, now')
    BY <2>1 DEF NextCheck, Known
  <2>3. NextCheck(a, now) # Off /\ NextCheck(a, now) <= NextCheck(a, now')
    BY <2>1, <2>2, NextCheckMonotone
  <2>4. NextCheck(a, now) \in Int /\ NextCheck(a, now') \in Int /\ queue[a] \in Int
    BY <2>1, NextCheckType DEF Types
  <2> QED
    BY <1>0, <2>1, <2>2, <2>3, <2>4 DEF Kept, Waiting
<1>3. CASE UNCHANGED vars
  BY <1>3, <1>0, KeptFrame DEF Kept, vars, loopState
<1> QED
  BY <1>1, <1>2, <1>3

-----------------------------------------------------------------------------
(***************************************************************************)
(* The theorems.                                                           *)
(***************************************************************************)
\* The invariant holds initially.
LEMMA InitIInv == Init => IInv
PROOF BY InitTypes, InitControl, InitKept DEF IInv

\* Every step keeps the invariant.
LEMMA StepIInv == IInv /\ [Next]_vars => IInv'
PROOF
<1> SUFFICES ASSUME Types, Control, Kept, [Next]_vars
             PROVE  IInv'
  BY DEF IInv
<1>1. CASE LoopStep
  <2>1. Types'
    BY <1>1, LoopTypes
  <2> QED
    BY <1>1, <2>1, LoopControlPreserved, LoopKept DEF IInv
<1>2. ASSUME NEW p \in Workers \cup Updaters, ProcStep(p) \/ StartUpdate(p)
      PROVE  IInv'
  <2>1. Types'
    BY <1>2, ProcTypes
  <2> QED
    BY <1>2, <2>1, ProcControlPreserved, ProcKept DEF IInv
<1>3. CASE (\E a \in Auths : MarkResult(a)) \/ Tick \/ UNCHANGED vars
  <2>1. Types'
    BY <1>3, OtherTypes
  <2> QED
    BY <1>3, <2>1, OtherControlPreserved, OtherKept DEF IInv
<1> QED
  BY <1>1, <1>2, <1>3 DEF Next

\* The inductive invariant: types, control and Kept hold in every state the loop,
\* the workers and the updaters can reach.
THEOREM Invariance == Spec => []IInv
PROOF
<1>1. Init => IInv
  BY InitIInv
<1>2. IInv /\ [Next]_vars => IInv'
  BY StepIInv
<1> QED
  BY <1>1, <1>2, PTL DEF Spec

\* The loop's two freshness tests agree at all times on every credential but
\* an API key, so a credential taken off the heap is either refreshed or put
\* back later; an API key is never checked now.
THEOREM FreshnessTestsAgree == Spec => []TestsAgree
PROOF
<1>1. IInv => TestsAgree
  <2> SUFFICES ASSUME IInv, NEW a \in Auths, Known(a)
               PROVE  NextCheck(a, now) = now <=> Due(a, now) /\ ~auths[a].apiKey
    BY DEF TestsAgree
  <2>1. now \in Nat /\ auths[a] \in Freshness
    BY DEF IInv, Types, Known
  <2>2. Interval[a] \in Nat /\ Lead[a] \in Nat
    BY RefreshAssumption
  <2> QED
    BY <2>1, <2>2, TestsAgreeOnAuth DEF Due, NextCheck
<1> QED
  BY <1>1, Invariance, PTL

\* No credential that is to be checked is lost, or checked late, between the
\* heap, the dirty set, the loop, the channel and the workers, for any number
\* of credentials, workers and updates.
THEOREM NothingForgotten == Spec => []NotForgotten
PROOF
<1>1. IInv => NotForgotten
  <2> SUFFICES ASSUME IInv, NEW a \in Auths, NextCheck(a, now) # Off, a \notin healed
               PROVE  Tracked(a)
    BY DEF NotForgotten
  <2>1. Covered(a) \/ Waiting(a)
    BY DEF IInv, Kept
  <2>2. DOMAIN op = Workers \cup Updaters
    BY DEF IInv, Types
  <2> QED
    BY <2>1, <2>2 DEF Covered, Waiting, Tracked, InHand
<1> QED
  BY <1>1, Invariance, PTL
=============================================================================
