---------------------------- MODULE AuthManager ----------------------------
(***************************************************************************)
(* The credential manager (sdk/cliproxy/auth/conductor.go) together with   *)
(* the two structures it publishes to, the scheduler's entries             *)
(* (scheduler.go) and the model registry's bindings, and the service code  *)
(* that adds, removes and re-registers credentials                         *)
(* (sdk/cliproxy/service.go).                                              *)
(*                                                                         *)
(* Each goroutine runs one program at a time.  A program is the sequence   *)
(* of its atomic steps: a step is one critical section of the manager's,   *)
(* the scheduler's or the registry's own mutex, so whatever the code does  *)
(* after it unlocks can be interleaved with the other goroutines.          *)
(***************************************************************************)
EXTENDS AuthState, Sequences

CONSTANTS
  Auths,        \* credential identifiers
  NoCooling,    \* the credentials with disable-cooling set
  Requests,     \* goroutines that serve client requests
  Consumers,    \* the goroutine that applies credential updates
  Updaters,     \* the goroutine of the model-catalog callback
  Refreshers,   \* goroutines that refresh tokens
  MaxTime,      \* bound on the clock
  MaxPrograms,  \* bound on the number of programs started
  NoAuth,       \* stands for the nil credential
  Scenarios     \* who takes part in a behaviour, with which models and
                \* provider delays, and its bounds on programs and clock

ASSUME AuthsAssumption ==
  /\ NoCooling \subseteq Auths
  /\ NoAuth \notin Auth /\ NoAuth \notin Auths /\ NoAuth \notin Models
  /\ MaxTime \in Nat /\ MaxPrograms \in Nat

Procs == Requests \cup Consumers \cup Updaters \cup Refreshers

ASSUME ScenariosAssumption ==
  Scenarios \subseteq [active : SUBSET Procs, models : SUBSET Models,
                       delays : SUBSET RetryAfters, programs : 0..MaxPrograms,
                       time : 0..MaxTime]

VARIABLES
  auths,      \* Manager.auths: a map from credential ids to their state
  sched,      \* the scheduler's entry for each credential it holds
  shards,     \* the models the scheduler has an index ("shard") for
  supported,  \* the registry's clientModels: the models each id is bound to
  suspended,  \* the registry's SuspendedClients, as pairs <<id, model>>
  exceeded,   \* the registry's QuotaExceededClients, as pairs <<id, model>>
  catalog,    \* the models the current catalog gives a credential
  rebind,     \* credentials the running catalog callback has still to visit
  op,         \* what each goroutine is doing
  now,        \* the clock
  started,    \* programs started so far
  scenario,   \* the scenario of this behaviour, which never changes
  marked,     \* history: results recorded for each credential
  shown       \* history: the last and the newest version published

registry == <<supported, suspended, exceeded>>
environment == <<catalog, rebind, now, scenario>>
vars == <<auths, sched, shards, registry, environment, op, started, marked, shown>>

(***************************************************************************)
(* A scheduler entry holds the credential it was given, the models the     *)
(* registry listed when it was given, and for each model that has a shard  *)
(* the instant until which the entry is blocked (zero when it is ready).   *)
(* A model's shard is built when the first request asks for it.  Register  *)
(* and Update give the scheduler the very object the manager stores ("shared": *)
(* the manager's later writes show through it until it is replaced); every *)
(* other publication gives a clone.                                        *)
(***************************************************************************)
Until(auth, m, t) == IF Blocked(auth, m, t) THEN BlockedUntil(auth, m, t) ELSE ZeroTime

NewEntry(a, auth, shared, indexed) ==
  [auth |-> auth, shared |-> shared, models |-> supported[a],
   until |-> [m \in Models |->
     IF m \in indexed \cap supported[a] THEN Until(auth, m, now) ELSE ZeroTime]]

NoEntry == [auth |-> NoAuth, shared |-> FALSE, models |-> {},
            until |-> [m \in Models |-> ZeroTime]]

\* upsertAuthLocked: a disabled credential is taken out.
Entry(a, auth, shared, indexed) ==
  IF auth.disabled THEN NoEntry ELSE NewEntry(a, auth, shared, indexed)

Known(a) == auths[a] # NoAuth
Scheduled(a) == sched[a].auth # NoAuth

(***************************************************************************)
(* Programs.  todo is what is left to do, held the clone (or, when shared, *)
(* the manager's own object) carried between two steps, seen the models    *)
(* read from the registry, all the snapshot syncScheduler takes and        *)
(* contested (history) the credentials another goroutine published after   *)
(* the rebuild.                                                            *)
(***************************************************************************)
Steps == {"pick", "snapshot", "rebuild", "repick", "mark", "upsert",
          "clearQuota", "setQuota", "resume", "suspend",
          "merge", "mergeDisabled", "store", "register", "readModels", "reconcile",
          "readEntry", "unregister", "disable", "latest", "readToken",
          "refresh"}

IdleOp == [todo |-> <<>>, auth |-> NoAuth, model |-> NoAuth, held |-> NoAuth,
           shared |-> FALSE, seen |-> {}, all |-> [a \in Auths |-> NoAuth],
           contested |-> {}]

Idle(p) == op[p].todo = <<>>
Doing(p, step) == ~Idle(p) /\ Head(op[p].todo) = step
Rest(p) == Tail(op[p].todo)

\* The last step of a program returns the goroutine to its idle state.
Proceed(todo, changes) == IF todo = <<>> THEN IdleOp ELSE [changes EXCEPT !.todo = todo]

\* p is going to give the scheduler the credential a.
Publishing(p, a) ==
  op[p].auth = a /\ \E i \in DOMAIN op[p].todo : op[p].todo[i] \in {"latest", "upsert"}

Start(p, a, m, todo) ==
  /\ p \in scenario.active /\ Idle(p)
  /\ started < scenario.programs
  /\ started' = started + 1
  /\ op' = [op EXCEPT ![p] = [IdleOp EXCEPT !.auth = a, !.model = m, !.todo = todo]]

-----------------------------------------------------------------------------
(***************************************************************************)
(* Writing the manager's map.  Write changes the stored object in place:   *)
(* every shared reference to it shows the change.  Replace stores a new    *)
(* object: a reference to the old one no longer follows the map.           *)
(***************************************************************************)
NextVersion(a, auth) ==
  [auth EXCEPT !.version = IF Known(a) THEN auths[a].version + 1 ELSE 1]

Write(a, auth) ==
  /\ auths' = [auths EXCEPT ![a] = auth]
  /\ sched' = [sched EXCEPT ![a].auth = IF sched[a].shared THEN auth ELSE @]

Replace(a, auth) ==
  /\ auths' = [auths EXCEPT ![a] = auth]
  /\ sched' = [sched EXCEPT ![a].shared = FALSE]

\* Another goroutine's view of its reference to a's object.
SeesWrite(q, a, auth) ==
  IF op[q].shared /\ op[q].auth = a THEN [op[q] EXCEPT !.held = auth] ELSE op[q]
SeesReplace(q, a) ==
  IF op[q].auth = a THEN [op[q] EXCEPT !.shared = FALSE] ELSE op[q]

Publish(a, version) ==
  shown' = [shown EXCEPT ![a] =
    [last |-> version, newest |-> IF version > @.newest THEN version ELSE @.newest]]

\* Every other goroutine that has rebuilt the scheduler and has still to pick
\* notes which credentials were published meanwhile.
Retrying(q) == Doing(q, "repick")
Contest(q, changed) == IF Retrying(q) THEN [op[q] EXCEPT !.contested = @ \cup changed] ELSE op[q]

-----------------------------------------------------------------------------
(***************************************************************************)
(* Client requests: pickNext, then MarkResult with the call's outcome.     *)
(***************************************************************************)
StartRequest(p) ==
  /\ p \in Requests
  /\ \E m \in scenario.models : Start(p, NoAuth, m, <<"pick">>)
  /\ UNCHANGED <<auths, sched, shards, registry, environment, marked, shown>>

\* ensureModelLocked: build the shard of model m, or promote the entries in
\* it whose block has expired.
Promoted(m) ==
  [a \in Auths |->
     IF /\ Scheduled(a) /\ m \in sched[a].models
        /\ m \in shards => sched[a].until[m] # ZeroTime /\ sched[a].until[m] <= now
       THEN [sched[a] EXCEPT !.until[m] = Until(sched[a].auth, m, now)]
       ELSE sched[a]]

\* The shard is kept by the provider's scheduler: none while it holds nothing.
Shards(m) == IF \E a \in Auths : Scheduled(a) THEN shards \cup {m} ELSE shards

Indexed(m) == sched' = Promoted(m) /\ shards' = Shards(m)

Ready(entries, m) ==
  {a \in Auths : /\ entries[a].auth # NoAuth /\ m \in entries[a].models
                 /\ entries[a].until[m] = ZeroTime}

\* pickSingle under the scheduler's mutex.  Which ready credential it takes
\* is the rotation's choice.
Picked(p) ==
  LET m == op[p].model
  IN  /\ Indexed(m)
      /\ \E a \in Ready(Promoted(m), m) :
           op' = [op EXCEPT ![p] = [IdleOp EXCEPT !.auth = a, !.model = m, !.todo = <<"mark">>]]
      /\ UNCHANGED <<auths, registry, environment, started, marked, shown>>

Pick(p) == (Doing(p, "pick") \/ Doing(p, "repick")) /\ Picked(p)

\* Bug: the retry goes by the scheduler as it is.
PickMissWithoutRebuild(p) ==
  /\ Doing(p, "pick")
  /\ Ready(Promoted(op[p].model), op[p].model) = {}
  /\ Indexed(op[p].model)
  /\ op' = [op EXCEPT ![p].todo = <<"snapshot", "repick">>]
  /\ UNCHANGED <<auths, registry, environment, started, marked, shown>>

\* Nothing ready: the manager rebuilds the scheduler once and tries again.
PickMiss(p) ==
  /\ Doing(p, "pick")
  /\ Ready(Promoted(op[p].model), op[p].model) = {}
  /\ Indexed(op[p].model)
  /\ op' = [op EXCEPT ![p].todo = <<"snapshot", "rebuild", "repick">>]
  /\ UNCHANGED <<auths, registry, environment, started, marked, shown>>

\* snapshotAuths under the manager's read lock.
Snapshot(p) ==
  /\ Doing(p, "snapshot")
  /\ op' = [op EXCEPT ![p] =
              [@ EXCEPT !.todo = Rest(p), !.all = auths]]
  /\ UNCHANGED <<auths, sched, shards, registry, environment, started, marked, shown>>

\* authScheduler.rebuild under the scheduler's mutex.
Rebuild(p) ==
  /\ Doing(p, "rebuild")
  /\ sched' = [a \in Auths |-> IF op[p].all[a] = NoAuth THEN NoEntry
                               ELSE Entry(a, op[p].all[a], FALSE, {})]
  /\ shards' = {}
  /\ shown' = [a \in Auths |->
       LET version == IF op[p].all[a] = NoAuth THEN 0 ELSE op[p].all[a].version
       IN  [last |-> version,
            newest |-> IF version > shown[a].newest THEN version ELSE shown[a].newest]]
  /\ op' = [q \in Procs |->
              IF q = p THEN [op[p] EXCEPT !.todo = Rest(p)] ELSE Contest(q, Auths)]
  /\ UNCHANGED <<auths, registry, environment, started, marked>>

\* The second pick finds nothing either: the request is refused.
Refuse(p) ==
  /\ Doing(p, "repick")
  /\ Ready(Promoted(op[p].model), op[p].model) = {}
  /\ Indexed(op[p].model)
  /\ op' = [op EXCEPT ![p] = IdleOp]
  /\ UNCHANGED <<auths, registry, environment, started, marked, shown>>

\* MarkResult's critical section and what it leaves to do after the unlock.
Recorded(p, result, todo) ==
  LET a    == op[p].auth
      auth == NextVersion(a, [result EXCEPT !.results = @ + 1])
  IN  /\ Write(a, auth)
      /\ op' = [q \in Procs |->
                  IF q = p THEN [op[p] EXCEPT !.held = auth, !.shared = FALSE, !.todo = todo]
                           ELSE SeesWrite(q, a, auth)]
      /\ marked' = [marked EXCEPT ![a] = @ + 1]
      /\ UNCHANGED <<shards, registry, environment, started, shown>>

\* Bug: the scheduler is not told of the success.
MarkSuccessUnpublished(p) ==
  /\ Doing(p, "mark")
  /\ Recorded(p, MarkModelSuccess(auths[op[p].auth], op[p].model, now),
              <<"clearQuota", "resume">>)

MarkSuccess(p) ==
  /\ Doing(p, "mark")
  /\ Recorded(p, MarkModelSuccess(auths[op[p].auth], op[p].model, now),
              <<"upsert", "clearQuota", "resume">>)

MarkFailure(p) ==
  /\ Doing(p, "mark")
  /\ \E failure \in Failures :
     \E delay \in IF failure = "quota" THEN scenario.delays \cup {NoDelay} ELSE {NoDelay} :
       LET a   == op[p].auth
           off == a \in NoCooling
       IN  Recorded(p, MarkModelFailure(auths[a], op[p].model, failure, delay, off, now),
             <<"upsert">> \o (IF failure = "quota" /\ ~off THEN <<"setQuota">> ELSE <<>>)
                          \o (IF Suspends(failure, off) THEN <<"suspend">> ELSE <<>>))

\* scheduler.upsertAuth under the scheduler's mutex.
Upsert(p) ==
  /\ Doing(p, "upsert")
  /\ LET a == op[p].auth
     IN  /\ sched' = [sched EXCEPT ![a] = Entry(a, op[p].held, op[p].shared, shards)]
         /\ Publish(a, op[p].held.version)
         /\ op' = [q \in Procs |->
                     IF q = p THEN Proceed(Rest(p), [op[p] EXCEPT !.held = NoAuth, !.shared = FALSE])
                              ELSE Contest(q, {a})]
  /\ UNCHANGED <<auths, shards, registry, environment, started, marked>>

Registered(m) == \E a \in Auths : m \in supported[a]
Pair(p) == <<op[p].auth, op[p].model>>

\* The registry keeps marks only for a model some client is bound to.
RegistryStep(p, step) ==
  /\ Doing(p, step)
  /\ op' = [op EXCEPT ![p] = Proceed(Rest(p), op[p])]
  /\ UNCHANGED <<auths, sched, shards, supported, environment, started, marked, shown>>

ClearModelQuotaExceeded(p) ==
  /\ RegistryStep(p, "clearQuota")
  /\ exceeded' = exceeded \ {Pair(p)}
  /\ UNCHANGED suspended

SetModelQuotaExceeded(p) ==
  /\ RegistryStep(p, "setQuota")
  /\ exceeded' = IF Registered(op[p].model) THEN exceeded \cup {Pair(p)} ELSE exceeded
  /\ UNCHANGED suspended

ResumeClientModel(p) ==
  /\ RegistryStep(p, "resume")
  /\ suspended' = suspended \ {Pair(p)}
  /\ UNCHANGED exceeded

SuspendClientModel(p) ==
  /\ RegistryStep(p, "suspend")
  /\ suspended' = IF Registered(op[p].model) THEN suspended \cup {Pair(p)} ELSE suspended
  /\ UNCHANGED exceeded

-----------------------------------------------------------------------------
(***************************************************************************)
(* Service.applyCoreAuthAddOrUpdate and applyCoreAuthRemoval, run one      *)
(* after the other by the goroutine that consumes credential updates.      *)
(***************************************************************************)
Reconciling == <<"readModels", "reconcile">>
Reregister  == <<"register">> \o Reconciling
Republish   == <<"readEntry", "upsert">>

\* Bug: the scheduler is not refreshed once the models are registered.
StartAddOrUpdateUnpublished(p) ==
  /\ p \in Consumers
  /\ \E a \in Auths :
       \/ Start(p, a, NoAuth, <<"merge", "store", "upsert">> \o Reregister)
       \/ Start(p, a, NoAuth, <<"mergeDisabled", "store", "upsert", "unregister">>
                              \o Reconciling)
  /\ UNCHANGED <<auths, sched, shards, registry, environment, marked, shown>>

StartAddOrUpdate(p) ==
  /\ p \in Consumers
  /\ \E a \in Auths :
       \/ Start(p, a, NoAuth, <<"merge", "store", "upsert">> \o Reregister \o Republish)
       \/ Start(p, a, NoAuth, <<"mergeDisabled", "store", "upsert", "unregister">>
                              \o Reconciling \o Republish)
  /\ UNCHANGED <<auths, sched, shards, registry, environment, marked, shown>>

Disabled(auth) == [auth EXCEPT !.disabled = TRUE, !.status = "disabled"]

\* GetByID: an enabled new value takes the model states of an enabled
\* existing one.  A credential file may also say that it is disabled.
Merge(p) ==
  /\ \/ /\ Doing(p, "merge")
        /\ LET a   == op[p].auth
               new == IF Known(a) /\ Enabled(auths[a])
                        THEN [FreshAuth EXCEPT !.states = auths[a].states] ELSE FreshAuth
           IN  op' = [op EXCEPT ![p] = [@ EXCEPT !.held = new, !.todo = Rest(p)]]
     \/ /\ Doing(p, "mergeDisabled")
        /\ op' = [op EXCEPT ![p] = [@ EXCEPT !.held = Disabled(FreshAuth), !.todo = Rest(p)]]
  /\ UNCHANGED <<auths, sched, shards, registry, environment, started, marked, shown>>

\* Manager.Register and Manager.Update: the critical section.
Store(p) ==
  /\ Doing(p, "store")
  /\ LET a    == op[p].auth
         new  == IF Known(a) THEN Inherit(op[p].held, auths[a]) ELSE op[p].held
         auth == NextVersion(a, new)
     IN  /\ Replace(a, auth)
         /\ op' = [q \in Procs |->
                     IF q = p THEN [op[p] EXCEPT !.held = auth, !.shared = TRUE, !.todo = Rest(p)]
                              ELSE SeesReplace(q, a)]
  /\ UNCHANGED <<shards, registry, environment, started, marked, shown>>

\* RegisterClient and UnregisterClient drop the binding's marks, and the
\* model entry with every mark on it once no client is bound to it.
\* A first registration leaves marks that are already there.
Bind(a, models) ==
  LET left  == IF supported[a] = {} THEN {} ELSE supported[a] \cup models
      bound == [supported EXCEPT ![a] = models]
      Keep(marks) == {x \in marks : /\ x[1] = a => x[2] \notin left
                                    /\ \E b \in Auths : x[2] \in bound[b]}
  IN  /\ supported' = bound
      /\ suspended' = Keep(suspended)
      /\ exceeded' = Keep(exceeded)

Register(p) ==
  /\ Doing(p, "register")
  /\ Bind(op[p].auth, catalog)
  /\ op' = [op EXCEPT ![p] = Proceed(Rest(p), op[p])]
  /\ UNCHANGED <<auths, sched, shards, environment, started, marked, shown>>

Unregister(p) ==
  /\ Doing(p, "unregister")
  /\ Bind(op[p].auth, {})
  /\ op' = [op EXCEPT ![p] = Proceed(Rest(p), op[p])]
  /\ UNCHANGED <<auths, sched, shards, environment, started, marked, shown>>

\* ReconcileRegistryModelStates reads the registry before it takes the lock.
ReadModels(p) ==
  /\ Doing(p, "readModels")
  /\ op' = [op EXCEPT ![p] = [@ EXCEPT !.seen = supported[op[p].auth], !.todo = Rest(p)]]
  /\ UNCHANGED <<auths, sched, shards, registry, environment, started, marked, shown>>

Reconcile(p) ==
  /\ Doing(p, "reconcile")
  /\ LET a == op[p].auth
     IN  IF Known(a) /\ NeedsReconcile(auths[a], op[p].seen)
           THEN LET auth == NextVersion(a, ReconcileStates(auths[a], op[p].seen, now))
                IN  /\ Write(a, auth)
                    /\ op' = [q \in Procs |->
                         IF q = p THEN [op[p] EXCEPT !.held = auth, !.seen = {},
                                                     !.todo = <<"upsert">> \o Rest(p)]
                                  ELSE SeesWrite(q, a, auth)]
           ELSE /\ op' = [op EXCEPT ![p] = [@ EXCEPT !.seen = {}, !.todo = Rest(p)]]
                /\ UNCHANGED <<auths, sched>>
  /\ UNCHANGED <<shards, registry, environment, started, marked, shown>>

\* RefreshSchedulerEntry clones under the read lock and publishes after it.
ReadEntry(p) ==
  /\ Doing(p, "readEntry")
  /\ LET a == op[p].auth
     IN  op' = [op EXCEPT ![p] =
           IF Known(a) THEN [@ EXCEPT !.held = auths[a], !.shared = FALSE, !.todo = Rest(p)]
                       ELSE IdleOp]
  /\ UNCHANGED <<auths, sched, shards, registry, environment, started, marked, shown>>

StartRemoval(p) ==
  /\ p \in Consumers
  /\ \E a \in Auths : Start(p, a, NoAuth, <<"unregister", "disable", "store", "upsert">>)
  /\ UNCHANGED <<auths, sched, shards, registry, environment, marked, shown>>

\* GetByID and the two assignments that disable the clone.
Disable(p) ==
  /\ Doing(p, "disable")
  /\ LET a == op[p].auth
     IN  op' = [op EXCEPT ![p] =
           IF Known(a)
             THEN [@ EXCEPT !.held = Disabled(auths[a]), !.todo = Rest(p)]
             ELSE IdleOp]
  /\ UNCHANGED <<auths, sched, shards, registry, environment, started, marked, shown>>

-----------------------------------------------------------------------------
(***************************************************************************)
(* The model-catalog callback: for each credential listed,                 *)
(* refreshModelRegistrationForAuth.                                        *)
(***************************************************************************)
StartCatalogRefresh(p) ==
  /\ p \in Updaters \cap scenario.active /\ Idle(p) /\ rebind = {}
  /\ started < scenario.programs
  /\ \E models \in SUBSET scenario.models \ {{}, catalog} : catalog' = models
  /\ rebind' = {a \in Auths : Known(a)}
  /\ started' = started + 1
  /\ UNCHANGED <<auths, sched, shards, registry, now, scenario, op, marked, shown>>

Revisit(p) ==
  /\ p \in Updaters /\ Idle(p)
  /\ \E a \in rebind :
       /\ rebind' = rebind \ {a}
       /\ op' = [op EXCEPT ![p] =
            IF auths[a].disabled THEN @
            ELSE [@ EXCEPT !.auth = a, !.todo = Reregister \o <<"latest">>]]
  /\ UNCHANGED <<auths, sched, shards, registry, catalog, now, scenario, started, marked, shown>>

\* latestAuthForModelRegistration: register what the manager holds by now.
Latest(p) ==
  /\ Doing(p, "latest")
  /\ LET a    == op[p].auth
         todo == IF auths[a].disabled THEN <<"unregister">> ELSE Reregister
     IN  op' = [op EXCEPT ![p] = [@ EXCEPT !.todo = todo \o Republish]]
  /\ UNCHANGED <<auths, sched, shards, registry, environment, started, marked, shown>>

-----------------------------------------------------------------------------
(***************************************************************************)
(* Manager.refreshAuth: a clone is sent to the provider without a lock and *)
(* its refreshed form is stored when the answer arrives.                   *)
(***************************************************************************)
StartTokenRefresh(p) ==
  /\ p \in Refreshers
  /\ \E a \in Auths : Known(a) /\ Start(p, a, NoAuth, <<"readToken", "refresh">>)
  /\ UNCHANGED <<auths, sched, shards, registry, environment, marked, shown>>

ReadToken(p) ==
  /\ Doing(p, "readToken")
  /\ op' = [op EXCEPT ![p] = [@ EXCEPT !.held = auths[op[p].auth], !.todo = Rest(p)]]
  /\ UNCHANGED <<auths, sched, shards, registry, environment, started, marked, shown>>

TokenRefreshed(p) ==
  /\ Doing(p, "refresh")
  /\ op' = [op EXCEPT ![p] = [@ EXCEPT !.held.error = "none", !.todo = <<"store", "upsert">>]]
  /\ UNCHANGED <<auths, sched, shards, registry, environment, started, marked, shown>>

TokenRefreshCanceled(p) ==
  /\ Doing(p, "refresh")
  /\ op' = [op EXCEPT ![p] = IdleOp]
  /\ UNCHANGED <<auths, sched, shards, registry, environment, started, marked, shown>>

\* The failure is written and published with the manager's lock held.
TokenRefreshFailed(p) ==
  /\ Doing(p, "refresh")
  /\ \E unauthorized \in BOOLEAN :
       LET a    == op[p].auth
           auth == NextVersion(a,
             IF unauthorized
               THEN [auths[a] EXCEPT !.error = "unauthorized", !.unavailable = TRUE,
                                     !.status = "error"]
               ELSE [auths[a] EXCEPT !.error = "other"])
       IN  /\ auths' = [auths EXCEPT ![a] = auth]
           /\ sched' = [sched EXCEPT ![a] = Entry(a, auth, FALSE, shards)]
           /\ Publish(a, auth.version)
           /\ op' = [q \in Procs |->
                       IF q = p THEN IdleOp
                       ELSE IF Retrying(q) THEN Contest(q, {a}) ELSE SeesWrite(q, a, auth)]
  /\ UNCHANGED <<shards, registry, environment, started, marked>>

-----------------------------------------------------------------------------
Tick ==
  /\ now < scenario.time
  /\ now' = now + 1
  /\ UNCHANGED <<auths, sched, shards, registry, catalog, rebind, scenario, op, started, marked, shown>>

Init ==
  /\ auths = [a \in Auths |-> NoAuth]
  /\ sched = [a \in Auths |-> NoEntry] /\ shards = {}
  /\ supported = [a \in Auths |-> {}]
  /\ suspended = {} /\ exceeded = {}
  /\ scenario \in Scenarios
  /\ catalog = scenario.models /\ rebind = {}
  /\ op = [p \in Procs |-> IdleOp]
  /\ now = 1 /\ started = 0
  /\ marked = [a \in Auths |-> 0]
  /\ shown = [a \in Auths |-> [last |-> 0, newest |-> 0]]

RequestStep(p) ==
  \/ StartRequest(p) \/ Pick(p) \/ PickMiss(p) \/ Snapshot(p) \/ Rebuild(p) \/ Refuse(p)
  \/ MarkSuccess(p) \/ MarkFailure(p)
  \/ ClearModelQuotaExceeded(p) \/ SetModelQuotaExceeded(p)
  \/ ResumeClientModel(p) \/ SuspendClientModel(p)

ServiceStep(p) ==
  \/ StartAddOrUpdate(p) \/ Merge(p)
  \/ StartRemoval(p) \/ Unregister(p) \/ Disable(p)
  \/ StartCatalogRefresh(p) \/ Revisit(p) \/ Latest(p)
  \/ Register(p) \/ ReadModels(p) \/ Reconcile(p) \/ ReadEntry(p)

RefreshStep(p) ==
  \/ StartTokenRefresh(p) \/ ReadToken(p)
  \/ TokenRefreshed(p) \/ TokenRefreshCanceled(p) \/ TokenRefreshFailed(p)

Next ==
  \/ Tick
  \/ \E p \in Procs : RequestStep(p) \/ ServiceStep(p) \/ RefreshStep(p) \/ Store(p) \/ Upsert(p)

Spec == Init /\ [][Next]_vars
-----------------------------------------------------------------------------
(***************************************************************************)
(* Properties.                                                             *)
(***************************************************************************)
Quiet(a) == \A p \in Procs : ~Publishing(p, a)
Overtaken(a) == shown[a].last < shown[a].newest

TypeOK ==
  /\ auths \in [Auths -> Auth \cup {NoAuth}]
  /\ sched \in [Auths -> [auth : Auth \cup {NoAuth}, shared : BOOLEAN,
                          models : SUBSET Models, until : [Models -> Nat]]]
  /\ shards \subseteq Models
  /\ supported \in [Auths -> SUBSET Models]
  /\ suspended \subseteq Auths \X Models
  /\ exceeded \subseteq Auths \X Models
  /\ catalog \subseteq Models
  /\ rebind \subseteq Auths
  /\ op \in [Procs -> [todo : Seq(Steps), auth : Auths \cup {NoAuth},
                       model : Models \cup {NoAuth}, held : Auth \cup {NoAuth},
                       shared : BOOLEAN, seen : SUBSET Models,
                       all : [Auths -> Auth \cup {NoAuth}], contested : SUBSET Auths]]
  /\ now \in Nat /\ started \in Nat
  /\ marked \in [Auths -> Nat]
  /\ shown \in [Auths -> [last : Nat, newest : Nat]]

\* A credential is withheld as a whole (the aggregate that status pages and
\* requests without a model go by) only while each of its models is blocked.
\* It has to survive one model recovering, expiring, being pruned or being
\* overwritten by an older clone.
AggregateSound ==
  \A a \in Auths : Known(a) /\ auths[a].unavailable /\ auths[a].next > now =>
    \A m \in Present(auths[a].states) : StateBlocked(auths[a].states[m], now)

\* Each result recorded for a credential stays counted in its Success and
\* Failed totals, although updates and token refreshes replace the whole
\* record with a clone taken before the result arrived.
ResultsCounted == \A a \in Auths : Known(a) => auths[a].results = marked[a]

\* The backoff level grows only while its cooldown is below the maximum, so
\* the shift that computes the cooldown stays in range.
BackoffBounded ==
  \A a \in Auths : Known(a) => \A m \in Models :
    LET level == auths[a].states[m].quota.level
    IN  level > 0 => BackoffBase * 2^(level - 1) < BackoffMax

\* The instant until which the scheduler may hold back a credential that the
\* manager's own test (isAuthBlockedForModel) already lets through.
HeldBackByQuota(auth, m) ==
  auth.states[m].quota.exceeded /\ auth.states[m].quota.recover > now

\* Unless a publication of this credential is under way, or an older one
\* overtook a newer one, the scheduler offers what the manager would: it
\* holds exactly the enabled credentials, and one it calls ready is not
\* blocked, one it calls blocked is.
SchedulerFollowsManager ==
  \A a \in Auths : Quiet(a) /\ ~Overtaken(a) =>
    /\ Scheduled(a) <=> Known(a) /\ ~auths[a].disabled
    /\ Scheduled(a) => \A m \in shards \cap sched[a].models :
         IF sched[a].until[m] = ZeroTime THEN ~Blocked(auths[a], m, now) \/ ~Enabled(auths[a])
         ELSE sched[a].until[m] > now =>
                Blocked(auths[a], m, now) \/ HeldBackByQuota(auths[a], m)

\* Once nothing is being published for a credential, the scheduler knows it
\* by exactly the models the registry lists for it, whichever of the
\* consumer and the catalog callback registered them last.
SchedulerKnowsModels ==
  \A a \in Auths : Quiet(a) /\ Scheduled(a) => sched[a].models = supported[a]

\* refreshModelRegistrationForAuth re-applies the latest snapshot "so
\* concurrent auth updates cannot leave stale model registrations behind":
\* no disabled credential keeps models registered once nothing is under way.
NoStaleRegistration ==
  (\A p \in Procs : Idle(p)) =>
    \A a \in Auths : Known(a) /\ auths[a].disabled => supported[a] = {}

Usable(a, auth, m) ==
  auth # NoAuth /\ ~Blocked(auth, m, now) /\ ~HeldBackByQuota(auth, m) /\ m \in supported[a]

\* A request is refused only if each credential is unusable for the model by
\* what the manager's map said when it was read for the retry, or another
\* goroutine published it after the rebuild or is about to: older disorder in
\* the scheduler never costs a request its credential.
RefusalJustified ==
  [][\A p \in Requests : Refuse(p) =>
       \A a \in Auths :
         Usable(a, op[p].all[a], op[p].model) =>
           a \in op[p].contested \/ \E q \in Procs \ {p} : Publishing(q, a)]_vars
=============================================================================
