-------------------------- MODULE AuthManagerProofs --------------------------
(***************************************************************************)
(* Proofs about the credential manager, for any credentials, models,       *)
(* durations and goroutines: what it stores for a credential stays sound   *)
(* and counted, and what the scheduler and a refused request see of it is  *)
(* what the manager holds.                                                 *)
(***************************************************************************)
EXTENDS AuthManager, NaturalsInduction, WellFoundedInduction, TLAPS
-----------------------------------------------------------------------------
(***************************************************************************)
(* Programs.  Before says which steps may come right before a step; a      *)
(* program that changes or re-registers a credential ends by publishing    *)
(* it.                                                                     *)
(***************************************************************************)
Picking == {"pick", "snapshot", "rebuild", "repick"}
OfModel == Picking \cup {"mark", "clearQuota", "setQuota", "resume", "suspend"}
OfKnown == {"mark", "latest", "readToken", "refresh"}
UsesHeld == {"store", "upsert", "refresh"}
Publishes == {"upsert", "latest"}
Changes == {"merge", "mergeDisabled", "store", "register", "readModels", "reconcile", "readEntry",
            "unregister", "disable"}

\* What is stored is published next, and a token refresh is the last step
\* until the provider answers.
Before(step) ==
  CASE step = "upsert"  -> {"store", "readEntry"}
    [] step = "store"   -> {"merge", "mergeDisabled", "disable"}
    [] step = "refresh" -> {"readToken"}
    [] step = "repick"  -> {"rebuild"}
    [] OTHER            -> Steps \ {"store", "refresh"}

Linked(todo) == \A i \in 2..Len(todo) : todo[i - 1] \in Before(todo[i])
Ends(todo) == (\E i \in 1..Len(todo) : todo[i] \in Changes) => todo[Len(todo)] \in Publishes
Program(todo) == todo \in Seq(Steps) /\ Linked(todo) /\ Ends(todo)

OpRecords ==
  [todo : Seq(Steps), auth : Auths \cup {NoAuth}, model : Models \cup {NoAuth},
   held : Auth \cup {NoAuth}, shared : BOOLEAN, seen : SUBSET Models,
   all : [Auths -> Auth \cup {NoAuth}], contested : SUBSET Auths]

Does(o, step) == o.todo # <<>> /\ Head(o.todo) = step

\* The credentials the map knows.
KnownIn(map) == {a \in Auths : map[a] # NoAuth}

\* What each step left to do goes by.
Fits(o, map) ==
  \A i \in 1..Len(o.todo) :
    /\ o.todo[i] \in Picking => o.auth = NoAuth
    /\ o.todo[i] \notin Picking => o.auth \in Auths
    /\ o.todo[i] \in OfModel => o.model \in Models
    /\ o.todo[i] \in OfKnown => o.auth \in KnownIn(map)

-----------------------------------------------------------------------------
(***************************************************************************)
(* What is stored for a credential: backoff levels below the one whose     *)
(* cooldown is the maximum, a recovery only with an exceeded quota, and a  *)
(* retry time of the whole only while all of its models are blocked that   *)
(* long.                                                                   *)
(***************************************************************************)
LevelOK(level) == level > 0 => BackoffBase * 2^(level - 1) < BackoffMax

StateOK(state) ==
  /\ LevelOK(state.quota.level)
  /\ state.quota.recover # ZeroTime => state.quota.exceeded

AggregateOK(auth) ==
  auth.next # ZeroTime =>
    /\ Present(auth.states) # {}
    /\ \A m \in Present(auth.states) :
         auth.states[m].unavailable /\ auth.states[m].next >= auth.next

Sound(auth) == AggregateOK(auth) /\ \A m \in Models : StateOK(auth.states[m])

\* Each stored value is a new version, and no result is forgotten.
StoredInv ==
  \A a \in Auths :
    /\ Known(a) => Sound(auths[a]) /\ auths[a].version > 0
    /\ marked[a] = IF Known(a) THEN auths[a].results ELSE 0

-----------------------------------------------------------------------------
(***************************************************************************)
(* What a goroutine may be in the middle of.  What it carries of a         *)
(* credential was once stored, and is what is stored when it is as new.    *)
(***************************************************************************)
Version(map, a) == IF map[a] # NoAuth THEN map[a].version ELSE 0

Was(map, a, auth) ==
  /\ auth.version <= Version(map, a)
  /\ auth.version = Version(map, a) => auth = map[a]

GoodOp(o, map) ==
  /\ o \in OpRecords /\ Program(o.todo) /\ Fits(o, map)
  /\ \A step \in UsesHeld : Does(o, step) => o.held # NoAuth
  /\ o.held # NoAuth => Sound(o.held)
  /\ o.shared => Does(o, "upsert")
  /\ Does(o, "upsert") => o.auth \in KnownIn(map) /\ Was(map, o.auth, o.held)
  /\ Does(o, "store") => o.auth \in KnownIn(map) \/ o.held.results = 0
  /\ \A a \in Auths : o.all[a] # NoAuth =>
       a \in KnownIn(map) /\ Sound(o.all[a]) /\ Was(map, a, o.all[a])

OpsInv == \A p \in Procs : GoodOp(op[p], auths)

-----------------------------------------------------------------------------
(***************************************************************************)
(* Publications: until the newest version of a credential has been         *)
(* published a goroutine carries it.                                       *)
(***************************************************************************)
Pub(o, a) == o.auth = a /\ \E i \in DOMAIN o.todo : o.todo[i] \in Publishes

Carries(o, a, version) ==
  /\ o.auth = a
  /\ \/ Does(o, "latest")
     \/ Does(o, "upsert") /\ o.held.version = version
     \/ \E i \in 2..Len(o.todo) : o.todo[i] \in Publishes

ShownInv ==
  \A a \in Auths :
    /\ shown[a].last <= shown[a].newest /\ shown[a].newest <= Version(auths, a)
    /\ shown[a].newest < Version(auths, a) =>
         \E p \in Procs : Carries(op[p], a, Version(auths, a))

-----------------------------------------------------------------------------
(***************************************************************************)
(* The scheduler: an entry of the newest version agrees with what is       *)
(* stored, and with the models the registry lists unless a goroutine is    *)
(* about to publish; after a rebuild an entry that was not published since *)
(* is that of the snapshot.                                                *)
(***************************************************************************)
UntilOK(until, auth, m, t) ==
  LET state == auth.states[m]
  IN  \/ ~Enabled(auth)
      \/ until = ZeroTime /\ ~StateBlocked(state, t)
      \/ until # ZeroTime /\ state.present /\ state.unavailable /\ until <= state.next
      \/ until # ZeroTime /\ state.quota.exceeded /\ until <= state.quota.recover

Agrees(entry, auth, indexed, t) ==
  IF auth = NoAuth \/ auth.disabled THEN entry.auth = NoAuth
  ELSE /\ entry.auth = auth
       /\ \A m \in indexed \cap entry.models : UntilOK(entry.until[m], auth, m, t)

SchedInv ==
  /\ \A a \in Auths : Scheduled(a) => Known(a)
  /\ \A a \in Auths : shown[a].last = Version(auths, a) => Agrees(sched[a], auths[a], shards, now)
  /\ \A a \in Auths : Scheduled(a) /\ sched[a].models # supported[a] =>
       \E p \in Procs : Pub(op[p], a)
  /\ \A p \in Procs : Does(op[p], "repick") =>
       \A a \in Auths \ op[p].contested :
         Agrees(sched[a], op[p].all[a], shards, now) /\ ~sched[a].shared

\* Nothing takes a credential out of the manager's map.
ScopeInv == scenario \in Scenarios /\ rebind \subseteq KnownIn(auths)

ManagerInv == TypeOK /\ ScopeInv /\ OpsInv /\ StoredInv /\ ShownInv /\ SchedInv

-----------------------------------------------------------------------------
(***************************************************************************)
(* The functions of one credential's state.                                *)
(***************************************************************************)
LEMMA LeastNumber ==
  ASSUME NEW T \in SUBSET Nat, T # {}
  PROVE  \E x \in T : \A y \in T : x <= y
PROOF
<1> DEFINE R == OpToRel(<, Nat)
<1>1. \A x, y \in Nat : <<y, x>> \in R <=> y < x
  BY DEF OpToRel
<1>2. IsWellFoundedOn(R, Nat)
  BY NatLessThanWellFounded
<1> HIDE DEF R
<1>3. PICK x \in T : \A y \in T : ~ (<<y, x>> \in R)
  BY <1>2, WFMin
<1>4. x \in Nat /\ \A y \in T : y \in Nat /\ ~ (y < x)
  BY <1>1, <1>3
<1> QED
  BY <1>3, <1>4

LEMMA EarliestFacts ==
  ASSUME NEW T \in SUBSET Nat, T # {}
  PROVE  Earliest(T) \in T /\ \A t \in T : Earliest(T) <= t
PROOF BY LeastNumber DEF Earliest

LEMMA StateFacts ==
  /\ CleanState \in ModelState /\ NoState \in ModelState /\ NoQuota \in Quota
  /\ StateOK(CleanState) /\ StateOK(NoState) /\ ~NoState.present
PROOF
<1>1. NoQuota \in Quota
  BY BackoffAssumption DEF NoQuota, Quota, ZeroTime
<1>2. CleanState \in ModelState /\ NoState \in ModelState /\ ~NoState.present
  BY <1>1 DEF CleanState, NoState, ModelState, ZeroTime
<1>3. CleanState.quota = NoQuota /\ NoState.quota = NoQuota
  BY DEF CleanState, NoState
<1>4. StateOK(CleanState) /\ StateOK(NoState)
  BY <1>3 DEF StateOK, NoQuota, LevelOK
<1> QED
  BY <1>1, <1>2, <1>4

LEMMA BackoffFacts ==
  ASSUME NEW level \in 0..BackoffLimit, LevelOK(level), NEW b, b = nextQuotaCooldown(level)
  PROVE  b.cooldown \in Nat /\ b.level \in 0..BackoffLimit /\ LevelOK(b.level)
PROOF
<1>1. 2^level \in Nat /\ BackoffBase \in Nat /\ BackoffMax \in Nat /\ BackoffLimit \in Nat
      /\ BackoffBase * 2^BackoffLimit >= BackoffMax
  BY BackoffAssumption, DurationAssumption
<1>2. PICK c \in Nat : c = BackoffBase * 2^level
  BY <1>1
<1>3. b = IF c >= BackoffMax THEN [cooldown |-> BackoffMax, level |-> level]
          ELSE [cooldown |-> c, level |-> level + 1]
  BY <1>2 DEF nextQuotaCooldown
<1>4. CASE c >= BackoffMax
  BY <1>1, <1>3, <1>4
<1>5. CASE ~(c >= BackoffMax)
  <2>1. b.cooldown = c /\ b.level = level + 1
    BY <1>3, <1>5
  <2>2. level # BackoffLimit
    BY <1>1, <1>2, <1>5
  <2>3. level + 1 \in 0..BackoffLimit
    BY <1>1, <2>2
  <2>4. b.level - 1 = level
    BY <2>1
  <2>5. LevelOK(b.level)
    BY <1>1, <1>2, <1>5, <2>4 DEF LevelOK
  <2> QED
    BY <2>1, <2>3, <2>5
<1> QED
  BY <1>4, <1>5

LEMMA ExpireFacts ==
  ASSUME NEW s \in ModelState, NEW t \in Nat, NEW r, r = Expire(s, t)
  PROVE  r \in ModelState /\ r.quota = s.quota /\ r.present = s.present
PROOF BY DEF Expire, ModelState, ZeroTime

\* Fields that recomputing the aggregate leaves alone.
Kept(r, auth) ==
  /\ r.results = auth.results /\ r.version = auth.version /\ r.disabled = auth.disabled

LEMMA UpdateFacts ==
  ASSUME NEW auth \in Auth, NEW t \in Nat, \A m \in Models : StateOK(auth.states[m]),
         NEW r, r = updateAggregatedAvailability(auth, t)
  PROVE  r \in Auth /\ Sound(r) /\ Kept(r, auth)
PROOF
<1>1. PICK states : states = [m \in Models |-> Expire(auth.states[m], t)]
  OBVIOUS
<1>2. auth.states \in [Models -> ModelState]
  BY DEF Auth
<1>3. /\ states \in [Models -> ModelState]
      /\ \A m \in Models : states[m].quota = auth.states[m].quota
                           /\ states[m].present = auth.states[m].present
  BY <1>1, <1>2, ExpireFacts
<1>4. \A m \in Models : StateOK(states[m])
  BY <1>3 DEF StateOK
<1>5. PICK blocked \in SUBSET Models : blocked = {m \in Models : StateBlocked(states[m], t)}
  OBVIOUS
<1>6. PICK all \in BOOLEAN : all <=> (blocked # {} /\ blocked = Present(states))
  OBVIOUS
<1>7. PICK next : next = IF all THEN Earliest({states[m].next : m \in blocked}) ELSE ZeroTime
  OBVIOUS
<1>8. PICK quota : quota = [exceeded |-> QuotaExceeded(states) # {},
                            recover |-> QuotaRecover(states), level |-> QuotaLevel(states)]
  OBVIOUS
<1>9. r = [auth EXCEPT !.states = states, !.unavailable = all, !.next = next, !.quota = quota]
  <2>1. all = (blocked # {} /\ blocked = Present(states))
    BY <1>6
  <2> QED
    BY <1>1, <1>5, <1>7, <1>8, <2>1 DEF updateAggregatedAvailability
<1>10. next \in Nat /\ (all => \A m \in blocked : next <= states[m].next)
  <2>1. CASE all
    <3>1. PICK T : T = {states[m].next : m \in blocked}
      OBVIOUS
    <3>2. T \in SUBSET Nat /\ T # {} /\ \A m \in blocked : states[m].next \in T
      BY <1>3, <1>5, <1>6, <2>1, <3>1 DEF ModelState
    <3>3. next = Earliest(T)
      BY <1>7, <2>1, <3>1
    <3> QED
      BY <3>2, <3>3, EarliestFacts
  <2>2. CASE ~all
    BY <1>7, <2>2 DEF ZeroTime
  <2> QED
    BY <2>1, <2>2
<1>11. quota \in Quota
  <2>1. QuotaExceeded(states) \subseteq Models
    BY DEF QuotaExceeded, Present
  <2>2. QuotaRecover(states) \in Nat
    <3>1. PICK known : known = {states[m].quota.recover : m \in QuotaExceeded(states)} \ {ZeroTime}
      OBVIOUS
    <3>2. known \in SUBSET Nat
      BY <1>3, <2>1, <3>1 DEF ModelState, Quota
    <3>3. QuotaRecover(states) = IF known = {} THEN ZeroTime ELSE Earliest(known)
      BY <3>1 DEF QuotaRecover
    <3>4. known # {} => Earliest(known) \in Nat
      BY <3>2, EarliestFacts
    <3> QED
      BY <3>3, <3>4 DEF ZeroTime
  <2>3. QuotaLevel(states) \in 0..BackoffLimit
    <3>1. CASE QuotaExceeded(states) = {}
      BY <3>1, BackoffAssumption DEF QuotaLevel
    <3>2. CASE QuotaExceeded(states) # {}
      <4>1. PICK E : E = QuotaExceeded(states)
        OBVIOUS
      <4>2. \A m \in E : states[m].quota.level \in 0..BackoffLimit
        BY <1>3, <2>1, <4>1 DEF ModelState, Quota
      <4>3. PICK T : T = {BackoffLimit - states[m].quota.level : m \in E}
        OBVIOUS
      <4>4. T \in SUBSET Nat /\ T # {}
        BY <3>2, <4>1, <4>2, <4>3, BackoffAssumption
      <4>5. PICK x \in T : \A y \in T : x <= y
        BY <4>4, LeastNumber
      <4>6. PICK m \in E : x = BackoffLimit - states[m].quota.level
        BY <4>3
      <4>7. \A n \in E : states[n].quota.level <= states[m].quota.level
        <5> TAKE n \in E
        <5>1. x <= BackoffLimit - states[n].quota.level
          BY <4>3, <4>5
        <5> QED
          BY <4>2, <4>6, <5>1, BackoffAssumption
      <4>8. QuotaLevel(states) =
              states[CHOOSE i \in E : \A n \in E :
                       states[n].quota.level <= states[i].quota.level].quota.level
        BY <3>2, <4>1 DEF QuotaLevel
      <4>9. PICK c : c = CHOOSE i \in E : \A n \in E :
                            states[n].quota.level <= states[i].quota.level
        OBVIOUS
      <4>10. c \in E
        BY <4>7, <4>9
      <4> QED
        BY <4>2, <4>8, <4>9, <4>10
    <3> QED
      BY <3>1, <3>2
  <2> QED
    BY <1>8, <2>2, <2>3 DEF Quota
<1>12. r \in Auth /\ Kept(r, auth)
  BY <1>3, <1>9, <1>10, <1>11 DEF Auth, Kept
<1>13. r.states = states /\ r.next = next
  BY <1>9 DEF Auth
<1>14. AggregateOK(r)
  <2> SUFFICES ASSUME next # ZeroTime
               PROVE  /\ Present(states) # {}
                      /\ \A m \in Present(states) : states[m].unavailable /\ states[m].next >= next
    BY <1>13 DEF AggregateOK
  <2>1. all
    BY <1>7
  <2>2. blocked # {} /\ blocked = Present(states)
    BY <1>6, <2>1
  <2>3. ASSUME NEW m \in Present(states) PROVE states[m].unavailable /\ states[m].next >= next
    <3>1. m \in Models /\ StateBlocked(states[m], t) /\ next <= states[m].next
      BY <1>5, <1>10, <2>1, <2>2
    <3>2. states[m].next \in Nat
      BY <1>3, <3>1 DEF ModelState
    <3> QED
      BY <1>10, <3>1, <3>2 DEF StateBlocked
  <2> QED
    BY <2>2, <2>3
<1> QED
  BY <1>4, <1>12, <1>13, <1>14 DEF Sound

LEMMA ClearErrorFacts ==
  ASSUME NEW auth \in Auth, Sound(auth), NEW t, NEW r, r = ClearErrorUnlessModelError(auth, t)
  PROVE  r \in Auth /\ Sound(r) /\ Kept(r, auth)
PROOF
<1>1. r = auth \/ r = [auth EXCEPT !.error = "none", !.status = "active"]
  BY DEF ClearErrorUnlessModelError
<1>2. r \in Auth /\ Kept(r, auth) /\ r.states = auth.states /\ r.next = auth.next
  BY <1>1 DEF Auth, Kept
<1> QED
  BY <1>2 DEF Sound, AggregateOK

LEMMA SuccessFacts ==
  ASSUME NEW auth \in Auth, Sound(auth), NEW m \in Models, NEW t \in Nat,
         NEW r, r = MarkModelSuccess(auth, m, t)
  PROVE  r \in Auth /\ Sound(r) /\ Kept(r, auth)
PROOF
<1>1. PICK x : x = [auth EXCEPT !.states[m] = CleanState]
  OBVIOUS
<1>2. PICK states : states = [auth.states EXCEPT ![m] = CleanState]
  OBVIOUS
<1>3. auth.states \in [Models -> ModelState]
  BY DEF Auth
<1>4. states \in [Models -> ModelState] /\ \A n \in Models : StateOK(states[n])
  BY <1>2, <1>3, StateFacts DEF Sound
<1>5. x = [auth EXCEPT !.states = states]
  BY <1>1, <1>2 DEF Auth
<1>6. x \in Auth /\ x.states = states /\ Kept(x, auth)
  BY <1>4, <1>5 DEF Auth, Kept
<1>7. PICK y : y = updateAggregatedAvailability(x, t)
  OBVIOUS
<1>8. y \in Auth /\ Sound(y) /\ Kept(y, x)
  BY <1>4, <1>6, <1>7, UpdateFacts
<1>9. r = ClearErrorUnlessModelError(y, t)
  BY <1>1, <1>7 DEF MarkModelSuccess
<1>10. r \in Auth /\ Sound(r) /\ Kept(r, y)
  BY <1>8, <1>9, ClearErrorFacts
<1> QED
  BY <1>6, <1>8, <1>10 DEF Kept

LEMMA QuotaNextFacts ==
  ASSUME NEW level \in 0..BackoffLimit, LevelOK(level), NEW delay \in Nat \cup {NoDelay},
         NEW t \in Nat, NEW q, q = QuotaNext(level, delay, t)
  PROVE  q.next \in Nat /\ q.level \in 0..BackoffLimit /\ LevelOK(q.level)
PROOF
<1>1. PICK b : b = nextQuotaCooldown(level)
  OBVIOUS
<1>2. b.cooldown \in Nat /\ b.level \in 0..BackoffLimit /\ LevelOK(b.level)
  BY <1>1, BackoffFacts
<1>3. q = IF delay # NoDelay THEN [next |-> t + delay, level |-> level]
          ELSE [next |-> t + b.cooldown, level |-> b.level]
  BY <1>1 DEF QuotaNext
<1>4. CASE delay # NoDelay
  BY <1>3, <1>4
<1>5. CASE delay = NoDelay
  BY <1>2, <1>3, <1>5
<1> QED
  BY <1>4, <1>5

LEMMA FailedStateFacts ==
  ASSUME NEW s \in ModelState, StateOK(s), NEW failure, NEW delay \in Nat \cup {NoDelay},
         NEW off, NEW t \in Nat, NEW r, r = FailedState(s, failure, delay, off, t)
  PROVE  r \in ModelState /\ StateOK(r)
PROOF
<1>1. PICK marked0 : marked0 = [s EXCEPT !.unavailable = TRUE, !.status = "error", !.failed = TRUE]
  OBVIOUS
<1>2. marked0 \in ModelState /\ marked0.quota = s.quota
  BY <1>1 DEF ModelState
<1>3. s.quota \in Quota /\ s.quota.level \in 0..BackoffLimit /\ LevelOK(s.quota.level)
  BY DEF ModelState, Quota, StateOK
<1>4. PICK q0 : q0 = QuotaNext(s.quota.level, delay, t)
  OBVIOUS
<1>5. PICK q : q = IF off THEN [next |-> ZeroTime, level |-> s.quota.level] ELSE q0
  OBVIOUS
<1>6. q0.next \in Nat /\ q0.level \in 0..BackoffLimit /\ LevelOK(q0.level)
  <2>1. PICK l : l = s.quota.level
    OBVIOUS
  <2> QED
    BY <1>3, <1>4, <2>1, QuotaNextFacts
<1>7. q.next \in Nat /\ q.level \in 0..BackoffLimit /\ LevelOK(q.level)
  BY <1>3, <1>5, <1>6 DEF ZeroTime
<1>8. CASE failure = "quota"
  <2>1. r = [marked0 EXCEPT !.next = q.next,
                            !.quota = [exceeded |-> TRUE, recover |-> q.next, level |-> q.level]]
    BY <1>1, <1>4, <1>5, <1>8 DEF FailedState
  <2>2. [exceeded |-> TRUE, recover |-> q.next, level |-> q.level] \in Quota
    BY <1>7 DEF Quota
  <2>3. r \in ModelState
        /\ r.quota = [exceeded |-> TRUE, recover |-> q.next, level |-> q.level]
    BY <1>2, <1>7, <2>1, <2>2 DEF ModelState
  <2> QED
    BY <1>7, <2>3 DEF StateOK
<1>9. CASE failure # "quota"
  <2>1. FixedNext(failure, off, t) \in Nat
    BY DurationAssumption DEF FixedNext, ZeroTime
  <2>2. r = [marked0 EXCEPT !.next = FixedNext(failure, off, t)]
    BY <1>1, <1>9 DEF FailedState
  <2>3. r \in ModelState /\ r.quota = s.quota
    BY <1>2, <2>1, <2>2 DEF ModelState
  <2> QED
    BY <2>3 DEF StateOK
<1> QED
  BY <1>8, <1>9

LEMMA FailureFacts ==
  ASSUME NEW auth \in Auth, Sound(auth), NEW m \in Models, NEW failure \in Failures,
         NEW delay \in Nat \cup {NoDelay}, NEW off, NEW t \in Nat,
         NEW r, r = MarkModelFailure(auth, m, failure, delay, off, t)
  PROVE  r \in Auth /\ Sound(r) /\ Kept(r, auth)
PROOF
<1>1. CASE failure = "requestScoped"
  BY <1>1 DEF MarkModelFailure, Kept
<1>2. CASE failure # "requestScoped"
  <2>1. PICK s : s = FailedState(StateOf(auth, m), failure, delay, off, t)
    OBVIOUS
  <2>2. auth.states \in [Models -> ModelState]
    BY DEF Auth
  <2>3. StateOf(auth, m) \in ModelState /\ StateOK(StateOf(auth, m))
    BY <2>2, StateFacts DEF StateOf, Sound
  <2>4. s \in ModelState /\ StateOK(s)
    BY <2>1, <2>3, FailedStateFacts
  <2>5. PICK states : states = [auth.states EXCEPT ![m] = s]
    OBVIOUS
  <2>6. states \in [Models -> ModelState] /\ \A n \in Models : StateOK(states[n])
    BY <2>2, <2>4, <2>5 DEF Sound
  <2>7. PICK e \in {"unauthorized", "other"} : e = ErrorClass(failure)
    BY DEF ErrorClass
  <2>8. PICK x : x = [auth EXCEPT !.states[m] = s, !.error = e, !.status = "error"]
    OBVIOUS
  <2>9. x = [auth EXCEPT !.states = states, !.error = e, !.status = "error"]
    BY <2>5, <2>8 DEF Auth
  <2>10. x \in Auth /\ x.states = states /\ Kept(x, auth)
    BY <2>6, <2>9 DEF Auth, Kept
  <2>11. r = updateAggregatedAvailability(x, t)
    BY <1>2, <2>1, <2>7, <2>8 DEF MarkModelFailure
  <2>12. r \in Auth /\ Sound(r) /\ Kept(r, x)
    BY <2>6, <2>10, <2>11, UpdateFacts
  <2> QED
    BY <2>10, <2>12 DEF Kept
<1> QED
  BY <1>1, <1>2

LEMMA ReconcileFacts ==
  ASSUME NEW auth \in Auth, Sound(auth), NEW models, NEW t \in Nat,
         NEW r, r = ReconcileStates(auth, models, t)
  PROVE  r \in Auth /\ Sound(r) /\ Kept(r, auth)
PROOF
<1>1. CASE ~NeedsReconcile(auth, models)
  BY <1>1 DEF ReconcileStates, Kept
<1>2. CASE NeedsReconcile(auth, models)
  <2>1. PICK states : states = [m \in Models |-> IF m \in models /\ auth.states[m].present
                                                 THEN CleanState ELSE NoState]
    OBVIOUS
  <2>2. states \in [Models -> ModelState] /\ \A m \in Models : StateOK(states[m])
    BY <2>1, StateFacts
  <2>3. PICK x : x = [auth EXCEPT !.states = states]
    OBVIOUS
  <2>4. x \in Auth /\ x.states = states /\ Kept(x, auth)
    BY <2>2, <2>3 DEF Auth, Kept
  <2>5. PICK y : y = updateAggregatedAvailability(x, t)
    OBVIOUS
  <2>6. y \in Auth /\ Sound(y) /\ Kept(y, x)
    BY <2>2, <2>4, <2>5, UpdateFacts
  <2>7. r = ClearErrorUnlessModelError(y, t)
    BY <1>2, <2>1, <2>3, <2>5 DEF ReconcileStates
  <2>8. r \in Auth /\ Sound(r) /\ Kept(r, y)
    BY <2>6, <2>7, ClearErrorFacts
  <2> QED
    BY <2>4, <2>6, <2>8 DEF Kept
<1> QED
  BY <1>1, <1>2

LEMMA InheritFacts ==
  ASSUME NEW new \in Auth, NEW old \in Auth, Sound(new), Sound(old), NEW r, r = Inherit(new, old)
  PROVE  r \in Auth /\ Sound(r) /\ r.results = old.results
PROOF
<1>1. PICK states : states = IF Enabled(old) /\ Enabled(new) /\ Present(new.states) = {}
                             THEN old.states ELSE new.states
  OBVIOUS
<1>2. r = [new EXCEPT !.results = old.results, !.states = states]
  BY <1>1 DEF Inherit, Auth
<1>3. r \in Auth /\ r.results = old.results /\ r.states = states /\ r.next = new.next
  BY <1>1, <1>2 DEF Auth
<1>4. AggregateOK(r)
  BY <1>1, <1>3 DEF Sound, AggregateOK
<1> QED
  BY <1>1, <1>3, <1>4 DEF Sound

LEMMA FreshFacts ==
  FreshAuth \in Auth /\ Sound(FreshAuth) /\ FreshAuth.results = 0
PROOF
<1>1. /\ FreshAuth \in Auth /\ FreshAuth.results = 0 /\ FreshAuth.next = ZeroTime
      /\ \A m \in Models : FreshAuth.states[m] = NoState
  BY StateFacts DEF FreshAuth, Auth, ZeroTime
<1>2. Sound(FreshAuth)
  BY <1>1, StateFacts DEF Sound, AggregateOK
<1> QED
  BY <1>1, <1>2

LEMMA MergedFacts ==
  ASSUME NEW old \in Auth, Sound(old), NEW r, r = [FreshAuth EXCEPT !.states = old.states]
  PROVE  r \in Auth /\ Sound(r) /\ r.results = 0
PROOF
<1>1. r \in Auth /\ r.results = 0 /\ r.next = ZeroTime /\ r.states = old.states
  BY FreshFacts DEF FreshAuth, Auth
<1> QED
  BY <1>1 DEF Sound, AggregateOK

LEMMA DisabledFacts ==
  ASSUME NEW auth \in Auth, Sound(auth), NEW r, r = Disabled(auth)
  PROVE  r \in Auth /\ Sound(r) /\ r.results = auth.results
PROOF
<1>1. r \in Auth /\ r.results = auth.results /\ r.next = auth.next /\ r.states = auth.states
  BY DEF Disabled, Auth
<1> QED
  BY <1>1 DEF Sound, AggregateOK
-----------------------------------------------------------------------------
(***************************************************************************)
(* The scheduler's instants.                                               *)
(***************************************************************************)
LEMMA UntilFacts ==
  ASSUME NEW auth \in Auth, Sound(auth), NEW m \in Models, NEW t \in Nat
  PROVE  Until(auth, m, t) \in Nat /\ UntilOK(Until(auth, m, t), auth, m, t)
PROOF
<1>1. PICK state : state = auth.states[m]
  OBVIOUS
<1>2. /\ state.next \in Nat /\ state.quota.recover \in Nat
      /\ state.quota.recover # ZeroTime => state.quota.exceeded
  BY <1>1 DEF Auth, ModelState, Quota, Sound, StateOK
<1>3. CASE ~Blocked(auth, m, t)
  BY <1>1, <1>3 DEF Until, UntilOK, Blocked, ZeroTime
<1>4. CASE Blocked(auth, m, t)
  <2>1. Until(auth, m, t) =
          IF state.quota.recover > t THEN state.quota.recover ELSE state.next
    BY <1>1, <1>4 DEF Until, BlockedUntil
  <2>2. ~Enabled(auth) \/ StateBlocked(state, t)
    BY <1>1, <1>4 DEF Blocked
  <2>3. CASE state.quota.recover > t
    BY <1>1, <1>2, <2>1, <2>3 DEF UntilOK, ZeroTime
  <2>4. CASE ~(state.quota.recover > t)
    BY <1>1, <1>2, <2>1, <2>2, <2>4 DEF UntilOK, ZeroTime, StateBlocked
  <2> QED
    BY <2>3, <2>4
<1> QED
  BY <1>3, <1>4

LEMMA UntilLater ==
  ASSUME NEW auth \in Auth, NEW m \in Models, NEW until \in Nat, NEW t \in Nat,
         UntilOK(until, auth, m, t)
  PROVE  UntilOK(until, auth, m, t + 1)
PROOF
<1>1. auth.states[m].next \in Nat
  BY DEF Auth, ModelState
<1> QED
  BY <1>1 DEF UntilOK, StateBlocked

\* Read as the scheduler reads it.
LEMMA UntilSays ==
  ASSUME NEW auth \in Auth, NEW m \in Models, NEW until \in Nat, now \in Nat,
         UntilOK(until, auth, m, now)
  PROVE  IF until = ZeroTime THEN ~Blocked(auth, m, now) \/ ~Enabled(auth)
         ELSE until > now => Blocked(auth, m, now) \/ HeldBackByQuota(auth, m)
PROOF
<1>1. auth.states[m].next \in Nat /\ auth.states[m].quota.recover \in Nat
  BY DEF Auth, ModelState, Quota
<1> QED
  BY <1>1 DEF UntilOK, Blocked, StateBlocked, HeldBackByQuota, ZeroTime

-----------------------------------------------------------------------------
(***************************************************************************)
(* Programs and their rests.                                               *)
(***************************************************************************)
LEMMA TailFacts ==
  ASSUME NEW t \in Seq(Steps), t # <<>>
  PROVE  /\ Len(t) \in Nat /\ Len(t) >= 1 /\ Head(t) = t[1] /\ Head(t) \in Steps
         /\ Tail(t) \in Seq(Steps) /\ Len(Tail(t)) = Len(t) - 1
         /\ \A i \in 1..Len(Tail(t)) : Tail(t)[i] = t[i + 1]
         /\ Tail(t) # <<>> <=> Len(t) > 1
         /\ Tail(t) # <<>> => Head(Tail(t)) = t[2]
PROOF
<1>1. /\ Len(t) \in Nat /\ Len(t) >= 1 /\ Head(t) = t[1] /\ Head(t) \in Steps
      /\ Tail(t) \in Seq(Steps) /\ Len(Tail(t)) = Len(t) - 1
  OBVIOUS
<1>2. \A i \in 1..Len(Tail(t)) : Tail(t)[i] = t[i + 1]
  OBVIOUS
<1>3. Tail(t) # <<>> <=> Len(t) > 1
  BY <1>1
<1>4. Tail(t) # <<>> => Head(Tail(t)) = Tail(t)[1] /\ 1 \in 1..Len(Tail(t))
  BY <1>1, <1>3
<1> QED
  BY <1>1, <1>2, <1>3, <1>4

LEMMA RestProgram ==
  ASSUME NEW t, Program(t), t # <<>>
  PROVE  /\ Program(Tail(t))
         /\ Tail(t) # <<>> => Head(t) \in Before(Head(Tail(t)))
PROOF
<1>1. t \in Seq(Steps)
  BY DEF Program
<1>2. PICK r \in Seq(Steps) : r = Tail(t)
  BY <1>1, TailFacts
<1>3. /\ Len(t) \in Nat /\ Len(t) >= 1 /\ Len(r) = Len(t) - 1 /\ Head(t) = t[1]
      /\ \A i \in 1..Len(r) : r[i] = t[i + 1]
      /\ r # <<>> => Len(t) > 1 /\ Head(r) = t[2]
  BY <1>1, <1>2, TailFacts
<1>4. Linked(r)
  <2> SUFFICES ASSUME NEW i \in 2..Len(r) PROVE r[i - 1] \in Before(r[i])
    BY DEF Linked
  <2>1. r[i - 1] = t[i] /\ r[i] = t[i + 1] /\ i + 1 \in 2..Len(t)
    BY <1>3
  <2>2. PICK j \in 2..Len(t) : j = i + 1
    BY <2>1
  <2>3. t[j - 1] \in Before(t[j]) /\ j - 1 = i
    BY <2>2 DEF Program, Linked
  <2> QED
    BY <2>1, <2>2, <2>3
<1>5. Ends(r)
  <2> SUFFICES ASSUME NEW i \in 1..Len(r), r[i] \in Changes PROVE r[Len(r)] \in Publishes
    BY DEF Ends
  <2>1. i + 1 \in 1..Len(t) /\ t[i + 1] \in Changes
    BY <1>3
  <2>2. t[Len(t)] \in Publishes
    BY <2>1 DEF Program, Ends
  <2>3. r[Len(r)] = t[Len(t)]
    BY <1>3
  <2> QED
    BY <2>2, <2>3
<1>6. r # <<>> => Head(t) \in Before(Head(r))
  <2> SUFFICES ASSUME r # <<>> PROVE Head(t) \in Before(Head(r))
    OBVIOUS
  <2>1. PICK j \in 2..Len(t) : j = 2
    BY <1>3
  <2>2. t[j - 1] \in Before(t[j]) /\ j - 1 = 1
    BY <2>1 DEF Program, Linked
  <2> QED
    BY <1>3, <2>1, <2>2
<1> QED
  BY <1>2, <1>4, <1>5, <1>6 DEF Program

LEMMA Literals ==
  /\ Program(<<>>)
  /\ Program(<<"pick">>)
  /\ Program(<<"mark">>)
  /\ Program(<<"snapshot", "rebuild", "repick">>)
  /\ Program(<<"upsert", "clearQuota", "resume">>)
  /\ Program(<<"upsert">>)
  /\ Program(<<"upsert", "setQuota">>)
  /\ Program(<<"upsert", "suspend">>)
  /\ Program(<<"upsert", "setQuota", "suspend">>)
  /\ Program(<<"merge", "store", "upsert", "register", "readModels", "reconcile", "readEntry",
               "upsert">>)
  /\ Program(<<"mergeDisabled", "store", "upsert", "unregister", "readModels", "reconcile",
               "readEntry", "upsert">>)
  /\ Program(<<"unregister", "disable", "store", "upsert">>)
  /\ Program(<<"register", "readModels", "reconcile", "latest">>)
  /\ Program(<<"unregister", "readEntry", "upsert">>)
  /\ Program(<<"register", "readModels", "reconcile", "readEntry", "upsert">>)
  /\ Program(<<"readToken", "refresh">>)
  /\ Program(<<"store", "upsert">>)
PROOF BY DEF Program, Linked, Ends, Before, Steps, Changes, Publishes

\* Concatenations of literals are literals.
LEMMA Joined1 ==
  <<"upsert">> \o <<"setQuota">> =
    <<"upsert", "setQuota">>
PROOF
<1>1. PICK t : t = <<"upsert">> \o <<"setQuota">>
  OBVIOUS
<1>2. <<"upsert">> \in Seq(Steps) /\ <<"setQuota">> \in Seq(Steps)
  BY DEF Steps
<1>3. /\ t \in Seq(Steps) /\ Len(t) = 2
      /\ t[1] = "upsert" /\ t[2] = "setQuota"
  BY <1>1, <1>2
<1>4. t = <<"upsert", "setQuota">>
  BY <1>3
<1> QED
  BY <1>1, <1>4

LEMMA Joined2 ==
  <<"upsert">> \o <<"suspend">> =
    <<"upsert", "suspend">>
PROOF
<1>1. PICK t : t = <<"upsert">> \o <<"suspend">>
  OBVIOUS
<1>2. <<"upsert">> \in Seq(Steps) /\ <<"suspend">> \in Seq(Steps)
  BY DEF Steps
<1>3. /\ t \in Seq(Steps) /\ Len(t) = 2
      /\ t[1] = "upsert" /\ t[2] = "suspend"
  BY <1>1, <1>2
<1>4. t = <<"upsert", "suspend">>
  BY <1>3
<1> QED
  BY <1>1, <1>4

LEMMA Joined3 ==
  <<"upsert", "setQuota">> \o <<"suspend">> =
    <<"upsert", "setQuota", "suspend">>
PROOF
<1>1. PICK t : t = <<"upsert", "setQuota">> \o <<"suspend">>
  OBVIOUS
<1>2. <<"upsert", "setQuota">> \in Seq(Steps) /\ <<"suspend">> \in Seq(Steps)
  BY DEF Steps
<1>3. /\ t \in Seq(Steps) /\ Len(t) = 3
      /\ t[1] = "upsert" /\ t[2] = "setQuota" /\ t[3] = "suspend"
  BY <1>1, <1>2
<1>4. t = <<"upsert", "setQuota", "suspend">>
  BY <1>3
<1> QED
  BY <1>1, <1>4

LEMMA Joined4 ==
  <<"register">> \o <<"readModels", "reconcile">> =
    <<"register", "readModels", "reconcile">>
PROOF
<1>1. PICK t : t = <<"register">> \o <<"readModels", "reconcile">>
  OBVIOUS
<1>2. <<"register">> \in Seq(Steps) /\ <<"readModels", "reconcile">> \in Seq(Steps)
  BY DEF Steps
<1>3. /\ t \in Seq(Steps) /\ Len(t) = 3
      /\ t[1] = "register" /\ t[2] = "readModels" /\ t[3] = "reconcile"
  BY <1>1, <1>2
<1>4. t = <<"register", "readModels", "reconcile">>
  BY <1>3
<1> QED
  BY <1>1, <1>4

LEMMA Joined5 ==
  <<"merge", "store", "upsert">> \o <<"register", "readModels", "reconcile">> =
    <<"merge", "store", "upsert", "register", "readModels", "reconcile">>
PROOF
<1>1. PICK t : t = <<"merge", "store", "upsert">> \o <<"register", "readModels", "reconcile">>
  OBVIOUS
<1>2. /\ <<"merge", "store", "upsert">> \in Seq(Steps)
      /\ <<"register", "readModels", "reconcile">> \in Seq(Steps)
  BY DEF Steps
<1>3. /\ t \in Seq(Steps) /\ Len(t) = 6
      /\ t[1] = "merge" /\ t[2] = "store" /\ t[3] = "upsert"
      /\ t[4] = "register" /\ t[5] = "readModels" /\ t[6] = "reconcile"
  BY <1>1, <1>2
<1>4. t = <<"merge", "store", "upsert", "register", "readModels", "reconcile">>
  BY <1>3
<1> QED
  BY <1>1, <1>4

LEMMA Joined6 ==
  <<"merge", "store", "upsert", "register", "readModels", "reconcile">>
    \o <<"readEntry", "upsert">> =
    <<"merge", "store", "upsert", "register", "readModels", "reconcile", "readEntry", "upsert">>
PROOF
<1>1. PICK t : t = <<"merge", "store", "upsert", "register", "readModels", "reconcile">>
                 \o <<"readEntry", "upsert">>
  OBVIOUS
<1>2. /\ <<"merge", "store", "upsert", "register", "readModels", "reconcile">> \in Seq(Steps)
      /\ <<"readEntry", "upsert">> \in Seq(Steps)
  BY DEF Steps
<1>3. /\ t \in Seq(Steps) /\ Len(t) = 8
      /\ t[1] = "merge" /\ t[2] = "store" /\ t[3] = "upsert"
      /\ t[4] = "register" /\ t[5] = "readModels" /\ t[6] = "reconcile"
      /\ t[7] = "readEntry" /\ t[8] = "upsert"
  BY <1>1, <1>2
<1>4. t = <<"merge", "store", "upsert", "register", "readModels", "reconcile", "readEntry",
            "upsert">>
  BY <1>3
<1> QED
  BY <1>1, <1>4

LEMMA Joined7 ==
  <<"mergeDisabled", "store", "upsert", "unregister">> \o <<"readModels", "reconcile">> =
    <<"mergeDisabled", "store", "upsert", "unregister", "readModels", "reconcile">>
PROOF
<1>1. PICK t : t = <<"mergeDisabled", "store", "upsert", "unregister">>
                 \o <<"readModels", "reconcile">>
  OBVIOUS
<1>2. /\ <<"mergeDisabled", "store", "upsert", "unregister">> \in Seq(Steps)
      /\ <<"readModels", "reconcile">> \in Seq(Steps)
  BY DEF Steps
<1>3. /\ t \in Seq(Steps) /\ Len(t) = 6
      /\ t[1] = "mergeDisabled" /\ t[2] = "store" /\ t[3] = "upsert"
      /\ t[4] = "unregister" /\ t[5] = "readModels" /\ t[6] = "reconcile"
  BY <1>1, <1>2
<1>4. t = <<"mergeDisabled", "store", "upsert", "unregister", "readModels", "reconcile">>
  BY <1>3
<1> QED
  BY <1>1, <1>4

LEMMA Joined8 ==
  <<"mergeDisabled", "store", "upsert", "unregister", "readModels", "reconcile">>
    \o <<"readEntry", "upsert">> =
    <<"mergeDisabled", "store", "upsert", "unregister", "readModels", "reconcile", "readEntry",
      "upsert">>
PROOF
<1>1. PICK t : t = <<"mergeDisabled", "store", "upsert", "unregister", "readModels", "reconcile">>
                 \o <<"readEntry", "upsert">>
  OBVIOUS
<1>2. /\ <<"mergeDisabled", "store", "upsert", "unregister", "readModels", "reconcile">>
           \in Seq(Steps)
      /\ <<"readEntry", "upsert">> \in Seq(Steps)
  BY DEF Steps
<1>3. /\ t \in Seq(Steps) /\ Len(t) = 8
      /\ t[1] = "mergeDisabled" /\ t[2] = "store" /\ t[3] = "upsert"
      /\ t[4] = "unregister" /\ t[5] = "readModels" /\ t[6] = "reconcile"
      /\ t[7] = "readEntry" /\ t[8] = "upsert"
  BY <1>1, <1>2
<1>4. t = <<"mergeDisabled", "store", "upsert", "unregister", "readModels", "reconcile",
            "readEntry", "upsert">>
  BY <1>3
<1> QED
  BY <1>1, <1>4

LEMMA Joined9 ==
  <<"register", "readModels", "reconcile">> \o <<"latest">> =
    <<"register", "readModels", "reconcile", "latest">>
PROOF
<1>1. PICK t : t = <<"register", "readModels", "reconcile">> \o <<"latest">>
  OBVIOUS
<1>2. <<"register", "readModels", "reconcile">> \in Seq(Steps) /\ <<"latest">> \in Seq(Steps)
  BY DEF Steps
<1>3. /\ t \in Seq(Steps) /\ Len(t) = 4
      /\ t[1] = "register" /\ t[2] = "readModels" /\ t[3] = "reconcile"
      /\ t[4] = "latest"
  BY <1>1, <1>2
<1>4. t = <<"register", "readModels", "reconcile", "latest">>
  BY <1>3
<1> QED
  BY <1>1, <1>4

LEMMA Joined10 ==
  <<"register", "readModels", "reconcile">> \o <<"readEntry", "upsert">> =
    <<"register", "readModels", "reconcile", "readEntry", "upsert">>
PROOF
<1>1. PICK t : t = <<"register", "readModels", "reconcile">> \o <<"readEntry", "upsert">>
  OBVIOUS
<1>2. /\ <<"register", "readModels", "reconcile">> \in Seq(Steps)
      /\ <<"readEntry", "upsert">> \in Seq(Steps)
  BY DEF Steps
<1>3. /\ t \in Seq(Steps) /\ Len(t) = 5
      /\ t[1] = "register" /\ t[2] = "readModels" /\ t[3] = "reconcile"
      /\ t[4] = "readEntry" /\ t[5] = "upsert"
  BY <1>1, <1>2
<1>4. t = <<"register", "readModels", "reconcile", "readEntry", "upsert">>
  BY <1>3
<1> QED
  BY <1>1, <1>4

LEMMA Joined11 ==
  <<"unregister">> \o <<"readEntry", "upsert">> =
    <<"unregister", "readEntry", "upsert">>
PROOF
<1>1. PICK t : t = <<"unregister">> \o <<"readEntry", "upsert">>
  OBVIOUS
<1>2. <<"unregister">> \in Seq(Steps) /\ <<"readEntry", "upsert">> \in Seq(Steps)
  BY DEF Steps
<1>3. /\ t \in Seq(Steps) /\ Len(t) = 3
      /\ t[1] = "unregister" /\ t[2] = "readEntry" /\ t[3] = "upsert"
  BY <1>1, <1>2
<1>4. t = <<"unregister", "readEntry", "upsert">>
  BY <1>3
<1> QED
  BY <1>1, <1>4

-----------------------------------------------------------------------------
(***************************************************************************)
(* What a goroutine carries, as it goes from step to step.                 *)
(***************************************************************************)
LEMMA NoAuthFacts == NoAuth \notin Auth /\ NoAuth \notin Auths /\ NoAuth \notin Models
PROOF BY AuthsAssumption

LEMMA DoesFacts ==
  ASSUME NEW o \in OpRecords, o.todo # <<>>
  PROVE  /\ Head(o.todo) \in Steps /\ 1 \in 1..Len(o.todo) /\ o.todo[1] = Head(o.todo)
         /\ \A step : Does(o, step) <=> Head(o.todo) = step
PROOF
<1>1. o.todo \in Seq(Steps)
  BY DEF OpRecords
<1> QED
  BY <1>1, TailFacts DEF Does

LEMMA IdleGood == \A map : GoodOp(IdleOp, map)
PROOF
<1>1. IdleOp \in OpRecords /\ IdleOp.todo = <<>> /\ IdleOp.held = NoAuth
      /\ ~IdleOp.shared /\ IdleOp.all = [a \in Auths |-> NoAuth]
  BY DEF IdleOp, OpRecords
<1>2. \A map : Fits(IdleOp, map)
  BY <1>1 DEF Fits
<1> QED
  BY <1>1, <1>2, Literals DEF GoodOp, Does

LEMMA StartGood ==
  ASSUME NEW map, NEW a \in Auths \cup {NoAuth}, NEW m \in Models \cup {NoAuth},
         NEW todo, Program(todo),
         NEW n, n = [IdleOp EXCEPT !.auth = a, !.model = m, !.todo = todo],
         Fits(n, map), todo # <<>>, Head(todo) \notin UsesHeld
  PROVE  GoodOp(n, map) /\ n.auth = a /\ n.todo = todo
PROOF
<1>1. todo \in Seq(Steps)
  BY DEF Program
<1>2. /\ n \in OpRecords /\ n.todo = todo /\ n.auth = a /\ n.held = NoAuth
      /\ ~n.shared /\ n.all = [b \in Auths |-> NoAuth]
  BY <1>1 DEF IdleOp, OpRecords
<1>3. \A step \in UsesHeld : ~Does(n, step)
  BY <1>2 DEF Does
<1>4. {"upsert", "store"} \subseteq UsesHeld
  BY DEF UsesHeld
<1> QED
  BY <1>2, <1>3, <1>4 DEF GoodOp

\* The rest of a program, with what the step left in the record.
LEMMA RestGood ==
  ASSUME NEW map, NEW o, GoodOp(o, map), o.todo # <<>>, NEW n \in OpRecords,
         n.todo = Tail(o.todo), n.auth = o.auth, n.model = o.model, ~n.shared,
         Head(o.todo) # "store",
         n.held # NoAuth => Sound(n.held),
         Head(o.todo) \in {"merge", "mergeDisabled", "disable", "readToken"} => n.held # NoAuth,
         Head(o.todo) \in {"merge", "mergeDisabled", "disable"} =>
           n.auth \in KnownIn(map) \/ n.held.results = 0,
         Head(o.todo) = "readEntry" => n.auth \in KnownIn(map) /\ n.held = map[n.auth],
         \A a \in Auths : n.all[a] # NoAuth =>
           a \in KnownIn(map) /\ Sound(n.all[a]) /\ Was(map, a, n.all[a])
  PROVE  GoodOp(n, map)
PROOF
<1>1. PICK t \in Seq(Steps) : t = o.todo
  BY DEF GoodOp, OpRecords
<1>2. PICK r \in Seq(Steps) : r = n.todo
  BY DEF OpRecords
<1>3. /\ Len(t) \in Nat /\ Len(t) >= 1 /\ Len(r) = Len(t) - 1
      /\ \A i \in 1..Len(r) : r[i] = t[i + 1]
  BY <1>1, <1>2, TailFacts
<1>4. Program(r) /\ (r # <<>> => Head(t) \in Before(Head(r)))
  BY <1>1, <1>2, RestProgram DEF GoodOp
<1>5. Fits(n, map)
  <2> SUFFICES ASSUME NEW i \in 1..Len(r)
               PROVE  /\ r[i] \in Picking => n.auth = NoAuth
                      /\ r[i] \notin Picking => n.auth \in Auths
                      /\ r[i] \in OfModel => n.model \in Models
                      /\ r[i] \in OfKnown => n.auth \in KnownIn(map)
    BY <1>2 DEF Fits
  <2>1. PICK j \in 1..Len(t) : j = i + 1
    BY <1>3
  <2>2. r[i] = t[j]
    BY <1>3, <2>1
  <2>3. /\ t[j] \in Picking => o.auth = NoAuth
        /\ t[j] \notin Picking => o.auth \in Auths
        /\ t[j] \in OfModel => o.model \in Models
        /\ t[j] \in OfKnown => o.auth \in KnownIn(map)
    BY <1>1, <2>1 DEF GoodOp, Fits
  <2> QED
    BY <2>2, <2>3
<1>6. \A step : Does(n, step) <=> r # <<>> /\ Head(r) = step
  BY <1>2 DEF Does
<1>7. r # <<>> => /\ Head(r) = "upsert" => Head(t) = "readEntry"
                  /\ Head(r) = "store" => Head(t) \in {"merge", "mergeDisabled", "disable"}
                  /\ Head(r) = "refresh" => Head(t) = "readToken"
  BY <1>1, <1>4 DEF Before
<1>8. Does(n, "upsert") => n.auth \in KnownIn(map) /\ n.held = map[n.auth]
  BY <1>1, <1>6, <1>7
<1>9. Does(n, "upsert") => n.held # NoAuth /\ Was(map, n.auth, n.held)
  <2> SUFFICES ASSUME Does(n, "upsert") PROVE n.held # NoAuth /\ Was(map, n.auth, n.held)
    OBVIOUS
  <2>1. n.held # NoAuth /\ n.auth \in KnownIn(map) /\ n.held = map[n.auth]
    BY <1>8 DEF KnownIn
  <2>2. n.held.version \in Nat
    BY <2>1 DEF OpRecords, Auth
  <2> QED
    BY <2>1, <2>2 DEF Was, Version
<1>10. \A step \in UsesHeld : Does(n, step) => n.held # NoAuth
  <2>1. Does(n, "store") => n.held # NoAuth
    BY <1>1, <1>6, <1>7
  <2>2. Does(n, "refresh") => n.held # NoAuth
    BY <1>1, <1>6, <1>7
  <2> QED
    BY <1>9, <2>1, <2>2 DEF UsesHeld
<1>11. Does(n, "store") => n.auth \in KnownIn(map) \/ n.held.results = 0
  BY <1>1, <1>6, <1>7
<1> QED
  BY <1>2, <1>4, <1>5, <1>8, <1>9, <1>10, <1>11 DEF GoodOp

LEMMA GoodSame ==
  ASSUME NEW map, NEW o, GoodOp(o, map), NEW n \in OpRecords, n.todo = o.todo, n.auth = o.auth,
         n.model = o.model, n.held = o.held, n.all = o.all, n.shared => o.shared
  PROVE  GoodOp(n, map)
PROOF
<1>1. \A step : Does(n, step) <=> Does(o, step)
  BY DEF Does
<1>2. Fits(n, map)
  BY DEF Fits, GoodOp
<1>3. n.shared => Does(n, "upsert")
  BY <1>1 DEF GoodOp
<1> QED
  BY <1>1, <1>2, <1>3 DEF GoodOp

\* The last step of a program.
LEMMA ProceedGood ==
  ASSUME NEW map, NEW o, GoodOp(o, map), o.todo # <<>>, NEW c \in OpRecords,
         c.auth = o.auth, c.model = o.model, ~c.shared, c.all = o.all,
         c.held # NoAuth => Sound(c.held),
         Head(o.todo) \notin {"store", "merge", "mergeDisabled", "disable", "readToken",
                              "readEntry"},
         NEW n, n = Proceed(Tail(o.todo), c)
  PROVE  /\ GoodOp(n, map) /\ n.todo = Tail(o.todo)
         /\ n.todo # <<>> => n.auth = o.auth /\ n.held = c.held
PROOF
<1>1. o.todo \in Seq(Steps)
  BY DEF GoodOp, OpRecords
<1>2. PICK r \in Seq(Steps) : r = Tail(o.todo)
  BY <1>1, TailFacts
<1>3. CASE r = <<>>
  BY <1>2, <1>3, IdleGood DEF Proceed, IdleOp
<1>4. CASE r # <<>>
  <2>1. n = [c EXCEPT !.todo = r]
    BY <1>2, <1>4 DEF Proceed
  <2>2. /\ n \in OpRecords /\ n.todo = r /\ n.auth = o.auth /\ n.model = o.model
        /\ n.held = c.held /\ ~n.shared /\ n.all = o.all
    BY <2>1 DEF OpRecords
  <2>3. \A a \in Auths : n.all[a] # NoAuth =>
          a \in KnownIn(map) /\ Sound(n.all[a]) /\ Was(map, a, n.all[a])
    BY <2>2 DEF GoodOp
  <2>4. GoodOp(n, map)
    BY <1>2, <2>2, <2>3, RestGood
  <2> QED
    BY <1>2, <2>2, <2>4
<1> QED
  BY <1>3, <1>4

\* What is still to be published later stays so.
LEMMA RestLater ==
  ASSUME NEW map, NEW o, GoodOp(o, map), o.todo # <<>>, NEW a, o.auth = a,
         NEW i \in 2..Len(o.todo), o.todo[i] \in Publishes,
         NEW n, n.todo = Tail(o.todo), n.todo # <<>> => n.auth = o.auth,
         NEW version
  PROVE  /\ Pub(n, a)
         /\ Carries(n, a, version) \/ (Does(n, "upsert") /\ Head(o.todo) \in {"store", "readEntry"})
PROOF
<1>1. PICK t \in Seq(Steps) : t = o.todo
  BY DEF GoodOp, OpRecords
<1>2. PICK r \in Seq(Steps) : r = n.todo
  BY <1>1, TailFacts
<1>3. /\ Len(t) \in Nat /\ Len(t) >= 1 /\ Len(r) = Len(t) - 1
      /\ \A k \in 1..Len(r) : r[k] = t[k + 1]
      /\ r # <<>> => Head(r) = t[2]
  BY <1>1, <1>2, TailFacts
<1>4. PICK j \in 1..Len(r) : j + 1 = i
  BY <1>1, <1>3
<1>5. r[j] \in Publishes /\ r # <<>> /\ n.auth = a
  <2>1. r[j] = t[j + 1]
    BY <1>3
  <2>2. r # <<>>
    BY <1>4
  <2> QED
    BY <1>1, <1>2, <1>4, <2>1, <2>2
<1>6. j \in DOMAIN r
  BY <1>2, <1>4
<1>7. Pub(n, a)
  BY <1>2, <1>5, <1>6 DEF Pub
<1>8. CASE j # 1
  <2>1. j \in 2..Len(r)
    BY <1>2, <1>4, <1>8
  <2>2. \E k \in 2..Len(n.todo) : n.todo[k] \in Publishes
    BY <1>2, <1>5, <2>1
  <2>3. Carries(n, a, version)
    BY <1>5, <2>2 DEF Carries
  <2> QED
    BY <1>7, <2>3
<1>9. CASE j = 1
  <2>1. Head(r) = r[j]
    BY <1>3, <1>5, <1>9
  <2>2. Head(r) = "latest" \/ Head(r) = "upsert"
    BY <1>5, <2>1 DEF Publishes
  <2>3. Head(r) = "upsert" => Head(t) \in {"store", "readEntry"}
    BY <1>1, <1>2, <1>5, RestProgram DEF GoodOp, Before
  <2>4. Does(n, "latest") => Carries(n, a, version)
    BY <1>5 DEF Carries
  <2>5. Does(n, "latest") \/ Does(n, "upsert")
    BY <1>2, <1>5, <2>2 DEF Does
  <2>6. Does(n, "upsert") => Head(o.todo) \in {"store", "readEntry"}
    BY <1>1, <1>2, <2>3 DEF Does
  <2> QED
    BY <1>7, <2>4, <2>5, <2>6
<1> QED
  BY <1>8, <1>9

LEMMA PubCases ==
  ASSUME NEW o \in OpRecords, NEW a, Pub(o, a)
  PROVE  /\ o.auth = a /\ o.todo # <<>>
         /\ \/ Head(o.todo) \in Publishes
            \/ \E i \in 2..Len(o.todo) : o.todo[i] \in Publishes
PROOF
<1>1. PICK t \in Seq(Steps) : t = o.todo
  BY DEF OpRecords
<1>2. PICK i \in DOMAIN t : t[i] \in Publishes
  BY <1>1 DEF Pub
<1>3. i \in 1..Len(t) /\ t # <<>>
  BY <1>1, <1>2
<1>4. i = 1 => Head(t) = t[i]
  BY <1>3, TailFacts
<1>5. i # 1 => i \in 2..Len(t)
  BY <1>1, <1>3
<1> QED
  BY <1>1, <1>2, <1>3, <1>4, <1>5 DEF Pub

LEMMA CarriesCases ==
  ASSUME NEW o \in OpRecords, NEW a, NEW version, Carries(o, a, version)
  PROVE  Pub(o, a)
PROOF
<1>1. PICK t \in Seq(Steps) : t = o.todo
  BY DEF OpRecords
<1>2. CASE Does(o, "latest") \/ Does(o, "upsert")
  <2>1. t # <<>> /\ 1 \in DOMAIN t /\ t[1] = Head(t) /\ Head(t) \in Publishes
    BY <1>1, <1>2, TailFacts DEF Does, Publishes
  <2> QED
    BY <1>1, <2>1 DEF Pub, Carries
<1>3. CASE \E i \in 2..Len(t) : t[i] \in Publishes
  <2>1. PICK i \in 2..Len(t) : t[i] \in Publishes
    BY <1>3
  <2>2. i \in DOMAIN t
    BY <1>1
  <2> QED
    BY <1>1, <2>1, <2>2 DEF Pub, Carries
<1> QED
  BY <1>1, <1>2, <1>3 DEF Carries

\* A step that neither publishes nor stores leaves what is to be published.
LEMMA RestCarries ==
  ASSUME NEW map, NEW o, GoodOp(o, map), o.todo # <<>>, NEW n, n.todo = Tail(o.todo),
         n.todo # <<>> => n.auth = o.auth, NEW version,
         Head(o.todo) \notin {"upsert", "latest", "store", "rebuild"},
         Head(o.todo) = "readEntry" => n.held.version = version
  PROVE  /\ ~Does(n, "repick")
         /\ \A a \in Auths :
              (Carries(o, a, version) => Carries(n, a, version)) /\ (Pub(o, a) => Pub(n, a))
PROOF
<1>1. o \in OpRecords
  BY DEF GoodOp
<1>2. ~Does(n, "repick")
  BY RestProgram DEF GoodOp, Before, Does
<1>3. ASSUME NEW a \in Auths, Pub(o, a) PROVE Carries(n, a, version) /\ Pub(n, a)
  <2>1. o.auth = a
    BY <1>1, <1>3, PubCases
  <2>2. PICK i \in 2..Len(o.todo) : o.todo[i] \in Publishes
    BY <1>1, <1>3, PubCases DEF Publishes
  <2>3. /\ Pub(n, a)
        /\ \/ Carries(n, a, version)
           \/ Does(n, "upsert") /\ Head(o.todo) \in {"store", "readEntry"}
    BY <2>1, <2>2, RestLater
  <2>4. Does(n, "upsert") /\ Head(o.todo) = "readEntry" => Carries(n, a, version)
    BY <2>1 DEF Carries, Does
  <2> QED
    BY <2>3, <2>4
<1> QED
  BY <1>1, <1>2, <1>3, CarriesCases

-----------------------------------------------------------------------------
(***************************************************************************)
(* Steps of one goroutine that leave the manager's map alone.              *)
(***************************************************************************)
SchedRecords == [auth : Auth \cup {NoAuth}, shared : BOOLEAN, models : SUBSET Models,
                 until : [Models -> Nat]]

\* The parts of the type invariant that the other invariants do not relate.
FrameOK ==
  /\ supported \in [Auths -> SUBSET Models]
  /\ suspended \subseteq Auths \X Models /\ exceeded \subseteq Auths \X Models
  /\ catalog \subseteq Models /\ started \in Nat /\ ScopeInv

TypeParts ==
  /\ auths \in [Auths -> Auth \cup {NoAuth}]
  /\ sched \in [Auths -> SchedRecords] /\ shards \subseteq Models
  /\ FrameOK /\ op \in [Procs -> OpRecords] /\ now \in Nat
  /\ marked \in [Auths -> Nat] /\ shown \in [Auths -> [last : Nat, newest : Nat]]

LEMMA TypeFacts ==
  /\ TypeOK /\ ScopeInv <=> TypeParts
  /\ TypeOK' /\ ScopeInv' <=> TypeParts'
PROOF
<1>1. TypeOK /\ ScopeInv <=> TypeParts
  BY DEF TypeOK, TypeParts, FrameOK, SchedRecords, OpRecords, ScopeInv, KnownIn
<1>2. TypeOK' /\ ScopeInv' <=> TypeParts'
  BY DEF TypeOK, TypeParts, FrameOK, SchedRecords, OpRecords, ScopeInv, KnownIn
<1> QED
  BY <1>1, <1>2

\* What the scheduler holds of an entry apart from its instants.
EntriesKept ==
  \A a \in Auths : /\ sched'[a].auth = sched[a].auth /\ sched'[a].models = sched[a].models
                   /\ sched'[a].shared = sched[a].shared

AgreementsKept ==
  \A a \in Auths : \A auth \in Auth \cup {NoAuth} :
    (auth # NoAuth => Sound(auth)) /\ Agrees(sched[a], auth, shards, now) =>
      Agrees(sched'[a], auth, shards', now')

LEMMA OwnStep ==
  ASSUME ManagerInv, NEW p \in Procs, NEW n, GoodOp(n, auths), ~Does(n, "repick"),
         op' = [op EXCEPT ![p] = n],
         UNCHANGED <<auths, now, marked, shown>>,
         sched' \in [Auths -> SchedRecords], shards' \subseteq Models, FrameOK',
         EntriesKept, AgreementsKept,
         \A a \in Auths : auths[a] # NoAuth =>
           /\ Carries(op[p], a, Version(auths, a)) => Carries(n, a, Version(auths, a))
           /\ Pub(op[p], a) => Pub(n, a),
         \A a \in Auths : supported'[a] # supported[a] => Pub(n, a)
  PROVE  ManagerInv'
PROOF
<1> USE DEF ManagerInv
<1>1. TypeParts /\ n \in OpRecords
  BY TypeFacts DEF GoodOp
<1>2. op' \in [Procs -> OpRecords] /\ op'[p] = n /\ \A q \in Procs \ {p} : op'[q] = op[q]
  BY <1>1 DEF TypeParts
<1>3. TypeOK' /\ ScopeInv'
  BY <1>1, <1>2, TypeFacts DEF TypeParts
<1>4. OpsInv'
  <2>1. \A q \in Procs : GoodOp(op'[q], auths')
    BY <1>2 DEF OpsInv
  <2> QED
    BY <2>1 DEF OpsInv
<1>5. StoredInv'
  BY DEF StoredInv, Known
<1>6. \A q \in Procs, a \in Auths : auths[a] # NoAuth =>
        /\ Carries(op[q], a, Version(auths, a)) => Carries(op'[q], a, Version(auths, a))
        /\ Pub(op[q], a) => Pub(op'[q], a)
  BY <1>2
<1>7. ShownInv'
  <2>1. ASSUME NEW a \in Auths, shown[a].newest < Version(auths, a)
        PROVE  \E q \in Procs : Carries(op'[q], a, Version(auths, a))
    <3>1. PICK q \in Procs : Carries(op[q], a, Version(auths, a))
      BY <2>1 DEF ShownInv
    <3>2. auths[a] # NoAuth
      BY <1>1, <2>1 DEF Version, TypeParts
    <3> QED
      BY <1>6, <3>1, <3>2
  <2>2. \A a \in Auths : /\ shown'[a].last <= shown'[a].newest
                         /\ shown'[a].newest <= Version(auths', a)
    BY DEF ShownInv
  <2>3. \A a \in Auths : shown'[a].newest < Version(auths', a) =>
          \E q \in Procs : Carries(op'[q], a, Version(auths', a))
    BY <2>1
  <2> QED
    BY <2>2, <2>3 DEF ShownInv
<1>8. SchedInv'
  <2>1. ASSUME NEW a \in Auths, Scheduled(a)' PROVE Known(a)'
    BY <2>1 DEF SchedInv, Scheduled, Known, EntriesKept
  <2>2. ASSUME NEW a \in Auths, shown'[a].last = Version(auths', a)
        PROVE  Agrees(sched'[a], auths'[a], shards', now')
    <3>1. PICK auth \in Auth \cup {NoAuth} : auth = auths[a]
      BY <1>1 DEF TypeParts
    <3>2. auth # NoAuth => Sound(auth)
      BY <3>1 DEF StoredInv, Known
    <3>3. Agrees(sched[a], auth, shards, now)
      BY <2>2, <3>1 DEF SchedInv
    <3> QED
      BY <3>1, <3>2, <3>3 DEF AgreementsKept
  <2>3. ASSUME NEW a \in Auths, Scheduled(a)', sched'[a].models # supported'[a]
        PROVE  \E q \in Procs : Pub(op'[q], a)
    <3>1. Scheduled(a) /\ auths[a] # NoAuth
      BY <2>3 DEF SchedInv, Scheduled, EntriesKept, Known
    <3>2. CASE sched[a].models # supported[a]
      <4>1. PICK q \in Procs : Pub(op[q], a)
        BY <3>1, <3>2 DEF SchedInv
      <4> QED
        BY <1>6, <3>1, <4>1
    <3>3. CASE sched[a].models = supported[a]
      <4>1. Pub(n, a)
        BY <2>3, <3>3 DEF EntriesKept
      <4> QED
        BY <1>2, <4>1
    <3> QED
      BY <3>2, <3>3
  <2>4. ASSUME NEW q \in Procs, Does(op'[q], "repick"), NEW a \in Auths \ op'[q].contested
        PROVE  Agrees(sched'[a], op'[q].all[a], shards', now') /\ ~sched'[a].shared
    <3>1. q # p /\ op'[q] = op[q]
      BY <1>2, <2>4
    <3>2. op[q].all \in [Auths -> Auth \cup {NoAuth}]
      BY <1>1 DEF TypeParts, OpRecords
    <3>3. PICK auth \in Auth \cup {NoAuth} : auth = op[q].all[a]
      BY <3>2
    <3>4. auth # NoAuth => Sound(auth)
      BY <3>3 DEF OpsInv, GoodOp
    <3>5. Agrees(sched[a], auth, shards, now) /\ ~sched[a].shared
      BY <2>4, <3>1, <3>3 DEF SchedInv
    <3>6. Agrees(sched'[a], auth, shards', now')
      BY <3>4, <3>5 DEF AgreementsKept
    <3> QED
      BY <3>1, <3>3, <3>5, <3>6 DEF EntriesKept
  <2> QED
    BY <2>1, <2>2, <2>3, <2>4 DEF SchedInv
<1> QED
  BY <1>3, <1>4, <1>5, <1>7, <1>8

LEMMA LocalStep ==
  ASSUME ManagerInv, NEW p \in Procs, NEW n, GoodOp(n, auths), ~Does(n, "repick"),
         op' = [op EXCEPT ![p] = n],
         UNCHANGED <<auths, sched, shards, supported, now, marked, shown>>, FrameOK',
         \A a \in Auths : auths[a] # NoAuth =>
           /\ Carries(op[p], a, Version(auths, a)) => Carries(n, a, Version(auths, a))
           /\ Pub(op[p], a) => Pub(n, a)
  PROVE  ManagerInv'
PROOF
<1>1. sched' \in [Auths -> SchedRecords] /\ shards' \subseteq Models
  BY TypeFacts DEF ManagerInv, TypeParts
<1>2. EntriesKept /\ AgreementsKept
  BY DEF EntriesKept, AgreementsKept
<1> QED
  BY <1>1, <1>2, OwnStep

LEMMA FrameKept ==
  ASSUME ManagerInv, UNCHANGED <<registry, environment>>, started' \in Nat,
         KnownIn(auths) \subseteq KnownIn(auths')
  PROVE  FrameOK'
PROOF
<1>1. ScopeInv'
  BY DEF ManagerInv, ScopeInv, environment
<1> QED
  BY <1>1, TypeFacts DEF ManagerInv, TypeParts, FrameOK, registry, environment

\* The goroutine's own record.
LEMMA OwnFacts ==
  ASSUME ManagerInv, NEW p \in Procs
  PROVE  /\ GoodOp(op[p], auths) /\ op[p] \in OpRecords /\ op \in [Procs -> OpRecords]
         /\ \A step : Doing(p, step) <=> Does(op[p], step)
         /\ \A a : Publishing(p, a) <=> Pub(op[p], a)
         /\ Idle(p) <=> op[p].todo = <<>>
PROOF
<1>1. GoodOp(op[p], auths) /\ op[p] \in OpRecords /\ op \in [Procs -> OpRecords]
  BY TypeFacts DEF ManagerInv, TypeParts, OpsInv
<1>2. Idle(p) <=> op[p].todo = <<>>
  BY DEF Idle
<1>3. \A step : Doing(p, step) <=> Does(op[p], step)
  BY <1>2 DEF Doing, Does
<1>4. \A a : Publishing(p, a) <=> Pub(op[p], a)
  BY DEF Publishing, Pub, Publishes
<1> QED
  BY <1>1, <1>2, <1>3, <1>4

\* A step that only goes on with its program.
LEMMA RestStep ==
  ASSUME ManagerInv, NEW p \in Procs, NEW n \in OpRecords, ~Idle(p),
         n.todo = Tail(op[p].todo), n.auth = op[p].auth, n.model = op[p].model, ~n.shared,
         Head(op[p].todo) \notin {"upsert", "latest", "store", "rebuild"},
         n.held # NoAuth => Sound(n.held),
         Head(op[p].todo) \in {"merge", "mergeDisabled", "disable", "readToken"} => n.held # NoAuth,
         Head(op[p].todo) \in {"merge", "mergeDisabled", "disable"} =>
           n.auth \in KnownIn(auths) \/ n.held.results = 0,
         Head(op[p].todo) = "readEntry" => n.auth \in KnownIn(auths) /\ n.held = auths[n.auth],
         n.all = op[p].all \/ n.all = auths,
         op' = [op EXCEPT ![p] = n],
         UNCHANGED <<auths, sched, shards, supported, now, marked, shown>>, FrameOK'
  PROVE  ManagerInv'
PROOF
<1>1. PICK o : o = op[p]
  OBVIOUS
<1>2. GoodOp(o, auths) /\ o.todo # <<>>
  BY <1>1, OwnFacts
<1>3. \A a \in Auths : n.all[a] # NoAuth =>
        a \in KnownIn(auths) /\ Sound(n.all[a]) /\ Was(auths, a, n.all[a])
  <2> SUFFICES ASSUME NEW a \in Auths, n.all[a] # NoAuth
               PROVE  a \in KnownIn(auths) /\ Sound(n.all[a]) /\ Was(auths, a, n.all[a])
    OBVIOUS
  <2>1. CASE n.all = o.all
    BY <1>2, <2>1 DEF GoodOp
  <2>2. CASE n.all = auths
    <3>1. auths[a].version \in Nat
      BY <2>2, TypeFacts DEF ManagerInv, TypeParts, Auth
    <3>2. Sound(auths[a])
      BY <2>2 DEF ManagerInv, StoredInv, Known
    <3> QED
      BY <2>2, <3>1, <3>2 DEF KnownIn, Was, Version
  <2> QED
    BY <1>1, <2>1, <2>2
<1>4. GoodOp(n, auths)
  BY <1>1, <1>2, <1>3, RestGood
<1>5. ASSUME NEW a \in Auths
      PROVE  /\ ~Does(n, "repick")
             /\ Carries(o, a, Version(auths, a)) => Carries(n, a, Version(auths, a))
             /\ Pub(o, a) => Pub(n, a)
  <2>1. CASE a = o.auth
    <3>1. Head(o.todo) = "readEntry" => n.held.version = Version(auths, a)
      BY <1>1, <2>1 DEF KnownIn, Version
    <3>2. PICK version : version = Version(auths, a)
      OBVIOUS
    <3> QED
      BY <1>1, <1>2, <2>1, <3>1, <3>2, RestCarries
  <2>2. CASE a # o.auth
    <3>1. ~Does(n, "repick")
      BY <1>1, <1>2, RestProgram DEF GoodOp, Before, Does
    <3> QED
      BY <2>2, <3>1 DEF Carries, Pub
  <2> QED
    BY <2>1, <2>2
<1>6. ~Does(n, "repick")
  BY <1>1, <1>2, RestProgram DEF GoodOp, Before, Does
<1> QED
  BY <1>1, <1>4, <1>5, <1>6, LocalStep

-----------------------------------------------------------------------------
(***************************************************************************)
(* Programs begin, go on and end.                                          *)
(***************************************************************************)
LEMMA NothingToPublish ==
  ASSUME NEW o \in OpRecords, o.todo = <<>>
  PROVE  \A a, version : ~Pub(o, a) /\ ~Carries(o, a, version)
PROOF BY PubCases, CarriesCases

\* What a program may start with.
Fitting(todo, a, m) ==
  /\ Program(todo) /\ todo # <<>> /\ Head(todo) \notin UsesHeld \cup {"repick"}
  /\ \A i \in 1..Len(todo) :
       /\ todo[i] \in Picking => a = NoAuth
       /\ todo[i] \notin Picking => a \in Auths
       /\ todo[i] \in OfModel => m \in Models
       /\ todo[i] \in OfKnown => a \in Auths /\ auths[a] # NoAuth

LEMMA StartStep ==
  ASSUME ManagerInv, NEW p \in Procs, NEW a \in Auths \cup {NoAuth}, NEW m \in Models \cup {NoAuth},
         NEW todo, Fitting(todo, a, m), op[p].todo = <<>>,
         op' = [op EXCEPT ![p] = [IdleOp EXCEPT !.auth = a, !.model = m, !.todo = todo]],
         UNCHANGED <<auths, sched, shards, supported, now, marked, shown>>, FrameOK'
  PROVE  ManagerInv'
PROOF
<1>1. PICK n : n = [IdleOp EXCEPT !.auth = a, !.model = m, !.todo = todo]
  OBVIOUS
<1>2. todo \in Seq(Steps)
  BY DEF Fitting, Program
<1>3. n.todo = todo /\ n.auth = a /\ n.model = m
  BY <1>1, <1>2 DEF IdleOp
<1>4. Fits(n, auths)
  BY <1>3 DEF Fits, Fitting, KnownIn
<1>5. GoodOp(n, auths)
  BY <1>1, <1>4, StartGood DEF Fitting
<1>6. ~Does(n, "repick")
  BY <1>3 DEF Does, Fitting
<1>7. \A b, version : ~Pub(op[p], b) /\ ~Carries(op[p], b, version)
  BY OwnFacts, NothingToPublish
<1> QED
  BY <1>1, <1>5, <1>6, <1>7, LocalStep

LEMMA EndStep ==
  ASSUME ManagerInv, NEW p \in Procs, op' = [op EXCEPT ![p] = IdleOp],
         \A a \in Auths : auths[a] # NoAuth => ~Pub(op[p], a),
         UNCHANGED <<auths, sched, shards, supported, now, marked, shown>>, FrameOK'
  PROVE  ManagerInv'
PROOF
<1>1. PICK n : n = IdleOp
  OBVIOUS
<1>2. GoodOp(n, auths) /\ ~Does(n, "repick")
  BY <1>1, IdleGood DEF Does, IdleOp
<1>3. \A a \in Auths : auths[a] # NoAuth => ~Carries(op[p], a, Version(auths, a))
  BY OwnFacts, CarriesCases
<1> QED
  BY <1>1, <1>2, <1>3, LocalStep

LEMMA DoingFacts ==
  ASSUME ManagerInv, NEW p \in Procs, NEW step \in Steps, Doing(p, step)
  PROVE  /\ op[p].todo # <<>> /\ ~Idle(p) /\ Head(op[p].todo) = step
         /\ step # "upsert" => ~op[p].shared
         /\ step \in Picking => op[p].auth = NoAuth
         /\ step \notin Picking => op[p].auth \in Auths
         /\ step \in OfModel => op[p].model \in Models
         /\ step \in OfKnown => op[p].auth \in Auths /\ auths[op[p].auth] # NoAuth
         /\ step \in UsesHeld => op[p].held \in Auth /\ Sound(op[p].held)
PROOF
<1>1. PICK o : o = op[p]
  OBVIOUS
<1>2. GoodOp(o, auths) /\ o \in OpRecords /\ o.todo # <<>> /\ Head(o.todo) = step /\ ~Idle(p)
  BY <1>1, OwnFacts DEF Does
<1>3. Does(o, step) /\ \A s : Does(o, s) => s = step
  BY <1>2 DEF Does
<1>4. step # "upsert" => ~o.shared
  BY <1>2, <1>3 DEF GoodOp
<1>5. 1 \in 1..Len(o.todo) /\ o.todo[1] = step
  BY <1>2, DoesFacts
<1>6. /\ step \in Picking => o.auth = NoAuth
      /\ step \notin Picking => o.auth \in Auths
      /\ step \in OfModel => o.model \in Models
      /\ step \in OfKnown => o.auth \in KnownIn(auths)
  BY <1>2, <1>5 DEF GoodOp, Fits
<1>7. step \in UsesHeld => o.held \in Auth /\ Sound(o.held)
  <2> SUFFICES ASSUME step \in UsesHeld PROVE o.held \in Auth /\ Sound(o.held)
    OBVIOUS
  <2>1. o.held # NoAuth
    BY <1>2, <1>3 DEF GoodOp
  <2> QED
    BY <1>2, <2>1 DEF GoodOp, OpRecords
<1>8. step \in OfKnown => o.auth \in Auths /\ auths[o.auth] # NoAuth
  BY <1>6 DEF KnownIn
<1> QED
  BY <1>1, <1>2, <1>4, <1>6, <1>7, <1>8

\* The value stored for a known credential.
LEMMA StoredFacts ==
  ASSUME ManagerInv, NEW a \in Auths, auths[a] # NoAuth
  PROVE  auths[a] \in Auth /\ Sound(auths[a]) /\ auths[a].version \in Nat
         /\ auths[a].version > 0 /\ a \in KnownIn(auths) /\ Known(a)
         /\ Version(auths, a) = auths[a].version
PROOF
<1>1. auths[a] \in Auth
  BY TypeFacts DEF ManagerInv, TypeParts
<1>2. auths[a].version \in Nat
  BY <1>1 DEF Auth
<1>3. Sound(auths[a]) /\ auths[a].version > 0
  BY DEF ManagerInv, StoredInv, Known
<1> QED
  BY <1>1, <1>2, <1>3 DEF KnownIn, Known, Version

LEMMA Starts ==
  ASSUME ManagerInv, NEW p \in Procs, NEW a \in Auths \cup {NoAuth}, NEW m \in Models \cup {NoAuth},
         NEW todo, Fitting(todo, a, m), Start(p, a, m, todo),
         UNCHANGED <<auths, sched, shards, registry, environment, marked, shown>>
  PROVE  ManagerInv'
PROOF
<1>1. op[p].todo = <<>> /\ started' = started + 1
      /\ op' = [op EXCEPT ![p] = [IdleOp EXCEPT !.auth = a, !.model = m, !.todo = todo]]
  BY DEF Start, Idle
<1>2. started \in Nat
  BY TypeFacts DEF ManagerInv, TypeParts, FrameOK
<1>3. FrameOK'
  BY <1>1, <1>2, FrameKept
<1> QED
  BY <1>1, <1>3, StartStep DEF registry, environment

LEMMA RequestStarts ==
  ASSUME ManagerInv, NEW p \in Procs, StartRequest(p)
  PROVE  ManagerInv'
PROOF
<1>1. PICK m \in scenario.models : Start(p, NoAuth, m, <<"pick">>)
  BY DEF StartRequest
<1>2. scenario \in Scenarios
  BY DEF ManagerInv, ScopeInv
<1>3. m \in Models
  BY <1>2, ScenariosAssumption
<1>4. PICK t : t = <<"pick">>
  OBVIOUS
<1>5. Program(t) /\ t # <<>> /\ Head(t) = "pick"
  BY <1>4, Literals
<1>6. \A i \in 1..Len(t) : t[i] = "pick"
  BY <1>4
<1>7. Fitting(t, NoAuth, m)
  BY <1>3, <1>5, <1>6 DEF Fitting, Picking, OfModel, OfKnown, UsesHeld
<1>8. UNCHANGED <<auths, sched, shards, registry, environment, marked, shown>>
  BY DEF StartRequest
<1> QED
  BY <1>1, <1>3, <1>4, <1>7, <1>8, Starts

LEMMA AddOrUpdateStarts ==
  ASSUME ManagerInv, NEW p \in Procs, StartAddOrUpdate(p)
  PROVE  ManagerInv'
PROOF
<1>1. PICK t1 : t1 = <<"merge", "store", "upsert", "register", "readModels", "reconcile",
                       "readEntry", "upsert">>
  OBVIOUS
<1>2. PICK t2 : t2 = <<"mergeDisabled", "store", "upsert", "unregister", "readModels", "reconcile",
                       "readEntry", "upsert">>
  OBVIOUS
<1>3. <<"merge", "store", "upsert">> \o Reregister \o Republish = t1
  BY <1>1, Joined4, Joined5, Joined6 DEF Reregister, Reconciling, Republish
<1>4. <<"mergeDisabled", "store", "upsert", "unregister">> \o Reconciling \o Republish = t2
  BY <1>2, Joined7, Joined8 DEF Reconciling, Republish
<1>5. PICK a \in Auths : Start(p, a, NoAuth, t1) \/ Start(p, a, NoAuth, t2)
  BY <1>3, <1>4 DEF StartAddOrUpdate
<1>6. Fitting(t1, a, NoAuth)
  <2>1. Program(t1) /\ t1 # <<>> /\ Head(t1) = "merge"
    BY <1>1, Literals
  <2>2. \A i \in 1..Len(t1) : t1[i] \in Changes \cup {"upsert"}
    BY <1>1 DEF Changes
  <2> QED
    BY <2>1, <2>2 DEF Fitting, Changes, Picking, OfModel, OfKnown, UsesHeld
<1>7. Fitting(t2, a, NoAuth)
  <2>1. Program(t2) /\ t2 # <<>> /\ Head(t2) = "mergeDisabled"
    BY <1>2, Literals
  <2>2. \A i \in 1..Len(t2) : t2[i] \in Changes \cup {"upsert"}
    BY <1>2 DEF Changes
  <2> QED
    BY <2>1, <2>2 DEF Fitting, Changes, Picking, OfModel, OfKnown, UsesHeld
<1>8. UNCHANGED <<auths, sched, shards, registry, environment, marked, shown>>
  BY DEF StartAddOrUpdate
<1> QED
  BY <1>5, <1>6, <1>7, <1>8, Starts

LEMMA RemovalStarts ==
  ASSUME ManagerInv, NEW p \in Procs, StartRemoval(p)
  PROVE  ManagerInv'
PROOF
<1>1. PICK t : t = <<"unregister", "disable", "store", "upsert">>
  OBVIOUS
<1>2. PICK a \in Auths : Start(p, a, NoAuth, t)
  BY <1>1 DEF StartRemoval
<1>3. Program(t) /\ t # <<>> /\ Head(t) = "unregister"
  BY <1>1, Literals
<1>4. \A i \in 1..Len(t) : t[i] \in Changes \cup {"upsert"}
  BY <1>1 DEF Changes
<1>5. Fitting(t, a, NoAuth)
  BY <1>3, <1>4 DEF Fitting, Changes, Picking, OfModel, OfKnown, UsesHeld
<1>6. UNCHANGED <<auths, sched, shards, registry, environment, marked, shown>>
  BY DEF StartRemoval
<1> QED
  BY <1>2, <1>5, <1>6, Starts

LEMMA TokenRefreshStarts ==
  ASSUME ManagerInv, NEW p \in Procs, StartTokenRefresh(p)
  PROVE  ManagerInv'
PROOF
<1>1. PICK t : t = <<"readToken", "refresh">>
  OBVIOUS
<1>2. PICK a \in Auths : auths[a] # NoAuth /\ Start(p, a, NoAuth, t)
  BY <1>1 DEF StartTokenRefresh, Known
<1>3. Program(t) /\ t # <<>> /\ Head(t) = "readToken"
  BY <1>1, Literals
<1>4. \A i \in 1..Len(t) : t[i] \in {"readToken", "refresh"}
  BY <1>1
<1>5. Fitting(t, a, NoAuth)
  BY <1>2, <1>3, <1>4 DEF Fitting, Picking, OfModel, OfKnown, UsesHeld
<1>6. UNCHANGED <<auths, sched, shards, registry, environment, marked, shown>>
  BY DEF StartTokenRefresh
<1> QED
  BY <1>2, <1>5, <1>6, Starts

LEMMA CatalogRefreshStarts ==
  ASSUME ManagerInv, NEW p \in Procs, StartCatalogRefresh(p)
  PROVE  ManagerInv'
PROOF
<1>1. PICK n : n = op[p]
  OBVIOUS
<1>2. GoodOp(n, auths) /\ n.todo = <<>> /\ op' = [op EXCEPT ![p] = n]
  BY <1>1, OwnFacts DEF StartCatalogRefresh
<1>3. ~Does(n, "repick")
  BY <1>2 DEF Does
<1>4. scenario \in Scenarios
  BY DEF ManagerInv, ScopeInv
<1>5. /\ UNCHANGED <<auths, sched, shards, registry, now, scenario, marked, shown>>
      /\ rebind' = {a \in Auths : Known(a)} /\ started' = started + 1
      /\ \E models \in SUBSET scenario.models : catalog' = models
  BY DEF StartCatalogRefresh
<1>6. catalog' \subseteq Models
  BY <1>4, <1>5, ScenariosAssumption
<1>7. FrameOK'
  <2>1. ScopeInv'
    BY <1>4, <1>5 DEF ScopeInv, KnownIn, Known
  <2> QED
    BY <1>5, <1>6, <2>1, TypeFacts DEF ManagerInv, TypeParts, FrameOK, registry
<1>8. \A a, version : ~Pub(n, a) /\ ~Carries(n, a, version)
  BY <1>2, NothingToPublish DEF GoodOp
<1> QED
  BY <1>1, <1>2, <1>3, <1>5, <1>7, <1>8, LocalStep DEF registry

LEMMA ProceedFacts ==
  ASSUME ManagerInv, NEW p \in Procs,
         NEW step \in {"clearQuota", "setQuota", "resume", "suspend", "register", "unregister"},
         Doing(p, step)
  PROVE  \E n : /\ n = Proceed(Rest(p), op[p]) /\ GoodOp(n, auths) /\ ~Does(n, "repick")
                /\ \A a \in Auths :
                     /\ Carries(op[p], a, Version(auths, a)) => Carries(n, a, Version(auths, a))
                     /\ Pub(op[p], a) => Pub(n, a)
PROOF
<1>1. PICK o : o = op[p]
  OBVIOUS
<1>2. PICK n : n = Proceed(Rest(p), op[p])
  OBVIOUS
<1>3. step \in Steps
  BY DEF Steps
<1>4. o.todo # <<>> /\ Head(o.todo) = step /\ ~o.shared
  BY <1>1, <1>3, DoingFacts
<1>5. GoodOp(o, auths) /\ o \in OpRecords
  BY <1>1, OwnFacts
<1>6. o.held # NoAuth => Sound(o.held)
  BY <1>5 DEF GoodOp
<1>7. n = Proceed(Tail(o.todo), o)
  BY <1>1, <1>2 DEF Rest
<1>8. /\ GoodOp(n, auths) /\ n.todo = Tail(o.todo)
      /\ n.todo # <<>> => n.auth = o.auth
  BY <1>4, <1>5, <1>6, <1>7, ProceedGood
<1>9. ~Does(n, "repick")
  BY <1>4, <1>5, <1>8, RestProgram DEF GoodOp, Before, Does
<1>10. ASSUME NEW a \in Auths
       PROVE  /\ Carries(o, a, Version(auths, a)) => Carries(n, a, Version(auths, a))
              /\ Pub(o, a) => Pub(n, a)
  <2>1. PICK version : version = Version(auths, a)
    OBVIOUS
  <2> QED
    BY <1>4, <1>5, <1>8, <2>1, RestCarries
<1> QED
  BY <1>1, <1>2, <1>8, <1>9, <1>10

LEMMA RegistrySteps ==
  ASSUME ManagerInv, NEW p \in Procs,
         \/ ClearModelQuotaExceeded(p) \/ SetModelQuotaExceeded(p)
         \/ ResumeClientModel(p) \/ SuspendClientModel(p)
  PROVE  ManagerInv'
PROOF
<1>1. PICK step \in {"clearQuota", "setQuota", "resume", "suspend"} : RegistryStep(p, step)
  BY DEF ClearModelQuotaExceeded, SetModelQuotaExceeded, ResumeClientModel, SuspendClientModel
<1>2. Doing(p, step)
  BY <1>1 DEF RegistryStep
<1>3. PICK n : /\ n = Proceed(Rest(p), op[p]) /\ GoodOp(n, auths) /\ ~Does(n, "repick")
               /\ \A a \in Auths :
                    /\ Carries(op[p], a, Version(auths, a)) => Carries(n, a, Version(auths, a))
                    /\ Pub(op[p], a) => Pub(n, a)
  BY <1>2, ProceedFacts
<1>4. /\ op' = [op EXCEPT ![p] = n]
      /\ UNCHANGED <<auths, sched, shards, supported, environment, started, marked, shown>>
  BY <1>1, <1>3 DEF RegistryStep
<1>5. step \in Steps /\ step \in OfModel /\ step \notin Picking
  BY DEF Steps, OfModel, Picking
<1>6. op[p].auth \in Auths /\ op[p].model \in Models
  BY <1>2, <1>5, DoingFacts
<1>7. suspended \subseteq Auths \X Models /\ exceeded \subseteq Auths \X Models
  BY TypeFacts DEF ManagerInv, TypeParts, FrameOK
<1>8. suspended' \subseteq Auths \X Models /\ exceeded' \subseteq Auths \X Models
  BY <1>6, <1>7 DEF ClearModelQuotaExceeded, SetModelQuotaExceeded, ResumeClientModel,
                    SuspendClientModel, Pair
<1>9. FrameOK'
  BY <1>4, <1>8, TypeFacts DEF ManagerInv, TypeParts, FrameOK, ScopeInv, environment
<1> QED
  BY <1>3, <1>4, <1>9, LocalStep DEF environment

LEMMA SnapshotTaken ==
  ASSUME ManagerInv, NEW p \in Procs, Snapshot(p)
  PROVE  ManagerInv'
PROOF
<1>1. PICK n : n = [op[p] EXCEPT !.todo = Rest(p), !.all = auths]
  OBVIOUS
<1>2. Doing(p, "snapshot") /\ op' = [op EXCEPT ![p] = n]
      /\ UNCHANGED <<auths, sched, shards, registry, environment, started, marked, shown>>
  BY <1>1 DEF Snapshot
<1>3. op[p].todo # <<>> /\ ~Idle(p) /\ Head(op[p].todo) = "snapshot" /\ ~op[p].shared
  BY <1>2, DoingFacts DEF Steps
<1>4. GoodOp(op[p], auths) /\ op[p] \in OpRecords
  BY OwnFacts
<1>5. Tail(op[p].todo) \in Seq(Steps) /\ auths \in [Auths -> Auth \cup {NoAuth}]
  BY <1>3, <1>4, TypeFacts, TailFacts DEF OpRecords, ManagerInv, TypeParts
<1>6. /\ n \in OpRecords /\ n.todo = Tail(op[p].todo) /\ n.auth = op[p].auth
      /\ n.model = op[p].model /\ ~n.shared /\ n.held = op[p].held /\ n.all = auths
  BY <1>1, <1>3, <1>4, <1>5 DEF OpRecords, Rest
<1>7. n.held # NoAuth => Sound(n.held)
  BY <1>4, <1>6 DEF GoodOp
<1>8. FrameOK' /\ UNCHANGED supported /\ UNCHANGED now
  BY <1>2, FrameKept, TypeFacts DEF registry, environment, ManagerInv, TypeParts, FrameOK
<1> QED
  BY <1>2, <1>3, <1>6, <1>7, <1>8, RestStep

\* Steps that change at most the value carried and the models seen.
LEMMA HoldStep ==
  ASSUME ManagerInv, NEW p \in Procs,
         NEW step \in {"merge", "mergeDisabled", "readModels", "reconcile", "readEntry", "disable",
                       "readToken"},
         Doing(p, step), NEW held \in Auth \cup {NoAuth}, NEW seen \in SUBSET Models,
         held # NoAuth => Sound(held),
         step \in {"merge", "mergeDisabled", "disable", "readToken"} => held # NoAuth,
         step \in {"merge", "mergeDisabled", "disable"} =>
           op[p].auth \in KnownIn(auths) \/ held.results = 0,
         step = "readEntry" => op[p].auth \in KnownIn(auths) /\ held = auths[op[p].auth],
         NEW n, n = [op[p] EXCEPT !.held = held, !.seen = seen, !.shared = FALSE, !.todo = Rest(p)],
         op' = [op EXCEPT ![p] = n],
         UNCHANGED <<auths, sched, shards, registry, environment, started, marked, shown>>
  PROVE  ManagerInv'
PROOF
<1>1. step \in Steps
  BY DEF Steps
<1>2. op[p].todo # <<>> /\ ~Idle(p) /\ Head(op[p].todo) = step
  BY <1>1, DoingFacts
<1>3. op[p] \in OpRecords
  BY OwnFacts
<1>4. Tail(op[p].todo) \in Seq(Steps)
  BY <1>2, <1>3, TailFacts DEF OpRecords
<1>5. /\ n \in OpRecords /\ n.todo = Tail(op[p].todo) /\ n.auth = op[p].auth
      /\ n.model = op[p].model /\ ~n.shared /\ n.held = held /\ n.all = op[p].all
  BY <1>3, <1>4 DEF OpRecords, Rest
<1>6. FrameOK' /\ UNCHANGED supported /\ UNCHANGED now
  BY FrameKept, TypeFacts DEF registry, environment, ManagerInv, TypeParts, FrameOK
<1> QED
  BY <1>2, <1>5, <1>6, RestStep

\* A record with the fields that a step assigns, whichever they are.
LEMMA HeldRecords ==
  ASSUME NEW o \in OpRecords, ~o.shared, NEW held, NEW seen, NEW todo
  PROVE  /\ [o EXCEPT !.held = held, !.todo = todo]
              = [o EXCEPT !.held = held, !.seen = o.seen, !.shared = FALSE, !.todo = todo]
         /\ [o EXCEPT !.held = held, !.shared = FALSE, !.todo = todo]
              = [o EXCEPT !.held = held, !.seen = o.seen, !.shared = FALSE, !.todo = todo]
         /\ [o EXCEPT !.seen = seen, !.todo = todo]
              = [o EXCEPT !.held = o.held, !.seen = seen, !.shared = FALSE, !.todo = todo]
PROOF
<1>1. o.shared = FALSE
  BY DEF OpRecords
<1> QED
  BY <1>1 DEF OpRecords

LEMMA Merges ==
  ASSUME ManagerInv, NEW p \in Procs, Merge(p)
  PROVE  ManagerInv'
PROOF
<1>1. UNCHANGED <<auths, sched, shards, registry, environment, started, marked, shown>>
  BY DEF Merge
<1>2. PICK step, held :
        /\ step \in {"merge", "mergeDisabled"} /\ Doing(p, step)
        /\ op' = [op EXCEPT ![p] = [op[p] EXCEPT !.held = held, !.todo = Rest(p)]]
        /\ \/ /\ step = "merge"
              /\ held = IF Known(op[p].auth) /\ Enabled(auths[op[p].auth])
                          THEN [FreshAuth EXCEPT !.states = auths[op[p].auth].states]
                          ELSE FreshAuth
           \/ step = "mergeDisabled" /\ held = Disabled(FreshAuth)
  BY DEF Merge
<1>3. step \in Steps /\ step \notin Picking
  BY <1>2 DEF Steps, Picking
<1>4. op[p].auth \in Auths /\ ~op[p].shared /\ op[p] \in OpRecords
  BY <1>2, <1>3, DoingFacts, OwnFacts
<1>5. held \in Auth /\ Sound(held) /\ held.results = 0
  <2>1. CASE held = FreshAuth
    BY <2>1, FreshFacts
  <2>2. CASE held = Disabled(FreshAuth)
    BY <2>2, FreshFacts, DisabledFacts
  <2>3. CASE /\ Known(op[p].auth)
             /\ held = [FreshAuth EXCEPT !.states = auths[op[p].auth].states]
    <3>1. PICK old : old = auths[op[p].auth]
      OBVIOUS
    <3>2. old \in Auth /\ Sound(old)
      BY <1>4, <2>3, <3>1, StoredFacts DEF Known
    <3> QED
      BY <2>3, <3>1, <3>2, MergedFacts
  <2> QED
    BY <1>2, <2>1, <2>2, <2>3
<1>6. held # NoAuth
  BY <1>5, NoAuthFacts
<1>7. PICK n : n = [op[p] EXCEPT !.held = held, !.seen = op[p].seen, !.shared = FALSE,
                                 !.todo = Rest(p)]
  OBVIOUS
<1>8. op' = [op EXCEPT ![p] = n] /\ op[p].seen \in SUBSET Models
  BY <1>2, <1>4, <1>7, HeldRecords DEF OpRecords
<1>9. /\ step # "readEntry" /\ Doing(p, step)
      /\ step \in {"merge", "mergeDisabled", "readModels", "reconcile", "readEntry", "disable",
                   "readToken"}
  BY <1>2
<1> QED
  BY <1>1, <1>5, <1>6, <1>7, <1>8, <1>9, HoldStep

LEMMA ModelsRead ==
  ASSUME ManagerInv, NEW p \in Procs, ReadModels(p)
  PROVE  ManagerInv'
PROOF
<1>1. PICK seen : seen = supported[op[p].auth]
  OBVIOUS
<1>2. /\ UNCHANGED <<auths, sched, shards, registry, environment, started, marked, shown>>
      /\ Doing(p, "readModels")
      /\ op' = [op EXCEPT ![p] = [op[p] EXCEPT !.seen = seen, !.todo = Rest(p)]]
  BY <1>1 DEF ReadModels
<1>3. op[p].auth \in Auths /\ ~op[p].shared /\ op[p] \in OpRecords /\ GoodOp(op[p], auths)
  BY <1>2, DoingFacts, OwnFacts DEF Steps, Picking
<1>4. seen \in SUBSET Models
  BY <1>1, <1>3, TypeFacts DEF ManagerInv, TypeParts, FrameOK
<1>5. PICK held \in Auth \cup {NoAuth} : held = op[p].held /\ (held # NoAuth => Sound(held))
  BY <1>3 DEF GoodOp, OpRecords
<1>6. PICK n : n = [op[p] EXCEPT !.held = held, !.seen = seen, !.shared = FALSE, !.todo = Rest(p)]
  OBVIOUS
<1>7. op' = [op EXCEPT ![p] = n]
  BY <1>2, <1>3, <1>5, <1>6, HeldRecords
<1>8. PICK step \in {"merge", "mergeDisabled", "readModels", "reconcile", "readEntry", "disable",
                   "readToken"} : step = "readModels"
  OBVIOUS
<1>9. Doing(p, step) /\ step \notin {"merge", "mergeDisabled", "disable", "readToken", "readEntry"}
  BY <1>2, <1>8
<1>10. UNCHANGED <<auths, sched, shards, registry, environment, started, marked, shown>>
  BY <1>2
<1> QED
  BY <1>4, <1>5, <1>6, <1>7, <1>9, <1>10, HoldStep

LEMMA EntryRead ==
  ASSUME ManagerInv, NEW p \in Procs, ReadEntry(p)
  PROVE  ManagerInv'
PROOF
<1>1. PICK a : a = op[p].auth
  OBVIOUS
<1>2. /\ UNCHANGED <<auths, sched, shards, registry, environment, started, marked, shown>>
      /\ Doing(p, "readEntry")
  BY DEF ReadEntry
<1>3. a \in Auths /\ ~op[p].shared /\ op[p] \in OpRecords
  BY <1>1, <1>2, DoingFacts, OwnFacts DEF Steps, Picking
<1>4. CASE Known(a)
  <2>1. PICK held : held = auths[a]
    OBVIOUS
  <2>2. held \in Auth /\ Sound(held) /\ a \in KnownIn(auths) /\ held # NoAuth
    BY <1>3, <1>4, <2>1, StoredFacts DEF Known
  <2>3. PICK n : n = [op[p] EXCEPT !.held = held, !.seen = op[p].seen, !.shared = FALSE,
                                   !.todo = Rest(p)]
    OBVIOUS
  <2>4. op' = [op EXCEPT ![p] = [op[p] EXCEPT !.held = held, !.shared = FALSE, !.todo = Rest(p)]]
    BY <1>1, <1>4, <2>1 DEF ReadEntry
  <2>5. op' = [op EXCEPT ![p] = n] /\ op[p].seen \in SUBSET Models
    BY <1>3, <2>3, <2>4, HeldRecords DEF OpRecords
  <2> QED
    BY <1>1, <1>2, <2>1, <2>2, <2>3, <2>5, HoldStep
<1>5. CASE ~Known(a)
  <2>1. op' = [op EXCEPT ![p] = IdleOp]
    BY <1>1, <1>5 DEF ReadEntry
  <2>2. \A b \in Auths : auths[b] # NoAuth => ~Pub(op[p], b)
    BY <1>1, <1>5 DEF Known, Pub
  <2>3. FrameOK' /\ UNCHANGED supported /\ UNCHANGED now
    BY <1>2, FrameKept, TypeFacts DEF registry, environment, ManagerInv, TypeParts, FrameOK
  <2> QED
    BY <1>2, <2>1, <2>2, <2>3, EndStep
<1> QED
  BY <1>4, <1>5

LEMMA Disables ==
  ASSUME ManagerInv, NEW p \in Procs, Disable(p)
  PROVE  ManagerInv'
PROOF
<1>1. PICK a : a = op[p].auth
  OBVIOUS
<1>2. /\ UNCHANGED <<auths, sched, shards, registry, environment, started, marked, shown>>
      /\ Doing(p, "disable")
  BY DEF Disable
<1>3. a \in Auths /\ ~op[p].shared /\ op[p] \in OpRecords
  BY <1>1, <1>2, DoingFacts, OwnFacts DEF Steps, Picking
<1>4. CASE Known(a)
  <2>1. PICK held : held = Disabled(auths[a])
    OBVIOUS
  <2>2. auths[a] \in Auth /\ Sound(auths[a]) /\ a \in KnownIn(auths)
    BY <1>3, <1>4, StoredFacts DEF Known
  <2>3. held \in Auth /\ Sound(held) /\ held # NoAuth
    BY <2>1, <2>2, DisabledFacts, NoAuthFacts
  <2>4. PICK n : n = [op[p] EXCEPT !.held = held, !.seen = op[p].seen, !.shared = FALSE,
                                   !.todo = Rest(p)]
    OBVIOUS
  <2>5. op' = [op EXCEPT ![p] = [op[p] EXCEPT !.held = held, !.todo = Rest(p)]]
    BY <1>1, <1>4, <2>1 DEF Disable
  <2>6. op' = [op EXCEPT ![p] = n] /\ op[p].seen \in SUBSET Models
    BY <1>3, <2>4, <2>5, HeldRecords DEF OpRecords
  <2> QED
    BY <1>1, <1>2, <2>2, <2>3, <2>4, <2>6, HoldStep
<1>5. CASE ~Known(a)
  <2>1. op' = [op EXCEPT ![p] = IdleOp]
    BY <1>1, <1>5 DEF Disable
  <2>2. \A b \in Auths : auths[b] # NoAuth => ~Pub(op[p], b)
    BY <1>1, <1>5 DEF Known, Pub
  <2>3. FrameOK' /\ UNCHANGED supported /\ UNCHANGED now
    BY <1>2, FrameKept, TypeFacts DEF registry, environment, ManagerInv, TypeParts, FrameOK
  <2> QED
    BY <1>2, <2>1, <2>2, <2>3, EndStep
<1> QED
  BY <1>4, <1>5

LEMMA TokenRead ==
  ASSUME ManagerInv, NEW p \in Procs, ReadToken(p)
  PROVE  ManagerInv'
PROOF
<1>1. PICK held : held = auths[op[p].auth]
  OBVIOUS
<1>2. /\ UNCHANGED <<auths, sched, shards, registry, environment, started, marked, shown>>
      /\ Doing(p, "readToken")
      /\ op' = [op EXCEPT ![p] = [op[p] EXCEPT !.held = held, !.todo = Rest(p)]]
  BY <1>1 DEF ReadToken
<1>3. op[p].auth \in Auths /\ ~op[p].shared /\ op[p] \in OpRecords /\ held # NoAuth
  BY <1>1, <1>2, DoingFacts, OwnFacts DEF Steps, Picking, OfKnown
<1>4. held \in Auth /\ Sound(held)
  BY <1>1, <1>3, StoredFacts
<1>5. PICK n : n = [op[p] EXCEPT !.held = held, !.seen = op[p].seen, !.shared = FALSE,
                                 !.todo = Rest(p)]
  OBVIOUS
<1>6. op' = [op EXCEPT ![p] = n] /\ op[p].seen \in SUBSET Models
  BY <1>2, <1>3, <1>5, HeldRecords DEF OpRecords
<1>7. PICK step \in {"merge", "mergeDisabled", "readModels", "reconcile", "readEntry", "disable",
                   "readToken"} : step = "readToken"
  OBVIOUS
<1>8. Doing(p, step) /\ step \notin {"merge", "mergeDisabled", "disable", "readEntry"}
  BY <1>2, <1>7
<1>9. UNCHANGED <<auths, sched, shards, registry, environment, started, marked, shown>>
  BY <1>2
<1> QED
  BY <1>3, <1>4, <1>5, <1>6, <1>8, <1>9, HoldStep

LEMMA Revisits ==
  ASSUME ManagerInv, NEW p \in Procs, Revisit(p)
  PROVE  ManagerInv'
PROOF
<1>1. PICK o : o = op[p]
  OBVIOUS
<1>2. GoodOp(o, auths) /\ o \in OpRecords /\ o.todo = <<>>
  BY <1>1, OwnFacts DEF Revisit
<1>3. PICK a \in rebind :
        /\ rebind' = rebind \ {a}
        /\ op' = [op EXCEPT ![p] =
             IF auths[a].disabled THEN o
             ELSE [o EXCEPT !.auth = a, !.todo = Reregister \o <<"latest">>]]
  BY <1>1 DEF Revisit
<1>4. PICK t : t = <<"register", "readModels", "reconcile", "latest">>
  OBVIOUS
<1>5. Reregister \o <<"latest">> = t
  BY <1>4, Joined4, Joined9 DEF Reregister, Reconciling
<1>6. a \in KnownIn(auths) /\ a \in Auths
  BY <1>3 DEF ManagerInv, ScopeInv, KnownIn
<1>7. PICK n : n = IF auths[a].disabled THEN o ELSE [o EXCEPT !.auth = a, !.todo = t]
  OBVIOUS
<1>8. op' = [op EXCEPT ![p] = n]
  BY <1>3, <1>5, <1>7
<1>9. Program(t) /\ t # <<>> /\ Head(t) = "register" /\ t \in Seq(Steps)
  BY <1>4, Literals DEF Program
<1>10. \A i \in 1..Len(t) : t[i] \in Changes \cup {"latest"}
  BY <1>4 DEF Changes
<1>11. ~o.shared
  BY <1>2 DEF GoodOp, Does
<1>12. GoodOp(n, auths) /\ ~Does(n, "repick")
  <2>1. CASE n = o
    BY <1>2, <2>1 DEF Does
  <2>2. CASE n = [o EXCEPT !.auth = a, !.todo = t]
    <3>1. /\ n \in OpRecords /\ n.todo = t /\ n.auth = a /\ n.held = o.held /\ ~n.shared
          /\ n.all = o.all
      BY <1>2, <1>6, <1>9, <1>11, <2>2 DEF OpRecords
    <3>2. Fits(n, auths)
      BY <1>6, <1>10, <3>1 DEF Fits, Changes, Picking, OfModel, OfKnown
    <3>3. \A step : Does(n, step) <=> step = "register"
      BY <1>9, <3>1 DEF Does
    <3> QED
      BY <1>2, <1>9, <3>1, <3>2, <3>3 DEF GoodOp, UsesHeld
  <2> QED
    BY <1>7, <2>1, <2>2
<1>13. \A b, version : ~Pub(o, b) /\ ~Carries(o, b, version)
  BY <1>2, NothingToPublish
<1>14. UNCHANGED <<auths, sched, shards, registry, catalog, now, scenario, started, marked, shown>>
  BY DEF Revisit
<1>15. ScopeInv'
  BY <1>3, <1>14 DEF ManagerInv, ScopeInv
<1>16. FrameOK'
  BY <1>14, <1>15, TypeFacts DEF ManagerInv, TypeParts, FrameOK, registry
<1> QED
  BY <1>1, <1>8, <1>12, <1>13, <1>14, <1>16, LocalStep DEF registry

\* A program for the same credential that publishes at its end.
LEMMA LatestTaken ==
  ASSUME ManagerInv, NEW p \in Procs, Latest(p)
  PROVE  ManagerInv'
PROOF
<1>1. PICK o : o = op[p]
  OBVIOUS
<1>2. /\ UNCHANGED <<auths, sched, shards, registry, environment, started, marked, shown>>
      /\ Doing(p, "latest")
  BY DEF Latest
<1>3. PICK step \in Steps : step = "latest"
  BY DEF Steps
<1>4. /\ o.todo # <<>> /\ ~o.shared /\ o.auth \in Auths /\ auths[o.auth] # NoAuth
  BY <1>1, <1>2, <1>3, DoingFacts DEF OfKnown
<1>5. GoodOp(o, auths) /\ o \in OpRecords
  BY <1>1, OwnFacts
<1>6. PICK t : t = IF auths[o.auth].disabled THEN <<"unregister", "readEntry", "upsert">>
                   ELSE <<"register", "readModels", "reconcile", "readEntry", "upsert">>
  OBVIOUS
<1>7. (IF auths[o.auth].disabled THEN <<"unregister">> ELSE Reregister) \o Republish = t
  BY <1>6, Joined4, Joined10, Joined11 DEF Reregister, Reconciling, Republish
<1>8. PICK n : n = [o EXCEPT !.todo = t]
  OBVIOUS
<1>9. op' = [op EXCEPT ![p] = n]
  BY <1>1, <1>7, <1>8 DEF Latest
<1>10. Program(t) /\ t # <<>> /\ Head(t) \in {"register", "unregister"} /\ t \in Seq(Steps)
  BY <1>6, Literals DEF Program
<1>11. \A i \in 1..Len(t) : t[i] \in Changes \cup {"upsert"}
  BY <1>6 DEF Changes
<1>12. \E i \in 2..Len(t) : t[i] \in Publishes
  <2>1. CASE t = <<"unregister", "readEntry", "upsert">>
    <3>1. 3 \in 2..Len(t) /\ t[3] = "upsert"
      BY <2>1
    <3> QED
      BY <3>1 DEF Publishes
  <2>2. CASE t = <<"register", "readModels", "reconcile", "readEntry", "upsert">>
    <3>1. 5 \in 2..Len(t) /\ t[5] = "upsert"
      BY <2>2
    <3> QED
      BY <3>1 DEF Publishes
  <2> QED
    BY <1>6, <2>1, <2>2
<1>13. /\ n \in OpRecords /\ n.todo = t /\ n.auth = o.auth /\ n.held = o.held /\ ~n.shared
       /\ n.all = o.all
  BY <1>4, <1>5, <1>8, <1>10 DEF OpRecords
<1>14. Fits(n, auths)
  BY <1>4, <1>11, <1>13 DEF Fits, Changes, Picking, OfModel, OfKnown
<1>15. \A s : Does(n, s) <=> s = Head(t)
  BY <1>10, <1>13 DEF Does
<1>16. GoodOp(n, auths) /\ ~Does(n, "repick")
  BY <1>5, <1>10, <1>13, <1>14, <1>15 DEF GoodOp, UsesHeld
<1>17. ASSUME NEW a \in Auths, Pub(o, a) PROVE \A version : Carries(n, a, version) /\ Pub(n, a)
  BY <1>12, <1>13, <1>16, <1>17, CarriesCases DEF Carries, Pub, GoodOp
<1>18. \A a \in Auths : /\ Carries(o, a, Version(auths, a)) => Carries(n, a, Version(auths, a))
                        /\ Pub(o, a) => Pub(n, a)
  <2> TAKE a \in Auths
  <2>1. PICK version : version = Version(auths, a)
    OBVIOUS
  <2> QED
    BY <1>5, <1>17, <2>1, CarriesCases
<1>19. FrameOK' /\ UNCHANGED supported /\ UNCHANGED now
  BY <1>2, FrameKept, TypeFacts DEF registry, environment, ManagerInv, TypeParts, FrameOK
<1> QED
  BY <1>1, <1>2, <1>9, <1>16, <1>18, <1>19, LocalStep

LEMMA RefreshLast ==
  ASSUME NEW map, NEW o, GoodOp(o, map), Does(o, "refresh")
  PROVE  \A a : ~Pub(o, a)
PROOF
<1> SUFFICES ASSUME NEW a, Pub(o, a) PROVE FALSE
  OBVIOUS
<1>1. o \in OpRecords /\ o.todo \in Seq(Steps) /\ o.todo # <<>> /\ Head(o.todo) = "refresh"
  BY DEF GoodOp, OpRecords, Does
<1>2. PICK i \in 2..Len(o.todo) : o.todo[i] \in Publishes
  BY <1>1, PubCases DEF Publishes
<1>3. Tail(o.todo) # <<>>
  BY <1>1, <1>2, TailFacts
<1>4. "refresh" \in Before(Head(Tail(o.todo)))
  BY <1>1, <1>3, RestProgram DEF GoodOp
<1> QED
  BY <1>4 DEF Before

LEMMA TokenCanceled ==
  ASSUME ManagerInv, NEW p \in Procs, TokenRefreshCanceled(p)
  PROVE  ManagerInv'
PROOF
<1>1. /\ UNCHANGED <<auths, sched, shards, registry, environment, started, marked, shown>>
      /\ Doing(p, "refresh") /\ op' = [op EXCEPT ![p] = IdleOp]
  BY DEF TokenRefreshCanceled
<1>2. \A a : ~Pub(op[p], a)
  BY <1>1, OwnFacts, RefreshLast
<1>3. FrameOK' /\ UNCHANGED supported /\ UNCHANGED now
  BY <1>1, FrameKept, TypeFacts DEF registry, environment, ManagerInv, TypeParts, FrameOK
<1> QED
  BY <1>1, <1>2, <1>3, EndStep

LEMMA TokenAnswered ==
  ASSUME ManagerInv, NEW p \in Procs, TokenRefreshed(p)
  PROVE  ManagerInv'
PROOF
<1>1. PICK o : o = op[p]
  OBVIOUS
<1>2. /\ UNCHANGED <<auths, sched, shards, registry, environment, started, marked, shown>>
      /\ Doing(p, "refresh")
  BY DEF TokenRefreshed
<1>3. PICK step \in Steps : step = "refresh"
  BY DEF Steps
<1>4. /\ o.todo # <<>> /\ ~o.shared /\ o.auth \in Auths /\ auths[o.auth] # NoAuth
      /\ o.held \in Auth /\ Sound(o.held)
  BY <1>1, <1>2, <1>3, DoingFacts DEF OfKnown, UsesHeld
<1>5. GoodOp(o, auths) /\ o \in OpRecords
  BY <1>1, OwnFacts
<1>6. PICK held : held = [o.held EXCEPT !.error = "none"]
  OBVIOUS
<1>7. held \in Auth /\ held.states = o.held.states /\ held.next = o.held.next
  BY <1>4, <1>6 DEF Auth
<1>8. Sound(held) /\ held # NoAuth
  BY <1>4, <1>7, NoAuthFacts DEF Sound, AggregateOK
<1>9. PICK t : t = <<"store", "upsert">>
  OBVIOUS
<1>10. PICK n : n = [o EXCEPT !.held = held, !.todo = t]
  OBVIOUS
<1>11. op' = [op EXCEPT ![p] = n]
  <2>1. op' = [op EXCEPT ![p] = [o EXCEPT !.held.error = "none", !.todo = t]]
    BY <1>1, <1>9 DEF TokenRefreshed
  <2>2. [o EXCEPT !.held.error = "none", !.todo = t] = n
    BY <1>5, <1>6, <1>10 DEF OpRecords
  <2> QED
    BY <2>1, <2>2
<1>12. Program(t) /\ t # <<>> /\ Head(t) = "store" /\ t \in Seq(Steps) /\ 2 \in 2..Len(t)
       /\ t[2] \in Publishes
  BY <1>9, Literals DEF Program, Publishes
<1>13. /\ n \in OpRecords /\ n.todo = t /\ n.auth = o.auth /\ n.held = held /\ ~n.shared
       /\ n.all = o.all
  BY <1>4, <1>5, <1>7, <1>10, <1>12 DEF OpRecords
<1>14. Fits(n, auths)
  <2>1. \A i \in 1..Len(t) : t[i] \in {"store", "upsert"}
    BY <1>9
  <2> QED
    BY <1>4, <1>13, <2>1 DEF Fits, Picking, OfModel, OfKnown
<1>15. \A s : Does(n, s) <=> s = "store"
  BY <1>12, <1>13 DEF Does
<1>16. GoodOp(n, auths) /\ ~Does(n, "repick")
  BY <1>4, <1>5, <1>8, <1>12, <1>13, <1>14, <1>15 DEF GoodOp, UsesHeld, KnownIn
<1>17. \A a \in Auths : ~Pub(o, a) /\ ~Carries(o, a, Version(auths, a))
  <2> TAKE a \in Auths
  <2>1. PICK version : version = Version(auths, a)
    OBVIOUS
  <2> QED
    BY <1>1, <1>2, <1>5, <2>1, OwnFacts, RefreshLast, CarriesCases
<1>18. FrameOK' /\ UNCHANGED supported /\ UNCHANGED now
  BY <1>2, FrameKept, TypeFacts DEF registry, environment, ManagerInv, TypeParts, FrameOK
<1> QED
  BY <1>1, <1>2, <1>11, <1>16, <1>17, <1>18, LocalStep

-----------------------------------------------------------------------------
(***************************************************************************)
(* The registry's bindings.                                                *)
(***************************************************************************)
LEMMA Binds ==
  ASSUME ManagerInv, NEW p \in Procs, NEW step \in {"register", "unregister"}, Doing(p, step),
         NEW models \in SUBSET Models, Bind(op[p].auth, models),
         op' = [op EXCEPT ![p] = Proceed(Rest(p), op[p])],
         UNCHANGED <<auths, sched, shards, environment, started, marked, shown>>
  PROVE  ManagerInv'
PROOF
<1>1. PICK o : o = op[p]
  OBVIOUS
<1>2. step \in Steps /\ step \notin Picking
  BY DEF Steps, Picking
<1>3. o.auth \in Auths /\ o.todo # <<>> /\ Head(o.todo) = step
  BY <1>1, <1>2, DoingFacts
<1>4. GoodOp(o, auths) /\ o \in OpRecords
  BY <1>1, OwnFacts
<1>5. PICK n : /\ n = Proceed(Rest(p), op[p]) /\ GoodOp(n, auths) /\ ~Does(n, "repick")
               /\ \A a \in Auths :
                    /\ Carries(op[p], a, Version(auths, a)) => Carries(n, a, Version(auths, a))
                    /\ Pub(op[p], a) => Pub(n, a)
  BY ProceedFacts
<1>6. supported \in [Auths -> SUBSET Models] /\ supported' = [supported EXCEPT ![o.auth] = models]
  BY <1>1, TypeFacts DEF ManagerInv, TypeParts, FrameOK, Bind
<1>7. supported' \in [Auths -> SUBSET Models]
  BY <1>6
<1>8. \A a \in Auths : supported'[a] # supported[a] => a = o.auth
  BY <1>6
<1>9. Pub(o, o.auth)
  <2>1. Len(o.todo) \in DOMAIN o.todo /\ 1 \in 1..Len(o.todo) /\ o.todo[1] = step
    BY <1>3, <1>4, DoesFacts, TailFacts DEF OpRecords
  <2>2. o.todo[Len(o.todo)] \in Publishes
    BY <1>4, <2>1 DEF GoodOp, Program, Ends, Changes
  <2> QED
    BY <2>1, <2>2 DEF Pub
<1>10. Pub(n, o.auth)
  BY <1>1, <1>3, <1>5, <1>9
<1>11. suspended' \subseteq suspended /\ exceeded' \subseteq exceeded
  BY DEF Bind
<1>12. FrameOK'
  BY <1>7, <1>11, TypeFacts DEF ManagerInv, TypeParts, FrameOK, ScopeInv, environment
<1>13. sched' \in [Auths -> SchedRecords] /\ shards' \subseteq Models
  BY TypeFacts DEF ManagerInv, TypeParts
<1>14. EntriesKept /\ AgreementsKept
  BY DEF EntriesKept, AgreementsKept, environment
<1>15. \A a \in Auths : supported'[a] # supported[a] => Pub(n, a)
  BY <1>8, <1>10
<1> QED
  BY <1>5, <1>12, <1>13, <1>14, <1>15, OwnStep DEF environment

LEMMA Registrations ==
  ASSUME ManagerInv, NEW p \in Procs, Register(p) \/ Unregister(p)
  PROVE  ManagerInv'
PROOF
<1>1. CASE Register(p)
  <2>1. PICK models \in SUBSET Models : models = catalog
    BY TypeFacts DEF ManagerInv, TypeParts, FrameOK
  <2> QED
    BY <1>1, <2>1, Binds DEF Register
<1>2. CASE Unregister(p)
  <2>1. PICK models \in SUBSET Models : models = {}
    OBVIOUS
  <2> QED
    BY <1>2, <2>1, Binds DEF Unregister
<1> QED
  BY <1>1, <1>2

-----------------------------------------------------------------------------
(***************************************************************************)
(* Picking: the index of a model is built or promoted.                     *)
(***************************************************************************)
LEMMA PromotedFacts ==
  ASSUME ManagerInv, NEW m \in Models, NEW a \in Auths,
         NEW e, e = Promoted(m)[a]
  PROVE  /\ e \in SchedRecords
         /\ e.auth = sched[a].auth /\ e.models = sched[a].models /\ e.shared = sched[a].shared
         /\ \A n \in Models \ {m} : e.until[n] = sched[a].until[n]
         /\ IF /\ sched[a].auth # NoAuth /\ m \in sched[a].models
               /\ m \in shards => sched[a].until[m] # ZeroTime /\ sched[a].until[m] <= now
              THEN e.until[m] = Until(sched[a].auth, m, now)
              ELSE e.until[m] = sched[a].until[m]
PROOF
<1>1. PICK s \in SchedRecords : s = sched[a]
  BY TypeFacts DEF ManagerInv, TypeParts
<1>2. now \in Nat
  BY TypeFacts DEF ManagerInv, TypeParts
<1>3. PICK due \in BOOLEAN :
        due <=> /\ s.auth # NoAuth /\ m \in s.models
                /\ m \in shards => s.until[m] # ZeroTime /\ s.until[m] <= now
  OBVIOUS
<1>4. e = IF due THEN [s EXCEPT !.until[m] = Until(s.auth, m, now)] ELSE s
  BY <1>1, <1>3 DEF Promoted, Scheduled
<1>5. CASE ~due
  <2>1. e = s
    BY <1>4, <1>5
  <2> QED
    BY <1>1, <1>3, <1>5, <2>1
<1>6. CASE due
  <2>1. PICK u : u = Until(s.auth, m, now)
    OBVIOUS
  <2>2. s.auth \in Auth
    BY <1>3, <1>6 DEF SchedRecords
  <2>3. s.auth.states[m].next \in Nat /\ s.auth.states[m].quota.recover \in Nat
    BY <2>2 DEF Auth, ModelState, Quota
  <2>4. u \in Nat
    BY <2>1, <2>3 DEF Until, BlockedUntil, ZeroTime
  <2>5. e = [s EXCEPT !.until[m] = u]
    BY <1>4, <1>6, <2>1
  <2>6. /\ e \in SchedRecords /\ e.auth = s.auth /\ e.models = s.models /\ e.shared = s.shared
        /\ e.until = [s.until EXCEPT ![m] = u]
    BY <2>4, <2>5 DEF SchedRecords
  <2>7. s.until \in [Models -> Nat]
    BY DEF SchedRecords
  <2>8. e.until[m] = u /\ \A n \in Models \ {m} : e.until[n] = s.until[n]
    BY <2>6, <2>7
  <2> QED
    BY <1>1, <1>3, <1>6, <2>1, <2>6, <2>8
<1> QED
  BY <1>5, <1>6

LEMMA IndexedFacts ==
  ASSUME ManagerInv, NEW m \in Models, Indexed(m), UNCHANGED now
  PROVE  /\ sched' \in [Auths -> SchedRecords] /\ shards' \subseteq Models
         /\ EntriesKept /\ AgreementsKept
PROOF
<1>1. sched' = Promoted(m)
  BY DEF Indexed
<1>2. \A a \in Auths : sched'[a] \in SchedRecords
  <2> TAKE a \in Auths
  <2>1. PICK e : e = Promoted(m)[a]
    OBVIOUS
  <2> QED
    BY <1>1, <2>1, PromotedFacts
<1>3. sched' \in [Auths -> SchedRecords]
  <2>1. PICK f : f = Promoted(m)
    OBVIOUS
  <2>2. f = [a \in Auths |-> f[a]]
    BY <2>1 DEF Promoted
  <2> QED
    BY <1>1, <1>2, <2>1, <2>2
<1>4. shards' \subseteq Models /\ shards' \subseteq shards \cup {m}
  BY TypeFacts DEF ManagerInv, TypeParts, Indexed, Shards
<1>5. EntriesKept
  <2> SUFFICES ASSUME NEW a \in Auths
               PROVE  /\ sched'[a].auth = sched[a].auth /\ sched'[a].models = sched[a].models
                      /\ sched'[a].shared = sched[a].shared
    BY DEF EntriesKept
  <2>1. PICK e : e = Promoted(m)[a]
    OBVIOUS
  <2> QED
    BY <1>1, <2>1, PromotedFacts
<1>6. AgreementsKept
  <2> SUFFICES ASSUME NEW a \in Auths, NEW auth \in Auth \cup {NoAuth},
                      auth # NoAuth => Sound(auth),
                      Agrees(sched[a], auth, shards, now)
               PROVE  Agrees(sched'[a], auth, shards', now')
    BY DEF AgreementsKept
  <2>1. PICK e : e = Promoted(m)[a]
    OBVIOUS
  <2>2. /\ sched'[a] = e /\ e.auth = sched[a].auth /\ e.models = sched[a].models
        /\ \A n \in Models \ {m} : e.until[n] = sched[a].until[n]
        /\ IF /\ sched[a].auth # NoAuth /\ m \in sched[a].models
              /\ m \in shards => sched[a].until[m] # ZeroTime /\ sched[a].until[m] <= now
             THEN e.until[m] = Until(sched[a].auth, m, now)
             ELSE e.until[m] = sched[a].until[m]
    BY <1>1, <2>1, PromotedFacts
  <2>3. CASE auth = NoAuth \/ auth.disabled
    BY <2>2, <2>3 DEF Agrees
  <2>4. CASE ~(auth = NoAuth \/ auth.disabled)
    <3>1. auth \in Auth /\ Sound(auth) /\ auth # NoAuth /\ sched[a].auth = auth
      BY <2>4 DEF Agrees
    <3>2. ASSUME NEW n \in shards' \cap e.models PROVE UntilOK(e.until[n], auth, n, now)
      <4>1. n \in Models
        BY <1>4
      <4>2. CASE n # m
        <5>1. n \in shards \cap sched[a].models
          BY <1>4, <2>2, <4>2
        <5>2. UntilOK(sched[a].until[n], auth, n, now)
          BY <2>4, <5>1 DEF Agrees
        <5> QED
          BY <2>2, <4>1, <4>2, <5>2
      <4>3. CASE n = m /\ e.until[m] = Until(auth, m, now)
        <5>1. now \in Nat
          BY TypeFacts DEF ManagerInv, TypeParts
        <5> QED
          BY <3>1, <4>3, <5>1, UntilFacts
      <4>4. CASE n = m /\ e.until[m] # Until(auth, m, now)
        <5>1. m \in shards /\ m \in sched[a].models /\ e.until[m] = sched[a].until[m]
          BY <2>2, <3>1, <3>2, <4>4
        <5>2. UntilOK(sched[a].until[m], auth, m, now)
          BY <2>4, <5>1 DEF Agrees
        <5> QED
          BY <4>4, <5>1, <5>2
      <4> QED
        BY <4>2, <4>3, <4>4
    <3> QED
      BY <2>2, <2>4, <3>1, <3>2 DEF Agrees
  <2> QED
    BY <2>3, <2>4
<1> QED
  BY <1>3, <1>4, <1>5, <1>6

LEMMA PickSteps ==
  ASSUME ManagerInv, NEW p \in Procs, Pick(p) \/ PickMiss(p) \/ Refuse(p)
  PROVE  ManagerInv'
PROOF
<1>1. PICK step \in {"pick", "repick"} : Doing(p, step)
  BY DEF Pick, PickMiss, Refuse
<1>2. step \in Steps /\ step \in Picking /\ step \in OfModel /\ step # "upsert"
  BY DEF Steps, Picking, OfModel
<1>3. op[p].auth = NoAuth /\ op[p].model \in Models /\ op[p].todo # <<>> /\ ~op[p].shared
  BY <1>1, <1>2, DoingFacts
<1>4. /\ Indexed(op[p].model) /\ UNCHANGED <<auths, registry, environment, started, marked, shown>>
  BY DEF Pick, PickMiss, Refuse, Picked
<1>5. PICK m \in Models : m = op[p].model
  BY <1>3
<1>6. /\ sched' \in [Auths -> SchedRecords] /\ shards' \subseteq Models
      /\ EntriesKept /\ AgreementsKept
  BY <1>4, <1>5, IndexedFacts DEF environment
<1>7. FrameOK'
  BY <1>4, FrameKept, TypeFacts DEF ManagerInv, TypeParts, FrameOK
<1>8. GoodOp(op[p], auths) /\ op[p] \in OpRecords
  BY OwnFacts
<1>9. \A a \in Auths : ~Pub(op[p], a) /\ \A version : ~Carries(op[p], a, version)
  BY <1>3, NoAuthFacts DEF Pub, Carries
<1>10. \E n : GoodOp(n, auths) /\ ~Does(n, "repick") /\ op' = [op EXCEPT ![p] = n]
  <2>1. CASE Pick(p)
    <3>1. PICK a \in Ready(Promoted(m), m) :
            op' = [op EXCEPT ![p] = [IdleOp EXCEPT !.auth = a, !.model = m, !.todo = <<"mark">>]]
      BY <1>5, <2>1 DEF Pick, Picked
    <3>2. a \in Auths /\ Promoted(m)[a].auth # NoAuth
      BY <3>1 DEF Ready
    <3>3. PICK e : e = Promoted(m)[a]
      OBVIOUS
    <3>4. sched[a].auth # NoAuth
      BY <3>2, <3>3, PromotedFacts
    <3>5. a \in KnownIn(auths)
      BY <3>2, <3>4 DEF ManagerInv, SchedInv, Scheduled, Known, KnownIn
    <3>6. PICK t : t = <<"mark">>
      OBVIOUS
    <3>7. Program(t) /\ t # <<>> /\ Head(t) = "mark"
      BY <3>6, Literals
    <3>8. PICK n : n = [IdleOp EXCEPT !.auth = a, !.model = m, !.todo = t]
      OBVIOUS
    <3>9. n.todo = t /\ n.auth = a /\ n.model = m
      BY <3>8 DEF IdleOp
    <3>10. Fits(n, auths)
      <4>1. \A i \in 1..Len(t) : t[i] = "mark"
        BY <3>6
      <4> QED
        BY <3>2, <3>5, <3>9, <4>1 DEF Fits, Picking, OfModel, OfKnown
    <3>11. GoodOp(n, auths) /\ ~Does(n, "repick")
      <4>1. Head(t) \notin UsesHeld
        BY <3>7 DEF UsesHeld
      <4>2. a \in Auths \cup {NoAuth} /\ m \in Models \cup {NoAuth}
        BY <3>2
      <4>3. GoodOp(n, auths)
        BY <3>7, <3>8, <3>10, <4>1, <4>2, StartGood
      <4> QED
        BY <3>7, <3>9, <4>3 DEF Does
    <3> QED
      BY <3>1, <3>6, <3>8, <3>11
  <2>2. CASE PickMiss(p)
    <3>1. PICK t : t = <<"snapshot", "rebuild", "repick">>
      OBVIOUS
    <3>2. Program(t) /\ t # <<>> /\ Head(t) = "snapshot" /\ t \in Seq(Steps)
      BY <3>1, Literals DEF Program
    <3>3. PICK n : n = [op[p] EXCEPT !.todo = t]
      OBVIOUS
    <3>4. op' = [op EXCEPT ![p] = n]
      BY <2>2, <3>1, <3>3, OwnFacts DEF PickMiss
    <3>5. /\ n \in OpRecords /\ n.todo = t /\ n.auth = op[p].auth /\ n.model = op[p].model
          /\ n.held = op[p].held /\ ~n.shared /\ n.all = op[p].all
      BY <1>3, <1>8, <3>2, <3>3 DEF OpRecords
    <3>6. Fits(n, auths)
      <4>1. \A i \in 1..Len(t) : t[i] \in {"snapshot", "rebuild", "repick"}
        BY <3>1
      <4> QED
        BY <1>3, <3>5, <4>1 DEF Fits, Picking, OfModel, OfKnown
    <3>7. \A s : Does(n, s) <=> s = "snapshot"
      BY <3>2, <3>5 DEF Does
    <3>8. GoodOp(n, auths) /\ ~Does(n, "repick")
      BY <1>8, <3>2, <3>5, <3>6, <3>7 DEF GoodOp, UsesHeld
    <3> QED
      BY <3>4, <3>8
  <2>3. CASE Refuse(p)
    <3>1. PICK n : n = IdleOp
      OBVIOUS
    <3>2. GoodOp(n, auths) /\ ~Does(n, "repick")
      BY <3>1, IdleGood DEF Does, IdleOp
    <3> QED
      BY <2>3, <3>1, <3>2 DEF Refuse
  <2> QED
    BY <2>1, <2>2, <2>3
<1>11. UNCHANGED supported /\ UNCHANGED now
  BY <1>4 DEF registry, environment
<1>12. PICK n : GoodOp(n, auths) /\ ~Does(n, "repick") /\ op' = [op EXCEPT ![p] = n]
  BY <1>10
<1>13. \A a \in Auths : ~Pub(op[p], a) /\ ~Carries(op[p], a, Version(auths, a))
  <2> TAKE a \in Auths
  <2>1. PICK version : version = Version(auths, a)
    OBVIOUS
  <2> QED
    BY <1>9, <2>1
<1> QED
  BY <1>4, <1>6, <1>7, <1>11, <1>12, <1>13, OwnStep

-----------------------------------------------------------------------------
(***************************************************************************)
(* A new version of a credential is stored.                                *)
(***************************************************************************)
Grows(map, grown, a, new) ==
  /\ grown \in [Auths -> Auth \cup {NoAuth}] /\ grown[a] = new /\ new # NoAuth
  /\ \A b \in Auths \ {a} : grown[b] = map[b] /\ Version(grown, b) = Version(map, b)
  /\ KnownIn(grown) = KnownIn(map) \cup {a}
  /\ Version(grown, a) = new.version /\ new.version \in Nat
  /\ \A b \in Auths : Version(map, b) \in Nat
  /\ Was(grown, a, new)
  /\ \A b \in Auths, auth \in Auth : Was(map, b, auth) => Was(grown, b, auth)

LEMMA GrownFacts ==
  ASSUME NEW map \in [Auths -> Auth \cup {NoAuth}], NEW a \in Auths, NEW new \in Auth,
         new.version > Version(map, a), NEW grown, grown = [map EXCEPT ![a] = new]
  PROVE  Grows(map, grown, a, new)
PROOF
<1>1. new # NoAuth /\ new.version \in Nat
  BY NoAuthFacts DEF Auth
<1>2. grown \in [Auths -> Auth \cup {NoAuth}] /\ grown[a] = new
      /\ \A b \in Auths \ {a} : grown[b] = map[b]
  OBVIOUS
<1>3. KnownIn(grown) = KnownIn(map) \cup {a}
  BY <1>1, <1>2 DEF KnownIn
<1>4. \A b \in Auths \ {a} : Version(grown, b) = Version(map, b)
  BY <1>2 DEF Version
<1>5. Version(grown, a) = new.version
  BY <1>1, <1>2 DEF Version
<1>6. \A b \in Auths : Version(map, b) \in Nat
  BY DEF Version, Auth
<1>7. Was(grown, a, new)
  BY <1>1, <1>2, <1>5 DEF Was
<1>8. ASSUME NEW b \in Auths, NEW auth \in Auth, Was(map, b, auth) PROVE Was(grown, b, auth)
  <2>1. CASE b = a
    <3>1. auth.version \in Nat /\ auth.version <= Version(map, a)
      BY <1>8, <2>1 DEF Was, Auth
    <3> QED
      BY <1>1, <1>5, <1>6, <2>1, <3>1 DEF Was
  <2>2. CASE b # a
    BY <1>2, <1>4, <1>8, <2>2 DEF Was
  <2> QED
    BY <2>1, <2>2
<1> QED
  BY <1>1, <1>2, <1>3, <1>4, <1>5, <1>6, <1>7, <1>8 DEF Grows

LEMMA GrownGood ==
  ASSUME NEW map \in [Auths -> Auth \cup {NoAuth}], NEW a \in Auths, NEW new \in Auth,
         new.version > Version(map, a), NEW grown, grown = [map EXCEPT ![a] = new],
         NEW o, GoodOp(o, map)
  PROVE  GoodOp(o, grown)
PROOF
<1>1. /\ KnownIn(map) \subseteq KnownIn(grown)
      /\ \A b \in Auths, auth \in Auth : Was(map, b, auth) => Was(grown, b, auth)
  <2>1. Grows(map, grown, a, new)
    BY GrownFacts
  <2> QED
    BY <2>1 DEF Grows
<1>2. o \in OpRecords /\ Fits(o, map)
  BY DEF GoodOp
<1>3. Fits(o, grown)
  BY <1>1, <1>2 DEF Fits
<1>4. Does(o, "upsert") => o.auth \in KnownIn(grown) /\ Was(grown, o.auth, o.held)
  <2> SUFFICES ASSUME Does(o, "upsert")
               PROVE  o.auth \in KnownIn(grown) /\ Was(grown, o.auth, o.held)
    OBVIOUS
  <2>1. o.auth \in KnownIn(map) /\ Was(map, o.auth, o.held) /\ o.held # NoAuth
    BY DEF GoodOp, UsesHeld
  <2>2. o.held \in Auth /\ o.auth \in Auths
    BY <1>2, <2>1 DEF OpRecords, KnownIn
  <2> QED
    BY <1>1, <2>1, <2>2
<1>5. ASSUME NEW b \in Auths, o.all[b] # NoAuth
      PROVE  b \in KnownIn(grown) /\ Sound(o.all[b]) /\ Was(grown, b, o.all[b])
  <2>1. b \in KnownIn(map) /\ Sound(o.all[b]) /\ Was(map, b, o.all[b])
    BY <1>5 DEF GoodOp
  <2>2. o.all[b] \in Auth
    BY <1>2, <1>5 DEF OpRecords
  <2> QED
    BY <1>1, <2>1, <2>2
<1>6. Does(o, "store") => o.auth \in KnownIn(grown) \/ o.held.results = 0
  BY <1>1 DEF GoodOp
<1> QED
  BY <1>3, <1>4, <1>5, <1>6 DEF GoodOp

\* A reference to the object that was changed in place shows the change.
LEMMA SeenGood ==
  ASSUME NEW map \in [Auths -> Auth \cup {NoAuth}], NEW a \in Auths, NEW new \in Auth, Sound(new),
         new.version > Version(map, a), NEW grown, grown = [map EXCEPT ![a] = new],
         NEW o, GoodOp(o, map), o.shared, o.auth = a, NEW n, n = [o EXCEPT !.held = new]
  PROVE  GoodOp(n, grown)
PROOF
<1>1. GoodOp(o, grown)
  BY GrownGood
<1>2. /\ Was(grown, a, new) /\ new # NoAuth /\ KnownIn(grown) = KnownIn(map) \cup {a}
  <2>1. Grows(map, grown, a, new)
    BY GrownFacts
  <2> QED
    BY <2>1 DEF Grows
<1>3. /\ n \in OpRecords /\ n.held = new /\ n.todo = o.todo /\ n.auth = o.auth /\ n.all = o.all
      /\ n.model = o.model
  BY DEF GoodOp, OpRecords
<1>4. \A step : Does(n, step) <=> Does(o, step)
  BY <1>3 DEF Does
<1>5. Does(o, "upsert")
  BY DEF GoodOp
<1>6. Fits(n, grown)
  BY <1>1, <1>3 DEF GoodOp, Fits
<1>7. ~Does(n, "store")
  BY <1>4, <1>5 DEF Does
<1> QED
  BY <1>1, <1>2, <1>3, <1>4, <1>5, <1>6, <1>7 DEF GoodOp

\* How another goroutine's record follows the change.
Follows(o, n, a, new) ==
  /\ n.todo = o.todo /\ n.auth = o.auth /\ n.all = o.all /\ n.contested = o.contested
  /\ n.held = o.held \/ (n.auth = a /\ n.held = new)

LEMMA FollowsFacts ==
  ASSUME NEW o, NEW n, NEW a, NEW new, Follows(o, n, a, new)
  PROVE  /\ \A step : Does(n, step) <=> Does(o, step)
         /\ \A b : Pub(n, b) <=> Pub(o, b)
         /\ \A b, version : b # a /\ Carries(o, b, version) => Carries(n, b, version)
PROOF
<1>1. \A step : Does(n, step) <=> Does(o, step)
  BY DEF Follows, Does
<1>2. \A b : Pub(n, b) <=> Pub(o, b)
  BY DEF Follows, Pub
<1>3. \A b, version : b # a /\ Carries(o, b, version) => Carries(n, b, version)
  BY <1>1 DEF Follows, Carries
<1> QED
  BY <1>1, <1>2, <1>3

\* The scheduler's entry of a changes only by following the stored object.
EntryFollows(a) ==
  /\ sched' \in [Auths -> SchedRecords]
  /\ \A b \in Auths : sched'[b].models = sched[b].models
  /\ \A b \in Auths \ {a} : sched'[b] = sched[b]
  /\ ~sched[a].shared => /\ sched'[a].auth = sched[a].auth /\ sched'[a].until = sched[a].until
                         /\ ~sched'[a].shared

LEMMA ChangeStep ==
  ASSUME ManagerInv, NEW p \in Procs, NEW a \in Auths, op[p].auth = a,
         NEW new \in Auth, Sound(new), new.version > Version(auths, a),
         auths' = [auths EXCEPT ![a] = new], EntryFollows(a),
         marked' \in [Auths -> Nat], marked'[a] = new.results,
         \A b \in Auths \ {a} : marked'[b] = marked[b],
         NEW n, GoodOp(n, auths'), Does(n, "upsert"), n.auth = a, n.held = new,
         op' \in [Procs -> OpRecords], op'[p] = n,
         \A q \in Procs \ {p} : Follows(op[q], op'[q], a, new) /\ GoodOp(op'[q], auths'),
         UNCHANGED <<shards, supported, now, shown>>, FrameOK'
  PROVE  ManagerInv'
PROOF
<1>1. TypeParts
  BY TypeFacts DEF ManagerInv
<1>2. Grows(auths, auths', a, new)
  BY <1>1, GrownFacts DEF TypeParts
<1>3. TypeOK' /\ ScopeInv'
  BY <1>1, <1>2, TypeFacts DEF TypeParts, Grows, EntryFollows
<1>4. OpsInv'
  <2>1. \A q \in Procs : GoodOp(op'[q], auths')
    OBVIOUS
  <2> QED
    BY <2>1 DEF OpsInv
<1>5. StoredInv'
  <2>1. ASSUME NEW b \in Auths
        PROVE  /\ auths'[b] # NoAuth => Sound(auths'[b]) /\ auths'[b].version > 0
               /\ marked'[b] = IF auths'[b] # NoAuth THEN auths'[b].results ELSE 0
    <3>1. CASE b = a
      <4>1. auths'[a] = new /\ new # NoAuth /\ Version(auths, a) \in Nat /\ new.version \in Nat
        BY <1>2 DEF Grows
      <4> QED
        BY <3>1, <4>1
    <3>2. CASE b # a
      BY <1>2, <3>2 DEF ManagerInv, StoredInv, Known, Grows
    <3> QED
      BY <3>1, <3>2
  <2> QED
    BY <2>1 DEF StoredInv, Known
<1>6. Pub(n, a) /\ \A version : version = new.version => Carries(n, a, version)
  <2>1. Carries(n, a, new.version)
    BY DEF Carries
  <2>2. n \in OpRecords
    BY DEF GoodOp
  <2>3. PICK version : version = new.version
    OBVIOUS
  <2> QED
    BY <2>1, <2>2, <2>3, CarriesCases
<1>7. ASSUME NEW q \in Procs, NEW b \in Auths \ {a}
      PROVE  /\ Pub(op[q], b) => Pub(op'[q], b)
             /\ \A version : Carries(op[q], b, version) => Carries(op'[q], b, version)
  <2>1. CASE q = p
    BY <2>1 DEF Pub, Carries
  <2>2. CASE q # p
    <3>1. PICK o : o = op[q]
      OBVIOUS
    <3>2. PICK m : m = op'[q]
      OBVIOUS
    <3>3. Follows(o, m, a, new)
      BY <2>2, <3>1, <3>2
    <3> QED
      BY <3>1, <3>2, <3>3, FollowsFacts
  <2> QED
    BY <2>1, <2>2
<1>8. ShownInv'
  <2>1. ASSUME NEW b \in Auths
        PROVE  /\ shown'[b].last <= shown'[b].newest
               /\ shown'[b].newest <= Version(auths', b)
               /\ shown'[b].newest < Version(auths', b) =>
                    \E q \in Procs : Carries(op'[q], b, Version(auths', b))
    <3>1. shown'[b].last <= shown'[b].newest /\ shown'[b].newest <= Version(auths, b)
          /\ shown'[b].newest \in Nat
      BY <1>1 DEF ManagerInv, ShownInv, TypeParts
    <3>2. CASE b = a
      <4>1. Version(auths', a) = new.version /\ new.version \in Nat /\ Version(auths, a) \in Nat
        BY <1>2 DEF Grows
      <4>2. PICK version : version = Version(auths', a)
        OBVIOUS
      <4>3. Carries(n, a, version)
        BY <1>6, <4>1, <4>2
      <4>4. \E q \in Procs : Carries(op'[q], a, version)
        BY <4>3
      <4>5. shown'[a].newest <= version
        BY <3>1, <3>2, <4>1, <4>2
      <4> QED
        BY <3>1, <3>2, <4>2, <4>4, <4>5
    <3>3. CASE b # a
      <4>1. Version(auths', b) = Version(auths, b)
        BY <1>2, <3>3 DEF Grows
      <4>2. ASSUME shown'[b].newest < Version(auths, b)
            PROVE  \E q \in Procs : Carries(op'[q], b, Version(auths, b))
        <5>1. PICK q \in Procs : Carries(op[q], b, Version(auths, b))
          BY <4>2 DEF ManagerInv, ShownInv
        <5>2. PICK version : version = Version(auths, b)
          OBVIOUS
        <5> QED
          BY <1>7, <3>3, <5>1, <5>2
      <4> QED
        BY <3>1, <4>1, <4>2
    <3> QED
      BY <3>2, <3>3
  <2> QED
    BY <2>1 DEF ShownInv
<1>9. SchedInv'
  <2>1. ASSUME NEW b \in Auths, sched'[b].auth # NoAuth PROVE auths'[b] # NoAuth
    <3>1. CASE b = a
      BY <1>2, <3>1 DEF Grows
    <3>2. CASE b # a
      BY <1>2, <2>1, <3>2 DEF Grows, EntryFollows, ManagerInv, SchedInv, Scheduled, Known
    <3> QED
      BY <3>1, <3>2
  <2>2. ASSUME NEW b \in Auths, shown'[b].last = Version(auths', b)
        PROVE  Agrees(sched'[b], auths'[b], shards', now')
    <3>1. b # a
      <4>1. /\ shown[a].last <= shown[a].newest /\ shown[a].newest <= Version(auths, a)
            /\ shown[a].last \in Nat /\ shown[a].newest \in Nat
        BY <1>1 DEF ManagerInv, ShownInv, TypeParts
      <4>2. Version(auths', a) = new.version /\ new.version \in Nat /\ Version(auths, a) \in Nat
        BY <1>2 DEF Grows
      <4> QED
        BY <2>2, <4>1, <4>2
    <3>2. auths'[b] = auths[b] /\ Version(auths', b) = Version(auths, b) /\ sched'[b] = sched[b]
      BY <1>2, <3>1 DEF Grows, EntryFollows
    <3> QED
      BY <2>2, <3>2 DEF ManagerInv, SchedInv
  <2>3. ASSUME NEW b \in Auths, sched'[b].auth # NoAuth, sched'[b].models # supported'[b]
        PROVE  \E q \in Procs : Pub(op'[q], b)
    <3>1. CASE b = a
      BY <1>6, <3>1
    <3>2. CASE b # a
      <4>1. PICK q \in Procs : Pub(op[q], b)
        BY <2>3, <3>2 DEF EntryFollows, ManagerInv, SchedInv, Scheduled
      <4> QED
        BY <1>7, <3>2, <4>1
    <3> QED
      BY <3>1, <3>2
  <2>4. ASSUME NEW q \in Procs, Does(op'[q], "repick"), NEW b \in Auths \ op'[q].contested
        PROVE  Agrees(sched'[b], op'[q].all[b], shards', now') /\ ~sched'[b].shared
    <3>1. q # p
      BY <2>4 DEF Does
    <3>2. Follows(op[q], op'[q], a, new)
      BY <3>1
    <3>3. Does(op[q], "repick") /\ op'[q].all = op[q].all /\ op'[q].contested = op[q].contested
      BY <2>4, <3>2 DEF Follows, Does
    <3>4. Agrees(sched[b], op[q].all[b], shards, now) /\ ~sched[b].shared
      BY <2>4, <3>3 DEF ManagerInv, SchedInv
    <3>5. /\ sched'[b].auth = sched[b].auth /\ sched'[b].until = sched[b].until
          /\ ~sched'[b].shared /\ sched'[b].models = sched[b].models
      BY <3>4 DEF EntryFollows
    <3> QED
      BY <3>3, <3>4, <3>5 DEF Agrees
  <2> QED
    BY <2>1, <2>2, <2>3, <2>4 DEF SchedInv, Scheduled, Known
<1> QED
  BY <1>3, <1>4, <1>5, <1>8, <1>9 DEF ManagerInv

LEMMA NextVersionFacts ==
  ASSUME ManagerInv, NEW a \in Auths, NEW auth \in Auth, Sound(auth),
         NEW new, new = NextVersion(a, auth)
  PROVE  /\ new \in Auth /\ Sound(new) /\ new.version > Version(auths, a)
         /\ new.results = auth.results
PROOF
<1>1. PICK v : v = IF Known(a) THEN auths[a].version + 1 ELSE 1
  OBVIOUS
<1>2. v \in Nat /\ v > Version(auths, a)
  <2>1. CASE Known(a)
    <3>1. auths[a].version \in Nat
      BY <2>1, StoredFacts DEF Known
    <3> QED
      BY <1>1, <2>1, <3>1 DEF Version, Known
  <2>2. CASE ~Known(a)
    BY <1>1, <2>2 DEF Version, Known
  <2> QED
    BY <2>1, <2>2
<1>3. new = [auth EXCEPT !.version = v]
  BY <1>1 DEF NextVersion
<1>4. /\ new \in Auth /\ new.version = v /\ new.results = auth.results
      /\ new.states = auth.states /\ new.next = auth.next
  BY <1>2, <1>3 DEF Auth
<1>5. Sound(new)
  BY <1>4 DEF Sound, AggregateOK
<1> QED
  BY <1>2, <1>4, <1>5

LEMMA WriteFacts ==
  ASSUME ManagerInv, NEW a \in Auths, NEW new \in Auth, Write(a, new) \/ Replace(a, new)
  PROVE  auths' = [auths EXCEPT ![a] = new] /\ EntryFollows(a)
PROOF
<1>1. sched \in [Auths -> SchedRecords]
  BY TypeFacts DEF ManagerInv, TypeParts
<1>2. auths' = [auths EXCEPT ![a] = new]
  BY DEF Write, Replace
<1>3. PICK s \in SchedRecords : s = sched[a]
  BY <1>1
<1>4. PICK e : e = IF Write(a, new)
                     THEN [s EXCEPT !.auth = IF s.shared THEN new ELSE s.auth]
                     ELSE [s EXCEPT !.shared = FALSE]
  OBVIOUS
<1>5. sched' = [sched EXCEPT ![a] = e]
  BY <1>1, <1>3, <1>4 DEF Write, Replace, SchedRecords
<1>6. /\ e \in SchedRecords /\ e.models = s.models
      /\ ~s.shared => e.auth = s.auth /\ e.until = s.until /\ ~e.shared
  BY <1>3, <1>4 DEF SchedRecords
<1>7. sched'[a] = e /\ sched' \in [Auths -> SchedRecords]
      /\ \A b \in Auths \ {a} : sched'[b] = sched[b]
  BY <1>1, <1>5, <1>6
<1>8. \A b \in Auths : sched'[b].models = sched[b].models
  <2> TAKE b \in Auths
  <2>1. CASE b = a
    BY <1>3, <1>6, <1>7, <2>1
  <2>2. CASE b # a
    BY <1>7, <2>2
  <2> QED
    BY <2>1, <2>2
<1> QED
  BY <1>2, <1>3, <1>6, <1>7, <1>8 DEF EntryFollows

\* The other goroutines after a change of a.
LEMMA SeesFacts ==
  ASSUME ManagerInv, NEW a \in Auths, NEW new \in Auth, Sound(new),
         new.version > Version(auths, a), NEW grown, grown = [auths EXCEPT ![a] = new],
         NEW q \in Procs, NEW n, n = SeesWrite(q, a, new) \/ n = SeesReplace(q, a)
  PROVE  Follows(op[q], n, a, new) /\ GoodOp(n, grown) /\ n \in OpRecords
PROOF
<1>1. PICK o : o = op[q]
  OBVIOUS
<1>2. GoodOp(o, auths) /\ o \in OpRecords
  BY <1>1, OwnFacts
<1>3. auths \in [Auths -> Auth \cup {NoAuth}]
  BY TypeFacts DEF ManagerInv, TypeParts
<1>4. GoodOp(o, grown)
  BY <1>2, <1>3, GrownGood
<1>5. CASE n = o
  BY <1>1, <1>2, <1>4, <1>5 DEF Follows
<1>6. CASE n = [o EXCEPT !.held = new] /\ o.shared /\ o.auth = a
  <2>1. GoodOp(n, grown)
    BY <1>2, <1>3, <1>6, SeenGood
  <2>2. n.todo = o.todo /\ n.auth = a /\ n.all = o.all /\ n.contested = o.contested /\ n.held = new
    BY <1>2, <1>6 DEF OpRecords
  <2> QED
    BY <1>1, <1>6, <2>1, <2>2 DEF Follows, GoodOp
<1>7. CASE n = [o EXCEPT !.shared = FALSE]
  <2>1. /\ n \in OpRecords /\ n.todo = o.todo /\ n.auth = o.auth /\ n.all = o.all
        /\ n.contested = o.contested /\ n.held = o.held /\ n.model = o.model /\ ~n.shared
    BY <1>2, <1>7 DEF OpRecords
  <2>2. GoodOp(n, grown)
    BY <1>4, <2>1, GoodSame
  <2> QED
    BY <1>1, <2>1, <2>2 DEF Follows
<1> QED
  BY <1>1, <1>5, <1>6, <1>7 DEF SeesWrite, SeesReplace

LEMMA Records ==
  ASSUME ManagerInv, NEW p \in Procs, Doing(p, "mark"),
         NEW result \in Auth, Sound(result), result.results = auths[op[p].auth].results,
         NEW todo, Program(todo), todo # <<>>, Head(todo) = "upsert",
         \A i \in 1..Len(todo) :
           todo[i] \in {"upsert", "clearQuota", "setQuota", "resume", "suspend"},
         Recorded(p, result, todo)
  PROVE  ManagerInv'
PROOF
<1>1. PICK o : o = op[p]
  OBVIOUS
<1>2. PICK a : a = o.auth
  OBVIOUS
<1>3. PICK step \in Steps : step = "mark"
  BY DEF Steps
<1>4. a \in Auths /\ auths[a] # NoAuth /\ o.model \in Models
  BY <1>1, <1>2, <1>3, DoingFacts DEF OfKnown, OfModel
<1>5. GoodOp(o, auths) /\ o \in OpRecords
  BY <1>1, OwnFacts
<1>6. PICK counted : counted = [result EXCEPT !.results = result.results + 1]
  OBVIOUS
<1>7. counted \in Auth /\ Sound(counted) /\ counted.results = result.results + 1
  <2>1. /\ counted \in Auth /\ counted.results = result.results + 1
        /\ counted.states = result.states /\ counted.next = result.next
    BY <1>6 DEF Auth
  <2> QED
    BY <2>1 DEF Sound, AggregateOK
<1>8. PICK new : new = NextVersion(a, counted)
  OBVIOUS
<1>9. /\ new \in Auth /\ Sound(new) /\ new.version > Version(auths, a)
      /\ new.results = counted.results
  BY <1>4, <1>7, <1>8, NextVersionFacts
<1>10. PICK n : n = [o EXCEPT !.held = new, !.shared = FALSE, !.todo = todo]
  OBVIOUS
<1>11. /\ Write(a, new)
       /\ op' = [q \in Procs |-> IF q = p THEN n ELSE SeesWrite(q, a, new)]
       /\ marked' = [marked EXCEPT ![a] = marked[a] + 1]
       /\ UNCHANGED <<shards, registry, environment, started, shown>>
  BY <1>1, <1>2, <1>6, <1>8, <1>10 DEF Recorded
<1>12. auths' = [auths EXCEPT ![a] = new] /\ EntryFollows(a)
  BY <1>4, <1>9, <1>11, WriteFacts
<1>13. Grows(auths, auths', a, new)
  BY <1>4, <1>9, <1>12, GrownFacts, TypeFacts DEF ManagerInv, TypeParts
<1>14. todo \in Seq(Steps)
  BY DEF Program
<1>15. /\ n \in OpRecords /\ n.todo = todo /\ n.auth = a /\ n.held = new /\ ~n.shared
       /\ n.all = o.all /\ n.model = o.model
  BY <1>2, <1>5, <1>9, <1>10, <1>14 DEF OpRecords
<1>16. \A s : Does(n, s) <=> s = "upsert"
  BY <1>15 DEF Does
<1>17. GoodOp(n, auths')
  <2>1. GoodOp(o, auths')
    BY <1>4, <1>5, <1>9, <1>12, GrownGood, TypeFacts DEF ManagerInv, TypeParts
  <2>2. Fits(n, auths')
    BY <1>4, <1>15 DEF Fits, Picking, OfModel, OfKnown
  <2>3. a \in KnownIn(auths') /\ Was(auths', a, new) /\ new # NoAuth
    BY <1>13 DEF Grows
  <2> QED
    BY <1>9, <1>15, <1>16, <2>1, <2>2, <2>3 DEF GoodOp
<1>18. \A q \in Procs \ {p} :
         Follows(op[q], op'[q], a, new) /\ GoodOp(op'[q], auths') /\ op'[q] \in OpRecords
  <2> TAKE q \in Procs \ {p}
  <2>1. PICK m : m = op'[q]
    OBVIOUS
  <2>2. m = SeesWrite(q, a, new)
    BY <1>11, <2>1
  <2> QED
    BY <1>4, <1>9, <1>12, <2>1, <2>2, SeesFacts
<1>19. op' \in [Procs -> OpRecords] /\ op'[p] = n
  <2>1. op'[p] = n
    BY <1>11
  <2>2. \A q \in Procs : op'[q] \in OpRecords
    BY <1>15, <1>18, <2>1
  <2> QED
    BY <1>11, <2>1, <2>2
<1>20. /\ marked' \in [Auths -> Nat] /\ marked'[a] = new.results
       /\ \A b \in Auths \ {a} : marked'[b] = marked[b]
  <2>1. marked \in [Auths -> Nat] /\ marked[a] = auths[a].results
    BY <1>4, TypeFacts DEF ManagerInv, TypeParts, StoredInv, Known
  <2> QED
    BY <1>1, <1>2, <1>4, <1>7, <1>9, <1>11, <2>1
<1>21. FrameOK' /\ UNCHANGED <<shards, supported, now, shown>>
  <2>1. KnownIn(auths) \subseteq KnownIn(auths') /\ started' \in Nat
    BY <1>11, <1>13, TypeFacts DEF Grows, ManagerInv, TypeParts, FrameOK
  <2> QED
    BY <1>11, <2>1, FrameKept DEF registry, environment
<1>22. Does(n, "upsert") /\ op[p].auth = a
  BY <1>1, <1>2, <1>16
<1> QED
  BY <1>4, <1>9, <1>12, <1>15, <1>17, <1>18, <1>19, <1>20, <1>21, <1>22, ChangeStep

LEMMA SuccessMarked ==
  ASSUME ManagerInv, NEW p \in Procs, MarkSuccess(p)
  PROVE  ManagerInv'
PROOF
<1>1. PICK step \in Steps : step = "mark"
  BY DEF Steps
<1>2. Doing(p, step)
  BY <1>1 DEF MarkSuccess
<1>3. PICK a : a = op[p].auth
  OBVIOUS
<1>4. a \in Auths /\ auths[a] # NoAuth /\ op[p].model \in Models
  BY <1>1, <1>2, <1>3, DoingFacts DEF OfKnown, OfModel
<1>5. auths[a] \in Auth /\ Sound(auths[a]) /\ now \in Nat
  BY <1>4, StoredFacts, TypeFacts DEF ManagerInv, TypeParts
<1>6. PICK result : result = MarkModelSuccess(auths[a], op[p].model, now)
  OBVIOUS
<1>7. result \in Auth /\ Sound(result) /\ result.results = auths[a].results
  BY <1>4, <1>5, <1>6, SuccessFacts DEF Kept
<1>8. PICK todo : todo = <<"upsert", "clearQuota", "resume">>
  OBVIOUS
<1>9. Program(todo) /\ todo # <<>> /\ Head(todo) = "upsert"
  BY <1>8, Literals
<1>10. \A i \in 1..Len(todo) :
         todo[i] \in {"upsert", "clearQuota", "setQuota", "resume", "suspend"}
  BY <1>8
<1>11. Recorded(p, result, todo) /\ Doing(p, "mark")
  BY <1>3, <1>6, <1>8 DEF MarkSuccess
<1> QED
  BY <1>3, <1>7, <1>9, <1>10, <1>11, Records

LEMMA FailureMarked ==
  ASSUME ManagerInv, NEW p \in Procs, MarkFailure(p)
  PROVE  ManagerInv'
PROOF
<1>1. PICK step \in Steps : step = "mark"
  BY DEF Steps
<1>2. Doing(p, step)
  BY <1>1 DEF MarkFailure
<1>3. PICK a : a = op[p].auth
  OBVIOUS
<1>4. a \in Auths /\ auths[a] # NoAuth /\ op[p].model \in Models
  BY <1>1, <1>2, <1>3, DoingFacts DEF OfKnown, OfModel
<1>5. auths[a] \in Auth /\ Sound(auths[a]) /\ now \in Nat
  BY <1>4, StoredFacts, TypeFacts DEF ManagerInv, TypeParts
<1>6. PICK off : off = (a \in NoCooling)
  OBVIOUS
<1>7. PICK failure \in Failures :
        \E delay \in IF failure = "quota" THEN scenario.delays \cup {NoDelay} ELSE {NoDelay} :
          Recorded(p, MarkModelFailure(auths[a], op[p].model, failure, delay, off, now),
            <<"upsert">> \o (IF failure = "quota" /\ ~off THEN <<"setQuota">> ELSE <<>>)
                         \o (IF Suspends(failure, off) THEN <<"suspend">> ELSE <<>>))
  BY <1>3, <1>6 DEF MarkFailure
<1>8. PICK delay \in IF failure = "quota" THEN scenario.delays \cup {NoDelay} ELSE {NoDelay} :
          Recorded(p, MarkModelFailure(auths[a], op[p].model, failure, delay, off, now),
            <<"upsert">> \o (IF failure = "quota" /\ ~off THEN <<"setQuota">> ELSE <<>>)
                         \o (IF Suspends(failure, off) THEN <<"suspend">> ELSE <<>>))
  BY <1>7
<1>9. delay \in Nat \cup {NoDelay}
  <2>1. scenario.delays \subseteq RetryAfters
    BY ScenariosAssumption DEF ManagerInv, ScopeInv
  <2> QED
    BY <1>8, <2>1, DurationAssumption
<1>10. PICK result : result = MarkModelFailure(auths[a], op[p].model, failure, delay, off, now)
  OBVIOUS
<1>11. result \in Auth /\ Sound(result) /\ result.results = auths[a].results
  BY <1>4, <1>5, <1>9, <1>10, FailureFacts DEF Kept
<1>12. PICK todo :
         todo = <<"upsert">> \o (IF failure = "quota" /\ ~off THEN <<"setQuota">> ELSE <<>>)
                             \o (IF Suspends(failure, off) THEN <<"suspend">> ELSE <<>>)
  OBVIOUS
<1>13. \/ todo = <<"upsert">> \/ todo = <<"upsert", "setQuota">>
       \/ todo = <<"upsert", "suspend">> \/ todo = <<"upsert", "setQuota", "suspend">>
  <2>1. <<"upsert">> \o <<>> = <<"upsert">>
    OBVIOUS
  <2>2. <<"upsert", "setQuota">> \o <<>> = <<"upsert", "setQuota">>
    OBVIOUS
  <2>3. CASE failure = "quota" /\ ~off
    BY <1>12, <2>2, <2>3, Joined1, Joined3
  <2>4. CASE ~(failure = "quota" /\ ~off)
    BY <1>12, <2>1, <2>4, Joined2
  <2> QED
    BY <2>3, <2>4
<1>14. Program(todo) /\ todo # <<>> /\ Head(todo) = "upsert"
  <2>1. Program(todo)
    BY <1>13, Literals
  <2>2. todo # <<>> /\ Head(todo) = "upsert"
    BY <1>13
  <2> QED
    BY <2>1, <2>2
<1>15. \A i \in 1..Len(todo) :
         todo[i] \in {"upsert", "clearQuota", "setQuota", "resume", "suspend"}
  <2>1. CASE todo = <<"upsert">>
    BY <2>1
  <2>2. CASE todo = <<"upsert", "setQuota">>
    BY <2>2
  <2>3. CASE todo = <<"upsert", "suspend">>
    BY <2>3
  <2>4. CASE todo = <<"upsert", "setQuota", "suspend">>
    BY <2>4
  <2> QED
    BY <1>13, <2>1, <2>2, <2>3, <2>4
<1>16. Recorded(p, result, todo) /\ Doing(p, "mark")
  BY <1>8, <1>10, <1>12 DEF MarkFailure
<1> QED
  BY <1>3, <1>11, <1>14, <1>15, <1>16, Records

\* A step put before a program.
Joins(x, r, u) ==
  /\ u \in Seq(Steps) /\ Len(u) = Len(r) + 1 /\ u[1] = x
  /\ \A i \in 1..Len(r) : u[i + 1] = r[i]

LEMMA JoinFacts ==
  ASSUME NEW x \in Steps, NEW r \in Seq(Steps)
  PROVE  Joins(x, r, <<x>> \o r)
PROOF
<1>1. <<x>> \in Seq(Steps) /\ Len(<<x>>) = 1 /\ <<x>>[1] = x /\ Len(r) \in Nat
  OBVIOUS
<1>2. <<x>> \o r \in Seq(Steps)
  BY <1>1
<1>3. Len(<<x>> \o r) = Len(r) + 1
  BY <1>1
<1>4. (<<x>> \o r)[1] = x
  BY <1>1
<1>5. \A i \in 1..Len(r) : (<<x>> \o r)[i + 1] = r[i]
  BY <1>1
<1> QED
  BY <1>2, <1>3, <1>4, <1>5 DEF Joins

\* Reconciliation goes on by publishing what it stored.
LEMMA UpsertNext ==
  ASSUME NEW t, Program(t), t # <<>>, Head(t) = "reconcile", NEW u, u = <<"upsert">> \o Tail(t)
  PROVE  /\ Program(u) /\ u # <<>> /\ Head(u) = "upsert" /\ Len(u) = Len(t)
         /\ \A i \in 2..Len(t) : u[i] = t[i]
PROOF
<1>1. t \in Seq(Steps)
  BY DEF Program
<1>2. PICK r \in Seq(Steps) : r = Tail(t)
  BY <1>1, TailFacts
<1>3. /\ Len(t) \in Nat /\ Len(t) >= 1 /\ Len(r) = Len(t) - 1 /\ t[1] = "reconcile"
      /\ \A i \in 1..Len(r) : r[i] = t[i + 1]
  BY <1>1, <1>2, TailFacts
<1>4. PICK x \in Steps : x = "upsert"
  BY DEF Steps
<1>5. Joins(x, r, u)
  <2>1. Joins(x, r, <<x>> \o r)
    BY JoinFacts
  <2> QED
    BY <1>2, <1>4, <2>1
<1>6. u \in Seq(Steps) /\ Len(u) = Len(r) + 1 /\ u[1] = x
  BY <1>5 DEF Joins
<1>7. u \in Seq(Steps) /\ Len(u) = Len(t) /\ u[1] = "upsert"
  BY <1>3, <1>4, <1>6
<1>8. \A i \in 2..Len(t) : u[i] = t[i]
  <2> TAKE i \in 2..Len(t)
  <2>1. PICK j \in 1..Len(r) : j = i - 1
    BY <1>3
  <2>2. r[j] = t[j + 1] /\ j + 1 = i
    BY <1>3, <2>1
  <2>3. u[j + 1] = r[j]
    BY <1>5 DEF Joins
  <2> QED
    BY <2>2, <2>3
<1>9. u # <<>> /\ Head(u) = "upsert"
  BY <1>3, <1>7
<1>10. Linked(u)
  <2> SUFFICES ASSUME NEW i \in 2..Len(u) PROVE u[i - 1] \in Before(u[i])
    BY DEF Linked
  <2>1. t[i - 1] \in Before(t[i]) /\ u[i] = t[i]
    BY <1>7, <1>8 DEF Program, Linked
  <2>2. CASE i = 2
    <3>1. "reconcile" \in Before(t[i])
      BY <1>3, <2>1, <2>2
    <3>2. "upsert" \in Before(t[i])
      BY <3>1 DEF Before, Steps
    <3> QED
      BY <1>7, <2>1, <2>2, <3>2
  <2>3. CASE i # 2
    <3>1. PICK j \in 2..Len(t) : j = i - 1
      BY <1>3, <1>7, <2>3
    <3> QED
      BY <1>8, <2>1, <3>1
  <2> QED
    BY <2>2, <2>3
<1>11. Ends(u)
  <2>1. t[Len(t)] \in Publishes
    BY <1>3 DEF Program, Ends, Changes
  <2>2. Len(t) # 1
    BY <1>3, <2>1 DEF Publishes
  <2>3. u[Len(u)] = t[Len(t)]
    BY <1>3, <1>7, <1>8, <2>2
  <2> QED
    BY <2>1, <2>3 DEF Ends
<1> QED
  BY <1>7, <1>8, <1>9, <1>10, <1>11 DEF Program

\* The frame of a step that stores a new version.
LEMMA GrownFrame ==
  ASSUME ManagerInv, NEW a \in Auths, NEW new \in Auth, new.version > Version(auths, a),
         auths' = [auths EXCEPT ![a] = new], UNCHANGED <<registry, environment, started>>
  PROVE  FrameOK'
PROOF
<1>1. Grows(auths, auths', a, new)
  BY GrownFacts, TypeFacts DEF ManagerInv, TypeParts
<1>2. KnownIn(auths) \subseteq KnownIn(auths') /\ started' \in Nat
  BY <1>1, TypeFacts DEF Grows, ManagerInv, TypeParts, FrameOK
<1> QED
  BY <1>2, FrameKept

LEMMA Reconciles ==
  ASSUME ManagerInv, NEW p \in Procs, Reconcile(p)
  PROVE  ManagerInv'
PROOF
<1>1. PICK o : o = op[p]
  OBVIOUS
<1>2. PICK a : a = o.auth
  OBVIOUS
<1>3. PICK step \in Steps : step = "reconcile"
  BY DEF Steps
<1>4. Doing(p, step)
  BY <1>3 DEF Reconcile
<1>5. a \in Auths /\ ~o.shared /\ o.todo # <<>> /\ Head(o.todo) = "reconcile"
  BY <1>1, <1>2, <1>3, <1>4, DoingFacts DEF Picking
<1>6. GoodOp(o, auths) /\ o \in OpRecords
  BY <1>1, OwnFacts
<1>7. CASE Known(a) /\ NeedsReconcile(auths[a], o.seen)
  <2>1. auths[a] \in Auth /\ Sound(auths[a]) /\ now \in Nat
    BY <1>5, <1>7, StoredFacts, TypeFacts DEF ManagerInv, TypeParts, Known
  <2>2. PICK result : result = ReconcileStates(auths[a], o.seen, now)
    OBVIOUS
  <2>3. result \in Auth /\ Sound(result) /\ result.results = auths[a].results
    BY <2>1, <2>2, ReconcileFacts DEF Kept
  <2>4. PICK new : new = NextVersion(a, result)
    OBVIOUS
  <2>5. /\ new \in Auth /\ Sound(new) /\ new.version > Version(auths, a)
        /\ new.results = result.results
    BY <1>5, <2>3, <2>4, NextVersionFacts
  <2>6. PICK todo : todo = <<"upsert">> \o Tail(o.todo)
    OBVIOUS
  <2>7. PICK n : n = [o EXCEPT !.held = new, !.seen = {}, !.todo = todo]
    OBVIOUS
  <2>8. /\ Write(a, new)
        /\ op' = [q \in Procs |-> IF q = p THEN n ELSE SeesWrite(q, a, new)]
        /\ UNCHANGED <<shards, registry, environment, started, marked, shown>>
    BY <1>1, <1>2, <1>7, <2>2, <2>4, <2>6, <2>7 DEF Reconcile, Rest
  <2>9. auths' = [auths EXCEPT ![a] = new] /\ EntryFollows(a)
    BY <1>5, <2>5, <2>8, WriteFacts
  <2>10. Grows(auths, auths', a, new)
    BY <1>5, <2>5, <2>9, GrownFacts, TypeFacts DEF ManagerInv, TypeParts
  <2>11. /\ Program(todo) /\ todo # <<>> /\ Head(todo) = "upsert" /\ Len(todo) = Len(o.todo)
         /\ \A i \in 2..Len(o.todo) : todo[i] = o.todo[i]
    <3>1. Program(o.todo)
      BY <1>6 DEF GoodOp
    <3> QED
      BY <1>5, <2>6, <3>1, UpsertNext
  <2>12. todo \in Seq(Steps)
    BY <2>11 DEF Program
  <2>13. /\ n \in OpRecords /\ n.todo = todo /\ n.auth = a /\ n.held = new /\ ~n.shared
         /\ n.all = o.all /\ n.model = o.model
    BY <1>2, <1>5, <1>6, <2>5, <2>7, <2>12 DEF OpRecords
  <2>14. \A s : Does(n, s) <=> s = "upsert"
    BY <2>11, <2>13 DEF Does
  <2>15. GoodOp(n, auths')
    <3>1. GoodOp(o, auths')
      BY <1>5, <1>6, <2>5, <2>9, GrownGood, TypeFacts DEF ManagerInv, TypeParts
    <3>2. Fits(o, auths')
      BY <3>1 DEF GoodOp
    <3>3. Fits(n, auths')
      <4> SUFFICES ASSUME NEW i \in 1..Len(n.todo)
                   PROVE  /\ n.todo[i] \in Picking => n.auth = NoAuth
                          /\ n.todo[i] \notin Picking => n.auth \in Auths
                          /\ n.todo[i] \in OfModel => n.model \in Models
                          /\ n.todo[i] \in OfKnown => n.auth \in KnownIn(auths')
        BY DEF Fits
      <4>1. CASE i = 1
        <5>1. todo[1] = "upsert"
          BY <2>11, <2>12, TailFacts
        <5> QED
          BY <1>5, <2>13, <4>1, <5>1 DEF Picking, OfModel, OfKnown
      <4>2. CASE i # 1
        <5>1. i \in 2..Len(o.todo) /\ i \in 1..Len(o.todo)
          BY <2>11, <2>12, <2>13, <4>2
        <5>2. n.todo[i] = o.todo[i]
          BY <2>11, <2>13, <5>1
        <5> QED
          BY <1>2, <2>13, <3>2, <5>1, <5>2 DEF Fits
      <4> QED
        BY <4>1, <4>2
    <3>4. a \in KnownIn(auths') /\ Was(auths', a, new) /\ new # NoAuth
      BY <2>10 DEF Grows
    <3> QED
      BY <2>5, <2>11, <2>13, <2>14, <3>1, <3>3, <3>4 DEF GoodOp
  <2>16. \A q \in Procs \ {p} :
           Follows(op[q], op'[q], a, new) /\ GoodOp(op'[q], auths') /\ op'[q] \in OpRecords
    <3> TAKE q \in Procs \ {p}
    <3>1. PICK m : m = op'[q]
      OBVIOUS
    <3>2. m = SeesWrite(q, a, new)
      BY <2>8, <3>1
    <3> QED
      BY <1>5, <2>5, <2>9, <3>1, <3>2, SeesFacts
  <2>17. op' \in [Procs -> OpRecords] /\ op'[p] = n
    <3>1. op'[p] = n
      BY <2>8
    <3>2. \A q \in Procs : op'[q] \in OpRecords
      BY <2>13, <2>16, <3>1
    <3> QED
      BY <2>8, <3>1, <3>2
  <2>18. /\ marked' \in [Auths -> Nat] /\ marked'[a] = new.results
         /\ \A b \in Auths \ {a} : marked'[b] = marked[b]
    <3>1. marked \in [Auths -> Nat] /\ marked[a] = auths[a].results
      BY <1>5, <1>7, TypeFacts DEF ManagerInv, TypeParts, StoredInv
    <3> QED
      BY <2>3, <2>5, <2>8, <3>1
  <2>19. FrameOK' /\ UNCHANGED <<shards, supported, now, shown>>
    BY <1>5, <2>5, <2>8, <2>9, GrownFrame DEF registry, environment
  <2>20. Does(n, "upsert") /\ op[p].auth = a
    BY <1>1, <1>2, <2>14
  <2> QED
    BY <1>5, <2>5, <2>9, <2>13, <2>15, <2>16, <2>17, <2>18, <2>19, <2>20, ChangeStep
<1>8. CASE ~(Known(a) /\ NeedsReconcile(auths[a], o.seen))
  <2>1. /\ UNCHANGED <<auths, sched, shards, registry, environment, started, marked, shown>>
        /\ op' = [op EXCEPT ![p] = [op[p] EXCEPT !.seen = {}, !.todo = Rest(p)]]
    BY <1>1, <1>2, <1>8 DEF Reconcile
  <2>2. PICK held \in Auth \cup {NoAuth} : held = o.held /\ (held # NoAuth => Sound(held))
    BY <1>6 DEF GoodOp, OpRecords
  <2>3. PICK seen \in SUBSET Models : seen = {}
    OBVIOUS
  <2>4. PICK n : n = [op[p] EXCEPT !.held = held, !.seen = seen, !.shared = FALSE, !.todo = Rest(p)]
    OBVIOUS
  <2>5. op' = [op EXCEPT ![p] = n]
    <3>1. [o EXCEPT !.seen = seen, !.todo = Rest(p)]
            = [o EXCEPT !.held = o.held, !.seen = seen, !.shared = FALSE, !.todo = Rest(p)]
      BY <1>5, <1>6, HeldRecords
    <3> QED
      BY <1>1, <2>1, <2>2, <2>3, <2>4, <3>1
  <2>6. PICK s \in {"merge", "mergeDisabled", "readModels", "reconcile", "readEntry", "disable",
                    "readToken"} : s = "reconcile"
    OBVIOUS
  <2>7. Doing(p, s) /\ s \notin {"merge", "mergeDisabled", "disable", "readToken", "readEntry"}
    BY <1>3, <1>4, <2>6
  <2>8. UNCHANGED <<auths, sched, shards, registry, environment, started, marked, shown>>
    BY <2>1
  <2> QED
    BY <2>2, <2>4, <2>5, <2>7, <2>8, HoldStep
<1> QED
  BY <1>7, <1>8

\* What is stored is published next.
LEMMA StoreThenUpsert ==
  ASSUME NEW t, Program(t), t # <<>>, Head(t) = "store"
  PROVE  Tail(t) # <<>> /\ Head(Tail(t)) = "upsert"
PROOF
<1>1. t \in Seq(Steps)
  BY DEF Program
<1>2. Len(t) \in Nat /\ Len(t) >= 1 /\ t[1] = "store" /\ (Tail(t) # <<>> <=> Len(t) > 1)
  BY <1>1, TailFacts
<1>3. t[Len(t)] \in Publishes
  BY <1>2 DEF Program, Ends, Changes
<1>4. Tail(t) # <<>>
  BY <1>2, <1>3 DEF Publishes
<1>5. "store" \in Before(Head(Tail(t)))
  BY <1>4, RestProgram
<1> QED
  BY <1>4, <1>5 DEF Before

LEMMA RestFits ==
  ASSUME NEW map, NEW o, o.todo \in Seq(Steps), o.todo # <<>>, Fits(o, map),
         NEW n, n.todo = Tail(o.todo), n.auth = o.auth, n.model = o.model
  PROVE  Fits(n, map)
PROOF
<1> SUFFICES ASSUME NEW i \in 1..Len(n.todo)
             PROVE  /\ n.todo[i] \in Picking => n.auth = NoAuth
                    /\ n.todo[i] \notin Picking => n.auth \in Auths
                    /\ n.todo[i] \in OfModel => n.model \in Models
                    /\ n.todo[i] \in OfKnown => n.auth \in KnownIn(map)
  BY DEF Fits
<1>1. PICK t \in Seq(Steps) : t = o.todo
  OBVIOUS
<1>2. /\ Len(t) \in Nat /\ Len(Tail(t)) = Len(t) - 1
      /\ \A j \in 1..Len(Tail(t)) : Tail(t)[j] = t[j + 1]
  BY <1>1, TailFacts
<1>3. PICK j \in 1..Len(t) : j = i + 1
  BY <1>1, <1>2
<1>4. n.todo[i] = o.todo[j]
  BY <1>1, <1>2, <1>3
<1> QED
  BY <1>1, <1>3, <1>4 DEF Fits

LEMMA Stores ==
  ASSUME ManagerInv, NEW p \in Procs, Store(p)
  PROVE  ManagerInv'
PROOF
<1>1. PICK o : o = op[p]
  OBVIOUS
<1>2. PICK a : a = o.auth
  OBVIOUS
<1>3. PICK step \in Steps : step = "store"
  BY DEF Steps
<1>4. Doing(p, step)
  BY <1>3 DEF Store
<1>5. /\ a \in Auths /\ ~o.shared /\ o.todo # <<>> /\ Head(o.todo) = "store"
      /\ o.held \in Auth /\ Sound(o.held)
  BY <1>1, <1>2, <1>3, <1>4, DoingFacts DEF Picking, UsesHeld
<1>6. GoodOp(o, auths) /\ o \in OpRecords
  BY <1>1, OwnFacts
<1>7. Known(a) \/ o.held.results = 0
  BY <1>2, <1>5, <1>6 DEF GoodOp, Does, KnownIn, Known
<1>8. marked \in [Auths -> Nat] /\ marked[a] = IF Known(a) THEN auths[a].results ELSE 0
  BY <1>5, TypeFacts DEF ManagerInv, TypeParts, StoredInv
<1>9. PICK value : value = IF Known(a) THEN Inherit(o.held, auths[a]) ELSE o.held
  OBVIOUS
<1>10. value \in Auth /\ Sound(value) /\ value.results = marked[a]
  <2>1. CASE Known(a)
    <3>1. auths[a] \in Auth /\ Sound(auths[a])
      BY <1>5, <2>1, StoredFacts DEF Known
    <3> QED
      BY <1>5, <1>8, <1>9, <2>1, <3>1, InheritFacts
  <2>2. CASE ~Known(a)
    BY <1>5, <1>7, <1>8, <1>9, <2>2
  <2> QED
    BY <2>1, <2>2
<1>11. PICK new : new = NextVersion(a, value)
  OBVIOUS
<1>12. /\ new \in Auth /\ Sound(new) /\ new.version > Version(auths, a)
       /\ new.results = value.results
  BY <1>5, <1>10, <1>11, NextVersionFacts
<1>13. PICK todo : todo = Tail(o.todo)
  OBVIOUS
<1>14. PICK n : n = [o EXCEPT !.held = new, !.shared = TRUE, !.todo = todo]
  OBVIOUS
<1>15. /\ Replace(a, new)
       /\ op' = [q \in Procs |-> IF q = p THEN n ELSE SeesReplace(q, a)]
       /\ UNCHANGED <<shards, registry, environment, started, marked, shown>>
  BY <1>1, <1>2, <1>9, <1>11, <1>13, <1>14 DEF Store, Rest
<1>16. auths' = [auths EXCEPT ![a] = new] /\ EntryFollows(a)
  BY <1>5, <1>12, <1>15, WriteFacts
<1>17. Grows(auths, auths', a, new)
  BY <1>5, <1>12, <1>16, GrownFacts, TypeFacts DEF ManagerInv, TypeParts
<1>18. Program(todo) /\ todo # <<>> /\ Head(todo) = "upsert"
  BY <1>5, <1>6, <1>13, StoreThenUpsert, RestProgram DEF GoodOp
<1>19. todo \in Seq(Steps)
  BY <1>18 DEF Program
<1>20. /\ n \in OpRecords /\ n.todo = todo /\ n.auth = a /\ n.held = new
       /\ n.all = o.all /\ n.model = o.model
  BY <1>2, <1>6, <1>12, <1>14, <1>19 DEF OpRecords
<1>21. \A s : Does(n, s) <=> s = "upsert"
  BY <1>18, <1>20 DEF Does
<1>22. GoodOp(n, auths')
  <2>1. GoodOp(o, auths')
    BY <1>5, <1>6, <1>12, <1>16, GrownGood, TypeFacts DEF ManagerInv, TypeParts
  <2>2. Fits(n, auths')
    <3>1. Fits(o, auths') /\ o.todo \in Seq(Steps) /\ n.todo = Tail(o.todo) /\ n.auth = o.auth
      BY <1>2, <1>6, <1>13, <1>20, <2>1 DEF GoodOp, OpRecords
    <3> QED
      BY <1>5, <1>20, <3>1, RestFits
  <2>3. a \in KnownIn(auths') /\ Was(auths', a, new) /\ new # NoAuth
    BY <1>17 DEF Grows
  <2> QED
    BY <1>12, <1>18, <1>20, <1>21, <2>1, <2>2, <2>3 DEF GoodOp
<1>23. \A q \in Procs \ {p} :
         Follows(op[q], op'[q], a, new) /\ GoodOp(op'[q], auths') /\ op'[q] \in OpRecords
  <2> TAKE q \in Procs \ {p}
  <2>1. PICK m : m = op'[q]
    OBVIOUS
  <2>2. m = SeesReplace(q, a)
    BY <1>15, <2>1
  <2> QED
    BY <1>5, <1>12, <1>16, <2>1, <2>2, SeesFacts
<1>24. op' \in [Procs -> OpRecords] /\ op'[p] = n
  <2>1. op'[p] = n
    BY <1>15
  <2>2. \A q \in Procs : op'[q] \in OpRecords
    BY <1>20, <1>23, <2>1
  <2> QED
    BY <1>15, <2>1, <2>2
<1>25. /\ marked' \in [Auths -> Nat] /\ marked'[a] = new.results
       /\ \A b \in Auths \ {a} : marked'[b] = marked[b]
  BY <1>8, <1>10, <1>12, <1>15
<1>26. FrameOK' /\ UNCHANGED <<shards, supported, now, shown>>
  BY <1>5, <1>12, <1>15, <1>16, GrownFrame DEF registry, environment
<1>27. Does(n, "upsert") /\ op[p].auth = a
  BY <1>1, <1>2, <1>21
<1> QED
  BY <1>5, <1>12, <1>16, <1>20, <1>22, <1>23, <1>24, <1>25, <1>26, <1>27, ChangeStep

-----------------------------------------------------------------------------
(***************************************************************************)
(* A credential is given to the scheduler.                                 *)
(***************************************************************************)
LEMMA EntryFacts ==
  ASSUME ManagerInv, NEW a \in Auths, NEW auth \in Auth, Sound(auth), NEW shared \in BOOLEAN,
         NEW indexed, NEW e, e = Entry(a, auth, shared, indexed)
  PROVE  /\ e \in SchedRecords /\ Agrees(e, auth, indexed, now)
         /\ e.auth = NoAuth \/ (e.auth = auth /\ e.models = supported[a] /\ e.shared = shared)
         /\ e.auth = NoAuth => ~e.shared
PROOF
<1>1. now \in Nat /\ supported[a] \in SUBSET Models
  BY TypeFacts DEF ManagerInv, TypeParts, FrameOK
<1>2. auth # NoAuth
  BY NoAuthFacts
<1>3. CASE auth.disabled
  <2>1. e = NoEntry
    BY <1>3 DEF Entry
  <2>2. e \in SchedRecords /\ e.auth = NoAuth /\ ~e.shared
    BY <2>1 DEF NoEntry, SchedRecords, ZeroTime
  <2> QED
    BY <1>3, <2>2 DEF Agrees
<1>4. CASE ~auth.disabled
  <2>1. PICK until : until = [m \in Models |-> IF m \in indexed \cap supported[a]
                                                 THEN Until(auth, m, now) ELSE ZeroTime]
    OBVIOUS
  <2>2. \A m \in Models : /\ Until(auth, m, now) \in Nat
                          /\ UntilOK(Until(auth, m, now), auth, m, now)
    BY <1>1, UntilFacts
  <2>3. until \in [Models -> Nat]
    BY <2>1, <2>2 DEF ZeroTime
  <2>4. e = [auth |-> auth, shared |-> shared, models |-> supported[a], until |-> until]
    BY <1>4, <2>1 DEF Entry, NewEntry
  <2>5. /\ e \in SchedRecords /\ e.auth = auth /\ e.shared = shared /\ e.models = supported[a]
        /\ e.until = until
    BY <1>1, <2>3, <2>4 DEF SchedRecords
  <2>6. \A m \in indexed \cap e.models : UntilOK(e.until[m], auth, m, now)
    BY <1>1, <2>1, <2>2, <2>5
  <2> QED
    BY <1>2, <1>4, <2>5, <2>6 DEF Agrees
<1> QED
  BY <1>3, <1>4

\* How another goroutine's record follows a publication of a.
Notes(o, n, a) ==
  /\ n.todo = o.todo /\ n.auth = o.auth /\ n.all = o.all /\ o.contested \subseteq n.contested
  /\ Does(o, "repick") => a \in n.contested
  /\ n.auth # a => n.held = o.held

LEMMA NotesFacts ==
  ASSUME NEW o, NEW n, NEW a, Notes(o, n, a)
  PROVE  /\ \A step : Does(n, step) <=> Does(o, step)
         /\ \A b : Pub(n, b) <=> Pub(o, b)
         /\ \A b, version : b # a \/ n.held = o.held =>
              (Carries(o, b, version) => Carries(n, b, version))
PROOF
<1>1. \A step : Does(n, step) <=> Does(o, step)
  BY DEF Notes, Does
<1>2. \A b : Pub(n, b) <=> Pub(o, b)
  BY DEF Notes, Pub
<1>3. ASSUME NEW b, NEW version, b # a \/ n.held = o.held, Carries(o, b, version)
      PROVE  Carries(n, b, version)
  <2>1. n.auth = b /\ n.held = o.held
    BY <1>3 DEF Notes, Carries
  <2> QED
    BY <1>1, <1>3, <2>1 DEF Notes, Carries
<1> QED
  BY <1>1, <1>2, <1>3

LEMMA PublishStep ==
  ASSUME ManagerInv, NEW p \in Procs, NEW a \in Auths, op[p].auth = a,
         NEW auth \in Auth, Sound(auth), NEW shared \in BOOLEAN,
         NEW e, e = Entry(a, auth, shared, shards),
         sched' = [sched EXCEPT ![a] = e], Publish(a, auth.version),
         auths' \in [Auths -> Auth \cup {NoAuth}], a \in KnownIn(auths'),
         \A b \in Auths \ {a} : auths'[b] = auths[b],
         Version(auths, a) <= Version(auths', a), Was(auths', a, auth), StoredInv',
         marked' \in [Auths -> Nat],
         op' \in [Procs -> OpRecords], \A q \in Procs : GoodOp(op'[q], auths'),
         \A q \in Procs \ {p} : Notes(op[q], op'[q], a),
         ~Does(op'[p], "repick"),
         auth.version # Version(auths', a) =>
           /\ auths' = auths
           /\ \A q \in Procs :
                Carries(op[q], a, Version(auths, a)) => Carries(op'[q], a, Version(auths, a)),
         UNCHANGED <<shards, supported, now>>, FrameOK'
  PROVE  ManagerInv'
PROOF
<1>1. TypeParts
  BY TypeFacts DEF ManagerInv
<1>2. /\ e \in SchedRecords /\ Agrees(e, auth, shards, now)
      /\ e.auth = NoAuth \/ (e.auth = auth /\ e.models = supported[a] /\ e.shared = shared)
  BY EntryFacts
<1>3. /\ sched' \in [Auths -> SchedRecords] /\ sched'[a] = e
      /\ \A b \in Auths \ {a} : sched'[b] = sched[b]
  BY <1>1, <1>2 DEF TypeParts
<1>4. PICK newest :
        newest = IF auth.version > shown[a].newest THEN auth.version ELSE shown[a].newest
  OBVIOUS
<1>5. /\ auth.version \in Nat /\ shown[a].newest \in Nat /\ newest \in Nat
      /\ Version(auths, a) \in Nat /\ Version(auths', a) \in Nat
      /\ auth.version <= Version(auths', a) /\ shown[a].newest <= Version(auths, a)
  <2>1. auth.version \in Nat /\ shown[a].newest \in Nat
    BY <1>1 DEF TypeParts, Auth
  <2>2. Version(auths, a) \in Nat /\ Version(auths', a) \in Nat
    BY <1>1 DEF TypeParts, Version, Auth
  <2>3. auth.version <= Version(auths', a)
    BY DEF Was
  <2>4. shown[a].newest <= Version(auths, a)
    BY DEF ManagerInv, ShownInv
  <2> QED
    BY <1>4, <2>1, <2>2, <2>3, <2>4
<1>6. shown' = [shown EXCEPT ![a] = [last |-> auth.version, newest |-> newest]]
  BY <1>1, <1>4 DEF Publish, TypeParts
<1>7. /\ shown' \in [Auths -> [last : Nat, newest : Nat]]
      /\ shown'[a].last = auth.version /\ shown'[a].newest = newest
      /\ \A b \in Auths \ {a} : shown'[b] = shown[b]
  BY <1>1, <1>5, <1>6 DEF TypeParts
<1>8. TypeOK' /\ ScopeInv'
  BY <1>1, <1>3, <1>7, TypeFacts DEF TypeParts
<1>9. OpsInv'
  BY DEF OpsInv
<1>10. ASSUME NEW b \in Auths \ {a}
       PROVE  Version(auths', b) = Version(auths, b) /\ auths'[b] = auths[b]
  BY DEF Version
<1>11. ASSUME NEW q \in Procs, NEW b \in Auths \ {a}
       PROVE  /\ Pub(op[q], b) => Pub(op'[q], b)
              /\ \A version : Carries(op[q], b, version) => Carries(op'[q], b, version)
  <2>1. CASE q = p
    BY <2>1 DEF Pub, Carries
  <2>2. CASE q # p
    <3>1. PICK o : o = op[q]
      OBVIOUS
    <3>2. PICK m : m = op'[q]
      OBVIOUS
    <3>3. Notes(o, m, a)
      BY <2>2, <3>1, <3>2
    <3> QED
      BY <3>1, <3>2, <3>3, NotesFacts
  <2> QED
    BY <2>1, <2>2
<1>12. ShownInv'
  <2>1. ASSUME NEW b \in Auths
        PROVE  /\ shown'[b].last <= shown'[b].newest
               /\ shown'[b].newest <= Version(auths', b)
               /\ shown'[b].newest < Version(auths', b) =>
                    \E q \in Procs : Carries(op'[q], b, Version(auths', b))
    <3>1. CASE b = a
      <4>1. newest >= auth.version /\ newest >= shown[a].newest /\ newest <= Version(auths', a)
        BY <1>4, <1>5
      <4>2. ASSUME newest < Version(auths', a)
            PROVE  \E q \in Procs : Carries(op'[q], a, Version(auths', a))
        <5>1. auths' = auths
          BY <1>5, <4>1, <4>2
        <5>2. shown[a].newest < Version(auths, a)
          BY <1>5, <4>1, <4>2, <5>1
        <5>3. PICK q \in Procs : Carries(op[q], a, Version(auths, a))
          BY <5>2 DEF ManagerInv, ShownInv
        <5>4. Carries(op'[q], a, Version(auths, a))
          BY <1>5, <4>1, <4>2, <5>3
        <5> QED
          BY <5>1, <5>4
      <4> QED
        BY <1>7, <3>1, <4>1, <4>2
    <3>2. CASE b # a
      <4>1. /\ shown'[b] = shown[b] /\ Version(auths', b) = Version(auths, b)
            /\ shown[b].last <= shown[b].newest /\ shown[b].newest <= Version(auths, b)
        BY <1>7, <1>10, <3>2 DEF ManagerInv, ShownInv
      <4>2. ASSUME shown[b].newest < Version(auths, b)
            PROVE  \E q \in Procs : Carries(op'[q], b, Version(auths, b))
        <5>1. PICK q \in Procs : Carries(op[q], b, Version(auths, b))
          BY <4>2 DEF ManagerInv, ShownInv
        <5>2. PICK version : version = Version(auths, b)
          OBVIOUS
        <5> QED
          BY <1>11, <3>2, <5>1, <5>2
      <4> QED
        BY <4>1, <4>2
    <3> QED
      BY <3>1, <3>2
  <2> QED
    BY <2>1 DEF ShownInv
<1>13. SchedInv'
  <2>1. ASSUME NEW b \in Auths, sched'[b].auth # NoAuth PROVE auths'[b] # NoAuth
    <3>1. CASE b = a
      BY <3>1 DEF KnownIn
    <3>2. CASE b # a
      BY <1>3, <1>10, <2>1, <3>2 DEF ManagerInv, SchedInv, Scheduled, Known
    <3> QED
      BY <3>1, <3>2
  <2>2. ASSUME NEW b \in Auths, shown'[b].last = Version(auths', b)
        PROVE  Agrees(sched'[b], auths'[b], shards', now')
    <3>1. CASE b = a
      <4>1. auth = auths'[a]
        BY <1>7, <2>2, <3>1 DEF Was
      <4> QED
        BY <1>2, <1>3, <3>1, <4>1
    <3>2. CASE b # a
      BY <1>3, <1>7, <1>10, <2>2, <3>2 DEF ManagerInv, SchedInv
    <3> QED
      BY <3>1, <3>2
  <2>3. ASSUME NEW b \in Auths, sched'[b].auth # NoAuth, sched'[b].models # supported'[b]
        PROVE  \E q \in Procs : Pub(op'[q], b)
    <3>1. b # a
      BY <1>2, <1>3, <2>3
    <3>2. PICK q \in Procs : Pub(op[q], b)
      BY <1>3, <2>3, <3>1 DEF ManagerInv, SchedInv, Scheduled
    <3> QED
      BY <1>11, <3>1, <3>2
  <2>4. ASSUME NEW q \in Procs, Does(op'[q], "repick"), NEW b \in Auths \ op'[q].contested
        PROVE  Agrees(sched'[b], op'[q].all[b], shards', now') /\ ~sched'[b].shared
    <3>1. q # p
      BY <2>4
    <3>2. Notes(op[q], op'[q], a)
      BY <3>1
    <3>3. /\ Does(op[q], "repick") /\ op'[q].all = op[q].all /\ b # a
          /\ op[q].contested \subseteq op'[q].contested
      BY <2>4, <3>2 DEF Notes, Does
    <3>4. Agrees(sched[b], op[q].all[b], shards, now) /\ ~sched[b].shared
      BY <2>4, <3>3 DEF ManagerInv, SchedInv
    <3> QED
      BY <1>3, <3>3, <3>4
  <2> QED
    BY <2>1, <2>2, <2>3, <2>4 DEF SchedInv, Scheduled, Known
<1> QED
  BY <1>8, <1>9, <1>12, <1>13 DEF ManagerInv

LEMMA ContestFacts ==
  ASSUME ManagerInv, NEW q \in Procs, NEW changed \in SUBSET Auths,
         NEW n, n = Contest(q, changed)
  PROVE  /\ n \in OpRecords /\ GoodOp(n, auths) /\ n.held = op[q].held
         /\ \A a \in changed : Notes(op[q], n, a)
PROOF
<1>1. PICK o : o = op[q]
  OBVIOUS
<1>2. GoodOp(o, auths) /\ o \in OpRecords
  BY <1>1, OwnFacts
<1>3. CASE Retrying(q)
  <2>1. n = [o EXCEPT !.contested = o.contested \cup changed]
    BY <1>1, <1>3 DEF Contest
  <2>2. /\ n \in OpRecords /\ n.todo = o.todo /\ n.auth = o.auth /\ n.model = o.model
        /\ n.held = o.held /\ n.all = o.all /\ n.shared = o.shared
        /\ n.contested = o.contested \cup changed
    BY <1>2, <2>1 DEF OpRecords
  <2>3. GoodOp(n, auths)
    BY <1>2, <2>2, GoodSame
  <2> QED
    BY <1>1, <2>2, <2>3 DEF Notes
<1>4. CASE ~Retrying(q)
  <2>1. n = o
    BY <1>1, <1>4 DEF Contest
  <2>2. ~Does(o, "repick")
    BY <1>1, <1>4, OwnFacts DEF Retrying
  <2> QED
    BY <1>1, <1>2, <2>1, <2>2 DEF Notes
<1> QED
  BY <1>3, <1>4

LEMMA Upserts ==
  ASSUME ManagerInv, NEW p \in Procs, Upsert(p)
  PROVE  ManagerInv'
PROOF
<1>1. PICK o : o = op[p]
  OBVIOUS
<1>2. PICK a : a = o.auth
  OBVIOUS
<1>3. PICK step \in Steps : step = "upsert"
  BY DEF Steps
<1>4. Doing(p, step)
  BY <1>3 DEF Upsert
<1>5. /\ a \in Auths /\ o.todo # <<>> /\ Head(o.todo) = "upsert"
      /\ o.held \in Auth /\ Sound(o.held)
  BY <1>1, <1>2, <1>3, <1>4, DoingFacts DEF Picking, UsesHeld
<1>6. GoodOp(o, auths) /\ o \in OpRecords /\ Does(o, "upsert") /\ o.shared \in BOOLEAN
  BY <1>1, <1>5, OwnFacts DEF Does, OpRecords
<1>7. a \in KnownIn(auths) /\ Was(auths, a, o.held)
  BY <1>2, <1>6 DEF GoodOp
<1>8. PICK c : c = [o EXCEPT !.held = NoAuth, !.shared = FALSE]
  OBVIOUS
<1>9. PICK n : n = Proceed(Tail(o.todo), c)
  OBVIOUS
<1>10. PICK e : e = Entry(a, o.held, o.shared, shards)
  OBVIOUS
<1>11. /\ sched' = [sched EXCEPT ![a] = e] /\ Publish(a, o.held.version)
       /\ op' = [q \in Procs |-> IF q = p THEN n ELSE Contest(q, {a})]
       /\ UNCHANGED <<auths, shards, registry, environment, started, marked>>
  BY <1>1, <1>2, <1>8, <1>9, <1>10 DEF Upsert, Rest
<1>12. /\ c \in OpRecords /\ c.auth = o.auth /\ c.model = o.model /\ ~c.shared /\ c.all = o.all
       /\ c.held = NoAuth
  BY <1>6, <1>8 DEF OpRecords
<1>13. GoodOp(n, auths) /\ n.todo = Tail(o.todo) /\ (n.todo # <<>> => n.auth = o.auth)
  BY <1>5, <1>6, <1>9, <1>12, ProceedGood
<1>14. ~Does(n, "repick")
  BY <1>5, <1>6, <1>13, RestProgram DEF GoodOp, Before, Does
<1>15. n \in OpRecords
  BY <1>13 DEF GoodOp
<1>16. \A q \in Procs \ {p} : /\ op'[q] \in OpRecords /\ GoodOp(op'[q], auths)
                              /\ op'[q].held = op[q].held /\ Notes(op[q], op'[q], a)
  <2> TAKE q \in Procs \ {p}
  <2>1. PICK m : m = op'[q]
    OBVIOUS
  <2>2. m = Contest(q, {a})
    BY <1>11, <2>1
  <2>3. PICK changed \in SUBSET Auths : changed = {a}
    BY <1>5
  <2> QED
    BY <2>1, <2>2, <2>3, ContestFacts
<1>17. op'[p] = n
  BY <1>11
<1>18. op' \in [Procs -> OpRecords] /\ \A q \in Procs : GoodOp(op'[q], auths)
  <2>1. \A q \in Procs : op'[q] \in OpRecords /\ GoodOp(op'[q], auths)
    BY <1>13, <1>15, <1>16, <1>17
  <2> QED
    BY <1>11, <2>1
<1>19. ASSUME o.held.version # Version(auths, a), NEW q \in Procs,
              Carries(op[q], a, Version(auths, a))
       PROVE  Carries(op'[q], a, Version(auths, a))
  <2>1. PICK version : version = Version(auths, a)
    OBVIOUS
  <2>2. CASE q = p
    <3>1. PICK i \in 2..Len(o.todo) : o.todo[i] \in Publishes
      BY <1>1, <1>5, <1>19, <2>2 DEF Carries, Does
    <3>2. Carries(n, a, version)
      BY <1>2, <1>5, <1>6, <1>13, <3>1, RestLater
    <3> QED
      BY <1>17, <2>1, <2>2, <3>2
  <2>3. CASE q # p
    <3>1. PICK x : x = op[q]
      OBVIOUS
    <3>2. PICK m : m = op'[q]
      OBVIOUS
    <3>3. Notes(x, m, a) /\ m.held = x.held
      BY <1>16, <2>3, <3>1, <3>2
    <3>4. Carries(x, a, version) => Carries(m, a, version)
      BY <3>3, NotesFacts
    <3> QED
      BY <1>19, <2>1, <3>1, <3>2, <3>4
  <2> QED
    BY <2>2, <2>3
<1>20. auths' \in [Auths -> Auth \cup {NoAuth}] /\ marked' \in [Auths -> Nat]
       /\ Version(auths, a) \in Nat
  BY <1>5, <1>11, TypeFacts DEF ManagerInv, TypeParts, Version, Auth
<1>21. FrameOK' /\ StoredInv' /\ UNCHANGED <<shards, supported, now>>
  <2>1. started' \in Nat /\ KnownIn(auths) \subseteq KnownIn(auths')
    BY <1>11, TypeFacts DEF ManagerInv, TypeParts, FrameOK
  <2>2. FrameOK'
    BY <1>11, <2>1, FrameKept
  <2>3. StoredInv'
    BY <1>11 DEF ManagerInv, StoredInv, Known
  <2> QED
    BY <1>11, <2>2, <2>3 DEF registry, environment
<1>22. /\ a \in KnownIn(auths') /\ Was(auths', a, o.held) /\ Version(auths, a) <= Version(auths', a)
       /\ \A b \in Auths \ {a} : auths'[b] = auths[b]
  BY <1>7, <1>11, <1>20
<1>23. \A q \in Procs : GoodOp(op'[q], auths')
  BY <1>11, <1>18
<1>24. ~Does(op'[p], "repick") /\ op[p].auth = a
  BY <1>1, <1>2, <1>14, <1>17
<1>25. o.held.version # Version(auths', a) =>
         /\ auths' = auths
         /\ \A q \in Procs :
              Carries(op[q], a, Version(auths, a)) => Carries(op'[q], a, Version(auths, a))
  BY <1>11, <1>19
<1>26. \A q \in Procs \ {p} : Notes(op[q], op'[q], a)
  BY <1>16
<1>27. op' \in [Procs -> OpRecords] /\ sched' = [sched EXCEPT ![a] = e]
       /\ Publish(a, o.held.version)
  BY <1>11, <1>18
<1> QED
  BY <1>5, <1>6, <1>10, <1>20, <1>21, <1>22, <1>23, <1>24, <1>25, <1>26, <1>27, PublishStep

\* What a failed refresh writes.
LEMMA FailedRefreshFacts ==
  ASSUME NEW auth \in Auth, Sound(auth), NEW r,
         \/ r = [auth EXCEPT !.error = "unauthorized", !.unavailable = TRUE, !.status = "error"]
         \/ r = [auth EXCEPT !.error = "other"]
  PROVE  r \in Auth /\ Sound(r) /\ r.results = auth.results
PROOF
<1>1. r \in Auth /\ r.results = auth.results /\ r.states = auth.states /\ r.next = auth.next
  BY DEF Auth
<1> QED
  BY <1>1 DEF Sound, AggregateOK

LEMMA TokenFailed ==
  ASSUME ManagerInv, NEW p \in Procs, TokenRefreshFailed(p)
  PROVE  ManagerInv'
PROOF
<1>1. PICK o : o = op[p]
  OBVIOUS
<1>2. PICK a : a = o.auth
  OBVIOUS
<1>3. PICK step \in Steps : step = "refresh"
  BY DEF Steps
<1>4. Doing(p, step)
  BY <1>3 DEF TokenRefreshFailed
<1>5. a \in Auths /\ auths[a] # NoAuth
  BY <1>1, <1>2, <1>3, <1>4, DoingFacts DEF OfKnown
<1>6. auths[a] \in Auth /\ Sound(auths[a])
  BY <1>5, StoredFacts
<1>7. PICK unauthorized \in BOOLEAN :
        LET value == IF unauthorized
                       THEN [auths[a] EXCEPT !.error = "unauthorized", !.unavailable = TRUE,
                                             !.status = "error"]
                       ELSE [auths[a] EXCEPT !.error = "other"]
            auth  == NextVersion(a, value)
        IN  /\ auths' = [auths EXCEPT ![a] = auth]
            /\ sched' = [sched EXCEPT ![a] = Entry(a, auth, FALSE, shards)]
            /\ Publish(a, auth.version)
            /\ op' = [q \in Procs |->
                        IF q = p THEN IdleOp
                        ELSE IF Retrying(q) THEN Contest(q, {a}) ELSE SeesWrite(q, a, auth)]
  BY <1>1, <1>2 DEF TokenRefreshFailed
<1>8. PICK value :
        value = IF unauthorized
                  THEN [auths[a] EXCEPT !.error = "unauthorized", !.unavailable = TRUE,
                                        !.status = "error"]
                  ELSE [auths[a] EXCEPT !.error = "other"]
  OBVIOUS
<1>9. value \in Auth /\ Sound(value) /\ value.results = auths[a].results
  <2>1. \/ value = [auths[a] EXCEPT !.error = "unauthorized", !.unavailable = TRUE,
                                    !.status = "error"]
        \/ value = [auths[a] EXCEPT !.error = "other"]
    BY <1>8
  <2> QED
    BY <1>6, <2>1, FailedRefreshFacts
<1>10. PICK new : new = NextVersion(a, value)
  OBVIOUS
<1>11. /\ new \in Auth /\ Sound(new) /\ new.version > Version(auths, a)
       /\ new.results = value.results
  BY <1>5, <1>9, <1>10, NextVersionFacts
<1>12. PICK shared \in BOOLEAN : shared = FALSE
  OBVIOUS
<1>13. PICK e : e = Entry(a, new, shared, shards)
  OBVIOUS
<1>14. /\ auths' = [auths EXCEPT ![a] = new] /\ sched' = [sched EXCEPT ![a] = e]
       /\ Publish(a, new.version)
       /\ op' = [q \in Procs |->
                   IF q = p THEN IdleOp
                   ELSE IF Retrying(q) THEN Contest(q, {a}) ELSE SeesWrite(q, a, new)]
  BY <1>7, <1>8, <1>10, <1>12, <1>13
<1>15. UNCHANGED <<shards, registry, environment, started, marked>>
  BY DEF TokenRefreshFailed
<1>16. auths \in [Auths -> Auth \cup {NoAuth}] /\ marked \in [Auths -> Nat]
  BY TypeFacts DEF ManagerInv, TypeParts
<1>17. Grows(auths, auths', a, new)
  BY <1>5, <1>11, <1>14, <1>16, GrownFacts
<1>18. /\ auths' \in [Auths -> Auth \cup {NoAuth}] /\ auths'[a] = new /\ new # NoAuth
       /\ \A b \in Auths \ {a} : auths'[b] = auths[b]
       /\ a \in KnownIn(auths') /\ Was(auths', a, new)
       /\ Version(auths', a) = new.version /\ new.version \in Nat /\ Version(auths, a) \in Nat
  BY <1>5, <1>17 DEF Grows
<1>19. StoredInv'
  <2>1. ASSUME NEW b \in Auths
        PROVE  /\ auths'[b] # NoAuth => Sound(auths'[b]) /\ auths'[b].version > 0
               /\ marked'[b] = IF auths'[b] # NoAuth THEN auths'[b].results ELSE 0
    <3>1. CASE b = a
      <4>1. marked[a] = auths[a].results
        BY <1>5 DEF ManagerInv, StoredInv, Known
      <4>2. new.version > 0
        BY <1>11, <1>18
      <4> QED
        BY <1>9, <1>11, <1>15, <1>18, <3>1, <4>1, <4>2
    <3>2. CASE b # a
      BY <1>15, <1>18, <3>2 DEF ManagerInv, StoredInv, Known
    <3> QED
      BY <3>1, <3>2
  <2> QED
    BY <2>1 DEF StoredInv, Known
<1>20. \A q \in Procs \ {p} :
         op'[q] \in OpRecords /\ GoodOp(op'[q], auths') /\ Notes(op[q], op'[q], a)
  <2> TAKE q \in Procs \ {p}
  <2>1. PICK m : m = op'[q]
    OBVIOUS
  <2>2. CASE Retrying(q)
    <3>1. m = Contest(q, {a})
      BY <1>14, <2>1, <2>2
    <3>2. PICK changed \in SUBSET Auths : changed = {a}
      BY <1>5
    <3>3. m \in OpRecords /\ GoodOp(m, auths) /\ Notes(op[q], m, a)
      BY <3>1, <3>2, ContestFacts
    <3>4. GoodOp(m, auths')
      BY <1>5, <1>11, <1>14, <1>16, <3>3, GrownGood
    <3> QED
      BY <2>1, <3>3, <3>4
  <2>3. CASE ~Retrying(q)
    <3>1. m = SeesWrite(q, a, new)
      BY <1>14, <2>1, <2>3
    <3>2. Follows(op[q], m, a, new) /\ GoodOp(m, auths') /\ m \in OpRecords
      BY <1>5, <1>11, <1>14, <3>1, SeesFacts
    <3>3. ~Does(op[q], "repick")
      BY <2>3, OwnFacts DEF Retrying
    <3> QED
      BY <2>1, <3>2, <3>3 DEF Follows, Notes
  <2> QED
    BY <2>2, <2>3
<1>21. op'[p] = IdleOp /\ GoodOp(op'[p], auths') /\ ~Does(op'[p], "repick")
  <2>1. op'[p] = IdleOp
    BY <1>14
  <2>2. GoodOp(IdleOp, auths') /\ ~Does(IdleOp, "repick")
    BY IdleGood DEF Does, IdleOp
  <2> QED
    BY <2>1, <2>2
<1>22. op' \in [Procs -> OpRecords] /\ \A q \in Procs : GoodOp(op'[q], auths')
  <2>1. op'[p] \in OpRecords
    BY <1>21 DEF GoodOp
  <2>2. \A q \in Procs : op'[q] \in OpRecords
    BY <1>20, <2>1
  <2> QED
    BY <1>14, <1>20, <1>21, <2>2
<1>23. FrameOK' /\ UNCHANGED <<shards, supported, now>> /\ marked' \in [Auths -> Nat]
  <2>1. FrameOK'
    BY <1>5, <1>11, <1>14, <1>15, GrownFrame
  <2> QED
    BY <1>15, <1>16, <2>1 DEF registry, environment
<1>24. Version(auths, a) <= Version(auths', a) /\ op[p].auth = a
  BY <1>1, <1>2, <1>11, <1>18
<1>25. \A q \in Procs \ {p} : Notes(op[q], op'[q], a)
  BY <1>20
<1>26. sched' = [sched EXCEPT ![a] = e] /\ Publish(a, new.version)
  BY <1>14
<1>27. new.version # Version(auths', a) =>
         /\ auths' = auths
         /\ \A q \in Procs :
              Carries(op[q], a, Version(auths, a)) => Carries(op'[q], a, Version(auths, a))
  BY <1>18
<1> QED
  BY <1>5, <1>11, <1>13, <1>18, <1>19, <1>21, <1>22, <1>23, <1>24, <1>25, <1>26, <1>27, PublishStep

\* The scheduler is rebuilt from the snapshot.
LEMMA RebuiltEntry ==
  ASSUME ManagerInv, NEW a \in Auths, NEW auth \in Auth \cup {NoAuth}, auth # NoAuth => Sound(auth),
         NEW e, e = IF auth = NoAuth THEN NoEntry ELSE Entry(a, auth, FALSE, {})
  PROVE  /\ e \in SchedRecords /\ ~e.shared /\ Agrees(e, auth, {}, now)
         /\ e.auth # NoAuth => auth # NoAuth /\ e.models = supported[a]
PROOF
<1>1. CASE auth = NoAuth
  <2>1. e \in SchedRecords /\ e.auth = NoAuth /\ ~e.shared
    BY <1>1 DEF NoEntry, SchedRecords, ZeroTime
  <2> QED
    BY <1>1, <2>1 DEF Agrees
<1>2. CASE auth # NoAuth
  <2>1. PICK shared \in BOOLEAN : shared = FALSE
    OBVIOUS
  <2>2. PICK indexed : indexed = {}
    OBVIOUS
  <2>3. PICK x : x = Entry(a, auth, shared, indexed)
    OBVIOUS
  <2>4. auth \in Auth /\ Sound(auth)
    BY <1>2
  <2>5. /\ x \in SchedRecords /\ Agrees(x, auth, indexed, now)
        /\ x.auth = NoAuth \/ (x.auth = auth /\ x.models = supported[a] /\ x.shared = shared)
        /\ x.auth = NoAuth => ~x.shared
    BY <2>3, <2>4, EntryFacts
  <2>6. e = x
    BY <1>2, <2>1, <2>2, <2>3
  <2> QED
    BY <1>2, <2>1, <2>2, <2>5, <2>6
<1> QED
  BY <1>1, <1>2

LEMMA Rebuilt ==
  ASSUME ManagerInv, NEW p \in Procs, Rebuild(p)
  PROVE  ManagerInv'
PROOF
<1>1. PICK o : o = op[p]
  OBVIOUS
<1>2. PICK step \in Steps : step = "rebuild"
  BY DEF Steps
<1>3. Doing(p, step)
  BY <1>2 DEF Rebuild
<1>4. o.auth = NoAuth /\ ~o.shared /\ o.todo # <<>> /\ Head(o.todo) = "rebuild"
  BY <1>1, <1>2, <1>3, DoingFacts DEF Picking
<1>5. GoodOp(o, auths) /\ o \in OpRecords
  BY <1>1, OwnFacts
<1>6. TypeParts
  BY TypeFacts DEF ManagerInv
<1>7. PICK n : n = [o EXCEPT !.todo = Tail(o.todo)]
  OBVIOUS
<1>8. /\ sched' = [a \in Auths |-> IF o.all[a] = NoAuth THEN NoEntry
                                   ELSE Entry(a, o.all[a], FALSE, {})]
      /\ shards' = {}
      /\ op' = [q \in Procs |-> IF q = p THEN n ELSE Contest(q, Auths)]
      /\ UNCHANGED <<auths, registry, environment, started, marked>>
  BY <1>1, <1>7 DEF Rebuild, Rest
<1>9. Tail(o.todo) \in Seq(Steps)
  BY <1>4, <1>5, TailFacts DEF OpRecords
<1>10. /\ n \in OpRecords /\ n.todo = Tail(o.todo) /\ n.auth = o.auth /\ n.model = o.model
       /\ n.held = o.held /\ n.all = o.all /\ ~n.shared
  BY <1>4, <1>5, <1>7, <1>9 DEF OpRecords
<1>11. GoodOp(n, auths)
  <2>1. /\ n.held # NoAuth => Sound(n.held)
        /\ \A a \in Auths : n.all[a] # NoAuth =>
             a \in KnownIn(auths) /\ Sound(n.all[a]) /\ Was(auths, a, n.all[a])
    BY <1>5, <1>10 DEF GoodOp
  <2> QED
    BY <1>4, <1>5, <1>10, <2>1, RestGood
<1>12. \A q \in Procs \ {p} : /\ op'[q] \in OpRecords /\ GoodOp(op'[q], auths)
                              /\ op'[q].held = op[q].held
                              /\ \A a \in Auths : Notes(op[q], op'[q], a)
  <2> TAKE q \in Procs \ {p}
  <2>1. PICK m : m = op'[q]
    OBVIOUS
  <2>2. PICK changed \in SUBSET Auths : changed = Auths
    OBVIOUS
  <2>3. m = Contest(q, changed)
    BY <1>8, <2>1, <2>2
  <2> QED
    BY <2>1, <2>2, <2>3, ContestFacts
<1>13. op'[p] = n
  BY <1>8
<1>14. op' \in [Procs -> OpRecords] /\ \A q \in Procs : GoodOp(op'[q], auths')
  <2>1. \A q \in Procs : op'[q] \in OpRecords /\ GoodOp(op'[q], auths)
    BY <1>10, <1>11, <1>12, <1>13
  <2> QED
    BY <1>8, <2>1
<1>15. \A a \in Auths : /\ o.all[a] \in Auth \cup {NoAuth}
                        /\ o.all[a] # NoAuth => a \in KnownIn(auths) /\ Sound(o.all[a])
                                                /\ Was(auths, a, o.all[a])
  BY <1>5 DEF GoodOp, OpRecords
<1>16. \A a \in Auths : /\ sched'[a] \in SchedRecords /\ ~sched'[a].shared
                        /\ Agrees(sched'[a], o.all[a], {}, now)
                        /\ sched'[a].auth # NoAuth => o.all[a] # NoAuth
                                                      /\ sched'[a].models = supported[a]
  <2> TAKE a \in Auths
  <2>1. PICK auth \in Auth \cup {NoAuth} : auth = o.all[a] /\ (auth # NoAuth => Sound(auth))
    BY <1>15
  <2>2. PICK e : e = IF auth = NoAuth THEN NoEntry ELSE Entry(a, auth, FALSE, {})
    OBVIOUS
  <2>3. sched'[a] = e
    BY <1>8, <2>1, <2>2
  <2>4. /\ e \in SchedRecords /\ ~e.shared /\ Agrees(e, auth, {}, now)
        /\ e.auth # NoAuth => auth # NoAuth /\ e.models = supported[a]
    BY <2>1, <2>2, RebuiltEntry
  <2> QED
    BY <2>1, <2>3, <2>4
<1>17. ASSUME NEW a \in Auths
       PROVE  \E v \in Nat :
                /\ v = (IF o.all[a] = NoAuth THEN 0 ELSE o.all[a].version)
                /\ v <= Version(auths, a) /\ Version(auths, a) \in Nat
                /\ shown'[a] = [last |-> v, newest |-> IF v > shown[a].newest
                                                         THEN v ELSE shown[a].newest]
  <2>1. PICK v : v = IF o.all[a] = NoAuth THEN 0 ELSE o.all[a].version
    OBVIOUS
  <2>2. Version(auths, a) \in Nat
    BY <1>6 DEF TypeParts, Version, Auth
  <2>3. v \in Nat /\ v <= Version(auths, a)
    BY <1>15, <2>1, <2>2 DEF Was, Auth
  <2>4. shown'[a] = [last |-> v, newest |-> IF v > shown[a].newest THEN v ELSE shown[a].newest]
    BY <1>1, <2>1 DEF Rebuild
  <2> QED
    BY <2>1, <2>2, <2>3, <2>4
<1>18. \A a \in Auths : shown[a].newest \in Nat /\ shown[a].newest <= Version(auths, a)
  BY <1>6 DEF TypeParts, ManagerInv, ShownInv
<1>19. \A a \in Auths : /\ shown'[a] \in [last : Nat, newest : Nat]
                        /\ shown'[a].last = IF o.all[a] = NoAuth THEN 0 ELSE o.all[a].version
                        /\ shown'[a].last <= shown'[a].newest
                        /\ shown[a].newest <= shown'[a].newest
                        /\ shown'[a].newest <= Version(auths, a)
  <2> TAKE a \in Auths
  <2>1. PICK v \in Nat :
          /\ v = (IF o.all[a] = NoAuth THEN 0 ELSE o.all[a].version)
          /\ v <= Version(auths, a) /\ Version(auths, a) \in Nat
          /\ shown'[a] = [last |-> v, newest |-> IF v > shown[a].newest
                                                   THEN v ELSE shown[a].newest]
    BY <1>17
  <2> QED
    BY <1>18, <2>1
<1>20. shown' \in [Auths -> [last : Nat, newest : Nat]]
  <2>1. PICK f : f = [a \in Auths |-> shown'[a]]
    OBVIOUS
  <2>2. shown' = f
    BY <2>1 DEF Rebuild
  <2> QED
    BY <1>19, <2>1, <2>2
<1>21. sched' \in [Auths -> SchedRecords] /\ shards' \subseteq Models
  BY <1>8, <1>16
<1>22. FrameOK' /\ UNCHANGED <<supported, now, auths, marked>>
  <2>1. started' \in Nat /\ KnownIn(auths) \subseteq KnownIn(auths')
    BY <1>6, <1>8 DEF TypeParts, FrameOK
  <2> QED
    BY <1>8, <2>1, FrameKept DEF registry, environment
<1>23. TypeOK' /\ ScopeInv'
  BY <1>6, <1>14, <1>20, <1>21, <1>22, TypeFacts DEF TypeParts
<1>24. OpsInv' /\ StoredInv'
  BY <1>14, <1>22 DEF OpsInv, ManagerInv, StoredInv, Known
<1>25. ASSUME NEW q \in Procs, NEW b \in Auths
       PROVE  /\ Pub(op[q], b) => Pub(op'[q], b)
              /\ \A version : Carries(op[q], b, version) => Carries(op'[q], b, version)
  <2>1. CASE q = p
    BY <1>1, <1>4, <2>1, NoAuthFacts DEF Pub, Carries
  <2>2. CASE q # p
    <3>1. PICK x : x = op[q]
      OBVIOUS
    <3>2. PICK m : m = op'[q]
      OBVIOUS
    <3>3. Notes(x, m, b) /\ m.held = x.held
      BY <1>12, <2>2, <3>1, <3>2
    <3> QED
      BY <3>1, <3>2, <3>3, NotesFacts
  <2> QED
    BY <2>1, <2>2
<1>26. ShownInv'
  <2>1. ASSUME NEW a \in Auths, shown'[a].newest < Version(auths, a)
        PROVE  \E q \in Procs : Carries(op'[q], a, Version(auths, a))
    <3>1. Version(auths, a) \in Nat /\ shown'[a].newest \in Nat
      BY <1>6, <1>19 DEF TypeParts, Version, Auth
    <3>2. shown[a].newest < Version(auths, a)
      BY <1>18, <1>19, <2>1, <3>1
    <3>3. PICK q \in Procs : Carries(op[q], a, Version(auths, a))
      BY <3>2 DEF ManagerInv, ShownInv
    <3>4. PICK version : version = Version(auths, a)
      OBVIOUS
    <3> QED
      BY <1>25, <3>3, <3>4
  <2> QED
    BY <1>19, <1>22, <2>1 DEF ShownInv
<1>27. SchedInv'
  <2>1. ASSUME NEW a \in Auths, sched'[a].auth # NoAuth PROVE auths'[a] # NoAuth
    BY <1>15, <1>16, <1>22, <2>1 DEF KnownIn
  <2>2. ASSUME NEW a \in Auths, shown'[a].last = Version(auths', a)
        PROVE  Agrees(sched'[a], auths'[a], shards', now')
    <3>1. o.all[a] = auths[a]
      <4>1. CASE o.all[a] = NoAuth
        <5>1. Version(auths, a) = 0
          BY <1>19, <1>22, <2>2, <4>1
        <5>2. auths[a] = NoAuth
          BY <5>1, StoredFacts
        <5> QED
          BY <4>1, <5>2
      <4>2. CASE o.all[a] # NoAuth
        BY <1>15, <1>19, <1>22, <2>2, <4>2 DEF Was
      <4> QED
        BY <4>1, <4>2
    <3> QED
      BY <1>8, <1>16, <1>22, <3>1
  <2>3. ASSUME NEW a \in Auths, sched'[a].auth # NoAuth PROVE sched'[a].models = supported'[a]
    BY <1>16, <1>22, <2>3
  <2>4. ASSUME NEW q \in Procs, Does(op'[q], "repick"), NEW b \in Auths \ op'[q].contested
        PROVE  Agrees(sched'[b], op'[q].all[b], shards', now') /\ ~sched'[b].shared
    <3>1. CASE q = p
      BY <1>8, <1>10, <1>13, <1>16, <1>22, <3>1
    <3>2. CASE q # p
      <4>1. Notes(op[q], op'[q], b)
        BY <1>12, <3>2
      <4> QED
        BY <2>4, <4>1, NotesFacts DEF Notes, Does
    <3> QED
      BY <3>1, <3>2
  <2> QED
    BY <2>1, <2>2, <2>3, <2>4 DEF SchedInv, Scheduled, Known
<1> QED
  BY <1>23, <1>24, <1>26, <1>27 DEF ManagerInv

-----------------------------------------------------------------------------
(***************************************************************************)
(* The clock, the initial states and every step.                           *)
(***************************************************************************)
LEMMA AgreesLater ==
  ASSUME NEW entry \in SchedRecords, NEW auth \in Auth \cup {NoAuth}, NEW indexed \in SUBSET Models,
         NEW t \in Nat, Agrees(entry, auth, indexed, t)
  PROVE  Agrees(entry, auth, indexed, t + 1)
PROOF
<1>1. CASE auth = NoAuth \/ auth.disabled
  BY <1>1 DEF Agrees
<1>2. CASE ~(auth = NoAuth \/ auth.disabled)
  <2>1. /\ entry.auth = auth
        /\ \A m \in indexed \cap entry.models : UntilOK(entry.until[m], auth, m, t)
    BY <1>2 DEF Agrees
  <2>2. ASSUME NEW m \in indexed \cap entry.models PROVE UntilOK(entry.until[m], auth, m, t + 1)
    <3>1. PICK until \in Nat : until = entry.until[m]
      BY DEF SchedRecords
    <3>2. auth \in Auth /\ m \in Models /\ UntilOK(until, auth, m, t)
      BY <1>2, <2>1, <3>1
    <3> QED
      BY <3>1, <3>2, UntilLater
  <2> QED
    BY <1>2, <2>1, <2>2 DEF Agrees
<1> QED
  BY <1>1, <1>2

LEMMA Ticks ==
  ASSUME ManagerInv, Tick
  PROVE  ManagerInv'
PROOF
<1>1. /\ UNCHANGED <<auths, sched, shards, registry, catalog, rebind, scenario, op, started, marked,
                     shown>>
      /\ now' = now + 1
  BY DEF Tick
<1>2. TypeParts
  BY TypeFacts DEF ManagerInv
<1>3. TypeOK' /\ ScopeInv'
  <2>1. ScopeInv' /\ now' \in Nat
    BY <1>1, <1>2 DEF ManagerInv, ScopeInv, TypeParts
  <2>2. FrameOK'
    BY <1>1, <1>2, <2>1 DEF TypeParts, FrameOK, registry
  <2> QED
    BY <1>1, <1>2, <2>1, <2>2, TypeFacts DEF TypeParts
<1>4. OpsInv' /\ StoredInv' /\ ShownInv'
  BY <1>1 DEF ManagerInv, OpsInv, StoredInv, ShownInv, Known
<1>5. ASSUME NEW a \in Auths, NEW auth \in Auth \cup {NoAuth}, Agrees(sched[a], auth, shards, now)
      PROVE  Agrees(sched'[a], auth, shards', now')
  <2>1. PICK entry \in SchedRecords : entry = sched[a]
    BY <1>2 DEF TypeParts
  <2>2. PICK indexed \in SUBSET Models : indexed = shards
    BY <1>2 DEF TypeParts
  <2>3. Agrees(entry, auth, indexed, now + 1)
    BY <1>2, <1>5, <2>1, <2>2, AgreesLater DEF TypeParts
  <2> QED
    BY <1>1, <2>1, <2>2, <2>3
<1>6. SchedInv'
  <2>1. \A a \in Auths : auths[a] \in Auth \cup {NoAuth}
    BY <1>2 DEF TypeParts
  <2>2. \A q \in Procs, a \in Auths : op[q].all[a] \in Auth \cup {NoAuth}
    BY <1>2 DEF TypeParts, OpRecords
  <2>3. ASSUME NEW a \in Auths, shown'[a].last = Version(auths', a)
        PROVE  Agrees(sched'[a], auths'[a], shards', now')
    <3>1. Agrees(sched[a], auths[a], shards, now)
      BY <1>1, <2>3 DEF ManagerInv, SchedInv
    <3>2. PICK auth \in Auth \cup {NoAuth} : auth = auths[a]
      BY <2>1
    <3> QED
      BY <1>1, <1>5, <3>1, <3>2
  <2>4. ASSUME NEW q \in Procs, Does(op'[q], "repick"), NEW a \in Auths \ op'[q].contested
        PROVE  Agrees(sched'[a], op'[q].all[a], shards', now') /\ ~sched'[a].shared
    <3>1. Agrees(sched[a], op[q].all[a], shards, now) /\ ~sched[a].shared
      BY <1>1, <2>4 DEF ManagerInv, SchedInv
    <3>2. PICK auth \in Auth \cup {NoAuth} : auth = op[q].all[a]
      BY <2>2
    <3> QED
      BY <1>1, <1>5, <3>1, <3>2
  <2>5. /\ \A a \in Auths : sched'[a].auth # NoAuth => auths'[a] # NoAuth
        /\ \A a \in Auths : sched'[a].auth # NoAuth /\ sched'[a].models # supported'[a] =>
             \E q \in Procs : Pub(op'[q], a)
    BY <1>1 DEF ManagerInv, SchedInv, Scheduled, Known, registry
  <2> QED
    BY <2>3, <2>4, <2>5 DEF SchedInv, Scheduled, Known
<1> QED
  BY <1>3, <1>4, <1>6 DEF ManagerInv

LEMMA InitInv == Init => ManagerInv
PROOF
<1> SUFFICES ASSUME Init PROVE ManagerInv
  OBVIOUS
<1> USE DEF Init
<1>1. scenario.models \subseteq Models /\ scenario \in Scenarios
  BY ScenariosAssumption
<1>2. NoEntry \in SchedRecords /\ NoEntry.auth = NoAuth
  BY DEF NoEntry, SchedRecords, ZeroTime
<1>3. IdleOp \in OpRecords /\ IdleOp.todo = <<>>
  BY IdleGood DEF GoodOp, IdleOp
<1>4. TypeOK /\ ScopeInv
  <2>1. ScopeInv
    BY <1>1 DEF ScopeInv
  <2>2. FrameOK
    BY <1>1, <2>1 DEF FrameOK
  <2> QED
    BY <1>2, <1>3, <2>2, TypeFacts DEF TypeParts
<1>5. OpsInv
  BY IdleGood DEF OpsInv
<1>6. \A a \in Auths : auths[a] = NoAuth /\ Version(auths, a) = 0
  BY DEF Version
<1>7. StoredInv
  BY <1>6 DEF StoredInv, Known
<1>8. ShownInv
  BY <1>6 DEF ShownInv
<1>9. SchedInv
  <2>1. \A p \in Procs : ~Does(op[p], "repick")
    BY <1>3 DEF Does
  <2>2. \A a \in Auths : sched[a].auth = NoAuth
    BY <1>2
  <2> QED
    BY <1>6, <2>1, <2>2 DEF SchedInv, Scheduled, Agrees
<1> QED
  BY <1>4, <1>5, <1>7, <1>8, <1>9 DEF ManagerInv

LEMMA Stutters ==
  ASSUME ManagerInv, UNCHANGED vars
  PROVE  ManagerInv'
PROOF
<1>1. UNCHANGED <<auths, sched, shards, supported, suspended, exceeded, catalog, rebind, op, now,
                  started, scenario, marked, shown>>
  BY DEF vars, registry, environment
<1>2. TypeOK' /\ ScopeInv'
  BY <1>1 DEF ManagerInv, TypeOK, ScopeInv
<1>3. OpsInv' /\ StoredInv' /\ ShownInv'
  BY <1>1 DEF ManagerInv, OpsInv, StoredInv, ShownInv, Known
<1>4. SchedInv'
  BY <1>1 DEF ManagerInv, SchedInv, Scheduled, Known
<1> QED
  BY <1>2, <1>3, <1>4 DEF ManagerInv

LEMMA NextInv ==
  ASSUME ManagerInv, [Next]_vars
  PROVE  ManagerInv'
PROOF
<1>1. CASE UNCHANGED vars
  BY <1>1, Stutters
<1>2. CASE Tick
  BY <1>2, Ticks
<1>3. ASSUME NEW p \in Procs,
             RequestStep(p) \/ ServiceStep(p) \/ RefreshStep(p) \/ Store(p) \/ Upsert(p)
      PROVE  ManagerInv'
  <2>1. CASE RequestStep(p)
    <3>1. CASE Pick(p) \/ PickMiss(p) \/ Refuse(p)
      BY <3>1, PickSteps
    <3>2. CASE \/ ClearModelQuotaExceeded(p) \/ SetModelQuotaExceeded(p)
               \/ ResumeClientModel(p) \/ SuspendClientModel(p)
      BY <3>2, RegistrySteps
    <3>3. CASE StartRequest(p)
      BY <3>3, RequestStarts
    <3>4. CASE Snapshot(p)
      BY <3>4, SnapshotTaken
    <3>5. CASE Rebuild(p)
      BY <3>5, Rebuilt
    <3>6. CASE MarkSuccess(p)
      BY <3>6, SuccessMarked
    <3>7. CASE MarkFailure(p)
      BY <3>7, FailureMarked
    <3> QED
      BY <2>1, <3>1, <3>2, <3>3, <3>4, <3>5, <3>6, <3>7 DEF RequestStep
  <2>2. CASE ServiceStep(p)
    <3>1. CASE StartAddOrUpdate(p)
      BY <3>1, AddOrUpdateStarts
    <3>2. CASE Merge(p)
      BY <3>2, Merges
    <3>3. CASE StartRemoval(p)
      BY <3>3, RemovalStarts
    <3>4. CASE Register(p) \/ Unregister(p)
      BY <3>4, Registrations
    <3>5. CASE Disable(p)
      BY <3>5, Disables
    <3>6. CASE StartCatalogRefresh(p)
      BY <3>6, CatalogRefreshStarts
    <3>7. CASE Revisit(p)
      BY <3>7, Revisits
    <3>8. CASE Latest(p)
      BY <3>8, LatestTaken
    <3>9. CASE ReadModels(p)
      BY <3>9, ModelsRead
    <3>10. CASE Reconcile(p)
      BY <3>10, Reconciles
    <3>11. CASE ReadEntry(p)
      BY <3>11, EntryRead
    <3> QED
      BY <2>2, <3>1, <3>2, <3>3, <3>4, <3>5, <3>6, <3>7, <3>8, <3>9, <3>10, <3>11 DEF ServiceStep
  <2>3. CASE RefreshStep(p)
    <3>1. CASE StartTokenRefresh(p)
      BY <3>1, TokenRefreshStarts
    <3>2. CASE ReadToken(p)
      BY <3>2, TokenRead
    <3>3. CASE TokenRefreshed(p)
      BY <3>3, TokenAnswered
    <3>4. CASE TokenRefreshCanceled(p)
      BY <3>4, TokenCanceled
    <3>5. CASE TokenRefreshFailed(p)
      BY <3>5, TokenFailed
    <3> QED
      BY <2>3, <3>1, <3>2, <3>3, <3>4, <3>5 DEF RefreshStep
  <2>4. CASE Store(p)
    BY <2>4, Stores
  <2>5. CASE Upsert(p)
    BY <2>5, Upserts
  <2> QED
    BY <1>3, <2>1, <2>2, <2>3, <2>4, <2>5
<1> QED
  BY <1>1, <1>2, <1>3 DEF Next

LEMMA AlwaysInv == Spec => []ManagerInv
PROOF
<1>1. Init => ManagerInv
  BY InitInv
<1>2. ManagerInv /\ [Next]_vars => ManagerInv'
  BY NextInv
<1> QED
  BY <1>1, <1>2, PTL DEF Spec

-----------------------------------------------------------------------------
(***************************************************************************)
(* What the runs check on small instances, for every value of the          *)
(* constants.                                                              *)
(***************************************************************************)
\* The manager's map, the scheduler, the registry's bindings and what each
\* goroutine carries keep their types.
THEOREM TypesCorrect == Spec => []TypeOK
PROOF
<1>1. ManagerInv => TypeOK
  BY DEF ManagerInv
<1> QED
  BY <1>1, AlwaysInv, PTL

\* MarkResult never lets a backoff level grow past the one whose cooldown is
\* the maximum, so 1 << level stays in range.
THEOREM LevelsBounded == Spec => []BackoffBounded
PROOF
<1>1. ManagerInv => BackoffBounded
  BY DEF ManagerInv, StoredInv, Sound, StateOK, LevelOK, BackoffBounded
<1> QED
  BY <1>1, AlwaysInv, PTL

\* Each result MarkResult recorded for a credential stays counted: no update
\* and no token refresh replaces the record with fewer.
THEOREM NoResultForgotten == Spec => []ResultsCounted
PROOF
<1>1. ManagerInv => ResultsCounted
  BY DEF ManagerInv, StoredInv, ResultsCounted
<1> QED
  BY <1>1, AlwaysInv, PTL

\* A credential is unavailable as a whole, with a retry time to come, only
\* while each of its models is blocked.
THEOREM WithheldOnlyWhenBlocked == Spec => []AggregateSound
PROOF
<1>1. ManagerInv => AggregateSound
  <2> SUFFICES ASSUME ManagerInv, NEW a \in Auths, Known(a), auths[a].next > now,
                      NEW m \in Present(auths[a].states)
               PROVE  StateBlocked(auths[a].states[m], now)
    BY DEF AggregateSound
  <2>1. now \in Nat
    BY TypeFacts DEF ManagerInv, TypeParts
  <2>2. auths[a] \in Auth /\ AggregateOK(auths[a])
    BY StoredFacts DEF Known, Sound
  <2>3. auths[a].next \in Nat /\ m \in Models /\ auths[a].states[m].next \in Nat
        /\ auths[a].states[m].present
    BY <2>2 DEF Auth, ModelState, Present
  <2>4. auths[a].states[m].unavailable /\ auths[a].states[m].next >= auths[a].next
    BY <2>1, <2>2, <2>3 DEF AggregateOK, ZeroTime
  <2> QED
    BY <2>1, <2>3, <2>4 DEF StateBlocked
<1> QED
  BY <1>1, AlwaysInv, PTL

\* Once no goroutine is about to publish a credential, the scheduler knows it
\* by exactly the models the registry lists for it.
THEOREM ModelsKnown == Spec => []SchedulerKnowsModels
PROOF
<1>1. ManagerInv => SchedulerKnowsModels
  <2> SUFFICES ASSUME ManagerInv, NEW a \in Auths, Quiet(a), Scheduled(a)
               PROVE  sched[a].models = supported[a]
    BY DEF SchedulerKnowsModels
  <2>1. \A p \in Procs : ~Pub(op[p], a)
    BY OwnFacts DEF Quiet
  <2> QED
    BY <2>1 DEF ManagerInv, SchedInv
<1> QED
  BY <1>1, AlwaysInv, PTL

\* Unless a credential is about to be published, or an older version of it
\* overtook a newer one, the scheduler offers what the manager's own test of
\* the credential would.
THEOREM SchedulerTrue == Spec => []SchedulerFollowsManager
PROOF
<1>1. ManagerInv => SchedulerFollowsManager
  <2> SUFFICES ASSUME ManagerInv, NEW a \in Auths, Quiet(a), ~Overtaken(a)
               PROVE  /\ Scheduled(a) <=> Known(a) /\ ~auths[a].disabled
                      /\ Scheduled(a) => \A m \in shards \cap sched[a].models :
                           IF sched[a].until[m] = ZeroTime
                             THEN ~Blocked(auths[a], m, now) \/ ~Enabled(auths[a])
                             ELSE sched[a].until[m] > now =>
                                    Blocked(auths[a], m, now) \/ HeldBackByQuota(auths[a], m)
    BY DEF SchedulerFollowsManager
  <2>1. TypeParts
    BY TypeFacts DEF ManagerInv
  <2>2. \A p \in Procs : ~Carries(op[p], a, Version(auths, a))
    <3> TAKE p \in Procs
    <3>1. PICK version : version = Version(auths, a)
      OBVIOUS
    <3> QED
      BY <3>1, OwnFacts, CarriesCases DEF Quiet
  <2>3. shown[a].last = Version(auths, a)
    <3>1. shown[a].last \in Nat /\ shown[a].newest \in Nat /\ Version(auths, a) \in Nat
      BY <2>1 DEF TypeParts, Version, Auth
    <3>2. /\ shown[a].last <= shown[a].newest /\ shown[a].newest <= Version(auths, a)
          /\ ~(shown[a].newest < Version(auths, a))
      BY <2>2 DEF ManagerInv, ShownInv
    <3> QED
      BY <3>1, <3>2 DEF Overtaken
  <2>4. Agrees(sched[a], auths[a], shards, now)
    BY <2>3 DEF ManagerInv, SchedInv
  <2>5. Scheduled(a) <=> Known(a) /\ ~auths[a].disabled
    BY <2>4 DEF Agrees, Scheduled, Known
  <2>6. ASSUME Scheduled(a), NEW m \in shards \cap sched[a].models
        PROVE  IF sched[a].until[m] = ZeroTime
                 THEN ~Blocked(auths[a], m, now) \/ ~Enabled(auths[a])
                 ELSE sched[a].until[m] > now =>
                        Blocked(auths[a], m, now) \/ HeldBackByQuota(auths[a], m)
    <3>1. Known(a) /\ ~auths[a].disabled
      BY <2>5, <2>6
    <3>2. auths[a] \in Auth /\ m \in Models /\ now \in Nat /\ sched[a].until[m] \in Nat
      BY <2>1, <3>1 DEF TypeParts, Known, SchedRecords
    <3>3. UntilOK(sched[a].until[m], auths[a], m, now)
      BY <2>4, <2>6, <3>1 DEF Agrees, Known
    <3> QED
      BY <3>2, <3>3, UntilSays
  <2> QED
    BY <2>5, <2>6
<1> QED
  BY <1>1, AlwaysInv, PTL

LEMMA RefusalFair ==
  ASSUME ManagerInv, NEW p \in Procs, Refuse(p), NEW a \in Auths,
         Usable(a, op[p].all[a], op[p].model), a \notin op[p].contested,
         \A q \in Procs \ {p} : ~Publishing(q, a)
  PROVE  FALSE
PROOF
<1>1. TypeParts
  BY TypeFacts DEF ManagerInv
<1>2. PICK m : m = op[p].model
  OBVIOUS
<1>3. Doing(p, "repick") /\ Ready(Promoted(m), m) = {}
  BY <1>2 DEF Refuse
<1>4. op[p].auth = NoAuth /\ m \in Models
  BY <1>2, <1>3, DoingFacts DEF Steps, Picking, OfModel
<1>5. PICK auth \in Auth \cup {NoAuth} : auth = op[p].all[a]
  BY <1>1 DEF TypeParts, OpRecords
<1>6. /\ auth \in Auth /\ auth # NoAuth /\ ~Blocked(auth, m, now) /\ ~HeldBackByQuota(auth, m)
      /\ m \in supported[a]
  BY <1>2, <1>5 DEF Usable
<1>7. Agrees(sched[a], auth, shards, now)
  BY <1>3, <1>5, OwnFacts DEF ManagerInv, SchedInv
<1>8. Enabled(auth) /\ ~auth.disabled
  BY <1>6 DEF Blocked, Enabled
<1>9. sched[a].auth = auth
      /\ \A i \in shards \cap sched[a].models : UntilOK(sched[a].until[i], auth, i, now)
  BY <1>6, <1>7, <1>8 DEF Agrees
<1>10. sched[a].models = supported[a]
  <2>1. \A q \in Procs : ~Pub(op[q], a)
    BY <1>4, OwnFacts, NoAuthFacts DEF Pub
  <2> QED
    BY <1>6, <1>9, <2>1 DEF ManagerInv, SchedInv, Scheduled
<1>11. PICK e : e = Promoted(m)[a]
  OBVIOUS
<1>12. /\ e.auth = sched[a].auth /\ e.models = sched[a].models
       /\ IF /\ sched[a].auth # NoAuth /\ m \in sched[a].models
             /\ m \in shards => sched[a].until[m] # ZeroTime /\ sched[a].until[m] <= now
            THEN e.until[m] = Until(sched[a].auth, m, now)
            ELSE e.until[m] = sched[a].until[m]
  BY <1>4, <1>11, PromotedFacts
<1>13. e.until[m] # ZeroTime
  BY <1>3, <1>6, <1>9, <1>10, <1>11, <1>12 DEF Ready
<1>14. Until(auth, m, now) = ZeroTime
  BY <1>6 DEF Until
<1>15. /\ m \in shards /\ ~(sched[a].until[m] # ZeroTime /\ sched[a].until[m] <= now)
       /\ sched[a].until[m] # ZeroTime
  BY <1>6, <1>9, <1>10, <1>12, <1>13, <1>14
<1>16. PICK until \in Nat : until = sched[a].until[m]
  BY <1>1, <1>4 DEF TypeParts, SchedRecords
<1>17. now \in Nat /\ until # ZeroTime /\ until > now
  BY <1>1, <1>15, <1>16 DEF TypeParts
<1>18. UntilOK(until, auth, m, now)
  BY <1>6, <1>9, <1>10, <1>15, <1>16
<1>19. Blocked(auth, m, now) \/ HeldBackByQuota(auth, m)
  BY <1>4, <1>6, <1>17, <1>18, UntilSays
<1> QED
  BY <1>6, <1>19

\* A request whose retry finds nothing ready leaves no usable credential
\* behind, except one published after the rebuild or about to be: the
\* scheduler rebuilt from the snapshot misses none of the others.
THEOREM RefusalsJustified == Spec => RefusalJustified
PROOF
<1>1. ASSUME ManagerInv, [Next]_vars
      PROVE  [\A p \in Requests : Refuse(p) =>
                \A a \in Auths :
                  Usable(a, op[p].all[a], op[p].model) =>
                    a \in op[p].contested \/ \E q \in Procs \ {p} : Publishing(q, a)]_vars
  <2> SUFFICES ASSUME NEW p \in Requests, Refuse(p), NEW a \in Auths,
                      Usable(a, op[p].all[a], op[p].model), a \notin op[p].contested,
                      \A q \in Procs \ {p} : ~Publishing(q, a)
               PROVE  FALSE
    OBVIOUS
  <2>1. p \in Procs
    BY DEF Procs
  <2> QED
    BY <1>1, <2>1, RefusalFair
<1> QED
  BY <1>1, AlwaysInv, PTL DEF Spec, RefusalJustified
=============================================================================
