----------------------------- MODULE AuthState -----------------------------
(***************************************************************************)
(* The runtime state the credential manager keeps for one credential (an   *)
(* "auth"), and the pure functions of sdk/cliproxy/auth/conductor.go and   *)
(* selector.go that compute its successors.  Time is a natural number and  *)
(* 0 is Go's zero time, "no instant recorded".  UpdatedAt, StatusMessage   *)
(* and the identity fields are left out: StatusMessage is empty exactly    *)
(* when no error is recorded.                                              *)
(***************************************************************************)
EXTENDS Integers, FiniteSets

CONSTANTS
  Models,             \* model names a credential may serve
  BackoffBase,        \* quotaBackoffBase
  BackoffMax,         \* quotaBackoffMax
  BackoffLimit,       \* the level at which the doubling reaches BackoffMax
  TransientCooldown,  \* 1 minute, after 408 and 5xx
  AccountCooldown,    \* 30 minutes, after 401, 402 and 403
  MissingCooldown,    \* 12 hours, after 404 and "model not supported"
  RetryAfters         \* the Retry-After delays an upstream may name

ASSUME ModelsAssumption == IsFiniteSet(Models)

ASSUME DurationAssumption ==
  /\ {BackoffBase, BackoffMax, TransientCooldown, AccountCooldown,
      MissingCooldown} \subseteq Nat \ {0}
  /\ RetryAfters \subseteq Nat

\* 1800 s / 1 s: the level is at most 11 in the code, far below the 63 at
\* which the shift 1 << level would leave the positive int64 range.
ASSUME BackoffAssumption ==
  /\ BackoffLimit \in Nat
  /\ \A n \in 0..BackoffLimit : 2^n \in Nat
  /\ BackoffBase * 2^BackoffLimit >= BackoffMax

ZeroTime == 0

\* What an upstream call may report, by the class MarkResult sorts it into.
Failures == {"unsupported", "unauthorized", "payment", "missing", "quota",
             "transient", "other", "requestScoped"}

Quota == [exceeded : BOOLEAN, recover : Nat, level : 0..BackoffLimit]
NoQuota == [exceeded |-> FALSE, recover |-> ZeroTime, level |-> 0]

\* ModelStates is a Go map; "present" says that it has an entry for the model.
ModelState == [present : BOOLEAN, unavailable : BOOLEAN, status : {"active", "error"},
               next : Nat, failed : BOOLEAN, quota : Quota]
CleanState == [present |-> TRUE, unavailable |-> FALSE, status |-> "active",
               next |-> ZeroTime, failed |-> FALSE, quota |-> NoQuota]
NoState == [CleanState EXCEPT !.present = FALSE]

Auth == [disabled : BOOLEAN, status : {"active", "error", "disabled"},
         unavailable : BOOLEAN, next : Nat, quota : Quota,
         error : {"none", "unauthorized", "other"},
         states : [Models -> ModelState], results : Nat, version : Nat]

FreshAuth == [disabled |-> FALSE, status |-> "active", unavailable |-> FALSE,
              next |-> ZeroTime, quota |-> NoQuota, error |-> "none",
              states |-> [m \in Models |-> NoState], results |-> 0, version |-> 0]

Enabled(auth) == ~auth.disabled /\ auth.status # "disabled"

Present(states) == {m \in Models : states[m].present}

(***************************************************************************)
(* Readiness of a credential for one model.                                *)
(***************************************************************************)
StateBlocked(state, now) == state.present /\ state.unavailable /\ state.next > now

Blocked(auth, m, now) ==
  \/ ~Enabled(auth)
  \/ StateBlocked(auth.states[m], now)

\* The instant reported with a block: the quota's recovery when it is later.
BlockedUntil(auth, m, now) ==
  LET state == auth.states[m]
  IN  IF state.quota.recover > now THEN state.quota.recover ELSE state.next

(***************************************************************************)
(* Exponential backoff after a 429 that names no delay.                    *)
(***************************************************************************)
\* Bug: the level grows once more after the maximum is reached.
nextQuotaCooldownPastMax(level) ==
  LET cooldown == BackoffBase * 2^level
  IN  IF cooldown > BackoffMax
        THEN [cooldown |-> BackoffMax, level |-> level]
        ELSE [cooldown |-> cooldown, level |-> level + 1]

nextQuotaCooldown(level) ==
  LET cooldown == BackoffBase * 2^level
  IN  IF cooldown >= BackoffMax
        THEN [cooldown |-> BackoffMax, level |-> level]
        ELSE [cooldown |-> cooldown, level |-> level + 1]

(***************************************************************************)
(* Credential-level availability, recomputed from the model states.        *)
(* Expired blocks are cleared on the way; quota marks are kept.            *)
(***************************************************************************)
Expire(state, now) ==
  IF state.present /\ state.unavailable /\ state.next # ZeroTime /\ state.next <= now
    THEN [state EXCEPT !.unavailable = FALSE, !.next = ZeroTime]
    ELSE state

\* Bug: the last recovery decides, not the first.
LatestInstant(times) == CHOOSE t \in times : \A u \in times : t >= u

Earliest(times) == CHOOSE t \in times : \A u \in times : t <= u

\* Once a known recovery is held only an earlier known one replaces it, so the
\* result does not depend on Go's map order.
QuotaExceeded(states) == {m \in Present(states) : states[m].quota.exceeded}

QuotaRecover(states) ==
  LET known == {states[m].quota.recover : m \in QuotaExceeded(states)} \ {ZeroTime}
  IN  IF known = {} THEN ZeroTime ELSE Earliest(known)

QuotaLevel(states) ==
  LET exceeded == QuotaExceeded(states)
  IN  IF exceeded = {} THEN 0
      ELSE states[CHOOSE m \in exceeded :
             \A n \in exceeded : states[n].quota.level <= states[m].quota.level].quota.level

updateAggregatedAvailability(auth, now) ==
  LET states  == [m \in Models |-> Expire(auth.states[m], now)]
      blocked == {m \in Models : StateBlocked(states[m], now)}
      all     == blocked # {} /\ blocked = Present(states)
  IN  [auth EXCEPT
         !.states = states,
         !.unavailable = all,
         !.next = IF all THEN Earliest({states[m].next : m \in blocked})
                         ELSE ZeroTime,
         !.quota = [exceeded |-> QuotaExceeded(states) # {},
                    recover |-> QuotaRecover(states),
                    level |-> QuotaLevel(states)]]

hasModelError(auth, now) ==
  \E m \in Present(auth.states) :
    LET state == auth.states[m]
    IN  \/ state.failed
        \/ /\ state.status = "error" /\ state.unavailable
           /\ state.next = ZeroTime \/ state.next > now

ClearErrorUnlessModelError(auth, now) ==
  IF hasModelError(auth, now) THEN auth
  ELSE [auth EXCEPT !.error = "none", !.status = "active"]

(***************************************************************************)
(* MarkResult's effect on the credential.  coolingOff says that cooldowns  *)
(* are disabled for it; delay is the Retry-After of a 429, NoDelay if the  *)
(* upstream named none.                                                    *)
(***************************************************************************)
NoDelay == -1

StateOf(auth, m) == IF auth.states[m].present THEN auth.states[m] ELSE CleanState

ErrorClass(failure) == IF failure = "unauthorized" THEN "unauthorized" ELSE "other"

MarkModelSuccess(auth, m, now) ==
  ClearErrorUnlessModelError(
    updateAggregatedAvailability([auth EXCEPT !.states[m] = CleanState], now),
    now)

\* 429: the delay the upstream named, or the next step of the backoff.
QuotaNext(level, delay, now) ==
  IF delay # NoDelay
    THEN [next |-> now + delay, level |-> level]
    ELSE LET backoff == nextQuotaCooldown(level)
         IN  [next |-> now + backoff.cooldown, level |-> backoff.level]

\* Every other class: NextRetryAfter, zero when the class sets none.
FixedNext(failure, coolingOff, now) ==
  CASE failure = "unsupported"                                -> now + MissingCooldown
    [] failure \in {"unauthorized", "payment"} /\ ~coolingOff -> now + AccountCooldown
    [] failure = "missing" /\ ~coolingOff                     -> now + MissingCooldown
    [] failure = "transient" /\ ~coolingOff                   -> now + TransientCooldown
    [] OTHER                                                  -> ZeroTime

FailedState(state, failure, delay, coolingOff, now) ==
  LET marked == [state EXCEPT !.unavailable = TRUE, !.status = "error", !.failed = TRUE]
      quota  == IF coolingOff THEN [next |-> ZeroTime, level |-> state.quota.level]
                              ELSE QuotaNext(state.quota.level, delay, now)
  IN  IF failure = "quota"
        THEN [marked EXCEPT !.next = quota.next,
                            !.quota = [exceeded |-> TRUE, recover |-> quota.next,
                                       level |-> quota.level]]
        ELSE [marked EXCEPT !.next = FixedNext(failure, coolingOff, now)]

MarkModelFailure(auth, m, failure, delay, coolingOff, now) ==
  IF failure = "requestScoped" THEN auth
  ELSE updateAggregatedAvailability(
         [auth EXCEPT
            !.states[m] = FailedState(StateOf(auth, m), failure, delay, coolingOff, now),
            !.error = ErrorClass(failure), !.status = "error"],
         now)

\* Failures for which MarkResult also suspends the model in the registry.
Suspends(failure, coolingOff) ==
  \/ failure = "unsupported"
  \/ failure \in {"unauthorized", "payment", "missing", "quota"} /\ ~coolingOff

(***************************************************************************)
(* Reconciliation with the models the registry lists for the credential.   *)
(***************************************************************************)
NeedsReconcile(auth, supported) ==
  \E m \in Present(auth.states) : m \notin supported \/ auth.states[m] # CleanState

ReconcileStates(auth, supported, now) ==
  IF ~NeedsReconcile(auth, supported) THEN auth
  ELSE ClearErrorUnlessModelError(
         updateAggregatedAvailability(
           [auth EXCEPT !.states = [m \in Models |->
              IF m \in supported /\ @[m].present THEN CleanState ELSE NoState]], now),
         now)

(***************************************************************************)
(* A new value for a credential inherits the counters, and the model       *)
(* states when both are enabled and the new value carries none.            *)
(***************************************************************************)
\* Bug: the counters start again with every new value.
InheritStatesOnly(new, old) ==
  [new EXCEPT !.states = IF Enabled(old) /\ Enabled(new) /\ Present(@) = {}
                           THEN old.states ELSE @]

Inherit(new, old) ==
  [new EXCEPT !.results = old.results,
              !.states = IF Enabled(old) /\ Enabled(new) /\ Present(@) = {}
                           THEN old.states ELSE @]
=============================================================================
