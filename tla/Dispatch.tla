------------------------------ MODULE Dispatch ------------------------------
(***************************************************************************)
(* How a request for one model travels over the credentials:               *)
(* Execute and ExecuteStream of sdk/cliproxy/auth/conductor.go with their  *)
(* rounds, the waits between the rounds and the stream's wrapper, the      *)
(* scheduler's choices (Rotation), and the retries of a stream by its      *)
(* handler, sdk/api/handlers/handlers.go.                                  *)
(*                                                                         *)
(* Requests interleave at every call of a provider, every wait and every   *)
(* chunk.  A choice is atomic, as it is under the scheduler's mutex; so is *)
(* the record of a result, whose steps module AuthManager takes apart.     *)
(* left[a] counts down to the end of a's cooldown, a tick at a time; an    *)
(* index may hold a credential blocked after its cooldown is over, until a *)
(* pick of its provider's shard.                                           *)
(***************************************************************************)
EXTENDS Rotation

CONSTANTS
  Requests,
  List,            \* the sequence of providers of each request's model
  Stream,          \* the streaming requests
  Leaving,         \* those whose handler may stop reading before the end
  Kinds,           \* the kinds of a call's failure
  Cooldown,        \* the ticks each kind of failure blocks a credential for
  NoCooling,       \* the credentials with disable-cooling set
  Retry,           \* request-retry, or a credential's override of it
  MaxWait,         \* max-retry-interval
  Fleets           \* the scenarios: see Init

\* invalid: the request's own fault.  limited: status 429, Retry-After one
\* tick.  transient: status 503.  missing: status 404.  other: no status.
ASSUME DispatchAssumption ==
  /\ List \in [Requests -> Seq(Providers) \ {<<>>}]
  /\ \A r \in Requests : IsInjective(List[r])   \* normalizeProviders drops repetitions
  /\ Stream \subseteq Requests /\ Leaving \subseteq Stream
  /\ Kinds = {"invalid", "limited", "transient", "missing", "other"}
  /\ Cooldown \in [Kinds -> Nat] /\ NoCooling \subseteq Auths
  /\ Retry \in [Auths -> Nat] /\ MaxWait \in Nat
  /\ \A f \in Fleets : /\ f.auths \subseteq Auths /\ f.requests \subseteq Requests
                       /\ f.kinds \subseteq Kinds /\ f.limit \in Nat /\ f.restarts \in Nat
                       /\ f.strategy \in {"round-robin", "fill-first"}
                       /\ \A r \in f.requests : OfProviders(f.auths, List[r]) # {}

RetryAfter == 1
NoError == "none"
Lists == {List[r] : r \in Requests}

VARIABLES
  fleet,    \* the credentials, requests and failures at play, the strategy, the
            \* max-retry-credentials and the streaming.bootstrap-retries
  left,     \* the ticks each credential stays blocked
  ready,    \* the credentials the shards' indexes hold as ready
  views,    \* the cursors of each provider's buckets
  slots,    \* the cursor between providers, for each sequence of them
  op,       \* where each request is
  passed,   \* history: the choices of another credential of its bucket since
            \* a credential had its turn
  skipped   \* history: the choices of another provider of a sequence

vars == <<fleet, left, ready, views, slots, op, passed, skipped>>
indexes == <<ready, views, slots>>
history == <<passed, skipped>>

IdleOp == [at |-> "idle", attempt |-> 0, tried |-> {}, auth |-> 0, error |-> NoError,
           boot |-> FALSE, wait |-> 0, promised |-> {}, retries |-> 0, sent |-> FALSE,
           canceled |-> FALSE, cut |-> FALSE, tries |-> 0, unrecorded |-> 0]

Init ==
  /\ fleet \in Fleets
  /\ left = [a \in Auths |-> 0]
  /\ ready = fleet.auths
  /\ views = [p \in Providers |-> [priority \in Priorities |-> FreshView]]
  /\ slots = [l \in Lists |-> 0]
  /\ op = [r \in Requests |-> IdleOp]
  /\ passed = [a \in Auths |-> 0]
  /\ skipped = [l \in Lists |-> [p \in Providers |-> 0]]

At(r, place) == op[r].at = place
Own(r) == OfProviders(fleet.auths, List[r])

-----------------------------------------------------------------------------
(***************************************************************************)
(* History: whose turn is overdue.  A count starts anew when the bucket it  *)
(* is about changes, because cursors are positions.                        *)
(***************************************************************************)
MyBucket(set, a) == Bucket(set, ProviderOf[a], Priority[a])

PassedAfter(new) ==
  [a \in Auths |-> IF MyBucket(new, a) = MyBucket(ready, a) THEN passed[a] ELSE 0]

SkippedAfter(new) ==
  [l \in Lists |->
     IF OfProviders(new, l) = OfProviders(ready, l) THEN skipped[l]
     ELSE [p \in Providers |-> 0]]

\* A choice passes over the other credentials of the bucket; one the request
\* has tried loses its claim.
Pass(counts, bucket, chosen, eligible) ==
  [a \in Auths |-> IF a \notin bucket THEN counts[a]
                   ELSE IF a = chosen \/ a \notin eligible THEN 0
                   ELSE counts[a] + 1]

\* So for the providers that have a credential at the request's best priority,
\* unless the request has tried all there are at the highest.
Skip(counts, new, l, chosen, eligible) ==
  LET top == Best(OfProviders(new, l))
      can == {p \in ToSet(l) : Bucket(new, p, top) \cap eligible # {}}
  IN  [p \in Providers |-> IF p = chosen \/ p \notin can THEN 0 ELSE counts[p] + 1]

-----------------------------------------------------------------------------
(***************************************************************************)
(* Recording a result (MarkResult): the credential's cooldown, and its     *)
(* entry in its provider's shard, whose indexes are rebuilt if the entry   *)
(* changed.                                                                *)
(***************************************************************************)
SameEntry(a, ticks) ==
  IF a \in ready THEN ticks = 0 ELSE ticks > 0 /\ ticks = left[a]

Record(a, ticks) ==
  LET new == IF ticks = 0 THEN ready \cup {a} ELSE ready \ {a}
      p   == ProviderOf[a]
  IN  /\ left' = [left EXCEPT ![a] = ticks]
      /\ IF SameEntry(a, ticks) THEN UNCHANGED <<ready, views, passed, skipped>>
         ELSE /\ ready' = new
              /\ views' = [views EXCEPT ![p] = Rebuilt(@, ready, new, p)]
              /\ passed' = PassedAfter(new)
              /\ skipped' = SkippedAfter(new)
      /\ UNCHANGED <<fleet, slots>>

RecordSuccess(a) == Record(a, 0)
RecordFailure(a, kind) == Record(a, IF a \in NoCooling THEN 0 ELSE Cooldown[kind])

\* The request's record after a step; one that blocks a credential takes it
\* from what the other requests were promised.
Step(r, next) == op' = [op EXCEPT ![r] = next]
StepRecording(r, a, next) ==
  op' = [q \in Requests |->
           IF q = r THEN next
           ELSE [op[q] EXCEPT !.promised = IF left'[a] > 0 THEN @ \ {a} ELSE @]]

\* A finished request, of which only the account of its calls remains.
Finished(o) == [IdleOp EXCEPT !.at = "done", !.canceled = o.canceled, !.cut = o.cut,
                              !.unrecorded = o.unrecorded]

-----------------------------------------------------------------------------
(***************************************************************************)
(* Rounds.                                                                 *)
(***************************************************************************)
Begin(r) ==
  /\ r \in fleet.requests /\ op[r].at \in {"idle", "done"}
  /\ Step(r, [IdleOp EXCEPT !.at = "pick"])
  /\ UNCHANGED <<fleet, left, indexes, history>>

MayTryMore(r) == fleet.limit = 0 \/ Cardinality(op[r].tried) < fleet.limit

\* promoteExpiredLocked, in the shards of the request's providers.
Promoted(r) == ready \cup {a \in Own(r) : left[a] = 0}
PromotedViews(r) ==
  [p \in Providers |->
     IF \E a \in Promoted(r) \ ready : ProviderOf[a] = p
       THEN Rebuilt(views[p], ready, Promoted(r), p) ELSE views[p]]

\* History.
PassOver(r, now, chosen) ==
  IF fleet.strategy = "fill-first" THEN UNCHANGED history
  ELSE LET eligible == Auths \ op[r].tried
       IN  /\ passed' = Pass(PassedAfter(now), MyBucket(now, chosen), chosen, eligible)
           /\ skipped' = [SkippedAfter(now) EXCEPT
                            ![List[r]] = Skip(@, now, List[r], ProviderOf[chosen], eligible)]

Untried(r) == OfProviders(Promoted(r), List[r]) \ op[r].tried

Choice(r, now) ==
  IF fleet.strategy = "fill-first"
    THEN FillFirst(now, PromotedViews(r), List[r], Auths \ op[r].tried, slots[List[r]])
    ELSE RoundRobin(now, PromotedViews(r), List[r], Auths \ op[r].tried, slots[List[r]])

Pick(r) ==
  /\ At(r, "pick") /\ MayTryMore(r) /\ Untried(r) # {}
  /\ \E now \in {Promoted(r)} : \E choice \in {Choice(r, now)} :
       /\ ready' = now
       /\ views' = choice.views
       /\ slots' = [slots EXCEPT ![List[r]] = choice.slot]
       /\ PassOver(r, now, choice.auth)
       /\ Step(r, [op[r] EXCEPT !.at = "call", !.auth = choice.auth,
                                !.tried = @ \cup {choice.auth}, !.promised = {}])
  /\ UNCHANGED <<fleet, left>>

\* No credential can be chosen: pickNextMixed has the scheduler rebuilt
\* (syncScheduler) with all its cursors at zero, and looks again in vain.
\* The round's error is that of its last call, if it made one.
PickMiss(r) ==
  /\ At(r, "pick") /\ MayTryMore(r) /\ Untried(r) = {}
  /\ ready' = {a \in Own(r) : left[a] = 0}
  /\ views' = [p \in Providers |-> [priority \in Priorities |-> FreshView]]
  /\ slots' = [l \in Lists |-> 0]
  /\ passed' = [a \in Auths |-> 0]
  /\ skipped' = [l \in Lists |-> [p \in Providers |-> 0]]
  /\ Step(r, [op[r] EXCEPT !.at = "decide", !.promised = {},
                           !.error = IF @ = NoError THEN "cooling" ELSE @])
  /\ UNCHANGED <<fleet, left>>

\* The round has tried max-retry-credentials of them.
LimitReached(r) ==
  /\ At(r, "pick") /\ ~MayTryMore(r)
  /\ Step(r, [op[r] EXCEPT !.at = "decide"])
  /\ UNCHANGED <<fleet, left, indexes, history>>

-----------------------------------------------------------------------------
(***************************************************************************)
(* A call of a provider with the credential chosen.                        *)
(***************************************************************************)
Called(r) == [op[r] EXCEPT !.tries = @ + 1]

\* prepareRequestAuth fails: recorded, and on to the next credential whatever
\* the failure.
PrepareFails(r) == \E kind \in fleet.kinds :
  /\ At(r, "call")
  /\ RecordFailure(op[r].auth, kind)
  /\ StepRecording(r, op[r].auth,
       [op[r] EXCEPT !.at = "pick", !.error = kind, !.boot = FALSE])

CallSucceeds(r) ==
  /\ At(r, "call") /\ r \notin Stream
  /\ RecordSuccess(op[r].auth)
  /\ StepRecording(r, op[r].auth, Finished(Called(r)))

\* The call fails, a stream also by an error or its end before any payload
\* (boot).  The request's own fault ends the round and is never wrapped as a
\* bootstrap error.
CallFails(r) == \E kind \in fleet.kinds, boot \in BOOLEAN :
  /\ At(r, "call") /\ ~op[r].canceled
  /\ boot => r \in Stream /\ kind # "invalid"
  /\ RecordFailure(op[r].auth, kind)
  /\ StepRecording(r, op[r].auth,
       [Called(r) EXCEPT !.at = IF kind = "invalid" THEN "decide" ELSE "pick",
                         !.error = kind, !.boot = boot])

\* It fails when the client is gone: nothing is recorded.
CallAborted(r) ==
  /\ At(r, "call") /\ op[r].canceled
  /\ Step(r, [Called(r) EXCEPT !.at = "decide", !.error = "canceled", !.boot = FALSE,
                               !.unrecorded = @ + 1])
  /\ UNCHANGED <<fleet, left, indexes, history>>

Cancel(r) ==
  /\ op[r].at \notin {"idle", "done"} /\ ~op[r].canceled
  /\ Step(r, [op[r] EXCEPT !.canceled = TRUE])
  /\ UNCHANGED <<fleet, left, indexes, history>>

-----------------------------------------------------------------------------
(***************************************************************************)
(* The end of a round: shouldRetryAfterError, and another round after the  *)
(* wait it finds.                                                          *)
(***************************************************************************)
\* Bug: closestCooldownWait looks at the credentials of every provider.
CoolingOfAll(r) == {a \in fleet.auths : left[a] > 0 /\ op[r].attempt < Retry[a]}

\* closestCooldownWait's credentials, and retryAllowed's condition.
CoolingOf(r) == {a \in Own(r) : left[a] > 0 /\ op[r].attempt < Retry[a]}
RetryAllowed(r) == \E a \in Own(r) : op[r].attempt < Retry[a]

\* A bootstrap error hides its cause's Retry-After, and the scheduler's
\* cooldown error, of status 429 too, has none.
TellsWhen(r) == op[r].error = "limited" /\ ~op[r].boot

\* The waits that may be chosen: one, or none.
WaitOf(r) ==
  LET cooling == CoolingOf(r)
      wait    == IF cooling # {} THEN Min({left[a] : a \in cooling}) ELSE RetryAfter
  IN  IF /\ op[r].error # "invalid" /\ wait <= MaxWait
         /\ cooling # {} \/ (TellsWhen(r) /\ RetryAllowed(r))
        THEN {wait} ELSE {}

\* History: promised are the credentials the request waits for.
StartWait(r) == \E wait \in WaitOf(r) :
  /\ At(r, "decide")
  /\ Step(r, [op[r] EXCEPT !.at = "wait", !.wait = wait,
                           !.promised = {a \in CoolingOf(r) : left[a] = wait}])
  /\ UNCHANGED <<fleet, left, indexes, history>>

TimerFires(r) ==
  /\ At(r, "wait") /\ op[r].wait = 0
  /\ Step(r, [op[r] EXCEPT !.at = "pick", !.attempt = @ + 1, !.tried = {},
                           !.error = NoError, !.boot = FALSE])
  /\ UNCHANGED <<fleet, left, indexes, history>>

\* waitForCooldown ends with the context: both may be ready.
WaitCanceled(r) ==
  /\ At(r, "wait") /\ op[r].canceled
  /\ Step(r, Finished(op[r]))
  /\ UNCHANGED <<fleet, left, indexes, history>>

\* Bug: time passes for the cooldowns alone.
TickCooldowns ==
  /\ \E a \in Auths : left[a] > 0
  /\ left' = [a \in Auths |-> IF left[a] > 0 THEN left[a] - 1 ELSE 0]
  /\ UNCHANGED <<fleet, indexes, op, history>>

Tick ==
  /\ (\E a \in Auths : left[a] > 0) \/ (\E r \in Requests : op[r].wait > 0)
  /\ left' = [a \in Auths |-> IF left[a] > 0 THEN left[a] - 1 ELSE 0]
  /\ op' = [r \in Requests |-> [op[r] EXCEPT !.wait = IF @ > 0 THEN @ - 1 ELSE 0]]
  /\ UNCHANGED <<fleet, indexes, history>>

-----------------------------------------------------------------------------
(***************************************************************************)
(* A stream: its wrapper (wrapStreamResult) records what becomes of it and *)
(* hands the chunks, in order and one at a time, to the handler, which     *)
(* sends them to the client or starts the request again.                   *)
(***************************************************************************)
\* readStreamBootstrap has got the first payload, or the end of a stream of
\* empty chunks, which counts as one too.
StreamOpens(r) == \E payload \in BOOLEAN :
  /\ At(r, "call") /\ r \in Stream
  /\ Step(r, [Called(r) EXCEPT !.at = IF payload THEN "stream" ELSE "ending",
                               !.unrecorded = @ + 1])
  /\ UNCHANGED <<fleet, left, indexes, history>>

StreamPayload(r) ==
  /\ At(r, "stream") /\ ~op[r].sent
  /\ Step(r, [op[r] EXCEPT !.sent = TRUE])
  /\ UNCHANGED <<fleet, left, indexes, history>>

\* The handler has read enough, or what it cannot pass on, and answers: to
\* the wrapper it is a reader that waits no more.
StreamLeft(r) ==
  /\ At(r, "stream") /\ r \in Leaving
  /\ Step(r, [op[r] EXCEPT !.at = "left"])
  /\ UNCHANGED <<fleet, left, indexes, history>>

\* An error after the first payload, recorded whether or not the client is
\* still there.
StreamError(r) == \E kind \in fleet.kinds :
  /\ At(r, "stream") /\ op[r].sent
  /\ RecordFailure(op[r].auth, kind)
  /\ StepRecording(r, op[r].auth,
       [op[r] EXCEPT !.at = "failed", !.error = kind, !.boot = FALSE,
                     !.unrecorded = @ - 1])

\* The provider's stream ends.
StreamEnds(r) ==
  /\ (At(r, "stream") /\ op[r].sent) \/ At(r, "ending") \/ At(r, "left")
  /\ RecordSuccess(op[r].auth)
  /\ StepRecording(r, op[r].auth, Finished([op[r] EXCEPT !.unrecorded = @ - 1]))

\* Bug: the wrapper forgets that it has recorded a failure.
FailedStreamEndsWell(r) ==
  /\ At(r, "failed")
  /\ RecordSuccess(op[r].auth)
  /\ StepRecording(r, op[r].auth, Finished([op[r] EXCEPT !.unrecorded = @ - 1]))

\* It ends after an error: nothing more to record, and the client gets the
\* error.
FailedStreamEnds(r) ==
  /\ At(r, "failed")
  /\ Step(r, Finished(op[r]))
  /\ UNCHANGED <<fleet, left, indexes, history>>

\* The client is gone when the wrapper has a chunk for it: what remains is
\* read and dropped, and never recorded.
StreamDropped(r) ==
  /\ At(r, "stream") \/ At(r, "ending")
  /\ op[r].canceled
  /\ Step(r, Finished(op[r]))
  /\ UNCHANGED <<fleet, left, indexes, history>>

\* An error in a stream its handler has left is recorded all the same.
LeftFails(r) == \E kind \in fleet.kinds :
  /\ At(r, "left")
  /\ RecordFailure(op[r].auth, kind)
  /\ StepRecording(r, op[r].auth, Finished([op[r] EXCEPT !.unrecorded = @ - 1]))

\* The handler that left cancels the request: dropped, and never recorded.
LeftCut(r) ==
  /\ At(r, "left")
  /\ Step(r, Finished([op[r] EXCEPT !.cut = TRUE]))
  /\ UNCHANGED <<fleet, left, indexes, history>>

-----------------------------------------------------------------------------
(***************************************************************************)
(* The handler's part of a stream, and the end of a request.               *)
(***************************************************************************)
\* ExecuteStream gives up with a bootstrap error as the only chunk of its
\* stream.
Refused(r) == At(r, "decide") /\ WaitOf(r) = {} /\ op[r].boot

\* bootstrapEligible.
Eligible(r) == op[r].error # "missing"

Restarted(r) == [op[r] EXCEPT !.at = "pick", !.attempt = 0, !.tried = {},
                              !.error = NoError, !.boot = FALSE]

\* Bug: the handler's retries are not counted.
BootstrapRetryUncounted(r) ==
  /\ Refused(r) /\ op[r].retries < fleet.restarts /\ Eligible(r)
  /\ Step(r, Restarted(r))
  /\ UNCHANGED <<fleet, left, indexes, history>>

\* Bug: the handler starts again whatever it has sent.
BootstrapRetryAnyTime(r) ==
  /\ Refused(r) \/ At(r, "failed")
  /\ op[r].retries < fleet.restarts /\ Eligible(r)
  /\ Step(r, [Restarted(r) EXCEPT !.retries = @ + 1])
  /\ UNCHANGED <<fleet, left, indexes, history>>

\* The handler reads an error before it sent anything, and calls ExecuteStream
\* again.
BootstrapRetry(r) ==
  /\ Refused(r) \/ At(r, "failed")
  /\ ~op[r].sent /\ op[r].retries < fleet.restarts /\ Eligible(r)
  /\ Step(r, [Restarted(r) EXCEPT !.retries = @ + 1])
  /\ UNCHANGED <<fleet, left, indexes, history>>

\* The client gets the error, or is gone.
GiveUp(r) ==
  /\ At(r, "decide") /\ WaitOf(r) = {}
  /\ Refused(r) => op[r].retries >= fleet.restarts \/ ~Eligible(r) \/ op[r].canceled
  /\ Step(r, Finished(op[r]))
  /\ UNCHANGED <<fleet, left, indexes, history>>

Proceed(r) ==
  \/ Pick(r) \/ PickMiss(r) \/ LimitReached(r)
  \/ PrepareFails(r) \/ CallSucceeds(r) \/ CallFails(r) \/ CallAborted(r)
  \/ StartWait(r) \/ TimerFires(r) \/ WaitCanceled(r)
  \/ StreamOpens(r) \/ StreamPayload(r) \/ StreamError(r) \/ StreamEnds(r)
  \/ FailedStreamEnds(r) \/ StreamDropped(r)
  \/ StreamLeft(r) \/ LeftFails(r) \/ LeftCut(r)
  \/ BootstrapRetry(r) \/ GiveUp(r)

Next == Tick \/ \E r \in Requests : Begin(r) \/ Proceed(r) \/ Cancel(r)

\* Time passes, providers answer and end their streams, and clients read.  The
\* second conjunct says WF_vars(Proceed(r)): Able is its ENABLED, and of the
\* steps taken while Able, those of Proceed(r) alone change its place or sent.
Able(r) ==
  /\ op[r].at \notin {"idle", "done"}
  /\ At(r, "wait") => op[r].wait = 0 \/ op[r].canceled
Moves(r) == <<op'[r].at, op'[r].sent>> # <<op[r].at, op[r].sent>>

Fairness ==
  /\ WF_vars(Tick)
  /\ \A r \in Requests : []<>~Able(r) \/ []<><<Moves(r)>>_vars

Spec == Init /\ [][Next]_vars /\ Fairness

-----------------------------------------------------------------------------
(***************************************************************************)
(* Properties.                                                             *)
(***************************************************************************)
Places == {"idle", "pick", "call", "decide", "wait", "stream", "ending", "left", "failed",
           "done"}

\* Every variable has its type; and a cursor points at a member of its bucket
\* or one past the last, however the bucket has changed.
TypeOK ==
  /\ fleet \in Fleets /\ left \in [Auths -> Nat] /\ ready \subseteq fleet.auths
  /\ \A p \in Providers, priority \in Priorities :
       LET bucket == Bucket(ready, p, priority)
           view   == views[p][priority]
       IN  /\ view.cursor \in 0..Cardinality(bucket)
           /\ view.parent \in 0..Cardinality(ParentsOf(bucket))
           /\ \A q \in Parents : view.child[q] \in 0..Cardinality(Children(bucket, q))
  /\ slots \in [Lists -> 0..Cardinality(Auths)]
  /\ \A r \in Requests :
       /\ op[r].at \in Places /\ op[r].tried \subseteq Own(r)
       /\ op[r].error \in Kinds \cup {NoError, "cooling", "canceled"}

\* A request costs a bounded number of calls of providers, whatever fails and
\* whenever: as many for each round as credentials may be tried, a round for
\* each retry of the most patient credential, all of it again for each retry of
\* the stream's handler.
MostCalls(r) ==
  LET perRound == IF fleet.limit = 0 THEN Cardinality(Own(r))
                  ELSE Min({fleet.limit, Cardinality(Own(r))})
      rounds   == Max({Retry[a] : a \in Own(r)}) + 1
      starts   == IF r \in Stream THEN fleet.restarts + 1 ELSE 1
  IN  perRound * rounds * starts

CallsBounded == \A r \in fleet.requests : op[r].tries <= MostCalls(r)

\* Each call of a provider is recorded exactly once, as it ends, a stream's
\* too; only a client that goes away, or the request's own handler cutting off
\* the stream it has left, leaves calls without a record.
RecordedOnce == \A r \in Requests :
  /\ op[r].unrecorded >= 0
  /\ ~op[r].canceled =>
       op[r].unrecorded = IF op[r].at \in {"stream", "ending", "left"} \/ op[r].cut THEN 1 ELSE 0

\* Once the client has got a payload, the request is neither started again nor
\* handed to another credential: no client reads two streams spliced.
OneStream == \A r \in Requests : op[r].sent => op[r].at \in {"stream", "left", "failed"}

\* By round-robin a ready credential has its turn again before its bucket has
\* gone round once more: of a grouped bucket, before every parent has come
\* as often as its own parent has credentials.
CredentialsTakeTurns == \A a \in ready :
  LET bucket == MyBucket(ready, a)
  IN  passed[a] < IF Grouped(bucket)
                    THEN Cardinality(ParentsOf(bucket)) * Cardinality(Children(bucket, Parent[a]))
                    ELSE Cardinality(bucket)

\* A provider waits for its turn no longer than the others of the sequence
\* have ready credentials of the highest priority.
ProvidersTakeTurns == \A l \in Lists : \A p \in ToSet(l) :
  LET top == Best(OfProviders(ready, l))
  IN  OfProviders(ready, l) # {} =>
        skipped[l][p] <= Cardinality({a \in OfProviders(ready, l) :
                                        Priority[a] = top /\ ProviderOf[a] # p})

\* A wait between rounds is not in vain: the next round finds none of its
\* credentials ready only if all those waited for have failed another request
\* in the meantime.
InVain(r) == PickMiss(r) /\ op[r].tried = {} /\ op[r].promised # {}
WaitPaysOff == [][\A r \in Requests : ~InVain(r)]_vars

\* Every request ends, however its calls fail and its waits interleave.
EachRequestEnds == \A r \in Requests : At(r, "pick") ~> At(r, "done")
=============================================================================
