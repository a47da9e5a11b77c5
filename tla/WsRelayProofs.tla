---------------------------- MODULE WsRelayProofs ----------------------------
(***************************************************************************)
(* Proofs about the websocket relay, for any number of sessions, providers *)
(* and requests.                                                           *)
(***************************************************************************)
EXTENDS WsRelay, TLAPS

-----------------------------------------------------------------------------
(***************************************************************************)
(* Types, by groups of variables.                                          *)
(***************************************************************************)
HandlerSteps == {"new", "store", "replace", "connected", "done"}
CleanerSteps ==
  {"none", "range", "notify", "close", "clear", "disconnect", "remove", "report", "done"}
OpSteps ==
  {"new", "store", "load", "check", "write", "undo", "wait",
   "ok", "failed", "canceled", "refused"}
Cleaners == [at : CleanerSteps, request : Requests \cup {None},
             stored : SUBSET Requests, visited : SUBSET Requests]
Runners == [at : {"off", "read", "offer", "finish", "ended"},
            request : Requests \cup {None}, type : Types]
Ops == [at : OpSteps, session : Sessions \cup {None}, streamed : BOOLEAN, chunks : Nat,
        end : Terminal \cup {"none"}]
Channels == [messages : Seq(Types), closed : BOOLEAN]
Tallies == [count : Nat, chunks : Nat, end : Terminal \cup {"none"}]

SessionsOK == sessions \in [Providers -> Sessions \cup {None}]
HandlerOK == handler \in [Sessions -> HandlerSteps]
ReplacedOK == replaced \in [Sessions -> Sessions \cup {None}]
StoppingOK == stopping \in Seq(SUBSET Sessions)
CallbackOK == callback \in [Providers -> {"none", "connected", "disconnected"}]
CrossedOK == crossed \in SUBSET Providers
\* A session has a cleanup exactly when its closed channel is closed.
ClosingOK ==
  /\ closed \in SUBSET Sessions /\ broken \in SUBSET closed
  /\ cleaner \in [Sessions -> Cleaners]
  /\ \A s \in Sessions : s \in closed <=> cleaner[s].at # "none"
RunnerOK == runner \in [Sessions -> Runners]
PendingOK == pending \in [Sessions -> SUBSET Requests]
ChannelOK == channel \in [Requests -> Channels]
\* A request in progress has a session.
OpOK ==
  /\ op \in [Requests -> Ops]
  /\ \A r \in Requests : op[r].at \notin {"new", "refused"} => op[r].session \in Sessions
\* The goroutine that waits for the context is started by a request that waits.
WatcherOK ==
  /\ watcher \in [Requests -> {"off", "on", "ended"}]
  /\ \A r \in Requests :
       /\ watcher[r] # "off" => op[r].at \in {"wait", "ok", "failed", "canceled"}
       /\ op[r].at = "wait" => watcher[r] # "off"
CanceledOK == canceled \in SUBSET Requests
CrashedOK == crashed \in BOOLEAN
SentOK == sent \in [Requests -> Tallies]
LostOK == lost \in SUBSET Requests
\* A dispatched message is for a request that was sent to the session; one
\* whose map entry goes was terminal.
DispatchOK ==
  \A s \in Sessions : runner[s].at \in {"offer", "finish"} =>
    /\ runner[s].request \in Requests
    /\ op[runner[s].request].session = s
    /\ watcher[runner[s].request] # "off"
\* What is in a session's map was asked of that session, and what its cleanup
\* has come to as well.
PendingOwned ==
  \A s \in Sessions : \A r \in pending[s] :
    op[r].session = s /\ op[r].at \notin {"new", "store", "refused"}
VisitOwned ==
  \A s \in Sessions : cleaner[s].at \in {"notify", "close"} =>
    /\ cleaner[s].request \in Requests
    /\ op[cleaner[s].request].session = s
    /\ op[cleaner[s].request].at \notin {"new", "store", "refused"}

Typed ==
  /\ SessionsOK /\ HandlerOK /\ ReplacedOK /\ StoppingOK /\ CallbackOK /\ CrossedOK
  /\ ClosingOK /\ RunnerOK /\ PendingOK /\ ChannelOK /\ OpOK /\ WatcherOK
  /\ CanceledOK /\ CrashedOK /\ SentOK /\ LostOK
  /\ DispatchOK /\ PendingOwned /\ VisitOwned

LEMMA TypedTypes == Typed => TypeOK
PROOF
  BY DEF TypeOK, Typed, SessionsOK, HandlerOK, ReplacedOK, StoppingOK, CallbackOK, CrossedOK,
         ClosingOK, RunnerOK, PendingOK, ChannelOK, OpOK, WatcherOK, CanceledOK, CrashedOK,
         SentOK, LostOK, HandlerSteps, CleanerSteps, OpSteps, Cleaners, Runners, Ops,
         Channels, Tallies

LEMMA InitTyped == Init => Typed
PROOF
<1> SUFFICES ASSUME Init PROVE Typed
  OBVIOUS
<1>1. SessionsOK /\ HandlerOK /\ ReplacedOK /\ StoppingOK /\ CallbackOK /\ CrossedOK
  BY DEF Init, SessionsOK, HandlerOK, ReplacedOK, StoppingOK, CallbackOK, CrossedOK,
         HandlerSteps
<1>2. ClosingOK /\ RunnerOK /\ PendingOK
  BY DEF Init, ClosingOK, RunnerOK, PendingOK, IdleCleaner, IdleRunner, Cleaners, Runners,
         CleanerSteps, Types
<1>3. ChannelOK
  <2>1. <<>> \in Seq(Types)
    OBVIOUS
  <2> QED
    BY <2>1 DEF Init, ChannelOK, Channels
<1>4. OpOK /\ WatcherOK /\ CanceledOK /\ CrashedOK /\ LostOK
  BY DEF Init, OpOK, WatcherOK, CanceledOK, CrashedOK, LostOK, IdleOp, Ops, OpSteps
<1>5. SentOK
  BY DEF Init, SentOK, Tallies
<1>6. DispatchOK /\ PendingOwned /\ VisitOwned
  BY DEF Init, DispatchOK, PendingOwned, VisitOwned, IdleRunner, IdleCleaner
<1> QED
  BY <1>1, <1>2, <1>3, <1>4, <1>5, <1>6 DEF Typed

-----------------------------------------------------------------------------
(***************************************************************************)
(* The inductive invariants.                                               *)
(***************************************************************************)
\* A request that is not in a map yet has its channel open.
FreshOpen == \A r \in Requests : op[r].at \in {"new", "store"} => ~channel[r].closed

RelayInv == Typed /\ FreshOpen /\ ClosedIsGone

\* The session a provider has was stored by its handler.
CurrentStored ==
  \A p \in Providers : sessions[p] # None =>
    Provider[sessions[p]] = p /\ handler[sessions[p]] \notin {"new", "store"}

\* A session that left the manager, and nobody has begun to clean up, is to be
\* cleaned up by Stop or by the session that replaced it.
LeftIsCleaned ==
  \A t \in Sessions :
    /\ handler[t] \notin {"new", "store"}
    /\ sessions[Provider[t]] # t
    /\ cleaner[t].at = "none"
    => Stopped(t) \/ IsReplaced(t)

\* Of a provider whose callbacks come in order: a session is cleaned up after
\* it was announced, the current one is not reported yet, and one that is
\* still to be reported holds up the session that replaced it.
InOrder(p) ==
  /\ \A t \in Sessions : Provider[t] = p /\ cleaner[t].at # "none" => handler[t] = "done"
  /\ sessions[p] # None =>
       /\ cleaner[sessions[p]].at \notin {"report", "done"}
       /\ \A t \in Sessions : Provider[t] = p /\ Unreported(t) =>
            handler[sessions[p]] = "replace" /\ replaced[sessions[p]] = t
       /\ handler[sessions[p]] = "done" => callback[p] = "connected"
  /\ sessions[p] = None /\ callback[p] = "connected" =>
       \E t \in Sessions : Provider[t] = p /\ Unreported(t)

CredentialInv ==
  CurrentStored /\ LeftIsCleaned /\ \A p \in Providers \ crossed : InOrder(p)

-----------------------------------------------------------------------------
(***************************************************************************)
(* What the steps are made of.                                             *)
(***************************************************************************)
LEMMA Frames ==
  ASSUME Typed
  PROVE  /\ UNCHANGED sessions => SessionsOK'
         /\ UNCHANGED handler => HandlerOK'
         /\ UNCHANGED replaced => ReplacedOK'
         /\ UNCHANGED stopping => StoppingOK'
         /\ UNCHANGED callback => CallbackOK'
         /\ UNCHANGED crossed => CrossedOK'
         /\ UNCHANGED <<closed, broken, cleaner>> => ClosingOK'
         /\ UNCHANGED runner => RunnerOK'
         /\ UNCHANGED pending => PendingOK'
         /\ UNCHANGED channel => ChannelOK'
         /\ UNCHANGED op => OpOK'
         /\ UNCHANGED <<op, watcher>> => WatcherOK'
         /\ UNCHANGED canceled => CanceledOK'
         /\ UNCHANGED crashed => CrashedOK'
         /\ UNCHANGED sent => SentOK'
         /\ UNCHANGED lost => LostOK'
         /\ UNCHANGED <<runner, op, watcher>> => DispatchOK'
         /\ UNCHANGED <<pending, op>> => PendingOwned'
         /\ UNCHANGED <<cleaner, op>> => VisitOwned'
PROOF
  BY DEF Typed, SessionsOK, HandlerOK, ReplacedOK, StoppingOK, CallbackOK, CrossedOK,
         ClosingOK, RunnerOK, PendingOK, ChannelOK, OpOK, WatcherOK, CanceledOK, CrashedOK,
         SentOK, LostOK, DispatchOK, PendingOwned, VisitOwned

LEMMA RelayFrames ==
  ASSUME RelayInv
  PROVE  /\ UNCHANGED <<op, channel>> => FreshOpen'
         /\ UNCHANGED <<pending, channel, cleaner>> => ClosedIsGone'
PROOF
  BY DEF RelayInv, FreshOpen, ClosedIsGone

\* The chunks of an answer are counted.
LEMMA BodyNat ==
  ASSUME NEW r, NEW type, NEW n \in Nat
  PROVE  Body(r, type, n) \in Nat
PROOF BY DEF Body

LEMMA OfferFacts ==
  ASSUME ChannelOK, LostOK, CrashedOK, NEW r \in Requests, NEW type \in Types, Offer(r, type)
  PROVE  /\ ChannelOK' /\ LostOK' /\ CrashedOK'
         /\ \A q \in Requests : channel'[q].closed = channel[q].closed
PROOF
<1>1. channel \in [Requests -> Channels]
  BY DEF ChannelOK
<1>2. CASE channel[r].closed
  BY <1>1, <1>2 DEF Offer, ChannelOK, LostOK, CrashedOK
<1>3. CASE ~channel[r].closed /\ Len(channel[r].messages) < Buffer
  <2>1. /\ channel' = [channel EXCEPT ![r].messages = Append(@, type)]
        /\ UNCHANGED <<lost, crashed>>
    BY <1>3 DEF Offer
  <2> DEFINE m == Append(channel[r].messages, type)
  <2>2. m \in Seq(Types)
    <3>1. channel[r].messages \in Seq(Types)
      BY <1>1 DEF Channels
    <3> QED
      BY <3>1
  <2>3. channel' = [channel EXCEPT ![r].messages = m]
    BY <2>1
  <2> HIDE DEF m
  <2>4. channel' \in [Requests -> Channels]
        /\ \A q \in Requests : channel'[q].closed = channel[q].closed
    BY <1>1, <2>2, <2>3 DEF Channels
  <2> QED
    BY <2>1, <2>4 DEF ChannelOK, LostOK, CrashedOK
<1>4. CASE ~channel[r].closed /\ ~(Len(channel[r].messages) < Buffer)
  <2>1. lost' = lost \cup {r} /\ UNCHANGED <<channel, crashed>>
    BY <1>4 DEF Offer
  <2> QED
    BY <2>1 DEF ChannelOK, LostOK, CrashedOK
<1> QED
  BY <1>2, <1>3, <1>4

LEMMA CloseFacts ==
  ASSUME ChannelOK, NEW r \in Requests, Close(r)
  PROVE  /\ ChannelOK'
         /\ \A q \in Requests : channel'[q].closed <=> channel[q].closed \/ q = r
PROOF
<1>1. channel \in [Requests -> Channels]
  BY DEF ChannelOK
<1>2. channel' = [channel EXCEPT ![r].closed = TRUE]
  BY DEF Close
<1>3. channel' \in [Requests -> Channels]
  BY <1>1, <1>2 DEF Channels
<1>4. \A q \in Requests : channel'[q].closed <=> channel[q].closed \/ q = r
  BY <1>1, <1>2 DEF Channels
<1> QED
  BY <1>3, <1>4 DEF ChannelOK

LEMMA ForgetFacts ==
  ASSUME ChannelOK, PendingOK, NEW s \in Sessions, NEW r \in Requests, Forget(s, r)
  PROVE  /\ ChannelOK' /\ PendingOK'
         /\ \A t \in Sessions : pending'[t] = IF t = s THEN pending[t] \ {r} ELSE pending[t]
         /\ \A q \in Requests : channel'[q].closed =>
              channel[q].closed \/ (q = r /\ r \in pending[s])
PROOF
<1>1. pending' = [pending EXCEPT ![s] = @ \ {r}]
  BY DEF Forget
<1>2. PICK view \in Views(s) : IF r \in view THEN Close(r) ELSE UNCHANGED channel
  BY DEF Forget
<1>3. r \in view => r \in pending[s]
  BY <1>2 DEF Views
<1>4. /\ ChannelOK'
      /\ \A q \in Requests : channel'[q].closed =>
           channel[q].closed \/ (q = r /\ r \in pending[s])
  <2>1. CASE r \in view
    BY <1>2, <1>3, <2>1, CloseFacts
  <2>2. CASE r \notin view
    BY <1>2, <2>2 DEF ChannelOK
  <2> QED
    BY <2>1, <2>2
<1>5. /\ PendingOK'
      /\ \A t \in Sessions : pending'[t] = IF t = s THEN pending[t] \ {r} ELSE pending[t]
  BY <1>1 DEF PendingOK
<1> QED
  BY <1>4, <1>5

\* A request in progress goes on.
LEMMA StepFacts ==
  ASSUME OpOK, NEW r \in Requests, NEW at \in OpSteps, Step(r, at),
         op[r].at \notin {"new", "refused"}
  PROVE  /\ OpOK' /\ op'[r].at = at /\ op'[r].session = op[r].session
         /\ \A q \in Requests \ {r} : op'[q] = op[q]
PROOF
<1>1. op \in [Requests -> Ops] /\ op' = [op EXCEPT ![r].at = at]
  BY DEF OpOK, Step
<1>2. /\ op' \in [Requests -> Ops]
      /\ op'[r].at = at /\ op'[r].session = op[r].session
      /\ \A q \in Requests \ {r} : op'[q] = op[q]
  BY <1>1 DEF Ops
<1> QED
  BY <1>2 DEF OpOK

\* One session's cleanup goes on.
LEMMA CleanerFacts ==
  ASSUME ClosingOK, NEW s \in Sessions, NEW record \in Cleaners, record.at # "none",
         cleaner[s].at # "none", cleaner' = [cleaner EXCEPT ![s] = record],
         UNCHANGED <<closed, broken>>
  PROVE  /\ ClosingOK' /\ cleaner'[s] = record
         /\ \A t \in Sessions \ {s} : cleaner'[t] = cleaner[t]
PROOF BY DEF ClosingOK

-----------------------------------------------------------------------------
(***************************************************************************)
(* The manager's steps.                                                    *)
(***************************************************************************)
LEMMA ManagerSteps ==
  ASSUME RelayInv, NEW s \in Sessions, HandlerStep(s)
  PROVE  RelayInv'
PROOF
<1>0. Typed /\ SessionsOK /\ HandlerOK /\ ReplacedOK /\ StoppingOK /\ CallbackOK /\ CrossedOK
      /\ RunnerOK /\ DispatchOK
  BY DEF RelayInv, Typed
<1>p. Provider[s] \in Providers
  BY RelayAssumption
<1>1. CASE Connect(s)
  <2>1. /\ handler' = [handler EXCEPT ![s] = "store"]
        /\ UNCHANGED <<sessions, replaced, stopping, callback, crossed, closed, broken, cleaner,
                       runner, pending, channel, op, watcher, canceled, crashed, sent, lost>>
    BY <1>1 DEF Connect, closing, requests
  <2>2. HandlerOK'
    BY <1>0, <2>1 DEF HandlerOK, HandlerSteps
  <2> QED
    BY <1>0, <2>1, <2>2, Frames, RelayFrames DEF Typed, RelayInv
<1>2. CASE StoreSession(s)
  <2>1. /\ handler' = [handler EXCEPT ![s] = "replace"]
        /\ crossed' \in {crossed, crossed \cup {Provider[s]}}
        /\ replaced' = [replaced EXCEPT ![s] = sessions[Provider[s]]]
        /\ sessions' = [sessions EXCEPT ![Provider[s]] = s]
        /\ UNCHANGED <<stopping, callback, closed, broken, cleaner,
                       runner, pending, channel, op, watcher, canceled, crashed, sent, lost>>
    BY <1>2 DEF StoreSession, closing, requests
  <2>2. HandlerOK' /\ CrossedOK' /\ ReplacedOK' /\ SessionsOK'
    BY <1>0, <1>p, <2>1
    DEF HandlerOK, HandlerSteps, CrossedOK, ReplacedOK, SessionsOK
  <2> QED
    BY <1>0, <2>1, <2>2, Frames, RelayFrames DEF Typed, RelayInv
<1>3. CASE Replaced(s)
  <2>1. /\ handler' = [handler EXCEPT ![s] = "connected"]
        /\ UNCHANGED <<sessions, replaced, stopping, callback, crossed, closed, broken, cleaner,
                       runner, pending, channel, op, watcher, canceled, crashed, sent, lost>>
    BY <1>3 DEF Replaced, closing, requests
  <2>2. HandlerOK'
    BY <1>0, <2>1 DEF HandlerOK, HandlerSteps
  <2> QED
    BY <1>0, <2>1, <2>2, Frames, RelayFrames DEF Typed, RelayInv
<1>4. CASE Connected(s)
  <2>1. /\ handler' = [handler EXCEPT ![s] = "done"]
        /\ callback' = [callback EXCEPT ![Provider[s]] = "connected"]
        /\ runner' = [runner EXCEPT ![s].at = "read"]
        /\ UNCHANGED <<sessions, replaced, stopping, crossed, closed, broken, cleaner,
                       pending, channel, op, watcher, canceled, crashed, sent, lost>>
    BY <1>4 DEF Connected, closing, requests
  <2>2. HandlerOK' /\ CallbackOK'
    BY <1>0, <2>1 DEF HandlerOK, HandlerSteps, CallbackOK
  <2>3. /\ RunnerOK' /\ runner'[s].at = "read"
        /\ \A t \in Sessions \ {s} : runner'[t] = runner[t]
    BY <1>0, <2>1 DEF RunnerOK, Runners
  <2>4. DispatchOK'
    BY <1>0, <2>1, <2>3 DEF DispatchOK
  <2> QED
    BY <1>0, <2>1, <2>2, <2>3, <2>4, Frames, RelayFrames DEF Typed, RelayInv
<1> QED
  BY <1>1, <1>2, <1>3, <1>4 DEF HandlerStep

LEMMA StopStep ==
  ASSUME RelayInv, Stop
  PROVE  RelayInv'
PROOF
<1>0. Typed /\ SessionsOK /\ StoppingOK
  BY DEF RelayInv, Typed
<1>1. /\ stopping' = Append(stopping, {sessions[p] : p \in Providers} \ {None})
      /\ sessions' = [p \in Providers |-> None]
      /\ UNCHANGED <<handler, replaced, callback, crossed, closed, broken, cleaner,
                     runner, pending, channel, op, watcher, canceled, crashed, sent, lost>>
  BY DEF Stop, closing, requests
<1>2. StoppingOK'
  <2>1. {sessions[p] : p \in Providers} \ {None} \in SUBSET Sessions
    BY <1>0 DEF SessionsOK
  <2> QED
    BY <1>0, <1>1, <2>1 DEF StoppingOK
<1>3. SessionsOK'
  BY <1>1 DEF SessionsOK
<1> QED
  BY <1>0, <1>1, <1>2, <1>3, Frames, RelayFrames DEF Typed, RelayInv

-----------------------------------------------------------------------------
(***************************************************************************)
(* The steps of a cleanup.                                                 *)
(***************************************************************************)
LEMMA BeginCleanupStep ==
  ASSUME RelayInv, NEW s \in Sessions, BeginCleanup(s)
  PROVE  RelayInv'
PROOF
<1>0. Typed /\ ClosingOK /\ PendingOK /\ CrossedOK /\ VisitOwned /\ ClosedIsGone
  BY DEF RelayInv, Typed
<1> DEFINE record == [IdleCleaner EXCEPT !.at = "range", !.stored = pending[s]]
<1>1. /\ closed' = closed \cup {s} /\ s \notin closed
      /\ cleaner' = [cleaner EXCEPT ![s] = record]
      /\ crossed' \in {crossed, crossed \cup {Provider[s]}}
      /\ UNCHANGED <<sessions, handler, replaced, stopping, callback, broken, runner, pending,
                     channel, op, watcher, canceled, crashed, sent, lost>>
  BY DEF BeginCleanup, requests
<1>2. record \in Cleaners /\ record.at = "range"
  BY <1>0 DEF PendingOK, IdleCleaner, Cleaners, CleanerSteps
<1> HIDE DEF record
<1>3. /\ cleaner' \in [Sessions -> Cleaners] /\ cleaner'[s] = record
      /\ \A t \in Sessions \ {s} : cleaner'[t] = cleaner[t]
  BY <1>0, <1>1, <1>2 DEF ClosingOK
<1>4. ClosingOK'
  BY <1>0, <1>1, <1>2, <1>3 DEF ClosingOK
<1>5. CrossedOK'
  BY <1>0, <1>1, RelayAssumption DEF CrossedOK
<1>6. VisitOwned' /\ ClosedIsGone'
  BY <1>0, <1>1, <1>2, <1>3 DEF VisitOwned, ClosedIsGone
<1> QED
  BY <1>0, <1>1, <1>4, <1>5, <1>6, Frames, RelayFrames DEF Typed, RelayInv

LEMMA CleanupSteps ==
  ASSUME RelayInv, NEW s \in Sessions, ConnectionFails(s) \/ CleanupStep(s)
  PROVE  RelayInv'
PROOF
<1>0. /\ Typed /\ ClosingOK /\ PendingOK /\ ChannelOK /\ SessionsOK /\ CallbackOK
      /\ CrashedOK /\ LostOK /\ RunnerOK /\ DispatchOK /\ OpOK
      /\ PendingOwned /\ VisitOwned /\ FreshOpen /\ ClosedIsGone
  BY DEF RelayInv, Typed
<1>p. Provider[s] \in Providers
  BY RelayAssumption
<1>c. cleaner \in [Sessions -> Cleaners] /\ cleaner[s] \in Cleaners
  BY <1>0 DEF ClosingOK
<1>1. CASE ConnectionFails(s) \/ CleanStopped(s) \/ CleanReplaced(s)
  BY <1>1, BeginCleanupStep DEF ConnectionFails, CleanStopped, CleanReplaced
<1>2. CASE Visit(s)
  <2>1. PICK r \in pending[s] : cleaner' = [cleaner EXCEPT ![s].at = "notify", ![s].request = r]
    BY <1>2 DEF Visit
  <2>2. /\ cleaner[s].at = "range"
        /\ UNCHANGED <<sessions, handler, replaced, stopping, callback, crossed, closed, broken,
                       runner, pending, channel, op, watcher, canceled, crashed, sent, lost>>
    BY <1>2 DEF Visit, manager, requests, Cleaning
  <2> DEFINE record == [cleaner[s] EXCEPT !.at = "notify", !.request = r]
  <2>3. cleaner' = [cleaner EXCEPT ![s] = record]
    BY <1>c, <2>1 DEF Cleaners
  <2>4. r \in Requests /\ op[r].session = s /\ op[r].at \notin {"new", "store", "refused"}
    BY <1>0 DEF PendingOK, PendingOwned
  <2>5. record \in Cleaners /\ record.at = "notify" /\ record.request = r
    BY <1>c, <2>4 DEF Cleaners, CleanerSteps
  <2> HIDE DEF record
  <2>6. /\ ClosingOK' /\ cleaner'[s] = record
        /\ \A t \in Sessions \ {s} : cleaner'[t] = cleaner[t]
    BY <1>0, <2>2, <2>3, <2>5, CleanerFacts
  <2>7. VisitOwned' /\ ClosedIsGone'
    BY <1>0, <2>2, <2>4, <2>5, <2>6 DEF VisitOwned, ClosedIsGone
  <2> QED
    BY <1>0, <2>2, <2>6, <2>7, Frames, RelayFrames DEF Typed, RelayInv
<1>3. CASE Notify(s)
  <2> DEFINE record == [cleaner[s] EXCEPT !.at = "close"]
             r == cleaner[s].request
  <2>1. /\ cleaner[s].at = "notify" /\ Offer(r, "error")
        /\ cleaner' = [cleaner EXCEPT ![s] = record]
        /\ UNCHANGED <<sessions, handler, replaced, stopping, callback, crossed, closed, broken,
                       runner, pending, op, watcher, canceled, sent>>
    BY <1>3, <1>c DEF Notify, manager, requests, Cleaning, Cleaners
  <2>2. r \in Requests /\ op[r].session = s /\ op[r].at \notin {"new", "store", "refused"}
    BY <1>0, <2>1 DEF VisitOwned
  <2>3. /\ ChannelOK' /\ LostOK' /\ CrashedOK'
        /\ \A q \in Requests : channel'[q].closed = channel[q].closed
    <3>1. "error" \in Types
      BY DEF Types
    <3> QED
      BY <1>0, <2>1, <2>2, <3>1, OfferFacts
  <2>4. record \in Cleaners /\ record.at = "close" /\ record.request = r
    BY <1>c DEF Cleaners, CleanerSteps
  <2> HIDE DEF record
  <2>5. /\ ClosingOK' /\ cleaner'[s] = record
        /\ \A t \in Sessions \ {s} : cleaner'[t] = cleaner[t]
    BY <1>0, <2>1, <2>4, CleanerFacts
  <2>7. VisitOwned'
    BY <1>0, <2>1, <2>2, <2>4, <2>5 DEF VisitOwned
  <2>8. ClosedIsGone'
    BY <1>0, <2>1, <2>3, <2>4, <2>5 DEF ClosedIsGone, PendingOK
  <2>9. FreshOpen'
    BY <1>0, <2>1, <2>3 DEF FreshOpen
  <2> QED
    BY <1>0, <2>1, <2>3, <2>5, <2>7, <2>8, <2>9, Frames, RelayFrames DEF Typed, RelayInv
<1>4. CASE CloseVisited(s)
  <2> DEFINE r == cleaner[s].request
             record == [cleaner[s] EXCEPT !.at = "range", !.request = None,
                                          !.visited = @ \cup {r}]
  <2>1. /\ cleaner[s].at = "close" /\ Close(r)
        /\ cleaner' = [cleaner EXCEPT ![s] = record]
        /\ UNCHANGED <<sessions, handler, replaced, stopping, callback, crossed, closed, broken,
                       runner, pending, op, watcher, canceled, crashed, sent, lost>>
    BY <1>4, <1>c DEF CloseVisited, manager, requests, Cleaning, Cleaners
  <2>2. r \in Requests /\ op[r].session = s /\ op[r].at \notin {"new", "store", "refused"}
    BY <1>0, <2>1 DEF VisitOwned
  <2>3. /\ ChannelOK'
        /\ \A q \in Requests : channel'[q].closed <=> channel[q].closed \/ q = r
    BY <1>0, <2>1, <2>2, CloseFacts
  <2>4. record \in Cleaners /\ record.at = "range"
    <3>1. cleaner[s].visited \cup {r} \in SUBSET Requests
      BY <1>c, <2>2 DEF Cleaners
    <3> QED
      BY <1>c, <3>1 DEF Cleaners, CleanerSteps
  <2> HIDE DEF record
  <2>5. /\ ClosingOK' /\ cleaner'[s] = record
        /\ \A t \in Sessions \ {s} : cleaner'[t] = cleaner[t]
    BY <1>0, <2>1, <2>4, CleanerFacts
  <2>7. VisitOwned'
    BY <1>0, <2>1, <2>4, <2>5 DEF VisitOwned
  <2> HIDE DEF r
  <2>8. ClosedIsGone'
    BY <1>0, <2>1, <2>2, <2>3, <2>4, <2>5 DEF ClosedIsGone, PendingOK, PendingOwned
  <2>9. FreshOpen'
    BY <1>0, <2>1, <2>2, <2>3 DEF FreshOpen
  <2> QED
    BY <1>0, <2>1, <2>3, <2>5, <2>7, <2>8, <2>9, Frames, RelayFrames DEF Typed, RelayInv
<1>5. CASE EndRange(s)
  <2> DEFINE record == [IdleCleaner EXCEPT !.at = "clear"]
  <2>1. /\ cleaner[s].at = "range"
        /\ cleaner' = [cleaner EXCEPT ![s] = record]
        /\ UNCHANGED <<sessions, handler, replaced, stopping, callback, crossed, closed, broken,
                       runner, pending, channel, op, watcher, canceled, crashed, sent, lost>>
    BY <1>5 DEF EndRange, manager, requests, Cleaning
  <2>2. record \in Cleaners /\ record.at = "clear"
    BY DEF Cleaners, CleanerSteps, IdleCleaner
  <2> HIDE DEF record
  <2>3. /\ ClosingOK' /\ cleaner'[s] = record
        /\ \A t \in Sessions \ {s} : cleaner'[t] = cleaner[t]
    BY <1>0, <2>1, <2>2, CleanerFacts
  <2>4. VisitOwned' /\ ClosedIsGone'
    BY <1>0, <2>1, <2>2, <2>3 DEF VisitOwned, ClosedIsGone
  <2> QED
    BY <1>0, <2>1, <2>3, <2>4, Frames, RelayFrames DEF Typed, RelayInv
<1>6. CASE Clear(s)
  <2> DEFINE record == [cleaner[s] EXCEPT !.at = "disconnect"]
  <2>1. /\ cleaner[s].at = "clear" /\ pending' = [pending EXCEPT ![s] = {}]
        /\ cleaner' = [cleaner EXCEPT ![s] = record]
        /\ UNCHANGED <<sessions, handler, replaced, stopping, callback, crossed, closed, broken,
                       runner, channel, op, watcher, canceled, crashed, sent, lost>>
    BY <1>6, <1>c DEF Clear, manager, requests, Cleaning, Cleaners
  <2>2. record \in Cleaners /\ record.at = "disconnect"
    BY <1>c DEF Cleaners, CleanerSteps
  <2> HIDE DEF record
  <2>3. /\ ClosingOK' /\ cleaner'[s] = record
        /\ \A t \in Sessions \ {s} : cleaner'[t] = cleaner[t]
    BY <1>0, <2>1, <2>2, CleanerFacts
  <2>4. PendingOK' /\ pending'[s] = {} /\ \A t \in Sessions \ {s} : pending'[t] = pending[t]
    BY <1>0, <2>1 DEF PendingOK
  <2>5. VisitOwned' /\ ClosedIsGone' /\ PendingOwned'
    BY <1>0, <2>1, <2>2, <2>3, <2>4 DEF VisitOwned, ClosedIsGone, PendingOwned
  <2> QED
    BY <1>0, <2>1, <2>3, <2>4, <2>5, Frames, RelayFrames DEF Typed, RelayInv
<1>7. CASE CloseConnection(s)
  <2> DEFINE record == [cleaner[s] EXCEPT !.at = "remove"]
  <2>1. /\ cleaner[s].at = "disconnect" /\ broken' = broken \cup {s}
        /\ cleaner' = [cleaner EXCEPT ![s] = record]
        /\ UNCHANGED <<sessions, handler, replaced, stopping, callback, crossed, closed,
                       runner, pending, channel, op, watcher, canceled, crashed, sent, lost>>
    BY <1>7, <1>c DEF CloseConnection, manager, requests, Cleaning, Cleaners
  <2>2. record \in Cleaners /\ record.at = "remove"
    BY <1>c DEF Cleaners, CleanerSteps
  <2> HIDE DEF record
  <2>3. /\ cleaner' \in [Sessions -> Cleaners] /\ cleaner'[s] = record
        /\ \A t \in Sessions \ {s} : cleaner'[t] = cleaner[t]
    BY <1>c, <2>1, <2>2
  <2>4. ClosingOK'
    BY <1>0, <2>1, <2>2, <2>3 DEF ClosingOK
  <2>5. VisitOwned' /\ ClosedIsGone'
    BY <1>0, <2>1, <2>2, <2>3 DEF VisitOwned, ClosedIsGone
  <2> QED
    BY <1>0, <2>1, <2>4, <2>5, Frames, RelayFrames DEF Typed, RelayInv
<1>8. CASE RemoveSession(s)
  <2> DEFINE record == [cleaner[s] EXCEPT !.at = "report"]
  <2>1. /\ cleaner[s].at = "remove"
        /\ sessions' = [sessions EXCEPT ![Provider[s]] = IF @ = s THEN None ELSE @]
        /\ cleaner' = [cleaner EXCEPT ![s] = record]
        /\ UNCHANGED <<handler, replaced, stopping, callback, crossed, closed, broken,
                       runner, pending, channel, op, watcher, canceled, crashed, sent, lost>>
    BY <1>8, <1>c DEF RemoveSession, manager, requests, Cleaning, Cleaners
  <2>2. record \in Cleaners /\ record.at = "report"
    BY <1>c DEF Cleaners, CleanerSteps
  <2> HIDE DEF record
  <2>3. /\ ClosingOK' /\ cleaner'[s] = record
        /\ \A t \in Sessions \ {s} : cleaner'[t] = cleaner[t]
    BY <1>0, <2>1, <2>2, CleanerFacts
  <2>4. SessionsOK'
    BY <1>0, <2>1 DEF SessionsOK
  <2>5. VisitOwned' /\ ClosedIsGone'
    BY <1>0, <2>1, <2>2, <2>3 DEF VisitOwned, ClosedIsGone
  <2> QED
    BY <1>0, <2>1, <2>3, <2>4, <2>5, Frames, RelayFrames DEF Typed, RelayInv
<1>9. CASE Disconnected(s)
  <2> DEFINE record == [cleaner[s] EXCEPT !.at = "done"]
  <2>1. /\ cleaner[s].at = "report"
        /\ callback' = [callback EXCEPT ![Provider[s]] = "disconnected"]
        /\ cleaner' = [cleaner EXCEPT ![s] = record]
        /\ UNCHANGED <<sessions, handler, replaced, stopping, crossed, closed, broken,
                       runner, pending, channel, op, watcher, canceled, crashed, sent, lost>>
    BY <1>9, <1>c DEF Disconnected, manager, requests, Cleaning, Cleaners
  <2>2. record \in Cleaners /\ record.at = "done"
    BY <1>c DEF Cleaners, CleanerSteps
  <2> HIDE DEF record
  <2>3. /\ ClosingOK' /\ cleaner'[s] = record
        /\ \A t \in Sessions \ {s} : cleaner'[t] = cleaner[t]
    BY <1>0, <2>1, <2>2, CleanerFacts
  <2>4. CallbackOK'
    BY <1>0, <2>1 DEF CallbackOK
  <2>5. VisitOwned' /\ ClosedIsGone'
    BY <1>0, <2>1, <2>2, <2>3 DEF VisitOwned, ClosedIsGone
  <2> QED
    BY <1>0, <2>1, <2>3, <2>4, <2>5, Frames, RelayFrames DEF Typed, RelayInv
<1> QED
  BY <1>1, <1>2, <1>3, <1>4, <1>5, <1>6, <1>7, <1>8, <1>9 DEF CleanupStep

-----------------------------------------------------------------------------
(***************************************************************************)
(* The steps of session.run.                                               *)
(***************************************************************************)
LEMMA RunnerSteps ==
  ASSUME RelayInv, NEW s \in Sessions, Read(s) \/ DispatchStep(s)
  PROVE  RelayInv'
PROOF
<1>0. /\ Typed /\ ClosingOK /\ PendingOK /\ ChannelOK /\ SentOK
      /\ CrashedOK /\ LostOK /\ RunnerOK /\ DispatchOK /\ OpOK
      /\ PendingOwned /\ FreshOpen /\ ClosedIsGone
  BY DEF RelayInv, Typed
<1>r. runner \in [Sessions -> Runners] /\ runner[s] \in Runners
  BY <1>0 DEF RunnerOK
<1>i. [IdleRunner EXCEPT !.at = "read"] \in Runners /\ [IdleRunner EXCEPT !.at = "read"].at = "read"
  BY DEF IdleRunner, Runners, Types
<1>1. CASE Read(s)
  <2>1. PICK r \in Requests, type \in Types :
          /\ Asked(s, r)
          /\ sent' = [sent EXCEPT ![r] = Sent(r, type)]
          /\ \/ \E view \in Views(s) :
                  runner' = [runner EXCEPT ![s] =
                    IF r \in view THEN [at |-> "offer", request |-> r, type |-> type]
                                  ELSE [IdleRunner EXCEPT !.at = "read"]]
                /\ UNCHANGED crashed
             \/ Torn(s) /\ UNCHANGED runner
    BY <1>1 DEF Read
  <2>2. UNCHANGED <<sessions, handler, replaced, stopping, callback, crossed, closed, broken,
                    cleaner, pending, channel, op, watcher, canceled, lost>>
    BY <1>1 DEF Read, manager, closing, requests
  <2>3. SentOK'
    <3>1. sent \in [Requests -> Tallies] /\ sent[r] \in Tallies
      BY <1>0 DEF SentOK
    <3>2. Sent(r, type) \in Tallies
      BY <3>1, BodyNat DEF Sent, Tallies
    <3> QED
      BY <2>1, <3>1, <3>2 DEF SentOK
  <2>4. CASE Torn(s) /\ UNCHANGED runner
    <3>1. CrashedOK'
      BY <2>4 DEF Torn, CrashedOK
    <3> QED
      BY <1>0, <2>2, <2>3, <2>4, <3>1, Frames, RelayFrames DEF Typed, RelayInv
  <2>5. CASE UNCHANGED crashed /\ \E view \in Views(s) :
               runner' = [runner EXCEPT ![s] =
                 IF r \in view THEN [at |-> "offer", request |-> r, type |-> type]
                               ELSE [IdleRunner EXCEPT !.at = "read"]]
    <3>1. PICK record \in Runners :
            /\ runner' = [runner EXCEPT ![s] = record]
            /\ record.at # "read" => r \in pending[s] /\ record.request = r
            /\ record.at \in {"read", "offer"}
      <4>1. PICK view \in Views(s) :
               runner' = [runner EXCEPT ![s] =
                 IF r \in view THEN [at |-> "offer", request |-> r, type |-> type]
                               ELSE [IdleRunner EXCEPT !.at = "read"]]
        BY <2>5
      <4>2. [at |-> "offer", request |-> r, type |-> type] \in Runners
        BY DEF Runners
      <4>3. r \in view => r \in pending[s]
        BY DEF Views
      <4>4. CASE r \in view
        BY <4>1, <4>2, <4>3, <4>4
      <4>5. CASE r \notin view
        BY <1>i, <4>1, <4>5
      <4> QED
        BY <4>4, <4>5
    <3>2. /\ RunnerOK' /\ runner'[s] = record
          /\ \A t \in Sessions \ {s} : runner'[t] = runner[t]
      BY <1>r, <3>1 DEF RunnerOK
    <3>3. DispatchOK'
      BY <1>0, <2>1, <2>2, <3>1, <3>2 DEF DispatchOK, Asked
    <3> QED
      BY <1>0, <2>2, <2>3, <2>5, <3>2, <3>3, Frames, RelayFrames DEF Typed, RelayInv
  <2> QED
    BY <2>1, <2>4, <2>5
<1>2. CASE Dispatch(s)
  <2> DEFINE r == runner[s].request
  <2>1. /\ runner[s].at = "offer" /\ Offer(r, runner[s].type)
        /\ UNCHANGED <<sessions, handler, replaced, stopping, callback, crossed, closed, broken,
                       cleaner, pending, op, watcher, canceled, sent>>
    BY <1>2 DEF Dispatch, Running, manager, closing, requests
  <2>2. PICK record \in Runners :
          /\ runner' = [runner EXCEPT ![s] = record]
          /\ record.at \in {"read", "finish"}
          /\ record.at = "finish" => record.request = r
    <3>1. [runner[s] EXCEPT !.at = "finish"] \in Runners
      BY <1>r DEF Runners
    <3>2. CASE runner[s].type \in Terminal
      <4>1. runner' = [runner EXCEPT ![s] = [runner[s] EXCEPT !.at = "finish"]]
        BY <1>2, <1>r, <3>2 DEF Dispatch
      <4>2. /\ [runner[s] EXCEPT !.at = "finish"].at = "finish"
            /\ [runner[s] EXCEPT !.at = "finish"].request = r
        BY <1>r DEF Runners
      <4> QED
        BY <3>1, <4>1, <4>2
    <3>3. CASE runner[s].type \notin Terminal
      <4>1. runner' = [runner EXCEPT ![s] = [IdleRunner EXCEPT !.at = "read"]]
        BY <1>2, <3>3 DEF Dispatch
      <4> QED
        BY <1>i, <4>1
    <3> QED
      BY <3>2, <3>3
  <2>3. r \in Requests /\ op[r].session = s /\ watcher[r] # "off" /\ runner[s].type \in Types
    BY <1>0, <1>r, <2>1 DEF DispatchOK, Runners
  <2>4. /\ ChannelOK' /\ LostOK' /\ CrashedOK'
        /\ \A q \in Requests : channel'[q].closed = channel[q].closed
    BY <1>0, <2>1, <2>3, OfferFacts
  <2>5. /\ RunnerOK' /\ runner'[s] = record
        /\ \A t \in Sessions \ {s} : runner'[t] = runner[t]
    BY <1>r, <2>2 DEF RunnerOK
  <2>6. DispatchOK'
    BY <1>0, <2>1, <2>2, <2>3, <2>5 DEF DispatchOK
  <2>8. FreshOpen' /\ ClosedIsGone'
    BY <1>0, <2>1, <2>4 DEF FreshOpen, ClosedIsGone, PendingOK
  <2> QED
    BY <1>0, <2>1, <2>4, <2>5, <2>6, <2>8, Frames, RelayFrames DEF Typed, RelayInv
<1>3. CASE Finish(s)
  <2> DEFINE r == runner[s].request
             record == [IdleRunner EXCEPT !.at = "read"]
  <2>1. /\ runner[s].at = "finish"
        /\ runner' = [runner EXCEPT ![s] = record]
        /\ \/ Forget(s, r) /\ UNCHANGED crashed
           \/ Torn(s) /\ UNCHANGED <<pending, channel>>
        /\ UNCHANGED <<sessions, handler, replaced, stopping, callback, crossed, closed, broken,
                       cleaner, op, watcher, canceled, sent, lost>>
    BY <1>3 DEF Finish, Running, manager, closing, requests
  <2>2. record \in Runners /\ record.at = "read"
    BY <1>i
  <2> HIDE DEF record
  <2>3. /\ RunnerOK' /\ runner'[s] = record
        /\ \A t \in Sessions \ {s} : runner'[t] = runner[t]
    BY <1>r, <2>1, <2>2 DEF RunnerOK
  <2>4. DispatchOK'
    BY <1>0, <2>1, <2>2, <2>3 DEF DispatchOK
  <2>5. r \in Requests /\ op[r].session = s
    BY <1>0, <2>1 DEF DispatchOK
  <2>7. CASE Forget(s, r) /\ UNCHANGED crashed
    <3>1. /\ ChannelOK' /\ PendingOK'
          /\ \A t \in Sessions : pending'[t] = IF t = s THEN pending[t] \ {r} ELSE pending[t]
          /\ \A q \in Requests : channel'[q].closed =>
               channel[q].closed \/ (q = r /\ r \in pending[s])
      BY <1>0, <2>5, <2>7, ForgetFacts
    <3> HIDE DEF r
    <3>2. FreshOpen' /\ ClosedIsGone' /\ PendingOwned'
      BY <1>0, <2>1, <2>5, <3>1 DEF FreshOpen, ClosedIsGone, PendingOwned, PendingOK
    <3> QED
      BY <1>0, <2>1, <2>3, <2>4, <2>7, <3>1, <3>2, Frames, RelayFrames
      DEF Typed, RelayInv
  <2>8. CASE Torn(s) /\ UNCHANGED <<pending, channel>>
    <3>1. CrashedOK'
      BY <2>8 DEF Torn, CrashedOK
    <3> QED
      BY <1>0, <2>1, <2>3, <2>4, <2>8, <3>1, Frames, RelayFrames DEF Typed, RelayInv
  <2> QED
    BY <2>1, <2>7, <2>8
<1>4. CASE RunEnds(s)
  <2> DEFINE record == [IdleRunner EXCEPT !.at = "ended"]
  <2>1. /\ runner' = [runner EXCEPT ![s] = record]
        /\ UNCHANGED <<sessions, handler, replaced, stopping, callback, crossed, closed, broken,
                       cleaner, pending, channel, op, watcher, canceled, crashed, sent, lost>>
    BY <1>4 DEF RunEnds, manager, closing, requests
  <2>2. record \in Runners /\ record.at = "ended"
    BY DEF IdleRunner, Runners, Types
  <2> HIDE DEF record
  <2>3. /\ RunnerOK' /\ runner'[s] = record
        /\ \A t \in Sessions \ {s} : runner'[t] = runner[t]
    BY <1>r, <2>1, <2>2 DEF RunnerOK
  <2>4. DispatchOK'
    BY <1>0, <2>1, <2>2, <2>3 DEF DispatchOK
  <2> QED
    BY <1>0, <2>1, <2>3, <2>4, Frames, RelayFrames DEF Typed, RelayInv
<1> QED
  BY <1>1, <1>2, <1>3, <1>4 DEF DispatchStep

-----------------------------------------------------------------------------
(***************************************************************************)
(* The steps of a request and of the goroutine that waits for its context. *)
(***************************************************************************)
Rest == <<sessions, handler, replaced, stopping, callback, crossed, closed, broken, cleaner,
          runner, sent, lost>>

\* A request leaves the state it is in.
LEMMA OpMove ==
  ASSUME RelayInv, NEW r \in Requests, UNCHANGED <<closed, cleaner, runner, canceled>>,
         ~Ended(r), \A q \in Requests \ {r} : op'[q] = op[q],
         \/ op[r].at = "new"
         \/ op'[r].session = op[r].session /\ op'[r].at \notin {"new", "store", "refused"},
         \A q \in Requests : watcher[q] # "off" => watcher'[q] # "off"
  PROVE  DispatchOK' /\ VisitOwned'
PROOF
<1>0. Typed /\ DispatchOK /\ VisitOwned /\ WatcherOK
  BY DEF RelayInv, Typed
<1>1. DispatchOK'
  <2> SUFFICES ASSUME NEW s \in Sessions, runner[s].at \in {"offer", "finish"}
               PROVE  /\ runner[s].request \in Requests
                      /\ op'[runner[s].request].session = s
                      /\ watcher'[runner[s].request] # "off"
    BY DEF DispatchOK
  <2> DEFINE q == runner[s].request
  <2>1. q \in Requests /\ op[q].session = s /\ watcher[q] # "off"
    BY <1>0 DEF DispatchOK
  <2>2. op[q].at # "new"
    BY <1>0, <2>1 DEF WatcherOK
  <2> HIDE DEF q
  <2>3. op'[q].session = s
    BY <2>1, <2>2
  <2> QED
    BY <2>1, <2>3 DEF q
<1>2. VisitOwned'
  BY <1>0 DEF VisitOwned
<1> QED
  BY <1>1, <1>2

\* A request that only goes on leaves the rest as it is.
LEMMA PlainStep ==
  ASSUME RelayInv, NEW r \in Requests, NEW at \in OpSteps, Step(r, at),
         ~Ended(r), op[r].at # "new", at \notin {"new", "store", "refused"},
         UNCHANGED <<Rest, pending, channel, canceled, crashed>>,
         WatcherOK', \A q \in Requests : watcher[q] # "off" => watcher'[q] # "off"
  PROVE  RelayInv'
PROOF
<1>0. /\ Typed /\ OpOK /\ WatcherOK /\ PendingOK /\ PendingOwned /\ FreshOpen
      /\ ClosedIsGone
  BY DEF RelayInv, Typed
<1>1. /\ OpOK' /\ op'[r].at = at /\ op'[r].session = op[r].session
      /\ \A q \in Requests \ {r} : op'[q] = op[q]
  BY <1>0, StepFacts DEF Ended
<1>2. UNCHANGED <<sessions, handler, replaced, stopping, callback, crossed, closed, broken,
                  cleaner, runner, pending, channel, canceled, crashed, sent, lost>>
  BY DEF Rest
<1>3. DispatchOK' /\ VisitOwned'
  <2>1. UNCHANGED <<closed, cleaner, runner, canceled>>
    BY <1>2
  <2>2. op'[r].session = op[r].session /\ op'[r].at \notin {"new", "store", "refused"}
    BY <1>1
  <2> QED
    BY <1>1, <2>1, <2>2, OpMove
<1>4. PendingOwned' /\ FreshOpen'
  BY <1>0, <1>1, <1>2 DEF PendingOwned, FreshOpen, PendingOK
<1> QED
  BY <1>0, <1>1, <1>2, <1>3, <1>4, Frames, RelayFrames DEF Typed, RelayInv

LEMMA RequestSteps ==
  ASSUME RelayInv, NEW r \in Requests, Send(r) \/ RequestStep(r)
  PROVE  RelayInv'
PROOF
<1>0. /\ Typed /\ ClosingOK /\ SessionsOK /\ PendingOK /\ ChannelOK /\ OpOK /\ WatcherOK
      /\ RunnerOK /\ DispatchOK /\ PendingOwned /\ FreshOpen /\ ClosedIsGone
  BY DEF RelayInv, Typed
<1>o. op \in [Requests -> Ops] /\ op[r] \in Ops
  BY <1>0 DEF OpOK
<1>s. /\ "load" \in OpSteps /\ "check" \in OpSteps /\ "write" \in OpSteps /\ "undo" \in OpSteps
      /\ "wait" \in OpSteps /\ "ok" \in OpSteps /\ "failed" \in OpSteps
      /\ "canceled" \in OpSteps
  BY DEF OpSteps
<1>1. CASE Send(r)
  <2>1. PICK p \in Providers :
          op' = [op EXCEPT ![r] =
            [@ EXCEPT !.session = sessions[p],
                      !.at = IF sessions[p] = None THEN "refused" ELSE "store"]]
    BY <1>1 DEF Send
  <2>2. /\ op[r].at = "new"
        /\ UNCHANGED <<Rest, pending, channel, watcher, canceled, crashed>>
    BY <1>1 DEF Send, Asking, manager, closing, Rest
  <2>3. UNCHANGED <<sessions, handler, replaced, stopping, callback, crossed, closed, broken,
                    cleaner, runner, pending, channel, watcher, canceled, crashed, sent, lost>>
    BY <2>2 DEF Rest
  <2> DEFINE t == sessions[p]
             at == IF t = None THEN "refused" ELSE "store"
             record == [op[r] EXCEPT !.session = t, !.at = at]
  <2>4. t \in Sessions \cup {None} /\ at \in OpSteps
    BY <1>0 DEF SessionsOK, OpSteps
  <2>5. op' = [op EXCEPT ![r] = record]
    BY <1>o, <2>1
  <2>6. at \in {"store", "refused"} /\ (at # "refused" => t \in Sessions)
    BY <2>4
  <2> HIDE DEF t, at
  <2>7. record \in Ops /\ record.session = t /\ record.at = at
    BY <1>o, <2>4 DEF Ops
  <2> HIDE DEF record
  <2>8. /\ op' \in [Requests -> Ops] /\ op'[r] = record
        /\ \A q \in Requests \ {r} : op'[q] = op[q]
    BY <1>o, <2>5, <2>7
  <2>9. OpOK'
    BY <1>0, <2>6, <2>7, <2>8 DEF OpOK
  <2>10. WatcherOK'
    BY <1>0, <2>2, <2>3, <2>6, <2>7, <2>8 DEF WatcherOK
  <2>11. DispatchOK' /\ VisitOwned'
    <3>1. UNCHANGED <<closed, cleaner, runner, canceled>>
      BY <2>3
    <3>2. ~Ended(r) /\ \A q \in Requests : watcher[q] # "off" => watcher'[q] # "off"
      BY <2>2, <2>3 DEF Ended
    <3>3. op[r].at = "new"
      BY <2>2
    <3> QED
      BY <2>8, <3>1, <3>2, <3>3, OpMove
  <2>12. PendingOwned' /\ FreshOpen'
    BY <1>0, <2>2, <2>3, <2>6, <2>7, <2>8 DEF PendingOwned, FreshOpen, PendingOK
  <2> QED
    BY <1>0, <2>3, <2>9, <2>10, <2>11, <2>12, Frames, RelayFrames DEF Typed, RelayInv
<1>2. CASE StoreRequest(r)
  <2> DEFINE s == op[r].session
  <2>1. /\ op[r].at = "store"
        /\ UNCHANGED <<Rest, channel, watcher, canceled, crashed>>
        /\ \/ pending' = [pending EXCEPT ![s] = @ \cup {r}] /\ Step(r, "load")
           \/ UNCHANGED pending /\ Step(r, "failed")
    BY <1>2 DEF StoreRequest, Asking, manager, closing, Rest
  <2>2. UNCHANGED <<sessions, handler, replaced, stopping, callback, crossed, closed, broken,
                    cleaner, runner, channel, watcher, canceled, crashed, sent, lost>>
    BY <2>1 DEF Rest
  <2>3. ~Ended(r) /\ s \in Sessions /\ watcher[r] = "off"
    BY <1>0, <2>1 DEF Ended, OpOK, WatcherOK
  <2>4. CASE UNCHANGED pending /\ Step(r, "failed")
    <3>1. WatcherOK'
      <4>1. op'[r].at = "failed" /\ \A q \in Requests \ {r} : op'[q] = op[q]
        BY <1>0, <1>s, <2>1, <2>4, StepFacts
      <4> QED
        BY <1>0, <2>2, <4>1 DEF WatcherOK
    <3> QED
      BY <1>s, <2>1, <2>2, <2>3, <2>4, <3>1, PlainStep
  <2>5. CASE pending' = [pending EXCEPT ![s] = @ \cup {r}] /\ Step(r, "load")
    <3>1. /\ OpOK' /\ op'[r].at = "load" /\ op'[r].session = op[r].session
          /\ \A q \in Requests \ {r} : op'[q] = op[q]
      BY <1>0, <1>s, <2>1, <2>5, StepFacts
    <3>2. /\ PendingOK' /\ pending'[s] = pending[s] \cup {r}
          /\ \A t \in Sessions \ {s} : pending'[t] = pending[t]
      BY <1>0, <2>3, <2>5 DEF PendingOK
    <3>3. WatcherOK'
      BY <1>0, <2>2, <2>3, <3>1 DEF WatcherOK
    <3>4. DispatchOK' /\ VisitOwned'
      BY <2>2, <2>3, <3>1, OpMove
    <3>5. PendingOwned' /\ FreshOpen'
      BY <1>0, <2>2, <2>3, <3>1, <3>2 DEF PendingOwned, FreshOpen, PendingOK
    <3>6. ~channel[r].closed
      BY <1>0, <2>1 DEF FreshOpen
    <3>7. ClosedIsGone'
      BY <1>0, <2>2, <2>3, <3>2, <3>6 DEF ClosedIsGone
    <3> QED
      BY <1>0, <2>2, <3>1, <3>2, <3>3, <3>4, <3>5, <3>7, Frames, RelayFrames
      DEF Typed, RelayInv
  <2> QED
    BY <2>1, <2>4, <2>5
<1>3. CASE LoadRequest(r) \/ CheckClosed(r)
  <2>1. /\ op[r].at \in {"load", "check"}
        /\ UNCHANGED <<Rest, pending, channel, watcher, canceled, crashed>>
    BY <1>3 DEF LoadRequest, CheckClosed, Asking, manager, closing, Rest
  <2>2. PICK at \in {"check", "failed", "undo", "write"} : Step(r, at)
    BY <1>3 DEF LoadRequest, CheckClosed
  <2>3. at \in OpSteps /\ at \notin {"new", "store", "refused", "wait"}
    BY <1>s, <2>2
  <2>4. op'[r].at = at /\ \A q \in Requests \ {r} : op'[q] = op[q]
    BY <1>0, <2>1, <2>2, <2>3, StepFacts
  <2>5. watcher[r] = "off" /\ WatcherOK'
    BY <1>0, <2>1, <2>3, <2>4 DEF WatcherOK
  <2>6. ~Ended(r)
    BY <2>1 DEF Ended
  <2> QED
    BY <2>1, <2>2, <2>3, <2>5, <2>6, PlainStep
<1>4. CASE Write(r)
  <2>1. /\ op[r].at = "write"
        /\ UNCHANGED <<Rest, pending, channel, canceled, crashed>>
        /\ \/ Step(r, "wait") /\ watcher' = [watcher EXCEPT ![r] = "on"]
           \/ Step(r, "undo") /\ UNCHANGED watcher
    BY <1>4 DEF Write, Asking, manager, closing, Rest
  <2>2. PICK at \in {"wait", "undo"} : Step(r, at)
    BY <2>1
  <2>3. at \in OpSteps /\ at \notin {"new", "store", "refused"}
    BY <1>s, <2>2
  <2>4. /\ op'[r].at = at /\ \A q \in Requests \ {r} : op'[q] = op[q]
    BY <1>0, <2>1, <2>2, <2>3, StepFacts
  <2>5. watcher[r] = "off" /\ ~Ended(r)
    BY <1>0, <2>1 DEF WatcherOK, Ended
  <2>6. WatcherOK' /\ \A q \in Requests : watcher[q] # "off" => watcher'[q] # "off"
    <3>1. CASE Step(r, "wait") /\ watcher' = [watcher EXCEPT ![r] = "on"]
      <4>1. op'[r].at = "wait" /\ \A q \in Requests \ {r} : op'[q] = op[q]
        BY <1>0, <1>s, <2>1, <3>1, StepFacts
      <4> QED
        BY <1>0, <3>1, <4>1 DEF WatcherOK
    <3>2. CASE Step(r, "undo") /\ UNCHANGED watcher
      <4>1. op'[r].at = "undo" /\ \A q \in Requests \ {r} : op'[q] = op[q]
        BY <1>0, <1>s, <2>1, <3>2, StepFacts
      <4> QED
        BY <1>0, <2>5, <3>2, <4>1 DEF WatcherOK
    <3> QED
      BY <2>1, <3>1, <3>2
  <2> QED
    BY <2>1, <2>2, <2>3, <2>5, <2>6, PlainStep
<1>5. CASE Undo(r)
  <2> DEFINE s == op[r].session
  <2>1. /\ op[r].at = "undo" /\ Step(r, "failed")
        /\ Forget(s, r) \/ UNCHANGED <<pending, channel>>
        /\ UNCHANGED <<Rest, watcher, canceled, crashed>>
    BY <1>5 DEF Undo, Asking, manager, closing, Rest
  <2>2. UNCHANGED <<sessions, handler, replaced, stopping, callback, crossed, closed, broken,
                    cleaner, runner, watcher, canceled, crashed, sent, lost>>
    BY <2>1 DEF Rest
  <2>3. ~Ended(r) /\ s \in Sessions /\ watcher[r] = "off"
    BY <1>0, <2>1 DEF Ended, OpOK, WatcherOK
  <2>4. /\ OpOK' /\ op'[r].at = "failed" /\ op'[r].session = op[r].session
        /\ \A q \in Requests \ {r} : op'[q] = op[q]
    BY <1>0, <1>s, <2>1, StepFacts
  <2>5. WatcherOK'
    BY <1>0, <2>2, <2>4 DEF WatcherOK
  <2>6. CASE UNCHANGED <<pending, channel>>
    BY <1>s, <2>1, <2>2, <2>3, <2>5, <2>6, PlainStep
  <2>7. CASE Forget(s, r)
    <3>1. /\ ChannelOK' /\ PendingOK'
          /\ \A t \in Sessions : pending'[t] = IF t = s THEN pending[t] \ {r} ELSE pending[t]
          /\ \A q \in Requests : channel'[q].closed =>
               channel[q].closed \/ (q = r /\ r \in pending[s])
      BY <1>0, <2>3, <2>7, ForgetFacts
    <3>2. DispatchOK' /\ VisitOwned'
      BY <2>2, <2>3, <2>4, OpMove
    <3>3. FreshOpen' /\ ClosedIsGone' /\ PendingOwned'
      BY <1>0, <2>1, <2>2, <2>4, <3>1
      DEF FreshOpen, ClosedIsGone, PendingOwned, PendingOK
    <3> QED
      BY <1>0, <2>2, <2>4, <2>5, <3>1, <3>2, <3>3, Frames, RelayFrames
      DEF Typed, RelayInv
  <2> QED
    BY <2>1, <2>6, <2>7
<1>6. CASE GiveUp(r) \/ ReceiveClosed(r)
  <2>1. /\ op[r].at = "wait"
        /\ UNCHANGED <<Rest, pending, channel, watcher, canceled, crashed>>
    BY <1>6 DEF GiveUp, ReceiveClosed, Asking, manager, closing, Rest
  <2>2. PICK at \in {"canceled", "ok", "failed"} : Step(r, at)
    BY <1>6 DEF GiveUp, ReceiveClosed
  <2>3. at \in OpSteps /\ at \notin {"new", "store", "refused", "wait"}
    BY <1>s, <2>2
  <2>4. op'[r].at = at /\ \A q \in Requests \ {r} : op'[q] = op[q]
    BY <1>0, <2>1, <2>2, <2>3, StepFacts
  <2>5. WatcherOK' /\ ~Ended(r)
    BY <1>0, <2>1, <2>2, <2>4 DEF WatcherOK, Ended
  <2> QED
    BY <2>1, <2>2, <2>3, <2>5, PlainStep
<1>7. CASE Receive(r)
  <2> DEFINE m == channel[r].messages
             record == Taken(r, Head(m))
  <2>1. /\ op[r].at = "wait" /\ m # <<>>
        /\ op' = [op EXCEPT ![r] = record]
        /\ channel' = [channel EXCEPT ![r].messages = Tail(m)]
        /\ UNCHANGED <<Rest, pending, watcher, canceled, crashed>>
    BY <1>7 DEF Receive, Asking, manager, closing, Rest
  <2>2. UNCHANGED <<sessions, handler, replaced, stopping, callback, crossed, closed, broken,
                    cleaner, runner, pending, watcher, canceled, crashed, sent, lost>>
    BY <2>1 DEF Rest
  <2>3. channel \in [Requests -> Channels] /\ m \in Seq(Types)
    BY <1>0 DEF ChannelOK, Channels
  <2>4. Head(m) \in Types /\ Tail(m) \in Seq(Types)
    BY <2>1, <2>3
  <2>5. /\ record \in Ops /\ record.session = op[r].session
        /\ record.at \in {"wait", "ok", "failed"}
    <3> DEFINE n == Body(r, Head(m), op[r].chunks)
    <3>1. n \in Nat
      BY <1>o, BodyNat DEF Ops
    <3>2. CASE Head(m) \in {"start", "chunk"}
      <4>1. record = [op[r] EXCEPT !.streamed = TRUE, !.chunks = n]
        BY <3>2 DEF Taken
      <4> HIDE DEF record, n
      <4> QED
        BY <1>o, <2>1, <3>1, <4>1 DEF Ops, OpSteps
    <3>3. CASE Head(m) = "error"
      <4>1. record = [op[r] EXCEPT !.at = "failed", !.end = "error"]
        BY <3>3 DEF Taken
      <4> HIDE DEF record
      <4> QED
        BY <1>o, <1>s, <4>1 DEF Ops, Terminal
    <3>4. CASE Head(m) \in {"response", "bare", "end"}
      <4> DEFINE e == Head(m)
      <4>1. record = [op[r] EXCEPT !.at = "ok", !.end = e, !.chunks = n]
        BY <3>4 DEF Taken
      <4>2. e \in Terminal
        BY <3>4 DEF Terminal
      <4> HIDE DEF record, n, e
      <4> QED
        BY <1>o, <1>s, <3>1, <4>1, <4>2 DEF Ops
    <3> HIDE DEF record
    <3> QED
      BY <2>4, <3>2, <3>3, <3>4 DEF Types
  <2> HIDE DEF record
  <2>6. /\ op' \in [Requests -> Ops] /\ op'[r] = record
        /\ \A q \in Requests \ {r} : op'[q] = op[q]
    BY <1>o, <2>1, <2>5
  <2>7. OpOK'
    BY <1>0, <2>1, <2>5, <2>6 DEF OpOK
  <2>8. WatcherOK' /\ ~Ended(r)
    BY <1>0, <2>1, <2>2, <2>5, <2>6 DEF WatcherOK, Ended
  <2>9. DispatchOK' /\ VisitOwned'
    BY <2>2, <2>5, <2>6, <2>8, OpMove
  <2>10. ChannelOK' /\ \A q \in Requests : channel'[q].closed = channel[q].closed
    <3> DEFINE rest == Tail(m)
    <3>1. rest \in Seq(Types) /\ channel' = [channel EXCEPT ![r].messages = rest]
      BY <2>1, <2>4
    <3> HIDE DEF rest, m
    <3> QED
      BY <2>3, <3>1 DEF ChannelOK, Channels
  <2>11. PendingOwned' /\ FreshOpen' /\ ClosedIsGone'
    BY <1>0, <2>1, <2>2, <2>5, <2>6, <2>10
    DEF PendingOwned, FreshOpen, ClosedIsGone, PendingOK
  <2> QED
    BY <1>0, <2>2, <2>7, <2>8, <2>9, <2>10, <2>11, Frames, RelayFrames
    DEF Typed, RelayInv
<1> QED
  BY <1>1, <1>2, <1>3, <1>4, <1>5, <1>6, <1>7 DEF RequestStep

LEMMA WatchSteps ==
  ASSUME RelayInv, NEW r \in Requests, Cancel(r) \/ WatchStep(r)
  PROVE  RelayInv'
PROOF
<1>0. /\ Typed /\ ClosingOK /\ PendingOK /\ ChannelOK /\ OpOK /\ WatcherOK /\ CanceledOK
      /\ CrashedOK /\ RunnerOK /\ DispatchOK /\ PendingOwned /\ FreshOpen /\ ClosedIsGone
  BY DEF RelayInv, Typed
<1>1. CASE Cancel(r)
  <2>1. /\ canceled' = canceled \cup {r}
        /\ UNCHANGED <<Rest, pending, channel, op, watcher, crashed>>
    BY <1>1 DEF Cancel, manager, closing, Rest
  <2>2. UNCHANGED <<sessions, handler, replaced, stopping, callback, crossed, closed, broken,
                    cleaner, runner, pending, channel, op, watcher, crashed, sent, lost>>
    BY <2>1 DEF Rest
  <2>3. CanceledOK'
    BY <1>0, <2>1 DEF CanceledOK
  <2> QED
    BY <1>0, <2>2, <2>3, Frames, RelayFrames DEF Typed, RelayInv
<1>2. ASSUME watcher[r] = "on", watcher' = [watcher EXCEPT ![r] = "ended"],
             UNCHANGED <<runner, op>>
      PROVE  WatcherOK' /\ DispatchOK'
  BY <1>0, <1>2 DEF WatcherOK, DispatchOK
<1>3. CASE WatchClosed(r)
  <2>1. /\ watcher[r] = "on" /\ watcher' = [watcher EXCEPT ![r] = "ended"]
        /\ UNCHANGED <<Rest, pending, channel, op, canceled, crashed>>
    BY <1>3 DEF WatchClosed, Watching, manager, closing, Rest
  <2>2. UNCHANGED <<sessions, handler, replaced, stopping, callback, crossed, closed, broken,
                    cleaner, runner, pending, channel, op, canceled, crashed, sent, lost>>
    BY <2>1 DEF Rest
  <2> QED
    BY <1>0, <1>2, <2>1, <2>2, Frames, RelayFrames DEF Typed, RelayInv
<1>4. CASE WatchContext(r)
  <2> DEFINE s == op[r].session
  <2>1. /\ watcher[r] = "on" /\ watcher' = [watcher EXCEPT ![r] = "ended"] /\ Done(r)
        /\ \/ Forget(s, r) /\ UNCHANGED crashed
           \/ Torn(s) /\ UNCHANGED <<pending, channel>>
        /\ UNCHANGED <<Rest, op, canceled>>
    BY <1>4 DEF WatchContext, Watching, manager, closing, Rest
  <2>2. UNCHANGED <<sessions, handler, replaced, stopping, callback, crossed, closed, broken,
                    cleaner, runner, op, canceled, sent, lost>>
    BY <2>1 DEF Rest
  <2>3. s \in Sessions /\ op[r].at \notin {"new", "store"}
    BY <1>0, <2>1 DEF OpOK, WatcherOK
  <2>5. CASE Forget(s, r) /\ UNCHANGED crashed
    <3>1. /\ ChannelOK' /\ PendingOK'
          /\ \A t \in Sessions : pending'[t] = IF t = s THEN pending[t] \ {r} ELSE pending[t]
          /\ \A q \in Requests : channel'[q].closed =>
               channel[q].closed \/ (q = r /\ r \in pending[s])
      BY <1>0, <2>3, <2>5, ForgetFacts
    <3>2. FreshOpen' /\ ClosedIsGone' /\ PendingOwned'
      BY <1>0, <2>2, <2>3, <3>1 DEF FreshOpen, ClosedIsGone, PendingOwned, PendingOK
    <3> QED
      BY <1>0, <1>2, <2>1, <2>2, <2>5, <3>1, <3>2, Frames, RelayFrames
      DEF Typed, RelayInv
  <2>6. CASE Torn(s) /\ UNCHANGED <<pending, channel>>
    <3>1. CrashedOK'
      BY <2>6 DEF Torn, CrashedOK
    <3> QED
      BY <1>0, <1>2, <2>1, <2>2, <2>6, <3>1, Frames, RelayFrames DEF Typed, RelayInv
  <2> QED
    BY <2>1, <2>5, <2>6
<1> QED
  BY <1>1, <1>3, <1>4 DEF WatchStep

LEMMA InitRelay == Init => RelayInv
PROOF
<1> SUFFICES ASSUME Init PROVE RelayInv
  OBVIOUS
<1>1. FreshOpen /\ ClosedIsGone
  BY DEF Init, FreshOpen, ClosedIsGone
<1> QED
  BY <1>1, InitTyped DEF RelayInv

LEMMA NextRelay == RelayInv /\ [Next]_vars => RelayInv'
PROOF
<1> SUFFICES ASSUME RelayInv, [Next]_vars PROVE RelayInv'
  OBVIOUS
<1>1. CASE Stop
  BY <1>1, StopStep
<1>2. ASSUME NEW s \in Sessions,
             HandlerStep(s) \/ ConnectionFails(s) \/ CleanupStep(s) \/ Read(s) \/ DispatchStep(s)
      PROVE  RelayInv'
  <2>1. CASE HandlerStep(s)
    BY <1>2, <2>1, ManagerSteps
  <2>2. CASE ConnectionFails(s) \/ CleanupStep(s)
    BY <1>2, <2>2, CleanupSteps
  <2>3. CASE Read(s) \/ DispatchStep(s)
    BY <1>2, <2>3, RunnerSteps
  <2> QED
    BY <1>2, <2>1, <2>2, <2>3
<1>3. ASSUME NEW r \in Requests, Send(r) \/ RequestStep(r) \/ Cancel(r) \/ WatchStep(r)
      PROVE  RelayInv'
  BY <1>3, RequestSteps, WatchSteps
<1>4. CASE UNCHANGED vars
  <2>1. UNCHANGED <<sessions, handler, replaced, stopping, callback, crossed, closed, broken,
                    cleaner, runner, pending, channel, op, watcher, canceled, crashed, sent,
                    lost>>
    BY <1>4 DEF vars, manager, closing, requests
  <2>2. Typed /\ FreshOpen /\ ClosedIsGone
    BY DEF RelayInv
  <2> QED
    BY <2>1, <2>2, Frames, RelayFrames DEF Typed, RelayInv
<1> QED
  BY <1>1, <1>2, <1>3, <1>4 DEF Next

LEMMA RelayInvariance == Spec => []RelayInv
PROOF BY InitRelay, NextRelay, PTL DEF Spec

\* The variables have their types, for any number of sessions and requests.
THEOREM TypeCorrect == Spec => []TypeOK
PROOF
<1>1. RelayInv => TypeOK
  BY TypedTypes DEF RelayInv
<1> QED
  BY <1>1, RelayInvariance, PTL

\* No message is dispatched to a channel that is closed: session.run finds a
\* request in the map only while its channel is open, or while a cleanup goes
\* through the map.
THEOREM ClosedCannotBeFound == Spec => []ClosedIsGone
PROOF
<1>1. RelayInv => ClosedIsGone
  BY DEF RelayInv
<1> QED
  BY <1>1, RelayInvariance, PTL

-----------------------------------------------------------------------------
(***************************************************************************)
(* What it takes to end the process: nothing comes of a request that is    *)
(* spent, and session.run does not find it, but for a session that closes  *)
(* or a request that was canceled.                                         *)
(***************************************************************************)
\* The handler's goroutine starts the one that reads.
HandlerFirst == \A s \in Sessions : handler[s] # "done" => runner[s].at = "off"

\* The channel is closed, the caller has gone, or the end of the answer waits
\* for it in the channel.
Spent(r) ==
  \/ channel[r].closed
  \/ Ended(r)
  \/ \E i \in DOMAIN channel[r].messages : channel[r].messages[i] \in Terminal

Warned(r) == op[r].session \in closed \/ r \in canceled

\* session.run put the end of the answer in the channel and is to forget the
\* request.
Finishing(r) == \E s \in Sessions : runner[s].at = "finish" /\ runner[s].request = r

\* The request is in no map, and no message for it in dispatch.
Alone(r) ==
  \A s \in Sessions : r \notin pending[s] /\ (runner[s].at = "offer" => runner[s].request # r)

FreshUnspent == \A r \in Requests : op[r].at \in {"new", "store"} => ~Spent(r)
StoredUnspent ==
  \A s \in Sessions : \A r \in pending[s] : Spent(r) => Warned(r) \/ Finishing(r)
OfferedUnspent ==
  \A s \in Sessions :
    runner[s].at = "offer" /\ Spent(runner[s].request) => Warned(runner[s].request)

RaceInv == HandlerFirst /\ FreshUnspent /\ StoredUnspent /\ OfferedUnspent

\* What a step must show.
LEMMA RaceKept ==
  ASSUME RelayInv, RelayInv', RaceInv, HandlerFirst', FreshUnspent',
         closed \subseteq closed', canceled \subseteq canceled',
         \A r \in Requests : op[r].at # "new" => op'[r].session = op[r].session,
         \A s \in Sessions : \A r \in pending'[s] : r \in pending[s] \/ ~Spent(r)',
         \A r \in Requests :
           Spent(r)' => Spent(r) \/ Warned(r)' \/ Finishing(r)' \/ Alone(r)',
         \A r \in Requests : Finishing(r) =>
           Finishing(r)' \/ Warned(r)' \/ \A s \in Sessions : r \notin pending'[s],
         \A s \in Sessions : runner'[s].at = "offer" =>
           \/ runner[s].at = "offer" /\ runner'[s].request = runner[s].request
           \/ runner[s].at = "read" /\ runner'[s].request \in pending[s]
  PROVE  RaceInv'
PROOF
<1>0. /\ PendingOK /\ PendingOwned /\ DispatchOK /\ WatcherOK
      /\ PendingOK' /\ PendingOwned' /\ DispatchOK'
  BY DEF RelayInv, Typed
<1>i. StoredUnspent /\ OfferedUnspent
  BY DEF RaceInv
<1>w. ASSUME NEW r \in Requests, op[r].at # "new", Warned(r) PROVE Warned(r)'
  BY <1>w DEF Warned
<1>1. ASSUME NEW s \in Sessions, NEW r \in pending'[s], Spent(r)'
      PROVE  Warned(r)' \/ Finishing(r)'
  <2>1. r \in pending[s] /\ r \in Requests /\ op[r].at # "new"
    BY <1>0, <1>1 DEF PendingOK, PendingOwned
  <2>2. CASE Spent(r)
    <3>1. Warned(r) \/ Finishing(r)
      BY <1>i, <2>1, <2>2 DEF StoredUnspent
    <3> QED
      BY <1>w, <2>1, <3>1
  <2>3. ~Alone(r)'
    BY DEF Alone
  <2> QED
    BY <1>1, <2>1, <2>2, <2>3
<1>2. ASSUME NEW s \in Sessions, NEW q, q = runner'[s].request, runner'[s].at = "offer", Spent(q)'
      PROVE  Warned(q)'
  <2>1. q \in Requests /\ op'[q].session = s /\ q = runner'[s].request
    BY <1>0, <1>2 DEF DispatchOK
  <2>2. ~Finishing(q)' /\ ~Alone(q)'
    BY <1>0, <1>2, <2>1 DEF Finishing, Alone, DispatchOK
  <2>3. CASE Spent(q)
    <3>1. CASE runner[s].at = "offer" /\ q = runner[s].request
      <4>1. Warned(q) /\ op[q].at # "new"
        BY <1>0, <1>i, <2>3, <3>1 DEF OfferedUnspent, DispatchOK, WatcherOK
      <4> QED
        BY <1>w, <2>1, <4>1
    <3>2. CASE runner[s].at = "read" /\ q \in pending[s]
      <4>1. op[q].session = s /\ op[q].at # "new"
        BY <1>0, <3>2 DEF PendingOwned
      <4>2. ~Finishing(q)
        BY <1>0, <3>2, <4>1 DEF Finishing, DispatchOK
      <4>3. Warned(q)
        BY <1>i, <2>3, <3>2, <4>2 DEF StoredUnspent
      <4> QED
        BY <1>w, <2>1, <4>1, <4>3
    <3> QED
      BY <1>2, <3>1, <3>2
  <2> QED
    BY <1>2, <2>1, <2>2, <2>3
<1> QED
  BY <1>1, <1>2 DEF RaceInv, StoredUnspent, OfferedUnspent

\* What happens outside the map, the channels and the requests.
LEMMA RaceQuiet ==
  ASSUME RelayInv, RelayInv', RaceInv, HandlerFirst', UNCHANGED <<op, channel, runner>>,
         closed \subseteq closed', canceled \subseteq canceled',
         \A s \in Sessions : pending'[s] \subseteq pending[s]
  PROVE  RaceInv'
PROOF
<1>1. \A r \in Requests : Spent(r)' = Spent(r)
  BY DEF Spent, Ended
<1>2. FreshUnspent'
  BY <1>1 DEF RaceInv, FreshUnspent
<1>3. \A r \in Requests : Finishing(r)' = Finishing(r)
  BY DEF Finishing
<1>4. \A s \in Sessions : \A r \in pending'[s] : r \in pending[s]
  OBVIOUS
<1> QED
  BY <1>1, <1>2, <1>3, <1>4, RaceKept

\* A step of a request, or of the goroutine that waits for its context.
LEMMA RaceCaller ==
  ASSUME RelayInv, RelayInv', RaceInv, NEW r \in Requests,
         UNCHANGED <<handler, runner, closed, canceled>>,
         \A q \in Requests \ {r} : op'[q] = op[q] /\ channel'[q] = channel[q],
         \A s \in Sessions : pending'[s] \ {r} \subseteq pending[s],
         op[r].at # "new" => op'[r].session = op[r].session,
         op'[r].at \in {"new", "store"} => ~Spent(r)',
         Spent(r)' => Spent(r) \/ Warned(r)' \/ Alone(r)',
         \A s \in Sessions : r \in pending'[s] => r \in pending[s] \/ ~Spent(r)'
  PROVE  RaceInv'
PROOF
<1>1. \A q \in Requests \ {r} : Spent(q)' = Spent(q)
  BY DEF Spent, Ended
<1>2. FreshUnspent'
  BY <1>1 DEF RaceInv, FreshUnspent
<1>3. \A q \in Requests : Finishing(q)' = Finishing(q)
  BY DEF Finishing
<1>4. HandlerFirst'
  BY DEF RaceInv, HandlerFirst
<1>5. \A s \in Sessions : \A q \in pending'[s] : q \in pending[s] \/ ~Spent(q)'
  OBVIOUS
<1>6. \A q \in Requests : Spent(q)' => Spent(q) \/ Warned(q)' \/ Finishing(q)' \/ Alone(q)'
  BY <1>1
<1>7. \A q \in Requests : op[q].at # "new" => op'[q].session = op[q].session
  OBVIOUS
<1>8. \A s \in Sessions : runner'[s].at = "offer" =>
        runner[s].at = "offer" /\ runner'[s].request = runner[s].request
  OBVIOUS
<1> QED
  BY <1>2, <1>3, <1>4, <1>5, <1>6, <1>7, <1>8, RaceKept

\* A send changes one channel; only a terminal message spends its request.
LEMMA OfferSpends ==
  ASSUME ChannelOK, NEW r \in Requests, NEW type \in Types, Offer(r, type), UNCHANGED op
  PROVE  /\ \A q \in Requests \ {r} : Spent(q)' = Spent(q)
         /\ type \notin Terminal => (Spent(r)' => Spent(r))
         /\ channel[r].closed => (Spent(r)' => Spent(r))
PROOF
<1>0. channel \in [Requests -> Channels] /\ channel[r].messages \in Seq(Types)
  BY DEF ChannelOK, Channels
<1>1. CASE UNCHANGED channel
  BY <1>1 DEF Spent, Ended
<1>2. CASE ~channel[r].closed /\ Len(channel[r].messages) < Buffer
  <2> DEFINE ms == channel[r].messages
             more == Append(ms, type)
  <2>1. channel' = [channel EXCEPT ![r].messages = more]
    BY <1>2 DEF Offer
  <2>2. /\ \A i \in DOMAIN more : i \in DOMAIN ms \/ more[i] = type
        /\ \A i \in DOMAIN ms : more[i] = ms[i]
    BY <1>0
  <2> HIDE DEF more, ms
  <2>3. /\ channel'[r].messages = more /\ channel'[r].closed = channel[r].closed
        /\ \A q \in Requests \ {r} : channel'[q] = channel[q]
    BY <1>0, <2>1 DEF Channels
  <2>4. \A q \in Requests \ {r} : Spent(q)' = Spent(q)
    BY <2>3 DEF Spent, Ended
  <2>5. type \notin Terminal => (Spent(r)' => Spent(r))
    BY <2>2, <2>3 DEF Spent, Ended, ms
  <2> QED
    BY <1>2, <2>4, <2>5
<1> QED
  BY <1>1, <1>2 DEF Offer

LEMMA RaceManager ==
  ASSUME RelayInv, RelayInv', RaceInv, Stop \/ \E s \in Sessions : HandlerStep(s)
  PROVE  RaceInv'
PROOF
<1>0. HandlerOK /\ RunnerOK /\ HandlerFirst
  BY DEF RelayInv, Typed, RaceInv
<1>1. UNCHANGED <<op, channel, closed, canceled, pending>>
  BY DEF Stop, HandlerStep, Connect, StoreSession, Replaced, Connected, closing, requests
<1>2. CASE UNCHANGED runner /\ \A s \in Sessions : handler'[s] # "done" => handler[s] # "done"
  <2>1. HandlerFirst'
    BY <1>0, <1>2 DEF HandlerFirst
  <2> QED
    BY <1>1, <1>2, <2>1, RaceQuiet
<1>3. ASSUME NEW s \in Sessions, Connected(s)
      PROVE  RaceInv'
  <2>1. /\ handler[s] = "connected" /\ handler' = [handler EXCEPT ![s] = "done"]
        /\ runner' = [runner EXCEPT ![s].at = "read"]
    BY <1>3 DEF Connected, Handling
  <2>2. /\ runner[s].at = "off" /\ runner'[s].at = "read"
        /\ \A t \in Sessions \ {s} : runner'[t] = runner[t]
    BY <1>0, <2>1 DEF HandlerFirst, RunnerOK, Runners
  <2>3. HandlerFirst'
    BY <1>0, <2>1, <2>2 DEF HandlerFirst, HandlerOK
  <2>4. \A r \in Requests : Spent(r)' = Spent(r) /\ Finishing(r)' = Finishing(r)
    BY <1>1, <2>2 DEF Spent, Ended, Finishing
  <2>5. FreshUnspent'
    BY <1>1, <2>4 DEF RaceInv, FreshUnspent
  <2>6. \A t \in Sessions : runner'[t].at = "offer" =>
          runner[t].at = "offer" /\ runner'[t].request = runner[t].request
    BY <2>2
  <2> QED
    BY <1>1, <2>3, <2>4, <2>5, <2>6, RaceKept
<1>4. ASSUME Stop \/ \E s \in Sessions : Connect(s) \/ StoreSession(s) \/ Replaced(s)
      PROVE  UNCHANGED runner /\ \A s \in Sessions : handler'[s] # "done" => handler[s] # "done"
  BY <1>0, <1>4 DEF Stop, Connect, StoreSession, Replaced, Handling, HandlerOK
<1> QED
  BY <1>2, <1>3, <1>4 DEF HandlerStep

LEMMA RaceCleanup ==
  ASSUME RelayInv, RelayInv', RaceInv, NEW s \in Sessions, ConnectionFails(s) \/ CleanupStep(s)
  PROVE  RaceInv'
PROOF
<1>0. HandlerFirst /\ FreshUnspent /\ ClosingOK /\ VisitOwned /\ ChannelOK /\ PendingOK
  BY DEF RelayInv, Typed, RaceInv
<1>1. UNCHANGED <<handler, op, runner, canceled>> /\ closed \subseteq closed'
  BY DEF ConnectionFails, CleanupStep, CleanStopped, CleanReplaced, BeginCleanup, Visit, Notify,
     CloseVisited, EndRange, Clear, CloseConnection, RemoveSession, Disconnected, manager,
     requests
<1>2. HandlerFirst'
  BY <1>0, <1>1 DEF HandlerFirst
<1>3. ASSUME Notify(s) \/ CloseVisited(s)
      PROVE  RaceInv'
  <2>1. /\ cleaner[s].at \in {"notify", "close"} /\ UNCHANGED <<pending, closed>>
    BY <1>3 DEF Notify, CloseVisited, Cleaning
  <2>2. PICK q \in Requests :
          /\ q = cleaner[s].request /\ op[q].session = s
          /\ op[q].at \notin {"new", "store"}
    BY <1>0, <2>1 DEF VisitOwned
  <2>3. s \in closed /\ Warned(q)'
    <3>1. s \in closed
      BY <1>0, <2>1 DEF ClosingOK
    <3> QED
      BY <1>1, <2>1, <2>2, <3>1 DEF Warned
  <2>4. \A r \in Requests \ {q} : Spent(r)' = Spent(r)
    <3>1. CASE Notify(s)
      <4>1. "error" \in Types /\ Offer(q, "error")
        BY <2>2, <3>1 DEF Notify, Types
      <4> QED
        BY <1>0, <1>1, <4>1, OfferSpends
    <3>2. CASE CloseVisited(s)
      <4>1. \A r \in Requests \ {q} : channel'[r] = channel[r]
        BY <1>0, <2>2, <3>2 DEF CloseVisited, Close, ChannelOK
      <4> QED
        BY <1>1, <4>1 DEF Spent, Ended
    <3> QED
      BY <1>3, <3>1, <3>2
  <2>5. FreshUnspent'
    BY <1>0, <1>1, <2>2, <2>4 DEF FreshUnspent
  <2>6. \A r \in Requests : Spent(r)' => Spent(r) \/ Warned(r)'
    BY <2>3, <2>4
  <2>7. \A r \in Requests : Finishing(r)' = Finishing(r)
    BY <1>1 DEF Finishing
  <2>8. \A t \in Sessions : \A r \in pending'[t] : r \in pending[t]
    BY <2>1
  <2> QED
    BY <1>1, <1>2, <2>5, <2>6, <2>7, <2>8, RaceKept
<1>4. ASSUME \/ ConnectionFails(s) \/ CleanStopped(s) \/ CleanReplaced(s) \/ Visit(s)
             \/ EndRange(s) \/ Clear(s) \/ CloseConnection(s) \/ RemoveSession(s)
             \/ Disconnected(s)
      PROVE  RaceInv'
  <2>1. UNCHANGED channel
    BY <1>4 DEF ConnectionFails, CleanStopped, CleanReplaced, BeginCleanup, Visit, EndRange,
       Clear, CloseConnection, RemoveSession, Disconnected
  <2>2. \A t \in Sessions : pending'[t] \subseteq pending[t]
    BY <1>0, <1>4 DEF ConnectionFails, CleanStopped, CleanReplaced, BeginCleanup, Visit, EndRange,
       Clear, CloseConnection, RemoveSession, Disconnected, PendingOK
  <2> QED
    BY <1>1, <1>2, <2>1, <2>2, RaceQuiet
<1> QED
  BY <1>3, <1>4 DEF CleanupStep

LEMMA RaceRunner ==
  ASSUME RelayInv, RelayInv', RaceInv, NEW s \in Sessions, Read(s) \/ DispatchStep(s)
  PROVE  RaceInv'
PROOF
<1>0. /\ HandlerFirst /\ FreshUnspent /\ ClosingOK /\ DispatchOK /\ ChannelOK /\ PendingOK
      /\ PendingOwned /\ PendingOwned' /\ WatcherOK /\ RunnerOK
      /\ runner \in [Sessions -> Runners]
  BY DEF RelayInv, Typed, RaceInv, RunnerOK
<1>1. UNCHANGED <<handler, op, closed, canceled, watcher>>
  BY DEF Read, DispatchStep, Dispatch, Finish, RunEnds, manager, closing, requests
<1>2. runner[s].at # "off"
  BY DEF Read, DispatchStep, Dispatch, Finish, RunEnds, Running
<1>3. \A t \in Sessions \ {s} : runner'[t] = runner[t]
  BY <1>0 DEF Read, DispatchStep, Dispatch, Finish, RunEnds
<1>4. HandlerFirst'
  BY <1>0, <1>1, <1>2, <1>3 DEF HandlerFirst
<1>5. \A r \in Requests : Finishing(r) /\ ~Finishing(r)' =>
        runner[s].at = "finish" /\ runner[s].request = r
  BY <1>3 DEF Finishing
<1>i. [IdleRunner EXCEPT !.at = "read"].at = "read" /\ [IdleRunner EXCEPT !.at = "ended"].at = "ended"
  BY DEF IdleRunner
<1>6. CASE Read(s) \/ RunEnds(s)
  <2>1. runner[s].at = "read" /\ UNCHANGED <<pending, channel>>
    BY <1>6 DEF Read, RunEnds, Running
  <2>2. \A r \in Requests : Spent(r)' = Spent(r)
    BY <1>1, <2>1 DEF Spent, Ended
  <2>3. FreshUnspent'
    BY <1>0, <1>1, <2>2 DEF FreshUnspent
  <2>4. runner'[s].at = "offer" => runner'[s].request \in pending[s]
    <3>1. CASE RunEnds(s)
      BY <1>0, <1>i, <3>1 DEF RunEnds
    <3>2. CASE Read(s)
      <4>1. CASE UNCHANGED runner
        BY <2>1, <4>1
      <4>2. ASSUME NEW r \in Requests, NEW type \in Types, NEW view \in Views(s),
                   runner' = [runner EXCEPT ![s] =
                     IF r \in view THEN [at |-> "offer", request |-> r, type |-> type]
                                   ELSE [IdleRunner EXCEPT !.at = "read"]]
            PROVE  runner'[s].at = "offer" => runner'[s].request \in pending[s]
        <5>1. r \in view => r \in pending[s]
          BY DEF Views
        <5>2. CASE r \in view
          <6>1. runner'[s] = [at |-> "offer", request |-> r, type |-> type]
            BY <1>0, <4>2, <5>2
          <6> QED
            BY <5>1, <5>2, <6>1
        <5>3. CASE r \notin view
          BY <1>0, <1>i, <4>2, <5>3
        <5> QED
          BY <5>2, <5>3
      <4> QED
        BY <3>2, <4>1, <4>2 DEF Read
    <3> QED
      BY <1>6, <3>1, <3>2
  <2>5. \A t \in Sessions : runner'[t].at = "offer" =>
           \/ runner[t].at = "offer" /\ runner'[t].request = runner[t].request
           \/ runner[t].at = "read" /\ runner'[t].request \in pending[t]
    BY <1>3, <2>1, <2>4
  <2>6. \A r \in Requests : Finishing(r) => Finishing(r)'
    BY <1>5, <2>1
  <2> QED
    BY <1>1, <1>4, <2>1, <2>2, <2>3, <2>5, <2>6, RaceKept
<1>7. CASE Dispatch(s)
  <2>1. /\ runner[s].at = "offer" /\ Offer(runner[s].request, runner[s].type)
        /\ UNCHANGED pending
    BY <1>7 DEF Dispatch, Running
  <2>2. PICK q \in Requests : q = runner[s].request /\ op[q].at \notin {"new", "store"}
    BY <1>0, <2>1 DEF DispatchOK, WatcherOK
  <2>3. PICK type \in Types : type = runner[s].type
    BY <1>0 DEF Runners
  <2>4. /\ type \in Terminal => runner'[s].at = "finish" /\ runner'[s].request = q
        /\ type \notin Terminal => runner'[s].at = "read"
    <3>1. CASE type \in Terminal
      <4>1. runner'[s] = [runner[s] EXCEPT !.at = "finish"]
        BY <1>0, <1>7, <2>3, <3>1 DEF Dispatch
      <4> QED
        BY <1>0, <2>2, <3>1, <4>1 DEF Runners
    <3>2. CASE type \notin Terminal
      BY <1>0, <1>7, <1>i, <2>3, <3>2 DEF Dispatch
    <3> QED
      BY <3>1, <3>2
  <2>5. /\ \A r \in Requests \ {q} : Spent(r)' = Spent(r)
        /\ type \notin Terminal => (Spent(q)' => Spent(q))
    BY <1>0, <1>1, <2>1, <2>2, <2>3, OfferSpends
  <2>6. FreshUnspent'
    BY <1>0, <1>1, <2>2, <2>5 DEF FreshUnspent
  <2>7. type \in Terminal => Finishing(q)'
    BY <2>4 DEF Finishing
  <2>8. \A r \in Requests : Spent(r)' => Spent(r) \/ Finishing(r)'
    BY <2>5, <2>7
  <2>9. \A r \in Requests : Finishing(r) => Finishing(r)'
    BY <1>5, <2>1
  <2>10. \A t \in Sessions : runner'[t].at = "offer" =>
           runner[t].at = "offer" /\ runner'[t].request = runner[t].request
    BY <1>3, <2>4
  <2> QED
    BY <1>1, <1>4, <2>1, <2>6, <2>8, <2>9, <2>10, RaceKept
<1>8. CASE Finish(s)
  <2>1. /\ runner[s].at = "finish"
        /\ \/ Forget(s, runner[s].request)
           \/ Clearing(s) /\ UNCHANGED <<pending, channel>>
    BY <1>8 DEF Finish, Running, Torn
  <2>2. PICK q \in Requests :
          q = runner[s].request /\ op[q].session = s /\ op[q].at \notin {"new", "store"}
    BY <1>0, <2>1 DEF DispatchOK, WatcherOK
  <2>3. runner'[s].at = "read"
    BY <1>0, <1>8, <1>i DEF Finish
  <2>4. /\ \A r \in Requests \ {q} : Spent(r)' = Spent(r)
        /\ \A t \in Sessions : pending'[t] \subseteq pending[t]
        /\ Warned(q)' \/ \A t \in Sessions : q \notin pending'[t]
    <3>1. CASE Forget(s, q)
      <4>1. /\ \A t \in Sessions : pending'[t] = IF t = s THEN pending[t] \ {q} ELSE pending[t]
        BY <1>0, <3>1, ForgetFacts
      <4>2. \A r \in Requests \ {q} : channel'[r] = channel[r]
        BY <1>0, <3>1 DEF Forget, Close, ChannelOK
      <4>3. ASSUME NEW t \in Sessions, q \in pending'[t] PROVE FALSE
        <5>1. t # s /\ q \in pending[t]
          BY <4>1, <4>3
        <5> QED
          BY <1>0, <2>2, <5>1 DEF PendingOwned
      <4>4. \A r \in Requests \ {q} : Spent(r)' = Spent(r)
        BY <1>1, <4>2 DEF Spent, Ended
      <4> QED
        BY <4>1, <4>3, <4>4
    <3>2. CASE Clearing(s) /\ UNCHANGED <<pending, channel>>
      <4>1. s \in closed
        BY <1>0, <3>2 DEF Clearing, ClosingOK
      <4>2. Warned(q)'
        BY <1>1, <2>2, <4>1 DEF Warned
      <4>3. \A r \in Requests \ {q} : Spent(r)' = Spent(r)
        BY <1>1, <3>2 DEF Spent, Ended
      <4> QED
        BY <3>2, <4>2, <4>3
    <3> QED
      BY <2>1, <2>2, <3>1, <3>2
  <2>5. FreshUnspent'
    BY <1>0, <1>1, <2>2, <2>4 DEF FreshUnspent
  <2>6. \A r \in Requests : Finishing(r) =>
          Finishing(r)' \/ Warned(r)' \/ \A t \in Sessions : r \notin pending'[t]
    BY <1>5, <2>2, <2>4
  <2>7. \A t \in Sessions : runner'[t].at = "offer" =>
           runner[t].at = "offer" /\ runner'[t].request = runner[t].request
    BY <1>3, <2>3
  <2>8. \A t \in Sessions : runner'[t].at = "offer" => runner'[t].request # q
    BY <1>0, <1>3, <2>2, <2>3 DEF DispatchOK
  <2>9. \A r \in Requests : Spent(r)' => Spent(r) \/ Warned(r)' \/ Alone(r)'
    BY <2>4, <2>8 DEF Alone
  <2> QED
    BY <1>1, <1>4, <2>4, <2>5, <2>6, <2>7, <2>9, RaceKept
<1> QED
  BY <1>6, <1>7, <1>8 DEF DispatchStep

\* A request that session.run has not been asked for yet.
LEMMA AloneUnwatched ==
  ASSUME RelayInv', NEW r \in Requests, watcher'[r] = "off",
         \A s \in Sessions : r \notin pending'[s]
  PROVE  Alone(r)'
PROOF
<1>1. DispatchOK'
  BY DEF RelayInv, Typed
<1> QED
  BY <1>1 DEF DispatchOK, Alone

LEMMA RaceRequest ==
  ASSUME RelayInv, RelayInv', RaceInv, NEW r \in Requests, Send(r) \/ RequestStep(r)
  PROVE  RaceInv'
PROOF
<1>0. /\ FreshUnspent /\ ClosingOK /\ OpOK /\ ChannelOK /\ PendingOK /\ PendingOwned
      /\ WatcherOK /\ PendingOwned' /\ WatcherOK' /\ op[r] \in Ops
  BY DEF RelayInv, Typed, RaceInv, OpOK
<1>1. UNCHANGED <<handler, runner, closed, canceled>>
  BY DEF Send, RequestStep, StoreRequest, LoadRequest, CheckClosed, Write, Undo, GiveUp,
     Receive, ReceiveClosed, manager, closing
<1>2. \A q \in Requests \ {r} : op'[q] = op[q]
  BY <1>0 DEF OpOK, Send, RequestStep, StoreRequest, LoadRequest, CheckClosed, Write, Undo, GiveUp,
     Receive, ReceiveClosed, Step
<1>3. CASE Send(r)
  <2>1. op[r].at = "new" /\ op'[r].at \in {"store", "refused"} /\ UNCHANGED <<channel, pending, watcher>>
    <3>1. op[r].at = "new" /\ UNCHANGED <<channel, pending, watcher>>
      BY <1>3 DEF Send, Asking
    <3>2. PICK t, at : /\ at \in {"refused", "store"}
                       /\ op' = [op EXCEPT ![r] = [op[r] EXCEPT !.session = t, !.at = at]]
      BY <1>0, <1>3 DEF Send, OpOK
    <3>3. op'[r] = [op[r] EXCEPT !.session = t, !.at = at]
      BY <1>0, <3>2 DEF OpOK
    <3>4. op'[r].at = at
      BY <1>0, <3>3 DEF Ops
    <3> QED
      BY <3>1, <3>2, <3>4
  <2>2. watcher'[r] = "off" /\ \A s \in Sessions : r \notin pending'[s]
    BY <1>0, <2>1 DEF WatcherOK, PendingOwned
  <2>3. Alone(r)'
    BY <2>2, AloneUnwatched
  <2>4. op'[r].at = "store" => ~Spent(r)'
    BY <1>0, <2>1 DEF FreshUnspent, Spent, Ended
  <2> QED
    BY <1>1, <1>2, <2>1, <2>3, <2>4, RaceCaller
<1>4. ASSUME NEW at \in OpSteps, Step(r, at), op[r].at # "new", at \notin {"new", "store"},
             UNCHANGED channel,
             Spent(r)' => Spent(r) \/ Warned(r)' \/ Alone(r)',
             \A s \in Sessions : pending'[s] \subseteq pending[s]
      PROVE  RaceInv'
  <2>1. op'[r].at = at /\ op'[r].session = op[r].session
    BY <1>0, <1>4 DEF Step, OpOK, Ops
  <2> QED
    BY <1>1, <1>2, <1>4, <2>1, RaceCaller
<1>s. /\ "load" \in OpSteps /\ "check" \in OpSteps /\ "write" \in OpSteps /\ "undo" \in OpSteps
      /\ "wait" \in OpSteps /\ "ok" \in OpSteps /\ "failed" \in OpSteps
      /\ "canceled" \in OpSteps
  BY DEF OpSteps
<1>c. ASSUME Clearing(op[r].session), op[r].at \notin {"new", "refused"},
             op'[r].session = op[r].session
      PROVE  Warned(r)'
  <2>1. op[r].session \in Sessions
    BY <1>0, <1>c DEF OpOK
  <2>2. op[r].session \in closed
    BY <1>0, <1>c, <2>1 DEF Clearing, ClosingOK
  <2> QED
    BY <1>1, <1>c, <2>2 DEF Warned
<1>5. CASE StoreRequest(r)
  <2>1. op[r].at = "store" /\ UNCHANGED <<channel, watcher>> /\ op[r].session \in Sessions
    BY <1>0, <1>5 DEF StoreRequest, Asking, OpOK
  <2>2. ~Spent(r)
    BY <1>0, <2>1 DEF FreshUnspent
  <2>3. CASE UNCHANGED pending /\ Step(r, "failed")
    <3>1. watcher'[r] = "off" /\ \A s \in Sessions : r \notin pending'[s]
      BY <1>0, <2>1, <2>3 DEF WatcherOK, PendingOwned
    <3>2. Alone(r)'
      BY <3>1, AloneUnwatched
    <3> QED
      BY <1>4, <1>s, <2>1, <2>3, <3>2
  <2>4. CASE Step(r, "load") /\ pending' = [pending EXCEPT ![op[r].session] = @ \cup {r}]
    <3>1. op'[r].at = "load" /\ op'[r].session = op[r].session
      BY <1>0, <2>4 DEF Step, OpOK, Ops
    <3>2. ~Spent(r)'
      BY <2>1, <2>2, <3>1 DEF Spent, Ended
    <3>3. \A s \in Sessions : pending'[s] \ {r} \subseteq pending[s]
      BY <1>0, <2>4 DEF PendingOK
    <3> QED
      BY <1>1, <1>2, <2>1, <3>1, <3>2, <3>3, RaceCaller
  <2> QED
    BY <1>5, <2>3, <2>4 DEF StoreRequest
<1>6. CASE LoadRequest(r)
  <2>1. op[r].at = "load" /\ UNCHANGED <<channel, watcher, pending>> /\ watcher[r] = "off"
    BY <1>0, <1>6 DEF LoadRequest, Asking, WatcherOK
  <2>2. CASE Step(r, "check")
    <3>1. op'[r].at = "check"
      BY <1>0, <2>2 DEF Step, OpOK, Ops
    <3>2. Spent(r)' => Spent(r)
      BY <2>1, <3>1 DEF Spent, Ended
    <3> QED
      BY <1>4, <1>s, <2>1, <2>2, <3>2
  <2>3. CASE Step(r, "failed") /\ (Clearing(op[r].session) \/ r \notin pending[op[r].session])
    <3>1. op'[r].session = op[r].session
      BY <1>0, <2>3 DEF Step, OpOK, Ops
    <3>2. Warned(r)' \/ Alone(r)'
      <4>1. CASE Clearing(op[r].session)
        BY <1>c, <2>1, <3>1, <4>1
      <4>2. CASE r \notin pending[op[r].session]
        <5>1. \A s \in Sessions : r \notin pending'[s]
          BY <1>0, <2>1, <4>2 DEF PendingOwned
        <5> QED
          BY <2>1, <5>1, AloneUnwatched
      <4> QED
        BY <2>3, <4>1, <4>2
    <3> QED
      BY <1>4, <1>s, <2>1, <2>3, <3>2
  <2> QED
    BY <1>6, <2>2, <2>3 DEF LoadRequest, Views
<1>7. CASE CheckClosed(r) \/ Write(r) \/ GiveUp(r) \/ ReceiveClosed(r)
  <2>1. op[r].at \in {"check", "write", "wait"} /\ UNCHANGED <<channel, pending>>
    BY <1>7 DEF CheckClosed, Write, GiveUp, ReceiveClosed, Asking
  <2>2. PICK at \in {"undo", "write", "wait", "ok", "failed", "canceled"} :
          /\ Step(r, at)
          /\ at \in {"ok", "failed", "canceled"} => r \in canceled \/ channel[r].closed
    BY <1>7 DEF CheckClosed, Write, GiveUp, ReceiveClosed
  <2>3. op'[r].at = at
    BY <1>0, <2>2 DEF Step, OpOK, Ops
  <2>4. Spent(r)' => Spent(r) \/ Warned(r)'
    BY <1>1, <2>1, <2>2, <2>3 DEF Spent, Ended, Warned
  <2> QED
    BY <1>4, <1>s, <2>1, <2>2, <2>4
<1>8. CASE Undo(r)
  <2> DEFINE s == op[r].session
  <2>1. /\ op[r].at = "undo" /\ Step(r, "failed") /\ UNCHANGED watcher
        /\ Forget(s, r) \/ (Clearing(s) /\ UNCHANGED <<pending, channel>>)
    BY <1>8 DEF Undo, Asking
  <2>2. s \in Sessions /\ watcher'[r] = "off"
    BY <1>0, <2>1 DEF OpOK, WatcherOK
  <2>3. op'[r].at = "failed" /\ op'[r].session = s
    BY <1>0, <2>1 DEF Step, OpOK, Ops
  <2>4. CASE Clearing(s) /\ UNCHANGED <<pending, channel>>
    <3>1. Warned(r)'
      BY <1>c, <2>1, <2>3, <2>4
    <3> QED
      BY <1>4, <1>s, <2>1, <2>4, <3>1
  <2>5. CASE Forget(s, r)
    <3>1. \A t \in Sessions : pending'[t] = IF t = s THEN pending[t] \ {r} ELSE pending[t]
      BY <1>0, <2>2, <2>5, ForgetFacts
    <3>2. \A q \in Requests \ {r} : channel'[q] = channel[q]
      BY <1>0, <2>5 DEF Forget, Close, ChannelOK
    <3>3. ASSUME NEW t \in Sessions, r \in pending'[t] PROVE FALSE
      <4>1. t # s /\ r \in pending[t]
        BY <3>1, <3>3
      <4> QED
        BY <1>0, <4>1 DEF PendingOwned
    <3>4. Alone(r)'
      BY <2>2, <3>3, AloneUnwatched
    <3>5. \A t \in Sessions : pending'[t] \subseteq pending[t]
      BY <3>1
    <3> QED
      BY <1>1, <1>2, <2>3, <3>2, <3>4, <3>5, RaceCaller
  <2> QED
    BY <2>1, <2>4, <2>5
<1>9. CASE Receive(r)
  <2> DEFINE ms == channel[r].messages
             rest == Tail(ms)
  <2>1. /\ op[r].at = "wait" /\ ms # <<>> /\ UNCHANGED pending
        /\ op' = [op EXCEPT ![r] = Taken(r, Head(ms))]
        /\ channel' = [channel EXCEPT ![r].messages = rest]
    BY <1>9 DEF Receive, Asking
  <2>2. ms \in Seq(Types)
    BY <1>0 DEF ChannelOK, Channels
  <2>3. /\ Head(ms) = ms[1] /\ 1 \in DOMAIN ms /\ Head(ms) \in Types
        /\ \A i \in DOMAIN rest : rest[i] = ms[i + 1] /\ i + 1 \in DOMAIN ms
    BY <2>1, <2>2
  <2>4. op'[r] = Taken(r, Head(ms))
    BY <1>0, <2>1 DEF OpOK
  <2>5. channel'[r].messages = rest /\ channel'[r].closed = channel[r].closed
    BY <1>0, <2>1 DEF ChannelOK, Channels
  <2>6. \A q \in Requests \ {r} : channel'[q] = channel[q]
    BY <1>0, <2>1 DEF ChannelOK
  <2> HIDE DEF ms, rest
  <2>7. /\ op'[r].session = op[r].session /\ op'[r].at \notin {"new", "store"}
        /\ op'[r].at # "wait" => Head(ms) \in Terminal
    BY <1>0, <2>1, <2>3, <2>4 DEF Taken, Ops, Types, Terminal
  <2>8. Spent(r)' => Spent(r)
    <3>1. CASE op'[r].at # "wait"
      BY <2>3, <2>7, <3>1 DEF Spent, ms
    <3>2. CASE op'[r].at = "wait"
      BY <2>3, <2>5, <3>2 DEF Spent, Ended, ms
    <3> QED
      BY <3>1, <3>2
  <2> QED
    BY <1>1, <1>2, <2>1, <2>6, <2>7, <2>8, RaceCaller
<1> QED
  BY <1>3, <1>5, <1>6, <1>7, <1>8, <1>9 DEF RequestStep

LEMMA RaceWatch ==
  ASSUME RelayInv, RelayInv', RaceInv, NEW r \in Requests, Cancel(r) \/ WatchStep(r)
  PROVE  RaceInv'
PROOF
<1>0. /\ ClosingOK /\ OpOK /\ ChannelOK /\ PendingOK /\ WatcherOK /\ HandlerFirst
  BY DEF RelayInv, Typed, RaceInv
<1>1. CASE Cancel(r) \/ WatchClosed(r)
  <2>1. /\ UNCHANGED <<handler, op, channel, runner, pending, closed>>
        /\ canceled \subseteq canceled'
    BY <1>1 DEF Cancel, WatchClosed, manager, closing
  <2>2. HandlerFirst'
    BY <1>0, <2>1 DEF HandlerFirst
  <2> QED
    BY <2>1, <2>2, RaceQuiet
<1>2. CASE WatchContext(r)
  <2>1. /\ watcher[r] = "on" /\ Done(r)
        /\ UNCHANGED <<handler, op, runner, closed, canceled>>
        /\ Forget(op[r].session, r) \/ UNCHANGED <<pending, channel>>
    BY <1>2 DEF WatchContext, Watching, manager, closing
  <2>2. op[r].session \in Sessions /\ op[r].at \notin {"new", "store"}
    BY <1>0, <2>1 DEF OpOK, WatcherOK
  <2>3. /\ \A q \in Requests \ {r} : channel'[q] = channel[q]
        /\ \A s \in Sessions : pending'[s] \subseteq pending[s]
    <3>1. ASSUME NEW s \in Sessions, Forget(s, r)
          PROVE  /\ \A q \in Requests \ {r} : channel'[q] = channel[q]
                 /\ \A t \in Sessions : pending'[t] \subseteq pending[t]
      <4>1. \A t \in Sessions : pending'[t] = IF t = s THEN pending[t] \ {r} ELSE pending[t]
        BY <1>0, <3>1, ForgetFacts
      <4>2. \A q \in Requests \ {r} : channel'[q] = channel[q]
        BY <1>0, <3>1 DEF Forget, Close, ChannelOK
      <4> QED
        BY <4>1, <4>2
    <3> QED
      BY <2>1, <2>2, <3>1
  <2>4. Spent(r) \/ Warned(r)'
    BY <2>1 DEF Done, Spent, Warned
  <2> QED
    BY <2>1, <2>2, <2>3, <2>4, RaceCaller
<1> QED
  BY <1>1, <1>2 DEF WatchStep

LEMMA RaceInvariance == Spec => [](RelayInv /\ RaceInv)
PROOF
<1>1. Init => RelayInv /\ RaceInv
  <2> SUFFICES ASSUME Init PROVE RaceInv
    BY InitRelay
  <2>1. HandlerFirst /\ StoredUnspent /\ OfferedUnspent
    BY DEF Init, HandlerFirst, StoredUnspent, OfferedUnspent, IdleRunner
  <2>2. DOMAIN <<>> = {}
    OBVIOUS
  <2>3. FreshUnspent
    BY <2>2 DEF Init, FreshUnspent, Spent, Ended, IdleOp
  <2> QED
    BY <2>1, <2>3 DEF RaceInv
<1>2. RelayInv /\ RaceInv /\ [Next]_vars => (RelayInv /\ RaceInv)'
  <2> SUFFICES ASSUME RelayInv, RaceInv, [Next]_vars PROVE RelayInv' /\ RaceInv'
    OBVIOUS
  <2>0. RelayInv'
    BY NextRelay
  <2>1. CASE Stop \/ \E s \in Sessions : HandlerStep(s)
    BY <2>0, <2>1, RaceManager
  <2>2. ASSUME NEW s \in Sessions, ConnectionFails(s) \/ CleanupStep(s)
        PROVE  RaceInv'
    BY <2>0, <2>2, RaceCleanup
  <2>3. ASSUME NEW s \in Sessions, Read(s) \/ DispatchStep(s)
        PROVE  RaceInv'
    BY <2>0, <2>3, RaceRunner
  <2>4. ASSUME NEW r \in Requests, Send(r) \/ RequestStep(r) \/ Cancel(r) \/ WatchStep(r)
        PROVE  RaceInv'
    BY <2>0, <2>4, RaceRequest, RaceWatch
  <2>5. CASE UNCHANGED vars
    <3>1. UNCHANGED <<handler, op, channel, runner, pending, closed, canceled>>
      BY <2>5 DEF vars, manager, closing, requests
    <3>2. HandlerFirst'
      BY <3>1 DEF RaceInv, HandlerFirst
    <3> QED
      BY <2>0, <3>1, <3>2, RaceQuiet
  <2> QED
    BY <2>0, <2>1, <2>2, <2>3, <2>4, <2>5 DEF Next
<1> QED
  BY <1>1, <1>2, PTL DEF Spec

\* The steps that can end the process, and what each takes.
LEMMA CrashSteps ==
  ASSUME RelayInv, RaceInv, Next, ~crashed, crashed'
  PROVE  \E s \in Sessions : CleanupRaces(s) \/ DispatchRaces(s)
PROOF
<1>0. OpOK /\ WatcherOK /\ DispatchOK /\ OfferedUnspent
  BY DEF RelayInv, Typed, RaceInv
<1>1. ASSUME NEW s \in Sessions, Notify(s)
      PROVE  CleanupRaces(s)
  BY <1>1 DEF Notify, Cleaning, Offer, CleanupRaces
<1>2. ASSUME NEW s \in Sessions, Dispatch(s)
      PROVE  DispatchRaces(s)
  <2>1. runner[s].at = "offer" /\ channel[runner[s].request].closed
    BY <1>2 DEF Dispatch, Running, Offer
  <2>2. Warned(runner[s].request) /\ op[runner[s].request].session = s
    BY <1>0, <2>1 DEF OfferedUnspent, Spent, DispatchOK
  <2> QED
    BY <2>1, <2>2 DEF Warned, DispatchRaces
<1>3. ASSUME NEW s \in Sessions, Read(s) \/ Finish(s)
      PROVE  CleanupRaces(s)
  BY <1>3 DEF Read, Finish, Running, Torn, CleanupRaces
<1>4. ASSUME NEW r \in Requests, WatchContext(r)
      PROVE  \E s \in Sessions : CleanupRaces(s)
  <2>1. watcher[r] = "on" /\ Done(r) /\ Clearing(op[r].session)
    BY <1>4 DEF WatchContext, Watching, Torn
  <2>2. op[r].session \in Sessions
    BY <1>0, <2>1 DEF WatcherOK, OpOK
  <2> QED
    BY <2>1, <2>2 DEF CleanupRaces
<1> QED
  BY <1>1, <1>2, <1>3, <1>4 DEF Next, Stop, HandlerStep, Connect, StoreSession,
     Replaced, Connected, ConnectionFails, CleanupStep, CleanStopped, CleanReplaced,
     BeginCleanup, Visit, CloseVisited, EndRange, Clear, CloseConnection, RemoveSession,
     Disconnected, DispatchStep, RunEnds, Send, RequestStep, StoreRequest, LoadRequest,
     CheckClosed, Write, Undo, GiveUp, Receive, ReceiveClosed, Cancel, WatchStep, WatchClosed

\* No sequence of messages ends the process on its own: at the step that
\* does, a cleanup tells a request that is over or replaces a map in use, or
\* a message is in dispatch whose own request was canceled or whose own
\* session began to close after it had been looked up.
THEOREM CrashTakesItsRace == Spec => CrashTakesARace
PROOF
<1>1. RelayInv /\ RaceInv /\ [Next]_vars =>
        [~crashed /\ crashed' => \E s \in Sessions : CleanupRaces(s) \/ DispatchRaces(s)]_vars
  BY CrashSteps
<1> QED
  BY <1>1, RaceInvariance, PTL DEF Spec, CrashTakesARace

-----------------------------------------------------------------------------
(***************************************************************************)
(* Credentials follow sessions: who is in the manager, who is to be        *)
(* cleaned up, and whose callback comes next.                              *)
(***************************************************************************)
\* A cleanup goes on without reporting: neither the manager nor any other
\* cleanup moves.
LEMMA CredentialFrame ==
  ASSUME SessionsOK, CredentialInv,
         UNCHANGED <<sessions, handler, replaced, stopping, callback, crossed>>,
         \A t \in Sessions :
           \/ cleaner'[t].at = cleaner[t].at
           \/ {cleaner[t].at, cleaner'[t].at} \cap {"none", "report", "done"} = {}
  PROVE  CredentialInv'
PROOF
<1>0. CurrentStored /\ LeftIsCleaned /\ \A p \in Providers \ crossed : InOrder(p)
  BY DEF CredentialInv
<1>a. \A t \in Sessions :
        /\ cleaner'[t].at = "none" <=> cleaner[t].at = "none"
        /\ cleaner'[t].at = "report" <=> cleaner[t].at = "report"
        /\ cleaner'[t].at = "done" <=> cleaner[t].at = "done"
  OBVIOUS
<1>1. \A t \in Sessions : /\ Stopped(t)' <=> Stopped(t)
                          /\ IsReplaced(t)' <=> IsReplaced(t)
                          /\ Unreported(t)' <=> Unreported(t)
  BY <1>a DEF Stopped, IsReplaced, Unreported
<1>2. CurrentStored' /\ LeftIsCleaned'
  BY <1>0, <1>1, <1>a DEF CurrentStored, LeftIsCleaned
<1>3. ASSUME NEW p \in Providers \ crossed
      PROVE  InOrder(p)'
  <2>1. InOrder(p) /\ (sessions[p] # None => sessions[p] \in Sessions)
    BY <1>0 DEF SessionsOK
  <2>2. sessions[p] # None =>
          (cleaner'[sessions[p]].at \in {"report", "done"} <=>
             cleaner[sessions[p]].at \in {"report", "done"})
    BY <1>a, <2>1
  <2> QED
    BY <1>1, <1>a, <2>1, <2>2 DEF InOrder
<1> QED
  BY <1>2, <1>3 DEF CredentialInv

LEMMA CredentialConnect ==
  ASSUME RelayInv, CredentialInv, NEW s \in Sessions, Connect(s)
  PROVE  CredentialInv'
PROOF
<1>0. /\ SessionsOK /\ HandlerOK
      /\ CurrentStored /\ LeftIsCleaned /\ \A p \in Providers \ crossed : InOrder(p)
  BY DEF RelayInv, Typed, CredentialInv
<1>1. /\ handler[s] = "new" /\ handler' = [handler EXCEPT ![s] = "store"]
      /\ UNCHANGED <<sessions, replaced, stopping, callback, crossed, cleaner>>
  BY DEF Connect, Handling, closing
<1>2. /\ handler'[s] = "store"
      /\ \A t \in Sessions \ {s} : handler'[t] = handler[t]
  BY <1>0, <1>1 DEF HandlerOK
<1>3. \A t \in Sessions : /\ Stopped(t)' <=> Stopped(t)
                          /\ IsReplaced(t)' <=> IsReplaced(t)
                          /\ Unreported(t)' <=> Unreported(t)
  BY <1>1, <1>2 DEF Stopped, IsReplaced, Unreported
<1>4. CurrentStored'
  BY <1>0, <1>1, <1>2 DEF CurrentStored, SessionsOK
<1>5. LeftIsCleaned'
  BY <1>0, <1>1, <1>2, <1>3 DEF LeftIsCleaned
<1>6. ASSUME NEW p \in Providers \ crossed
      PROVE  InOrder(p)'
  <2>1. InOrder(p)
    BY <1>0
  <2>2. sessions[p] # None =>
          sessions[p] \in Sessions /\ handler'[sessions[p]] = handler[sessions[p]]
    BY <1>0, <1>1, <1>2 DEF SessionsOK, CurrentStored
  <2>3. \A t \in Sessions : Provider[t] = p /\ cleaner[t].at # "none" => handler'[t] = "done"
    BY <1>1, <1>2, <2>1 DEF InOrder
  <2> QED
    BY <1>1, <1>3, <2>1, <2>2, <2>3 DEF InOrder
<1> QED
  BY <1>1, <1>4, <1>5, <1>6 DEF CredentialInv

LEMMA CredentialStore ==
  ASSUME RelayInv, CredentialInv, NEW s \in Sessions, StoreSession(s)
  PROVE  CredentialInv'
PROOF
<1>0. /\ SessionsOK /\ HandlerOK /\ ReplacedOK
      /\ CurrentStored /\ LeftIsCleaned /\ \A p \in Providers \ crossed : InOrder(p)
  BY DEF RelayInv, Typed, CredentialInv
<1> DEFINE P == Provider[s]
<1>p. P \in Providers /\ s # None
  BY RelayAssumption
<1>1. /\ handler[s] = "store" /\ handler' = [handler EXCEPT ![s] = "replace"]
      /\ crossed' = IF Follows(s) THEN crossed \cup {P} ELSE crossed
      /\ replaced' = [replaced EXCEPT ![s] = sessions[P]]
      /\ sessions' = [sessions EXCEPT ![P] = s]
      /\ UNCHANGED <<stopping, callback, cleaner>>
  BY DEF StoreSession, Handling, closing
<1> HIDE DEF P
<1>2. /\ handler'[s] = "replace" /\ replaced'[s] = sessions[P] /\ sessions'[P] = s
      /\ \A t \in Sessions \ {s} : handler'[t] = handler[t] /\ replaced'[t] = replaced[t]
      /\ \A p \in Providers \ {P} : sessions'[p] = sessions[p]
  BY <1>0, <1>p, <1>1 DEF HandlerOK, ReplacedOK, SessionsOK
<1>c. \A p \in Providers : sessions[p] # s
  BY <1>0, <1>p, <1>1 DEF CurrentStored
<1>3. CurrentStored'
  BY <1>0, <1>p, <1>2, <1>c DEF CurrentStored, SessionsOK, P
<1>4. LeftIsCleaned'
  <2> SUFFICES ASSUME NEW t \in Sessions, handler'[t] \notin {"new", "store"},
                      sessions'[Provider[t]] # t, cleaner'[t].at = "none"
               PROVE  Stopped(t)' \/ IsReplaced(t)'
    BY DEF LeftIsCleaned
  <2>1. t # s /\ Provider[t] \in Providers
    BY <1>2, RelayAssumption DEF P
  <2>2. CASE sessions[Provider[t]] = t
    <3>1. Provider[t] = P
      BY <1>2, <2>1, <2>2
    <3> QED
      BY <1>2, <2>2, <3>1 DEF IsReplaced
  <2>3. CASE sessions[Provider[t]] # t
    <3>1. Stopped(t) \/ IsReplaced(t)
      BY <1>0, <1>1, <1>2, <2>1, <2>3 DEF LeftIsCleaned
    <3> QED
      BY <1>1, <1>2, <3>1 DEF Stopped, IsReplaced
  <2> QED
    BY <2>2, <2>3
<1>5. ASSUME NEW p \in Providers \ crossed', p # P
      PROVE  InOrder(p)'
  <2>1. InOrder(p) /\ sessions'[p] = sessions[p]
    BY <1>0, <1>1, <1>2, <1>5
  <2>2. sessions[p] # None => sessions[p] \in Sessions \ {s}
    BY <1>0, <1>c DEF SessionsOK
  <2>3. \A t \in Sessions : Provider[t] = p => t # s /\ (Unreported(t)' <=> Unreported(t))
    BY <1>1, <1>2, <1>5 DEF Unreported, P
  <2> QED
    BY <1>1, <1>2, <2>1, <2>2, <2>3 DEF InOrder
<1>6. ASSUME P \notin crossed'
      PROVE  InOrder(P)'
  <2>1. InOrder(P) /\ ~Follows(s)
    BY <1>0, <1>p, <1>1, <1>6
  <2>2. cleaner[s].at = "none"
    BY <1>1, <2>1 DEF InOrder, P
  <2>3. \A t \in Sessions : Provider[t] = P /\ Unreported(t)' => sessions[P] = t
    BY <1>1, <1>2, <2>1 DEF Unreported, Follows, P
  <2>4. \A t \in Sessions : Provider[t] = P /\ cleaner'[t].at # "none" => handler'[t] = "done"
    BY <1>1, <1>2, <2>1, <2>2 DEF InOrder
  <2> QED
    BY <1>p, <1>1, <1>2, <2>2, <2>3, <2>4 DEF InOrder
<1> QED
  BY <1>3, <1>4, <1>5, <1>6 DEF CredentialInv

LEMMA CredentialReplaced ==
  ASSUME RelayInv, CredentialInv, NEW s \in Sessions, Replaced(s)
  PROVE  CredentialInv'
PROOF
<1>0. /\ SessionsOK /\ HandlerOK /\ ReplacedOK
      /\ CurrentStored /\ LeftIsCleaned /\ \A p \in Providers \ crossed : InOrder(p)
  BY DEF RelayInv, Typed, CredentialInv
<1>1. /\ handler[s] = "replace" /\ handler' = [handler EXCEPT ![s] = "connected"]
      /\ replaced[s] # None => cleaner[replaced[s]].at = "done"
      /\ UNCHANGED <<sessions, replaced, stopping, callback, crossed, cleaner>>
  BY DEF Replaced, Handling, closing
<1>2. /\ handler'[s] = "connected"
      /\ \A t \in Sessions \ {s} : handler'[t] = handler[t]
  BY <1>0, <1>1 DEF HandlerOK
<1>3. \A t \in Sessions : /\ Stopped(t)' <=> Stopped(t)
                          /\ Unreported(t)' <=> Unreported(t)
  BY <1>1, <1>2 DEF Stopped, Unreported
<1>n. \A t \in Sessions : t # None
  BY RelayAssumption
<1>4. CurrentStored'
  BY <1>0, <1>1, <1>2 DEF CurrentStored, SessionsOK
<1>5. LeftIsCleaned'
  <2> SUFFICES ASSUME NEW t \in Sessions, handler'[t] \notin {"new", "store"},
                      sessions'[Provider[t]] # t, cleaner'[t].at = "none"
               PROVE  Stopped(t)' \/ IsReplaced(t)'
    BY DEF LeftIsCleaned
  <2>1. Stopped(t) \/ IsReplaced(t)
    BY <1>0, <1>1, <1>2 DEF LeftIsCleaned
  <2>2. replaced[s] # t
    BY <1>1, <1>n
  <2> QED
    BY <1>1, <1>2, <1>3, <2>1, <2>2 DEF IsReplaced
<1>6. ASSUME NEW p \in Providers \ crossed
      PROVE  InOrder(p)'
  <2>1. InOrder(p)
    BY <1>0
  <2>2. sessions[p] # None => sessions[p] \in Sessions
    BY <1>0 DEF SessionsOK
  <2>3. \A t \in Sessions : Provider[t] = p /\ cleaner[t].at # "none" => handler'[t] = "done"
    BY <1>1, <1>2, <2>1 DEF InOrder
  <2>4. \A t \in Sessions : sessions[p] # None /\ Provider[t] = p /\ Unreported(t) =>
          handler'[sessions[p]] = "replace" /\ replaced[sessions[p]] = t
    BY <1>1, <1>2, <1>n, <2>1, <2>2 DEF InOrder, Unreported
  <2>5. sessions[p] # None /\ handler'[sessions[p]] = "done" => callback[p] = "connected"
    BY <1>1, <1>2, <2>1, <2>2 DEF InOrder
  <2> QED
    BY <1>1, <1>3, <2>1, <2>3, <2>4, <2>5 DEF InOrder
<1> QED
  BY <1>1, <1>4, <1>5, <1>6 DEF CredentialInv

LEMMA CredentialConnected ==
  ASSUME RelayInv, CredentialInv, NEW s \in Sessions, Connected(s)
  PROVE  CredentialInv'
PROOF
<1>0. /\ SessionsOK /\ HandlerOK /\ CallbackOK
      /\ CurrentStored /\ LeftIsCleaned /\ \A p \in Providers \ crossed : InOrder(p)
  BY DEF RelayInv, Typed, CredentialInv
<1> DEFINE P == Provider[s]
<1>p. P \in Providers /\ s # None
  BY RelayAssumption
<1>1. /\ handler[s] = "connected" /\ handler' = [handler EXCEPT ![s] = "done"]
      /\ callback' = [callback EXCEPT ![P] = "connected"]
      /\ UNCHANGED <<sessions, replaced, stopping, crossed, cleaner>>
  BY DEF Connected, Handling, closing
<1> HIDE DEF P
<1>2. /\ handler'[s] = "done" /\ callback'[P] = "connected"
      /\ \A t \in Sessions \ {s} : handler'[t] = handler[t]
      /\ \A p \in Providers \ {P} : callback'[p] = callback[p]
  BY <1>0, <1>p, <1>1 DEF HandlerOK, CallbackOK
<1>3. \A t \in Sessions : /\ Stopped(t)' <=> Stopped(t)
                          /\ IsReplaced(t)' <=> IsReplaced(t)
                          /\ Unreported(t)' <=> Unreported(t)
  BY <1>1, <1>2 DEF Stopped, IsReplaced, Unreported
<1>4. CurrentStored'
  BY <1>0, <1>1, <1>2 DEF CurrentStored, SessionsOK
<1>5. LeftIsCleaned'
  BY <1>0, <1>1, <1>2, <1>3 DEF LeftIsCleaned
<1>6. ASSUME NEW p \in Providers \ crossed
      PROVE  InOrder(p)'
  <2>1. InOrder(p)
    BY <1>0
  <2>2. sessions[p] # None => sessions[p] \in Sessions /\ Provider[sessions[p]] = p
    BY <1>0 DEF SessionsOK, CurrentStored
  <2>3. \A t \in Sessions : Provider[t] = p /\ cleaner[t].at # "none" => handler'[t] = "done"
    BY <1>1, <1>2, <2>1 DEF InOrder
  <2>4. \A t \in Sessions : sessions[p] # None /\ Provider[t] = p /\ Unreported(t) =>
          handler'[sessions[p]] = "replace" /\ replaced[sessions[p]] = t
    BY <1>1, <1>2, <2>1, <2>2 DEF InOrder
  <2>5. sessions[p] # None /\ handler'[sessions[p]] = "done" => callback'[p] = "connected"
    BY <1>1, <1>2, <2>1, <2>2 DEF InOrder, P
  <2>6. ASSUME sessions[p] = None, callback'[p] = "connected"
        PROVE  \E t \in Sessions : Provider[t] = p /\ Unreported(t)
    <3>1. CASE p = P
      <4>1. cleaner[s].at # "done"
        BY <1>1, <2>1, <3>1 DEF InOrder, P
      <4> QED
        BY <1>p, <1>1, <2>6, <3>1, <4>1 DEF Unreported, P
    <3>2. CASE p # P
      BY <1>2, <2>1, <2>6, <3>2 DEF InOrder
    <3> QED
      BY <3>1, <3>2
  <2> QED
    BY <1>1, <1>3, <2>1, <2>3, <2>4, <2>5, <2>6 DEF InOrder
<1> QED
  BY <1>1, <1>4, <1>5, <1>6 DEF CredentialInv

LEMMA CredentialStop ==
  ASSUME RelayInv, CredentialInv, Stop
  PROVE  CredentialInv'
PROOF
<1>0. /\ SessionsOK /\ StoppingOK
      /\ CurrentStored /\ LeftIsCleaned /\ \A p \in Providers \ crossed : InOrder(p)
  BY DEF RelayInv, Typed, CredentialInv
<1> DEFINE taken == {sessions[p] : p \in Providers} \ {None}
<1>1. /\ stopping' = Append(stopping, taken)
      /\ sessions' = [p \in Providers |-> None]
      /\ UNCHANGED <<handler, replaced, callback, crossed, cleaner>>
  BY DEF Stop, closing
<1>2. taken \in SUBSET Sessions
  BY <1>0 DEF SessionsOK
<1>3. \A p \in Providers : sessions[p] # None => sessions[p] \in taken
  OBVIOUS
<1> HIDE DEF taken
<1>4. /\ Len(stopping') = Len(stopping) + 1 /\ DOMAIN stopping' = 1..Len(stopping')
      /\ stopping'[Len(stopping) + 1] = taken
      /\ \A i \in DOMAIN stopping : stopping'[i] = stopping[i]
      /\ DOMAIN stopping = 1..Len(stopping) /\ Len(stopping) \in Nat
  BY <1>0, <1>1, <1>2 DEF StoppingOK
<1>5. \A t \in Sessions : Stopped(t) \/ t \in taken => Stopped(t)'
  <2>1. \A i \in DOMAIN stopping : i \in DOMAIN stopping'
    BY <1>4
  <2>2. Len(stopping) + 1 \in DOMAIN stopping'
    BY <1>4
  <2> QED
    BY <1>4, <2>1, <2>2 DEF Stopped
<1>6. \A t \in Sessions : Provider[t] \in Providers /\ t # None
  BY RelayAssumption
<1>7. \A t \in Sessions : IsReplaced(t)' <=> IsReplaced(t)
  BY <1>1 DEF IsReplaced
<1>8. CurrentStored'
  BY <1>1 DEF CurrentStored
<1>9. LeftIsCleaned'
  <2> SUFFICES ASSUME NEW t \in Sessions, handler'[t] \notin {"new", "store"},
                      cleaner'[t].at = "none"
               PROVE  Stopped(t)' \/ IsReplaced(t)'
    BY DEF LeftIsCleaned
  <2>1. CASE sessions[Provider[t]] = t
    BY <1>3, <1>5, <1>6, <2>1
  <2>2. CASE sessions[Provider[t]] # t
    BY <1>0, <1>1, <1>5, <1>7, <2>2 DEF LeftIsCleaned
  <2> QED
    BY <2>1, <2>2
<1>10. ASSUME NEW p \in Providers \ crossed
       PROVE  InOrder(p)'
  <2>1. InOrder(p) /\ sessions'[p] = None
    BY <1>0, <1>1
  <2>2. \A t \in Sessions : Unreported(t) => Unreported(t)'
    BY <1>1, <1>6 DEF Unreported
  <2>3. ASSUME callback[p] = "connected"
        PROVE  \E t \in Sessions : Provider[t] = p /\ Unreported(t)'
    <3>1. CASE sessions[p] = None
      BY <2>1, <2>2, <2>3, <3>1 DEF InOrder
    <3>2. CASE sessions[p] # None
      <4>0. PICK t \in Sessions : t = sessions[p]
        BY <1>0, <3>2 DEF SessionsOK
      <4>1. Provider[t] = p /\ handler[t] \notin {"new", "store"}
        BY <1>0, <3>2, <4>0 DEF CurrentStored
      <4>2. cleaner[t].at # "done"
        BY <2>1, <3>2, <4>0 DEF InOrder
      <4>3. Unreported(t)'
        BY <1>1, <1>6, <2>1, <4>1, <4>2 DEF Unreported
      <4> QED
        BY <4>1, <4>3
    <3> QED
      BY <3>1, <3>2
  <2>4. \A t \in Sessions : Provider[t] = p /\ cleaner'[t].at # "none" => handler'[t] = "done"
    BY <1>1, <2>1 DEF InOrder
  <2> QED
    BY <1>1, <2>1, <2>3, <2>4 DEF InOrder
<1> QED
  BY <1>1, <1>8, <1>9, <1>10 DEF CredentialInv

LEMMA CredentialBegin ==
  ASSUME RelayInv, CredentialInv, NEW s \in Sessions, BeginCleanup(s)
  PROVE  CredentialInv'
PROOF
<1>0. /\ SessionsOK /\ ClosingOK
      /\ CurrentStored /\ LeftIsCleaned /\ \A p \in Providers \ crossed : InOrder(p)
  BY DEF RelayInv, Typed, CredentialInv
<1> DEFINE record == [IdleCleaner EXCEPT !.at = "range", !.stored = pending[s]]
<1>1. /\ s \notin closed
      /\ cleaner' = [cleaner EXCEPT ![s] = record]
      /\ crossed' = IF handler[s] = "done" THEN crossed ELSE crossed \cup {Provider[s]}
      /\ UNCHANGED <<sessions, handler, replaced, stopping, callback>>
  BY DEF BeginCleanup
<1>2. record.at = "range"
  BY DEF IdleCleaner
<1> HIDE DEF record
<1>3. /\ cleaner[s].at = "none" /\ cleaner'[s].at = "range"
      /\ \A t \in Sessions \ {s} : cleaner'[t] = cleaner[t]
  BY <1>0, <1>1, <1>2 DEF ClosingOK
<1>4. \A t \in Sessions : /\ Stopped(t)' <=> Stopped(t)
                          /\ IsReplaced(t)' <=> IsReplaced(t)
                          /\ Unreported(t)' <=> Unreported(t)
  BY <1>1, <1>3 DEF Stopped, IsReplaced, Unreported
<1>5. CurrentStored' /\ LeftIsCleaned'
  BY <1>0, <1>1, <1>3, <1>4 DEF CurrentStored, LeftIsCleaned
<1>6. ASSUME NEW p \in Providers \ crossed'
      PROVE  InOrder(p)'
  <2>1. InOrder(p) /\ (p = Provider[s] => handler[s] = "done")
    BY <1>0, <1>1, <1>6
  <2>2. sessions[p] # None => sessions[p] \in Sessions
    BY <1>0 DEF SessionsOK
  <2>3. \A t \in Sessions : Provider[t] = p /\ cleaner'[t].at # "none" => handler'[t] = "done"
    BY <1>1, <1>3, <2>1 DEF InOrder
  <2>4. sessions[p] # None => cleaner'[sessions[p]].at \notin {"report", "done"}
    BY <1>3, <2>1, <2>2 DEF InOrder
  <2> QED
    BY <1>1, <1>4, <2>1, <2>3, <2>4 DEF InOrder
<1> QED
  BY <1>5, <1>6 DEF CredentialInv

LEMMA CredentialRemove ==
  ASSUME RelayInv, CredentialInv, NEW s \in Sessions, RemoveSession(s)
  PROVE  CredentialInv'
PROOF
<1>0. /\ SessionsOK /\ ClosingOK
      /\ CurrentStored /\ LeftIsCleaned /\ \A p \in Providers \ crossed : InOrder(p)
  BY DEF RelayInv, Typed, CredentialInv
<1> DEFINE P == Provider[s]
<1>p. P \in Providers /\ \A t \in Sessions : t # None /\ Provider[t] \in Providers
  BY RelayAssumption
<1>1. /\ cleaner[s].at = "remove"
      /\ cleaner' = [cleaner EXCEPT ![s].at = "report"]
      /\ sessions' = [sessions EXCEPT ![P] = IF @ = s THEN None ELSE @]
      /\ UNCHANGED <<handler, replaced, stopping, callback, crossed>>
  BY DEF RemoveSession, Cleaning
<1> HIDE DEF P
<1>2. cleaner'[s].at = "report" /\ \A t \in Sessions \ {s} : cleaner'[t] = cleaner[t]
  BY <1>0, <1>1 DEF ClosingOK, Cleaners
<1>3. /\ sessions'[P] = IF sessions[P] = s THEN None ELSE sessions[P]
      /\ \A p \in Providers \ {P} : sessions'[p] = sessions[p]
  BY <1>0, <1>p, <1>1 DEF SessionsOK
<1>4. \A t \in Sessions : /\ Stopped(t)' <=> Stopped(t)
                          /\ IsReplaced(t)' <=> IsReplaced(t)
  BY <1>1 DEF Stopped, IsReplaced
<1>5. CurrentStored'
  BY <1>0, <1>1, <1>3 DEF CurrentStored
<1>6. LeftIsCleaned'
  <2> SUFFICES ASSUME NEW t \in Sessions, handler'[t] \notin {"new", "store"},
                      sessions'[Provider[t]] # t, cleaner'[t].at = "none"
               PROVE  Stopped(t)' \/ IsReplaced(t)'
    BY DEF LeftIsCleaned
  <2>1. t # s /\ cleaner[t].at = "none"
    BY <1>2
  <2>2. sessions[Provider[t]] # t
    BY <1>p, <1>3, <2>1
  <2> QED
    BY <1>0, <1>1, <1>4, <2>1, <2>2 DEF LeftIsCleaned
<1>7. ASSUME NEW p \in Providers \ crossed
      PROVE  InOrder(p)'
  <2>1. InOrder(p)
    BY <1>0
  <2>2. sessions[p] # None => sessions[p] \in Sessions /\ Provider[sessions[p]] = p
    BY <1>0 DEF SessionsOK, CurrentStored
  <2>3. \A t \in Sessions : Provider[t] = p /\ cleaner'[t].at # "none" => handler'[t] = "done"
    BY <1>1, <1>2, <2>1 DEF InOrder
  <2>4. CASE sessions[p] # s
    <3>1. sessions'[p] = sessions[p]
      BY <1>3, <2>4
    <3>2. \A t \in Sessions : Provider[t] = p => (Unreported(t)' <=> Unreported(t))
      BY <1>1, <1>2, <3>1 DEF Unreported
    <3>3. sessions[p] # None => cleaner'[sessions[p]].at \notin {"report", "done"}
      BY <1>2, <2>1, <2>2, <2>4 DEF InOrder
    <3> QED
      BY <1>1, <2>1, <2>3, <3>1, <3>2, <3>3 DEF InOrder
  <2>5. CASE sessions[p] = s
    <3>1. p = P /\ sessions'[p] = None
      BY <1>p, <1>3, <2>2, <2>5 DEF P
    <3>2. Unreported(s)'
      BY <1>1, <1>2, <1>p, <2>3, <3>1 DEF Unreported, P
    <3> QED
      BY <2>3, <3>1, <3>2 DEF InOrder, P
  <2> QED
    BY <2>4, <2>5
<1> QED
  BY <1>1, <1>5, <1>6, <1>7 DEF CredentialInv

LEMMA CredentialDisconnected ==
  ASSUME RelayInv, CredentialInv, NEW s \in Sessions, Disconnected(s)
  PROVE  CredentialInv'
PROOF
<1>0. /\ SessionsOK /\ ClosingOK /\ CallbackOK
      /\ CurrentStored /\ LeftIsCleaned /\ \A p \in Providers \ crossed : InOrder(p)
  BY DEF RelayInv, Typed, CredentialInv
<1> DEFINE P == Provider[s]
<1>p. P \in Providers
  BY RelayAssumption
<1>1. /\ cleaner[s].at = "report"
      /\ cleaner' = [cleaner EXCEPT ![s].at = "done"]
      /\ callback' = [callback EXCEPT ![P] = "disconnected"]
      /\ UNCHANGED <<sessions, handler, replaced, stopping, crossed>>
  BY DEF Disconnected, Cleaning
<1> HIDE DEF P
<1>2. cleaner'[s].at = "done" /\ \A t \in Sessions \ {s} : cleaner'[t] = cleaner[t]
  BY <1>0, <1>1 DEF ClosingOK, Cleaners
<1>3. /\ callback'[P] = "disconnected"
      /\ \A p \in Providers \ {P} : callback'[p] = callback[p]
  BY <1>0, <1>p, <1>1 DEF CallbackOK
<1>4. \A t \in Sessions : /\ Stopped(t)' <=> Stopped(t)
                          /\ IsReplaced(t)' <=> IsReplaced(t)
                          /\ Unreported(t)' <=> Unreported(t) /\ t # s
  BY <1>1, <1>2 DEF Stopped, IsReplaced, Unreported
<1>5. CurrentStored' /\ LeftIsCleaned'
  BY <1>0, <1>1, <1>2, <1>4 DEF CurrentStored, LeftIsCleaned
<1>6. ASSUME NEW p \in Providers \ crossed
      PROVE  InOrder(p)'
  <2>1. InOrder(p)
    BY <1>0
  <2>2. sessions[p] # None => sessions[p] \in Sessions /\ sessions[p] # s
    BY <1>0, <1>1, <2>1 DEF SessionsOK, InOrder
  <2>3. \A t \in Sessions : Provider[t] = p /\ cleaner'[t].at # "none" => handler'[t] = "done"
    BY <1>1, <1>2, <2>1 DEF InOrder
  <2>4. sessions[p] # None => cleaner'[sessions[p]].at \notin {"report", "done"}
    BY <1>2, <2>1, <2>2 DEF InOrder
  <2>5. \A t \in Sessions : sessions[p] # None /\ Provider[t] = p /\ Unreported(t)' =>
          handler[sessions[p]] = "replace" /\ replaced[sessions[p]] = t
    BY <1>4, <2>1 DEF InOrder
  <2>6. CASE p = P
    <3>1. handler[s] = "done"
      BY <1>1, <2>1, <2>6 DEF InOrder, P
    <3>2. ASSUME sessions[p] # None PROVE handler[sessions[p]] = "replace"
      <4>1. Unreported(s)
        BY <1>1, <2>2, <2>6, <3>1, <3>2 DEF Unreported, P
      <4> QED
        BY <2>1, <2>6, <3>2, <4>1 DEF InOrder, P
    <3> QED
      BY <1>1, <1>3, <2>3, <2>4, <2>5, <2>6, <3>2 DEF InOrder
  <2>7. CASE p # P
    <3>1. \A t \in Sessions : Provider[t] = p => (Unreported(t)' <=> Unreported(t))
      BY <1>4, <2>7 DEF P
    <3> QED
      BY <1>1, <1>3, <2>1, <2>3, <2>4, <2>5, <2>7, <3>1 DEF InOrder
  <2> QED
    BY <2>6, <2>7
<1> QED
  BY <1>1, <1>5, <1>6 DEF CredentialInv

LEMMA CredentialCleanup ==
  ASSUME RelayInv, CredentialInv, NEW s \in Sessions, ConnectionFails(s) \/ CleanupStep(s)
  PROVE  CredentialInv'
PROOF
<1>0. SessionsOK /\ ClosingOK /\ cleaner \in [Sessions -> Cleaners]
  BY DEF RelayInv, Typed, ClosingOK
<1>1. CASE ConnectionFails(s) \/ CleanStopped(s) \/ CleanReplaced(s)
  BY <1>1, CredentialBegin DEF ConnectionFails, CleanStopped, CleanReplaced
<1>2. ASSUME NEW record, cleaner' = [cleaner EXCEPT ![s] = record],
             {cleaner[s].at, record.at} \cap {"none", "report", "done"} = {},
             UNCHANGED <<sessions, handler, replaced, stopping, callback, crossed>>
      PROVE  CredentialInv'
  <2>1. \A t \in Sessions : cleaner'[t] = IF t = s THEN record ELSE cleaner[t]
    BY <1>0, <1>2
  <2> QED
    BY <1>0, <1>2, <2>1, CredentialFrame
<1>3. CASE Visit(s)
  <2>1. PICK r \in pending[s] \ cleaner[s].visited :
          cleaner' = [cleaner EXCEPT ![s].at = "notify", ![s].request = r]
    BY <1>3 DEF Visit
  <2> DEFINE record == [cleaner[s] EXCEPT !.at = "notify", !.request = r]
  <2>2. cleaner' = [cleaner EXCEPT ![s] = record]
    BY <1>0, <2>1
  <2>3. record.at = "notify" /\ cleaner[s].at = "range"
    BY <1>0, <1>3 DEF Cleaners, Visit, Cleaning
  <2>4. UNCHANGED <<sessions, handler, replaced, stopping, callback, crossed>>
    BY <1>3 DEF Visit, manager
  <2> HIDE DEF record
  <2> QED
    BY <1>2, <2>2, <2>3, <2>4
<1>4. CASE Notify(s) \/ Clear(s) \/ CloseConnection(s)
  <2>1. PICK at \in {"close", "disconnect", "remove"} : cleaner' = [cleaner EXCEPT ![s].at = at]
    BY <1>4 DEF Notify, Clear, CloseConnection
  <2> DEFINE record == [cleaner[s] EXCEPT !.at = at]
  <2>2. cleaner' = [cleaner EXCEPT ![s] = record]
    BY <1>0, <2>1
  <2>3. record.at = at /\ cleaner[s].at \in {"notify", "clear", "disconnect"}
    BY <1>0, <1>4 DEF Cleaners, Notify, Clear, CloseConnection, Cleaning
  <2>4. UNCHANGED <<sessions, handler, replaced, stopping, callback, crossed>>
    BY <1>4 DEF Notify, Clear, CloseConnection, manager
  <2> HIDE DEF record
  <2> QED
    BY <1>2, <2>1, <2>2, <2>3, <2>4
<1>5. CASE CloseVisited(s)
  <2> DEFINE seen == cleaner[s].visited \cup {cleaner[s].request}
             record == [cleaner[s] EXCEPT !.at = "range", !.request = None, !.visited = seen]
  <2>1. cleaner' = [cleaner EXCEPT ![s] = record]
    BY <1>0, <1>5 DEF CloseVisited
  <2> HIDE DEF seen
  <2>2. record.at = "range" /\ cleaner[s].at = "close"
    BY <1>0, <1>5 DEF Cleaners, CloseVisited, Cleaning
  <2>3. UNCHANGED <<sessions, handler, replaced, stopping, callback, crossed>>
    BY <1>5 DEF CloseVisited, manager
  <2> HIDE DEF record
  <2> QED
    BY <1>2, <2>1, <2>2, <2>3
<1>6. CASE EndRange(s)
  <2> DEFINE record == [IdleCleaner EXCEPT !.at = "clear"]
  <2>1. cleaner' = [cleaner EXCEPT ![s] = record] /\ cleaner[s].at = "range"
    BY <1>6 DEF EndRange, Cleaning
  <2>2. record.at = "clear"
    BY DEF IdleCleaner
  <2>3. UNCHANGED <<sessions, handler, replaced, stopping, callback, crossed>>
    BY <1>6 DEF EndRange, manager
  <2> HIDE DEF record
  <2> QED
    BY <1>2, <2>1, <2>2, <2>3
<1>7. CASE RemoveSession(s) \/ Disconnected(s)
  BY <1>7, CredentialRemove, CredentialDisconnected
<1> QED
  BY <1>1, <1>3, <1>4, <1>5, <1>6, <1>7 DEF CleanupStep

LEMMA CredentialInvariance == Spec => [](RelayInv /\ CredentialInv)
PROOF
<1>1. Init => RelayInv /\ CredentialInv
  <2>1. Init => CredentialInv
    BY DEF Init, CredentialInv, CurrentStored, LeftIsCleaned, InOrder, Unreported, IdleCleaner
  <2> QED
    BY <2>1, InitRelay
<1>2. RelayInv /\ CredentialInv /\ [Next]_vars => (RelayInv /\ CredentialInv)'
  <2> SUFFICES ASSUME RelayInv, CredentialInv, [Next]_vars
               PROVE  CredentialInv'
    BY NextRelay
  <2>0. SessionsOK
    BY DEF RelayInv, Typed
  <2>1. CASE Stop
    BY <2>1, CredentialStop
  <2>2. ASSUME NEW s \in Sessions, HandlerStep(s) \/ ConnectionFails(s) \/ CleanupStep(s)
        PROVE  CredentialInv'
    BY <2>2, CredentialConnect, CredentialStore, CredentialReplaced, CredentialConnected,
       CredentialCleanup DEF HandlerStep
  <2>3. ASSUME UNCHANGED <<manager, cleaner>>
        PROVE  CredentialInv'
    BY <2>0, <2>3, CredentialFrame DEF manager
  <2>4. ASSUME NEW s \in Sessions, Read(s) \/ DispatchStep(s)
        PROVE  CredentialInv'
    BY <2>3, <2>4 DEF Read, DispatchStep, Dispatch, Finish, RunEnds, closing
  <2>5. ASSUME NEW r \in Requests, Send(r) \/ RequestStep(r) \/ Cancel(r) \/ WatchStep(r)
        PROVE  CredentialInv'
    <3>1. UNCHANGED <<manager, closing>>
      BY <2>5 DEF Send, RequestStep, StoreRequest, LoadRequest, CheckClosed, Write, Undo,
         GiveUp, Receive, ReceiveClosed, Cancel, WatchStep, WatchContext, WatchClosed
    <3> QED
      BY <2>3, <3>1 DEF closing
  <2>6. CASE UNCHANGED vars
    BY <2>3, <2>6 DEF vars, closing
  <2> QED
    BY <2>1, <2>2, <2>4, <2>5, <2>6 DEF Next
<1> QED
  BY <1>1, <1>2, PTL DEF Spec

\* When no session is coming or going, a provider has a credential exactly
\* while it has a session: the callbacks of handleWebsocket and cleanup, made
\* outside the manager's mutex, come in the order of the sessions, but for the
\* providers whose names changed hands too early.
THEOREM CredentialsFollow == Spec => []CredentialFollowsSession
PROOF
<1>1. RelayInv /\ CredentialInv => CredentialFollowsSession
  <2> SUFFICES ASSUME RelayInv, CredentialInv, Settled, NEW p \in Providers \ crossed
               PROVE  callback[p] = "connected" <=> \E s \in Sessions : sessions[p] = s
    BY DEF CredentialFollowsSession
  <2>0. SessionsOK /\ HandlerOK /\ ClosingOK /\ CurrentStored /\ LeftIsCleaned /\ InOrder(p)
    BY DEF RelayInv, Typed, CredentialInv
  <2>n. \A s \in Sessions : s # None
    BY RelayAssumption
  <2>1. ASSUME NEW s \in Sessions, sessions[p] = s
        PROVE  callback[p] = "connected"
    <3>1. handler[s] = "done"
      BY <2>0, <2>1, <2>n DEF CurrentStored, Settled
    <3> QED
      BY <2>0, <2>1, <2>n, <3>1 DEF InOrder
  <2>2. ASSUME callback[p] = "connected", sessions[p] = None
        PROVE  FALSE
    <3>1. PICK t \in Sessions : Provider[t] = p /\ Unreported(t)
      BY <2>0, <2>2 DEF InOrder
    <3>2. cleaner[t].at = "none" /\ (Stopped(t) \/ IsReplaced(t))
      BY <2>0, <3>1 DEF Unreported, Settled, LeftIsCleaned
    <3>3. ~IsReplaced(t)
      BY DEF IsReplaced, Settled
    <3>4. ~Stopped(t)
      BY <2>0, <3>2 DEF Stopped, Settled, ClosingOK
    <3> QED
      BY <3>2, <3>3, <3>4
  <2> QED
    BY <2>0, <2>1, <2>2 DEF SessionsOK
<1> QED
  BY <1>1, CredentialInvariance, PTL

-----------------------------------------------------------------------------
(***************************************************************************)
(* Answers: what of a request's answer the caller has, its channel holds   *)
(* and session.run has in hand is what the client sent before it ended it. *)
(***************************************************************************)
Active == {"load", "check", "write", "wait"}
Excused(r) == r \in lost \cup canceled
Flight(r) ==
  LET run == runner[op[r].session]
  IN  IF run.at = "offer" /\ run.request = r THEN run.type ELSE "none"

\* The first k messages do not end an answer; message k is the first to.
Open(ms, k) == \A j \in 1..k : ms[j] \notin Terminal
Ends(ms, k) == ms[k] \in Terminal /\ Open(ms, k - 1)

\* c[k]: the chunks a caller that has n of them has after k more messages.
Counts(r, n, ms, c) ==
  /\ c \in [0..Len(ms) -> Nat] /\ c[0] = n
  /\ \A k \in 1..Len(ms) : c[k] = Body(r, ms[k], c[k - 1])

\* What the client sent (t) if the messages end the answer: nothing is known
\* where it is the cleanup that ended it.
EndsAs(ms, t, c) ==
  \A k \in 1..Len(ms) : Ends(ms, k) /\ ms[k] # "error" => t.end = ms[k] /\ t.chunks = c[k]

\* What it sent if they do not, with f the message in dispatch.
GoesOn(r, ms, t, f, c) ==
  Open(ms, Len(ms)) =>
    /\ t.end = IF f \in Terminal THEN f ELSE "none"
    /\ t.chunks = Body(r, f, c[Len(ms)])

Progress(r, n, ms, t, f) ==
  \E c \in [0..Len(ms) -> Nat] :
    Counts(r, n, ms, c) /\ EndsAs(ms, t, c) /\ GoesOn(r, ms, t, f, c)

Answered(r) ==
  \/ Excused(r) \/ op[r].at \notin Active
  \/ ~Open(channel[r].messages, Len(channel[r].messages))

\* Whoever closes a request's channel, or is about to, has offered the end of
\* its answer.
Closing(r) ==
  \/ channel[r].closed
  \/ \E s \in Sessions : runner[s].at = "finish" /\ runner[s].request = r
  \/ \E s \in Sessions : cleaner[s].at = "close" /\ cleaner[s].request = r

\* The cleanup of a request's session has it to come.
Ahead(r) ==
  LET c == cleaner[op[r].session]
  IN  c.at \in {"range", "notify", "close"} /\ r \in c.stored \ c.visited

\* A request without its answer can be found: by session.run, and by the
\* cleanup of its session.
Findable(r) ==
  /\ op[r].session \notin closed => r \in pending[op[r].session]
  /\ op[r].at \in {"write", "wait"} =>
       /\ r \in pending[op[r].session]
       /\ op[r].session \in closed => Ahead(r)

\* A request that succeeds.
CompleteOne(o, t) == o.end # "none" /\ o.end = t.end /\ o.chunks = t.chunks

FindableOK(r) == ~Answered(r) => Findable(r) /\ ~Closing(r)
ProgressOK(r) ==
  /\ op[r].at \in {"new", "store"} =>
       /\ channel[r].messages = <<>> /\ op[r].chunks = 0
       /\ sent[r].chunks = 0 /\ sent[r].end = "none"
  /\ op[r].at \in Active /\ ~Excused(r) =>
       Progress(r, op[r].chunks, channel[r].messages, sent[r], Flight(r))
  /\ op[r].at = "ok" /\ ~Excused(r) => CompleteOne(op[r], sent[r])
-----------------------------------------------------------------------------
(***************************************************************************)
(* What a message adds to the progress of an answer.                       *)
(***************************************************************************)
LEMMA AppendMessage ==
  ASSUME NEW ms \in Seq(Types), NEW type \in Types
  PROVE  /\ Append(ms, type) \in Seq(Types) /\ Len(Append(ms, type)) = Len(ms) + 1
         /\ Len(ms) \in Nat
         /\ \A k \in 1..Len(ms) : Append(ms, type)[k] = ms[k] /\ ms[k] \in Types
         /\ Append(ms, type)[Len(ms) + 1] = type
         /\ \A k \in 0..Len(ms) : Open(Append(ms, type), k) <=> Open(ms, k)
         /\ Open(Append(ms, type), Len(ms) + 1) <=> Open(ms, Len(ms)) /\ type \notin Terminal
         /\ \A k \in 1..Len(ms) : Ends(Append(ms, type), k) <=> Ends(ms, k)
         /\ Ends(Append(ms, type), Len(ms) + 1) <=> Open(ms, Len(ms)) /\ type \in Terminal
PROOF
<1> DEFINE more == Append(ms, type)
           n == Len(ms)
<1>1. /\ more \in Seq(Types) /\ Len(more) = n + 1 /\ n \in Nat
      /\ \A k \in 1..n : more[k] = ms[k] /\ ms[k] \in Types
      /\ more[n + 1] = type
  OBVIOUS
<1> HIDE DEF more, n
<1>2. /\ \A k \in 0..n : Open(more, k) <=> Open(ms, k)
      /\ Open(more, n + 1) <=> Open(ms, n) /\ type \notin Terminal
  BY <1>1 DEF Open
<1>3. /\ \A k \in 1..n : k - 1 \in 0..n
      /\ n \in 0..n /\ (n + 1) - 1 = n
  BY <1>1
<1>4. /\ \A k \in 1..n : Ends(more, k) <=> Ends(ms, k)
      /\ Ends(more, n + 1) <=> Open(ms, n) /\ type \in Terminal
  BY <1>1, <1>2, <1>3 DEF Ends
<1> QED
  BY <1>1, <1>2, <1>4 DEF more, n

\* One more message, one more count.
LEMMA CountsAppend ==
  ASSUME NEW r, NEW n, NEW ms \in Seq(Types), NEW type \in Types,
         NEW c \in [0..Len(ms) -> Nat], Counts(r, n, ms, c)
  PROVE  \E d \in [0..Len(Append(ms, type)) -> Nat] :
           /\ Counts(r, n, Append(ms, type), d)
           /\ \A k \in 0..Len(ms) : d[k] = c[k]
           /\ d[Len(ms) + 1] = Body(r, type, c[Len(ms)])
PROOF
<1> DEFINE more == Append(ms, type)
           m == Len(ms)
           last == Body(r, type, c[m])
           d == [k \in 0..m + 1 |-> IF k = m + 1 THEN last ELSE c[k]]
<1>1. /\ Len(more) = m + 1 /\ m \in Nat
      /\ \A k \in 1..m : more[k] = ms[k]
      /\ more[m + 1] = type
  BY AppendMessage
<1>2. m \in 0..m /\ c[m] \in Nat
  BY <1>1
<1>3. last \in Nat
  BY <1>2, BodyNat
<1>c. /\ c \in [0..m -> Nat] /\ c[0] = n
      /\ \A k \in 1..m : c[k] = Body(r, ms[k], c[k - 1])
  BY DEF Counts
<1>l. last = Body(r, type, c[m])
  OBVIOUS
<1> HIDE DEF more, m, last
<1>4. /\ d \in [0..m + 1 -> Nat]
      /\ \A k \in 0..m : d[k] = c[k]
      /\ d[m + 1] = last
  BY <1>1, <1>3, <1>c
<1> HIDE DEF d
<1>5. d[0] = n
  BY <1>1, <1>4, <1>c
<1>6. ASSUME NEW k \in 1..m + 1 PROVE d[k] = Body(r, more[k], d[k - 1])
  <2>1. CASE k = m + 1
    <3>1. d[k - 1] = c[m]
      BY <1>1, <1>4, <2>1
    <3> QED
      BY <1>1, <1>4, <1>l, <2>1, <3>1
  <2>2. CASE k # m + 1
    <3>1. k \in 1..m /\ k \in 0..m /\ k - 1 \in 0..m
      BY <1>1, <2>2
    <3>2. d[k - 1] = c[k - 1] /\ d[k] = c[k] /\ more[k] = ms[k]
      BY <1>1, <1>4, <3>1
    <3> QED
      BY <1>c, <3>1, <3>2
  <2> QED
    BY <2>1, <2>2
<1>7. Counts(r, n, more, d)
  BY <1>1, <1>4, <1>5, <1>6 DEF Counts
<1>8. d \in [0..Len(more) -> Nat]
  BY <1>1, <1>4
<1> QED
  BY <1>4, <1>7, <1>8, <1>l DEF more, m

\* Before the first message: a caller that has nothing.
LEMMA ProgressStarts ==
  ASSUME NEW r, NEW t, t.chunks = 0, t.end = "none"
  PROVE  Progress(r, 0, <<>>, t, "none")
PROOF
<1> DEFINE c == [k \in 0..0 |-> 0]
<1>1. Len(<<>>) = 0 /\ 1..0 = {}
  OBVIOUS
<1>2. c \in [0..0 -> Nat] /\ c[0] = 0
  OBVIOUS
<1> HIDE DEF c
<1>3. Counts(r, 0, <<>>, c) /\ EndsAs(<<>>, t, c)
  BY <1>1, <1>2 DEF Counts, EndsAs
<1>4. GoesOn(r, <<>>, t, "none", c)
  BY <1>1, <1>2 DEF GoesOn, Body, Discards, Terminal
<1> QED
  BY <1>1, <1>2, <1>3, <1>4 DEF Progress

\* The message in dispatch comes to its channel.
LEMMA ProgressDispatched ==
  ASSUME NEW r, NEW n, NEW ms \in Seq(Types), NEW t, NEW f \in Types,
         Progress(r, n, ms, t, f)
  PROVE  Progress(r, n, Append(ms, f), t, "none")
PROOF
<1>c. PICK c \in [0..Len(ms) -> Nat] :
        Counts(r, n, ms, c) /\ EndsAs(ms, t, c) /\ GoesOn(r, ms, t, f, c)
  BY DEF Progress
<1>d. PICK d \in [0..Len(Append(ms, f)) -> Nat] :
        /\ Counts(r, n, Append(ms, f), d)
        /\ \A k \in 0..Len(ms) : d[k] = c[k]
        /\ d[Len(ms) + 1] = Body(r, f, c[Len(ms)])
  BY <1>c, CountsAppend
<1> DEFINE more == Append(ms, f)
           m == Len(ms)
<1>0. /\ Len(more) = m + 1 /\ m \in Nat
      /\ \A k \in 1..m : more[k] = ms[k]
      /\ more[m + 1] = f
      /\ Open(more, m + 1) <=> Open(ms, m) /\ f \notin Terminal
      /\ \A k \in 1..m : Ends(more, k) <=> Ends(ms, k)
      /\ Ends(more, m + 1) <=> Open(ms, m) /\ f \in Terminal
  BY AppendMessage
<1>1. Open(ms, m) => /\ t.end = IF f \in Terminal THEN f ELSE "none"
                     /\ t.chunks = d[m + 1]
  BY <1>c, <1>d DEF GoesOn
<1>2. /\ Counts(r, n, more, d) /\ d \in [0..m + 1 -> Nat]
      /\ \A k \in 0..m : d[k] = c[k]
  BY <1>0, <1>d
<1>e. \A k \in 1..m : Ends(ms, k) /\ ms[k] # "error" => t.end = ms[k] /\ t.chunks = c[k]
  BY <1>c DEF EndsAs
<1> HIDE DEF more, m
<1>3. ASSUME NEW k \in 1..m + 1, Ends(more, k), more[k] # "error"
      PROVE  t.end = more[k] /\ t.chunks = d[k]
  <2>1. CASE k = m + 1
    BY <1>0, <1>1, <1>3, <2>1
  <2>2. CASE k # m + 1
    <3>1. k \in 1..m /\ k \in 0..m
      BY <1>0, <2>2
    <3> QED
      BY <1>0, <1>2, <1>3, <1>e, <3>1
  <2> QED
    BY <2>1, <2>2
<1>4. ASSUME Open(more, m + 1)
      PROVE  t.end = "none" /\ t.chunks = Body(r, "none", d[m + 1])
  <2>1. t.end = "none" /\ t.chunks = d[m + 1] /\ d[m + 1] \in Nat
    BY <1>0, <1>1, <1>2, <1>4
  <2> QED
    BY <2>1 DEF Body, Discards
<1>5. EndsAs(more, t, d)
  BY <1>0, <1>3 DEF EndsAs
<1>6. GoesOn(r, more, t, "none", d)
  BY <1>0, <1>4 DEF GoesOn, Terminal
<1>7. d \in [0..Len(more) -> Nat]
  BY <1>0, <1>2
<1> QED
  BY <1>2, <1>5, <1>6, <1>7 DEF Progress, more

\* A cleanup tells the caller.
LEMMA ProgressNotified ==
  ASSUME NEW r, NEW n, NEW ms \in Seq(Types), NEW t, NEW f, Progress(r, n, ms, t, f)
  PROVE  Progress(r, n, Append(ms, "error"), t, f)
PROOF
<1>a. "error" \in Types /\ "error" \in Terminal
  BY DEF Types, Terminal
<1>c. PICK c \in [0..Len(ms) -> Nat] : Counts(r, n, ms, c) /\ EndsAs(ms, t, c)
  BY DEF Progress
<1>d. PICK d \in [0..Len(Append(ms, "error")) -> Nat] :
        /\ Counts(r, n, Append(ms, "error"), d)
        /\ \A k \in 0..Len(ms) : d[k] = c[k]
  BY <1>a, <1>c, CountsAppend
<1> DEFINE more == Append(ms, "error")
           m == Len(ms)
<1>0. /\ Len(more) = m + 1 /\ m \in Nat
      /\ \A k \in 1..m : more[k] = ms[k]
      /\ more[m + 1] = "error"
      /\ ~Open(more, m + 1)
      /\ \A k \in 1..m : Ends(more, k) <=> Ends(ms, k)
  BY <1>a, AppendMessage
<1>2. /\ Counts(r, n, more, d) /\ d \in [0..Len(more) -> Nat]
      /\ \A k \in 0..m : d[k] = c[k]
  BY <1>d
<1>e. \A k \in 1..m : Ends(ms, k) /\ ms[k] # "error" => t.end = ms[k] /\ t.chunks = c[k]
  BY <1>c DEF EndsAs
<1> HIDE DEF more, m
<1>3. ASSUME NEW k \in 1..m + 1, Ends(more, k), more[k] # "error"
      PROVE  t.end = more[k] /\ t.chunks = d[k]
  <2>1. k \in 1..m /\ k \in 0..m
    BY <1>0, <1>3
  <2> QED
    BY <1>0, <1>2, <1>3, <1>e, <2>1
<1>4. EndsAs(more, t, d) /\ GoesOn(r, more, t, f, d)
  BY <1>0, <1>3 DEF EndsAs, GoesOn
<1> QED
  BY <1>2, <1>4 DEF Progress, more

\* What the client has sent once it sends one more message.
Told(r, t, type) ==
  IF t.end # "none" THEN [t EXCEPT !.count = @ + 1]
  ELSE [count |-> t.count + 1, chunks |-> Body(r, type, t.chunks),
        end |-> IF type \in Terminal THEN type ELSE "none"]

LEMMA ToldEnded ==
  ASSUME NEW r, NEW t \in Tallies, NEW type, t.end # "none"
  PROVE  Told(r, t, type).end = t.end /\ Told(r, t, type).chunks = t.chunks
PROOF BY DEF Told, Tallies

\* session.run reads a message of the client: it is in its hand, or it is
\* dropped because nobody waits for more.
LEMMA ProgressRead ==
  ASSUME NEW r, NEW n, NEW ms \in Seq(Types), NEW t \in Tallies, NEW type \in Types,
         Progress(r, n, ms, t, "none")
  PROVE  /\ Progress(r, n, ms, Told(r, t, type), type)
         /\ ~Open(ms, Len(ms)) => Progress(r, n, ms, Told(r, t, type), "none")
PROOF
<1>c. PICK c \in [0..Len(ms) -> Nat] :
        Counts(r, n, ms, c) /\ EndsAs(ms, t, c) /\ GoesOn(r, ms, t, "none", c)
  BY DEF Progress
<1> DEFINE u == Told(r, t, type)
<1>1. t.end # "none" => u.end = t.end /\ u.chunks = t.chunks
  BY ToldEnded
<1>2. t.end = "none" => /\ u.end = IF type \in Terminal THEN type ELSE "none"
                        /\ u.chunks = Body(r, type, t.chunks)
  BY DEF Told
<1> HIDE DEF u
<1>3. EndsAs(ms, u, c)
  <2>1. ASSUME NEW k \in 1..Len(ms), Ends(ms, k), ms[k] # "error"
        PROVE  u.end = ms[k] /\ u.chunks = c[k]
    <3>1. t.end = ms[k] /\ t.chunks = c[k] /\ ms[k] # "none"
      BY <1>c, <2>1 DEF EndsAs, Ends, Terminal
    <3> QED
      BY <1>1, <3>1
  <2> QED
    BY <2>1 DEF EndsAs
<1>4. GoesOn(r, ms, u, type, c)
  <2>1. ASSUME Open(ms, Len(ms))
        PROVE  /\ u.end = IF type \in Terminal THEN type ELSE "none"
               /\ u.chunks = Body(r, type, c[Len(ms)])
    <3>1. t.end = "none" /\ t.chunks = Body(r, "none", c[Len(ms)])
      BY <1>c, <2>1 DEF GoesOn, Terminal
    <3>2. c[Len(ms)] \in Nat
      OBVIOUS
    <3>3. t.chunks = c[Len(ms)]
      BY <3>1, <3>2 DEF Body, Discards
    <3> QED
      BY <1>2, <3>1, <3>3
  <2> QED
    BY <2>1 DEF GoesOn
<1>5. ~Open(ms, Len(ms)) => GoesOn(r, ms, u, "none", c)
  BY DEF GoesOn
<1> QED
  BY <1>c, <1>3, <1>4, <1>5 DEF Progress, u

\* The rest of the messages.
LEMMA TailMessages ==
  ASSUME NEW ms \in Seq(Types), ms # <<>>, Head(ms) \notin Terminal
  PROVE  /\ \A k \in 0..Len(Tail(ms)) : Open(Tail(ms), k) <=> Open(ms, k + 1)
         /\ \A k \in 1..Len(Tail(ms)) : Ends(Tail(ms), k) <=> Ends(ms, k + 1)
PROOF
<1> DEFINE rest == Tail(ms)
           n == Len(rest)
<1>0. /\ n \in Nat /\ Len(ms) = n + 1 /\ ms[1] = Head(ms)
      /\ \A k \in 1..n : rest[k] = ms[k + 1]
  OBVIOUS
<1> HIDE DEF rest, n
<1>h. ms[1] \notin Terminal
  BY <1>0
<1>1. \A k \in 0..n : Open(rest, k) <=> Open(ms, k + 1)
  <2> TAKE k \in 0..n
  <2>1. ASSUME Open(rest, k) PROVE Open(ms, k + 1)
    <3> SUFFICES ASSUME NEW j \in 1..k + 1 PROVE ms[j] \notin Terminal
      BY DEF Open
    <3>1. CASE j = 1
      BY <1>h, <3>1
    <3>2. CASE j # 1
      <4>1. j - 1 \in 1..k /\ j - 1 \in 1..n /\ (j - 1) + 1 = j
        BY <1>0, <3>2
      <4> QED
        BY <1>0, <2>1, <4>1 DEF Open
    <3> QED
      BY <3>1, <3>2
  <2>2. ASSUME Open(ms, k + 1) PROVE Open(rest, k)
    <3> SUFFICES ASSUME NEW j \in 1..k PROVE rest[j] \notin Terminal
      BY DEF Open
    <3>1. j \in 1..n /\ j + 1 \in 1..k + 1
      BY <1>0
    <3> QED
      BY <1>0, <2>2, <3>1 DEF Open
  <2> QED
    BY <2>1, <2>2
<1>2. \A k \in 1..n : Ends(rest, k) <=> Ends(ms, k + 1)
  <2> TAKE k \in 1..n
  <2>1. k - 1 \in 0..n /\ (k - 1) + 1 = k /\ (k + 1) - 1 = k
    BY <1>0
  <2> QED
    BY <1>0, <1>1, <2>1 DEF Ends
<1> QED
  BY <1>1, <1>2 DEF rest, n

\* The caller receives a part of a stream.
LEMMA ProgressReceived ==
  ASSUME NEW r, NEW n, NEW ms \in Seq(Types), ms # <<>>, NEW t, NEW f,
         Progress(r, n, ms, t, f), Head(ms) \notin Terminal
  PROVE  /\ Progress(r, Body(r, Head(ms), n), Tail(ms), t, f)
         /\ Open(Tail(ms), Len(Tail(ms))) <=> Open(ms, Len(ms))
PROOF
<1>c. PICK c \in [0..Len(ms) -> Nat] :
        Counts(r, n, ms, c) /\ EndsAs(ms, t, c) /\ GoesOn(r, ms, t, f, c)
  BY DEF Progress
<1> DEFINE rest == Tail(ms)
           m == Len(rest)
           d == [k \in 0..m |-> c[k + 1]]
<1>0. /\ m \in Nat /\ Len(ms) = m + 1 /\ ms[1] = Head(ms)
      /\ \A k \in 1..m : rest[k] = ms[k + 1]
  OBVIOUS
<1>1. /\ \A k \in 0..m : Open(rest, k) <=> Open(ms, k + 1)
      /\ \A k \in 1..m : Ends(rest, k) <=> Ends(ms, k + 1)
  BY TailMessages
<1>2. /\ c \in [0..m + 1 -> Nat] /\ c[0] = n
      /\ \A k \in 1..m + 1 : c[k] = Body(r, ms[k], c[k - 1])
      /\ \A k \in 1..m + 1 : Ends(ms, k) /\ ms[k] # "error" => t.end = ms[k] /\ t.chunks = c[k]
      /\ Open(ms, m + 1) => /\ t.end = IF f \in Terminal THEN f ELSE "none"
                            /\ t.chunks = Body(r, f, c[m + 1])
  BY <1>0, <1>c DEF Counts, EndsAs, GoesOn
<1> HIDE DEF rest, m
<1>3. /\ d \in [0..m -> Nat]
      /\ \A k \in 0..m : d[k] = c[k + 1]
  BY <1>0, <1>2
<1> HIDE DEF d
<1>4. Counts(r, Body(r, Head(ms), n), rest, d)
  <2>1. d[0] = Body(r, Head(ms), n)
    <3>1. d[0] = c[1] /\ 1 \in 1..m + 1 /\ 1 - 1 = 0
      BY <1>0, <1>3
    <3> QED
      BY <1>0, <1>2, <3>1
  <2>2. ASSUME NEW k \in 1..m PROVE d[k] = Body(r, rest[k], d[k - 1])
    <3>1. /\ k \in 0..m /\ k - 1 \in 0..m /\ (k - 1) + 1 = k
          /\ k + 1 \in 1..m + 1 /\ (k + 1) - 1 = k
      BY <1>0
    <3>2. d[k] = c[k + 1] /\ d[k - 1] = c[k]
      BY <1>3, <3>1
    <3>3. c[k + 1] = Body(r, ms[k + 1], c[k])
      BY <1>2, <3>1
    <3> QED
      BY <1>0, <3>2, <3>3
  <2> QED
    BY <1>3, <2>1, <2>2 DEF Counts, m
<1>5. EndsAs(rest, t, d)
  <2>1. ASSUME NEW k \in 1..m, Ends(rest, k), rest[k] # "error"
        PROVE  t.end = rest[k] /\ t.chunks = d[k]
    <3>1. k \in 0..m /\ k + 1 \in 1..m + 1
      BY <1>0
    <3> QED
      BY <1>0, <1>1, <1>2, <1>3, <2>1, <3>1
  <2> QED
    BY <2>1 DEF EndsAs, m
<1>6. m \in 0..m
  BY <1>0
<1>7. GoesOn(r, rest, t, f, d)
  <2>1. d[m] = c[m + 1] /\ (Open(rest, m) <=> Open(ms, m + 1))
    BY <1>1, <1>3, <1>6
  <2> QED
    BY <1>2, <2>1 DEF GoesOn, m
<1>8. Progress(r, Body(r, Head(ms), n), rest, t, f)
  BY <1>3, <1>4, <1>5, <1>7 DEF Progress, m
<1>9. Open(rest, m) <=> Open(ms, Len(ms))
  BY <1>0, <1>1, <1>6
<1> QED
  BY <1>8, <1>9 DEF rest, m

\* The caller receives the end of its answer.
LEMMA ProgressEnded ==
  ASSUME NEW r, NEW n, NEW ms \in Seq(Types), ms # <<>>, NEW t, NEW f,
         Progress(r, n, ms, t, f), Head(ms) \in {"response", "bare", "end"}
  PROVE  t.end = Head(ms) /\ t.chunks = Body(r, Head(ms), n)
PROOF
<1>c. PICK c \in [0..Len(ms) -> Nat] : Counts(r, n, ms, c) /\ EndsAs(ms, t, c)
  BY DEF Progress
<1>1. ms[1] = Head(ms) /\ 1 \in 1..Len(ms) /\ 1 - 1 = 0
  OBVIOUS
<1>2. Ends(ms, 1) /\ ms[1] # "error"
  BY <1>1 DEF Ends, Open, Terminal
<1>3. t.end = ms[1] /\ t.chunks = c[1]
  BY <1>1, <1>2, <1>c DEF EndsAs
<1>4. c[1] = Body(r, ms[1], n)
  BY <1>1, <1>c DEF Counts
<1> QED
  BY <1>1, <1>3, <1>4

-----------------------------------------------------------------------------
(***************************************************************************)
(* What a step leaves of an answer.                                        *)
(***************************************************************************)
\* A request whose record, messages and client are left alone.
LEMMA AnswerKept ==
  ASSUME NEW r \in Requests, FindableOK(r), ProgressOK(r),
         op'[r] = op[r], channel'[r].messages = channel[r].messages, sent'[r] = sent[r],
         Excused(r) => Excused(r)',
         op[r].at \in Active => Flight(r)' = Flight(r),
         Closing(r)' => Closing(r) \/ Answered(r),
         op[r].at \in Active /\ Findable(r) /\ ~Answered(r) => Findable(r)'
  PROVE  FindableOK(r)' /\ ProgressOK(r)'
PROOF
<1>1. Answered(r) => Answered(r)'
  BY DEF Answered
<1>2. ~Answered(r) => op[r].at \in Active
  BY DEF Answered
<1>3. FindableOK(r)'
  BY <1>1, <1>2 DEF FindableOK
<1>4. ProgressOK(r)'
  BY DEF ProgressOK
<1> QED
  BY <1>3, <1>4

Answering == HandlerFirst /\ \A r \in Requests : FindableOK(r) /\ ProgressOK(r)

\* What happens outside the map, the channels and the requests.
LEMMA QuietStep ==
  ASSUME Answering, RelayInv, HandlerFirst',
         UNCHANGED <<op, channel, sent, pending, closed, lost>>, canceled \subseteq canceled',
         \A s \in Sessions : \/ runner'[s] = runner[s]
                             \/ {runner[s].at, runner'[s].at} \cap {"offer", "finish"} = {},
         \A s \in Sessions :
           \/ cleaner'[s] = cleaner[s]
           \/ {cleaner[s].at, cleaner'[s].at} \cap {"range", "notify", "close"} = {}
  PROVE  Answering'
PROOF
<1> SUFFICES ASSUME NEW r \in Requests PROVE FindableOK(r)' /\ ProgressOK(r)'
  BY DEF Answering
<1>0. FindableOK(r) /\ ProgressOK(r) /\ OpOK
  BY DEF Answering, RelayInv, Typed
<1>1. Excused(r) => Excused(r)'
  BY DEF Excused
<1>2. ASSUME op[r].at \in Active PROVE op[r].session \in Sessions
  BY <1>0, <1>2 DEF OpOK, Active
<1>3. op[r].at \in Active => Flight(r)' = Flight(r)
  BY <1>2 DEF Flight
<1>4. Closing(r)' => Closing(r)
  BY DEF Closing
<1>5. op[r].at \in Active /\ Findable(r) => Findable(r)'
  BY <1>2 DEF Findable, Ahead
<1> QED
  BY <1>0, <1>1, <1>3, <1>4, <1>5, AnswerKept

\* A step of a request's caller: what it must show of that request.
LEMMA CallerStep ==
  ASSUME Answering, RelayInv, NEW r \in Requests, FindableOK(r)' /\ ProgressOK(r)',
         \A q \in Requests \ {r} : op'[q] = op[q] /\ channel'[q] = channel[q],
         UNCHANGED <<handler, runner, closed, cleaner, sent, canceled, lost>>,
         \A s \in Sessions : pending[s] \ {r} \subseteq pending'[s]
  PROVE  Answering'
PROOF
<1> SUFFICES ASSUME NEW q \in Requests \ {r} PROVE FindableOK(q)' /\ ProgressOK(q)'
  BY DEF Answering, HandlerFirst
<1>0. FindableOK(q) /\ ProgressOK(q) /\ OpOK /\ op'[q] = op[q] /\ channel'[q] = channel[q]
  BY DEF Answering, RelayInv, Typed
<1>1. Excused(q) => Excused(q)'
  BY DEF Excused
<1>2. ASSUME op[q].at \in Active PROVE op[q].session \in Sessions
  BY <1>0, <1>2 DEF OpOK, Active
<1>3. op[q].at \in Active => Flight(q)' = Flight(q)
  BY <1>0 DEF Flight
<1>4. Closing(q)' => Closing(q)
  BY <1>0 DEF Closing
<1>5. op[q].at \in Active /\ Findable(q) => Findable(q)'
  BY <1>0, <1>2 DEF Findable, Ahead
<1> QED
  BY <1>0, <1>1, <1>3, <1>4, <1>5, AnswerKept

\* Closing a channel and forgetting its request: the messages stay.
LEMMA ForgetMessages ==
  ASSUME ChannelOK, NEW s \in Sessions, NEW r \in Requests, Forget(s, r)
  PROVE  /\ \A q \in Requests : channel'[q].messages = channel[q].messages
         /\ \A q \in Requests \ {r} : channel'[q] = channel[q]
PROOF
<1>1. channel' = [channel EXCEPT ![r].closed = TRUE] \/ UNCHANGED channel
  BY DEF Forget, Close
<1> QED
  BY <1>1 DEF ChannelOK, Channels

\* A channel takes a message, or loses it.
LEMMA OfferAnswer ==
  ASSUME ChannelOK, NEW r \in Requests, NEW type \in Types, Offer(r, type), ~crashed'
  PROVE  /\ ~channel[r].closed
         /\ \A q \in Requests \ {r} : channel'[q] = channel[q]
         /\ \A q \in Requests : channel'[q].closed = channel[q].closed
         /\ lost \subseteq lost'
         /\ \/ r \in lost' /\ UNCHANGED channel
            \/ channel'[r].messages = Append(channel[r].messages, type) /\ UNCHANGED lost
PROOF
<1>1. ~channel[r].closed
  BY DEF Offer
<1>2. CASE Len(channel[r].messages) < Buffer
  <2>1. channel' = [channel EXCEPT ![r].messages = Append(@, type)] /\ UNCHANGED lost
    BY <1>1, <1>2 DEF Offer
  <2> QED
    BY <1>1, <2>1 DEF ChannelOK, Channels
<1>3. CASE ~(Len(channel[r].messages) < Buffer)
  <2>1. lost' = lost \cup {r} /\ UNCHANGED channel
    BY <1>1, <1>3 DEF Offer
  <2> QED
    BY <1>1, <2>1
<1> QED
  BY <1>2, <1>3

-----------------------------------------------------------------------------
(***************************************************************************)
(* The manager and a session's cleanup.                                    *)
(***************************************************************************)
LEMMA AnswerManager ==
  ASSUME Answering, RelayInv, Stop \/ \E s \in Sessions : HandlerStep(s)
  PROVE  Answering'
PROOF
<1>0. HandlerOK /\ RunnerOK /\ HandlerFirst
  BY DEF RelayInv, Typed, Answering
<1>1. UNCHANGED <<op, channel, sent, pending, closed, lost, canceled, cleaner>>
  BY DEF Stop, HandlerStep, Connect, StoreSession, Replaced, Connected, closing, requests
<1>2. ASSUME NEW s \in Sessions, Connected(s)
      PROVE  Answering'
  <2>1. /\ handler' = [handler EXCEPT ![s] = "done"]
        /\ runner' = [runner EXCEPT ![s].at = "read"]
        /\ runner[s].at = "off"
    BY <1>0, <1>2 DEF Connected, Handling, HandlerFirst
  <2>2. /\ runner'[s].at = "read" /\ handler'[s] = "done"
        /\ \A t \in Sessions \ {s} : runner'[t] = runner[t] /\ handler'[t] = handler[t]
    BY <1>0, <2>1 DEF RunnerOK, Runners, HandlerOK
  <2>3. HandlerFirst'
    BY <1>0, <2>2 DEF HandlerFirst
  <2>4. \A t \in Sessions : \/ runner'[t] = runner[t]
                            \/ {runner[t].at, runner'[t].at} \cap {"offer", "finish"} = {}
    BY <2>1, <2>2
  <2> QED
    BY <1>1, <2>3, <2>4, QuietStep
<1>3. ASSUME Stop \/ \E s \in Sessions : Connect(s) \/ StoreSession(s) \/ Replaced(s)
      PROVE  Answering'
  <2>1. UNCHANGED runner
    BY <1>3 DEF Stop, Connect, StoreSession, Replaced
  <2>2. CASE Stop
    <3>1. HandlerFirst'
      BY <1>0, <2>1, <2>2 DEF Stop, HandlerFirst
    <3> QED
      BY <1>1, <2>1, <3>1, QuietStep
  <2>3. ASSUME NEW s \in Sessions, Connect(s) \/ StoreSession(s) \/ Replaced(s)
        PROVE  Answering'
    <3>1. handler[s] # "done" /\ \A t \in Sessions \ {s} : handler'[t] = handler[t]
      BY <1>0, <2>3 DEF Connect, StoreSession, Replaced, Handling, HandlerOK
    <3>2. HandlerFirst'
      BY <1>0, <2>1, <3>1 DEF HandlerFirst
    <3> QED
      BY <1>1, <2>1, <3>2, QuietStep
  <2> QED
    BY <1>3, <2>2, <2>3
<1> QED
  BY <1>2, <1>3 DEF HandlerStep

LEMMA AnswerBegin ==
  ASSUME Answering, RelayInv, NEW s \in Sessions, BeginCleanup(s)
  PROVE  Answering'
PROOF
<1>0. ClosingOK /\ OpOK /\ HandlerFirst
  BY DEF RelayInv, Typed, Answering
<1> DEFINE record == [IdleCleaner EXCEPT !.at = "range", !.stored = pending[s]]
<1>1. /\ s \notin closed /\ closed' = closed \cup {s}
      /\ cleaner' = [cleaner EXCEPT ![s] = record]
      /\ UNCHANGED <<handler, runner, pending, channel, op, canceled, sent, lost>>
  BY DEF BeginCleanup, requests
<1>2. record.at = "range" /\ record.stored = pending[s] /\ record.visited = {}
  BY DEF IdleCleaner
<1> HIDE DEF record
<1>3. /\ cleaner[s].at = "none" /\ cleaner'[s] = record
      /\ \A t \in Sessions \ {s} : cleaner'[t] = cleaner[t]
  BY <1>0, <1>1 DEF ClosingOK
<1>4. HandlerFirst'
  BY <1>0, <1>1 DEF HandlerFirst
<1> SUFFICES ASSUME NEW r \in Requests PROVE FindableOK(r)' /\ ProgressOK(r)'
  BY <1>4 DEF Answering
<1>5. FindableOK(r) /\ ProgressOK(r)
  BY DEF Answering
<1>6. (Excused(r) => Excused(r)') /\ (op[r].at \in Active => Flight(r)' = Flight(r))
  BY <1>1 DEF Excused, Flight
<1>7. Closing(r)' => Closing(r)
  BY <1>1, <1>2, <1>3 DEF Closing
<1>8. ASSUME op[r].at \in Active, Findable(r)
      PROVE  Findable(r)'
  <2>1. op[r].session \in Sessions
    BY <1>0, <1>8 DEF OpOK, Active
  <2>2. CASE op[r].session = s
    BY <1>1, <1>2, <1>3, <1>8, <2>2 DEF Findable, Ahead
  <2>3. CASE op[r].session # s
    BY <1>1, <1>3, <1>8, <2>1, <2>3 DEF Findable, Ahead
  <2> QED
    BY <2>2, <2>3
<1> QED
  BY <1>1, <1>5, <1>6, <1>7, <1>8, AnswerKept

\* What a step of the cleanup of s must show of each request.
LEMMA AnswerCleaner ==
  ASSUME Answering, RelayInv, NEW s \in Sessions, cleaner[s].at # "none",
         UNCHANGED <<handler, runner, closed, op, canceled, sent>>, lost \subseteq lost',
         \A t \in Sessions \ {s} : cleaner'[t] = cleaner[t] /\ pending'[t] = pending[t],
         NEW r \in Requests, channel'[r].messages = channel[r].messages,
         channel'[r].closed => channel[r].closed \/ Answered(r),
         cleaner'[s].at = "close" => cleaner'[s].request # r,
         op[r].at \in {"write", "wait"} /\ op[r].session = s /\ ~Answered(r)
           /\ r \in pending[s] /\ Ahead(r) => r \in pending'[s] /\ Ahead(r)'
  PROVE  FindableOK(r)' /\ ProgressOK(r)'
PROOF
<1>0. ClosingOK /\ OpOK /\ s \in closed
  BY DEF RelayInv, Typed, ClosingOK
<1>5. FindableOK(r) /\ ProgressOK(r)
  BY DEF Answering
<1>6. (Excused(r) => Excused(r)') /\ (op[r].at \in Active => Flight(r)' = Flight(r))
  BY DEF Excused, Flight
<1>7. Closing(r)' => Closing(r) \/ Answered(r)
  BY DEF Closing
<1>8. ASSUME op[r].at \in Active, Findable(r), ~Answered(r)
      PROVE  Findable(r)'
  <2>1. op[r].session \in Sessions
    BY <1>0, <1>8 DEF OpOK, Active
  <2>2. CASE op[r].session = s
    BY <1>0, <1>8, <2>2 DEF Findable
  <2>3. CASE op[r].session # s
    <3>1. Ahead(r) => Ahead(r)'
      BY <2>1, <2>3 DEF Ahead
    <3> QED
      BY <1>8, <2>1, <2>3, <3>1 DEF Findable
  <2> QED
    BY <2>2, <2>3
<1> QED
  BY <1>5, <1>6, <1>7, <1>8, AnswerKept

LEMMA AnswerNotify ==
  ASSUME Answering, RelayInv, NEW s \in Sessions, Notify(s), ~crashed'
  PROVE  Answering'
PROOF
<1>0. /\ ClosingOK /\ OpOK /\ ChannelOK /\ VisitOwned /\ SentOK /\ HandlerFirst
      /\ cleaner \in [Sessions -> Cleaners]
  BY DEF RelayInv, Typed, Answering, ClosingOK
<1>q. /\ cleaner[s].at = "notify" /\ Offer(cleaner[s].request, "error")
      /\ cleaner' = [cleaner EXCEPT ![s].at = "close"]
      /\ UNCHANGED <<handler, closed, runner, pending, op, canceled, sent>>
  BY DEF Notify, Cleaning, manager, requests
<1>p. PICK q \in Requests : q = cleaner[s].request
  BY <1>0, <1>q DEF VisitOwned
<1>1. /\ cleaner[s].at = "notify" /\ Offer(q, "error")
      /\ cleaner' = [cleaner EXCEPT ![s].at = "close"]
      /\ UNCHANGED <<handler, closed, runner, pending, op, canceled, sent>>
  BY <1>p, <1>q
<1>2. /\ cleaner'[s] = [cleaner[s] EXCEPT !.at = "close"]
      /\ \A t \in Sessions \ {s} : cleaner'[t] = cleaner[t]
  BY <1>0, <1>1
<1>3. /\ cleaner'[s].at = "close" /\ cleaner'[s].request = q
      /\ cleaner'[s].stored = cleaner[s].stored /\ cleaner'[s].visited = cleaner[s].visited
  BY <1>0, <1>2, <1>p DEF Cleaners
<1>4. op[q].session = s /\ op[q].at \notin {"new", "store"}
  BY <1>0, <1>1, <1>p DEF VisitOwned
<1>a. "error" \in Types /\ "error" \in Terminal
  BY DEF Types, Terminal
<1>5. /\ \A r \in Requests \ {q} : channel'[r] = channel[r]
      /\ \A r \in Requests : channel'[r].closed = channel[r].closed
      /\ lost \subseteq lost'
      /\ \/ q \in lost' /\ UNCHANGED channel
         \/ channel'[q].messages = Append(channel[q].messages, "error") /\ UNCHANGED lost
  BY <1>0, <1>1, <1>a, OfferAnswer
<1>6. HandlerFirst'
  BY <1>0, <1>1 DEF HandlerFirst
<1>7. ASSUME NEW r \in Requests \ {q}
      PROVE  FindableOK(r)' /\ ProgressOK(r)'
  <2>1. Ahead(r) /\ op[r].session = s => Ahead(r)'
    BY <1>1, <1>3 DEF Ahead
  <2> QED
    BY <1>1, <1>2, <1>3, <1>5, <2>1, AnswerCleaner
<1>8. FindableOK(q)' /\ ProgressOK(q)'
  <2>1. ProgressOK(q) /\ channel[q].messages \in Seq(Types) /\ op[q].chunks \in Nat
    BY <1>0, <1>4 DEF Answering, ChannelOK, Channels, OpOK, Ops
  <2>2. Excused(q) => Excused(q)'
    BY <1>1, <1>5 DEF Excused
  <2>3. Flight(q)' = Flight(q)
    BY <1>1 DEF Flight
  <2>4. CASE q \in lost'
    <3>1. Excused(q)'
      BY <2>4 DEF Excused
    <3> QED
      BY <1>1, <1>4, <3>1 DEF FindableOK, ProgressOK, Answered
  <2>5. CASE channel'[q].messages = Append(channel[q].messages, "error")
    <3>1. ~Open(Append(channel[q].messages, "error"), Len(channel[q].messages) + 1)
          /\ Len(Append(channel[q].messages, "error")) = Len(channel[q].messages) + 1
      BY <1>a, <2>1, AppendMessage
    <3>2. Answered(q)'
      BY <2>5, <3>1 DEF Answered
    <3>3. op[q].at \in Active /\ ~Excused(q) =>
            Progress(q, op[q].chunks, Append(channel[q].messages, "error"), sent[q], Flight(q))
      BY <2>1, ProgressNotified DEF ProgressOK
    <3>4. ProgressOK(q)'
      BY <1>1, <1>4, <2>1, <2>2, <2>3, <2>5, <3>3 DEF ProgressOK
    <3> QED
      BY <3>2, <3>4 DEF FindableOK
  <2> QED
    BY <1>5, <2>4, <2>5
<1> QED
  BY <1>6, <1>7, <1>8 DEF Answering

LEMMA AnswerCleanup ==
  ASSUME Answering, RelayInv, NEW s \in Sessions, ConnectionFails(s) \/ CleanupStep(s), ~crashed'
  PROVE  Answering'
PROOF
<1>0. /\ ClosingOK /\ OpOK /\ ChannelOK /\ PendingOK /\ VisitOwned /\ HandlerFirst
      /\ cleaner \in [Sessions -> Cleaners]
  BY DEF RelayInv, Typed, Answering, ClosingOK
<1>1. CASE ConnectionFails(s) \/ CleanStopped(s) \/ CleanReplaced(s)
  BY <1>1, AnswerBegin DEF ConnectionFails, CleanStopped, CleanReplaced
<1>2. CASE Visit(s)
  <2>1. PICK q \in pending[s] \ cleaner[s].visited :
          cleaner' = [cleaner EXCEPT ![s].at = "notify", ![s].request = q]
    BY <1>2 DEF Visit
  <2>2. /\ cleaner[s].at = "range"
        /\ UNCHANGED <<handler, closed, runner, pending, channel, op, canceled, sent, lost>>
    BY <1>2 DEF Visit, Cleaning, manager, requests
  <2>3. /\ cleaner'[s].at = "notify"
        /\ cleaner'[s].stored = cleaner[s].stored /\ cleaner'[s].visited = cleaner[s].visited
        /\ \A t \in Sessions \ {s} : cleaner'[t] = cleaner[t]
    BY <1>0, <2>1 DEF Cleaners
  <2>4. \A r \in Requests : Ahead(r) /\ op[r].session = s => Ahead(r)'
    BY <2>2, <2>3 DEF Ahead
  <2>5. HandlerFirst'
    BY <1>0, <2>2 DEF HandlerFirst
  <2> QED
    BY <2>2, <2>3, <2>4, <2>5, AnswerCleaner DEF Answering
<1>3. CASE Notify(s)
  BY <1>3, AnswerNotify
<1>4. CASE CloseVisited(s)
  <2> DEFINE q == cleaner[s].request
             seen == cleaner[s].visited \cup {q}
             record == [cleaner[s] EXCEPT !.at = "range", !.request = None, !.visited = seen]
  <2>1. /\ cleaner[s].at = "close" /\ Close(q)
        /\ cleaner' = [cleaner EXCEPT ![s] = record]
        /\ UNCHANGED <<handler, closed, runner, pending, op, canceled, sent, lost>>
    BY <1>0, <1>4 DEF CloseVisited, Cleaning, manager, requests
  <2> HIDE DEF seen
  <2>2. record.at = "range" /\ record.stored = cleaner[s].stored /\ record.visited = seen
    BY <1>0 DEF Cleaners
  <2>3. cleaner'[s] = record /\ \A t \in Sessions \ {s} : cleaner'[t] = cleaner[t]
    BY <1>0, <2>1
  <2>4. q \in Requests /\ Closing(q)
    BY <1>0, <2>1 DEF VisitOwned, Closing
  <2>5. Answered(q)
    BY <2>4 DEF Answering, FindableOK
  <2>6. /\ \A r \in Requests : channel'[r].messages = channel[r].messages
        /\ \A r \in Requests : channel'[r].closed => channel[r].closed \/ r = q
    BY <1>0, <2>1, <2>4 DEF Close, ChannelOK, Channels
  <2> HIDE DEF q, record
  <2>7. \A r \in Requests : Ahead(r) /\ op[r].session = s /\ r # q => Ahead(r)'
    BY <2>1, <2>2, <2>3 DEF Ahead, seen
  <2>8. HandlerFirst'
    BY <1>0, <2>1 DEF HandlerFirst
  <2>9. ASSUME NEW r \in Requests
        PROVE  FindableOK(r)' /\ ProgressOK(r)'
    <3>1. channel'[r].closed => channel[r].closed \/ Answered(r)
      BY <2>5, <2>6
    <3>2. ~Answered(r) /\ Ahead(r) /\ op[r].session = s => Ahead(r)'
      BY <2>5, <2>7
    <3> QED
      BY <2>1, <2>2, <2>3, <2>6, <3>1, <3>2, AnswerCleaner
  <2> QED
    BY <2>8, <2>9 DEF Answering
<1>5. CASE EndRange(s) \/ Clear(s)
  <2>1. /\ UNCHANGED <<handler, closed, runner, channel, op, canceled, sent, lost>>
        /\ cleaner[s].at \in {"range", "clear"}
    BY <1>5 DEF EndRange, Clear, Cleaning, manager, requests
  <2>2. /\ \A t \in Sessions \ {s} : cleaner'[t] = cleaner[t] /\ pending'[t] = pending[t]
        /\ cleaner'[s].at # "close"
    BY <1>0, <1>5 DEF EndRange, Clear, IdleCleaner, Cleaners, PendingOK
  <2>3. ASSUME NEW r \in Requests, op[r].session = s, r \in pending[s], Ahead(r)
        PROVE  FALSE
    BY <1>5, <2>3 DEF EndRange, Clear, Cleaning, Ahead
  <2>4. HandlerFirst'
    BY <1>0, <2>1 DEF HandlerFirst
  <2> QED
    BY <2>1, <2>2, <2>3, <2>4, AnswerCleaner DEF Answering
<1>6. CASE CloseConnection(s) \/ RemoveSession(s) \/ Disconnected(s)
  <2>1. /\ UNCHANGED <<op, channel, sent, pending, closed, lost, canceled, runner, handler>>
        /\ cleaner[s].at \in {"disconnect", "remove", "report"}
        /\ \E at \in {"remove", "report", "done"} : cleaner' = [cleaner EXCEPT ![s].at = at]
    BY <1>6 DEF CloseConnection, RemoveSession, Disconnected, Cleaning, manager, requests
  <2>2. /\ cleaner'[s].at \in {"remove", "report", "done"}
        /\ \A t \in Sessions \ {s} : cleaner'[t] = cleaner[t]
    BY <1>0, <2>1 DEF Cleaners
  <2>3. HandlerFirst'
    BY <1>0, <2>1 DEF HandlerFirst
  <2>4. \A t \in Sessions :
          \/ cleaner'[t] = cleaner[t]
          \/ {cleaner[t].at, cleaner'[t].at} \cap {"range", "notify", "close"} = {}
    BY <2>1, <2>2
  <2> QED
    BY <2>1, <2>3, <2>4, QuietStep
<1> QED
  BY <1>1, <1>2, <1>3, <1>4, <1>5, <1>6 DEF CleanupStep

-----------------------------------------------------------------------------
(***************************************************************************)
(* session.run.                                                            *)
(***************************************************************************)
\* What a step of session.run of s must show of a request it is not about.
LEMMA AnswerRunner ==
  ASSUME Answering, RelayInv, NEW s \in Sessions,
         UNCHANGED <<closed, cleaner, op, canceled>>, lost \subseteq lost',
         \A t \in Sessions \ {s} : runner'[t] = runner[t] /\ pending'[t] = pending[t],
         NEW r \in Requests, sent'[r] = sent[r], channel'[r].messages = channel[r].messages,
         channel'[r].closed => channel[r].closed \/ Answered(r),
         runner[s].at = "offer" => runner[s].request # r,
         runner'[s].at \in {"offer", "finish"} => runner'[s].request # r,
         r \in pending[s] /\ ~Answered(r) => r \in pending'[s]
  PROVE  FindableOK(r)' /\ ProgressOK(r)'
PROOF
<1>0. OpOK /\ FindableOK(r) /\ ProgressOK(r)
  BY DEF RelayInv, Typed, Answering
<1>1. Excused(r) => Excused(r)'
  BY DEF Excused
<1>2. ASSUME op[r].at \in Active PROVE op[r].session \in Sessions
  BY <1>0, <1>2 DEF OpOK, Active
<1>3. op[r].at \in Active => Flight(r)' = Flight(r)
  <2>1. ASSUME NEW t \in Sessions, op[r].session = t PROVE Flight(r)' = Flight(r)
    <3>1. CASE t = s
      BY <2>1, <3>1 DEF Flight
    <3>2. CASE t # s
      BY <2>1, <3>2 DEF Flight
    <3> QED
      BY <3>1, <3>2
  <2> QED
    BY <1>2, <2>1
<1>4. Closing(r)' => Closing(r) \/ Answered(r)
  BY DEF Closing
<1>5. op[r].at \in Active /\ Findable(r) /\ ~Answered(r) => Findable(r)'
  BY <1>2 DEF Findable, Ahead
<1> QED
  BY <1>0, <1>1, <1>3, <1>4, <1>5, AnswerKept

LEMMA AnswerRead ==
  ASSUME Answering, RelayInv, NEW s \in Sessions, Read(s), ~crashed'
  PROVE  Answering'
PROOF
<1>0. /\ RunnerOK /\ ClosingOK /\ OpOK /\ WatcherOK /\ ChannelOK /\ SentOK /\ HandlerFirst
  BY DEF RelayInv, Typed, Answering
<1>1. PICK r \in Requests, type \in Types :
        /\ Asked(s, r)
        /\ sent' = [sent EXCEPT ![r] = Sent(r, type)]
        /\ \E view \in Views(s) :
             runner' = [runner EXCEPT ![s] =
               IF r \in view THEN [at |-> "offer", request |-> r, type |-> type]
                             ELSE [IdleRunner EXCEPT !.at = "read"]]
  BY DEF Read, Torn
<1>2. PICK view \in Views(s) :
        runner' = [runner EXCEPT ![s] =
          IF r \in view THEN [at |-> "offer", request |-> r, type |-> type]
                        ELSE [IdleRunner EXCEPT !.at = "read"]]
  BY <1>1
<1>3. /\ runner[s].at = "read"
      /\ UNCHANGED <<handler, closed, cleaner, pending, channel, op, canceled, lost>>
  BY DEF Read, Running, manager, closing, requests
<1>4. /\ \A t \in Sessions \ {s} : runner'[t] = runner[t]
      /\ r \in view => /\ runner'[s].at = "offer" /\ runner'[s].request = r
                       /\ runner'[s].type = type
      /\ r \notin view => runner'[s].at = "read"
  BY <1>0, <1>2 DEF RunnerOK, IdleRunner
<1>5. sent'[r] = Sent(r, type) /\ \A q \in Requests \ {r} : sent'[q] = sent[q]
  BY <1>0, <1>1 DEF SentOK
<1>6. HandlerFirst'
  BY <1>0, <1>3, <1>4 DEF HandlerFirst
<1>7. \A q \in Requests \ {r} : FindableOK(q)' /\ ProgressOK(q)'
  BY <1>3, <1>4, <1>5, AnswerRunner
<1>8. /\ op[r].session = s /\ op[r].at \in {"wait", "ok", "failed", "canceled"}
      /\ FindableOK(r) /\ ProgressOK(r) /\ op[r].chunks \in Nat
      /\ channel[r].messages \in Seq(Types) /\ sent[r] \in Tallies
  BY <1>0, <1>1 DEF Asked, WatcherOK, Answering, OpOK, Ops, ChannelOK, Channels, SentOK
<1>9. FindableOK(r)'
  <2>1. Answered(r)' <=> Answered(r)
    BY <1>3 DEF Answered, Excused
  <2>2. Closing(r)' => Closing(r)
    BY <1>3, <1>4 DEF Closing
  <2>3. Findable(r) => Findable(r)'
    BY <1>3 DEF Findable, Ahead
  <2> QED
    BY <1>8, <2>1, <2>2, <2>3 DEF FindableOK
<1>10. ProgressOK(r)'
  <2>1. Excused(r)' <=> Excused(r)
    BY <1>3 DEF Excused
  <2>2. ASSUME op[r].at \in Active, ~Excused(r)
        PROVE  Progress(r, op[r].chunks, channel[r].messages, Sent(r, type), Flight(r)')
    <3> DEFINE ms == channel[r].messages
    <3>1. Flight(r) = "none"
      BY <1>3, <1>8 DEF Flight
    <3>2. /\ Progress(r, op[r].chunks, ms, Sent(r, type), type)
          /\ ~Open(ms, Len(ms)) => Progress(r, op[r].chunks, ms, Sent(r, type), "none")
      <4>1. Progress(r, op[r].chunks, ms, sent[r], "none")
        BY <1>8, <2>2, <3>1 DEF ProgressOK
      <4>2. Sent(r, type) = Told(r, sent[r], type)
        BY DEF Sent, Told
      <4> HIDE DEF ms
      <4> QED
        BY <1>8, <4>1, <4>2, ProgressRead DEF ms
    <3>3. Flight(r)' = IF r \in view THEN type ELSE "none"
      BY <1>3, <1>4, <1>8 DEF Flight
    <3>4. r \notin view => ~Open(ms, Len(ms))
      <4> SUFFICES ASSUME r \notin view, Open(ms, Len(ms)) PROVE FALSE
        OBVIOUS
      <4>1. Findable(r)
        BY <1>8, <2>2 DEF FindableOK, Answered
      <4>2. op[r].at = "wait"
        BY <1>8, <2>2 DEF Active
      <4>3. r \in pending[s] /\ (s \in closed => Ahead(r))
        BY <1>8, <4>1, <4>2 DEF Findable
      <4>4. ~Clearing(s)
        BY <1>0, <1>8, <4>3 DEF Clearing, Ahead, ClosingOK
      <4> QED
        BY <1>2, <4>3, <4>4 DEF Views
    <3> QED
      BY <3>2, <3>3, <3>4
  <2>3. CompleteOne(op[r], sent[r]) => CompleteOne(op[r], Sent(r, type))
    <3>1. Sent(r, type) = Told(r, sent[r], type)
      BY DEF Sent, Told
    <3> QED
      BY <1>8, <3>1, ToldEnded DEF CompleteOne
  <2> QED
    BY <1>3, <1>5, <1>8, <2>1, <2>2, <2>3 DEF ProgressOK
<1> QED
  BY <1>6, <1>7, <1>9, <1>10 DEF Answering

LEMMA AnswerDispatch ==
  ASSUME Answering, RelayInv, NEW s \in Sessions, Dispatch(s), ~crashed'
  PROVE  Answering'
PROOF
<1>0. /\ RunnerOK /\ ClosingOK /\ OpOK /\ WatcherOK /\ ChannelOK /\ SentOK /\ HandlerFirst
      /\ DispatchOK /\ runner \in [Sessions -> Runners]
  BY DEF RelayInv, Typed, Answering, RunnerOK
<1>q. /\ runner[s].at = "offer" /\ Offer(runner[s].request, runner[s].type)
      /\ runner' = [runner EXCEPT ![s] =
           IF runner[s].type \in Terminal THEN [runner[s] EXCEPT !.at = "finish"]
                                          ELSE [IdleRunner EXCEPT !.at = "read"]]
      /\ UNCHANGED <<handler, closed, cleaner, pending, op, canceled, sent>>
  BY <1>0 DEF Dispatch, Running, manager, closing, requests
<1>p. PICK r \in Requests : r = runner[s].request
  BY <1>0, <1>q DEF DispatchOK
<1>t. PICK type \in Types : type = runner[s].type
  BY <1>0 DEF Runners
<1>1. Offer(r, type)
  BY <1>p, <1>q, <1>t
<1>2. /\ \A t \in Sessions \ {s} : runner'[t] = runner[t]
      /\ type \in Terminal => runner'[s].at = "finish" /\ runner'[s].request = r
      /\ type \notin Terminal => runner'[s].at = "read"
  BY <1>0, <1>p, <1>q, <1>t DEF Runners, IdleRunner
<1>3. op[r].session = s /\ op[r].at \in {"wait", "ok", "failed", "canceled"}
  BY <1>0, <1>p, <1>q DEF DispatchOK, WatcherOK
<1>4. /\ ~channel[r].closed
      /\ \A q \in Requests \ {r} : channel'[q] = channel[q]
      /\ \A q \in Requests : channel'[q].closed = channel[q].closed
      /\ lost \subseteq lost'
      /\ \/ r \in lost' /\ UNCHANGED channel
         \/ channel'[r].messages = Append(channel[r].messages, type) /\ UNCHANGED lost
  BY <1>0, <1>1, OfferAnswer
<1>6. HandlerFirst'
  BY <1>0, <1>q, <1>2 DEF HandlerFirst
<1>7. \A q \in Requests \ {r} : FindableOK(q)' /\ ProgressOK(q)'
  <2> SUFFICES ASSUME NEW q \in Requests \ {r} PROVE FindableOK(q)' /\ ProgressOK(q)'
    OBVIOUS
  <2>1. /\ channel'[q] = channel[q] /\ runner[s].request # q
        /\ runner'[s].at \in {"offer", "finish"} => runner'[s].request # q
    BY <1>2, <1>4, <1>p
  <2> QED
    BY <1>q, <1>2, <1>4, <2>1, AnswerRunner
<1>8. /\ FindableOK(r) /\ ProgressOK(r) /\ op[r].chunks \in Nat
      /\ channel[r].messages \in Seq(Types) /\ sent[r] \in Tallies
  BY <1>0 DEF Answering, OpOK, Ops, ChannelOK, Channels, SentOK
<1>9. CASE r \in lost'
  <2>1. Excused(r)'
    BY <1>9 DEF Excused
  <2>2. FindableOK(r)' /\ ProgressOK(r)'
    BY <1>q, <1>3, <2>1 DEF FindableOK, ProgressOK, Answered
  <2> QED
    BY <1>6, <1>7, <2>2 DEF Answering
<1>10. CASE channel'[r].messages = Append(channel[r].messages, type) /\ UNCHANGED lost
  <2> DEFINE ms == channel[r].messages
             more == Append(ms, type)
  <2>1. /\ Len(more) = Len(ms) + 1
        /\ Open(more, Len(ms) + 1) <=> Open(ms, Len(ms)) /\ type \notin Terminal
    BY <1>8, AppendMessage
  <2>2. Excused(r)' <=> Excused(r)
    BY <1>q, <1>10 DEF Excused
  <2>3. Flight(r) = type /\ Flight(r)' = "none"
    BY <1>q, <1>2, <1>3, <1>p, <1>t DEF Flight
  <2>4. ProgressOK(r)'
    <3>1. ASSUME op[r].at \in Active, ~Excused(r)
          PROVE  Progress(r, op[r].chunks, more, sent[r], "none")
      <4>1. Progress(r, op[r].chunks, ms, sent[r], type)
        BY <1>8, <2>3, <3>1 DEF ProgressOK
      <4> HIDE DEF ms
      <4> QED
        BY <1>8, <4>1, ProgressDispatched DEF ms
    <3> QED
      BY <1>q, <1>3, <1>8, <1>10, <2>2, <2>3, <3>1 DEF ProgressOK
  <2>5. FindableOK(r)'
    <3>1. channel'[r].messages = more
      BY <1>10
    <3> HIDE DEF more
    <3>2. ~Answered(r)' => ~Answered(r) /\ type \notin Terminal
      BY <1>q, <2>1, <2>2, <3>1 DEF Answered
    <3>3. type \notin Terminal /\ Closing(r)' => Closing(r)
      BY <1>q, <1>2, <1>4 DEF Closing
    <3>4. Findable(r) => Findable(r)'
      BY <1>q DEF Findable, Ahead
    <3> QED
      BY <1>8, <3>2, <3>3, <3>4 DEF FindableOK
  <2> QED
    BY <1>6, <1>7, <2>4, <2>5 DEF Answering
<1> QED
  BY <1>4, <1>9, <1>10

LEMMA AnswerFinish ==
  ASSUME Answering, RelayInv, NEW s \in Sessions, Finish(s), ~crashed'
  PROVE  Answering'
PROOF
<1>0. RunnerOK /\ ChannelOK /\ PendingOK /\ DispatchOK /\ HandlerFirst
  BY DEF RelayInv, Typed, Answering
<1>q. /\ runner[s].at = "finish" /\ Forget(s, runner[s].request)
      /\ runner' = [runner EXCEPT ![s] = [IdleRunner EXCEPT !.at = "read"]]
      /\ UNCHANGED <<handler, closed, cleaner, op, canceled, sent, lost>>
  BY DEF Finish, Running, Torn, manager, closing, requests
<1>p. PICK r \in Requests : r = runner[s].request
  BY <1>0, <1>q DEF DispatchOK
<1>1. Answered(r)
  <2>1. Closing(r)
    BY <1>q, <1>p DEF Closing
  <2> QED
    BY <2>1 DEF Answering, FindableOK
<1>2. /\ \A t \in Sessions : pending'[t] = IF t = s THEN pending[t] \ {r} ELSE pending[t]
      /\ \A q \in Requests : channel'[q].closed => channel[q].closed \/ q = r
      /\ \A q \in Requests : channel'[q].messages = channel[q].messages
  BY <1>0, <1>q, <1>p, ForgetFacts, ForgetMessages
<1>3. runner'[s].at = "read" /\ \A t \in Sessions \ {s} : runner'[t] = runner[t]
  BY <1>0, <1>q DEF RunnerOK, IdleRunner
<1>4. HandlerFirst'
  BY <1>0, <1>q, <1>3 DEF HandlerFirst
<1>5. ASSUME NEW q \in Requests
      PROVE  FindableOK(q)' /\ ProgressOK(q)'
  <2>1. /\ channel'[q].closed => channel[q].closed \/ Answered(q)
        /\ q \in pending[s] /\ ~Answered(q) => q \in pending'[s]
    BY <1>1, <1>2
  <2> QED
    BY <1>q, <1>2, <1>3, <2>1, AnswerRunner
<1> QED
  BY <1>4, <1>5 DEF Answering

LEMMA AnswerRunEnds ==
  ASSUME Answering, RelayInv, NEW s \in Sessions, RunEnds(s)
  PROVE  Answering'
PROOF
<1>0. RunnerOK /\ HandlerFirst
  BY DEF RelayInv, Typed, Answering
<1>1. /\ runner[s].at = "read"
      /\ runner' = [runner EXCEPT ![s] = [IdleRunner EXCEPT !.at = "ended"]]
      /\ UNCHANGED <<handler, op, channel, sent, pending, closed, cleaner, canceled, lost>>
  BY DEF RunEnds, Running, manager, closing, requests
<1>2. runner'[s].at = "ended" /\ \A t \in Sessions \ {s} : runner'[t] = runner[t]
  BY <1>0, <1>1 DEF RunnerOK, IdleRunner
<1>3. HandlerFirst'
  BY <1>0, <1>1, <1>2 DEF HandlerFirst
<1>4. \A t \in Sessions : \/ runner'[t] = runner[t]
                          \/ {runner[t].at, runner'[t].at} \cap {"offer", "finish"} = {}
  BY <1>1, <1>2
<1> QED
  BY <1>1, <1>3, <1>4, QuietStep

-----------------------------------------------------------------------------
(***************************************************************************)
(* Requests.                                                               *)
(***************************************************************************)
\* A request that has come to an end, or will say nothing of its answer.
LEMMA AnswerGone ==
  ASSUME NEW r \in Requests,
         \/ op'[r].at \in {"undo", "failed", "canceled", "refused"}
         \/ op'[r].at = "ok" /\ Excused(r)'
  PROVE  FindableOK(r)' /\ ProgressOK(r)'
PROOF BY DEF FindableOK, ProgressOK, Answered, Active

\* A request that goes on, on its way to its answer.
LEMMA AnswerGoesOn ==
  ASSUME NEW r \in Requests, FindableOK(r), ProgressOK(r), NEW at \in Active,
         op[r].at \in Active, op'[r] = [op[r] EXCEPT !.at = at], op[r] \in Ops,
         UNCHANGED <<runner, closed, cleaner, pending, channel, sent, canceled, lost>>,
         at \in {"write", "wait"} =>
           op[r].session \notin closed \/ op[r].at \in {"write", "wait"}
  PROVE  FindableOK(r)' /\ ProgressOK(r)'
PROOF
<1>1. /\ op'[r].at = at /\ op'[r].session = op[r].session
      /\ op'[r].chunks = op[r].chunks
  BY DEF Ops
<1>2. (Excused(r)' <=> Excused(r)) /\ Flight(r)' = Flight(r)
  BY <1>1 DEF Excused, Flight
<1>3. Answered(r)' <=> Answered(r)
  BY <1>1, <1>2 DEF Answered
<1>4. Closing(r)' <=> Closing(r)
  BY DEF Closing
<1>5. Ahead(r)' <=> Ahead(r)
  BY <1>1 DEF Ahead
<1>6. Findable(r) => Findable(r)'
  BY <1>1, <1>5 DEF Findable
<1>7. FindableOK(r)'
  BY <1>3, <1>4, <1>6 DEF FindableOK
<1>8. ProgressOK(r)'
  BY <1>1, <1>2 DEF ProgressOK, Active
<1> QED
  BY <1>7, <1>8

LEMMA AnswerStore ==
  ASSUME Answering, RelayInv, NEW r \in Requests, Send(r) \/ StoreRequest(r)
  PROVE  FindableOK(r)' /\ ProgressOK(r)'
PROOF
<1>0. /\ OpOK /\ PendingOK /\ DispatchOK /\ WatcherOK /\ VisitOwned /\ FreshOpen
      /\ FindableOK(r) /\ ProgressOK(r) /\ op[r] \in Ops
  BY DEF RelayInv, Typed, Answering, OpOK
<1>1. CASE Send(r)
  <2>1. PICK t, at : /\ at \in {"refused", "store"}
                     /\ op' = [op EXCEPT ![r] = [op[r] EXCEPT !.session = t, !.at = at]]
    BY <1>0, <1>1 DEF Send, OpOK
  <2>2. op'[r] = [op[r] EXCEPT !.session = t, !.at = at]
    BY <1>0, <2>1 DEF OpOK
  <2>3. op'[r].at = at /\ op'[r].chunks = op[r].chunks
    BY <1>0, <2>2 DEF Ops
  <2>4. op[r].at = "new" /\ UNCHANGED <<channel, sent>>
    BY <1>1 DEF Send, Asking
  <2>5. CASE at = "refused"
    BY <2>3, <2>5, AnswerGone
  <2>6. CASE at = "store"
    <3>1. op[r].chunks = 0 /\ channel[r].messages = <<>> /\ sent[r].chunks = 0
          /\ sent[r].end = "none"
      BY <1>0, <2>4 DEF ProgressOK
    <3>2. op'[r].at = "store" /\ op'[r].chunks = 0
      BY <2>3, <2>6, <3>1
    <3>3. FindableOK(r)'
      BY <3>2 DEF FindableOK, Answered, Active
    <3>4. ProgressOK(r)'
      BY <2>4, <3>1, <3>2 DEF ProgressOK, Active
    <3> QED
      BY <3>3, <3>4
  <2> QED
    BY <2>1, <2>5, <2>6
<1>2. CASE StoreRequest(r)
  <2> DEFINE s == op[r].session
  <2>1. /\ op[r].at = "store" /\ s \in Sessions
        /\ UNCHANGED <<runner, closed, cleaner, channel, sent, canceled, lost>>
    BY <1>0, <1>2 DEF StoreRequest, Asking, closing, OpOK
  <2>2. CASE Step(r, "failed")
    <3>1. op'[r].at = "failed"
      BY <1>0, <2>2 DEF Step, OpOK, Ops
    <3> QED
      BY <3>1, AnswerGone
  <2>3. CASE pending' = [pending EXCEPT ![s] = @ \cup {r}] /\ Step(r, "load")
    <3>1. /\ op'[r].at = "load" /\ op'[r].session = s /\ op'[r].chunks = op[r].chunks
          /\ r \in pending'[s]
      BY <1>0, <2>1, <2>3 DEF Step, OpOK, Ops, PendingOK
    <3>2. /\ channel[r].messages = <<>> /\ op[r].chunks = 0
          /\ sent[r].chunks = 0 /\ sent[r].end = "none"
      BY <1>0, <2>1 DEF ProgressOK
    <3>3. /\ \A t \in Sessions : runner[t].at \in {"offer", "finish"} => runner[t].request # r
          /\ \A t \in Sessions : cleaner[t].at = "close" => cleaner[t].request # r
          /\ ~channel[r].closed
      BY <1>0, <2>1 DEF DispatchOK, WatcherOK, VisitOwned, FreshOpen
    <3>4. ~Closing(r)'
      BY <2>1, <3>3 DEF Closing
    <3>5. Findable(r)'
      BY <3>1 DEF Findable
    <3>6. Flight(r)' = "none"
      BY <2>1, <3>1, <3>3 DEF Flight
    <3>7. Progress(r, 0, <<>>, sent[r], "none")
      BY <3>2, ProgressStarts
    <3>8. ProgressOK(r)'
      BY <2>1, <3>1, <3>2, <3>6, <3>7 DEF ProgressOK
    <3> QED
      BY <3>4, <3>5, <3>8 DEF FindableOK
  <2> QED
    BY <1>2, <2>2, <2>3 DEF StoreRequest
<1> QED
  BY <1>1, <1>2

LEMMA AnswerReceive ==
  ASSUME Answering, RelayInv, NEW r \in Requests, Receive(r) \/ ReceiveClosed(r)
  PROVE  FindableOK(r)' /\ ProgressOK(r)'
PROOF
<1>0. /\ OpOK /\ ChannelOK /\ SentOK /\ FindableOK(r) /\ ProgressOK(r)
      /\ op[r] \in Ops /\ channel[r].messages \in Seq(Types) /\ sent[r] \in Tallies
  BY DEF RelayInv, Typed, Answering, OpOK, ChannelOK, Channels, SentOK
<1>1. /\ op[r].at = "wait" /\ op[r].chunks \in Nat
      /\ UNCHANGED <<runner, closed, cleaner, pending, sent, canceled, lost>>
  BY <1>0 DEF Receive, ReceiveClosed, Asking, closing, Ops
<1>2. Excused(r)' <=> Excused(r)
  BY <1>1 DEF Excused
<1>3. CASE ReceiveClosed(r)
  <2>1. channel[r].messages = <<>> /\ channel[r].closed /\ op'[r].at \in {"ok", "failed"}
    BY <1>0, <1>3 DEF ReceiveClosed, Step, OpOK, Ops
  <2>2. Answered(r)
    BY <1>0, <2>1 DEF FindableOK, Closing
  <2>3. Open(channel[r].messages, Len(channel[r].messages))
    BY <2>1 DEF Open
  <2>4. Excused(r)
    BY <1>1, <2>2, <2>3 DEF Answered, Active
  <2> QED
    BY <1>2, <2>1, <2>4, AnswerGone
<1>4. CASE Receive(r)
  <2> DEFINE ms == channel[r].messages
  <2>1. /\ ms # <<>> /\ op'[r] = Taken(r, Head(ms)) /\ channel'[r].messages = Tail(ms)
        /\ channel'[r].closed = channel[r].closed /\ Head(ms) \in Types
        /\ \A q \in Requests \ {r} : channel'[q] = channel[q]
    BY <1>0, <1>4 DEF Receive, OpOK, ChannelOK, Channels
  <2>2. CASE Head(ms) = "error"
    <3>1. op'[r].at = "failed"
      BY <1>0, <2>1, <2>2 DEF Taken, Ops
    <3> QED
      BY <3>1, AnswerGone
  <2>3. CASE Head(ms) \in {"response", "bare", "end"}
    <3>1. /\ op'[r].at = "ok" /\ op'[r].end = Head(ms) /\ Head(ms) # "none"
          /\ op'[r].chunks = Body(r, Head(ms), op[r].chunks)
      BY <1>0, <2>1, <2>3 DEF Taken, Ops
    <3>2. ~Excused(r) => sent[r].end = Head(ms) /\ sent[r].chunks = op'[r].chunks
      <4>1. ~Excused(r) => Progress(r, op[r].chunks, ms, sent[r], Flight(r))
        BY <1>0, <1>1 DEF ProgressOK, Active
      <4> HIDE DEF ms
      <4>2. ~Excused(r) => /\ sent[r].end = Head(ms)
                           /\ sent[r].chunks = Body(r, Head(ms), op[r].chunks)
        BY <1>0, <2>1, <2>3, <4>1, ProgressEnded DEF ms
      <4> QED
        BY <3>1, <4>2
    <3>3. ~Excused(r) => CompleteOne(op'[r], sent[r])
      BY <3>1, <3>2 DEF CompleteOne
    <3> QED
      BY <1>1, <1>2, <3>1, <3>3 DEF FindableOK, ProgressOK, Answered, Active
  <2>4. CASE Head(ms) \in {"start", "chunk"}
    <3>1. /\ op'[r].at = "wait" /\ op'[r].session = op[r].session
          /\ op'[r].chunks = Body(r, Head(ms), op[r].chunks)
      BY <1>0, <1>1, <2>1, <2>4 DEF Taken, Ops
    <3>2. Flight(r)' = Flight(r)
      BY <1>1, <3>1 DEF Flight
    <3>3. ~Excused(r) =>
            /\ Progress(r, op'[r].chunks, Tail(ms), sent[r], Flight(r))
            /\ Open(Tail(ms), Len(Tail(ms))) <=> Open(ms, Len(ms))
      <4>1. ~Excused(r) => Progress(r, op[r].chunks, ms, sent[r], Flight(r))
        BY <1>0, <1>1 DEF ProgressOK, Active
      <4>2. Head(ms) \notin Terminal
        BY <2>4 DEF Terminal
      <4> HIDE DEF ms
      <4>3. ~Excused(r) =>
              /\ Progress(r, Body(r, Head(ms), op[r].chunks), Tail(ms), sent[r], Flight(r))
              /\ Open(Tail(ms), Len(Tail(ms))) <=> Open(ms, Len(ms))
        BY <1>0, <2>1, <4>1, <4>2, ProgressReceived DEF ms
      <4> QED
        BY <3>1, <4>3
    <3>4. ProgressOK(r)'
      BY <1>1, <1>2, <2>1, <3>1, <3>2, <3>3 DEF ProgressOK, Active
    <3>5. Answered(r) => Answered(r)'
      BY <1>1, <1>2, <2>1, <3>3 DEF Answered, Active
    <3>6. Closing(r)' <=> Closing(r)
      BY <1>1, <2>1 DEF Closing
    <3>7. Findable(r) => Findable(r)'
      BY <1>1, <3>1 DEF Findable, Ahead
    <3> QED
      BY <1>0, <3>4, <3>5, <3>6, <3>7 DEF FindableOK
  <2> QED
    BY <2>1, <2>2, <2>3, <2>4 DEF Types
<1> QED
  BY <1>3, <1>4

LEMMA AnswerRequest ==
  ASSUME Answering, RelayInv, NEW r \in Requests,
         Send(r) \/ RequestStep(r) \/ WatchContext(r), ~crashed'
  PROVE  Answering'
PROOF
<1>0. /\ OpOK /\ ChannelOK /\ PendingOK /\ FindableOK(r) /\ ProgressOK(r) /\ op[r] \in Ops
  BY DEF RelayInv, Typed, Answering, OpOK
<1>1. UNCHANGED <<handler, runner, closed, cleaner, sent, canceled, lost>>
  BY DEF Send, RequestStep, StoreRequest, LoadRequest, CheckClosed, Write, Undo, GiveUp,
     Receive, ReceiveClosed, WatchContext, manager, closing
<1>2. \A q \in Requests \ {r} : op'[q] = op[q]
  BY <1>0 DEF OpOK, Send, RequestStep, StoreRequest, LoadRequest, CheckClosed, Write, Undo, GiveUp,
     Receive, ReceiveClosed, WatchContext, Step
<1>3. \A q \in Requests \ {r} : channel'[q] = channel[q]
  <2>1. CASE Undo(r) \/ WatchContext(r)
    <3>1. (op[r].session \in Sessions /\ Forget(op[r].session, r)) \/ UNCHANGED channel
      <4>1. Undo(r) => op[r].at = "undo"
        BY DEF Undo, Asking
      <4>2. WatchContext(r) => op[r].at \notin {"new", "refused"}
        BY DEF WatchContext, Watching, RelayInv, Typed, WatcherOK
      <4>3. op[r].session \in Sessions
        BY <1>0, <2>1, <4>1, <4>2 DEF OpOK
      <4> QED
        BY <2>1, <4>3 DEF Undo, WatchContext
    <3> QED
      BY <1>0, <3>1, ForgetMessages
  <2>2. CASE Receive(r)
    BY <1>0, <2>2 DEF Receive, ChannelOK
  <2>3. CASE UNCHANGED channel
    BY <2>3
  <2> QED
    BY <2>1, <2>2, <2>3 DEF Send, RequestStep, StoreRequest, LoadRequest, CheckClosed, Write,
       GiveUp, ReceiveClosed
<1>4. \A s \in Sessions : pending[s] \ {r} \subseteq pending'[s]
  BY <1>0 DEF PendingOK, Send, RequestStep, StoreRequest, LoadRequest, CheckClosed, Write, Undo,
     GiveUp, Receive, ReceiveClosed, WatchContext, Forget
<1>5. FindableOK(r)' /\ ProgressOK(r)'
  <2>1. CASE Send(r) \/ StoreRequest(r)
    BY <2>1, AnswerStore
  <2>2. CASE Receive(r) \/ ReceiveClosed(r)
    BY <2>2, AnswerReceive
  <2>3. CASE Undo(r) \/ GiveUp(r)
    <3>1. op'[r].at \in {"failed", "canceled"}
      BY <1>0, <2>3 DEF Undo, GiveUp, Step, OpOK, Ops
    <3> QED
      BY <3>1, AnswerGone
  <2>4. CASE LoadRequest(r) \/ CheckClosed(r) \/ Write(r)
    <3>1. PICK at \in {"check", "failed", "undo", "write", "wait"} :
            /\ op' = [op EXCEPT ![r].at = at]
            /\ at = "check" => op[r].at = "load"
            /\ at = "write" => op[r].at = "check" /\ op[r].session \notin closed
            /\ at = "wait" => op[r].at = "write"
      BY <2>4 DEF LoadRequest, CheckClosed, Write, Step, Asking
    <3>2. op'[r] = [op[r] EXCEPT !.at = at] /\ op'[r].at = at
      BY <1>0, <3>1 DEF OpOK, Ops
    <3>3. UNCHANGED <<pending, channel>>
      BY <2>4 DEF LoadRequest, CheckClosed, Write
    <3>4. CASE at \in {"failed", "undo"}
      BY <3>2, <3>4, AnswerGone
    <3>5. CASE at \in {"check", "write", "wait"}
      <4>1. at \in Active /\ op[r].at \in Active
        BY <3>1, <3>5 DEF Active
      <4> QED
        BY <1>0, <1>1, <3>1, <3>2, <3>3, <4>1, AnswerGoesOn
    <3> QED
      BY <3>4, <3>5
  <2>5. CASE WatchContext(r)
    <3>1. UNCHANGED op /\ (r \in canceled \/ Ended(r))
      BY <2>5 DEF WatchContext, Done
    <3>2. Excused(r) \/ op[r].at \notin Active
      BY <3>1 DEF Excused, Ended, Active
    <3>3. op[r].at \notin {"new", "store"}
      BY <2>5 DEF WatchContext, Watching, RelayInv, Typed, WatcherOK
    <3>4. Excused(r)' <=> Excused(r)
      BY <1>1 DEF Excused
    <3> QED
      BY <1>0, <1>1, <3>1, <3>2, <3>3, <3>4 DEF FindableOK, ProgressOK, Answered
  <2> QED
    BY <2>1, <2>2, <2>3, <2>4, <2>5 DEF RequestStep
<1> QED
  BY <1>1, <1>2, <1>3, <1>4, <1>5, CallerStep

LEMMA AnswerQuiet ==
  ASSUME Answering, RelayInv, NEW r \in Requests, Cancel(r) \/ WatchClosed(r)
  PROVE  Answering'
PROOF
<1>1. /\ UNCHANGED <<op, channel, sent, pending, closed, lost, runner, cleaner, handler>>
      /\ canceled \subseteq canceled'
  BY DEF Cancel, WatchClosed, manager, closing
<1>2. HandlerFirst'
  BY <1>1 DEF Answering, HandlerFirst
<1> QED
  BY <1>1, <1>2, QuietStep

-----------------------------------------------------------------------------
(***************************************************************************)
(* A request that succeeds is complete.                                    *)
(***************************************************************************)
LEMMA AnswersComplete == Answering => Complete
PROOF BY DEF Answering, Complete, ProgressOK, Excused, CompleteOne

\* The last step of a process that panics takes nothing from a caller.
LEMMA CrashLeavesAnswers ==
  ASSUME RelayInv, Complete, [Next]_vars, crashed'
  PROVE  Complete'
PROOF
<1>1. CASE UNCHANGED <<op, sent, lost, canceled>>
  BY <1>1 DEF Complete
<1>2. ASSUME NEW s \in Sessions, Read(s)
      PROVE  Complete'
  <2>0. SentOK
    BY DEF RelayInv, Typed
  <2>1. PICK r \in Requests, type \in Types : sent' = [sent EXCEPT ![r] = Sent(r, type)]
    BY <1>2 DEF Read
  <2>2. UNCHANGED <<op, lost, canceled>>
    BY <1>2 DEF Read, requests
  <2>3. sent'[r] = Sent(r, type) /\ \A q \in Requests \ {r} : sent'[q] = sent[q]
    BY <2>0, <2>1 DEF SentOK
  <2>4. sent[r].end # "none" =>
          Sent(r, type).end = sent[r].end /\ Sent(r, type).chunks = sent[r].chunks
    <3>1. sent[r] \in Tallies /\ Sent(r, type) = Told(r, sent[r], type)
      BY <2>0 DEF SentOK, Sent, Told
    <3> QED
      BY <3>1, ToldEnded
  <2> QED
    BY <2>2, <2>3, <2>4 DEF Complete
<1>3. ASSUME NEW s \in Sessions, Notify(s) \/ Dispatch(s)
      PROVE  Complete'
  <2>1. UNCHANGED <<op, sent, canceled>> /\ lost \subseteq lost'
    BY <1>3 DEF Notify, Dispatch, Offer, requests
  <2> QED
    BY <2>1 DEF Complete
<1>4. ASSUME ~crashed, UNCHANGED crashed
      PROVE  FALSE
  BY <1>4
<1>5. ASSUME crashed
      PROVE  UNCHANGED vars
  BY <1>5 DEF Next, Stop, HandlerStep, Connect, StoreSession, Replaced, Connected, Handling,
     ConnectionFails, CleanupStep, CleanStopped, CleanReplaced, BeginCleanup, Visit, Notify,
     CloseVisited, EndRange, Clear, CloseConnection, RemoveSession, Disconnected, Cleaning,
     Read, DispatchStep, Dispatch, Finish, RunEnds, Running, Send, RequestStep, StoreRequest,
     LoadRequest, CheckClosed, Write, Undo, GiveUp, Receive, ReceiveClosed, Asking, Cancel,
     WatchStep, WatchContext, WatchClosed, Watching
<1>6. CASE UNCHANGED vars
  BY <1>1, <1>6 DEF vars, requests
<1>7. ASSUME NEW s \in Sessions, Finish(s)
      PROVE  Complete'
  BY <1>1, <1>7 DEF Finish, requests
<1>8. ASSUME NEW r \in Requests, WatchContext(r)
      PROVE  Complete'
  BY <1>1, <1>8 DEF WatchContext
<1>9. CASE ~crashed /\ Next
  <2>1. ~(UNCHANGED crashed)
    BY <1>4, <1>9
  <2> QED
    BY <1>2, <1>3, <1>7, <1>8, <1>9, <2>1 DEF Next, Stop, HandlerStep, Connect, StoreSession,
       Replaced, Connected, ConnectionFails, CleanupStep, CleanStopped, CleanReplaced,
       BeginCleanup, Visit, CloseVisited, EndRange, Clear, CloseConnection, RemoveSession,
       Disconnected, DispatchStep, RunEnds, Send, RequestStep, StoreRequest, LoadRequest,
       CheckClosed, Write, Undo, GiveUp, Receive, ReceiveClosed, Cancel, WatchStep, WatchClosed
<1> QED
  BY <1>5, <1>6, <1>9

LEMMA InitAnswering == Init => Answering
PROOF
<1> SUFFICES ASSUME Init PROVE Answering
  OBVIOUS
<1>1. HandlerFirst
  BY DEF Init, HandlerFirst, IdleRunner
<1>2. ASSUME NEW r \in Requests
      PROVE  FindableOK(r) /\ ProgressOK(r)
  BY DEF Init, FindableOK, ProgressOK, Answered, Active, IdleOp
<1> QED
  BY <1>1, <1>2 DEF Answering

LEMMA NextAnswering ==
  ASSUME RelayInv, Answering, [Next]_vars, ~crashed'
  PROVE  Answering'
PROOF
<1>1. CASE Stop \/ \E s \in Sessions : HandlerStep(s)
  BY <1>1, AnswerManager
<1>2. ASSUME NEW s \in Sessions, ConnectionFails(s) \/ CleanupStep(s)
      PROVE  Answering'
  BY <1>2, AnswerCleanup
<1>3. ASSUME NEW s \in Sessions, Read(s) \/ DispatchStep(s)
      PROVE  Answering'
  BY <1>3, AnswerRead, AnswerDispatch, AnswerFinish, AnswerRunEnds DEF DispatchStep
<1>4. ASSUME NEW r \in Requests, Send(r) \/ RequestStep(r) \/ Cancel(r) \/ WatchStep(r)
      PROVE  Answering'
  BY <1>4, AnswerRequest, AnswerQuiet DEF WatchStep
<1>5. CASE UNCHANGED vars
  <2>1. UNCHANGED <<op, channel, sent, pending, closed, lost, runner, cleaner, handler, canceled>>
    BY <1>5 DEF vars, manager, closing, requests
  <2>2. HandlerFirst'
    BY <2>1 DEF Answering, HandlerFirst
  <2> QED
    BY <2>1, <2>2, QuietStep
<1> QED
  BY <1>1, <1>2, <1>3, <1>4, <1>5 DEF Next

\* A request that succeeds was ended by the message with which the client
\* ended its answer, and has every chunk that the answer consists of,
\* whatever closes its session, its channel or its context meanwhile, unless
\* its channel was full or its caller had gone.
THEOREM SuccessIsComplete == Spec => []Complete
PROOF
<1> DEFINE I == RelayInv /\ Complete /\ (~crashed => Answering)
<1>1. Init => I
  BY InitRelay, InitAnswering, AnswersComplete
<1>2. I /\ [Next]_vars => I'
  <2> SUFFICES ASSUME I, [Next]_vars PROVE I'
    OBVIOUS
  <2>1. RelayInv'
    BY NextRelay
  <2>2. crashed => crashed'
    BY DEF Next, Stop, HandlerStep, Connect, StoreSession, Replaced, Connected, Handling,
     ConnectionFails, CleanupStep, CleanStopped, CleanReplaced, BeginCleanup, Visit, Notify,
     CloseVisited, EndRange, Clear, CloseConnection, RemoveSession, Disconnected, Cleaning,
     Read, DispatchStep, Dispatch, Finish, RunEnds, Running, Send, RequestStep, StoreRequest,
     LoadRequest, CheckClosed, Write, Undo, GiveUp, Receive, ReceiveClosed, Asking, Cancel,
     WatchStep, WatchContext, WatchClosed, Watching, vars
  <2>3. CASE crashed'
    BY <2>1, <2>3, CrashLeavesAnswers
  <2>4. CASE ~crashed'
    <3>1. Answering'
      BY <2>2, <2>4, NextAnswering
    <3>2. Complete'
      BY <3>1, AnswersComplete, PTL
    <3> QED
      BY <2>1, <3>1, <3>2
  <2> QED
    BY <2>3, <2>4
<1>3. I => Complete
  OBVIOUS
<1> QED
  BY <1>1, <1>2, <1>3, PTL DEF Spec
=============================================================================
