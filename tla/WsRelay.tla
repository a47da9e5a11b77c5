------------------------------ MODULE WsRelay ------------------------------
(***************************************************************************)
(* The websocket relay (internal/wsrelay): a manager that keeps one        *)
(* session per provider, sessions that share a connection between          *)
(* requests, and the requests of NonStream and Stream (http.go).           *)
(*                                                                         *)
(* A step is one critical section of the manager's mutex, one operation on *)
(* a session's map of pending requests, one channel operation or one       *)
(* callback.  A connection can break at any time, and a send on a closed   *)
(* channel ends the process, as nothing recovers from it.  The loop that   *)
(* clears the map (s.pending = sync.Map{}) is not synchronized with its    *)
(* users: what overlaps it may find the old map, an empty one, or fail.    *)
(***************************************************************************)
EXTENDS Integers, SequencesExt

CONSTANTS
  Sessions,     \* websocket connections
  Providers,
  Provider,     \* the provider name of each session
  Requests,
  Streaming,    \* the requests made by Stream, the others by NonStream
  Buffer,       \* capacity of a request's channel
  MaxMessages,  \* bound on the messages a client sends for one request
  MaxStops,     \* bound on the calls of Manager.Stop
  None          \* stands for nil

ASSUME RelayAssumption ==
  /\ Provider \in [Sessions -> Providers]
  /\ Streaming \subseteq Requests
  /\ Buffer \in Nat \ {0}
  /\ {MaxMessages, MaxStops} \subseteq Nat
  /\ None \notin Sessions \cup Requests

\* A response that has a body, and one that has none (bare).
Types == {"start", "chunk", "response", "bare", "error", "end"}
Terminal == {"response", "bare", "error", "end"}

VARIABLES
  sessions,   \* Manager.sessions
  handler,    \* handleWebsocket of each session: its next step
  replaced,   \* the session that handler found in its place
  stopping,   \* the sessions Stop has still to clean up, one set for each call
  closed,     \* sessions whose closed channel is closed
  broken,     \* sessions whose connection is closed on this side
  cleaner,    \* session.cleanup: its next step and what Range has visited
  runner,     \* session.run: its next step and the message it dispatches
  pending,    \* session.pending: the requests in the map
  channel,    \* pendingRequest.ch: buffered messages, whether it is closed
  op,         \* what the caller of each request is doing
  watcher,    \* the goroutine that waits for a request's context
  canceled,   \* requests whose context is done
  callback,   \* the last callback for each provider
  crashed,    \* a panic nobody recovers from
  sent,       \* what the client sent for each request: how many messages, the
              \* one that ended the answer and the chunks it consists of
  lost,       \* history: requests whose full channel lost a message
  crossed     \* history: providers with callbacks out of order (see below)

manager == <<sessions, handler, replaced, stopping, callback, crossed>>
closing == <<closed, broken, cleaner>>
requests == <<op, watcher, canceled>>
vars == <<manager, closing, runner, pending, channel, requests, crashed, sent, lost>>

IdleRunner == [at |-> "off", request |-> None, type |-> "end"]
IdleCleaner == [at |-> "none", request |-> None, stored |-> {}, visited |-> {}]
IdleOp == [at |-> "new", session |-> None, streamed |-> FALSE, chunks |-> 0, end |-> "none"]

Init ==
  /\ sessions = [p \in Providers |-> None]
  /\ handler = [s \in Sessions |-> "new"]
  /\ replaced = [s \in Sessions |-> None]
  /\ stopping = <<>>
  /\ closed = {} /\ broken = {}
  /\ cleaner = [s \in Sessions |-> IdleCleaner]
  /\ runner = [s \in Sessions |-> IdleRunner]
  /\ pending = [s \in Sessions |-> {}]
  /\ channel = [r \in Requests |-> [messages |-> <<>>, closed |-> FALSE]]
  /\ op = [r \in Requests |-> IdleOp]
  /\ watcher = [r \in Requests |-> "off"]
  /\ canceled = {}
  /\ callback = [p \in Providers |-> "none"]
  /\ crashed = FALSE
  /\ sent = [r \in Requests |-> [count |-> 0, chunks |-> 0, end |-> "none"]]
  /\ lost = {} /\ crossed = {}

\* What each goroutine does next, while there is a process to do it.
Handling(s, step) == ~crashed /\ handler[s] = step
Cleaning(s, step) == ~crashed /\ cleaner[s].at = step
Running(s, step) == ~crashed /\ runner[s].at = step
Asking(r, step) == ~crashed /\ op[r].at = step
Watching(r) == ~crashed /\ watcher[r] = "on"

-----------------------------------------------------------------------------
(***************************************************************************)
(* Channels and the map of pending requests.                               *)
(***************************************************************************)
\* A send that does not wait: a full channel drops the message.
Offer(r, type) ==
  IF channel[r].closed
    THEN crashed' = TRUE /\ UNCHANGED <<channel, lost>>
    ELSE /\ IF Len(channel[r].messages) < Buffer
              THEN channel' = [channel EXCEPT ![r].messages = Append(@, type)] /\ UNCHANGED lost
              ELSE lost' = lost \cup {r} /\ UNCHANGED channel
         /\ UNCHANGED crashed

\* pendingRequest.close, once.
Close(r) == channel' = [channel EXCEPT ![r].closed = TRUE]

\* While cleanup replaces the map.
Clearing(s) == cleaner[s].at = "clear"

\* What an operation on the map can find there.
Views(s) == IF Clearing(s) THEN {pending[s], {}} ELSE {pending[s]}

\* LoadAndDelete, and close if it was there.
\* Bug: the request stays in the map.
CloseOnly(s, r) ==
  \E view \in Views(s) :
    /\ IF r \in view THEN Close(r) ELSE UNCHANGED channel
    /\ UNCHANGED pending

Forget(s, r) ==
  \E view \in Views(s) :
    /\ IF r \in view THEN Close(r) ELSE UNCHANGED channel
    /\ pending' = [pending EXCEPT ![s] = @ \ {r}]

\* An operation that overlaps the replacement of the map can fail.
Torn(s) == Clearing(s) /\ crashed' = TRUE

-----------------------------------------------------------------------------
(***************************************************************************)
(* The manager: handleWebsocket and Stop.                                  *)
(***************************************************************************)
\* newSession: its heartbeat runs from here on.
Connect(s) ==
  /\ Handling(s, "new")
  /\ handler' = [handler EXCEPT ![s] = "store"]
  /\ UNCHANGED <<sessions, replaced, stopping, callback, crossed, closing, runner, pending,
                 channel, requests, crashed, sent, lost>>

\* A session may come when the one before it has left the manager and is
\* still to be reported: its onConnected can then be the first of the two.
Unreported(t) ==
  handler[t] \notin {"new", "store"} /\ sessions[Provider[t]] # t /\ cleaner[t].at # "done"
Follows(s) == \E t \in Sessions : Provider[t] = Provider[s] /\ Unreported(t)

StoreSession(s) ==
  /\ Handling(s, "store")
  /\ crossed' = IF Follows(s) THEN crossed \cup {Provider[s]} ELSE crossed
  /\ replaced' = [replaced EXCEPT ![s] = sessions[Provider[s]]]
  /\ sessions' = [sessions EXCEPT ![Provider[s]] = s]
  /\ handler' = [handler EXCEPT ![s] = "replace"]
  /\ UNCHANGED <<stopping, callback, closing, runner, pending, channel, requests,
                 crashed, sent, lost>>

\* replaced.cleanup has returned, or there was nothing to replace.
Replaced(s) ==
  /\ Handling(s, "replace")
  /\ replaced[s] # None => cleaner[replaced[s]].at = "done"
  /\ handler' = [handler EXCEPT ![s] = "connected"]
  /\ UNCHANGED <<sessions, replaced, stopping, callback, crossed, closing, runner, pending,
                 channel, requests, crashed, sent, lost>>

\* onConnected, and the goroutine that reads.
Connected(s) ==
  /\ Handling(s, "connected")
  /\ callback' = [callback EXCEPT ![Provider[s]] = "connected"]
  /\ runner' = [runner EXCEPT ![s].at = "read"]
  /\ handler' = [handler EXCEPT ![s] = "done"]
  /\ UNCHANGED <<sessions, replaced, stopping, crossed, closing, pending, channel, requests,
                 crashed, sent, lost>>

\* Stop takes the sessions under the mutex and cleans them up after it.
Stop ==
  /\ ~crashed /\ Len(stopping) < MaxStops
  /\ stopping' = Append(stopping, {sessions[p] : p \in Providers} \ {None})
  /\ sessions' = [p \in Providers |-> None]
  /\ UNCHANGED <<handler, replaced, callback, crossed, closing, runner, pending, channel,
                 requests, crashed, sent, lost>>

-----------------------------------------------------------------------------
(***************************************************************************)
(* session.cleanup, which runs once: called when the connection cannot be  *)
(* read, when the heartbeat fails, by Stop and by a new session.           *)
(***************************************************************************)
\* Bug: the closed channel stays open.
BeginCleanupOpen(s) ==
  /\ ~crashed /\ s \notin closed
  /\ cleaner' = [cleaner EXCEPT ![s] = [IdleCleaner EXCEPT !.at = "range", !.stored = pending[s]]]
  /\ crossed' = IF handler[s] = "done" THEN crossed ELSE crossed \cup {Provider[s]}
  /\ UNCHANGED <<sessions, handler, replaced, stopping, callback, closed, broken, runner, pending,
                 channel, requests, crashed, sent, lost>>

BeginCleanup(s) ==
  /\ ~crashed /\ s \notin closed
  /\ closed' = closed \cup {s}
  /\ cleaner' = [cleaner EXCEPT ![s] = [IdleCleaner EXCEPT !.at = "range", !.stored = pending[s]]]
  /\ crossed' = IF handler[s] = "done" THEN crossed ELSE crossed \cup {Provider[s]}
  /\ UNCHANGED <<sessions, handler, replaced, stopping, callback, broken, runner, pending,
                 channel, requests, crashed, sent, lost>>

\* A message cannot be read, or a ping not written.
ConnectionFails(s) == handler[s] # "new" /\ BeginCleanup(s)

Stopped(s) == \E i \in DOMAIN stopping : s \in stopping[i]
CleanStopped(s) == Stopped(s) /\ BeginCleanup(s)

IsReplaced(s) == \E t \in Sessions : handler[t] = "replace" /\ replaced[t] = s
CleanReplaced(s) == IsReplaced(s) /\ BeginCleanup(s)

\* Range comes to an entry.
Visit(s) ==
  /\ Cleaning(s, "range")
  /\ \E r \in pending[s] \ cleaner[s].visited :
       cleaner' = [cleaner EXCEPT ![s].at = "notify", ![s].request = r]
  /\ UNCHANGED <<manager, closed, broken, runner, pending, channel, requests, crashed,
                 sent, lost>>

\* Bug: the channel is closed without a word.
NotifyNobody(s) ==
  /\ Cleaning(s, "notify")
  /\ cleaner' = [cleaner EXCEPT ![s].at = "close"]
  /\ UNCHANGED <<manager, closed, broken, runner, pending, channel, requests, crashed, sent,
                 lost>>

\* The error is offered, and the channel closed by CloseVisited.
Notify(s) ==
  /\ Cleaning(s, "notify")
  /\ Offer(cleaner[s].request, "error")
  /\ cleaner' = [cleaner EXCEPT ![s].at = "close"]
  /\ UNCHANGED <<manager, closed, broken, runner, pending, requests, sent>>

CloseVisited(s) ==
  /\ Cleaning(s, "close")
  /\ Close(cleaner[s].request)
  /\ cleaner' = [cleaner EXCEPT ![s].at = "range", ![s].request = None,
                                ![s].visited = @ \cup {cleaner[s].request}]
  /\ UNCHANGED <<manager, closed, broken, runner, pending, requests, crashed, sent, lost>>

\* Range has come to every entry that was there when it began; it may have
\* missed those stored since.
EndRange(s) ==
  /\ Cleaning(s, "range")
  /\ cleaner[s].stored \cap pending[s] \subseteq cleaner[s].visited
  /\ cleaner' = [cleaner EXCEPT ![s] = [IdleCleaner EXCEPT !.at = "clear"]]
  /\ UNCHANGED <<manager, closed, broken, runner, pending, channel, requests, crashed,
                 sent, lost>>

Clear(s) ==
  /\ Cleaning(s, "clear")
  /\ pending' = [pending EXCEPT ![s] = {}]
  /\ cleaner' = [cleaner EXCEPT ![s].at = "disconnect"]
  /\ UNCHANGED <<manager, closed, broken, runner, channel, requests, crashed, sent, lost>>

CloseConnection(s) ==
  /\ Cleaning(s, "disconnect")
  /\ broken' = broken \cup {s}
  /\ cleaner' = [cleaner EXCEPT ![s].at = "remove"]
  /\ UNCHANGED <<manager, closed, runner, pending, channel, requests, crashed, sent, lost>>

\* handleSessionClosed: a session removes only itself from the manager.
\* Bug: whichever session has the provider's name is removed.
RemoveAny(s) ==
  /\ Cleaning(s, "remove")
  /\ sessions' = [sessions EXCEPT ![Provider[s]] = None]
  /\ cleaner' = [cleaner EXCEPT ![s].at = "report"]
  /\ UNCHANGED <<handler, replaced, stopping, callback, crossed, closed, broken, runner, pending,
                 channel, requests, crashed, sent, lost>>

RemoveSession(s) ==
  /\ Cleaning(s, "remove")
  /\ sessions' = [sessions EXCEPT ![Provider[s]] = IF @ = s THEN None ELSE @]
  /\ cleaner' = [cleaner EXCEPT ![s].at = "report"]
  /\ UNCHANGED <<handler, replaced, stopping, callback, crossed, closed, broken, runner, pending,
                 channel, requests, crashed, sent, lost>>

\* onDisconnected.
Disconnected(s) ==
  /\ Cleaning(s, "report")
  /\ callback' = [callback EXCEPT ![Provider[s]] = "disconnected"]
  /\ cleaner' = [cleaner EXCEPT ![s].at = "done"]
  /\ UNCHANGED <<sessions, handler, replaced, stopping, crossed, closed, broken, runner, pending,
                 channel, requests, crashed, sent, lost>>

-----------------------------------------------------------------------------
(***************************************************************************)
(* session.run: a message is read, its request looked up, the message put  *)
(* in the request's channel; a terminal message also closes the channel.   *)
(***************************************************************************)
Asked(s, r) == op[r].session = s /\ watcher[r] # "off"

\* The chunks an answer consists of when n of them are followed by a message.
\* NonStream gives them up for another start, and for a response with a body
\* of its own; Stream has passed them on.
Discards(r, type) == type \in {"start", "response"} /\ r \notin Streaming
Body(r, type, n) == (IF Discards(r, type) THEN 0 ELSE n) + IF type = "chunk" THEN 1 ELSE 0

\* A client may send any messages in any order.  The first that is terminal
\* ends the answer; what comes after it is no part of it.
Sent(r, type) ==
  IF sent[r].end # "none" THEN [sent[r] EXCEPT !.count = @ + 1]
  ELSE [count |-> sent[r].count + 1, chunks |-> Body(r, type, sent[r].chunks),
        end |-> IF type \in Terminal THEN type ELSE "none"]

\* Bug: the message is dispatched without a look at the map.
ReadUnchecked(s) ==
  /\ Running(s, "read") /\ s \notin broken
  /\ \E r \in Requests, type \in Types :
       /\ Asked(s, r) /\ sent[r].count < MaxMessages
       /\ sent' = [sent EXCEPT ![r] = Sent(r, type)]
       /\ runner' = [runner EXCEPT ![s] = [at |-> "offer", request |-> r, type |-> type]]
  /\ UNCHANGED <<manager, closing, pending, channel, requests, crashed, lost>>

Read(s) ==
  /\ Running(s, "read") /\ s \notin broken
  /\ \E r \in Requests, type \in Types :
       /\ Asked(s, r) /\ sent[r].count < MaxMessages
       /\ sent' = [sent EXCEPT ![r] = Sent(r, type)]
       /\ \/ \E view \in Views(s) :
               runner' = [runner EXCEPT ![s] =
                 IF r \in view THEN [at |-> "offer", request |-> r, type |-> type]
                               ELSE [IdleRunner EXCEPT !.at = "read"]]
             /\ UNCHANGED crashed
          \/ Torn(s) /\ UNCHANGED runner
  /\ UNCHANGED <<manager, closing, pending, channel, requests, lost>>

Dispatch(s) ==
  /\ Running(s, "offer")
  /\ Offer(runner[s].request, runner[s].type)
  /\ runner' = [runner EXCEPT ![s] =
       IF runner[s].type \in Terminal THEN [@ EXCEPT !.at = "finish"]
                                      ELSE [IdleRunner EXCEPT !.at = "read"]]
  /\ UNCHANGED <<manager, closing, pending, requests, sent>>

\* Bug: a terminal message takes the request out of the map and leaves its
\* channel open.
FinishOpen(s) ==
  /\ Running(s, "finish")
  /\ runner' = [runner EXCEPT ![s] = [IdleRunner EXCEPT !.at = "read"]]
  /\ pending' = [pending EXCEPT ![s] = @ \ {runner[s].request}]
  /\ UNCHANGED <<manager, closing, channel, requests, crashed, sent, lost>>

Finish(s) ==
  /\ Running(s, "finish")
  /\ runner' = [runner EXCEPT ![s] = [IdleRunner EXCEPT !.at = "read"]]
  /\ \/ Forget(s, runner[s].request) /\ UNCHANGED crashed
     \/ Torn(s) /\ UNCHANGED <<pending, channel>>
  /\ UNCHANGED <<manager, closing, requests, sent, lost>>

\* The read fails and so the goroutine ends, once cleanup has returned.
RunEnds(s) ==
  /\ Running(s, "read") /\ Cleaning(s, "done")
  /\ runner' = [runner EXCEPT ![s] = [IdleRunner EXCEPT !.at = "ended"]]
  /\ UNCHANGED <<manager, closing, pending, channel, requests, crashed, sent, lost>>

-----------------------------------------------------------------------------
(***************************************************************************)
(* Requests: Manager.Send and session.request, then NonStream or Stream.   *)
(***************************************************************************)
Ended(r) == op[r].at \in {"ok", "failed", "canceled", "refused"}
Step(r, at) == op' = [op EXCEPT ![r].at = at]

\* Manager.session.
Send(r) ==
  /\ Asking(r, "new")
  /\ \E p \in Providers :
       op' = [op EXCEPT ![r] =
         [@ EXCEPT !.session = sessions[p],
                   !.at = IF sessions[p] = None THEN "refused" ELSE "store"]]
  /\ UNCHANGED <<manager, closing, runner, pending, channel, watcher, canceled, crashed,
                 sent, lost>>

\* LoadOrStore: identifiers are fresh.  A request that meets the replacement
\* of the map may panic, as may the next step: the server recovers a
\* handler's panic, and the request fails.
StoreRequest(r) ==
  /\ Asking(r, "store")
  /\ LET s == op[r].session
     IN  \/ /\ pending' = [pending EXCEPT ![s] = @ \cup {r}]
            /\ Step(r, "load")
         \/ /\ Clearing(s)
            /\ Step(r, "failed")
            /\ UNCHANGED pending
  /\ UNCHANGED <<manager, closing, runner, channel, watcher, canceled, crashed, sent, lost>>

\* Load, and the type assertion that fails on a nil value.
LoadRequest(r) ==
  /\ Asking(r, "load")
  /\ \/ \E view \in Views(op[r].session) : Step(r, IF r \in view THEN "check" ELSE "failed")
     \/ Clearing(op[r].session) /\ Step(r, "failed")
  /\ UNCHANGED <<manager, closing, runner, pending, channel, watcher, canceled, crashed,
                 sent, lost>>

CheckClosed(r) ==
  /\ Asking(r, "check")
  /\ Step(r, IF op[r].session \in closed THEN "undo" ELSE "write")
  /\ UNCHANGED <<manager, closing, runner, pending, channel, watcher, canceled, crashed,
                 sent, lost>>

\* The goroutine that waits for the context starts when the message is out.
Write(r) ==
  /\ Asking(r, "write")
  /\ \/ /\ op[r].session \notin broken
        /\ Step(r, "wait")
        /\ watcher' = [watcher EXCEPT ![r] = "on"]
     \/ /\ Step(r, "undo")
        /\ UNCHANGED watcher
  /\ UNCHANGED <<manager, closing, runner, pending, channel, canceled, crashed, sent, lost>>

Undo(r) ==
  /\ Asking(r, "undo")
  /\ \/ Forget(op[r].session, r)
     \/ Clearing(op[r].session) /\ UNCHANGED <<pending, channel>>
  /\ Step(r, "failed")
  /\ UNCHANGED <<manager, closing, runner, watcher, canceled, crashed, sent, lost>>

Cancel(r) ==
  /\ ~crashed /\ r \notin canceled
  /\ op[r].at \in {"store", "load", "check", "write", "wait"}
  /\ canceled' = canceled \cup {r}
  /\ UNCHANGED <<manager, closing, runner, pending, channel, op, watcher, crashed, sent, lost>>

\* The caller's context ends with its call.
Done(r) == r \in canceled \/ Ended(r)

WatchContext(r) ==
  /\ Watching(r) /\ Done(r)
  /\ watcher' = [watcher EXCEPT ![r] = "ended"]
  /\ LET s == op[r].session
     IN  \/ Forget(s, r) /\ UNCHANGED crashed
         \/ Torn(s) /\ UNCHANGED <<pending, channel>>
  /\ UNCHANGED <<manager, closing, runner, op, canceled, sent, lost>>

WatchClosed(r) ==
  /\ Watching(r) /\ op[r].session \in closed
  /\ watcher' = [watcher EXCEPT ![r] = "ended"]
  /\ UNCHANGED <<manager, closing, runner, pending, channel, op, canceled, crashed, sent, lost>>

GiveUp(r) ==
  /\ Asking(r, "wait") /\ r \in canceled
  /\ Step(r, "canceled")
  /\ UNCHANGED <<manager, closing, runner, pending, channel, watcher, canceled, crashed,
                 sent, lost>>

\* What a message makes of a request.
Taken(r, type) ==
  LET chunks == Body(r, type, op[r].chunks)
  IN  CASE type \in {"start", "chunk"} -> [op[r] EXCEPT !.streamed = TRUE, !.chunks = chunks]
        [] type = "error" -> [op[r] EXCEPT !.at = "failed", !.end = type]
        [] type \in {"response", "bare", "end"} ->
             [op[r] EXCEPT !.at = "ok", !.end = type, !.chunks = chunks]

Receive(r) ==
  /\ Asking(r, "wait") /\ channel[r].messages # <<>>
  /\ op' = [op EXCEPT ![r] = Taken(r, Head(channel[r].messages))]
  /\ channel' = [channel EXCEPT ![r].messages = Tail(@)]
  /\ UNCHANGED <<manager, closing, runner, pending, watcher, canceled, crashed, sent, lost>>

\* The channel is closed: NonStream answers with what it has of a stream.
ReceiveClosed(r) ==
  /\ Asking(r, "wait") /\ channel[r].messages = <<>> /\ channel[r].closed
  /\ Step(r, IF op[r].streamed /\ r \notin Streaming THEN "ok" ELSE "failed")
  /\ UNCHANGED <<manager, closing, runner, pending, channel, watcher, canceled, crashed,
                 sent, lost>>

-----------------------------------------------------------------------------
HandlerStep(s) == Connect(s) \/ StoreSession(s) \/ Replaced(s) \/ Connected(s)

CleanupStep(s) ==
  \/ CleanStopped(s) \/ CleanReplaced(s)
  \/ Visit(s) \/ Notify(s) \/ CloseVisited(s) \/ EndRange(s) \/ Clear(s)
  \/ CloseConnection(s) \/ RemoveSession(s) \/ Disconnected(s)

DispatchStep(s) == Dispatch(s) \/ Finish(s) \/ RunEnds(s)

RequestStep(r) ==
  \/ StoreRequest(r) \/ LoadRequest(r) \/ CheckClosed(r) \/ Write(r) \/ Undo(r)
  \/ GiveUp(r) \/ Receive(r) \/ ReceiveClosed(r)

WatchStep(r) == WatchContext(r) \/ WatchClosed(r)

Next ==
  \/ Stop
  \/ \E s \in Sessions :
       HandlerStep(s) \/ ConnectionFails(s) \/ CleanupStep(s) \/ Read(s) \/ DispatchStep(s)
  \/ \E r \in Requests : Send(r) \/ RequestStep(r) \/ Cancel(r) \/ WatchStep(r)

\* Goroutines that can run do.  Nobody has to connect, send a message, stop
\* the manager, cancel a request or break a connection.
Fairness ==
  /\ \A s \in Sessions :
       WF_vars(CleanupStep(s)) /\ WF_vars(DispatchStep(s))
  /\ \A r \in Requests : WF_vars(RequestStep(r))

Spec == Init /\ [][Next]_vars /\ Fairness
-----------------------------------------------------------------------------
(***************************************************************************)
(* Properties.                                                             *)
(***************************************************************************)
TypeOK ==
  /\ sessions \in [Providers -> Sessions \cup {None}]
  /\ handler \in [Sessions -> {"new", "store", "replace", "connected", "done"}]
  /\ replaced \in [Sessions -> Sessions \cup {None}]
  /\ stopping \in Seq(SUBSET Sessions)
  /\ closed \subseteq Sessions /\ broken \subseteq closed
  /\ cleaner \in [Sessions ->
       [at : {"none", "range", "notify", "close", "clear", "disconnect", "remove", "report", "done"},
        request : Requests \cup {None}, stored : SUBSET Requests, visited : SUBSET Requests]]
  /\ runner \in [Sessions -> [at : {"off", "read", "offer", "finish", "ended"},
                             request : Requests \cup {None}, type : Types]]
  /\ pending \in [Sessions -> SUBSET Requests]
  /\ channel \in [Requests -> [messages : Seq(Types), closed : BOOLEAN]]
  /\ op \in [Requests ->
       [at : {"new", "store", "load", "check", "write", "undo", "wait",
              "ok", "failed", "canceled", "refused"},
        session : Sessions \cup {None}, streamed : BOOLEAN, chunks : Nat,
        end : Terminal \cup {"none"}]]
  /\ watcher \in [Requests -> {"off", "on", "ended"}]
  /\ callback \in [Providers -> {"none", "connected", "disconnected"}]
  /\ crashed \in BOOLEAN
  /\ {canceled, lost} \subseteq SUBSET Requests /\ crossed \subseteq Providers
  /\ sent \in [Requests -> [count : Nat, chunks : Nat, end : Terminal \cup {"none"}]]

\* A channel that is closed cannot be found any more, but by the request
\* whose cleanup is still going through the map: a client that repeats a
\* terminal message, or sends more after it, meets an unknown request.
ClosedIsGone ==
  \A s \in Sessions : \A r \in pending[s] :
    channel[r].closed => cleaner[s].at \in {"range", "notify", "close", "clear"}

\* A client cannot bring the process down by what it sends.  It takes the
\* cleanup of a session, at the moment it tells a request that is over
\* already or replaces a map that is in use; or a message in dispatch whose
\* own request was canceled, or whose own session began to close, after it
\* had been looked up.
CleanupRaces(s) ==
  \/ cleaner[s].at = "notify" /\ channel[cleaner[s].request].closed
  \/ Clearing(s) /\ (runner[s].at \in {"read", "finish"}
                      \/ \E r \in Requests : op[r].session = s /\ watcher[r] = "on" /\ Done(r))
DispatchRaces(s) ==
  /\ runner[s].at = "offer" /\ channel[runner[s].request].closed
  /\ s \in closed \/ runner[s].request \in canceled

CrashTakesARace ==
  [][~crashed /\ crashed' => \E s \in Sessions : CleanupRaces(s) \/ DispatchRaces(s)]_vars

\* A request that succeeds was ended by the message with which the client
\* ended its answer, and has each chunk the answer consists of, unless its
\* channel was full or its caller had gone: a session that closes in the
\* middle fails the request.
Complete ==
  \A r \in Requests : op[r].at = "ok" /\ r \notin lost \cup canceled =>
    op[r].end # "none" /\ op[r].end = sent[r].end /\ op[r].chunks = sent[r].chunks

\* When no session is coming or going, a provider has a credential (the one
\* its last callback added or took away) exactly while it has a session: but
\* for one that was closed before it was announced, or that took a name whose
\* last session was still to be reported.
Settled ==
  /\ \A s \in Sessions : handler[s] \in {"new", "done"} /\ cleaner[s].at \in {"none", "done"}
  /\ \A i \in DOMAIN stopping : stopping[i] \subseteq closed

CredentialFollowsSession ==
  Settled => \A p \in Providers \ crossed :
    callback[p] = "connected" <=> \E s \in Sessions : sessions[p] = s

\* Every request whose answer has ended, or whose session closes, is stopped
\* or replaced, comes to an end without its caller having to give it up.
Leaves(s) == s \in closed \/ Stopped(s) \/ IsReplaced(s)

RequestEnds ==
  \A r \in Requests :
    ((op[r].session # None /\ Leaves(op[r].session)) \/ sent[r].end # "none")
      ~> (Ended(r) \/ crashed)
=============================================================================
