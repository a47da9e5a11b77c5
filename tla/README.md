# Verification of the credential pool of CLIProxyAPI

CLIProxyAPI is a proxy in front of LLM providers. Clients speak to it in the
format of any provider; it holds a pool of credentials (OAuth tokens and API
keys), picks one that can serve the requested model, translates the request,
calls the provider, records the outcome, and keeps the tokens fresh. The state
that decides which credential serves a request, and whether a credential is
usable at all, is shared by request goroutines, the file watcher, the
model-catalog updater, the token refresher and the usage pipeline, under
several mutexes that are never held together for a whole operation. That state
is what these modules are about.

Paths below are relative to the repository. `auth/` stands for
`sdk/cliproxy/auth/`.

## 1. Inventory

| Component | State | Operations | Talks to |
|---|---|---|---|
| Credential manager, `auth/conductor.go`, `types.go` | `auths`: id to credential, with per-model states, aggregate status, quota, 401, refresh times, result counts | Register, Update, pickNext, MarkResult, ReconcileRegistryModelStates, RefreshSchedulerEntry, refreshAuth, Execute and its retries | scheduler and registry (calls after its unlock), refresh loop (reschedule), store (persist), executors |
| Scheduler, `auth/scheduler.go` | entries, per-provider model shards with ready/blocked/cooldown indexes, rotation cursors | rebuild, upsertAuth, removeAuth, pickSingle, pickMixed | registry (reads the models of a credential) |
| Selectors and affinity, `auth/selector.go`, `session_cache.go` | rotation cursors, session-to-credential cache with expiry | Pick, isAuthBlockedForModel, cache get/set/invalidate | manager |
| Auto-refresh loop, `auth/auto_refresh_loop.go` | min-heap of due times, dirty set, wake channel, jobs channel, workers | queueReschedule, loop, handleDue, applyDirty, worker | manager (shouldRefresh, markRefreshPending, refreshAuth) |
| Service, `sdk/cliproxy/service.go` | credential-update channel, forwarder and subscriber goroutines | applyCoreAuthAddOrUpdate, applyCoreAuthRemoval, model-catalog callback, registerModelsForAuth, usage forwarder, Shutdown | everything |
| Model registry, `internal/registry/model_registry.go` | per-model counters by client and provider, quota and suspension marks, cached listings | RegisterClient, UnregisterClient, four marks, cleanup, GetAvailableModels | service, manager, API handlers |
| Usage manager, `sdk/cliproxy/usage/manager.go` | queue of records, condition variable, plugin list | Publish, Register, Start, Stop, run | executors publish; plugins are called |
| Usage queue, `internal/redisqueue` | slice of payloads with a head index, enabled flag, subscribers with buffered channels | Enqueue, PopOldest, SetEnabled, SubscribeUsage, unsubscribe | a plugin of the usage manager; RESP front, management API and home forwarder read it |
| RESP front, `internal/api/redis_queue_protocol.go` | one connection's state | LPOP/RPOP, SUBSCRIBE | usage queue |
| Watcher, `internal/watcher` | last credentials seen, file hashes, pending updates by id, timers | fsnotify events, refreshAuthState, dispatch | service (update channel) |
| Websocket relay, `internal/wsrelay` | sessions, pending requests with a buffered channel each | connect, disconnect, request, dispatch, cleanup | service (callbacks), AI Studio executor |
| Home client, `internal/home` | connection to a control plane, cached configuration | subscribe, fetch, push usage | service |
| API server, management API, Amp module | routes, OAuth sessions | HTTP handlers, CRUD over files | manager, configuration |
| Executors, translators, thinking, signature caches | HTTP clients, two caches | conversion and calls | providers |
| OAuth logins, stores, configuration, logging, CLI, TUI, web UI | files, tokens, log buffers | sequential or I/O | |

What is hard here:

* **Publishing after the unlock.** The manager changes a credential under its
  lock, clones it, unlocks, and only then tells the scheduler and the registry.
  Two results of one credential can be published in the opposite order.
* **Shared and cloned objects.** Register and Update hand the scheduler the very
  object the manager stores; every other path hands it a clone.
* **Values that outlive a call.** refreshAuth stores a clone that was taken
  before a call to the provider; ReconcileRegistryModelStates uses models read
  before its lock; the catalog callback works through a list.
* **Two tests that must agree.** When the refresh loop looks at a credential and
  whether it then refreshes it are two functions with the same arithmetic, and
  only one of them knows API keys.
* **Wake-ups.** A condition variable signalled after the unlock, a wake channel
  of one slot, a bounded jobs channel the loop itself blocks on.
* **Counters kept by increments**, over multisets and providers that change.
* **Retries inside retries.** A stream's handler restarts what goes through
  rounds, each of which goes through credentials, and concurrent requests change
  the cooldowns the rounds wait for.
* **Cursors kept by position** in lists that shrink and grow with every cooldown.
* **A channel closed by three goroutines** of the relay while a fourth sends to it.
* **Files that change while they are read.** A reload reads the configuration
  three times and the credential files once, without a lock, while another
  goroutine handles the events of the same files.

`PROJECT.json` lists each hazard at its line with the properties that cover it.

### What makes each component correct

* Manager: no result is uncounted, the aggregate never withholds more than its
  models do, backoff stays bounded.
* Scheduler: once it has been told, it offers what the manager would.
* Registry: counters exact, listing right and its cache never stale.
* Refresh loop: the two tests agree on all but API keys, no credential is
  forgotten, a due one is refreshed, no refresh is repeated without end.
* Usage manager: what it accepts it delivers, once and in order, also across a
  stop, and the dispatcher ends.
* Usage queue: a first-in first-out queue; a payload leaves once, but for pushes
  whose fate the forwarder cannot know; no channel is closed twice or sent to
  after its close; a disabled queue holds next to nothing.
* Watcher: once things are quiet, it knows what the files say, the service has
  what it knows, and it comes to rest.
* Relay: each request gets its whole answer or an error and comes to an end; no
  channel that is closed can be found; a provider has a credential exactly while
  it has a session.
* Dispatch: a request ends after a bounded number of calls, each recorded once; a
  client never gets two streams spliced; credentials and providers have their
  turn; a wait for a cooldown pays off.

## 2. Modules

| Module | Models | Runs | Proofs |
|---|---|---|---|
| `AuthState` | the pure part of a credential: what blocks a model, what a result does to it, the aggregate, the quota backoff | through `AuthManager` | in `AuthManagerProofs` |
| `AuthManager` | manager, scheduler entries, registry bindings and the service code that changes them, as interleaved critical sections | `manager`, `manager_stale` | `AuthManagerProofs` |
| `ModelRegistry` | the registry in detail: counters, marks, cached listing | `registry`, `registry_listed` | `ModelRegistryProofs` |
| `RefreshLoop` | the auto-refresh loop, its workers, updates and the results that set or clear a 401 | `refresh`, `refresh_forgotten` | `RefreshLoopProofs` |
| `UsageDelivery` | abstract: accepted records are delivered in order, also after a stop | through `UsageManager` | in `UsageManagerProofs` |
| `UsageManager` | publishers, dispatcher, plugins, stop; implements `UsageDelivery` | `usage_manager` | `UsageManagerProofs` |
| `FifoQueue` | abstract: a queue whose front may be dropped | through `UsageQueue` | in `UsageQueueProofs` |
| `UsageQueue` | the slice and head, the enabled flag, subscribers, the home forwarder; implements `FifoQueue` | `queue` | `UsageQueueProofs` |
| `Watcher` | file events, debouncing, the start-up scan, configuration reloads, connections, the pending updates and the dispatcher, the service's consumer | `watcher`, `watcher_config` | `WatcherProofs` |
| `WsRelay` | the websocket relay: sessions, replacement, stop, cleanup, dispatch, requests with their contexts | `relay` | `WsRelayProofs` |
| `Rotation` | the scheduler's indexes and how they choose: priorities, cursors, parents, providers | through `Dispatch` | in `DispatchProofs` |
| `Dispatch` | requests over many credentials: rounds, waits, streams, the handler's restarts | `dispatch` | `DispatchProofs` |

`MC*` modules give the constants values for TLC. `AuthManager` and
`ModelRegistry` both contain the registry: the first only what the manager and
the scheduler read of it (bindings and marks as sets), the second its counters
and its cache. `AuthManager` and `Dispatch` both contain a pick and the record
of a result: the first takes them apart into critical sections and leaves free
which ready credential is taken, the second takes each as one step over several
credentials and chooses as the scheduler does.

### AuthManager: state and code

| Variable | Code |
|---|---|
| `auths` | `Manager.auths`, the credentials as `AuthState!Auth` records |
| `sched`, `shards` | the scheduler's `scheduledAuthMeta` with the model set read when it was built, and per model the block deadline of its shard entry; which models have a shard. `shared` says that the entry is the manager's own object |
| `supported`, `suspended`, `exceeded` | the registry's `clientModels`, `SuspendedClients`, `QuotaExceededClients` |
| `catalog`, `rebind` | the catalog the updater installed, and the ids its callback has still to visit |
| `op` | per goroutine: the steps left and the values it carries between them |
| `marked`, `shown`, and in `op` `contested` | history, read only by properties: results recorded, versions published, and credentials published by others since a request's rebuild |

Each goroutine runs a program, a sequence of critical sections: a request is
`pick` (and, when nothing is ready, `snapshot`, `rebuild`, `repick`), `mark`,
`upsert`, and the registry calls of the outcome; an update is `merge`, `store`,
`upsert`, `register`, `readModels`, `reconcile`, `readEntry`, `upsert`; and so on.
One step is one critical section; whatever the code does after an unlock is the
next step and can be interleaved. Which ready credential a pick takes is left
free. Bugs that the properties are checked against (operators that end in
`Unpublished`, `WithoutRebuild` and the like, under a comment `Bug:`) stand
before the operator they replace and are used by no specification.

### RefreshLoop: state and code

The heap is a function from credentials to due times (`queue`), `dirty` and
`wake` are the loop's dirty set and one-slot channel, `jobs` is the bounded
channel, `loop` is the program counter of the loop's goroutine with its local
variables and `op` that of each worker and updater. Each critical section of the
manager's or the loop's mutex and each channel operation is one step.

An update may store an API key (`apiKey`: `AccountInfo` finds an `api_key`
attribute and no e-mail address). `nextRefreshCheckAt` never schedules one
(`auto_refresh_loop.go:346-349`), whereas `shouldRefresh`
(`conductor.go:3980-4036`) does not ask and says yes when its other conditions
hold. The two differ there, without harm: only what is scheduled is ever
refreshed. `shouldRefresh` takes two times, since `time.Until` reads the clock
once more than its caller.

### UsageManager and UsageQueue: state and code

The dispatcher's check, wait and wake-up are separate steps, and so are a
publisher's append and its signal, since the code releases the mutex in between.
In the queue, the flag, the subscribers, the clock and the append are separate
steps for the same reason, and a channel is closed after its subscription left
the map. Only the number of buffered messages and of closes is kept of a channel.

A push to home may fail after home has stored the payload, when the connection
breaks or the read times out (`home/client.go:187`, `632-640`). The forwarder puts
it back and sends it again (`service.go:689-697`). `PushFailed` therefore chooses
whether home has it (`HomeStored`), `MaxUnconfirmed` times at most for a payload;
`answered` counts for each payload how often it left and how many of these pushes
were stored and failed.

### Watcher: state and code

| Variable | Code |
|---|---|
| `disk`, `configFile`, `events` | the files and the fsnotify events of their changes: the environment |
| `config`, `lastConfigHash`, `lastAuthHashes`, `lastRemoveTimes`, `currentAuths`, `runtimeAuths` | the fields of `Watcher`; a hash is the content it was taken from; `fileAuthsByPath` is what the last content yields (`Given`) |
| `timer` | `configReloadTimer` |
| `pendingUpdates`, `dispatcher` | the updates by id, and what `dispatchLoop` is doing with the batch it took; `pendingOrder` only orders updates of different credentials and is not kept |
| `authUpdates`, `applied` | the service's channel and the credentials it has after `handleAuthUpdate` |
| `op` | what the event goroutine, each reload, the start-up scan and each connection is doing, with what it read or computed on the way |
| `missed`, `stale`, `loose` | history, read only by properties |

The steps of an event are the wait of `replaceCheckDelay`, the comparison of the
hash, the second reading, the critical section and the hand-over to the
dispatcher; those of a reload are the hash, the load, the exchange of the
configuration, the filter of affected providers, the snapshot, the comparison
under the lock, the hand-over and the last reading of the file. A reload runs on
the goroutine of the timer that started it, so two may run at once.

### WsRelay: state and code

| Variable | Code |
|---|---|
| `sessions`, `handler`, `replaced`, `stopping` | `Manager.sessions`, the progress of each `handleWebsocket` and each `Stop` |
| `closed`, `broken`, `cleaner` | of a session: its `closed` channel, its connection, and how far `cleanup` has come |
| `pending`, `channel` | the map of pending requests; the messages buffered for each and whether its channel is closed |
| `runner` | `session.run` and the message it is dispatching |
| `op`, `watcher`, `canceled` | the caller of `NonStream` or `Stream`, the goroutine that waits for its context, the context |
| `callback`, `crashed` | the service's last callback for each provider; a panic outside an HTTP handler |
| `sent`, `lost`, `crossed` | what the client sent; history, read only by properties |

`cleanup` ends with `s.pending = sync.Map{}`, an assignment to a map other
goroutines are using. What overlaps it finds the old map or an empty one, or
panics: the three outcomes are a free choice (`Views`, `Torn`). The client sends
messages of any type in any order. For `NonStream` a start resets the body
collected so far (`http.go:80-87`) and a response that has a body of its own
replaces it (`http.go:71-76`), whereas one without (`bare`) keeps it; `Body` says
what remains of the chunks. A panic in a
goroutine of the relay ends the process; one in a request's handler is recovered.
A provider's name is random in production, so two sessions have one name only
with the `ProviderFactory` option; the model has them share it, since replacement
is code of its own.

### Rotation and Dispatch: state and code

`Rotation` has no variables: a choice, and a rebuild of the indexes, is one
operator, as both run under the scheduler's mutex. In `Dispatch`:

| Variable | Code |
|---|---|
| `left` | the cooldown of each credential, counted down by `Tick` |
| `ready`, `views`, `slots` | the indexes of the shards, the cursors of each bucket, and the cursor between providers for each sequence of them |
| `op` | where a request is, what it has tried in this round, its attempts, the error it holds, the handler's restarts, whether the client has got a payload |
| `fleet` | the scenario: the credentials, requests and failures at play, and the settings |
| `passed`, `skipped`, and in `op` `promised`, `tries`, `unrecorded`, `cut` | history, read only by properties |

A stream whose chunks are all empty and that closes counts as a success like any
other (`conductor.go:937-954`): it goes through `ending`. A handler may stop
reading before the stream ends (`Leaving`). That of the `openai-response` format
answers 502 to a chunk it cannot parse (`handlers.go:844-849`); those that collect
an image stop at `response.completed` (`openai_images_handlers.go`). Each then
cancels the request's context. The wrapper of such a stream (`left`) may read it
to its end or its error and record that, or find nobody reading and the context
canceled, and record nothing (`conductor.go:841-858`): the call is `cut`.

The turns are counted within one bucket. Cursors are positions and are kept by
position when the indexes are rebuilt, so a bucket that shrinks or grows may let a
credential lose its turn; a pick that finds nothing has the scheduler rebuilt with
every cursor at zero; and one cursor between providers serves all priorities. So
`passed` and `skipped` start anew when the bucket changes, and when a request
that has tried a credential passes over it: between such changes turns are kept.

## 3. What the runs check

| Run | Property | What could be wrong |
|---|---|---|
| `manager` | `SchedulerFollowsManager` | two results published in the opposite order, a rebuild from an old snapshot, an object shared with the manager, an expired block that is not promoted |
| | `RefusalJustified` | a request refused although the manager's map had a usable credential when it was read for the retry, and nobody has published that credential since or is about to |
| | `ResultsCounted` | an update or a token refresh that stores a clone taken before a result |
| | `AggregateSound` | a credential withheld as a whole while one of its models is free |
| | `BackoffBounded` | a backoff level that grows past its maximum and overflows the shift |
| | `SchedulerKnowsModels` | a scheduler entry built before the models were registered and not refreshed |
| | `TypeOK` | |
| `manager_stale` (violated) | `NoStaleRegistration` | see the findings |
| `registry` | `CountsExact` | increments and decrements over repeated models, provider changes, removals |
| | `CacheFresh` | an operation that forgets to drop the cached listing, or a listing that outlives a mark |
| | `TypeOK` | a negative counter |
| `registry_listed` (violated) | `AvailableListed` | see the findings |
| `usage_manager` | `ImplementsDelivery` | a lost wake-up, a record lost or repeated, one accepted after the stop |
| | `PluginSeesEach` | a plugin registered in the middle of a dispatch, records out of order |
| | `StopEndsDispatcher` | a dispatcher that sleeps through the stop |
| `queue` | `ImplementsFifo` | an index off by one in pruning, popping or compaction; late clocks |
| | `RepeatedOnlyUnconfirmed` | a payload put back and delivered again although home did not have it, or popped by two |
| | `ChannelsSafe` | a channel closed twice or found in the map after its close: a panic |
| | `OffHoldsLittle` | payloads that gather in a disabled queue |
| `refresh` | `TestsAgree` | a credential that is due but not scheduled, or scheduled but never due; an API key that is scheduled now |
| | `NotForgotten` | a credential lost between heap, dirty set, loop, channel and worker |
| | `DueIsRefreshed` | a wake-up lost, a timer not started again, a loop blocked on a full jobs channel |
| | `NoTightLoop` | a refresh that leaves the token due repeated without end |
| `refresh_forgotten` (violated) | `FreshnessEvaluated` | see the findings |
| `watcher` | `FollowsFiles` | a write, truncation or replacement taken for another, or skipped as unchanged |
| | `FollowsSources` | a credential kept, dropped or outdated after any interleaving of events and reloads |
| | `ServiceFollows` | an update lost, overtaken, or merged into an older one on its way to the service |
| | `Settles` | a lost wake-up of the dispatcher, goroutines that wait for each other |
| | `TypeOK` | a truncated file taken for a read one, a channel over its capacity |
| `watcher_config` (violated) | `ConfigFollowed` | see the findings |
| `relay` | `ClosedIsGone` | a message after a terminal one, or a late one, sent to a closed channel: a panic |
| | `CrashTakesARace` | a client that ends the process by what it sends |
| | `Complete` | an answer cut short by a closing session and taken for whole; chunks kept or lost by a later start or response |
| | `CredentialFollowsSession` | a replaced session that removes its successor, callbacks that leave a credential without a session |
| | `RequestEnds` | a request stored while the session closes, or whose channel is never closed |
| | `TypeOK` | a connection closed before its session |
| `dispatch` | `CallsBounded` | retries of rounds, credentials and the handler that multiply without end |
| | `RecordedOnce` | a stream recorded as failed and then as successful, or never although neither its client nor its handler left |
| | `OneStream` | a stream started again after its first payload |
| | `CredentialsTakeTurns`, `ProvidersTakeTurns` | a credential, parent or provider that is passed over for ever |
| | `WaitPaysOff` | a request that waits for another provider's cooldown, or wakes up too early |
| | `EachRequestEnds` | a request that picks and waits without end while others fail its credentials |
| | `TypeOK` | a cursor outside its bucket after a rebuild |

The three safety properties of `watcher` except credentials in a situation the
code does not resolve, each recorded by a history variable at the step where it
arises and cleared by the step that resolves it:

* `missed`: a file is removed, written and removed again within a second. The
  second removal is debounced, and its credential stays until the file changes.
* `stale`: a reload compares a snapshot that an event handled meanwhile, or a
  truncation under way, has made outdated. The map then differs from the hashes,
  and a later event for the same content is skipped as unchanged.
* `loose`: two goroutines hold updates of one credential at once and may queue
  them in the opposite order; or a reload drops a provider's credentials from the
  map to have them added again, and the new configuration lacks one of them, whose
  deletion is then never sent.

The properties of `relay` except what the code really allows:

* `CrashTakesARace`, an action property, names the two races at the very step that
  panics. In one, `dispatch` has a message of a request whose channel is closed, and
  that request was canceled or that session began to close after the look-up. In
  the other, a cleanup sends to a request that is over already, or replaces the map
  while the session's reader or a request of it that is over uses it. A message
  whose request ended well, or another request's cancellation, does not excuse it.
* `Complete`: a full channel drops the message, the last one included (`lost`).
* `CredentialFollowsSession`: a session that is closed before `onConnected` is
  reported disconnected first and connected last, and its credential stays; so may
  the callbacks cross of a session that takes a name whose last one is still to be
  reported (`crossed`).

### Findings

* **A removal racing a catalog refresh leaves the credential registered**
  (`manager_stale`). `refreshModelRegistrationForAuth` reads the credential a
  second time "so concurrent auth updates cannot leave stale model registrations
  behind" (`service.go:1281-1283`). The second reading and the registration are
  not one critical section: a removal between them unregisters and disables the
  credential, and its models are registered again.
* **A model with an available client can be missing from the listing**
  (`registry_listed`). The listing subtracts marks from the number of clients.
  A mark may belong to a client that does not serve the model (a result that
  arrives after the client was re-registered), and a client may have two marks;
  both hide a client that is available. `GetModelCount` subtracts in the same way.
* **A 401 cleared by a request is not rescheduled** (`refresh_forgotten`). The
  loop drops a credential with a 401; a request's success clears the 401
  (`conductor.go:2322-2326`) and does not tell the loop. `NotForgotten` states
  what does hold, with exactly this case (`healed`) excepted.
* **An edit during a reload is not loaded** (`watcher_config`). "It detects
  material changes and reloads clients when the config changes"
  (`config_reload.go:2`). After a reload `reloadConfigIfChanged` records the hash
  of the file as it is then, not of what it loaded. An edit saved in between is
  taken for loaded when its own timer fires, and waits for the next change.

Met while modelling, and no run of its own: the two freshness tests of the refresh
loop differ on API keys (see its state above); a usage record that home stored but
did not confirm is sent to it twice, and nothing in it tells home so; a call whose
handler leaves the stream may never be recorded; `config.example.yaml:88` calls
`max-retry-credentials` the "Maximum number of different credentials to try for
one failed request", but each round starts with an empty set of tried ones;
`config.example.yaml:85` lists the statuses that are retried, but any failure is
once a cooldown is found; and a bootstrap error hides the `Retry-After` of its
cause, since `retryAfterFromError` looks at the outer error only.

### Bounds

* `manager`: three scenarios of one run. In two, a credential with one model, two
  requests and the consumer: four programs and one instant after the start, or
  three programs and two instants. Two
  requests are enough for an older clone to overtake a newer one; four programs
  let one of them hit a scheduler that the other two disordered. In the third, a
  credential with two models, one goroutine of each kind, three programs, two
  instants: every pair of operations of different goroutines on a registered
  credential, in every interleaving, and a cooldown that ends. Requests are
  symmetric. The backoff has two levels, the cooldowns 1, 2 and 3 keep the order of
  the code's. `manager_stale` has the goroutines its race needs.
* `registry`: three clients, one model, two providers, a model listed up to twice,
  one reader, three instants with a quota window of two. Counters are kept per
  model and models do not interact but through the cache's expiry, which is a
  minimum over all marks: three clients give it several. Clients, providers and
  models are symmetric.
* `usage_manager`: two publishers, three records, a late plugin.
* `queue`: three payloads, batches of two, compaction at a head of two, in two
  scenarios. One has a reader that asks for one or two payloads, the forwarder, and
  a retention of one over three instants, so that payloads expire; the other two
  switches that run twice in all and a subscriber with a buffer of two. Three
  payloads are one more than `OffHoldsLittle` allows a disabled queue to hold. In
  a behaviour home stores one payload at most, once, in a push that fails: the
  payload then behaves like any other that is put back.
* `refresh`: a jobs channel of one slot and one worker. A constraint keeps a
  behaviour to one credential over two instants with at most one update and with
  changes of its 401, or to two credentials, one refreshed at an interval and one
  ahead of its expiry, within one instant, so that the channel fills; the first of
  them expires after that time. An update chooses whether it stores an API key.
  `refresh_forgotten`: one credential over three instants, with a 401 and its end.
* `watcher`: one file with two contents, the second of which yields a second
  credential, a key, a connection, three configurations and one that does not
  load, a channel of one slot, two reloads at once. A behaviour has the changes of
  one plan: three of the file (write, truncate, write; remove, write, remove), one
  of the file with one of the configuration, a connection with either, two of the
  configuration, or two of the file during the start-up scan. Files and keys meet
  only in a reload, which treats each on its own. `watcher_config`: two edits and
  one reload at a time.
* `relay`: two sessions of one name, a plain and a streaming request, a channel of
  one message, so that it fills, three messages of any type and one `Stop`. A
  constraint keeps a behaviour to one session, in which a request has three
  messages, or two if its caller may leave, or two requests have them that nobody
  cancels; or to a `Stop` with a request or a replacement: messages and requests
  meet only within a session, and a session meets another only by its name.
* `dispatch`: six fleets, each the smallest in which one thing happens: three
  credentials of two parents with `max-retry-credentials` two; two providers with
  two and one credentials; two priorities under fill-first; a stream that meets
  every kind of failure over two priorities; two requests that compete for two
  providers, and for one bucket. Two credentials may be retried once, two
  have cooling disabled, cooldowns last one or two ticks and a request waits for
  one at most, so some waits are allowed and some refused. Handlers restart at most
  once. The handler of the stream may leave it. Requests repeat without bound.

`CHECK_DEADLOCK FALSE` appears where the bounds end the system, or where the
dispatcher exits after a stop.

### Fairness

Only goroutines that can run are assumed to run, and calls to providers to
return: the refresh loop, each worker and each updater that has begun
(`RefreshLoop`), the dispatcher, a publisher and a stop that have begun
(`UsageManager`), the event goroutine, the timer, reloads, the dispatcher and the
consumer (`Watcher`), cleanup, dispatch and requests (`WsRelay`), requests
and the clock (`Dispatch`): there, providers answer and end their streams,
clients read what they are sent, and the timers of waits fire. The fairness of a
request in `Dispatch` is weak fairness of its steps, written out with their
condition (`Able`), which TLC evaluates faster than ENABLED of a choice. Go's scheduler is preemptive and starves no runnable goroutine,
and provider calls carry timeouts. Elsewhere there is no fairness for the clock, nor anywhere for
clients that ask, connect or cancel, for updates, for registrations or for a stop: nothing obliges them to
happen. The safety runs assume none.

## 4. What is proved

Each theorem holds for every value of the constants that satisfies the named
assumptions of the module (`...Assumption`): any number of goroutines,
credentials, models, files, sessions and payloads, any durations and capacities.
TLC evaluates the assumptions in every run. A run shows the property on a small
instance.

| Module | Theorems |
|---|---|
| `AuthManagerProofs` | `TypeOK`, `BackoffBounded`, `ResultsCounted`, `AggregateSound`, `SchedulerKnowsModels`, `SchedulerFollowsManager`, `RefusalJustified` |
| `ModelRegistryProofs` | `TypeOK`, `CountsExact`, `CacheFresh` |
| `RefreshLoopProofs` | `TestsAgree`, `NotForgotten` |
| `UsageManagerProofs` | `PluginSeesEach`, and the safety part of `ImplementsDelivery` |
| `UsageQueueProofs` | `ImplementsFifo`, `RepeatedOnlyUnconfirmed`, `ChannelsSafe`, `OffHoldsLittle` |
| `WatcherProofs` | `TypeOK`, `FollowsFiles`, `FollowsSources`, `ServiceFollows` |
| `WsRelayProofs` | `TypeOK`, `ClosedIsGone`, `CrashTakesARace`, `CredentialFollowsSession`, `Complete` |
| `DispatchProofs` | `TypeOK`, `CallsBounded`, `RecordedOnce`, `OneStream`, `WaitPaysOff`, `CredentialsTakeTurns`, `ProvidersTakeTurns`, and that a pick is sound |

### RefreshLoopProofs

The arithmetic is in `TestsAgreeOnAuth`: for every credential record, interval,
lead and time, `nextRefreshCheckAt` answers the present exactly when the credential
is due and no API key.

`NotForgotten` is not inductive. It says that a credential with a next check is
in somebody's hands or in the heap by then; whether a step keeps that depends on
what the loop and the other goroutines hold in the middle of an operation. `IInv`
adds to the types: what the loop's local variables are at each of its steps (the
credential of `mark`, `dirty`, `wake` and `send` is known; a loop at `select`
holds none); what each goroutine still has to do as one of a fixed set of
programs, so that one that is going to store a credential is also going to mark
it dirty; and that the time the loop read is not ahead of the clock, so that a
credential scheduled with it is not late. Each action then moves a credential
from one place to another: the proof has one step per action, and the lemmas
about `nextRefreshCheckAt` say how its value moves with the clock and with a
store.

### AuthManagerProofs

None of the properties is inductive: each is about what is stored or about a quiet
credential, and what a step does depends on what some goroutine carries from a
critical section it has left. `ManagerInv` says what that may be.

* `OpsInv`, of the goroutines: the steps left to do form a program (`Linked`: a
  store is followed by its publication, a rebuild by its second pick) and one that
  changes or registers a credential ends by publishing it. A value that is carried
  was once stored: it is sound, no newer than what is stored, and equal to it when
  it has the same version (`Was`). That a token refresh or an update stores an old
  value is then harmless for `ResultsCounted`: the step takes the counters over.
* `StoredInv`, of the map: levels stay below the one that reaches the maximum, a
  recovery time goes with an exceeded quota, and a retry time of the whole is at
  most that of each of its models, all of which are blocked (`AggregateOK`). The
  last is the strengthening `AggregateSound` needs: the clock passes the whole's
  time first.
* `ShownInv`, of publications: until the newest version of a credential has been
  published, a goroutine carries it.
* `SchedInv`, of the scheduler: an entry that was last published with the newest
  version agrees with the map, deadline by deadline; its models are those of the
  registry unless a goroutine is about to publish; and between a rebuild and the second pick, the
  entries that nobody published since (`contested`) are those of the snapshot.
  From the last follows `RefusalJustified`, an action property.

Most of the length is in the functions of `AuthState`: what a result, a
reconciliation and a merge do to a sound credential.

### ModelRegistryProofs

The counters are compared with sums over the clients (`CountsExact`), so the
proof needs how such a sum changes when one client's share does. A sum is a fold,
a recursive function over sets. Its defining equation is proved first
(`CopiesUnfold`), then that it may take the clients in any order (`CopiesRemove`),
by taking a least counterexample: a smallest set of clients for which that fails. This is why
`RegistryAssumption` has the clients finite. `CacheFresh` needs `Covered`: a
usable answer expires no later than any quota mark it has counted, also when it was
computed by a reader whose clock is behind.

### UsageManagerProofs

`IInv` relates the queue, the record in hand and the calls still to make to the
sequence of all accepted records: the queue is its end, the record in hand comes
right before, and a plugin has handled a run of it that ends where the dispatcher
has come to (`Seen`), one further if this dispatch has reached it already.
`DeliveryRefined` maps each step to one of `UsageDelivery` or to a stutter.

### UsageQueueProofs

`FirstInFirstOut` proves all of `ImplementsFifo`: the slice behind the head is the
abstract queue; pruning, popping and compaction drop from its front, and what the
forwarder could not push goes back in front. Each move of the slice is described
once, as an operator on pairs of slice and head, and its effect on the part behind
the head is a lemma. `ChannelsSafe` follows from `ChannelsOwned`: an open channel
whose closing is due has exactly one owner, the map, the user who took it out, or
the goroutine that cleared the map. `RepeatedOnlyUnconfirmed` follows from
`Places`: as far as its senders know (`Out`, which leaves out the failed pushes), a
payload is in the queue, in one goroutine's hand, or gone. `OffHoldsLittle` compares the
queue with the goroutines that had passed the flag, hence the assumption that there
are finitely many forwarders; `MaxTime` is at least one since the clock starts there.

### WatcherProofs

* `PipelineInv` follows an update of a credential from the goroutine that computed
  it over the pending map, the batch and the channel to the service: the newest one
  on its way says what the watcher knows, and if there is none the service knows it.
* `SourcesInv`: the credentials the watcher knows are those of its hashes and its
  configuration, unless a reload or the scan has begun and not compared yet.
* `FilesInv`: a file whose hash is not its content is announced by an event, or is
  in the handler's hands; the last event of a file says whether it is there.

The exceptions (`loose`, `stale`, `missed`) appear in each of them as in the
properties. `NamesAssumption` says that goroutines and credentials of different
origin have different names.

### WsRelayProofs

`ClosedIsGone` needs `Typed`, which has more than types (who may have a request in
its map, what a cleanup has visited), and that a request that has not been stored
has its channel open.

`CrashTakesARace` needs `RaceInv`, about requests that are spent: the channel is
closed, the caller has gone, or the end of the answer waits in the channel. One that
has not been stored is not spent (`FreshUnspent`); one that a map still holds was
canceled, its session closes (`Warned`), or `session.run` is about to forget it
(`Finishing`); a message in dispatch is for a spent request only if that request is
`Warned`. A request is spent either by the end of its answer, which the same
goroutine makes it forget before it reads on, or by one of the two that warn. In
`CredentialInv`, a session that left the manager has somebody who is going to
clean it up, and the callbacks of a provider come in order unless `crossed` says
otherwise.

`Complete` needs `Answering`, which follows an answer from the client to the caller.
`Progress` counts: the chunks the caller has, changed by what its channel holds and
what `session.run` has in hand, in their order and each as `Body` says (`Flight`), are
those of the answer the client sent; and what ended it for the caller is what the
client ended it with. It would
break if a message were dropped while its caller waits, so `Findable` says that a
request without the end of its answer is in its session's map, that a cleanup of
the session has it still to visit (`Ahead`), and that nobody closes its channel
(`Closing`). A request that is stored after the cleanup began meets the closed
session at its next step, `CheckClosed`. All this is about a process that has not
panicked; what the panic leaves of the answers is a lemma of its own.

### DispatchProofs

The scheduler keeps cursors by position. The lemmas put the order of a finite set
in place of positions: every finite set of numbers has an order, a search that
starts anywhere and goes round meets every position, and the choice of `pickSingle`
and `pickMixed` is therefore a ready credential the request has not tried whenever
there is one (`PicksAreSound`), by either strategy and wherever the cursors stand.
`RecordedOnce` follows from `RecordedOK`, which adds that a call that was cut off
ends its request. `CallsBounded` follows from `CountedOK`, which counts the calls of former starts,
of former rounds and of this round apart. `DispatchAssumption` has the lists of
providers without repetitions, as `normalizeProviders` leaves them.

`WaitPaysOff` needs what a request was promised: `PromisesOK` says of each
credential it waits for that it is the request's own and that its cooldown ends
with the request's timer or before. A failure of another request that blocks the
credential again takes it out of the promise; when the request looks again
without trying one, no promised credential is left.

Turns take an argument about distances. A credential is `o` places from its
bucket's cursor (`Away`); each choice that passes over it brings the cursor nearer
by at least one place (`AwayAfter`), so `TurnOK`, the times it was passed over and
the places left make less than one round of the bucket, is preserved. In a grouped
bucket the cursor of the parents and that of the credential's own parent count
together: a round of the parents for each place left among its parent's
credentials. Taking the credential, excluding it or changing its bucket starts the
count anew, and `Restored` brings a cursor carried over to another bucket back into
it, from where every distance is below a round.

For providers the same is said of the shared slot and the segments of slots of
`pickMixed` (`SlotsBefore`, `Segment`): `SkipOK` adds the times a provider was
passed over and the slots `Until` its segment; together they are no more than the
slots of the others. The inductive invariant of both is `HistoryOK`: `TurnsIn` for every ready
credential, `SkipsIn` for every list, and no counts under `fill-first`, which does
not move the cursors.

### Not proved, and why

* Liveness (`DueIsRefreshed`, `NoTightLoop`, `StopEndsDispatcher`, `Settles`,
  `RequestEnds`, `EachRequestEnds` and the liveness part of `ImplementsDelivery`):
  the prover has no reasoning about fairness and ENABLED here. TLC checks them.
* The library's induction theorems take an operator as parameter and cannot be
  used. Where a proof needs induction (sums, orders of finite sets) it uses that
  the natural numbers are well-founded, as the existence of a least counterexample.
* That the models are faithful is a matter of reading; §5 says what they leave out.

## 5. What the models leave out

* Requests: `AuthManager` has one pick and one result for each and no choice
  between providers; `Dispatch` has the rest, over a fixed set of credentials.
  `Dispatch` leaves out pools of upstream models, home mode, the antigravity
  credits fallback, the websocket view of a bucket, pinned credentials, a change
  of the selector and the selectors of the legacy path; `ExecuteCount` is
  `Execute` with another call. Results without a model are left out.
* The relay: the text of messages, the answer to a ping, and what the AI Studio
  executor makes of an answer.
* Persistence: `persist` writes after the change and its failure is only logged.
* Executors: always registered, so the branch of `handleDueAuth` without an
  executor does not exist; their calls succeed, fail or are canceled.
* `ProviderRefreshLead` below zero and a `RefreshEvaluator` do not occur outside
  tests. Stopping the refresh loop cancels its context and is left out. A
  worker's receive of a job and its clone of the credential are one step.
* The watcher's directory of credentials does not change, its files hold JSON, and
  the persistence of files and the debounced server update are left out. Events of
  a file are neither merged nor lost by the operating system.
* Text: payloads, error messages, model metadata, log lines.
* The clock is one for all goroutines; where the code reads it before it takes a
  lock, the reading is a step of its own (`UsageQueue`, `ModelRegistry`), and the
  loop keeps the time it read.

### Not modelled

Components not modelled at all are listed with the reason in `PROJECT.json`. The
modules stand for about 5,500 of some 111,000 lines, those in which goroutines
share state. Most of the rest is executors and translators, which convert one
provider's JSON to another's and call a service; handlers of the management API,
which read and write one file per call; logging, configuration parsing, logins
and user interfaces. They keep no state between calls, or keep it in files and
services outside, so a faithful model would be their text again, with no
interleaving to check. What is worth adding is small: the session affinity cache
and the two signature caches.

## 6. Plan

Done, each with its proofs: 1 `AuthState` and `AuthManager`; 2 `ModelRegistry`;
3 `RefreshLoop`; 4 `UsageManager` over `UsageDelivery`, `UsageQueue` over
`FifoQueue`; 5 `Watcher`; 6 `WsRelay`; 7 `Rotation`; 8 `Dispatch` over it.

Next: 9 `SessionAffinity` (`auth/selector.go`, `session_cache.go`), the
sessions' cache with its expiry in front of the choice of `Dispatch`.

The proofs of §4 cover every modelled component: of the properties that the passing
runs check, only the liveness properties, and the liveness part of
`ImplementsDelivery`, are model-checked and not proved.
