------------------------------ MODULE Watcher ------------------------------
(***************************************************************************)
(* The watcher of the configuration and the credential files               *)
(* (internal/watcher) with the queue of credential updates it fills and    *)
(* the service that consumes it (service.go).  Four kinds of goroutines    *)
(* change the credentials the watcher knows: the one that handles file     *)
(* events, one per configuration reload, the start-up scan, and the        *)
(* connections of the websocket gateway.  Each changes the maps in one     *)
(* critical section of clientsMutex and hands the updates to the           *)
(* dispatcher later, under another mutex.  A step is one such section, one *)
(* reading of a file, or one operation on the channel.                     *)
(*                                                                         *)
(* A credential file holds one of Contents, nothing (it was truncated and  *)
(* not yet written) or is absent; a content yields one credential per      *)
(* project (Gives).  A configuration is what can change the credentials:   *)
(* the API keys, the excluded models of the files' provider, and a setting *)
(* that forces a refresh.                                                  *)
(***************************************************************************)
EXTENDS Integers, Sequences, FiniteSets

CONSTANTS
  Files,          \* credential files
  Contents,       \* what a file that parses, or an API key entry, may say
  Projects,       \* names of the credentials one file may yield
  Gives,          \* the projects of each content
  Keys,           \* API key entries of the configuration
  FilesProvider,  \* the keys that have the same provider as the files
  Sessions,       \* websocket connections, each used once
  Reloaders,      \* goroutines of the debounce timer; a bound on reloads at once
  Configs,        \* the configurations that load
  Capacity,       \* capacity of the channel of updates
  Budgets,        \* bounds on the file, configuration and session changes of a
                  \* behaviour, and whether it begins after the start-up scan
  None,           \* no file, no credential; as an update: delete
  Empty,          \* a truncated file
  Broken          \* a configuration file that does not load

ASSUME WatcherAssumption ==
  /\ Capacity \in Nat \ {0}
  /\ Gives \in [Contents -> SUBSET Projects]
  /\ FilesProvider \subseteq Keys
  /\ Configs \subseteq [keys : [Keys -> Contents \cup {None}],
                        excluded : BOOLEAN, prefix : BOOLEAN]
  /\ Budgets \subseteq [files : Nat, configs : Nat, sessions : Nat, started : BOOLEAN]
  /\ None # Empty /\ {None, Empty} \cap Contents = {} /\ {None, Broken} \cap Configs = {}

\* The names of the goroutines differ, and so do the identifiers of
\* credentials from files, from the configuration and from connections.
Handler == "handler"   \* processEvents
Main == "main"         \* the start-up scan
ASSUME NamesAssumption ==
  /\ {Handler, Main} \cap (Reloaders \cup Sessions) = {} /\ Reloaders \cap Sessions = {}
  /\ Keys \cap Sessions = {} /\ (Keys \cup Sessions) \cap (Files \X Projects) = {}

VARIABLES
  disk, configFile,  \* what the files say
  events,            \* file events not yet handled
  timer,             \* the debounce timer of the configuration is armed
  config,            \* w.config
  lastConfigHash,    \* the configuration file when its last reload ended
  lastAuthHashes,    \* the content last processed of each file
  lastRemoveTimes,   \* files whose remove event was taken less than a second ago
  currentAuths, runtimeAuths,
  pendingUpdates, dispatcher, authUpdates,
  applied,           \* the credentials of the service
  op,                \* what each goroutine is doing
  left,              \* what remains of the budget
  missed,            \* history: files whose last removal was debounced away
  stale,             \* history: credentials that come from an outdated snapshot
  loose              \* history: credentials whose updates may be out of order or lost

files == <<disk, configFile>>
maps == <<config, lastConfigHash, lastAuthHashes, lastRemoveTimes, currentAuths, runtimeAuths>>
pipeline == <<pendingUpdates, dispatcher, authUpdates, applied>>
history == <<missed, stale, loose>>
vars == <<files, events, timer, maps, pipeline, op, left, history>>

Reloading == Reloaders \cup {Main}
Goroutines == {Handler} \cup Reloading \cup Sessions

FileIds(f) == {f} \X Projects
SourceIds == Keys \cup UNION {FileIds(f) : f \in Files}
Ids == SourceIds \cup Sessions
Auth == [body : Contents \cup Sessions, excluded : BOOLEAN]
NoUpdates == [id \in {} |-> None]

\* A map after some of its entries were set.
Over(entries, map) ==
  [id \in DOMAIN entries \cup DOMAIN map |->
     IF id \in DOMAIN entries THEN entries[id] ELSE map[id]]

----------------------------------------------------------------------------
(* Credentials from files and configuration (synthesizer, snapshotCoreAuths). *)

Given(content) == IF content \in Contents THEN Gives[content] ELSE {}

FileAuth(content, project, cfg) ==
  IF project \in Given(content) THEN [body |-> content, excluded |-> cfg.excluded] ELSE None

KeyAuth(k, cfg) ==
  IF cfg.keys[k] = None THEN None ELSE [body |-> cfg.keys[k], excluded |-> FALSE]

Synthesize(contents, cfg) ==
  [id \in SourceIds |-> IF id \in Keys THEN KeyAuth(id, cfg)
                        ELSE FileAuth(contents[id[1]], id[2], cfg)]

RuntimeAuth(s) == [body |-> s, excluded |-> FALSE]

\* Bug: a file that was just truncated counts as read.
ReadableOrEmpty(contents) == contents

Readable(contents) == [f \in Files |-> IF contents[f] = Empty THEN None ELSE contents[f]]

----------------------------------------------------------------------------
Idle == [step |-> "idle", file |-> None, content |-> None, config |-> None,
         force |-> FALSE, snapshot |-> NoUpdates, updates |-> NoUpdates]

At(g, step) == op[g].step = step
Go(g, step) == op' = [op EXCEPT ![g].step = step]
Rest(g) == op' = [op EXCEPT ![g] = Idle]

(* The watcher before its start-up scan, and after it, when the service    *)
(* has the credentials of the files and the configuration.                 *)
Unscanned ==
  /\ lastAuthHashes = [f \in Files |-> None]
  /\ currentAuths = [id \in Ids |-> None]
  /\ op = [g \in Goroutines |-> IF g = Main THEN [Idle EXCEPT !.step = "scanning"] ELSE Idle]

Scanned ==
  LET known == Synthesize(disk, config) IN
  /\ lastAuthHashes = disk
  /\ currentAuths = [id \in Ids |-> IF id \in SourceIds THEN known[id] ELSE None]
  /\ op = [g \in Goroutines |-> IF g = Main THEN [Idle EXCEPT !.step = "done"] ELSE Idle]

Init ==
  /\ disk \in [Files -> Contents \cup {None}] /\ configFile \in Configs
  /\ events = <<>> /\ timer = FALSE
  /\ config = configFile /\ lastConfigHash = None /\ lastRemoveTimes = {}
  /\ left \in Budgets
  /\ IF left.started THEN Scanned ELSE Unscanned
  /\ runtimeAuths = {} /\ applied = currentAuths
  /\ pendingUpdates = NoUpdates /\ authUpdates = <<>>
  /\ dispatcher = [step |-> "checking", batch |-> NoUpdates]
  /\ missed = {} /\ stale = {} /\ loose = {}

TypeOK ==
  /\ disk \in [Files -> Contents \cup {None, Empty}] /\ configFile \in Configs \cup {Broken}
  /\ config \in Configs /\ lastConfigHash \in Configs \cup {None, Broken}
  /\ lastAuthHashes \in [Files -> Contents \cup {None}]
  /\ currentAuths \in [Ids -> Auth \cup {None}] /\ applied \in [Ids -> Auth \cup {None}]
  /\ runtimeAuths \subseteq Sessions /\ lastRemoveTimes \subseteq Files
  /\ DOMAIN pendingUpdates \subseteq Ids /\ DOMAIN dispatcher.batch \subseteq Ids
  /\ Len(authUpdates) <= Capacity
  /\ \A g \in Goroutines : DOMAIN op[g].updates \subseteq Ids

----------------------------------------------------------------------------
(* The world: files change, with an event for each change.  *)

Event(kind, f) == events' = Append(events, [kind |-> kind, file |-> f])

ChangeFile(f, content, kind) ==
  /\ left.files > 0 /\ left' = [left EXCEPT !.files = @ - 1]
  /\ disk' = [disk EXCEPT ![f] = content]
  /\ missed' = missed \ {f}
  /\ Event(kind, f)
  /\ UNCHANGED <<configFile, timer, maps, pipeline, op, stale, loose>>

SaveFile(f) == \E c \in Contents : ChangeFile(f, c, "write")
TruncateFile(f) == disk[f] # Empty /\ ChangeFile(f, Empty, "write")
RemoveFile(f) == disk[f] # None /\ ChangeFile(f, None, "remove")

EditConfig(c) ==
  /\ left.configs > 0 /\ left' = [left EXCEPT !.configs = @ - 1]
  /\ c # configFile /\ configFile' = c
  /\ Event("config", None)
  /\ UNCHANGED <<disk, timer, maps, pipeline, op, history>>

----------------------------------------------------------------------------
(* dispatchAuthUpdates: merge the updates of goroutine g into the pending  *)
(* ones, the newer in place of the older, and wake the dispatcher.         *)

\* Bug: an update that is already pending stays in place of the newer one.
MergedOldest(updates) == Over(pendingUpdates, updates)

Merged(updates) == Over(updates, pendingUpdates)

\* Bug: no signal.
WokenNever == dispatcher

Woken == IF dispatcher.step = "waiting" THEN [dispatcher EXCEPT !.step = "checking"] ELSE dispatcher

AfterQueue(g) ==
  IF g \in Reloaders THEN [Idle EXCEPT !.step = "finishing", !.config = op[g].config]
  ELSE IF g = Main THEN [Idle EXCEPT !.step = "done"]
  ELSE IF g \in runtimeAuths THEN [Idle EXCEPT !.step = "connected"]
  ELSE IF g \in Sessions THEN [Idle EXCEPT !.step = "gone"]
  ELSE Idle

DispatchAuthUpdates(g) ==
  /\ At(g, "queueing")
  /\ IF op[g].updates = NoUpdates THEN UNCHANGED <<pendingUpdates, dispatcher>>
     ELSE pendingUpdates' = Merged(op[g].updates) /\ dispatcher' = Woken
  /\ op' = [op EXCEPT ![g] = AfterQueue(g)]
  /\ UNCHANGED <<files, events, timer, maps, authUpdates, applied, left, history>>

(* Updates that g takes out of a critical section.  They are loose while   *)
(* another goroutine still holds some for the same credential.             *)
Held(g) == UNION {DOMAIN op[h].updates : h \in Goroutines \ {g}}

Hold(g, updates) ==
  /\ op' = [op EXCEPT ![g].step = "queueing", ![g].snapshot = NoUpdates, ![g].updates = updates]
  /\ loose' = (loose \ DOMAIN updates) \cup (DOMAIN updates \cap Held(g))

----------------------------------------------------------------------------
(* The goroutine of the file events (processEvents, handleEvent).          *)

Handle(kind) == At(Handler, "idle") /\ events # <<>> /\ Head(events).kind = kind

HandleConfigEvent ==
  /\ Handle("config")
  /\ timer' = TRUE
  /\ events' = Tail(events)
  /\ UNCHANGED <<files, maps, pipeline, op, left, history>>

HandleWriteEvent ==
  /\ Handle("write")
  /\ op' = [op EXCEPT ![Handler] = [Idle EXCEPT !.step = "checking", !.file = Head(events).file]]
  /\ events' = Tail(events)
  /\ UNCHANGED <<files, timer, maps, pipeline, left, history>>

DebounceRemove(f) ==
  /\ f \in lastRemoveTimes
  /\ missed' = IF disk[f] = None THEN missed \cup {f} ELSE missed
  /\ UNCHANGED <<lastRemoveTimes, op>>

BeginRemove(f) ==
  /\ f \notin lastRemoveTimes /\ lastRemoveTimes' = lastRemoveTimes \cup {f}
  /\ op' = [op EXCEPT ![Handler] = [Idle EXCEPT !.step = "settling", !.file = f]]
  /\ UNCHANGED missed

HandleRemoveEvent ==
  /\ Handle("remove")
  /\ DebounceRemove(Head(events).file) \/ BeginRemove(Head(events).file)
  /\ events' = Tail(events)
  /\ UNCHANGED <<files, timer, config, lastConfigHash, lastAuthHashes, currentAuths,
                 runtimeAuths, pipeline, left, stale, loose>>

(* After replaceCheckDelay: replaced, gone, or never known.                *)
Settle ==
  LET f == op[Handler].file IN
  /\ At(Handler, "settling")
  /\ \/ disk[f] # None /\ Go(Handler, "checking")
     \/ disk[f] = None /\ lastAuthHashes[f] # None /\ Go(Handler, "removing")
     \/ disk[f] = None /\ lastAuthHashes[f] = None /\ Rest(Handler)
  /\ UNCHANGED <<files, events, timer, maps, pipeline, left, history>>

AuthFileUnchanged(f) == disk[f] \in Contents /\ lastAuthHashes[f] = disk[f]

CheckFile ==
  /\ At(Handler, "checking")
  /\ IF AuthFileUnchanged(op[Handler].file) THEN Rest(Handler) ELSE Go(Handler, "reading")
  /\ UNCHANGED <<files, events, timer, maps, pipeline, left, history>>

ReadFile ==
  LET content == disk[op[Handler].file] IN
  /\ At(Handler, "reading")
  /\ IF content \in {None, Empty} THEN Rest(Handler)
     ELSE op' = [op EXCEPT ![Handler].step = "committing", ![Handler].content = content]
  /\ UNCHANGED <<files, events, timer, maps, pipeline, left, history>>

\* Bug: credentials that the new content no longer yields stay.
PerPathUpdatesAdding(f, old, new) ==
  LET auth(id) == FileAuth(new, id[2], config)
      changed == {id \in {f} \X Given(new) : currentAuths[id] # auth(id)}
  IN [id \in changed |-> auth(id)]

PerPathUpdates(f, old, new) ==
  LET auth(id) == FileAuth(new, id[2], config)
      changed == {id \in {f} \X Given(new) : currentAuths[id] # auth(id)}
      gone == {f} \X (Given(old) \ Given(new))
  IN [id \in changed \cup gone |-> auth(id)]

\* Bug: the hash of a removed file stays.
ProcessKeepingHash(f, content) ==
  LET old == lastAuthHashes[f]
      updates == PerPathUpdates(f, old, content)
  IN /\ lastAuthHashes' = IF content = None THEN lastAuthHashes
                          ELSE [lastAuthHashes EXCEPT ![f] = content]
     /\ currentAuths' = Over(updates, currentAuths)
     /\ Hold(Handler, updates)
     /\ stale' = stale \ ({f} \X (Given(old) \cup Given(content)))

(* addOrUpdateClient and removeClient, under the lock: from the content    *)
(* processed last to this one, None when the file is gone.                 *)
Process(f, content) ==
  LET old == lastAuthHashes[f]
      updates == PerPathUpdates(f, old, content)
  IN /\ lastAuthHashes' = [lastAuthHashes EXCEPT ![f] = content]
     /\ currentAuths' = Over(updates, currentAuths)
     /\ Hold(Handler, updates)
     /\ stale' = stale \ ({f} \X (Given(old) \cup Given(content)))

CommitFile ==
  LET f == op[Handler].file
      content == op[Handler].content
  IN /\ At(Handler, "committing")
     /\ IF lastAuthHashes[f] = content
        THEN Rest(Handler) /\ UNCHANGED <<lastAuthHashes, currentAuths, stale, loose>>
        ELSE Process(f, content)
     /\ UNCHANGED <<files, events, timer, config, lastConfigHash, lastRemoveTimes,
                    runtimeAuths, pipeline, left, missed>>

RemoveClient ==
  /\ At(Handler, "removing")
  /\ Process(op[Handler].file, None)
  /\ UNCHANGED <<files, events, timer, config, lastConfigHash, lastRemoveTimes,
                 runtimeAuths, pipeline, left, missed>>

(* authRemoveDebounceWindow has passed.                                    *)
WindowEnds(f) ==
  /\ f \in lastRemoveTimes /\ lastRemoveTimes' = lastRemoveTimes \ {f}
  /\ UNCHANGED <<files, events, timer, config, lastConfigHash, lastAuthHashes, currentAuths,
                 runtimeAuths, pipeline, op, left, history>>

----------------------------------------------------------------------------
(* Configuration reloads (reloadConfigIfChanged) and the start-up scan.    *)

FireTimer(r) ==
  /\ timer /\ timer' = FALSE
  /\ At(r, "idle") /\ Go(r, "hashing")
  /\ UNCHANGED <<files, events, maps, pipeline, left, history>>

HashConfig(r) ==
  /\ At(r, "hashing")
  /\ IF lastConfigHash = configFile THEN Rest(r) ELSE Go(r, "loading")
  /\ UNCHANGED <<files, events, timer, maps, pipeline, left, history>>

LoadConfig(r) ==
  /\ At(r, "loading")
  /\ IF configFile = Broken THEN Rest(r)
     ELSE op' = [op EXCEPT ![r].step = "installing", ![r].config = configFile]
  /\ UNCHANGED <<files, events, timer, maps, pipeline, left, history>>

InstallConfig(r) ==
  LET new == op[r].config IN
  /\ At(r, "installing")
  /\ config' = new
  /\ op' = [op EXCEPT ![r].step = IF config.excluded # new.excluded THEN "filtering" ELSE "reading",
                      ![r].force = config.prefix # new.prefix]
  /\ UNCHANGED <<files, events, timer, lastConfigHash, lastAuthHashes, lastRemoveTimes,
                 currentAuths, runtimeAuths, pipeline, left, history>>

(* reloadClients forgets the credentials of the provider whose excluded    *)
(* models changed, so that each of them is added again.                    *)
Affected == SourceIds \ (Keys \ FilesProvider)

FilterAffected(r) ==
  /\ At(r, "filtering") /\ Go(r, "reading")
  /\ currentAuths' = [id \in Ids |-> IF id \in Affected THEN None ELSE currentAuths[id]]
  /\ loose' = loose \cup {id \in Affected : currentAuths[id] # None}
  /\ UNCHANGED <<files, events, timer, config, lastConfigHash, lastAuthHashes, lastRemoveTimes,
                 runtimeAuths, pipeline, left, missed, stale>>

ScanFiles ==
  /\ At(Main, "scanning") /\ Go(Main, "reading")
  /\ lastAuthHashes' = Readable(disk)
  /\ UNCHANGED <<files, events, timer, config, lastConfigHash, lastRemoveTimes, currentAuths,
                 runtimeAuths, pipeline, left, history>>

(* refreshAuthState: a snapshot without the lock, compared under it.       *)
Snapshot(r) ==
  /\ r \in Reloading /\ At(r, "reading")
  /\ op' = [op EXCEPT ![r].step = "preparing", ![r].snapshot = Synthesize(Readable(disk), config)]
  /\ UNCHANGED <<files, events, timer, maps, pipeline, left, history>>

NewState(snapshot) ==
  [id \in Ids |-> IF id \in SourceIds THEN snapshot[id]
                  ELSE IF id \in runtimeAuths THEN RuntimeAuth(id) ELSE None]

PreparedUpdates(new, force) ==
  LET changed == {id \in Ids : currentAuths[id] # new[id]}
      forced == {id \in Ids : force /\ new[id] # None}
  IN [id \in changed \cup forced |-> new[id]]

PrepareUpdates(r) ==
  LET new == NewState(op[r].snapshot)
      known == Synthesize(lastAuthHashes, config)
  IN /\ At(r, "preparing")
     /\ currentAuths' = new
     /\ Hold(r, PreparedUpdates(new, op[r].force))
     /\ stale' = {id \in SourceIds : new[id] # known[id]}
     /\ UNCHANGED <<files, events, timer, config, lastConfigHash, lastAuthHashes,
                    lastRemoveTimes, runtimeAuths, pipeline, left, missed>>

(* The hash recorded is that of the file as it is read again after the reload. *)
FinishReload(r) ==
  /\ At(r, "finishing") /\ Rest(r)
  /\ lastConfigHash' = configFile
  /\ UNCHANGED <<files, events, timer, config, lastAuthHashes, lastRemoveTimes, currentAuths,
                 runtimeAuths, pipeline, left, history>>

----------------------------------------------------------------------------
(* A websocket connection comes and goes (dispatchRuntimeAuthUpdate).      *)

RuntimeUpdate(s, auth) ==
  /\ runtimeAuths' = IF auth = None THEN runtimeAuths \ {s} ELSE runtimeAuths \cup {s}
  /\ currentAuths' = [currentAuths EXCEPT ![s] = auth]
  /\ Hold(s, [id \in {s} |-> auth])
  /\ UNCHANGED <<files, events, timer, config, lastConfigHash, lastAuthHashes, lastRemoveTimes,
                 pipeline, missed, stale>>

Connect(s) ==
  /\ At(s, "idle") /\ left.sessions > 0
  /\ left' = [left EXCEPT !.sessions = @ - 1]
  /\ RuntimeUpdate(s, RuntimeAuth(s))

Disconnect(s) == At(s, "connected") /\ RuntimeUpdate(s, None) /\ UNCHANGED left

----------------------------------------------------------------------------
(* The dispatcher (dispatchLoop, nextPendingBatch) and the service.  The   *)
(* updates of a batch concern different credentials; their order in it is  *)
(* left open.                                                              *)

NextPendingBatch ==
  /\ dispatcher.step = "checking"
  /\ dispatcher' = IF pendingUpdates = NoUpdates THEN [dispatcher EXCEPT !.step = "waiting"]
                   ELSE [step |-> "sending", batch |-> pendingUpdates]
  /\ pendingUpdates' = NoUpdates
  /\ UNCHANGED <<files, events, timer, maps, authUpdates, applied, op, left, history>>

Send(id) ==
  LET rest == DOMAIN dispatcher.batch \ {id} IN
  /\ id \in DOMAIN dispatcher.batch /\ Len(authUpdates) < Capacity
  /\ authUpdates' = Append(authUpdates, [id |-> id, auth |-> dispatcher.batch[id]])
  /\ dispatcher' = [step |-> IF rest = {} THEN "checking" ELSE "sending",
                    batch |-> [i \in rest |-> dispatcher.batch[i]]]
  /\ UNCHANGED <<files, events, timer, maps, pendingUpdates, applied, op, left, history>>

HandleAuthUpdate ==
  /\ authUpdates # <<>> /\ authUpdates' = Tail(authUpdates)
  /\ applied' = [applied EXCEPT ![Head(authUpdates).id] = Head(authUpdates).auth]
  /\ UNCHANGED <<files, events, timer, maps, pendingUpdates, dispatcher, op, left, history>>

----------------------------------------------------------------------------
World ==
  \/ \E f \in Files : SaveFile(f) \/ TruncateFile(f) \/ RemoveFile(f) \/ WindowEnds(f)
  \/ \E c \in Configs \cup {Broken} : EditConfig(c)
  \/ \E s \in Sessions : Connect(s) \/ Disconnect(s)

HandlerStep ==
  \/ HandleConfigEvent \/ HandleWriteEvent \/ HandleRemoveEvent
  \/ Settle \/ CheckFile \/ ReadFile \/ CommitFile \/ RemoveClient

ReloadStep(r) ==
  \/ HashConfig(r) \/ LoadConfig(r) \/ InstallConfig(r) \/ FilterAffected(r)
  \/ Snapshot(r) \/ PrepareUpdates(r) \/ FinishReload(r)

DispatcherStep == NextPendingBatch \/ \E id \in Ids : Send(id)

Next ==
  \/ World
  \/ HandlerStep
  \/ \E r \in Reloaders : FireTimer(r)
  \/ ScanFiles
  \/ \E r \in Reloading : ReloadStep(r)
  \/ \E g \in Goroutines : DispatchAuthUpdates(g)
  \/ DispatcherStep
  \/ HandleAuthUpdate

Fairness ==
  /\ WF_vars(HandlerStep) /\ WF_vars(\E r \in Reloaders : FireTimer(r)) /\ WF_vars(ScanFiles)
  /\ \A r \in Reloading : WF_vars(ReloadStep(r))
  /\ \A g \in Goroutines : WF_vars(DispatchAuthUpdates(g))
  /\ WF_vars(DispatcherStep) /\ WF_vars(HandleAuthUpdate)

Spec == Init /\ [][Next]_vars /\ Fairness

----------------------------------------------------------------------------
(* Nothing is under way: no event, no timer, no goroutine, no update.      *)
Quiet ==
  /\ events = <<>> /\ ~timer
  /\ \A g \in Goroutines : op[g].step \in {"idle", "done", "connected", "gone"}
  /\ pendingUpdates = NoUpdates /\ dispatcher.batch = NoUpdates /\ authUpdates = <<>>

(* When nothing is under way, the content processed last of each file is   *)
(* what the file says, whatever writes, truncations and replacements were  *)
(* seen in between (handleEvent, addOrUpdateClient, removeClient).  Two    *)
(* files are excepted: one that is still truncated, and one removed again  *)
(* within a second of a removal, whose event is dropped.                   *)
FollowsFiles ==
  Quiet => \A f \in Files \ missed : disk[f] # Empty => lastAuthHashes[f] = disk[f]

(* When nothing is under way, the credentials the watcher knows are those  *)
(* of the files it processed and the configuration it installed, however   *)
(* file events and reloads were interleaved, except those that a reload    *)
(* took from a snapshot which was outdated when it was compared.           *)
FollowsSources ==
  LET known == Synthesize(lastAuthHashes, config) IN
  Quiet => \A id \in SourceIds \ stale : currentAuths[id] = known[id]

(* When nothing is under way, the service has the credentials the watcher  *)
(* has: no update is lost, overtaken or merged into an older one on the    *)
(* way through the pending map, the batches and the channel.  Excepted are *)
(* credentials of which two goroutines held updates at once, or which a    *)
(* reload dropped from the map without an update.                          *)
ServiceFollows ==
  Quiet => \A id \in Ids \ loose : applied[id] = currentAuths[id]

(* When the files stop changing, the work ends: no wake-up of the          *)
(* dispatcher is lost, and no goroutine waits for ever.                    *)
Settles == <>[]Quiet

(* "It detects material changes and reloads clients when the config        *)
(* changes" (config_reload.go): when nothing is under way, the installed   *)
(* configuration is the one in the file.                                   *)
ConfigFollowed == Quiet /\ configFile \in Configs => config = configFile

=============================================================================
