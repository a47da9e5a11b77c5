--------------------------- MODULE WatcherProofs ---------------------------
(***************************************************************************)
(* Proofs about the watcher, for any files, contents, configurations,      *)
(* connections and reloads: when nothing is under way, what it processed   *)
(* last of each file is what the file says, the credentials it knows are   *)
(* those of its files and its configuration, and the service has the       *)
(* credentials it knows.                                                   *)
(***************************************************************************)
EXTENDS Watcher, TLAPS
-----------------------------------------------------------------------------
(***************************************************************************)
(* Types.                                                                  *)
(***************************************************************************)
Body == Auth \cup {None}
Updates == UNION {[D -> Body] : D \in SUBSET Ids}

Steps == {"idle", "checking", "settling", "reading", "committing", "removing", "queueing",
          "hashing", "loading", "installing", "filtering", "preparing", "finishing",
          "scanning", "done", "connected", "gone"}
Busy == {"checking", "settling", "reading", "committing", "removing"}
Events == [kind : {"config", "write", "remove"}, file : Files \cup {None}]

OpRecords ==
  [step : Steps, file : Files \cup {None}, content : Contents \cup {None},
   config : Configs \cup {None}, force : BOOLEAN, snapshot : Updates, updates : Updates]

\* What goroutine g's record o may be: updates are held only until they are
\* queued, and what a step works on is there.
OpOK(g, o) ==
  /\ o.step # "queueing" => o.updates = NoUpdates
  /\ o.step = "preparing" => DOMAIN o.snapshot = SourceIds
  /\ o.step = "installing" => o.config \in Configs
  /\ g = Handler => /\ o.step \in Busy \cup {"idle", "queueing"}
                    /\ o.step \in Busy => o.file \in Files
                    /\ o.step = "committing" => o.content \in Contents

FilesTyped ==
  /\ disk \in [Files -> Contents \cup {None, Empty}] /\ configFile \in Configs \cup {Broken}
  /\ events \in Seq(Events)
  /\ \A i \in 1..Len(events) : events[i].kind # "config" => events[i].file \in Files

MapsTyped ==
  /\ config \in Configs /\ lastConfigHash \in Configs \cup {None, Broken}
  /\ lastAuthHashes \in [Files -> Contents \cup {None}] /\ lastRemoveTimes \subseteq Files
  /\ currentAuths \in [Ids -> Body] /\ runtimeAuths \subseteq Sessions

PipelineTyped ==
  /\ pendingUpdates \in Updates
  /\ dispatcher \in [step : {"checking", "waiting", "sending"}, batch : Updates]
  /\ dispatcher.step # "sending" => dispatcher.batch = NoUpdates
  /\ authUpdates \in Seq([id : Ids, auth : Body]) /\ Len(authUpdates) <= Capacity
  /\ applied \in [Ids -> Body]

OpsTyped == op \in [Goroutines -> OpRecords] /\ \A g \in Goroutines : OpOK(g, op[g])

Typed == FilesTyped /\ MapsTyped /\ PipelineTyped /\ OpsTyped

-----------------------------------------------------------------------------
(***************************************************************************)
(* The service follows the watcher: the newest update of a credential on   *)
(* its way, from the goroutine that holds it over the pending map and the  *)
(* batch to the channel, says what the watcher knows; without one the      *)
(* service knows it.                                                       *)
(***************************************************************************)
Has(g, id) == id \in DOMAIN op[g].updates
InHand(id) == \E g \in Goroutines : Has(g, id)
InMap(id) == id \in DOMAIN pendingUpdates
InBatch(id) == id \in DOMAIN dispatcher.batch
SentAt(id, i) == i \in 1..Len(authUpdates) /\ authUpdates[i].id = id
LastSent(id, i) == SentAt(id, i) /\ \A j \in 1..Len(authUpdates) : SentAt(id, j) => j <= i

Newest(id) ==
  /\ \A g, h \in Goroutines : Has(g, id) /\ Has(h, id) => g = h
  /\ \A g \in Goroutines : Has(g, id) => op[g].updates[id] = currentAuths[id]
  /\ ~InHand(id) =>
       /\ InMap(id) => pendingUpdates[id] = currentAuths[id]
       /\ ~InMap(id) =>
            /\ InBatch(id) => dispatcher.batch[id] = currentAuths[id]
            /\ ~InBatch(id) =>
                 /\ \A i \in 1..Len(authUpdates) :
                      LastSent(id, i) => authUpdates[i].auth = currentAuths[id]
                 /\ (\A i \in 1..Len(authUpdates) : ~SentAt(id, i)) => applied[id] = currentAuths[id]

PipelineInv == \A id \in Ids \ loose : Newest(id)

-----------------------------------------------------------------------------
(***************************************************************************)
(* The watcher follows its sources, except while a reload or the start-up  *)
(* scan has begun and has not yet compared its snapshot.                   *)
(***************************************************************************)
Refreshing == \E r \in Reloading : op[r].step \in {"scanning", "filtering", "reading", "preparing"}

SourcesInv ==
  ~Refreshing => \A id \in SourceIds \ stale :
    currentAuths[id] = Synthesize(lastAuthHashes, config)[id]

-----------------------------------------------------------------------------
(***************************************************************************)
(* The watcher follows the files: a file it has not processed as it is now *)
(* is announced by an event, or is the one its handler works on.           *)
(***************************************************************************)
EventOf(f, i) == i \in 1..Len(events) /\ events[i].kind # "config" /\ events[i].file = f
Announced(f) == \E i \in 1..Len(events) : EventOf(f, i)

\* The last event of a file says whether it is there.
EventsTell ==
  \A f \in Files, i \in 1..Len(events) :
    EventOf(f, i) /\ (\A j \in 1..Len(events) : EventOf(f, j) => j <= i) =>
      (events[i].kind = "remove" <=> disk[f] = None)

HandlerTells ==
  LET f == op[Handler].file
  IN  op[Handler].step \in Busy /\ ~Announced(f) =>
        /\ At(Handler, "checking") \/ At(Handler, "reading") => disk[f] # None
        /\ At(Handler, "committing") => op[Handler].content = disk[f]
        /\ At(Handler, "removing") => disk[f] = None

Followed(f) ==
  disk[f] # Empty /\ ~Announced(f) =>
    \/ lastAuthHashes[f] = disk[f]
    \/ op[Handler].file = f /\ op[Handler].step \in Busy

FilesInv ==
  /\ EventsTell /\ HandlerTells
  /\ ~At(Main, "scanning") => \A f \in Files \ missed : Followed(f)

-----------------------------------------------------------------------------
(***************************************************************************)
(* Maps of updates, and the credentials that files and configuration give. *)
(***************************************************************************)
LEMMA UpdatesFacts ==
  ASSUME NEW u
  PROVE  u \in Updates <=> /\ DOMAIN u \subseteq Ids
                           /\ u = [id \in DOMAIN u |-> u[id]]
                           /\ \A id \in DOMAIN u : u[id] \in Body
PROOF BY DEF Updates

LEMMA NoUpdatesFacts ==
  /\ NoUpdates \in Updates /\ DOMAIN NoUpdates = {}
  /\ \A u \in Updates : DOMAIN u = {} => u = NoUpdates
PROOF
<1>1. DOMAIN NoUpdates = {} /\ NoUpdates \in Updates
  BY DEF NoUpdates, Updates
<1>2. ASSUME NEW u \in Updates, DOMAIN u = {} PROVE u = NoUpdates
  BY <1>2, UpdatesFacts DEF NoUpdates
<1> QED
  BY <1>1, <1>2

LEMMA OverFacts ==
  ASSUME NEW e \in Updates, NEW m, m \in Updates \/ m \in [Ids -> Body]
  PROVE  /\ m \in Updates => Over(e, m) \in Updates
         /\ m \in [Ids -> Body] => Over(e, m) \in [Ids -> Body]
         /\ DOMAIN Over(e, m) = DOMAIN e \cup DOMAIN m
         /\ \A id \in DOMAIN e : Over(e, m)[id] = e[id]
         /\ \A id \in DOMAIN m \ DOMAIN e : Over(e, m)[id] = m[id]
PROOF
<1>0. PICK n : n = Over(e, m)
  OBVIOUS
<1>1. /\ n = [id \in DOMAIN e \cup DOMAIN m |-> IF id \in DOMAIN e THEN e[id] ELSE m[id]]
      /\ DOMAIN e \subseteq Ids /\ \A id \in DOMAIN e : e[id] \in Body
  BY <1>0, UpdatesFacts DEF Over
<1>2. DOMAIN m \subseteq Ids /\ \A id \in DOMAIN m : m[id] \in Body
  BY UpdatesFacts
<1>3. /\ DOMAIN n = DOMAIN e \cup DOMAIN m
      /\ \A id \in DOMAIN e : n[id] = e[id]
      /\ \A id \in DOMAIN m \ DOMAIN e : n[id] = m[id]
  BY <1>1
<1>4. n \in Updates
  <2>1. \A id \in DOMAIN n : n[id] \in Body
    BY <1>1, <1>2, <1>3
  <2>2. n = [id \in DOMAIN n |-> n[id]]
    BY <1>1
  <2> QED
    BY <1>1, <1>2, <1>3, <2>1, <2>2, UpdatesFacts
<1>5. m \in [Ids -> Body] => n \in [Ids -> Body]
  <2> SUFFICES ASSUME m \in [Ids -> Body] PROVE n \in [Ids -> Body]
    OBVIOUS
  <2>1. DOMAIN n = Ids
    BY <1>1, <1>3
  <2> QED
    BY <1>4, <2>1, UpdatesFacts
<1> QED
  BY <1>0, <1>3, <1>4, <1>5

LEMMA OverMapFacts ==
  ASSUME NEW e \in Updates, NEW m \in [Ids -> Body]
  PROVE  /\ Over(e, m) \in [Ids -> Body]
         /\ \A id \in DOMAIN e : Over(e, m)[id] = e[id]
         /\ \A id \in Ids \ DOMAIN e : Over(e, m)[id] = m[id]
PROOF
<1>1. Over(e, m) \in [Ids -> Body]
  BY OverFacts
<1>2. \A id \in DOMAIN e : Over(e, m)[id] = e[id]
  BY OverFacts
<1>3. DOMAIN m = Ids
  OBVIOUS
<1>4. \A id \in DOMAIN m \ DOMAIN e : Over(e, m)[id] = m[id]
  BY OverFacts
<1> QED
  BY <1>1, <1>2, <1>3, <1>4

LEMMA SourceFacts ==
  /\ SourceIds \subseteq Ids /\ Sessions \subseteq Ids /\ Ids = SourceIds \cup Sessions
  /\ SourceIds \cap Sessions = {}
  /\ \A f \in Files, p \in Projects : <<f, p>> \in SourceIds \ Keys
  /\ \A id \in SourceIds \ Keys :
       id[1] \in Files /\ id[2] \in Projects /\ id = <<id[1], id[2]>>
  /\ Handler \in Goroutines /\ Main \in Reloading /\ Reloading \subseteq Goroutines
  /\ Sessions \subseteq Goroutines /\ Reloaders \subseteq Reloading
  /\ Handler \notin Reloading /\ Handler \notin Sessions /\ Main \notin Sessions
  /\ Main \notin Reloaders /\ Reloading \cap Sessions = {}
PROOF
<1>1. \A id : id \in SourceIds <=> id \in Keys \/ \E f \in Files : id \in {f} \X Projects
  BY DEF SourceIds, FileIds
<1>2. \A id \in SourceIds \ Keys :
        id[1] \in Files /\ id[2] \in Projects /\ id = <<id[1], id[2]>>
  BY <1>1
<1>3. \A f \in Files, p \in Projects : <<f, p>> \in SourceIds \ Keys
  BY <1>1, NamesAssumption
<1>4. SourceIds \cap Sessions = {}
  BY <1>1, NamesAssumption
<1>5. Handler # Main
  BY DEF Handler, Main
<1> QED
  BY <1>2, <1>3, <1>4, <1>5, NamesAssumption DEF Ids, Goroutines, Reloading

LEMMA GivenFacts ==
  ASSUME NEW c
  PROVE  Given(c) \subseteq Projects /\ (c \notin Contents => Given(c) = {})
PROOF BY WatcherAssumption DEF Given

LEMMA FileAuthFacts ==
  ASSUME NEW c, NEW p, NEW cfg \in Configs
  PROVE  /\ FileAuth(c, p, cfg) \in Body
         /\ p \notin Given(c) => FileAuth(c, p, cfg) = None
PROOF
<1>1. cfg.excluded \in BOOLEAN
  BY WatcherAssumption
<1>2. CASE p \in Given(c)
  <2>1. c \in Contents
    BY <1>2 DEF Given
  <2> QED
    BY <1>1, <1>2, <2>1 DEF FileAuth, Body, Auth
<1>3. CASE p \notin Given(c)
  BY <1>3 DEF FileAuth, Body
<1> QED
  BY <1>2, <1>3

LEMMA SynthesizeFacts ==
  ASSUME NEW contents, NEW cfg \in Configs, NEW s, s = Synthesize(contents, cfg)
  PROVE  /\ s \in [SourceIds -> Body] /\ s \in Updates
         /\ \A f \in Files, p \in Projects : s[<<f, p>>] = FileAuth(contents[f], p, cfg)
         /\ \A k \in Keys : s[k] = KeyAuth(k, cfg)
PROOF
<1>1. s = [id \in SourceIds |-> IF id \in Keys THEN KeyAuth(id, cfg)
                                ELSE FileAuth(contents[id[1]], id[2], cfg)]
  BY DEF Synthesize
<1>2. ASSUME NEW k \in Keys PROVE KeyAuth(k, cfg) \in Body
  <2>1. cfg.keys[k] \in Contents \cup {None}
    BY WatcherAssumption
  <2> QED
    BY <2>1 DEF KeyAuth, Body, Auth
<1>3. ASSUME NEW id \in SourceIds PROVE s[id] \in Body
  BY <1>1, <1>2, FileAuthFacts
<1>4. s \in [SourceIds -> Body]
  BY <1>1, <1>3
<1>5. s \in Updates
  BY <1>4, SourceFacts, UpdatesFacts
<1>6. \A f \in Files, p \in Projects : s[<<f, p>>] = FileAuth(contents[f], p, cfg)
  BY <1>1, SourceFacts
<1>7. \A k \in Keys : s[k] = KeyAuth(k, cfg)
  BY <1>1 DEF SourceIds
<1> QED
  BY <1>4, <1>5, <1>6, <1>7

LEMMA IdleFacts ==
  /\ Idle \in OpRecords /\ Idle.step = "idle" /\ Idle.updates = NoUpdates
  /\ \A g : OpOK(g, Idle)
PROOF
<1>1. Idle \in OpRecords
  BY NoUpdatesFacts DEF Idle, OpRecords, Steps
<1>2. Idle.step = "idle" /\ Idle.updates = NoUpdates
  BY DEF Idle
<1> QED
  BY <1>1, <1>2 DEF OpOK, Busy

-----------------------------------------------------------------------------
(***************************************************************************)
(* How a step changes the record of its goroutine.                         *)
(***************************************************************************)
OthersSame(g) == \A h \in Goroutines \ {g} : op'[h] = op[h]

LEMMA OpMoves ==
  ASSUME OpsTyped, NEW g \in Goroutines, NEW o \in OpRecords, OpOK(g, o),
         op' = [op EXCEPT ![g] = o]
  PROVE  OpsTyped' /\ op'[g] = o /\ OthersSame(g)
PROOF
<1>1. op' \in [Goroutines -> OpRecords] /\ op'[g] = o /\ OthersSame(g)
  BY DEF OpsTyped, OthersSame
<1>2. \A h \in Goroutines : OpOK(h, op'[h])
  BY <1>1 DEF OpsTyped, OthersSame
<1> QED
  BY <1>1, <1>2 DEF OpsTyped

LEMMA GoFacts ==
  ASSUME OpsTyped, NEW g \in Goroutines, op[g].step # "queueing",
         NEW s \in Steps \ {"queueing", "preparing", "installing", "committing"},
         g = Handler => s \in Busy /\ op[g].file \in Files, Go(g, s)
  PROVE  /\ OpsTyped' /\ OthersSame(g) /\ op'[g].step = s /\ op'[g].file = op[g].file
         /\ op'[g].content = op[g].content /\ op'[g].updates = op[g].updates
PROOF
<1>1. PICK n : n = [op[g] EXCEPT !.step = s]
  OBVIOUS
<1>2. op[g] \in OpRecords /\ op[g].updates = NoUpdates
  BY DEF OpsTyped, OpOK
<1>3. n \in OpRecords /\ n.step = s /\ n.file = op[g].file /\ n.content = op[g].content
      /\ n.updates = op[g].updates
  BY <1>1, <1>2 DEF OpRecords
<1>4. OpOK(g, n)
  BY <1>2, <1>3 DEF OpOK
<1>5. op' = [op EXCEPT ![g] = n]
  BY <1>1 DEF Go
<1> QED
  BY <1>3, <1>4, <1>5, OpMoves

LEMMA RestFacts ==
  ASSUME OpsTyped, NEW g \in Goroutines, op[g].step # "queueing", Rest(g)
  PROVE  /\ OpsTyped' /\ OthersSame(g) /\ op'[g].step = "idle"
         /\ op'[g].updates = op[g].updates
PROOF
<1>1. op' = [op EXCEPT ![g] = Idle] /\ Idle \in OpRecords /\ OpOK(g, Idle)
      /\ Idle.step = "idle" /\ Idle.updates = NoUpdates
  BY IdleFacts DEF Rest
<1>2. op[g].updates = NoUpdates
  BY DEF OpsTyped, OpOK
<1> HIDE DEF Idle
<1>3. OpsTyped' /\ op'[g] = Idle /\ OthersSame(g)
  BY <1>1, OpMoves
<1> QED
  BY <1>1, <1>2, <1>3

LEMMA HoldFacts ==
  ASSUME OpsTyped, NEW g \in Goroutines, NEW u \in Updates, Hold(g, u)
  PROVE  /\ OpsTyped' /\ OthersSame(g) /\ op'[g].step = "queueing" /\ op'[g].updates = u
         /\ op'[g].file = op[g].file
PROOF
<1>1. PICK n : n = [op[g] EXCEPT !.step = "queueing", !.snapshot = NoUpdates, !.updates = u]
  OBVIOUS
<1>2. op[g] \in OpRecords
  BY DEF OpsTyped
<1>3. n \in OpRecords /\ n.step = "queueing" /\ n.updates = u /\ n.file = op[g].file
  BY <1>1, <1>2, NoUpdatesFacts DEF OpRecords, Steps
<1>4. OpOK(g, n)
  BY <1>3 DEF OpOK, Busy
<1>5. op' = [op EXCEPT ![g] = n]
  BY <1>1, <1>2 DEF Hold, OpsTyped, OpRecords
<1> QED
  BY <1>3, <1>4, <1>5, OpMoves

-----------------------------------------------------------------------------
(***************************************************************************)
(* What keeps each invariant.                                              *)
(***************************************************************************)
WatcherInv == Typed /\ PipelineInv /\ SourcesInv /\ FilesInv

UpdatesSame == \A g \in Goroutines : op'[g].updates = op[g].updates

PipelineSame ==
  /\ UpdatesSame /\ currentAuths' = currentAuths /\ pendingUpdates' = pendingUpdates
  /\ dispatcher' = dispatcher /\ authUpdates' = authUpdates /\ applied' = applied
  /\ loose' = loose

SourcesSame ==
  /\ currentAuths' = currentAuths /\ lastAuthHashes' = lastAuthHashes /\ config' = config
  /\ stale' = stale
  /\ Refreshing => Refreshing'

FilesSame ==
  /\ disk' = disk /\ events' = events /\ lastAuthHashes' = lastAuthHashes /\ missed' = missed
  /\ op'[Handler] = op[Handler] \/ (op[Handler].step \notin Busy /\ op'[Handler].step \notin Busy)
  /\ op[Main].step = "scanning" => op'[Main].step = "scanning"

LEMMA PipelineKept == PipelineInv /\ PipelineSame => PipelineInv'
PROOF
BY DEF PipelineInv, PipelineSame, UpdatesSame, Newest, Has, InHand, InMap, InBatch, SentAt, LastSent

LEMMA SourcesKept == SourcesInv /\ SourcesSame => SourcesInv'
PROOF BY DEF SourcesInv, SourcesSame

LEMMA FilesKept == FilesInv /\ FilesSame => FilesInv'
PROOF
<1> SUFFICES ASSUME FilesInv, FilesSame PROVE FilesInv'
  OBVIOUS
<1>1. EventsTell'
  BY DEF FilesInv, FilesSame, EventsTell, EventOf
<1>2. HandlerTells'
  <2>1. CASE op'[Handler] = op[Handler]
    BY <2>1 DEF FilesInv, FilesSame, HandlerTells, Announced, EventOf, At
  <2>2. CASE op'[Handler].step \notin Busy
    BY <2>2 DEF HandlerTells
  <2> QED
    BY <2>1, <2>2 DEF FilesSame
<1>3. ASSUME op'[Main].step # "scanning", NEW f \in Files \ missed'
      PROVE  Followed(f)'
  <2>1. Followed(f)
    BY <1>3 DEF FilesInv, FilesSame, At
  <2>2. Announced(f)' <=> Announced(f)
    BY DEF FilesSame, Announced, EventOf
  <2>3. CASE op'[Handler] = op[Handler]
    BY <2>1, <2>2, <2>3 DEF FilesSame, Followed
  <2>4. CASE op[Handler].step \notin Busy /\ op'[Handler].step \notin Busy
    BY <2>1, <2>2, <2>4 DEF FilesSame, Followed
  <2> QED
    BY <2>3, <2>4 DEF FilesSame
<1> QED
  BY <1>1, <1>2, <1>3 DEF FilesInv, At

\* A goroutine whose record is not the handler's, and no refresh's, changes
\* nothing that the invariants about sources and files are about.
LEMMA OtherSteps ==
  ASSUME NEW g \in Goroutines, OthersSame(g)
  PROVE  /\ g \notin Reloading => (Refreshing => Refreshing')
         /\ g # Handler => op'[Handler] = op[Handler]
         /\ g # Main => op'[Main] = op[Main]
         /\ op'[g].updates = op[g].updates => UpdatesSame
         /\ g \in Reloading /\ op'[g].step \in {"filtering", "reading", "preparing"} => Refreshing'
         /\ g \in Reloading /\ op[g].step \notin {"scanning", "filtering", "reading", "preparing"}
              => (Refreshing => Refreshing')
PROOF BY SourceFacts DEF OthersSame, UpdatesSame, Refreshing

-----------------------------------------------------------------------------
(***************************************************************************)
(* The queue of file events.                                               *)
(***************************************************************************)
LEMMA EventAppended ==
  ASSUME FilesTyped, NEW e \in Events, e.kind # "config" => e.file \in Files,
         events' = Append(events, e), NEW n \in Nat, n = Len(events) + 1
  PROVE  /\ events' \in Seq(Events)
         /\ \A i \in 1..Len(events') : events'[i].kind # "config" => events'[i].file \in Files
         /\ n \in 1..Len(events') /\ events'[n] = e /\ Len(events') = n
         /\ \A i \in 1..Len(events) : events'[i] = events[i]
         /\ \A i : i \in 1..Len(events') <=> i \in 1..Len(events) \/ i = n
         /\ n \notin 1..Len(events)
         /\ \A f : EventOf(f, n)' <=> e.kind # "config" /\ e.file = f
         /\ \A f, i : i # n => (EventOf(f, i)' <=> EventOf(f, i))
PROOF
<1>1. events \in Seq(Events) /\ Len(events) \in Nat
  BY DEF FilesTyped
<1>2. /\ events' \in Seq(Events) /\ Len(events') = n
      /\ \A i \in 1..Len(events) : events'[i] = events[i]
      /\ events'[n] = e
  BY <1>1
<1>3. n \in 1..Len(events') /\ n \notin 1..Len(events)
      /\ \A i : i \in 1..Len(events') <=> i \in 1..Len(events) \/ i = n
  BY <1>1, <1>2
<1>4. \A i \in 1..Len(events') : events'[i].kind # "config" => events'[i].file \in Files
  BY <1>2, <1>3 DEF FilesTyped
<1>5. \A f : EventOf(f, n)' <=> e.kind # "config" /\ e.file = f
  BY <1>2, <1>3 DEF EventOf
<1>6. \A f, i : i # n => (EventOf(f, i)' <=> EventOf(f, i))
  BY <1>2, <1>3 DEF EventOf
<1> QED
  BY <1>2, <1>3, <1>4, <1>5, <1>6

LEMMA EventTaken ==
  ASSUME FilesTyped, events # <<>>, events' = Tail(events)
  PROVE  /\ events' \in Seq(Events) /\ Head(events) \in Events /\ Head(events) = events[1]
         /\ \A i \in 1..Len(events') : events'[i].kind # "config" => events'[i].file \in Files
         /\ Len(events) \in Nat \ {0} /\ Len(events') = Len(events) - 1
         /\ \A f, i : EventOf(f, i)' <=> i \in 1..Len(events') /\ EventOf(f, i + 1)
         /\ \A f, i : i # 1 /\ EventOf(f, i) => EventOf(f, i - 1)'
         /\ \A f : EventOf(f, 1) <=> Head(events).kind # "config" /\ Head(events).file = f
PROOF
<1>1. events \in Seq(Events) /\ Len(events) \in Nat \ {0}
  BY DEF FilesTyped
<1>2. /\ events' \in Seq(Events) /\ Head(events) \in Events /\ Head(events) = events[1]
      /\ Len(events') = Len(events) - 1
      /\ \A i \in 1..Len(events') : events'[i] = events[i + 1]
  BY <1>1
<1>3. \A i \in 1..Len(events') : i + 1 \in 1..Len(events) /\ i + 1 # 1
  BY <1>1, <1>2
<1>4. \A i \in 1..Len(events') : events'[i].kind # "config" => events'[i].file \in Files
  BY <1>2, <1>3 DEF FilesTyped
<1>5. \A f, i : EventOf(f, i)' <=> i \in 1..Len(events') /\ EventOf(f, i + 1)
  BY <1>2, <1>3 DEF EventOf
<1>6. \A f, i : i # 1 /\ EventOf(f, i) => EventOf(f, i - 1)'
  <2> TAKE f, i
  <2> HAVE i # 1 /\ EventOf(f, i)
  <2>1. i \in 1..Len(events) /\ i - 1 \in 1..Len(events') /\ (i - 1) + 1 = i
    BY <1>1, <1>2 DEF EventOf
  <2>2. EventOf(f, (i - 1) + 1)
    BY <2>1
  <2> QED
    BY <1>5, <2>1, <2>2
<1>7. \A f : EventOf(f, 1) <=> Head(events).kind # "config" /\ Head(events).file = f
  BY <1>1, <1>2 DEF EventOf
<1> QED
  BY <1>1, <1>2, <1>4, <1>5, <1>6, <1>7

\* What an event taken from the queue leaves.
LEMMA TakenTells ==
  ASSUME FilesTyped, EventsTell, events # <<>>, events' = Tail(events), disk' = disk
  PROVE  /\ EventsTell'
         /\ \A f \in Files : ~Announced(f)' => \/ ~Announced(f)
                                               \/ /\ Head(events).file = f
                                                  /\ Head(events).kind # "config"
                                                  /\ Head(events).kind = "remove" <=> disk[f] = None
PROOF
<1>1. /\ Len(events) \in Nat \ {0} /\ Len(events') = Len(events) - 1
      /\ \A i \in 1..Len(events') : events'[i] = events[i + 1]
  BY DEF FilesTyped
<1>2. EventsTell'
  <2> SUFFICES ASSUME NEW f \in Files, NEW i \in 1..Len(events'), EventOf(f, i)',
                      \A j \in 1..Len(events') : EventOf(f, j)' => j <= i
               PROVE  (events'[i].kind = "remove") <=> (disk[f] = None)
    BY DEF EventsTell
  <2>1. i + 1 \in 1..Len(events) /\ EventOf(f, i + 1) /\ events'[i] = events[i + 1]
    BY <1>1, EventTaken
  <2>2. ASSUME NEW j \in 1..Len(events), EventOf(f, j) PROVE j <= i + 1
    <3>1. CASE j = 1
      BY <1>1, <3>1
    <3>2. CASE j # 1
      <4>1. EventOf(f, j - 1)' /\ j - 1 \in 1..Len(events')
        BY <1>1, <2>2, <3>2, EventTaken
      <4>2. j - 1 <= i
        BY <4>1
      <4> QED
        BY <1>1, <4>2
    <3> QED
      BY <3>1, <3>2
  <2> QED
    BY <2>1, <2>2 DEF EventsTell
<1>3. ASSUME NEW f \in Files, ~Announced(f)', Announced(f)
      PROVE  /\ Head(events).file = f
             /\ Head(events).kind # "config"
             /\ Head(events).kind = "remove" <=> disk[f] = None
  <2>1. \A i \in 1..Len(events) : EventOf(f, i) => i = 1
    <3> SUFFICES ASSUME NEW i \in 1..Len(events), EventOf(f, i), i # 1 PROVE FALSE
      OBVIOUS
    <3>1. EventOf(f, i - 1)' /\ i - 1 \in 1..Len(events')
      BY <1>1, EventTaken
    <3> QED
      BY <1>3, <3>1 DEF Announced
  <2>2. EventOf(f, 1) /\ 1 \in 1..Len(events)
    BY <1>1, <1>3, <2>1 DEF Announced
  <2>3. (events[1].kind = "remove") <=> (disk[f] = None)
    BY <2>1, <2>2 DEF EventsTell
  <2>4. Head(events) = events[1] /\ Head(events).kind # "config" /\ Head(events).file = f
    BY <2>2, EventTaken
  <2> QED
    BY <2>3, <2>4
<1> QED
  BY <1>2, <1>3

-----------------------------------------------------------------------------
(***************************************************************************)
(* The world: files, the configuration, the window of the debounce.        *)
(***************************************************************************)
LEMMA FileChanges ==
  ASSUME WatcherInv, NEW f \in Files, NEW content \in Contents \cup {None, Empty},
         NEW kind \in {"write", "remove"}, (kind = "remove") <=> (content = None),
         ChangeFile(f, content, kind)
  PROVE  WatcherInv'
PROOF
<1>1. PICK e : e = [kind |-> kind, file |-> f]
  OBVIOUS
<1>2. e \in Events /\ e.kind # "config" /\ e.file = f /\ e.kind = kind /\ events' = Append(events, e)
  BY <1>1 DEF Events, ChangeFile, Event
<1>3. Len(events) \in Nat /\ FilesTyped
  BY DEF WatcherInv, Typed, FilesTyped
<1>4. PICK n \in Nat : n = Len(events) + 1
  BY <1>3
<1>5. /\ events' \in Seq(Events)
      /\ \A i \in 1..Len(events') : events'[i].kind # "config" => events'[i].file \in Files
      /\ n \in 1..Len(events') /\ events'[n] = e
      /\ \A i \in 1..Len(events) : events'[i] = events[i]
      /\ \A i : i \in 1..Len(events') <=> i \in 1..Len(events) \/ i = n
      /\ n \notin 1..Len(events)
      /\ \A g : EventOf(g, n)' <=> f = g
      /\ \A g, i : i # n => (EventOf(g, i)' <=> EventOf(g, i))
  BY <1>2, <1>3, <1>4, EventAppended
<1>6. /\ disk' = [disk EXCEPT ![f] = content] /\ missed' = missed \ {f} /\ op' = op
      /\ lastAuthHashes' = lastAuthHashes
  BY DEF ChangeFile, maps
<1>7. disk'[f] = content /\ \A g \in Files \ {f} : disk'[g] = disk[g]
  BY <1>3, <1>6 DEF FilesTyped
<1>8. Announced(f)' /\ \A g \in Files \ {f} : Announced(g)' <=> Announced(g)
  BY <1>5 DEF Announced
<1>9. Typed'
  <2>1. FilesTyped'
    BY <1>3, <1>5, <1>6 DEF FilesTyped, ChangeFile
  <2>2. MapsTyped' /\ PipelineTyped' /\ OpsTyped'
    BY DEF WatcherInv, Typed, ChangeFile, maps, pipeline, MapsTyped, PipelineTyped, OpsTyped
  <2> QED
    BY <2>1, <2>2 DEF Typed
<1>10. PipelineSame /\ SourcesSame
  BY DEF ChangeFile, maps, pipeline, PipelineSame, SourcesSame, UpdatesSame, Refreshing
<1>11. EventsTell'
  <2> SUFFICES ASSUME NEW g \in Files, NEW i \in 1..Len(events'), EventOf(g, i)',
                      \A j \in 1..Len(events') : EventOf(g, j)' => j <= i
               PROVE  (events'[i].kind = "remove") <=> (disk'[g] = None)
    BY DEF EventsTell
  <2>1. CASE g = f
    <3>1. n <= i
      BY <1>5, <2>1
    <3>2. i = n
      BY <1>3, <1>4, <1>5, <3>1
    <3> QED
      BY <1>2, <1>5, <1>7, <2>1, <3>2
  <2>2. CASE g # f
    <3>1. i # n /\ i \in 1..Len(events) /\ EventOf(g, i) /\ events'[i] = events[i]
      BY <1>5, <2>2
    <3>2. \A j \in 1..Len(events) : EventOf(g, j) => j <= i
      BY <1>5, <2>2
    <3> QED
      BY <1>7, <2>2, <3>1, <3>2 DEF WatcherInv, FilesInv, EventsTell
  <2> QED
    BY <2>1, <2>2
<1>12. HandlerTells'
  <2>1. op[Handler].step \in Busy => op[Handler].file \in Files
    BY SourceFacts DEF WatcherInv, Typed, OpsTyped, OpOK
  <2>2. SUFFICES ASSUME op[Handler].step \in Busy, NEW g \in Files, g = op[Handler].file,
                        ~Announced(g)'
                 PROVE  HandlerTells'
    BY <1>6, <2>1 DEF HandlerTells, Announced, EventOf
  <2>3. g # f /\ ~Announced(g) /\ disk'[g] = disk[g]
    BY <1>7, <1>8, <2>2
  <2> QED
    BY <1>6, <2>2, <2>3 DEF WatcherInv, FilesInv, HandlerTells, At
<1>13. ASSUME ~At(Main, "scanning"), NEW g \in Files \ missed' PROVE Followed(g)'
  <2>1. CASE g = f
    BY <1>8, <2>1 DEF Followed
  <2>2. CASE g # f
    <3>1. Followed(g)
      BY <1>6, <1>13, <2>2 DEF WatcherInv, FilesInv
    <3> QED
      BY <1>6, <1>7, <1>8, <2>2, <3>1 DEF Followed
  <2> QED
    BY <2>1, <2>2
<1>14. FilesInv'
  BY <1>6, <1>11, <1>12, <1>13 DEF FilesInv, At
<1> QED
  BY <1>9, <1>10, <1>14, PipelineKept, SourcesKept DEF WatcherInv

LEMMA ConfigChanges ==
  ASSUME WatcherInv, NEW c \in Configs \cup {Broken}, EditConfig(c)
  PROVE  WatcherInv'
PROOF
<1>1. PICK e : e = [kind |-> "config", file |-> None]
  OBVIOUS
<1>2. e \in Events /\ e.kind = "config" /\ events' = Append(events, e)
  BY <1>1 DEF Events, EditConfig, Event
<1>3. Len(events) \in Nat /\ FilesTyped
  BY DEF WatcherInv, Typed, FilesTyped
<1>4. PICK n \in Nat : n = Len(events) + 1
  BY <1>3
<1>5. /\ events' \in Seq(Events)
      /\ \A i \in 1..Len(events') : events'[i].kind # "config" => events'[i].file \in Files
      /\ \A i \in 1..Len(events) : events'[i] = events[i]
      /\ \A i : i \in 1..Len(events') <=> i \in 1..Len(events) \/ i = n
      /\ n \notin 1..Len(events)
      /\ \A g : ~EventOf(g, n)'
      /\ \A g, i : i # n => (EventOf(g, i)' <=> EventOf(g, i))
  BY <1>2, <1>3, <1>4, EventAppended
<1>6. /\ disk' = disk /\ missed' = missed /\ op' = op /\ lastAuthHashes' = lastAuthHashes
  BY DEF EditConfig, maps, history
<1>7. \A g, i : EventOf(g, i)' <=> i \in 1..Len(events) /\ EventOf(g, i)
  BY <1>3, <1>4, <1>5 DEF EventOf
<1>8. \A g : Announced(g)' <=> Announced(g)
  BY <1>5, <1>7 DEF Announced
<1>9. Typed'
  <2>1. FilesTyped'
    BY <1>3, <1>5, <1>6 DEF FilesTyped, EditConfig
  <2>2. MapsTyped' /\ PipelineTyped' /\ OpsTyped'
    BY DEF WatcherInv, Typed, EditConfig, maps, pipeline, MapsTyped, PipelineTyped, OpsTyped
  <2> QED
    BY <2>1, <2>2 DEF Typed
<1>10. PipelineSame /\ SourcesSame
  BY DEF EditConfig, maps, pipeline, history, PipelineSame, SourcesSame, UpdatesSame, Refreshing
<1>11. EventsTell'
  <2> SUFFICES ASSUME NEW g \in Files, NEW i \in 1..Len(events'), EventOf(g, i)',
                      \A j \in 1..Len(events') : EventOf(g, j)' => j <= i
               PROVE  (events'[i].kind = "remove") <=> (disk'[g] = None)
    BY DEF EventsTell
  <2>1. i \in 1..Len(events) /\ EventOf(g, i) /\ events'[i] = events[i]
    BY <1>5, <1>7
  <2>2. \A j \in 1..Len(events) : EventOf(g, j) => j <= i
    BY <1>5, <1>7
  <2> QED
    BY <1>6, <2>1, <2>2 DEF WatcherInv, FilesInv, EventsTell
<1>12. HandlerTells' /\ (~At(Main, "scanning") => \A f \in Files \ missed' : Followed(f)')
  BY <1>6, <1>8 DEF WatcherInv, FilesInv, HandlerTells, Followed, At
<1>13. FilesInv'
  BY <1>6, <1>11, <1>12 DEF FilesInv, At
<1> QED
  BY <1>9, <1>10, <1>13, PipelineKept, SourcesKept DEF WatcherInv

LEMMA WindowPasses ==
  ASSUME WatcherInv, NEW f \in Files, WindowEnds(f)
  PROVE  WatcherInv'
PROOF
<1>1. Typed'
  BY DEF WatcherInv, Typed, WindowEnds, files, pipeline, FilesTyped, MapsTyped, PipelineTyped,
         OpsTyped
<1>2. PipelineSame /\ SourcesSame /\ FilesSame
  BY DEF WindowEnds, files, pipeline, history, PipelineSame, SourcesSame, FilesSame, UpdatesSame,
         Refreshing
<1> QED
  BY <1>1, <1>2, PipelineKept, SourcesKept, FilesKept DEF WatcherInv

-----------------------------------------------------------------------------
(***************************************************************************)
(* The goroutine of the file events.                                       *)
(***************************************************************************)
Told(f) == Head(events).kind # "config" /\ Head(events).file = f

\* When the idle handler takes an event, only the file the event tells of
\* may be one that it has to look at.
LEMMA EventHandled ==
  ASSUME WatcherInv, At(Handler, "idle"), events # <<>>, events' = Tail(events), UNCHANGED files
  PROVE  /\ FilesTyped' /\ EventsTell' /\ Head(events) \in Events
         /\ \A f \in Files : ~Announced(f)' /\ Told(f) =>
              ((Head(events).kind = "remove") <=> (disk[f] = None))
         /\ ~At(Main, "scanning") =>
              \A f \in Files \ missed :
                ~Announced(f)' /\ ~Told(f) /\ disk[f] # Empty => lastAuthHashes[f] = disk[f]
         /\ Head(events).kind # "config" => Head(events).file \in Files
PROOF
<1>1. FilesTyped /\ disk' = disk /\ configFile' = configFile /\ Len(events) \in Nat \ {0}
  BY DEF WatcherInv, Typed, files, FilesTyped
<1>2. /\ events' \in Seq(Events) /\ Head(events) \in Events /\ Head(events) = events[1]
      /\ \A i \in 1..Len(events') : events'[i].kind # "config" => events'[i].file \in Files
      /\ \A f : EventOf(f, 1) <=> Told(f)
  BY <1>1, EventTaken DEF Told
<1>3. FilesTyped'
  BY <1>1, <1>2 DEF FilesTyped
<1>4. EventsTell' /\ \A f \in Files : ~Announced(f)' => \/ ~Announced(f)
                                               \/ /\ Head(events).file = f
                                                  /\ Head(events).kind # "config"
                                                  /\ (Head(events).kind = "remove") <=> (disk[f] = None)
  BY <1>1, TakenTells DEF WatcherInv, FilesInv
<1>5. ASSUME NEW f \in Files, ~Announced(f)', Told(f)
      PROVE  (Head(events).kind = "remove") <=> (disk[f] = None)
  <2>1. EventOf(f, 1) /\ 1 \in 1..Len(events)
    BY <1>1, <1>2, <1>5
  <2>2. Announced(f)
    BY <2>1 DEF Announced
  <2> QED
    BY <1>4, <1>5, <2>2
<1>6. ASSUME ~At(Main, "scanning"), NEW f \in Files \ missed, ~Announced(f)', ~Told(f),
             disk[f] # Empty
      PROVE  lastAuthHashes[f] = disk[f]
  <2>1. ~Announced(f)
    BY <1>4, <1>6 DEF Told
  <2>2. Followed(f) /\ op[Handler].step \notin Busy
    BY <1>6 DEF WatcherInv, FilesInv, At, Busy
  <2> QED
    BY <1>6, <2>1, <2>2 DEF Followed
<1>7. Head(events).kind # "config" => Head(events).file \in Files
  BY <1>1, <1>2 DEF FilesTyped
<1> QED
  BY <1>2, <1>3, <1>4, <1>5, <1>6, <1>7

LEMMA ConfigEvents ==
  ASSUME WatcherInv, HandleConfigEvent
  PROVE  WatcherInv'
PROOF
<1>1. /\ At(Handler, "idle") /\ events # <<>> /\ events' = Tail(events) /\ UNCHANGED files
      /\ Head(events).kind = "config" /\ op' = op /\ disk' = disk /\ missed' = missed
      /\ lastAuthHashes' = lastAuthHashes
  BY DEF HandleConfigEvent, Handle, files, maps, history
<1>2. /\ FilesTyped' /\ EventsTell'
      /\ ~At(Main, "scanning") =>
           \A f \in Files \ missed :
             ~Announced(f)' /\ ~Told(f) /\ disk[f] # Empty => lastAuthHashes[f] = disk[f]
  BY <1>1, EventHandled
<1>3. Typed'
  BY <1>2 DEF WatcherInv, Typed, HandleConfigEvent, maps, pipeline, MapsTyped, PipelineTyped, OpsTyped
<1>4. PipelineSame /\ SourcesSame
  BY DEF HandleConfigEvent, maps, pipeline, history, PipelineSame, SourcesSame, UpdatesSame, Refreshing
<1>5. FilesInv'
  <2>1. HandlerTells'
    BY <1>1 DEF HandlerTells, At, Busy
  <2>2. ASSUME ~At(Main, "scanning")', NEW f \in Files \ missed' PROVE Followed(f)'
    BY <1>1, <1>2, <2>2 DEF Followed, Told, At
  <2> QED
    BY <1>2, <2>1, <2>2 DEF FilesInv
<1> QED
  BY <1>3, <1>4, <1>5, PipelineKept, SourcesKept DEF WatcherInv

\* An idle handler takes up a file.
LEMMA HandlerBegins ==
  ASSUME WatcherInv, At(Handler, "idle"), NEW f \in Files, NEW s \in {"checking", "settling"},
         op' = [op EXCEPT ![Handler] = [Idle EXCEPT !.step = s, !.file = f]]
  PROVE  /\ OpsTyped' /\ OthersSame(Handler) /\ op'[Handler].step = s /\ op'[Handler].file = f
         /\ UpdatesSame
PROOF
<1>1. PICK n : n = [Idle EXCEPT !.step = s, !.file = f]
  OBVIOUS
<1>2. n \in OpRecords /\ n.step = s /\ n.file = f /\ n.updates = NoUpdates
  BY <1>1, IdleFacts DEF OpRecords, Steps, Idle
<1>3. OpOK(Handler, n)
  BY <1>2 DEF OpOK, Busy
<1>4. OpsTyped /\ Handler \in Goroutines /\ op[Handler].updates = NoUpdates
  BY SourceFacts DEF WatcherInv, Typed, OpsTyped, OpOK, At
<1>5. OpsTyped' /\ op'[Handler] = n /\ OthersSame(Handler)
  BY <1>1, <1>2, <1>3, <1>4, OpMoves
<1>6. UpdatesSame
  BY <1>2, <1>4, <1>5, OtherSteps
<1> QED
  BY <1>2, <1>5, <1>6

LEMMA WriteEvents ==
  ASSUME WatcherInv, HandleWriteEvent
  PROVE  WatcherInv'
PROOF
<1>1. /\ At(Handler, "idle") /\ events # <<>> /\ events' = Tail(events) /\ UNCHANGED files
      /\ Head(events).kind = "write" /\ disk' = disk /\ missed' = missed
      /\ lastAuthHashes' = lastAuthHashes
  BY DEF HandleWriteEvent, Handle, files, maps, history
<1>2. PICK f : f = Head(events).file
  OBVIOUS
<1>3. /\ FilesTyped' /\ EventsTell' /\ f \in Files
      /\ ~Announced(f)' => disk[f] # None
      /\ ~At(Main, "scanning") =>
           \A g \in Files \ missed :
             ~Announced(g)' /\ g # f /\ disk[g] # Empty => lastAuthHashes[g] = disk[g]
  BY <1>1, <1>2, EventHandled DEF Told
<1>4. /\ OpsTyped' /\ OthersSame(Handler) /\ op'[Handler].step = "checking"
      /\ op'[Handler].file = f /\ UpdatesSame
  BY <1>1, <1>2, <1>3, HandlerBegins DEF HandleWriteEvent
<1>5. /\ Handler \in Goroutines /\ Handler \notin Reloading /\ Handler # Main
      /\ (Refreshing => Refreshing') /\ op'[Main] = op[Main]
  BY <1>4, SourceFacts, OtherSteps DEF OthersSame
<1>6. Typed'
  BY <1>3, <1>4 DEF WatcherInv, Typed, HandleWriteEvent, maps, pipeline, MapsTyped, PipelineTyped
<1>7. PipelineSame /\ SourcesSame
  BY <1>4, <1>5 DEF HandleWriteEvent, maps, pipeline, history, PipelineSame, SourcesSame
<1>8. FilesInv'
  <2>1. HandlerTells'
    BY <1>1, <1>3, <1>4 DEF HandlerTells, At, Announced, EventOf
  <2>2. ASSUME op'[Main].step # "scanning", NEW g \in Files \ missed' PROVE Followed(g)'
    <3>1. CASE g = f
      BY <1>4, <3>1 DEF Followed, Busy
    <3>2. CASE g # f
      BY <1>1, <1>3, <1>5, <2>2, <3>2 DEF Followed, At
    <3> QED
      BY <3>1, <3>2
  <2> QED
    BY <1>3, <2>1, <2>2 DEF FilesInv, At
<1> QED
  BY <1>6, <1>7, <1>8, PipelineKept, SourcesKept DEF WatcherInv

LEMMA RemoveEvents ==
  ASSUME WatcherInv, HandleRemoveEvent
  PROVE  WatcherInv'
PROOF
<1>1. /\ At(Handler, "idle") /\ events # <<>> /\ events' = Tail(events) /\ UNCHANGED files
      /\ Head(events).kind = "remove" /\ disk' = disk /\ lastAuthHashes' = lastAuthHashes
  BY DEF HandleRemoveEvent, Handle, files
<1>2. PICK f : f = Head(events).file
  OBVIOUS
<1>3. /\ FilesTyped' /\ EventsTell' /\ f \in Files
      /\ ~Announced(f)' => disk[f] = None
      /\ ~At(Main, "scanning") =>
           \A g \in Files \ missed :
             ~Announced(g)' /\ g # f /\ disk[g] # Empty => lastAuthHashes[g] = disk[g]
  BY <1>1, <1>2, EventHandled DEF Told
<1>4. DebounceRemove(f) \/ BeginRemove(f)
  BY <1>2 DEF HandleRemoveEvent
<1>5. CASE DebounceRemove(f)
  <2>1. /\ op' = op /\ lastRemoveTimes' = lastRemoveTimes
        /\ missed' = IF disk[f] = None THEN missed \cup {f} ELSE missed
    BY <1>5 DEF DebounceRemove
  <2>2. Typed'
    BY <1>3, <2>1 DEF WatcherInv, Typed, HandleRemoveEvent, pipeline, MapsTyped, PipelineTyped, OpsTyped
  <2>3. PipelineSame /\ SourcesSame
    BY <2>1 DEF HandleRemoveEvent, pipeline, PipelineSame, SourcesSame, UpdatesSame, Refreshing
  <2>4. HandlerTells'
    BY <1>1, <2>1 DEF HandlerTells, At, Busy
  <2>5. ASSUME op'[Main].step # "scanning", NEW g \in Files \ missed' PROVE Followed(g)'
    <3>1. g \notin missed /\ (g = f => disk[f] # None)
      BY <2>1, <2>5
    <3> QED
      BY <1>1, <1>3, <2>1, <2>5, <3>1 DEF Followed, At
  <2>6. FilesInv'
    BY <1>3, <2>4, <2>5 DEF FilesInv, At
  <2> QED
    BY <2>2, <2>3, <2>6, PipelineKept, SourcesKept DEF WatcherInv
<1>6. CASE BeginRemove(f)
  <2>1. /\ missed' = missed /\ lastRemoveTimes' = lastRemoveTimes \cup {f}
        /\ op' = [op EXCEPT ![Handler] = [Idle EXCEPT !.step = "settling", !.file = f]]
    BY <1>6 DEF BeginRemove
  <2>2. /\ OpsTyped' /\ OthersSame(Handler) /\ op'[Handler].step = "settling"
        /\ op'[Handler].file = f /\ UpdatesSame
    BY <1>1, <1>3, <2>1, HandlerBegins
  <2>3. /\ Handler \in Goroutines /\ Handler \notin Reloading /\ Handler # Main
        /\ (Refreshing => Refreshing') /\ op'[Main] = op[Main]
    BY <2>2, SourceFacts, OtherSteps DEF OthersSame
  <2>4. Typed'
    BY <1>3, <2>1, <2>2 DEF WatcherInv, Typed, HandleRemoveEvent, pipeline, MapsTyped, PipelineTyped
  <2>5. PipelineSame /\ SourcesSame
    BY <2>2, <2>3 DEF HandleRemoveEvent, pipeline, PipelineSame, SourcesSame
  <2>6. HandlerTells'
    BY <2>2 DEF HandlerTells, At
  <2>7. ASSUME op'[Main].step # "scanning", NEW g \in Files \ missed' PROVE Followed(g)'
    <3>1. CASE g = f
      BY <2>2, <3>1 DEF Followed, Busy
    <3>2. CASE g # f
      BY <1>1, <1>3, <2>1, <2>3, <2>7, <3>2 DEF Followed, At
    <3> QED
      BY <3>1, <3>2
  <2>8. FilesInv'
    BY <1>3, <2>6, <2>7 DEF FilesInv, At
  <2> QED
    BY <2>4, <2>5, <2>8, PipelineKept, SourcesKept DEF WatcherInv
<1> QED
  BY <1>4, <1>5, <1>6

\* A step of the handler on its file f: it goes on, or it rests and what was
\* processed last is what the file says.
LEMMA HandlerMoves ==
  ASSUME WatcherInv, UNCHANGED <<files, events, timer, maps, pipeline, left, history>>,
         OpsTyped', OthersSame(Handler), op'[Handler].updates = op[Handler].updates,
         op[Handler].step \in Busy, NEW f \in Files, f = op[Handler].file, HandlerTells',
         \/ op'[Handler].step \in Busy /\ op'[Handler].file = f
         \/ disk[f] # Empty /\ ~Announced(f) => lastAuthHashes[f] = disk[f]
  PROVE  WatcherInv'
PROOF
<1>1. /\ Handler \in Goroutines /\ Handler \notin Reloading /\ Handler # Main /\ UpdatesSame
      /\ (Refreshing => Refreshing') /\ op'[Main] = op[Main]
  BY SourceFacts, OtherSteps
<1>2. disk' = disk /\ events' = events /\ missed' = missed /\ lastAuthHashes' = lastAuthHashes
  BY DEF files, maps, history
<1>3. Typed'
  BY DEF WatcherInv, Typed, files, maps, pipeline, FilesTyped, MapsTyped, PipelineTyped
<1>4. PipelineSame /\ SourcesSame
  BY <1>1 DEF maps, pipeline, history, PipelineSame, SourcesSame
<1>5. EventsTell' /\ \A g : Announced(g)' <=> Announced(g)
  BY <1>2 DEF WatcherInv, FilesInv, EventsTell, Announced, EventOf
<1>6. ASSUME op'[Main].step # "scanning", NEW g \in Files \ missed' PROVE Followed(g)'
  <2>1. Followed(g)
    BY <1>1, <1>2, <1>6 DEF WatcherInv, FilesInv, At
  <2>2. CASE g = f
    BY <1>2, <1>5, <2>2 DEF Followed
  <2>3. CASE g # f
    BY <1>2, <1>5, <2>1, <2>3 DEF Followed
  <2> QED
    BY <2>2, <2>3
<1>7. FilesInv'
  BY <1>5, <1>6 DEF FilesInv, At
<1> QED
  BY <1>3, <1>4, <1>7, PipelineKept, SourcesKept DEF WatcherInv

\* What the invariants say of a handler that works on a file.
LEMMA HandlerBusy ==
  ASSUME WatcherInv, op[Handler].step \in Busy
  PROVE  /\ Handler \in Goroutines /\ OpsTyped /\ op[Handler].step # "queueing"
         /\ op[Handler].file \in Files /\ op[Handler].updates = NoUpdates
         /\ At(Handler, "committing") => op[Handler].content \in Contents
         /\ ~Announced(op[Handler].file) =>
              /\ At(Handler, "checking") \/ At(Handler, "reading") => disk[op[Handler].file] # None
              /\ At(Handler, "committing") => op[Handler].content = disk[op[Handler].file]
              /\ At(Handler, "removing") => disk[op[Handler].file] = None
PROOF
<1>1. Handler \in Goroutines /\ OpsTyped /\ OpOK(Handler, op[Handler]) /\ HandlerTells
  BY SourceFacts DEF WatcherInv, Typed, OpsTyped, FilesInv
<1>2. op[Handler].step # "queueing"
  BY DEF Busy
<1> QED
  BY <1>1, <1>2 DEF OpOK, HandlerTells, At

\* A step that changes only what its goroutine is doing leaves the events.
LEMMA AnnouncedSame ==
  ASSUME events' = events
  PROVE  \A f : Announced(f)' <=> Announced(f)
PROOF BY DEF Announced, EventOf

LEMMA RemovalSettles ==
  ASSUME WatcherInv, Settle
  PROVE  WatcherInv'
PROOF
<1>1. /\ At(Handler, "settling") /\ op[Handler].step \in Busy
      /\ UNCHANGED <<files, events, timer, maps, pipeline, left, history>>
      /\ disk' = disk /\ events' = events
  BY DEF Settle, At, Busy, files
<1>2. PICK f \in Files : f = op[Handler].file
  BY <1>1, HandlerBusy
<1>3. /\ Handler \in Goroutines /\ OpsTyped /\ op[Handler].step # "queueing"
  BY <1>1, HandlerBusy
<1>4. \/ disk[f] # None /\ Go(Handler, "checking")
      \/ disk[f] = None /\ lastAuthHashes[f] # None /\ Go(Handler, "removing")
      \/ disk[f] = None /\ lastAuthHashes[f] = None /\ Rest(Handler)
  BY <1>2 DEF Settle
<1>5. CASE disk[f] # None /\ Go(Handler, "checking")
  <2>1. /\ OpsTyped' /\ OthersSame(Handler) /\ op'[Handler].step = "checking"
        /\ op'[Handler].file = f /\ op'[Handler].updates = op[Handler].updates
    BY <1>2, <1>3, <1>5, GoFacts DEF Steps, Busy
  <2>2. HandlerTells' /\ op'[Handler].step \in Busy
    BY <1>1, <1>5, <2>1 DEF HandlerTells, At, Busy
  <2> QED
    BY <1>1, <1>2, <2>1, <2>2, HandlerMoves
<1>6. CASE disk[f] = None /\ Go(Handler, "removing")
  <2>1. /\ OpsTyped' /\ OthersSame(Handler) /\ op'[Handler].step = "removing"
        /\ op'[Handler].file = f /\ op'[Handler].updates = op[Handler].updates
    BY <1>2, <1>3, <1>6, GoFacts DEF Steps, Busy
  <2>2. HandlerTells' /\ op'[Handler].step \in Busy
    BY <1>1, <1>6, <2>1 DEF HandlerTells, At, Busy
  <2> QED
    BY <1>1, <1>2, <2>1, <2>2, HandlerMoves
<1>7. CASE disk[f] = None /\ lastAuthHashes[f] = None /\ Rest(Handler)
  <2>1. /\ OpsTyped' /\ OthersSame(Handler) /\ op'[Handler].step = "idle"
        /\ op'[Handler].updates = op[Handler].updates
    BY <1>3, <1>7, RestFacts
  <2>2. HandlerTells'
    BY <2>1 DEF HandlerTells, Busy
  <2> QED
    BY <1>1, <1>2, <1>7, <2>1, <2>2, HandlerMoves
<1> QED
  BY <1>4, <1>5, <1>6, <1>7

LEMMA FileChecked ==
  ASSUME WatcherInv, CheckFile
  PROVE  WatcherInv'
PROOF
<1>1. /\ At(Handler, "checking") /\ op[Handler].step \in Busy
      /\ UNCHANGED <<files, events, timer, maps, pipeline, left, history>>
      /\ disk' = disk /\ events' = events
  BY DEF CheckFile, At, Busy, files
<1>2. PICK f \in Files : f = op[Handler].file
  BY <1>1, HandlerBusy
<1>3. /\ Handler \in Goroutines /\ OpsTyped /\ op[Handler].step # "queueing"
      /\ ~Announced(f) => disk[f] # None
  BY <1>1, <1>2, HandlerBusy
<1>4. CASE AuthFileUnchanged(f)
  <2>1. lastAuthHashes[f] = disk[f] /\ Rest(Handler)
    BY <1>2, <1>4 DEF CheckFile, AuthFileUnchanged
  <2>2. /\ OpsTyped' /\ OthersSame(Handler) /\ op'[Handler].step = "idle"
        /\ op'[Handler].updates = op[Handler].updates
    BY <1>3, <2>1, RestFacts
  <2>3. HandlerTells'
    BY <2>2 DEF HandlerTells, Busy
  <2> QED
    BY <1>1, <1>2, <2>1, <2>2, <2>3, HandlerMoves
<1>5. CASE ~AuthFileUnchanged(f)
  <2>1. Go(Handler, "reading")
    BY <1>2, <1>5 DEF CheckFile
  <2>2. /\ OpsTyped' /\ OthersSame(Handler) /\ op'[Handler].step = "reading"
        /\ op'[Handler].file = f /\ op'[Handler].updates = op[Handler].updates
    BY <1>2, <1>3, <2>1, GoFacts DEF Steps, Busy
  <2>3. HandlerTells' /\ op'[Handler].step \in Busy
    BY <1>1, <1>3, <2>2, AnnouncedSame DEF HandlerTells, At, Busy, Announced, EventOf
  <2> QED
    BY <1>1, <1>2, <2>2, <2>3, HandlerMoves
<1> QED
  BY <1>4, <1>5

LEMMA FileRead ==
  ASSUME WatcherInv, ReadFile
  PROVE  WatcherInv'
PROOF
<1>1. /\ At(Handler, "reading") /\ op[Handler].step \in Busy
      /\ UNCHANGED <<files, events, timer, maps, pipeline, left, history>>
      /\ disk' = disk /\ events' = events
  BY DEF ReadFile, At, Busy, files
<1>2. PICK f \in Files : f = op[Handler].file
  BY <1>1, HandlerBusy
<1>3. /\ Handler \in Goroutines /\ OpsTyped /\ op[Handler].step # "queueing"
      /\ op[Handler].updates = NoUpdates /\ ~Announced(f) => disk[f] # None
      /\ op[Handler].updates = NoUpdates
  BY <1>1, <1>2, HandlerBusy
<1>4. PICK c : c = disk[f]
  OBVIOUS
<1>5. CASE c \in {None, Empty}
  <2>1. Rest(Handler)
    BY <1>2, <1>4, <1>5 DEF ReadFile
  <2>2. /\ OpsTyped' /\ OthersSame(Handler) /\ op'[Handler].step = "idle"
        /\ op'[Handler].updates = op[Handler].updates
    BY <1>3, <2>1, RestFacts
  <2>3. HandlerTells'
    BY <2>2 DEF HandlerTells, Busy
  <2>4. Announced(f) \/ disk[f] = Empty
    BY <1>1, <1>2, <1>4, <1>5, HandlerBusy
  <2> QED
    BY <1>1, <1>2, <2>2, <2>3, <2>4, HandlerMoves
<1>6. CASE c \notin {None, Empty}
  <2>1. c \in Contents
    BY <1>4, <1>6 DEF WatcherInv, Typed, FilesTyped
  <2>2. PICK n : n = [op[Handler] EXCEPT !.step = "committing", !.content = c]
    OBVIOUS
  <2>3. op[Handler] \in OpRecords
    BY <1>3 DEF OpsTyped
  <2>4. op' = [op EXCEPT ![Handler] = n]
    <3>1. op' = [op EXCEPT ![Handler].step = "committing", ![Handler].content = c]
      BY <1>2, <1>4, <1>6 DEF ReadFile
    <3> QED
      BY <1>3, <2>2, <2>3, <3>1 DEF OpsTyped, OpRecords
  <2>5. /\ n \in OpRecords /\ n.step = "committing" /\ n.content = c /\ n.file = f
        /\ n.updates = NoUpdates
    BY <1>2, <1>3, <2>1, <2>2, <2>3 DEF OpRecords, Steps
  <2>6. OpOK(Handler, n)
    BY <2>1, <2>5 DEF OpOK, Busy
  <2>7. OpsTyped' /\ op'[Handler] = n /\ OthersSame(Handler)
    BY <1>3, <2>4, <2>5, <2>6, OpMoves
  <2>8. HandlerTells' /\ op'[Handler].step \in Busy
    BY <1>1, <1>4, <2>5, <2>7 DEF HandlerTells, At, Busy
  <2> QED
    BY <1>1, <1>2, <1>3, <2>5, <2>7, <2>8, HandlerMoves
<1> QED
  BY <1>5, <1>6

-----------------------------------------------------------------------------
(***************************************************************************)
(* Critical sections that change the credentials the watcher knows.        *)
(***************************************************************************)
\* A goroutine that holds none takes updates out of such a section: for each
\* credential it changes, the value the watcher now has.
LEMMA HoldKept ==
  ASSUME Typed, PipelineInv, NEW g \in Goroutines, op[g].step # "queueing", NEW u \in Updates,
         Hold(g, u), UNCHANGED pipeline,
         \A id \in DOMAIN u : currentAuths'[id] = u[id],
         \A id \in Ids \ DOMAIN u : currentAuths'[id] = currentAuths[id]
  PROVE  PipelineInv'
PROOF
<1>1. /\ OthersSame(g) /\ op'[g].updates = u
  BY HoldFacts DEF Typed
<1>2. op[g].updates = NoUpdates /\ DOMAIN NoUpdates = {} /\ DOMAIN u \subseteq Ids
  BY NoUpdatesFacts, UpdatesFacts DEF Typed, OpsTyped, OpOK
<1>3. loose' = (loose \ DOMAIN u) \cup (DOMAIN u \cap Held(g))
  BY DEF Hold
<1>4. /\ pendingUpdates' = pendingUpdates /\ dispatcher' = dispatcher
      /\ authUpdates' = authUpdates /\ applied' = applied
  BY DEF pipeline
<1>5. SUFFICES ASSUME NEW id \in Ids \ loose' PROVE Newest(id)'
  BY DEF PipelineInv
<1>6. /\ InMap(id)' <=> InMap(id)
      /\ InBatch(id)' <=> InBatch(id)
      /\ \A i : SentAt(id, i)' <=> SentAt(id, i)
      /\ \A i : LastSent(id, i)' <=> LastSent(id, i)
  BY <1>4 DEF InMap, InBatch, SentAt, LastSent
<1>7. CASE id \in DOMAIN u
  <2>1. \A h \in Goroutines \ {g} : id \notin DOMAIN op[h].updates
    BY <1>3, <1>7 DEF Held
  <2>2. \A h \in Goroutines : Has(h, id)' <=> h = g
    BY <1>1, <1>7, <2>1 DEF Has, OthersSame
  <2>3. InHand(id)'
    BY <2>2 DEF InHand
  <2>4. op'[g].updates[id] = currentAuths'[id]
    BY <1>1, <1>7
  <2> QED
    BY <2>2, <2>3, <2>4 DEF Newest
<1>8. CASE id \notin DOMAIN u
  <2>1. Newest(id) /\ currentAuths'[id] = currentAuths[id]
    BY <1>3, <1>8 DEF PipelineInv
  <2>2. \A h \in Goroutines : Has(h, id)' <=> Has(h, id)
    BY <1>1, <1>2, <1>8 DEF Has, OthersSame
  <2>3. \A h \in Goroutines : Has(h, id) => op'[h].updates = op[h].updates
    BY <1>1, <1>2 DEF Has, OthersSame
  <2>4. InHand(id)' <=> InHand(id)
    BY <2>2 DEF InHand
  <2> QED
    BY <1>4, <1>6, <2>1, <2>2, <2>3, <2>4 DEF Newest
<1> QED
  BY <1>7, <1>8

\* The updates of one file: what its new content yields and the watcher does
\* not have, and nothing for each credential it no longer yields.
LEMMA PerPathFacts ==
  ASSUME MapsTyped, NEW f \in Files, NEW old, NEW new, NEW u, u = PerPathUpdates(f, old, new)
  PROVE  /\ u \in Updates
         /\ \A id \in DOMAIN u :
              id \in {f} \X Projects /\ u[id] = FileAuth(new, id[2], config)
         /\ \A p \in Projects :
              <<f, p>> \in DOMAIN u <=>
                \/ p \in Given(new) /\ currentAuths[<<f, p>>] # FileAuth(new, p, config)
                \/ p \in Given(old) \ Given(new)
PROOF
<1>1. PICK changed : changed = {id \in {f} \X Given(new) :
                                  currentAuths[id] # FileAuth(new, id[2], config)}
  OBVIOUS
<1>2. PICK gone : gone = {f} \X (Given(old) \ Given(new))
  OBVIOUS
<1>3. u = [id \in changed \cup gone |-> FileAuth(new, id[2], config)]
  BY <1>1, <1>2 DEF PerPathUpdates
<1>4. DOMAIN u = changed \cup gone /\ \A id \in DOMAIN u : u[id] = FileAuth(new, id[2], config)
  BY <1>3
<1>5. Given(new) \subseteq Projects /\ Given(old) \subseteq Projects
  BY GivenFacts
<1>6. \A id \in DOMAIN u : id \in {f} \X Projects
  BY <1>1, <1>2, <1>4, <1>5
<1>7. config \in Configs
  BY DEF MapsTyped
<1>8. u \in Updates
  <2>1. DOMAIN u \subseteq Ids
    BY <1>6, SourceFacts
  <2>2. \A id \in DOMAIN u : u[id] \in Body
    BY <1>4, <1>7, FileAuthFacts
  <2> QED
    BY <1>3, <1>4, <2>1, <2>2, UpdatesFacts
<1>9. ASSUME NEW p \in Projects
      PROVE  <<f, p>> \in DOMAIN u <=>
                \/ p \in Given(new) /\ currentAuths[<<f, p>>] # FileAuth(new, p, config)
                \/ p \in Given(old) \ Given(new)
  <2>1. <<f, p>> \in changed <=>
          p \in Given(new) /\ currentAuths[<<f, p>>] # FileAuth(new, p, config)
    BY <1>1
  <2>2. <<f, p>> \in gone <=> p \in Given(old) \ Given(new)
    BY <1>2
  <2> QED
    BY <1>4, <2>1, <2>2
<1> QED
  BY <1>4, <1>6, <1>8, <1>9

LEMMA FileProcessed ==
  ASSUME WatcherInv, op[Handler].step \in Busy, NEW f \in Files, f = op[Handler].file,
         NEW content \in Contents \cup {None}, Process(f, content),
         ~Announced(f) => content = disk[f],
         UNCHANGED <<files, events, timer, config, lastConfigHash, lastRemoveTimes,
                     runtimeAuths, pipeline, left, missed>>
  PROVE  WatcherInv'
PROOF
<1>1. PICK old : old = lastAuthHashes[f]
  OBVIOUS
<1>2. PICK u : u = PerPathUpdates(f, old, content)
  OBVIOUS
<1>3. /\ lastAuthHashes' = [lastAuthHashes EXCEPT ![f] = content]
      /\ currentAuths' = Over(u, currentAuths)
      /\ Hold(Handler, u)
      /\ stale' = stale \ ({f} \X (Given(old) \cup Given(content)))
  BY <1>1, <1>2 DEF Process
<1>4. /\ Typed /\ MapsTyped /\ config \in Configs /\ currentAuths \in [Ids -> Body]
      /\ lastAuthHashes \in [Files -> Contents \cup {None}] /\ PipelineInv /\ OpsTyped
      /\ Handler \in Goroutines /\ op[Handler].step # "queueing"
  BY SourceFacts DEF WatcherInv, Typed, MapsTyped, Busy
<1>5. /\ u \in Updates
      /\ \A id \in DOMAIN u : id \in {f} \X Projects /\ u[id] = FileAuth(content, id[2], config)
      /\ \A p \in Projects :
           <<f, p>> \in DOMAIN u <=>
             \/ p \in Given(content) /\ currentAuths[<<f, p>>] # FileAuth(content, p, config)
             \/ p \in Given(old) \ Given(content)
  BY <1>2, <1>4, PerPathFacts
<1>6. /\ currentAuths' \in [Ids -> Body]
      /\ \A id \in DOMAIN u : currentAuths'[id] = u[id]
      /\ \A id \in Ids \ DOMAIN u : currentAuths'[id] = currentAuths[id]
  BY <1>3, <1>4, <1>5, OverMapFacts
<1>7. /\ lastAuthHashes' \in [Files -> Contents \cup {None}] /\ lastAuthHashes'[f] = content
      /\ \A g \in Files \ {f} : lastAuthHashes'[g] = lastAuthHashes[g]
  BY <1>3, <1>4
<1>8. OpsTyped' /\ OthersSame(Handler) /\ op'[Handler].step = "queueing"
  BY <1>3, <1>4, <1>5, HoldFacts
<1>9. /\ Handler \notin Reloading /\ Handler # Main /\ (Refreshing => Refreshing')
      /\ op'[Main] = op[Main]
  BY <1>4, <1>8, SourceFacts, OtherSteps
<1>10. Typed'
  BY <1>4, <1>6, <1>7, <1>8 DEF Typed, FilesTyped, MapsTyped, PipelineTyped, files, pipeline
<1>11. PipelineInv'
  BY <1>3, <1>4, <1>5, <1>6, HoldKept
<1>12. SourcesInv'
  <2> SUFFICES ASSUME ~Refreshing', NEW id \in SourceIds \ stale'
               PROVE  currentAuths'[id] = Synthesize(lastAuthHashes', config')[id]
    BY DEF SourcesInv
  <2>1. PICK known, known2 : known = Synthesize(lastAuthHashes, config)
                             /\ known2 = Synthesize(lastAuthHashes', config)
    OBVIOUS
  <2>2. /\ \A g \in Files, p \in Projects :
             known[<<g, p>>] = FileAuth(lastAuthHashes[g], p, config)
        /\ \A k \in Keys : known[k] = KeyAuth(k, config)
    BY <1>4, <2>1, SynthesizeFacts
  <2>3. /\ \A g \in Files, p \in Projects :
             known2[<<g, p>>] = FileAuth(lastAuthHashes'[g], p, config)
        /\ \A k \in Keys : known2[k] = KeyAuth(k, config)
    BY <1>4, <2>1, SynthesizeFacts
  <2>4. \A i \in SourceIds \ stale : currentAuths[i] = known[i]
    BY <1>9, <2>1 DEF WatcherInv, SourcesInv
  <2>5. CASE id \in Keys
    <3>1. id \notin {f} \X Projects /\ id \in Ids \ DOMAIN u
      BY <1>5, <2>5, SourceFacts
    <3>2. id \notin stale
      BY <1>3, <3>1, GivenFacts
    <3>3. currentAuths'[id] = known2[id]
      BY <1>6, <2>2, <2>3, <2>4, <2>5, <3>1, <3>2
    <3> QED
      BY <2>1, <3>3
  <2>6. CASE id \notin Keys
    <3>1. PICK g \in Files, p \in Projects : id = <<g, p>>
      BY <2>6, SourceFacts
    <3>2. CASE g # f
      <4>1. id \notin {f} \X Projects /\ id \in Ids \ DOMAIN u
        BY <1>5, <3>1, <3>2, SourceFacts
      <4>2. id \notin stale
        BY <1>3, <4>1, GivenFacts
      <4>3. currentAuths'[id] = known2[id]
        BY <1>6, <1>7, <2>2, <2>3, <2>4, <3>1, <3>2, <4>1, <4>2
      <4> QED
        BY <2>1, <4>3
    <3>3. CASE g = f
      <4>1. known2[id] = FileAuth(content, p, config)
        BY <1>7, <2>3, <3>1, <3>3
      <4>2. CASE id \in DOMAIN u
        <5>1. currentAuths'[id] = FileAuth(content, p, config)
          BY <1>5, <1>6, <3>1, <4>2
        <5> QED
          BY <2>1, <4>1, <5>1
      <4>3. CASE id \notin DOMAIN u /\ p \in Given(content)
        <5>1. currentAuths[id] = FileAuth(content, p, config)
          BY <1>5, <3>1, <3>3, <4>3
        <5> QED
          BY <1>6, <2>1, <4>1, <4>3, <5>1, SourceFacts
      <4>4. CASE id \notin DOMAIN u /\ p \notin Given(content)
        <5>1. p \notin Given(old)
          BY <1>5, <3>1, <3>3, <4>4
        <5>2. id \notin {f} \X (Given(old) \cup Given(content))
          BY <3>1, <4>4, <5>1
        <5>3. currentAuths[id] = FileAuth(old, p, config)
          BY <1>1, <1>3, <2>2, <2>4, <3>1, <3>3, <5>2
        <5>4. FileAuth(old, p, config) = None /\ FileAuth(content, p, config) = None
          BY <1>4, <4>4, <5>1, FileAuthFacts
        <5>5. currentAuths'[id] = known2[id]
          BY <1>6, <4>1, <4>4, <5>3, <5>4, SourceFacts
        <5> QED
          BY <2>1, <5>5
      <4> QED
        BY <4>2, <4>3, <4>4
    <3> QED
      BY <3>2, <3>3
  <2> QED
    BY <2>5, <2>6
<1>13. FilesInv'
  <2>1. disk' = disk /\ events' = events /\ missed' = missed
    BY DEF files
  <2>2. EventsTell' /\ \A g : Announced(g)' <=> Announced(g)
    BY <2>1 DEF WatcherInv, FilesInv, EventsTell, Announced, EventOf
  <2>3. HandlerTells'
    BY <1>8 DEF HandlerTells, Busy
  <2>4. ASSUME op'[Main].step # "scanning", NEW g \in Files \ missed' PROVE Followed(g)'
    <3>1. CASE g = f
      BY <1>7, <2>1, <2>2, <3>1 DEF Followed
    <3>2. CASE g # f
      <4>1. Followed(g)
        BY <1>9, <2>1, <2>4 DEF WatcherInv, FilesInv, At
      <4> QED
        BY <1>7, <2>1, <2>2, <3>2, <4>1 DEF Followed
    <3> QED
      BY <3>1, <3>2
  <2> QED
    BY <2>2, <2>3, <2>4 DEF FilesInv, At
<1> QED
  BY <1>10, <1>11, <1>12, <1>13 DEF WatcherInv

LEMMA FileCommitted ==
  ASSUME WatcherInv, CommitFile
  PROVE  WatcherInv'
PROOF
<1>1. At(Handler, "committing") /\ op[Handler].step \in Busy
  BY DEF CommitFile, At, Busy
<1>2. PICK f \in Files : f = op[Handler].file
  BY <1>1, HandlerBusy
<1>3. PICK content \in Contents : content = op[Handler].content
  BY <1>1, HandlerBusy
<1>4. /\ Handler \in Goroutines /\ OpsTyped /\ op[Handler].step # "queueing"
      /\ ~Announced(f) => content = disk[f]
  BY <1>1, <1>2, <1>3, HandlerBusy
<1>5. UNCHANGED <<files, events, timer, config, lastConfigHash, lastRemoveTimes,
                  runtimeAuths, pipeline, left, missed>>
  BY DEF CommitFile
<1>6. CASE lastAuthHashes[f] = content
  <2>1. Rest(Handler) /\ UNCHANGED <<lastAuthHashes, currentAuths, stale, loose>>
    BY <1>2, <1>3, <1>6 DEF CommitFile
  <2>2. /\ OpsTyped' /\ OthersSame(Handler) /\ op'[Handler].step = "idle"
        /\ op'[Handler].updates = op[Handler].updates
    BY <1>4, <2>1, RestFacts
  <2>3. HandlerTells'
    BY <2>2 DEF HandlerTells, Busy
  <2>4. UNCHANGED <<files, events, timer, maps, pipeline, left, history>>
    BY <1>5, <2>1 DEF maps, history
  <2> QED
    BY <1>1, <1>2, <1>4, <1>6, <2>2, <2>3, <2>4, HandlerMoves
<1>7. CASE lastAuthHashes[f] # content
  <2>1. Process(f, content)
    BY <1>2, <1>3, <1>7 DEF CommitFile
  <2> QED
    BY <1>1, <1>2, <1>4, <1>5, <2>1, FileProcessed
<1> QED
  BY <1>6, <1>7

LEMMA ClientRemoved ==
  ASSUME WatcherInv, RemoveClient
  PROVE  WatcherInv'
PROOF
<1>1. At(Handler, "removing") /\ op[Handler].step \in Busy
  BY DEF RemoveClient, At, Busy
<1>2. PICK f \in Files : f = op[Handler].file
  BY <1>1, HandlerBusy
<1>3. ~Announced(f) => None = disk[f]
  BY <1>1, <1>2, HandlerBusy
<1>4. Process(f, None)
  BY <1>2 DEF RemoveClient
<1>5. UNCHANGED <<files, events, timer, config, lastConfigHash, lastRemoveTimes,
                  runtimeAuths, pipeline, left, missed>>
  BY DEF RemoveClient
<1> QED
  BY <1>1, <1>2, <1>3, <1>4, <1>5, FileProcessed

-----------------------------------------------------------------------------
(***************************************************************************)
(* Reloads and the start-up scan.                                          *)
(***************************************************************************)
\* A step of another goroutine that changes no credential the watcher knows.
LEMMA OtherMoves ==
  ASSUME WatcherInv, NEW g \in Goroutines \ {Handler}, OpsTyped', OthersSame(g),
         op'[g].updates = op[g].updates, op[g].step # "scanning", MapsTyped',
         UNCHANGED <<files, events, lastAuthHashes, currentAuths, pipeline, history>>,
         (config' = config /\ (Refreshing => Refreshing')) \/ Refreshing'
  PROVE  WatcherInv'
PROOF
<1>1. /\ op'[Handler] = op[Handler] /\ UpdatesSame
      /\ op[Main].step = "scanning" => op'[Main].step = "scanning"
  <2>1. g # Main => op'[Main] = op[Main]
    BY OtherSteps
  <2>2. op'[Handler] = op[Handler] /\ UpdatesSame
    BY OtherSteps
  <2> QED
    BY <2>1, <2>2
<1>2. Typed'
  BY DEF WatcherInv, Typed, FilesTyped, PipelineTyped, files, pipeline
<1>3. PipelineSame /\ FilesSame
  BY <1>1 DEF PipelineSame, FilesSame, pipeline, files, history
<1>4. SourcesInv'
  <2>1. CASE config' = config /\ (Refreshing => Refreshing')
    <3>1. SourcesSame
      BY <2>1 DEF SourcesSame, history
    <3> QED
      BY <3>1, SourcesKept DEF WatcherInv
  <2>2. CASE Refreshing'
    BY <2>2 DEF SourcesInv
  <2> QED
    BY <2>1, <2>2
<1> QED
  BY <1>2, <1>3, <1>4, PipelineKept, FilesKept DEF WatcherInv

\* The steps of a reload that move on or give up, outside a refresh.
LEMMA ReloadMoves ==
  ASSUME WatcherInv, NEW r \in Reloading,
         op[r].step \in {"idle", "hashing", "loading", "finishing"},
         Rest(r) \/ \E s \in {"hashing", "loading"} : Go(r, s), MapsTyped',
         UNCHANGED <<files, events, lastAuthHashes, currentAuths, pipeline, history, config>>
  PROVE  WatcherInv'
PROOF
<1>1. r \in Goroutines \ {Handler} /\ OpsTyped /\ op[r].step # "queueing" /\ r # Handler
  BY SourceFacts DEF WatcherInv, Typed
<1>2. /\ OpsTyped' /\ OthersSame(r) /\ op'[r].updates = op[r].updates
  <2>1. CASE Rest(r)
    BY <1>1, <2>1, RestFacts
  <2>2. ASSUME NEW s \in {"hashing", "loading"}, Go(r, s)
        PROVE  OpsTyped' /\ OthersSame(r) /\ op'[r].updates = op[r].updates
    <3>1. s \in Steps \ {"queueing", "preparing", "installing", "committing"}
      BY DEF Steps
    <3> QED
      BY <1>1, <2>2, <3>1, GoFacts
  <2> QED
    BY <2>1, <2>2
<1>3. Refreshing => Refreshing'
  BY <1>1, <1>2, OtherSteps
<1> QED
  BY <1>1, <1>2, <1>3, OtherMoves

LEMMA TimerFires ==
  ASSUME WatcherInv, NEW r \in Reloaders, FireTimer(r)
  PROVE  WatcherInv'
PROOF
<1>1. r \in Reloading /\ op[r].step = "idle" /\ Go(r, "hashing")
  BY DEF FireTimer, At, Reloading
<1>2. /\ MapsTyped' /\ config' = config
      /\ UNCHANGED <<files, events, lastAuthHashes, currentAuths, pipeline, history>>
  BY DEF FireTimer, maps, WatcherInv, Typed, MapsTyped
<1> QED
  BY <1>1, <1>2, ReloadMoves

LEMMA ConfigHashed ==
  ASSUME WatcherInv, NEW r \in Reloading, HashConfig(r)
  PROVE  WatcherInv'
PROOF
<1>1. op[r].step = "hashing" /\ (Rest(r) \/ Go(r, "loading"))
  BY DEF HashConfig, At
<1>2. /\ MapsTyped' /\ config' = config
      /\ UNCHANGED <<files, events, lastAuthHashes, currentAuths, pipeline, history>>
  BY DEF HashConfig, maps, WatcherInv, Typed, MapsTyped
<1> QED
  BY <1>1, <1>2, ReloadMoves

LEMMA ReloadFinished ==
  ASSUME WatcherInv, NEW r \in Reloading, FinishReload(r)
  PROVE  WatcherInv'
PROOF
<1>1. op[r].step = "finishing" /\ Rest(r)
  BY DEF FinishReload, At
<1>2. /\ MapsTyped' /\ config' = config
      /\ UNCHANGED <<files, events, lastAuthHashes, currentAuths, pipeline, history>>
  BY DEF FinishReload, WatcherInv, Typed, MapsTyped, FilesTyped
<1> QED
  BY <1>1, <1>2, ReloadMoves

LEMMA ConfigLoaded ==
  ASSUME WatcherInv, NEW r \in Reloading, LoadConfig(r)
  PROVE  WatcherInv'
PROOF
<1>1. /\ op[r].step = "loading" /\ MapsTyped' /\ config' = config
      /\ UNCHANGED <<files, events, lastAuthHashes, currentAuths, pipeline, history>>
  BY DEF LoadConfig, maps, WatcherInv, Typed, MapsTyped, At
<1>2. CASE configFile = Broken
  BY <1>1, <1>2, ReloadMoves DEF LoadConfig
<1>3. CASE configFile # Broken
  <2>1. configFile \in Configs
    BY <1>3 DEF WatcherInv, Typed, FilesTyped
  <2>2. PICK n : n = [op[r] EXCEPT !.step = "installing", !.config = configFile]
    OBVIOUS
  <2>3. /\ r \in Goroutines \ {Handler} /\ r # Handler /\ OpsTyped /\ op[r] \in OpRecords
        /\ op[r].updates = NoUpdates
    BY <1>1, SourceFacts DEF WatcherInv, Typed, OpsTyped, OpOK
  <2>4. op' = [op EXCEPT ![r] = n]
    <3>1. op' = [op EXCEPT ![r].step = "installing", ![r].config = configFile]
      BY <1>3 DEF LoadConfig
    <3> QED
      BY <2>2, <2>3, <3>1 DEF OpsTyped, OpRecords
  <2>5. /\ n \in OpRecords /\ n.step = "installing" /\ n.config \in Configs
        /\ n.updates = NoUpdates
    BY <2>1, <2>2, <2>3 DEF OpRecords, Steps
  <2>6. OpOK(r, n)
    BY <2>3, <2>5 DEF OpOK
  <2>7. OpsTyped' /\ op'[r] = n /\ OthersSame(r)
    BY <2>3, <2>4, <2>5, <2>6, OpMoves
  <2>8. op'[r].updates = op[r].updates /\ op[r].step # "scanning"
    BY <1>1, <2>3, <2>5, <2>7
  <2>9. Refreshing => Refreshing'
    BY <1>1, <2>3, <2>7, OtherSteps
  <2> QED
    BY <1>1, <2>3, <2>7, <2>8, <2>9, OtherMoves
<1> QED
  BY <1>2, <1>3

LEMMA ConfigInstalled ==
  ASSUME WatcherInv, NEW r \in Reloading, InstallConfig(r)
  PROVE  WatcherInv'
PROOF
<1>1. PICK new : new = op[r].config
  OBVIOUS
<1>2. PICK s \in {"filtering", "reading"} :
        s = IF config.excluded # new.excluded THEN "filtering" ELSE "reading"
  OBVIOUS
<1>3. PICK b \in BOOLEAN : b <=> (config.prefix # new.prefix)
  OBVIOUS
<1>4. /\ r \in Goroutines \ {Handler} /\ r # Handler /\ OpsTyped /\ op[r] \in OpRecords
      /\ op[r].step = "installing" /\ op[r].updates = NoUpdates /\ new \in Configs
  BY <1>1, SourceFacts DEF WatcherInv, Typed, OpsTyped, OpOK, InstallConfig, At
<1>5. PICK n : n = [op[r] EXCEPT !.step = s, !.force = b]
  OBVIOUS
<1>6. op' = [op EXCEPT ![r] = n]
  <2>1. op' = [op EXCEPT ![r].step = IF config.excluded # new.excluded THEN "filtering" ELSE "reading",
                         ![r].force = config.prefix # new.prefix]
    BY <1>1 DEF InstallConfig
  <2>2. (config.prefix # new.prefix) = b
    BY <1>3
  <2>3. op' = [op EXCEPT ![r].step = s, ![r].force = b]
    BY <1>2, <2>1, <2>2
  <2> QED
    BY <1>4, <1>5, <2>3 DEF OpsTyped, OpRecords
<1>7. n \in OpRecords /\ n.step = s /\ n.updates = NoUpdates
  BY <1>4, <1>5 DEF OpRecords, Steps
<1>8. OpOK(r, n)
  BY <1>4, <1>7 DEF OpOK
<1>9. OpsTyped' /\ op'[r] = n /\ OthersSame(r)
  BY <1>4, <1>6, <1>7, <1>8, OpMoves
<1>10. Refreshing' /\ op'[r].updates = op[r].updates /\ op[r].step # "scanning"
  BY <1>4, <1>7, <1>9, OtherSteps
<1>11. MapsTyped' /\ UNCHANGED <<files, events, lastAuthHashes, currentAuths, pipeline, history>>
  BY <1>1, <1>4 DEF InstallConfig, WatcherInv, Typed, MapsTyped
<1> QED
  BY <1>4, <1>9, <1>10, <1>11, OtherMoves

LEMMA SnapshotTaken ==
  ASSUME WatcherInv, NEW r \in Reloading, Snapshot(r)
  PROVE  WatcherInv'
PROOF
<1>1. PICK s : s = Synthesize(Readable(disk), config)
  OBVIOUS
<1>2. config \in Configs /\ MapsTyped
  BY DEF WatcherInv, Typed, MapsTyped
<1>3. s \in [SourceIds -> Body] /\ s \in Updates
  BY <1>1, <1>2, SynthesizeFacts
<1>4. /\ r \in Goroutines \ {Handler} /\ r # Handler /\ OpsTyped /\ op[r] \in OpRecords
      /\ op[r].step = "reading" /\ op[r].updates = NoUpdates
  BY SourceFacts DEF WatcherInv, Typed, OpsTyped, OpOK, Snapshot, At
<1>5. PICK n : n = [op[r] EXCEPT !.step = "preparing", !.snapshot = s]
  OBVIOUS
<1>6. op' = [op EXCEPT ![r] = n]
  <2>1. op' = [op EXCEPT ![r].step = "preparing", ![r].snapshot = s]
    BY <1>1 DEF Snapshot
  <2> QED
    BY <1>4, <1>5, <2>1 DEF OpsTyped, OpRecords
<1>7. n \in OpRecords /\ n.step = "preparing" /\ n.updates = NoUpdates /\ n.snapshot = s
  BY <1>3, <1>4, <1>5 DEF OpRecords, Steps
<1>8. OpOK(r, n)
  BY <1>3, <1>4, <1>7 DEF OpOK
<1>9. OpsTyped' /\ op'[r] = n /\ OthersSame(r)
  BY <1>4, <1>6, <1>7, <1>8, OpMoves
<1>10. Refreshing' /\ op'[r].updates = op[r].updates /\ op[r].step # "scanning"
  BY <1>4, <1>7, <1>9, OtherSteps
<1>11. MapsTyped' /\ UNCHANGED <<files, events, lastAuthHashes, currentAuths, pipeline, history>>
  BY <1>2 DEF Snapshot, MapsTyped, maps
<1> QED
  BY <1>4, <1>9, <1>10, <1>11, OtherMoves

LEMMA AffectedFiltered ==
  ASSUME WatcherInv, NEW r \in Reloading, FilterAffected(r)
  PROVE  WatcherInv'
PROOF
<1>1. /\ r \in Goroutines /\ r # Handler /\ OpsTyped /\ op[r].step # "queueing"
      /\ op[r].step = "filtering" /\ Go(r, "reading")
      /\ "reading" \in Steps \ {"queueing", "preparing", "installing", "committing"}
  BY SourceFacts DEF WatcherInv, Typed, FilterAffected, At, Steps
<1>2. /\ OpsTyped' /\ OthersSame(r) /\ op'[r].step = "reading" /\ op'[r].updates = op[r].updates
  BY <1>1, GoFacts
<1>3. /\ Refreshing' /\ UpdatesSame /\ op'[Handler] = op[Handler]
      /\ op[Main].step = "scanning" => op'[Main].step = "scanning"
  BY <1>1, <1>2, OtherSteps
<1>4. /\ currentAuths' = [id \in Ids |-> IF id \in Affected THEN None ELSE currentAuths[id]]
      /\ loose' = loose \cup {id \in Affected : currentAuths[id] # None}
      /\ UNCHANGED <<files, events, timer, config, lastConfigHash, lastAuthHashes, lastRemoveTimes,
                     runtimeAuths, pipeline, left, missed, stale>>
  BY DEF FilterAffected
<1>5. Typed'
  <2>1. currentAuths' \in [Ids -> Body]
    BY <1>4 DEF WatcherInv, Typed, MapsTyped, Body
  <2> QED
    BY <1>2, <1>4, <2>1 DEF WatcherInv, Typed, FilesTyped, MapsTyped, PipelineTyped, files, pipeline
<1>6. PipelineInv'
  <2> SUFFICES ASSUME NEW id \in Ids \ loose' PROVE Newest(id)'
    BY DEF PipelineInv
  <2>1. currentAuths'[id] = currentAuths[id] /\ id \notin loose
    BY <1>4
  <2>2. Newest(id)
    BY <2>1 DEF WatcherInv, PipelineInv
  <2>3. /\ pendingUpdates' = pendingUpdates /\ dispatcher' = dispatcher
        /\ authUpdates' = authUpdates /\ applied' = applied
    BY <1>4 DEF pipeline
  <2> QED
    BY <1>3, <2>1, <2>2, <2>3 DEF UpdatesSame, Newest, Has, InHand, InMap, InBatch, SentAt, LastSent
<1>7. SourcesInv'
  BY <1>3 DEF SourcesInv
<1>8. FilesSame
  BY <1>3, <1>4 DEF FilesSame, files
<1> QED
  BY <1>5, <1>6, <1>7, <1>8, FilesKept DEF WatcherInv

LEMMA FilesScanned ==
  ASSUME WatcherInv, ScanFiles
  PROVE  WatcherInv'
PROOF
<1>1. /\ Main \in Goroutines /\ Main # Handler /\ OpsTyped /\ op[Main].step # "queueing"
      /\ op[Main].step = "scanning" /\ Go(Main, "reading")
      /\ "reading" \in Steps \ {"queueing", "preparing", "installing", "committing"}
  BY SourceFacts DEF WatcherInv, Typed, ScanFiles, At, Steps
<1>2. /\ OpsTyped' /\ OthersSame(Main) /\ op'[Main].step = "reading"
      /\ op'[Main].updates = op[Main].updates
  BY <1>1, GoFacts
<1>3. Refreshing' /\ UpdatesSame /\ op'[Handler] = op[Handler]
  BY <1>1, <1>2, SourceFacts, OtherSteps
<1>4. /\ lastAuthHashes' = [f \in Files |-> IF disk[f] = Empty THEN None ELSE disk[f]]
      /\ UNCHANGED <<files, events, timer, config, lastConfigHash, lastRemoveTimes, currentAuths,
                     runtimeAuths, pipeline, left, history>>
  BY DEF ScanFiles, Readable
<1>5. Typed'
  <2>1. lastAuthHashes' \in [Files -> Contents \cup {None}]
    BY <1>4 DEF WatcherInv, Typed, FilesTyped
  <2> QED
    BY <1>2, <1>4, <2>1 DEF WatcherInv, Typed, FilesTyped, MapsTyped, PipelineTyped, files, pipeline
<1>6. PipelineSame
  BY <1>3, <1>4 DEF PipelineSame, pipeline, history
<1>7. SourcesInv'
  BY <1>3 DEF SourcesInv
<1>8. FilesInv'
  <2>1. disk' = disk /\ events' = events
    BY <1>4 DEF files
  <2>2. EventsTell' /\ HandlerTells'
    BY <1>3, <2>1 DEF WatcherInv, FilesInv, EventsTell, HandlerTells, Announced, EventOf, At
  <2>3. \A f \in Files : Followed(f)'
    BY <1>4, <2>1 DEF Followed
  <2> QED
    BY <2>2, <2>3 DEF FilesInv
<1> QED
  BY <1>5, <1>6, <1>7, <1>8, PipelineKept DEF WatcherInv

LEMMA RuntimeAuthFacts == \A s \in Sessions : RuntimeAuth(s) \in Body
PROOF BY DEF RuntimeAuth, Body, Auth

LEMMA UpdatesPrepared ==
  ASSUME WatcherInv, NEW r \in Reloading, PrepareUpdates(r)
  PROVE  WatcherInv'
PROOF
<1>1. PICK new : new = NewState(op[r].snapshot)
  OBVIOUS
<1>2. PICK u : u = PreparedUpdates(new, op[r].force)
  OBVIOUS
<1>3. /\ op[r].step = "preparing" /\ currentAuths' = new /\ Hold(r, u)
      /\ stale' = {id \in SourceIds : new[id] # Synthesize(lastAuthHashes, config)[id]}
      /\ UNCHANGED <<files, events, timer, config, lastConfigHash, lastAuthHashes,
                     lastRemoveTimes, runtimeAuths, pipeline, left, missed>>
  BY <1>1, <1>2 DEF PrepareUpdates, At
<1>4. /\ r \in Goroutines /\ r # Handler /\ OpsTyped /\ op[r].step # "queueing"
      /\ op[r].step # "scanning" /\ op[r].snapshot \in Updates /\ DOMAIN op[r].snapshot = SourceIds
      /\ Typed /\ MapsTyped /\ PipelineInv
  BY <1>3, SourceFacts DEF WatcherInv, Typed, OpsTyped, OpRecords, OpOK
<1>5. \A id \in SourceIds : op[r].snapshot[id] \in Body
  BY <1>4, UpdatesFacts
<1>6. new \in [Ids -> Body]
  <2>1. new = [id \in Ids |-> IF id \in SourceIds THEN op[r].snapshot[id]
                              ELSE IF id \in runtimeAuths THEN RuntimeAuth(id) ELSE None]
    BY <1>1 DEF NewState
  <2>2. ASSUME NEW id \in Ids PROVE new[id] \in Body
    <3>1. CASE id \in SourceIds
      BY <1>5, <2>1, <3>1
    <3>2. CASE id \notin SourceIds /\ id \in runtimeAuths
      <4>1. new[id] = RuntimeAuth(id) /\ id \in Sessions
        BY <2>1, <3>2, <1>4 DEF MapsTyped
      <4> QED
        BY <4>1, RuntimeAuthFacts
    <3>3. CASE id \notin SourceIds /\ id \notin runtimeAuths
      BY <2>1, <3>3 DEF Body
    <3> QED
      BY <3>1, <3>2, <3>3
  <2> QED
    BY <2>1, <2>2
<1>7. /\ u \in Updates /\ \A id \in DOMAIN u : u[id] = new[id]
      /\ \A id \in Ids \ DOMAIN u : currentAuths[id] = new[id]
  <2>1. PICK D : D = {id \in Ids : currentAuths[id] # new[id]}
                       \cup {id \in Ids : op[r].force /\ new[id] # None}
    OBVIOUS
  <2>2. u = [id \in D |-> new[id]]
    BY <1>2, <2>1 DEF PreparedUpdates
  <2>3. DOMAIN u = D /\ D \subseteq Ids /\ \A id \in D : u[id] = new[id] /\ u[id] \in Body
    BY <1>6, <2>1, <2>2
  <2>4. u \in Updates
    BY <2>2, <2>3, UpdatesFacts
  <2> QED
    BY <2>1, <2>3, <2>4
<1>8. OpsTyped' /\ OthersSame(r) /\ op'[r].step = "queueing"
  BY <1>3, <1>4, <1>7, HoldFacts
<1>9. /\ op'[Handler] = op[Handler]
      /\ op[Main].step = "scanning" => op'[Main].step = "scanning"
  <2>1. r # Main => op'[Main] = op[Main]
    BY <1>4, <1>8, OtherSteps
  <2> QED
    BY <1>4, <1>8, <2>1, OtherSteps
<1>10. Typed'
  BY <1>3, <1>4, <1>6, <1>8 DEF Typed, FilesTyped, MapsTyped, PipelineTyped, files, pipeline
<1>11. PipelineInv'
  <2>1. /\ \A id \in DOMAIN u : currentAuths'[id] = u[id]
        /\ \A id \in Ids \ DOMAIN u : currentAuths'[id] = currentAuths[id]
    BY <1>3, <1>7
  <2> QED
    BY <1>3, <1>4, <1>7, <2>1, HoldKept
<1>12. SourcesInv'
  BY <1>3 DEF SourcesInv
<1>13. FilesSame
  BY <1>3, <1>9 DEF FilesSame, files
<1> QED
  BY <1>10, <1>11, <1>12, <1>13, FilesKept DEF WatcherInv

-----------------------------------------------------------------------------
(***************************************************************************)
(* Connections.                                                            *)
(***************************************************************************)
LEMMA RuntimeUpdated ==
  ASSUME WatcherInv, NEW s \in Sessions, NEW auth \in Body, RuntimeUpdate(s, auth),
         op[s].step \in {"idle", "connected"}
  PROVE  WatcherInv'
PROOF
<1>1. PICK u : u = [id \in {s} |-> auth]
  OBVIOUS
<1>2. u \in Updates /\ DOMAIN u = {s} /\ u[s] = auth
  <2>1. DOMAIN u = {s} /\ u[s] = auth /\ s \in Ids
    BY <1>1, SourceFacts
  <2> QED
    BY <1>1, <2>1, UpdatesFacts
<1>3. /\ Hold(s, u) /\ currentAuths' = [currentAuths EXCEPT ![s] = auth]
      /\ runtimeAuths' \subseteq runtimeAuths \cup {s}
      /\ UNCHANGED <<files, events, timer, config, lastConfigHash, lastAuthHashes,
                     lastRemoveTimes, pipeline, missed, stale>>
  BY <1>1 DEF RuntimeUpdate
<1>4. /\ s \in Goroutines /\ s # Handler /\ s # Main /\ s \notin Reloading /\ s \notin SourceIds
      /\ OpsTyped /\ op[s].step # "queueing" /\ Typed /\ PipelineInv
      /\ currentAuths \in [Ids -> Body]
  BY SourceFacts DEF WatcherInv, Typed, MapsTyped
<1>5. OpsTyped' /\ OthersSame(s)
  BY <1>2, <1>3, <1>4, HoldFacts
<1>6. op'[Handler] = op[Handler] /\ op'[Main] = op[Main] /\ (Refreshing => Refreshing')
  BY <1>4, <1>5, OtherSteps
<1>7. Typed'
  <2>1. currentAuths' \in [Ids -> Body] /\ runtimeAuths' \subseteq Sessions
    BY <1>3, <1>4 DEF Typed, MapsTyped
  <2> QED
    BY <1>3, <1>4, <1>5, <2>1 DEF Typed, FilesTyped, MapsTyped, PipelineTyped, files, pipeline
<1>8. PipelineInv'
  <2>1. /\ \A id \in DOMAIN u : currentAuths'[id] = u[id]
        /\ \A id \in Ids \ DOMAIN u : currentAuths'[id] = currentAuths[id]
    BY <1>2, <1>3, <1>4, SourceFacts
  <2> QED
    BY <1>2, <1>3, <1>4, <2>1, HoldKept
<1>9. SourcesInv'
  <2>1. \A id \in SourceIds : currentAuths'[id] = currentAuths[id]
    BY <1>3, <1>4
  <2> QED
    BY <1>3, <1>6, <2>1 DEF WatcherInv, SourcesInv
<1>10. FilesSame
  BY <1>3, <1>6 DEF FilesSame, files
<1> QED
  BY <1>7, <1>8, <1>9, <1>10, FilesKept DEF WatcherInv

-----------------------------------------------------------------------------
(***************************************************************************)
(* The way of the updates.                                                 *)
(***************************************************************************)
\* A step that moves updates along, and changes nothing the watcher knows.
LEMMA OnlyMoved ==
  ASSUME WatcherInv, PipelineTyped', OpsTyped', PipelineInv',
         UNCHANGED <<files, events, maps, history>>,
         op'[Handler] = op[Handler] \/ (op[Handler].step \notin Busy /\ op'[Handler].step \notin Busy),
         op[Main].step = "scanning" => op'[Main].step = "scanning",
         Refreshing => Refreshing'
  PROVE  WatcherInv'
PROOF
<1>1. Typed'
  BY DEF WatcherInv, Typed, FilesTyped, MapsTyped, files, maps
<1>2. SourcesSame /\ FilesSame
  BY DEF SourcesSame, FilesSame, files, maps, history
<1> QED
  BY <1>1, <1>2, SourcesKept, FilesKept DEF WatcherInv

LEMMA AfterQueueFacts ==
  ASSUME WatcherInv, NEW g \in Goroutines, NEW o, o = AfterQueue(g), At(g, "queueing")
  PROVE  /\ o \in OpRecords /\ o.updates = NoUpdates /\ OpOK(g, o)
         /\ o.step \notin Busy /\ o.step # "scanning"
PROOF
<1>1. op[g] \in OpRecords /\ runtimeAuths \subseteq Sessions
  BY DEF WatcherInv, Typed, OpsTyped, MapsTyped
<1>2. op[g].config \in Configs \cup {None}
  BY <1>1 DEF OpRecords
<1>3. CASE g \in Reloaders
  <2>1. o = [Idle EXCEPT !.step = "finishing", !.config = op[g].config]
    BY <1>3 DEF AfterQueue
  <2>2. o \in OpRecords /\ o.updates = NoUpdates /\ o.step = "finishing"
    BY <1>2, <2>1, IdleFacts DEF OpRecords, Steps, Idle
  <2>3. g # Handler
    BY <1>3, SourceFacts
  <2> QED
    BY <2>2, <2>3 DEF OpOK, Busy
<1>4. CASE g = Handler
  <2>1. g \notin Reloaders /\ g # Main /\ g \notin runtimeAuths /\ g \notin Sessions
    BY <1>1, <1>4, SourceFacts
  <2>2. o = Idle
    BY <2>1 DEF AfterQueue
  <2> QED
    BY <2>2, IdleFacts DEF Busy
<1>5. CASE g \notin Reloaders /\ g # Handler
  <2>1. PICK s \in {"done", "connected", "gone"} : o = [Idle EXCEPT !.step = s]
    BY <1>5, SourceFacts DEF AfterQueue, Goroutines, Reloading
  <2>2. o \in OpRecords /\ o.updates = NoUpdates /\ o.step = s
    BY <2>1, IdleFacts DEF OpRecords, Steps, Idle
  <2> QED
    BY <1>5, <2>2 DEF OpOK, Busy
<1> QED
  BY <1>3, <1>4, <1>5

LEMMA UpdatesQueued ==
  ASSUME WatcherInv, NEW g \in Goroutines, DispatchAuthUpdates(g)
  PROVE  WatcherInv'
PROOF
<1>1. PICK u : u = op[g].updates
  OBVIOUS
<1>2. PICK o : o = AfterQueue(g)
  OBVIOUS
<1>3. /\ op[g].step = "queueing" /\ op' = [op EXCEPT ![g] = o]
      /\ UNCHANGED <<files, events, timer, maps, authUpdates, applied, left, history>>
      /\ authUpdates' = authUpdates /\ applied' = applied /\ loose' = loose
      /\ currentAuths' = currentAuths
  BY <1>2 DEF DispatchAuthUpdates, At, maps, history
<1>4. /\ o \in OpRecords /\ o.updates = NoUpdates /\ OpOK(g, o)
      /\ o.step \notin Busy /\ o.step # "scanning"
  BY <1>2, <1>3, AfterQueueFacts DEF At
<1>5. /\ OpsTyped /\ PipelineTyped /\ PipelineInv /\ u \in Updates
      /\ pendingUpdates \in Updates
  BY <1>1 DEF WatcherInv, Typed, OpsTyped, OpRecords, PipelineTyped
<1>6. OpsTyped' /\ op'[g] = o /\ OthersSame(g) /\ op'[g].updates = NoUpdates
  BY <1>3, <1>4, <1>5, OpMoves
<1>7. /\ op'[Handler] = op[Handler] \/ (op[Handler].step \notin Busy /\ op'[Handler].step \notin Busy)
      /\ op[Main].step = "scanning" => op'[Main].step = "scanning"
      /\ Refreshing => Refreshing'
  <2>1. g # Handler => op'[Handler] = op[Handler]
    BY <1>6, OtherSteps
  <2>2. op[g].step \notin Busy
    BY <1>3 DEF Busy
  <2>3. g # Main => op'[Main] = op[Main]
    BY <1>6, OtherSteps
  <2>4. g \in Reloading => (Refreshing => Refreshing')
    BY <1>3, <1>6, OtherSteps
  <2>5. g \notin Reloading => (Refreshing => Refreshing')
    BY <1>6, OtherSteps
  <2> QED
    BY <1>3, <1>4, <1>6, <2>1, <2>2, <2>3, <2>4, <2>5
<1>8. /\ dispatcher' \in [step : {"checking", "waiting", "sending"}, batch : Updates]
      /\ dispatcher'.batch = dispatcher.batch
      /\ dispatcher'.step # "sending" => dispatcher'.batch = NoUpdates
  <2>1. \/ dispatcher' = dispatcher
        \/ dispatcher.step = "waiting" /\ dispatcher' = [dispatcher EXCEPT !.step = "checking"]
    BY DEF DispatchAuthUpdates, Woken
  <2> QED
    BY <1>5, <2>1 DEF PipelineTyped
<1>9. /\ pendingUpdates' \in Updates
      /\ DOMAIN pendingUpdates' = DOMAIN u \cup DOMAIN pendingUpdates
      /\ \A id \in DOMAIN u : pendingUpdates'[id] = u[id]
      /\ \A id \in DOMAIN pendingUpdates \ DOMAIN u : pendingUpdates'[id] = pendingUpdates[id]
  <2>1. CASE u = NoUpdates
    <3>1. pendingUpdates' = pendingUpdates /\ DOMAIN u = {}
      BY <1>1, <2>1, NoUpdatesFacts DEF DispatchAuthUpdates
    <3> QED
      BY <1>5, <3>1
  <2>2. CASE u # NoUpdates
    <3>1. pendingUpdates' = Over(u, pendingUpdates)
      BY <1>1, <2>2 DEF DispatchAuthUpdates, Merged
    <3>2. /\ Over(u, pendingUpdates) \in Updates
          /\ DOMAIN Over(u, pendingUpdates) = DOMAIN u \cup DOMAIN pendingUpdates
          /\ \A id \in DOMAIN u : Over(u, pendingUpdates)[id] = u[id]
          /\ \A id \in DOMAIN pendingUpdates \ DOMAIN u :
               Over(u, pendingUpdates)[id] = pendingUpdates[id]
      BY <1>5, OverFacts
    <3> QED
      BY <3>1, <3>2
  <2> QED
    BY <2>1, <2>2
<1>10. PipelineTyped'
  BY <1>3, <1>5, <1>8, <1>9 DEF PipelineTyped
<1>11. PipelineInv'
  <2> SUFFICES ASSUME NEW id \in Ids \ loose' PROVE Newest(id)'
    BY DEF PipelineInv
  <2>1. Newest(id)
    BY <1>3, <1>5 DEF PipelineInv
  <2>2. \A h \in Goroutines : Has(h, id)' <=> Has(h, id) /\ h # g
    BY <1>6, NoUpdatesFacts DEF Has, OthersSame
  <2>3. \A h \in Goroutines : Has(h, id)' => op'[h].updates = op[h].updates
    BY <1>6, NoUpdatesFacts DEF Has, OthersSame
  <2>4. /\ InBatch(id)' <=> InBatch(id)
        /\ \A i : SentAt(id, i)' <=> SentAt(id, i)
        /\ \A i : LastSent(id, i)' <=> LastSent(id, i)
    BY <1>3, <1>8 DEF InBatch, SentAt, LastSent
  <2>5. CASE id \in DOMAIN u
    <3>1. Has(g, id)
      BY <1>1, <2>5 DEF Has
    <3>2. ~InHand(id)'
      BY <2>1, <2>2, <3>1 DEF InHand, Newest
    <3>3. InMap(id)' /\ pendingUpdates'[id] = currentAuths'[id]
      BY <1>1, <1>3, <1>9, <2>1, <2>5, <3>1 DEF InMap, Newest
    <3> QED
      BY <2>2, <3>1, <3>2, <3>3 DEF InHand, Newest
  <2>6. CASE id \notin DOMAIN u
    <3>1. ~Has(g, id)
      BY <1>1, <2>6 DEF Has
    <3>2. \A h \in Goroutines : Has(h, id)' <=> Has(h, id)
      BY <2>2, <3>1
    <3>3. InHand(id)' <=> InHand(id)
      BY <3>2 DEF InHand
    <3>4. /\ InMap(id)' <=> InMap(id)
          /\ InMap(id) => pendingUpdates'[id] = pendingUpdates[id]
      BY <1>9, <2>6 DEF InMap
    <3> QED
      BY <1>3, <1>8, <2>1, <2>3, <2>4, <3>2, <3>3, <3>4 DEF Newest
  <2> QED
    BY <2>5, <2>6
<1>12. UNCHANGED <<files, events, maps, history>>
  BY <1>3
<1> QED
  BY <1>6, <1>7, <1>10, <1>11, <1>12, OnlyMoved

LEMMA BatchTaken ==
  ASSUME WatcherInv, NextPendingBatch
  PROVE  WatcherInv'
PROOF
<1>1. /\ dispatcher.step = "checking" /\ pendingUpdates' = NoUpdates /\ op' = op
      /\ UNCHANGED <<files, events, maps, history>>
      /\ authUpdates' = authUpdates /\ applied' = applied /\ loose' = loose
      /\ currentAuths' = currentAuths
  BY DEF NextPendingBatch, maps, history
<1>2. /\ OpsTyped /\ PipelineTyped /\ PipelineInv /\ pendingUpdates \in Updates
      /\ dispatcher \in [step : {"checking", "waiting", "sending"}, batch : Updates]
      /\ dispatcher.batch = NoUpdates /\ DOMAIN NoUpdates = {} /\ NoUpdates \in Updates
  BY <1>1, NoUpdatesFacts DEF WatcherInv, Typed, PipelineTyped
<1>3. /\ dispatcher' \in [step : {"checking", "waiting", "sending"}, batch : Updates]
      /\ dispatcher'.step # "sending" => dispatcher'.batch = NoUpdates
      /\ dispatcher'.batch = pendingUpdates
  <2>1. CASE pendingUpdates = NoUpdates
    <3>1. dispatcher' = [dispatcher EXCEPT !.step = "waiting"]
      BY <2>1 DEF NextPendingBatch
    <3> QED
      BY <1>2, <2>1, <3>1
  <2>2. CASE pendingUpdates # NoUpdates
    <3>1. dispatcher' = [step |-> "sending", batch |-> pendingUpdates]
      BY <2>2 DEF NextPendingBatch
    <3> QED
      BY <1>2, <3>1
  <2> QED
    BY <2>1, <2>2
<1>4. PipelineTyped' /\ OpsTyped'
  BY <1>1, <1>2, <1>3 DEF PipelineTyped, OpsTyped
<1>5. PipelineInv'
  <2> SUFFICES ASSUME NEW id \in Ids \ loose' PROVE Newest(id)'
    BY DEF PipelineInv
  <2>1. Newest(id)
    BY <1>1, <1>2 DEF PipelineInv
  <2>2. /\ InHand(id)' <=> InHand(id)
        /\ \A h \in Goroutines : Has(h, id)' <=> Has(h, id)
        /\ \A i : SentAt(id, i)' <=> SentAt(id, i)
        /\ \A i : LastSent(id, i)' <=> LastSent(id, i)
    BY <1>1 DEF InHand, Has, SentAt, LastSent
  <2>3. ~InMap(id)' /\ ~InBatch(id) /\ (InBatch(id)' <=> InMap(id))
    BY <1>1, <1>2, <1>3 DEF InMap, InBatch
  <2> QED
    BY <1>1, <1>3, <2>1, <2>2, <2>3 DEF Newest
<1>6. Refreshing => Refreshing'
  BY <1>1 DEF Refreshing
<1> QED
  BY <1>1, <1>4, <1>5, <1>6, OnlyMoved

LEMMA UpdateSent ==
  ASSUME WatcherInv, NEW id \in Ids, Send(id)
  PROVE  WatcherInv'
PROOF
<1>1. PICK b : b = dispatcher.batch
  OBVIOUS
<1>2. PICK e : e = [id |-> id, auth |-> b[id]]
  OBVIOUS
<1>3. PICK rest : rest = DOMAIN b \ {id}
  OBVIOUS
<1>4. /\ id \in DOMAIN b /\ Len(authUpdates) < Capacity
      /\ authUpdates' = Append(authUpdates, e)
      /\ dispatcher' = [step |-> IF rest = {} THEN "checking" ELSE "sending",
                        batch |-> [i \in rest |-> b[i]]]
      /\ UNCHANGED <<files, events, maps, history>>
      /\ pendingUpdates' = pendingUpdates /\ applied' = applied /\ loose' = loose /\ op' = op
      /\ currentAuths' = currentAuths
  BY <1>1, <1>2, <1>3 DEF Send, maps, history
<1>5. /\ OpsTyped /\ PipelineTyped /\ PipelineInv /\ b \in Updates
      /\ authUpdates \in Seq([id : Ids, auth : Body]) /\ Len(authUpdates) \in Nat
  BY <1>1 DEF WatcherInv, Typed, PipelineTyped
<1>6. \A i \in DOMAIN b : b[i] \in Body /\ i \in Ids
  BY <1>5, UpdatesFacts
<1>7. e \in [id : Ids, auth : Body] /\ e.id = id /\ e.auth = b[id]
  BY <1>2, <1>4, <1>6
<1>8. PICK n \in Nat : n = Len(authUpdates) + 1
  BY <1>5
<1>9. /\ authUpdates' \in Seq([id : Ids, auth : Body]) /\ Len(authUpdates') = n
      /\ authUpdates'[n] = e
      /\ \A i \in 1..Len(authUpdates) : authUpdates'[i] = authUpdates[i]
      /\ \A i : i \in 1..Len(authUpdates') <=> i \in 1..Len(authUpdates) \/ i = n
      /\ n \notin 1..Len(authUpdates) /\ n <= Capacity
  BY <1>4, <1>5, <1>7, <1>8, WatcherAssumption
<1>10. PICK nb : nb = [i \in rest |-> b[i]]
  OBVIOUS
<1>11. /\ nb \in Updates /\ DOMAIN nb = rest /\ \A i \in rest : nb[i] = b[i]
       /\ dispatcher'.batch = nb
       /\ dispatcher' \in [step : {"checking", "waiting", "sending"}, batch : Updates]
       /\ dispatcher'.step # "sending" => dispatcher'.batch = NoUpdates
  <2>1. DOMAIN nb = rest /\ (\A i \in rest : nb[i] = b[i]) /\ rest \subseteq Ids
    BY <1>3, <1>6, <1>10
  <2>2. nb \in Updates
    BY <1>3, <1>6, <1>10, <2>1, UpdatesFacts
  <2>3. rest = {} => nb = NoUpdates
    BY <2>1, <2>2, NoUpdatesFacts
  <2>4. PICK s \in {"checking", "sending"} : s = IF rest = {} THEN "checking" ELSE "sending"
    OBVIOUS
  <2>5. dispatcher' = [step |-> s, batch |-> nb]
    BY <1>4, <1>10, <2>4
  <2> QED
    BY <2>1, <2>2, <2>3, <2>4, <2>5
<1>12. PipelineTyped' /\ OpsTyped'
  BY <1>4, <1>5, <1>9, <1>11 DEF PipelineTyped, OpsTyped
<1>13. PipelineInv'
  <2> SUFFICES ASSUME NEW x \in Ids \ loose' PROVE Newest(x)'
    BY DEF PipelineInv
  <2>1. Newest(x)
    BY <1>4, <1>5 DEF PipelineInv
  <2>2. /\ InHand(x)' <=> InHand(x)
        /\ \A h \in Goroutines : Has(h, x)' <=> Has(h, x)
        /\ InMap(x)' <=> InMap(x)
    BY <1>4 DEF InHand, Has, InMap
  <2>3. \A i : SentAt(x, i)' <=> SentAt(x, i) \/ (i = n /\ x = id)
    BY <1>7, <1>9 DEF SentAt
  <2>4. CASE x = id
    <3>1. InBatch(x) /\ ~InBatch(x)'
      BY <1>1, <1>3, <1>4, <1>11, <2>4 DEF InBatch
    <3>2. SentAt(x, n)' /\ n \in 1..Len(authUpdates')
      BY <1>9, <2>3, <2>4
    <3>3. \A i \in 1..Len(authUpdates') : LastSent(x, i)' => i = n
      <4> SUFFICES ASSUME NEW i \in 1..Len(authUpdates'), LastSent(x, i)' PROVE i = n
        OBVIOUS
      <4>1. n <= i
        BY <3>2 DEF LastSent
      <4> QED
        BY <1>9, <4>1
    <3>4. ~InHand(x) /\ ~InMap(x) => authUpdates'[n].auth = currentAuths[x]
      BY <1>1, <1>7, <1>9, <2>1, <2>4, <3>1 DEF Newest
    <3> QED
      BY <1>4, <2>1, <2>2, <3>1, <3>2, <3>3, <3>4 DEF Newest
  <2>5. CASE x # id
    <3>1. /\ InBatch(x)' <=> InBatch(x)
          /\ InBatch(x) => dispatcher'.batch[x] = dispatcher.batch[x]
      BY <1>1, <1>3, <1>11, <2>5 DEF InBatch
    <3>2. \A i : SentAt(x, i)' <=> SentAt(x, i)
      BY <2>3, <2>5
    <3>3. \A i : LastSent(x, i)' <=> LastSent(x, i)
      <4>1. \A i : SentAt(x, i) => i \in 1..Len(authUpdates)
        BY DEF SentAt
      <4> QED
        BY <1>9, <3>2, <4>1 DEF LastSent
    <3>4. \A i : LastSent(x, i) => i \in 1..Len(authUpdates) /\ authUpdates'[i] = authUpdates[i]
      BY <1>9 DEF LastSent, SentAt
    <3>5. (\A i \in 1..Len(authUpdates') : ~SentAt(x, i)') => \A i \in 1..Len(authUpdates) : ~SentAt(x, i)
      BY <1>9, <3>2
    <3> QED
      BY <1>4, <2>1, <2>2, <3>1, <3>3, <3>4, <3>5 DEF Newest
  <2> QED
    BY <2>4, <2>5
<1>14. Refreshing => Refreshing'
  BY <1>4 DEF Refreshing
<1> QED
  BY <1>4, <1>12, <1>13, <1>14, OnlyMoved

LEMMA UpdateApplied ==
  ASSUME WatcherInv, HandleAuthUpdate
  PROVE  WatcherInv'
PROOF
<1>1. PICK e : e = Head(authUpdates)
  OBVIOUS
<1>2. /\ authUpdates # <<>> /\ authUpdates' = Tail(authUpdates)
      /\ applied' = [applied EXCEPT ![e.id] = e.auth]
      /\ UNCHANGED <<files, events, maps, history>>
      /\ pendingUpdates' = pendingUpdates /\ dispatcher' = dispatcher /\ loose' = loose
      /\ op' = op /\ currentAuths' = currentAuths
  BY <1>1 DEF HandleAuthUpdate, maps, history
<1>3. /\ OpsTyped /\ PipelineTyped /\ PipelineInv /\ applied \in [Ids -> Body]
      /\ authUpdates \in Seq([id : Ids, auth : Body]) /\ Len(authUpdates) <= Capacity
  BY DEF WatcherInv, Typed, PipelineTyped
<1>4. /\ Len(authUpdates) \in Nat \ {0} /\ e = authUpdates[1] /\ e \in [id : Ids, auth : Body]
      /\ authUpdates' \in Seq([id : Ids, auth : Body])
      /\ Len(authUpdates') = Len(authUpdates) - 1
      /\ \A i \in 1..Len(authUpdates') : authUpdates'[i] = authUpdates[i + 1]
  <2>1. PICK R : R = [id : Ids, auth : Body]
    OBVIOUS
  <2>2. authUpdates \in Seq(R)
    BY <1>3, <2>1
  <2>3. /\ Len(authUpdates) \in Nat \ {0} /\ e = authUpdates[1] /\ e \in R
        /\ authUpdates' \in Seq(R)
        /\ Len(authUpdates') = Len(authUpdates) - 1
        /\ \A i \in 1..Len(authUpdates') : authUpdates'[i] = authUpdates[i + 1]
    BY <1>1, <1>2, <2>2
  <2> QED
    BY <2>1, <2>3
<1>5. Len(authUpdates') <= Capacity
  BY <1>3, <1>4, WatcherAssumption
<1>6. applied' \in [Ids -> Body]
  BY <1>2, <1>3, <1>4
<1>7. PipelineTyped' /\ OpsTyped'
  BY <1>2, <1>3, <1>4, <1>5, <1>6 DEF PipelineTyped, OpsTyped
<1>8. PipelineInv'
  <2> SUFFICES ASSUME NEW x \in Ids \ loose' PROVE Newest(x)'
    BY DEF PipelineInv
  <2>1. Newest(x)
    BY <1>2, <1>3 DEF PipelineInv
  <2>2. /\ InHand(x)' <=> InHand(x)
        /\ \A h \in Goroutines : Has(h, x)' <=> Has(h, x)
        /\ InMap(x)' <=> InMap(x)
        /\ InBatch(x)' <=> InBatch(x)
    BY <1>2 DEF InHand, Has, InMap, InBatch
  <2>3. \A i \in 1..Len(authUpdates') :
          /\ i + 1 \in 1..Len(authUpdates)
          /\ SentAt(x, i)' <=> SentAt(x, i + 1)
    <3>1. \A i \in 1..Len(authUpdates') : i + 1 \in 1..Len(authUpdates)
      BY <1>4
    <3> QED
      BY <1>4, <3>1 DEF SentAt
  <2>4. \A j \in 1..Len(authUpdates) :
          SentAt(x, j) => j = 1 \/ (j - 1 \in 1..Len(authUpdates') /\ SentAt(x, j - 1)')
    <3> SUFFICES ASSUME NEW j \in 1..Len(authUpdates), SentAt(x, j), j # 1
                 PROVE  j - 1 \in 1..Len(authUpdates') /\ SentAt(x, j - 1)'
      OBVIOUS
    <3>1. PICK i \in 1..Len(authUpdates') : i = j - 1
      BY <1>4
    <3>2. SentAt(x, i + 1)
      <4>1. i + 1 = j
        BY <1>4, <3>1
      <4> QED
        BY <4>1
    <3>3. SentAt(x, i)'
      BY <2>3, <3>2
    <3> QED
      BY <3>1, <3>3
  <2>5. SUFFICES ASSUME ~InHand(x), ~InMap(x), ~InBatch(x)
                 PROVE  /\ \A i \in 1..Len(authUpdates') :
                             LastSent(x, i)' => authUpdates'[i].auth = currentAuths[x]
                        /\ (\A i \in 1..Len(authUpdates') : ~SentAt(x, i)')
                             => applied'[x] = currentAuths[x]
    BY <1>2, <2>1, <2>2 DEF Newest
  <2>6. /\ \A i \in 1..Len(authUpdates) :
             LastSent(x, i) => authUpdates[i].auth = currentAuths[x]
        /\ (\A i \in 1..Len(authUpdates) : ~SentAt(x, i)) => applied[x] = currentAuths[x]
    BY <2>1, <2>5 DEF Newest
  <2>7. ASSUME NEW i \in 1..Len(authUpdates'), LastSent(x, i)'
        PROVE  authUpdates'[i].auth = currentAuths[x]
    <3>1. PICK k \in 1..Len(authUpdates) : k = i + 1
      BY <2>3
    <3>2. SentAt(x, k)
      BY <2>3, <2>7, <3>1 DEF LastSent
    <3>3. ASSUME NEW j \in 1..Len(authUpdates), SentAt(x, j) PROVE j <= k
      <4>1. CASE j = 1
        BY <1>4, <4>1
      <4>2. CASE j # 1
        <5>1. j - 1 \in 1..Len(authUpdates') /\ SentAt(x, j - 1)'
          BY <2>4, <3>3, <4>2
        <5>2. j - 1 <= i
          BY <2>7, <5>1 DEF LastSent
        <5> QED
          BY <1>4, <3>1, <5>2
      <4> QED
        BY <4>1, <4>2
    <3>4. authUpdates[k].auth = currentAuths[x]
      BY <2>6, <3>2, <3>3 DEF LastSent
    <3> QED
      BY <1>4, <3>1, <3>4
  <2>8. ASSUME \A i \in 1..Len(authUpdates') : ~SentAt(x, i)'
        PROVE  applied'[x] = currentAuths[x]
    <3>1. \A j \in 1..Len(authUpdates) : SentAt(x, j) => j = 1
      BY <2>4, <2>8
    <3>2. CASE e.id = x
      <4>1. SentAt(x, 1) /\ 1 \in 1..Len(authUpdates)
        BY <1>4, <3>2 DEF SentAt
      <4>2. LastSent(x, 1)
        BY <3>1, <4>1 DEF LastSent
      <4> QED
        BY <1>2, <1>3, <1>4, <2>6, <3>2, <4>1, <4>2
    <3>3. CASE e.id # x
      <4>1. \A j \in 1..Len(authUpdates) : ~SentAt(x, j)
        BY <1>4, <3>1, <3>3 DEF SentAt
      <4> QED
        BY <1>2, <1>3, <2>6, <3>3, <4>1
    <3> QED
      BY <3>2, <3>3
  <2> QED
    BY <2>7, <2>8
<1>9. Refreshing => Refreshing'
  BY <1>2 DEF Refreshing
<1> QED
  BY <1>2, <1>7, <1>8, <1>9, OnlyMoved

-----------------------------------------------------------------------------
(***************************************************************************)
(* The invariant, and what it says of the watcher at rest.                 *)
(***************************************************************************)
LEMMA InitInv == Init => WatcherInv
PROOF
<1> SUFFICES ASSUME Init PROVE WatcherInv
  OBVIOUS
<1>1. /\ disk \in [Files -> Contents \cup {None}] /\ configFile \in Configs
      /\ events = <<>> /\ config = configFile /\ lastConfigHash = None /\ lastRemoveTimes = {}
      /\ runtimeAuths = {} /\ applied = currentAuths
      /\ pendingUpdates = NoUpdates /\ authUpdates = <<>>
      /\ dispatcher = [step |-> "checking", batch |-> NoUpdates]
      /\ Unscanned \/ Scanned
  BY DEF Init
<1>2. PICK known : known = Synthesize(disk, config)
  OBVIOUS
<1>3. known \in [SourceIds -> Body]
  BY <1>1, <1>2, SynthesizeFacts
<1>4. /\ lastAuthHashes \in [Files -> Contents \cup {None}] /\ currentAuths \in [Ids -> Body]
      /\ Scanned => \A id \in SourceIds : currentAuths[id] = known[id]
  <2>1. CASE Unscanned
    <3>1. lastAuthHashes = [f \in Files |-> None] /\ currentAuths = [id \in Ids |-> None]
      BY <2>1 DEF Unscanned
    <3>2. ASSUME Scanned PROVE \A id \in SourceIds : currentAuths[id] = known[id]
      BY <1>2, <3>2, SourceFacts DEF Scanned
    <3> QED
      BY <3>1, <3>2 DEF Body
  <2>2. CASE Scanned
    <3>1. /\ lastAuthHashes = disk
          /\ currentAuths = [id \in Ids |-> IF id \in SourceIds THEN known[id] ELSE None]
      BY <1>2, <2>2 DEF Scanned
    <3> QED
      BY <1>1, <1>3, <3>1, SourceFacts DEF Body
  <2> QED
    BY <1>1, <2>1, <2>2
<1>5. PICK s, m :
        /\ s \in {"scanning", "done"} /\ m = [Idle EXCEPT !.step = s]
        /\ op = [g \in Goroutines |-> IF g = Main THEN m ELSE Idle]
        /\ s = "done" => Scanned
  <2>1. CASE Unscanned
    <3>1. PICK m : m = [Idle EXCEPT !.step = "scanning"]
      OBVIOUS
    <3>2. op = [g \in Goroutines |-> IF g = Main THEN m ELSE Idle]
      BY <2>1, <3>1 DEF Unscanned
    <3> QED
      BY <3>1, <3>2
  <2>2. CASE Scanned
    <3>1. PICK m : m = [Idle EXCEPT !.step = "done"]
      OBVIOUS
    <3>2. op = [g \in Goroutines |-> IF g = Main THEN m ELSE Idle]
      BY <2>2, <3>1 DEF Scanned
    <3> QED
      BY <2>2, <3>1, <3>2
  <2> QED
    BY <1>1, <2>1, <2>2
<1>6. m \in OpRecords /\ m.step = s /\ m.updates = NoUpdates
  BY <1>5, IdleFacts DEF OpRecords, Steps, Idle
<1>7. Main # Handler /\ Main \in Goroutines /\ Main \in Reloading /\ Handler \in Goroutines
  BY SourceFacts
<1>8. OpOK(Main, m)
  BY <1>5, <1>6, <1>7 DEF OpOK
<1>9. OpsTyped /\ op[Main] = m /\ op[Handler].step = "idle"
      /\ \A g \in Goroutines : op[g].updates = NoUpdates
  <2> HIDE DEF Idle
  <2> QED
    BY <1>5, <1>6, <1>7, <1>8, IdleFacts DEF OpsTyped
<1>10. Typed
  <2>1. FilesTyped /\ MapsTyped
    BY <1>1, <1>4 DEF FilesTyped, MapsTyped
  <2>2. PipelineTyped
    BY <1>1, <1>4, NoUpdatesFacts, WatcherAssumption DEF PipelineTyped
  <2> QED
    BY <1>9, <2>1, <2>2 DEF Typed
<1>11. PipelineInv
  <2>1. Len(authUpdates) = 0 /\ \A i : ~(i \in 1..0)
    BY <1>1
  <2>2. \A id : ~InHand(id) /\ ~InMap(id) /\ ~InBatch(id)
    BY <1>1, <1>9, NoUpdatesFacts DEF InHand, Has, InMap, InBatch
  <2>3. \A id, g : g \in Goroutines => ~Has(g, id)
    BY <2>2 DEF InHand
  <2> QED
    BY <1>1, <2>1, <2>2, <2>3 DEF PipelineInv, Newest
<1>12. SourcesInv
  <2>1. CASE s = "scanning"
    BY <1>6, <1>7, <1>9, <2>1 DEF SourcesInv, Refreshing
  <2>2. CASE s = "done"
    BY <1>2, <1>4, <1>5, <2>2 DEF SourcesInv, Scanned
  <2> QED
    BY <1>5, <2>1, <2>2
<1>13. FilesInv
  <2>1. Len(events) = 0 /\ \A i : ~(i \in 1..0)
    BY <1>1
  <2>2. EventsTell /\ HandlerTells
    BY <1>9, <2>1 DEF EventsTell, HandlerTells, Busy
  <2>3. ~At(Main, "scanning") => \A f \in Files : Followed(f)
    BY <1>5, <1>6, <1>9 DEF At, Followed, Scanned
  <2> QED
    BY <2>2, <2>3 DEF FilesInv
<1> QED
  BY <1>10, <1>11, <1>12, <1>13 DEF WatcherInv

LEMMA NextInv == WatcherInv /\ [Next]_vars => WatcherInv'
PROOF
<1> SUFFICES ASSUME WatcherInv, [Next]_vars PROVE WatcherInv'
  OBVIOUS
<1>1. ASSUME NEW f \in Files, SaveFile(f) PROVE WatcherInv'
  <2>1. PICK c \in Contents : ChangeFile(f, c, "write")
    BY <1>1 DEF SaveFile
  <2>2. c # None
    BY WatcherAssumption
  <2> QED
    BY <2>1, <2>2, FileChanges
<1>2. ASSUME NEW f \in Files, TruncateFile(f) PROVE WatcherInv'
  <2>1. ChangeFile(f, Empty, "write") /\ Empty # None
    BY <1>2, WatcherAssumption DEF TruncateFile
  <2> QED
    BY <2>1, FileChanges
<1>3. ASSUME NEW f \in Files, RemoveFile(f) PROVE WatcherInv'
  <2>1. ChangeFile(f, None, "remove")
    BY <1>3 DEF RemoveFile
  <2> QED
    BY <2>1, FileChanges
<1>4. CASE World
  <2>1. ASSUME NEW s \in Sessions, Connect(s) PROVE WatcherInv'
    <3>1. RuntimeUpdate(s, RuntimeAuth(s)) /\ op[s].step = "idle" /\ RuntimeAuth(s) \in Body
      BY <2>1, RuntimeAuthFacts DEF Connect, At
    <3> QED
      BY <3>1, RuntimeUpdated
  <2>2. ASSUME NEW s \in Sessions, Disconnect(s) PROVE WatcherInv'
    <3>1. RuntimeUpdate(s, None) /\ op[s].step = "connected" /\ None \in Body
      BY <2>2 DEF Disconnect, At, Body
    <3> QED
      BY <3>1, RuntimeUpdated
  <2> QED
    BY <1>1, <1>2, <1>3, <1>4, <2>1, <2>2, ConfigChanges, WindowPasses DEF World
<1>5. CASE HandlerStep
  BY <1>5, ConfigEvents, WriteEvents, RemoveEvents, RemovalSettles, FileChecked, FileRead,
     FileCommitted, ClientRemoved DEF HandlerStep
<1>6. ASSUME NEW r \in Reloading, ReloadStep(r) PROVE WatcherInv'
  BY <1>6, ConfigHashed, ConfigLoaded, ConfigInstalled, AffectedFiltered, SnapshotTaken,
     UpdatesPrepared, ReloadFinished DEF ReloadStep
<1>7. CASE DispatcherStep
  BY <1>7, BatchTaken, UpdateSent DEF DispatcherStep
<1>8. CASE UNCHANGED vars
  <2>1. /\ UNCHANGED <<files, events, timer, maps, pipeline, op, history>>
    BY <1>8 DEF vars
  <2>2. Typed'
    BY <2>1 DEF WatcherInv, Typed, files, maps, pipeline, FilesTyped, MapsTyped, PipelineTyped, OpsTyped
  <2>3. PipelineSame /\ SourcesSame /\ FilesSame
    BY <2>1 DEF files, maps, pipeline, history, PipelineSame, SourcesSame, FilesSame, UpdatesSame,
                Refreshing
  <2> QED
    BY <2>2, <2>3, PipelineKept, SourcesKept, FilesKept DEF WatcherInv
<1>9. CASE Next
  BY <1>4, <1>5, <1>6, <1>7, <1>9, TimerFires, FilesScanned, UpdatesQueued, UpdateApplied DEF Next
<1> QED
  BY <1>8, <1>9

LEMMA AlwaysInv == Spec => []WatcherInv
PROOF BY InitInv, NextInv, PTL DEF Spec

\* Every variable keeps its type, the channel of updates its capacity, and
\* every update concerns a known credential (TypeOK).
THEOREM WatcherTyped == Spec => []TypeOK
PROOF
<1>1. WatcherInv => TypeOK
  <2> SUFFICES ASSUME WatcherInv PROVE TypeOK
    OBVIOUS
  <2>1. \A g \in Goroutines : op[g].updates \in Updates
    BY DEF WatcherInv, Typed, OpsTyped, OpRecords
  <2>2. \A u \in Updates : DOMAIN u \subseteq Ids
    BY UpdatesFacts
  <2>3. pendingUpdates \in Updates /\ dispatcher.batch \in Updates
    BY DEF WatcherInv, Typed, PipelineTyped
  <2> QED
    BY <2>1, <2>2, <2>3 DEF WatcherInv, Typed, FilesTyped, MapsTyped, PipelineTyped, TypeOK, Body
<1> QED
  BY <1>1, AlwaysInv, PTL

\* When nothing is under way, what the watcher processed last of each file is
\* what the file says, except after a removal that was debounced away
\* (handleEvent, addOrUpdateClient, removeClient).
THEOREM WatcherFollowsFiles == Spec => []FollowsFiles
PROOF
<1>1. WatcherInv => FollowsFiles
  <2> SUFFICES ASSUME WatcherInv, Quiet, NEW f \in Files \ missed, disk[f] # Empty
               PROVE  lastAuthHashes[f] = disk[f]
    BY DEF FollowsFiles
  <2>1. Len(events) = 0 /\ \A i : ~(i \in 1..0)
    BY DEF Quiet
  <2>2. ~Announced(f)
    BY <2>1 DEF Announced
  <2>3. ~At(Main, "scanning") /\ op[Handler].step \notin Busy
    BY SourceFacts DEF Quiet, At, Busy
  <2> QED
    BY <2>2, <2>3 DEF WatcherInv, FilesInv, Followed
<1> QED
  BY <1>1, AlwaysInv, PTL

\* When nothing is under way, the credentials the watcher knows are those of
\* its files and its configuration, except those of an outdated snapshot
\* (refreshAuthState, prepareAuthUpdatesLocked).
THEOREM WatcherFollowsSources == Spec => []FollowsSources
PROOF
<1>1. WatcherInv => FollowsSources
  <2> SUFFICES ASSUME WatcherInv, Quiet, NEW id \in SourceIds \ stale
               PROVE  currentAuths[id] = Synthesize(lastAuthHashes, config)[id]
    BY DEF FollowsSources
  <2>1. ~Refreshing
    BY SourceFacts DEF Quiet, Refreshing
  <2> QED
    BY <2>1 DEF WatcherInv, SourcesInv
<1> QED
  BY <1>1, AlwaysInv, PTL

\* When nothing is under way, the service has the credentials the watcher
\* knows, except those whose updates two goroutines held at once, or that a
\* reload dropped (dispatchAuthUpdates, dispatchLoop, handleAuthUpdate).
THEOREM ServiceFollowsWatcher == Spec => []ServiceFollows
PROOF
<1>1. WatcherInv => ServiceFollows
  <2> SUFFICES ASSUME WatcherInv, Quiet, NEW id \in Ids \ loose
               PROVE  applied[id] = currentAuths[id]
    BY DEF ServiceFollows
  <2>1. \A g \in Goroutines : op[g].updates = NoUpdates
    BY DEF WatcherInv, Typed, OpsTyped, OpOK, Quiet
  <2>2. ~InHand(id) /\ ~InMap(id) /\ ~InBatch(id)
    BY <2>1, NoUpdatesFacts DEF InHand, Has, InMap, InBatch, Quiet
  <2>3. Len(authUpdates) = 0 /\ \A i : ~(i \in 1..0)
    BY DEF Quiet
  <2> QED
    BY <2>2, <2>3 DEF WatcherInv, PipelineInv, Newest
<1> QED
  BY <1>1, AlwaysInv, PTL
=============================================================================
