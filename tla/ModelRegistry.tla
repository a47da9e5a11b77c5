--------------------------- MODULE ModelRegistry ---------------------------
(***************************************************************************)
(* The global model registry (internal/registry/model_registry.go): which  *)
(* clients (credentials) serve which models, with what provider, which of  *)
(* these bindings are cooling down or suspended, and the cached answer to  *)
(* GetAvailableModels.  Every operation is one critical section of the     *)
(* registry's mutex, so a step is a whole operation; only a listing reads  *)
(* the clock before it takes the lock and is split there.  Model metadata, *)
(* hooks and the answer's format are left out.                             *)
(***************************************************************************)
EXTENDS Integers, FiniteSetsExt

CONSTANTS
  Models, Clients, Providers,
  Readers,      \* goroutines that list the models
  QuotaWindow,  \* modelQuotaExceededWindow
  MaxCopies,    \* bound on how often one registration names a model
  MaxTime,      \* bound on the clock
  NoProvider    \* stands for an absent provider

ASSUME RegistryAssumption ==
  /\ IsFiniteSet(Clients)
  /\ NoProvider \notin Providers
  /\ QuotaWindow \in Nat \ {0}
  /\ MaxCopies \in Nat /\ MaxTime \in Nat

Never == 0
Reasons == {"none", "quota", "other"}

VARIABLES
  models,           \* ModelRegistration by model; count 0 when there is none
  clientModels,     \* how often each client lists each model
  clientProviders,  \* the provider of each registered client
  cache,            \* availableModelsCache of one handler type
  reading,          \* the instant at which a pending listing read the clock
  now

vars == <<models, clientModels, clientProviders, cache, reading, now>>

\* A registration's marks are kept per client: the instant of a quota mark
\* (Never if there is none) and the reason of a suspension.
NoRegistration ==
  [count |-> 0, providers |-> [p \in Providers |-> 0],
   exceeded |-> [c \in Clients |-> Never], suspended |-> [c \in Clients |-> "none"]]

NoModels == [m \in Models |-> 0]
NoCache == [valid |-> FALSE, listed |-> {}, expires |-> Never]

Bound(c) == clientModels[c] # NoModels
Smaller(i, j) == IF i < j THEN i ELSE j

\* Bug: a binding listed less often is also counted as an addition.
SignedExcess(i, j) == i - j

Excess(i, j) == IF i > j THEN i - j ELSE 0

-----------------------------------------------------------------------------
(***************************************************************************)
(* The counters, changed step by step.                                     *)
(***************************************************************************)
DropProvider(reg, p, n) == [reg EXCEPT !.providers[p] = Excess(@, n)]
ClearMarks(reg, c) == [reg EXCEPT !.exceeded[c] = Never, !.suspended[c] = "none"]

\* removeModelRegistration, n times.  The entry goes with its last client.
removeModelRegistration(reg, c, p, n) ==
  IF n = 0 THEN reg
  ELSE IF reg.count <= n THEN NoRegistration
  ELSE ClearMarks(DropProvider([reg EXCEPT !.count = @ - n], p, n), c)

\* addModelRegistration, n times.
addModelRegistration(reg, p, n) ==
  [reg EXCEPT !.count = @ + n, !.providers[p] = @ + n]

\* RegisterClient for a client that is already registered, for one model it
\* listed old times and now lists new times.
\* Bug: a changed provider does not take over the bindings that stay.
ReregisteredSameProvider(reg, c, oldProvider, provider, old, new) ==
  LET removed == removeModelRegistration(reg, c, oldProvider, Excess(old, new))
      added   == addModelRegistration(removed, provider, Excess(new, old))
  IN  IF new > 0 THEN ClearMarks(added, c) ELSE added

Reregistered(reg, c, oldProvider, provider, old, new) ==
  LET kept    == IF oldProvider = provider THEN 0 ELSE Smaller(old, new)
      left    == DropProvider(reg, oldProvider, kept)
      removed == removeModelRegistration(left, c, oldProvider, Excess(old, new))
      added   == addModelRegistration(removed, provider, Excess(new, old))
  IN  IF new = 0 THEN added
      ELSE [ClearMarks(added, c) EXCEPT !.providers[provider] = @ + kept]

-----------------------------------------------------------------------------
(***************************************************************************)
(* Operations.                                                             *)
(***************************************************************************)
RegisterClient(c, provider, new) ==
  /\ new # NoModels
  /\ models' = [m \in Models |->
       IF Bound(c)
         THEN Reregistered(models[m], c, clientProviders[c], provider,
                           clientModels[c][m], new[m])
         ELSE addModelRegistration(models[m], provider, new[m])]
  /\ clientModels' = [clientModels EXCEPT ![c] = new]
  /\ clientProviders' = [clientProviders EXCEPT ![c] = provider]
  /\ cache' = NoCache
  /\ UNCHANGED <<reading, now>>

\* Also RegisterClient with no models.
UnregisterClient(c) ==
  /\ models' = [m \in Models |->
       IF Bound(c) THEN removeModelRegistration(models[m], c, clientProviders[c],
                                                clientModels[c][m])
                   ELSE models[m]]
  /\ clientModels' = [clientModels EXCEPT ![c] = NoModels]
  /\ clientProviders' = [clientProviders EXCEPT ![c] = NoProvider]
  /\ cache' = NoCache
  /\ UNCHANGED <<reading, now>>

Registered(m) == models[m].count > 0

SetModelQuotaExceeded(c, m) ==
  /\ Registered(m)
  /\ models' = [models EXCEPT ![m].exceeded[c] = now]
  /\ cache' = NoCache
  /\ UNCHANGED <<clientModels, clientProviders, reading, now>>

ClearModelQuotaExceeded(c, m) ==
  /\ Registered(m)
  /\ models' = [models EXCEPT ![m].exceeded[c] = Never]
  /\ cache' = NoCache
  /\ UNCHANGED <<clientModels, clientProviders, reading, now>>

\* A client that is suspended already keeps the first reason.
SuspendClientModel(c, m, reason) ==
  /\ Registered(m) /\ models[m].suspended[c] = "none"
  /\ models' = [models EXCEPT ![m].suspended[c] = reason]
  /\ cache' = NoCache
  /\ UNCHANGED <<clientModels, clientProviders, reading, now>>

\* Bug: the cached answer survives the resumption.
ResumeClientModelCached(c, m) ==
  /\ Registered(m) /\ models[m].suspended[c] # "none"
  /\ models' = [models EXCEPT ![m].suspended[c] = "none"]
  /\ UNCHANGED <<clientModels, clientProviders, cache, reading, now>>

ResumeClientModel(c, m) ==
  /\ Registered(m) /\ models[m].suspended[c] # "none"
  /\ models' = [models EXCEPT ![m].suspended[c] = "none"]
  /\ cache' = NoCache
  /\ UNCHANGED <<clientModels, clientProviders, reading, now>>

Recovered(time, t) == time = Never \/ t >= time + QuotaWindow

CleanupExpiredQuotas ==
  /\ models' = [m \in Models |-> [models[m] EXCEPT !.exceeded =
       [c \in Clients |-> IF Recovered(@[c], now) THEN Never ELSE @[c]]]]
  /\ models' # models
  /\ cache' = NoCache
  /\ UNCHANGED <<clientModels, clientProviders, reading, now>>

-----------------------------------------------------------------------------
(***************************************************************************)
(* Listing.                                                                *)
(***************************************************************************)
Cooling(m, t) == {c \in Clients : ~Recovered(models[m].exceeded[c], t)}
SuspendedFor(m, reasons) == {c \in Clients : models[m].suspended[c] \in reasons}

\* When the quota mark of a model's client runs out.
CoolingEnd(x) == models[x[1]].exceeded[x[2]] + QuotaWindow

Listed(m, t) ==
  LET cooling == Cooling(m, t)
      other   == SuspendedFor(m, {"other"})
  IN  \/ models[m].count > Cardinality(cooling) + Cardinality(other)
      \/ /\ Registered(m) /\ other = {}
         /\ cooling # {} \/ SuspendedFor(m, {"quota"}) # {}

\* buildAvailableModelsLocked: the answer stands until the next mark runs out.
\* Bug: the answer stands until the last one has.
buildAvailableModelsUntilLast(t) ==
  LET ends == {CoolingEnd(x) : x \in {y \in Models \X Clients : y[2] \in Cooling(y[1], t)}}
  IN  [valid |-> TRUE, listed |-> {m \in Models : Listed(m, t)},
       expires |-> IF ends = {} THEN Never ELSE Max(ends)]

buildAvailableModels(t) ==
  LET ends == {CoolingEnd(x) : x \in {y \in Models \X Clients : y[2] \in Cooling(y[1], t)}}
  IN  [valid |-> TRUE, listed |-> {m \in Models : Listed(m, t)},
       expires |-> IF ends = {} THEN Never ELSE Min(ends)]

\* The cached answer is good for a reader whose clock said t.
Usable(t) == cache.valid /\ (cache.expires = Never \/ t < cache.expires)

ReadClock(r) ==
  /\ reading[r] = Never
  /\ reading' = [reading EXCEPT ![r] = now]
  /\ UNCHANGED <<models, clientModels, clientProviders, cache, now>>

GetAvailableModels(r) ==
  /\ reading[r] # Never
  /\ cache' = IF Usable(reading[r]) THEN cache ELSE buildAvailableModels(reading[r])
  /\ reading' = [reading EXCEPT ![r] = Never]
  /\ UNCHANGED <<models, clientModels, clientProviders, now>>

Tick ==
  /\ now < MaxTime
  /\ now' = now + 1
  /\ UNCHANGED <<models, clientModels, clientProviders, cache, reading>>

Init ==
  /\ models = [m \in Models |-> NoRegistration]
  /\ clientModels = [c \in Clients |-> NoModels]
  /\ clientProviders = [c \in Clients |-> NoProvider]
  /\ cache = NoCache
  /\ reading = [r \in Readers |-> Never]
  /\ now = 1

ClientStep(c) ==
  \/ \E p \in Providers, new \in [Models -> 0..MaxCopies] : RegisterClient(c, p, new)
  \/ UnregisterClient(c)
  \/ \E m \in Models :
       \/ SetModelQuotaExceeded(c, m) \/ ClearModelQuotaExceeded(c, m)
       \/ \E reason \in Reasons \ {"none"} : SuspendClientModel(c, m, reason)
       \/ ResumeClientModel(c, m)

Next ==
  \/ \E c \in Clients : ClientStep(c)
  \/ \E r \in Readers : ReadClock(r) \/ GetAvailableModels(r)
  \/ CleanupExpiredQuotas \/ Tick

Spec == Init /\ [][Next]_vars
-----------------------------------------------------------------------------
(***************************************************************************)
(* Properties.                                                             *)
(***************************************************************************)
TypeOK ==
  /\ models \in [Models -> [count : Nat, providers : [Providers -> Nat],
                            exceeded : [Clients -> Nat], suspended : [Clients -> Reasons]]]
  /\ clientModels \in [Clients -> [Models -> 0..MaxCopies]]
  /\ clientProviders \in [Clients -> Providers \cup {NoProvider}]
  /\ cache \in [valid : BOOLEAN, listed : SUBSET Models, expires : Nat]
  /\ reading \in [Readers -> Nat]
  /\ now \in Nat

CopiesOf(m, clients) == MapThenSumSet(LAMBDA c : clientModels[c][m], clients)

\* The counters, changed by increments over registrations, provider changes
\* and removals, stay the sums over the clients now registered: neither a
\* model nor a provider is left behind, and none disappears early.
CountsExact ==
  \A m \in Models :
    /\ models[m].count = CopiesOf(m, Clients)
    /\ \A p \in Providers :
         models[m].providers[p] = CopiesOf(m, {c \in Clients : clientProviders[c] = p})

\* An answer taken from the cache is the answer that would be computed: no
\* operation that changes availability leaves the old one behind, and it
\* expires with the first quota mark it counted.
CacheFresh == Usable(now) => cache.listed = {m \in Models : Listed(m, now)}

Unmarked(c, m) == c \notin Cooling(m, now) /\ models[m].suspended[c] = "none"
Available(m) == {c \in Clients : clientModels[c][m] > 0 /\ Unmarked(c, m)}

\* "GetAvailableModels returns all models that have at least one available
\* client".
AvailableListed == \A m \in Models : Available(m) # {} => Listed(m, now)
=============================================================================
