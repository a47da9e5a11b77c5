---------------------------- MODULE UsageManager ----------------------------
(***************************************************************************)
(* The usage manager (sdk/cliproxy/usage/manager.go): request goroutines   *)
(* publish records, one dispatcher goroutine hands them to the plugins.    *)
(* A step is one critical section of the manager's mutex, one operation of *)
(* its condition variable, or one call of a plugin.  A plugin that panics  *)
(* is recovered, which leaves no trace here.  Stop cancels a context that  *)
(* run does not look at.                                                   *)
(***************************************************************************)
EXTENDS Naturals, SequencesExt

CONSTANTS
  Publishers,      \* goroutines that publish records
  InitialPlugins,  \* the plugins registered when the program starts, in order
  LatePlugins,     \* plugins that may be registered at any time
  MaxRecords,      \* bound on the records published
  NoRecord         \* stands for "no record in hand"

\* No plugin registers twice.
ASSUME UsageAssumption ==
  /\ MaxRecords \in Nat /\ NoRecord \notin 1..MaxRecords
  /\ InitialPlugins \in Seq(ToSet(InitialPlugins)) /\ IsInjective(InitialPlugins)

Plugins == ToSet(InitialPlugins) \cup LatePlugins

VARIABLES
  queue,     \* records accepted and not yet taken by the dispatcher
  closed,
  plugins,   \* the delivery list
  worker,    \* the dispatcher: where it is in its loop
  item,      \* the record it is dispatching
  calls,     \* the plugins it has still to call for that record
  publisher, \* where each publisher is, with its record
  stopper,   \* progress of the goroutine that runs Stop
  published, \* number of records published so far
  accepted,  \* history: the records appended to the queue, in order
  handled    \* history: the records each plugin was called with, in order

dispatcher == <<worker, item, calls>>
vars == <<queue, closed, plugins, dispatcher, publisher, stopper, published,
          accepted, handled>>

WorkerStates == {"none", "checking", "waiting", "dispatching", "calling", "exited"}
IdlePublisher == [at |-> "idle", record |-> NoRecord]

Init ==
  /\ queue = <<>> /\ closed = FALSE
  /\ plugins = InitialPlugins
  /\ worker = "none" /\ item = NoRecord /\ calls = <<>>
  /\ publisher = [p \in Publishers |-> IdlePublisher]
  /\ stopper = "close"
  /\ published = 0 /\ accepted = <<>>
  /\ handled = [x \in Plugins |-> <<>>]

-----------------------------------------------------------------------------
(***************************************************************************)
(* Publish: start the dispatcher once, append, then signal.                *)
(***************************************************************************)
Started == IF worker = "none" THEN "checking" ELSE worker

Start(p) ==
  /\ publisher[p].at = "idle" /\ published < MaxRecords
  /\ worker' = Started
  /\ published' = published + 1
  /\ publisher' = [publisher EXCEPT ![p] = [at |-> "append", record |-> published + 1]]
  /\ UNCHANGED <<queue, closed, plugins, item, calls, stopper, accepted, handled>>

AppendRecord(p) ==
  /\ publisher[p].at = "append" /\ ~closed
  /\ queue' = Append(queue, publisher[p].record)
  /\ accepted' = Append(accepted, publisher[p].record)
  /\ publisher' = [publisher EXCEPT ![p].at = "signal"]
  /\ UNCHANGED <<closed, plugins, dispatcher, stopper, published, handled>>

Refused(p) ==
  /\ publisher[p].at = "append" /\ closed
  /\ publisher' = [publisher EXCEPT ![p] = IdlePublisher]
  /\ UNCHANGED <<queue, closed, plugins, dispatcher, stopper, published, accepted, handled>>

\* cond.Signal and cond.Broadcast: there is only the dispatcher to wake.
\* Bug: the publisher wakes nobody.
WokenNever == worker

Woken == IF worker = "waiting" THEN "checking" ELSE worker

Signal(p) ==
  /\ publisher[p].at = "signal"
  /\ worker' = Woken
  /\ publisher' = [publisher EXCEPT ![p] = IdlePublisher]
  /\ UNCHANGED <<queue, closed, plugins, item, calls, stopper, published, accepted, handled>>

-----------------------------------------------------------------------------
(***************************************************************************)
(* run: one pass through the critical section takes a record, exits or     *)
(* waits; the record is dispatched without the lock.                       *)
(***************************************************************************)
Exit ==
  /\ worker = "checking" /\ queue = <<>> /\ closed
  /\ worker' = "exited"
  /\ UNCHANGED <<queue, closed, plugins, item, calls, publisher, stopper, published,
                 accepted, handled>>

Wait ==
  /\ worker = "checking" /\ queue = <<>> /\ ~closed
  /\ worker' = "waiting"
  /\ UNCHANGED <<queue, closed, plugins, item, calls, publisher, stopper, published,
                 accepted, handled>>

\* Bug: the newest record is taken.
TakeNewest ==
  /\ worker = "checking" /\ queue # <<>>
  /\ item' = Last(queue)
  /\ queue' = Front(queue)
  /\ worker' = "dispatching"
  /\ UNCHANGED <<closed, plugins, calls, publisher, stopper, published, accepted, handled>>

Take ==
  /\ worker = "checking" /\ queue # <<>>
  /\ item' = Head(queue)
  /\ queue' = Tail(queue)
  /\ worker' = "dispatching"
  /\ UNCHANGED <<closed, plugins, calls, publisher, stopper, published, accepted, handled>>

\* dispatch copies the delivery list before it calls the plugins.
Dispatch ==
  /\ worker = "dispatching"
  /\ calls' = plugins
  /\ worker' = "calling"
  /\ UNCHANGED <<queue, closed, plugins, item, publisher, stopper, published, accepted, handled>>

HandleUsage ==
  /\ worker = "calling" /\ calls # <<>>
  /\ handled' = [handled EXCEPT ![Head(calls)] = Append(@, item)]
  /\ calls' = Tail(calls)
  /\ UNCHANGED <<queue, closed, plugins, worker, item, publisher, stopper, published, accepted>>

Dispatched ==
  /\ worker = "calling" /\ calls = <<>>
  /\ worker' = "checking" /\ item' = NoRecord
  /\ UNCHANGED <<queue, closed, plugins, calls, publisher, stopper, published, accepted, handled>>

-----------------------------------------------------------------------------
\* Service.Run's StartDefault.
StartDefault ==
  /\ worker = "none"
  /\ worker' = Started
  /\ UNCHANGED <<queue, closed, plugins, item, calls, publisher, stopper, published,
                 accepted, handled>>

Register(x) ==
  /\ x \notin ToSet(plugins)
  /\ plugins' = Append(plugins, x)
  /\ UNCHANGED <<queue, closed, dispatcher, publisher, stopper, published, accepted, handled>>

\* Stop, in its two parts: the mutex is released before the broadcast.
Close ==
  /\ stopper = "close"
  /\ closed' = TRUE
  /\ stopper' = "broadcast"
  /\ UNCHANGED <<queue, plugins, dispatcher, publisher, published, accepted, handled>>

\* Bug: nobody is told of the stop.
BroadcastNothing ==
  /\ stopper = "broadcast"
  /\ stopper' = "done"
  /\ UNCHANGED <<queue, closed, plugins, dispatcher, publisher, published, accepted, handled>>

Broadcast ==
  /\ stopper = "broadcast"
  /\ worker' = Woken
  /\ stopper' = "done"
  /\ UNCHANGED <<queue, closed, plugins, item, calls, publisher, published, accepted, handled>>

Publish(p) == Start(p) \/ AppendRecord(p) \/ Refused(p) \/ Signal(p)
Run == Exit \/ Wait \/ Take \/ Dispatch \/ HandleUsage \/ Dispatched

Next ==
  \/ \E p \in Publishers : Publish(p)
  \/ Run
  \/ StartDefault \/ Close \/ Broadcast
  \/ \E x \in LatePlugins : Register(x)

\* A goroutine that can run does: the dispatcher, a publisher that has begun
\* and a Stop that has begun.  Nothing makes a client publish, a plugin
\* register or the service stop.
Fairness ==
  /\ WF_vars(Run)
  /\ \A p \in Publishers : WF_vars(AppendRecord(p) \/ Refused(p) \/ Signal(p))
  /\ WF_vars(Broadcast)

Spec == Init /\ [][Next]_vars /\ Fairness
-----------------------------------------------------------------------------
(***************************************************************************)
(* Properties.                                                             *)
(***************************************************************************)
\* The manager keeps its promise: a wake-up that comes between the
\* dispatcher's check and its wait is not lost, and a stop drops nothing that
\* was accepted.
Finished == Len(accepted) - Len(queue) - (IF item = NoRecord THEN 0 ELSE 1)

Delivery == INSTANCE UsageDelivery WITH
  Records <- 1..MaxRecords, accepted <- accepted, delivered <- Finished, stopped <- closed

ImplementsDelivery == Delivery!Spec

\* Each plugin is called with a gapless run of the accepted records, from the
\* first one dispatched after its registration, in order and never twice.
PluginSeesEach ==
  \A x \in Plugins : \E first \in 1..Len(accepted) - Len(handled[x]) + 1 :
    handled[x] = SubSeq(accepted, first, first + Len(handled[x]) - 1)

\* A stopped manager whose dispatcher runs lets it end, and not before every
\* accepted record went to its plugins.
StopEndsDispatcher ==
  (stopper = "done" /\ worker # "none") ~> (worker = "exited" /\ Finished = Len(accepted))
=============================================================================
