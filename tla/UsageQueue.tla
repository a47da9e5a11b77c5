----------------------------- MODULE UsageQueue -----------------------------
(***************************************************************************)
(* The usage queue (internal/redisqueue/queue.go) with its users: the      *)
(* dispatcher of the usage manager, whose plugin enqueues a payload, the   *)
(* readers that pop (the management API and LPOP/RPOP of the redis         *)
(* protocol), the forwarder that sends payloads to the home server and     *)
(* puts back what it could not send (service.go), and the subscribers of   *)
(* the redis protocol.  A step is one critical section of the queue's      *)
(* mutex, one atomic flag, one reading of the clock or one channel         *)
(* operation outside the lock.                                             *)
(***************************************************************************)
EXTENDS Integers, SequencesExt

CONSTANTS
  Dispatcher,       \* the goroutine whose plugin enqueues new payloads
  Poppers,          \* goroutines that pop a batch and answer with it
  Forwarders,       \* goroutines that pop a batch and send it to home
  Toggles,          \* goroutines that switch the queue on and off
  Subscriptions,    \* subscriptions that may be made, one use each
  Buffer,           \* usageSubscriberBuffer
  BatchSize,        \* the forwarder's batch, and the most a reader asks for
  Retention,        \* retentionSeconds
  CompactHead,      \* the head at which the items are always copied
  MaxPayloads,      \* bound on the payloads published
  MaxUnconfirmed,   \* bound on the failed pushes of one payload that home stored
  MaxTime,          \* bound on the clock
  Scenarios         \* who takes part in a behaviour, and its bounds on the
                    \* payloads, the clock and the switches

Payloads == 1..MaxPayloads
Procs == {Dispatcher} \cup Poppers \cup Forwarders \cup Toggles

ASSUME QueueAssumption ==
  /\ {Buffer, BatchSize, Retention, CompactHead} \subseteq Nat \ {0}
  /\ {MaxPayloads, MaxUnconfirmed} \subseteq Nat /\ MaxTime \in Nat \ {0}
  /\ IsFiniteSet(Forwarders)
  /\ Scenarios \subseteq [active : SUBSET (Procs \cup Subscriptions),
                          payloads : 0..MaxPayloads, time : 0..MaxTime, toggles : Nat]

VARIABLES
  enabled, items, head,
  subscribers,  \* the subscriptions in the queue's map
  channel,      \* per subscription: the buffered messages, and how often it was closed
  user,         \* what the goroutine that holds a subscription is doing
  op,           \* what each of the other goroutines is doing
  published,    \* number of payloads published
  toggled,      \* number of switches
  now,
  scenario,     \* the scenario of this behaviour, which never changes
  popped,       \* history: the batch popped last
  answered      \* history: how often each payload left, to a reader, to home or to
                \* subscribers; and how often by a push that home stored and
                \* that failed all the same, its reply lost or late

queue == <<items, head>>
delivery == <<subscribers, channel, user>>
bounds == <<published, toggled, now, scenario>>
vars == <<enabled, queue, delivery, op, bounds, popped, answered>>

Entry == [payload : Payloads, at : 1..MaxTime]
Live == SubSeq(items, head + 1, Len(items))

IdleOp == [at |-> "idle", payloads |-> <<>>, time |-> 0, closing |-> {}]
At(p, step) == op[p].at = step
Go(p, step) == op' = [op EXCEPT ![p].at = step]

Init ==
  /\ enabled = TRUE /\ items = <<>> /\ head = 0
  /\ subscribers = {}
  /\ channel = [s \in Subscriptions |-> [messages |-> 0, closes |-> 0]]
  /\ user = [s \in Subscriptions |-> "new"]
  /\ op = [p \in Procs |-> IdleOp]
  /\ published = 0 /\ toggled = 0 /\ now = 1 /\ scenario \in Scenarios
  /\ popped = <<>> /\ answered = [x \in Payloads |-> [left |-> 0, failed |-> 0]]

-----------------------------------------------------------------------------
(***************************************************************************)
(* The items slice and its head index.                                     *)
(***************************************************************************)
\* pruneLocked at time t.
\* Bug: the search for an unexpired item starts before the head.
PrunedFromStart(q, t) ==
  IF q.head >= Len(q.items) THEN [items |-> <<>>, head |-> 0]
  ELSE LET fresh == {i \in 1..Len(q.items) : q.items[i].at >= t - Retention}
       IN  [q EXCEPT !.head = IF fresh = {} THEN Len(q.items) ELSE Min(fresh) - 1]

Pruned(q, t) ==
  IF q.head >= Len(q.items) THEN [items |-> <<>>, head |-> 0]
  ELSE LET fresh == {i \in q.head + 1..Len(q.items) : q.items[i].at >= t - Retention}
       IN  [q EXCEPT !.head = IF fresh = {} THEN Len(q.items) ELSE Min(fresh) - 1]

\* maybeCompactLocked.
\* Bug: the copied slice keeps its old head.
CompactedKeepingHead(q) ==
  IF q.head = 0 THEN q
  ELSE IF q.head >= Len(q.items) THEN [items |-> <<>>, head |-> 0]
  ELSE IF q.head < CompactHead /\ q.head * 2 < Len(q.items) THEN q
  ELSE [q EXCEPT !.items = SubSeq(q.items, q.head + 1, Len(q.items))]

Compacted(q) ==
  IF q.head = 0 THEN q
  ELSE IF q.head >= Len(q.items) THEN [items |-> <<>>, head |-> 0]
  ELSE IF q.head < CompactHead /\ q.head * 2 < Len(q.items) THEN q
  ELSE [items |-> SubSeq(q.items, q.head + 1, Len(q.items)), head |-> 0]

SetQueue(q) == items' = q.items /\ head' = q.head
Current == [items |-> items, head |-> head]

-----------------------------------------------------------------------------
(***************************************************************************)
(* Enqueue: the flag, then the subscribers, then, if there are none, the   *)
(* clock and the queue.  A batch is enqueued payload by payload.           *)
(***************************************************************************)
Begun(payloads) == [IdleOp EXCEPT !.at = "flag", !.payloads = payloads]
Remaining(p) == IF Len(op[p].payloads) = 1 THEN IdleOp ELSE Begun(Tail(op[p].payloads))
Enqueued(p) == op' = [op EXCEPT ![p] = Remaining(p)]

\* The usage manager's dispatcher calls the queue's plugin.
HandleUsage(p) ==
  /\ p = Dispatcher /\ At(p, "idle") /\ enabled /\ published < scenario.payloads
  /\ published' = published + 1
  /\ op' = [op EXCEPT ![p] = Begun(<<published + 1>>)]
  /\ UNCHANGED <<enabled, queue, delivery, toggled, now, scenario, popped, answered>>

\* Bug: a disabled queue takes payloads too.
CheckNothing(p) ==
  /\ At(p, "flag")
  /\ Go(p, "publish")
  /\ UNCHANGED <<enabled, queue, delivery, bounds, popped, answered>>

CheckEnabled(p) ==
  /\ At(p, "flag")
  /\ IF enabled THEN Go(p, "publish") ELSE Enqueued(p)
  /\ UNCHANGED <<enabled, queue, delivery, bounds, popped, answered>>

\* A subscriber with a full buffer is dropped and its channel closed.
Sent(s) == channel[s].messages < Buffer
publishToSubscribers ==
  /\ subscribers' = {s \in subscribers : Sent(s)}
  /\ channel' = [s \in Subscriptions |->
       IF s \notin subscribers THEN channel[s]
       ELSE IF Sent(s) THEN [channel[s] EXCEPT !.messages = @ + 1]
       ELSE [channel[s] EXCEPT !.closes = @ + 1]]

PublishToSubscribers(p) ==
  /\ At(p, "publish")
  /\ IF subscribers = {} THEN /\ Go(p, "clock")
                              /\ UNCHANGED <<subscribers, channel, answered>>
     ELSE /\ publishToSubscribers
          /\ Enqueued(p)
          /\ answered' = [answered EXCEPT ![Head(op[p].payloads)].left = @ + 1]
  /\ UNCHANGED <<enabled, queue, user, bounds, popped>>

ReadClock(p) ==
  /\ At(p, "clock")
  /\ op' = [op EXCEPT ![p].at = "append", ![p].time = now]
  /\ UNCHANGED <<enabled, queue, delivery, bounds, popped, answered>>

AppendItem(p) ==
  /\ At(p, "append")
  /\ LET q    == Pruned(Current, op[p].time)
         item == [payload |-> Head(op[p].payloads), at |-> op[p].time]
     IN  SetQueue(Compacted([q EXCEPT !.items = Append(@, item)]))
  /\ Enqueued(p)
  /\ UNCHANGED <<enabled, delivery, bounds, popped, answered>>

-----------------------------------------------------------------------------
(***************************************************************************)
(* PopOldest, and what its callers do with the batch.                      *)
(***************************************************************************)
StartPop(p) ==
  /\ p \in Poppers \cup Forwarders /\ At(p, "idle") /\ enabled
  /\ op' = [op EXCEPT ![p].at = "pop", ![p].time = now]
  /\ UNCHANGED <<enabled, queue, delivery, bounds, popped, answered>>

\* A reader asks for any number of payloads, the forwarder for a batch.
Wanted(p) == IF p \in Forwarders THEN {BatchSize} ELSE 1..BatchSize

PopOldest(p) ==
  /\ At(p, "pop")
  /\ \E wanted \in Wanted(p) :
     LET q     == Pruned(Current, op[p].time)
         count == Min({wanted, Len(q.items) - q.head})
         batch == SubSeq(q.items, q.head + 1, q.head + count)
         names == [i \in 1..count |-> batch[i].payload]
     IN  /\ SetQueue(IF count = 0 THEN [items |-> <<>>, head |-> 0]
                                  ELSE Compacted([q EXCEPT !.head = @ + count]))
         /\ popped' = batch
         /\ IF p \in Forwarders /\ count > 0
              THEN /\ op' = [op EXCEPT ![p] = [IdleOp EXCEPT !.at = "push", !.payloads = names]]
                   /\ UNCHANGED answered
              ELSE /\ op' = [op EXCEPT ![p] = IdleOp]
                   /\ answered' = [x \in Payloads |-> [answered[x] EXCEPT
                        !.left = @ + Cardinality({i \in 1..count : names[i] = x})]]
  /\ UNCHANGED <<enabled, delivery, bounds>>

\* LPushUsage succeeds.
Pushed(p) ==
  /\ At(p, "push")
  /\ answered' = [answered EXCEPT ![Head(op[p].payloads)].left = @ + 1]
  /\ op' = [op EXCEPT ![p] = IF Len(@.payloads) = 1 THEN IdleOp
                             ELSE [@ EXCEPT !.payloads = Tail(op[p].payloads)]]
  /\ UNCHANGED <<enabled, queue, delivery, bounds, popped>>

\* It fails: this payload and those behind it are enqueued again.  Home may
\* have stored the payload before the connection broke or the read timed out.
HomeStored(x) ==
  /\ answered[x].failed < MaxUnconfirmed
  /\ answered' = [answered EXCEPT ![x] = [left |-> @.left + 1, failed |-> @.failed + 1]]

PushFailed(p) ==
  /\ At(p, "push")
  /\ op' = [op EXCEPT ![p] = Begun(@.payloads)]
  /\ HomeStored(Head(op[p].payloads)) \/ UNCHANGED answered
  /\ UNCHANGED <<enabled, queue, delivery, bounds, popped>>

-----------------------------------------------------------------------------
(***************************************************************************)
(* SetEnabled, and subscriptions.  Channels are closed after the unlock by *)
(* whoever took them out of the map.                                       *)
(***************************************************************************)
SetEnabled(p) ==
  /\ p \in Toggles /\ At(p, "idle") /\ toggled < scenario.toggles
  /\ enabled' \in BOOLEAN
  /\ toggled' = toggled + 1
  /\ op' = [op EXCEPT ![p].at = IF enabled' THEN "idle" ELSE "clear"]
  /\ UNCHANGED <<queue, delivery, published, now, scenario, popped, answered>>

Clear(p) ==
  /\ At(p, "clear")
  /\ SetQueue([items |-> <<>>, head |-> 0])
  /\ subscribers' = {}
  /\ op' = [op EXCEPT ![p] = IF subscribers = {} THEN IdleOp
                             ELSE [@ EXCEPT !.at = "close", !.closing = subscribers]]
  /\ UNCHANGED <<enabled, channel, user, bounds, popped, answered>>

CloseCleared(p) ==
  /\ At(p, "close")
  /\ \E s \in op[p].closing :
       /\ channel' = [channel EXCEPT ![s].closes = @ + 1]
       /\ op' = [op EXCEPT ![p] = IF @.closing = {s} THEN IdleOp
                                  ELSE [@ EXCEPT !.closing = op[p].closing \ {s}]]
  /\ UNCHANGED <<enabled, queue, subscribers, user, bounds, popped, answered>>

\* The channel starts with one message in its buffer.
SubscribeUsage(s) ==
  /\ user[s] = "new"
  /\ user' = [user EXCEPT ![s] = "subscribed"]
  /\ channel' = [channel EXCEPT ![s].messages = 1]
  /\ subscribers' = subscribers \cup {s}
  /\ UNCHANGED <<enabled, queue, op, bounds, popped, answered>>

Receive(s) ==
  /\ user[s] = "subscribed" /\ channel[s].messages > 0
  /\ channel' = [channel EXCEPT ![s].messages = @ - 1]
  /\ UNCHANGED <<enabled, queue, subscribers, user, op, bounds, popped, answered>>

\* The client leaves, or finds its channel closed and empty.
\* Bug: the channel is closed also by those who did not find it in the map.
UnsubscribeAlways(s) ==
  /\ user[s] = "subscribed"
  /\ subscribers' = subscribers \ {s}
  /\ user' = [user EXCEPT ![s] = "closing"]
  /\ UNCHANGED <<enabled, queue, channel, op, bounds, popped, answered>>

Unsubscribe(s) ==
  /\ user[s] = "subscribed"
  /\ subscribers' = subscribers \ {s}
  /\ user' = [user EXCEPT ![s] = IF s \in subscribers THEN "closing" ELSE "gone"]
  /\ UNCHANGED <<enabled, queue, channel, op, bounds, popped, answered>>

CloseUnsubscribed(s) ==
  /\ user[s] = "closing"
  /\ channel' = [channel EXCEPT ![s].closes = @ + 1]
  /\ user' = [user EXCEPT ![s] = "gone"]
  /\ UNCHANGED <<enabled, queue, subscribers, op, bounds, popped, answered>>

NotifyUsageRefresh ==
  /\ subscribers # {}
  /\ publishToSubscribers
  /\ UNCHANGED <<enabled, queue, user, op, bounds, popped, answered>>

Tick ==
  /\ now < scenario.time
  /\ now' = now + 1
  /\ UNCHANGED <<enabled, queue, delivery, op, published, toggled, scenario, popped, answered>>

ProcStep(p) ==
  \/ HandleUsage(p) \/ CheckEnabled(p) \/ PublishToSubscribers(p) \/ ReadClock(p) \/ AppendItem(p)
  \/ StartPop(p) \/ PopOldest(p) \/ Pushed(p) \/ PushFailed(p)
  \/ SetEnabled(p) \/ Clear(p) \/ CloseCleared(p)

UserStep(s) == SubscribeUsage(s) \/ Receive(s) \/ Unsubscribe(s) \/ CloseUnsubscribed(s)

Next ==
  \/ \E p \in Procs \cap scenario.active : ProcStep(p)
  \/ \E s \in Subscriptions \cap scenario.active : UserStep(s)
  \/ NotifyUsageRefresh \/ Tick

Spec == Init /\ [][Next]_vars
-----------------------------------------------------------------------------
(***************************************************************************)
(* Properties.                                                             *)
(***************************************************************************)
\* Pruning, popping and compaction of the items slice and its head, under
\* late clocks and batches put back, are those of a first-in first-out queue.
Fifo == INSTANCE FifoQueue WITH Entries <- Entry, pending <- Live, batch <- popped

ImplementsFifo == Fifo!Spec

\* A payload leaves for one reader only, for home, or for the subscribers of
\* one moment, however often the forwarder has put it back; it leaves once
\* more only for each push that home stored but that failed, when the
\* forwarder cannot know that home has it.
RepeatedOnlyUnconfirmed ==
  \A x \in Payloads : answered[x].left <= 1 + answered[x].failed

\* No channel is closed twice and none is closed while a publisher can still
\* find it in the map: either would panic.
ChannelsSafe ==
  \A s \in Subscriptions :
    /\ channel[s].closes <= 1
    /\ s \in subscribers => channel[s].closes = 0

\* Once a switch-off has cleared the queue, it holds at most the one payload
\* that each enqueuer had in hand when it was let through.
OffHoldsLittle ==
  ~enabled /\ (\A p \in Toggles : ~At(p, "clear")) =>
    Len(Live) <= Cardinality({Dispatcher} \cup Forwarders)
=============================================================================
