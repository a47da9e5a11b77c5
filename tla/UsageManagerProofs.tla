------------------------- MODULE UsageManagerProofs -------------------------
(***************************************************************************)
(* Proofs about the usage manager, for any number of publishers, plugins   *)
(* and records: it delivers what it accepts, in order (the safety part of  *)
(* UsageDelivery), and each plugin sees a gapless run of the records.      *)
(***************************************************************************)
EXTENDS UsageManager, SequenceTheorems, TLAPS

-----------------------------------------------------------------------------
(***************************************************************************)
(* The inductive invariant.                                                *)
(***************************************************************************)
Records == 1..MaxRecords
PublisherRecords ==
  [at : {"idle", "append", "signal"}, record : Records \cup {NoRecord}]

Types ==
  /\ queue \in Seq(Records) /\ accepted \in Seq(Records)
  /\ closed \in BOOLEAN
  /\ plugins \in Seq(Plugins) /\ calls \in Seq(Plugins)
  /\ worker \in WorkerStates
  /\ item \in Records \cup {NoRecord}
  /\ publisher \in [Publishers -> PublisherRecords]
  /\ stopper \in {"close", "broadcast", "done"}
  /\ published \in 0..MaxRecords
  /\ handled \in [Plugins -> Seq(Records)]

\* A publisher that appends has a record; the dispatcher holds one exactly
\* while it dispatches; a stop that has not begun has closed nothing.
Control ==
  /\ \A p \in Publishers : publisher[p].at = "append" => publisher[p].record \in Records
  /\ item # NoRecord <=> worker \in {"dispatching", "calling"}
  /\ stopper = "close" => ~closed

\* The record in hand and the queue are the end of what was accepted.
Pending ==
  /\ Finished \in Nat
  /\ item # NoRecord => item = accepted[Finished + 1]
  /\ \A i \in 1..Len(queue) : queue[i] = accepted[Len(accepted) - Len(queue) + i]

\* The dispatcher calls plugins of the list, each once.
Calls ==
  /\ IsInjective(plugins) /\ IsInjective(calls)
  /\ worker # "calling" => calls = <<>>
  /\ ToSet(calls) \subseteq ToSet(plugins)

\* A plugin that was called at all has seen every record up to the one the
\* dispatcher has come to, since it was called first.
Reached(x) == Finished + IF worker = "calling" /\ x \notin ToSet(calls) THEN 1 ELSE 0

Seen(x) ==
  \/ handled[x] = <<>>
  \/ /\ x \in ToSet(plugins)
     /\ Len(handled[x]) <= Reached(x)
     /\ \A i \in 1..Len(handled[x]) :
          handled[x][i] = accepted[Reached(x) - Len(handled[x]) + i]

IInv == Types /\ Control /\ Pending /\ Calls /\ \A x \in Plugins : Seen(x)

-----------------------------------------------------------------------------
(***************************************************************************)
(* Facts about sequences.                                                  *)
(***************************************************************************)
LEMMA AppendFacts ==
  ASSUME NEW S, NEW s \in Seq(S), NEW e \in S
  PROVE  /\ Append(s, e) \in Seq(S) /\ Len(Append(s, e)) = Len(s) + 1
         /\ \A i \in 1..Len(s) : Append(s, e)[i] = s[i]
         /\ Append(s, e)[Len(s) + 1] = e
         /\ ToSet(Append(s, e)) = ToSet(s) \cup {e}
PROOF
<1>1. /\ Append(s, e) \in Seq(S) /\ Len(Append(s, e)) = Len(s) + 1
      /\ \A i \in 1..Len(s) : Append(s, e)[i] = s[i]
      /\ Append(s, e)[Len(s) + 1] = e
  BY AppendProperties
<1>2. Len(s) \in Nat /\ DOMAIN s = 1..Len(s) /\ DOMAIN Append(s, e) = 1..Len(s) + 1
  BY <1>1, LenProperties
<1>3. ToSet(Append(s, e)) = ToSet(s) \cup {e}
  BY <1>1, <1>2 DEF ToSet
<1> QED
  BY <1>1, <1>3

LEMMA TailFacts ==
  ASSUME NEW S, NEW s \in Seq(S), s # <<>>
  PROVE  /\ Head(s) \in S /\ Head(s) = s[1] /\ Tail(s) \in Seq(S)
         /\ Len(s) \in Nat \ {0} /\ Len(Tail(s)) = Len(s) - 1
         /\ \A i \in 1..Len(s) - 1 : Tail(s)[i] = s[i + 1]
         /\ ToSet(s) = ToSet(Tail(s)) \cup {Head(s)}
         /\ IsInjective(s) => IsInjective(Tail(s)) /\ Head(s) \notin ToSet(Tail(s))
PROOF
<1>1. /\ Head(s) \in S /\ Tail(s) \in Seq(S)
      /\ Len(s) \in Nat \ {0} /\ Len(Tail(s)) = Len(s) - 1
      /\ \A i \in 1..Len(s) - 1 : Tail(s)[i] = s[i + 1]
  BY HeadTailProperties, EmptySeq
<1>2. Head(s) = s[1]
  BY <1>1
<1>3. DOMAIN s = 1..Len(s) /\ DOMAIN Tail(s) = 1..Len(s) - 1
  BY <1>1, LenProperties
<1>4. \A i \in 1..Len(s) : i = 1 \/ (i - 1 \in 1..Len(s) - 1 /\ s[i] = Tail(s)[i - 1])
  BY <1>1
<1>5. ToSet(s) = ToSet(Tail(s)) \cup {Head(s)}
  <2>1. ASSUME NEW x \in ToSet(s)
        PROVE  x \in ToSet(Tail(s)) \cup {Head(s)}
    BY <1>2, <1>3, <1>4 DEF ToSet
  <2>2. ASSUME NEW x \in ToSet(Tail(s))
        PROVE  x \in ToSet(s)
    BY <1>1, <1>3 DEF ToSet
  <2>3. Head(s) \in ToSet(s)
    BY <1>1, <1>2, <1>3 DEF ToSet
  <2> QED
    BY <2>1, <2>2, <2>3
<1>6. IsInjective(s) => IsInjective(Tail(s)) /\ Head(s) \notin ToSet(Tail(s))
  BY <1>1, <1>2, <1>3 DEF ToSet, IsInjective
<1> QED
  BY <1>1, <1>2, <1>5, <1>6

-----------------------------------------------------------------------------
(***************************************************************************)
(* Invariance.                                                             *)
(***************************************************************************)
LEMMA InitInv == Init => IInv
PROOF
<1> SUFFICES ASSUME Init PROVE IInv
  OBVIOUS
<1>1. Types
  <2>1. InitialPlugins \in Seq(Plugins)
    BY UsageAssumption, SeqMonotonic DEF Plugins
  <2>2. <<>> \in Seq(Records) /\ <<>> \in Seq(Plugins)
    BY EmptySeq
  <2>3. handled \in [Plugins -> Seq(Records)]
    BY <2>2 DEF Init
  <2>4. publisher \in [Publishers -> PublisherRecords]
    BY DEF Init, PublisherRecords, IdlePublisher
  <2>5. published \in 0..MaxRecords
    BY UsageAssumption DEF Init
  <2> QED
    BY <2>1, <2>2, <2>3, <2>4, <2>5 DEF Init, Types, WorkerStates
<1>2. Control
  BY DEF Init, Control, IdlePublisher
<1>3. Pending
  BY DEF Init, Pending, Finished
<1>4. Calls
  <2>1. DOMAIN <<>> = {}
    BY EmptySeq, LenProperties
  <2>2. IsInjective(<<>>) /\ ToSet(<<>>) = {}
    BY <2>1 DEF IsInjective, ToSet
  <2> QED
    BY <2>2, UsageAssumption DEF Init, Calls
<1>5. \A x \in Plugins : Seen(x)
  BY DEF Init, Seen
<1> QED
  BY <1>1, <1>2, <1>3, <1>4, <1>5 DEF IInv

LEMMA TypesStep == ASSUME IInv, [Next]_vars PROVE Types'
PROOF
<1> USE UsageAssumption DEF IInv, Types, Records, PublisherRecords, IdlePublisher, WorkerStates
<1>1. ASSUME NEW p \in Publishers, Publish(p) PROVE Types'
  <2>1. CASE Start(p)
    BY <2>1 DEF Start, Started
  <2>2. CASE AppendRecord(p)
    <3>1. publisher[p].record \in Records
      BY <2>2 DEF AppendRecord, Control
    <3>2. /\ Append(queue, publisher[p].record) \in Seq(Records)
          /\ Append(accepted, publisher[p].record) \in Seq(Records)
      BY <3>1, AppendProperties
    <3> QED
      BY <2>2, <3>2 DEF AppendRecord, dispatcher
  <2>3. CASE Refused(p)
    BY <2>3 DEF Refused, dispatcher
  <2>4. CASE Signal(p)
    BY <2>4 DEF Signal, Woken
  <2> QED
    BY <1>1, <2>1, <2>2, <2>3, <2>4 DEF Publish
<1>2. CASE Exit \/ Wait
  BY <1>2 DEF Exit, Wait
<1>3. CASE Take
  BY <1>3, HeadTailProperties DEF Take
<1>4. CASE Dispatch \/ Dispatched
  BY <1>4 DEF Dispatch, Dispatched
<1>5. CASE HandleUsage
  <2>1. Head(calls) \in Plugins /\ Tail(calls) \in Seq(Plugins)
    BY <1>5, HeadTailProperties DEF HandleUsage
  <2>2. item \in Records
    BY <1>5 DEF HandleUsage, Control
  <2>3. Append(handled[Head(calls)], item) \in Seq(Records)
    BY <2>1, <2>2, AppendProperties
  <2> QED
    BY <1>5, <2>1, <2>3 DEF HandleUsage
<1>6. CASE StartDefault
  BY <1>6 DEF StartDefault, Started, dispatcher
<1>7. CASE Close \/ Broadcast
  BY <1>7 DEF Close, Broadcast, Woken, dispatcher
<1>8. ASSUME NEW x \in LatePlugins, Register(x) PROVE Types'
  <2>1. Append(plugins, x) \in Seq(Plugins)
    BY AppendProperties DEF Plugins
  <2> QED
    BY <1>8, <2>1 DEF Register, dispatcher
<1>9. CASE UNCHANGED vars
  BY <1>9 DEF vars, dispatcher
<1> QED
  BY <1>1, <1>2, <1>3, <1>4, <1>5, <1>6, <1>7, <1>8, <1>9 DEF Next, Run

LEMMA ControlStep == ASSUME IInv, [Next]_vars PROVE Control'
PROOF
<1> USE UsageAssumption DEF IInv, Types, Records, PublisherRecords, IdlePublisher, Control
<1>1. ASSUME NEW p \in Publishers, Publish(p) PROVE Control'
  <2>1. CASE Start(p)
    BY <2>1 DEF Start, Started
  <2>2. CASE AppendRecord(p)
    BY <2>2 DEF AppendRecord, dispatcher
  <2>3. CASE Refused(p)
    BY <2>3 DEF Refused, dispatcher
  <2>4. CASE Signal(p)
    BY <2>4 DEF Signal, Woken
  <2> QED
    BY <1>1, <2>1, <2>2, <2>3, <2>4 DEF Publish
<1>2. CASE Exit \/ Wait \/ Dispatch \/ HandleUsage \/ Dispatched
  BY <1>2 DEF Exit, Wait, Dispatch, HandleUsage, Dispatched
<1>3. CASE Take
  <2>1. Head(queue) # NoRecord
    BY <1>3, HeadTailProperties DEF Take
  <2>2. /\ item' # NoRecord /\ worker' = "dispatching"
        /\ UNCHANGED <<publisher, stopper, closed>>
    BY <1>3, <2>1 DEF Take
  <2> QED
    BY <2>2
<1>4. CASE StartDefault \/ Close \/ Broadcast
  BY <1>4 DEF StartDefault, Started, Close, Broadcast, Woken, dispatcher
<1>5. ASSUME NEW x \in LatePlugins, Register(x) PROVE Control'
  BY <1>5 DEF Register, dispatcher
<1>6. CASE UNCHANGED vars
  BY <1>6 DEF vars, dispatcher
<1> QED
  BY <1>1, <1>2, <1>3, <1>4, <1>5, <1>6 DEF Next, Run

\* How far the dispatcher has come: a finished dispatch counts one record more.
LEMMA PendingStep == ASSUME IInv, [Next]_vars PROVE Pending' /\ (Finished' = Finished \/ Dispatched)
PROOF
<1> DEFINE Goal == Pending' /\ (Finished' = Finished \/ Dispatched)
<1>a. /\ queue \in Seq(Records) /\ accepted \in Seq(Records)
      /\ Len(queue) \in Nat /\ Len(accepted) \in Nat
  BY LenProperties DEF IInv, Types
<1>b. /\ Finished \in Nat
      /\ item # NoRecord => item = accepted[Finished + 1] /\ Finished + 1 \in 1..Len(accepted)
      /\ \A i \in 1..Len(queue) : /\ queue[i] = accepted[Len(accepted) - Len(queue) + i]
                                  /\ Len(accepted) - Len(queue) + i \in 1..Len(accepted)
  BY <1>a DEF IInv, Pending, Finished
<1>1. ASSUME UNCHANGED <<queue, accepted, item>> PROVE Goal
  BY <1>1 DEF IInv, Pending, Finished
<1>2. ASSUME NEW p \in Publishers, Publish(p) PROVE Goal
  <2>1. CASE AppendRecord(p)
    <3>1. publisher[p].record \in Records
      BY <2>1 DEF AppendRecord, IInv, Control
    <3>2. /\ Len(queue') = Len(queue) + 1 /\ Len(accepted') = Len(accepted) + 1
          /\ \A i \in 1..Len(queue) : queue'[i] = queue[i]
          /\ \A i \in 1..Len(accepted) : accepted'[i] = accepted[i]
          /\ queue'[Len(queue) + 1] = publisher[p].record
          /\ accepted'[Len(accepted) + 1] = publisher[p].record
      BY <1>a, <2>1, <3>1, AppendProperties DEF AppendRecord
    <3>3. item' = item
      BY <2>1 DEF AppendRecord, dispatcher
    <3>4. Finished' = Finished
      BY <1>a, <3>2, <3>3 DEF Finished
    <3>5. item' # NoRecord => item' = accepted'[Finished' + 1]
      BY <1>b, <3>2, <3>3, <3>4
    <3>6. ASSUME NEW i \in 1..Len(queue')
          PROVE  queue'[i] = accepted'[Len(accepted') - Len(queue') + i]
      <4>1. Len(accepted') - Len(queue') + i = Len(accepted) - Len(queue) + i
        BY <1>a, <3>2
      <4>2. CASE i \in 1..Len(queue)
        BY <1>b, <3>2, <4>1, <4>2
      <4>3. CASE i = Len(queue) + 1
        BY <1>a, <3>2, <4>3
      <4> QED
        BY <1>a, <3>2, <4>2, <4>3
    <3> QED
      BY <1>b, <3>4, <3>5, <3>6 DEF Pending
  <2> QED
    BY <1>1, <1>2, <2>1 DEF Publish, Start, Refused, Signal, dispatcher
<1>3. CASE Take
  <2>1. /\ item' = queue[1] /\ item' # NoRecord /\ Len(queue) > 0
        /\ Len(queue') = Len(queue) - 1
        /\ \A i \in 1..Len(queue) - 1 : queue'[i] = queue[i + 1]
    BY <1>a, <1>3, TailFacts, UsageAssumption DEF Take, Records
  <2>2. item = NoRecord /\ accepted' = accepted
    BY <1>3 DEF Take, IInv, Control
  <2>3. Finished' = Finished /\ Finished = Len(accepted) - Len(queue)
    BY <1>a, <2>1, <2>2 DEF Finished
  <2>4. item' = accepted'[Finished' + 1]
    BY <1>a, <1>b, <2>1, <2>2, <2>3
  <2>5. ASSUME NEW i \in 1..Len(queue')
        PROVE  queue'[i] = accepted'[Len(accepted') - Len(queue') + i]
    <3>1. i + 1 \in 1..Len(queue) /\ queue'[i] = queue[i + 1]
      BY <1>a, <2>1
    <3>2. queue[i + 1] = accepted[Len(accepted) - Len(queue) + (i + 1)]
      BY <1>b, <3>1
    <3>3. Len(accepted) - Len(queue) + (i + 1) = Len(accepted') - Len(queue') + i
      BY <1>a, <2>1, <2>2
    <3> QED
      BY <2>2, <3>1, <3>2, <3>3
  <2> QED
    BY <1>b, <2>3, <2>4, <2>5 DEF Pending
<1>4. CASE Dispatched
  <2>1. item # NoRecord /\ item' = NoRecord /\ UNCHANGED <<queue, accepted>>
    BY <1>4 DEF Dispatched, IInv, Control
  <2>2. Finished' = Finished + 1
    BY <1>a, <2>1 DEF Finished
  <2> QED
    BY <1>b, <1>4, <2>1, <2>2 DEF Pending
<1>5. CASE Exit \/ Wait \/ Dispatch \/ HandleUsage \/ StartDefault \/ Close \/ Broadcast
  BY <1>1, <1>5 DEF Exit, Wait, Dispatch, HandleUsage, StartDefault, Close, Broadcast, dispatcher
<1>6. ASSUME NEW x \in LatePlugins, Register(x) PROVE Goal
  BY <1>1, <1>6 DEF Register, dispatcher
<1>7. CASE UNCHANGED vars
  BY <1>1, <1>7 DEF vars, dispatcher
<1> QED
  BY <1>2, <1>3, <1>4, <1>5, <1>6, <1>7 DEF Next, Run

LEMMA CallsStep == ASSUME IInv, [Next]_vars PROVE Calls'
PROOF
<1> USE DEF IInv, Calls
<1>1. ASSUME UNCHANGED <<plugins, calls>>, worker = "calling" => worker' = "calling" PROVE Calls'
  BY <1>1 DEF Types, WorkerStates
<1>2. ASSUME NEW p \in Publishers, Publish(p) PROVE Calls'
  BY <1>1, <1>2 DEF Publish, Start, Started, AppendRecord, Refused, Signal, Woken, dispatcher
<1>3. CASE Exit \/ Wait \/ Take \/ StartDefault \/ Close \/ Broadcast
  BY <1>1, <1>3 DEF Exit, Wait, Take, StartDefault, Started, Close, Broadcast, Woken, dispatcher
<1>4. CASE Dispatch
  BY <1>4 DEF Dispatch
<1>5. CASE HandleUsage
  BY <1>5, TailFacts DEF HandleUsage, Types
<1>6. CASE Dispatched
  BY <1>6 DEF Dispatched
<1>7. ASSUME NEW x \in LatePlugins, Register(x) PROVE Calls'
  <2>1. plugins \in Seq(Plugins) /\ x \in Plugins /\ x \notin ToSet(plugins)
    BY <1>7 DEF Register, Types, Plugins
  <2>2. /\ Len(plugins') = Len(plugins) + 1 /\ plugins'[Len(plugins) + 1] = x
        /\ \A i \in 1..Len(plugins) : plugins'[i] = plugins[i] /\ plugins[i] # x
        /\ ToSet(plugins') = ToSet(plugins) \cup {x}
    BY <2>1, <1>7, AppendFacts, LenProperties DEF Register, ToSet
  <2>3. /\ DOMAIN plugins = 1..Len(plugins) /\ Len(plugins) \in Nat
        /\ DOMAIN plugins' = 1..Len(plugins) + 1
    BY <1>7, <2>1, <2>2, AppendFacts, LenProperties DEF Register
  <2>4. IsInjective(plugins')
    BY <2>2, <2>3 DEF IsInjective
  <2> QED
    BY <1>7, <2>2, <2>4 DEF Register, dispatcher
<1>8. CASE UNCHANGED vars
  BY <1>1, <1>8 DEF vars, dispatcher
<1> QED
  BY <1>2, <1>3, <1>4, <1>5, <1>6, <1>7, <1>8 DEF Next, Run

\* What a plugin has seen stays behind the dispatcher.
LEMMA ReachedBound ==
  ASSUME IInv, NEW x \in Plugins
  PROVE  /\ Reached(x) \in Nat /\ Reached(x) <= Len(accepted) /\ Len(accepted) \in Nat
         /\ Len(handled[x]) \in Nat
PROOF
<1>1. /\ accepted \in Seq(Records) /\ queue \in Seq(Records) /\ handled[x] \in Seq(Records)
  BY DEF IInv, Types
<1>2. Len(queue) \in Nat /\ Len(accepted) \in Nat /\ Len(handled[x]) \in Nat
  BY <1>1, LenProperties
<1>3. Finished \in Nat /\ Finished <= Len(accepted)
  BY <1>2 DEF IInv, Pending, Finished
<1>4. worker = "calling" => Finished + 1 <= Len(accepted)
  BY <1>2 DEF IInv, Control, Finished
<1> QED
  BY <1>2, <1>3, <1>4 DEF Reached

LEMMA SeenStep == ASSUME IInv, [Next]_vars, NEW x \in Plugins PROVE Seen(x)'
PROOF
<1>a. Seen(x) /\ Calls /\ Control
  BY DEF IInv
<1>b. /\ Reached(x) \in Nat /\ Reached(x) <= Len(accepted) /\ Len(accepted) \in Nat
      /\ Len(handled[x]) \in Nat
  BY ReachedBound
<1>1. ASSUME UNCHANGED <<accepted, handled>>, Reached(x)' = Reached(x),
             ToSet(plugins) \subseteq ToSet(plugins')
      PROVE  Seen(x)'
  BY <1>a, <1>1 DEF Seen
<1>2. ASSUME NEW p \in Publishers, Publish(p) PROVE Seen(x)'
  <2>1. UNCHANGED <<plugins, calls, handled>> /\ (worker' = "calling" <=> worker = "calling")
    BY <1>2 DEF Publish, Start, Started, AppendRecord, Refused, Signal, Woken, dispatcher
  <2>2. Finished' = Finished
    BY <1>2, PendingStep DEF Publish, Start, Started, AppendRecord, Refused, Signal, Dispatched,
       dispatcher, Finished
  <2>3. Reached(x)' = Reached(x)
    BY <2>1, <2>2 DEF Reached
  <2>4. CASE AppendRecord(p)
    <3>1. accepted \in Seq(Records) /\ publisher[p].record \in Records
      BY <2>4 DEF AppendRecord, IInv, Types, Control
    <3>2. \A i \in 1..Len(accepted) : accepted'[i] = accepted[i]
      BY <2>4, <3>1, AppendProperties DEF AppendRecord
    <3>3. CASE handled[x] # <<>>
      <4>1. /\ x \in ToSet(plugins) /\ Len(handled[x]) <= Reached(x)
            /\ \A i \in 1..Len(handled[x]) : handled[x][i] = accepted[Reached(x) - Len(handled[x]) + i]
        BY <1>a, <3>3 DEF Seen
      <4>2. \A i \in 1..Len(handled[x]) : Reached(x) - Len(handled[x]) + i \in 1..Len(accepted)
        BY <1>b, <4>1
      <4> QED
        BY <2>1, <2>3, <3>2, <4>1, <4>2 DEF Seen
    <3> QED
      BY <2>1, <3>3 DEF Seen
  <2> QED
    BY <1>1, <1>2, <2>1, <2>3, <2>4 DEF Publish, Start, Refused, Signal
<1>3. CASE Exit \/ Wait \/ Take \/ StartDefault \/ Close \/ Broadcast
  <2>1. \/ /\ UNCHANGED <<plugins, calls, accepted, handled>>
           /\ worker # "calling" /\ worker' # "calling"
        \/ UNCHANGED <<plugins, calls, accepted, handled, worker>>
    BY <1>3 DEF Exit, Wait, Take, StartDefault, Started, Close, Broadcast, Woken, dispatcher
  <2>2. Finished' = Finished
    BY <1>3, PendingStep DEF Exit, Wait, Take, StartDefault, Started, Close, Broadcast, Woken,
       Dispatched, dispatcher, Finished
  <2> QED
    BY <1>1, <2>1, <2>2 DEF Reached
<1>4. CASE Dispatch
  <2>1. /\ UNCHANGED <<plugins, accepted, handled, queue, item>>
        /\ worker # "calling" /\ worker' = "calling" /\ calls' = plugins
    BY <1>4 DEF Dispatch
  <2>2. x \in ToSet(plugins) => Reached(x)' = Reached(x)
    BY <2>1 DEF Reached, Finished
  <2> QED
    BY <1>a, <2>1, <2>2 DEF Seen
<1>5. CASE HandleUsage
  <2>1. /\ worker = "calling" /\ calls # <<>> /\ calls' = Tail(calls)
        /\ handled' = [handled EXCEPT ![Head(calls)] = Append(@, item)]
        /\ UNCHANGED <<queue, accepted, plugins, worker, item>>
    BY <1>5 DEF HandleUsage
  <2>2. /\ Head(calls) \in Plugins /\ Head(calls) \in ToSet(plugins)
        /\ ToSet(calls) = ToSet(calls') \cup {Head(calls)} /\ Head(calls) \notin ToSet(calls')
    BY <1>a, <2>1, TailFacts DEF Calls, IInv, Types
  <2>3. handled \in [Plugins -> Seq(Records)] /\ item \in Records
    BY <1>a, <2>1 DEF Control, IInv, Types
  <2>4. Finished' = Finished
    BY <2>1 DEF Finished
  <2>5. CASE x # Head(calls)
    <3>1. handled'[x] = handled[x] /\ Reached(x)' = Reached(x)
      BY <2>1, <2>2, <2>3, <2>4, <2>5 DEF Reached
    <3> QED
      BY <1>a, <2>1, <3>1 DEF Seen
  <2>6. CASE x = Head(calls)
    <3>1. Reached(x) = Finished /\ Reached(x)' = Finished + 1
      <4>1. Finished \in Nat
        BY DEF IInv, Pending
      <4> QED
        BY <2>1, <2>2, <2>4, <2>6, <4>1 DEF Reached
    <3>2. /\ handled[x] \in Seq(Records) /\ handled'[x] = Append(handled[x], item)
      BY <2>1, <2>3, <2>6
    <3>3. /\ Len(handled'[x]) = Len(handled[x]) + 1 /\ handled'[x][Len(handled[x]) + 1] = item
          /\ \A i \in 1..Len(handled[x]) : handled'[x][i] = handled[x][i]
      BY <2>3, <3>2, AppendProperties
    <3>4. item = accepted[Finished + 1]
      BY <1>a, <2>1 DEF Control, IInv, Pending
    <3>5. Len(handled[x]) <= Finished
      BY <1>a, <1>b, <3>1 DEF Seen
    <3>6. ASSUME NEW i \in 1..Len(handled'[x])
          PROVE  handled'[x][i] = accepted[Finished + 1 - Len(handled'[x]) + i]
      <4>1. CASE i = Len(handled[x]) + 1
        BY <1>b, <3>1, <3>3, <3>4, <4>1
      <4>2. CASE i \in 1..Len(handled[x])
        <5>1. handled[x] # <<>>
          BY <4>2
        <5>2. handled[x][i] = accepted[Finished - Len(handled[x]) + i]
          BY <1>a, <3>1, <4>2, <5>1 DEF Seen
        <5>3. Finished + 1 - Len(handled'[x]) + i = Finished - Len(handled[x]) + i
          BY <1>b, <3>1, <3>3
        <5> QED
          BY <3>3, <4>2, <5>2, <5>3
      <4> QED
        BY <1>b, <3>3, <4>1, <4>2
    <3>7. Len(handled'[x]) <= Finished + 1
      BY <1>b, <3>1, <3>3, <3>5
    <3>8. /\ x \in ToSet(plugins') /\ Len(handled'[x]) <= Reached(x)'
          /\ \A i \in 1..Len(handled'[x]) :
               handled'[x][i] = accepted'[Reached(x)' - Len(handled'[x]) + i]
      <4>1. x \in ToSet(plugins') /\ Len(handled'[x]) <= Reached(x)'
        BY <2>1, <2>2, <2>6, <3>1, <3>7
      <4>2. accepted' = accepted /\ Reached(x)' = Finished + 1
        BY <2>1, <3>1
      <4>3. ASSUME NEW i \in 1..Len(handled'[x])
            PROVE  handled'[x][i] = accepted'[Reached(x)' - Len(handled'[x]) + i]
        <5>1. handled'[x][i] = accepted[Finished + 1 - Len(handled'[x]) + i]
          BY <3>6
        <5>2. Reached(x)' - Len(handled'[x]) + i = Finished + 1 - Len(handled'[x]) + i
          <6>1. Finished \in Nat /\ Len(handled'[x]) \in Nat
            BY <1>b, <3>1, <3>3
          <6> QED
            BY <4>2, <6>1
        <5>3. accepted' = accepted
          BY <4>2
        <5> QED
          BY <5>1, <5>2, <5>3
      <4> QED
        BY <4>1, <4>3
    <3> QED
      BY <3>8 DEF Seen
  <2> QED
    BY <2>5, <2>6
<1>6. CASE Dispatched
  <2>1. /\ worker = "calling" /\ calls = <<>> /\ worker' = "checking"
        /\ item # NoRecord /\ item' = NoRecord /\ UNCHANGED <<queue, accepted, handled, plugins>>
    BY <1>a, <1>6 DEF Dispatched, Control
  <2>2. Len(queue) \in Nat
    BY LenProperties DEF IInv, Types
  <2>3. Finished' = Finished + 1
    BY <1>b, <2>1, <2>2 DEF Finished
  <2>4. x \notin ToSet(calls)
    BY <2>1, EmptySeq, LenProperties DEF ToSet
  <2> QED
    BY <1>1, <2>1, <2>3, <2>4 DEF Reached
<1>7. ASSUME NEW y \in LatePlugins, Register(y) PROVE Seen(x)'
  <2>1. /\ UNCHANGED <<queue, accepted, handled, worker, item, calls>>
        /\ plugins' = Append(plugins, y)
    BY <1>7 DEF Register, dispatcher
  <2>2. ToSet(plugins) \subseteq ToSet(plugins')
    <3>1. plugins \in Seq(Plugins) /\ y \in Plugins
      BY DEF IInv, Types, Plugins
    <3> QED
      BY <2>1, <3>1, AppendFacts
  <2> QED
    BY <1>1, <2>1, <2>2 DEF Reached, Finished
<1>8. CASE UNCHANGED vars
  BY <1>1, <1>8 DEF vars, dispatcher, Reached, Finished
<1> QED
  BY <1>2, <1>3, <1>4, <1>5, <1>6, <1>7, <1>8 DEF Next, Run

\* The inductive invariant holds in every reachable state.
THEOREM Invariance == Spec => []IInv
PROOF
<1>1. Init => IInv
  BY InitInv
<1>2. IInv /\ [Next]_vars => IInv'
  BY TypesStep, ControlStep, PendingStep, CallsStep, SeenStep DEF IInv
<1> QED
  BY <1>1, <1>2, PTL DEF Spec

-----------------------------------------------------------------------------
(***************************************************************************)
(* What follows.                                                           *)
(***************************************************************************)
\* Each plugin is called with a gapless run of the accepted records, in order
\* and never twice, whenever it was registered: dispatch of manager.go calls
\* a copy of the list, and the queue gives each record out once.
THEOREM PluginsSeeRuns == Spec => []PluginSeesEach
PROOF
<1>1. IInv => PluginSeesEach
  <2> SUFFICES ASSUME IInv, NEW x \in Plugins
               PROVE  \E first \in 1..Len(accepted) - Len(handled[x]) + 1 :
                        handled[x] = SubSeq(accepted, first, first + Len(handled[x]) - 1)
    BY DEF PluginSeesEach
  <2> DEFINE n == Len(handled[x])
             first == IF handled[x] = <<>> THEN 1 ELSE Reached(x) - n + 1
             run == SubSeq(accepted, first, first + n - 1)
  <2>1. /\ handled[x] \in Seq(Records) /\ accepted \in Seq(Records) /\ n \in Nat
        /\ Len(accepted) \in Nat /\ Reached(x) \in Nat /\ Reached(x) <= Len(accepted)
        /\ handled[x] = <<>> => n = 0
    BY ReachedBound, EmptySeq DEF IInv, Types
  <2>2. /\ first \in 1..Len(accepted) - n + 1
        /\ \A i \in 1..n : handled[x][i] = accepted[first + i - 1]
    <3>1. CASE handled[x] = <<>>
      BY <2>1, <3>1
    <3>2. CASE handled[x] # <<>>
      <4>1. /\ n <= Reached(x)
            /\ \A i \in 1..n : handled[x][i] = accepted[Reached(x) - n + i]
        BY <3>2 DEF IInv, Seen
      <4>2. first = Reached(x) - n + 1
        BY <3>2
      <4> HIDE DEF first, run
      <4>3. \A i \in 1..n : first + i - 1 = Reached(x) - n + i
        BY <2>1, <4>2
      <4>4. first \in 1..Len(accepted) - n + 1
        <5>1. n \in Nat /\ Len(accepted) \in Nat /\ Reached(x) \in Nat
              /\ n <= Reached(x) /\ Reached(x) <= Len(accepted)
          BY <2>1, <4>1
        <5> HIDE DEF n
        <5> QED
          BY <4>2, <5>1
      <4> HIDE DEF n
      <4> QED
        BY <4>1, <4>3, <4>4
    <3> QED
      BY <3>1, <3>2
  <2> HIDE DEF first
  <2>3. \A i \in first..first + n - 1 : accepted[i] \in Records
    BY <2>1, <2>2, ElementOfSeq
  <2>4. /\ run \in Seq(Records) /\ Len(run) = n
        /\ \A i \in 1..n : run[i] = accepted[first + i - 1]
    <3>1. first \in Int /\ first + n - 1 \in Int /\ (first + n - 1) - first + 1 = n
      BY <2>1, <2>2
    <3> QED
      BY <2>1, <2>2, <2>3, <3>1, SubSeqProperties
  <2>5. handled[x] = run
    BY <2>1, <2>2, <2>4, SeqEqual
  <2> QED
    BY <2>2, <2>5
<1> QED
  BY <1>1, Invariance, PTL

\* The safety part of ImplementsDelivery: every step of the manager accepts a
\* record before the stop, finishes the oldest one not yet finished, stops, or
\* changes nothing that UsageDelivery can see.
THEOREM DeliveryRefined == Spec => Delivery!Init /\ [][Delivery!Next]_(Delivery!vars)
PROOF
<1>1. Init => Delivery!Init
  BY DEF Init, Finished, Delivery!Init
<1>2. IInv /\ IInv' /\ [Next]_vars => [Delivery!Next]_(Delivery!vars)
  <2> SUFFICES ASSUME IInv, IInv', [Next]_vars
               PROVE  [Delivery!Next]_(Delivery!vars)
    OBVIOUS
  <2> USE DEF Delivery!Next, Delivery!vars
  <2>1. CASE Dispatched
    <3>1. UNCHANGED <<accepted, closed, queue>> /\ item # NoRecord /\ item' = NoRecord
      BY <2>1 DEF Dispatched, IInv, Control
    <3>2. Len(queue) \in Nat /\ Len(accepted) \in Nat
      BY LenProperties DEF IInv, Types
    <3>3. Finished < Len(accepted) /\ Finished' = Finished + 1
      BY <3>1, <3>2 DEF Finished
    <3> QED
      BY <3>1, <3>3 DEF Delivery!Deliver
  <2>2. CASE ~Dispatched
    <3>1. Finished' = Finished
      BY <2>2, PendingStep
    <3>2. ASSUME NEW p \in Publishers, AppendRecord(p) PROVE \E r \in Records : Delivery!Accept(r)
      BY <3>1, <3>2 DEF AppendRecord, IInv, Control, Delivery!Accept
    <3>3. CASE Close
      <4>1. closed = FALSE /\ closed' = TRUE /\ accepted' = accepted
        BY <3>3 DEF Close, IInv, Types, Control
      <4> QED
        BY <3>1, <4>1 DEF Delivery!Stop
    <3>4. UNCHANGED <<accepted, closed>> \/ Close \/ \E p \in Publishers : AppendRecord(p)
      BY DEF Next, Publish, Start, Refused, Signal, Run, Exit, Wait, Take, Dispatch, HandleUsage,
         Dispatched, StartDefault, Broadcast, Register, vars
    <3> QED
      BY <3>1, <3>2, <3>3, <3>4 DEF Records
  <2> QED
    BY <2>1, <2>2
<1> QED
  BY <1>1, <1>2, Invariance, PTL DEF Spec
=============================================================================
