-------------------------- MODULE UsageQueueProofs --------------------------
(***************************************************************************)
(* Proofs about the usage queue, for any number of readers, forwarders,    *)
(* switches, subscriptions and payloads: it is a first-in first-out queue, *)
(* no payload leaves twice, no channel is closed twice, and a queue that   *)
(* is off holds little.                                                    *)
(***************************************************************************)
EXTENDS UsageQueue, SequenceTheorems, FiniteSetTheorems, TLAPS
-----------------------------------------------------------------------------
(***************************************************************************)
(* Types.                                                                  *)
(***************************************************************************)
OpSteps == {"idle", "flag", "publish", "clock", "append", "pop", "push", "clear", "close"}
Ops == [at : OpSteps, payloads : Seq(Payloads), time : 0..MaxTime,
        closing : SUBSET Subscriptions]
Channels == [messages : Nat, closes : Nat]

QueueOK == items \in Seq(Entry) /\ head \in 0..Len(items)
PoppedOK == popped \in Seq(Entry)
EnabledOK == enabled \in BOOLEAN
SubscribersOK == subscribers \in SUBSET Subscriptions
ChannelOK == channel \in [Subscriptions -> Channels]
UserOK == user \in [Subscriptions -> {"new", "subscribed", "closing", "gone"}]
BoundsOK ==
  published \in 0..MaxPayloads /\ toggled \in Nat /\ now \in 1..MaxTime /\ scenario \in Scenarios
AnsweredOK == answered \in [Payloads -> [left : Nat, failed : Nat]]

\* Who enqueues has a payload in hand, and who uses the clock has read it.
OpOK ==
  /\ op \in [Procs -> Ops]
  /\ \A p \in Procs :
       /\ op[p].at \in {"flag", "publish", "clock", "append", "push"} => op[p].payloads # <<>>
       /\ op[p].at \in {"append", "pop"} => op[p].time >= 1

Typed ==
  /\ QueueOK /\ PoppedOK /\ EnabledOK /\ SubscribersOK /\ ChannelOK /\ UserOK
  /\ BoundsOK /\ AnsweredOK /\ OpOK

-----------------------------------------------------------------------------
(***************************************************************************)
(* The inductive invariants.                                               *)
(***************************************************************************)
\* A channel is to be closed by at most one: the queue, which still has it in
\* its map, the user who took it out, or the goroutine that cleared the map;
\* and only while it is open.
ChannelsOwned ==
  \A s \in Subscriptions :
    /\ channel[s].closes <= 1
    /\ s \in subscribers => channel[s].closes = 0 /\ user[s] = "subscribed"
    /\ user[s] = "new" => channel[s].closes = 0
    /\ user[s] = "closing" => channel[s].closes = 0
    /\ \A p \in Procs : s \in op[p].closing =>
         /\ channel[s].closes = 0 /\ s \notin subscribers /\ user[s] \notin {"new", "closing"}
         /\ \A q \in Procs : s \in op[q].closing => p = q

\* Who has a payload: the queue, or a goroutine.
Queued(x) == \E i \in 1..Len(Live) : Live[i].payload = x
Holds(p, x) == \E i \in 1..Len(op[p].payloads) : op[p].payloads[i] = x

\* How often a payload left as far as its senders know.
Out(x) == answered[x].left - answered[x].failed

\* Each payload is in one place, until it has left.
QueueDistinct ==
  \A i, j \in 1..Len(Live) : Live[i].payload = Live[j].payload => i = j
HandDistinct ==
  \A p \in Procs : \A i, j \in 1..Len(op[p].payloads) :
    op[p].payloads[i] = op[p].payloads[j] => i = j
OnePlace ==
  \A x \in Payloads :
    /\ \A p \in Procs : Holds(p, x) =>
         ~Queued(x) /\ \A q \in Procs : Holds(q, x) => p = q
    /\ \/ Out(x) = 0
       \/ Out(x) = 1 /\ ~Queued(x) /\ \A p \in Procs : ~Holds(p, x)
    /\ x > published => Out(x) = 0 /\ ~Queued(x) /\ \A p \in Procs : ~Holds(p, x)
Places == QueueDistinct /\ HandDistinct /\ OnePlace

\* After a switch-off has cleared the queue, what is in it was let through
\* before; who is let through and has not enqueued yet counts too.
Enqueuers == {Dispatcher} \cup Forwarders
LetThrough == {p \in Procs : op[p].at \in {"publish", "clock", "append"}}
OnlyEnqueuers ==
  \A p \in Procs :
    /\ op[p].at \in {"flag", "publish", "clock", "append", "push"} => p \in Enqueuers
    /\ op[p].at = "clear" => p \in Toggles
OffBounded ==
  ~enabled /\ (\A p \in Procs : op[p].at # "clear") =>
    Len(Live) + Cardinality(LetThrough) <= Cardinality(Enqueuers)

QueueInv == Typed /\ ChannelsOwned /\ Places /\ OnlyEnqueuers /\ OffBounded

-----------------------------------------------------------------------------
(***************************************************************************)
(* Sequences, and the items slice with its head.                           *)
(***************************************************************************)
LEMMA SliceFacts ==
  ASSUME NEW S, NEW s \in Seq(S), NEW n \in 0..Len(s), NEW k \in 0..Len(s) - n
  PROVE  /\ SubSeq(s, n + 1, n + k) \in Seq(S)
         /\ Len(SubSeq(s, n + 1, n + k)) = k
         /\ \A i \in 1..k : SubSeq(s, n + 1, n + k)[i] = s[n + i]
PROOF
<1>1. n + 1 \in Int /\ n + k \in Int /\ n \in Nat /\ k \in Nat
  OBVIOUS
<1>2. \A i \in n + 1..n + k : s[i] \in S
  OBVIOUS
<1>3. /\ SubSeq(s, n + 1, n + k) \in Seq(S)
      /\ Len(SubSeq(s, n + 1, n + k)) =
           IF n + 1 <= n + k THEN (n + k) - (n + 1) + 1 ELSE 0
      /\ \A i \in 1..(n + k) - (n + 1) + 1 :
           SubSeq(s, n + 1, n + k)[i] = s[(n + 1) + i - 1]
  BY <1>1, <1>2, SubSeqProperties
<1>4. (n + k) - (n + 1) + 1 = k /\ \A i \in 1..k : (n + 1) + i - 1 = n + i
  BY <1>1
<1> QED
  BY <1>1, <1>3, <1>4

\* What is left after the first n elements.
LEMMA SuffixFacts ==
  ASSUME NEW S, NEW s \in Seq(S), NEW n \in 0..Len(s)
  PROVE  /\ SubSeq(s, n + 1, Len(s)) \in Seq(S)
         /\ Len(SubSeq(s, n + 1, Len(s))) = Len(s) - n
         /\ \A i \in 1..Len(s) - n : SubSeq(s, n + 1, Len(s))[i] = s[n + i]
PROOF
<1>1. PICK k \in 0..Len(s) - n : k = Len(s) - n /\ n + k = Len(s)
  OBVIOUS
<1>2. /\ SubSeq(s, n + 1, n + k) \in Seq(S)
      /\ Len(SubSeq(s, n + 1, n + k)) = k
      /\ \A i \in 1..k : SubSeq(s, n + 1, n + k)[i] = s[n + i]
  BY SliceFacts
<1> QED
  BY <1>1, <1>2

LEMMA SameSeq ==
  ASSUME NEW S, NEW s \in Seq(S), NEW t \in Seq(S), Len(s) = Len(t),
         \A i \in 1..Len(s) : s[i] = t[i]
  PROVE  s = t
PROOF BY SeqEqual

LEMMA MinFacts ==
  ASSUME NEW T \in SUBSET Nat, T # {}
  PROVE  Min(T) \in T /\ \A x \in T : Min(T) <= x
PROOF
<1>1. PICK x \in T : \A y \in T : x <= y
  <2> DEFINE R == OpToRel(<, Nat)
  <2>1. \A x, y \in Nat : <<y, x>> \in R <=> y < x
    BY DEF OpToRel
  <2>2. IsWellFoundedOn(R, Nat)
    BY NatLessThanWellFounded
  <2> HIDE DEF R
  <2>3. PICK x \in T : \A y \in T : ~ (<<y, x>> \in R)
    BY <2>2, WFMin
  <2>4. x \in Nat /\ \A y \in T : y \in Nat /\ ~ (y < x)
    BY <2>1, <2>3
  <2>5. \A y \in T : x <= y
    BY <2>4
  <2> QED
    BY <2>5
<1> QED
  BY <1>1 DEF Min

LiveOf(q) == SubSeq(q.items, q.head + 1, Len(q.items))
Slices == {q \in [items : Seq(Entry), head : Nat] : q.head <= Len(q.items)}
Nothing == [items |-> <<>>, head |-> 0]

LEMMA LiveFacts ==
  ASSUME NEW q \in Slices
  PROVE  /\ q.items \in Seq(Entry) /\ Len(q.items) \in Nat /\ q.head \in 0..Len(q.items)
         /\ LiveOf(q) \in Seq(Entry) /\ Len(LiveOf(q)) = Len(q.items) - q.head
         /\ \A i \in 1..Len(q.items) - q.head : LiveOf(q)[i] = q.items[q.head + i]
PROOF
<1>1. q.items \in Seq(Entry) /\ q.head \in 0..Len(q.items)
  BY DEF Slices
<1>2. Len(q.items) \in Nat
  BY <1>1
<1> DEFINE s == q.items
           n == q.head
<1>3. s \in Seq(Entry) /\ n \in 0..Len(s)
  BY <1>1
<1> HIDE DEF s, n
<1>4. /\ SubSeq(s, n + 1, Len(s)) \in Seq(Entry)
      /\ Len(SubSeq(s, n + 1, Len(s))) = Len(s) - n
      /\ \A i \in 1..Len(s) - n : SubSeq(s, n + 1, Len(s))[i] = s[n + i]
  BY <1>3, SuffixFacts
<1> QED
  BY <1>1, <1>2, <1>4 DEF LiveOf, s, n

LEMMA NothingLive == Nothing \in Slices /\ LiveOf(Nothing) = <<>>
PROOF
<1>1. Nothing.items = <<>> /\ Nothing.head = 0 /\ Nothing \in Slices
  BY DEF Nothing, Slices
<1> QED
  BY <1>1, SubSeqEmpty DEF LiveOf

\* Moving the head on.
LEMMA Advance ==
  ASSUME NEW q \in Slices, NEW n \in 0..Len(LiveOf(q))
  PROVE  /\ [q EXCEPT !.head = q.head + n] \in Slices
         /\ LiveOf([q EXCEPT !.head = q.head + n])
              = SubSeq(LiveOf(q), n + 1, Len(LiveOf(q)))
PROOF
<1> DEFINE r == [q EXCEPT !.head = q.head + n]
<1>1. /\ q.items \in Seq(Entry) /\ Len(q.items) \in Nat /\ q.head \in 0..Len(q.items)
      /\ LiveOf(q) \in Seq(Entry) /\ Len(LiveOf(q)) = Len(q.items) - q.head
      /\ \A i \in 1..Len(q.items) - q.head : LiveOf(q)[i] = q.items[q.head + i]
  BY LiveFacts
<1>2. q.head + n \in Nat /\ q.head + n <= Len(q.items)
  BY <1>1
<1>3. r.items = q.items /\ r.head = q.head + n /\ r \in Slices
  BY <1>1, <1>2 DEF Slices
<1> HIDE DEF r
<1>4. /\ LiveOf(r) \in Seq(Entry) /\ Len(LiveOf(r)) = Len(q.items) - (q.head + n)
      /\ \A i \in 1..Len(q.items) - (q.head + n) : LiveOf(r)[i] = q.items[(q.head + n) + i]
  BY <1>3, LiveFacts
<1> DEFINE t == SubSeq(LiveOf(q), n + 1, Len(LiveOf(q)))
<1>5. /\ t \in Seq(Entry) /\ Len(t) = Len(LiveOf(q)) - n
      /\ \A i \in 1..Len(LiveOf(q)) - n : t[i] = LiveOf(q)[n + i]
  BY <1>1, SuffixFacts
<1> HIDE DEF t
<1>6. Len(LiveOf(r)) = Len(t)
  BY <1>1, <1>4, <1>5
<1>7. ASSUME NEW i \in 1..Len(LiveOf(r)) PROVE LiveOf(r)[i] = t[i]
  <2>1. i \in 1..Len(q.items) - (q.head + n) /\ i \in 1..Len(LiveOf(q)) - n
        /\ n + i \in 1..Len(q.items) - q.head /\ q.head + (n + i) = (q.head + n) + i
    BY <1>1, <1>4, <1>5, <1>6
  <2> QED
    BY <1>1, <1>4, <1>5, <2>1
<1>8. LiveOf(r) = t
  BY <1>4, <1>5, <1>6, <1>7, SameSeq
<1> QED
  BY <1>3, <1>8 DEF r, t

\* pruneLocked drops some of the oldest.
LEMMA PrunedFacts ==
  ASSUME NEW q \in Slices, NEW t \in Int
  PROVE  /\ Pruned(q, t) \in Slices
         /\ \E n \in 0..Len(LiveOf(q)) :
              LiveOf(Pruned(q, t)) = SubSeq(LiveOf(q), n + 1, Len(LiveOf(q)))
PROOF
<1>1. /\ q.items \in Seq(Entry) /\ Len(q.items) \in Nat /\ q.head \in 0..Len(q.items)
      /\ LiveOf(q) \in Seq(Entry) /\ Len(LiveOf(q)) = Len(q.items) - q.head
  BY LiveFacts
<1>2. CASE q.head >= Len(q.items)
  <2>1. Pruned(q, t) = Nothing
    BY <1>2 DEF Pruned, Nothing
  <2>2. Len(LiveOf(q)) = 0 /\ 0 \in 0..Len(LiveOf(q)) /\ 0 < 0 + 1
    BY <1>1, <1>2
  <2>3. SubSeq(LiveOf(q), 0 + 1, Len(LiveOf(q))) = <<>>
    BY <2>2, SubSeqEmpty
  <2> QED
    BY <2>1, <2>2, <2>3, NothingLive
<1>3. CASE ~(q.head >= Len(q.items))
  <2> DEFINE fresh == {i \in q.head + 1..Len(q.items) : q.items[i].at >= t - Retention}
             h == IF fresh = {} THEN Len(q.items) ELSE Min(fresh) - 1
  <2>1. Pruned(q, t) = [q EXCEPT !.head = h]
    BY <1>3 DEF Pruned
  <2>2. h \in q.head..Len(q.items)
    <3>1. CASE fresh = {}
      BY <1>1, <3>1
    <3>2. CASE fresh # {}
      <4>1. fresh \in SUBSET Nat
        BY <1>1
      <4>2. Min(fresh) \in fresh
        BY <3>2, <4>1, MinFacts
      <4> QED
        BY <1>1, <3>2, <4>2
    <3> QED
      BY <3>1, <3>2
  <2> HIDE DEF h
  <2> DEFINE n == h - q.head
  <2>3. n \in 0..Len(LiveOf(q)) /\ h = q.head + n
    BY <1>1, <2>2
  <2> HIDE DEF n
  <2> QED
    BY <2>1, <2>3, Advance
<1> QED
  BY <1>2, <1>3

\* maybeCompactLocked drops nothing.
LEMMA CompactedFacts ==
  ASSUME NEW q \in Slices
  PROVE  Compacted(q) \in Slices /\ LiveOf(Compacted(q)) = LiveOf(q)
PROOF
<1>1. /\ q.items \in Seq(Entry) /\ Len(q.items) \in Nat /\ q.head \in 0..Len(q.items)
      /\ LiveOf(q) \in Seq(Entry) /\ Len(LiveOf(q)) = Len(q.items) - q.head
  BY LiveFacts
<1>2. CASE q.head = 0 \/ Compacted(q) = q
  BY <1>2 DEF Compacted
<1>3. CASE q.head # 0 /\ q.head >= Len(q.items)
  <2>1. Compacted(q) = Nothing
    BY <1>3 DEF Compacted, Nothing
  <2>2. Len(q.items) < q.head + 1
    BY <1>1, <1>3
  <2>3. LiveOf(q) = <<>>
    BY <1>1, <2>2, SubSeqEmpty DEF LiveOf
  <2> QED
    BY <2>1, <2>3, NothingLive
<1>4. CASE Compacted(q) = [items |-> LiveOf(q), head |-> 0]
  <2> DEFINE r == [items |-> LiveOf(q), head |-> 0]
  <2>1. r.items = LiveOf(q) /\ r.head = 0 /\ r \in Slices
    BY <1>1 DEF Slices
  <2>2. LiveOf(r) = SubSeq(LiveOf(q), 1, Len(LiveOf(q)))
    <3>1. r.head + 1 = 1
      BY <2>1
    <3> QED
      BY <2>1, <3>1 DEF LiveOf
  <2>3. SubSeq(LiveOf(q), 1, Len(LiveOf(q))) = LiveOf(q)
    BY <1>1, SubSeqFull
  <2> QED
    BY <1>4, <2>1, <2>2, <2>3
<1> QED
  BY <1>2, <1>3, <1>4 DEF Compacted, LiveOf

LEMMA AppendedFacts ==
  ASSUME NEW q \in Slices, NEW e \in Entry
  PROVE  /\ [q EXCEPT !.items = Append(q.items, e)] \in Slices
         /\ LiveOf([q EXCEPT !.items = Append(q.items, e)]) = Append(LiveOf(q), e)
PROOF
<1> DEFINE s == Append(q.items, e)
           r == [q EXCEPT !.items = s]
<1>1. /\ q.items \in Seq(Entry) /\ Len(q.items) \in Nat /\ q.head \in 0..Len(q.items)
      /\ LiveOf(q) \in Seq(Entry) /\ Len(LiveOf(q)) = Len(q.items) - q.head
      /\ \A i \in 1..Len(q.items) - q.head : LiveOf(q)[i] = q.items[q.head + i]
  BY LiveFacts
<1>2. /\ s \in Seq(Entry) /\ Len(s) = Len(q.items) + 1
      /\ \A i \in 1..Len(q.items) : s[i] = q.items[i]
      /\ s[Len(q.items) + 1] = e
  BY <1>1, AppendProperties
<1> HIDE DEF s
<1>a. Len(s) \in Nat /\ q.head \in Nat /\ q.head <= Len(s)
  BY <1>1, <1>2
<1>3. r.items = s /\ r.head = q.head /\ r \in Slices
  BY <1>2, <1>a DEF Slices
<1> HIDE DEF r
<1>4. /\ LiveOf(r) \in Seq(Entry) /\ Len(LiveOf(r)) = Len(s) - q.head
      /\ \A i \in 1..Len(s) - q.head : LiveOf(r)[i] = s[q.head + i]
  BY <1>3, LiveFacts
<1> DEFINE a == Append(LiveOf(q), e)
<1>5. /\ a \in Seq(Entry) /\ Len(a) = Len(LiveOf(q)) + 1
      /\ \A i \in 1..Len(LiveOf(q)) : a[i] = LiveOf(q)[i]
      /\ a[Len(LiveOf(q)) + 1] = e
  BY <1>1, AppendProperties
<1> HIDE DEF a
<1>6. Len(LiveOf(r)) = Len(a)
  BY <1>1, <1>2, <1>4, <1>5
<1>7. ASSUME NEW i \in 1..Len(LiveOf(r)) PROVE LiveOf(r)[i] = a[i]
  <2>1. i \in 1..Len(s) - q.head /\ LiveOf(r)[i] = s[q.head + i]
    BY <1>4
  <2>2. CASE i = Len(LiveOf(q)) + 1
    <3>1. q.head + i = Len(q.items) + 1
      BY <1>1, <2>2
    <3> QED
      BY <1>2, <1>5, <2>1, <2>2, <3>1
  <2>3. CASE i # Len(LiveOf(q)) + 1
    <3>1. i \in 1..Len(LiveOf(q)) /\ i \in 1..Len(q.items) - q.head
          /\ q.head + i \in 1..Len(q.items)
      <4> DEFINE L == Len(q.items)
                 h == q.head
      <4>1. L \in Nat /\ h \in Nat /\ h <= L /\ Len(s) = L + 1 /\ Len(LiveOf(q)) = L - h
        BY <1>1, <1>2
      <4>2. i \in 1..(L + 1) - h /\ i # (L - h) + 1
        BY <2>1, <2>3, <4>1
      <4> HIDE DEF L, h
      <4>3. i \in 1..L - h /\ h + i \in 1..L
        BY <4>1, <4>2
      <4> QED
        BY <4>1, <4>3 DEF L, h
    <3> QED
      BY <1>1, <1>2, <1>5, <2>1, <3>1
  <2> QED
    BY <2>2, <2>3
<1>8. LiveOf(r) = a
  BY <1>4, <1>5, <1>6, <1>7, SameSeq
<1> QED
  BY <1>3, <1>8 DEF r, s, a

LEMMA SuffixOfSuffix ==
  ASSUME NEW S, NEW s \in Seq(S), NEW n \in 0..Len(s), NEW k \in 0..Len(s) - n,
         NEW t, t = SubSeq(s, n + 1, Len(s))
  PROVE  SubSeq(t, k + 1, Len(t)) = SubSeq(s, (n + k) + 1, Len(s))
PROOF
<1>1. t \in Seq(S) /\ Len(t) = Len(s) - n /\ \A i \in 1..Len(s) - n : t[i] = s[n + i]
  BY SuffixFacts
<1>2. k \in 0..Len(t) /\ n + k \in 0..Len(s) /\ Len(s) \in Nat
  BY <1>1
<1> DEFINE a == SubSeq(t, k + 1, Len(t))
           b == SubSeq(s, (n + k) + 1, Len(s))
<1>3. a \in Seq(S) /\ Len(a) = Len(t) - k /\ \A i \in 1..Len(t) - k : a[i] = t[k + i]
  BY <1>1, <1>2, SuffixFacts
<1>4. b \in Seq(S) /\ Len(b) = Len(s) - (n + k) /\ \A i \in 1..Len(s) - (n + k) : b[i] = s[(n + k) + i]
  BY <1>2, SuffixFacts
<1> HIDE DEF a, b
<1>5. Len(a) = Len(b)
  BY <1>1, <1>2, <1>3, <1>4
<1>6. ASSUME NEW i \in 1..Len(a) PROVE a[i] = b[i]
  <2>1. i \in 1..Len(t) - k /\ i \in 1..Len(s) - (n + k) /\ k + i \in 1..Len(s) - n
        /\ n + (k + i) = (n + k) + i
    BY <1>1, <1>2, <1>3, <1>4, <1>5
  <2> QED
    BY <1>1, <1>3, <1>4, <2>1
<1>7. a = b
  BY <1>3, <1>4, <1>5, <1>6, SameSeq
<1> QED
  BY <1>7 DEF a, b

-----------------------------------------------------------------------------
(***************************************************************************)
(* What the steps do to the live items.                                    *)
(***************************************************************************)
LEMMA CurrentFacts ==
  ASSUME QueueOK
  PROVE  Current \in Slices /\ LiveOf(Current) = Live /\ Live \in Seq(Entry)
PROOF
<1>1. Current \in Slices /\ LiveOf(Current) = Live
  BY DEF QueueOK, Current, Slices, LiveOf, Live
<1> QED
  BY <1>1, LiveFacts

LEMMA SetQueueFacts ==
  ASSUME NEW q \in Slices, SetQueue(q)
  PROVE  QueueOK' /\ Live' = LiveOf(q)
PROOF
<1>1. items' = q.items /\ head' = q.head
  BY DEF SetQueue
<1>2. q.items \in Seq(Entry) /\ q.head \in 0..Len(q.items)
  BY LiveFacts
<1> QED
  BY <1>1, <1>2 DEF QueueOK, Live, LiveOf

LEMMA AppendStep ==
  ASSUME QueueOK, OpOK, NEW p \in Procs, AppendItem(p)
  PROVE  /\ QueueOK'
         /\ \E n \in 0..Len(Live), e \in Entry :
              /\ e.payload = Head(op[p].payloads)
              /\ Live' = Append(SubSeq(Live, n + 1, Len(Live)), e)
PROOF
<1> DEFINE t == op[p].time
           x == Head(op[p].payloads)
           q == Pruned(Current, t)
           e == [payload |-> x, at |-> t]
<1>1. SetQueue(Compacted([q EXCEPT !.items = Append(q.items, e)]))
  BY DEF AppendItem
<1>2. op[p] \in Ops /\ op[p].at = "append" /\ op[p].payloads # <<>> /\ op[p].time >= 1
  BY DEF OpOK, AppendItem, At
<1>3. t \in 1..MaxTime /\ x \in Payloads
  BY <1>2, QueueAssumption DEF Ops
<1>4. e \in Entry /\ e.payload = x
  BY <1>3 DEF Entry
<1>5. t \in Int
  BY <1>3, QueueAssumption
<1> HIDE DEF e, t, x
<1>6. Current \in Slices /\ LiveOf(Current) = Live
  BY CurrentFacts
<1>7. /\ q \in Slices
      /\ \E n \in 0..Len(Live) : LiveOf(q) = SubSeq(Live, n + 1, Len(Live))
  BY <1>5, <1>6, PrunedFacts
<1> HIDE DEF q
<1> DEFINE r == [q EXCEPT !.items = Append(q.items, e)]
<1>8. r \in Slices /\ LiveOf(r) = Append(LiveOf(q), e)
  BY <1>4, <1>7, AppendedFacts
<1>9. SetQueue(Compacted(r))
  BY <1>1
<1> HIDE DEF r
<1>10. Compacted(r) \in Slices /\ LiveOf(Compacted(r)) = Append(LiveOf(q), e)
  BY <1>8, CompactedFacts
<1>11. QueueOK' /\ Live' = Append(LiveOf(q), e)
  BY <1>9, <1>10, SetQueueFacts
<1> QED
  BY <1>4, <1>7, <1>11 DEF x

\* The names of a batch of k payloads.
Names(k, batch) == [i \in 1..k |-> batch[i].payload]

LEMMA PopStep ==
  ASSUME QueueOK, OpOK, NEW p \in Procs, PopOldest(p)
  PROVE  /\ QueueOK'
         /\ \E n \in 0..Len(Live) : \E k \in 0..Len(Live) - n :
              /\ popped' = SubSeq(Live, n + 1, n + k)
              /\ Live' = SubSeq(Live, (n + k) + 1, Len(Live))
              /\ \/ /\ p \in Forwarders /\ k > 0
                    /\ op' = [op EXCEPT ![p] =
                         [IdleOp EXCEPT !.at = "push", !.payloads = Names(k, popped')]]
                    /\ UNCHANGED answered
                 \/ /\ op' = [op EXCEPT ![p] = IdleOp]
                    /\ answered' = [x \in Payloads |-> [answered[x] EXCEPT
                         !.left = @ + Cardinality({i \in 1..k : Names(k, popped')[i] = x})]]
PROOF
<1> DEFINE t == op[p].time
           q == Pruned(Current, t)
           room == Len(q.items) - q.head
<1>1. PICK wanted \in Wanted(p) :
        LET count == Min({wanted, room})
            batch == SubSeq(q.items, q.head + 1, q.head + count)
            names == [i \in 1..count |-> batch[i].payload]
        IN  /\ SetQueue(IF count = 0 THEN [items |-> <<>>, head |-> 0]
                                     ELSE Compacted([q EXCEPT !.head = @ + count]))
            /\ popped' = batch
            /\ IF p \in Forwarders /\ count > 0
                 THEN /\ op' = [op EXCEPT ![p] = [IdleOp EXCEPT !.at = "push", !.payloads = names]]
                      /\ UNCHANGED answered
                 ELSE /\ op' = [op EXCEPT ![p] = IdleOp]
                      /\ answered' = [x \in Payloads |-> [answered[x] EXCEPT
                           !.left = @ + Cardinality({i \in 1..count : names[i] = x})]]
  BY DEF PopOldest
<1>2. wanted \in Nat /\ wanted > 0
  BY QueueAssumption DEF Wanted
<1>3. t \in Int
  BY QueueAssumption DEF OpOK, Ops
<1>4. Current \in Slices /\ LiveOf(Current) = Live /\ Live \in Seq(Entry)
  BY CurrentFacts
<1>5. /\ q \in Slices
      /\ \E n \in 0..Len(Live) : LiveOf(q) = SubSeq(Live, n + 1, Len(Live))
  BY <1>3, <1>4, PrunedFacts
<1>6. PICK n \in 0..Len(Live) : LiveOf(q) = SubSeq(Live, n + 1, Len(Live))
  BY <1>5
<1> HIDE DEF q
<1>7. /\ q.items \in Seq(Entry) /\ Len(q.items) \in Nat /\ q.head \in 0..Len(q.items)
      /\ LiveOf(q) \in Seq(Entry) /\ Len(LiveOf(q)) = room
      /\ \A i \in 1..room : LiveOf(q)[i] = q.items[q.head + i]
  BY <1>5, LiveFacts
<1>8. /\ room \in Nat /\ room = Len(Live) - n
      /\ \A i \in 1..room : LiveOf(q)[i] = Live[n + i]
  BY <1>4, <1>6, <1>7, SuffixFacts
<1> HIDE DEF room
<1>9. PICK k \in Nat : k = Min({wanted, room})
  BY <1>2, <1>8, MinFacts
<1>10. k \in {wanted, room} /\ k <= wanted /\ k <= room
  BY <1>2, <1>8, <1>9, MinFacts
<1>11. k \in 0..Len(Live) - n /\ k \in 0..Len(q.items) - q.head /\ k \in 0..Len(LiveOf(q))
  BY <1>7, <1>8, <1>10 DEF room
<1> DEFINE batch == SubSeq(q.items, q.head + 1, q.head + k)
<1>12. /\ SetQueue(IF k = 0 THEN Nothing ELSE Compacted([q EXCEPT !.head = q.head + k]))
       /\ popped' = batch
       /\ IF p \in Forwarders /\ k > 0
            THEN /\ op' = [op EXCEPT ![p] =
                      [IdleOp EXCEPT !.at = "push", !.payloads = Names(k, batch)]]
                 /\ UNCHANGED answered
            ELSE /\ op' = [op EXCEPT ![p] = IdleOp]
                 /\ answered' = [x \in Payloads |-> [answered[x] EXCEPT
                      !.left = @ + Cardinality({i \in 1..k : Names(k, batch)[i] = x})]]
  BY <1>1, <1>9 DEF Names, Nothing
<1>13. batch = SubSeq(Live, n + 1, n + k)
  <2> DEFINE b == SubSeq(Live, n + 1, n + k)
  <2>1. b \in Seq(Entry) /\ Len(b) = k /\ \A i \in 1..k : b[i] = Live[n + i]
    BY <1>4, <1>11, SliceFacts
  <2>2. /\ batch \in Seq(Entry) /\ Len(batch) = k
        /\ \A i \in 1..k : batch[i] = q.items[q.head + i]
    <3> DEFINE s == q.items
               h == q.head
    <3>1. s \in Seq(Entry) /\ h \in 0..Len(s) /\ k \in 0..Len(s) - h
      BY <1>7, <1>11
    <3> HIDE DEF s, h
    <3>2. /\ SubSeq(s, h + 1, h + k) \in Seq(Entry) /\ Len(SubSeq(s, h + 1, h + k)) = k
          /\ \A i \in 1..k : SubSeq(s, h + 1, h + k)[i] = s[h + i]
      BY <3>1, SliceFacts
    <3> QED
      BY <3>2 DEF s, h
  <2> HIDE DEF b, batch
  <2>3. \A i \in 1..k : i \in 1..room
    BY <1>8, <1>10
  <2>4. \A i \in 1..k : batch[i] = b[i]
    BY <1>7, <1>8, <2>1, <2>2, <2>3
  <2> QED
    BY <2>1, <2>2, <2>4, SameSeq DEF b
<1> HIDE DEF batch
<1>14. QueueOK' /\ Live' = SubSeq(Live, (n + k) + 1, Len(Live))
  <2>1. SubSeq(LiveOf(q), k + 1, Len(LiveOf(q))) = SubSeq(Live, (n + k) + 1, Len(Live))
    BY <1>4, <1>6, <1>11, SuffixOfSuffix
  <2>2. CASE k = 0
    <3>1. Len(LiveOf(q)) = 0 /\ Len(LiveOf(q)) < k + 1
      BY <1>2, <1>7, <1>10, <2>2
    <3>2. SubSeq(LiveOf(q), k + 1, Len(LiveOf(q))) = <<>>
      BY <3>1, SubSeqEmpty
    <3>3. SetQueue(Nothing)
      BY <1>12, <2>2
    <3> QED
      BY <2>1, <3>2, <3>3, NothingLive, SetQueueFacts
  <2>3. CASE k # 0
    <3> DEFINE r == [q EXCEPT !.head = q.head + k]
    <3>1. r \in Slices /\ LiveOf(r) = SubSeq(LiveOf(q), k + 1, Len(LiveOf(q)))
      BY <1>5, <1>11, Advance
    <3>2. SetQueue(Compacted(r))
      BY <1>12, <2>3
    <3> HIDE DEF r
    <3>3. Compacted(r) \in Slices /\ LiveOf(Compacted(r)) = LiveOf(r)
      BY <3>1, CompactedFacts
    <3> QED
      BY <2>1, <3>1, <3>2, <3>3, SetQueueFacts
  <2> QED
    BY <2>2, <2>3
<1>15. \/ /\ p \in Forwarders /\ k > 0
          /\ op' = [op EXCEPT ![p] =
               [IdleOp EXCEPT !.at = "push", !.payloads = Names(k, popped')]]
          /\ UNCHANGED answered
       \/ /\ op' = [op EXCEPT ![p] = IdleOp]
          /\ answered' = [x \in Payloads |-> [answered[x] EXCEPT
               !.left = @ + Cardinality({i \in 1..k : Names(k, popped')[i] = x})]]
  BY <1>12
<1> QED
  BY <1>11, <1>12, <1>13, <1>14, <1>15

LEMMA ClearStep ==
  ASSUME NEW p \in Procs, Clear(p)
  PROVE  QueueOK' /\ Live' = <<>>
PROOF
<1>1. SetQueue(Nothing)
  BY DEF Clear, Nothing
<1> QED
  BY <1>1, NothingLive, SetQueueFacts

LEMMA SameQueue ==
  ASSUME QueueOK, UNCHANGED <<items, head>>
  PROVE  QueueOK' /\ UNCHANGED Live
PROOF BY DEF QueueOK, Live

-----------------------------------------------------------------------------
(***************************************************************************)
(* Types are preserved.                                                    *)
(***************************************************************************)
\* What a goroutine may be doing.
GoodOps ==
  {o \in Ops :
     /\ o.at \in {"flag", "publish", "clock", "append", "push"} => o.payloads # <<>>
     /\ o.at \in {"append", "pop"} => o.time >= 1}

LEMMA OpGood == OpOK <=> op \in [Procs -> Ops] /\ \A p \in Procs : op[p] \in GoodOps
PROOF
<1>1. op \in [Procs -> Ops] => \A p \in Procs : op[p] \in Ops
  OBVIOUS
<1> QED
  BY <1>1 DEF OpOK, GoodOps

LEMMA OpSet ==
  ASSUME OpOK, NEW p \in Procs, NEW record \in GoodOps, op' = [op EXCEPT ![p] = record]
  PROVE  OpOK' /\ op'[p] = record /\ \A q \in Procs \ {p} : op'[q] = op[q]
PROOF
<1>1. op \in [Procs -> Ops] /\ \A q \in Procs : op[q] \in GoodOps
  BY OpGood
<1>2. record \in Ops
  BY DEF GoodOps
<1>3. op' \in [Procs -> Ops] /\ op'[p] = record /\ \A q \in Procs \ {p} : op'[q] = op[q]
  BY <1>1, <1>2
<1>4. \A q \in Procs : op'[q] \in GoodOps
  BY <1>1, <1>3
<1>5. OpOK'
  BY <1>3, <1>4 DEF OpOK, GoodOps
<1> QED
  BY <1>3, <1>5

\* A goroutine goes on with what it has.
LEMMA GoFacts ==
  ASSUME OpOK, NEW p \in Procs, NEW at \in OpSteps, Go(p, at), op[p].payloads # <<>>,
         at \notin {"append", "pop"}
  PROVE  /\ OpOK'
         /\ op'[p].at = at /\ op'[p].payloads = op[p].payloads /\ op'[p].closing = op[p].closing
         /\ \A q \in Procs \ {p} : op'[q] = op[q]
PROOF
<1> DEFINE record == [op[p] EXCEPT !.at = at]
<1>1. op[p] \in Ops /\ op \in [Procs -> Ops]
  BY DEF OpOK
<1>2. op' = [op EXCEPT ![p] = record]
  BY <1>1 DEF Go
<1>3. /\ record \in GoodOps /\ record.at = at
      /\ record.payloads = op[p].payloads /\ record.closing = op[p].closing
  BY <1>1 DEF GoodOps, Ops
<1> HIDE DEF record
<1> QED
  BY <1>2, <1>3, OpSet

LEMMA IdleGood ==
  IdleOp \in GoodOps /\ IdleOp.at = "idle" /\ IdleOp.payloads = <<>> /\ IdleOp.closing = {}
PROOF
<1>1. <<>> \in Seq(Payloads) /\ 0 \in 0..MaxTime
  BY QueueAssumption
<1> QED
  BY <1>1 DEF IdleOp, GoodOps, Ops, OpSteps

LEMMA BegunGood ==
  ASSUME NEW s \in Seq(Payloads), s # <<>>
  PROVE  /\ Begun(s) \in GoodOps /\ Begun(s).at = "flag" /\ Begun(s).payloads = s
         /\ Begun(s).closing = {}
         /\ [IdleOp EXCEPT !.at = "push", !.payloads = s] \in GoodOps
         /\ [IdleOp EXCEPT !.at = "push", !.payloads = s].at = "push"
         /\ [IdleOp EXCEPT !.at = "push", !.payloads = s].payloads = s
         /\ [IdleOp EXCEPT !.at = "push", !.payloads = s].closing = {}
PROOF
<1>1. 0 \in 0..MaxTime
  BY QueueAssumption
<1> QED
  BY <1>1 DEF Begun, IdleOp, GoodOps, Ops, OpSteps

\* The first payload is done.
LEMMA RemainingGood ==
  ASSUME OpOK, NEW p \in Procs, op[p].payloads # <<>>
  PROVE  /\ Remaining(p) \in GoodOps /\ Remaining(p).at \in {"idle", "flag"}
         /\ Remaining(p).payloads = Tail(op[p].payloads) /\ Remaining(p).closing = {}
PROOF
<1> DEFINE s == op[p].payloads
<1>1. s \in Seq(Payloads) /\ s # <<>>
  BY DEF OpOK, Ops
<1>2. Remaining(p) = IF Len(s) = 1 THEN IdleOp ELSE Begun(Tail(s))
  BY DEF Remaining
<1> HIDE DEF s
<1>3. Tail(s) \in Seq(Payloads) /\ Len(Tail(s)) = Len(s) - 1 /\ Len(s) \in Nat \ {0}
  BY <1>1, HeadTailProperties
<1>4. CASE Len(s) = 1
  <2>1. Tail(s) = <<>>
    <3>1. Tail(s) \in Seq(Payloads) /\ Len(Tail(s)) = 0
      BY <1>3, <1>4
    <3> QED
      BY <3>1, EmptySeq
  <2>2. Remaining(p) = IdleOp
    BY <1>2, <1>4
  <2>3. Tail(op[p].payloads) = <<>>
    BY <2>1 DEF s
  <2> QED
    BY <2>2, <2>3, IdleGood
<1>5. CASE Len(s) # 1
  <2>1. Tail(s) # <<>>
    BY <1>3, <1>5
  <2>2. Remaining(p) = Begun(Tail(s))
    BY <1>2, <1>5
  <2>3. /\ Begun(Tail(s)) \in GoodOps /\ Begun(Tail(s)).at = "flag"
        /\ Begun(Tail(s)).payloads = Tail(s) /\ Begun(Tail(s)).closing = {}
    BY <1>3, <2>1, BegunGood
  <2>4. Tail(op[p].payloads) = Tail(s)
    BY DEF s
  <2> QED
    BY <2>2, <2>3, <2>4
<1> QED
  BY <1>4, <1>5

LEMMA EnqueuedFacts ==
  ASSUME OpOK, NEW p \in Procs, op[p].payloads # <<>>, Enqueued(p)
  PROVE  /\ OpOK' /\ op'[p].at \in {"idle", "flag"}
         /\ op'[p].payloads = Tail(op[p].payloads) /\ op'[p].closing = {}
         /\ \A q \in Procs \ {p} : op'[q] = op[q]
PROOF
<1>1. op' = [op EXCEPT ![p] = Remaining(p)]
  BY DEF Enqueued
<1> QED
  BY <1>1, RemainingGood, OpSet

LEMMA Frames ==
  /\ QueueOK /\ UNCHANGED <<items, head>> => QueueOK' /\ UNCHANGED Live
  /\ PoppedOK /\ UNCHANGED popped => PoppedOK'
  /\ EnabledOK /\ UNCHANGED enabled => EnabledOK'
  /\ SubscribersOK /\ UNCHANGED subscribers => SubscribersOK'
  /\ ChannelOK /\ UNCHANGED channel => ChannelOK'
  /\ UserOK /\ UNCHANGED user => UserOK'
  /\ BoundsOK /\ UNCHANGED <<published, toggled, now, scenario>> => BoundsOK'
  /\ AnsweredOK /\ UNCHANGED answered => AnsweredOK'
  /\ OpOK /\ UNCHANGED op => OpOK'
PROOF BY DEF QueueOK, Live, PoppedOK, EnabledOK, SubscribersOK, ChannelOK, UserOK, BoundsOK,
             AnsweredOK, OpOK

LEMMA PublishFacts ==
  ASSUME ChannelOK, SubscribersOK, publishToSubscribers
  PROVE  /\ ChannelOK' /\ SubscribersOK' /\ subscribers' \subseteq subscribers
         /\ \A s \in Subscriptions :
              \/ channel'[s].closes = channel[s].closes
              \/ s \in subscribers \ subscribers' /\ channel'[s].closes = channel[s].closes + 1
PROOF
<1> USE DEF publishToSubscribers
<1>1. channel \in [Subscriptions -> Channels]
  BY DEF ChannelOK
<1>2. ASSUME NEW s \in Subscriptions
      PROVE  /\ channel'[s] \in Channels
             /\ \/ channel'[s].closes = channel[s].closes
                \/ s \in subscribers \ subscribers' /\ channel'[s].closes = channel[s].closes + 1
  <2>1. channel[s] \in Channels /\ channel[s].messages \in Nat /\ channel[s].closes \in Nat
    BY <1>1 DEF Channels
  <2>2. channel[s].messages + 1 \in Nat /\ channel[s].closes + 1 \in Nat
    BY <2>1
  <2>3. CASE s \notin subscribers
    BY <2>1, <2>3
  <2>4. CASE s \in subscribers /\ Sent(s)
    <3> DEFINE m == channel[s].messages + 1
    <3>1. channel'[s] = [channel[s] EXCEPT !.messages = m]
      BY <2>4
    <3>2. m \in Nat
      BY <2>2
    <3> HIDE DEF m
    <3> QED
      BY <2>1, <3>1, <3>2 DEF Channels
  <2>5. CASE s \in subscribers /\ ~Sent(s)
    <3> DEFINE m == channel[s].closes + 1
    <3>1. channel'[s] = [channel[s] EXCEPT !.closes = m] /\ s \notin subscribers'
      BY <2>5
    <3>2. m \in Nat
      BY <2>2
    <3> HIDE DEF m
    <3>3. channel'[s] \in Channels /\ channel'[s].closes = m
      BY <2>1, <3>1, <3>2 DEF Channels
    <3> QED
      BY <2>5, <3>1, <3>3 DEF m
  <2> QED
    BY <2>3, <2>4, <2>5
<1>3. channel' \in [Subscriptions -> Channels]
  BY <1>2
<1>4. subscribers' \subseteq subscribers
  OBVIOUS
<1> HIDE DEF publishToSubscribers
<1> QED
  BY <1>2, <1>3, <1>4 DEF ChannelOK, SubscribersOK

\* One more of payload x has left.
LEMMA LeavesFacts ==
  ASSUME AnsweredOK, NEW x \in Payloads, answered' = [answered EXCEPT ![x].left = @ + 1]
  PROVE  /\ AnsweredOK' /\ Out(x)' = Out(x) + 1
         /\ \A y \in Payloads \ {x} : Out(y)' = Out(y)
PROOF
<1>1. /\ answered \in [Payloads -> [left : Nat, failed : Nat]]
      /\ answered[x] \in [left : Nat, failed : Nat]
  BY DEF AnsweredOK
<1>2. PICK n \in Nat : n = answered[x].left + 1
  BY <1>1
<1>3. answered' = [answered EXCEPT ![x] = [answered[x] EXCEPT !.left = n]]
  BY <1>1, <1>2
<1>4. /\ [answered[x] EXCEPT !.left = n] \in [left : Nat, failed : Nat]
      /\ answered'[x].left = n /\ answered'[x].failed = answered[x].failed
      /\ \A y \in Payloads \ {x} : answered'[y] = answered[y]
  BY <1>1, <1>3
<1>5. AnsweredOK'
  BY <1>1, <1>3, <1>4 DEF AnsweredOK
<1> QED
  BY <1>1, <1>2, <1>4, <1>5 DEF Out

\* Home stores payload x and the push fails: to its sender, it has not left.
KeepsOut == \A x \in Payloads : Out(x)' = Out(x)

LEMMA StoredFacts ==
  ASSUME AnsweredOK, NEW x \in Payloads, HomeStored(x)
  PROVE  AnsweredOK' /\ KeepsOut
PROOF
<1>1. /\ answered \in [Payloads -> [left : Nat, failed : Nat]]
      /\ answered[x] \in [left : Nat, failed : Nat]
  BY DEF AnsweredOK
<1>2. PICK n \in Nat, m \in Nat : n = answered[x].left + 1 /\ m = answered[x].failed + 1
  BY <1>1
<1>3. answered' = [answered EXCEPT ![x] = [left |-> n, failed |-> m]]
  BY <1>1, <1>2 DEF HomeStored
<1>4. /\ answered'[x].left = n /\ answered'[x].failed = m
      /\ \A y \in Payloads \ {x} : answered'[y] = answered[y]
  BY <1>1, <1>3
<1>5. AnsweredOK'
  BY <1>1, <1>3 DEF AnsweredOK
<1>6. Out(x)' = Out(x)
  BY <1>1, <1>2, <1>4 DEF Out
<1>7. \A y \in Payloads \ {x} : Out(y)' = Out(y)
  BY <1>4 DEF Out
<1> QED
  BY <1>5, <1>6, <1>7 DEF KeepsOut

LEMMA SameOut == UNCHANGED answered => KeepsOut
PROOF BY DEF KeepsOut, Out

-----------------------------------------------------------------------------
(***************************************************************************)
(* Each step: the types, and what becomes of a goroutine.                  *)
(***************************************************************************)
Alone(p) == \A q \in Procs \ {p} : op'[q] = op[q]

LEMMA HandleFacts ==
  ASSUME Typed, NEW p \in Procs, HandleUsage(p)
  PROVE  /\ Typed' /\ Alone(p) /\ UNCHANGED Live
         /\ published + 1 \in Payloads /\ published' = published + 1
         /\ op'[p].at = "flag" /\ op'[p].payloads = <<published + 1>> /\ op'[p].closing = {}
PROOF
<1>0. OpOK /\ BoundsOK
  BY DEF Typed
<1>1. /\ published' = published + 1 /\ published < scenario.payloads
      /\ op' = [op EXCEPT ![p] = Begun(<<published + 1>>)]
      /\ UNCHANGED <<enabled, items, head, subscribers, channel, user, toggled, now, scenario,
                     popped, answered>>
  BY DEF HandleUsage, queue, delivery
<1>2. published + 1 \in Payloads /\ published + 1 \in 0..MaxPayloads
  <2>1. scenario.payloads \in 0..MaxPayloads
    BY <1>0, QueueAssumption DEF BoundsOK
  <2>2. published \in Nat /\ published + 1 <= scenario.payloads /\ MaxPayloads \in Nat
    BY <1>0, <1>1, <2>1, QueueAssumption DEF BoundsOK
  <2> QED
    BY <2>1, <2>2 DEF Payloads
<1>3. <<published + 1>> \in Seq(Payloads) /\ <<published + 1>> # <<>>
  BY <1>2
<1>4. OpOK' /\ op'[p] = Begun(<<published + 1>>) /\ Alone(p)
  BY <1>0, <1>1, <1>3, BegunGood, OpSet DEF Alone
<1>5. BoundsOK'
  BY <1>0, <1>1, <1>2 DEF BoundsOK
<1> QED
  BY <1>1, <1>2, <1>3, <1>4, <1>5, BegunGood, Frames DEF Typed

\* A payload in hand is checked, or its time read; it stays in hand.
LEMMA CheckFacts ==
  ASSUME Typed, NEW p \in Procs, CheckEnabled(p) \/ ReadClock(p)
  PROVE  /\ Typed' /\ Alone(p) /\ UNCHANGED <<Live, answered, published, enabled>>
         /\ op'[p].closing \subseteq op[p].closing
         /\ \/ enabled /\ op[p].at = "flag" /\ op'[p].at = "publish" /\ op'[p].payloads = op[p].payloads
            \/ /\ op[p].at = "flag" /\ op'[p].at \in {"idle", "flag"}
               /\ op[p].payloads # <<>> /\ op'[p].payloads = Tail(op[p].payloads)
            \/ op[p].at = "clock" /\ op'[p].at = "append" /\ op'[p].payloads = op[p].payloads
PROOF
<1>0. Typed /\ OpOK /\ op[p] \in Ops /\ op \in [Procs -> Ops]
  BY DEF Typed, OpOK
<1>1. UNCHANGED <<enabled, items, head, subscribers, channel, user, published, toggled, now,
                  scenario, popped, answered>>
  BY DEF CheckEnabled, ReadClock, queue, delivery, bounds
<1>2. op[p].at \in {"flag", "clock"} /\ op[p].payloads # <<>>
  BY <1>0 DEF CheckEnabled, ReadClock, At, OpOK
<1>3. CASE CheckEnabled(p) /\ enabled
  <2>1. Go(p, "publish") /\ op[p].at = "flag"
    BY <1>3 DEF CheckEnabled, At
  <2>2. OpOK' /\ op'[p].at = "publish" /\ op'[p].payloads = op[p].payloads
        /\ op'[p].closing = op[p].closing /\ \A q \in Procs \ {p} : op'[q] = op[q]
    BY <1>0, <1>2, <2>1, GoFacts DEF OpSteps
  <2> QED
    BY <1>0, <1>1, <1>3, <2>1, <2>2, Frames DEF Typed, Alone
<1>4. CASE CheckEnabled(p) /\ ~enabled
  <2>1. Enqueued(p) /\ op[p].at = "flag"
    BY <1>4 DEF CheckEnabled, At
  <2> QED
    BY <1>0, <1>1, <1>2, <2>1, EnqueuedFacts, Frames DEF Typed, Alone
<1>5. CASE ReadClock(p)
  <2> DEFINE record == [op[p] EXCEPT !.at = "append", !.time = now]
  <2>1. op' = [op EXCEPT ![p] = record] /\ op[p].at = "clock"
    BY <1>0, <1>5 DEF ReadClock, At
  <2>2. now \in 0..MaxTime /\ now >= 1
    BY <1>0, QueueAssumption DEF Typed, BoundsOK
  <2>3. /\ record \in GoodOps /\ record.at = "append" /\ record.payloads = op[p].payloads
        /\ record.closing = op[p].closing
    BY <1>0, <1>2, <2>2 DEF GoodOps, Ops, OpSteps
  <2> HIDE DEF record
  <2>4. OpOK' /\ op'[p] = record /\ Alone(p)
    BY <1>0, <2>1, <2>3, OpSet DEF Alone
  <2> QED
    BY <1>0, <1>1, <2>1, <2>3, <2>4, Frames DEF Typed
<1> QED
  BY <1>3, <1>4, <1>5

LEMMA PublishSteps ==
  ASSUME Typed, NEW p \in Procs, PublishToSubscribers(p)
  PROVE  /\ Typed' /\ Alone(p) /\ UNCHANGED <<Live, published, enabled>>
         /\ op[p].at = "publish" /\ op[p].payloads # <<>> /\ op'[p].closing \subseteq op[p].closing
         /\ \/ /\ op'[p].at = "clock" /\ op'[p].payloads = op[p].payloads
               /\ UNCHANGED <<answered, subscribers, channel>>
            \/ /\ op'[p].at \in {"idle", "flag"} /\ op'[p].payloads = Tail(op[p].payloads)
               /\ publishToSubscribers
               /\ answered' = [answered EXCEPT ![Head(op[p].payloads)].left = @ + 1]
PROOF
<1>0. /\ Typed /\ OpOK /\ AnsweredOK /\ ChannelOK /\ SubscribersOK
      /\ op[p] \in Ops /\ op \in [Procs -> Ops]
  BY DEF Typed, OpOK
<1>1. UNCHANGED <<enabled, items, head, user, published, toggled, now, scenario, popped>>
  BY DEF PublishToSubscribers, queue, bounds
<1>2. op[p].at = "publish" /\ op[p].payloads # <<>> /\ Head(op[p].payloads) \in Payloads
  <2>1. op[p].at = "publish" /\ op[p].payloads # <<>> /\ op[p].payloads \in Seq(Payloads)
    BY <1>0 DEF PublishToSubscribers, At, OpOK, Ops
  <2> QED
    BY <2>1, HeadTailProperties
<1>3. CASE subscribers = {}
  <2>1. Go(p, "clock") /\ UNCHANGED <<subscribers, channel, answered>>
    BY <1>3 DEF PublishToSubscribers
  <2>2. OpOK' /\ op'[p].at = "clock" /\ op'[p].payloads = op[p].payloads
        /\ op'[p].closing = op[p].closing /\ \A q \in Procs \ {p} : op'[q] = op[q]
    BY <1>0, <1>2, <2>1, GoFacts DEF OpSteps
  <2> QED
    BY <1>0, <1>1, <1>2, <2>1, <2>2, Frames DEF Typed, Alone
<1>4. CASE subscribers # {}
  <2>1. /\ publishToSubscribers /\ Enqueued(p)
        /\ answered' = [answered EXCEPT ![Head(op[p].payloads)].left = @ + 1]
    BY <1>4 DEF PublishToSubscribers
  <2>2. /\ OpOK' /\ op'[p].at \in {"idle", "flag"}
        /\ op'[p].payloads = Tail(op[p].payloads) /\ op'[p].closing = {}
        /\ \A q \in Procs \ {p} : op'[q] = op[q]
    BY <1>0, <1>2, <2>1, EnqueuedFacts
  <2>3. ChannelOK' /\ SubscribersOK'
    BY <1>0, <2>1, PublishFacts
  <2>4. AnsweredOK'
    BY <1>0, <1>2, <2>1, LeavesFacts
  <2> QED
    BY <1>0, <1>1, <1>2, <2>1, <2>2, <2>3, <2>4, Frames DEF Typed, Alone
<1> QED
  BY <1>3, <1>4

LEMMA AppendFacts ==
  ASSUME Typed, NEW p \in Procs, AppendItem(p)
  PROVE  /\ Typed' /\ Alone(p) /\ UNCHANGED <<answered, published, enabled>>
         /\ op[p].at = "append" /\ op[p].payloads # <<>>
         /\ op'[p].at \in {"idle", "flag"} /\ op'[p].payloads = Tail(op[p].payloads)
         /\ op'[p].closing = {}
         /\ \E n \in 0..Len(Live), e \in Entry :
              /\ e.payload = Head(op[p].payloads)
              /\ Live' = Append(SubSeq(Live, n + 1, Len(Live)), e)
PROOF
<1>0. Typed /\ OpOK /\ QueueOK
  BY DEF Typed
<1>1. /\ UNCHANGED <<enabled, subscribers, channel, user, published, toggled, now, scenario,
                     popped, answered>>
      /\ Enqueued(p) /\ op[p].at = "append" /\ op[p].payloads # <<>>
  BY <1>0 DEF AppendItem, delivery, bounds, At, OpOK
<1>2. /\ OpOK' /\ op'[p].at \in {"idle", "flag"}
      /\ op'[p].payloads = Tail(op[p].payloads) /\ op'[p].closing = {}
      /\ \A q \in Procs \ {p} : op'[q] = op[q]
  BY <1>0, <1>1, EnqueuedFacts
<1>3. /\ QueueOK'
      /\ \E n \in 0..Len(Live), e \in Entry :
           /\ e.payload = Head(op[p].payloads)
           /\ Live' = Append(SubSeq(Live, n + 1, Len(Live)), e)
  BY <1>0, AppendStep
<1> QED
  BY <1>0, <1>1, <1>2, <1>3, Frames DEF Typed, Alone

\* Who starts to pop, or to switch, keeps what it has.
LEMMA StartFacts ==
  ASSUME Typed, NEW p \in Procs, StartPop(p) \/ SetEnabled(p)
  PROVE  /\ Typed' /\ Alone(p) /\ UNCHANGED <<Live, answered, published>>
         /\ op'[p].payloads = op[p].payloads /\ op'[p].closing = op[p].closing
         /\ op[p].at = "idle"
         /\ \/ op'[p].at \in {"pop", "idle"} /\ (enabled \/ enabled')
            \/ op'[p].at = "clear" /\ p \in Toggles
PROOF
<1>0. Typed /\ OpOK /\ BoundsOK /\ op[p] \in Ops /\ op \in [Procs -> Ops]
  BY DEF Typed, OpOK
<1>1. UNCHANGED <<items, head, subscribers, channel, user, published, now,
                  scenario, popped, answered>>
  BY DEF StartPop, SetEnabled, queue, delivery, bounds
<1>2. CASE StartPop(p)
  <2> DEFINE record == [op[p] EXCEPT !.at = "pop", !.time = now]
  <2>1. /\ op' = [op EXCEPT ![p] = record] /\ op[p].at = "idle" /\ enabled
        /\ UNCHANGED <<enabled, toggled>>
    BY <1>0, <1>2 DEF StartPop, At, bounds
  <2>2. now \in 0..MaxTime /\ now >= 1
    BY <1>0, QueueAssumption DEF BoundsOK
  <2>3. /\ record \in GoodOps /\ record.at = "pop" /\ record.payloads = op[p].payloads
        /\ record.closing = op[p].closing
    BY <1>0, <2>2 DEF GoodOps, Ops, OpSteps
  <2> HIDE DEF record
  <2>4. OpOK' /\ op'[p] = record /\ Alone(p)
    BY <1>0, <2>1, <2>3, OpSet DEF Alone
  <2> QED
    BY <1>0, <1>1, <2>1, <2>3, <2>4, Frames DEF Typed
<1>3. CASE SetEnabled(p)
  <2> DEFINE at == IF enabled' THEN "idle" ELSE "clear"
             record == [op[p] EXCEPT !.at = at]
  <2>1. /\ op' = [op EXCEPT ![p] = record] /\ op[p].at = "idle" /\ p \in Toggles
        /\ enabled' \in BOOLEAN /\ toggled' = toggled + 1
    BY <1>0, <1>3 DEF SetEnabled, At
  <2>2. at \in {"idle", "clear"} /\ (enabled' \/ at = "clear")
    OBVIOUS
  <2> HIDE DEF at
  <2>3. /\ record \in GoodOps /\ record.at = at /\ record.payloads = op[p].payloads
        /\ record.closing = op[p].closing
    BY <1>0, <2>2 DEF GoodOps, Ops, OpSteps
  <2> HIDE DEF record
  <2>4. OpOK' /\ op'[p] = record /\ Alone(p)
    BY <1>0, <2>1, <2>3, OpSet DEF Alone
  <2>5. EnabledOK' /\ BoundsOK'
    BY <1>0, <1>1, <2>1 DEF EnabledOK, BoundsOK
  <2> QED
    BY <1>0, <1>1, <2>1, <2>2, <2>3, <2>4, <2>5, Frames DEF Typed
<1> QED
  BY <1>2, <1>3

LEMMA PopFacts ==
  ASSUME Typed, NEW p \in Procs, PopOldest(p)
  PROVE  /\ Typed' /\ Alone(p) /\ UNCHANGED <<published, enabled>>
         /\ op[p].at = "pop" /\ op'[p].closing = {}
         /\ \E n \in 0..Len(Live) : \E k \in 0..Len(Live) - n :
              /\ popped' = SubSeq(Live, n + 1, n + k)
              /\ Live' = SubSeq(Live, (n + k) + 1, Len(Live))
              /\ \/ /\ p \in Forwarders /\ op'[p].at = "push"
                    /\ op'[p].payloads = Names(k, popped') /\ Names(k, popped') \in Seq(Payloads)
                    /\ UNCHANGED answered
                 \/ /\ op'[p].at = "idle" /\ op'[p].payloads = <<>>
                    /\ answered' = [x \in Payloads |-> [answered[x] EXCEPT
                         !.left = @ + Cardinality({i \in 1..k : Names(k, popped')[i] = x})]]
PROOF
<1>0. Typed /\ OpOK /\ QueueOK /\ AnsweredOK /\ Live \in Seq(Entry)
  BY CurrentFacts DEF Typed
<1>1. /\ UNCHANGED <<enabled, subscribers, channel, user, published, toggled, now, scenario>>
      /\ op[p].at = "pop"
  BY DEF PopOldest, delivery, bounds, At
<1>2. PICK n \in 0..Len(Live) : \E k \in 0..Len(Live) - n :
        /\ QueueOK'
        /\ popped' = SubSeq(Live, n + 1, n + k)
        /\ Live' = SubSeq(Live, (n + k) + 1, Len(Live))
        /\ \/ /\ p \in Forwarders /\ k > 0
              /\ op' = [op EXCEPT ![p] =
                   [IdleOp EXCEPT !.at = "push", !.payloads = Names(k, popped')]]
              /\ UNCHANGED answered
           \/ /\ op' = [op EXCEPT ![p] = IdleOp]
              /\ answered' = [x \in Payloads |-> [answered[x] EXCEPT
                   !.left = @ + Cardinality({i \in 1..k : Names(k, popped')[i] = x})]]
  BY <1>0, PopStep
<1>3. PICK k \in 0..Len(Live) - n :
        /\ QueueOK'
        /\ popped' = SubSeq(Live, n + 1, n + k)
        /\ Live' = SubSeq(Live, (n + k) + 1, Len(Live))
        /\ \/ /\ p \in Forwarders /\ k > 0
              /\ op' = [op EXCEPT ![p] =
                   [IdleOp EXCEPT !.at = "push", !.payloads = Names(k, popped')]]
              /\ UNCHANGED answered
           \/ /\ op' = [op EXCEPT ![p] = IdleOp]
              /\ answered' = [x \in Payloads |-> [answered[x] EXCEPT
                   !.left = @ + Cardinality({i \in 1..k : Names(k, popped')[i] = x})]]
  BY <1>2
<1>4. popped' \in Seq(Entry) /\ Len(popped') = k
  BY <1>0, <1>3, SliceFacts
<1>5. PoppedOK'
  BY <1>4 DEF PoppedOK
<1> DEFINE names == Names(k, popped')
<1>6. names \in Seq(Payloads) /\ Len(names) = k
  <2>1. k \in Nat /\ \A i \in 1..k : popped'[i].payload \in Payloads
    <3>1. \A i \in 1..k : popped'[i] \in Entry
      BY <1>4, ElementOfSeq
    <3>2. k \in Nat
      OBVIOUS
    <3> QED
      BY <3>1, <3>2 DEF Entry
  <2> QED
    BY <2>1 DEF Names
<1> HIDE DEF names
<1>7. CASE /\ p \in Forwarders /\ k > 0
           /\ op' = [op EXCEPT ![p] = [IdleOp EXCEPT !.at = "push", !.payloads = names]]
           /\ UNCHANGED answered
  <2>1. names # <<>>
    BY <1>6, <1>7
  <2> DEFINE record == [IdleOp EXCEPT !.at = "push", !.payloads = names]
  <2>2. /\ record \in GoodOps /\ record.at = "push" /\ record.payloads = names
        /\ record.closing = {}
    BY <1>6, <2>1, BegunGood
  <2>3. op' = [op EXCEPT ![p] = record]
    BY <1>7
  <2> HIDE DEF record
  <2>4. OpOK' /\ op'[p] = record /\ Alone(p)
    BY <1>0, <2>2, <2>3, OpSet DEF Alone
  <2>5. Typed'
    BY <1>0, <1>1, <1>3, <1>5, <1>7, <2>4, Frames DEF Typed
  <2> QED
    BY <1>1, <1>3, <1>6, <1>7, <2>2, <2>4, <2>5 DEF names
<1>8. CASE /\ op' = [op EXCEPT ![p] = IdleOp]
           /\ answered' = [x \in Payloads |-> [answered[x] EXCEPT
                !.left = @ + Cardinality({i \in 1..k : names[i] = x})]]
  <2>1. OpOK' /\ op'[p] = IdleOp /\ Alone(p)
    BY <1>0, <1>8, IdleGood, OpSet DEF Alone
  <2>2. AnsweredOK'
    <3>1. ASSUME NEW x \in Payloads
          PROVE  answered'[x] \in [left : Nat, failed : Nat]
      <4>1. IsFiniteSet(1..k)
        BY FS_Interval
      <4>2. IsFiniteSet({i \in 1..k : names[i] = x})
        BY <4>1, FS_Subset
      <4>3. Cardinality({i \in 1..k : names[i] = x}) \in Nat
        BY <4>2, FS_CardinalityType
      <4>4. answered[x] \in [left : Nat, failed : Nat]
        BY <1>0 DEF AnsweredOK
      <4>5. PICK c \in Nat : c = Cardinality({i \in 1..k : names[i] = x})
        BY <4>3
      <4>6. answered'[x] = [answered[x] EXCEPT !.left = @ + c]
        BY <1>8, <4>5
      <4> QED
        BY <4>4, <4>6
    <3> QED
      BY <1>8, <3>1 DEF AnsweredOK
  <2>3. Typed'
    BY <1>0, <1>1, <1>3, <1>5, <2>1, <2>2, Frames DEF Typed
  <2> QED
    BY <1>1, <1>3, <1>8, <2>1, <2>3, IdleGood DEF names
<1> QED
  BY <1>3, <1>7, <1>8 DEF names

LEMMA PushFacts ==
  ASSUME Typed, NEW p \in Procs, Pushed(p) \/ PushFailed(p)
  PROVE  /\ Typed' /\ Alone(p) /\ UNCHANGED <<Live, published, enabled>>
         /\ op[p].at = "push" /\ op[p].payloads # <<>> /\ op'[p].closing \subseteq op[p].closing
         /\ \/ /\ op'[p].at \in {"idle", "push"} /\ op'[p].payloads = Tail(op[p].payloads)
               /\ answered' = [answered EXCEPT ![Head(op[p].payloads)].left = @ + 1]
            \/ op'[p].at = "flag" /\ op'[p].payloads = op[p].payloads /\ KeepsOut
PROOF
<1>0. Typed /\ OpOK /\ AnsweredOK /\ op[p] \in Ops /\ op \in [Procs -> Ops]
  BY DEF Typed, OpOK
<1>1. UNCHANGED <<enabled, items, head, subscribers, channel, user, published, toggled, now,
                  scenario, popped>>
  BY DEF Pushed, PushFailed, queue, delivery, bounds
<1> DEFINE s == op[p].payloads
<1>2. op[p].at = "push" /\ s # <<>> /\ s \in Seq(Payloads)
  BY <1>0 DEF Pushed, PushFailed, At, OpOK, Ops
<1>a. Pushed(p) =>
        /\ op' = [op EXCEPT ![p] = IF Len(s) = 1 THEN IdleOp
                                   ELSE [op[p] EXCEPT !.payloads = Tail(s)]]
        /\ answered' = [answered EXCEPT ![Head(s)].left = @ + 1]
  BY Zenon DEF Pushed
<1>b. PushFailed(p) =>
        op' = [op EXCEPT ![p] = Begun(s)] /\ (HomeStored(Head(s)) \/ UNCHANGED answered)
  BY Zenon DEF PushFailed
<1>c. s = op[p].payloads
  OBVIOUS
<1> HIDE DEF s
<1>3. CASE Pushed(p)
  <2>1. /\ op' = [op EXCEPT ![p] = IF Len(s) = 1 THEN IdleOp ELSE [op[p] EXCEPT !.payloads = Tail(s)]]
        /\ answered' = [answered EXCEPT ![Head(s)].left = @ + 1]
    BY <1>3, <1>a
  <2>2. /\ Tail(s) \in Seq(Payloads) /\ Len(Tail(s)) = Len(s) - 1 /\ Len(s) \in Nat \ {0}
        /\ Head(s) \in Payloads
    BY <1>2, HeadTailProperties
  <2>3. AnsweredOK'
    BY <1>0, <2>1, <2>2, LeavesFacts
  <2>4. CASE Len(s) = 1
    <3>1. Tail(s) \in Seq(Payloads) /\ Len(Tail(s)) = 0
      BY <2>2, <2>4
    <3>2. Tail(s) = <<>>
      BY <3>1, EmptySeq
    <3>3. OpOK' /\ op'[p] = IdleOp /\ Alone(p)
      BY <1>0, <2>1, <2>4, IdleGood, OpSet DEF Alone
    <3>4. Typed'
      BY <1>0, <1>1, <2>3, <3>3, Frames DEF Typed
    <3>5. UNCHANGED Live
      BY <1>0, <1>1, Frames DEF Typed
    <3> QED
      BY <1>1, <1>2, <1>c, <2>1, <3>2, <3>3, <3>4, <3>5, IdleGood
  <2>5. CASE Len(s) # 1
    <3> DEFINE u == Tail(s)
               record == [op[p] EXCEPT !.payloads = u]
    <3>1. u # <<>> /\ u \in Seq(Payloads) /\ u = Tail(s)
      <4>1. Len(u) = Len(s) - 1 /\ u \in Seq(Payloads) /\ Len(s) \in Nat /\ Len(s) # 1
        BY <2>2, <2>5
      <4>2. Len(u) # 0
        BY <4>1
      <4> QED
        BY <4>1, <4>2, EmptySeq
    <3>3. op' = [op EXCEPT ![p] = record]
      BY <2>1, <2>5
    <3> HIDE DEF u
    <3>2. /\ record \in GoodOps /\ record.at = "push" /\ record.payloads = Tail(s)
          /\ record.closing = op[p].closing
      BY <1>0, <1>2, <3>1 DEF GoodOps, Ops
    <3> HIDE DEF record
    <3>4. OpOK' /\ op'[p] = record /\ Alone(p)
      BY <1>0, <3>2, <3>3, OpSet DEF Alone
    <3>5. Typed'
      BY <1>0, <1>1, <2>3, <3>4, Frames DEF Typed
    <3>6. UNCHANGED Live
      BY <1>0, <1>1, Frames DEF Typed
    <3> QED
      BY <1>1, <1>2, <1>c, <2>1, <3>2, <3>4, <3>5, <3>6
  <2> QED
    BY <2>4, <2>5
<1>4. CASE PushFailed(p)
  <2>1. op' = [op EXCEPT ![p] = Begun(s)] /\ (HomeStored(Head(s)) \/ UNCHANGED answered)
    BY <1>4, <1>b
  <2>4. AnsweredOK' /\ KeepsOut
    <3>1. PICK h \in Payloads : h = Head(s)
      BY <1>2, HeadTailProperties
    <3>2. HomeStored(h) \/ UNCHANGED answered
      BY <2>1, <3>1
    <3> QED
      BY <1>0, <3>2, StoredFacts, SameOut, Frames
  <2>2. Begun(s) \in GoodOps /\ Begun(s).at = "flag" /\ Begun(s).payloads = s
        /\ Begun(s).closing = {}
    BY <1>2, BegunGood
  <2>3. OpOK' /\ op'[p] = Begun(s) /\ Alone(p)
    BY <1>0, <2>1, <2>2, OpSet DEF Alone
  <2> QED
    BY <1>0, <1>1, <1>2, <1>c, <2>1, <2>2, <2>3, <2>4, Frames DEF Typed
<1> QED
  BY <1>3, <1>4

LEMMA ClearFacts ==
  ASSUME Typed, NEW p \in Procs, Clear(p)
  PROVE  /\ Typed' /\ Alone(p) /\ Live' = <<>>
         /\ UNCHANGED <<answered, published, enabled, channel, user>>
         /\ op[p].at = "clear" /\ op'[p].at \in {"idle", "close"} /\ subscribers' = {}
         /\ op'[p].closing = subscribers
         /\ op'[p].payloads = <<>> \/ op'[p].payloads = op[p].payloads
PROOF
<1>0. Typed /\ OpOK /\ SubscribersOK /\ op[p] \in Ops /\ op \in [Procs -> Ops]
  BY DEF Typed, OpOK
<1>1. /\ UNCHANGED <<enabled, channel, user, published, toggled, now, scenario, popped, answered>>
      /\ op[p].at = "clear" /\ subscribers' = {}
  BY DEF Clear, bounds, At
<1>2. QueueOK' /\ Live' = <<>>
  BY ClearStep
<1>3. SubscribersOK'
  BY <1>1 DEF SubscribersOK
<1>4. CASE subscribers = {}
  <2>1. op' = [op EXCEPT ![p] = IdleOp]
    BY <1>4 DEF Clear
  <2>2. OpOK' /\ op'[p] = IdleOp /\ Alone(p)
    BY <1>0, <2>1, IdleGood, OpSet DEF Alone
  <2> QED
    BY <1>0, <1>1, <1>2, <1>3, <1>4, <2>2, IdleGood, Frames DEF Typed
<1>5. CASE subscribers # {}
  <2> DEFINE record == [op[p] EXCEPT !.at = "close", !.closing = subscribers]
  <2>1. op' = [op EXCEPT ![p] = record]
    BY <1>0, <1>5 DEF Clear
  <2>2. /\ record \in GoodOps /\ record.at = "close" /\ record.payloads = op[p].payloads
        /\ record.closing = subscribers
    BY <1>0 DEF GoodOps, Ops, OpSteps, SubscribersOK
  <2> HIDE DEF record
  <2>3. OpOK' /\ op'[p] = record /\ Alone(p)
    BY <1>0, <2>1, <2>2, OpSet DEF Alone
  <2> QED
    BY <1>0, <1>1, <1>2, <1>3, <2>2, <2>3, Frames DEF Typed
<1> QED
  BY <1>4, <1>5

LEMMA CloseClearedFacts ==
  ASSUME Typed, NEW p \in Procs, CloseCleared(p)
  PROVE  /\ Typed' /\ Alone(p)
         /\ UNCHANGED <<Live, answered, published, enabled, subscribers, user>>
         /\ op[p].at = "close" /\ op'[p].at \in {"idle", "close"}
         /\ op'[p].payloads = <<>> \/ op'[p].payloads = op[p].payloads
         /\ \E s \in op[p].closing :
              /\ op'[p].closing = op[p].closing \ {s}
              /\ s \in Subscriptions /\ channel'[s].closes = channel[s].closes + 1
              /\ \A t \in Subscriptions \ {s} : channel'[t].closes = channel[t].closes
PROOF
<1>0. Typed /\ OpOK /\ ChannelOK /\ op[p] \in Ops /\ op \in [Procs -> Ops]
  BY DEF Typed, OpOK
<1>1. /\ UNCHANGED <<enabled, items, head, subscribers, user, published, toggled, now, scenario,
                     popped, answered>>
      /\ op[p].at = "close"
  BY DEF CloseCleared, queue, bounds, At
<1>2. PICK s \in op[p].closing :
        /\ channel' = [channel EXCEPT ![s].closes = @ + 1]
        /\ op' = [op EXCEPT ![p] = IF op[p].closing = {s} THEN IdleOp
                                   ELSE [op[p] EXCEPT !.closing = op[p].closing \ {s}]]
  BY <1>0 DEF CloseCleared
<1>3. s \in Subscriptions
  BY <1>0 DEF Ops
<1>4. /\ ChannelOK' /\ channel'[s].closes = channel[s].closes + 1
      /\ \A t \in Subscriptions \ {s} : channel'[t].closes = channel[t].closes
  <2> DEFINE c == channel[s].closes + 1
  <2>1. channel \in [Subscriptions -> Channels] /\ channel[s].closes \in Nat
    BY <1>0, <1>3 DEF ChannelOK, Channels
  <2>2. c \in Nat /\ channel' = [channel EXCEPT ![s].closes = c]
    BY <1>2, <2>1
  <2> HIDE DEF c
  <2>3. /\ channel' \in [Subscriptions -> Channels] /\ channel'[s].closes = c
        /\ \A t \in Subscriptions \ {s} : channel'[t] = channel[t]
    BY <1>3, <2>1, <2>2 DEF Channels
  <2> QED
    BY <2>3 DEF ChannelOK, c
<1>5. CASE op[p].closing = {s}
  <2>1. op' = [op EXCEPT ![p] = IdleOp]
    BY <1>2, <1>5
  <2>2. OpOK' /\ op'[p] = IdleOp /\ Alone(p)
    BY <1>0, <2>1, IdleGood, OpSet DEF Alone
  <2>3. op'[p].closing = op[p].closing \ {s}
    BY <1>5, <2>2, IdleGood
  <2>4. Typed' /\ UNCHANGED Live
    BY <1>0, <1>1, <1>4, <2>2, Frames DEF Typed
  <2> QED
    BY <1>1, <1>3, <1>4, <2>2, <2>3, <2>4, IdleGood
<1>6. CASE op[p].closing # {s}
  <2> DEFINE rest == op[p].closing \ {s}
             record == [op[p] EXCEPT !.closing = rest]
  <2>1. op' = [op EXCEPT ![p] = record]
    BY <1>2, <1>6
  <2>2. rest \in SUBSET Subscriptions /\ rest = op[p].closing \ {s}
    BY <1>0 DEF Ops
  <2> HIDE DEF rest
  <2>3. /\ record \in GoodOps /\ record.at = "close" /\ record.payloads = op[p].payloads
        /\ record.closing = rest
    BY <1>0, <1>1, <2>2 DEF GoodOps, Ops
  <2> HIDE DEF record
  <2>4. OpOK' /\ op'[p] = record /\ Alone(p)
    BY <1>0, <2>1, <2>3, OpSet DEF Alone
  <2>5. Typed' /\ UNCHANGED Live
    BY <1>0, <1>1, <1>4, <2>4, Frames DEF Typed
  <2> QED
    BY <1>1, <1>3, <1>4, <2>2, <2>3, <2>4, <2>5
<1> QED
  BY <1>5, <1>6

\* The subscribers' steps, a refresh and the clock leave the queue and the
\* goroutines alone.
LEMMA UserFacts ==
  ASSUME Typed, NEW s \in Subscriptions, UserStep(s)
  PROVE  /\ Typed' /\ UNCHANGED <<Live, popped, op, answered, published, enabled>>
         /\ \A t \in Subscriptions \ {s} :
              /\ channel'[t] = channel[t] /\ user'[t] = user[t]
              /\ t \in subscribers' <=> t \in subscribers
         /\ \/ /\ user[s] = "new" /\ user'[s] = "subscribed" /\ s \in subscribers'
               /\ channel'[s].closes = channel[s].closes
            \/ /\ user[s] = "subscribed" /\ user'[s] = "subscribed"
               /\ s \in subscribers' <=> s \in subscribers
               /\ channel'[s].closes = channel[s].closes
            \/ /\ user[s] = "subscribed" /\ s \notin subscribers'
               /\ user'[s] = IF s \in subscribers THEN "closing" ELSE "gone"
               /\ channel'[s].closes = channel[s].closes
            \/ /\ user[s] = "closing" /\ user'[s] = "gone"
               /\ s \in subscribers' <=> s \in subscribers
               /\ channel'[s].closes = channel[s].closes + 1
PROOF
<1>0. Typed /\ SubscribersOK /\ ChannelOK /\ UserOK
  BY DEF Typed
<1>c. /\ channel \in [Subscriptions -> Channels]
      /\ channel[s].messages \in Nat /\ channel[s].closes \in Nat
  BY <1>0 DEF ChannelOK, Channels
<1>1. CASE SubscribeUsage(s)
  <2>1. /\ user[s] = "new" /\ user' = [user EXCEPT ![s] = "subscribed"]
        /\ channel' = [channel EXCEPT ![s].messages = 1]
        /\ subscribers' = subscribers \cup {s}
        /\ UNCHANGED <<enabled, items, head, op, published, toggled, now, scenario, popped, answered>>
    BY <1>1 DEF SubscribeUsage, queue, bounds
  <2>2. /\ UserOK' /\ user'[s] = "subscribed" /\ \A t \in Subscriptions \ {s} : user'[t] = user[t]
    BY <1>0, <2>1 DEF UserOK
  <2>3. /\ channel' \in [Subscriptions -> Channels] /\ channel'[s].closes = channel[s].closes
        /\ \A t \in Subscriptions \ {s} : channel'[t] = channel[t]
    BY <1>c, <2>1 DEF Channels
  <2>4. ChannelOK' /\ SubscribersOK'
    BY <1>0, <2>1, <2>3 DEF ChannelOK, SubscribersOK
  <2>5. Typed' /\ UNCHANGED Live
    BY <1>0, <2>1, <2>2, <2>4, Frames DEF Typed
  <2> QED
    BY <2>1, <2>2, <2>3, <2>5
<1>2. CASE Receive(s)
  <2>1. /\ user[s] = "subscribed" /\ channel[s].messages > 0
        /\ channel' = [channel EXCEPT ![s].messages = @ - 1]
        /\ UNCHANGED <<enabled, items, head, subscribers, user, op, published, toggled, now,
                       scenario, popped, answered>>
    BY <1>2 DEF Receive, queue, bounds
  <2> DEFINE m == channel[s].messages - 1
  <2>2. m \in Nat /\ channel' = [channel EXCEPT ![s].messages = m]
    BY <1>c, <2>1
  <2> HIDE DEF m
  <2>3. /\ channel' \in [Subscriptions -> Channels] /\ channel'[s].closes = channel[s].closes
        /\ \A t \in Subscriptions \ {s} : channel'[t] = channel[t]
    BY <1>c, <2>2 DEF Channels
  <2>4. ChannelOK'
    BY <2>3 DEF ChannelOK
  <2>5. Typed' /\ UNCHANGED Live
    BY <1>0, <2>1, <2>4, Frames DEF Typed
  <2> QED
    BY <2>1, <2>3, <2>5
<1>3. CASE Unsubscribe(s)
  <2>1. /\ user[s] = "subscribed" /\ subscribers' = subscribers \ {s}
        /\ user' = [user EXCEPT ![s] = IF s \in subscribers THEN "closing" ELSE "gone"]
        /\ UNCHANGED <<enabled, items, head, channel, op, published, toggled, now,
                       scenario, popped, answered>>
    BY <1>3 DEF Unsubscribe, queue, bounds
  <2>2. /\ UserOK' /\ user'[s] = IF s \in subscribers THEN "closing" ELSE "gone"
        /\ \A t \in Subscriptions \ {s} : user'[t] = user[t]
    BY <1>0, <2>1 DEF UserOK
  <2>3. SubscribersOK'
    BY <1>0, <2>1 DEF SubscribersOK
  <2>4. Typed' /\ UNCHANGED Live
    BY <1>0, <2>1, <2>2, <2>3, Frames DEF Typed
  <2> QED
    BY <2>1, <2>2, <2>4
<1>4. CASE CloseUnsubscribed(s)
  <2>1. /\ user[s] = "closing" /\ user' = [user EXCEPT ![s] = "gone"]
        /\ channel' = [channel EXCEPT ![s].closes = @ + 1]
        /\ UNCHANGED <<enabled, items, head, subscribers, op, published, toggled, now,
                       scenario, popped, answered>>
    BY <1>4 DEF CloseUnsubscribed, queue, bounds
  <2> DEFINE c == channel[s].closes + 1
  <2>2. c \in Nat /\ channel' = [channel EXCEPT ![s].closes = c]
    BY <1>c, <2>1
  <2> HIDE DEF c
  <2>3. /\ channel' \in [Subscriptions -> Channels] /\ channel'[s].closes = c
        /\ \A t \in Subscriptions \ {s} : channel'[t] = channel[t]
    BY <1>c, <2>2 DEF Channels
  <2>4. /\ UserOK' /\ user'[s] = "gone" /\ \A t \in Subscriptions \ {s} : user'[t] = user[t]
    BY <1>0, <2>1 DEF UserOK
  <2>5. ChannelOK'
    BY <2>3 DEF ChannelOK
  <2>6. Typed' /\ UNCHANGED Live
    BY <1>0, <2>1, <2>4, <2>5, Frames DEF Typed
  <2> QED
    BY <2>1, <2>3, <2>4, <2>6 DEF c
<1> QED
  BY <1>1, <1>2, <1>3, <1>4 DEF UserStep

LEMMA NotifyFacts ==
  ASSUME Typed, NotifyUsageRefresh
  PROVE  /\ Typed' /\ UNCHANGED <<Live, popped, op, answered, published, enabled, user>>
         /\ publishToSubscribers
PROOF
<1>1. /\ publishToSubscribers
      /\ UNCHANGED <<enabled, items, head, user, op, published, toggled, now, scenario,
                     popped, answered>>
  BY DEF NotifyUsageRefresh, queue, bounds
<1>2. ChannelOK' /\ SubscribersOK'
  BY <1>1, PublishFacts DEF Typed
<1> QED
  BY <1>1, <1>2, Frames DEF Typed

LEMMA TickFacts ==
  ASSUME Typed, Tick
  PROVE  /\ Typed'
         /\ UNCHANGED <<Live, popped, op, answered, published, enabled, user, subscribers, channel>>
PROOF
<1>1. /\ now' = now + 1 /\ now < scenario.time
      /\ UNCHANGED <<enabled, items, head, subscribers, channel, user, op, published, toggled,
                     scenario, popped, answered>>
  BY DEF Tick, queue, delivery
<1>2. BoundsOK'
  <2>1. scenario.time \in 0..MaxTime /\ now \in 1..MaxTime /\ MaxTime \in Nat
    BY QueueAssumption DEF Typed, BoundsOK
  <2>2. now + 1 \in 1..MaxTime
    BY <1>1, <2>1
  <2> QED
    BY <1>1, <2>2 DEF Typed, BoundsOK
<1> QED
  BY <1>1, <1>2, Frames DEF Typed

LEMMA StutterFacts ==
  ASSUME Typed, UNCHANGED vars
  PROVE  /\ Typed'
         /\ UNCHANGED <<Live, popped, op, answered, published, enabled, user, subscribers, channel>>
PROOF
<1>1. UNCHANGED <<enabled, items, head, subscribers, channel, user, op, published, toggled, now,
                  scenario, popped, answered>>
  BY DEF vars, queue, delivery, bounds
<1> QED
  BY <1>1, Frames DEF Typed

LEMMA InitTyped == Init => Typed /\ Live = <<>>
PROOF
<1> SUFFICES ASSUME Init PROVE Typed /\ Live = <<>>
  OBVIOUS
<1>1. items = <<>> /\ head = 0 /\ popped = <<>>
  BY DEF Init
<1>2. QueueOK /\ PoppedOK
  <2>1. <<>> \in Seq(Entry) /\ Len(<<>>) = 0
    BY EmptySeq
  <2> QED
    BY <1>1, <2>1 DEF QueueOK, PoppedOK
<1>3. Live = <<>>
  <2>1. Live = LiveOf(Nothing)
    BY <1>1 DEF Live, LiveOf, Nothing
  <2> QED
    BY <2>1, NothingLive
<1>4. EnabledOK /\ SubscribersOK /\ UserOK /\ AnsweredOK
  BY DEF Init, EnabledOK, SubscribersOK, UserOK, AnsweredOK
<1>5. ChannelOK
  BY DEF Init, ChannelOK, Channels
<1>6. BoundsOK
  BY QueueAssumption DEF Init, BoundsOK
<1>7. OpOK
  <2>1. op = [p \in Procs |-> IdleOp] /\ IdleOp \in Ops
    BY IdleGood DEF Init, GoodOps
  <2>2. op \in [Procs -> Ops] /\ \A p \in Procs : op[p] \in GoodOps
    BY <2>1, IdleGood
  <2> QED
    BY <2>2, OpGood
<1> QED
  BY <1>2, <1>3, <1>4, <1>5, <1>6, <1>7 DEF Typed

LEMMA TypedNext == Typed /\ [Next]_vars => Typed'
PROOF
<1> SUFFICES ASSUME Typed, [Next]_vars PROVE Typed'
  OBVIOUS
<1>1. ASSUME NEW p \in Procs, ProcStep(p) PROVE Typed'
  BY <1>1, HandleFacts, CheckFacts, PublishSteps, AppendFacts, StartFacts, PopFacts, PushFacts,
     ClearFacts, CloseClearedFacts DEF ProcStep
<1>2. ASSUME NEW s \in Subscriptions, UserStep(s) PROVE Typed'
  BY <1>2, UserFacts
<1>3. CASE NotifyUsageRefresh \/ Tick \/ UNCHANGED vars
  BY <1>3, NotifyFacts, TickFacts, StutterFacts
<1> QED
  BY <1>1, <1>2, <1>3 DEF Next

LEMMA TypedInvariance == Spec => []Typed
PROOF BY InitTyped, TypedNext, PTL DEF Spec

-----------------------------------------------------------------------------
(***************************************************************************)
(* A first-in first-out queue.                                             *)
(***************************************************************************)
LEMMA FifoStep == Typed /\ [Next]_vars => [Fifo!Next]_(Fifo!vars)
PROOF
<1> SUFFICES ASSUME Typed, [Next]_vars PROVE Fifo!Next \/ UNCHANGED <<Live, popped>>
  BY DEF Fifo!vars
<1>1. ASSUME NEW p \in Procs, ProcStep(p) PROVE Fifo!Next \/ UNCHANGED <<Live, popped>>
  <2>1. CASE HandleUsage(p) \/ CheckEnabled(p) \/ PublishToSubscribers(p) \/ ReadClock(p)
             \/ StartPop(p) \/ Pushed(p) \/ PushFailed(p) \/ SetEnabled(p) \/ CloseCleared(p)
    <3>1. UNCHANGED popped
      BY <2>1 DEF HandleUsage, CheckEnabled, PublishToSubscribers, ReadClock, StartPop, Pushed,
         PushFailed, SetEnabled, CloseCleared
    <3>2. UNCHANGED Live
      BY <2>1, HandleFacts, CheckFacts, PublishSteps, StartFacts, PushFacts, CloseClearedFacts
    <3> QED
      BY <3>1, <3>2
  <2>2. CASE AppendItem(p)
    <3>1. UNCHANGED popped
      BY <2>2 DEF AppendItem
    <3>2. \E n \in 0..Len(Live), e \in Entry :
            Live' = Append(SubSeq(Live, n + 1, Len(Live)), e)
      BY <2>2, AppendFacts
    <3>3. Fifo!Enqueue
      BY <3>1, <3>2 DEF Fifo!Enqueue, Fifo!Rest
    <3> QED
      BY <3>3 DEF Fifo!Next
  <2>3. CASE PopOldest(p)
    <3>1. \E n \in 0..Len(Live) : \E k \in 0..Len(Live) - n :
            /\ popped' = SubSeq(Live, n + 1, n + k)
            /\ Live' = SubSeq(Live, (n + k) + 1, Len(Live))
      BY <2>3, PopFacts
    <3>2. Fifo!Pop
      BY <3>1 DEF Fifo!Pop, Fifo!Rest
    <3> QED
      BY <3>2 DEF Fifo!Next
  <2>4. CASE Clear(p)
    <3>1. Live' = <<>> /\ UNCHANGED popped
      BY <2>4, ClearFacts DEF Clear
    <3>2. Fifo!Clear
      BY <3>1 DEF Fifo!Clear
    <3> QED
      BY <3>2 DEF Fifo!Next
  <2> QED
    BY <1>1, <2>1, <2>2, <2>3, <2>4 DEF ProcStep
<1>2. ASSUME NEW s \in Subscriptions, UserStep(s) PROVE UNCHANGED <<Live, popped>>
  BY <1>2, UserFacts
<1>3. CASE NotifyUsageRefresh \/ Tick \/ UNCHANGED vars
  BY <1>3, NotifyFacts, TickFacts, StutterFacts
<1> QED
  BY <1>1, <1>2, <1>3 DEF Next

\* Pruning with late clocks, popping, putting back and compaction, on a slice
\* with a head index, give what a first-in first-out queue gives: entries
\* leave in the order in which they came, and only from the front.
THEOREM FirstInFirstOut == Spec => ImplementsFifo
PROOF
<1>1. Init => Fifo!Init
  BY InitTyped DEF Init, Fifo!Init
<1> QED
  BY <1>1, FifoStep, TypedInvariance, PTL DEF Spec, ImplementsFifo, Fifo!Spec

-----------------------------------------------------------------------------
(***************************************************************************)
(* Channels are closed once.                                               *)
(***************************************************************************)
\* A goroutine's step that leaves the channels alone.
LEMMA ChannelsFrame ==
  ASSUME ChannelsOwned, UNCHANGED <<channel, subscribers, user>>,
         \A p \in Procs : op'[p].closing \subseteq op[p].closing
  PROVE  ChannelsOwned'
PROOF
<1>1. \A p \in Procs : \A s : s \in op'[p].closing => s \in op[p].closing
  OBVIOUS
<1> QED
  BY <1>1 DEF ChannelsOwned

LEMMA ChannelsPublished ==
  ASSUME Typed, ChannelsOwned, publishToSubscribers, UNCHANGED user,
         \A p \in Procs : op'[p].closing \subseteq op[p].closing
  PROVE  ChannelsOwned'
PROOF
<1>1. /\ subscribers' \subseteq subscribers
      /\ \A s \in Subscriptions :
           \/ channel'[s].closes = channel[s].closes
           \/ s \in subscribers \ subscribers' /\ channel'[s].closes = channel[s].closes + 1
  BY PublishFacts DEF Typed
<1>2. \A p \in Procs : \A s : s \in op'[p].closing => s \in op[p].closing
  OBVIOUS
<1> QED
  BY <1>1, <1>2 DEF ChannelsOwned

LEMMA ChannelsNext == Typed /\ ChannelsOwned /\ [Next]_vars => ChannelsOwned'
PROOF
<1> SUFFICES ASSUME Typed, ChannelsOwned, [Next]_vars PROVE ChannelsOwned'
  OBVIOUS
<1>1. ASSUME NEW p \in Procs, ProcStep(p) PROVE ChannelsOwned'
  <2>1. CASE HandleUsage(p) \/ CheckEnabled(p) \/ ReadClock(p) \/ AppendItem(p) \/ StartPop(p)
             \/ PopOldest(p) \/ Pushed(p) \/ PushFailed(p) \/ SetEnabled(p)
    <3>1. UNCHANGED <<channel, subscribers, user>>
      BY <2>1 DEF HandleUsage, CheckEnabled, ReadClock, AppendItem, StartPop, PopOldest, Pushed,
         PushFailed, SetEnabled, delivery
    <3>2. Alone(p) /\ op'[p].closing \subseteq op[p].closing
      BY <2>1, HandleFacts, CheckFacts, AppendFacts, StartFacts, PopFacts, PushFacts
    <3> QED
      BY <3>1, <3>2, ChannelsFrame DEF Alone
  <2>2. CASE PublishToSubscribers(p)
    <3>1. /\ Alone(p) /\ op'[p].closing \subseteq op[p].closing
          /\ publishToSubscribers \/ UNCHANGED <<subscribers, channel>>
      BY <2>2, PublishSteps
    <3>2. UNCHANGED user /\ \A q \in Procs : op'[q].closing \subseteq op[q].closing
      BY <2>2, <3>1 DEF PublishToSubscribers, Alone
    <3> QED
      BY <3>1, <3>2, ChannelsFrame, ChannelsPublished
  <2>3. CASE Clear(p)
    <3>1. /\ Alone(p) /\ UNCHANGED <<channel, user>> /\ subscribers' = {}
          /\ op'[p].closing = subscribers
      BY <2>3, ClearFacts
    <3>2. \A q \in Procs : \A s : s \in op'[q].closing =>
            \/ q = p /\ s \in subscribers
            \/ q # p /\ s \in op[q].closing
      BY <3>1 DEF Alone
    <3> QED
      BY <3>1, <3>2 DEF ChannelsOwned
  <2>4. CASE CloseCleared(p)
    <3>1. Alone(p) /\ UNCHANGED <<subscribers, user>>
      BY <2>4, CloseClearedFacts
    <3>2. PICK s \in op[p].closing :
            /\ op'[p].closing = op[p].closing \ {s}
            /\ s \in Subscriptions /\ channel'[s].closes = channel[s].closes + 1
            /\ \A t \in Subscriptions \ {s} : channel'[t].closes = channel[t].closes
      BY <2>4, CloseClearedFacts
    <3>3. \A q \in Procs : \A t : t \in op'[q].closing => t \in op[q].closing /\ (q = p => t # s)
      BY <3>1, <3>2 DEF Alone
    <3> QED
      BY <3>1, <3>2, <3>3 DEF ChannelsOwned
  <2> QED
    BY <1>1, <2>1, <2>2, <2>3, <2>4 DEF ProcStep
<1>2. ASSUME NEW s \in Subscriptions, UserStep(s) PROVE ChannelsOwned'
  BY <1>2, UserFacts DEF ChannelsOwned
<1>3. CASE NotifyUsageRefresh
  BY <1>3, NotifyFacts, ChannelsPublished
<1>4. CASE Tick \/ UNCHANGED vars
  BY <1>4, TickFacts, StutterFacts, ChannelsFrame
<1> QED
  BY <1>1, <1>2, <1>3, <1>4 DEF Next

\* Closing what a full buffer, a switch-off or a leaving client took out of
\* the map closes each channel once, after it has left the map.
THEOREM ClosedOnce == Spec => []ChannelsSafe
PROOF
<1>1. Init => ChannelsOwned
  BY DEF Init, ChannelsOwned, IdleOp
<1>2. ChannelsOwned => ChannelsSafe
  BY DEF ChannelsOwned, ChannelsSafe
<1> QED
  BY <1>1, <1>2, TypedInvariance, ChannelsNext, PTL DEF Spec

-----------------------------------------------------------------------------
(***************************************************************************)
(* A payload is in one place.                                              *)
(***************************************************************************)
In(s, x) == \E i \in 1..Len(s) : s[i] = x
NoTwice(s) == \A i, j \in 1..Len(s) : s[i] = s[j] => i = j
Carries(s, x) == \E i \in 1..Len(s) : s[i].payload = x
Apart(s) == \A i, j \in 1..Len(s) : s[i].payload = s[j].payload => i = j

\* What a step takes from a sequence, what it leaves, and what it adds to it.
Taken(s, n, k) == SubSeq(s, n + 1, n + k)
Left(s, n, k) == SubSeq(s, (n + k) + 1, Len(s))
Added(s, n, e) == Append(SubSeq(s, n + 1, Len(s)), e)

LEMMA TailApart ==
  ASSUME NEW S, NEW s \in Seq(S), s # <<>>, NoTwice(s)
  PROVE  /\ NoTwice(Tail(s)) /\ In(s, Head(s)) /\ ~In(Tail(s), Head(s))
         /\ \A x : In(Tail(s), x) => In(s, x)
PROOF
<1>1. /\ Tail(s) \in Seq(S) /\ Len(Tail(s)) = Len(s) - 1 /\ Len(s) \in Nat \ {0}
      /\ Head(s) = s[1] /\ \A i \in 1..Len(Tail(s)) : Tail(s)[i] = s[i + 1]
  <2>1. Len(s) \in Nat /\ Len(s) # 0
    BY EmptySeq
  <2> QED
    BY <2>1, HeadTailProperties
<1>2. \A i \in 1..Len(Tail(s)) : i + 1 \in 1..Len(s) /\ i + 1 # 1
  BY <1>1
<1>3. 1 \in 1..Len(s)
  BY <1>1
<1>4. NoTwice(Tail(s))
  <2> SUFFICES ASSUME NEW i \in 1..Len(Tail(s)), NEW j \in 1..Len(Tail(s)),
                      Tail(s)[i] = Tail(s)[j]
               PROVE  i = j
    BY DEF NoTwice
  <2>1. i + 1 = j + 1
    BY <1>1, <1>2 DEF NoTwice
  <2> QED
    BY <2>1, <1>1
<1>5. ~In(Tail(s), Head(s))
  BY <1>1, <1>2, <1>3 DEF In, NoTwice
<1> QED
  BY <1>1, <1>2, <1>3, <1>4, <1>5 DEF In

LEMMA SplitApart ==
  ASSUME NEW s \in Seq(Entry), NEW n \in 0..Len(s), NEW k \in 0..Len(s) - n, Apart(s),
         NEW b, b = Taken(s, n, k), NEW r, r = Left(s, n, k)
  PROVE  /\ Apart(b) /\ Apart(r) /\ Len(b) = k
         /\ \A x : Carries(b, x) => Carries(s, x) /\ ~Carries(r, x)
         /\ \A x : Carries(r, x) => Carries(s, x)
PROOF
<1>1. Len(s) \in Nat /\ n + k \in 0..Len(s)
  OBVIOUS
<1>2. Len(b) = k /\ \A i \in 1..k : b[i] = s[n + i]
  BY SliceFacts DEF Taken
<1>3. Len(r) = Len(s) - (n + k) /\ \A i \in 1..Len(s) - (n + k) : r[i] = s[(n + k) + i]
  BY <1>1, SuffixFacts DEF Left
<1>4. \A i \in 1..k : n + i \in 1..Len(s) /\ n + i <= n + k
  BY <1>1
<1>5. \A i \in 1..Len(s) - (n + k) : (n + k) + i \in 1..Len(s) /\ (n + k) + i > n + k
  BY <1>1
<1>6. Apart(b)
  <2> SUFFICES ASSUME NEW i \in 1..k, NEW j \in 1..k, b[i].payload = b[j].payload PROVE i = j
    BY <1>2 DEF Apart
  <2>1. n + i = n + j
    BY <1>2, <1>4 DEF Apart
  <2> QED
    BY <2>1
<1>7. Apart(r)
  <2> SUFFICES ASSUME NEW i \in 1..Len(s) - (n + k), NEW j \in 1..Len(s) - (n + k),
                      r[i].payload = r[j].payload
               PROVE  i = j
    BY <1>3 DEF Apart
  <2>1. (n + k) + i = (n + k) + j
    BY <1>3, <1>5 DEF Apart
  <2> QED
    BY <2>1, <1>1
<1>8. ASSUME NEW x, Carries(b, x), Carries(r, x) PROVE FALSE
  <2>1. PICK i \in 1..k : b[i].payload = x
    BY <1>2, <1>8 DEF Carries
  <2>2. PICK j \in 1..Len(s) - (n + k) : r[j].payload = x
    BY <1>3, <1>8 DEF Carries
  <2>a. s[n + i].payload = x /\ s[(n + k) + j].payload = x
    BY <1>2, <1>3, <2>1, <2>2
  <2>3. n + i = (n + k) + j
    BY <1>4, <1>5, <2>a DEF Apart
  <2> QED
    BY <2>3, <1>4, <1>5
<1>9. \A x : Carries(b, x) => Carries(s, x)
  BY <1>2, <1>4 DEF Carries
<1>10. \A x : Carries(r, x) => Carries(s, x)
  BY <1>3, <1>5 DEF Carries
<1> QED
  BY <1>2, <1>6, <1>7, <1>8, <1>9, <1>10

LEMMA NamesApart ==
  ASSUME NEW b, NEW k \in Nat, Len(b) = k, Apart(b), NEW names, names = Names(k, b)
  PROVE  /\ DOMAIN names = 1..k
         /\ \A i \in 1..k : names[i] = b[i].payload
         /\ \A i, j \in 1..k : names[i] = names[j] => i = j
         /\ \A x : Cardinality({i \in 1..k : names[i] = x}) = IF Carries(b, x) THEN 1 ELSE 0
PROOF
<1>1. DOMAIN names = 1..k /\ \A i \in 1..k : names[i] = b[i].payload
  BY DEF Names
<1>2. \A i, j \in 1..k : names[i] = names[j] => i = j
  BY <1>1 DEF Apart
<1>3. ASSUME NEW x
      PROVE  Cardinality({i \in 1..k : names[i] = x}) = IF Carries(b, x) THEN 1 ELSE 0
  <2>1. CASE Carries(b, x)
    <3>1. PICK i \in 1..k : names[i] = x
      BY <1>1, <2>1 DEF Carries
    <3>2. {j \in 1..k : names[j] = x} = {i}
      BY <1>2, <3>1
    <3> QED
      BY <2>1, <3>2, FS_Singleton
  <2>2. CASE ~Carries(b, x)
    <3>1. {j \in 1..k : names[j] = x} = {}
      BY <1>1, <2>2 DEF Carries
    <3> QED
      BY <2>2, <3>1, FS_EmptySet
  <2> QED
    BY <2>1, <2>2
<1> QED
  BY <1>1, <1>2, <1>3

LEMMA AppendApart ==
  ASSUME NEW s \in Seq(Entry), NEW n \in 0..Len(s), NEW e \in Entry, Apart(s),
         ~Carries(s, e.payload), NEW t, t = Added(s, n, e)
  PROVE  /\ Apart(t)
         /\ \A x : Carries(t, x) => Carries(s, x) \/ x = e.payload
PROOF
<1> DEFINE r == SubSeq(s, n + 1, Len(s))
<1>1. r \in Seq(Entry) /\ Len(r) = Len(s) - n /\ \A i \in 1..Len(s) - n : r[i] = s[n + i]
  BY SuffixFacts
<1>a. t = Append(r, e)
  BY DEF Added
<1> HIDE DEF r
<1>b. /\ Len(Append(r, e)) = Len(r) + 1
      /\ \A i \in 1..Len(r) : Append(r, e)[i] = r[i]
      /\ Append(r, e)[Len(r) + 1] = e
  <2>1. r \in Seq(Entry)
    BY <1>1
  <2> QED
    BY <2>1, AppendProperties
<1>2. /\ Len(t) = Len(r) + 1 /\ t[Len(r) + 1] = e
      /\ \A i \in 1..Len(r) : t[i] = r[i]
  BY <1>a, <1>b
<1>3. Len(s) \in Nat /\ Len(r) \in Nat
  BY <1>1
<1>4. \A i \in 1..Len(t) : i = Len(r) + 1 \/ i \in 1..Len(r)
  BY <1>2, <1>3
<1>5. \A i \in 1..Len(r) : n + i \in 1..Len(s) /\ t[i] = s[n + i]
  BY <1>1, <1>2, <1>3
<1>6. \A i, j \in 1..Len(r) : t[i].payload = t[j].payload => i = j
  <2> SUFFICES ASSUME NEW i \in 1..Len(r), NEW j \in 1..Len(r), t[i].payload = t[j].payload
               PROVE  i = j
    OBVIOUS
  <2>1. n + i = n + j
    BY <1>5 DEF Apart
  <2> QED
    BY <2>1
<1>7. \A i \in 1..Len(r) : t[i].payload # e.payload
  BY <1>5 DEF Carries
<1>8. t[Len(r) + 1].payload = e.payload
  BY <1>2
<1>9. Apart(t)
  <2> SUFFICES ASSUME NEW i \in 1..Len(t), NEW j \in 1..Len(t), t[i].payload = t[j].payload
               PROVE  i = j
    BY DEF Apart
  <2>1. CASE i \in 1..Len(r) /\ j \in 1..Len(r)
    BY <1>6, <2>1
  <2>2. CASE i = Len(r) + 1 /\ j \in 1..Len(r)
    BY <1>7, <1>8, <2>2
  <2>3. CASE i \in 1..Len(r) /\ j = Len(r) + 1
    BY <1>7, <1>8, <2>3
  <2> QED
    BY <1>4, <2>1, <2>2, <2>3
<1>10. ASSUME NEW x, Carries(t, x) PROVE Carries(s, x) \/ x = e.payload
  <2>1. PICK i \in 1..Len(t) : t[i].payload = x
    BY <1>10 DEF Carries
  <2> QED
    BY <1>4, <1>5, <1>8, <2>1 DEF Carries
<1> QED
  BY <1>9, <1>10

LEMMA PlaceTerms ==
  /\ QueueDistinct <=> Apart(Live)
  /\ QueueDistinct' <=> Apart(Live')
  /\ HandDistinct <=> \A p \in Procs : NoTwice(op[p].payloads)
  /\ HandDistinct' <=> \A p \in Procs : NoTwice(op'[p].payloads)
  /\ \A x : (Queued(x) <=> Carries(Live, x))
  /\ \A p, x : (Holds(p, x) <=> In(op[p].payloads, x))
PROOF BY DEF QueueDistinct, HandDistinct, Apart, NoTwice, Queued, Carries, Holds, In

LEMMA NextTerms ==
  ASSUME NEW p, NEW x
  PROVE  (Queued(x)' <=> Carries(Live', x)) /\ (Holds(p, x)' <=> In(op'[p].payloads, x))
PROOF BY DEF Queued, Carries, Holds, In

\* How a step of p may move payload x: it stays or is dropped; from p's hand
\* to the queue; from the queue to p's hand; out; or it is new.
Moves(p, x) ==
  \/ /\ Out(x)' = Out(x) /\ published' = published
     /\ Queued(x)' => Queued(x)
     /\ Holds(p, x)' => Holds(p, x)
  \/ /\ Out(x)' = Out(x) /\ published' = published
     /\ Holds(p, x) /\ ~Holds(p, x)'
  \/ /\ Out(x)' = Out(x) /\ published' = published
     /\ Queued(x) /\ ~Queued(x)'
  \/ /\ Out(x)' = Out(x) + 1 /\ published' = published
     /\ Queued(x) \/ Holds(p, x)
     /\ ~Queued(x)' /\ ~Holds(p, x)'
  \/ /\ Out(x)' = Out(x) /\ published' = published + 1
     /\ Queued(x)' => Queued(x)
     /\ Holds(p, x)' => x = published + 1

LEMMA OnePlaceMoves ==
  ASSUME Typed, OnePlace, NEW p \in Procs, Alone(p), \A x \in Payloads : Moves(p, x)
  PROVE  OnePlace'
PROOF
<1> SUFFICES ASSUME NEW x \in Payloads
             PROVE  /\ \A q \in Procs : Holds(q, x)' =>
                         ~Queued(x)' /\ \A r \in Procs : Holds(r, x)' => q = r
                    /\ \/ Out(x)' = 0
                       \/ Out(x)' = 1 /\ ~Queued(x)' /\ \A q \in Procs : ~Holds(q, x)'
                    /\ x > published' =>
                         Out(x)' = 0 /\ ~Queued(x)' /\ \A q \in Procs : ~Holds(q, x)'
  BY DEF OnePlace
<1>1. \A q \in Procs \ {p} : Holds(q, x)' <=> Holds(q, x)
  <2> SUFFICES ASSUME NEW q \in Procs \ {p} PROVE Holds(q, x)' <=> Holds(q, x)
    OBVIOUS
  <2>1. op'[q].payloads = op[q].payloads
    BY DEF Alone
  <2> QED
    BY <2>1 DEF Holds
<1>2. /\ \A q \in Procs : Holds(q, x) =>
           ~Queued(x) /\ \A r \in Procs : Holds(r, x) => q = r
      /\ \/ Out(x) = 0
         \/ Out(x) = 1 /\ ~Queued(x) /\ \A q \in Procs : ~Holds(q, x)
      /\ x > published =>
           Out(x) = 0 /\ ~Queued(x) /\ \A q \in Procs : ~Holds(q, x)
  BY DEF OnePlace
<1>3. published \in Nat /\ x \in Nat /\ published + 1 > published
  BY QueueAssumption DEF Typed, BoundsOK, Payloads
<1>4. x > published + 1 => x > published
  BY <1>3
<1>5. Moves(p, x)
  OBVIOUS
<1> HIDE DEF Moves
<1>6. CASE /\ Out(x)' = Out(x) /\ published' = published
           /\ Queued(x)' => Queued(x)
           /\ Holds(p, x)' => Holds(p, x)
  BY <1>1, <1>2, <1>6, ZenonT(30)
<1>7. CASE /\ Out(x)' = Out(x) /\ published' = published
           /\ Holds(p, x) /\ ~Holds(p, x)'
  BY <1>1, <1>2, <1>7, ZenonT(30)
<1>8. CASE /\ Out(x)' = Out(x) /\ published' = published
           /\ Queued(x) /\ ~Queued(x)'
  BY <1>1, <1>2, <1>8, ZenonT(30)
<1>9. CASE /\ Out(x)' = Out(x) + 1 /\ published' = published
           /\ Queued(x) \/ Holds(p, x)
           /\ ~Queued(x)' /\ ~Holds(p, x)'
  <2>1. Out(x) = 0 /\ \A q \in Procs \ {p} : ~Holds(q, x)
    BY <1>2, <1>9, ZenonT(30)
  <2>2. Out(x)' = 1
    BY <1>9, <2>1
  <2>3. ~(x > published)
    BY <1>2, <1>9, ZenonT(30)
  <2>4. \A q \in Procs : ~Holds(q, x)'
    BY <1>1, <1>9, <2>1, ZenonT(30)
  <2> QED
    BY <1>9, <2>2, <2>3, <2>4
<1>10. CASE /\ Out(x)' = Out(x) /\ published' = published + 1
            /\ Queued(x)' => Queued(x)
            /\ Holds(p, x)' => x = published + 1
  <2>1. CASE Holds(p, x)'
    <3>1. x > published /\ ~(x > published')
      BY <1>3, <1>10, <2>1
    <3>2. Out(x) = 0 /\ ~Queued(x) /\ \A q \in Procs : ~Holds(q, x)
      BY <1>2, <3>1
    <3> QED
      BY <1>1, <1>10, <3>1, <3>2, ZenonT(30)
  <2>2. CASE ~Holds(p, x)'
    <3>1. x > published' => x > published
      BY <1>4, <1>10
    <3> QED
      BY <1>1, <1>2, <1>10, <2>2, <3>1, ZenonT(30)
  <2> QED
    BY <2>1, <2>2
<1> QED
  BY <1>5, <1>6, <1>7, <1>8, <1>9, <1>10 DEF Moves

\* A goroutine's step that leaves the queue, and what left it, alone.
LEMMA HandFrame ==
  ASSUME Typed, Places, NEW p \in Procs, Alone(p), UNCHANGED <<Live, published>>, KeepsOut,
         op'[p].payloads \in {<<>>, op[p].payloads}
  PROVE  Places'
PROOF
<1>1. \A x : Holds(p, x)' => Holds(p, x)
  <2> SUFFICES ASSUME NEW x, Holds(p, x)' PROVE Holds(p, x)
    OBVIOUS
  <2>1. PICK i \in 1..Len(op'[p].payloads) : op'[p].payloads[i] = x
    BY DEF Holds
  <2>2. Len(<<>>) = 0 /\ op'[p].payloads # <<>>
    BY <2>1, EmptySeq
  <2> QED
    BY <2>1, <2>2 DEF Holds
<1>2. NoTwice(op'[p].payloads)
  <2>1. NoTwice(<<>>)
    BY DEF NoTwice
  <2> QED
    BY <2>1, PlaceTerms DEF Places
<1>3. \A x \in Payloads : Moves(p, x)
  BY <1>1 DEF Moves, Queued, KeepsOut
<1>4. HandDistinct'
  BY <1>2, PlaceTerms DEF Places, Alone
<1>5. QueueDistinct'
  BY PlaceTerms DEF Places
<1> QED
  BY <1>3, <1>4, <1>5, OnePlaceMoves DEF Places

\* The first payload of p's hand is dealt with; it left, unless it was dropped.
LEMMA FirstOfHand ==
  ASSUME Typed, Places, NEW p \in Procs, op[p].payloads # <<>>
  PROVE  \E h \in Payloads :
           /\ h = Head(op[p].payloads) /\ Holds(p, h) /\ ~Queued(h)
           /\ op'[p].payloads = Tail(op[p].payloads) =>
                /\ NoTwice(op'[p].payloads) /\ ~Holds(p, h)'
                /\ \A x : Holds(p, x)' => Holds(p, x)
PROOF
<1>1. PICK s \in Seq(Payloads) : s = op[p].payloads
  BY DEF Typed, OpOK, Ops
<1>2. s # <<>> /\ NoTwice(s)
  BY <1>1, PlaceTerms DEF Places
<1>3. /\ NoTwice(Tail(s)) /\ In(s, Head(s)) /\ ~In(Tail(s), Head(s))
      /\ \A x : In(Tail(s), x) => In(s, x)
  BY <1>2, TailApart
<1>4. PICK h \in Payloads : h = Head(s)
  BY <1>2, HeadTailProperties
<1>5. Holds(p, h)
  BY <1>1, <1>3, <1>4, PlaceTerms
<1>6. ~Queued(h)
  BY <1>5 DEF Places, OnePlace
<1>7. ASSUME op'[p].payloads = Tail(op[p].payloads)
      PROVE  /\ NoTwice(op'[p].payloads) /\ ~Holds(p, h)'
             /\ \A x : Holds(p, x)' => Holds(p, x)
  <2>0. op'[p].payloads = Tail(s)
    BY <1>1, <1>7
  <2>1. ~Holds(p, h)'
    BY <1>3, <1>4, <2>0, NextTerms
  <2>2. ASSUME NEW x, Holds(p, x)' PROVE Holds(p, x)
    BY <1>1, <1>3, <2>0, <2>2, NextTerms, PlaceTerms
  <2> QED
    BY <1>3, <2>0, <2>1, <2>2
<1> QED
  BY <1>1, <1>4, <1>5, <1>6, <1>7

\* What is left of Places once the moves of a step are known.
LEMMA PlacesMoves ==
  ASSUME Typed, Places, NEW p \in Procs, Alone(p), \A x \in Payloads : Moves(p, x),
         NoTwice(op'[p].payloads), Apart(Live')
  PROVE  Places'
PROOF
<1>1. HandDistinct'
  BY PlaceTerms DEF Places, Alone
<1> QED
  BY <1>1, PlaceTerms, OnePlaceMoves DEF Places

LEMMA PlacesHandle ==
  ASSUME Typed, Places, NEW p \in Procs, HandleUsage(p)
  PROVE  Places'
PROOF
<1>1. /\ Alone(p) /\ UNCHANGED Live /\ published + 1 \in Payloads /\ published' = published + 1
      /\ op'[p].payloads = <<published + 1>>
  BY HandleFacts
<1>2. KeepsOut
  BY SameOut DEF HandleUsage
<1>3. Len(<<published + 1>>) = 1 /\ \A i \in 1..1 : i = 1 /\ <<published + 1>>[i] = published + 1
  OBVIOUS
<1>4. NoTwice(op'[p].payloads)
  BY <1>1, <1>3 DEF NoTwice
<1>5. \A x : Holds(p, x)' => x = published + 1
  BY <1>1, <1>3 DEF Holds
<1>6. \A x \in Payloads : Moves(p, x)
  BY <1>1, <1>2, <1>5 DEF Moves, Queued, KeepsOut
<1> QED
  BY <1>1, <1>4, <1>6, PlaceTerms, PlacesMoves DEF Places

\* p deals with the first payload of its hand without the queue: it leaves, or
\* is dropped.
LEMMA PlacesFirst ==
  ASSUME Typed, Places, NEW p \in Procs, Alone(p), UNCHANGED <<Live, published>>,
         op[p].payloads # <<>>, op'[p].payloads = Tail(op[p].payloads),
         KeepsOut \/ answered' = [answered EXCEPT ![Head(op[p].payloads)].left = @ + 1]
  PROVE  Places'
PROOF
<1>1. PICK h \in Payloads :
           /\ h = Head(op[p].payloads) /\ Holds(p, h) /\ ~Queued(h)
           /\ NoTwice(op'[p].payloads) /\ ~Holds(p, h)'
           /\ \A x : Holds(p, x)' => Holds(p, x)
  BY FirstOfHand
<1>2. \A x : Queued(x)' <=> Queued(x)
  BY DEF Queued
<1>3. ASSUME NEW x \in Payloads PROVE Moves(p, x)
  <2>1. CASE KeepsOut
    BY <1>1, <1>2, <2>1 DEF Moves, KeepsOut
  <2>2. CASE answered' = [answered EXCEPT ![h].left = @ + 1]
    <3>1. Out(h)' = Out(h) + 1 /\ \A y \in Payloads \ {h} : Out(y)' = Out(y)
      BY <2>2, LeavesFacts DEF Typed
    <3>2. CASE x = h
      BY <1>1, <1>2, <3>1, <3>2 DEF Moves
    <3>3. CASE x # h
      BY <1>1, <1>2, <3>1, <3>3 DEF Moves
    <3> QED
      BY <3>2, <3>3
  <2> QED
    BY <1>1, <2>1, <2>2
<1> QED
  BY <1>1, <1>3, PlaceTerms, PlacesMoves DEF Places

LEMMA PlacesAppend ==
  ASSUME Typed, Places, NEW p \in Procs, AppendItem(p)
  PROVE  Places'
PROOF
<1>1. /\ Alone(p) /\ UNCHANGED published /\ KeepsOut
      /\ op[p].payloads # <<>> /\ op'[p].payloads = Tail(op[p].payloads)
  BY AppendFacts, SameOut
<1>2. PICK n \in 0..Len(Live), e \in Entry :
           /\ e.payload = Head(op[p].payloads)
           /\ Live' = Append(SubSeq(Live, n + 1, Len(Live)), e)
  BY AppendFacts
<1>3. PICK h \in Payloads :
           /\ h = Head(op[p].payloads) /\ Holds(p, h) /\ ~Queued(h)
           /\ NoTwice(op'[p].payloads) /\ ~Holds(p, h)'
           /\ \A x : Holds(p, x)' => Holds(p, x)
  BY <1>1, FirstOfHand
<1>4. Live \in Seq(Entry) /\ Apart(Live) /\ ~Carries(Live, e.payload)
  BY <1>2, <1>3, CurrentFacts, PlaceTerms DEF Places, Typed
<1>5. PICK s \in Seq(Entry) : s = Live
  BY <1>4
<1>6. PICK t : t = Live'
  OBVIOUS
<1>7. Apart(t) /\ \A x : Carries(t, x) => Carries(s, x) \/ x = e.payload
  <2>1. n \in 0..Len(s)
    BY <1>5
  <2>2. Apart(s)
    BY <1>4, <1>5
  <2>3. ~Carries(s, e.payload)
    BY <1>4, <1>5
  <2>4. t = Added(s, n, e)
    BY <1>2, <1>5, <1>6 DEF Added
  <2> QED
    BY <2>1, <2>2, <2>3, <2>4, AppendApart
<1>8. \A x : Queued(x)' => Queued(x) \/ x = h
  BY <1>2, <1>3, <1>5, <1>6, <1>7, PlaceTerms, NextTerms
<1>9. \A x \in Payloads : Moves(p, x)
  BY <1>1, <1>3, <1>8 DEF Moves, KeepsOut
<1> QED
  BY <1>1, <1>3, <1>6, <1>7, <1>9, PlacesMoves

LEMMA PlacesPop ==
  ASSUME Typed, Places, NEW p \in Procs, PopOldest(p)
  PROVE  Places'
PROOF
<1>1. Alone(p) /\ UNCHANGED published
  BY PopFacts
<1>2. PICK n \in 0..Len(Live) : \E k \in 0..Len(Live) - n :
              /\ popped' = SubSeq(Live, n + 1, n + k)
              /\ Live' = SubSeq(Live, (n + k) + 1, Len(Live))
              /\ \/ /\ op'[p].payloads = Names(k, popped') /\ Names(k, popped') \in Seq(Payloads)
                    /\ UNCHANGED answered
                 \/ /\ op'[p].payloads = <<>>
                    /\ answered' = [x \in Payloads |-> [answered[x] EXCEPT
                         !.left = @ + Cardinality({i \in 1..k : Names(k, popped')[i] = x})]]
  BY PopFacts
<1>3. PICK k \in 0..Len(Live) - n :
              /\ popped' = SubSeq(Live, n + 1, n + k)
              /\ Live' = SubSeq(Live, (n + k) + 1, Len(Live))
              /\ \/ /\ op'[p].payloads = Names(k, popped') /\ Names(k, popped') \in Seq(Payloads)
                    /\ UNCHANGED answered
                 \/ /\ op'[p].payloads = <<>>
                    /\ answered' = [x \in Payloads |-> [answered[x] EXCEPT
                         !.left = @ + Cardinality({i \in 1..k : Names(k, popped')[i] = x})]]
  BY <1>2
<1>4. Live \in Seq(Entry) /\ Apart(Live)
  BY CurrentFacts, PlaceTerms DEF Places, Typed
<1>5. PICK s \in Seq(Entry) : s = Live
  BY <1>4
<1>6. PICK b : b = popped'
  OBVIOUS
<1>7. PICK r : r = Live'
  OBVIOUS
<1>8. PICK names : names = Names(k, b)
  OBVIOUS
<1>9. /\ Apart(b) /\ Apart(r) /\ Len(b) = k
      /\ \A x : Carries(b, x) => Carries(s, x) /\ ~Carries(r, x)
      /\ \A x : Carries(r, x) => Carries(s, x)
  <2>1. n \in 0..Len(s)
    BY <1>5
  <2>2. k \in 0..Len(s) - n
    BY <1>5
  <2>3. Apart(s)
    BY <1>4, <1>5
  <2>4. b = Taken(s, n, k)
    BY <1>3, <1>5, <1>6 DEF Taken
  <2>5. r = Left(s, n, k)
    BY <1>3, <1>5, <1>7 DEF Left
  <2> QED
    BY <2>1, <2>2, <2>3, <2>4, <2>5, SplitApart
<1>10. /\ DOMAIN names = 1..k
       /\ \A i \in 1..k : names[i] = b[i].payload
       /\ \A i, j \in 1..k : names[i] = names[j] => i = j
       /\ \A x : Cardinality({i \in 1..k : names[i] = x}) = IF Carries(b, x) THEN 1 ELSE 0
  <2>1. k \in Nat
    BY <1>4
  <2> QED
    BY <1>8, <1>9, <2>1, NamesApart
<1>11. \A x : (Queued(x) <=> Carries(s, x))
  BY <1>5, PlaceTerms
<1>12. \A x : (Queued(x)' <=> Carries(r, x))
  BY <1>7, NextTerms
<1>13. CASE op'[p].payloads = names /\ names \in Seq(Payloads) /\ UNCHANGED answered
  <2>1. Len(names) = k
    BY <1>4, <1>10, <1>13
  <2>2. NoTwice(op'[p].payloads)
    BY <1>10, <1>13, <2>1 DEF NoTwice
  <2>3. \A x : Holds(p, x)' => Carries(b, x)
    BY <1>9, <1>10, <1>13, <2>1 DEF Holds, Carries
  <2>4. ASSUME NEW x \in Payloads PROVE Moves(p, x)
    <3>1. Holds(p, x)' => Queued(x) /\ ~Queued(x)'
      BY <1>9, <1>11, <1>12, <2>3
    <3>2. Queued(x)' => Queued(x)
      BY <1>9, <1>11, <1>12
    <3> QED
      BY <1>1, <1>13, <3>1, <3>2, SameOut DEF Moves, KeepsOut
  <2> QED
    BY <1>1, <1>7, <1>9, <2>2, <2>4, PlacesMoves
<1>14. CASE /\ op'[p].payloads = <<>>
            /\ answered' = [x \in Payloads |-> [answered[x] EXCEPT
                 !.left = @ + Cardinality({i \in 1..k : names[i] = x})]]
  <2>1. Len(<<>>) = 0
    OBVIOUS
  <2>2. NoTwice(op'[p].payloads) /\ \A x : ~Holds(p, x)'
    BY <1>14, <2>1 DEF NoTwice, Holds
  <2>3. ASSUME NEW x \in Payloads PROVE Moves(p, x)
    <3>1. Out(x)' = Out(x) + (IF Carries(b, x) THEN 1 ELSE 0) /\ Out(x) \in Int
      <4>1. PICK m \in Nat : m = IF Carries(b, x) THEN 1 ELSE 0
        OBVIOUS
      <4>2. answered[x] \in [left : Nat, failed : Nat]
        BY DEF Typed, AnsweredOK
      <4>3. /\ answered'[x].left = answered[x].left + m
            /\ answered'[x].failed = answered[x].failed
        BY <1>10, <1>14, <4>1, <4>2
      <4> QED
        BY <4>1, <4>2, <4>3 DEF Out
    <3>2. Queued(x)' => Queued(x)
      BY <1>9, <1>11, <1>12
    <3>3. CASE Carries(b, x)
      <4>1. Queued(x) /\ ~Queued(x)' /\ Out(x)' = Out(x) + 1
        BY <1>9, <1>11, <1>12, <3>1, <3>3
      <4> QED
        BY <1>1, <2>2, <4>1 DEF Moves
    <3>4. CASE ~Carries(b, x)
      <4>1. Out(x)' = Out(x)
        BY <3>1, <3>4
      <4> QED
        BY <1>1, <2>2, <3>2, <4>1 DEF Moves
    <3> QED
      BY <3>3, <3>4
  <2> QED
    BY <1>1, <1>7, <1>9, <2>2, <2>3, PlacesMoves
<1> QED
  BY <1>3, <1>6, <1>8, <1>13, <1>14

LEMMA PlacesClear ==
  ASSUME Typed, Places, NEW p \in Procs, Clear(p)
  PROVE  Places'
PROOF
<1>1. /\ Alone(p) /\ Live' = <<>> /\ UNCHANGED published /\ KeepsOut
      /\ op'[p].payloads = <<>> \/ op'[p].payloads = op[p].payloads
  BY ClearFacts, SameOut
<1>2. Len(<<>>) = 0 /\ Apart(<<>>) /\ NoTwice(<<>>)
  BY DEF Apart, NoTwice
<1>3. \A x : ~Queued(x)'
  BY <1>1, <1>2 DEF Queued
<1>4. NoTwice(op'[p].payloads)
  BY <1>1, <1>2, PlaceTerms DEF Places
<1>5. \A x : Holds(p, x)' => Holds(p, x)
  <2>1. CASE op'[p].payloads = <<>>
    BY <1>2, <2>1 DEF Holds
  <2>2. CASE op'[p].payloads = op[p].payloads
    BY <2>2 DEF Holds
  <2> QED
    BY <1>1, <2>1, <2>2
<1>6. \A x \in Payloads : Moves(p, x)
  BY <1>1, <1>3, <1>5 DEF Moves, KeepsOut
<1> QED
  BY <1>1, <1>2, <1>4, <1>6, PlacesMoves

LEMMA PlacesNext == Typed /\ Places /\ [Next]_vars => Places'
PROOF
<1> SUFFICES ASSUME Typed, Places, [Next]_vars PROVE Places'
  OBVIOUS
<1>1. ASSUME NEW p \in Procs, ProcStep(p) PROVE Places'
  <2>1. CASE CheckEnabled(p) \/ ReadClock(p)
    <3>1. Alone(p) /\ UNCHANGED <<Live, published>> /\ KeepsOut
      BY <2>1, CheckFacts, SameOut
    <3>2. \/ op'[p].payloads = op[p].payloads
          \/ op[p].payloads # <<>> /\ op'[p].payloads = Tail(op[p].payloads)
      BY <2>1, CheckFacts
    <3> QED
      BY <3>1, <3>2, HandFrame, PlacesFirst
  <2>2. CASE PublishToSubscribers(p)
    <3>1. Alone(p) /\ UNCHANGED <<Live, published>> /\ op[p].payloads # <<>>
      BY <2>2, PublishSteps
    <3>2. \/ op'[p].payloads = op[p].payloads /\ KeepsOut
          \/ /\ op'[p].payloads = Tail(op[p].payloads)
             /\ answered' = [answered EXCEPT ![Head(op[p].payloads)].left = @ + 1]
      BY <2>2, PublishSteps, SameOut
    <3> QED
      BY <3>1, <3>2, HandFrame, PlacesFirst
  <2>3. CASE Pushed(p) \/ PushFailed(p)
    <3>1. Alone(p) /\ UNCHANGED <<Live, published>> /\ op[p].payloads # <<>>
      BY <2>3, PushFacts
    <3>2. \/ op'[p].payloads = op[p].payloads /\ KeepsOut
          \/ /\ op'[p].payloads = Tail(op[p].payloads)
             /\ answered' = [answered EXCEPT ![Head(op[p].payloads)].left = @ + 1]
      BY <2>3, PushFacts
    <3> QED
      BY <3>1, <3>2, HandFrame, PlacesFirst
  <2>4. CASE StartPop(p) \/ SetEnabled(p) \/ CloseCleared(p)
    BY <2>4, StartFacts, CloseClearedFacts, SameOut, HandFrame
  <2> QED
    BY <1>1, <2>1, <2>2, <2>3, <2>4, PlacesHandle, PlacesAppend, PlacesPop, PlacesClear DEF ProcStep
<1>2. ASSUME UNCHANGED <<Live, op, answered, published>> PROVE Places'
  <2>1. Dispatcher \in Procs /\ Alone(Dispatcher)
    BY <1>2 DEF Procs, Alone
  <2> QED
    BY <1>2, <2>1, SameOut, HandFrame
<1>3. ASSUME NEW s \in Subscriptions, UserStep(s) PROVE UNCHANGED <<Live, op, answered, published>>
  BY <1>3, UserFacts
<1>4. CASE NotifyUsageRefresh \/ Tick \/ UNCHANGED vars
  BY <1>2, <1>4, NotifyFacts, TickFacts, StutterFacts
<1> QED
  BY <1>1, <1>2, <1>3, <1>4 DEF Next

LEMMA PlacesInit == Init => Places
PROOF
<1> SUFFICES ASSUME Init PROVE Places
  OBVIOUS
<1>1. Live = <<>> /\ Len(<<>>) = 0
  BY InitTyped
<1>2. \A p \in Procs : op[p].payloads = <<>>
  BY DEF Init, IdleOp
<1>3. QueueDistinct /\ HandDistinct /\ \A x : ~Queued(x) /\ \A p \in Procs : ~Holds(p, x)
  BY <1>1, <1>2 DEF QueueDistinct, HandDistinct, Queued, Holds
<1>4. \A x \in Payloads : Out(x) = 0
  BY DEF Init, Out
<1> QED
  BY <1>3, <1>4 DEF Places, OnePlace

\* Popped, sent to home, put back after a failure, published to subscribers or
\* thrown away while the queue is off: a payload leaves once, and once more only
\* for each failed push that home had stored.
THEOREM LeavesAgainOnlyUnconfirmed == Spec => []RepeatedOnlyUnconfirmed
PROOF
<1>1. Typed /\ Places => RepeatedOnlyUnconfirmed
  <2> SUFFICES ASSUME Typed, Places, NEW x \in Payloads
               PROVE  answered[x].left <= 1 + answered[x].failed
    BY DEF RepeatedOnlyUnconfirmed
  <2>1. answered[x].left \in Nat /\ answered[x].failed \in Nat
    BY DEF Typed, AnsweredOK
  <2>2. Out(x) = 0 \/ Out(x) = 1
    BY DEF Places, OnePlace
  <2> QED
    BY <2>1, <2>2 DEF Out
<1> QED
  BY <1>1, PlacesInit, PlacesNext, TypedInvariance, PTL DEF Spec

-----------------------------------------------------------------------------
(***************************************************************************)
(* A queue that is off.                                                    *)
(***************************************************************************)
EnqueueSteps == {"flag", "publish", "clock", "append", "push"}
LetSteps == {"publish", "clock", "append"}

LEMMA OnlyEnqueuersNext == Typed /\ OnlyEnqueuers /\ [Next]_vars => OnlyEnqueuers'
PROOF
<1> SUFFICES ASSUME Typed, OnlyEnqueuers, [Next]_vars PROVE OnlyEnqueuers'
  OBVIOUS
<1>1. ASSUME NEW p \in Procs, ProcStep(p) PROVE OnlyEnqueuers'
  <2>1. /\ op'[p].at \in EnqueueSteps => op[p].at \in EnqueueSteps \/ p \in Enqueuers
        /\ op'[p].at = "clear" => p \in Toggles
    <3>1. CASE HandleUsage(p)
      <4>1. p = Dispatcher /\ op'[p].at = "flag"
        BY <3>1, HandleFacts DEF HandleUsage
      <4> QED
        BY <4>1 DEF Enqueuers
    <3>2. CASE CheckEnabled(p) \/ ReadClock(p)
      BY <3>2, CheckFacts DEF EnqueueSteps
    <3>3. CASE PublishToSubscribers(p)
      BY <3>3, PublishSteps DEF EnqueueSteps
    <3>4. CASE AppendItem(p)
      BY <3>4, AppendFacts DEF EnqueueSteps
    <3>5. CASE StartPop(p) \/ SetEnabled(p)
      BY <3>5, StartFacts DEF EnqueueSteps
    <3>6. CASE PopOldest(p)
      <4>1. (p \in Forwarders /\ op'[p].at = "push") \/ op'[p].at = "idle"
        BY <3>6, PopFacts
      <4> QED
        BY <4>1 DEF EnqueueSteps, Enqueuers
    <3>7. CASE Pushed(p) \/ PushFailed(p)
      BY <3>7, PushFacts DEF EnqueueSteps
    <3>8. CASE Clear(p) \/ CloseCleared(p)
      BY <3>8, ClearFacts, CloseClearedFacts DEF EnqueueSteps
    <3> QED
      BY <1>1, <3>1, <3>2, <3>3, <3>4, <3>5, <3>6, <3>7, <3>8 DEF ProcStep
  <2>2. Alone(p)
    BY <1>1, HandleFacts, CheckFacts, PublishSteps, AppendFacts, StartFacts, PopFacts, PushFacts,
       ClearFacts, CloseClearedFacts DEF ProcStep
  <2> QED
    BY <2>1, <2>2 DEF OnlyEnqueuers, EnqueueSteps, Alone
<1>2. ASSUME UNCHANGED op PROVE OnlyEnqueuers'
  BY <1>2 DEF OnlyEnqueuers
<1>3. ASSUME NEW s \in Subscriptions, UserStep(s) PROVE UNCHANGED op
  BY <1>3, UserFacts
<1>4. CASE NotifyUsageRefresh \/ Tick \/ UNCHANGED vars
  BY <1>2, <1>4, NotifyFacts, TickFacts, StutterFacts
<1> QED
  BY <1>1, <1>2, <1>3, <1>4 DEF Next

LEMMA LiveTyped == Typed => Live \in Seq(Entry)
PROOF BY CurrentFacts DEF Typed

LEMMA LiveTypedNext == Typed' => Live' \in Seq(Entry)
PROOF
<1>1. (Typed => Live \in Seq(Entry))'
  BY LiveTyped, PTL
<1> QED
  BY <1>1 DEF Entry, Payloads

LEMMA LetThroughFinite ==
  ASSUME OnlyEnqueuers
  PROVE  /\ IsFiniteSet(Enqueuers) /\ Cardinality(Enqueuers) \in Nat
         /\ LetThrough \subseteq Enqueuers /\ IsFiniteSet(LetThrough)
         /\ Cardinality(LetThrough) \in Nat /\ Cardinality(LetThrough) <= Cardinality(Enqueuers)
PROOF
<1>1. IsFiniteSet(Enqueuers)
  BY QueueAssumption, FS_Singleton, FS_Union DEF Enqueuers
<1>2. LetThrough \subseteq Enqueuers
  BY DEF LetThrough, OnlyEnqueuers
<1> QED
  BY <1>1, <1>2, FS_Subset, FS_CardinalityType

\* A step that lets nobody through and adds nothing to the queue.
LEMMA OffFrame ==
  ASSUME Typed, Typed', OnlyEnqueuers, OffBounded, NEW p \in Procs, Alone(p), UNCHANGED enabled,
         op[p].at # "clear", op'[p].at \in LetSteps => op[p].at \in LetSteps,
         Len(Live') <= Len(Live)
  PROVE  OffBounded'
PROOF
<1> SUFFICES ASSUME ~enabled', \A q \in Procs : op'[q].at # "clear"
             PROVE  Len(Live') + Cardinality(LetThrough') <= Cardinality(Enqueuers)
  BY DEF OffBounded, Enqueuers
<1>1. ~enabled /\ \A q \in Procs : op[q].at # "clear"
  BY DEF Alone
<1>2. Len(Live) + Cardinality(LetThrough) <= Cardinality(Enqueuers)
  BY <1>1 DEF OffBounded
<1>3. LetThrough' \subseteq LetThrough
  BY DEF LetThrough, LetSteps, Alone
<1>4. PICK L : L = LetThrough
  OBVIOUS
<1>5. PICK M : M = LetThrough'
  OBVIOUS
<1>6. IsFiniteSet(L) /\ M \subseteq L /\ Cardinality(L) \in Nat /\ Cardinality(Enqueuers) \in Nat
  BY <1>3, <1>4, <1>5, LetThroughFinite
<1>7. Cardinality(M) <= Cardinality(L) /\ Cardinality(M) \in Nat
  BY <1>6, FS_Subset, FS_CardinalityType
<1>8. Len(Live) \in Nat /\ Len(Live') \in Nat
  <2>1. Live \in Seq(Entry) /\ Live' \in Seq(Entry)
    BY LiveTyped, LiveTypedNext
  <2> QED
    BY <2>1
<1> QED
  BY <1>2, <1>4, <1>5, <1>6, <1>7, <1>8

\* A payload that was let through goes into the queue.
LEMMA OffAppend ==
  ASSUME Typed, OnlyEnqueuers, OffBounded, NEW p \in Procs, AppendItem(p)
  PROVE  OffBounded'
PROOF
<1> SUFFICES ASSUME ~enabled', \A q \in Procs : op'[q].at # "clear"
             PROVE  Len(Live') + Cardinality(LetThrough') <= Cardinality(Enqueuers)
  BY DEF OffBounded, Enqueuers
<1>1. /\ Alone(p) /\ UNCHANGED enabled /\ op[p].at = "append" /\ op'[p].at \in {"idle", "flag"}
  BY AppendFacts
<1>2. PICK n \in 0..Len(Live), e \in Entry : Live' = Append(SubSeq(Live, n + 1, Len(Live)), e)
  BY AppendFacts
<1>3. Live \in Seq(Entry)
  BY CurrentFacts DEF Typed
<1>4. Len(Live') <= Len(Live) + 1 /\ Len(Live) \in Nat /\ Len(Live') \in Nat
  <2>1. PICK r \in Seq(Entry) : r = SubSeq(Live, n + 1, Len(Live)) /\ Len(r) = Len(Live) - n
    BY <1>3, SuffixFacts
  <2>2. Live' = Append(r, e) /\ Len(Append(r, e)) = Len(r) + 1
    BY <1>2, <2>1, AppendProperties
  <2> QED
    BY <1>3, <2>1, <2>2
<1>5. ~enabled /\ \A q \in Procs : op[q].at # "clear"
  BY <1>1 DEF Alone
<1>6. Len(Live) + Cardinality(LetThrough) <= Cardinality(Enqueuers)
  BY <1>5 DEF OffBounded
<1>7. p \in LetThrough /\ LetThrough' = LetThrough \ {p}
  BY <1>1 DEF LetThrough, Alone
<1>8. PICK L : L = LetThrough
  OBVIOUS
<1>9. PICK M : M = LetThrough'
  OBVIOUS
<1>10. IsFiniteSet(L) /\ p \in L /\ M = L \ {p} /\ Cardinality(L) \in Nat
       /\ Cardinality(Enqueuers) \in Nat
  BY <1>7, <1>8, <1>9, LetThroughFinite
<1>11. Cardinality(M) = Cardinality(L) - 1
  BY <1>10, FS_RemoveElement
<1> QED
  BY <1>4, <1>6, <1>8, <1>9, <1>10, <1>11

LEMMA OffClear ==
  ASSUME Typed, OnlyEnqueuers', NEW p \in Procs, Clear(p)
  PROVE  OffBounded'
PROOF
<1>1. PICK M : M = LetThrough'
  OBVIOUS
<1>2. IsFiniteSet(Enqueuers) /\ Cardinality(Enqueuers) \in Nat
  <2>1. IsFiniteSet(Enqueuers)
    BY QueueAssumption, FS_Singleton, FS_Union DEF Enqueuers
  <2> QED
    BY <2>1, FS_CardinalityType
<1>3. M \subseteq Enqueuers
  BY <1>1 DEF LetThrough, OnlyEnqueuers
<1>4. Cardinality(M) <= Cardinality(Enqueuers) /\ Cardinality(M) \in Nat
  BY <1>2, <1>3, FS_Subset, FS_CardinalityType
<1>5. Live' = <<>> /\ Len(<<>>) = 0
  BY ClearFacts
<1>6. Len(Live') + Cardinality(LetThrough') <= Cardinality(Enqueuers)
  BY <1>1, <1>2, <1>4, <1>5
<1> QED
  BY <1>6 DEF OffBounded, Enqueuers

LEMMA OffNext == Typed /\ OnlyEnqueuers /\ OffBounded /\ [Next]_vars => OffBounded'
PROOF
<1> SUFFICES ASSUME Typed, OnlyEnqueuers, OffBounded, [Next]_vars PROVE OffBounded'
  OBVIOUS
<1>a. Typed' /\ OnlyEnqueuers'
  BY TypedNext, OnlyEnqueuersNext
<1>b. Live \in Seq(Entry) /\ Len(Live) \in Nat
  <2>1. Live \in Seq(Entry)
    BY CurrentFacts DEF Typed
  <2> QED
    BY <2>1
<1>1. ASSUME NEW p \in Procs, ProcStep(p) PROVE OffBounded'
  <2>1. CASE enabled'
    BY <2>1 DEF OffBounded
  <2>2. CASE op'[p].at = "clear"
    BY <2>2 DEF OffBounded
  <2>3. CASE HandleUsage(p) \/ StartPop(p) \/ SetEnabled(p)
    <3>1. enabled' \/ op'[p].at = "clear"
      <4>1. CASE HandleUsage(p) \/ StartPop(p)
        BY <4>1 DEF HandleUsage, StartPop
      <4>2. CASE SetEnabled(p)
        BY <4>2 DEF SetEnabled, Typed, OpOK, Ops
      <4> QED
        BY <2>3, <4>1, <4>2
    <3> QED
      BY <2>1, <2>2, <3>1
  <2>4. CASE CheckEnabled(p) \/ ReadClock(p)
    <3>1. Alone(p) /\ UNCHANGED <<Live, enabled>> /\ op[p].at \in {"flag", "clock"}
      BY <2>4, CheckFacts
    <3>2. enabled' \/ (op'[p].at \in LetSteps => op[p].at \in LetSteps)
      BY <2>4, CheckFacts DEF LetSteps
    <3> QED
      BY <1>a, <1>b, <2>1, <3>1, <3>2, OffFrame
  <2>5. CASE PublishToSubscribers(p) \/ Pushed(p) \/ PushFailed(p) \/ CloseCleared(p)
    <3>1. Alone(p) /\ UNCHANGED <<Live, enabled>>
      BY <2>5, PublishSteps, PushFacts, CloseClearedFacts
    <3>2. /\ op[p].at # "clear"
          /\ op'[p].at \in LetSteps => op[p].at \in LetSteps
      BY <2>5, PublishSteps, PushFacts, CloseClearedFacts DEF LetSteps
    <3> QED
      BY <1>a, <1>b, <3>1, <3>2, OffFrame
  <2>6. CASE PopOldest(p)
    <3>1. Alone(p) /\ UNCHANGED enabled /\ op[p].at = "pop" /\ op'[p].at \in {"push", "idle"}
      BY <2>6, PopFacts
    <3>2. PICK n \in 0..Len(Live) : \E k \in 0..Len(Live) - n :
            Live' = SubSeq(Live, (n + k) + 1, Len(Live))
      BY <2>6, PopFacts
    <3>3. PICK k \in 0..Len(Live) - n : Live' = SubSeq(Live, (n + k) + 1, Len(Live))
      BY <3>2
    <3>4. PICK m \in 0..Len(Live) : m = n + k
      BY <1>b
    <3>5. Live' = SubSeq(Live, m + 1, Len(Live))
      BY <3>3, <3>4
    <3>6. Len(SubSeq(Live, m + 1, Len(Live))) = Len(Live) - m
      BY <1>b, SuffixFacts
    <3>7. Len(Live') <= Len(Live)
      BY <1>b, <3>5, <3>6
    <3> QED
      BY <1>a, <3>1, <3>7, OffFrame DEF LetSteps
  <2> QED
    BY <1>1, <1>a, <2>3, <2>4, <2>5, <2>6, OffAppend, OffClear DEF ProcStep
<1>2. ASSUME UNCHANGED <<Live, op, enabled>> PROVE OffBounded'
  <2>1. UNCHANGED LetThrough
    BY <1>2 DEF LetThrough
  <2> QED
    BY <1>2, <2>1 DEF OffBounded, Enqueuers
<1>3. ASSUME NEW s \in Subscriptions, UserStep(s) PROVE UNCHANGED <<Live, op, enabled>>
  BY <1>3, UserFacts
<1>4. CASE NotifyUsageRefresh \/ Tick \/ UNCHANGED vars
  BY <1>2, <1>4, NotifyFacts, TickFacts, StutterFacts
<1> QED
  BY <1>1, <1>2, <1>3, <1>4 DEF Next

\* When the queue is off and cleared, what is in it was let through by an
\* enqueuer that had passed the flag: one payload for each.
THEOREM OffHolds == Spec => []OffHoldsLittle
PROOF
<1>1. Init => OnlyEnqueuers /\ OffBounded
  BY DEF Init, IdleOp, OnlyEnqueuers, OffBounded
<1>2. Typed /\ OnlyEnqueuers /\ OffBounded => OffHoldsLittle
  <2> SUFFICES ASSUME Typed, OnlyEnqueuers, OffBounded, ~enabled, \A p \in Toggles : ~At(p, "clear")
               PROVE  Len(Live) <= Cardinality({Dispatcher} \cup Forwarders)
    BY DEF OffHoldsLittle
  <2>1. \A p \in Procs : op[p].at # "clear"
    BY DEF OnlyEnqueuers, At
  <2>2. Len(Live) + Cardinality(LetThrough) <= Cardinality(Enqueuers)
    BY <2>1 DEF OffBounded
  <2>3. Len(Live) \in Nat
    <3>1. Live \in Seq(Entry)
      BY CurrentFacts DEF Typed
    <3> QED
      BY <3>1
  <2>4. Len(Live) <= Cardinality(Enqueuers)
    BY <2>2, <2>3, LetThroughFinite
  <2> QED
    BY <2>4 DEF Enqueuers
<1> QED
  BY <1>1, <1>2, TypedInvariance, OnlyEnqueuersNext, OffNext, PTL DEF Spec
=============================================================================
