--------------------------- MODULE DispatchProofs ---------------------------
(***************************************************************************)
(* Proofs about requests on their way over the credentials, for any        *)
(* credentials, providers, priorities, parents, failures and limits: what  *)
(* the scheduler chooses is a ready credential that the request has not    *)
(* tried, whatever its cursors and however its buckets have changed;       *)
(* credentials and providers take turns in spite of that; a wait ends with *)
(* a credential to try; each call is recorded once, their number is        *)
(* bounded, and no stream is continued by another.                         *)
(***************************************************************************)
EXTENDS Dispatch, FiniteSetTheorems, NaturalsInduction, WellFoundedInduction, TLAPS
-----------------------------------------------------------------------------
(***************************************************************************)
(* Arithmetic, and least members.                                          *)
(***************************************************************************)
LEMMA LeastNumber ==
  ASSUME NEW T \in SUBSET Nat, T # {}
  PROVE  \E x \in T : \A y \in T : x <= y
PROOF
<1> DEFINE R == OpToRel(<, Nat)
<1>1. \A x, y \in Nat : <<y, x>> \in R <=> y < x
  BY DEF OpToRel
<1>2. IsWellFoundedOn(R, Nat)
  BY NatLessThanWellFounded
<1> HIDE DEF R
<1>3. PICK x \in T : \A y \in T : ~ (<<y, x>> \in R)
  BY <1>2, WFMin
<1>4. x \in Nat /\ \A y \in T : y \in Nat /\ ~ (y < x)
  BY <1>1, <1>3
<1> QED
  BY <1>3, <1>4

LEMMA MinFacts ==
  ASSUME NEW T \in SUBSET Nat, T # {}
  PROVE  Min(T) \in T /\ \A x \in T : Min(T) <= x
PROOF BY LeastNumber DEF Min

LEMMA ModFacts ==
  ASSUME NEW n \in Nat \ {0}, NEW x \in Int
  PROVE  /\ x % n \in 0..n - 1
         /\ x \in 0..n - 1 => x % n = x
         /\ x \in n..(2 * n) - 1 => x % n = x - n
PROOF
<1>1. x % n \in 0..n - 1
  OBVIOUS
<1>2. ASSUME x \in 0..n - 1 PROVE x % n = x
  BY <1>2
<1>3. ASSUME x \in n..(2 * n) - 1 PROVE x % n = x - n
  BY <1>3
<1> QED
  BY <1>1, <1>2, <1>3

-----------------------------------------------------------------------------
(***************************************************************************)
(* Sets in order.                                                          *)
(***************************************************************************)
IsOrder(seq, S) ==
  /\ seq \in [1..Cardinality(S) -> S]
  /\ \A i, j \in 1..Cardinality(S) : i < j => seq[i] < seq[j]

\* The least member, followed by the others in order.
LEMMA OrderExists ==
  ASSUME NEW S \in SUBSET Nat, IsFiniteSet(S)
  PROVE  \E seq : IsOrder(seq, S)
PROOF
<1> DEFINE Bad == {n \in Nat : \E T \in SUBSET Nat :
                     /\ IsFiniteSet(T) /\ Cardinality(T) = n
                     /\ \A seq : ~IsOrder(seq, T)}
<1>1. ASSUME Bad # {} PROVE FALSE
  <2>1. Bad \in SUBSET Nat
    OBVIOUS
  <2>2. PICK n \in Bad : \A k \in Bad : n <= k
    BY <1>1, <2>1, LeastNumber
  <2>3. PICK T \in SUBSET Nat :
              /\ IsFiniteSet(T) /\ Cardinality(T) = n
              /\ \A seq : ~IsOrder(seq, T)
    BY <2>2
  <2>4. n \in Nat
    BY <2>2
  <2>5. CASE T = {}
    <3>1. Cardinality(T) = 0
      BY <2>5, FS_EmptySet
    <3>2. IsOrder([i \in 1..0 |-> 0], T)
      BY <2>5, <3>1 DEF IsOrder
    <3> QED
      BY <2>3, <3>2
  <2>6. CASE T # {}
    <3>1. PICK m \in T : \A x \in T : m <= x
      BY <2>6, LeastNumber
    <3> DEFINE U == T \ {m}
    <3>2. IsFiniteSet(U) /\ Cardinality(U) = n - 1 /\ n - 1 \in Nat
      <4>1. IsFiniteSet(U) /\ Cardinality(U) = n - 1
        BY <2>3, <3>1, FS_RemoveElement
      <4>2. Cardinality(U) \in Nat
        BY <4>1, FS_CardinalityType
      <4> QED
        BY <4>1, <4>2
    <3>3. n - 1 \notin Bad
      BY <2>2, <2>4
    <3>4. PICK seq : IsOrder(seq, U)
      <4>1. U \in SUBSET Nat
        OBVIOUS
      <4> HIDE DEF U
      <4> QED
        BY <3>2, <3>3, <4>1
    <3> DEFINE more == [i \in 1..n |-> IF i = 1 THEN m ELSE seq[i - 1]]
    <3>5. \A i \in 1..n : i # 1 => i - 1 \in 1..Cardinality(U) /\ more[i] = seq[i - 1]
      BY <2>4, <3>2
    <3>6. \A i \in 1..n : i # 1 => more[i] \in U
      BY <3>4, <3>5 DEF IsOrder
    <3>7. \A i \in 1..n : i = 1 => more[i] = m
      OBVIOUS
    <3>8. more \in [1..n -> T]
      BY <3>1, <3>6, <3>7
    <3>9. ASSUME NEW i \in 1..n, NEW j \in 1..n, i < j PROVE more[i] < more[j]
      <4>1. j # 1 /\ more[j] \in U
        BY <3>6, <3>9, <2>4
      <4>2. CASE i = 1
        <5>1. more[i] = m /\ more[j] \in Nat /\ m \in Nat /\ more[j] # m /\ m <= more[j]
          BY <3>1, <3>7, <4>1, <4>2
        <5> HIDE DEF more
        <5> QED
          BY <5>1
      <4>3. CASE i # 1
        <5>1. i - 1 \in 1..Cardinality(U) /\ j - 1 \in 1..Cardinality(U) /\ i - 1 < j - 1
              /\ more[i] = seq[i - 1] /\ more[j] = seq[j - 1]
          BY <2>4, <3>5, <3>9, <4>1, <4>3
        <5> HIDE DEF more, U
        <5> QED
          BY <3>4, <5>1 DEF IsOrder
      <4> QED
        BY <4>2, <4>3
    <3>10. IsOrder(more, T)
      <4> HIDE DEF more
      <4> QED
        BY <2>3, <3>8, <3>9 DEF IsOrder
    <3> QED
      BY <2>3, <3>10
  <2> QED
    BY <2>5, <2>6
<1>2. Cardinality(S) \in Nat
  BY FS_CardinalityType
<1> QED
  BY <1>1, <1>2

\* Ordered lists every member once, in order.
LEMMA OrderedFacts ==
  ASSUME NEW S \in SUBSET Nat, IsFiniteSet(S), NEW n, n = Cardinality(S), NEW s, s = Ordered(S)
  PROVE  /\ n \in Nat /\ s \in [1..n -> S] /\ Len(s) = n
         /\ \A i, j \in 1..n : i < j => s[i] < s[j]
         /\ \A x \in S : \E i \in 1..n : s[i] = x
PROOF
<1>1. n \in Nat
  BY FS_CardinalityType
<1>2. PICK seq : IsOrder(seq, S)
  BY OrderExists
<1>3. /\ s \in [1..n -> S]
      /\ \A i, j \in 1..n : i < j => s[i] < s[j]
  <2>1. \E t \in [1..n -> S] : \A i, j \in 1..n : i < j => t[i] < t[j]
    BY <1>2 DEF IsOrder
  <2>2. s = CHOOSE t \in [1..n -> S] : \A i, j \in 1..n : i < j => t[i] < t[j]
    BY DEF Ordered
  <2> QED
    BY <2>1, <2>2
<1>4. Len(s) = n
  BY <1>1, <1>3
<1>5. s \in Injection(1..n, S)
  <2>1. ASSUME NEW i \in 1..n, NEW j \in 1..n, s[i] = s[j] PROVE i = j
    <3>1. s[i] \in Nat /\ s[j] \in Nat
      BY <1>3
    <3>2. ~(i < j) /\ ~(j < i)
      BY <1>3, <2>1, <3>1
    <3> QED
      BY <1>1, <3>2
  <2> QED
    BY <1>3, <2>1 DEF Injection, IsInjective
<1>6. s \in Surjection(1..n, S)
  <2>1. Cardinality(1..n) = n
    BY <1>1, FS_Interval
  <2> QED
    BY <1>5, <2>1, FS_Injection
<1> QED
  BY <1>1, <1>3, <1>4, <1>6 DEF Surjection

LEMMA MaxFacts ==
  ASSUME NEW S \in SUBSET Nat, IsFiniteSet(S), S # {}
  PROVE  Max(S) \in S /\ \A x \in S : x <= Max(S)
PROOF
<1> DEFINE n == Cardinality(S)
           s == Ordered(S)
<1>1. /\ n \in Nat /\ s \in [1..n -> S]
      /\ \A i, j \in 1..n : i < j => s[i] < s[j]
      /\ \A x \in S : \E i \in 1..n : s[i] = x
  <2> HIDE DEF n, s
  <2> QED
    BY OrderedFacts DEF n, s
<1> HIDE DEF n, s
<1>2. n \in 1..n
  <2>1. PICK x \in S : TRUE
    OBVIOUS
  <2>2. PICK i \in 1..n : s[i] = x
    BY <1>1, <2>1
  <2> QED
    BY <1>1, <2>2
<1>3. s[n] \in S
  BY <1>1, <1>2
<1>4. ASSUME NEW x \in S PROVE x <= s[n]
  <2>1. PICK i \in 1..n : s[i] = x
    BY <1>1
  <2>2. CASE i = n
    BY <1>3, <2>1, <2>2
  <2>3. CASE i < n
    <3>1. s[i] < s[n]
      BY <1>1, <1>2, <2>3
    <3>2. x \in Nat /\ s[n] \in Nat
      BY <1>3
    <3> QED
      BY <2>1, <3>1, <3>2
  <2> QED
    BY <1>1, <2>2, <2>3
<1>5. \E x \in S : \A y \in S : x >= y
  BY <1>3, <1>4
<1>6. Max(S) \in S /\ \A y \in S : Max(S) >= y
  BY <1>5 DEF Max
<1> QED
  BY <1>6

-----------------------------------------------------------------------------
(***************************************************************************)
(* Searches and choices.                                                   *)
(***************************************************************************)
\* A search that has something to find finds it, wherever it starts.
LEMMA FoundFacts ==
  ASSUME NEW n \in Nat, NEW s, Len(s) = n, NEW cursor \in 0..n, NEW wanted,
         \E i \in 1..n : s[i] \in wanted
  PROVE  /\ Found(s, cursor, wanted) \in 0..n - 1
         /\ s[Found(s, cursor, wanted) + 1] \in wanted
PROOF
<1> DEFINE Index(offset) == (cursor + offset) % n
           offsets == {o \in 0..(n - 1) : s[Index(o) + 1] \in wanted}
<1>1. PICK i \in 1..n : s[i] \in wanted
  OBVIOUS
<1>2. n \in Nat \ {0}
  BY <1>1
<1>3. \A o \in 0..n - 1 : Index(o) \in 0..n - 1
  <2> TAKE o \in 0..n - 1
  <2>1. cursor + o \in Int
    OBVIOUS
  <2> QED
    BY <1>2, <2>1, ModFacts
<1>4. offsets # {}
  <2> DEFINE o == IF i - 1 >= cursor THEN (i - 1) - cursor ELSE ((i - 1) - cursor) + n
  <2>1. o \in 0..n - 1
    BY <1>2
  <2>2. Index(o) = i - 1
    <3>1. CASE i - 1 >= cursor
      <4>1. cursor + o = i - 1 /\ cursor + o \in 0..n - 1 /\ cursor + o \in Int
        BY <1>2, <3>1
      <4> HIDE DEF o
      <4> QED
        BY <1>2, <4>1, ModFacts
    <3>2. CASE ~(i - 1 >= cursor)
      <4>1. /\ cursor + o = (i - 1) + n /\ cursor + o \in n..(2 * n) - 1 /\ cursor + o \in Int
            /\ (cursor + o) - n = i - 1
        BY <1>2, <3>2
      <4> HIDE DEF o
      <4> QED
        BY <1>2, <4>1, ModFacts
    <3> QED
      BY <3>1, <3>2
  <2>3. Index(o) + 1 = i
    BY <2>2
  <2> HIDE DEF o, Index
  <2>4. o \in offsets
    BY <1>1, <2>1, <2>3
  <2> QED
    BY <2>4
<1>5. offsets \in SUBSET Nat
  OBVIOUS
<1>6. Min(offsets) \in offsets
  <2> HIDE DEF offsets
  <2> QED
    BY <1>4, <1>5, MinFacts
<1>7. Found(s, cursor, wanted) = Index(Min(offsets))
  BY DEF Found
<1> HIDE DEF Index
<1> QED
  BY <1>3, <1>6, <1>7

\* Sets of credentials, and of their priorities and parents, are finite.
LEMMA Finite ==
  ASSUME NEW S \in SUBSET Auths
  PROVE  /\ S \in SUBSET Nat /\ IsFiniteSet(S) /\ Cardinality(S) \in Nat
         /\ Cardinality(S) <= Cardinality(Auths) /\ Cardinality(Auths) \in Nat
         /\ S # {} => Cardinality(S) >= 1
         /\ {Priority[a] : a \in S} \in SUBSET Nat /\ IsFiniteSet({Priority[a] : a \in S})
         /\ ParentsOf(S) \in SUBSET Nat /\ IsFiniteSet(ParentsOf(S))
         /\ Cardinality(ParentsOf(S)) \in Nat /\ ParentsOf(S) \subseteq Parents
PROOF
<1>1. IsFiniteSet(Auths) /\ Auths \subseteq Nat /\ Priority \in [Auths -> Nat]
      /\ Parent \in [Auths -> Nat]
  BY RotationAssumption
<1>2. IsFiniteSet(S) /\ Cardinality(S) <= Cardinality(Auths)
  BY <1>1, FS_Subset
<1>3. Cardinality(S) \in Nat /\ Cardinality(Auths) \in Nat
  BY <1>1, <1>2, FS_CardinalityType
<1>4. S # {} => Cardinality(S) >= 1
  BY <1>2, <1>3, FS_EmptySet
<1> DEFINE P == {Priority[a] : a \in S}
           Q == {Parent[a] : a \in S}
           f == [a \in S |-> Priority[a]]
           g == [a \in S |-> Parent[a]]
<1>5. IsFiniteSet(P)
  <2>1. f \in Surjection(S, P)
    BY DEF Surjection
  <2> HIDE DEF f, P
  <2> QED
    BY <1>2, <2>1, FS_Surjection
<1>6. IsFiniteSet(Q)
  <2>1. g \in Surjection(S, Q)
    BY DEF Surjection
  <2> HIDE DEF g, Q
  <2> QED
    BY <1>2, <2>1, FS_Surjection
<1>7. Cardinality(Q) \in Nat
  <2> HIDE DEF Q
  <2> QED
    BY <1>6, FS_CardinalityType
<1> QED
  BY <1>1, <1>2, <1>3, <1>4, <1>5, <1>6, <1>7 DEF ParentsOf, Parents

\* The cursors of a view point at a member of its bucket, or one past the last.
ViewOK(view, bucket) ==
  /\ view \in [cursor : Nat, parent : Nat, child : [Parents -> Nat]]
  /\ view.cursor <= Cardinality(bucket)
  /\ view.parent <= Cardinality(ParentsOf(bucket))
  /\ \A q \in Parents : view.child[q] <= Cardinality(Children(bucket, q))

LEMMA PickFirstFacts ==
  ASSUME NEW bucket \in SUBSET Auths, NEW eligible, bucket \cap eligible # {}
  PROVE  PickFirst(bucket, eligible) \in bucket \cap eligible
PROOF
<1>1. bucket \cap eligible \in SUBSET Nat
  BY Finite
<1> QED
  BY <1>1, MinFacts DEF PickFirst

\* One search in an ordered set.
LEMMA SearchFacts ==
  ASSUME NEW S \in SUBSET Nat, IsFiniteSet(S), NEW cursor \in Nat, cursor <= Cardinality(S),
         NEW wanted, S \cap wanted # {}, NEW i, i = Found(Ordered(S), cursor, wanted)
  PROVE  i \in Nat /\ i + 1 <= Cardinality(S) /\ Ordered(S)[i + 1] \in S \cap wanted
PROOF
<1> DEFINE n == Cardinality(S)
           s == Ordered(S)
<1>1. /\ n \in Nat /\ s \in [1..n -> S] /\ Len(s) = n
      /\ \A x \in S : \E j \in 1..n : s[j] = x
  <2> HIDE DEF n, s
  <2> QED
    BY OrderedFacts DEF n, s
<1>2. i = Found(s, cursor, wanted) /\ cursor <= n
  OBVIOUS
<1> HIDE DEF n, s
<1>3. cursor \in 0..n /\ \E j \in 1..n : s[j] \in wanted
  <2>1. PICK x \in S : x \in wanted
    OBVIOUS
  <2>2. PICK j \in 1..n : s[j] = x
    BY <1>1
  <2> QED
    BY <1>1, <1>2, <2>1, <2>2
<1>4. i \in 0..n - 1 /\ s[i + 1] \in wanted
  BY <1>1, <1>2, <1>3, FoundFacts
<1>5. i + 1 \in 1..n
  BY <1>1, <1>4
<1> QED
  BY <1>1, <1>4, <1>5 DEF n, s

LEMMA PickRoundRobinFacts ==
  ASSUME NEW bucket \in SUBSET Auths, NEW view, ViewOK(view, bucket), NEW eligible,
         bucket \cap eligible # {}, NEW got, got = PickRoundRobin(bucket, view, eligible)
  PROVE  got.auth \in bucket \cap eligible /\ ViewOK(got.view, bucket)
PROOF
<1>1. CASE ~Grouped(bucket)
  <2> DEFINE i == Found(Ordered(bucket), view.cursor, eligible)
  <2>1. got = [auth |-> Ordered(bucket)[i + 1], view |-> [view EXCEPT !.cursor = i + 1]]
    BY <1>1 DEF PickRoundRobin
  <2>2. i \in Nat /\ i + 1 <= Cardinality(bucket) /\ Ordered(bucket)[i + 1] \in bucket \cap eligible
    <3>1. view.cursor \in Nat /\ view.cursor <= Cardinality(bucket)
      BY DEF ViewOK
    <3>2. bucket \in SUBSET Nat /\ IsFiniteSet(bucket)
      BY Finite
    <3> QED
      BY <3>1, <3>2, SearchFacts
  <2> HIDE DEF i
  <2> QED
    BY <2>1, <2>2 DEF ViewOK
<1>2. CASE Grouped(bucket)
  <2> DEFINE wanted == {r \in ParentsOf(bucket) : Children(bucket, r) \cap eligible # {}}
             j == Found(Ordered(ParentsOf(bucket)), view.parent, wanted)
             q == Ordered(ParentsOf(bucket))[j + 1]
             i == Found(Ordered(Children(bucket, q)), view.child[q], eligible)
  <2>1. got = [auth |-> Ordered(Children(bucket, q))[i + 1],
               view |-> [view EXCEPT !.parent = j + 1, !.child[q] = i + 1]]
    BY <1>2 DEF PickRoundRobin
  <2>2. j \in Nat /\ j + 1 <= Cardinality(ParentsOf(bucket)) /\ q \in ParentsOf(bucket) \cap wanted
    <3>1. view.parent \in Nat /\ view.parent <= Cardinality(ParentsOf(bucket))
      BY DEF ViewOK
    <3>2. ParentsOf(bucket) \in SUBSET Nat /\ IsFiniteSet(ParentsOf(bucket))
      BY Finite
    <3>3. ParentsOf(bucket) \cap wanted # {}
      BY DEF ParentsOf, Children
    <3> HIDE DEF wanted
    <3> QED
      BY <3>1, <3>2, <3>3, SearchFacts
  <2>3. q \in Parents /\ Children(bucket, q) \cap eligible # {}
    BY <2>2, Finite
  <2> HIDE DEF q, j
  <2>4. Children(bucket, q) \in SUBSET Auths /\ Children(bucket, q) \subseteq bucket
    BY DEF Children
  <2>5. i \in Nat /\ i + 1 <= Cardinality(Children(bucket, q))
        /\ Ordered(Children(bucket, q))[i + 1] \in Children(bucket, q) \cap eligible
    <3>1. view.child[q] \in Nat /\ view.child[q] <= Cardinality(Children(bucket, q))
      BY <2>3 DEF ViewOK
    <3>2. Children(bucket, q) \in SUBSET Nat /\ IsFiniteSet(Children(bucket, q))
      BY <2>4, Finite
    <3> QED
      BY <2>3, <3>1, <3>2, SearchFacts
  <2> HIDE DEF i
  <2>6. got.auth \in bucket \cap eligible
    BY <2>1, <2>4, <2>5
  <2>7. got.view = [view EXCEPT !.parent = j + 1, !.child = [view.child EXCEPT ![q] = i + 1]]
    BY <2>1
  <2>8. ViewOK(got.view, bucket)
    <3> DEFINE child == [view.child EXCEPT ![q] = i + 1]
    <3>1. view.child \in [Parents -> Nat]
      BY DEF ViewOK
    <3>2. child \in [Parents -> Nat] /\ child[q] = i + 1
          /\ \A r \in Parents : r # q => child[r] = view.child[r]
      BY <2>3, <2>5, <3>1
    <3> HIDE DEF child
    <3>3. got.view = [view EXCEPT !.parent = j + 1, !.child = child]
      BY <2>7 DEF child
    <3>4. /\ got.view \in [cursor : Nat, parent : Nat, child : [Parents -> Nat]]
          /\ got.view.cursor = view.cursor /\ got.view.parent = j + 1 /\ got.view.child = child
      <4>1. view \in [cursor : Nat, parent : Nat, child : [Parents -> Nat]]
        BY DEF ViewOK
      <4>2. j + 1 \in Nat
        BY <2>2
      <4> QED
        BY <3>2, <3>3, <4>1, <4>2
    <3>5. \A r \in Parents : child[r] <= Cardinality(Children(bucket, r))
      BY <2>5, <3>2 DEF ViewOK
    <3> QED
      BY <2>2, <3>4, <3>5 DEF ViewOK
  <2> QED
    BY <2>6, <2>8
<1> QED
  BY <1>1, <1>2

-----------------------------------------------------------------------------
(***************************************************************************)
(* Slots and segments: the order of providers.                             *)
(***************************************************************************)
\* The slots before provider i's segment are those of the credentials before.
Before(set, list, best, i) ==
  {a \in set : /\ Priority[a] = best
                 /\ \E j \in 1..(i - 1) : ProviderOf[a] = list[j]}
SlotsBefore(set, list, best, i) == Cardinality(Before(set, list, best, i))
Segment(set, list, best, i) == Cardinality(Bucket(set, list[i], best))

LEMMA SegmentFacts ==
  ASSUME NEW list \in Seq(Providers), IsInjective(list), NEW set \in SUBSET Auths, NEW best
  PROVE  /\ SlotsBefore(set, list, best, 1) = 0
         /\ \A i \in 1..Len(list) + 1 : SlotsBefore(set, list, best, i) \in 0..Cardinality(Auths)
         /\ \A i \in 1..Len(list) :
              /\ Segment(set, list, best, i) \in Nat
              /\ SlotsBefore(set, list, best, i + 1)
                   = SlotsBefore(set, list, best, i) + Segment(set, list, best, i)
              /\ Bucket(set, list[i], best) # {} => Segment(set, list, best, i) >= 1
PROOF
<1>1. SlotsBefore(set, list, best, 1) = 0
  <2>1. Before(set, list, best, 1) = {}
    BY DEF Before
  <2> QED
    BY <2>1, FS_EmptySet DEF SlotsBefore
<1>2. ASSUME NEW i \in 1..Len(list) + 1
      PROVE  SlotsBefore(set, list, best, i) \in 0..Cardinality(Auths)
  <2>1. PICK S : S = Before(set, list, best, i)
    OBVIOUS
  <2>2. S \in SUBSET Auths
    BY <2>1 DEF Before
  <2>3. Cardinality(S) \in Nat /\ Cardinality(Auths) \in Nat
        /\ Cardinality(S) <= Cardinality(Auths)
    BY <2>2, Finite
  <2> QED
    BY <2>1, <2>3 DEF SlotsBefore
<1>3. ASSUME NEW i \in 1..Len(list)
      PROVE  /\ Segment(set, list, best, i) \in Nat
             /\ SlotsBefore(set, list, best, i + 1)
                  = SlotsBefore(set, list, best, i) + Segment(set, list, best, i)
             /\ Bucket(set, list[i], best) # {} => Segment(set, list, best, i) >= 1
  <2> DEFINE A == Before(set, list, best, i)
             B == Bucket(set, list[i], best)
             C == Before(set, list, best, i + 1)
  <2>1. A \in SUBSET Auths /\ B \in SUBSET Auths
    BY DEF Before, Bucket
  <2>2. C = A \cup B
    <3>1. \A j : j \in 1..((i + 1) - 1) <=> j \in 1..(i - 1) \/ j = i
      OBVIOUS
    <3> QED
      BY <3>1 DEF Before, Bucket
  <2>3. A \cap B = {}
    <3> SUFFICES ASSUME NEW a \in A, a \in B PROVE FALSE
      OBVIOUS
    <3>1. ProviderOf[a] = list[i]
      BY DEF Bucket
    <3>2. PICK j \in 1..(i - 1) : ProviderOf[a] = list[j]
      BY DEF Before
    <3>3. i \in DOMAIN list /\ j \in DOMAIN list /\ i # j
      OBVIOUS
    <3> QED
      BY <3>1, <3>2, <3>3 DEF IsInjective
  <2>4. IsFiniteSet(A) /\ IsFiniteSet(B) /\ Cardinality(A) \in Nat /\ Cardinality(B) \in Nat
        /\ (B # {} => Cardinality(B) >= 1)
    <3> HIDE DEF A, B
    <3> QED
      BY <2>1, Finite
  <2>5. Cardinality(C) = Cardinality(A) + Cardinality(B)
    <3>1. Cardinality({}) = 0
      BY FS_EmptySet
    <3> HIDE DEF A, B, C
    <3> QED
      BY <2>2, <2>3, <2>4, <3>1, FS_Union
  <2> QED
    BY <2>4, <2>5 DEF SlotsBefore, Segment
<1> QED
  BY <1>1, <1>2, <1>3

\* Every slot is in a segment.
LEMMA StartExists ==
  ASSUME NEW list \in Seq(Providers), IsInjective(list), NEW set \in SUBSET Auths, NEW best,
         NEW at \in Nat, at < SlotsBefore(set, list, best, Len(list) + 1)
  PROVE  \E i \in 1..Len(list) :
           /\ SlotsBefore(set, list, best, i) <= at
           /\ at < SlotsBefore(set, list, best, i) + Segment(set, list, best, i)
PROOF
<1> DEFINE n == Len(list)
           F(i) == SlotsBefore(set, list, best, i)
           W(i) == Segment(set, list, best, i)
<1>1. /\ F(1) = 0 /\ \A i \in 1..n + 1 : F(i) \in Nat
      /\ \A i \in 1..n : W(i) \in Nat /\ F(i + 1) = F(i) + W(i)
  <2>1. F(1) = 0 /\ \A i \in 1..n : W(i) \in Nat /\ F(i + 1) = F(i) + W(i)
    BY SegmentFacts
  <2>2. \A i \in 1..n + 1 : F(i) \in 0..Cardinality(Auths)
    BY SegmentFacts
  <2> HIDE DEF F
  <2> QED
    BY <2>1, <2>2
<1>2. n \in Nat /\ at < F(n + 1)
  OBVIOUS
<1> HIDE DEF n, F, W
<1> DEFINE T == {i \in Nat : i <= n /\ at < F(i + 1)}
<1>3. PICK i \in T : \A k \in T : i <= k
  <2>1. n \in T
    BY <1>2
  <2>2. T \in SUBSET Nat /\ T # {}
    BY <2>1
  <2> HIDE DEF T
  <2> QED
    BY <2>2, LeastNumber
<1>4. i \in Nat /\ i <= n /\ at < F(i + 1)
  BY <1>3
<1>5. i # 0
  <2>1. F(0 + 1) = 0
    BY <1>1
  <2> QED
    BY <1>4, <2>1
<1>6. i \in 1..n
  BY <1>2, <1>4, <1>5
<1>7. F(i) <= at
  <2>1. CASE i = 1
    BY <1>1, <2>1
  <2>2. CASE i # 1
    <3>1. i - 1 \in Nat /\ i - 1 <= n /\ i - 1 < i /\ (i - 1) + 1 = i
      BY <1>2, <1>6, <2>2
    <3>2. i - 1 \notin T
      BY <1>3, <3>1
    <3>3. ~(at < F(i))
      BY <3>1, <3>2
    <3>4. F(i) \in Nat
      BY <1>1, <1>2, <1>6
    <3> QED
      BY <3>3, <3>4
  <2> QED
    BY <2>1, <2>2
<1>8. at < F(i) + W(i)
  BY <1>1, <1>4, <1>6
<1> QED
  BY <1>6, <1>7, <1>8 DEF n, F, W

LEMMA TurnFacts ==
  ASSUME NEW list \in Seq(Providers), IsInjective(list), NEW set \in SUBSET Auths, NEW best,
         NEW slot \in Nat, NEW eligible,
         \E i \in 1..Len(list) : Bucket(set, list[i], best) \cap eligible # {},
         NEW turn, turn = Turn(set, list, eligible, best, slot)
  PROVE  /\ turn.provider \in Providers
         /\ \E i \in 1..Len(list) : turn.provider = list[i]
         /\ Bucket(set, turn.provider, best) \cap eligible # {}
         /\ turn.slot \in 0..Cardinality(Auths)
PROOF
<1> DEFINE n     == Len(list)
           F(i)  == SlotsBefore(set, list, best, i)
           W(i)  == Segment(set, list, best, i)
           total == F(n + 1)
           at    == slot % total
           start == CHOOSE i \in DOMAIN list : F(i) <= at /\ at < F(i) + W(i)
           can   == {list[j] : j \in {j \in DOMAIN list :
                       Bucket(set, list[j], best) \cap eligible # {}}}
           i     == Found(list, start - 1, can) + 1
<1>1. turn = [provider |-> list[i], slot |-> (IF i = start THEN at ELSE F(i)) + 1]
  BY DEF Turn, SlotsBefore, Before, Segment
<1>2. /\ F(1) = 0 /\ Cardinality(Auths) \in Nat
      /\ \A j \in 1..n + 1 : F(j) \in 0..Cardinality(Auths)
      /\ \A j \in 1..n : /\ W(j) \in Nat /\ F(j + 1) = F(j) + W(j)
                         /\ Bucket(set, list[j], best) # {} => W(j) >= 1
  <2>1. Cardinality(Auths) \in Nat
    BY Finite
  <2> QED
    BY <2>1, SegmentFacts
<1>3. n \in Nat /\ DOMAIN list = 1..n /\ \A j \in 1..n : list[j] \in Providers
  OBVIOUS
<1>4. PICK k \in 1..n : Bucket(set, list[k], best) \cap eligible # {}
  OBVIOUS
<1>5. total \in Nat \ {0}
  <2>1. Bucket(set, list[k], best) \subseteq Before(set, list, best, n + 1)
    <3>1. k \in 1..((n + 1) - 1)
      BY <1>3
    <3> QED
      BY <3>1 DEF Bucket, Before
  <2>2. Before(set, list, best, n + 1) # {}
    BY <1>4, <2>1
  <2>3. PICK S : S = Before(set, list, best, n + 1)
    OBVIOUS
  <2>4. S \in SUBSET Auths /\ S # {}
    BY <2>2, <2>3 DEF Before
  <2>5. Cardinality(S) \in Nat /\ Cardinality(S) >= 1
    BY <2>4, Finite
  <2>6. total = Cardinality(S)
    BY <2>3 DEF SlotsBefore
  <2> QED
    BY <2>5, <2>6
<1>6. at \in 0..total - 1
  <2>1. slot \in Int
    OBVIOUS
  <2> HIDE DEF total
  <2> QED
    BY <1>5, <2>1, ModFacts
<1>7. total \in 0..Cardinality(Auths)
  <2>1. n + 1 \in 1..n + 1
    BY <1>3
  <2> QED
    BY <1>2, <2>1
<1>8. \E j \in DOMAIN list : F(j) <= at /\ at < F(j) + W(j)
  <2>1. at \in Nat /\ at < F(n + 1)
    BY <1>5, <1>6
  <2> HIDE DEF at
  <2> QED
    BY <1>3, <2>1, StartExists
<1>9. start \in 1..n
  <2> HIDE DEF F, W, at
  <2> QED
    BY <1>3, <1>8
<1> HIDE DEF at, start, F, W
<1>10. \E j \in 1..n : list[j] \in can
  BY <1>3, <1>4
<1>11. i - 1 \in 0..n - 1 /\ i \in 1..n /\ list[i] \in can
  <2>1. start - 1 \in 0..n
    BY <1>3, <1>9
  <2> DEFINE f == Found(list, start - 1, can)
  <2>2. f \in 0..n - 1 /\ list[f + 1] \in can
    <3> HIDE DEF can, start
    <3> QED
      BY <1>3, <1>10, <2>1, FoundFacts
  <2> HIDE DEF f, can
  <2>3. f + 1 \in 1..n /\ (f + 1) - 1 = f
    BY <1>3, <2>2
  <2> QED
    BY <2>2, <2>3 DEF f
<1> HIDE DEF i
<1>12. Bucket(set, list[i], best) \cap eligible # {}
  BY <1>11
<1>13. F(i) + 1 \in 0..Cardinality(Auths)
  <2>1. Bucket(set, list[i], best) # {}
    BY <1>12
  <2>2. W(i) >= 1 /\ F(i + 1) = F(i) + W(i) /\ W(i) \in Nat
    BY <1>2, <1>11, <2>1
  <2>3. i + 1 \in 1..n + 1 /\ i \in 1..n + 1
    BY <1>3, <1>11
  <2>4. F(i) \in 0..Cardinality(Auths) /\ F(i + 1) \in 0..Cardinality(Auths)
    BY <1>2, <2>3
  <2> QED
    BY <1>2, <2>2, <2>4
<1>14. at + 1 \in 0..Cardinality(Auths)
  <2> HIDE DEF total
  <2> QED
    BY <1>2, <1>5, <1>6, <1>7
<1>15. turn.provider = list[i] /\ (turn.slot = at + 1 \/ turn.slot = F(i) + 1)
  BY <1>1
<1> QED
  BY <1>3, <1>11, <1>12, <1>13, <1>14, <1>15

-----------------------------------------------------------------------------
(***************************************************************************)
(* A whole choice.                                                         *)
(***************************************************************************)
AllViews == [Providers -> [Priorities -> [cursor : Nat, parent : Nat, child : [Parents -> Nat]]]]

ViewsOK(shards, set) ==
  /\ shards \in AllViews
  /\ \A p \in Providers, priority \in Priorities :
       ViewOK(shards[p][priority], Bucket(set, p, priority))

ListOK(list) == list \in Seq(Providers) /\ list # <<>> /\ IsInjective(list)

\* The best priority is one at which there is something to choose.
LEMMA BestFacts ==
  ASSUME NEW list, ListOK(list), NEW set \in SUBSET Auths, NEW eligible,
         OfProviders(set \cap eligible, list) # {},
         NEW best, best = Best(OfProviders(set \cap eligible, list))
  PROVE  /\ best \in Priorities
         /\ \E i \in 1..Len(list) : Bucket(set, list[i], best) \cap eligible # {}
PROOF
<1> DEFINE C == OfProviders(set \cap eligible, list)
           P == {Priority[a] : a \in C}
<1>1. C \in SUBSET Auths /\ C # {}
  BY DEF OfProviders
<1>2. P \in SUBSET Nat /\ IsFiniteSet(P) /\ P # {}
  <2> HIDE DEF C
  <2> QED
    BY <1>1, Finite
<1>3. best = Max(P)
  BY DEF Best
<1>4. best \in P
  <2> HIDE DEF P
  <2> QED
    BY <1>2, <1>3, MaxFacts
<1>5. PICK a \in C : Priority[a] = best
  BY <1>4
<1>6. a \in set \cap eligible /\ ProviderOf[a] \in ToSet(list) /\ a \in Auths
  BY DEF OfProviders
<1>7. PICK i \in DOMAIN list : list[i] = ProviderOf[a]
  BY <1>6 DEF ToSet
<1>8. i \in 1..Len(list)
  BY DEF ListOK
<1>9. a \in Bucket(set, list[i], best) \cap eligible
  BY <1>5, <1>6, <1>7 DEF Bucket
<1> QED
  BY <1>5, <1>6, <1>8, <1>9 DEF Priorities

LEMMA RoundRobinFacts ==
  ASSUME NEW list, ListOK(list), NEW set \in SUBSET Auths, NEW eligible,
         OfProviders(set \cap eligible, list) # {},
         NEW shards, ViewsOK(shards, set), NEW slot \in 0..Cardinality(Auths),
         NEW choice, choice = RoundRobin(set, shards, list, eligible, slot)
  PROVE  /\ choice.auth \in OfProviders(set \cap eligible, list)
         /\ ViewsOK(choice.views, set) /\ choice.slot \in 0..Cardinality(Auths)
PROOF
<1> DEFINE best == Best(OfProviders(set \cap eligible, list))
           turn == IF Len(list) = 1 THEN [provider |-> list[1], slot |-> slot]
                   ELSE Turn(set, list, eligible, best, slot)
           p    == turn.provider
           got  == PickRoundRobin(Bucket(set, p, best), shards[p][best], eligible)
<1>1. choice = [auth |-> got.auth, views |-> [shards EXCEPT ![p][best] = got.view],
                slot |-> turn.slot]
  BY DEF RoundRobin
<1>2. best \in Priorities
      /\ \E i \in 1..Len(list) : Bucket(set, list[i], best) \cap eligible # {}
  BY BestFacts
<1> HIDE DEF best
<1>3. list \in Seq(Providers) /\ IsInjective(list) /\ Len(list) \in Nat
  BY DEF ListOK
<1>4. /\ p \in Providers /\ \E i \in 1..Len(list) : p = list[i]
      /\ Bucket(set, p, best) \cap eligible # {}
      /\ turn.slot \in 0..Cardinality(Auths)
  <2>1. CASE Len(list) = 1
    <3>1. p = list[1] /\ turn.slot = slot
      BY <2>1
    <3>2. PICK i \in 1..Len(list) : Bucket(set, list[i], best) \cap eligible # {}
      BY <1>2
    <3>3. i = 1 /\ list[1] \in Providers
      BY <1>3, <2>1
    <3> HIDE DEF p, turn
    <3> QED
      BY <2>1, <3>1, <3>2, <3>3
  <2>2. CASE Len(list) # 1
    <3> DEFINE T == Turn(set, list, eligible, best, slot)
    <3>1. slot \in Nat
      OBVIOUS
    <3>2. T.provider \in Providers /\ (\E i \in 1..Len(list) : T.provider = list[i])
          /\ Bucket(set, T.provider, best) \cap eligible # {}
          /\ T.slot \in 0..Cardinality(Auths)
      <4> HIDE DEF T
      <4> QED
        BY <1>2, <1>3, <3>1, TurnFacts DEF T
    <3>3. turn = T
      BY <2>2
    <3> HIDE DEF T, turn
    <3> QED
      BY <3>2, <3>3
  <2> QED
    BY <2>1, <2>2
<1> HIDE DEF p, turn
<1>5. got.auth \in Bucket(set, p, best) \cap eligible /\ ViewOK(got.view, Bucket(set, p, best))
  <2>1. Bucket(set, p, best) \in SUBSET Auths
    BY DEF Bucket
  <2>2. ViewOK(shards[p][best], Bucket(set, p, best))
    BY <1>2, <1>4 DEF ViewsOK
  <2> HIDE DEF got
  <2> QED
    BY <1>4, <2>1, <2>2, PickRoundRobinFacts DEF got
<1> HIDE DEF got
<1>6. got.auth \in OfProviders(set \cap eligible, list)
  <2>1. p \in ToSet(list)
    BY <1>3, <1>4 DEF ToSet
  <2> QED
    BY <1>5, <2>1 DEF Bucket, OfProviders
<1>7. ViewsOK([shards EXCEPT ![p][best] = got.view], set)
  <2> DEFINE v == got.view
             new == [shards EXCEPT ![p][best] = v]
  <2>1. shards \in AllViews
    BY DEF ViewsOK
  <2>2. v \in [cursor : Nat, parent : Nat, child : [Parents -> Nat]]
    BY <1>5 DEF ViewOK
  <2> HIDE DEF v
  <2>3. new \in AllViews
    BY <1>2, <1>4, <2>1, <2>2 DEF AllViews
  <2>4. \A q \in Providers, priority \in Priorities :
          new[q][priority] = IF q = p /\ priority = best THEN v ELSE shards[q][priority]
    BY <1>2, <1>4, <2>1 DEF AllViews
  <2> HIDE DEF new
  <2>5. ViewsOK(new, set)
    BY <1>5, <2>3, <2>4 DEF ViewsOK, v
  <2> QED
    BY <2>5 DEF new, v
<1> QED
  BY <1>1, <1>4, <1>6, <1>7

LEMMA FillFirstFacts ==
  ASSUME NEW list, ListOK(list), NEW set \in SUBSET Auths, NEW eligible,
         OfProviders(set \cap eligible, list) # {},
         NEW shards, ViewsOK(shards, set), NEW slot \in 0..Cardinality(Auths),
         NEW choice, choice = FillFirst(set, shards, list, eligible, slot)
  PROVE  /\ choice.auth \in OfProviders(set \cap eligible, list)
         /\ ViewsOK(choice.views, set) /\ choice.slot \in 0..Cardinality(Auths)
PROOF
<1> DEFINE best == Best(OfProviders(set \cap eligible, list))
           can  == {q \in Providers : Bucket(set, q, best) \cap eligible # {}}
           f    == Found(list, 0, can)
           p    == list[f + 1]
<1>1. choice = [auth |-> PickFirst(Bucket(set, p, best), eligible), views |-> shards, slot |-> slot]
  BY DEF FillFirst
<1>2. \E i \in 1..Len(list) : Bucket(set, list[i], best) \cap eligible # {}
  BY BestFacts
<1> HIDE DEF best
<1>3. list \in Seq(Providers) /\ Len(list) \in Nat /\ \A i \in 1..Len(list) : list[i] \in Providers
  BY DEF ListOK
<1>4. f \in 0..Len(list) - 1 /\ list[f + 1] \in can
  <2>1. \E i \in 1..Len(list) : list[i] \in can
    BY <1>2, <1>3
  <2>2. 0 \in 0..Len(list)
    BY <1>3
  <2> HIDE DEF can
  <2> QED
    BY <1>3, <2>1, <2>2, FoundFacts
<1> HIDE DEF f
<1>5. f + 1 \in 1..Len(list)
  BY <1>3, <1>4
<1>6. p \in ToSet(list) /\ Bucket(set, p, best) \cap eligible # {}
  BY <1>3, <1>4, <1>5 DEF ToSet
<1> HIDE DEF p
<1>7. PickFirst(Bucket(set, p, best), eligible) \in Bucket(set, p, best) \cap eligible
  <2>1. Bucket(set, p, best) \in SUBSET Auths
    BY DEF Bucket
  <2> QED
    BY <1>6, <2>1, PickFirstFacts
<1> QED
  BY <1>1, <1>6, <1>7 DEF Bucket, OfProviders

-----------------------------------------------------------------------------
(***************************************************************************)
(* Rebuilt indexes keep their cursors within the new buckets.              *)
(***************************************************************************)
LEMMA FreshViewOK == ASSUME NEW bucket \in SUBSET Auths PROVE ViewOK(FreshView, bucket)
PROOF
<1>1. Cardinality(bucket) \in Nat /\ Cardinality(ParentsOf(bucket)) \in Nat
  BY Finite
<1>2. \A q : Cardinality(Children(bucket, q)) \in Nat
  <2> TAKE q
  <2>1. PICK C : C = Children(bucket, q)
    OBVIOUS
  <2>2. C \in SUBSET Auths
    BY <2>1 DEF Children
  <2> QED
    BY <2>1, <2>2, Finite
<1>3. /\ FreshView \in [cursor : Nat, parent : Nat, child : [Parents -> Nat]]
      /\ FreshView.cursor = 0 /\ FreshView.parent = 0
      /\ \A q \in Parents : FreshView.child[q] = 0
  BY DEF FreshView
<1> QED
  BY <1>1, <1>2, <1>3 DEF ViewOK

LEMMA RestoredOK ==
  ASSUME NEW bucket \in SUBSET Auths, bucket # {}, NEW old, NEW view, ViewOK(view, old)
  PROVE  ViewOK(Restored(view, bucket), bucket)
PROOF
<1>1. /\ Cardinality(bucket) \in Nat \ {0} /\ Cardinality(ParentsOf(bucket)) \in Nat
      /\ IsFiniteSet(ParentsOf(bucket))
  <2>1. Cardinality(bucket) \in Nat /\ Cardinality(bucket) >= 1
    BY Finite
  <2>2. Cardinality(ParentsOf(bucket)) \in Nat /\ IsFiniteSet(ParentsOf(bucket))
    BY Finite
  <2> QED
    BY <2>1, <2>2
<1>2. \A q : Cardinality(Children(bucket, q)) \in Nat
             /\ (q \in ParentsOf(bucket) => Cardinality(Children(bucket, q)) \in Nat \ {0})
  <2> TAKE q
  <2>1. PICK C : C = Children(bucket, q)
    OBVIOUS
  <2>2. C \in SUBSET Auths
    BY <2>1 DEF Children
  <2>3. Cardinality(C) \in Nat /\ (C # {} => Cardinality(C) >= 1)
    BY <2>2, Finite
  <2>4. q \in ParentsOf(bucket) => C # {}
    BY <2>1 DEF Children, ParentsOf
  <2> QED
    BY <2>1, <2>3, <2>4
<1>3. Cardinality(ParentsOf(bucket)) \in Nat \ {0}
  <2>1. ParentsOf(bucket) # {}
    BY DEF ParentsOf
  <2> QED
    BY <1>1, <2>1, FS_EmptySet
<1>4. view.cursor \in Nat /\ view.parent \in Nat /\ view.child \in [Parents -> Nat]
  BY DEF ViewOK
<1> DEFINE c == view.cursor % Cardinality(bucket)
           d == IF Grouped(bucket) THEN view.parent % Cardinality(ParentsOf(bucket)) ELSE 0
           e == [q \in Parents |->
                   IF Grouped(bucket) /\ q \in ParentsOf(bucket)
                     THEN view.child[q] % Cardinality(Children(bucket, q)) ELSE 0]
<1>5. c \in Nat /\ c <= Cardinality(bucket)
  <2>1. PICK n \in Nat \ {0} : n = Cardinality(bucket)
    BY <1>1
  <2>2. PICK x \in Int : x = view.cursor
    BY <1>4
  <2>3. x % n \in 0..n - 1
    BY ModFacts
  <2> QED
    BY <2>1, <2>2, <2>3
<1>6. d \in Nat /\ d <= Cardinality(ParentsOf(bucket))
  <2>1. PICK n \in Nat \ {0} : n = Cardinality(ParentsOf(bucket))
    BY <1>3
  <2>2. PICK x \in Int : x = view.parent
    BY <1>4
  <2>3. x % n \in 0..n - 1
    BY ModFacts
  <2> QED
    BY <2>1, <2>2, <2>3
<1>7. ASSUME NEW q \in Parents PROVE e[q] \in Nat /\ e[q] <= Cardinality(Children(bucket, q))
  <2>1. CASE Grouped(bucket) /\ q \in ParentsOf(bucket)
    <3>1. PICK n \in Nat \ {0} : n = Cardinality(Children(bucket, q))
      BY <1>2, <2>1
    <3>2. PICK x \in Int : x = view.child[q]
      BY <1>4
    <3>3. x % n \in 0..n - 1
      BY ModFacts
    <3>4. e[q] = x % n
      BY <2>1, <3>1, <3>2
    <3> HIDE DEF e
    <3> QED
      BY <3>1, <3>3, <3>4
  <2>2. CASE ~(Grouped(bucket) /\ q \in ParentsOf(bucket))
    <3>1. e[q] = 0
      BY <2>2
    <3> HIDE DEF e
    <3> QED
      BY <1>2, <3>1
  <2> QED
    BY <2>1, <2>2
<1>8. Restored(view, bucket) = [cursor |-> c, parent |-> d, child |-> e]
  BY DEF Restored
<1>9. e = [q \in Parents |-> e[q]]
  OBVIOUS
<1> HIDE DEF c, d, e
<1>10. e \in [Parents -> Nat]
  BY <1>7, <1>9
<1> QED
  BY <1>5, <1>6, <1>7, <1>8, <1>10 DEF ViewOK

LEMMA RebuiltOK ==
  ASSUME NEW shards, NEW old \in SUBSET Auths, NEW set \in SUBSET Auths, ViewsOK(shards, old),
         NEW p \in Providers
  PROVE  /\ Rebuilt(shards[p], old, set, p)
              \in [Priorities -> [cursor : Nat, parent : Nat, child : [Parents -> Nat]]]
         /\ \A priority \in Priorities :
              ViewOK(Rebuilt(shards[p], old, set, p)[priority], Bucket(set, p, priority))
PROOF
<1> DEFINE r == Rebuilt(shards[p], old, set, p)
<1>1. r = [priority \in Priorities |->
             IF Bucket(old, p, priority) = {} \/ Bucket(set, p, priority) = {} THEN FreshView
             ELSE Restored(shards[p][priority], Bucket(set, p, priority))]
  BY DEF Rebuilt
<1> HIDE DEF r
<1>2. ASSUME NEW priority \in Priorities
      PROVE  ViewOK(r[priority], Bucket(set, p, priority))
  <2>1. PICK b \in SUBSET Auths : b = Bucket(set, p, priority)
    BY DEF Bucket
  <2>2. CASE Bucket(old, p, priority) = {} \/ b = {}
    BY <1>1, <2>1, <2>2, FreshViewOK
  <2>3. CASE ~(Bucket(old, p, priority) = {} \/ b = {})
    <3>1. r[priority] = Restored(shards[p][priority], b)
      BY <1>1, <2>1, <2>3
    <3>2. ViewOK(shards[p][priority], Bucket(old, p, priority))
      BY DEF ViewsOK
    <3> QED
      BY <2>1, <2>3, <3>1, <3>2, RestoredOK
  <2> QED
    BY <2>2, <2>3
<1>3. \A priority \in Priorities :
        r[priority] \in [cursor : Nat, parent : Nat, child : [Parents -> Nat]]
  BY <1>2 DEF ViewOK
<1>4. r \in [Priorities -> [cursor : Nat, parent : Nat, child : [Parents -> Nat]]]
  <2>1. r = [priority \in Priorities |-> r[priority]]
    BY <1>1
  <2> QED
    BY <1>3, <2>1
<1> QED
  BY <1>2, <1>4 DEF r

-----------------------------------------------------------------------------
(***************************************************************************)
(* The inductive invariants.                                               *)
(***************************************************************************)
Errors == Kinds \cup {NoError, "cooling", "canceled"}
OpRecords ==
  [at : Places, attempt : Nat, tried : SUBSET Auths, auth : Nat, error : Errors, boot : BOOLEAN,
   wait : Nat, promised : SUBSET Auths, retries : Nat, sent : BOOLEAN, canceled : BOOLEAN,
   cut : BOOLEAN, tries : Nat, unrecorded : Int]

\* The credentials of r's providers in fleet f, and the parts of the bound on
\* its calls.
OwnIn(r, f) == OfProviders(f.auths, List[r])
PerRound(r, f) ==
  IF f.limit = 0 THEN Cardinality(OwnIn(r, f)) ELSE Min({f.limit, Cardinality(OwnIn(r, f))})
Rounds(r, f) == Max({Retry[a] : a \in OwnIn(r, f)}) + 1

\* What request r's record o may be in fleet f: its type; a credential is in
\* use during a call and a stream, and only streaming requests have streams.
RecordOK(r, o, f) ==
  /\ o \in OpRecords
  /\ r \notin f.requests => o.at = "idle"
  /\ o.tried \subseteq OwnIn(r, f)
  /\ o.at \in {"call", "stream", "ending", "left"} => o.auth \in OwnIn(r, f)
  /\ o.boot \/ o.at \in {"stream", "ending", "left", "failed"} => r \in Stream

\* A stream is open, has been left or has failed, when the client has got a
\* payload.
OneOK(o) == o.sent => o.at \in {"stream", "left", "failed"}

\* A stream's call is still to be recorded; a handler that cuts it off ends
\* the request.
RecordedOK(o) ==
  /\ o.unrecorded >= 0 /\ (o.at \in {"stream", "ending", "left"} => o.unrecorded >= 1)
  /\ o.cut => o.at = "done"
  /\ ~o.canceled =>
       o.unrecorded = IF o.at \in {"stream", "ending", "left"} \/ o.cut THEN 1 ELSE 0

\* The calls made are those of the handler's former starts, of the former
\* rounds of this start and of the credentials tried in this round, the one
\* being called for excepted.
CountedOK(r, o, f) ==
  /\ Cardinality(o.tried) <= PerRound(r, f)
  /\ o.attempt + (IF o.at = "wait" THEN 1 ELSE 0) < Rounds(r, f)
  /\ o.retries <= f.restarts /\ (o.retries > 0 => r \in Stream)
  /\ o.tries + (IF o.at = "call" THEN 1 ELSE 0)
       <= (o.retries * Rounds(r, f) + o.attempt) * PerRound(r, f) + Cardinality(o.tried)

RequestOK(r, o, f) ==
  /\ RecordOK(r, o, f) /\ OneOK(o) /\ RecordedOK(o)
  /\ r \in f.requests => CountedOK(r, o, f)

IndexesOK ==
  /\ fleet \in Fleets /\ left \in [Auths -> Nat] /\ ready \subseteq fleet.auths
  /\ ViewsOK(views, ready) /\ slots \in [Lists -> 0..Cardinality(Auths)]

RequestsOK ==
  /\ op \in [Requests -> OpRecords]
  /\ \A r \in Requests : RequestOK(r, op[r], fleet)

DispatchInv == IndexesOK /\ RequestsOK

-----------------------------------------------------------------------------
(***************************************************************************)
(* What the changes of a request's record preserve.                        *)
(***************************************************************************)
LEMMA FleetFacts ==
  ASSUME NEW f \in Fleets, NEW r \in Requests
  PROVE  /\ f.auths \subseteq Auths /\ f.requests \subseteq Requests /\ f.kinds \subseteq Kinds
         /\ f.limit \in Nat /\ f.restarts \in Nat
         /\ ListOK(List[r]) /\ OwnIn(r, f) \in SUBSET Auths
         /\ Cardinality(OwnIn(r, f)) \in Nat /\ IsFiniteSet(OwnIn(r, f))
         /\ r \in f.requests => OwnIn(r, f) # {}
PROOF
<1>1. /\ f.auths \subseteq Auths /\ f.requests \subseteq Requests /\ f.kinds \subseteq Kinds
      /\ f.limit \in Nat /\ f.restarts \in Nat
      /\ \A q \in f.requests : OfProviders(f.auths, List[q]) # {}
  BY DispatchAssumption
<1>2. ListOK(List[r])
  BY DispatchAssumption DEF ListOK
<1>3. OwnIn(r, f) \in SUBSET Auths
  BY <1>1 DEF OwnIn, OfProviders
<1>4. Cardinality(OwnIn(r, f)) \in Nat /\ IsFiniteSet(OwnIn(r, f))
  BY <1>3, Finite
<1> QED
  BY <1>1, <1>2, <1>3, <1>4 DEF OwnIn

LEMMA BoundFacts ==
  ASSUME NEW f \in Fleets, NEW r \in f.requests
  PROVE  /\ PerRound(r, f) \in Nat /\ Rounds(r, f) \in Nat /\ Rounds(r, f) >= 1
         /\ \A a \in OwnIn(r, f) : Retry[a] < Rounds(r, f)
         /\ \A T \in SUBSET OwnIn(r, f) :
              Cardinality(T) <= Cardinality(OwnIn(r, f)) /\ Cardinality(T) \in Nat
         /\ \A T \in SUBSET OwnIn(r, f) :
              f.limit = 0 \/ Cardinality(T) <= f.limit => Cardinality(T) <= PerRound(r, f)
PROOF
<1>1. r \in Requests /\ f.limit \in Nat
  BY DispatchAssumption
<1>2. /\ OwnIn(r, f) \in SUBSET Auths /\ OwnIn(r, f) # {}
      /\ Cardinality(OwnIn(r, f)) \in Nat /\ IsFiniteSet(OwnIn(r, f))
  BY <1>1, FleetFacts
<1> DEFINE n == Cardinality(OwnIn(r, f))
           M == {f.limit, n}
           Q == {Retry[a] : a \in OwnIn(r, f)}
           g == [a \in OwnIn(r, f) |-> Retry[a]]
<1>3. Min(M) \in M /\ \A x \in M : Min(M) <= x
  <2>1. M \in SUBSET Nat /\ M # {}
    BY <1>1, <1>2
  <2> HIDE DEF M
  <2> QED
    BY <2>1, MinFacts
<1>4. Retry \in [Auths -> Nat]
  BY DispatchAssumption
<1>5. Max(Q) \in Nat /\ \A x \in Q : x <= Max(Q)
  <2>1. Q \in SUBSET Nat /\ Q # {}
    BY <1>2, <1>4
  <2>2. g \in Surjection(OwnIn(r, f), Q)
    BY <1>2, <1>4 DEF Surjection
  <2> HIDE DEF Q, g
  <2>3. IsFiniteSet(Q)
    BY <1>2, <2>2, FS_Surjection
  <2> QED
    BY <2>1, <2>3, MaxFacts
<1>6. \A T \in SUBSET OwnIn(r, f) :
        Cardinality(T) <= Cardinality(OwnIn(r, f)) /\ Cardinality(T) \in Nat
  BY <1>2, FS_Subset, FS_CardinalityType
<1>7. PerRound(r, f) = IF f.limit = 0 THEN n ELSE Min(M)
  BY DEF PerRound
<1>8. Rounds(r, f) = Max(Q) + 1 /\ \A a \in OwnIn(r, f) : Retry[a] \in Q
  BY DEF Rounds
<1> HIDE DEF Q
<1>9. \A a \in OwnIn(r, f) : Retry[a] < Rounds(r, f)
  BY <1>2, <1>4, <1>5, <1>8
<1>10. Min(M) \in Nat /\ Min(M) \in {f.limit, n}
  BY <1>1, <1>2, <1>3
<1> HIDE DEF M
<1>11. \A T \in SUBSET OwnIn(r, f) :
         f.limit = 0 \/ Cardinality(T) <= f.limit => Cardinality(T) <= PerRound(r, f)
  BY <1>1, <1>2, <1>6, <1>7, <1>10
<1> QED
  BY <1>2, <1>5, <1>6, <1>7, <1>8, <1>9, <1>10, <1>11

\* What no property is about.
LEMMA NearOK ==
  ASSUME NEW r, NEW f, NEW o, RequestOK(r, o, f), NEW wait \in Nat, NEW P \in SUBSET Auths
  PROVE  /\ RequestOK(r, [o EXCEPT !.promised = P], f)
         /\ RequestOK(r, [o EXCEPT !.wait = wait], f)
         /\ [o EXCEPT !.promised = P] \in OpRecords /\ [o EXCEPT !.wait = wait] \in OpRecords
PROOF
<1>1. o \in OpRecords
  BY DEF RequestOK, RecordOK
<1>2. ASSUME NEW n, n \in {[o EXCEPT !.promised = P], [o EXCEPT !.wait = wait]}
      PROVE  n \in OpRecords /\ RequestOK(r, n, f)
  <2>1. /\ n \in OpRecords /\ n.at = o.at /\ n.attempt = o.attempt /\ n.tried = o.tried
        /\ n.auth = o.auth /\ n.boot = o.boot /\ n.retries = o.retries /\ n.sent = o.sent
        /\ n.canceled = o.canceled /\ n.cut = o.cut
        /\ n.tries = o.tries /\ n.unrecorded = o.unrecorded
    BY <1>1, <1>2 DEF OpRecords
  <2> QED
    BY <2>1 DEF RequestOK, RecordOK, OneOK, RecordedOK, CountedOK
<1> QED
  BY <1>2

\* A request that is starting or has ended.
LEMMA IdleOK ==
  ASSUME NEW f \in Fleets, NEW r \in Requests, NEW at \in {"idle", "pick", "done"},
         r \notin f.requests => at = "idle", NEW c \in BOOLEAN, NEW x \in BOOLEAN,
         x => at = "done", NEW u \in Nat, ~c => u = IF x THEN 1 ELSE 0,
         NEW n, n = [IdleOp EXCEPT !.at = at, !.canceled = c, !.cut = x, !.unrecorded = u]
  PROVE  n \in OpRecords /\ RequestOK(r, n, f)
PROOF
<1>1. IdleOp \in OpRecords /\ IdleOp.attempt = 0 /\ IdleOp.tried = {} /\ ~IdleOp.boot
      /\ IdleOp.retries = 0 /\ ~IdleOp.sent /\ IdleOp.tries = 0
  <2>1. NoError \in Errors /\ "idle" \in Places /\ {} \in SUBSET Auths /\ 0 \in Nat
    BY DEF Errors, Places
  <2> QED
    BY <2>1 DEF IdleOp, OpRecords
<1>2. /\ n \in OpRecords /\ n.at = at /\ n.attempt = 0 /\ n.tried = {} /\ ~n.boot
      /\ n.retries = 0 /\ ~n.sent /\ n.canceled = c /\ n.cut = x /\ n.tries = 0
      /\ n.unrecorded = u
  <2>1. at \in Places /\ u \in Int
    BY DEF Places
  <2> QED
    BY <1>1, <2>1 DEF OpRecords
<1>3. ASSUME r \in f.requests PROVE CountedOK(r, n, f)
  <2>1. PICK R \in Nat, P \in Nat : R = Rounds(r, f) /\ P = PerRound(r, f) /\ R >= 1
    BY <1>3, BoundFacts
  <2>2. Cardinality(n.tried) = 0 /\ f.restarts \in Nat
    BY <1>2, FS_EmptySet, FleetFacts
  <2>3. (n.retries * R + n.attempt) * P + Cardinality(n.tried) = 0
    <3>1. n.retries * R = 0
      BY <1>2, <2>1
    <3>2. (n.retries * R + n.attempt) * P = 0
      BY <1>2, <2>1, <3>1
    <3> QED
      BY <2>2, <3>2
  <2>4. n.at # "wait" /\ n.at # "call"
    BY <1>2
  <2>5. n.tries + (IF n.at = "call" THEN 1 ELSE 0) = 0
        /\ n.attempt + (IF n.at = "wait" THEN 1 ELSE 0) = 0
    BY <1>2, <2>4
  <2> QED
    BY <1>2, <2>1, <2>2, <2>3, <2>5 DEF CountedOK
<1> QED
  BY <1>2, <1>3 DEF RequestOK, RecordOK, OneOK, RecordedOK

LEMMA FinishedOK ==
  ASSUME NEW f \in Fleets, NEW r \in Requests, NEW o, RequestOK(r, o, f), o.at # "idle", NEW n,
         \/ o.at \notin {"stream", "ending", "left"} /\ n = Finished(o)
         \/ /\ o.at \in {"stream", "ending", "left"}
            /\ n = Finished([o EXCEPT !.unrecorded = o.unrecorded - 1])
         \/ o.at \in {"stream", "ending", "left"} /\ o.canceled /\ n = Finished(o)
         \/ o.at = "left" /\ n = Finished([o EXCEPT !.cut = TRUE])
         \/ n = Finished([o EXCEPT !.tries = o.tries + 1]) /\ o.at \notin {"stream", "ending", "left"}
  PROVE  n \in OpRecords /\ RequestOK(r, n, f)
PROOF
<1>1. o \in OpRecords /\ r \in f.requests /\ RecordedOK(o)
  BY DEF RequestOK, RecordOK
<1>2. o.canceled \in BOOLEAN /\ o.cut \in BOOLEAN /\ o.unrecorded \in Nat
  BY <1>1 DEF OpRecords, RecordedOK
<1>3. CASE /\ n = Finished(o)
           /\ o.at \notin {"stream", "ending", "left"} \/ o.canceled
  <2>1. n = [IdleOp EXCEPT !.at = "done", !.canceled = o.canceled, !.cut = o.cut,
                           !.unrecorded = o.unrecorded]
    BY <1>3 DEF Finished
  <2>2. ~o.canceled => o.unrecorded = IF o.cut THEN 1 ELSE 0
    BY <1>1, <1>3 DEF RecordedOK
  <2> QED
    BY <1>1, <1>2, <2>1, <2>2, IdleOK
<1>4. CASE /\ o.at \in {"stream", "ending", "left"}
           /\ n = Finished([o EXCEPT !.unrecorded = o.unrecorded - 1])
  <2>1. n = [IdleOp EXCEPT !.at = "done", !.canceled = o.canceled, !.cut = o.cut,
                           !.unrecorded = o.unrecorded - 1]
    BY <1>1, <1>4 DEF Finished, OpRecords
  <2>2. ~o.cut /\ o.unrecorded - 1 \in Nat /\ (~o.canceled => o.unrecorded - 1 = 0)
    BY <1>1, <1>2, <1>4 DEF RecordedOK
  <2> QED
    BY <1>1, <1>2, <2>1, <2>2, IdleOK
<1>5. CASE /\ n = Finished([o EXCEPT !.tries = o.tries + 1])
           /\ o.at \notin {"stream", "ending", "left"}
  <2>1. n = [IdleOp EXCEPT !.at = "done", !.canceled = o.canceled, !.cut = o.cut,
                           !.unrecorded = o.unrecorded]
    BY <1>1, <1>5 DEF Finished, OpRecords
  <2>2. ~o.canceled => o.unrecorded = IF o.cut THEN 1 ELSE 0
    BY <1>1, <1>5 DEF RecordedOK
  <2> QED
    BY <1>1, <1>2, <2>1, <2>2, IdleOK
<1>6. CASE o.at = "left" /\ n = Finished([o EXCEPT !.cut = TRUE])
  <2>1. n = [IdleOp EXCEPT !.at = "done", !.canceled = o.canceled, !.cut = TRUE,
                           !.unrecorded = o.unrecorded]
    BY <1>1, <1>6 DEF Finished, OpRecords
  <2>2. ~o.canceled => o.unrecorded = 1
    BY <1>1, <1>6 DEF RecordedOK
  <2> QED
    BY <1>1, <1>2, <2>1, <2>2, IdleOK
<1> QED
  BY <1>3, <1>4, <1>5, <1>6

\* A credential is chosen.
LEMMA PickOK ==
  ASSUME NEW f \in Fleets, NEW r \in Requests, NEW o, RequestOK(r, o, f), o.at = "pick",
         f.limit = 0 \/ Cardinality(o.tried) < f.limit,
         NEW a \in OwnIn(r, f) \ o.tried, NEW n,
         n = [o EXCEPT !.at = "call", !.auth = a, !.tried = o.tried \cup {a}, !.promised = {}]
  PROVE  n \in OpRecords /\ RequestOK(r, n, f)
PROOF
<1>1. o \in OpRecords /\ r \in f.requests /\ o.tried \subseteq OwnIn(r, f)
  BY DEF RequestOK, RecordOK
<1>2. a \in Auths /\ a \in Nat
  BY FleetFacts, RotationAssumption
<1>3. /\ n \in OpRecords /\ n.at = "call" /\ n.attempt = o.attempt /\ n.tried = o.tried \cup {a}
      /\ n.auth = a /\ n.boot = o.boot /\ n.retries = o.retries /\ n.sent = o.sent
      /\ n.canceled = o.canceled /\ n.cut = o.cut
      /\ n.tries = o.tries /\ n.unrecorded = o.unrecorded
  BY <1>1, <1>2 DEF OpRecords, Places
<1>4. RecordOK(r, n, f) /\ OneOK(n) /\ RecordedOK(n)
  BY <1>1, <1>3 DEF RequestOK, RecordOK, OneOK, RecordedOK
<1>5. CountedOK(r, n, f)
  <2>1. Cardinality(o.tried \cup {a}) = Cardinality(o.tried) + 1 /\ Cardinality(o.tried) \in Nat
    <3>1. IsFiniteSet(o.tried)
      BY <1>1, FleetFacts, FS_Subset
    <3> QED
      BY <3>1, FS_AddElement, FS_CardinalityType
  <2>2. Cardinality(o.tried \cup {a}) <= PerRound(r, f)
    <3>1. o.tried \cup {a} \in SUBSET OwnIn(r, f)
      BY <1>1
    <3>2. f.limit = 0 \/ Cardinality(o.tried \cup {a}) <= f.limit
      <4>1. f.limit \in Nat
        BY FleetFacts
      <4> QED
        BY <2>1, <4>1
    <3> QED
      BY <1>1, <3>1, <3>2, BoundFacts
  <2>3. CountedOK(r, o, f)
    BY <1>1 DEF RequestOK
  <2>4. PICK x : x = (o.retries * Rounds(r, f) + o.attempt) * PerRound(r, f)
    OBVIOUS
  <2>5. x \in Int /\ o.tries \in Nat
    <3>1. PerRound(r, f) \in Nat /\ Rounds(r, f) \in Nat
      BY <1>1, BoundFacts
    <3> QED
      BY <1>1, <2>4, <3>1 DEF OpRecords
  <2>6. o.tries <= x + Cardinality(o.tried)
    BY <2>3, <2>4, <2>5 DEF CountedOK
  <2>7. n.tries + 1 <= x + Cardinality(n.tried)
    BY <1>3, <2>1, <2>5, <2>6
  <2> QED
    BY <1>3, <2>2, <2>3, <2>4, <2>7 DEF CountedOK
<1> QED
  BY <1>3, <1>4, <1>5 DEF RequestOK

\* A round goes on, or ends, without a call.
LEMMA RoundOK ==
  ASSUME NEW f \in Fleets, NEW r \in Requests, NEW o, RequestOK(r, o, f),
         o.at \in {"pick", "call"}, NEW at \in {"pick", "decide"}, NEW e \in Errors,
         NEW boot \in BOOLEAN, boot => r \in Stream, NEW P \in SUBSET Auths, NEW n,
         n = [o EXCEPT !.at = at, !.error = e, !.boot = boot, !.promised = P]
  PROVE  n \in OpRecords /\ RequestOK(r, n, f)
PROOF
<1>1. o \in OpRecords
  BY DEF RequestOK, RecordOK
<1>2. /\ n \in OpRecords /\ n.at = at /\ n.attempt = o.attempt /\ n.tried = o.tried
      /\ n.auth = o.auth /\ n.boot = boot /\ n.retries = o.retries /\ n.sent = o.sent
      /\ n.canceled = o.canceled /\ n.cut = o.cut
      /\ n.tries = o.tries /\ n.unrecorded = o.unrecorded
  BY <1>1 DEF OpRecords, Places
<1>3. RecordOK(r, n, f) /\ OneOK(n) /\ RecordedOK(n)
  BY <1>2 DEF RequestOK, RecordOK, OneOK, RecordedOK
<1>4. ASSUME r \in f.requests PROVE CountedOK(r, n, f)
  <2>1. CountedOK(r, o, f)
    BY <1>4 DEF RequestOK
  <2>2. PICK x : x = (o.retries * Rounds(r, f) + o.attempt) * PerRound(r, f) + Cardinality(o.tried)
    OBVIOUS
  <2>3. o.tries + (IF o.at = "call" THEN 1 ELSE 0) <= x /\ o.attempt + 0 < Rounds(r, f)
    BY <2>1, <2>2 DEF CountedOK
  <2>4. o.tries \in Nat /\ o.attempt \in Nat
    BY <1>1 DEF OpRecords
  <2>5. x \in Int
    <3>1. PerRound(r, f) \in Nat /\ Rounds(r, f) \in Nat
      BY <1>4, BoundFacts
    <3>2. Cardinality(o.tried) \in Nat
      BY <1>4, BoundFacts DEF RequestOK, RecordOK
    <3>3. o.retries \in Nat
      BY <1>1 DEF OpRecords
    <3> QED
      BY <2>2, <2>4, <3>1, <3>2, <3>3
  <2>6. n.tries + 0 <= x
    BY <1>2, <2>3, <2>4, <2>5
  <2> QED
    BY <1>2, <2>1, <2>2, <2>3, <2>6 DEF CountedOK
<1> QED
  BY <1>2, <1>3, <1>4 DEF RequestOK

LEMMA Products ==
  ASSUME NEW a \in Nat, NEW b \in Nat, NEW P \in Nat, a <= b
  PROVE  a * P \in Nat /\ b * P \in Nat /\ a * P <= b * P /\ (a + 1) * P = a * P + P
PROOF
<1>1. a * P \in Nat /\ b * P \in Nat /\ (a + 1) * P = a * P + P
  OBVIOUS
<1>2. PICK d \in Nat : b = a + d
  <2>1. b - a \in Nat /\ b = a + (b - a)
    OBVIOUS
  <2> QED
    BY <2>1
<1>3. (a + d) * P = a * P + d * P /\ d * P \in Nat
  OBVIOUS
<1> QED
  BY <1>1, <1>2, <1>3

\* A request goes on within its round, or ends it.
LEMMA SameRoundOK ==
  ASSUME NEW f \in Fleets, NEW r \in Requests, NEW o, RequestOK(r, o, f), r \in f.requests,
         NEW n \in OpRecords, OneOK(n), RecordedOK(n),
         n.tried = o.tried, n.auth = o.auth, n.attempt = o.attempt, n.retries = o.retries,
         n.at = o.at \/ n.at \notin {"call", "wait"},
         n.at \in {"stream", "ending", "left"} => o.at \in {"call", "stream", "ending", "left"},
         n.boot \/ n.at \in {"stream", "ending", "left", "failed"} => r \in Stream,
         n.tries = o.tries \/ (n.tries = o.tries + 1 /\ o.at = "call" /\ n.at # "call")
  PROVE  RequestOK(r, n, f)
PROOF
<1>1. o \in OpRecords /\ RecordOK(r, o, f) /\ CountedOK(r, o, f)
  BY DEF RequestOK, RecordOK
<1>2. RecordOK(r, n, f)
  BY <1>1 DEF RecordOK
<1>3. CountedOK(r, n, f)
  <2>1. PICK x : x = (o.retries * Rounds(r, f) + o.attempt) * PerRound(r, f) + Cardinality(o.tried)
    OBVIOUS
  <2>2. o.tries \in Nat /\ o.attempt \in Nat /\ o.retries \in Nat /\ n.tries \in Nat
    BY <1>1 DEF OpRecords
  <2>3. PerRound(r, f) \in Nat /\ Rounds(r, f) \in Nat /\ Cardinality(o.tried) \in Nat
    BY <1>1, BoundFacts DEF RecordOK
  <2>4. x \in Int
    BY <2>1, <2>2, <2>3
  <2>5. o.tries + (IF o.at = "call" THEN 1 ELSE 0) <= x
    BY <1>1, <2>1 DEF CountedOK
  <2>6. n.tries + (IF n.at = "call" THEN 1 ELSE 0) <= x
    BY <2>2, <2>4, <2>5
  <2>7. n.attempt + (IF n.at = "wait" THEN 1 ELSE 0) < Rounds(r, f)
    BY <1>1, <2>2, <2>3 DEF CountedOK
  <2>8. Cardinality(n.tried) <= PerRound(r, f) /\ n.retries <= f.restarts
        /\ (n.retries > 0 => r \in Stream)
    BY <1>1 DEF CountedOK
  <2>9. n.tries + (IF n.at = "call" THEN 1 ELSE 0)
          <= (n.retries * Rounds(r, f) + n.attempt) * PerRound(r, f) + Cardinality(n.tried)
    BY <2>1, <2>6
  <2> QED
    BY <2>7, <2>8, <2>9 DEF CountedOK
<1> QED
  BY <1>2, <1>3 DEF RequestOK

\* The calls of a round that is over are within its part of the bound.
LEMMA RoundBound ==
  ASSUME NEW f \in Fleets, NEW r \in f.requests, NEW o \in OpRecords, CountedOK(r, o, f),
         o.at # "call"
  PROVE  /\ PerRound(r, f) \in Nat /\ Rounds(r, f) \in Nat
         /\ o.attempt + 1 <= Rounds(r, f)
         /\ o.tries <= (o.retries * Rounds(r, f) + (o.attempt + 1)) * PerRound(r, f)
         /\ o.tries <= ((o.retries + 1) * Rounds(r, f)) * PerRound(r, f)
PROOF
<1>1. PICK P \in Nat, R \in Nat : P = PerRound(r, f) /\ R = Rounds(r, f) /\ R >= 1
  BY BoundFacts
<1>2. PICK t \in Nat, e \in Nat, m \in Nat : t = o.tries /\ e = o.retries /\ m = o.attempt
  BY DEF OpRecords
<1>3. m + 1 <= R
  <2>1. m + (IF o.at = "wait" THEN 1 ELSE 0) < R
    BY <1>1, <1>2 DEF CountedOK
  <2>2. CASE o.at = "wait"
    BY <1>1, <1>2, <2>1, <2>2
  <2>3. CASE o.at # "wait"
    BY <1>1, <1>2, <2>1, <2>3
  <2> QED
    BY <2>2, <2>3
<1>4. PICK x : x = e * R
  OBVIOUS
<1>5. x \in Nat /\ (e + 1) * R = x + R
  BY <1>4, Products
<1>6. x + m \in Nat /\ x + m <= x + R
  BY <1>3, <1>5
<1>7. PICK y : y = (x + m) * P
  OBVIOUS
<1>8. y \in Nat /\ (x + (m + 1)) * P = y + P
  <2>1. (x + m) * P \in Nat /\ (x + m) * P <= (x + m) * P /\ ((x + m) + 1) * P = (x + m) * P + P
    BY <1>6, Products
  <2>2. (x + m) + 1 = x + (m + 1)
    BY <1>5
  <2> QED
    BY <1>7, <2>1, <2>2
<1>9. t <= y + P
  <2>1. t + 0 <= y + Cardinality(o.tried) /\ Cardinality(o.tried) <= P
    BY <1>1, <1>2, <1>4, <1>7 DEF CountedOK
  <2>2. CASE Cardinality(o.tried) \in Int
    BY <1>8, <2>1, <2>2
  <2>3. Cardinality(o.tried) \in Int
    <3>1. IsFiniteSet(o.tried)
      BY Finite DEF OpRecords
    <3> QED
      BY <3>1, FS_CardinalityType
  <2> QED
    BY <2>2, <2>3
<1>10. (x + (m + 1)) * P <= (x + R) * P
  <2>1. x + (m + 1) \in Nat /\ x + R \in Nat /\ x + (m + 1) <= x + R
    BY <1>3, <1>5
  <2> QED
    BY <2>1, Products
<1>11. t <= (x + (m + 1)) * P
  BY <1>8, <1>9
<1>12. t <= (x + R) * P
  <2>1. PICK u \in Int, v \in Int : u = (x + (m + 1)) * P /\ v = (x + R) * P
    BY <1>5
  <2> QED
    BY <1>10, <1>11, <2>1
<1> QED
  BY <1>1, <1>2, <1>3, <1>4, <1>5, <1>11, <1>12

\* A round ends with a wait for another.
LEMMA WaitOK ==
  ASSUME NEW f \in Fleets, NEW r \in Requests, NEW o, RequestOK(r, o, f), o.at = "decide",
         NEW a \in OwnIn(r, f), o.attempt < Retry[a], NEW wait \in Nat, NEW P \in SUBSET Auths,
         NEW n, n = [o EXCEPT !.at = "wait", !.wait = wait, !.promised = P]
  PROVE  n \in OpRecords /\ RequestOK(r, n, f)
PROOF
<1>1. o \in OpRecords /\ r \in f.requests /\ CountedOK(r, o, f)
  BY DEF RequestOK, RecordOK
<1>2. /\ n \in OpRecords /\ n.at = "wait" /\ n.attempt = o.attempt /\ n.tried = o.tried
      /\ n.auth = o.auth /\ n.boot = o.boot /\ n.retries = o.retries /\ n.sent = o.sent
      /\ n.canceled = o.canceled /\ n.cut = o.cut
      /\ n.tries = o.tries /\ n.unrecorded = o.unrecorded
  BY <1>1 DEF OpRecords, Places
<1>3. RecordOK(r, n, f) /\ OneOK(n) /\ RecordedOK(n)
  BY <1>2 DEF RequestOK, RecordOK, OneOK, RecordedOK
<1>4. o.attempt + 1 < Rounds(r, f)
  <2>1. Retry[a] < Rounds(r, f) /\ Rounds(r, f) \in Nat
    BY <1>1, BoundFacts
  <2>2. Retry[a] \in Nat /\ o.attempt \in Nat
    BY <1>1, FleetFacts, DispatchAssumption DEF OpRecords
  <2> QED
    BY <2>1, <2>2
<1>5. CountedOK(r, n, f)
  BY <1>1, <1>2, <1>4 DEF CountedOK
<1> QED
  BY <1>2, <1>3, <1>5 DEF RequestOK

\* Another round begins.
LEMMA AgainOK ==
  ASSUME NEW f \in Fleets, NEW r \in Requests, NEW o, RequestOK(r, o, f), o.at = "wait",
         NEW n,
         n = [o EXCEPT !.at = "pick", !.attempt = o.attempt + 1, !.tried = {},
                       !.error = NoError, !.boot = FALSE]
  PROVE  n \in OpRecords /\ RequestOK(r, n, f)
PROOF
<1>1. o \in OpRecords /\ r \in f.requests /\ CountedOK(r, o, f)
  BY DEF RequestOK, RecordOK
<1>2. /\ n \in OpRecords /\ n.at = "pick" /\ n.attempt = o.attempt + 1 /\ n.tried = {}
      /\ n.auth = o.auth /\ ~n.boot /\ n.retries = o.retries /\ n.sent = o.sent
      /\ n.canceled = o.canceled /\ n.cut = o.cut
      /\ n.tries = o.tries /\ n.unrecorded = o.unrecorded
  <2>1. NoError \in Errors /\ "pick" \in Places
    BY DEF Errors, Places
  <2>2. o.attempt + 1 \in Nat
    BY <1>1 DEF OpRecords
  <2>3. n \in OpRecords
    BY <1>1, <2>1, <2>2 DEF OpRecords
  <2> QED
    BY <1>1, <2>1, <2>2, <2>3 DEF OpRecords
<1>3. RecordOK(r, n, f) /\ OneOK(n) /\ RecordedOK(n)
  BY <1>2 DEF RequestOK, RecordOK, OneOK, RecordedOK
<1>4. CountedOK(r, n, f)
  <2>1. PerRound(r, f) \in Nat /\ Rounds(r, f) \in Nat
        /\ o.tries <= (o.retries * Rounds(r, f) + (o.attempt + 1)) * PerRound(r, f)
    BY <1>1, RoundBound
  <2>2. Cardinality(n.tried) = 0
    BY <1>2, FS_EmptySet
  <2>3. o.attempt + 1 < Rounds(r, f) /\ o.attempt \in Nat /\ o.tries \in Nat /\ o.retries \in Nat
    BY <1>1 DEF CountedOK, OpRecords
  <2>4. PICK x \in Int : x = (n.retries * Rounds(r, f) + n.attempt) * PerRound(r, f)
    BY <1>2, <2>1, <2>3
  <2>5. n.tries + 0 <= x + Cardinality(n.tried)
    BY <1>2, <2>1, <2>2, <2>3, <2>4
  <2>6. n.attempt + 0 < Rounds(r, f)
    BY <1>2, <2>1, <2>3
  <2>7. n.at # "wait" /\ n.at # "call" /\ Cardinality(n.tried) <= PerRound(r, f)
    BY <1>2, <2>1, <2>2
  <2>8. n.retries <= f.restarts /\ (n.retries > 0 => r \in Stream)
    BY <1>1, <1>2 DEF CountedOK
  <2> QED
    BY <2>4, <2>5, <2>6, <2>7, <2>8 DEF CountedOK
<1> QED
  BY <1>2, <1>3, <1>4 DEF RequestOK

\* The handler starts the request again.
LEMMA RestartOK ==
  ASSUME NEW f \in Fleets, NEW r \in Requests, NEW o, RequestOK(r, o, f),
         (o.at = "decide" /\ o.boot) \/ o.at = "failed", ~o.sent, o.retries < f.restarts, NEW n,
         n = [o EXCEPT !.at = "pick", !.attempt = 0, !.tried = {}, !.error = NoError,
                       !.boot = FALSE, !.retries = o.retries + 1]
  PROVE  n \in OpRecords /\ RequestOK(r, n, f)
PROOF
<1>1. o \in OpRecords /\ r \in f.requests /\ CountedOK(r, o, f) /\ r \in Stream
  BY DEF RequestOK, RecordOK
<1>2. /\ n \in OpRecords /\ n.at = "pick" /\ n.attempt = 0 /\ n.tried = {}
      /\ n.auth = o.auth /\ ~n.boot /\ n.retries = o.retries + 1 /\ n.sent = o.sent
      /\ n.canceled = o.canceled /\ n.cut = o.cut
      /\ n.tries = o.tries /\ n.unrecorded = o.unrecorded
  <2>1. NoError \in Errors /\ "pick" \in Places
    BY DEF Errors, Places
  <2>2. o.retries + 1 \in Nat
    BY <1>1 DEF OpRecords
  <2>3. n \in OpRecords
    BY <1>1, <2>1, <2>2 DEF OpRecords
  <2> QED
    BY <1>1, <2>1, <2>2, <2>3 DEF OpRecords
<1>3. RecordOK(r, n, f) /\ OneOK(n) /\ RecordedOK(n)
  BY <1>2 DEF RequestOK, RecordOK, OneOK, RecordedOK
<1>4. CountedOK(r, n, f)
  <2>1. PerRound(r, f) \in Nat /\ Rounds(r, f) \in Nat /\ Rounds(r, f) >= 1
        /\ o.tries <= ((o.retries + 1) * Rounds(r, f)) * PerRound(r, f)
    BY <1>1, RoundBound, BoundFacts
  <2>2. Cardinality(n.tried) = 0
    BY <1>2, FS_EmptySet
  <2>3. o.tries \in Nat /\ o.retries \in Nat /\ f.restarts \in Nat
    BY <1>1, FleetFacts DEF OpRecords
  <2>4. PICK x \in Int : x = (n.retries * Rounds(r, f)) * PerRound(r, f)
    BY <1>2, <2>1, <2>3
  <2>5. (n.retries * Rounds(r, f) + n.attempt) * PerRound(r, f) = x
    <3>1. n.retries * Rounds(r, f) + 0 = n.retries * Rounds(r, f)
      BY <1>2, <2>1, <2>3
    <3> QED
      BY <1>2, <2>4, <3>1
  <2>6. n.tries + 0 <= x + Cardinality(n.tried)
    BY <1>2, <2>1, <2>2, <2>3, <2>4
  <2>7. n.attempt + 0 < Rounds(r, f) /\ n.retries <= f.restarts
    BY <1>2, <2>1, <2>3
  <2>8. n.at # "wait" /\ n.at # "call" /\ Cardinality(n.tried) <= PerRound(r, f)
    BY <1>2, <2>1, <2>2
  <2> QED
    BY <1>1, <2>5, <2>6, <2>7, <2>8 DEF CountedOK
<1> QED
  BY <1>2, <1>3, <1>4 DEF RequestOK

-----------------------------------------------------------------------------
(***************************************************************************)
(* What the steps do to the indexes, and to the other requests.            *)
(***************************************************************************)
\* The shards of the providers concerned by a change of the ready credentials
\* are rebuilt.
LEMMA ShardsOK ==
  ASSUME NEW shards, NEW old \in SUBSET Auths, NEW set \in SUBSET Auths, ViewsOK(shards, old),
         NEW Q, \A a \in (old \ set) \cup (set \ old) : ProviderOf[a] \in Q, NEW new,
         new = [p \in Providers |-> IF p \in Q THEN Rebuilt(shards[p], old, set, p)
                                    ELSE shards[p]]
  PROVE  ViewsOK(new, set)
PROOF
<1>1. ASSUME NEW p \in Providers
      PROVE  /\ new[p] \in [Priorities -> [cursor : Nat, parent : Nat, child : [Parents -> Nat]]]
             /\ \A priority \in Priorities : ViewOK(new[p][priority], Bucket(set, p, priority))
  <2>1. CASE p \in Q
    <3>1. PICK b : b = Rebuilt(shards[p], old, set, p)
      OBVIOUS
    <3>2. /\ b \in [Priorities -> [cursor : Nat, parent : Nat, child : [Parents -> Nat]]]
          /\ \A priority \in Priorities : ViewOK(b[priority], Bucket(set, p, priority))
      BY <3>1, RebuiltOK
    <3>3. new[p] = b
      BY <2>1, <3>1
    <3> QED
      BY <3>2, <3>3
  <2>2. CASE p \notin Q
    <3>1. new[p] = shards[p]
      BY <2>2
    <3>2. \A priority \in Priorities : Bucket(set, p, priority) = Bucket(old, p, priority)
      BY <2>2 DEF Bucket
    <3> QED
      BY <3>1, <3>2 DEF ViewsOK, AllViews
  <2> QED
    BY <2>1, <2>2
<1>2. new = [p \in Providers |-> new[p]]
  OBVIOUS
<1>3. new \in AllViews
  <2> HIDE DEF AllViews
  <2>1. \A p \in Providers :
          new[p] \in [Priorities -> [cursor : Nat, parent : Nat, child : [Parents -> Nat]]]
    BY <1>1
  <2> QED
    BY <1>2, <2>1 DEF AllViews
<1> QED
  BY <1>1, <1>3 DEF ViewsOK

LEMMA RecordIndexes ==
  ASSUME IndexesOK, NEW a \in fleet.auths, NEW ticks \in Nat, Record(a, ticks)
  PROVE  IndexesOK' /\ fleet' = fleet
PROOF
<1> DEFINE new == IF ticks = 0 THEN ready \cup {a} ELSE ready \ {a}
<1>1. a \in Auths /\ fleet.auths \subseteq Auths /\ ready \in SUBSET Auths
  BY DispatchAssumption DEF IndexesOK
<1>2. fleet' = fleet /\ slots' = slots /\ left' \in [Auths -> Nat]
  BY <1>1 DEF IndexesOK, Record
<1>3. CASE SameEntry(a, ticks)
  <2>1. ready' = ready /\ views' = views
    BY <1>3 DEF Record
  <2> QED
    BY <1>2, <2>1 DEF IndexesOK
<1>4. CASE ~SameEntry(a, ticks)
  <2>1. /\ ready' = new
         /\ views' = [views EXCEPT ![ProviderOf[a]] =
                        Rebuilt(views[ProviderOf[a]], ready, new, ProviderOf[a])]
    BY <1>4 DEF Record
  <2>2. ViewsOK(views, ready) /\ views \in AllViews
    BY DEF IndexesOK, ViewsOK
  <2>3. new \in SUBSET Auths /\ new \subseteq fleet.auths
    BY <1>1 DEF IndexesOK
  <2>4. \A b \in (ready \ new) \cup (new \ ready) : ProviderOf[b] \in {ProviderOf[a]}
    OBVIOUS
  <2> HIDE DEF new
  <2>5. views' = [p \in Providers |-> IF p \in {ProviderOf[a]} THEN Rebuilt(views[p], ready, new, p)
                                      ELSE views[p]]
    BY <2>1, <2>2 DEF AllViews
  <2>6. ViewsOK(views', new)
    BY <1>1, <2>2, <2>3, <2>4, <2>5, ShardsOK
  <2> QED
    BY <1>2, <2>1, <2>3, <2>6 DEF IndexesOK
<1> QED
  BY <1>2, <1>3, <1>4

LEMMA PromotedOK ==
  ASSUME IndexesOK, NEW r \in Requests
  PROVE  /\ Promoted(r) \subseteq fleet.auths /\ Promoted(r) \in SUBSET Auths
         /\ ViewsOK(PromotedViews(r), Promoted(r))
PROOF
<1> DEFINE now == Promoted(r)
           Q == {ProviderOf[a] : a \in now \ ready}
<1>1. fleet.auths \subseteq Auths /\ ready \in SUBSET Auths
  BY DispatchAssumption DEF IndexesOK
<1>2. now \subseteq fleet.auths /\ now \in SUBSET Auths /\ ready \subseteq now
  BY <1>1 DEF Promoted, Own, OfProviders, IndexesOK
<1>3. PromotedViews(r) = [p \in Providers |-> IF p \in Q THEN Rebuilt(views[p], ready, now, p)
                                              ELSE views[p]]
  BY DEF PromotedViews
<1>4. \A a \in (ready \ now) \cup (now \ ready) : ProviderOf[a] \in Q
  BY <1>2
<1> HIDE DEF now, Q
<1>5. ViewsOK(views, ready)
  BY DEF IndexesOK
<1>6. ViewsOK(PromotedViews(r), now)
  BY <1>1, <1>2, <1>3, <1>4, <1>5, ShardsOK
<1> QED
  BY <1>2, <1>6 DEF now

LEMMA ChoiceOK ==
  ASSUME IndexesOK, NEW r \in Requests, Untried(r) # {}, NEW now, now = Promoted(r),
         NEW choice, choice = Choice(r, now)
  PROVE  /\ choice.auth \in OwnIn(r, fleet) \ op[r].tried /\ choice.auth \in now
         /\ ViewsOK(choice.views, now) /\ choice.slot \in 0..Cardinality(Auths)
PROOF
<1>1. PICK list, eligible, shards, slot :
        /\ list = List[r] /\ eligible = Auths \ op[r].tried /\ shards = PromotedViews(r)
        /\ slot = slots[List[r]]
  OBVIOUS
<1>2. now \subseteq fleet.auths /\ now \in SUBSET Auths /\ ViewsOK(shards, now)
  BY <1>1, PromotedOK
<1>3. ListOK(list)
  BY <1>1, FleetFacts DEF IndexesOK
<1>4. OfProviders(now \cap eligible, list) # {}
  BY <1>1, <1>2 DEF Untried, OfProviders
<1>5. slot \in 0..Cardinality(Auths)
  BY <1>1 DEF IndexesOK, Lists
<1>6. /\ choice.auth \in OfProviders(now \cap eligible, list)
      /\ ViewsOK(choice.views, now) /\ choice.slot \in 0..Cardinality(Auths)
  <2>1. CASE fleet.strategy = "fill-first"
    <3>1. choice = FillFirst(now, shards, list, eligible, slot)
      BY <1>1, <2>1 DEF Choice
    <3> QED
      BY <1>2, <1>3, <1>4, <1>5, <3>1, FillFirstFacts
  <2>2. CASE fleet.strategy # "fill-first"
    <3>1. choice = RoundRobin(now, shards, list, eligible, slot)
      BY <1>1, <2>2 DEF Choice
    <3> QED
      BY <1>2, <1>3, <1>4, <1>5, <3>1, RoundRobinFacts
  <2> QED
    BY <2>1, <2>2
<1> QED
  BY <1>1, <1>2, <1>6 DEF OwnIn, OfProviders

LEMMA StepOK ==
  ASSUME RequestsOK, fleet' = fleet, NEW r \in Requests, NEW n \in OpRecords,
         RequestOK(r, n, fleet), Step(r, n)
  PROVE  RequestsOK'
PROOF
<1>1. op' = [op EXCEPT ![r] = n] /\ op \in [Requests -> OpRecords]
  BY DEF Step, RequestsOK
<1>2. op' \in [Requests -> OpRecords]
  BY <1>1
<1>3. ASSUME NEW q \in Requests PROVE RequestOK(q, op'[q], fleet)
  BY <1>1 DEF RequestsOK
<1> QED
  BY <1>2, <1>3 DEF RequestsOK

LEMMA StepRecordingOK ==
  ASSUME RequestsOK, fleet' = fleet, NEW r \in Requests, NEW n \in OpRecords,
         RequestOK(r, n, fleet), NEW a, StepRecording(r, a, n)
  PROVE  RequestsOK'
PROOF
<1>1. op \in [Requests -> OpRecords]
  BY DEF RequestsOK
<1>2. PICK drop : drop = (IF left'[a] > 0 THEN {a} ELSE {})
  OBVIOUS
<1>3. op' = [q \in Requests |->
               IF q = r THEN n ELSE [op[q] EXCEPT !.promised = op[q].promised \ drop]]
  <2>1. ASSUME NEW q \in Requests
        PROVE  [op[q] EXCEPT !.promised = IF left'[a] > 0 THEN op[q].promised \ {a}
                                          ELSE op[q].promised]
                 = [op[q] EXCEPT !.promised = op[q].promised \ drop]
    BY <1>2
  <2> QED
    BY <2>1 DEF StepRecording
<1>4. ASSUME NEW q \in Requests PROVE op'[q] \in OpRecords /\ RequestOK(q, op'[q], fleet)
  <2>1. CASE q = r
    BY <1>3, <2>1
  <2>2. CASE q # r
    <3>1. PICK o, P, f : o = op[q] /\ P = op[q].promised \ drop /\ f = fleet
      OBVIOUS
    <3>2. P \in SUBSET Auths
      BY <1>1, <3>1 DEF OpRecords
    <3>3. RequestOK(q, o, f)
      BY <3>1 DEF RequestsOK
    <3>4. 0 \in Nat
      OBVIOUS
    <3>5. RequestOK(q, [o EXCEPT !.promised = P], f) /\ [o EXCEPT !.promised = P] \in OpRecords
      BY <3>2, <3>3, <3>4, NearOK
    <3>6. op'[q] = [o EXCEPT !.promised = P]
      BY <1>3, <2>2, <3>1
    <3> QED
      BY <3>1, <3>5, <3>6
  <2> QED
    BY <2>1, <2>2
<1>5. op' \in [Requests -> OpRecords]
  BY <1>3, <1>4
<1> QED
  BY <1>4, <1>5 DEF RequestsOK

LEMMA WaitFacts ==
  ASSUME DispatchInv, NEW r \in Requests, NEW wait \in WaitOf(r)
  PROVE  wait \in Nat /\ \E a \in OwnIn(r, fleet) : op[r].attempt < Retry[a]
PROOF
<1> DEFINE cooling == CoolingOf(r)
           T == {left[a] : a \in cooling}
<1>1. Own(r) = OwnIn(r, fleet) /\ Own(r) \in SUBSET Auths /\ left \in [Auths -> Nat]
  BY FleetFacts DEF Own, OwnIn, DispatchInv, IndexesOK
<1>2. /\ wait = IF cooling # {} THEN Min(T) ELSE RetryAfter
      /\ cooling # {} \/ RetryAllowed(r)
  BY DEF WaitOf
<1>3. \E a \in OwnIn(r, fleet) : op[r].attempt < Retry[a]
  BY <1>1, <1>2 DEF CoolingOf, RetryAllowed
<1>4. T \in SUBSET Nat
  BY <1>1 DEF CoolingOf
<1>5. cooling # {} => T # {}
  OBVIOUS
<1> HIDE DEF T, cooling
<1>6. wait \in Nat
  <2>1. CASE cooling # {}
    <3>1. wait = Min(T) /\ T # {}
      BY <1>2, <1>5, <2>1
    <3>2. Min(T) \in T
      BY <1>4, <3>1, MinFacts
    <3> QED
      BY <1>4, <3>1, <3>2
  <2>2. CASE cooling = {}
    BY <1>2, <2>2 DEF RetryAfter
  <2> QED
    BY <2>1, <2>2
<1> QED
  BY <1>3, <1>6

-----------------------------------------------------------------------------
(***************************************************************************)
(* The invariants hold at first and are preserved, action by action.       *)
(***************************************************************************)
LEMMA DispatchInit == Init => DispatchInv
PROOF
<1> SUFFICES ASSUME Init PROVE DispatchInv
  OBVIOUS
<1>1. fleet \in Fleets /\ fleet.auths \subseteq Auths
  BY DispatchAssumption DEF Init
<1>2. IndexesOK
  <2>1. \A p \in Providers, priority \in Priorities :
          ViewOK(views[p][priority], Bucket(ready, p, priority))
    <3> TAKE p \in Providers, priority \in Priorities
    <3>1. PICK b \in SUBSET Auths : b = Bucket(ready, p, priority)
      BY <1>1 DEF Init, Bucket
    <3>2. views[p][priority] = FreshView
      BY DEF Init
    <3> QED
      BY <3>1, <3>2, FreshViewOK
  <2>2. FreshView \in [cursor : Nat, parent : Nat, child : [Parents -> Nat]]
    BY DEF FreshView
  <2>3. views \in AllViews
    BY <2>2 DEF Init, AllViews
  <2>4. slots \in [Lists -> 0..Cardinality(Auths)]
    <3>1. Cardinality(Auths) \in Nat
      BY RotationAssumption, FS_CardinalityType
    <3> QED
      BY <3>1 DEF Init
  <2>5. left \in [Auths -> Nat] /\ ready \subseteq fleet.auths
    BY DEF Init
  <2> QED
    BY <1>1, <2>1, <2>3, <2>4, <2>5 DEF IndexesOK, ViewsOK
<1>3. ASSUME NEW r \in Requests PROVE IdleOp \in OpRecords /\ RequestOK(r, IdleOp, fleet)
  <2>1. IdleOp = [IdleOp EXCEPT !.at = "idle", !.canceled = FALSE, !.cut = FALSE,
                                !.unrecorded = 0]
    <3>1. /\ IdleOp.at = "idle" /\ IdleOp.canceled = FALSE /\ IdleOp.cut = FALSE
          /\ IdleOp.unrecorded = 0
      BY DEF IdleOp
    <3>2. IdleOp = [IdleOp EXCEPT !.at = IdleOp.at, !.canceled = IdleOp.canceled,
                                  !.cut = IdleOp.cut, !.unrecorded = IdleOp.unrecorded]
      BY DEF IdleOp
    <3> QED
      BY <3>1, <3>2
  <2> QED
    BY <1>1, <2>1, IdleOK
<1>4. RequestsOK
  BY <1>3 DEF Init, RequestsOK
<1> QED
  BY <1>2, <1>4 DEF DispatchInv

LEMMA ProceedOK ==
  ASSUME DispatchInv, NEW r \in Requests, Proceed(r)
  PROVE  DispatchInv'
PROOF
<1> DEFINE o == op[r]
<1>1. IndexesOK /\ RequestsOK /\ fleet \in Fleets /\ op \in [Requests -> OpRecords]
  BY DEF DispatchInv, IndexesOK, RequestsOK
<1>2. o \in OpRecords /\ RequestOK(r, o, fleet) /\ OneOK(o) /\ RecordedOK(o)
      /\ RecordOK(r, o, fleet)
  BY <1>1 DEF RequestsOK, RequestOK
<1>3. /\ fleet.auths \subseteq Auths /\ fleet.kinds \subseteq Kinds /\ Kinds \subseteq Errors
      /\ NoError \in Errors /\ "cooling" \in Errors /\ "canceled" \in Errors
      /\ OwnIn(r, fleet) \subseteq fleet.auths
  BY <1>1, DispatchAssumption DEF Errors, OwnIn, OfProviders
<1>4. o.at # "idle" => r \in fleet.requests
  BY <1>2 DEF RecordOK
<1>5. o.at \in {"call", "stream", "ending", "left"} => o.auth \in fleet.auths
  BY <1>2, <1>3 DEF RecordOK
<1>6. ASSUME UNCHANGED <<fleet, left, indexes>> PROVE IndexesOK' /\ fleet' = fleet
  BY <1>1, <1>6 DEF indexes, IndexesOK
<1>7. ASSUME NEW kind \in fleet.kinds, NEW a \in fleet.auths, RecordFailure(a, kind)
      PROVE  IndexesOK' /\ fleet' = fleet
  <2>1. PICK ticks \in Nat : Record(a, ticks)
    BY <1>3, <1>7, DispatchAssumption DEF RecordFailure
  <2> QED
    BY <1>1, <2>1, RecordIndexes
<1>8. ASSUME NEW a \in fleet.auths, RecordSuccess(a) PROVE IndexesOK' /\ fleet' = fleet
  BY <1>1, <1>8, RecordIndexes DEF RecordSuccess
<1>9. ASSUME NEW n \in OpRecords, RequestOK(r, n, fleet), fleet' = fleet,
             Step(r, n) \/ \E a : StepRecording(r, a, n)
      PROVE  RequestsOK'
  BY <1>1, <1>9, StepOK, StepRecordingOK
<1>10. ASSUME NEW n \in OpRecords, RequestOK(r, n, fleet), IndexesOK', fleet' = fleet,
              Step(r, n) \/ \E a : StepRecording(r, a, n)
       PROVE  DispatchInv'
  BY <1>9, <1>10 DEF DispatchInv
<1> HIDE DEF o
<1>11. CASE Pick(r)
  <2>1. o.at = "pick" /\ Untried(r) # {}
        /\ (fleet.limit = 0 \/ Cardinality(o.tried) < fleet.limit)
        /\ fleet' = fleet /\ left' = left
    BY <1>11 DEF Pick, At, MayTryMore, o
  <2>2. PICK now \in {Promoted(r)} : \E choice \in {Choice(r, now)} :
          /\ ready' = now
          /\ views' = choice.views
          /\ slots' = [slots EXCEPT ![List[r]] = choice.slot]
          /\ Step(r, [o EXCEPT !.at = "call", !.auth = choice.auth,
                               !.tried = o.tried \cup {choice.auth}, !.promised = {}])
    BY <1>11 DEF Pick, o
  <2>3. PICK choice :
          /\ choice = Choice(r, now) /\ ready' = now
          /\ views' = choice.views
          /\ slots' = [slots EXCEPT ![List[r]] = choice.slot]
          /\ Step(r, [o EXCEPT !.at = "call", !.auth = choice.auth,
                               !.tried = o.tried \cup {choice.auth}, !.promised = {}])
    BY <2>2
  <2>4. now = Promoted(r)
    BY <2>2
  <2>5. /\ choice.auth \in OwnIn(r, fleet) \ o.tried
        /\ ViewsOK(choice.views, now) /\ choice.slot \in 0..Cardinality(Auths)
    BY <1>1, <2>1, <2>3, <2>4, ChoiceOK DEF o
  <2>6. IndexesOK'
    <3>1. now \subseteq fleet.auths
      BY <1>1, <2>4, PromotedOK
    <3>2. slots' \in [Lists -> 0..Cardinality(Auths)]
      BY <1>1, <2>3, <2>5 DEF IndexesOK
    <3> QED
      BY <1>1, <2>1, <2>3, <2>5, <3>1, <3>2 DEF IndexesOK
  <2>7. PICK n : n = [o EXCEPT !.at = "call", !.auth = choice.auth,
                               !.tried = o.tried \cup {choice.auth}, !.promised = {}]
    OBVIOUS
  <2>8. n \in OpRecords /\ RequestOK(r, n, fleet)
    BY <1>1, <1>2, <2>1, <2>5, <2>7, PickOK
  <2> QED
    BY <1>10, <2>1, <2>3, <2>6, <2>7, <2>8
<1>12. CASE PickMiss(r)
  <2>1. o.at = "pick" /\ fleet' = fleet /\ left' = left
        /\ ready' = {a \in Own(r) : left[a] = 0}
        /\ views' = [p \in Providers |-> [priority \in Priorities |-> FreshView]]
        /\ slots' = [l \in Lists |-> 0]
    BY <1>12 DEF PickMiss, At, o
  <2>2. IndexesOK'
    <3>1. ready' \subseteq fleet.auths /\ ready' \in SUBSET Auths
      BY <1>3, <2>1 DEF Own, OfProviders
    <3>2. FreshView \in [cursor : Nat, parent : Nat, child : [Parents -> Nat]]
      BY DEF FreshView
    <3>3. views' \in AllViews
      BY <2>1, <3>2 DEF AllViews
    <3>4. \A p \in Providers, priority \in Priorities :
            ViewOK(views'[p][priority], Bucket(ready', p, priority))
      <4> TAKE p \in Providers, priority \in Priorities
      <4>1. PICK b \in SUBSET Auths : b = Bucket(ready', p, priority)
        BY <3>1 DEF Bucket
      <4>2. views'[p][priority] = FreshView
        BY <2>1
      <4> QED
        BY <4>1, <4>2, FreshViewOK
    <3>5. slots' \in [Lists -> 0..Cardinality(Auths)]
      <4>1. Cardinality(Auths) \in Nat
        BY RotationAssumption, FS_CardinalityType
      <4> QED
        BY <2>1, <4>1
    <3> QED
      BY <1>1, <2>1, <3>1, <3>3, <3>4, <3>5 DEF IndexesOK, ViewsOK
  <2>3. PICK e \in Errors : e = IF o.error = NoError THEN "cooling" ELSE o.error
    BY <1>2, <1>3 DEF OpRecords
  <2>4. PICK n : n = [o EXCEPT !.at = "decide", !.error = e, !.boot = o.boot, !.promised = {}]
    OBVIOUS
  <2>5. Step(r, n)
    <3>1. n = [o EXCEPT !.at = "decide", !.promised = {},
                        !.error = IF o.error = NoError THEN "cooling" ELSE o.error]
      BY <1>2, <2>3, <2>4 DEF OpRecords
    <3> QED
      BY <1>12, <3>1 DEF PickMiss, o
  <2>6. n \in OpRecords /\ RequestOK(r, n, fleet)
    <3>1. o.boot \in BOOLEAN /\ (o.boot => r \in Stream) /\ {} \in SUBSET Auths
      BY <1>2 DEF OpRecords, RecordOK
    <3> QED
      BY <1>1, <1>2, <2>1, <2>4, <3>1, RoundOK
  <2> QED
    BY <1>10, <2>1, <2>2, <2>5, <2>6
<1>13. CASE LimitReached(r)
  <2>1. o.at = "pick" /\ UNCHANGED <<fleet, left, indexes>> /\ Step(r, [o EXCEPT !.at = "decide"])
    BY <1>13 DEF LimitReached, At, o
  <2>2. PICK n : n = [o EXCEPT !.at = "decide"]
    OBVIOUS
  <2>3. /\ n \in OpRecords /\ n.at = "decide" /\ n.attempt = o.attempt /\ n.tried = o.tried
        /\ n.auth = o.auth /\ n.boot = o.boot /\ n.retries = o.retries /\ n.sent = o.sent
        /\ n.canceled = o.canceled /\ n.cut = o.cut
        /\ n.tries = o.tries /\ n.unrecorded = o.unrecorded
    BY <1>2, <2>2 DEF OpRecords, Places
  <2>4. OneOK(n) /\ RecordedOK(n) /\ (n.boot => r \in Stream)
    BY <1>2, <2>1, <2>3 DEF OneOK, RecordedOK, RecordOK
  <2>5. RequestOK(r, n, fleet)
    BY <1>1, <1>2, <1>4, <2>1, <2>3, <2>4, SameRoundOK
  <2> QED
    BY <1>6, <1>10, <2>1, <2>2, <2>3, <2>5
<1>14. CASE PrepareFails(r)
  <2>1. PICK kind \in fleet.kinds :
          /\ o.at = "call" /\ RecordFailure(o.auth, kind)
          /\ StepRecording(r, o.auth, [o EXCEPT !.at = "pick", !.error = kind, !.boot = FALSE])
    BY <1>14 DEF PrepareFails, At, o
  <2>2. IndexesOK' /\ fleet' = fleet
    BY <1>5, <1>7, <2>1
  <2>3. PICK n : n = [o EXCEPT !.at = "pick", !.error = kind, !.boot = FALSE]
    OBVIOUS
  <2>4. /\ n \in OpRecords /\ n.at = "pick" /\ n.attempt = o.attempt /\ n.tried = o.tried
        /\ n.auth = o.auth /\ ~n.boot /\ n.retries = o.retries /\ n.sent = o.sent
        /\ n.canceled = o.canceled /\ n.cut = o.cut
        /\ n.tries = o.tries /\ n.unrecorded = o.unrecorded
    BY <1>2, <1>3, <2>3 DEF OpRecords, Places
  <2>5. OneOK(n) /\ RecordedOK(n)
    BY <1>2, <2>1, <2>4 DEF OneOK, RecordedOK
  <2>6. RequestOK(r, n, fleet)
    BY <1>1, <1>2, <1>4, <2>1, <2>4, <2>5, SameRoundOK
  <2> QED
    BY <1>10, <2>1, <2>2, <2>3, <2>4, <2>6
<1>15. CASE CallSucceeds(r)
  <2>1. /\ o.at = "call" /\ RecordSuccess(o.auth)
        /\ StepRecording(r, o.auth, Finished([o EXCEPT !.tries = o.tries + 1]))
    BY <1>15 DEF CallSucceeds, At, Called, o
  <2>2. IndexesOK' /\ fleet' = fleet
    BY <1>5, <1>8, <2>1
  <2>3. PICK n : n = Finished([o EXCEPT !.tries = o.tries + 1])
    OBVIOUS
  <2>4. n \in OpRecords /\ RequestOK(r, n, fleet)
    BY <1>1, <1>2, <2>1, <2>3, FinishedOK
  <2> QED
    BY <1>10, <2>1, <2>2, <2>3, <2>4
<1>16. CASE CallFails(r)
  <2>1. PICK kind \in fleet.kinds, boot \in BOOLEAN :
          /\ o.at = "call" /\ RecordFailure(o.auth, kind) /\ (boot => r \in Stream)
          /\ StepRecording(r, o.auth,
               [[o EXCEPT !.tries = o.tries + 1]
                  EXCEPT !.at = IF kind = "invalid" THEN "decide" ELSE "pick",
                         !.error = kind, !.boot = boot])
    BY <1>16 DEF CallFails, At, Called, o
  <2>2. IndexesOK' /\ fleet' = fleet
    BY <1>5, <1>7, <2>1
  <2>3. PICK at \in {"pick", "decide"} : at = IF kind = "invalid" THEN "decide" ELSE "pick"
    OBVIOUS
  <2>4. PICK n : n = [[o EXCEPT !.tries = o.tries + 1]
                        EXCEPT !.at = IF kind = "invalid" THEN "decide" ELSE "pick",
                               !.error = kind, !.boot = boot]
    OBVIOUS
  <2>5. o.tries + 1 \in Nat
    BY <1>2 DEF OpRecords
  <2>6. n = [o EXCEPT !.tries = o.tries + 1, !.at = at, !.error = kind, !.boot = boot]
    BY <1>2, <2>3, <2>4 DEF OpRecords
  <2>7. /\ n \in OpRecords /\ n.at = at /\ n.attempt = o.attempt /\ n.tried = o.tried
        /\ n.auth = o.auth /\ n.boot = boot /\ n.retries = o.retries /\ n.sent = o.sent
        /\ n.canceled = o.canceled /\ n.cut = o.cut
        /\ n.tries = o.tries + 1 /\ n.unrecorded = o.unrecorded
    BY <1>2, <1>3, <2>5, <2>6 DEF OpRecords, Places
  <2>8. OneOK(n) /\ RecordedOK(n)
    BY <1>2, <2>1, <2>7 DEF OneOK, RecordedOK
  <2>9. RequestOK(r, n, fleet)
    BY <1>1, <1>2, <1>4, <2>1, <2>7, <2>8, SameRoundOK
  <2> QED
    BY <1>10, <2>1, <2>2, <2>4, <2>7, <2>9
<1>17. CASE CallAborted(r)
  <2>1. /\ o.at = "call" /\ o.canceled /\ UNCHANGED <<fleet, left, indexes>>
        /\ Step(r, [[o EXCEPT !.tries = o.tries + 1]
                      EXCEPT !.at = "decide", !.error = "canceled", !.boot = FALSE,
                             !.unrecorded = [o EXCEPT !.tries = o.tries + 1].unrecorded + 1])
    BY <1>17 DEF CallAborted, At, Called, o
  <2>2. PICK n : n = [[o EXCEPT !.tries = o.tries + 1]
                      EXCEPT !.at = "decide", !.error = "canceled", !.boot = FALSE,
                             !.unrecorded = [o EXCEPT !.tries = o.tries + 1].unrecorded + 1]
    OBVIOUS
  <2>3. o.tries + 1 \in Nat /\ o.unrecorded + 1 \in Int /\ o.unrecorded \in Int
    BY <1>2 DEF OpRecords
  <2>4. n = [o EXCEPT !.tries = o.tries + 1, !.at = "decide", !.error = "canceled",
                      !.boot = FALSE, !.unrecorded = o.unrecorded + 1]
    BY <1>2, <2>2 DEF OpRecords
  <2>5. /\ n \in OpRecords /\ n.at = "decide" /\ n.attempt = o.attempt /\ n.tried = o.tried
        /\ n.auth = o.auth /\ ~n.boot /\ n.retries = o.retries /\ n.sent = o.sent
        /\ n.canceled = o.canceled /\ n.cut = o.cut
        /\ n.tries = o.tries + 1 /\ n.unrecorded = o.unrecorded + 1
    BY <1>2, <1>3, <2>3, <2>4 DEF OpRecords, Places
  <2>6. OneOK(n) /\ RecordedOK(n)
    BY <1>2, <2>1, <2>3, <2>5 DEF OneOK, RecordedOK
  <2>7. RequestOK(r, n, fleet)
    BY <1>1, <1>2, <1>4, <2>1, <2>5, <2>6, SameRoundOK
  <2> QED
    BY <1>6, <1>10, <2>1, <2>2, <2>5, <2>7
<1>18. CASE StartWait(r)
  <2>1. PICK wait \in WaitOf(r) :
          /\ o.at = "decide" /\ UNCHANGED <<fleet, left, indexes>>
          /\ Step(r, [o EXCEPT !.at = "wait", !.wait = wait,
                               !.promised = {a \in CoolingOf(r) : left[a] = wait}])
    BY <1>18 DEF StartWait, At, o
  <2>2. PICK P \in SUBSET Auths : P = {a \in CoolingOf(r) : left[a] = wait}
    BY <1>3 DEF CoolingOf, Own, OfProviders
  <2>3. PICK n : n = [o EXCEPT !.at = "wait", !.wait = wait, !.promised = P]
    OBVIOUS
  <2>4. wait \in Nat /\ \E a \in OwnIn(r, fleet) : o.attempt < Retry[a]
    BY WaitFacts DEF o
  <2>5. n \in OpRecords /\ RequestOK(r, n, fleet)
    BY <1>1, <1>2, <2>1, <2>3, <2>4, WaitOK
  <2> QED
    BY <1>6, <1>10, <2>1, <2>2, <2>3, <2>5
<1>19. CASE TimerFires(r)
  <2>1. /\ o.at = "wait" /\ UNCHANGED <<fleet, left, indexes>>
        /\ Step(r, [o EXCEPT !.at = "pick", !.attempt = o.attempt + 1, !.tried = {},
                             !.error = NoError, !.boot = FALSE])
    BY <1>19 DEF TimerFires, At, o
  <2>2. PICK n : n = [o EXCEPT !.at = "pick", !.attempt = o.attempt + 1, !.tried = {},
                               !.error = NoError, !.boot = FALSE]
    OBVIOUS
  <2>3. n \in OpRecords /\ RequestOK(r, n, fleet)
    BY <1>1, <1>2, <2>1, <2>2, AgainOK
  <2> QED
    BY <1>6, <1>10, <2>1, <2>2, <2>3
<1>20. CASE WaitCanceled(r) \/ FailedStreamEnds(r) \/ StreamDropped(r) \/ GiveUp(r)
  <2>1. /\ UNCHANGED <<fleet, left, indexes>> /\ Step(r, Finished(o))
        /\ \/ o.at \in {"wait", "failed", "decide"}
           \/ o.at \in {"stream", "ending"} /\ o.canceled
    <3>1. CASE WaitCanceled(r)
      BY <3>1 DEF WaitCanceled, At, o
    <3>2. CASE FailedStreamEnds(r)
      BY <3>2 DEF FailedStreamEnds, At, o
    <3>3. CASE StreamDropped(r)
      BY <3>3 DEF StreamDropped, At, o
    <3>4. CASE GiveUp(r)
      BY <3>4 DEF GiveUp, At, o
    <3> QED
      BY <1>20, <3>1, <3>2, <3>3, <3>4
  <2>2. PICK n : n = Finished(o)
    OBVIOUS
  <2>3. n \in OpRecords /\ RequestOK(r, n, fleet)
    BY <1>1, <1>2, <2>1, <2>2, FinishedOK
  <2> QED
    BY <1>6, <1>10, <2>1, <2>2, <2>3
<1>21. CASE StreamOpens(r)
  <2>1. PICK at \in {"stream", "ending"} :
          /\ o.at = "call" /\ r \in Stream /\ UNCHANGED <<fleet, left, indexes>>
          /\ Step(r, [[o EXCEPT !.tries = o.tries + 1]
                        EXCEPT !.at = at,
                               !.unrecorded = [o EXCEPT !.tries = o.tries + 1].unrecorded + 1])
    <3>1. PICK payload \in BOOLEAN :
            /\ o.at = "call" /\ r \in Stream /\ UNCHANGED <<fleet, left, indexes>>
            /\ Step(r, [[o EXCEPT !.tries = o.tries + 1]
                          EXCEPT !.at = IF payload THEN "stream" ELSE "ending",
                                 !.unrecorded = [o EXCEPT !.tries = o.tries + 1].unrecorded + 1])
      BY <1>21 DEF StreamOpens, At, Called, o
    <3>2. PICK at \in {"stream", "ending"} : at = IF payload THEN "stream" ELSE "ending"
      OBVIOUS
    <3> QED
      BY <3>1, <3>2
  <2>2. PICK n : n = [[o EXCEPT !.tries = o.tries + 1]
                        EXCEPT !.at = at,
                               !.unrecorded = [o EXCEPT !.tries = o.tries + 1].unrecorded + 1]
    OBVIOUS
  <2>3. o.tries + 1 \in Nat /\ o.unrecorded + 1 \in Int /\ o.unrecorded \in Int
    BY <1>2 DEF OpRecords
  <2>4. n = [o EXCEPT !.tries = o.tries + 1, !.at = at, !.unrecorded = o.unrecorded + 1]
    BY <1>2, <2>2 DEF OpRecords
  <2>5. /\ n \in OpRecords /\ n.at = at /\ n.attempt = o.attempt /\ n.tried = o.tried
        /\ n.auth = o.auth /\ n.boot = o.boot /\ n.retries = o.retries /\ n.sent = o.sent
        /\ n.canceled = o.canceled /\ n.cut = o.cut
        /\ n.tries = o.tries + 1 /\ n.unrecorded = o.unrecorded + 1
    BY <1>2, <2>3, <2>4 DEF OpRecords, Places
  <2>6. OneOK(n) /\ RecordedOK(n)
    BY <1>2, <2>1, <2>3, <2>5 DEF OneOK, RecordedOK
  <2>7. RequestOK(r, n, fleet)
    BY <1>1, <1>2, <1>4, <2>1, <2>5, <2>6, SameRoundOK
  <2> QED
    BY <1>6, <1>10, <2>1, <2>2, <2>5, <2>7
<1>22. CASE StreamPayload(r)
  <2>1. o.at = "stream" /\ UNCHANGED <<fleet, left, indexes>> /\ Step(r, [o EXCEPT !.sent = TRUE])
    BY <1>22 DEF StreamPayload, At, o
  <2>2. PICK n : n = [o EXCEPT !.sent = TRUE]
    OBVIOUS
  <2>3. /\ n \in OpRecords /\ n.at = "stream" /\ n.attempt = o.attempt /\ n.tried = o.tried
        /\ n.auth = o.auth /\ n.boot = o.boot /\ n.retries = o.retries
        /\ n.canceled = o.canceled /\ n.cut = o.cut
        /\ n.tries = o.tries /\ n.unrecorded = o.unrecorded
    BY <1>2, <2>1, <2>2 DEF OpRecords
  <2>4. OneOK(n) /\ RecordedOK(n) /\ r \in Stream
    BY <1>2, <2>1, <2>3 DEF OneOK, RecordedOK, RecordOK
  <2>5. RequestOK(r, n, fleet)
    BY <1>1, <1>2, <1>4, <2>1, <2>3, <2>4, SameRoundOK
  <2> QED
    BY <1>6, <1>10, <2>1, <2>2, <2>3, <2>5
<1>23. CASE StreamError(r)
  <2>1. PICK kind \in fleet.kinds :
          /\ o.at = "stream" /\ RecordFailure(o.auth, kind)
          /\ StepRecording(r, o.auth, [o EXCEPT !.at = "failed", !.error = kind, !.boot = FALSE,
                                                !.unrecorded = o.unrecorded - 1])
    BY <1>23 DEF StreamError, At, o
  <2>2. IndexesOK' /\ fleet' = fleet
    BY <1>5, <1>7, <2>1
  <2>3. PICK n : n = [o EXCEPT !.at = "failed", !.error = kind, !.boot = FALSE,
                               !.unrecorded = o.unrecorded - 1]
    OBVIOUS
  <2>4. o.unrecorded - 1 \in Int /\ o.unrecorded \in Int
    BY <1>2 DEF OpRecords
  <2>5. /\ n \in OpRecords /\ n.at = "failed" /\ n.attempt = o.attempt /\ n.tried = o.tried
        /\ n.auth = o.auth /\ ~n.boot /\ n.retries = o.retries /\ n.sent = o.sent
        /\ n.canceled = o.canceled /\ n.cut = o.cut
        /\ n.tries = o.tries /\ n.unrecorded = o.unrecorded - 1
    BY <1>2, <1>3, <2>3, <2>4 DEF OpRecords, Places
  <2>6. OneOK(n) /\ RecordedOK(n) /\ r \in Stream
    BY <1>2, <2>1, <2>4, <2>5 DEF OneOK, RecordedOK, RecordOK
  <2>7. RequestOK(r, n, fleet)
    BY <1>1, <1>2, <1>4, <2>1, <2>5, <2>6, SameRoundOK
  <2> QED
    BY <1>10, <2>1, <2>2, <2>3, <2>5, <2>7
<1>24. CASE StreamEnds(r)
  <2>1. /\ o.at \in {"stream", "ending", "left"} /\ RecordSuccess(o.auth)
        /\ StepRecording(r, o.auth, Finished([o EXCEPT !.unrecorded = o.unrecorded - 1]))
    BY <1>24 DEF StreamEnds, At, o
  <2>2. IndexesOK' /\ fleet' = fleet
    BY <1>5, <1>8, <2>1
  <2>3. PICK n : n = Finished([o EXCEPT !.unrecorded = o.unrecorded - 1])
    OBVIOUS
  <2>4. n \in OpRecords /\ RequestOK(r, n, fleet)
    BY <1>1, <1>2, <2>1, <2>3, FinishedOK
  <2> QED
    BY <1>10, <2>1, <2>2, <2>3, <2>4
<1>25. CASE StreamLeft(r)
  <2>1. o.at = "stream" /\ UNCHANGED <<fleet, left, indexes>> /\ Step(r, [o EXCEPT !.at = "left"])
    BY <1>25 DEF StreamLeft, At, o
  <2>2. PICK n : n = [o EXCEPT !.at = "left"]
    OBVIOUS
  <2>3. /\ n \in OpRecords /\ n.at = "left" /\ n.attempt = o.attempt /\ n.tried = o.tried
        /\ n.auth = o.auth /\ n.boot = o.boot /\ n.retries = o.retries /\ n.sent = o.sent
        /\ n.canceled = o.canceled /\ n.cut = o.cut
        /\ n.tries = o.tries /\ n.unrecorded = o.unrecorded
    BY <1>2, <2>1, <2>2 DEF OpRecords, Places
  <2>4. OneOK(n) /\ RecordedOK(n) /\ r \in Stream
    BY <1>2, <2>1, <2>3 DEF OneOK, RecordedOK, RecordOK
  <2>5. RequestOK(r, n, fleet)
    BY <1>1, <1>2, <1>4, <2>1, <2>3, <2>4, SameRoundOK
  <2> QED
    BY <1>6, <1>10, <2>1, <2>2, <2>3, <2>5
<1>26. CASE LeftFails(r)
  <2>1. PICK kind \in fleet.kinds :
          /\ o.at = "left" /\ RecordFailure(o.auth, kind)
          /\ StepRecording(r, o.auth, Finished([o EXCEPT !.unrecorded = o.unrecorded - 1]))
    BY <1>26 DEF LeftFails, At, o
  <2>2. IndexesOK' /\ fleet' = fleet
    BY <1>5, <1>7, <2>1
  <2>3. PICK n : n = Finished([o EXCEPT !.unrecorded = o.unrecorded - 1])
    OBVIOUS
  <2>4. n \in OpRecords /\ RequestOK(r, n, fleet)
    BY <1>1, <1>2, <2>1, <2>3, FinishedOK
  <2> QED
    BY <1>10, <2>1, <2>2, <2>3, <2>4
<1>27. CASE LeftCut(r)
  <2>1. /\ o.at = "left" /\ UNCHANGED <<fleet, left, indexes>>
        /\ Step(r, Finished([o EXCEPT !.cut = TRUE]))
    BY <1>27 DEF LeftCut, At, o
  <2>2. PICK n : n = Finished([o EXCEPT !.cut = TRUE])
    OBVIOUS
  <2>3. n \in OpRecords /\ RequestOK(r, n, fleet)
    BY <1>1, <1>2, <2>1, <2>2, FinishedOK
  <2> QED
    BY <1>6, <1>10, <2>1, <2>2, <2>3
<1>28. CASE BootstrapRetry(r)
  <2>1. /\ (o.at = "decide" /\ o.boot) \/ o.at = "failed"
        /\ ~o.sent /\ o.retries < fleet.restarts /\ UNCHANGED <<fleet, left, indexes>>
        /\ Step(r, [[o EXCEPT !.at = "pick", !.attempt = 0, !.tried = {}, !.error = NoError,
                              !.boot = FALSE]
                      EXCEPT !.retries = [o EXCEPT !.at = "pick", !.attempt = 0, !.tried = {},
                                                   !.error = NoError, !.boot = FALSE].retries + 1])
    BY <1>28 DEF BootstrapRetry, Refused, Restarted, At, o
  <2>2. PICK m : m = [o EXCEPT !.at = "pick", !.attempt = 0, !.tried = {}, !.error = NoError,
                               !.boot = FALSE]
    OBVIOUS
  <2>3. PICK n : n = [m EXCEPT !.retries = m.retries + 1]
    OBVIOUS
  <2>4. Step(r, n)
    BY <2>1, <2>2, <2>3
  <2>5. n = [o EXCEPT !.at = "pick", !.attempt = 0, !.tried = {}, !.error = NoError,
                      !.boot = FALSE, !.retries = o.retries + 1]
    BY <1>2, <2>2, <2>3 DEF OpRecords
  <2>6. n \in OpRecords /\ RequestOK(r, n, fleet)
    BY <1>1, <1>2, <2>1, <2>5, RestartOK
  <2> QED
    BY <1>6, <1>10, <2>1, <2>4, <2>6
<1> QED
  BY <1>11, <1>12, <1>13, <1>14, <1>15, <1>16, <1>17, <1>18, <1>19, <1>20, <1>21, <1>22,
     <1>23, <1>24, <1>25, <1>26, <1>27, <1>28 DEF Proceed

LEMMA DispatchNext == DispatchInv /\ [Next]_vars => DispatchInv'
PROOF
<1> SUFFICES ASSUME DispatchInv, [Next]_vars PROVE DispatchInv'
  OBVIOUS
<1>1. IndexesOK /\ RequestsOK /\ fleet \in Fleets /\ op \in [Requests -> OpRecords]
      /\ \A r \in Requests : RequestOK(r, op[r], fleet)
  BY DEF DispatchInv, IndexesOK, RequestsOK
<1>2. ASSUME UNCHANGED <<fleet, left, indexes>> PROVE IndexesOK' /\ fleet' = fleet
  BY <1>1, <1>2 DEF indexes, IndexesOK
<1>3. CASE Tick
  <2>1. /\ left' = [a \in Auths |-> IF left[a] > 0 THEN left[a] - 1 ELSE 0]
        /\ op' = [r \in Requests |->
                    [op[r] EXCEPT !.wait = IF op[r].wait > 0 THEN op[r].wait - 1 ELSE 0]]
        /\ fleet' = fleet /\ ready' = ready /\ views' = views /\ slots' = slots
    BY <1>3 DEF Tick, indexes
  <2>2. IndexesOK'
    <3>1. left' \in [Auths -> Nat]
      BY <1>1, <2>1 DEF IndexesOK
    <3> QED
      BY <1>1, <2>1, <3>1 DEF IndexesOK
  <2>3. ASSUME NEW r \in Requests PROVE op'[r] \in OpRecords /\ RequestOK(r, op'[r], fleet)
    <3>1. PICK o, f : o = op[r] /\ f = fleet
      OBVIOUS
    <3>2. PICK wait \in Nat : wait = IF op[r].wait > 0 THEN op[r].wait - 1 ELSE 0
      BY <1>1 DEF OpRecords
    <3>3. op'[r] = [o EXCEPT !.wait = wait]
      BY <2>1, <3>1, <3>2
    <3>4. RequestOK(r, o, f) /\ {} \in SUBSET Auths
      BY <1>1, <3>1
    <3>5. [o EXCEPT !.wait = wait] \in OpRecords /\ RequestOK(r, [o EXCEPT !.wait = wait], f)
      BY <3>4, NearOK
    <3> QED
      BY <3>1, <3>3, <3>5
  <2>4. RequestsOK'
    <3>1. op' \in [Requests -> OpRecords]
      BY <2>1, <2>3
    <3> QED
      BY <2>1, <2>3, <3>1 DEF RequestsOK
  <2> QED
    BY <2>2, <2>4 DEF DispatchInv
<1>4. ASSUME NEW r \in Requests, Begin(r) PROVE DispatchInv'
  <2>1. /\ r \in fleet.requests /\ UNCHANGED <<fleet, left, indexes>>
        /\ Step(r, [IdleOp EXCEPT !.at = "pick"])
    BY <1>4 DEF Begin
  <2>2. IndexesOK' /\ fleet' = fleet
    BY <1>2, <2>1
  <2>3. PICK n : n = [IdleOp EXCEPT !.at = "pick"]
    OBVIOUS
  <2>4. n = [IdleOp EXCEPT !.at = "pick", !.canceled = FALSE, !.cut = FALSE,
                           !.unrecorded = 0]
    <3>1. IdleOp.canceled = FALSE /\ IdleOp.cut = FALSE /\ IdleOp.unrecorded = 0
      BY DEF IdleOp
    <3>2. n = [IdleOp EXCEPT !.at = "pick", !.canceled = IdleOp.canceled, !.cut = IdleOp.cut,
                             !.unrecorded = IdleOp.unrecorded]
      BY <2>3 DEF IdleOp
    <3> QED
      BY <3>1, <3>2
  <2>5. n \in OpRecords /\ RequestOK(r, n, fleet)
    BY <1>1, <2>1, <2>4, IdleOK
  <2>6. RequestsOK'
    BY <1>1, <2>1, <2>2, <2>3, <2>5, StepOK
  <2> QED
    BY <2>2, <2>6 DEF DispatchInv
<1>5. ASSUME NEW r \in Requests, Proceed(r) PROVE DispatchInv'
  BY <1>5, ProceedOK
<1>6. ASSUME NEW r \in Requests, Cancel(r) PROVE DispatchInv'
  <2>1. /\ op[r].at # "idle" /\ UNCHANGED <<fleet, left, indexes>>
        /\ Step(r, [op[r] EXCEPT !.canceled = TRUE])
    BY <1>6 DEF Cancel
  <2>2. IndexesOK' /\ fleet' = fleet
    BY <1>2, <2>1
  <2>3. PICK o, n : o = op[r] /\ n = [o EXCEPT !.canceled = TRUE]
    OBVIOUS
  <2>4. o \in OpRecords /\ RequestOK(r, o, fleet) /\ OneOK(o) /\ RecordedOK(o)
        /\ RecordOK(r, o, fleet) /\ r \in fleet.requests
    BY <1>1, <2>1, <2>3 DEF RequestOK, RecordOK
  <2>5. /\ n \in OpRecords /\ n.at = o.at /\ n.attempt = o.attempt /\ n.tried = o.tried
        /\ n.auth = o.auth /\ n.boot = o.boot /\ n.retries = o.retries /\ n.sent = o.sent
        /\ n.cut = o.cut /\ n.tries = o.tries /\ n.unrecorded = o.unrecorded
    BY <2>3, <2>4 DEF OpRecords
  <2>6. n.canceled
    BY <2>3, <2>4 DEF OpRecords
  <2>7. OneOK(n) /\ RecordedOK(n)
    BY <2>4, <2>5, <2>6 DEF OneOK, RecordedOK
  <2>8. RecordOK(r, n, fleet) /\ CountedOK(r, n, fleet)
    BY <2>4, <2>5 DEF RecordOK, CountedOK, RequestOK
  <2>9. RequestOK(r, n, fleet)
    BY <2>7, <2>8 DEF RequestOK
  <2>10. RequestsOK'
    BY <1>1, <2>1, <2>2, <2>3, <2>5, <2>9, StepOK
  <2> QED
    BY <2>2, <2>10 DEF DispatchInv
<1>7. CASE UNCHANGED vars
  <2>1. UNCHANGED <<fleet, left, indexes>> /\ op' = op
    BY <1>7 DEF vars, indexes
  <2>2. IndexesOK' /\ fleet' = fleet
    BY <1>2, <2>1
  <2>3. RequestsOK'
    BY <1>1, <2>1, <2>2 DEF RequestsOK
  <2> QED
    BY <2>2, <2>3 DEF DispatchInv
<1> QED
  BY <1>3, <1>4, <1>5, <1>6, <1>7 DEF Next

LEMMA DispatchAlways == Spec => []DispatchInv
PROOF
<1>1. Init => DispatchInv
  BY DispatchInit
<1>2. DispatchInv /\ [Next]_vars => DispatchInv'
  BY DispatchNext
<1> QED
  BY <1>1, <1>2, PTL DEF Spec

-----------------------------------------------------------------------------
(***************************************************************************)
(* The theorems that follow from the inductive invariant.                  *)
(***************************************************************************)
\* Every variable has its type, whatever the fleet: a cursor stands on a
\* member of its bucket or one past the last, however results and picks have
\* changed the bucket (restoreReadyViewCursors); the slot between providers is
\* bounded; and a request has tried only credentials of its own providers.
THEOREM DispatchTyped == Spec => []TypeOK
PROOF
<1>1. DispatchInv => TypeOK
  <2> SUFFICES ASSUME DispatchInv PROVE TypeOK
    OBVIOUS
  <2>1. fleet \in Fleets /\ left \in [Auths -> Nat] /\ ready \subseteq fleet.auths
        /\ slots \in [Lists -> 0..Cardinality(Auths)] /\ ready \in SUBSET Auths
    BY DispatchAssumption DEF DispatchInv, IndexesOK
  <2>2. ASSUME NEW p \in Providers, NEW priority \in Priorities
        PROVE  LET bucket == Bucket(ready, p, priority)
                   view   == views[p][priority]
               IN  /\ view.cursor \in 0..Cardinality(bucket)
                   /\ view.parent \in 0..Cardinality(ParentsOf(bucket))
                   /\ \A q \in Parents : view.child[q] \in 0..Cardinality(Children(bucket, q))
    <3>1. PICK b \in SUBSET Auths : b = Bucket(ready, p, priority)
      BY <2>1 DEF Bucket
    <3>2. PICK v : v = views[p][priority]
      OBVIOUS
    <3>3. ViewOK(v, b)
      BY <3>1, <3>2 DEF DispatchInv, IndexesOK, ViewsOK
    <3>4. Cardinality(b) \in Nat /\ Cardinality(ParentsOf(b)) \in Nat
      BY Finite
    <3>5. v.cursor \in 0..Cardinality(b) /\ v.parent \in 0..Cardinality(ParentsOf(b))
      BY <3>3, <3>4 DEF ViewOK
    <3>6. ASSUME NEW q \in Parents PROVE v.child[q] \in 0..Cardinality(Children(b, q))
      <4>1. PICK C \in SUBSET Auths : C = Children(b, q)
        BY DEF Children
      <4>2. Cardinality(C) \in Nat
        BY Finite
      <4>3. v.child[q] \in Nat /\ v.child[q] <= Cardinality(C)
        BY <3>3, <4>1 DEF ViewOK
      <4> QED
        BY <4>1, <4>2, <4>3
    <3> QED
      BY <3>1, <3>2, <3>5, <3>6
  <2>3. ASSUME NEW r \in Requests
        PROVE  /\ op[r].at \in Places /\ op[r].tried \subseteq Own(r)
               /\ op[r].error \in Kinds \cup {NoError, "cooling", "canceled"}
    BY DEF DispatchInv, RequestsOK, RequestOK, RecordOK, OpRecords, Errors, OwnIn, Own
  <2> QED
    BY <2>1, <2>2, <2>3 DEF TypeOK
<1> QED
  BY <1>1, DispatchAlways, PTL

\* A request costs a bounded number of provider calls, whatever fails, however
\* requests interleave and whenever credentials cool down: max-retry-credentials
\* for each round, a round for each retry of the most patient credential, and
\* all of it for each of the stream handler's starts.
THEOREM CallsAreBounded == Spec => []CallsBounded
PROOF
<1>1. DispatchInv => CallsBounded
  <2> SUFFICES ASSUME DispatchInv, NEW r \in fleet.requests PROVE op[r].tries <= MostCalls(r)
    BY DEF CallsBounded
  <2>1. r \in Requests /\ fleet \in Fleets /\ fleet.restarts \in Nat
    BY DispatchAssumption DEF DispatchInv, IndexesOK
  <2>2. PICK o, f : o = op[r] /\ f = fleet
    OBVIOUS
  <2>3. o \in OpRecords /\ CountedOK(r, o, f)
    BY <2>1, <2>2 DEF DispatchInv, RequestsOK, RequestOK
  <2>4. PICK R \in Nat, P \in Nat : R = Rounds(r, f) /\ P = PerRound(r, f)
    BY <2>1, <2>2, BoundFacts
  <2>5. PICK s : s = IF r \in Stream THEN f.restarts + 1 ELSE 1
    OBVIOUS
  <2>6. MostCalls(r) = P * R * s
    BY <2>2, <2>4, <2>5 DEF MostCalls, PerRound, Rounds, OwnIn, Own
  <2>7. o.retries \in Nat /\ o.tries \in Nat /\ s \in Nat /\ o.retries + 1 <= s
    BY <2>1, <2>2, <2>3, <2>5 DEF OpRecords, CountedOK
  <2>8. o.tries <= ((o.retries + 1) * R) * P
    <3>1. CASE o.at # "call"
      BY <2>1, <2>2, <2>3, <2>4, <3>1, RoundBound
    <3>2. CASE o.at = "call"
      <4>1. PICK n : n = [o EXCEPT !.at = "pick"]
        OBVIOUS
      <4>2. /\ n \in OpRecords /\ n.at = "pick" /\ n.attempt = o.attempt /\ n.tried = o.tried
            /\ n.retries = o.retries /\ n.tries = o.tries
        BY <2>3, <4>1 DEF OpRecords, Places
      <4>3. CountedOK(r, n, f)
        <5>1. PICK x : x = (o.retries * R + o.attempt) * P + Cardinality(o.tried)
          OBVIOUS
        <5>2. Cardinality(o.tried) \in Nat
          BY <2>3, Finite DEF OpRecords
        <5>3. x \in Int /\ o.attempt \in Nat
          BY <2>3, <2>7, <5>1, <5>2 DEF OpRecords
        <5>4. o.tries + 1 <= x /\ o.attempt + 0 < R
          BY <2>3, <2>4, <3>2, <5>1 DEF CountedOK
        <5>5. n.tries + 0 <= x /\ n.attempt + 0 < R
          BY <2>7, <4>2, <5>3, <5>4
        <5>6. Cardinality(n.tried) <= P /\ n.retries <= f.restarts
              /\ (n.retries > 0 => r \in Stream)
          BY <2>3, <2>4, <4>2 DEF CountedOK
        <5>7. n.at # "wait" /\ n.at # "call"
          BY <4>2
        <5> QED
          BY <2>4, <4>2, <5>1, <5>5, <5>6, <5>7 DEF CountedOK
      <4> QED
        BY <2>1, <2>2, <2>4, <4>2, <4>3, RoundBound
    <3> QED
      BY <3>1, <3>2
  <2>9. (o.retries + 1) * R \in Nat /\ s * R \in Nat /\ (o.retries + 1) * R <= s * R
    BY <2>4, <2>7, Products
  <2>10. PICK A \in Nat, B \in Nat : A = (o.retries + 1) * R /\ B = s * R
    BY <2>9
  <2>11. A * P \in Nat /\ B * P \in Nat /\ A * P <= B * P
    BY <2>4, <2>9, <2>10, Products
  <2>12. B * P = P * R * s
    <3>1. B * P = P * B /\ P * (R * s) = P * R * s /\ s * R = R * s
      BY <2>4, <2>7, <2>10
    <3> QED
      BY <2>10, <3>1
  <2> QED
    BY <2>2, <2>6, <2>7, <2>8, <2>10, <2>11, <2>12
<1> QED
  BY <1>1, DispatchAlways, PTL

\* Each call of a provider is recorded exactly once (MarkResult), a stream's by
\* its wrapper as it ends; only a client that goes away, or a handler that cuts
\* off the stream it has left, leaves a call without.
THEOREM RecordedExactlyOnce == Spec => []RecordedOnce
PROOF
<1>1. DispatchInv => RecordedOnce
  BY DEF DispatchInv, RequestsOK, RequestOK, RecordedOK, RecordedOnce, At
<1> QED
  BY <1>1, DispatchAlways, PTL

\* Once the client has got a payload the request is not started again: no two
\* streams are spliced.
THEOREM NeverSpliced == Spec => []OneStream
PROOF
<1>1. DispatchInv => OneStream
  BY DEF DispatchInv, RequestsOK, RequestOK, OneOK, OneStream
<1> QED
  BY <1>1, DispatchAlways, PTL

\* What a pick chooses is a credential of the request's providers that their
\* indexes hold as ready and that the request has not tried, wherever the
\* cursors and the slot stand (pickSingle, pickMixed): whenever there is one.
PicksSound ==
  [][\A r \in Requests : Pick(r) => op'[r].auth \in (ready' \cap Own(r)) \ op[r].tried]_vars

THEOREM PicksAreSound == Spec => PicksSound
PROOF
<1>1. ASSUME DispatchInv, NEW r \in Requests, Pick(r)
      PROVE  op'[r].auth \in (ready' \cap Own(r)) \ op[r].tried
  <2>1. PICK now \in {Promoted(r)} : \E choice \in {Choice(r, now)} :
          /\ ready' = now
          /\ Step(r, [op[r] EXCEPT !.at = "call", !.auth = choice.auth,
                                   !.tried = op[r].tried \cup {choice.auth}, !.promised = {}])
    BY <1>1 DEF Pick
  <2>2. PICK choice :
          /\ choice = Choice(r, now) /\ ready' = now
          /\ Step(r, [op[r] EXCEPT !.at = "call", !.auth = choice.auth,
                                   !.tried = op[r].tried \cup {choice.auth}, !.promised = {}])
    BY <2>1
  <2>3. now = Promoted(r) /\ Untried(r) # {} /\ IndexesOK
    BY <1>1, <2>1 DEF Pick, DispatchInv
  <2>4. choice.auth \in OwnIn(r, fleet) \ op[r].tried /\ choice.auth \in now
    BY <2>2, <2>3, ChoiceOK
  <2>5. op[r] \in OpRecords /\ op \in [Requests -> OpRecords]
    BY <1>1 DEF DispatchInv, RequestsOK
  <2>6. op'[r].auth = choice.auth
    BY <2>2, <2>5 DEF Step, OpRecords
  <2> QED
    BY <2>2, <2>4, <2>6 DEF OwnIn, Own
<1>2. DispatchInv /\ [Next]_vars =>
        [\A r \in Requests : Pick(r) => op'[r].auth \in (ready' \cap Own(r)) \ op[r].tried]_vars
  BY <1>1
<1> QED
  BY <1>2, DispatchAlways, PTL DEF Spec, PicksSound

(***************************************************************************)
(* Why a wait pays off.                                                    *)
(***************************************************************************)
\* A timer runs only during a wait.  What request r's record o was promised is
\* kept until it has looked again: credentials of its own whose cooldowns, lf,
\* end with the timer or before.
PromiseOK(r, o, f, lf) ==
  /\ o.at # "wait" => o.wait = 0
  /\ o.promised # {} => o.at = "wait" \/ (o.at = "pick" /\ o.tried = {})
  /\ \A a \in o.promised : a \in OwnIn(r, f) /\ lf[a] <= o.wait

PromisesOK == \A r \in Requests : PromiseOK(r, op[r], fleet, left)

LEMMA PromiseStep ==
  ASSUME DispatchInv, PromisesOK, NEW r \in Requests, NEW n, PromiseOK(r, n, fleet, left),
         Step(r, n), UNCHANGED <<fleet, left>>
  PROVE  PromisesOK'
PROOF
<1>1. op' = [op EXCEPT ![r] = n] /\ op \in [Requests -> OpRecords]
  BY DEF Step, DispatchInv, RequestsOK
<1>2. ASSUME NEW q \in Requests PROVE PromiseOK(q, op'[q], fleet, left)
  BY <1>1 DEF PromisesOK
<1> QED
  BY <1>2 DEF PromisesOK

\* A record that blocks a credential takes it from what the others were
\* promised.
LEMMA PromiseRecording ==
  ASSUME DispatchInv, PromisesOK, NEW r \in Requests, NEW n, n.wait = 0, n.promised = {},
         NEW a \in Auths, NEW ticks \in Nat, Record(a, ticks), StepRecording(r, a, n)
  PROVE  PromisesOK'
PROOF
<1>1. /\ fleet' = fleet /\ left' = [left EXCEPT ![a] = ticks] /\ left \in [Auths -> Nat]
      /\ op \in [Requests -> OpRecords] /\ left'[a] = ticks
  BY DEF Record, DispatchInv, IndexesOK, RequestsOK
<1>2. ASSUME NEW q \in Requests PROVE PromiseOK(q, op'[q], fleet, left')
  <2>1. CASE q = r
    <3>1. op'[q] = n
      BY <2>1 DEF StepRecording
    <3> QED
      BY <3>1 DEF PromiseOK
  <2>2. CASE q # r
    <3>1. PICK o, P : o = op[q] /\ P = IF ticks > 0 THEN op[q].promised \ {a} ELSE op[q].promised
      OBVIOUS
    <3>2. op'[q] = [o EXCEPT !.promised = P]
      BY <1>1, <2>2, <3>1 DEF StepRecording
    <3>3. o \in OpRecords /\ PromiseOK(q, o, fleet, left)
      BY <1>1, <3>1 DEF PromisesOK
    <3>4. /\ op'[q].at = o.at /\ op'[q].wait = o.wait /\ op'[q].tried = o.tried
          /\ op'[q].promised = P /\ P \subseteq o.promised /\ o.wait \in Nat
      BY <3>1, <3>2, <3>3 DEF OpRecords
    <3>5. ASSUME NEW b \in P PROVE b \in OwnIn(q, fleet) /\ left'[b] <= o.wait
      <4>1. b \in OwnIn(q, fleet) /\ left[b] <= o.wait /\ b \in Auths
        BY <3>3, <3>4 DEF PromiseOK, OpRecords
      <4>2. CASE b = a
        <5>1. left'[b] = 0
          BY <1>1, <3>1, <3>5, <4>2
        <5> QED
          BY <3>4, <4>1, <5>1
      <4>3. CASE b # a
        BY <1>1, <4>1, <4>3
      <4> QED
        BY <4>2, <4>3
    <3> QED
      BY <3>3, <3>4, <3>5 DEF PromiseOK
  <2> QED
    BY <2>1, <2>2
<1> QED
  BY <1>1, <1>2 DEF PromisesOK

LEMMA PromiseProceed ==
  ASSUME DispatchInv, PromisesOK, NEW r \in Requests, Proceed(r)
  PROVE  PromisesOK'
PROOF
<1> DEFINE o == op[r]
<1>1. /\ o \in OpRecords /\ PromiseOK(r, o, fleet, left) /\ fleet \in Fleets
      /\ RecordOK(r, o, fleet) /\ left \in [Auths -> Nat]
  BY DEF DispatchInv, RequestsOK, RequestOK, PromisesOK, IndexesOK
<1>2. OwnIn(r, fleet) \in SUBSET Auths /\ fleet.kinds \subseteq Kinds /\ fleet.limit \in Nat
  BY <1>1, FleetFacts
<1>3. o.at \in {"call", "stream", "ending", "left"} => o.auth \in Auths
  BY <1>1, <1>2 DEF RecordOK
<1>4. ASSUME o.at # "wait", o.at # "pick" PROVE o.wait = 0 /\ o.promised = {}
  BY <1>1, <1>4 DEF PromiseOK
<1>5. ASSUME NEW n, n.wait = 0, n.promised = {}, Step(r, n), UNCHANGED <<fleet, left>>
      PROVE  PromisesOK'
  <2>1. PromiseOK(r, n, fleet, left)
    BY <1>5 DEF PromiseOK
  <2> QED
    BY <1>5, <2>1, PromiseStep
<1>6. ASSUME NEW n, n.wait = 0, n.promised = {}, o.at \in {"call", "stream", "ending", "left"},
             NEW kind \in fleet.kinds, RecordFailure(o.auth, kind), StepRecording(r, o.auth, n)
      PROVE  PromisesOK'
  <2>1. PICK ticks \in Nat : Record(o.auth, ticks)
    BY <1>2, <1>6, DispatchAssumption DEF RecordFailure
  <2> QED
    BY <1>3, <1>6, <2>1, PromiseRecording
<1>7. ASSUME NEW n, n.wait = 0, n.promised = {}, o.at \in {"call", "stream", "ending", "left"},
             RecordSuccess(o.auth), StepRecording(r, o.auth, n)
      PROVE  PromisesOK'
  BY <1>3, <1>7, PromiseRecording DEF RecordSuccess
<1>8. ASSUME NEW x PROVE Finished(x).wait = 0 /\ Finished(x).promised = {}
  BY DEF Finished, IdleOp
<1> HIDE DEF o
<1>9. CASE Pick(r)
  <2>1. PICK auth : Step(r, [o EXCEPT !.at = "call", !.auth = auth,
                                      !.tried = o.tried \cup {auth}, !.promised = {}])
    BY <1>9 DEF Pick, o
  <2>2. PICK n : n = [o EXCEPT !.at = "call", !.auth = auth,
                               !.tried = o.tried \cup {auth}, !.promised = {}]
    OBVIOUS
  <2>3. n.wait = o.wait /\ n.promised = {}
    BY <1>1, <2>2 DEF OpRecords
  <2>4. o.wait = 0 /\ UNCHANGED <<fleet, left>>
    BY <1>1, <1>9 DEF Pick, At, PromiseOK, o
  <2> QED
    BY <1>5, <2>1, <2>2, <2>3, <2>4
<1>10. CASE PickMiss(r)
  <2>1. PICK e : Step(r, [o EXCEPT !.at = "decide", !.promised = {}, !.error = e])
    BY <1>10 DEF PickMiss, o
  <2>2. PICK n : n = [o EXCEPT !.at = "decide", !.promised = {}, !.error = e]
    OBVIOUS
  <2>3. n.wait = o.wait /\ n.promised = {}
    BY <1>1, <2>2 DEF OpRecords
  <2>4. o.wait = 0 /\ UNCHANGED <<fleet, left>>
    BY <1>1, <1>10 DEF PickMiss, At, PromiseOK, o
  <2> QED
    BY <1>5, <2>1, <2>2, <2>3, <2>4
<1>11. CASE LimitReached(r)
  <2>1. /\ Step(r, [o EXCEPT !.at = "decide"]) /\ o.at = "pick" /\ UNCHANGED <<fleet, left>>
        /\ fleet.limit # 0 /\ ~(Cardinality(o.tried) < fleet.limit)
    BY <1>11 DEF LimitReached, At, MayTryMore, o
  <2>2. o.tried # {}
    BY <1>2, <2>1, FS_EmptySet
  <2>3. o.promised = {} /\ o.wait = 0
    BY <1>1, <2>1, <2>2 DEF PromiseOK
  <2>4. PICK n : n = [o EXCEPT !.at = "decide"]
    OBVIOUS
  <2>5. n.wait = 0 /\ n.promised = {}
    BY <1>1, <2>3, <2>4 DEF OpRecords
  <2> QED
    BY <1>5, <2>1, <2>4, <2>5
<1>12. CASE PrepareFails(r)
  <2>1. PICK kind \in fleet.kinds :
          /\ o.at = "call" /\ RecordFailure(o.auth, kind)
          /\ StepRecording(r, o.auth, [o EXCEPT !.at = "pick", !.error = kind, !.boot = FALSE])
    BY <1>12 DEF PrepareFails, At, o
  <2>2. PICK n : n = [o EXCEPT !.at = "pick", !.error = kind, !.boot = FALSE]
    OBVIOUS
  <2>3. n.wait = 0 /\ n.promised = {}
    BY <1>1, <1>4, <2>1, <2>2 DEF OpRecords
  <2> QED
    BY <1>6, <2>1, <2>2, <2>3
<1>13. CASE CallSucceeds(r)
  <2>1. PICK x : x = Called(r)
    OBVIOUS
  <2>2. o.at = "call" /\ RecordSuccess(o.auth) /\ StepRecording(r, o.auth, Finished(x))
    BY <1>13, <2>1 DEF CallSucceeds, At, o
  <2>3. PICK n : n = Finished(x)
    OBVIOUS
  <2> QED
    BY <1>7, <1>8, <2>2, <2>3
<1>14. CASE CallFails(r)
  <2>1. PICK kind \in fleet.kinds, boot \in BOOLEAN :
          /\ o.at = "call" /\ RecordFailure(o.auth, kind)
          /\ StepRecording(r, o.auth,
               [Called(r) EXCEPT !.at = IF kind = "invalid" THEN "decide" ELSE "pick",
                                 !.error = kind, !.boot = boot])
    BY <1>14 DEF CallFails, At, o
  <2>2. PICK m : m = [o EXCEPT !.tries = o.tries + 1]
    OBVIOUS
  <2>3. PICK place : place = IF kind = "invalid" THEN "decide" ELSE "pick"
    OBVIOUS
  <2>4. PICK n : n = [m EXCEPT !.at = place, !.error = kind, !.boot = boot]
    OBVIOUS
  <2>5. StepRecording(r, o.auth, n)
    BY <2>1, <2>2, <2>3, <2>4 DEF Called, o
  <2>6. n.wait = o.wait /\ n.promised = o.promised
    BY <1>1, <2>2, <2>4 DEF OpRecords
  <2>7. n.wait = 0 /\ n.promised = {}
    BY <1>4, <2>1, <2>6
  <2> QED
    BY <1>6, <2>1, <2>5, <2>7
<1>15. CASE CallAborted(r)
  <2>1. PICK m : m = [o EXCEPT !.tries = o.tries + 1]
    OBVIOUS
  <2>2. /\ o.at = "call" /\ UNCHANGED <<fleet, left>>
        /\ \E k : Step(r, [m EXCEPT !.at = "decide", !.error = "canceled", !.boot = FALSE,
                                    !.unrecorded = k])
    BY <1>15, <2>1 DEF CallAborted, At, Called, o
  <2>3. PICK k : Step(r, [m EXCEPT !.at = "decide", !.error = "canceled", !.boot = FALSE,
                                   !.unrecorded = k])
    BY <2>2
  <2>4. PICK n : n = [m EXCEPT !.at = "decide", !.error = "canceled", !.boot = FALSE,
                               !.unrecorded = k]
    OBVIOUS
  <2>5. n.wait = o.wait /\ n.promised = o.promised
    BY <1>1, <2>1, <2>4 DEF OpRecords
  <2>6. n.wait = 0 /\ n.promised = {}
    BY <1>4, <2>2, <2>5
  <2> QED
    BY <1>5, <2>2, <2>3, <2>4, <2>6
<1>16. CASE StartWait(r)
  <2>1. PICK wait \in WaitOf(r) :
          /\ UNCHANGED <<fleet, left>>
          /\ Step(r, [o EXCEPT !.at = "wait", !.wait = wait,
                               !.promised = {a \in CoolingOf(r) : left[a] = wait}])
    BY <1>16 DEF StartWait, o
  <2>2. PICK P : P = {a \in CoolingOf(r) : left[a] = wait}
    OBVIOUS
  <2>3. PICK n : n = [o EXCEPT !.at = "wait", !.wait = wait, !.promised = P]
    OBVIOUS
  <2>4. n.at = "wait" /\ n.wait = wait /\ n.promised = P
    BY <1>1, <2>3 DEF OpRecords
  <2>5. wait \in Nat
    BY WaitFacts
  <2>6. \A a \in P : a \in OwnIn(r, fleet) /\ left[a] = wait
    BY <2>2 DEF CoolingOf, Own, OwnIn
  <2>7. PromiseOK(r, n, fleet, left)
    BY <2>4, <2>5, <2>6 DEF PromiseOK
  <2> QED
    BY <2>1, <2>2, <2>3, <2>7, PromiseStep
<1>17. CASE TimerFires(r)
  <2>1. /\ o.at = "wait" /\ o.wait = 0 /\ UNCHANGED <<fleet, left>>
        /\ Step(r, [o EXCEPT !.at = "pick", !.attempt = o.attempt + 1, !.tried = {},
                             !.error = NoError, !.boot = FALSE])
    BY <1>17 DEF TimerFires, At, o
  <2>2. PICK n : n = [o EXCEPT !.at = "pick", !.attempt = o.attempt + 1, !.tried = {},
                               !.error = NoError, !.boot = FALSE]
    OBVIOUS
  <2>3. n.at = "pick" /\ n.tried = {} /\ n.wait = o.wait /\ n.promised = o.promised
    BY <1>1, <2>2 DEF OpRecords
  <2>4. PromiseOK(r, n, fleet, left)
    BY <1>1, <2>1, <2>3 DEF PromiseOK
  <2> QED
    BY <2>1, <2>2, <2>4, PromiseStep
<1>18. CASE WaitCanceled(r)
  <2>1. UNCHANGED <<fleet, left>> /\ Step(r, Finished(o))
    BY <1>18 DEF WaitCanceled, o
  <2> QED
    BY <1>5, <1>8, <2>1
<1>19. CASE StreamOpens(r)
  <2>1. PICK m : m = [o EXCEPT !.tries = o.tries + 1]
    OBVIOUS
  <2>2. /\ o.at = "call" /\ UNCHANGED <<fleet, left>>
        /\ \E place, k : Step(r, [m EXCEPT !.at = place, !.unrecorded = k])
    BY <1>19, <2>1 DEF StreamOpens, At, Called, o
  <2>3. PICK place, k : Step(r, [m EXCEPT !.at = place, !.unrecorded = k])
    BY <2>2
  <2>4. PICK n : n = [m EXCEPT !.at = place, !.unrecorded = k]
    OBVIOUS
  <2>5. n.wait = o.wait /\ n.promised = o.promised
    BY <1>1, <2>1, <2>4 DEF OpRecords
  <2>6. n.wait = 0 /\ n.promised = {}
    BY <1>4, <2>2, <2>5
  <2> QED
    BY <1>5, <2>2, <2>3, <2>4, <2>6
<1>20. CASE StreamPayload(r)
  <2>1. o.at = "stream" /\ UNCHANGED <<fleet, left>> /\ Step(r, [o EXCEPT !.sent = TRUE])
    BY <1>20 DEF StreamPayload, At, o
  <2>2. PICK n : n = [o EXCEPT !.sent = TRUE]
    OBVIOUS
  <2>3. n.wait = 0 /\ n.promised = {}
    BY <1>1, <1>4, <2>1, <2>2 DEF OpRecords
  <2> QED
    BY <1>5, <2>1, <2>2, <2>3
<1>21. CASE StreamError(r)
  <2>1. PICK kind \in fleet.kinds :
          /\ o.at = "stream" /\ RecordFailure(o.auth, kind)
          /\ StepRecording(r, o.auth,
               [o EXCEPT !.at = "failed", !.error = kind, !.boot = FALSE,
                         !.unrecorded = o.unrecorded - 1])
    BY <1>21 DEF StreamError, At, o
  <2>2. PICK n : n = [o EXCEPT !.at = "failed", !.error = kind, !.boot = FALSE,
                               !.unrecorded = o.unrecorded - 1]
    OBVIOUS
  <2>3. n.wait = 0 /\ n.promised = {}
    BY <1>1, <1>4, <2>1, <2>2 DEF OpRecords
  <2> QED
    BY <1>6, <2>1, <2>2, <2>3
<1>22. CASE StreamEnds(r)
  <2>1. PICK x : x = [o EXCEPT !.unrecorded = o.unrecorded - 1]
    OBVIOUS
  <2>2. o.at \in {"stream", "ending", "left"} /\ RecordSuccess(o.auth)
        /\ StepRecording(r, o.auth, Finished(x))
    BY <1>22, <2>1 DEF StreamEnds, At, o
  <2>3. PICK n : n = Finished(x)
    OBVIOUS
  <2> QED
    BY <1>7, <1>8, <2>2, <2>3
<1>23. CASE FailedStreamEnds(r) \/ StreamDropped(r) \/ GiveUp(r)
  <2>1. UNCHANGED <<fleet, left>> /\ Step(r, Finished(o))
    BY <1>23 DEF FailedStreamEnds, StreamDropped, GiveUp, o
  <2> QED
    BY <1>5, <1>8, <2>1
<1>24. CASE StreamLeft(r)
  <2>1. o.at = "stream" /\ UNCHANGED <<fleet, left>> /\ Step(r, [o EXCEPT !.at = "left"])
    BY <1>24 DEF StreamLeft, At, o
  <2>2. PICK n : n = [o EXCEPT !.at = "left"]
    OBVIOUS
  <2>3. n.wait = 0 /\ n.promised = {}
    BY <1>1, <1>4, <2>1, <2>2 DEF OpRecords
  <2> QED
    BY <1>5, <2>1, <2>2, <2>3
<1>25. CASE LeftFails(r)
  <2>1. PICK x : x = [o EXCEPT !.unrecorded = o.unrecorded - 1]
    OBVIOUS
  <2>2. PICK kind \in fleet.kinds :
          /\ o.at = "left" /\ RecordFailure(o.auth, kind)
          /\ StepRecording(r, o.auth, Finished(x))
    BY <1>25, <2>1 DEF LeftFails, At, o
  <2>3. PICK n : n = Finished(x)
    OBVIOUS
  <2> QED
    BY <1>6, <1>8, <2>2, <2>3
<1>26. CASE LeftCut(r)
  <2>1. PICK x : x = [o EXCEPT !.cut = TRUE]
    OBVIOUS
  <2>2. UNCHANGED <<fleet, left>> /\ Step(r, Finished(x))
    BY <1>26, <2>1 DEF LeftCut, o
  <2> QED
    BY <1>5, <1>8, <2>2
<1>27. CASE BootstrapRetry(r)
  <2>1. /\ o.at \in {"decide", "failed"} /\ UNCHANGED <<fleet, left>>
        /\ \E k : Step(r, [Restarted(r) EXCEPT !.retries = k])
    BY <1>27 DEF BootstrapRetry, Refused, At, o
  <2>2. PICK k : Step(r, [Restarted(r) EXCEPT !.retries = k])
    BY <2>1
  <2>3. PICK m : m = [o EXCEPT !.at = "pick", !.attempt = 0, !.tried = {}, !.error = NoError,
                               !.boot = FALSE]
    OBVIOUS
  <2>4. PICK n : n = [m EXCEPT !.retries = k]
    OBVIOUS
  <2>5. Step(r, n)
    BY <2>2, <2>3, <2>4 DEF Restarted, o
  <2>6. n.wait = o.wait /\ n.promised = o.promised
    BY <1>1, <2>3, <2>4 DEF OpRecords
  <2>7. n.wait = 0 /\ n.promised = {}
    BY <1>4, <2>1, <2>6
  <2> QED
    BY <1>5, <2>1, <2>5, <2>7
<1> QED
  BY <1>9, <1>10, <1>11, <1>12, <1>13, <1>14, <1>15, <1>16, <1>17, <1>18, <1>19, <1>20,
     <1>21, <1>22, <1>23, <1>24, <1>25, <1>26, <1>27 DEF Proceed

LEMMA PromiseNext == DispatchInv /\ PromisesOK /\ [Next]_vars => PromisesOK'
PROOF
<1> SUFFICES ASSUME DispatchInv, PromisesOK, [Next]_vars PROVE PromisesOK'
  OBVIOUS
<1>1. left \in [Auths -> Nat] /\ fleet \in Fleets /\ op \in [Requests -> OpRecords]
  BY DEF DispatchInv, IndexesOK, RequestsOK
<1>2. CASE Tick
  <2>1. ASSUME NEW r \in Requests PROVE PromiseOK(r, op'[r], fleet, left')
    <3>1. PICK o, w : o = op[r] /\ w = IF o.wait > 0 THEN o.wait - 1 ELSE 0
      OBVIOUS
    <3>2. o \in OpRecords /\ PromiseOK(r, o, fleet, left) /\ OwnIn(r, fleet) \in SUBSET Auths
      BY <1>1, <3>1, FleetFacts DEF PromisesOK
    <3>3. op'[r] = [o EXCEPT !.wait = w]
      BY <1>2, <3>1 DEF Tick
    <3>4. /\ op'[r].at = o.at /\ op'[r].tried = o.tried /\ op'[r].promised = o.promised
          /\ op'[r].wait = w /\ o.wait \in Nat
      BY <3>2, <3>3 DEF OpRecords
    <3>5. ASSUME NEW a \in o.promised PROVE left'[a] <= w
      <4>1. a \in Auths /\ left[a] <= o.wait /\ left[a] \in Nat
        BY <1>1, <3>2 DEF PromiseOK
      <4>2. left'[a] = IF left[a] > 0 THEN left[a] - 1 ELSE 0
        BY <1>2, <4>1 DEF Tick
      <4> QED
        BY <3>1, <3>4, <4>1, <4>2
    <3> QED
      BY <3>1, <3>2, <3>4, <3>5 DEF PromiseOK
  <2>2. fleet' = fleet
    BY <1>2 DEF Tick
  <2> QED
    BY <2>1, <2>2 DEF PromisesOK
<1>3. ASSUME NEW r \in Requests, Begin(r) PROVE PromisesOK'
  <2>1. PICK n : n = [IdleOp EXCEPT !.at = "pick"]
    OBVIOUS
  <2>2. Step(r, n) /\ UNCHANGED <<fleet, left>>
    BY <1>3, <2>1 DEF Begin
  <2>3. n.wait = 0 /\ n.promised = {}
    BY <2>1 DEF IdleOp
  <2>4. PromiseOK(r, n, fleet, left)
    BY <2>3 DEF PromiseOK
  <2> QED
    BY <2>2, <2>4, PromiseStep
<1>4. ASSUME NEW r \in Requests, Cancel(r) PROVE PromisesOK'
  <2>1. PICK o, n : o = op[r] /\ n = [o EXCEPT !.canceled = TRUE]
    OBVIOUS
  <2>2. Step(r, n) /\ UNCHANGED <<fleet, left>>
    BY <1>4, <2>1 DEF Cancel
  <2>3. n.at = o.at /\ n.wait = o.wait /\ n.tried = o.tried /\ n.promised = o.promised
    BY <1>1, <2>1 DEF OpRecords
  <2>4. PromiseOK(r, n, fleet, left)
    BY <2>1, <2>3 DEF PromiseOK, PromisesOK
  <2> QED
    BY <2>2, <2>4, PromiseStep
<1>5. ASSUME NEW r \in Requests, Proceed(r) PROVE PromisesOK'
  BY <1>5, PromiseProceed
<1>6. CASE UNCHANGED vars
  BY <1>6 DEF vars, PromisesOK
<1> QED
  BY <1>2, <1>3, <1>4, <1>5, <1>6 DEF Next

\* A wait between rounds is not in vain (closestCooldownWait, waitForCooldown):
\* the round that follows finds no credential ready only if all those waited
\* for have meanwhile failed another request.
THEOREM WaitsPayOff == Spec => WaitPaysOff
PROOF
<1>1. Init => PromisesOK
  <2> SUFFICES ASSUME Init, NEW r \in Requests PROVE PromiseOK(r, op[r], fleet, left)
    BY DEF PromisesOK
  <2>1. op[r] = IdleOp
    BY DEF Init
  <2> QED
    BY <2>1 DEF IdleOp, PromiseOK
<1>2. ASSUME DispatchInv, PromisesOK, NEW r \in Requests, InVain(r) PROVE FALSE
  <2>1. PICK o : o = op[r]
    OBVIOUS
  <2>2. PICK a \in o.promised : TRUE
    BY <1>2, <2>1 DEF InVain
  <2>3. /\ o.at = "pick" /\ o.tried = {} /\ Untried(r) = {}
        /\ PromiseOK(r, o, fleet, left) /\ left \in [Auths -> Nat] /\ fleet \in Fleets
    BY <1>2, <2>1 DEF InVain, PickMiss, At, PromisesOK, DispatchInv, IndexesOK
  <2>4. a \in OwnIn(r, fleet) /\ a \in Auths /\ left[a] <= 0
    BY <2>2, <2>3, FleetFacts DEF PromiseOK
  <2>5. left[a] = 0
    BY <2>3, <2>4
  <2>6. a \in OfProviders(Promoted(r), List[r])
    BY <2>4, <2>5 DEF OwnIn, Own, OfProviders, Promoted
  <2>7. a \in Untried(r)
    BY <2>1, <2>3, <2>6 DEF Untried
  <2> QED
    BY <2>3, <2>7
<1>3. DispatchInv /\ PromisesOK => \A r \in Requests : ~InVain(r)
  BY <1>2
<1>4. DispatchInv /\ PromisesOK /\ [Next]_vars => PromisesOK'
  BY PromiseNext
<1>5. DispatchInv /\ PromisesOK /\ [Next]_vars => [\A r \in Requests : ~InVain(r)]_vars
  BY <1>3
<1> QED
  BY <1>1, <1>4, <1>5, DispatchAlways, PTL DEF Spec, WaitPaysOff

(***************************************************************************)
(* Why no credential of a bucket is passed over for long.                  *)
(***************************************************************************)
\* A search finds the first there is from the cursor on.
LEMMA FoundFirst ==
  ASSUME NEW n \in Nat, NEW s, Len(s) = n, NEW cursor, NEW wanted,
         NEW k \in 0..n - 1, s[((cursor + k) % n) + 1] \in wanted
  PROVE  \E m \in 0..n - 1 :
           /\ Found(s, cursor, wanted) = (cursor + m) % n
           /\ s[((cursor + m) % n) + 1] \in wanted
           /\ \A o \in 0..n - 1 : s[((cursor + o) % n) + 1] \in wanted => m <= o
PROOF
<1> DEFINE Index(offset) == (cursor + offset) % n
           offsets == {o \in 0..(n - 1) : s[Index(o) + 1] \in wanted}
<1>1. offsets \in SUBSET Nat /\ offsets # {}
  OBVIOUS
<1>2. Found(s, cursor, wanted) = Index(Min(offsets))
  BY DEF Found
<1>3. PICK m : m = Min(offsets)
  OBVIOUS
<1>4. m \in offsets /\ \A o \in offsets : m <= o
  <2> HIDE DEF offsets
  <2> QED
    BY <1>1, <1>3, MinFacts
<1> QED
  BY <1>2, <1>3, <1>4

\* A member x of an ordered set is o places from where a cursor stands.
Away(S, cursor, x, o) ==
  /\ o \in 0..Cardinality(S) - 1
  /\ Ordered(S)[((cursor + o) % Cardinality(S)) + 1] = x

LEMMA AwayExists ==
  ASSUME NEW S \in SUBSET Nat, IsFiniteSet(S), NEW cursor \in Nat, cursor <= Cardinality(S),
         NEW x \in S
  PROVE  \E o \in 0..Cardinality(S) - 1 : Away(S, cursor, x, o)
PROOF
<1>1. PICK n, s : n = Cardinality(S) /\ s = Ordered(S)
  OBVIOUS
<1>2. n \in Nat /\ \A y \in S : \E i \in 1..n : s[i] = y
  BY <1>1, OrderedFacts
<1>3. PICK i \in 1..n : s[i] = x
  BY <1>2
<1>4. n \in Nat \ {0} /\ cursor <= n
  BY <1>1, <1>2, <1>3
<1>5. CASE i - 1 >= cursor
  <2>1. PICK o : o = (i - 1) - cursor
    OBVIOUS
  <2>2. o \in 0..n - 1 /\ cursor + o \in 0..n - 1 /\ cursor + o \in Int /\ cursor + o = i - 1
    BY <1>4, <1>5, <2>1
  <2>3. ((cursor + o) % n) + 1 = i
    <3>1. (cursor + o) % n = cursor + o
      BY <1>4, <2>2, ModFacts
    <3> QED
      BY <2>2, <3>1
  <2> QED
    BY <1>1, <1>3, <2>2, <2>3 DEF Away
<1>6. CASE ~(i - 1 >= cursor)
  <2>1. PICK o : o = ((i - 1) - cursor) + n
    OBVIOUS
  <2>2. /\ o \in 0..n - 1 /\ cursor + o \in n..(2 * n) - 1 /\ cursor + o \in Int
        /\ (cursor + o) - n = i - 1
    BY <1>4, <1>6, <2>1
  <2>3. ((cursor + o) % n) + 1 = i
    <3>1. (cursor + o) % n = (cursor + o) - n
      BY <1>4, <2>2, ModFacts
    <3> QED
      BY <2>2, <3>1
  <2> QED
    BY <1>1, <1>3, <2>2, <2>3 DEF Away
<1> QED
  BY <1>5, <1>6

\* A cursor one past the last stands on the first.
LEMMA AwayWrapped ==
  ASSUME NEW S \in SUBSET Nat, IsFiniteSet(S), NEW cursor \in Nat, cursor <= Cardinality(S),
         NEW x, NEW o, Away(S, cursor, x, o)
  PROVE  Away(S, cursor % Cardinality(S), x, o)
PROOF
<1>1. PICK n \in Nat : n = Cardinality(S)
  BY FS_CardinalityType
<1>2. o \in 0..n - 1 /\ n \in Nat \ {0}
  BY <1>1 DEF Away
<1>3. CASE cursor < n
  <2>1. cursor % n = cursor
    BY <1>2, <1>3
  <2> QED
    BY <1>1, <2>1
<1>4. CASE cursor = n
  <2>1. cursor % n = 0
    <3>1. n \in n..(2 * n) - 1 /\ n \in Int
      BY <1>2
    <3>2. n % n = n - n
      BY <1>2, <3>1, ModFacts
    <3> QED
      BY <1>2, <1>4, <3>2
  <2>2. n + o \in n..(2 * n) - 1 /\ n + o \in Int
    BY <1>2
  <2>3. (n + o) % n = o
    <3>1. (n + o) % n = (n + o) - n
      BY <1>2, <2>2, ModFacts
    <3> QED
      BY <1>2, <3>1
  <2>4. (0 + o) % n = o
    BY <1>2
  <2> QED
    BY <1>1, <1>4, <2>1, <2>3, <2>4 DEF Away
<1> QED
  BY <1>1, <1>3, <1>4

\* A search that leaves x where it is has come closer to it; one that takes it
\* leaves it the last in turn.
LEMMA AwayAfter ==
  ASSUME NEW S \in SUBSET Nat, IsFiniteSet(S), NEW cursor \in Nat, cursor <= Cardinality(S),
         NEW wanted, NEW x \in S, x \in wanted, NEW o, Away(S, cursor, x, o),
         NEW i, i = Found(Ordered(S), cursor, wanted)
  PROVE  \/ /\ Ordered(S)[i + 1] # x
            /\ \E k \in 0..o - 1 : Away(S, i + 1, x, k)
         \/ /\ Ordered(S)[i + 1] = x
            /\ Away(S, i + 1, x, Cardinality(S) - 1)
PROOF
<1>1. PICK n, s : n = Cardinality(S) /\ s = Ordered(S)
  OBVIOUS
<1>2. /\ n \in Nat /\ s \in [1..n -> S] /\ Len(s) = n
      /\ \A j, k \in 1..n : j < k => s[j] < s[k]
  BY <1>1, OrderedFacts
<1>3. o \in 0..n - 1 /\ s[((cursor + o) % n) + 1] = x /\ n \in Nat \ {0} /\ cursor <= n
  BY <1>1, <1>2 DEF Away
<1>4. PICK m \in 0..n - 1 :
        /\ Found(s, cursor, wanted) = (cursor + m) % n
        /\ \A k \in 0..n - 1 : s[((cursor + k) % n) + 1] \in wanted => m <= k
  BY <1>2, <1>3, FoundFirst
<1>5. m <= o /\ i = (cursor + m) % n
  BY <1>1, <1>3, <1>4
<1>6. \A k \in 0..n - 1 : \/ cursor + k < n /\ (cursor + k) % n = cursor + k
                          \/ cursor + k >= n /\ (cursor + k) % n = (cursor + k) - n
  <2> TAKE k \in 0..n - 1
  <2>1. PICK y : y = cursor + k
    OBVIOUS
  <2>2. y \in Int /\ (y \in 0..n - 1 \/ y \in n..(2 * n) - 1)
    BY <1>3, <2>1
  <2>3. (y \in 0..n - 1 => y % n = y) /\ (y \in n..(2 * n) - 1 => y % n = y - n)
    BY <1>3, <2>2, ModFacts
  <2> QED
    BY <1>3, <2>1, <2>2, <2>3
<1>7. i \in 0..n - 1
  BY <1>3, <1>5, <1>6
<1>8. CASE m = o
  <2>1. s[i + 1] = x
    BY <1>3, <1>5, <1>8
  <2>2. (i + 1) + (n - 1) \in n..(2 * n) - 1 /\ (i + 1) + (n - 1) \in Int
    BY <1>3, <1>7
  <2>3. ((i + 1) + (n - 1)) % n = i
    <3>1. ((i + 1) + (n - 1)) % n = ((i + 1) + (n - 1)) - n
      BY <1>3, <2>2, ModFacts
    <3> QED
      BY <1>3, <1>7, <3>1
  <2>4. n - 1 \in 0..n - 1
    BY <1>3
  <2> QED
    BY <1>1, <2>1, <2>3, <2>4 DEF Away
<1>9. CASE m < o
  <2>1. PICK j : j = (cursor + o) % n
    OBVIOUS
  <2>2. j \in 0..n - 1 /\ j # i
    BY <1>3, <1>5, <1>6, <1>9, <2>1
  <2>3. s[i + 1] # x
    <3>1. s[j + 1] = x /\ j + 1 \in 1..n /\ i + 1 \in 1..n
      BY <1>3, <1>7, <2>1, <2>2
    <3>2. s[i + 1] \in Nat /\ x \in Nat
      BY <1>2, <3>1
    <3>3. i + 1 < j + 1 \/ j + 1 < i + 1
      BY <1>7, <2>2
    <3>4. s[i + 1] < s[j + 1] \/ s[j + 1] < s[i + 1]
      BY <1>2, <3>1, <3>3
    <3> QED
      BY <3>1, <3>2, <3>4
  <2>4. PICK k : k = (o - m) - 1
    OBVIOUS
  <2>5. k \in 0..o - 1 /\ k \in 0..n - 1
    BY <1>3, <1>9, <2>4
  <2>6. ((i + 1) + k) % n = j
    <3>1. (i + 1) + k \in Int /\ ((i + 1) + k = cursor + o \/ (i + 1) + k = (cursor + o) - n)
          /\ ((i + 1) + k = (cursor + o) - n => cursor + m >= n)
      BY <1>3, <1>5, <1>6, <1>7, <1>9, <2>4
    <3>2. CASE (i + 1) + k = cursor + o
      BY <2>1, <3>2
    <3>3. CASE (i + 1) + k = (cursor + o) - n
      <4>1. cursor + o >= n
        BY <1>3, <1>9, <3>1, <3>3
      <4>2. j = (cursor + o) - n
        BY <1>3, <1>6, <2>1, <4>1
      <4>3. (i + 1) + k = j
        BY <3>3, <4>2
      <4>4. j % n = j
        BY <1>3, <2>2
      <4> QED
        BY <4>3, <4>4
    <3> QED
      BY <3>1, <3>2, <3>3
  <2>7. Away(S, i + 1, x, k)
    BY <1>1, <1>3, <2>1, <2>5, <2>6 DEF Away
  <2> QED
    BY <1>1, <2>3, <2>5, <2>7
<1> QED
  BY <1>3, <1>5, <1>8, <1>9

\* Credential a of a bucket, passed over count times, has its turn in time: these
\* times and those to come make less than a round of the bucket.  From the cursor
\* to a are o credentials.  In a grouped bucket the parents come in turn: from
\* their cursor to a's are u, and a's comes o times more before a's turn.
TurnOK(a, bucket, view, count) ==
  LET P == Cardinality(ParentsOf(bucket))
      C == Cardinality(Children(bucket, Parent[a]))
  IN  IF Grouped(bucket)
        THEN \E u \in 0..P - 1, o \in 0..C - 1 :
               /\ Away(ParentsOf(bucket), view.parent, Parent[a], u)
               /\ Away(Children(bucket, Parent[a]), view.child[Parent[a]], a, o)
               /\ count + (o * P + u) < P * C
        ELSE \E o \in 0..Cardinality(bucket) - 1 :
               Away(bucket, view.cursor, a, o) /\ count + o < Cardinality(bucket)

\* A bucket, the set of its parents, and one parent's credentials.
LEMMA BucketParts ==
  ASSUME NEW bucket \in SUBSET Auths, NEW a \in bucket, NEW view, ViewOK(view, bucket)
  PROVE  /\ bucket \in SUBSET Nat /\ IsFiniteSet(bucket)
         /\ Cardinality(bucket) \in Nat \ {0}
         /\ ParentsOf(bucket) \in SUBSET Nat /\ IsFiniteSet(ParentsOf(bucket))
         /\ Cardinality(ParentsOf(bucket)) \in Nat \ {0} /\ Parent[a] \in ParentsOf(bucket)
         /\ Parent[a] \in Parents
         /\ Children(bucket, Parent[a]) \in SUBSET Nat
         /\ IsFiniteSet(Children(bucket, Parent[a])) /\ a \in Children(bucket, Parent[a])
         /\ Cardinality(Children(bucket, Parent[a])) \in Nat \ {0}
         /\ view.cursor \in Nat /\ view.cursor <= Cardinality(bucket)
         /\ view.parent \in Nat /\ view.parent <= Cardinality(ParentsOf(bucket))
         /\ view.child \in [Parents -> Nat] /\ view.child[Parent[a]] \in Nat
         /\ view.child[Parent[a]] <= Cardinality(Children(bucket, Parent[a]))
PROOF
<1>1. /\ bucket \in SUBSET Nat /\ IsFiniteSet(bucket)
      /\ Cardinality(bucket) \in Nat /\ Cardinality(bucket) >= 1
  BY Finite
<1> DEFINE T == ParentsOf(bucket)
<1>7. T \in SUBSET Nat /\ IsFiniteSet(T) /\ Cardinality(T) \in Nat /\ T \subseteq Parents
  BY Finite
<1>2. Parent[a] \in ParentsOf(bucket)
  BY DEF ParentsOf
<1>3. Cardinality(T) # 0
  BY <1>7, <1>2, FS_EmptySet
<1>4. PICK C : C = Children(bucket, Parent[a])
  OBVIOUS
<1>5. C \in SUBSET Auths /\ a \in C
  BY <1>4 DEF Children
<1>6. C \in SUBSET Nat /\ IsFiniteSet(C) /\ Cardinality(C) \in Nat /\ Cardinality(C) >= 1
  BY <1>5, Finite
<1>8. Cardinality(bucket) \in Nat \ {0} /\ Cardinality(C) \in Nat \ {0}
  BY <1>1, <1>6
<1>9. /\ view.cursor \in Nat /\ view.cursor <= Cardinality(bucket)
      /\ view.parent \in Nat /\ view.parent <= Cardinality(T)
      /\ view.child \in [Parents -> Nat] /\ Parent[a] \in Parents
      /\ view.child[Parent[a]] \in Nat /\ view.child[Parent[a]] <= Cardinality(C)
  BY <1>2, <1>4, <1>7 DEF ViewOK
<1> QED
  BY <1>1, <1>2, <1>3, <1>4, <1>5, <1>6, <1>7, <1>8, <1>9

\* Rounds of P parents.
LEMMA RoundArithmetic ==
  ASSUME NEW P \in Nat \ {0}, NEW C \in Nat \ {0}, NEW o \in 0..C - 1, NEW u \in 0..P - 1
  PROVE  /\ o * P + u \in Nat /\ P * C \in Nat /\ o * P + u < P * C
         /\ \A k \in 0..o - 1 : k * P + P <= o * P /\ k * P \in Nat
PROOF
<1>1. \A k \in Nat : k * P \in Nat
  OBVIOUS
<1>2. P * C = C * P /\ C * P \in Nat /\ o * P \in Nat
  BY <1>1
<1>3. \A k \in 0..o - 1 : k * P + P <= o * P
  <2> TAKE k \in 0..o - 1
  <2>1. k + 1 \in Nat /\ k + 1 <= o /\ o \in Nat /\ k \in Nat
    OBVIOUS
  <2>2. (k + 1) * P <= o * P
    BY <2>1, Products
  <2>3. (k + 1) * P = k * P + P
    BY <2>1
  <2> QED
    BY <2>2, <2>3
<1>4. o * P + P <= C * P
  <2>1. o + 1 \in Nat /\ o + 1 <= C /\ o \in Nat
    OBVIOUS
  <2>2. (o + 1) * P <= C * P
    BY <2>1, Products
  <2>3. (o + 1) * P = o * P + P
    BY <2>1
  <2> QED
    BY <2>2, <2>3
<1> QED
  BY <1>1, <1>2, <1>3, <1>4

LEMMA TurnFresh ==
  ASSUME NEW bucket \in SUBSET Auths, NEW a \in bucket, NEW view, ViewOK(view, bucket)
  PROVE  TurnOK(a, bucket, view, 0)
PROOF
<1>1. CASE ~Grouped(bucket)
  <2>1. PICK o \in 0..Cardinality(bucket) - 1 : Away(bucket, view.cursor, a, o)
    BY BucketParts, AwayExists
  <2>2. 0 + o < Cardinality(bucket)
    BY <2>1, BucketParts
  <2> QED
    BY <1>1, <2>1, <2>2 DEF TurnOK
<1>2. CASE Grouped(bucket)
  <2>1. PICK P, C, S, T : /\ T = ParentsOf(bucket) /\ S = Children(bucket, Parent[a])
                          /\ P = Cardinality(T) /\ C = Cardinality(S)
    OBVIOUS
  <2>2. P \in Nat \ {0} /\ C \in Nat \ {0}
    BY <2>1, BucketParts
  <2>3. PICK u \in 0..P - 1 : Away(T, view.parent, Parent[a], u)
    BY <2>1, BucketParts, AwayExists
  <2>4. PICK o \in 0..C - 1 : Away(S, view.child[Parent[a]], a, o)
    BY <2>1, BucketParts, AwayExists
  <2>5. 0 + (o * P + u) < P * C
    BY <2>2, <2>3, <2>4, RoundArithmetic
  <2> QED
    BY <1>2, <2>1, <2>3, <2>4, <2>5 DEF TurnOK
<1> QED
  BY <1>1, <1>2

LEMMA TurnBound ==
  ASSUME NEW bucket \in SUBSET Auths, NEW a \in bucket, NEW view, ViewOK(view, bucket),
         NEW count \in Nat, TurnOK(a, bucket, view, count)
  PROVE  count < IF Grouped(bucket)
                   THEN Cardinality(ParentsOf(bucket)) * Cardinality(Children(bucket, Parent[a]))
                   ELSE Cardinality(bucket)
PROOF
<1>1. CASE ~Grouped(bucket)
  <2>1. PICK n \in Nat : n = Cardinality(bucket)
    BY BucketParts
  <2>2. PICK o \in 0..n - 1 : count + o < n
    BY <1>1, <2>1 DEF TurnOK
  <2>3. count < n
    BY <2>2
  <2> QED
    BY <1>1, <2>1, <2>3
<1>2. CASE Grouped(bucket)
  <2>1. PICK P, C : /\ P = Cardinality(ParentsOf(bucket))
                    /\ C = Cardinality(Children(bucket, Parent[a]))
    OBVIOUS
  <2>2. P \in Nat \ {0} /\ C \in Nat \ {0}
    BY <2>1, BucketParts
  <2>3. PICK u \in 0..P - 1, o \in 0..C - 1 : count + (o * P + u) < P * C
    BY <1>2, <2>1 DEF TurnOK
  <2>4. PICK x \in Nat, y \in Nat : x = o * P + u /\ y = P * C
    BY <2>2, <2>3, RoundArithmetic
  <2>5. count < y
    BY <2>3, <2>4
  <2> QED
    BY <1>2, <2>1, <2>4, <2>5
<1> QED
  BY <1>1, <1>2

\* A rebuild that leaves a bucket as it was leaves its turns.
LEMMA TurnRestored ==
  ASSUME NEW bucket \in SUBSET Auths, NEW a \in bucket, NEW view, ViewOK(view, bucket),
         NEW count, TurnOK(a, bucket, view, count)
  PROVE  TurnOK(a, bucket, Restored(view, bucket), count)
PROOF
<1>1. PICK v : v = Restored(view, bucket)
  OBVIOUS
<1>2. v.cursor = view.cursor % Cardinality(bucket)
  BY <1>1 DEF Restored
<1>3. CASE ~Grouped(bucket)
  <2>1. PICK o \in 0..Cardinality(bucket) - 1 :
               Away(bucket, view.cursor, a, o) /\ count + o < Cardinality(bucket)
    BY <1>3 DEF TurnOK
  <2>2. Away(bucket, v.cursor, a, o)
    BY <1>2, <2>1, BucketParts, AwayWrapped
  <2> QED
    BY <1>1, <1>3, <2>1, <2>2 DEF TurnOK
<1>4. CASE Grouped(bucket)
  <2>1. PICK P, C, S, T : /\ T = ParentsOf(bucket) /\ S = Children(bucket, Parent[a])
                          /\ P = Cardinality(T) /\ C = Cardinality(S)
    OBVIOUS
  <2>2. PICK u \in 0..P - 1, o \in 0..C - 1 :
               /\ Away(T, view.parent, Parent[a], u) /\ Away(S, view.child[Parent[a]], a, o)
               /\ count + (o * P + u) < P * C
    BY <1>4, <2>1 DEF TurnOK
  <2>3. v.parent = view.parent % P
    BY <1>1, <1>4, <2>1 DEF Restored
  <2>4. v.child[Parent[a]] = view.child[Parent[a]] % C
    <3>1. Parent[a] \in Parents /\ Parent[a] \in ParentsOf(bucket)
      BY BucketParts
    <3> QED
      BY <1>1, <1>4, <2>1, <3>1 DEF Restored
  <2>5. Away(T, v.parent, Parent[a], u)
    BY <2>1, <2>2, <2>3, BucketParts, AwayWrapped
  <2>6. Away(S, v.child[Parent[a]], a, o)
    <3>1. view.child[Parent[a]] \in Nat
      BY BucketParts
    <3> QED
      BY <2>1, <2>2, <2>4, <3>1, BucketParts, AwayWrapped
  <2> QED
    BY <1>1, <1>4, <2>1, <2>2, <2>5, <2>6 DEF TurnOK
<1> QED
  BY <1>3, <1>4

\* A choice of another credential of the bucket brings a's turn closer.
LEMMA TurnPassed ==
  ASSUME NEW bucket \in SUBSET Auths, NEW a \in bucket, NEW view, ViewOK(view, bucket),
         NEW count \in Nat, TurnOK(a, bucket, view, count), NEW eligible, a \in eligible,
         NEW got, got = PickRoundRobin(bucket, view, eligible), got.auth # a
  PROVE  TurnOK(a, bucket, got.view, count + 1)
PROOF
<1>1. CASE ~Grouped(bucket)
  <2>1. PICK o \in 0..Cardinality(bucket) - 1 :
               Away(bucket, view.cursor, a, o) /\ count + o < Cardinality(bucket)
    BY <1>1 DEF TurnOK
  <2>2. PICK i : i = Found(Ordered(bucket), view.cursor, eligible)
    OBVIOUS
  <2>3. got = [auth |-> Ordered(bucket)[i + 1], view |-> [view EXCEPT !.cursor = i + 1]]
    BY <1>1, <2>2 DEF PickRoundRobin
  <2>4. got.auth = Ordered(bucket)[i + 1] /\ got.view.cursor = i + 1
    BY <2>3 DEF ViewOK
  <2>5. PICK k \in 0..o - 1 : Away(bucket, i + 1, a, k)
    BY <2>1, <2>2, <2>4, BucketParts, AwayAfter
  <2>6. k \in 0..Cardinality(bucket) - 1 /\ (count + 1) + k < Cardinality(bucket)
    <3>1. PICK n \in Nat : n = Cardinality(bucket)
      BY BucketParts
    <3>2. o \in 0..n - 1 /\ count + o < n /\ k \in 0..o - 1
      BY <2>1, <2>5, <3>1
    <3>3. k \in 0..n - 1 /\ (count + 1) + k < n
      BY <3>2
    <3> QED
      BY <3>1, <3>3
  <2> QED
    BY <1>1, <2>4, <2>5, <2>6 DEF TurnOK
<1>2. CASE Grouped(bucket)
  <2>1. PICK P, C, S, T, q : /\ T = ParentsOf(bucket) /\ q = Parent[a]
                             /\ S = Children(bucket, q)
                             /\ P = Cardinality(T) /\ C = Cardinality(S)
    OBVIOUS
  <2>2. PICK u \in 0..P - 1, o \in 0..C - 1 :
               /\ Away(T, view.parent, q, u) /\ Away(S, view.child[q], a, o)
               /\ count + (o * P + u) < P * C
    BY <1>2, <2>1 DEF TurnOK
  <2>3. PICK wanted : wanted = {x \in ParentsOf(bucket) : Children(bucket, x) \cap eligible # {}}
    OBVIOUS
  <2>4. PICK j : j = Found(Ordered(T), view.parent, wanted)
    OBVIOUS
  <2>5. PICK z : z = Ordered(T)[j + 1]
    OBVIOUS
  <2>6. PICK i : i = Found(Ordered(Children(bucket, z)), view.child[z], eligible)
    OBVIOUS
  <2>7. got = [auth |-> Ordered(Children(bucket, z))[i + 1],
               view |-> [view EXCEPT !.parent = j + 1, !.child[z] = i + 1]]
    BY <1>2, <2>1, <2>3, <2>4, <2>5, <2>6 DEF PickRoundRobin
  <2>8. PICK child : child = [view.child EXCEPT ![z] = i + 1]
    OBVIOUS
  <2>9. /\ got.auth = Ordered(Children(bucket, z))[i + 1]
        /\ got.view.parent = j + 1 /\ got.view.child = child
    <3>1. got.view = [view EXCEPT !.parent = j + 1, !.child = child]
      BY <2>7, <2>8
    <3>2. view \in [cursor : Nat, parent : Nat, child : [Parents -> Nat]]
      BY DEF ViewOK
    <3>3. got.view.parent = j + 1 /\ got.view.child = child
      BY <3>1, <3>2
    <3> QED
      BY <2>7, <3>3
  <2>10. /\ T \in SUBSET Nat /\ IsFiniteSet(T) /\ view.parent \in Nat /\ view.parent <= P
         /\ q \in T /\ S \in SUBSET Nat /\ IsFiniteSet(S) /\ a \in S
         /\ view.child \in [Parents -> Nat] /\ q \in Parents /\ view.child[q] <= C
         /\ P \in Nat \ {0} /\ C \in Nat \ {0}
    BY <2>1, BucketParts
  <2>11. q \in wanted
    BY <2>1, <2>3, <2>10
  <2>12. PICK x \in Nat, y \in Nat : x = o * P /\ y = P * C
    BY <2>2, <2>10, RoundArithmetic
  <2>13. CASE z # q
    <3>1. PICK k \in 0..u - 1 : Away(T, j + 1, q, k)
      BY <2>1, <2>2, <2>4, <2>5, <2>10, <2>11, <2>13, AwayAfter
    <3>2. child[q] = view.child[q]
      BY <2>8, <2>10, <2>13
    <3>3. k \in 0..P - 1 /\ (count + 1) + (o * P + k) < P * C
      BY <2>2, <2>10, <2>12, <3>1
    <3> QED
      BY <1>2, <2>1, <2>2, <2>9, <3>1, <3>2, <3>3 DEF TurnOK
  <2>14. CASE z = q
    <3>1. Away(T, j + 1, q, P - 1)
      <4>1. Ordered(T)[j + 1] = q /\ Away(T, view.parent, q, u) /\ view.parent <= Cardinality(T)
        BY <2>1, <2>2, <2>5, <2>10, <2>14
      <4>2. Away(T, j + 1, q, Cardinality(T) - 1)
        BY <2>4, <2>10, <2>11, <4>1, AwayAfter
      <4> QED
        BY <2>1, <4>2
    <3>2. child[q] = i + 1
      BY <2>8, <2>10, <2>14
    <3>3. view.child[q] \in Nat /\ i = Found(Ordered(S), view.child[q], eligible)
          /\ Ordered(S)[i + 1] # a
      BY <2>1, <2>6, <2>9, <2>10, <2>14
    <3>4. PICK k \in 0..o - 1 : Away(S, i + 1, a, k)
      BY <2>1, <2>2, <2>10, <3>3, AwayAfter
    <3>5. k \in 0..C - 1 /\ P - 1 \in 0..P - 1
      BY <2>2, <2>10, <3>4
    <3>6. PICK w \in Nat : w = k * P /\ w + P <= x
      BY <2>2, <2>10, <2>12, <3>4, RoundArithmetic
    <3>7. (count + 1) + (k * P + (P - 1)) < P * C
      <4>1. count + (x + u) < y
        BY <2>2, <2>12
      <4>2. (count + 1) + (w + (P - 1)) < y
        BY <2>2, <2>10, <3>6, <4>1
      <4> QED
        BY <2>12, <3>6, <4>2
    <3> QED
      BY <1>2, <2>1, <2>9, <3>1, <3>2, <3>4, <3>5, <3>7 DEF TurnOK
  <2> QED
    BY <2>13, <2>14
<1> QED
  BY <1>1, <1>2

\* The parts of a choice by turns: the priority, the provider's turn and the
\* credential with its view.
ChosenBest(set, list, eligible) == Best(OfProviders(set \cap eligible, list))
ChosenTurn(set, list, eligible, slot) ==
  IF Len(list) = 1 THEN [provider |-> list[1], slot |-> slot]
  ELSE Turn(set, list, eligible, ChosenBest(set, list, eligible), slot)
ChosenProvider(set, list, eligible, slot) == ChosenTurn(set, list, eligible, slot).provider
ChosenBucket(set, list, eligible, slot) ==
  Bucket(set, ChosenProvider(set, list, eligible, slot), ChosenBest(set, list, eligible))

ChosenView(set, shards, list, eligible, slot) ==
  shards[ChosenProvider(set, list, eligible, slot)][ChosenBest(set, list, eligible)]
ChosenPick(set, shards, list, eligible, slot) ==
  PickRoundRobin(ChosenBucket(set, list, eligible, slot),
                 ChosenView(set, shards, list, eligible, slot), eligible)

LEMMA RoundRobinParts ==
  ASSUME NEW list, NEW set, NEW eligible, NEW shards, NEW slot, NEW choice,
         choice = RoundRobin(set, shards, list, eligible, slot)
  PROVE  /\ choice.auth = ChosenPick(set, shards, list, eligible, slot).auth
         /\ choice.views
              = [shards EXCEPT ![ChosenProvider(set, list, eligible, slot)]
                                [ChosenBest(set, list, eligible)]
                                  = ChosenPick(set, shards, list, eligible, slot).view]
         /\ choice.slot = ChosenTurn(set, list, eligible, slot).slot
PROOF
<1>1. PICK best, p : /\ best = ChosenBest(set, list, eligible)
                     /\ p = ChosenProvider(set, list, eligible, slot)
  OBVIOUS
<1>2. PICK got : got = PickRoundRobin(Bucket(set, p, best), shards[p][best], eligible)
  OBVIOUS
<1>3. choice = [auth |-> got.auth, views |-> [shards EXCEPT ![p][best] = got.view],
                slot |-> ChosenTurn(set, list, eligible, slot).slot]
  BY <1>1, <1>2 DEF RoundRobin, ChosenTurn, ChosenProvider, ChosenBest
<1>4. got = ChosenPick(set, shards, list, eligible, slot)
  BY <1>1, <1>2 DEF ChosenPick, ChosenBucket, ChosenView
<1>5. /\ choice.auth = got.auth /\ choice.views = [shards EXCEPT ![p][best] = got.view]
      /\ choice.slot = ChosenTurn(set, list, eligible, slot).slot
  BY <1>3
<1> QED
  BY <1>1, <1>4, <1>5

LEMMA ChosenFacts ==
  ASSUME NEW list, ListOK(list), NEW set \in SUBSET Auths, NEW eligible,
         OfProviders(set \cap eligible, list) # {}, NEW slot \in 0..Cardinality(Auths)
  PROVE  /\ ChosenBest(set, list, eligible) \in Priorities
         /\ ChosenProvider(set, list, eligible, slot) \in Providers
         /\ \E i \in 1..Len(list) : ChosenProvider(set, list, eligible, slot) = list[i]
         /\ ChosenBucket(set, list, eligible, slot) \cap eligible # {}
         /\ ChosenTurn(set, list, eligible, slot).slot \in 0..Cardinality(Auths)
PROOF
<1>1. PICK best : best = ChosenBest(set, list, eligible)
  OBVIOUS
<1>2. best \in Priorities
      /\ \E i \in 1..Len(list) : Bucket(set, list[i], best) \cap eligible # {}
  BY <1>1, BestFacts DEF ChosenBest
<1>3. list \in Seq(Providers) /\ IsInjective(list) /\ Len(list) \in Nat
  BY DEF ListOK
<1>4. PICK turn : turn = ChosenTurn(set, list, eligible, slot)
  OBVIOUS
<1>5. /\ turn.provider \in Providers
      /\ \E i \in 1..Len(list) : turn.provider = list[i]
      /\ Bucket(set, turn.provider, best) \cap eligible # {}
      /\ turn.slot \in 0..Cardinality(Auths)
  <2>1. CASE Len(list) = 1
    <3>1. turn.provider = list[1] /\ turn.slot = slot
      BY <1>4, <2>1 DEF ChosenTurn
    <3>2. PICK i \in 1..Len(list) : Bucket(set, list[i], best) \cap eligible # {}
      BY <1>2
    <3>3. i = 1 /\ list[1] \in Providers
      BY <1>3, <2>1
    <3> QED
      BY <2>1, <3>1, <3>2, <3>3
  <2>2. CASE Len(list) # 1
    <3>1. slot \in Nat /\ turn = Turn(set, list, eligible, best, slot)
      BY <1>1, <1>4, <2>2 DEF ChosenTurn
    <3> QED
      BY <1>2, <1>3, <3>1, TurnFacts
  <2> QED
    BY <2>1, <2>2
<1> QED
  BY <1>1, <1>2, <1>4, <1>5 DEF ChosenProvider, ChosenBucket

-----------------------------------------------------------------------------
\* The turns of a set of ready credentials, by the shards' cursors and the
\* counts of the choices that passed over each.
TurnsIn(set, shards, counts) ==
  /\ counts \in [Auths -> Nat]
  /\ \A a \in set :
       TurnOK(a, MyBucket(set, a), shards[ProviderOf[a]][Priority[a]], counts[a])

LEMMA MyBucketFacts ==
  ASSUME NEW set \in SUBSET Auths, NEW a \in set, NEW shards, ViewsOK(shards, set)
  PROVE  /\ MyBucket(set, a) \in SUBSET Auths /\ a \in MyBucket(set, a)
         /\ ViewOK(shards[ProviderOf[a]][Priority[a]], MyBucket(set, a))
         /\ ProviderOf[a] \in Providers /\ Priority[a] \in Priorities
PROOF
<1>1. ProviderOf[a] \in Providers /\ Priority[a] \in Priorities
  BY RotationAssumption DEF Priorities
<1> QED
  BY <1>1 DEF MyBucket, Bucket, ViewsOK

LEMMA TurnsFresh ==
  ASSUME NEW set \in SUBSET Auths, NEW shards, ViewsOK(shards, set), NEW counts,
         counts = [a \in Auths |-> 0]
  PROVE  TurnsIn(set, shards, counts)
PROOF
<1>1. ASSUME NEW a \in set
      PROVE  TurnOK(a, MyBucket(set, a), shards[ProviderOf[a]][Priority[a]], counts[a])
  <2>1. counts[a] = 0
    OBVIOUS
  <2> QED
    BY <2>1, MyBucketFacts, TurnFresh
<1> QED
  BY <1>1 DEF TurnsIn

\* Ready credentials change: a bucket that stays as it was keeps its turns.
LEMMA TurnsMoved ==
  ASSUME NEW shards, NEW old \in SUBSET Auths, NEW set \in SUBSET Auths, ViewsOK(shards, old),
         NEW Q, \A a \in (old \ set) \cup (set \ old) : ProviderOf[a] \in Q, NEW new,
         new = [p \in Providers |-> IF p \in Q THEN Rebuilt(shards[p], old, set, p)
                                    ELSE shards[p]],
         NEW counts, TurnsIn(old, shards, counts), NEW kept,
         kept = [a \in Auths |-> IF MyBucket(set, a) = MyBucket(old, a) THEN counts[a] ELSE 0]
  PROVE  TurnsIn(set, new, kept)
PROOF
<1>1. ViewsOK(new, set)
  BY ShardsOK
<1>2. kept \in [Auths -> Nat]
  BY DEF TurnsIn
<1>3. ASSUME NEW a \in set
      PROVE  TurnOK(a, MyBucket(set, a), new[ProviderOf[a]][Priority[a]], kept[a])
  <2>1. PICK b, p, priority : b = MyBucket(set, a) /\ p = ProviderOf[a] /\ priority = Priority[a]
    OBVIOUS
  <2>2. /\ b \in SUBSET Auths /\ a \in b /\ ViewOK(new[p][priority], b)
        /\ p \in Providers /\ priority \in Priorities
    BY <1>1, <2>1, MyBucketFacts
  <2>3. CASE b # MyBucket(old, a)
    <3>1. kept[a] = 0
      BY <2>1, <2>3
    <3> QED
      BY <2>1, <2>2, <3>1, TurnFresh
  <2>4. CASE b = MyBucket(old, a)
    <3>1. a \in old /\ kept[a] = counts[a]
      BY <2>1, <2>2, <2>4 DEF MyBucket, Bucket
    <3>2. PICK v : v = shards[p][priority]
      OBVIOUS
    <3>3. TurnOK(a, b, v, counts[a]) /\ ViewOK(v, b)
      BY <2>1, <2>4, <3>1, <3>2, MyBucketFacts DEF TurnsIn
    <3>4. CASE p \notin Q
      <4>1. new[p][priority] = v
        BY <2>2, <3>2, <3>4
      <4> QED
        BY <2>1, <3>1, <3>3, <4>1
    <3>5. CASE p \in Q
      <4>1. b = Bucket(old, p, priority) /\ b = Bucket(set, p, priority) /\ b # {}
        BY <2>1, <2>2, <2>4 DEF MyBucket
      <4>2. Rebuilt(shards[p], old, set, p)[priority] = Restored(v, b)
        BY <2>2, <3>2, <4>1 DEF Rebuilt
      <4>3. new[p][priority] = Restored(v, b)
        BY <2>2, <3>5, <4>2
      <4> QED
        BY <2>1, <2>2, <3>1, <3>3, <4>3, TurnRestored
    <3> QED
      BY <3>4, <3>5
  <2> QED
    BY <2>3, <2>4
<1> QED
  BY <1>2, <1>3 DEF TurnsIn

\* A choice by turns.
LEMMA TurnsChosen ==
  ASSUME NEW list, ListOK(list), NEW set \in SUBSET Auths, NEW eligible,
         OfProviders(set \cap eligible, list) # {},
         NEW shards, ViewsOK(shards, set), NEW slot \in 0..Cardinality(Auths),
         NEW choice, choice = RoundRobin(set, shards, list, eligible, slot),
         NEW counts, TurnsIn(set, shards, counts), NEW after,
         after = Pass(counts, MyBucket(set, choice.auth), choice.auth, eligible)
  PROVE  TurnsIn(set, choice.views, after)
PROOF
<1>1. PICK best, p, b : /\ best = ChosenBest(set, list, eligible)
                        /\ p = ChosenProvider(set, list, eligible, slot)
                        /\ b = Bucket(set, p, best)
  OBVIOUS
<1>2. p \in Providers /\ best \in Priorities /\ b \cap eligible # {}
  BY <1>1, ChosenFacts DEF ChosenBucket
<1>3. b = Bucket(set, p, best)
  BY <1>1
<1>4. PICK got : got = PickRoundRobin(b, shards[p][best], eligible)
  OBVIOUS
<1>5. choice.auth = got.auth /\ choice.views = [shards EXCEPT ![p][best] = got.view]
  <2>1. got = ChosenPick(set, shards, list, eligible, slot)
    BY <1>1, <1>4 DEF ChosenPick, ChosenBucket, ChosenView
  <2> QED
    BY <1>1, <2>1, RoundRobinParts
<1>6. b \in SUBSET Auths /\ ViewOK(shards[p][best], b)
  BY <1>2, <1>3 DEF Bucket, ViewsOK
<1>7. got.auth \in b /\ got.auth \in eligible /\ ViewOK(got.view, b)
  BY <1>2, <1>4, <1>6, PickRoundRobinFacts
<1>8. PICK chosen : chosen = got.auth
  OBVIOUS
<1>9. MyBucket(set, chosen) = b
  BY <1>3, <1>7, <1>8 DEF MyBucket, Bucket
<1>10. after = [a \in Auths |-> IF a \notin b THEN counts[a]
                                ELSE IF a = chosen \/ a \notin eligible THEN 0
                                ELSE counts[a] + 1]
  BY <1>5, <1>8, <1>9 DEF Pass
<1>11. counts \in [Auths -> Nat]
  BY DEF TurnsIn
<1>12. after \in [Auths -> Nat]
  BY <1>10, <1>11
<1>13. ASSUME NEW a \in set
       PROVE  TurnOK(a, MyBucket(set, a), choice.views[ProviderOf[a]][Priority[a]], after[a])
  <2>1. /\ ProviderOf[a] \in Providers /\ Priority[a] \in Priorities /\ a \in Auths
        /\ TurnOK(a, MyBucket(set, a), shards[ProviderOf[a]][Priority[a]], counts[a])
    BY MyBucketFacts DEF TurnsIn
  <2>2. shards \in AllViews
    BY DEF ViewsOK
  <2>3. CASE a \notin b
    <3>1. ProviderOf[a] # p \/ Priority[a] # best
      BY <1>3, <2>3 DEF Bucket
    <3>2. choice.views[ProviderOf[a]][Priority[a]] = shards[ProviderOf[a]][Priority[a]]
      BY <1>2, <1>5, <2>1, <2>2, <3>1 DEF AllViews
    <3>3. after[a] = counts[a]
      BY <1>10, <2>3
    <3> QED
      BY <2>1, <3>2, <3>3
  <2>4. CASE a \in b
    <3>1. ProviderOf[a] = p /\ Priority[a] = best /\ MyBucket(set, a) = b
      BY <1>3, <2>4 DEF Bucket, MyBucket
    <3>2. choice.views[p][best] = got.view
      BY <1>2, <1>5, <2>2 DEF AllViews
    <3>3. TurnOK(a, b, got.view, after[a])
      <4>1. CASE a = chosen \/ a \notin eligible
        <5>1. after[a] = 0
          BY <1>10, <2>4, <4>1
        <5> QED
          BY <1>6, <1>7, <2>4, <5>1, TurnFresh
      <4>2. CASE ~(a = chosen \/ a \notin eligible)
        <5>1. after[a] = counts[a] + 1 /\ counts[a] \in Nat /\ got.auth # a
          BY <1>8, <1>10, <1>11, <2>4, <4>2
        <5>2. TurnOK(a, b, shards[p][best], counts[a])
          BY <2>1, <3>1
        <5>3. TurnOK(a, b, got.view, counts[a] + 1)
          BY <1>4, <1>6, <2>4, <4>2, <5>1, <5>2, TurnPassed
        <5> QED
          BY <5>1, <5>3
      <4> QED
        BY <4>1, <4>2
    <3> QED
      BY <3>1, <3>2, <3>3
  <2> QED
    BY <2>3, <2>4
<1> QED
  BY <1>12, <1>13 DEF TurnsIn

(***************************************************************************)
(* Why no provider is passed over for long.                                *)
(***************************************************************************)
\* Whose turn it is: i, the first from the slot's segment, s, that has a wanted
\* credential.  So i comes before any other such k, going round from s.
TurnTaken(set, list, eligible, best, at, turn, k, s, i) ==
  /\ SlotsBefore(set, list, best, s) <= at
  /\ at < SlotsBefore(set, list, best, s) + Segment(set, list, best, s)
  /\ turn.provider = list[i]
  /\ turn.slot = (IF i = s THEN at ELSE SlotsBefore(set, list, best, i)) + 1
  /\ Bucket(set, list[i], best) \cap eligible # {}
  /\ \/ i = k
     \/ s <= i /\ i < k
     \/ k < s /\ s <= i
     \/ i < k /\ k < s

LEMMA TurnParts ==
  ASSUME NEW list \in Seq(Providers), IsInjective(list), NEW set \in SUBSET Auths, NEW best,
         NEW slot \in Nat, NEW eligible,
         NEW k \in 1..Len(list), Bucket(set, list[k], best) \cap eligible # {},
         NEW turn, turn = Turn(set, list, eligible, best, slot),
         NEW total, total = SlotsBefore(set, list, best, Len(list) + 1),
         NEW at, at = slot % total
  PROVE  /\ total \in Nat \ {0} /\ at \in 0..total - 1
         /\ \E s, i \in 1..Len(list) :
              TurnTaken(set, list, eligible, best, at, turn, k, s, i)
PROOF
<1> DEFINE n     == Len(list)
           F(j)  == SlotsBefore(set, list, best, j)
           W(j)  == Segment(set, list, best, j)
           start == CHOOSE j \in DOMAIN list : F(j) <= at /\ at < F(j) + W(j)
           can   == {list[j] : j \in {j \in DOMAIN list :
                       Bucket(set, list[j], best) \cap eligible # {}}}
           f     == Found(list, start - 1, can)
<1>1. turn = [provider |-> list[f + 1], slot |-> (IF f + 1 = start THEN at ELSE F(f + 1)) + 1]
  BY DEF Turn, SlotsBefore, Before, Segment
<1>2. n \in Nat /\ DOMAIN list = 1..n
  OBVIOUS
<1>3. total \in Nat \ {0}
  <2>1. Bucket(set, list[k], best) \subseteq Before(set, list, best, n + 1)
    <3>1. k \in 1..((n + 1) - 1)
      BY <1>2
    <3> QED
      BY <3>1 DEF Bucket, Before
  <2>2. PICK S : S = Before(set, list, best, n + 1)
    OBVIOUS
  <2>3. S \in SUBSET Auths /\ S # {}
    BY <2>1, <2>2 DEF Before
  <2>4. Cardinality(S) \in Nat /\ Cardinality(S) >= 1
    BY <2>3, Finite
  <2>5. total = Cardinality(S)
    BY <2>2 DEF SlotsBefore
  <2> QED
    BY <2>4, <2>5
<1>4. at \in 0..total - 1
  <2>1. slot \in Int
    OBVIOUS
  <2> QED
    BY <1>3, <2>1, ModFacts
<1>5. \E j \in DOMAIN list : F(j) <= at /\ at < F(j) + W(j)
  <2>1. at \in Nat /\ at < F(n + 1)
    BY <1>3, <1>4
  <2> QED
    BY <1>2, <2>1, StartExists
<1>6. start \in 1..n /\ F(start) <= at /\ at < F(start) + W(start)
  <2> HIDE DEF F, W
  <2> QED
    BY <1>2, <1>5
<1> HIDE DEF start, F, W
<1>7. PICK s \in 1..n : s = start
  BY <1>6
<1>8. \A j \in 1..n : list[j] \in can <=> Bucket(set, list[j], best) \cap eligible # {}
  BY <1>2
<1> HIDE DEF can
<1>9. PICK d : d = IF k >= s THEN k - s ELSE (k - s) + n
  OBVIOUS
<1>10. \A o \in 0..n - 1 : \/ (s - 1) + o < n /\ ((s - 1) + o) % n = (s - 1) + o
                           \/ (s - 1) + o >= n /\ ((s - 1) + o) % n = ((s - 1) + o) - n
  <2> TAKE o \in 0..n - 1
  <2>1. PICK y : y = (s - 1) + o
    OBVIOUS
  <2>2. y \in Int /\ (y \in 0..n - 1 \/ y \in n..(2 * n) - 1) /\ n \in Nat \ {0}
    BY <1>2, <2>1
  <2>3. (y \in 0..n - 1 => y % n = y) /\ (y \in n..(2 * n) - 1 => y % n = y - n)
    BY <2>2, ModFacts
  <2> QED
    BY <2>1, <2>2, <2>3
<1>11. d \in 0..n - 1 /\ (((s - 1) + d) % n) + 1 = k
  <2>1. d \in 0..n - 1
    BY <1>2, <1>9
  <2>2. \/ (s - 1) + d < n /\ ((s - 1) + d) % n = (s - 1) + d
        \/ (s - 1) + d >= n /\ ((s - 1) + d) % n = ((s - 1) + d) - n
    BY <1>10, <2>1
  <2>3. PICK e : e = ((s - 1) + d) % n
    OBVIOUS
  <2>4. e + 1 = k
    <3> HIDE DEF n
    <3>1. n \in Nat /\ s \in 1..n /\ k \in 1..n
      BY <1>2 DEF n
    <3> QED
      BY <1>9, <2>2, <2>3, <3>1
  <2> QED
    BY <2>1, <2>3, <2>4
<1>12. list[(((s - 1) + d) % n) + 1] \in can
  BY <1>8, <1>11
<1>13. PICK m \in 0..n - 1 :
         /\ f = ((s - 1) + m) % n
         /\ list[(((s - 1) + m) % n) + 1] \in can
         /\ \A o \in 0..n - 1 : list[(((s - 1) + o) % n) + 1] \in can => m <= o
  <2>1. f = Found(list, s - 1, can)
    BY <1>7
  <2> HIDE DEF f
  <2> QED
    BY <1>2, <1>11, <1>12, <2>1, FoundFirst
<1>14. m <= d
  BY <1>11, <1>12, <1>13
<1> HIDE DEF f
<1>15. PICK i : i = f + 1
  OBVIOUS
<1>16. i \in 1..n /\ list[i] \in can
  BY <1>2, <1>10, <1>13, <1>15
<1>17. \/ i = k
       \/ s <= i /\ i < k
       \/ k < s /\ s <= i
       \/ i < k /\ k < s
  <2>1. PICK e : e = ((s - 1) + m) % n
    OBVIOUS
  <2>2. \/ (s - 1) + m < n /\ e = (s - 1) + m
        \/ (s - 1) + m >= n /\ e = ((s - 1) + m) - n
    BY <1>10, <2>1
  <2>3. i = e + 1 /\ k \in 1..n /\ s \in 1..n /\ m \in 0..n - 1 /\ n \in Nat
    BY <1>2, <1>13, <1>15, <2>1
  <2> HIDE DEF n
  <2>4. CASE k >= s
    <3>1. m <= k - s
      BY <1>9, <1>14, <2>4
    <3> QED
      BY <2>2, <2>3, <2>4, <3>1
  <2>5. CASE k < s
    <3>1. m <= (k - s) + n
      BY <1>9, <1>14, <2>3, <2>5
    <3> QED
      BY <2>2, <2>3, <2>5, <3>1
  <2> QED
    BY <2>3, <2>4, <2>5
<1>18. turn.provider = list[i] /\ turn.slot = (IF i = s THEN at ELSE F(i)) + 1
  BY <1>1, <1>7, <1>15
<1>19. Bucket(set, list[i], best) \cap eligible # {}
  BY <1>8, <1>16
<1> QED
  BY <1>3, <1>4, <1>6, <1>7, <1>16, <1>17, <1>18, <1>19 DEF TurnTaken, F, W

\* The segments follow each other.
LEMMA SlotsOrdered ==
  ASSUME NEW list \in Seq(Providers), IsInjective(list), NEW set \in SUBSET Auths, NEW best,
         NEW i \in 1..Len(list) + 1, NEW j \in 1..Len(list) + 1, i < j
  PROVE  /\ SlotsBefore(set, list, best, i) \in Nat /\ SlotsBefore(set, list, best, j) \in Nat
         /\ Segment(set, list, best, i) \in Nat
         /\ SlotsBefore(set, list, best, i) + Segment(set, list, best, i)
              <= SlotsBefore(set, list, best, j)
PROOF
<1>1. Len(list) \in Nat /\ i \in 1..Len(list) /\ i + 1 <= j
  OBVIOUS
<1>2. PICK A, B : A = Before(set, list, best, i + 1) /\ B = Before(set, list, best, j)
  OBVIOUS
<1>3. A \subseteq B
  <2>1. \A x \in 1..((i + 1) - 1) : x \in 1..(j - 1)
    BY <1>1
  <2> QED
    BY <1>2, <2>1 DEF Before
<1>4. B \in SUBSET Auths
  BY <1>2 DEF Before
<1>5. Cardinality(A) <= Cardinality(B)
  <2>1. IsFiniteSet(B)
    BY <1>4, Finite
  <2> QED
    BY <1>3, <2>1, FS_Subset
<1>6. SlotsBefore(set, list, best, i + 1) <= SlotsBefore(set, list, best, j)
  BY <1>2, <1>5 DEF SlotsBefore
<1>7. SlotsBefore(set, list, best, i + 1)
        = SlotsBefore(set, list, best, i) + Segment(set, list, best, i)
      /\ Segment(set, list, best, i) \in Nat
  BY <1>1, SegmentFacts
<1>8. /\ SlotsBefore(set, list, best, i) \in 0..Cardinality(Auths)
      /\ SlotsBefore(set, list, best, j) \in 0..Cardinality(Auths)
  BY SegmentFacts
<1> QED
  BY <1>6, <1>7, <1>8

\* The slots until the next of the segment of W slots after the first F, of T.
Until(F, W, T, at) == IF at < F THEN F - at ELSE IF at < F + W THEN 0 ELSE (T - at) + F

\* The k-th provider of a list, passed over count times, has its turn in time:
\* these times and the slots until its segment are at most the others' slots.
SkipOK(set, list, k, slot, count) ==
  LET top == Best(OfProviders(set, list))
      T   == SlotsBefore(set, list, top, Len(list) + 1)
      F   == SlotsBefore(set, list, top, k)
      W   == Segment(set, list, top, k)
  IN  IF W = 0 THEN count = 0 ELSE count + Until(F, W, T, slot % T) <= T - W

LEMMA SkipParts ==
  ASSUME NEW list, ListOK(list), NEW set \in SUBSET Auths, OfProviders(set, list) # {},
         NEW k \in 1..Len(list), NEW top, top = Best(OfProviders(set, list)),
         NEW T, T = SlotsBefore(set, list, top, Len(list) + 1),
         NEW F, F = SlotsBefore(set, list, top, k), NEW W, W = Segment(set, list, top, k)
  PROVE  /\ T \in Nat \ {0} /\ F \in Nat /\ W \in Nat /\ F + W <= T
         /\ Bucket(set, list[k], top) # {} => W # 0
PROOF
<1>1. list \in Seq(Providers) /\ IsInjective(list) /\ Len(list) \in Nat
  BY DEF ListOK
<1>2. k \in 1..Len(list) + 1 /\ Len(list) + 1 \in 1..Len(list) + 1 /\ k < Len(list) + 1
  BY <1>1
<1>3. T \in Nat /\ F \in Nat /\ W \in Nat /\ F + W <= T
  BY <1>1, <1>2, SlotsOrdered
<1>4. Bucket(set, list[k], top) # {} => W >= 1
  BY <1>1, SegmentFacts
<1>5. PICK i \in 1..Len(list) : Bucket(set, list[i], top) # {}
  <2>1. OfProviders(set \cap Auths, list) # {} /\ top = Best(OfProviders(set \cap Auths, list))
    BY DEF OfProviders
  <2>2. \E i \in 1..Len(list) : Bucket(set, list[i], top) \cap Auths # {}
    BY <2>1, BestFacts
  <2> QED
    BY <2>2
<1>6. i \in 1..Len(list) + 1 /\ i < Len(list) + 1
  BY <1>1
<1>7. SlotsBefore(set, list, top, i) \in Nat /\ Segment(set, list, top, i) \in Nat
      /\ SlotsBefore(set, list, top, i) + Segment(set, list, top, i) <= T
      /\ Segment(set, list, top, i) >= 1
  <2>1. Segment(set, list, top, i) >= 1
    BY <1>1, <1>5, SegmentFacts
  <2>2. SlotsBefore(set, list, top, i) \in Nat /\ Segment(set, list, top, i) \in Nat
      /\ SlotsBefore(set, list, top, i) + Segment(set, list, top, i) <= T
    BY <1>1, <1>2, <1>6, SlotsOrdered
  <2> QED
    BY <2>1, <2>2
<1>8. T # 0
  BY <1>3, <1>7
<1> QED
  BY <1>3, <1>4, <1>8

LEMMA SkipFresh ==
  ASSUME NEW list, ListOK(list), NEW set \in SUBSET Auths, OfProviders(set, list) # {},
         NEW k \in 1..Len(list), NEW slot \in Nat
  PROVE  SkipOK(set, list, k, slot, 0)
PROOF
<1>1. PICK top : top = Best(OfProviders(set, list))
  OBVIOUS
<1>2. PICK T, F, W : /\ T = SlotsBefore(set, list, top, Len(list) + 1)
                     /\ F = SlotsBefore(set, list, top, k) /\ W = Segment(set, list, top, k)
  OBVIOUS
<1>3. T \in Nat \ {0} /\ F \in Nat /\ W \in Nat /\ F + W <= T
  BY <1>1, <1>2, SkipParts
<1>4. PICK at : at = slot % T
  OBVIOUS
<1>5. at \in 0..T - 1
  BY <1>3, <1>4, ModFacts
<1>6. 0 + Until(F, W, T, at) <= T - W
  BY <1>3, <1>5 DEF Until
<1> QED
  BY <1>1, <1>2, <1>4, <1>6 DEF SkipOK

LEMMA SkipBound ==
  ASSUME NEW list, ListOK(list), NEW set \in SUBSET Auths, OfProviders(set, list) # {},
         NEW k \in 1..Len(list), NEW slot \in Nat, NEW count \in Nat,
         SkipOK(set, list, k, slot, count),
         NEW top, top = Best(OfProviders(set, list)),
         NEW others, others = {a \in OfProviders(set, list) :
                                 Priority[a] = top /\ ProviderOf[a] # list[k]}
  PROVE  count <= Cardinality(others)
PROOF
<1>1. PICK T, F, W : /\ T = SlotsBefore(set, list, top, Len(list) + 1)
                     /\ F = SlotsBefore(set, list, top, k) /\ W = Segment(set, list, top, k)
  OBVIOUS
<1>2. T \in Nat \ {0} /\ F \in Nat /\ W \in Nat /\ F + W <= T
  BY <1>1, SkipParts
<1>3. PICK at : at = slot % T
  OBVIOUS
<1>4. at \in 0..T - 1
  BY <1>2, <1>3, ModFacts
<1>5. Until(F, W, T, at) \in Nat
  BY <1>2, <1>4 DEF Until
<1>6. count <= T - W
  <2>1. IF W = 0 THEN count = 0 ELSE count + Until(F, W, T, at) <= T - W
    BY <1>1, <1>3 DEF SkipOK
  <2> QED
    BY <1>2, <1>5, <2>1
<1>7. PICK A, B : A = Before(set, list, top, Len(list) + 1) /\ B = Bucket(set, list[k], top)
  OBVIOUS
<1>8. list \in Seq(Providers) /\ Len(list) \in Nat
  BY DEF ListOK
<1>9. A = B \cup others /\ B \cap others = {}
  <2>1. \A j : j \in 1..((Len(list) + 1) - 1) <=> j \in DOMAIN list
    BY <1>8
  <2>2. \A a : ProviderOf[a] \in ToSet(list) <=> \E j \in DOMAIN list : ProviderOf[a] = list[j]
    BY DEF ToSet
  <2>3. k \in DOMAIN list
    BY <1>8
  <2>4. A = {a \in set : Priority[a] = top /\ ProviderOf[a] \in ToSet(list)}
    BY <1>7, <2>1, <2>2 DEF Before
  <2>5. list[k] \in ToSet(list)
    BY <2>3 DEF ToSet
  <2> QED
    BY <1>7, <2>4, <2>5 DEF Bucket, OfProviders
<1>10. IsFiniteSet(B) /\ IsFiniteSet(others) /\ Cardinality(B) \in Nat
       /\ Cardinality(others) \in Nat
  <2>1. B \in SUBSET Auths /\ others \in SUBSET Auths
    BY <1>7 DEF Bucket, OfProviders
  <2> QED
    BY <2>1, Finite
<1>11. Cardinality(A) = Cardinality(B) + Cardinality(others)
  <2>1. Cardinality({}) = 0
    BY FS_EmptySet
  <2>2. Cardinality(B \cup others)
          = Cardinality(B) + Cardinality(others) - Cardinality(B \cap others)
    BY <1>10, FS_Union
  <2>3. Cardinality(A) = Cardinality(B) + Cardinality(others) - 0
    BY <1>9, <2>1, <2>2
  <2> QED
    BY <1>10, <2>3
<1>12. T = Cardinality(A) /\ W = Cardinality(B)
  BY <1>1, <1>7 DEF SlotsBefore, Segment
<1> QED
  BY <1>6, <1>10, <1>11, <1>12

\* Credentials of other providers do not matter.
LEMMA SkipSame ==
  ASSUME NEW list, ListOK(list), NEW old, NEW set,
         OfProviders(set, list) = OfProviders(old, list),
         NEW k \in 1..Len(list), NEW slot, NEW count, SkipOK(old, list, k, slot, count)
  PROVE  SkipOK(set, list, k, slot, count)
PROOF
<1>1. PICK top : top = Best(OfProviders(set, list))
  OBVIOUS
<1>2. list \in Seq(Providers) /\ DOMAIN list = 1..Len(list) /\ Len(list) \in Nat
  BY DEF ListOK
<1>3. \A a, j : j \in 1..Len(list) /\ ProviderOf[a] = list[j] => (a \in set <=> a \in old)
  <2>1. \A j \in 1..Len(list) : list[j] \in ToSet(list)
    BY <1>2 DEF ToSet
  <2> QED
    BY <2>1 DEF OfProviders
<1>4. \A i \in 1..Len(list) + 1 : Before(set, list, top, i) = Before(old, list, top, i)
  <2>1. \A i \in 1..Len(list) + 1 : \A j \in 1..(i - 1) : j \in 1..Len(list)
    BY <1>2
  <2> QED
    BY <1>3, <2>1 DEF Before
<1>5. Bucket(set, list[k], top) = Bucket(old, list[k], top)
  BY <1>3 DEF Bucket
<1>6. k \in 1..Len(list) + 1 /\ Len(list) + 1 \in 1..Len(list) + 1
  BY <1>2
<1>7. /\ SlotsBefore(set, list, top, Len(list) + 1) = SlotsBefore(old, list, top, Len(list) + 1)
      /\ SlotsBefore(set, list, top, k) = SlotsBefore(old, list, top, k)
      /\ Segment(set, list, top, k) = Segment(old, list, top, k)
  BY <1>4, <1>5, <1>6 DEF SlotsBefore, Segment
<1> QED
  BY <1>1, <1>7 DEF SkipOK

\* A choice among credentials of the highest priority is made at it.
LEMMA BestIsTop ==
  ASSUME NEW list, ListOK(list), NEW set \in SUBSET Auths, NEW eligible, NEW k \in 1..Len(list),
         NEW top, top = Best(OfProviders(set, list)),
         Bucket(set, list[k], top) \cap eligible # {}
  PROVE  ChosenBest(set, list, eligible) = top
PROOF
<1>1. PICK P, Q : /\ P = {Priority[a] : a \in OfProviders(set, list)}
                  /\ Q = {Priority[a] : a \in OfProviders(set \cap eligible, list)}
  OBVIOUS
<1>2. /\ OfProviders(set, list) \in SUBSET Auths
      /\ OfProviders(set \cap eligible, list) \in SUBSET Auths
  BY DEF OfProviders
<1>3. P \in SUBSET Nat /\ IsFiniteSet(P) /\ Q \in SUBSET Nat /\ IsFiniteSet(Q)
  BY <1>1, <1>2, Finite
<1>4. PICK a : a \in Bucket(set, list[k], top) \cap eligible
  OBVIOUS
<1>5. list[k] \in ToSet(list)
  <2>1. k \in DOMAIN list
    BY DEF ListOK
  <2> QED
    BY <2>1 DEF ToSet
<1>6. a \in OfProviders(set \cap eligible, list) /\ Priority[a] = top
  BY <1>4, <1>5 DEF Bucket, OfProviders
<1>7. top \in Q /\ Q \subseteq P
  BY <1>1, <1>6 DEF OfProviders
<1>8. Max(Q) \in Q /\ (\A x \in Q : x <= Max(Q)) /\ \A x \in P : x <= Max(P)
  BY <1>3, <1>7, MaxFacts
<1>9. top = Max(P) /\ ChosenBest(set, list, eligible) = Max(Q)
  BY <1>1 DEF Best, ChosenBest
<1>10. PICK x, y : x = Max(Q) /\ y = top
  OBVIOUS
<1>11. x \in Nat /\ y \in Nat /\ x <= y /\ y <= x
  BY <1>3, <1>7, <1>8, <1>9, <1>10
<1>12. x = y
  BY <1>11
<1> QED
  BY <1>9, <1>10, <1>12

\* A choice of another provider brings the k-th one's turn closer.
LEMMA SkipChosen ==
  ASSUME NEW list, ListOK(list), NEW set \in SUBSET Auths, NEW eligible,
         NEW slot \in 0..Cardinality(Auths),
         NEW turn, turn = ChosenTurn(set, list, eligible, slot), NEW k \in 1..Len(list),
         NEW count \in Nat, SkipOK(set, list, k, slot, count),
         Bucket(set, list[k], Best(OfProviders(set, list))) \cap eligible # {},
         turn.provider # list[k]
  PROVE  SkipOK(set, list, k, turn.slot, count + 1)
PROOF
<1>1. PICK top : top = Best(OfProviders(set, list))
  OBVIOUS
<1>2. PICK T, F, W : /\ T = SlotsBefore(set, list, top, Len(list) + 1)
                     /\ F = SlotsBefore(set, list, top, k) /\ W = Segment(set, list, top, k)
  OBVIOUS
<1>3. ChosenBest(set, list, eligible) = top
  BY <1>1, BestIsTop
<1>4. list \in Seq(Providers) /\ IsInjective(list) /\ Len(list) \in Nat
      /\ Bucket(set, list[k], top) \cap eligible # {}
  BY <1>1 DEF ListOK
<1>5. Len(list) # 1
  <2>1. SUFFICES ASSUME Len(list) = 1 PROVE FALSE
    OBVIOUS
  <2>2. turn.provider = list[1]
    BY <2>1 DEF ChosenTurn
  <2>3. k = 1
    BY <2>1
  <2> QED
    BY <2>2, <2>3
<1>6. slot \in Nat /\ turn = Turn(set, list, eligible, top, slot)
  BY <1>3, <1>5, Finite DEF ChosenTurn
<1>7. PICK at : at = slot % T
  OBVIOUS
<1>8. /\ T \in Nat \ {0} /\ at \in 0..T - 1
      /\ \E s, i \in 1..Len(list) : TurnTaken(set, list, eligible, top, at, turn, k, s, i)
  BY <1>2, <1>4, <1>6, <1>7, TurnParts
<1>9. PICK s \in 1..Len(list), i \in 1..Len(list) :
        TurnTaken(set, list, eligible, top, at, turn, k, s, i)
  BY <1>8
<1>30. T \in Nat \ {0} /\ at \in 0..T - 1 /\ T \in Nat /\ at \in Nat /\ at < T
  BY <1>8
<1>10. PICK Fs, Fi, Ws, Wi :
         /\ Fs = SlotsBefore(set, list, top, s) /\ Fi = SlotsBefore(set, list, top, i)
         /\ Ws = Segment(set, list, top, s) /\ Wi = Segment(set, list, top, i)
  OBVIOUS
<1>11. PICK next : next = turn.slot
  OBVIOUS
<1>12. /\ Fs <= at /\ at < Fs + Ws /\ next = (IF i = s THEN at ELSE Fi) + 1
       /\ Bucket(set, list[i], top) # {}
  BY <1>9, <1>10, <1>11 DEF TurnTaken
<1>13. i # k
  BY <1>9 DEF TurnTaken
<1>14. \A x, y \in 1..Len(list) + 1 : x < y =>
         /\ SlotsBefore(set, list, top, x) \in Nat /\ SlotsBefore(set, list, top, y) \in Nat
         /\ Segment(set, list, top, x) \in Nat
         /\ SlotsBefore(set, list, top, x) + Segment(set, list, top, x)
              <= SlotsBefore(set, list, top, y)
  BY <1>4, SlotsOrdered
<1>15. /\ s \in 1..Len(list) + 1 /\ i \in 1..Len(list) + 1 /\ k \in 1..Len(list) + 1
       /\ Len(list) + 1 \in 1..Len(list) + 1
       /\ s < Len(list) + 1 /\ i < Len(list) + 1 /\ k < Len(list) + 1
  BY <1>4
<1>16. /\ Fs \in Nat /\ Ws \in Nat /\ Fs + Ws <= T /\ Fi \in Nat /\ Wi \in Nat /\ Fi + Wi <= T
       /\ F \in Nat /\ W \in Nat /\ F + W <= T
  BY <1>2, <1>10, <1>14, <1>15
<1>17. Wi >= 1 /\ W >= 1
  BY <1>2, <1>4, <1>10, <1>12, SegmentFacts
<1>18. /\ s < k => Fs + Ws <= F
       /\ i < k => Fi + Wi <= F
       /\ k < s => F + W <= Fs
       /\ s < i => Fs + Ws <= Fi
  BY <1>2, <1>10, <1>14, <1>15
<1>19. PICK x : x = next % T
  OBVIOUS
<1>20. next \in 1..T /\ x = IF next = T THEN 0 ELSE next
  <2>1. next \in 1..T
    BY <1>30, <1>12, <1>16, <1>17
  <2>2. next \in Int /\ (next \in 0..T - 1 \/ (next = T /\ next \in T..(2 * T) - 1))
    BY <1>30, <2>1
  <2>3. (next \in 0..T - 1 => next % T = next)
        /\ (next \in T..(2 * T) - 1 => next % T = next - T)
    BY <1>30, <2>2, ModFacts
  <2> QED
    BY <1>30, <1>19, <2>1, <2>2, <2>3
<1>21. count + Until(F, W, T, at) <= T - W
  BY <1>1, <1>2, <1>7, <1>17 DEF SkipOK
<1>22. s \in Nat /\ i \in Nat /\ k \in Nat
  BY <1>4
<1>23. Until(F, W, T, x) + 1 <= Until(F, W, T, at)
  <2>1. CASE s <= i /\ i < k
    <3>1. at < F /\ at + 1 <= next /\ next <= F
      <4>1. CASE i = s
        BY <1>30, <1>12, <1>16, <1>18, <2>1, <4>1
      <4>2. CASE s < i
        <5>1. next = Fi + 1 /\ Fs + Ws <= Fi /\ Fi + Wi <= F
          BY <1>12, <1>18, <1>22, <2>1, <4>2
        <5> QED
          BY <1>30, <1>12, <1>16, <1>17, <5>1
      <4> QED
        BY <1>22, <2>1, <4>1, <4>2
    <3>2. x = next
      BY <1>30, <1>16, <1>17, <1>20, <3>1
    <3>3. Until(F, W, T, at) = F - at
      BY <3>1 DEF Until
    <3>4. Until(F, W, T, x) = F - next
      <4>1. CASE next < F
        BY <3>2, <4>1 DEF Until
      <4>2. CASE next = F
        BY <1>16, <1>17, <3>2, <4>2 DEF Until
      <4> QED
        BY <1>16, <1>20, <3>1, <4>1, <4>2
    <3> QED
      BY <1>30, <1>16, <1>20, <3>1, <3>3, <3>4
  <2>2. CASE k < s /\ s <= i
    <3>1. F + W <= at /\ at + 1 <= next
      BY <1>30, <1>12, <1>16, <1>17, <1>18, <1>22, <2>2
    <3>2. Until(F, W, T, at) = (T - at) + F
      BY <1>30, <1>16, <3>1 DEF Until
    <3>3. CASE next = T
      <4>1. x = 0
        BY <1>20, <3>3
      <4>2. Until(F, W, T, x) = F
        BY <1>16, <1>17, <4>1 DEF Until
      <4> QED
        BY <1>30, <1>16, <3>2, <4>2
    <3>4. CASE next # T
      <4>1. x = next
        BY <1>20, <3>4
      <4>2. Until(F, W, T, x) = (T - next) + F
        BY <1>30, <1>16, <1>20, <3>1, <4>1 DEF Until
      <4> QED
        BY <1>30, <1>16, <1>20, <3>1, <3>2, <4>2
    <3> QED
      BY <3>3, <3>4
  <2>3. CASE i < k /\ k < s
    <3>1. F + W <= at /\ next = Fi + 1 /\ next <= F
      BY <1>30, <1>12, <1>16, <1>17, <1>18, <1>22, <2>3
    <3>2. Until(F, W, T, at) = (T - at) + F
      BY <1>30, <1>16, <3>1 DEF Until
    <3>3. x = next
      BY <1>30, <1>16, <1>17, <1>20, <3>1
    <3>4. Until(F, W, T, x) = F - next
      <4>1. CASE next < F
        BY <3>3, <4>1 DEF Until
      <4>2. CASE next = F
        BY <1>16, <1>17, <3>3, <4>2 DEF Until
      <4> QED
        BY <1>16, <1>20, <3>1, <4>1, <4>2
    <3> QED
      BY <1>30, <1>16, <1>20, <3>2, <3>4
  <2> QED
    BY <1>9, <1>13, <2>1, <2>2, <2>3 DEF TurnTaken
<1>24. Until(F, W, T, at) \in Int /\ Until(F, W, T, x) \in Int
  BY <1>30, <1>16, <1>20 DEF Until
<1>25. PICK y \in Int : y = Until(F, W, T, at)
  BY <1>24
<1>26. PICK z \in Int : z = Until(F, W, T, x)
  BY <1>24
<1>27. count + y <= T - W /\ z + 1 <= y
  BY <1>21, <1>23, <1>25, <1>26
<1>28. (count + 1) + z <= T - W
  <2>1. T \in Int /\ W \in Int /\ count \in Int
    BY <1>30, <1>16
  <2> QED
    BY <1>27, <2>1
<1>29. SkipOK(set, list, k, next, count + 1)
             <=> IF W = 0 THEN count + 1 = 0 ELSE (count + 1) + Until(F, W, T, x) <= T - W
  BY <1>1, <1>2, <1>19 DEF SkipOK
<1> QED
  BY <1>11, <1>17, <1>26, <1>28, <1>29

(***************************************************************************)
(* Turns from the first request to the last.                               *)
(***************************************************************************)
\* The turns of the providers of each list, by its slot and the counts of the
\* choices that passed over each.
SkipsIn(set, cursors, counts) ==
  /\ counts \in [Lists -> [Providers -> Nat]]
  /\ \A l \in Lists : OfProviders(set, l) # {} =>
       \A k \in 1..Len(l) : SkipOK(set, l, k, cursors[l], counts[l][l[k]])

LEMMA ListFacts ==
  ASSUME NEW l \in Lists
  PROVE  ListOK(l) /\ \A k \in 1..Len(l) : l[k] \in Providers
PROOF
<1>1. PICK r \in Requests : l = List[r]
  BY DEF Lists
<1>2. ListOK(l)
  BY <1>1, DispatchAssumption DEF ListOK
<1>3. l \in Seq(Providers)
  BY <1>2 DEF ListOK
<1> QED
  BY <1>2, <1>3

LEMMA SkipsFresh ==
  ASSUME NEW set \in SUBSET Auths, NEW cursors \in [Lists -> Nat], NEW counts,
         counts = [l \in Lists |-> [p \in Providers |-> 0]]
  PROVE  SkipsIn(set, cursors, counts)
PROOF
<1>1. ASSUME NEW l \in Lists, OfProviders(set, l) # {}, NEW k \in 1..Len(l)
      PROVE  SkipOK(set, l, k, cursors[l], counts[l][l[k]])
  <2>1. counts[l][l[k]] = 0 /\ ListOK(l) /\ cursors[l] \in Nat
    BY ListFacts
  <2> QED
    BY <1>1, <2>1, SkipFresh
<1> QED
  BY <1>1 DEF SkipsIn

\* Ready credentials change: a list whose ready credentials stay as they were
\* keeps its turns.
LEMMA SkipsMoved ==
  ASSUME NEW old \in SUBSET Auths, NEW set \in SUBSET Auths, NEW cursors \in [Lists -> Nat],
         NEW counts, SkipsIn(old, cursors, counts), NEW kept,
         kept = [l \in Lists |-> IF OfProviders(set, l) = OfProviders(old, l) THEN counts[l]
                                 ELSE [p \in Providers |-> 0]]
  PROVE  SkipsIn(set, cursors, kept)
PROOF
<1>1. counts \in [Lists -> [Providers -> Nat]]
  BY DEF SkipsIn
<1>2. [p \in Providers |-> 0] \in [Providers -> Nat]
  OBVIOUS
<1>3. kept \in [Lists -> [Providers -> Nat]]
  BY <1>1, <1>2
<1>4. ASSUME NEW l \in Lists, OfProviders(set, l) # {}, NEW k \in 1..Len(l)
      PROVE  SkipOK(set, l, k, cursors[l], kept[l][l[k]])
  <2>1. ListOK(l) /\ l[k] \in Providers /\ cursors[l] \in Nat
    BY ListFacts
  <2>2. CASE OfProviders(set, l) = OfProviders(old, l)
    <3>1. kept[l] = counts[l]
      BY <2>2
    <3>2. SkipOK(old, l, k, cursors[l], counts[l][l[k]])
      BY <1>4, <2>2 DEF SkipsIn
    <3> QED
      BY <2>1, <2>2, <3>1, <3>2, SkipSame
  <2>3. CASE OfProviders(set, l) # OfProviders(old, l)
    <3>1. kept[l][l[k]] = 0
      BY <2>1, <2>3
    <3> QED
      BY <1>4, <2>1, <3>1, SkipFresh
  <2> QED
    BY <2>2, <2>3
<1> QED
  BY <1>3, <1>4 DEF SkipsIn

\* What a choice by turns takes, and where it leaves the cursor of the list.
LEMMA RoundRobinTakes ==
  ASSUME NEW list, NEW set, NEW eligible, NEW shards, NEW slot
  PROVE  /\ RoundRobin(set, shards, list, eligible, slot).auth
              = ChosenPick(set, shards, list, eligible, slot).auth
         /\ RoundRobin(set, shards, list, eligible, slot).slot
              = ChosenTurn(set, list, eligible, slot).slot
PROOF
<1>1. PICK best, p, turn : /\ best = ChosenBest(set, list, eligible)
                           /\ p = ChosenProvider(set, list, eligible, slot)
                           /\ turn = ChosenTurn(set, list, eligible, slot)
  OBVIOUS
<1>2. PICK got : got = PickRoundRobin(Bucket(set, p, best), shards[p][best], eligible)
  OBVIOUS
<1>3. RoundRobin(set, shards, list, eligible, slot)
        = [auth |-> got.auth, views |-> [shards EXCEPT ![p][best] = got.view],
           slot |-> turn.slot]
  BY <1>1, <1>2 DEF RoundRobin, ChosenTurn, ChosenProvider, ChosenBest
<1>4. got = ChosenPick(set, shards, list, eligible, slot)
  BY <1>1, <1>2 DEF ChosenPick, ChosenBucket, ChosenView
<1>5. /\ RoundRobin(set, shards, list, eligible, slot).auth = got.auth
      /\ RoundRobin(set, shards, list, eligible, slot).slot = turn.slot
  BY <1>3
<1> QED
  BY <1>1, <1>4, <1>5

\* A choice by turns.
LEMMA SkipsChosen ==
  ASSUME NEW list \in Lists, NEW set \in SUBSET Auths, NEW eligible,
         OfProviders(set \cap eligible, list) # {},
         NEW shards, ViewsOK(shards, set), NEW cursors \in [Lists -> 0..Cardinality(Auths)],
         NEW choice, choice = RoundRobin(set, shards, list, eligible, cursors[list]),
         NEW counts, SkipsIn(set, cursors, counts), NEW after,
         after = [counts EXCEPT ![list] = Skip(counts[list], set, list,
                                               ProviderOf[choice.auth], eligible)],
         NEW moved, moved = [cursors EXCEPT ![list] = choice.slot]
  PROVE  SkipsIn(set, moved, after)
PROOF
<1>1. ListOK(list) /\ (\A k \in 1..Len(list) : list[k] \in Providers)
      /\ cursors[list] \in 0..Cardinality(Auths) /\ cursors[list] \in Nat
  BY ListFacts, Finite
<1>2. PICK slot, turn : slot = cursors[list] /\ turn = ChosenTurn(set, list, eligible, slot)
  OBVIOUS
<1>3. PICK best, p, b : /\ best = ChosenBest(set, list, eligible)
                        /\ p = ChosenProvider(set, list, eligible, slot)
                        /\ b = Bucket(set, p, best)
  OBVIOUS
<1>4. /\ p \in Providers /\ best \in Priorities /\ b \cap eligible # {}
      /\ turn.slot \in 0..Cardinality(Auths) /\ p = turn.provider
  BY <1>1, <1>2, <1>3, ChosenFacts DEF ChosenBucket, ChosenProvider
<1>5. PICK got : got = PickRoundRobin(b, shards[p][best], eligible)
  OBVIOUS
<1>6. choice.auth = got.auth /\ choice.slot = turn.slot
  <2>1. choice = RoundRobin(set, shards, list, eligible, slot)
    BY <1>2
  <2>2. RoundRobin(set, shards, list, eligible, slot).slot
          = ChosenTurn(set, list, eligible, slot).slot
    BY RoundRobinTakes
  <2>3. RoundRobin(set, shards, list, eligible, slot).auth
          = ChosenPick(set, shards, list, eligible, slot).auth
    BY RoundRobinTakes
  <2>4. ChosenPick(set, shards, list, eligible, slot) = got
    BY <1>3, <1>5 DEF ChosenPick, ChosenBucket, ChosenView
  <2>5. choice.slot = turn.slot
    BY <1>2, <2>1, <2>2
  <2>6. choice.auth = got.auth
    BY <2>1, <2>3, <2>4
  <2> QED
    BY <2>5, <2>6
<1>7. b \in SUBSET Auths /\ ViewOK(shards[p][best], b)
  BY <1>3, <1>4 DEF Bucket, ViewsOK
<1>8. got.auth \in b
  BY <1>4, <1>5, <1>7, PickRoundRobinFacts
<1>9. ProviderOf[choice.auth] = p
  BY <1>3, <1>6, <1>8 DEF Bucket
<1>10. counts \in [Lists -> [Providers -> Nat]]
  BY DEF SkipsIn
<1>11. PICK top, can : /\ top = Best(OfProviders(set, list))
                       /\ can = {q \in ToSet(list) : Bucket(set, q, top) \cap eligible # {}}
  OBVIOUS
<1>12. PICK now : now = [q \in Providers |-> IF q = p \/ q \notin can THEN 0
                                             ELSE counts[list][q] + 1]
  OBVIOUS
<1>13. after = [counts EXCEPT ![list] = now]
  BY <1>9, <1>11, <1>12 DEF Skip
<1>14. now \in [Providers -> Nat]
  BY <1>10, <1>12
<1>15. after \in [Lists -> [Providers -> Nat]]
  BY <1>10, <1>13, <1>14
<1>16. /\ moved[list] = turn.slot /\ turn.slot \in Nat
       /\ \A l \in Lists : l # list => moved[l] = cursors[l]
  BY <1>4, <1>6, Finite
<1>17. after[list] = now /\ \A l \in Lists : l # list => after[l] = counts[l]
  BY <1>10, <1>13
<1>18. ASSUME NEW l \in Lists, OfProviders(set, l) # {}, NEW k \in 1..Len(l)
       PROVE  SkipOK(set, l, k, moved[l], after[l][l[k]])
  <2>1. CASE l # list
    BY <1>16, <1>17, <1>18, <2>1 DEF SkipsIn
  <2>2. CASE l = list
    <3>1. PICK q : q = list[k]
      OBVIOUS
    <3>2. q \in Providers /\ counts[list][q] \in Nat /\ SkipOK(set, list, k, slot, counts[list][q])
      BY <1>1, <1>2, <1>10, <1>18, <2>2, <3>1 DEF SkipsIn
    <3>3. CASE q = p \/ q \notin can
      <4>1. now[q] = 0
        BY <1>12, <3>2, <3>3
      <4>2. SkipOK(set, list, k, turn.slot, 0)
        BY <1>1, <1>16, <1>18, <2>2, SkipFresh
      <4> QED
        BY <1>16, <1>17, <2>2, <3>1, <4>1, <4>2
    <3>4. CASE ~(q = p \/ q \notin can)
      <4>1. now[q] = counts[list][q] + 1
        BY <1>12, <3>2, <3>4
      <4>2. Bucket(set, list[k], top) \cap eligible # {}
        BY <1>11, <3>1, <3>4
      <4>3. turn.provider # list[k] /\ slot \in 0..Cardinality(Auths)
        BY <1>1, <1>2, <1>4, <3>1, <3>4
      <4>4. SkipOK(set, list, k, turn.slot, counts[list][q] + 1)
        BY <1>1, <1>2, <1>11, <2>2, <3>2, <4>2, <4>3, SkipChosen
      <4> QED
        BY <1>16, <1>17, <2>2, <3>1, <4>1, <4>4
    <3> QED
      BY <3>3, <3>4
  <2> QED
    BY <2>1, <2>2
<1> QED
  BY <1>15, <1>18 DEF SkipsIn

-----------------------------------------------------------------------------
\* The steps that change the indexes: records and picks.
LEMMA IndexSteps ==
  ASSUME DispatchInv, [Next]_vars
  PROVE  \/ UNCHANGED <<fleet, indexes, history>>
         \/ \E a \in fleet.auths, ticks \in Nat : Record(a, ticks)
         \/ \E r \in Requests : Pick(r)
         \/ \E r \in Requests : PickMiss(r)
PROOF
<1>1. ASSUME NEW r \in Requests, Proceed(r)
      PROVE  \/ UNCHANGED <<fleet, indexes, history>>
             \/ \E a \in fleet.auths, ticks \in Nat : Record(a, ticks)
             \/ Pick(r) \/ PickMiss(r)
  <2>1. fleet \in Fleets /\ RecordOK(r, op[r], fleet)
    BY DEF DispatchInv, IndexesOK, RequestsOK, RequestOK
  <2>2. op[r].at \in {"call", "stream", "ending", "left"} => op[r].auth \in fleet.auths
    BY <2>1 DEF RecordOK, At, OwnIn, OfProviders
  <2>3. \A a \in fleet.auths : \A kind \in fleet.kinds :
          RecordFailure(a, kind) => \E ticks \in Nat : Record(a, ticks)
    <3>1. fleet.kinds \subseteq Kinds /\ fleet.auths \subseteq Auths
      BY <2>1, DispatchAssumption
    <3>2. \A kind \in fleet.kinds : Cooldown[kind] \in Nat
      BY <3>1, DispatchAssumption
    <3> QED
      BY <3>2 DEF RecordFailure
  <2>4. \A a : RecordSuccess(a) => \E ticks \in Nat : Record(a, ticks)
    BY DEF RecordSuccess
  <2>5. CASE PrepareFails(r) \/ CallFails(r) \/ StreamError(r) \/ LeftFails(r)
    <3>1. PICK kind \in fleet.kinds : RecordFailure(op[r].auth, kind) /\ op[r].auth \in fleet.auths
      BY <2>2, <2>5 DEF PrepareFails, CallFails, StreamError, LeftFails, At
    <3> QED
      BY <2>3, <3>1
  <2>6. CASE CallSucceeds(r) \/ StreamEnds(r)
    <3>1. RecordSuccess(op[r].auth) /\ op[r].auth \in fleet.auths
      BY <2>2, <2>6 DEF CallSucceeds, StreamEnds, At
    <3> QED
      BY <2>4, <3>1
  <2>7. CASE \/ LimitReached(r) \/ CallAborted(r) \/ StartWait(r) \/ TimerFires(r)
             \/ WaitCanceled(r) \/ StreamOpens(r) \/ StreamPayload(r) \/ FailedStreamEnds(r)
             \/ StreamDropped(r) \/ StreamLeft(r) \/ LeftCut(r) \/ BootstrapRetry(r) \/ GiveUp(r)
    BY <2>7 DEF LimitReached, CallAborted, StartWait, TimerFires, WaitCanceled, StreamOpens,
         StreamPayload, FailedStreamEnds, StreamDropped, StreamLeft, LeftCut, BootstrapRetry,
         GiveUp
  <2> QED
    BY <1>1, <2>5, <2>6, <2>7 DEF Proceed
<1>2. CASE Tick
  BY <1>2 DEF Tick
<1>3. ASSUME NEW r \in Requests, Begin(r) \/ Cancel(r) PROVE UNCHANGED <<fleet, indexes, history>>
  BY <1>3 DEF Begin, Cancel
<1>4. CASE UNCHANGED vars
  BY <1>4 DEF vars, indexes, history
<1> QED
  BY <1>1, <1>2, <1>3, <1>4 DEF Next

-----------------------------------------------------------------------------
NonePassed == [a \in Auths |-> 0]
NoneSkipped == [l \in Lists |-> [p \in Providers |-> 0]]

\* Every credential and every provider has its turn in time; the fill-first
\* strategy has no turns to count.
HistoryOK ==
  /\ TurnsIn(ready, views, passed) /\ SkipsIn(ready, slots, skipped)
  /\ fleet.strategy = "fill-first" => passed = NonePassed /\ skipped = NoneSkipped

LEMMA KeptFacts ==
  ASSUME DispatchInv, HistoryOK, NEW set \in SUBSET Auths, NEW new,
         NEW Q, \A a \in (ready \ set) \cup (set \ ready) : ProviderOf[a] \in Q,
         new = [p \in Providers |-> IF p \in Q THEN Rebuilt(views[p], ready, set, p)
                                    ELSE views[p]]
  PROVE  /\ TurnsIn(set, new, PassedAfter(set)) /\ SkipsIn(set, slots, SkippedAfter(set))
         /\ fleet.strategy = "fill-first" =>
              PassedAfter(set) = NonePassed /\ SkippedAfter(set) = NoneSkipped
PROOF
<1>1. /\ ready \in SUBSET Auths /\ ViewsOK(views, ready)
      /\ slots \in [Lists -> 0..Cardinality(Auths)]
  BY DispatchAssumption DEF DispatchInv, IndexesOK
<1>2. slots \in [Lists -> Nat]
  BY <1>1, Finite
<1>3. TurnsIn(set, new, PassedAfter(set))
  <2>1. PICK kept : kept = PassedAfter(set)
    OBVIOUS
  <2>2. kept = [a \in Auths |-> IF MyBucket(set, a) = MyBucket(ready, a) THEN passed[a] ELSE 0]
    BY <2>1 DEF PassedAfter
  <2>3. TurnsIn(ready, views, passed)
    BY DEF HistoryOK
  <2> QED
    BY <1>1, <2>1, <2>2, <2>3, TurnsMoved
<1>4. SkipsIn(set, slots, SkippedAfter(set))
  <2>1. PICK kept : kept = SkippedAfter(set)
    OBVIOUS
  <2>2. kept = [l \in Lists |-> IF OfProviders(set, l) = OfProviders(ready, l) THEN skipped[l]
                                ELSE [p \in Providers |-> 0]]
    BY <2>1 DEF SkippedAfter
  <2>3. SkipsIn(ready, slots, skipped)
    BY DEF HistoryOK
  <2> QED
    BY <1>1, <1>2, <2>1, <2>2, <2>3, SkipsMoved
<1>5. ASSUME fleet.strategy = "fill-first"
      PROVE  PassedAfter(set) = NonePassed /\ SkippedAfter(set) = NoneSkipped
  <2>1. passed = NonePassed /\ skipped = NoneSkipped
    BY <1>5 DEF HistoryOK
  <2>2. \A a \in Auths : passed[a] = 0
    BY <2>1 DEF NonePassed
  <2>3. \A l \in Lists : skipped[l] = [p \in Providers |-> 0]
    BY <2>1 DEF NoneSkipped
  <2> QED
    BY <2>2, <2>3 DEF PassedAfter, SkippedAfter, NonePassed, NoneSkipped
<1> QED
  BY <1>3, <1>4, <1>5

LEMMA HistoryRecord ==
  ASSUME DispatchInv, HistoryOK, NEW a \in fleet.auths, NEW ticks \in Nat, Record(a, ticks)
  PROVE  HistoryOK'
PROOF
<1>1. fleet' = fleet /\ slots' = slots /\ a \in Auths /\ ready \in SUBSET Auths
  BY DispatchAssumption DEF Record, DispatchInv, IndexesOK
<1>2. CASE SameEntry(a, ticks)
  <2>1. UNCHANGED <<ready, views, passed, skipped>>
    BY <1>2 DEF Record
  <2> QED
    BY <1>1, <2>1 DEF HistoryOK
<1>3. CASE ~SameEntry(a, ticks)
  <2>1. PICK new : new = IF ticks = 0 THEN ready \cup {a} ELSE ready \ {a}
    OBVIOUS
  <2>2. PICK p : p = ProviderOf[a]
    OBVIOUS
  <2>3. /\ ready' = new /\ views' = [views EXCEPT ![p] = Rebuilt(views[p], ready, new, p)]
        /\ passed' = PassedAfter(new) /\ skipped' = SkippedAfter(new)
    BY <1>3, <2>1, <2>2 DEF Record
  <2>4. new \in SUBSET Auths /\ \A b \in (ready \ new) \cup (new \ ready) : ProviderOf[b] \in {p}
    BY <1>1, <2>1, <2>2
  <2>5. views \in AllViews
    BY DEF DispatchInv, IndexesOK, ViewsOK
  <2>6. views' = [q \in Providers |-> IF q \in {p} THEN Rebuilt(views[q], ready, new, q)
                                      ELSE views[q]]
    BY <2>3, <2>5 DEF AllViews
  <2>7. /\ TurnsIn(new, views', PassedAfter(new)) /\ SkipsIn(new, slots, SkippedAfter(new))
        /\ fleet.strategy = "fill-first" =>
             PassedAfter(new) = NonePassed /\ SkippedAfter(new) = NoneSkipped
    BY <2>4, <2>6, KeptFacts
  <2> QED
    BY <1>1, <2>3, <2>7 DEF HistoryOK, NonePassed, NoneSkipped
<1> QED
  BY <1>2, <1>3

LEMMA HistoryPick ==
  ASSUME DispatchInv, HistoryOK, NEW r \in Requests, Pick(r)
  PROVE  HistoryOK'
PROOF
<1>1. PICK now \in {Promoted(r)} : \E choice \in {Choice(r, now)} :
        /\ ready' = now
        /\ views' = choice.views
        /\ slots' = [slots EXCEPT ![List[r]] = choice.slot]
        /\ PassOver(r, now, choice.auth)
  BY DEF Pick
<1>2. PICK choice :
        /\ choice = Choice(r, now) /\ ready' = now
        /\ views' = choice.views
        /\ slots' = [slots EXCEPT ![List[r]] = choice.slot]
        /\ PassOver(r, now, choice.auth)
  BY <1>1
<1>3. IndexesOK /\ fleet \in Fleets /\ fleet' = fleet /\ Untried(r) # {} /\ now = Promoted(r)
      /\ ready \in SUBSET Auths /\ slots \in [Lists -> 0..Cardinality(Auths)]
  BY <1>1, DispatchAssumption DEF DispatchInv, IndexesOK, Pick
<1>4. now \in SUBSET Auths /\ ViewsOK(PromotedViews(r), now)
  BY <1>3, PromotedOK
<1>5. PICK list, eligible, shards : /\ list = List[r] /\ eligible = Auths \ op[r].tried
                                    /\ shards = PromotedViews(r)
  OBVIOUS
<1>6. list \in Lists
  BY <1>5 DEF Lists
<1>7. /\ TurnsIn(now, shards, PassedAfter(now)) /\ SkipsIn(now, slots, SkippedAfter(now))
      /\ fleet.strategy = "fill-first" =>
           PassedAfter(now) = NonePassed /\ SkippedAfter(now) = NoneSkipped
  <2>1. PICK Q : Q = {ProviderOf[a] : a \in now \ ready}
    OBVIOUS
  <2>2. ready \subseteq now
    BY <1>3 DEF Promoted
  <2>3. \A a \in (ready \ now) \cup (now \ ready) : ProviderOf[a] \in Q
    BY <2>1, <2>2
  <2>4. shards = [p \in Providers |-> IF p \in Q THEN Rebuilt(views[p], ready, now, p)
                                      ELSE views[p]]
    BY <1>3, <1>5, <2>1 DEF PromotedViews
  <2> QED
    BY <1>4, <2>3, <2>4, KeptFacts
<1>8. CASE fleet.strategy = "fill-first"
  <2>1. passed' = NonePassed /\ skipped' = NoneSkipped
    BY <1>2, <1>8 DEF PassOver, history, HistoryOK
  <2>2. ViewsOK(choice.views, now) /\ choice.slot \in 0..Cardinality(Auths)
    BY <1>2, <1>3, ChoiceOK
  <2>3. TurnsIn(now, choice.views, NonePassed)
    BY <1>4, <2>2, TurnsFresh DEF NonePassed
  <2>4. slots' \in [Lists -> Nat]
    <3>1. slots' \in [Lists -> 0..Cardinality(Auths)]
      BY <1>2, <1>3, <2>2
    <3> QED
      BY <3>1, Finite
  <2>5. SkipsIn(now, slots', NoneSkipped)
    BY <1>4, <2>4, SkipsFresh DEF NoneSkipped
  <2> QED
    BY <1>2, <1>3, <2>1, <2>3, <2>5 DEF HistoryOK, NonePassed, NoneSkipped
<1>9. CASE fleet.strategy # "fill-first"
  <2>1. choice = RoundRobin(now, shards, list, eligible, slots[list])
    BY <1>2, <1>5, <1>9 DEF Choice
  <2>2. PICK counts, skips : counts = PassedAfter(now) /\ skips = SkippedAfter(now)
    OBVIOUS
  <2>3. /\ passed' = Pass(counts, MyBucket(now, choice.auth), choice.auth, eligible)
        /\ skipped' = [skips EXCEPT ![list] = Skip(skips[list], now, list,
                                                   ProviderOf[choice.auth], eligible)]
    BY <1>2, <1>5, <1>9, <2>2 DEF PassOver
  <2>4. OfProviders(now \cap eligible, list) # {}
    BY <1>3, <1>4, <1>5 DEF Untried, OfProviders
  <2>5. ListOK(list) /\ slots[list] \in 0..Cardinality(Auths)
    BY <1>3, <1>6, ListFacts
  <2>6. TurnsIn(now, choice.views, passed')
    BY <1>4, <1>5, <1>7, <2>1, <2>2, <2>3, <2>4, <2>5, TurnsChosen
  <2>7. SkipsIn(now, slots', skipped')
    <3>1. slots' = [slots EXCEPT ![list] = choice.slot]
      BY <1>2, <1>5
    <3> QED
      BY <1>3, <1>4, <1>5, <1>6, <1>7, <2>1, <2>2, <2>3, <2>4, <3>1, SkipsChosen
  <2> QED
    BY <1>2, <1>3, <1>9, <2>6, <2>7 DEF HistoryOK
<1> QED
  BY <1>8, <1>9

LEMMA HistoryNext == DispatchInv /\ HistoryOK /\ [Next]_vars => HistoryOK'
PROOF
<1> SUFFICES ASSUME DispatchInv, HistoryOK, [Next]_vars PROVE HistoryOK'
  OBVIOUS
<1>1. CASE UNCHANGED <<fleet, indexes, history>>
  BY <1>1 DEF indexes, history, HistoryOK
<1>2. ASSUME NEW r \in Requests, PickMiss(r) PROVE HistoryOK'
  <2>1. passed' = NonePassed /\ skipped' = NoneSkipped
    BY <1>2 DEF PickMiss, NonePassed, NoneSkipped
  <2>2. DispatchInv'
    BY DispatchNext
  <2>3. PICK set, shards, cursors : set = ready' /\ shards = views' /\ cursors = slots'
    OBVIOUS
  <2>4. set \in SUBSET Auths /\ ViewsOK(shards, set) /\ cursors \in [Lists -> 0..Cardinality(Auths)]
    <3>1. fleet' \in Fleets /\ ready' \subseteq fleet'.auths
      BY <2>2 DEF DispatchInv, IndexesOK
    <3> QED
      BY <2>2, <2>3, <3>1, DispatchAssumption DEF DispatchInv, IndexesOK
  <2>5. cursors \in [Lists -> Nat]
    BY <2>4, Finite
  <2>6. TurnsIn(set, shards, NonePassed) /\ SkipsIn(set, cursors, NoneSkipped)
    BY <2>4, <2>5, TurnsFresh, SkipsFresh DEF NonePassed, NoneSkipped
  <2> QED
    BY <2>1, <2>3, <2>6 DEF HistoryOK, NonePassed, NoneSkipped
<1> QED
  BY <1>1, <1>2, IndexSteps, HistoryRecord, HistoryPick

LEMMA HistoryAlways == Spec => []HistoryOK
PROOF
<1>1. Init => HistoryOK
  <2> SUFFICES ASSUME Init PROVE HistoryOK
    OBVIOUS
  <2>1. DispatchInv
    BY DispatchInit
  <2>2. /\ ready \in SUBSET Auths /\ ViewsOK(views, ready)
        /\ slots \in [Lists -> 0..Cardinality(Auths)]
    BY <2>1, DispatchAssumption DEF DispatchInv, IndexesOK
  <2>3. slots \in [Lists -> Nat]
    BY <2>2, Finite
  <2>4. passed = NonePassed /\ skipped = NoneSkipped
    BY DEF Init, NonePassed, NoneSkipped
  <2>5. TurnsIn(ready, views, NonePassed) /\ SkipsIn(ready, slots, NoneSkipped)
    BY <2>2, <2>3, TurnsFresh, SkipsFresh DEF NonePassed, NoneSkipped
  <2> QED
    BY <2>4, <2>5 DEF HistoryOK
<1>2. DispatchInv /\ HistoryOK /\ [Next]_vars => HistoryOK'
  BY HistoryNext
<1> QED
  BY <1>1, <1>2, DispatchAlways, PTL DEF Spec

\* By round-robin a ready credential has its turn again before its bucket has
\* gone round once more; of a grouped bucket, before every parent has come as
\* often as its own parent has credentials (pickRoundRobin,
\* pickGroupedRoundRobin): whatever requests have tried, and however records,
\* promotions and rebuilds come between the choices, as long as they leave its
\* bucket as it is.
THEOREM EachHasItsTurn == Spec => []CredentialsTakeTurns
PROOF
<1>1. ASSUME DispatchInv, HistoryOK, NEW a \in ready
      PROVE  LET bucket == MyBucket(ready, a)
             IN  passed[a] < IF Grouped(bucket)
                               THEN Cardinality(ParentsOf(bucket))
                                      * Cardinality(Children(bucket, Parent[a]))
                               ELSE Cardinality(bucket)
  <2>1. PICK b, v : b = MyBucket(ready, a) /\ v = views[ProviderOf[a]][Priority[a]]
    OBVIOUS
  <2>2. ready \in SUBSET Auths /\ ViewsOK(views, ready)
    BY <1>1, DispatchAssumption DEF DispatchInv, IndexesOK
  <2>3. b \in SUBSET Auths /\ a \in b /\ ViewOK(v, b) /\ a \in Auths
    BY <2>1, <2>2, MyBucketFacts
  <2>4. passed[a] \in Nat /\ TurnOK(a, b, v, passed[a])
    BY <1>1, <2>1, <2>3 DEF HistoryOK, TurnsIn
  <2>5. passed[a] < IF Grouped(b)
                      THEN Cardinality(ParentsOf(b)) * Cardinality(Children(b, Parent[a]))
                      ELSE Cardinality(b)
    BY <2>3, <2>4, TurnBound
  <2> QED
    BY <2>1, <2>5
<1>2. DispatchInv /\ HistoryOK => CredentialsTakeTurns
  BY <1>1 DEF CredentialsTakeTurns
<1> QED
  BY <1>2, DispatchAlways, HistoryAlways, PTL

\* A provider waits for its turn no longer than the others of the sequence have
\* ready credentials of the highest priority (pickMixed): whatever requests of
\* other sequences choose meanwhile.
THEOREM EachProviderHasItsTurn == Spec => []ProvidersTakeTurns
PROOF
<1>1. ASSUME DispatchInv, HistoryOK, NEW l \in Lists, NEW p \in ToSet(l),
             OfProviders(ready, l) # {}
      PROVE  skipped[l][p] <= Cardinality({a \in OfProviders(ready, l) :
               Priority[a] = Best(OfProviders(ready, l)) /\ ProviderOf[a] # p})
  <2>1. PICK k \in 1..Len(l) : p = l[k]
    <3>1. l \in Seq(Providers)
      BY ListFacts DEF ListOK
    <3> QED
      BY <3>1 DEF ToSet
  <2>2. ready \in SUBSET Auths /\ slots \in [Lists -> 0..Cardinality(Auths)]
    BY <1>1, DispatchAssumption DEF DispatchInv, IndexesOK
  <2>3. slots[l] \in Nat
    BY <2>2, Finite
  <2>4. ListOK(l) /\ p \in Providers
    BY <2>1, ListFacts
  <2>5. skipped[l][p] \in Nat /\ SkipOK(ready, l, k, slots[l], skipped[l][p])
    BY <1>1, <2>1, <2>4 DEF HistoryOK, SkipsIn
  <2>6. PICK top : top = Best(OfProviders(ready, l))
    OBVIOUS
  <2>7. PICK others : others = {a \in OfProviders(ready, l) :
                                  Priority[a] = top /\ ProviderOf[a] # l[k]}
    OBVIOUS
  <2>8. skipped[l][p] <= Cardinality(others)
    BY <1>1, <2>2, <2>3, <2>4, <2>5, <2>6, <2>7, SkipBound
  <2> QED
    BY <2>1, <2>6, <2>7, <2>8
<1>2. DispatchInv /\ HistoryOK => ProvidersTakeTurns
  BY <1>1 DEF ProvidersTakeTurns
<1> QED
  BY <1>2, DispatchAlways, HistoryAlways, PTL
=============================================================================
