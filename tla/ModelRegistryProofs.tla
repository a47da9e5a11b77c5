------------------------ MODULE ModelRegistryProofs ------------------------
(***************************************************************************)
(* Proofs about the model registry, for any number of models, clients,     *)
(* providers and readers: its counters are the sums over the registered    *)
(* clients, and a cached listing that is still used is the right one.      *)
(***************************************************************************)
EXTENDS ModelRegistry, FiniteSetTheorems, TLAPS

-----------------------------------------------------------------------------
(***************************************************************************)
(* Sums over sets of clients.                                              *)
(***************************************************************************)
\* Induction over the naturals, as the least counterexample.
LEMMA LeastNumber ==
  ASSUME NEW T \in SUBSET Nat, T # {}
  PROVE  \E x \in T : \A y \in 0..x - 1 : y \notin T
PROOF
<1> DEFINE R == OpToRel(<, Nat)
<1>1. \A x, y \in Nat : <<y, x>> \in R <=> y < x
  BY DEF OpToRel
<1>2. IsWellFoundedOn(R, Nat)
  BY NatLessThanWellFounded
<1> HIDE DEF R
<1>3. PICK x \in T : \A y \in T : ~ (<<y, x>> \in R)
  BY <1>2, WFMin
<1>4. x \in Nat /\ \A y \in 0..x - 1 : y \in Nat /\ y < x
  OBVIOUS
<1> QED
  BY <1>1, <1>3, <1>4

\* What MapThenSumSet computes for CopiesOf, with its recursion in sight.
Any(s) == CHOOSE x \in s : TRUE
Copies(w, m, S) == MapThenSumSet(LAMBDA c : w[c][m], S)

\* One step of the recursion that computes a sum.
Added(w, m, f, s) == IF s = {} THEN 0 ELSE w[Any(s)][m] + f[s \ {Any(s)}]
Partial(w, m, S) == CHOOSE f : f = [s \in SUBSET S |-> Added(w, m, f, s)]

\* A sum is the value of the recursive function at the whole set.
LEMMA CopiesUnfold ==
  ASSUME NEW S, NEW w, NEW m
  PROVE  Copies(w, m, S) = Partial(w, m, S)[S]
PROOF
  BY DEF Copies, MapThenSumSet, MapThenFoldSet, Any, Partial, Added

\* The recursion takes its set apart, a member at a time.
LEMMA AnyFacts ==
  ASSUME NEW S, IsFiniteSet(S), NEW s \in SUBSET S, s # {}
  PROVE  /\ Any(s) \in s /\ s \ {Any(s)} \in SUBSET S
         /\ Cardinality(s) \in Nat \ {0}
         /\ Cardinality(s \ {Any(s)}) = Cardinality(s) - 1
PROOF
<1>1. Any(s) \in s
  BY DEF Any
<1>2. IsFiniteSet(s)
  BY FS_Subset
<1>3. Cardinality(s) \in Nat \ {0}
  BY <1>2, FS_CardinalityType, FS_EmptySet
<1> QED
  BY <1>1, <1>2, <1>3, FS_RemoveElement

\* The recursive function exists: its approximations extend each other.
LEMMA PartialDefined ==
  ASSUME NEW S, IsFiniteSet(S), NEW w, NEW m, \A x \in S : w[x][m] \in Nat
  PROVE  \A s \in SUBSET S : /\ Partial(w, m, S)[s] \in Nat
                             /\ Partial(w, m, S)[s] = Added(w, m, Partial(w, m, S), s)
PROOF
<1> DEFINE Good(n, f) == \A s \in SUBSET S : Cardinality(s) <= n => f[s] = Added(w, m, f, s)
           Bad == {n \in Nat : ~ \E f \in [SUBSET S -> Nat] : Good(n, f)}
<1>1. \A s \in SUBSET S : IsFiniteSet(s) /\ Cardinality(s) \in 0..Cardinality(S)
  BY FS_Subset, FS_CardinalityType
<1>2. Bad = {}
  <2> SUFFICES ASSUME Bad # {} PROVE FALSE
    OBVIOUS
  <2>1. PICK n \in Bad : \A k \in 0..n - 1 : k \notin Bad
    BY LeastNumber
  <2>2. n \in Nat
    OBVIOUS
  <2>3. CASE n = 0
    <3>1. [s \in SUBSET S |-> 0] \in [SUBSET S -> Nat]
      OBVIOUS
    <3>2. Good(0, [s \in SUBSET S |-> 0])
      BY <1>1, FS_EmptySet DEF Added
    <3> QED
      BY <2>1, <2>3, <3>1, <3>2
  <2>4. CASE n > 0
    <3>1. PICK f \in [SUBSET S -> Nat] : Good(n - 1, f)
      <4>1. n - 1 \in Nat /\ n - 1 \in 0..n - 1
        BY <2>2, <2>4
      <4>2. n - 1 \notin Bad
        BY <2>1, <4>1
      <4> HIDE DEF Good
      <4> QED
        BY <4>1, <4>2
    <3> DEFINE g == [s \in SUBSET S |-> Added(w, m, f, s)]
    <3>2. g \in [SUBSET S -> Nat]
      <4>1. ASSUME NEW s \in SUBSET S PROVE Added(w, m, f, s) \in Nat
        <5>1. s # {} => Any(s) \in S /\ s \ {Any(s)} \in SUBSET S
          BY AnyFacts
        <5> QED
          BY <5>1 DEF Added
      <4> QED
        BY <4>1
    <3>3. ASSUME NEW s \in SUBSET S, Cardinality(s) <= n PROVE g[s] = Added(w, m, g, s)
      <4>1. CASE s = {}
        BY <4>1 DEF Added
      <4>2. CASE s # {}
        <5>1. /\ s \ {Any(s)} \in SUBSET S /\ Cardinality(s \ {Any(s)}) <= n - 1
          BY <2>2, <3>3, <4>2, AnyFacts
        <5>2. g[s \ {Any(s)}] = f[s \ {Any(s)}]
          BY <3>1, <5>1
        <5> QED
          BY <4>2, <5>1, <5>2 DEF Added
      <4> QED
        BY <4>1, <4>2
    <3> HIDE DEF g
    <3>4. Good(n, g)
      BY <3>3
    <3> QED
      BY <2>1, <3>2, <3>4
  <2> QED
    BY <2>2, <2>3, <2>4
<1>3. PICK f \in [SUBSET S -> Nat] : Good(Cardinality(S), f)
  BY <1>2, FS_CardinalityType
<1>4. f = [s \in SUBSET S |-> Added(w, m, f, s)]
  BY <1>1, <1>3
<1>5. Partial(w, m, S) = [s \in SUBSET S |-> Added(w, m, Partial(w, m, S), s)]
  BY <1>4 DEF Partial
<1>6. Partial(w, m, S) = f
  <2> DEFINE p == Partial(w, m, S)
             Diff == {k \in Nat : \E s \in SUBSET S : Cardinality(s) = k /\ p[s] # f[s]}
  <2>1. Diff = {}
    <3> SUFFICES ASSUME Diff # {} PROVE FALSE
      OBVIOUS
    <3>1. PICK n \in Diff : \A k \in 0..n - 1 : k \notin Diff
      BY LeastNumber
    <3>2. PICK s \in SUBSET S : Cardinality(s) = n /\ p[s] # f[s]
      BY <3>1
    <3> HIDE DEF p
    <3>3. p[s] = Added(w, m, p, s) /\ f[s] = Added(w, m, f, s)
      BY <1>4, <1>5 DEF p
    <3>4. s # {}
      BY <3>2, <3>3 DEF Added
    <3>5. s \ {Any(s)} \in SUBSET S /\ Cardinality(s \ {Any(s)}) = n - 1 /\ n - 1 \in 0..n - 1
      BY <3>2, <3>4, AnyFacts
    <3>6. p[s \ {Any(s)}] = f[s \ {Any(s)}]
      BY <3>1, <3>5
    <3> QED
      BY <3>2, <3>3, <3>6 DEF Added
  <2>2. \A s \in SUBSET S : p[s] = f[s]
    BY <1>1, <2>1
  <2> HIDE DEF p
  <2>3. p = [s \in SUBSET S |-> p[s]]
    BY <1>5 DEF p
  <2> QED
    BY <2>2, <2>3 DEF p
<1> QED
  <2> DEFINE p == Partial(w, m, S)
  <2> SUFFICES ASSUME NEW s \in SUBSET S PROVE p[s] \in Nat /\ p[s] = Added(w, m, p, s)
    OBVIOUS
  <2>1. p = f /\ p = [t \in SUBSET S |-> Added(w, m, p, t)]
    BY <1>5, <1>6
  <2> HIDE DEF p
  <2> QED
    BY <2>1

\* A sum depends only on the weights of its members, and not on the set in
\* which the recursion runs.
LEMMA PartialAgrees ==
  ASSUME NEW S, IsFiniteSet(S), NEW w, NEW m, \A x \in S : w[x][m] \in Nat,
         NEW T \in SUBSET S, NEW v, \A x \in T : v[x][m] = w[x][m]
  PROVE  \A s \in SUBSET T : Partial(v, m, T)[s] = Partial(w, m, S)[s]
PROOF
<1> DEFINE p == Partial(v, m, T)
           q == Partial(w, m, S)
           Diff == {k \in Nat : \E s \in SUBSET T : Cardinality(s) = k /\ p[s] # q[s]}
<1>1. IsFiniteSet(T) /\ \A x \in T : v[x][m] \in Nat
  BY FS_Subset
<1>2. /\ \A s \in SUBSET T : p[s] = Added(v, m, p, s)
      /\ \A s \in SUBSET S : q[s] = Added(w, m, q, s)
  BY <1>1, PartialDefined
<1>3. Diff = {}
  <2> SUFFICES ASSUME Diff # {} PROVE FALSE
    OBVIOUS
  <2>1. PICK n \in Diff : \A k \in 0..n - 1 : k \notin Diff
    BY LeastNumber
  <2>2. PICK s \in SUBSET T : Cardinality(s) = n /\ p[s] # q[s]
    BY <2>1
  <2> HIDE DEF p, q
  <2>3. s # {}
    BY <1>2, <2>2 DEF Added
  <2>4. /\ Any(s) \in T /\ s \ {Any(s)} \in SUBSET T
        /\ Cardinality(s \ {Any(s)}) = n - 1 /\ n - 1 \in 0..n - 1
    BY <1>1, <2>2, <2>3, AnyFacts
  <2>5. p[s \ {Any(s)}] = q[s \ {Any(s)}]
    BY <2>1, <2>4
  <2> QED
    BY <1>2, <2>2, <2>3, <2>4, <2>5 DEF Added
<1>4. \A s \in SUBSET T : Cardinality(s) \in Nat
  BY <1>1, FS_Subset, FS_CardinalityType
<1> QED
  BY <1>3, <1>4

\* One step of the sum.
LEMMA CopiesStep ==
  ASSUME NEW S, IsFiniteSet(S), NEW w, NEW m, \A x \in S : w[x][m] \in Nat
  PROVE  /\ Copies(w, m, S) \in Nat
         /\ S = {} => Copies(w, m, S) = 0
         /\ S # {} => Copies(w, m, S) = w[Any(S)][m] + Copies(w, m, S \ {Any(S)})
PROOF
<1>1. Copies(w, m, S) = Partial(w, m, S)[S] /\ S \in SUBSET S
  BY CopiesUnfold
<1>2. Partial(w, m, S)[S] \in Nat /\ Partial(w, m, S)[S] = Added(w, m, Partial(w, m, S), S)
  BY PartialDefined, <1>1
<1>3. CASE S # {}
  <2> DEFINE T == S \ {Any(S)}
  <2>1. T \in SUBSET S
    OBVIOUS
  <2>2. Partial(w, m, T)[T] = Partial(w, m, S)[T]
    BY <2>1, PartialAgrees
  <2>3. Copies(w, m, T) = Partial(w, m, T)[T]
    BY CopiesUnfold
  <2> QED
    BY <1>1, <1>2, <1>3, <2>2, <2>3 DEF Added
<1> QED
  BY <1>1, <1>2, <1>3 DEF Added

\* Equal copies, equal sums.
LEMMA CopiesAgree ==
  ASSUME NEW S, IsFiniteSet(S), NEW w, NEW m, NEW v, \A x \in S : w[x][m] \in Nat /\ v[x][m] = w[x][m]
  PROVE  Copies(v, m, S) = Copies(w, m, S)
PROOF
<1>1. S \in SUBSET S /\ \A x \in S : w[x][m] \in Nat
  OBVIOUS
<1>2. Partial(v, m, S)[S] = Partial(w, m, S)[S]
  BY <1>1, PartialAgrees
<1> QED
  BY <1>2, CopiesUnfold

\* Any member may be taken out first.
LEMMA CopiesRemove ==
  ASSUME NEW S, IsFiniteSet(S), NEW w, NEW m, \A x \in S : w[x][m] \in Nat, NEW x \in S
  PROVE  Copies(w, m, S) = w[x][m] + Copies(w, m, S \ {x})
PROOF
<1> DEFINE Wrong(s) == \E y \in s : Copies(w, m, s) # w[y][m] + Copies(w, m, s \ {y})
           Bad == {k \in Nat : \E s \in SUBSET S : Cardinality(s) = k /\ Wrong(s)}
<1>1. \A s \in SUBSET S : /\ IsFiniteSet(s) /\ Cardinality(s) \in Nat
                          /\ \A y \in s : w[y][m] \in Nat
  BY FS_Subset, FS_CardinalityType
<1>2. Bad = {}
  <2> SUFFICES ASSUME Bad # {} PROVE FALSE
    OBVIOUS
  <2>1. PICK n \in Bad : \A k \in 0..n - 1 : k \notin Bad
    BY LeastNumber
  <2>2. PICK s \in SUBSET S : Cardinality(s) = n /\ Wrong(s)
    BY <2>1
  <2>3. PICK y \in s : Copies(w, m, s) # w[y][m] + Copies(w, m, s \ {y})
    BY <2>2
  <2> DEFINE a == Any(s)
  <2>4. a \in s /\ Copies(w, m, s) = w[a][m] + Copies(w, m, s \ {a})
    BY <1>1, <2>3, CopiesStep, AnyFacts
  <2> HIDE DEF a
  <2>5. y # a
    BY <2>3, <2>4
  <2>6. ASSUME NEW z \in s, NEW u \in s \ {z}
        PROVE  Copies(w, m, s \ {z}) = w[u][m] + Copies(w, m, (s \ {z}) \ {u})
    <3>1. Cardinality(s \ {z}) = n - 1 /\ n - 1 \in Nat /\ s \ {z} \in SUBSET S
      <4>1. IsFiniteSet(s) /\ s \ {z} \in SUBSET S /\ Cardinality(s \ {z}) \in Nat
        BY <1>1
      <4>2. Cardinality(s \ {z}) = Cardinality(s) - 1
        BY <4>1, FS_RemoveElement
      <4> QED
        BY <2>2, <4>1, <4>2
    <3>2. n - 1 \in 0..n - 1
      BY <3>1
    <3>3. ~Wrong(s \ {z})
      BY <2>1, <3>1, <3>2
    <3> QED
      BY <3>3
  <2>7. Copies(w, m, s \ {a}) = w[y][m] + Copies(w, m, (s \ {a}) \ {y})
    BY <2>4, <2>5, <2>6
  <2>8. Copies(w, m, s \ {y}) = w[a][m] + Copies(w, m, (s \ {y}) \ {a})
    BY <2>4, <2>5, <2>6
  <2>9. (s \ {y}) \ {a} = (s \ {a}) \ {y}
    OBVIOUS
  <2>10. Copies(w, m, (s \ {a}) \ {y}) \in Nat /\ w[a][m] \in Nat /\ w[y][m] \in Nat
    <3>1. (s \ {a}) \ {y} \in SUBSET S
      OBVIOUS
    <3> QED
      BY <1>1, <2>4, <3>1, CopiesStep
  <2> QED
    <3> DEFINE rest == Copies(w, m, (s \ {a}) \ {y})
    <3>1. Copies(w, m, s \ {y}) = w[a][m] + rest
      BY <2>8, <2>9
    <3>2. Copies(w, m, s) = w[a][m] + (w[y][m] + rest)
      BY <2>4, <2>7
    <3>3. rest \in Nat
      BY <2>10
    <3> HIDE DEF rest
    <3> QED
      BY <2>3, <2>10, <3>1, <3>2, <3>3
<1>3. S \in SUBSET S
  OBVIOUS
<1> QED
  BY <1>1, <1>2, <1>3

\* A part of a set has at most its sum.
LEMMA CopiesMonotone ==
  ASSUME NEW S, IsFiniteSet(S), NEW w, NEW m, \A x \in S : w[x][m] \in Nat, NEW T \in SUBSET S
  PROVE  Copies(w, m, T) <= Copies(w, m, S)
PROOF
<1> DEFINE Wrong(s) == ~(Copies(w, m, s \cap T) <= Copies(w, m, s))
           Bad == {k \in Nat : \E s \in SUBSET S : Cardinality(s) = k /\ Wrong(s)}
<1>1. \A s \in SUBSET S : /\ IsFiniteSet(s) /\ Cardinality(s) \in Nat
                          /\ \A y \in s : w[y][m] \in Nat
  BY FS_Subset, FS_CardinalityType
<1>2. Bad = {}
  <2> SUFFICES ASSUME Bad # {} PROVE FALSE
    OBVIOUS
  <2>1. PICK n \in Bad : \A k \in 0..n - 1 : k \notin Bad
    BY LeastNumber
  <2>2. PICK s \in SUBSET S : Cardinality(s) = n /\ Wrong(s)
    BY <2>1
  <2> DEFINE t == s \cap T
  <2>3. t \in SUBSET S /\ Copies(w, m, t) \in Nat /\ Copies(w, m, s) \in Nat
    BY <1>1, CopiesStep
  <2>4. s # {}
    <3> SUFFICES ASSUME s = {} PROVE FALSE
      OBVIOUS
    <3>1. t = s
      OBVIOUS
    <3> QED
      BY <2>2, <2>3, <3>1
  <2>5. PICK a \in s : TRUE
    BY <2>4
  <2>6. /\ s \ {a} \in SUBSET S /\ Cardinality(s \ {a}) = n - 1 /\ n - 1 \in 0..n - 1
        /\ n - 1 \in Nat
    <3>1. Cardinality(s \ {a}) = n - 1 /\ Cardinality(s \ {a}) \in Nat
      BY <1>1, <2>2, FS_RemoveElement
    <3> QED
      BY <3>1
  <2>7. Copies(w, m, (s \ {a}) \cap T) <= Copies(w, m, s \ {a})
    BY <2>1, <2>6
  <2>8. Copies(w, m, s) = w[a][m] + Copies(w, m, s \ {a})
    <3>1. IsFiniteSet(s) /\ \A x \in s : w[x][m] \in Nat
      BY <1>1
    <3> QED
      BY <3>1, CopiesRemove
  <2>9. Copies(w, m, t) = IF a \in T THEN w[a][m] + Copies(w, m, (s \ {a}) \cap T)
                                     ELSE Copies(w, m, (s \ {a}) \cap T)
    <3>1. CASE a \in T
      <4>1. a \in t /\ t \ {a} = (s \ {a}) \cap T
        BY <3>1
      <4>2. IsFiniteSet(t) /\ \A x \in t : w[x][m] \in Nat
        BY <1>1, <2>3
      <4>3. Copies(w, m, t) = w[a][m] + Copies(w, m, t \ {a})
        <5> HIDE DEF t
        <5> QED
          BY <4>1, <4>2, CopiesRemove
      <4> QED
        BY <3>1, <4>1, <4>3
    <3>2. CASE a \notin T
      <4>1. t = (s \ {a}) \cap T
        BY <3>2
      <4> QED
        BY <3>2, <4>1
    <3> QED
      BY <3>1, <3>2
  <2>10. /\ Copies(w, m, (s \ {a}) \cap T) \in Nat /\ Copies(w, m, s \ {a}) \in Nat
         /\ w[a][m] \in Nat
    <3>1. (s \ {a}) \cap T \in SUBSET S
      OBVIOUS
    <3> QED
      BY <1>1, <2>6, <3>1, CopiesStep
  <2>11. ~(Copies(w, m, t) <= Copies(w, m, s))
    BY <2>2
  <2> HIDE DEF t
  <2> QED
    BY <2>3, <2>7, <2>8, <2>9, <2>10, <2>11
<1>3. S \in SUBSET S /\ S \cap T = T
  OBVIOUS
<1>4. ~Wrong(S)
  BY <1>1, <1>2, <1>3
<1> QED
  BY <1>3, <1>4

\* One client's copies change, and whether it belongs to the set.
LEMMA CopiesMove ==
  ASSUME NEW S, IsFiniteSet(S), NEW T, IsFiniteSet(T), NEW w, NEW v, NEW m, NEW c,
         \A x \in S : w[x][m] \in Nat, \A x \in T : v[x][m] \in Nat,
         S \ {c} = T \ {c}, \A x \in S \ {c} : v[x][m] = w[x][m]
  PROVE  \E rest \in Nat :
           /\ Copies(w, m, S) = rest + IF c \in S THEN w[c][m] ELSE 0
           /\ Copies(v, m, T) = rest + IF c \in T THEN v[c][m] ELSE 0
           /\ rest = Copies(w, m, S \ {c})
PROOF
<1> DEFINE rest == Copies(w, m, S \ {c})
<1>1. IsFiniteSet(S \ {c}) /\ IsFiniteSet(T \ {c})
  BY FS_RemoveElement
<1>2. rest \in Nat /\ Copies(v, m, T \ {c}) = rest
  <2>1. \A x \in S \ {c} : w[x][m] \in Nat /\ v[x][m] = w[x][m]
    OBVIOUS
  <2>2. Copies(v, m, S \ {c}) = Copies(w, m, S \ {c})
    BY <1>1, <2>1, CopiesAgree
  <2>3. rest \in Nat
    BY <1>1, <2>1, CopiesStep
  <2> QED
    BY <2>2, <2>3
<1>3. Copies(w, m, S) = rest + IF c \in S THEN w[c][m] ELSE 0
  <2>1. CASE c \in S
    BY <1>2, <2>1, CopiesRemove
  <2>2. CASE c \notin S
    <3>1. S \ {c} = S
      BY <2>2
    <3>2. Copies(w, m, S) = rest
      BY <3>1
    <3> HIDE DEF rest
    <3> QED
      BY <1>2, <2>2, <3>2
  <2> QED
    BY <2>1, <2>2
<1>4. Copies(v, m, T) = rest + IF c \in T THEN v[c][m] ELSE 0
  <2>1. CASE c \in T
    BY <1>2, <2>1, CopiesRemove
  <2>2. CASE c \notin T
    <3>1. T \ {c} = T
      BY <2>2
    <3>2. Copies(v, m, T) = rest
      BY <1>2, <3>1
    <3> HIDE DEF rest
    <3> QED
      BY <1>2, <2>2, <3>2
  <2> QED
    BY <2>1, <2>2
<1> QED
  BY <1>2, <1>3, <1>4
-----------------------------------------------------------------------------
(***************************************************************************)
(* The inductive invariant.  The counters are followed by the clients they *)
(* are sums over; a usable answer is followed by the quota marks it has    *)
(* counted, none of which has run out before the answer expires.           *)
(***************************************************************************)
Registration ==
  [count : Nat, providers : [Providers -> Nat],
   exceeded : [Clients -> Nat], suspended : [Clients -> Reasons]]

ServedBy(q) == {c \in Clients : clientProviders[c] = q}

BoundHasProvider == \A c \in Clients : Bound(c) <=> clientProviders[c] # NoProvider

ReadingsPast == \A r \in Readers : reading[r] <= now

MarksCovered ==
  \A m \in Models : \A c \in Cooling(m, now) :
    cache.expires # Never /\ cache.expires <= models[m].exceeded[c] + QuotaWindow

Covered == Usable(now) => MarksCovered

IInv == TypeOK /\ CountsExact /\ BoundHasProvider /\ ReadingsPast /\ CacheFresh /\ Covered

-----------------------------------------------------------------------------
(***************************************************************************)
(* The counters of one model, from the side of one client: what the others *)
(* add up to, in all and by provider, and what this one adds.              *)
(***************************************************************************)
Counted(reg, rest, part, p, k) ==
  /\ reg.count = rest + k
  /\ \A q \in Providers : reg.providers[q] = part[q] + IF q = p THEN k ELSE 0

LEMMA NoRegistrationType == NoRegistration \in Registration
PROOF BY DEF NoRegistration, Registration, Never, Reasons

LEMMA RegistrationFields ==
  ASSUME NEW reg \in Registration
  PROVE  /\ reg = [count |-> reg.count, providers |-> reg.providers,
                   exceeded |-> reg.exceeded, suspended |-> reg.suspended]
         /\ reg.count \in Nat /\ reg.providers \in [Providers -> Nat]
         /\ reg.exceeded \in [Clients -> Nat] /\ reg.suspended \in [Clients -> Reasons]
PROOF BY DEF Registration

\* The marks are no part of the counters.
LEMMA ClearMarksCounts ==
  ASSUME NEW reg \in Registration, NEW c \in Clients
  PROVE  /\ ClearMarks(reg, c) \in Registration
         /\ ClearMarks(reg, c).count = reg.count
         /\ ClearMarks(reg, c).providers = reg.providers
PROOF BY RegistrationFields DEF ClearMarks, Registration, Never, Reasons

\* The count changes, and the counter of one provider.
SetCounters(reg, p, k, n) == [reg EXCEPT !.count = k, !.providers[p] = n]

LEMMA SetCountersEach ==
  ASSUME NEW reg \in Registration, NEW p \in Providers, NEW k \in Nat, NEW n \in Nat
  PROVE  /\ SetCounters(reg, p, k, n) \in Registration
         /\ SetCounters(reg, p, k, n).count = k
         /\ \A q \in Providers : SetCounters(reg, p, k, n).providers[q] =
              IF q = p THEN n ELSE reg.providers[q]
PROOF BY DEF SetCounters, Registration

LEMMA DropProviderCounts ==
  ASSUME NEW reg \in Registration, NEW p \in Providers, NEW n \in Nat
  PROVE  /\ DropProvider(reg, p, n) \in Registration
         /\ DropProvider(reg, p, n).count = reg.count
         /\ \A q \in Providers : DropProvider(reg, p, n).providers[q] =
              IF q = p THEN Excess(reg.providers[q], n) ELSE reg.providers[q]
PROOF
<1>1. Excess(reg.providers[p], n) \in Nat /\ reg.count \in Nat
  BY RegistrationFields DEF Excess
<1>2. DropProvider(reg, p, n) =
        SetCounters(reg, p, reg.count, Excess(reg.providers[p], n))
  BY DEF DropProvider, SetCounters, Registration
<1>3. \A k \in Nat, j \in Nat :
        /\ SetCounters(reg, p, k, j) \in Registration
        /\ SetCounters(reg, p, k, j).count = k
        /\ \A q \in Providers : SetCounters(reg, p, k, j).providers[q] =
             IF q = p THEN j ELSE reg.providers[q]
  BY SetCountersEach
<1> QED
  BY <1>1, <1>2, <1>3

\* What removeModelRegistration does while copies are left.
LEMMA DecrementCounts ==
  ASSUME NEW reg \in Registration, NEW c \in Clients, NEW p \in Providers,
         NEW n \in Nat, n < reg.count
  PROVE  LET out == ClearMarks(DropProvider([reg EXCEPT !.count = @ - n], p, n), c)
         IN  /\ out \in Registration /\ out.count = reg.count - n
             /\ \A q \in Providers : out.providers[q] =
                  IF q = p THEN Excess(reg.providers[q], n) ELSE reg.providers[q]
PROOF
<1> DEFINE low == [reg EXCEPT !.count = @ - n]
<1>1. reg.count - n \in Nat
  BY RegistrationFields
<1>2. low = [count |-> reg.count - n, providers |-> reg.providers,
             exceeded |-> reg.exceeded, suspended |-> reg.suspended]
  BY RegistrationFields
<1>3. low \in Registration /\ low.count = reg.count - n /\ low.providers = reg.providers
  BY <1>1, <1>2, RegistrationFields DEF Registration
<1> HIDE DEF low
<1> DEFINE dropped == DropProvider(low, p, n)
<1>4. /\ dropped \in Registration /\ dropped.count = reg.count - n
      /\ \A q \in Providers : dropped.providers[q] =
           IF q = p THEN Excess(reg.providers[q], n) ELSE reg.providers[q]
  BY <1>3, DropProviderCounts
<1> HIDE DEF dropped
<1>5. /\ ClearMarks(dropped, c) \in Registration
      /\ ClearMarks(dropped, c).count = dropped.count
      /\ ClearMarks(dropped, c).providers = dropped.providers
  BY <1>4, ClearMarksCounts
<1> QED
  BY <1>4, <1>5 DEF dropped, low

\* removeModelRegistration takes n of the client's copies away, also when it
\* deletes the entry.
LEMMA RemoveCounts ==
  ASSUME NEW reg \in Registration, NEW c \in Clients, NEW p \in Providers,
         NEW rest \in Nat, NEW part \in [Providers -> 0..rest],
         NEW k \in Nat, NEW n \in 0..k, Counted(reg, rest, part, p, k)
  PROVE  /\ removeModelRegistration(reg, c, p, n) \in Registration
         /\ Counted(removeModelRegistration(reg, c, p, n), rest, part, p, k - n)
PROOF
<1> DEFINE out == removeModelRegistration(reg, c, p, n)
<1>1. reg.count = rest + k /\ k \in Nat /\ n \in Nat /\ n <= k
  BY DEF Counted
<1>2. CASE n = 0
  BY <1>1, <1>2 DEF removeModelRegistration, Counted
<1>3. CASE n # 0 /\ reg.count <= n
  <2>1. rest = 0 /\ k = n
    BY <1>1, <1>3
  <2>2. \A q \in Providers : part[q] = 0
    BY <2>1
  <2> QED
    BY <1>3, <2>1, <2>2, NoRegistrationType DEF removeModelRegistration, Counted, NoRegistration
<1>4. CASE n # 0 /\ ~(reg.count <= n)
  <2>1. out = ClearMarks(DropProvider([reg EXCEPT !.count = @ - n], p, n), c)
    BY <1>4 DEF removeModelRegistration
  <2>2. n < reg.count
    BY <1>1, <1>4
  <2>3. /\ out \in Registration /\ out.count = reg.count - n
        /\ \A q \in Providers :
             out.providers[q] = IF q = p THEN Excess(reg.providers[q], n) ELSE reg.providers[q]
    BY <1>1, <2>1, <2>2, DecrementCounts
  <2>4. \A q \in Providers : out.providers[q] = part[q] + IF q = p THEN k - n ELSE 0
    BY <1>1, <2>3 DEF Counted, Excess
  <2> QED
    BY <1>1, <2>3, <2>4 DEF Counted
<1> QED
  BY <1>2, <1>3, <1>4

LEMMA AddEach ==
  ASSUME NEW reg \in Registration, NEW p \in Providers, NEW n \in Nat
  PROVE  /\ addModelRegistration(reg, p, n) \in Registration
         /\ addModelRegistration(reg, p, n).count = reg.count + n
         /\ \A q \in Providers : addModelRegistration(reg, p, n).providers[q] =
              IF q = p THEN reg.providers[q] + n ELSE reg.providers[q]
PROOF
<1>1. reg.count + n \in Nat /\ reg.providers[p] + n \in Nat
  BY RegistrationFields
<1>2. addModelRegistration(reg, p, n) =
        SetCounters(reg, p, reg.count + n, reg.providers[p] + n)
  BY DEF addModelRegistration, SetCounters
<1>3. \A k \in Nat, j \in Nat :
        /\ SetCounters(reg, p, k, j) \in Registration
        /\ SetCounters(reg, p, k, j).count = k
        /\ \A q \in Providers : SetCounters(reg, p, k, j).providers[q] =
             IF q = p THEN j ELSE reg.providers[q]
  BY SetCountersEach
<1> QED
  BY <1>1, <1>2, <1>3

\* addModelRegistration adds n copies of the client.
LEMMA AddCounts ==
  ASSUME NEW reg \in Registration, NEW p \in Providers,
         NEW rest \in Nat, NEW part \in [Providers -> 0..rest],
         NEW k \in Nat, NEW n \in Nat, Counted(reg, rest, part, p, k)
  PROVE  /\ addModelRegistration(reg, p, n) \in Registration
         /\ Counted(addModelRegistration(reg, p, n), rest, part, p, k + n)
PROOF
<1> DEFINE out == addModelRegistration(reg, p, n)
<1>1. /\ out \in Registration /\ out.count = reg.count + n
      /\ \A q \in Providers :
           out.providers[q] = IF q = p THEN reg.providers[q] + n ELSE reg.providers[q]
  BY AddEach
<1> HIDE DEF out
<1>3. out.count = rest + (k + n)
  BY <1>1 DEF Counted
<1>4. \A q \in Providers : out.providers[q] = part[q] + IF q = p THEN k + n ELSE 0
  BY <1>1 DEF Counted
<1> QED
  BY <1>1, <1>3, <1>4 DEF Counted, out

\* The bindings that stay are taken over by the new provider.
Kept(reg, c, p, n) == [ClearMarks(reg, c) EXCEPT !.providers[p] = @ + n]

LEMMA KeptCounts ==
  ASSUME NEW reg \in Registration, NEW c \in Clients, NEW p \in Providers, NEW n \in Nat
  PROVE  /\ Kept(reg, c, p, n) \in Registration
         /\ Kept(reg, c, p, n).count = reg.count
         /\ \A q \in Providers : Kept(reg, c, p, n).providers[q] =
              IF q = p THEN reg.providers[q] + n ELSE reg.providers[q]
PROOF
<1> DEFINE clear == ClearMarks(reg, c)
<1>1. /\ clear \in Registration /\ clear.count = reg.count
      /\ clear.providers = reg.providers
  BY ClearMarksCounts
<1>2. Kept(reg, c, p, n) = [clear EXCEPT !.providers[p] = @ + n]
  BY DEF Kept
<1> HIDE DEF clear
<1>3. clear.count \in Nat /\ clear.providers[p] + n \in Nat
  BY <1>1, RegistrationFields
<1>4. Kept(reg, c, p, n) = SetCounters(clear, p, clear.count, clear.providers[p] + n)
  BY <1>1, <1>2 DEF Registration, SetCounters
<1> DEFINE k == clear.count
           j == clear.providers[p] + n
           out == SetCounters(clear, p, k, j)
<1>5. out \in Registration /\ out.count = k
      /\ \A q \in Providers : out.providers[q] = IF q = p THEN j ELSE clear.providers[q]
  <2>1. k \in Nat /\ j \in Nat
    BY <1>3
  <2> HIDE DEF k, j
  <2> QED
    BY <1>1, <2>1, SetCountersEach
<1>6. out = Kept(reg, c, p, n)
  BY <1>4
<1> HIDE DEF out
<1> QED
  BY <1>1, <1>5, <1>6

\* A registration that replaces another leaves the counters as if the client
\* had been taken out and put in again.
LEMMA ReregisteredCounts ==
  ASSUME NEW reg \in Registration, NEW c \in Clients,
         NEW p0 \in Providers, NEW p \in Providers,
         NEW rest \in Nat, NEW part \in [Providers -> 0..rest],
         NEW old \in Nat, NEW new \in Nat, Counted(reg, rest, part, p0, old)
  PROVE  /\ Reregistered(reg, c, p0, p, old, new) \in Registration
         /\ Counted(Reregistered(reg, c, p0, p, old, new), rest, part, p, new)
PROOF
<1> DEFINE kept    == IF p0 = p THEN 0 ELSE Smaller(old, new)
           left    == DropProvider(reg, p0, kept)
           removed == removeModelRegistration(left, c, p0, Excess(old, new))
           added   == addModelRegistration(removed, p, Excess(new, old))
           out     == IF new = 0 THEN added
                      ELSE Kept(added, c, p, kept)
<1>1. Reregistered(reg, c, p0, p, old, new) = out
  BY DEF Reregistered, Kept
<1>2. kept \in Nat /\ kept <= old /\ kept <= new
  BY DEF Smaller
<1>3. Excess(old, new) \in 0..old /\ Excess(new, old) \in Nat
  BY DEF Excess
<1>4. /\ left \in Registration /\ left.count = rest + old
      /\ \A q \in Providers : left.providers[q] = part[q] + IF q = p0 THEN old - kept ELSE 0
  <2> HIDE DEF kept
  <2>1. /\ left \in Registration /\ left.count = reg.count
        /\ \A q \in Providers :
             left.providers[q] = IF q = p0 THEN Excess(reg.providers[q], kept)
                                           ELSE reg.providers[q]
    BY <1>2, DropProviderCounts
  <2> HIDE DEF left
  <2>3. \A q \in Providers :
          /\ part[q] \in Nat
          /\ reg.providers[q] = part[q] + IF q = p0 THEN old ELSE 0
    BY DEF Counted
  <2>4. \A q \in Providers : left.providers[q] = part[q] + IF q = p0 THEN old - kept ELSE 0
    BY <1>2, <2>1, <2>3 DEF Excess
  <2> QED
    BY <2>1, <2>4 DEF Counted
<1>5. CASE p0 = p
  <2>1. kept = 0
    BY <1>5
  <2>2. Counted(left, rest, part, p, old)
    <3> HIDE DEF left, kept
    <3> QED
      BY <1>4, <1>5, <2>1 DEF Counted
  <2>3. removed \in Registration /\ Counted(removed, rest, part, p, old - Excess(old, new))
    <3> HIDE DEF left
    <3> QED
      BY <1>3, <1>4, <1>5, <2>2, RemoveCounts
  <2>4. old - Excess(old, new) \in Nat
    BY <1>3
  <2>5. /\ added \in Registration
        /\ Counted(added, rest, part, p, (old - Excess(old, new)) + Excess(new, old))
    <3> HIDE DEF removed
    <3> QED
      BY <1>3, <2>3, <2>4, AddCounts
  <2>6. (old - Excess(old, new)) + Excess(new, old) = new
    BY DEF Excess
  <2>7. added \in Registration /\ Counted(added, rest, part, p, new)
    BY <2>5, <2>6
  <2> HIDE DEF added, kept
  <2>8. new # 0 => /\ out \in Registration /\ out.count = added.count
                   /\ \A q \in Providers : out.providers[q] = added.providers[q]
    <3> DEFINE next == Kept(added, c, p, kept)
    <3>1. /\ next \in Registration /\ next.count = added.count
          /\ \A q \in Providers :
               next.providers[q] = IF q = p THEN added.providers[q] + kept
                                            ELSE added.providers[q]
      BY <1>2, <2>7, KeptCounts
    <3>2. \A q \in Providers : added.providers[q] \in Nat
      BY <2>7 DEF Registration
    <3> QED
      BY <2>1, <3>1, <3>2
  <2>9. new = 0 => out = added
    OBVIOUS
  <2> HIDE DEF out
  <2> QED
    BY <1>1, <2>7, <2>8, <2>9 DEF Counted
<1>6. CASE p0 # p
  <2>1. kept = Smaller(old, new)
    BY <1>6
  <2>2. /\ removed \in Registration
        /\ removed.count = rest + (old - Excess(old, new))
        /\ \A q \in Providers : removed.providers[q] = part[q]
    <3>1. CASE old <= new
      <4>1. Excess(old, new) = 0 /\ kept = old
        BY <2>1, <3>1 DEF Excess, Smaller
      <4>2. removed = left
        BY <4>1 DEF removeModelRegistration
      <4> HIDE DEF removed, left, kept
      <4> QED
        BY <1>4, <4>1, <4>2
    <3>2. CASE old > new /\ left.count <= Excess(old, new)
      <4>1. Excess(old, new) = old - new /\ Excess(old, new) # 0
        BY <3>2 DEF Excess
      <4>2. rest = 0 /\ old - Excess(old, new) = 0
        <5> HIDE DEF left
        <5> QED
          BY <1>4, <3>2, <4>1
      <4>3. removed = NoRegistration
        BY <3>2, <4>1 DEF removeModelRegistration
      <4>4. \A q \in Providers : part[q] = 0
        BY <4>2
      <4> HIDE DEF removed
      <4> QED
        BY <4>2, <4>3, <4>4, NoRegistrationType DEF NoRegistration
    <3>3. CASE old > new /\ ~(left.count <= Excess(old, new))
      <4>1. Excess(old, new) = old - new /\ Excess(old, new) # 0 /\ kept = new
        BY <2>1, <3>3 DEF Excess, Smaller
      <4> DEFINE n == Excess(old, new)
      <4>2. removed = ClearMarks(DropProvider([left EXCEPT !.count = @ - n], p0, n), c)
        BY <3>3, <4>1 DEF removeModelRegistration
      <4> HIDE DEF removed, left, kept
      <4>3. n \in Nat /\ n = old - new /\ n < left.count
        BY <1>4, <3>3, <4>1
      <4> HIDE DEF n
      <4>4. /\ removed \in Registration /\ removed.count = left.count - n
            /\ \A q \in Providers :
                 removed.providers[q] = IF q = p0 THEN Excess(left.providers[q], n)
                                                  ELSE left.providers[q]
        BY <1>4, <4>2, <4>3, DecrementCounts
      <4>5. \A q \in Providers : part[q] \in Nat
        OBVIOUS
      <4>6. \A q \in Providers : removed.providers[q] = part[q]
        BY <1>4, <4>1, <4>3, <4>4, <4>5 DEF Excess
      <4> QED
        BY <1>4, <4>3, <4>4, <4>6 DEF n
    <3> QED
      BY <3>1, <3>2, <3>3
  <2> DEFINE more == Excess(new, old)
  <2>3. /\ added \in Registration
        /\ added.count = removed.count + more
        /\ \A q \in Providers :
             added.providers[q] = IF q = p THEN removed.providers[q] + more
                                           ELSE removed.providers[q]
    <3>1. more \in Nat
      BY <1>3
    <3>2. added = addModelRegistration(removed, p, more)
      OBVIOUS
    <3>3. removed \in Registration
      BY <2>2
    <3> HIDE DEF removed, more, added
    <3>4. LET sum == addModelRegistration(removed, p, more)
          IN  /\ sum \in Registration /\ sum.count = removed.count + more
              /\ \A q \in Providers : sum.providers[q] =
                   IF q = p THEN removed.providers[q] + more ELSE removed.providers[q]
      BY <3>1, <3>3, AddEach, Z3
    <3> QED
      BY <3>2, <3>4
  <2>4. /\ (old - Excess(old, new)) + more = new
        /\ more + kept = new
        /\ new = 0 => more = 0
    BY <2>1 DEF Excess, Smaller
  <2>5. more \in Nat /\ kept \in Nat /\ old - Excess(old, new) \in Nat
    BY <1>2, <1>3
  <2> HIDE DEF removed, kept, more
  <2>6. /\ added.count = rest + new
        /\ \A q \in Providers : added.providers[q] = part[q] + IF q = p THEN more ELSE 0
    <3>1. added.count = (rest + (old - Excess(old, new))) + more
      BY <2>2, <2>3
    <3>2. added.count = rest + new
      BY <2>4, <2>5, <3>1
    <3>3. \A q \in Providers : part[q] \in Nat
      OBVIOUS
    <3> HIDE DEF added
    <3> QED
      BY <2>2, <2>3, <2>5, <3>2, <3>3
  <2> HIDE DEF added
  <2>7. new # 0 => /\ out \in Registration /\ out.count = added.count
                   /\ \A q \in Providers : out.providers[q] =
                        IF q = p THEN added.providers[q] + kept ELSE added.providers[q]
    <3> DEFINE next == Kept(added, c, p, kept)
    <3>1. /\ next \in Registration /\ next.count = added.count
          /\ \A q \in Providers :
               next.providers[q] = IF q = p THEN added.providers[q] + kept
                                            ELSE added.providers[q]
      <4>1. added \in Registration /\ kept \in Nat
        BY <2>3, <2>5
      <4> QED
        BY <4>1, KeptCounts
    <3>2. new # 0 => out = next
      BY DEF out
    <3> HIDE DEF next
    <3> QED
      BY <3>1, <3>2
  <2>8. new = 0 => out = added
    OBVIOUS
  <2> HIDE DEF out
  <2>9. \A q \in Providers : part[q] \in Nat
    OBVIOUS
  <2>10. out \in Registration /\ out.count = rest + new
    BY <2>3, <2>6, <2>7, <2>8
  <2>11. \A q \in Providers : out.providers[q] = part[q] + IF q = p THEN new ELSE 0
    <3> SUFFICES ASSUME NEW q \in Providers
                 PROVE  out.providers[q] = part[q] + IF q = p THEN new ELSE 0
      OBVIOUS
    <3>1. part[q] \in Nat /\ added.providers[q] = part[q] + IF q = p THEN more ELSE 0
      BY <2>6, <2>9
    <3>2. CASE new = 0
      BY <2>4, <2>8, <3>1, <3>2
    <3>3. CASE new # 0
      <4>1. out.providers[q] = IF q = p THEN added.providers[q] + kept ELSE added.providers[q]
        BY <2>7, <3>3
      <4> QED
        BY <2>4, <2>5, <3>1, <4>1
    <3> QED
      BY <3>2, <3>3
  <2> QED
    BY <1>1, <2>10, <2>11 DEF Counted
<1> QED
  BY <1>5, <1>6

-----------------------------------------------------------------------------
(***************************************************************************)
(* The counters stay the sums.                                             *)
(***************************************************************************)
RestOf(c, m) == Copies(clientModels, m, Clients \ {c})
PartOf(c, m) == [q \in Providers |-> Copies(clientModels, m, ServedBy(q) \ {c})]

LEMMA ClientSets ==
  ASSUME TypeOK, NEW c \in Clients, NEW m \in Models
  PROVE  /\ IsFiniteSet(Clients)
         /\ \A q \in Providers : /\ IsFiniteSet(ServedBy(q)) /\ ServedBy(q) \in SUBSET Clients
                                 /\ ServedBy(q) \ {c} \in SUBSET (Clients \ {c})
         /\ \A x \in Clients : clientModels[x][m] \in Nat
PROOF
<1>1. IsFiniteSet(Clients)
  BY RegistryAssumption
<1>2. ASSUME NEW q \in Providers
      PROVE  /\ ServedBy(q) \in SUBSET Clients
             /\ ServedBy(q) \ {c} \in SUBSET (Clients \ {c})
  BY DEF ServedBy
<1>3. \A q \in Providers : IsFiniteSet(ServedBy(q))
  BY <1>1, <1>2, FS_Subset
<1>4. ASSUME NEW x \in Clients PROVE clientModels[x][m] \in Nat
  <2>1. clientModels[x][m] \in 0..MaxCopies
    BY DEF TypeOK
  <2> QED
    BY <2>1, RegistryAssumption
<1> QED
  BY <1>1, <1>2, <1>3, <1>4

\* What the counters hold without one client.
LEMMA ClientShare ==
  ASSUME TypeOK, CountsExact, NEW c \in Clients, NEW m \in Models
  PROVE  /\ RestOf(c, m) \in Nat
         /\ PartOf(c, m) \in [Providers -> 0..RestOf(c, m)]
         /\ Counted(models[m], RestOf(c, m), PartOf(c, m),
                    clientProviders[c], clientModels[c][m])
PROOF
<1>1. /\ IsFiniteSet(Clients)
      /\ \A q \in Providers : /\ IsFiniteSet(ServedBy(q)) /\ ServedBy(q) \in SUBSET Clients
                              /\ ServedBy(q) \ {c} \in SUBSET (Clients \ {c})
      /\ \A x \in Clients : clientModels[x][m] \in Nat
  BY ClientSets
<1>2. IsFiniteSet(Clients \ {c}) /\ \A x \in Clients \ {c} : clientModels[x][m] \in Nat
  BY <1>1, FS_RemoveElement
<1>3. RestOf(c, m) \in Nat
  BY <1>2, CopiesStep DEF RestOf
<1>4. ASSUME NEW q \in Providers
      PROVE  /\ Copies(clientModels, m, ServedBy(q) \ {c}) \in 0..RestOf(c, m)
             /\ Copies(clientModels, m, ServedBy(q)) =
                  Copies(clientModels, m, ServedBy(q) \ {c})
                  + IF q = clientProviders[c] THEN clientModels[c][m] ELSE 0
  <2> DEFINE S == ServedBy(q)
  <2>1. /\ IsFiniteSet(S) /\ S \in SUBSET Clients /\ S \ {c} \in SUBSET (Clients \ {c})
        /\ \A x \in S : clientModels[x][m] \in Nat
        /\ \A x \in S \ {c} : clientModels[x][m] \in Nat
    BY <1>1
  <2>2. c \in S <=> q = clientProviders[c]
    BY DEF ServedBy
  <2> HIDE DEF S
  <2>3. IsFiniteSet(S \ {c})
    BY <2>1, FS_RemoveElement
  <2>4. Copies(clientModels, m, S \ {c}) \in Nat
    BY <2>1, <2>3, CopiesStep
  <2>5. Copies(clientModels, m, S \ {c}) <= RestOf(c, m)
    BY <1>2, <2>1, CopiesMonotone DEF RestOf
  <2>6. CASE c \in S
    <3>1. Copies(clientModels, m, S) = clientModels[c][m] + Copies(clientModels, m, S \ {c})
      BY <2>1, <2>6, CopiesRemove
    <3>2. clientModels[c][m] \in Nat
      BY <1>1
    <3> QED
      BY <1>3, <2>2, <2>4, <2>5, <2>6, <3>1, <3>2 DEF S
  <2>7. CASE c \notin S
    <3>1. S \ {c} = S
      BY <2>7
    <3> QED
      BY <1>3, <2>2, <2>4, <2>5, <2>7, <3>1 DEF S
  <2> QED
    BY <2>6, <2>7
<1>5. PartOf(c, m) \in [Providers -> 0..RestOf(c, m)]
  BY <1>4 DEF PartOf
<1>6. Copies(clientModels, m, Clients) = clientModels[c][m] + RestOf(c, m)
  BY <1>1, CopiesRemove DEF RestOf
<1>7. /\ models[m].count = Copies(clientModels, m, Clients)
      /\ \A q \in Providers : models[m].providers[q] = Copies(clientModels, m, ServedBy(q))
  BY DEF CountsExact, CopiesOf, Copies, ServedBy
<1>8. models[m].count = RestOf(c, m) + clientModels[c][m]
  <2>1. clientModels[c][m] \in Nat
    BY <1>1
  <2> QED
    BY <1>3, <1>6, <1>7, <2>1
<1>9. \A q \in Providers : PartOf(c, m)[q] = Copies(clientModels, m, ServedBy(q) \ {c})
  BY DEF PartOf
<1>10. \A q \in Providers : models[m].providers[q] =
         PartOf(c, m)[q] + IF q = clientProviders[c] THEN clientModels[c][m] ELSE 0
  BY <1>4, <1>7, <1>9
<1> QED
  BY <1>3, <1>5, <1>8, <1>10 DEF Counted

SumsHold ==
  \A m \in Models :
    /\ models[m].count = Copies(clientModels, m, Clients)
    /\ \A q \in Providers : models[m].providers[q] = Copies(clientModels, m, ServedBy(q))

LEMMA CountsAreSums == CountsExact <=> SumsHold
PROOF BY DEF CountsExact, SumsHold, CopiesOf, Copies, ServedBy

\* An operation on one client that counts that client right counts all right.
LEMMA Recount ==
  ASSUME TypeOK, CountsExact, NEW c \in Clients,
         NEW new \in [Models -> 0..MaxCopies], NEW p \in Providers \cup {NoProvider},
         clientModels' = [clientModels EXCEPT ![c] = new],
         clientProviders' = [clientProviders EXCEPT ![c] = p],
         \A m \in Models :
           Counted(models'[m], RestOf(c, m), PartOf(c, m), p, new[m])
  PROVE  CountsExact'
PROOF
<1>0. CountsExact' <=> SumsHold'
  BY CountsAreSums, PTL
<1> SUFFICES ASSUME NEW m \in Models
             PROVE  /\ models'[m].count = Copies(clientModels', m, Clients)
                    /\ \A q \in Providers :
                         models'[m].providers[q] = Copies(clientModels', m, ServedBy(q)')
  BY <1>0 DEF SumsHold
<1>1. /\ IsFiniteSet(Clients)
      /\ \A q \in Providers : /\ IsFiniteSet(ServedBy(q)) /\ ServedBy(q) \in SUBSET Clients
                              /\ ServedBy(q) \ {c} \in SUBSET (Clients \ {c})
      /\ \A x \in Clients : clientModels[x][m] \in Nat
  BY ClientSets
<1>2. new[m] \in Nat
  BY RegistryAssumption
<1> DEFINE v == clientModels'
<1>3. /\ v[c] = new
      /\ \A x \in Clients \ {c} : v[x] = clientModels[x]
      /\ clientProviders'[c] = p
      /\ \A x \in Clients \ {c} : clientProviders'[x] = clientProviders[x]
  BY DEF TypeOK
<1> HIDE DEF v
<1>4. \A x \in Clients : v[x][m] \in Nat
  BY <1>1, <1>2, <1>3
<1>5. /\ RestOf(c, m) \in Nat
      /\ PartOf(c, m) \in [Providers -> 0..RestOf(c, m)]
  BY ClientShare
<1>6. ASSUME NEW S \in SUBSET (Clients \ {c})
      PROVE  Copies(v, m, S) = Copies(clientModels, m, S)
  <2>1. IsFiniteSet(S)
    BY <1>1, FS_Subset
  <2>2. \A x \in S : clientModels[x][m] \in Nat /\ v[x][m] = clientModels[x][m]
    BY <1>1, <1>3
  <2> QED
    BY <2>1, <2>2, CopiesAgree
<1>7. models'[m].count = Copies(v, m, Clients)
  <2>1. Copies(v, m, Clients) =
          v[c][m] + Copies(v, m, Clients \ {c})
    BY <1>1, <1>4, CopiesRemove
  <2>2. Copies(v, m, Clients \ {c}) = RestOf(c, m)
    BY <1>6 DEF RestOf
  <2>3. models'[m].count = RestOf(c, m) + new[m]
    BY DEF Counted
  <2> QED
    BY <1>2, <1>3, <1>5, <2>1, <2>2, <2>3
<1>8. ASSUME NEW q \in Providers
      PROVE  models'[m].providers[q] = Copies(v, m, ServedBy(q)')
  <2> DEFINE S == ServedBy(q)'
  <2>1. /\ S \in SUBSET Clients /\ S \ {c} = ServedBy(q) \ {c}
        /\ c \in S <=> q = p
    BY <1>3 DEF ServedBy
  <2>2. /\ IsFiniteSet(S) /\ \A x \in S : v[x][m] \in Nat
        /\ ServedBy(q) \ {c} \in SUBSET (Clients \ {c})
    BY <1>1, <1>4, <2>1, FS_Subset
  <2> HIDE DEF S
  <2>3. Copies(v, m, S \ {c}) = PartOf(c, m)[q] /\ PartOf(c, m)[q] \in Nat
    <3>1. PartOf(c, m)[q] = Copies(clientModels, m, ServedBy(q) \ {c})
      BY DEF PartOf
    <3>2. Copies(v, m, ServedBy(q) \ {c}) = PartOf(c, m)[q]
      BY <1>6, <2>2, <3>1
    <3>3. PartOf(c, m)[q] \in 0..RestOf(c, m)
      BY <1>5
    <3>4. PartOf(c, m)[q] \in Nat
      BY <1>5, <3>3
    <3> QED
      BY <2>1, <3>2, <3>4
  <2>4. models'[m].providers[q] = PartOf(c, m)[q] + IF q = p THEN new[m] ELSE 0
    BY DEF Counted
  <2>5. CASE c \in S
    <3>1. Copies(v, m, S) =
            v[c][m] + Copies(v, m, S \ {c})
      BY <2>2, <2>5, CopiesRemove
    <3> QED
      BY <1>2, <1>3, <2>1, <2>3, <2>4, <2>5, <3>1 DEF S
  <2>6. CASE c \notin S
    <3>1. S \ {c} = S
      BY <2>6
    <3>2. models'[m].providers[q] = PartOf(c, m)[q] + 0
      <4>1. q # p
        BY <2>1, <2>6
      <4> QED
        BY <2>4, <4>1
    <3>3. models'[m].providers[q] = Copies(v, m, S)
      <4>1. Copies(v, m, S \ {c}) = Copies(v, m, S)
        BY <3>1
      <4>2. PartOf(c, m)[q] + 0 = PartOf(c, m)[q]
        BY <2>3
      <4> QED
        BY <2>3, <3>2, <4>1, <4>2
    <3> QED
      BY <3>3 DEF S
  <2> QED
    BY <2>5, <2>6
<1> QED
  BY <1>7, <1>8 DEF v

\* Operations on marks leave the counters alone.
LEMMA SameCounts ==
  ASSUME CountsExact, UNCHANGED <<clientModels, clientProviders>>,
         \A m \in Models : /\ models'[m].count = models[m].count
                           /\ models'[m].providers = models[m].providers
  PROVE  CountsExact'
PROOF
<1>1. CountsExact' <=> SumsHold'
  BY CountsAreSums, PTL
<1>2. SumsHold
  BY CountsAreSums
<1>3. clientModels' = clientModels /\ \A q \in Providers : ServedBy(q)' = ServedBy(q)
  BY DEF ServedBy
<1>4. SumsHold'
  BY <1>2, <1>3 DEF SumsHold
<1> QED
  BY <1>1, <1>4

LEMMA RegisterClientCounts ==
  ASSUME TypeOK, CountsExact, BoundHasProvider, NEW c \in Clients, NEW p \in Providers,
         NEW new \in [Models -> 0..MaxCopies], RegisterClient(c, p, new)
  PROVE  models' \in [Models -> Registration] /\ CountsExact'
PROOF
<1>1. models \in [Models -> Registration]
  BY DEF TypeOK, Registration
<1>2. ASSUME NEW m \in Models
      PROVE  /\ models'[m] \in Registration
             /\ Counted(models'[m], RestOf(c, m), PartOf(c, m), p, new[m])
  <2> DEFINE rest == RestOf(c, m)
             part == PartOf(c, m)
             reg  == models[m]
             old  == clientModels[c][m]
  <2>1. /\ rest \in Nat /\ part \in [Providers -> 0..rest] /\ reg \in Registration
        /\ Counted(reg, rest, part, clientProviders[c], old)
    BY <1>1, ClientShare
  <2>2. old \in Nat /\ new[m] \in Nat
    BY ClientSets, RegistryAssumption
  <2>3. CASE Bound(c)
    <3>1. clientProviders[c] \in Providers
      BY <2>3 DEF BoundHasProvider, TypeOK
    <3>2. models'[m] = Reregistered(reg, c, clientProviders[c], p, old, new[m])
      BY <2>3 DEF RegisterClient
    <3> DEFINE n == new[m]
    <3> HIDE DEF rest, part, reg, old, n
    <3>3. /\ Reregistered(reg, c, clientProviders[c], p, old, n) \in Registration
          /\ Counted(Reregistered(reg, c, clientProviders[c], p, old, n), rest, part, p, n)
      <4>1. n \in Nat
        BY <2>2 DEF n
      <4> QED
        BY <2>1, <2>2, <3>1, <4>1, ReregisteredCounts
    <3> QED
      BY <3>2, <3>3 DEF rest, part, n
  <2>4. CASE ~Bound(c)
    <3>1. old = 0
      BY <2>4 DEF Bound, NoModels
    <3>2. models'[m] = addModelRegistration(reg, p, new[m])
      BY <2>4 DEF RegisterClient
    <3> DEFINE n == new[m]
    <3> HIDE DEF rest, part, reg, old, n
    <3>3. Counted(reg, rest, part, p, 0)
      <4>1. \A q \in Providers : part[q] \in Nat
        BY <2>1
      <4> QED
        BY <2>1, <3>1, <4>1 DEF Counted
    <3>4. n \in Nat /\ 0 + n = n
      BY <2>2 DEF n
    <3>5. /\ addModelRegistration(reg, p, n) \in Registration
          /\ Counted(addModelRegistration(reg, p, n), rest, part, p, 0 + n)
      BY <2>1, <3>3, <3>4, AddCounts
    <3> QED
      BY <3>2, <3>4, <3>5 DEF rest, part, n
  <2> QED
    BY <2>3, <2>4
<1>3. models' \in [Models -> Registration]
  <2>1. models' = [m \in Models |-> models'[m]]
    BY DEF RegisterClient
  <2> QED
    BY <1>2, <2>1
<1>4. /\ clientModels' = [clientModels EXCEPT ![c] = new]
      /\ clientProviders' = [clientProviders EXCEPT ![c] = p]
      /\ p \in Providers \cup {NoProvider}
  BY DEF RegisterClient
<1>5. CountsExact'
  BY <1>2, <1>4, Recount
<1> QED
  BY <1>3, <1>5

LEMMA UnregisterClientCounts ==
  ASSUME TypeOK, CountsExact, BoundHasProvider, NEW c \in Clients, UnregisterClient(c)
  PROVE  models' \in [Models -> Registration] /\ CountsExact'
PROOF
<1>1. models \in [Models -> Registration]
  BY DEF TypeOK, Registration
<1>2. ASSUME NEW m \in Models
      PROVE  /\ models'[m] \in Registration
             /\ Counted(models'[m], RestOf(c, m), PartOf(c, m), NoProvider, NoModels[m])
  <2> DEFINE rest == RestOf(c, m)
             part == PartOf(c, m)
             reg  == models[m]
             old  == clientModels[c][m]
  <2>1. /\ rest \in Nat /\ part \in [Providers -> 0..rest] /\ reg \in Registration
        /\ Counted(reg, rest, part, clientProviders[c], old)
    BY <1>1, ClientShare
  <2>2. old \in Nat
    BY ClientSets
  <2>3. NoModels[m] = 0
    BY DEF NoModels
  <2>4. \A q \in Providers : part[q] \in Nat
    <3> HIDE DEF rest, part
    <3> QED
      BY <2>1
  <2>5. CASE Bound(c)
    <3>1. clientProviders[c] \in Providers
      BY <2>5 DEF BoundHasProvider, TypeOK
    <3>2. models'[m] = removeModelRegistration(reg, c, clientProviders[c], old)
      BY <2>5 DEF UnregisterClient
    <3> HIDE DEF rest, part, reg, old
    <3> DEFINE out == removeModelRegistration(reg, c, clientProviders[c], old)
    <3>3. out \in Registration /\ Counted(out, rest, part, clientProviders[c], old - old)
      <4>1. old \in 0..old
        BY <2>2
      <4> QED
        BY <2>1, <2>2, <3>1, <4>1, RemoveCounts
    <3>4. old - old = 0
      BY <2>2
    <3> HIDE DEF out
    <3>5. Counted(out, rest, part, NoProvider, 0)
      BY <2>4, <3>3, <3>4 DEF Counted
    <3> QED
      BY <2>3, <3>2, <3>3, <3>5 DEF rest, part, out
  <2>6. CASE ~Bound(c)
    <3>1. old = 0
      BY <2>6 DEF Bound, NoModels
    <3>2. models'[m] = reg
      BY <2>6 DEF UnregisterClient
    <3> HIDE DEF rest, part, reg, old
    <3>3. Counted(reg, rest, part, NoProvider, 0)
      BY <2>1, <2>4, <3>1 DEF Counted
    <3> QED
      BY <2>1, <2>3, <3>2, <3>3 DEF rest, part
  <2> QED
    BY <2>5, <2>6
<1>3. models' \in [Models -> Registration]
  <2>1. models' = [m \in Models |-> models'[m]]
    BY DEF UnregisterClient
  <2> QED
    BY <1>2, <2>1
<1>4. /\ clientModels' = [clientModels EXCEPT ![c] = NoModels]
      /\ clientProviders' = [clientProviders EXCEPT ![c] = NoProvider]
      /\ NoProvider \in Providers \cup {NoProvider}
      /\ NoModels \in [Models -> 0..MaxCopies]
  BY RegistryAssumption DEF UnregisterClient, NoModels
<1> DEFINE none == NoModels
<1> HIDE DEF none
<1>5. /\ none \in [Models -> 0..MaxCopies] /\ clientModels' = [clientModels EXCEPT ![c] = none]
      /\ \A m \in Models :
           Counted(models'[m], RestOf(c, m), PartOf(c, m), NoProvider, none[m])
  BY <1>2, <1>4 DEF none
<1>6. CountsExact'
  BY <1>4, <1>5, Recount
<1> QED
  BY <1>3, <1>6

\* The operations that change marks.
MarkStep(c, m) ==
  \/ SetModelQuotaExceeded(c, m) \/ ClearModelQuotaExceeded(c, m)
  \/ \E reason \in Reasons \ {"none"} : SuspendClientModel(c, m, reason)
  \/ ResumeClientModel(c, m)

LEMMA MarkStepCounts ==
  ASSUME TypeOK, CountsExact, NEW c \in Clients, NEW m \in Models, MarkStep(c, m)
  PROVE  models' \in [Models -> Registration] /\ CountsExact'
PROOF
<1>1. models \in [Models -> Registration] /\ now \in Nat
  BY DEF TypeOK, Registration
<1>2. ASSUME NEW t \in Nat, models' = [models EXCEPT ![m].exceeded[c] = t]
      PROVE  /\ models' \in [Models -> Registration]
             /\ \A k \in Models : /\ models'[k].count = models[k].count
                                  /\ models'[k].providers = models[k].providers
  BY <1>1, <1>2 DEF Registration
<1>3. ASSUME NEW reason \in Reasons, models' = [models EXCEPT ![m].suspended[c] = reason]
      PROVE  /\ models' \in [Models -> Registration]
             /\ \A k \in Models : /\ models'[k].count = models[k].count
                                  /\ models'[k].providers = models[k].providers
  BY <1>1, <1>3 DEF Registration
<1>4. UNCHANGED <<clientModels, clientProviders>>
  BY DEF MarkStep, SetModelQuotaExceeded, ClearModelQuotaExceeded, SuspendClientModel,
         ResumeClientModel
<1>5. \/ \E t \in Nat : models' = [models EXCEPT ![m].exceeded[c] = t]
      \/ \E reason \in Reasons : models' = [models EXCEPT ![m].suspended[c] = reason]
  BY <1>1 DEF MarkStep, SetModelQuotaExceeded, ClearModelQuotaExceeded, SuspendClientModel,
              ResumeClientModel, Never, Reasons
<1>6. /\ models' \in [Models -> Registration]
      /\ \A k \in Models : /\ models'[k].count = models[k].count
                           /\ models'[k].providers = models[k].providers
  BY <1>2, <1>3, <1>5
<1> QED
  BY <1>4, <1>6, SameCounts

LEMMA CleanupCounts ==
  ASSUME TypeOK, CountsExact, CleanupExpiredQuotas
  PROVE  models' \in [Models -> Registration] /\ CountsExact'
PROOF
<1>1. models \in [Models -> Registration] /\ now \in Nat
  BY DEF TypeOK, Registration
<1>2. ASSUME NEW m \in Models
      PROVE  /\ models'[m] \in Registration
             /\ models'[m].count = models[m].count
             /\ models'[m].providers = models[m].providers
  <2> DEFINE marks == [c \in Clients |-> IF Recovered(models[m].exceeded[c], now)
                                           THEN Never ELSE models[m].exceeded[c]]
  <2>1. models'[m] = [models[m] EXCEPT !.exceeded = marks]
    BY DEF CleanupExpiredQuotas
  <2>2. marks \in [Clients -> Nat]
    <3>1. \A c \in Clients : models[m].exceeded[c] \in Nat
      BY <1>1 DEF Registration
    <3> QED
      BY <3>1 DEF Never
  <2>3. models[m] \in Registration
    BY <1>1
  <2> HIDE DEF marks
  <2> QED
    BY <2>1, <2>2, <2>3 DEF Registration
<1>3. models' \in [Models -> Registration]
  <2>1. models' = [m \in Models |-> models'[m]]
    BY DEF CleanupExpiredQuotas
  <2> QED
    BY <1>2, <2>1
<1>4. UNCHANGED <<clientModels, clientProviders>>
  BY DEF CleanupExpiredQuotas
<1> QED
  BY <1>2, <1>3, <1>4, SameCounts

-----------------------------------------------------------------------------
(***************************************************************************)
(* The cached answer.                                                      *)
(***************************************************************************)
\* The clock may pass without changing an answer until a mark runs out.
LEMMA ListedStays ==
  ASSUME TypeOK, NEW t \in Nat, NEW u \in Nat, t <= u, NEW m \in Models,
         \A c \in Cooling(m, t) : u < models[m].exceeded[c] + QuotaWindow
  PROVE  Cooling(m, u) = Cooling(m, t) /\ (Listed(m, u) <=> Listed(m, t))
PROOF
<1>1. QuotaWindow \in Nat
  BY RegistryAssumption
<1>2. \A c \in Clients : models[m].exceeded[c] \in Nat
  BY DEF TypeOK
<1>3. ASSUME NEW c \in Clients PROVE c \in Cooling(m, u) <=> c \in Cooling(m, t)
  <2> DEFINE e == models[m].exceeded[c]
  <2>1. e \in Nat
    BY <1>2
  <2>2. /\ c \in Cooling(m, t) <=> e # Never /\ ~(t >= e + QuotaWindow)
        /\ c \in Cooling(m, u) <=> e # Never /\ ~(u >= e + QuotaWindow)
    BY DEF Cooling, Recovered
  <2>3. c \in Cooling(m, t) => u < e + QuotaWindow
    OBVIOUS
  <2> HIDE DEF e
  <2> QED
    BY <1>1, <2>1, <2>2, <2>3
<1>4. Cooling(m, u) = Cooling(m, t)
  BY <1>3 DEF Cooling
<1> QED
  BY <1>4 DEF Listed

LEMMA MinFacts ==
  ASSUME NEW S \in SUBSET Nat, S # {}
  PROVE  Min(S) \in S /\ \A x \in S : Min(S) <= x
PROOF
<1>1. PICK x \in S : \A y \in 0..x - 1 : y \notin S
  BY LeastNumber
<1>2. \A y \in S : x <= y
  BY <1>1
<1> QED
  BY <1>2 DEF Min

\* An answer computed for a reader is right until it expires, however late the
\* reader is.
LEMMA BuildFresh ==
  ASSUME TypeOK, NEW t \in Nat, t <= now,
         NEW answer, answer = buildAvailableModels(t),
         answer.expires = Never \/ now < answer.expires
  PROVE  /\ answer.listed = {m \in Models : Listed(m, now)}
         /\ \A m \in Models : \A c \in Cooling(m, now) :
              /\ answer.expires # Never
              /\ answer.expires <= models[m].exceeded[c] + QuotaWindow
PROOF
<1> DEFINE pairs == {y \in Models \X Clients : y[2] \in Cooling(y[1], t)}
           ends  == {CoolingEnd(x) : x \in pairs}
<1>1. answer = [valid |-> TRUE, listed |-> {m \in Models : Listed(m, t)},
                expires |-> IF ends = {} THEN Never ELSE Min(ends)]
  BY DEF buildAvailableModels
<1>2. QuotaWindow \in Nat /\ QuotaWindow > 0 /\ now \in Nat
  BY RegistryAssumption DEF TypeOK
<1>3. \A m \in Models : \A c \in Clients : models[m].exceeded[c] \in Nat
  BY DEF TypeOK
<1>4. ends \in SUBSET Nat /\ Never \notin ends
  <2> SUFFICES ASSUME NEW x \in pairs PROVE CoolingEnd(x) \in Nat /\ CoolingEnd(x) # Never
    OBVIOUS
  <2>1. x[1] \in Models /\ x[2] \in Clients
    OBVIOUS
  <2>2. models[x[1]].exceeded[x[2]] \in Nat
    BY <1>3, <2>1
  <2> QED
    BY <1>2, <2>2 DEF CoolingEnd, Never
<1>5. ASSUME NEW m \in Models, NEW c \in Cooling(m, t)
      PROVE  models[m].exceeded[c] + QuotaWindow \in ends
  <2>1. c \in Clients
    BY DEF Cooling
  <2>2. <<m, c>> \in pairs
    BY <2>1
  <2>3. CoolingEnd(<<m, c>>) = models[m].exceeded[c] + QuotaWindow
    BY DEF CoolingEnd
  <2> HIDE DEF pairs
  <2> QED
    BY <2>2, <2>3
<1> HIDE DEF ends
<1>6. ends # {} => Min(ends) \in ends /\ \A x \in ends : Min(ends) <= x
  <2>1. ends \in SUBSET Nat
    BY <1>4
  <2> QED
    BY <2>1, MinFacts
<1>7. answer.expires \in Nat
  <2>1. answer.expires = IF ends = {} THEN Never ELSE Min(ends)
    BY <1>1
  <2>2. ends # {} => Min(ends) \in Nat
    BY <1>4, <1>6
  <2> QED
    BY <2>1, <2>2 DEF Never
<1>8. \A x \in ends : answer.expires # Never /\ answer.expires <= x
  BY <1>1, <1>4, <1>6
<1>9. ASSUME NEW m \in Models
      PROVE  /\ Cooling(m, now) = Cooling(m, t) /\ (Listed(m, now) <=> Listed(m, t))
             /\ \A c \in Cooling(m, now) :
                  /\ answer.expires # Never
                  /\ answer.expires <= models[m].exceeded[c] + QuotaWindow
  <2>1. \A c \in Cooling(m, t) :
          /\ answer.expires # Never
          /\ answer.expires <= models[m].exceeded[c] + QuotaWindow
    BY <1>5, <1>8
  <2>2. ASSUME NEW c \in Cooling(m, t) PROVE now < models[m].exceeded[c] + QuotaWindow
    <3>1. models[m].exceeded[c] \in Nat
      BY <1>3 DEF Cooling
    <3>2. now < answer.expires /\ answer.expires <= models[m].exceeded[c] + QuotaWindow
      BY <2>1
    <3> QED
      BY <1>2, <1>7, <3>1, <3>2
  <2>3. Cooling(m, now) = Cooling(m, t) /\ (Listed(m, now) <=> Listed(m, t))
    BY <1>2, <2>2, ListedStays
  <2> QED
    BY <2>1, <2>3
<1>10. answer.listed = {m \in Models : Listed(m, now)}
  BY <1>1, <1>9
<1> QED
  BY <1>9, <1>10

LEMMA BuildType ==
  ASSUME TypeOK, NEW t \in Nat
  PROVE  buildAvailableModels(t) \in [valid : BOOLEAN, listed : SUBSET Models, expires : Nat]
PROOF
<1> DEFINE pairs == {y \in Models \X Clients : y[2] \in Cooling(y[1], t)}
           ends  == {CoolingEnd(x) : x \in pairs}
<1>1. buildAvailableModels(t) =
        [valid |-> TRUE, listed |-> {m \in Models : Listed(m, t)},
         expires |-> IF ends = {} THEN Never ELSE Min(ends)]
  BY DEF buildAvailableModels
<1>2. ends \in SUBSET Nat
  <2> SUFFICES ASSUME NEW x \in pairs PROVE CoolingEnd(x) \in Nat
    OBVIOUS
  <2>1. x[1] \in Models /\ x[2] \in Clients
    OBVIOUS
  <2>2. models[x[1]].exceeded[x[2]] \in Nat
    BY <2>1 DEF TypeOK
  <2> QED
    BY <2>2, RegistryAssumption DEF CoolingEnd
<1> HIDE DEF ends
<1>3. (IF ends = {} THEN Never ELSE Min(ends)) \in Nat
  BY <1>2, MinFacts DEF Never
<1> QED
  BY <1>1, <1>3

LEMMA NoCacheFresh ==
  ASSUME cache' = NoCache
  PROVE  /\ cache' \in [valid : BOOLEAN, listed : SUBSET Models, expires : Nat]
         /\ CacheFresh' /\ Covered'
PROOF BY DEF NoCache, Never, CacheFresh, Covered, Usable

-----------------------------------------------------------------------------
(***************************************************************************)
(* Invariance.                                                             *)
(***************************************************************************)
LEMMA InitIInv == Init => IInv
PROOF
<1> SUFFICES ASSUME Init PROVE IInv
  OBVIOUS
<1>1. NoModels \in [Models -> 0..MaxCopies]
  BY RegistryAssumption DEF NoModels
<1>2. TypeOK
  <2>1. models \in [Models -> Registration]
    BY NoRegistrationType DEF Init
  <2> QED
    BY <1>1, <2>1 DEF Init, TypeOK, Registration, NoCache, Never
<1>3. ASSUME NEW m \in Models, NEW S \in SUBSET Clients
      PROVE  Copies(clientModels, m, S) = 0
  <2>1. IsFiniteSet(S)
    BY RegistryAssumption, FS_Subset
  <2> DEFINE Bad == {k \in Nat : \E s \in SUBSET S : Cardinality(s) = k
                                                    /\ Copies(clientModels, m, s) # 0}
  <2>2. \A s \in SUBSET S : IsFiniteSet(s) /\ Cardinality(s) \in Nat
    BY <2>1, FS_Subset, FS_CardinalityType
  <2>3. \A x \in S : clientModels[x][m] = 0
    BY DEF Init, NoModels
  <2>4. Bad = {}
    <3> SUFFICES ASSUME Bad # {} PROVE FALSE
      OBVIOUS
    <3>1. PICK n \in Bad : \A k \in 0..n - 1 : k \notin Bad
      BY LeastNumber
    <3>2. PICK s \in SUBSET S : Cardinality(s) = n /\ Copies(clientModels, m, s) # 0
      BY <3>1
    <3>3. IsFiniteSet(s) /\ \A x \in s : clientModels[x][m] \in Nat
      BY <2>2, <2>3
    <3>4. s # {}
      BY <3>2, <3>3, CopiesStep
    <3>5. PICK a \in s : TRUE
      BY <3>4
    <3>6. Cardinality(s \ {a}) = n - 1 /\ s \ {a} \in SUBSET S /\ n - 1 \in Nat
      <4>1. Cardinality(s \ {a}) = Cardinality(s) - 1
        BY <3>3, FS_RemoveElement
      <4>2. s \ {a} \in SUBSET S
        OBVIOUS
      <4> QED
        BY <2>2, <3>2, <4>1, <4>2
    <3>7. n - 1 \in 0..n - 1
      BY <3>6
    <3>8. Copies(clientModels, m, s \ {a}) = 0
      BY <3>1, <3>6, <3>7
    <3>9. Copies(clientModels, m, s) = clientModels[a][m] + Copies(clientModels, m, s \ {a})
      BY <3>3, CopiesRemove
    <3> QED
      BY <2>3, <3>2, <3>8, <3>9
  <2>5. S \in SUBSET S
    OBVIOUS
  <2> QED
    BY <2>2, <2>4, <2>5
<1>4. CountsExact
  <2>1. \A q \in Providers : ServedBy(q) \in SUBSET Clients
    BY DEF ServedBy
  <2>2. SumsHold
    BY <1>3, <2>1 DEF SumsHold, Init, NoRegistration
  <2> QED
    BY <2>2, CountsAreSums
<1>5. BoundHasProvider
  BY DEF Init, BoundHasProvider, Bound
<1>6. ReadingsPast
  BY DEF Init, ReadingsPast, Never
<1>7. CacheFresh /\ Covered
  BY DEF Init, NoCache, CacheFresh, Covered, Usable
<1> QED
  BY <1>2, <1>4, <1>5, <1>6, <1>7 DEF IInv

\* The operations that change registrations or marks throw the answer away.
LEMMA ChangeStep ==
  ASSUME IInv, models' \in [Models -> Registration], CountsExact', cache' = NoCache,
         clientModels' \in [Clients -> [Models -> 0..MaxCopies]],
         clientProviders' \in [Clients -> Providers \cup {NoProvider}],
         BoundHasProvider', UNCHANGED <<reading, now>>
  PROVE  IInv'
PROOF
<1>1. cache' \in [valid : BOOLEAN, listed : SUBSET Models, expires : Nat]
      /\ CacheFresh' /\ Covered'
  BY NoCacheFresh
<1>2. TypeOK'
  BY <1>1 DEF IInv, TypeOK, Registration
<1>3. ReadingsPast'
  BY DEF IInv, ReadingsPast
<1> QED
  BY <1>1, <1>2, <1>3 DEF IInv

\* The operations that leave registrations and marks alone.
LEMMA QuietStep ==
  ASSUME IInv, UNCHANGED <<models, clientModels, clientProviders>>
  PROVE  CountsExact' /\ BoundHasProvider'
PROOF
<1>1. CountsExact'
  BY SameCounts DEF IInv
<1>2. BoundHasProvider'
  BY DEF IInv, BoundHasProvider, Bound
<1> QED
  BY <1>1, <1>2

LEMMA NextIInv == IInv /\ [Next]_vars => IInv'
PROOF
<1> SUFFICES ASSUME IInv, [Next]_vars PROVE IInv'
  OBVIOUS
<1>0. TypeOK /\ CountsExact /\ BoundHasProvider /\ ReadingsPast /\ CacheFresh /\ Covered
  BY DEF IInv
<1>a. /\ clientModels \in [Clients -> [Models -> 0..MaxCopies]]
      /\ clientProviders \in [Clients -> Providers \cup {NoProvider}]
      /\ reading \in [Readers -> Nat] /\ now \in Nat
  BY <1>0 DEF TypeOK
<1>1. ASSUME NEW c \in Clients, NEW p \in Providers, NEW new \in [Models -> 0..MaxCopies],
             RegisterClient(c, p, new)
      PROVE  IInv'
  <2>1. models' \in [Models -> Registration] /\ CountsExact'
    BY <1>0, <1>1, RegisterClientCounts
  <2>2. /\ new # NoModels /\ cache' = NoCache /\ UNCHANGED <<reading, now>>
        /\ clientModels' = [clientModels EXCEPT ![c] = new]
        /\ clientProviders' = [clientProviders EXCEPT ![c] = p]
    BY <1>1 DEF RegisterClient
  <2>3. /\ clientModels' \in [Clients -> [Models -> 0..MaxCopies]]
        /\ clientProviders' \in [Clients -> Providers \cup {NoProvider}]
    BY <1>a, <2>2
  <2>4. BoundHasProvider'
    BY <1>0, <1>a, <2>2, RegistryAssumption DEF BoundHasProvider, Bound, NoModels
  <2> QED
    BY <2>1, <2>2, <2>3, <2>4, ChangeStep
<1>2. ASSUME NEW c \in Clients, UnregisterClient(c)
      PROVE  IInv'
  <2>1. models' \in [Models -> Registration] /\ CountsExact'
    BY <1>0, <1>2, UnregisterClientCounts
  <2>2. /\ cache' = NoCache /\ UNCHANGED <<reading, now>>
        /\ clientModels' = [clientModels EXCEPT ![c] = NoModels]
        /\ clientProviders' = [clientProviders EXCEPT ![c] = NoProvider]
    BY <1>2 DEF UnregisterClient
  <2>3. /\ clientModels' \in [Clients -> [Models -> 0..MaxCopies]]
        /\ clientProviders' \in [Clients -> Providers \cup {NoProvider}]
    <3>1. NoModels \in [Models -> 0..MaxCopies]
      BY RegistryAssumption DEF NoModels
    <3> QED
      BY <1>a, <2>2, <3>1
  <2>4. BoundHasProvider'
    BY <1>0, <1>a, <2>2 DEF BoundHasProvider, Bound, NoModels
  <2> QED
    BY <2>1, <2>2, <2>3, <2>4, ChangeStep
<1>3. ASSUME NEW c \in Clients, NEW m \in Models, MarkStep(c, m)
      PROVE  IInv'
  <2>1. models' \in [Models -> Registration] /\ CountsExact'
    BY <1>0, <1>3, MarkStepCounts
  <2>2. cache' = NoCache /\ UNCHANGED <<clientModels, clientProviders, reading, now>>
    BY <1>3 DEF MarkStep, SetModelQuotaExceeded, ClearModelQuotaExceeded,
                SuspendClientModel, ResumeClientModel
  <2>3. BoundHasProvider'
    BY <1>0, <2>2 DEF BoundHasProvider, Bound, NoModels
  <2> QED
    BY <1>a, <2>1, <2>2, <2>3, ChangeStep
<1>4. ASSUME CleanupExpiredQuotas
      PROVE  IInv'
  <2>1. models' \in [Models -> Registration] /\ CountsExact'
    BY <1>0, <1>4, CleanupCounts
  <2>2. cache' = NoCache /\ UNCHANGED <<clientModels, clientProviders, reading, now>>
    BY <1>4 DEF CleanupExpiredQuotas
  <2>3. BoundHasProvider'
    BY <1>0, <2>2 DEF BoundHasProvider, Bound, NoModels
  <2> QED
    BY <1>a, <2>1, <2>2, <2>3, ChangeStep
<1>5. ASSUME NEW r \in Readers, ReadClock(r)
      PROVE  IInv'
  <2>1. /\ UNCHANGED <<models, clientModels, clientProviders, cache, now>>
        /\ reading' = [reading EXCEPT ![r] = now]
    BY <1>5 DEF ReadClock
  <2>2. TypeOK'
    BY <1>0, <1>a, <2>1 DEF TypeOK
  <2>3. ReadingsPast'
    BY <1>0, <1>a, <2>1 DEF ReadingsPast
  <2>4. CacheFresh' /\ Covered'
    BY <1>0, <2>1 DEF CacheFresh, Covered, MarksCovered, Usable, Listed, Cooling,
                      SuspendedFor, Registered
  <2> QED
    BY <2>1, <2>2, <2>3, <2>4, QuietStep DEF IInv
<1>6. ASSUME NEW r \in Readers, GetAvailableModels(r)
      PROVE  IInv'
  <2> DEFINE t == reading[r]
             answer == buildAvailableModels(t)
  <2>1. /\ UNCHANGED <<models, clientModels, clientProviders, now>>
        /\ reading' = [reading EXCEPT ![r] = Never]
        /\ cache' = IF Usable(t) THEN cache ELSE answer
    BY <1>6 DEF GetAvailableModels
  <2>2. t \in Nat /\ t <= now
    BY <1>0, <1>a DEF ReadingsPast
  <2>3. ReadingsPast'
    BY <1>0, <1>a, <2>1 DEF ReadingsPast, Never
  <2>4. reading' \in [Readers -> Nat]
    BY <1>a, <2>1 DEF Never
  <2>5. CASE Usable(t)
    <3>1. cache' = cache
      BY <2>1, <2>5
    <3>2. CacheFresh' /\ Covered'
      BY <1>0, <2>1, <3>1 DEF CacheFresh, Covered, MarksCovered, Usable, Listed, Cooling,
                              SuspendedFor, Registered
    <3>3. TypeOK'
      BY <1>0, <2>1, <2>4, <3>1 DEF TypeOK
    <3> QED
      BY <2>1, <2>3, <3>2, <3>3, QuietStep DEF IInv
  <2>6. CASE ~Usable(t)
    <3>1. cache' = answer
      BY <2>1, <2>6
    <3> HIDE DEF t
    <3>2. answer.expires = Never \/ now < answer.expires =>
            /\ answer.listed = {m \in Models : Listed(m, now)}
            /\ \A m \in Models : \A c \in Cooling(m, now) :
                 /\ answer.expires # Never
                 /\ answer.expires <= models[m].exceeded[c] + QuotaWindow
      BY <1>0, <2>2, BuildFresh
    <3>3. answer \in [valid : BOOLEAN, listed : SUBSET Models, expires : Nat]
      BY <1>0, <2>2, BuildType
    <3> HIDE DEF answer
    <3>4. TypeOK'
      BY <1>0, <2>1, <2>4, <3>1, <3>3 DEF TypeOK
    <3>5. CacheFresh' /\ Covered'
      BY <2>1, <3>1, <3>2 DEF CacheFresh, Covered, MarksCovered, Usable, Listed, Cooling,
                              SuspendedFor, Registered
    <3> QED
      BY <2>1, <2>3, <3>4, <3>5, QuietStep DEF IInv
  <2> QED
    BY <2>5, <2>6
<1>7. ASSUME Tick
      PROVE  IInv'
  <2>1. /\ UNCHANGED <<models, clientModels, clientProviders, cache, reading>>
        /\ now' = now + 1
    BY <1>7 DEF Tick
  <2>2. TypeOK'
    BY <1>0, <1>a, <2>1 DEF TypeOK
  <2>3. ReadingsPast'
    BY <1>0, <1>a, <2>1 DEF ReadingsPast
  <2>4. cache.expires \in Nat /\ QuotaWindow \in Nat
    BY <1>0, RegistryAssumption DEF TypeOK
  <2>5. ASSUME Usable(now)'
        PROVE  /\ Usable(now)
               /\ \A m \in Models : /\ Cooling(m, now') = Cooling(m, now)
                                    /\ Listed(m, now') <=> Listed(m, now)
    <3>1. cache.valid /\ (cache.expires = Never \/ now + 1 < cache.expires)
      BY <2>1, <2>5 DEF Usable
    <3>2. Usable(now)
      BY <1>a, <2>4, <3>1 DEF Usable
    <3>3. ASSUME NEW m \in Models, NEW c \in Cooling(m, now)
          PROVE  now + 1 < models[m].exceeded[c] + QuotaWindow
      <4>1. cache.expires # Never /\ cache.expires <= models[m].exceeded[c] + QuotaWindow
        BY <1>0, <3>2 DEF Covered, MarksCovered
      <4>2. models[m].exceeded[c] \in Nat
        BY <1>0 DEF TypeOK, Cooling
      <4> QED
        BY <1>a, <2>4, <3>1, <4>1, <4>2
    <3>4. now + 1 \in Nat /\ now <= now + 1
      BY <1>a
    <3>5. \A m \in Models : /\ Cooling(m, now + 1) = Cooling(m, now)
                            /\ Listed(m, now + 1) <=> Listed(m, now)
      BY <1>0, <1>a, <3>3, <3>4, ListedStays
    <3> QED
      BY <2>1, <3>2, <3>5
  <2>6. \A m \in Models : /\ Cooling(m, now)' = Cooling(m, now')
                          /\ Listed(m, now)' <=> Listed(m, now')
    BY <2>1 DEF Listed, Cooling, SuspendedFor, Registered
  <2>7. CacheFresh'
    BY <1>0, <2>1, <2>5, <2>6 DEF CacheFresh
  <2>8. Covered'
    BY <1>0, <2>1, <2>5, <2>6 DEF Covered, MarksCovered
  <2> QED
    BY <2>1, <2>2, <2>3, <2>7, <2>8, QuietStep DEF IInv
<1>8. CASE UNCHANGED vars
  <2>1. UNCHANGED <<models, clientModels, clientProviders, cache, reading, now>>
    BY <1>8 DEF vars
  <2>2. TypeOK' /\ ReadingsPast'
    BY <1>0, <2>1 DEF TypeOK, ReadingsPast
  <2>3. CacheFresh' /\ Covered'
    BY <1>0, <2>1 DEF CacheFresh, Covered, MarksCovered, Usable, Listed, Cooling,
                      SuspendedFor, Registered
  <2> QED
    BY <2>1, <2>2, <2>3, QuietStep DEF IInv
<1> QED
  BY <1>1, <1>2, <1>3, <1>4, <1>5, <1>6, <1>7, <1>8 DEF Next, ClientStep, MarkStep

\* Every value the registry keeps has its type.
THEOREM TypeCorrect == Spec => []TypeOK
PROOF
<1>1. IInv => TypeOK
  BY DEF IInv
<1> QED
  BY InitIInv, NextIInv, <1>1, PTL DEF Spec

\* However clients register, register again under another provider with other
\* models, and leave: each model's count and each provider's share of it are
\* the sums over the clients now registered.
THEOREM CountersAreExact == Spec => []CountsExact
PROOF
<1>1. IInv => CountsExact
  BY DEF IInv
<1> QED
  BY InitIInv, NextIInv, <1>1, PTL DEF Spec

\* A listing answered from the cache is the listing that would be computed,
\* also when a slow reader with an old clock computed the cached one.
THEOREM CacheIsFresh == Spec => []CacheFresh
PROOF
<1>1. IInv => CacheFresh
  BY DEF IInv
<1> QED
  BY InitIInv, NextIInv, <1>1, PTL DEF Spec
=============================================================================
