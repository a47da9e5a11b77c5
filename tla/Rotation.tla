------------------------------ MODULE Rotation ------------------------------
(***************************************************************************)
(* The indexes of the credential scheduler (sdk/cliproxy/auth/scheduler.go) *)
(* for one model, and how they choose a credential: by priority, then by   *)
(* turns, between the providers of a request, between the parents of       *)
(* virtual credentials, and between credentials.  All of it runs under the *)
(* scheduler's mutex, so a choice is one operator here.                    *)
(*                                                                         *)
(* A cursor counts from zero, may stand one past the end, and is kept      *)
(* across a rebuild of the indexes by its position.                        *)
(***************************************************************************)
EXTENDS Integers, SequencesExt

CONSTANTS
  Auths,       \* credential identifiers: numbers, for their order
  Providers,
  ProviderOf,  \* the provider of each credential
  Priority,    \* the priority of each credential
  Parent       \* the virtual parent of each credential, 0 if it has none

ASSUME RotationAssumption ==
  /\ Auths \subseteq Nat /\ IsFiniteSet(Auths)
  /\ ProviderOf \in [Auths -> Providers]
  /\ Priority \in [Auths -> Nat] /\ Parent \in [Auths -> Nat]

Priorities == {Priority[a] : a \in Auths}
Parents == {Parent[a] : a \in Auths}

-----------------------------------------------------------------------------
(***************************************************************************)
(* A bucket: the ready credentials of one provider and priority, in order  *)
(* of their identifiers.  It is rotated by parent when each has a parent   *)
(* and there are several.                                                  *)
(***************************************************************************)
Ordered(set) ==
  CHOOSE seq \in [1..Cardinality(set) -> set] :
    \A i, j \in 1..Cardinality(set) : i < j => seq[i] < seq[j]

Bucket(ready, p, priority) == {a \in ready : ProviderOf[a] = p /\ Priority[a] = priority}

ParentsOf(bucket) == {Parent[a] : a \in bucket}
Grouped(bucket) == 0 \notin ParentsOf(bucket) /\ Cardinality(ParentsOf(bucket)) > 1
Children(bucket, parent) == {a \in bucket : Parent[a] = parent}

FreshView == [cursor |-> 0, parent |-> 0, child |-> [q \in Parents |-> 0]]

\* Where a search that starts at the cursor finds a wanted member of a
\* sequence, if it has one.
Found(seq, cursor, wanted) ==
  LET n       == Len(seq)
      Index(offset) == (cursor + offset) % n
      offsets == {o \in 0..(n - 1) : seq[Index(o) + 1] \in wanted}
  IN  Index(Min(offsets))

\* pickFirst.
PickFirst(bucket, eligible) == Min(bucket \cap eligible)

\* pickRoundRobin and pickGroupedRoundRobin: the credential taken and the
\* view's new cursors.
\* Bug: the cursor stays on the credential that was taken.
PickRoundRobinStuck(bucket, view, eligible) ==
  LET order == Ordered(bucket)
      i     == Found(order, view.cursor, eligible)
  IN  [auth |-> order[i + 1], view |-> [view EXCEPT !.cursor = i]]

PickRoundRobin(bucket, view, eligible) ==
  IF ~Grouped(bucket)
    THEN LET order == Ordered(bucket)
             i     == Found(order, view.cursor, eligible)
         IN  [auth |-> order[i + 1], view |-> [view EXCEPT !.cursor = i + 1]]
    ELSE LET parents  == Ordered(ParentsOf(bucket))
             wanted   == {q \in ParentsOf(bucket) : Children(bucket, q) \cap eligible # {}}
             j        == Found(parents, view.parent, wanted)
             q        == parents[j + 1]
             children == Ordered(Children(bucket, q))
             i        == Found(children, view.child[q], eligible)
         IN  [auth |-> children[i + 1],
              view |-> [view EXCEPT !.parent = j + 1, !.child[q] = i + 1]]

\* Bug: the cursors of the former bucket are kept as they are.
RestoredAsIs(view, bucket) == view

\* restoreReadyViewCursors, for a bucket that was there before.
Restored(view, bucket) ==
  [cursor |-> view.cursor % Cardinality(bucket),
   parent |-> IF Grouped(bucket) THEN view.parent % Cardinality(ParentsOf(bucket)) ELSE 0,
   child  |-> [q \in Parents |->
     IF Grouped(bucket) /\ q \in ParentsOf(bucket)
       THEN view.child[q] % Cardinality(Children(bucket, q)) ELSE 0]]

\* rebuildIndexesLocked of a provider's shard, whose ready credentials were old
\* and are now new.
Rebuilt(shard, old, new, p) ==
  [priority \in Priorities |->
     IF Bucket(old, p, priority) = {} \/ Bucket(new, p, priority) = {} THEN FreshView
     ELSE Restored(shard[priority], Bucket(new, p, priority))]

-----------------------------------------------------------------------------
(***************************************************************************)
(* pickSingle and pickMixed.  list is the sequence of the request's        *)
(* providers, eligible the credentials it has not tried, slot the cursor   *)
(* between the providers.                                                  *)
(***************************************************************************)
OfProviders(set, list) == {a \in set : ProviderOf[a] \in ToSet(list)}

\* highestReadyPriorityLocked, over the request's providers.
Best(candidates) == Max({Priority[a] : a \in candidates})

\* Bug: the slot stays where it was.
TurnKept(ready, list, eligible, best, slot) ==
  [provider |-> list[Found(list, slot % Len(list),
     {p \in Providers : Bucket(ready, p, best) \cap eligible # {}}) + 1],
   slot |-> slot]

\* The provider whose turn it is: each has a segment of as many slots as it
\* has ready credentials, tried ones included, after those of the providers
\* before it.  If all of its credentials are tried, the next provider that has
\* one takes the first slot of its own.
Turn(ready, list, eligible, best, slot) ==
  LET Weight(i) == Cardinality(Bucket(ready, list[i], best))
      First(i)  == Cardinality({a \in ready : /\ Priority[a] = best
                                              /\ \E j \in 1..(i - 1) : ProviderOf[a] = list[j]})
      total     == First(Len(list) + 1)
      at        == slot % total
      start     == CHOOSE i \in DOMAIN list : First(i) <= at /\ at < First(i) + Weight(i)
      can       == {list[i] : i \in {j \in DOMAIN list :
                      Bucket(ready, list[j], best) \cap eligible # {}}}
      i         == Found(list, start - 1, can) + 1
  IN  [provider |-> list[i], slot |-> (IF i = start THEN at ELSE First(i)) + 1]

\* One choice: the credential, the views and the slot after it.
RoundRobin(ready, views, list, eligible, slot) ==
  LET best == Best(OfProviders(ready \cap eligible, list))
      turn == IF Len(list) = 1 THEN [provider |-> list[1], slot |-> slot]
              ELSE Turn(ready, list, eligible, best, slot)
      p    == turn.provider
      got  == PickRoundRobin(Bucket(ready, p, best), views[p][best], eligible)
  IN  [auth |-> got.auth, views |-> [views EXCEPT ![p][best] = got.view], slot |-> turn.slot]

FillFirst(ready, views, list, eligible, slot) ==
  LET best == Best(OfProviders(ready \cap eligible, list))
      can  == {p \in Providers : Bucket(ready, p, best) \cap eligible # {}}
      p    == list[Found(list, 0, can) + 1]
  IN  [auth |-> PickFirst(Bucket(ready, p, best), eligible), views |-> views, slot |-> slot]
=============================================================================
