----------------------------- MODULE FifoQueue -----------------------------
(***************************************************************************)
(* A queue that hands out its entries from the front: what the usage queue *)
(* promises its readers.  Entries leave in the order in which they came,   *)
(* those at the front may be dropped unread, and the whole queue may be    *)
(* cleared.                                                                *)
(***************************************************************************)
EXTENDS Naturals, Sequences

CONSTANT Entries
VARIABLES
  pending,  \* the entries, oldest first
  batch     \* what the last reader was given

vars == <<pending, batch>>

Init == pending = <<>> /\ batch = <<>>

Rest(n) == SubSeq(pending, n + 1, Len(pending))

Enqueue == \E e \in Entries, n \in 0..Len(pending) :
  pending' = Append(Rest(n), e) /\ UNCHANGED batch

Pop == \E n \in 0..Len(pending) : \E k \in 0..Len(pending) - n :
  /\ batch' = SubSeq(pending, n + 1, n + k)
  /\ pending' = Rest(n + k)

Clear == pending' = <<>> /\ UNCHANGED batch

Next == Enqueue \/ Pop \/ Clear
Spec == Init /\ [][Next]_vars
=============================================================================
