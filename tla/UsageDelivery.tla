--------------------------- MODULE UsageDelivery ---------------------------
(***************************************************************************)
(* What the usage manager promises the rest of the program: a record it    *)
(* accepts is delivered, once and in the order of acceptance, also when    *)
(* the manager is stopped before it gets there; after the stop it accepts  *)
(* no more.                                                                *)
(***************************************************************************)
EXTENDS Naturals, Sequences

CONSTANT Records

VARIABLES
  accepted,   \* the records accepted so far, in order
  delivered,  \* how many of them have been delivered
  stopped

vars == <<accepted, delivered, stopped>>

Init == accepted = <<>> /\ delivered = 0 /\ stopped = FALSE

Accept(r) ==
  /\ ~stopped
  /\ accepted' = Append(accepted, r)
  /\ UNCHANGED <<delivered, stopped>>

Deliver ==
  /\ delivered < Len(accepted)
  /\ delivered' = delivered + 1
  /\ UNCHANGED <<accepted, stopped>>

Stop ==
  /\ ~stopped
  /\ stopped' = TRUE
  /\ UNCHANGED <<accepted, delivered>>

Next == (\E r \in Records : Accept(r)) \/ Deliver \/ Stop

Spec == Init /\ [][Next]_vars /\ WF_vars(Deliver)
=============================================================================
