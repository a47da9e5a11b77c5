----------------------------- MODULE MCWsRelay -----------------------------
EXTENDS WsRelay
CONSTANTS s1, s2, p1, r1, r2

\* Both sessions go by one name: the second replaces the first.
MCProvider == [s \in Sessions |-> p1]

Unused(r) == op[r] = IdleOp
AllSent(n) == sent[r1].count + sent[r2].count <= n

\* One session: one request with three messages, or with two and a caller
\* that may leave, or a request of Stream with two, or two requests that
\* nobody cancels.  Stop, with a request, or with two sessions one of which
\* replaces the other.
Within ==
  \/ /\ handler[s2] = "new" /\ stopping = <<>>
     /\ \/ Unused(r2) /\ (AllSent(2) \/ canceled = {})
        \/ Unused(r1) /\ AllSent(2)
        \/ AllSent(1) /\ canceled = {}
  \/ Unused(r2) /\ AllSent(0) /\ (handler[s2] = "new" \/ Unused(r1))
=============================================================================
