--------------------------- MODULE MCRefreshLoop ---------------------------
EXTENDS RefreshLoop
CONSTANTS a1, a2, w1, updater

\* One credential refreshed at an interval, one ahead of its expiry.
MCInterval == [a \in Auths |-> IF a = a1 THEN 1 ELSE 0]
MCLead == [a \in Auths |-> IF a = a1 THEN 0 ELSE 1]

Untouched(a) == ~Known(a) /\ \A p \in Updaters : op[p].auth # a

\* One credential over a longer time, or two that compete for the loop and
\* the jobs channel, of which a1 expires late.
Lasting(a) == Known(a) => auths[a].expiry > 2
Within ==
  \/ Untouched(a2) /\ updates <= 1
  \/ now <= 1 /\ results = 0 /\ Lasting(a1)
=============================================================================
