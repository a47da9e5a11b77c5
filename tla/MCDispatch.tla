----------------------------- MODULE MCDispatch -----------------------------
EXTENDS Dispatch
CONSTANTS p1, p2, single, mixed

\* Three credentials of two parents at p1, one at p2, and one at p2 of a lower
\* priority.
MCProviderOf == [a \in Auths |-> IF a <= 3 THEN p1 ELSE p2]
MCPriority == [a \in Auths |-> IF a = 5 THEN 0 ELSE 1]
MCParent == [a \in Auths |-> CASE a \in {1, 2} -> 1 [] a = 3 -> 2 [] OTHER -> 0]

MCList == [r \in Requests |-> IF r = single THEN <<p1>> ELSE <<p1, p2>>]
MCCooldown == [k \in Kinds |-> CASE k = "limited" -> 1
                                 [] k \in {"transient", "missing"} -> 2
                                 [] OTHER -> 0]
MCRetry == [a \in Auths |-> IF a \in {1, 4} THEN 1 ELSE 0]

Fleet(auths, requests, kinds, strategy, limit, restarts) ==
  [auths |-> auths, requests |-> requests, kinds |-> kinds, strategy |-> strategy,
   limit |-> limit, restarts |-> restarts]

\* One request at a time over a grouped bucket; over two providers; over two
\* priorities; a stream and all its failures; two requests that compete for
\* two providers, and within a bucket.
MCFleets ==
  {Fleet({1, 2, 3}, {single}, {"limited", "other"}, "round-robin", 2, 0),
   Fleet({1, 2, 4}, {mixed}, {"limited"}, "round-robin", 0, 1),
   Fleet({1, 4, 5}, {mixed}, {"limited"}, "fill-first", 0, 1),
   Fleet({1, 5}, {mixed}, Kinds, "round-robin", 0, 1),
   Fleet({1, 4}, {single, mixed}, {"limited"}, "round-robin", 0, 0),
   Fleet({1, 2}, {single, mixed}, {"other"}, "round-robin", 0, 0)}
=============================================================================
