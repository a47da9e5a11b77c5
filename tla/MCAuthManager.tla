--------------------------- MODULE MCAuthManager ---------------------------
EXTENDS AuthManager, TLC
CONSTANTS a1, m1, m2, r1, r2, consumer, updater, refresher

\* Two requests, a retried pick and the consumer: what the scheduler is told,
\* by many of them, or by fewer over a longer time.
ManyPublishers == [active |-> {r1, r2, consumer}, models |-> {m1}, delays |-> {},
                   programs |-> 4, time |-> 1]
LongerTime == [ManyPublishers EXCEPT !.delays = {2}, !.programs = 3, !.time = 2]

\* A request against the catalog callback and a token refresh: what the
\* states of two models become.
States == [active |-> {r1, consumer, updater, refresher}, models |-> {m1, m2},
           delays |-> {0}, programs |-> 3, time |-> 2]

All == {ManyPublishers, LongerTime, States}
Updating == {[States EXCEPT !.active = {consumer, updater}, !.time = 1]}

RequestSymmetry == Permutations(Requests)
=============================================================================
