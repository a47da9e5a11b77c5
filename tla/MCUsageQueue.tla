---------------------------- MODULE MCUsageQueue ----------------------------
EXTENDS UsageQueue
CONSTANTS dispatcher, reader, forwarder, toggle1, toggle2, s1

(* Readers, the forwarder and a clock that runs: the order of payloads.    *)
Ordering == [active |-> {dispatcher, reader, forwarder}, payloads |-> 3, time |-> 3, toggles |-> 0]

(* Switches and a subscriber while payloads come and go: the channels.     *)
Switching == [active |-> {dispatcher, forwarder, toggle1, toggle2, s1},
              payloads |-> 3, time |-> 1, toggles |-> 2]

Both == {Ordering, Switching}

(* One payload at most is stored by home in a push that fails.             *)
Within == Cardinality({x \in Payloads : answered[x].failed > 0}) <= 1
=============================================================================
