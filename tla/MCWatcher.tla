----------------------------- MODULE MCWatcher -----------------------------
EXTENDS Watcher
CONSTANTS file, one, two, account, project, key, session, r1, r2

GivesOf == [c \in {one, two} |-> IF c = one THEN {account} ELSE {account, project}]

Config(entry, excluded, prefix) ==
  [keys |-> [k \in {key} |-> entry], excluded |-> excluded, prefix |-> prefix]

(* With the key; without it, and with models excluded; and with a prefix.  *)
SomeConfigs == {Config(one, FALSE, FALSE), Config(None, TRUE, FALSE), Config(one, FALSE, TRUE)}

Plan(f, c, s) == [files |-> f, configs |-> c, sessions |-> s, started |-> TRUE]
StartUp(f, c, s) == [files |-> f, configs |-> c, sessions |-> s, started |-> FALSE]

(* A file changed three times; a file and the configuration; a connection  *)
(* with either; the configuration twice; and changes during the start.     *)
MixedPlans == {Plan(3, 0, 0), Plan(1, 1, 0), Plan(1, 0, 1), Plan(0, 1, 1), Plan(0, 2, 0),
               StartUp(2, 0, 0)}
ConfigPlans == {Plan(0, 2, 0)}
=============================================================================
