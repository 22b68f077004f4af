---------------------------- MODULE MCAlgServer ----------------------------
(* Small instances of AlgServer.                                            *)
EXTENDS AlgServer

CONSTANTS a1, a2, a3

OwnName == [x \in Algs |-> x]
Flat == [x \in Algs |-> {}]
Once == [x \in Algs |-> 1]

\* a3 depends on the others; registrations at any time; a1 may die.
Dependent == [name |-> OwnName, deps |-> [Flat EXCEPT ![a3] = {a1, a2}], starts |-> Once,
              mortal |-> {a1}, between |-> FALSE]

\* No dependencies; a1 may die and be started again, between batches.
Restarting == [name |-> OwnName, deps |-> Flat, starts |-> [Once EXCEPT ![a1] = 2],
               mortal |-> {a1}, between |-> TRUE]

\* a2 depends on a1; a3 depends on nobody and may come after it, between batches.
Cutting == [name |-> OwnName, deps |-> [Flat EXCEPT ![a2] = {a1}],
            starts |-> [Once EXCEPT ![a2] = 2], mortal |-> {a2}, between |-> TRUE]

\* Three processes register one name, at once or after another's death.
OneName == [name |-> [x \in Algs |-> a1], deps |-> Flat, starts |-> Once,
            mortal |-> {a1}, between |-> TRUE]

RoundScenarios == {Dependent, Restarting, Cutting, OneName}
=============================================================================
