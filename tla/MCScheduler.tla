---------------------------- MODULE MCScheduler ------------------------------
(***************************************************************************)
(* Scheduler for TLC: a fast worker and slower ones, two types of tasks,   *)
(* the second of which does not fit the fast worker.                       *)
(***************************************************************************)
EXTENDS Scheduler, TLC

CONSTANTS w1, w2, w3

TwoWorkers == {w1, w2}
ThreeWorkers == {w1, w2, w3}
OneType == {1}
TwoTypes == {1, 2}

Default == {"PSO_ACO_GA"}
GreedyOrDefault == {"Greedy", "PSO_ACO_GA"}

Speeds == [x \in Types \X Workers |-> IF x[2] = w1 THEN 1 ELSE 2]
Even == [x \in Types \X Workers |-> 1]
AllFit == [t \in Types |-> Workers]
SecondTypeIsLarge == [t \in Types |-> IF t = 1 THEN Workers ELSE Workers \ {w1}]
===============================================================================
