----------------------------- MODULE MCEvalReport ------------------------------
(***************************************************************************)
(* EvalReport for TLC: three jobs and two workers.                         *)
(***************************************************************************)
EXTENDS EvalReport, TLC

CONSTANTS j1, j2, j3, w1, w2

ThreeJobs == {j1, j2, j3}
TwoWorkers == {w1, w2}
Alike == Permutations(ThreeJobs) \cup Permutations(TwoWorkers)
===============================================================================
