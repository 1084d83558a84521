----------------------------- MODULE ClusterParams ----------------------------
(***************************************************************************)
(* The parameters that the modules of the edge cluster share.              *)
(*                                                                         *)
(* A member of Jobs is one accepted POST /api/jobs. Its task id is IdOf:   *)
(* addJob draws the id from the clock modulo 10^8 ns, so two jobs may get  *)
(* the same one.                                                           *)
(***************************************************************************)
EXTENDS Integers, FiniteSets

CONSTANTS Workers,    \* names of the worker nodes
          Jobs,       \* accepted job requests
          Ids,        \* task ids
          IdOf,       \* IdOf[j]: the task id addJob gives to j
          Mem,        \* Mem[j]: the job's memory_usage
          Limit,      \* Limit[w]: the worker's MEMORY_LIMIT
          NoWorker,   \* "" in a record's assigned_to
          NoJob,      \* nil *shared.Task; the tag current_task_id = ""
          NoTags      \* no tags: nothing published, or nothing to publish

ASSUME IdAssumption == IdOf \in [Jobs -> Ids]
ASSUME MemAssumption == Mem \in [Jobs -> Nat]
ASSUME LimitAssumption == Limit \in [Workers -> Nat \ {0}]
ASSUME NoWorkerAssumption == NoWorker \notin Workers
ASSUME NoJobAssumption ==
    NoJob \notin Jobs /\ NoTags \notin Jobs /\ NoJob # NoTags
===============================================================================
