---------------------------- MODULE MCSupervisor -----------------------------
(***************************************************************************)
(* Supervisor for TLC: a worker gets a task of every kind, in any order.   *)
(***************************************************************************)
EXTENDS Supervisor, TLC

CONSTANTS camera, file, simulated

EveryKind == {camera, file, simulated}
KindByName == camera :> "camera" @@ file :> "file" @@ simulated :> "simulated"
===============================================================================
