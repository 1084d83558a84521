------------------------------ MODULE JobService ------------------------------
(***************************************************************************)
(* What the edge cluster promises to somebody who posts a job, without     *)
(* queues, tags, requests or processes: a posted job waits, is handed out  *)
(* to at most one worker, once, and from then on it is over for good, be   *)
(* it because it was executed, withdrawn, or lost with the worker.         *)
(* HttpDispatch implements this service.                                   *)
(***************************************************************************)
CONSTANTS Jobs, Workers,
          NoWorker    \* the holder of a job that no worker holds

VARIABLES stage,    \* stage[j]: how far job j has come
          holder    \* holder[j]: the worker that holds j, while one does

serviceVars == <<stage, holder>>

Stages == {"unposted", "waiting", "held", "over"}

ServiceTypeOK ==
    /\ stage \in [Jobs -> Stages]
    /\ holder \in [Jobs -> Workers \cup {NoWorker}]

ServiceInit ==
    /\ stage = [j \in Jobs |-> "unposted"]
    /\ holder = [j \in Jobs |-> NoWorker]

\* A client posts j.
Post(j) ==
    /\ stage[j] = "unposted"
    /\ stage' = [stage EXCEPT ![j] = "waiting"]
    /\ UNCHANGED holder

\* j is handed to w.
HandOver(j, w) ==
    /\ stage[j] = "waiting"
    /\ stage' = [stage EXCEPT ![j] = "held"]
    /\ holder' = [holder EXCEPT ![j] = w]

\* j is taken off the waiting jobs but never reaches anybody: it was withdrawn
\* by a client, or the answer that handed it over got lost.
Drop(j) ==
    /\ stage[j] = "waiting"
    /\ stage' = [stage EXCEPT ![j] = "over"]
    /\ UNCHANGED holder

\* The worker that holds j is done with it, or gone.
End(j) ==
    /\ stage[j] = "held"
    /\ stage' = [stage EXCEPT ![j] = "over"]
    /\ holder' = [holder EXCEPT ![j] = NoWorker]

ServiceNext ==
    \E j \in Jobs : \/ Post(j)
                    \/ \E w \in Workers : HandOver(j, w)
                    \/ Drop(j)
                    \/ End(j)

Service == ServiceInit /\ [][ServiceNext]_serviceVars
===============================================================================
