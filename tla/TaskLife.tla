------------------------------- MODULE TaskLife -------------------------------
(***************************************************************************)
(* What a worker promises about the tasks it gets, without its goroutines, *)
(* its commands and its tags: it works on one task at a time, and while it *)
(* does that task is the current one; a run ends once, with one of three   *)
(* outcomes, and is stopped only if it was cancelled while it ran; and the *)
(* end is reported before the next task is begun. Supervisor implements    *)
(* this life, and the workers of HttpDispatch lead it until they crash.    *)
(***************************************************************************)
CONSTANTS Tasks, NoTask

VARIABLES cur,        \* the task the worker has
          stage,      \* how far the work on a task has come
          task,       \* the task that is worked on
          cancelled,  \* the run is to be stopped
          outcome     \* how it has ended

lifeVars == <<cur, stage, task, cancelled, outcome>>

Ends == {"completed", "failed", "stopped"}

LifeInit ==
    /\ cur = NoTask
    /\ stage = "idle"
    /\ task = NoTask
    /\ cancelled = FALSE
    /\ outcome = "none"

\* The worker gets t.
Take(t) ==
    /\ cur = NoTask
    /\ cur' = t
    /\ UNCHANGED <<stage, task, cancelled, outcome>>

Begin ==
    /\ stage = "idle"
    /\ cur # NoTask
    /\ stage' = "prepare"
    /\ task' = cur
    /\ UNCHANGED <<cur, cancelled, outcome>>

Run ==
    /\ stage = "prepare"
    /\ stage' = "run"
    /\ UNCHANGED <<cur, task, cancelled, outcome>>

Cancel ==
    /\ stage = "run"
    /\ cancelled' = TRUE
    /\ UNCHANGED <<cur, stage, task, outcome>>

\* The work is over and the worker is free to get the next task.
Finish(end) ==
    /\ \/ stage = "prepare" /\ end = "failed"
       \/ stage = "run" /\ (end = "stopped" => cancelled)
    /\ cur' = NoTask
    /\ stage' = "report"
    /\ cancelled' = FALSE
    /\ outcome' = end
    /\ UNCHANGED task

\* The end has been reported.
Report ==
    /\ stage = "report"
    /\ stage' = "idle"
    /\ task' = NoTask
    /\ cancelled' = FALSE
    /\ outcome' = "none"
    /\ UNCHANGED cur

LifeNext ==
    \/ \E t \in Tasks : Take(t)
    \/ Begin \/ Run \/ Cancel \/ Report
    \/ \E end \in Ends : Finish(end)

Life == LifeInit /\ [][LifeNext]_lifeVars
===============================================================================
