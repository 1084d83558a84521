------------------------------ MODULE Supervisor ------------------------------
(***************************************************************************)
(* One worker's processTask in detail: the registration of the cancel      *)
(* function, runExternalWorkload and the simulated workload. It implements *)
(* TaskLife, which is what the cluster takes a run for.                    *)
(*                                                                         *)
(* Five parties move: the processor, which selects on the command's exit,  *)
(* the cancelled context and the deadline; the goroutine that waits for    *)
(* the command; the command, which may exit at any time and may ignore     *)
(* SIGINT; the timers; and the Serf event handler, which cancels.          *)
(***************************************************************************)
EXTENDS Naturals

CONSTANTS Tasks,   \* tasks that the worker gets, one after the other
          Kind,    \* Kind[t]: how t is run
          NoTask   \* nil *shared.Task

ASSUME KindAssumption == Kind \in [Tasks -> {"camera", "file", "simulated"}]
ASSUME NoTaskAssumption == NoTask \notin Tasks

VARIABLES left,        \* tasks the worker has not got yet
          cur,         \* currentTask
          pc,          \* where the processor is
          task,        \* the task processTask works on
          registered,  \* currentCancelTask
          cancelled,   \* the context of the run is cancelled
          asked,       \* tasks named in a task-cancel event so far
          expired,     \* the duration of the run is over
          proc,        \* the command: not started, running, exited, waited for
          status,      \* its exit status
          signal,      \* the strongest signal sent to it
          done,        \* what is in the channel done
          outcome      \* how the run ended

vars == <<left, cur, pc, task, registered, cancelled, asked, expired, proc,
          status, signal, done, outcome>>

Supervising == {"select", "cancelGrace", "timeoutGrace", "cancelKill", "timeoutKill"}

TypeOK ==
    /\ left \subseteq Tasks
    /\ cur \in Tasks \cup {NoTask}
    /\ pc \in {"idle", "prepare", "start", "simulate", "report"} \cup Supervising
    /\ task \in Tasks \cup {NoTask}
    /\ registered \in Tasks \cup {NoTask}
    /\ cancelled \in BOOLEAN
    /\ asked \subseteq Tasks
    /\ expired \in BOOLEAN
    /\ proc \in {"none", "running", "exited", "waited"}
    /\ status \in {"none", "ok", "error"}
    /\ signal \in {"none", "SIGINT", "SIGKILL"}
    /\ done \in {"empty", "ok", "error"}
    /\ outcome \in {"none", "completed", "failed", "stopped"}

Init ==
    /\ left = Tasks
    /\ cur = NoTask
    /\ pc = "idle"
    /\ task = NoTask
    /\ registered = NoTask
    /\ cancelled = FALSE
    /\ asked = {}
    /\ expired = FALSE
    /\ proc = "none"
    /\ status = "none"
    /\ signal = "none"
    /\ done = "empty"
    /\ outcome = "none"

command == <<proc, status, signal, done>>

-------------------------------------------------------------------------------
(* The processor *)

\* claimJob's success: the worker has a task (WorkerNode has the protocol).
Claim(t) ==
    /\ cur = NoTask
    /\ t \in left
    /\ cur' = t
    /\ left' = left \ {t}
    /\ UNCHANGED <<pc, task, registered, cancelled, asked, expired, command,
                   outcome>>

\* A tick of startTaskProcessor enters processTask, with fresh locals.
Enter ==
    /\ pc = "idle"
    /\ cur # NoTask
    /\ pc' = "prepare"
    /\ task' = cur
    /\ cancelled' = FALSE
    /\ expired' = FALSE
    /\ proc' = "none" /\ status' = "none" /\ signal' = "none" /\ done' = "empty"
    /\ outcome' = "none"
    /\ UNCHANGED <<left, cur, registered, asked>>

\* The finalizeTask functions: the current task is cleared, the completion sent.
finalize(o) ==
    /\ pc' = "report"
    /\ cur' = NoTask
    /\ outcome' = o

\* prepareFileForTask fails; only tasks with a file have something to prepare.
PrepareFails ==
    /\ pc = "prepare"
    /\ Kind[task] # "camera"
    /\ finalize("failed")
    /\ UNCHANGED <<left, task, registered, cancelled, asked, expired, command>>

\* The cancel function of the run's context is registered under its task's id.
Register ==
    /\ pc = "prepare"
    /\ pc' = "start"
    /\ registered' = task
    /\ UNCHANGED <<left, cur, task, cancelled, asked, expired, command, outcome>>

\* The log directory, the log file or the command cannot be opened.
StartFails ==
    /\ pc = "start"
    /\ Kind[task] # "simulated"
    /\ finalize("failed")
    /\ UNCHANGED <<left, task, registered, cancelled, asked, expired, command>>

\* cmd.Start, and the goroutine that waits for the command.
StartCommand ==
    /\ pc = "start"
    /\ Kind[task] # "simulated"
    /\ pc' = "select"
    /\ proc' = "running"
    /\ UNCHANGED <<left, cur, task, registered, cancelled, asked, expired, status,
                   signal, done, outcome>>

StartSimulation ==
    /\ pc = "start"
    /\ Kind[task] = "simulated"
    /\ pc' = "simulate"
    /\ UNCHANGED <<left, cur, task, registered, cancelled, asked, expired, command,
                   outcome>>

\* First select: the command has exited.
SelectDone ==
    /\ pc = "select"
    /\ done # "empty"
    /\ done' = "empty"
    /\ finalize(IF done = "ok" THEN "completed" ELSE "failed")
    /\ UNCHANGED <<left, task, registered, cancelled, asked, expired, proc,
                   status, signal>>

\* First select: the run was cancelled, or its duration is over. Both send
\* SIGINT and give the command a grace period.
SelectInterrupt ==
    /\ pc = "select"
    /\ \/ cancelled /\ pc' = "cancelGrace"
       \/ expired /\ pc' = "timeoutGrace"
    /\ signal' = "SIGINT"
    /\ UNCHANGED <<left, cur, task, registered, cancelled, asked, expired, proc,
                   status, done, outcome>>

\* Mutated: the command is asked to exit once more.
KillPolitely ==
    /\ \/ pc = "cancelGrace" /\ pc' = "cancelKill"
       \/ pc = "timeoutGrace" /\ pc' = "timeoutKill"
    /\ signal' = "SIGINT"
    /\ UNCHANGED <<left, cur, task, registered, cancelled, asked, expired, proc,
                   status, done, outcome>>

\* Second select: the grace period is over and the command is killed.
Kill ==
    /\ \/ pc = "cancelGrace" /\ pc' = "cancelKill"
       \/ pc = "timeoutGrace" /\ pc' = "timeoutKill"
    /\ signal' = "SIGKILL"
    /\ UNCHANGED <<left, cur, task, registered, cancelled, asked, expired, proc,
                   status, done, outcome>>

\* Mutated: after the deadline the command's error counts.
verdictOfError == IF pc \in {"cancelGrace", "cancelKill"} THEN "stopped"
                  ELSE IF done = "error" THEN "failed" ELSE "completed"

\* Cancelled is stopped; reaching the duration is a success, whatever the
\* command's status.
verdict == IF pc \in {"cancelGrace", "cancelKill"} THEN "stopped" ELSE "completed"

\* Mutated: nobody waits for the command that was killed.
AwaitExitUnlessKilled ==
    /\ \/ pc \in {"cancelGrace", "timeoutGrace"} /\ done # "empty"
       \/ pc \in {"cancelKill", "timeoutKill"}
    /\ done' = "empty"
    /\ finalize(verdict)
    /\ UNCHANGED <<left, task, registered, cancelled, asked, expired, proc,
                   status, signal>>

\* The command exits in its grace period, or after it was killed.
AwaitExit ==
    /\ pc \in Supervising \ {"select"}
    /\ done # "empty"
    /\ done' = "empty"
    /\ finalize(verdict)
    /\ UNCHANGED <<left, task, registered, cancelled, asked, expired, proc,
                   status, signal>>

\* runSimulatedWorkload: cancelled or at its deadline.
EndSimulation ==
    /\ pc = "simulate"
    /\ \/ cancelled /\ finalize("stopped")
       \/ expired /\ finalize("completed")
    /\ UNCHANGED <<left, task, registered, cancelled, asked, expired, command>>

\* Mutated: the cancel function stays registered.
ReturnKeepsFunction ==
    /\ pc = "report"
    /\ pc' = "idle"
    /\ task' = NoTask
    /\ UNCHANGED <<left, cur, registered, cancelled, asked, expired, command, outcome>>

\* processTask returns and drops the cancel function.
Return ==
    /\ pc = "report"
    /\ pc' = "idle"
    /\ task' = NoTask
    /\ registered' = IF registered = task THEN NoTask ELSE registered
    /\ UNCHANGED <<left, cur, cancelled, asked, expired, command, outcome>>

-------------------------------------------------------------------------------
(* The command, its waiter, the timers and the event handler *)

\* The command exits, by itself or obeying a signal.
Exit(s) ==
    /\ proc = "running"
    /\ proc' = "exited"
    /\ status' = s
    /\ UNCHANGED <<left, cur, pc, task, registered, cancelled, asked, expired,
                   signal, done, outcome>>

\* Mutated: the waiter does not wait.
WaitEarly ==
    /\ proc \in {"running", "exited"}
    /\ proc' = "waited"
    /\ done' = status
    /\ UNCHANGED <<left, cur, pc, task, registered, cancelled, asked, expired,
                   status, signal, outcome>>

\* cmd.Wait returns; the channel has room for its result.
Wait ==
    /\ proc = "exited"
    /\ proc' = "waited"
    /\ done' = status
    /\ UNCHANGED <<left, cur, pc, task, registered, cancelled, asked, expired,
                   status, signal, outcome>>

\* Mutated: file tasks have a deadline, too.
ExpireAny ==
    /\ pc \in Supervising \cup {"simulate"}
    /\ ~expired
    /\ expired' = TRUE
    /\ UNCHANGED <<left, cur, pc, task, registered, cancelled, asked, command,
                   outcome>>

\* The duration of the run is over. A file task has none.
Expire ==
    /\ pc \in Supervising \cup {"simulate"}
    /\ Kind[task] # "file"
    /\ ~expired
    /\ expired' = TRUE
    /\ UNCHANGED <<left, cur, pc, task, registered, cancelled, asked, command,
                   outcome>>

\* requestCancel, for a task-cancel event that names t.
requestCancel(t) ==
    /\ t \notin asked \cup left
    /\ asked' = asked \cup {t}
    /\ cancelled' = (cancelled \/ registered = t)
    /\ UNCHANGED <<left, cur, pc, task, registered, expired, command, outcome>>

Processor ==
    \/ Enter
    \/ StartFails \/ StartCommand \/ StartSimulation
    \/ SelectDone \/ SelectInterrupt \/ AwaitExit
    \/ EndSimulation \/ Return

Next ==
    \/ PrepareFails \/ Register
    \/ Processor
    \/ Kill
    \/ \E s \in {"ok", "error"} : Exit(s)
    \/ Wait
    \/ Expire
    \/ \E t \in Tasks : Claim(t) \/ requestCancel(t)

Spec == Init /\ [][Next]_vars

\* The processor and the waiter run, timers fire, and nothing survives SIGKILL.
\* A command need not exit by itself, nor obey SIGINT; and a preparation need not
\* end: the downloads of ensureBinariesAndModels have no time limit.
Fairness ==
    /\ WF_vars(Processor)
    /\ WF_vars(Kill)
    /\ WF_vars(signal = "SIGKILL" /\ \E s \in {"ok", "error"} : Exit(s))
    /\ WF_vars(Wait)
    /\ WF_vars(Expire)

FairSpec == Spec /\ Fairness

-------------------------------------------------------------------------------
(* Properties *)

\* Outside of the supervision there is no command left over from a task: none
\* runs, none is waiting to be waited for, and no result is left in the channel
\* for the next one.
NothingLeftBehind ==
    pc \notin Supervising => proc \in {"none", "waited"} /\ done = "empty"

\* The outcome that is reported is the one that happened. A task is stopped
\* only if a client asked for it; a failure is the command's own and never the
\* effect of our signals; a completed task has exited well or had its time. A
\* file task has none: it ends with its command, or is stopped.
OutcomeIsTrue ==
    pc = "report" =>
        /\ outcome = "stopped" => task \in asked
        /\ outcome = "failed" => signal = "none" /\ status # "ok"
        /\ outcome = "completed" => status = "ok" \/ (expired /\ Kind[task] # "file")

\* What a worker shows of the run of its task.
Stage ==
    IF pc \in {"idle", "prepare", "report"} THEN pc ELSE "run"

Shown == INSTANCE TaskLife WITH
    stage <- Stage, cancelled <- Stage = "run" /\ cancelled,
    outcome <- IF pc = "idle" THEN "none" ELSE outcome

\* The cluster may take a run for what TaskLife makes of it: whatever the command,
\* its waiter, the timers and the cancel events do, a task is worked on while it is
\* the current one, is cancelled only while it runs, ends once, with one of three
\* outcomes, and is stopped only if it was cancelled.
ImplementsTaskLife == Shown!Life

\* A cancelled run ends, even if its command ignores SIGINT.
CancelEnds ==
    \A t \in Tasks : (task = t /\ cancelled) ~> task # t

\* A run with a duration ends, once its preparation is over.
DurationEnds ==
    \A t \in Tasks : (task = t /\ Stage = "run" /\ Kind[t] # "file") ~> task # t
===============================================================================
