--------------------------- MODULE SupervisorProofs ---------------------------
(***************************************************************************)
(* Proofs about Supervisor, for any tasks of any kinds. The inductive      *)
(* invariant says at every point of processTask how far the command is,    *)
(* whose cancel function is registered, and what has led there.            *)
(***************************************************************************)
EXTENDS Supervisor, TLAPS

USE KindAssumption, NoTaskAssumption

\* The command and the channel at every point of the processor.
CommandShape ==
    /\ pc \in {"prepare", "start", "simulate"} =>
          proc = "none" /\ status = "none" /\ done = "empty"
    /\ pc \in Supervising =>
          \/ proc = "running" /\ done = "empty" /\ status = "none"
          \/ proc = "exited" /\ done = "empty" /\ status # "none"
          \/ proc = "waited" /\ done = status /\ status # "none"
    /\ pc \in {"idle", "report"} => proc \in {"none", "waited"} /\ done = "empty"

\* A cancel function belongs to the task being processed, and it has only been
\* called if a client named that task.
CancelShape ==
    /\ pc = "idle" => registered = NoTask
    /\ registered # NoTask => registered = task
    /\ Stage = "run" => registered = task /\ cur = task
    /\ pc = "prepare" => ~cancelled /\ registered = NoTask /\ cur = task
    /\ pc # "idle" => task \in Tasks
    /\ pc # "idle" /\ cancelled => task \in asked

\* Signals are sent on the branches that cancel or deadline have led to.
BranchShape ==
    /\ pc \in {"prepare", "start", "simulate", "select"} => signal = "none"
    /\ pc \in {"cancelGrace", "cancelKill"} => cancelled
    /\ pc \in {"timeoutGrace", "timeoutKill"} => expired
    /\ pc # "idle" /\ expired => Kind[task] # "file"

IInv == TypeOK /\ CommandShape /\ CancelShape /\ BranchShape /\ OutcomeIsTrue

LEMMA InvInit == Init => IInv
  BY DEF Init, IInv, TypeOK, CommandShape, CancelShape, BranchShape,
         OutcomeIsTrue, Supervising, Stage

LEMMA InvStep == IInv /\ [Next]_vars => IInv'
<1> SUFFICES ASSUME IInv, [Next]_vars PROVE IInv'
  OBVIOUS
<1> USE DEF IInv, TypeOK, CommandShape, CancelShape, BranchShape, OutcomeIsTrue,
            Supervising, Stage, command
<1>1. CASE Enter
  BY <1>1 DEF Enter
<1>2. CASE PrepareFails
  BY <1>2 DEF PrepareFails, finalize
<1>3. CASE Register
  BY <1>3 DEF Register
<1>4. CASE StartFails
  BY <1>4 DEF StartFails, finalize
<1>5. CASE StartCommand
  BY <1>5 DEF StartCommand
<1>6. CASE StartSimulation
  BY <1>6 DEF StartSimulation
<1>7. CASE SelectDone
  BY <1>7 DEF SelectDone, finalize
<1>8. CASE SelectInterrupt
  BY <1>8 DEF SelectInterrupt
<1>9. CASE AwaitExit
  BY <1>9 DEF AwaitExit, finalize, verdict
<1>10. CASE EndSimulation
  BY <1>10 DEF EndSimulation, finalize
<1>11. CASE Return
  BY <1>11 DEF Return
<1>12. CASE Kill
  BY <1>12 DEF Kill
<1>13. ASSUME NEW s \in {"ok", "error"}, Exit(s)
       PROVE  IInv'
  BY <1>13 DEF Exit
<1>14. CASE Wait
  BY <1>14 DEF Wait
<1>15. CASE Expire
  BY <1>15 DEF Expire
<1>16. ASSUME NEW t \in Tasks, Claim(t)
       PROVE  IInv'
  BY <1>16 DEF Claim
<1>17. ASSUME NEW t \in Tasks, requestCancel(t)
       PROVE  IInv'
  BY <1>17 DEF requestCancel
<1>18. CASE UNCHANGED vars
  BY <1>18 DEF vars
<1> QED
  BY <1>1, <1>2, <1>3, <1>4, <1>5, <1>6, <1>7, <1>8, <1>9, <1>10, <1>11,
     <1>12, <1>13, <1>14, <1>15, <1>16, <1>17, <1>18 DEF Next, Processor

THEOREM Invariance == Spec => []IInv
  BY InvInit, InvStep, PTL DEF Spec

\* Commands, flags and channels only take the values that processTask expects.
THEOREM TypeCorrect == Spec => []TypeOK
<1>1. IInv => TypeOK
  BY DEF IInv
<1> QED
  BY Invariance, <1>1, PTL

\* No command is left over when the supervision of a task has ended: the next
\* task never runs beside it.
THEOREM NothingIsLeft == Spec => []NothingLeftBehind
<1>1. IInv => NothingLeftBehind
  BY DEF IInv, CommandShape, NothingLeftBehind, TypeOK
<1> QED
  BY Invariance, <1>1, PTL

\* Stopped means asked for, failed means the command's own failure, completed
\* means a good exit or the full duration.
THEOREM OutcomesAreTrue == Spec => []OutcomeIsTrue
<1>1. IInv => OutcomeIsTrue
  BY DEF IInv
<1> QED
  BY Invariance, <1>1, PTL

-------------------------------------------------------------------------------
(* The life of a task *)

\* What the worker shows of its flag and its outcome.
running == Stage = "run" /\ cancelled
reported == IF pc = "idle" THEN "none" ELSE outcome

LEMMA ClaimImplements ==
    ASSUME IInv, NEW t \in Tasks, Claim(t) PROVE Shown!LifeNext
<1>1. Shown!Take(t)
  BY DEF Claim, Shown!Take, Stage
<1> QED
  BY <1>1 DEF Shown!LifeNext

LEMMA EnterImplements ==
    ASSUME IInv, Enter PROVE Shown!LifeNext
<1>1. Shown!Begin
  BY DEF Enter, Shown!Begin, Stage, IInv, TypeOK
<1> QED
  BY <1>1 DEF Shown!LifeNext

LEMMA RegisterImplements ==
    ASSUME IInv, Register PROVE Shown!LifeNext
<1>1. Shown!Run
  BY DEF Register, Shown!Run, Stage, IInv, CancelShape
<1> QED
  BY <1>1 DEF Shown!LifeNext

\* The end of a run, whatever has led to it.
LEMMA EndImplements ==
    ASSUME IInv, PrepareFails \/ StartFails \/ SelectDone \/ AwaitExit \/ EndSimulation
    PROVE  Shown!LifeNext
<1>1. PICK o \in {"completed", "failed", "stopped"} :
             /\ finalize(o)
             /\ \/ Stage = "prepare" /\ o = "failed"
                \/ Stage = "run" /\ (o = "stopped" => cancelled)
             /\ UNCHANGED task
  BY DEF PrepareFails, StartFails, SelectDone, AwaitExit, EndSimulation, verdict, IInv,
         BranchShape, Stage, Supervising
<1>2. Shown!Finish(o)
  BY <1>1 DEF Shown!Finish, finalize, Stage
<1> QED
  BY <1>2 DEF Shown!LifeNext, Shown!Ends

LEMMA ReturnImplements ==
    ASSUME IInv, Return PROVE Shown!LifeNext
<1>1. Shown!Report
  BY DEF Return, Shown!Report, Stage
<1> QED
  BY <1>1 DEF Shown!LifeNext

\* A cancel shows if it names the task that runs.
LEMMA CancelImplements ==
    ASSUME IInv, NEW t \in Tasks, requestCancel(t)
    PROVE  Shown!LifeNext \/ UNCHANGED Shown!lifeVars
<1>1. UNCHANGED <<cur, Stage, task, reported>>
  BY DEF requestCancel, Stage, reported
<1>2. CASE Stage = "run" /\ registered = t
  <2>1. Shown!Cancel
    BY <1>1, <1>2 DEF Shown!Cancel, requestCancel, reported
  <2> QED
    BY <2>1 DEF Shown!LifeNext
<1>3. CASE ~(Stage = "run" /\ registered = t)
  <2>1. running' <=> running
    BY <1>1, <1>3 DEF running, requestCancel, IInv, TypeOK
  <2> QED
    BY <1>1, <2>1 DEF Shown!lifeVars, running, reported
<1> QED
  BY <1>2, <1>3

\* Nothing else shows.
LEMMA InnerSteps ==
    ASSUME IInv,
           \/ StartCommand \/ StartSimulation \/ SelectInterrupt \/ Kill \/ Wait \/ Expire
           \/ \E s \in {"ok", "error"} : Exit(s)
           \/ UNCHANGED vars
    PROVE  UNCHANGED Shown!lifeVars
<1>1. UNCHANGED <<cur, Stage, task, cancelled, reported>>
  BY DEF StartCommand, StartSimulation, SelectInterrupt, Kill, Wait, Expire, Exit, vars,
         Stage, reported
<1> QED
  BY <1>1 DEF Shown!lifeVars, reported

\* The supervisor in detail leads the life that the cluster's worker does, so that
\* the cluster may be reasoned about with runs of a few steps and three outcomes.
THEOREM TaskLifeImplemented == Spec => ImplementsTaskLife
<1>1. Init => Shown!LifeInit
  BY DEF Init, Shown!LifeInit, Stage
<1>2. IInv /\ [Next]_vars => [Shown!LifeNext]_(Shown!lifeVars)
  BY ClaimImplements, EnterImplements, RegisterImplements, EndImplements, ReturnImplements,
     CancelImplements, InnerSteps DEF Next, Processor
<1> QED
  BY <1>1, <1>2, Invariance, PTL DEF Spec, ImplementsTaskLife, Shown!Life

===============================================================================
