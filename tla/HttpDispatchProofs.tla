-------------------------- MODULE HttpDispatchProofs --------------------------
(***************************************************************************)
(* Proofs about HttpDispatch, for any workers, jobs, ids, memory sizes and *)
(* faults. The inductive invariant is IInv: the types, what a goroutine's  *)
(* own state says (Shape), and that a worker with a claim or a list in its *)
(* hands has no task (PollsOnlyWhenFree), which is what makes SinglePlace  *)
(* and ProcessorOwnsTask inductive.                                        *)
(***************************************************************************)
EXTENDS HttpDispatch, TLAPS

USE IdAssumption, MemAssumption, LimitAssumption, NoWorkerAssumption,
    NoJobAssumption, PublisherAssumption, FaultAssumption

\* An open or granted claim names a job and belongs to a running process; a
\* processor past its start has a task, and an outcome when it reports.
Shape ==
    \A w \in Workers :
        /\ rpc[w].pc # "none" => rpc[w].job \in Jobs
        /\ pc[w] # "idle" => task[w] \in Jobs
        /\ pc[w] = "report" => outcome[w] \in Outcomes

\* checkForAvailableJobs runs on without a current task: nobody else sets one.
PollsOnlyWhenFree ==
    \A w \in Workers :
        (todo[w] # {} \/ rpc[w].pc # "none") => cur[w] = NoJob

IInv == TypeOK /\ Shape /\ PollsOnlyWhenFree /\ SinglePlace /\ ProcessorOwnsTask

-------------------------------------------------------------------------------
(* The critical sections of the edge, and the steps of the workers.        *)

EdgeStep ==
    \/ \E j \in Jobs : addJob(j)
    \/ \E w \in Workers, j \in Jobs, idle \in SUBSET Workers :
          claimGranted(w, j, idle)
    \/ \E w \in Workers, id \in Ids, idle \in SUBSET Workers :
          claimRefused(w, id, idle)
    \/ \E id \in Ids : stopQueued(id)
    \/ \E w \in Workers : addNode(w) \/ removeNode(w)
    \/ \E w \in Workers, id \in Ids, status \in Outcomes :
          recordCompletion(w, id, status)
    \/ learnCompletion
    \/ UNCHANGED edgeVars

\* What DeliverTags does to the worker.
tagsDelivered(w) ==
    /\ news' = [news EXCEPT ![w] = NoTags]
    /\ UNCHANGED <<up, cur, todo, due, tags, procVars>>

WorkerStep(w) ==
    \/ \E listed \in SUBSET Jobs : listJobs(w, listed)
    \/ \E j \in Jobs : claimFailed(w, j) \/ claimSucceeded(w, j)
    \/ processTask(w) \/ prepareFails(w) \/ startWorkload(w)
    \/ \E id \in Ids : requestCancel(w, id)
    \/ \E status \in Outcomes : finishWorkload(w, status)
    \/ returnFromTask(w) \/ metricsTick(w)
    \/ stopProcess(w) \/ startProcess(w)
    \/ \E p \in Publishers : readTask(w, p) \/ SetTags(w, p)
    \/ tagsDelivered(w)

LEMMA EdgeTypes == EdgeTypeOK /\ EdgeStep => EdgeTypeOK'
<1> USE DEF EdgeTypeOK, Record, Terminal, Outcomes
<1> SUFFICES ASSUME EdgeTypeOK, EdgeStep PROVE EdgeTypeOK'
  OBVIOUS
<1>1. CASE \E j \in Jobs : addJob(j)
  BY <1>1 DEF addJob
<1>2. CASE \E w \in Workers, j \in Jobs, idle \in SUBSET Workers :
             claimGranted(w, j, idle)
  BY <1>2 DEF claimGranted
<1>3. CASE \/ \E w \in Workers, id \in Ids, idle \in SUBSET Workers :
                 claimRefused(w, id, idle)
           \/ UNCHANGED edgeVars
  BY <1>3 DEF claimRefused, edgeVars
<1>4. CASE \E id \in Ids : stopQueued(id)
  BY <1>4 DEF stopQueued, Queued
<1>5. CASE \E w \in Workers : addNode(w)
  BY <1>5 DEF addNode
<1>6. CASE \E w \in Workers : removeNode(w)
  BY <1>6 DEF removeNode
<1>7. CASE \E w \in Workers, id \in Ids, status \in Outcomes :
             recordCompletion(w, id, status)
  BY <1>7 DEF recordCompletion
<1>8. CASE learnCompletion
  BY <1>8 DEF learnCompletion
<1> QED
  BY <1>1, <1>2, <1>3, <1>4, <1>5, <1>6, <1>7, <1>8 DEF EdgeStep

LEMMA WorkerTypes ==
    ASSUME WorkerTypeOK,
           (\E w \in Workers : WorkerStep(w)) \/ UNCHANGED workerVars
    PROVE  WorkerTypeOK'
<1> USE DEF WorkerTypeOK, Outcomes, updateTags, clearRun, procVars, tagVars
<1> SUFFICES ASSUME NEW w \in Workers, WorkerStep(w) PROVE WorkerTypeOK'
  BY DEF workerVars
<1>1. CASE \E listed \in SUBSET Jobs : listJobs(w, listed)
  BY <1>1 DEF listJobs
<1>2. CASE \E j \in Jobs : claimFailed(w, j)
  BY <1>2 DEF claimFailed
<1>3. CASE \E j \in Jobs : claimSucceeded(w, j)
  BY <1>3 DEF claimSucceeded
<1>4. CASE processTask(w)
  BY <1>4 DEF processTask
<1>5. CASE prepareFails(w)
  BY <1>5 DEF prepareFails, finalize
<1>6. CASE startWorkload(w)
  BY <1>6 DEF startWorkload
<1>7. CASE \E id \in Ids : requestCancel(w, id)
  BY <1>7 DEF requestCancel
<1>8. CASE \E status \in Outcomes : finishWorkload(w, status)
  BY <1>8 DEF finishWorkload, finalize
<1>9. CASE returnFromTask(w)
  BY <1>9 DEF returnFromTask
<1>10. CASE metricsTick(w)
  BY <1>10 DEF metricsTick
<1>11. CASE stopProcess(w)
  BY <1>11 DEF stopProcess, Nothing
<1>12. CASE startProcess(w)
  BY <1>12 DEF startProcess
<1>13. CASE \E p \in Publishers : readTask(w, p)
  BY <1>13 DEF readTask
<1>14. CASE \E p \in Publishers : SetTags(w, p)
  BY <1>14 DEF SetTags
<1>15. CASE tagsDelivered(w)
  BY <1>15 DEF tagsDelivered
<1> QED
  BY <1>1, <1>2, <1>3, <1>4, <1>5, <1>6, <1>7, <1>8, <1>9, <1>10, <1>11,
     <1>12, <1>13, <1>14, <1>15 DEF WorkerStep

-------------------------------------------------------------------------------
(* Type correctness. *)

\* What a step of the network leaves to show about it.
StepOK ==
    /\ EdgeStep
    /\ (\E w \in Workers : WorkerStep(w)) \/ UNCHANGED workerVars
    /\ NetTypeOK'

LEMMA ClientSteps == TypeOK /\ Shape /\ ClientStep => StepOK
<1> USE DEF TypeOK, NetTypeOK, StepOK, EdgeStep
<1> SUFFICES ASSUME TypeOK, Shape, ClientStep PROVE StepOK
  OBVIOUS
<1>1. CASE \E j \in Jobs : PostJob(j)
  BY <1>1 DEF PostJob
<1>2. CASE \E id \in Ids : StopJob(id)
  BY <1>2 DEF StopJob
<1>3. CASE \E id \in Ids : SignalStop(id)
  <2> PICK id \in Ids : SignalStop(id)
    BY <1>3
  <2>1. cancels' \subseteq Cancel
    BY DEF SignalStop, RunningNodes, Cancel
  <2>2. answer' \in [Ids -> {"none", "looking", "stopped", "cancelling", "notfound"}]
    BY DEF SignalStop
  <2> QED
    BY <2>1, <2>2 DEF SignalStop
<1> QED
  BY <1>1, <1>2, <1>3 DEF ClientStep

LEMMA ClaimSteps ==
    TypeOK /\ Shape /\ (\E w \in Workers : ClaimStep(w)) => StepOK
<1> USE DEF TypeOK, NetTypeOK, StepOK, EdgeStep, NoRpc, Shape
<1> SUFFICES ASSUME TypeOK, Shape, NEW w \in Workers, ClaimStep(w) PROVE StepOK
  OBVIOUS
<1>1. CASE ListJobs(w)
  BY <1>1 DEF ListJobs, netVars, WorkerStep, EdgeTypeOK
<1>2. CASE \E j \in Jobs : SendClaim(w, j)
  <2> PICK j \in Jobs : SendClaim(w, j)
    BY <1>2
  <2>1. CASE w \notin alive \/ view[w] \in Jobs
    BY <2>1 DEF SendClaim, WorkerStep
  <2>2. CASE ~(w \notin alive \/ view[w] \in Jobs)
    <3>1. rpc' = [rpc EXCEPT ![w] = [pc |-> "open", job |-> j,
                                     idle |-> {c \in alive : view[c] = NoJob}]]
      BY <2>2 DEF SendClaim
    <3>2. {c \in alive : view[c] = NoJob} \in SUBSET Workers
      OBVIOUS
    <3> HIDE DEF WorkerStep
    <3> QED
      BY <2>2, <3>1, <3>2 DEF SendClaim
  <2> QED
    BY <2>1, <2>2
<1>3. CASE GrantClaim(w)
  BY <1>3 DEF GrantClaim, Queued, EdgeTypeOK
<1>4. CASE RefuseClaim(w)
  BY <1>4 DEF RefuseClaim, WorkerStep
<1>5. CASE ReceiveGrant(w)
  BY <1>5 DEF ReceiveGrant, WorkerStep
<1>6. CASE ClaimTimeout(w)
  BY <1>6 DEF ClaimTimeout, WorkerStep, abandoned, Fault, Handler, WorkerTypeOK
<1> QED
  BY <1>1, <1>2, <1>3, <1>4, <1>5, <1>6 DEF ClaimStep

LEMMA TaskSteps ==
    TypeOK /\ Shape /\ (\E w \in Workers : TaskStep(w) \/ TagStep(w)) => StepOK
<1> USE DEF TypeOK, NetTypeOK, StepOK, EdgeStep, netVars
<1> SUFFICES ASSUME TypeOK, Shape, NEW w \in Workers, TaskStep(w) \/ TagStep(w)
             PROVE  StepOK
  OBVIOUS
<1>1. CASE RunTask(w)
  BY <1>1 DEF RunTask, WorkerStep
<1>2. CASE ReportTask(w)
  BY <1>2 DEF ReportTask, WorkerStep, returnFromTask, Shape, Report
<1>3. CASE \E p \in Publishers : UpdateTags(w, p)
  BY <1>3 DEF UpdateTags, WorkerStep
<1>4. CASE DeliverTags(w)
  <2>1. tagsDelivered(w)
    BY <1>4 DEF DeliverTags, tagsDelivered
  <2>2. WorkerStep(w)
    BY <2>1 DEF WorkerStep
  <2> QED
    BY <1>4, <2>2 DEF DeliverTags, WorkerTypeOK
<1> QED
  BY <1>1, <1>2, <1>3, <1>4 DEF TaskStep, TagStep

LEMMA EventSteps == TypeOK /\ Shape /\ EventStep => StepOK
<1> USE DEF TypeOK, NetTypeOK, StepOK, EdgeStep
<1> SUFFICES ASSUME TypeOK, Shape, EventStep PROVE StepOK
  OBVIOUS
<1>1. CASE \E h \in orphans : FinishOrphan(h)
  BY <1>1 DEF FinishOrphan, Handler, Queued, EdgeTypeOK
<1>2. CASE \E c \in cancels : DeliverCancel(c)
  BY <1>2 DEF DeliverCancel, WorkerStep, Cancel
<1>3. CASE \E r \in reports : DeliverReport(r)
  BY <1>3 DEF DeliverReport, Report
<1>4. CASE LoseEvent
  BY <1>4 DEF LoseEvent, Fault
<1>5. CASE LearnFromReport
  BY <1>5 DEF LearnFromReport, netVars
<1>6. CASE HandleMemberEvent
  <2>1. /\ Head(events) \in MemberEvent
        /\ Tail(events) \in Seq(MemberEvent)
    BY <1>6 DEF HandleMemberEvent
  <2> QED
    BY <1>6, <2>1 DEF HandleMemberEvent, MemberEvent
<1> QED
  BY <1>1, <1>2, <1>3, <1>4, <1>5, <1>6 DEF EventStep

LEMMA MemberSteps ==
    TypeOK /\ Shape /\ (\E w \in Workers : MemberStep(w)) => StepOK
<1> USE DEF TypeOK, NetTypeOK, StepOK, EdgeStep, Fault, MemberEvent
<1> SUFFICES ASSUME TypeOK, Shape, NEW w \in Workers, MemberStep(w) PROVE StepOK
  OBVIOUS
<1>1. CASE CrashWorker(w)
  BY <1>1 DEF CrashWorker, WorkerStep, abandoned, Handler, NoRpc, Shape
<1>2. CASE RestartWorker(w)
  BY <1>2 DEF RestartWorker, WorkerStep
<1>3. CASE LoseMember(w)
  BY <1>3 DEF LoseMember
<1>4. CASE JoinMember(w)
  BY <1>4 DEF JoinMember
<1> QED
  BY <1>1, <1>2, <1>3, <1>4 DEF MemberStep

LEMMA AllSteps == TypeOK /\ Shape /\ [Next]_vars => StepOK
<1> SUFFICES ASSUME TypeOK, Shape, [Next]_vars PROVE StepOK
  OBVIOUS
<1>1. CASE Next
  BY <1>1, ClientSteps, ClaimSteps, TaskSteps, EventSteps, MemberSteps DEF Next
<1>2. CASE UNCHANGED vars
  BY <1>2 DEF vars, netVars, StepOK, EdgeStep, TypeOK, NetTypeOK
<1> QED
  BY <1>1, <1>2

LEMMA TypeStep == TypeOK /\ Shape /\ [Next]_vars => TypeOK'
  BY AllSteps, EdgeTypes, WorkerTypes DEF TypeOK, StepOK

-------------------------------------------------------------------------------
(* Where the jobs are. *)

\* What the core of the invariant is about; most steps leave all of it alone.
coreVars == <<queue, posted, cur, todo, rpc, pc, task, outcome>>

LEMMA QuietSteps ==
    ASSUME \/ \E id \in Ids : SignalStop(id)
           \/ \E w \in Workers, p \in Publishers : UpdateTags(w, p)
           \/ \E w \in Workers : DeliverTags(w)
           \/ \E c \in cancels : DeliverCancel(c)
           \/ \E r \in reports : DeliverReport(r)
           \/ LearnFromReport
           \/ LoseEvent
           \/ HandleMemberEvent
           \/ \E w \in Workers :
                 RestartWorker(w) \/ LoseMember(w) \/ JoinMember(w)
           \/ UNCHANGED vars
    PROVE  UNCHANGED coreVars
  BY DEF coreVars, SignalStop, UpdateTags, metricsTick, readTask,
         SetTags, DeliverTags, DeliverCancel, requestCancel, DeliverReport,
         recordCompletion, LearnFromReport, learnCompletion,
         LoseEvent, HandleMemberEvent, addNode, removeNode, RestartWorker,
         startProcess, LoseMember, JoinMember, vars, edgeVars, workerVars,
         procVars, netVars

\* What SendClaim does to the core, opened or refused.
ClaimSent(w, j) ==
    /\ UNCHANGED <<queue, posted, cur, pc, task, outcome>>
    /\ j \in todo[w]
    /\ rpc[w].pc = "none"
    /\ \A v \in Workers : todo'[v] \subseteq todo[v]
    /\ \A v \in Workers :
          \/ rpc'[v] = rpc[v]
          \/ v = w /\ rpc'[v].pc = "open" /\ rpc'[v].job = j

LEMMA SendClaimStep ==
    ASSUME TypeOK, \E w \in Workers, j \in Jobs : SendClaim(w, j)
    PROVE  \E w \in Workers, j \in Jobs : ClaimSent(w, j)
<1> PICK w \in Workers, j \in Jobs : SendClaim(w, j)
  OBVIOUS
<1>1. /\ UNCHANGED <<queue, posted, cur, pc, task, outcome>>
      /\ j \in todo[w]
      /\ rpc[w].pc = "none"
  BY DEF SendClaim, claimFailed, edgeVars, workerVars, procVars
<1>2. \A v \in Workers : todo'[v] \subseteq todo[v]
  <2>1. todo' = todo \/ todo' = [todo EXCEPT ![w] = @ \ {j}]
    BY DEF SendClaim, claimFailed, workerVars
  <2> QED
    BY <2>1 DEF TypeOK, WorkerTypeOK
<1>3. \A v \in Workers : \/ rpc'[v] = rpc[v]
                         \/ v = w /\ rpc'[v].pc = "open" /\ rpc'[v].job = j
  <2>1. \/ rpc' = rpc
        \/ rpc' = [rpc EXCEPT ![w] = [pc |-> "open", job |-> j,
                                      idle |-> {c \in alive : view[c] = NoJob}]]
    BY DEF SendClaim
  <2> QED
    BY <2>1 DEF TypeOK, NetTypeOK
<1>4. ClaimSent(w, j)
  BY <1>1, <1>2, <1>3 DEF ClaimSent
<1> QED
  BY <1>4

LEMMA ShapeStep ==
    TypeOK /\ Shape /\ [Next]_vars => Shape'
<1> USE DEF TypeOK, EdgeTypeOK, WorkerTypeOK, NetTypeOK, Shape, Outcomes
<1> SUFFICES ASSUME TypeOK, Shape, [Next]_vars PROVE Shape'
  OBVIOUS
<1>1. CASE \E j \in Jobs : PostJob(j)
  BY <1>1 DEF PostJob, addJob, workerVars, procVars
<1>2. CASE \E id \in Ids : StopJob(id)
  BY <1>2 DEF StopJob, stopQueued, edgeVars, workerVars, procVars
<1>3. CASE \E w \in Workers : ListJobs(w)
  BY <1>3 DEF ListJobs, listJobs, edgeVars, netVars, procVars
<1>4. CASE \E w \in Workers, j \in Jobs : SendClaim(w, j)
  <2>1. PICK w \in Workers, j \in Jobs : ClaimSent(w, j)
    BY <1>4, SendClaimStep
  <2> QED
    BY <2>1 DEF ClaimSent
<1>5. CASE \E w \in Workers : GrantClaim(w)
  BY <1>5 DEF GrantClaim, claimGranted, Queued, workerVars, procVars
<1>6. CASE \E w \in Workers : RefuseClaim(w)
  BY <1>6 DEF RefuseClaim, claimRefused, claimFailed, edgeVars, procVars,
              NoRpc
<1>7. CASE \E w \in Workers : ReceiveGrant(w)
  BY <1>7 DEF ReceiveGrant, claimSucceeded, edgeVars, procVars, NoRpc
<1>8. CASE \E w \in Workers : ClaimTimeout(w)
  BY <1>8 DEF ClaimTimeout, claimFailed, edgeVars, procVars, NoRpc
<1>9. CASE \E h \in orphans : FinishOrphan(h)
  BY <1>9 DEF FinishOrphan, claimGranted, claimRefused, edgeVars, workerVars,
              procVars
<1>10. CASE \E w \in Workers : RunTask(w)
  BY <1>10 DEF RunTask, processTask, prepareFails, startWorkload,
               finishWorkload, finalize, edgeVars, netVars
<1>11. CASE \E w \in Workers : ReportTask(w)
  BY <1>11 DEF ReportTask, returnFromTask, clearRun, edgeVars
<1>12. CASE \E w \in Workers : CrashWorker(w)
  BY <1>12 DEF CrashWorker, stopProcess, clearRun, edgeVars, NoRpc
<1>13. CASE UNCHANGED coreVars
  BY <1>13 DEF coreVars
<1> QED
  BY <1>1, <1>2, <1>3, <1>4, <1>5, <1>6, <1>7, <1>8, <1>9, <1>10, <1>11,
     <1>12, <1>13, QuietSteps
     DEF Next, ClientStep, ClaimStep, TaskStep, TagStep, EventStep, MemberStep

LEMMA PollsStep ==
    TypeOK /\ PollsOnlyWhenFree /\ [Next]_vars => PollsOnlyWhenFree'
<1> USE DEF TypeOK, EdgeTypeOK, WorkerTypeOK, NetTypeOK, PollsOnlyWhenFree
<1> SUFFICES ASSUME TypeOK, PollsOnlyWhenFree, [Next]_vars PROVE PollsOnlyWhenFree'
  OBVIOUS
<1>1. CASE \E j \in Jobs : PostJob(j)
  BY <1>1 DEF PostJob, addJob, workerVars, procVars
<1>2. CASE \E id \in Ids : StopJob(id)
  BY <1>2 DEF StopJob, stopQueued, edgeVars, workerVars, procVars
<1>3. CASE \E w \in Workers : ListJobs(w)
  BY <1>3 DEF ListJobs, listJobs, edgeVars, netVars, procVars
<1>4. CASE \E w \in Workers, j \in Jobs : SendClaim(w, j)
  BY <1>4, SendClaimStep DEF ClaimSent
<1>5. CASE \E w \in Workers : GrantClaim(w)
  BY <1>5 DEF GrantClaim, claimGranted, Queued, workerVars, procVars
<1>6. CASE \E w \in Workers : RefuseClaim(w)
  BY <1>6 DEF RefuseClaim, claimRefused, claimFailed, edgeVars, procVars,
              NoRpc
<1>7. CASE \E w \in Workers : ReceiveGrant(w)
  BY <1>7 DEF ReceiveGrant, claimSucceeded, edgeVars, procVars, NoRpc
<1>8. CASE \E w \in Workers : ClaimTimeout(w)
  BY <1>8 DEF ClaimTimeout, claimFailed, edgeVars, procVars, NoRpc
<1>9. CASE \E h \in orphans : FinishOrphan(h)
  BY <1>9 DEF FinishOrphan, claimGranted, claimRefused, edgeVars, workerVars,
              procVars
<1>10. CASE \E w \in Workers : RunTask(w)
  BY <1>10 DEF RunTask, processTask, prepareFails, startWorkload,
               finishWorkload, finalize, edgeVars, netVars
<1>11. CASE \E w \in Workers : ReportTask(w)
  BY <1>11 DEF ReportTask, returnFromTask, clearRun, edgeVars
<1>12. CASE \E w \in Workers : CrashWorker(w)
  BY <1>12 DEF CrashWorker, stopProcess, clearRun, edgeVars, NoRpc
<1>13. CASE UNCHANGED coreVars
  BY <1>13 DEF coreVars
<1> QED
  BY <1>1, <1>2, <1>3, <1>4, <1>5, <1>6, <1>7, <1>8, <1>9, <1>10, <1>11,
     <1>12, <1>13, QuietSteps
     DEF Next, ClientStep, ClaimStep, TaskStep, TagStep, EventStep, MemberStep

LEMMA OwnsStep ==
    TypeOK /\ Shape /\ PollsOnlyWhenFree /\ ProcessorOwnsTask /\ [Next]_vars => ProcessorOwnsTask'
<1> USE DEF TypeOK, EdgeTypeOK, WorkerTypeOK, NetTypeOK, Shape, PollsOnlyWhenFree,
             ProcessorOwnsTask
<1> SUFFICES ASSUME TypeOK, Shape, PollsOnlyWhenFree, ProcessorOwnsTask, [Next]_vars PROVE ProcessorOwnsTask'
  OBVIOUS
<1>1. CASE \E j \in Jobs : PostJob(j)
  BY <1>1 DEF PostJob, addJob, workerVars, procVars
<1>2. CASE \E id \in Ids : StopJob(id)
  BY <1>2 DEF StopJob, stopQueued, edgeVars, workerVars, procVars
<1>3. CASE \E w \in Workers : ListJobs(w)
  BY <1>3 DEF ListJobs, listJobs, edgeVars, netVars, procVars
<1>4. CASE \E w \in Workers, j \in Jobs : SendClaim(w, j)
  BY <1>4, SendClaimStep DEF ClaimSent
<1>5. CASE \E w \in Workers : GrantClaim(w)
  BY <1>5 DEF GrantClaim, claimGranted, Queued, workerVars, procVars
<1>6. CASE \E w \in Workers : RefuseClaim(w)
  BY <1>6 DEF RefuseClaim, claimRefused, claimFailed, edgeVars, procVars,
              NoRpc
<1>7. CASE \E w \in Workers : ReceiveGrant(w)
  BY <1>7 DEF ReceiveGrant, claimSucceeded, edgeVars, procVars, NoRpc
<1>8. CASE \E w \in Workers : ClaimTimeout(w)
  BY <1>8 DEF ClaimTimeout, claimFailed, edgeVars, procVars, NoRpc
<1>9. CASE \E h \in orphans : FinishOrphan(h)
  BY <1>9 DEF FinishOrphan, claimGranted, claimRefused, edgeVars, workerVars,
              procVars
<1>10. CASE \E w \in Workers : RunTask(w)
  BY <1>10 DEF RunTask, processTask, prepareFails, startWorkload,
               finishWorkload, finalize, edgeVars, netVars
<1>11. CASE \E w \in Workers : ReportTask(w)
  BY <1>11 DEF ReportTask, returnFromTask, clearRun, edgeVars
<1>12. CASE \E w \in Workers : CrashWorker(w)
  BY <1>12 DEF CrashWorker, stopProcess, clearRun, edgeVars, NoRpc
<1>13. CASE UNCHANGED coreVars
  BY <1>13 DEF coreVars
<1> QED
  BY <1>1, <1>2, <1>3, <1>4, <1>5, <1>6, <1>7, <1>8, <1>9, <1>10, <1>11,
     <1>12, <1>13, QuietSteps
     DEF Next, ClientStep, ClaimStep, TaskStep, TagStep, EventStep, MemberStep

LEMMA PlaceStep ==
    TypeOK /\ Shape /\ PollsOnlyWhenFree /\ SinglePlace /\ [Next]_vars => SinglePlace'
<1> USE DEF TypeOK, EdgeTypeOK, WorkerTypeOK, NetTypeOK, Shape, PollsOnlyWhenFree,
             SinglePlace, Holds
<1> SUFFICES ASSUME TypeOK, Shape, PollsOnlyWhenFree, SinglePlace, [Next]_vars PROVE SinglePlace'
  OBVIOUS
<1>1. CASE \E j \in Jobs : PostJob(j)
  BY <1>1 DEF PostJob, addJob, workerVars, procVars
<1>2. CASE \E id \in Ids : StopJob(id)
  BY <1>2 DEF StopJob, stopQueued, edgeVars, workerVars, procVars
<1>3. CASE \E w \in Workers : ListJobs(w)
  BY <1>3 DEF ListJobs, listJobs, edgeVars, netVars, procVars
<1>4. CASE \E w \in Workers, j \in Jobs : SendClaim(w, j)
  <2>1. PICK w \in Workers, j \in Jobs : ClaimSent(w, j)
    BY <1>4, SendClaimStep
  <2>2. \A v \in Workers, k \in Jobs : Holds(v, k)' => Holds(v, k)
    BY <2>1 DEF ClaimSent
  <2>3. UNCHANGED <<queue, posted>>
    BY <2>1 DEF ClaimSent
  <2> HIDE DEF Holds
  <2> QED
    BY <2>2, <2>3
<1>5. CASE \E w \in Workers : GrantClaim(w)
  BY <1>5 DEF GrantClaim, claimGranted, Queued, workerVars, procVars
<1>6. CASE \E w \in Workers : RefuseClaim(w)
  BY <1>6 DEF RefuseClaim, claimRefused, claimFailed, edgeVars, procVars,
              NoRpc
<1>7. CASE \E w \in Workers : ReceiveGrant(w)
  BY <1>7 DEF ReceiveGrant, claimSucceeded, edgeVars, procVars, NoRpc
<1>8. CASE \E w \in Workers : ClaimTimeout(w)
  BY <1>8 DEF ClaimTimeout, claimFailed, edgeVars, procVars, NoRpc
<1>9. CASE \E h \in orphans : FinishOrphan(h)
  BY <1>9 DEF FinishOrphan, claimGranted, claimRefused, edgeVars, workerVars,
              procVars
<1>10. CASE \E w \in Workers : RunTask(w)
  BY <1>10 DEF RunTask, processTask, prepareFails, startWorkload,
               finishWorkload, finalize, edgeVars, netVars
<1>11. CASE \E w \in Workers : ReportTask(w)
  BY <1>11 DEF ReportTask, returnFromTask, clearRun, edgeVars
<1>12. CASE \E w \in Workers : CrashWorker(w)
  BY <1>12 DEF CrashWorker, stopProcess, clearRun, edgeVars, NoRpc
<1>13. CASE UNCHANGED coreVars
  BY <1>13 DEF coreVars
<1> QED
  BY <1>1, <1>2, <1>3, <1>4, <1>5, <1>6, <1>7, <1>8, <1>9, <1>10, <1>11,
     <1>12, <1>13, QuietSteps
     DEF Next, ClientStep, ClaimStep, TaskStep, TagStep, EventStep, MemberStep

-------------------------------------------------------------------------------
LEMMA InvInit == Init => IInv
<1> SUFFICES ASSUME Init PROVE IInv
  OBVIOUS
<1> USE DEF Init, EdgeInit, WorkerInit, NoRpc, Nothing
<1>1. TypeOK
  BY DEF TypeOK, EdgeTypeOK, WorkerTypeOK, NetTypeOK, Record, Terminal, Outcomes
<1>2. Shape /\ PollsOnlyWhenFree /\ SinglePlace /\ ProcessorOwnsTask
  BY DEF Shape, PollsOnlyWhenFree, SinglePlace, ProcessorOwnsTask, Holds
<1> QED
  BY <1>1, <1>2 DEF IInv

LEMMA InvStep == IInv /\ [Next]_vars => IInv'
  BY TypeStep, ShapeStep, PollsStep, PlaceStep, OwnsStep DEF IInv

\* The inductive invariant holds in every reachable state.
THEOREM Invariance == Spec => []IInv
  BY InvInit, InvStep, PTL DEF Spec

\* Every variable keeps its type, for any instance of the cluster.
THEOREM TypeCorrect == Spec => []TypeOK
<1>1. IInv => TypeOK
  BY DEF IInv
<1> QED
  BY Invariance, <1>1, PTL

\* A job is queued, or held by a single worker, or neither, whatever faults,
\* colliding task ids and late tags do (claimJob, stopJob, checkForAvailableJobs).
THEOREM AtMostOnePlace == Spec => []SinglePlace
<1>1. IInv => SinglePlace
  BY DEF IInv
<1> QED
  BY Invariance, <1>1, PTL

\* The polling goroutine never replaces the task under the processor.
THEOREM ProcessorKeepsTask == Spec => []ProcessorOwnsTask
<1>1. IInv => ProcessorOwnsTask
  BY DEF IInv
<1> QED
  BY Invariance, <1>1, PTL

-------------------------------------------------------------------------------
(* The cluster implements the job service: a step changes the stage of one *)
(* job at most, and the way JobService allows.                             *)

LEMMA HolderIs ==
    SinglePlace =>
        \A w \in Workers, j \in Jobs : Holds(w, j) => Holder(j) = w
  BY DEF SinglePlace, Holder

LEMMA NextHolderIs ==
    SinglePlace' =>
        \A w \in Workers, j \in Jobs : Holds(w, j)' => Holder(j)' = w
  BY DEF SinglePlace, Holder

\* A job that nobody posts, takes, drops or ends keeps its stage and holder.
Untouched(k) ==
    /\ k \in posted' <=> k \in posted
    /\ k \in queue' <=> k \in queue
    /\ \A v \in Workers : Holds(v, k)' <=> Holds(v, k)

LEMMA UntouchedStays ==
    ASSUME SinglePlace, SinglePlace', NEW k \in Jobs, Untouched(k)
    PROVE  Stage(k)' = Stage(k) /\ Holder(k)' = Holder(k)
<1>1. Stage(k)' = Stage(k)
  BY DEF Untouched, Stage
<1>2. CASE \E v \in Workers : Holds(v, k)
  BY <1>1, <1>2, HolderIs, NextHolderIs DEF Untouched
<1>3. CASE ~\E v \in Workers : Holds(v, k)
  BY <1>1, <1>3 DEF Untouched, Holder
<1> QED
  BY <1>1, <1>2, <1>3

\* The refinement mapping of a step that touches j alone.
LEMMA OneJobChanges ==
    ASSUME SinglePlace, SinglePlace', NEW j \in Jobs,
           \A k \in Jobs \ {j} : Untouched(k)
    PROVE  /\ [k \in Jobs |-> Stage(k)]' =
                  [[k \in Jobs |-> Stage(k)] EXCEPT ![j] = Stage(j)']
           /\ [k \in Jobs |-> Holder(k)]' =
                  [[k \in Jobs |-> Holder(k)] EXCEPT ![j] = Holder(j)']
  BY UntouchedStays

LEMMA NothingChanges ==
    ASSUME SinglePlace, SinglePlace', \A k \in Jobs : Untouched(k)
    PROVE  UNCHANGED JS!serviceVars
  BY UntouchedStays DEF JS!serviceVars

\* The four ways to touch a job.
Others(j) == \A k \in Jobs \ {j} : Untouched(k)

LEMMA PostStep ==
    ASSUME SinglePlace, SinglePlace', NEW j \in Jobs, Others(j),
           j \notin posted, j \in posted', j \in queue'
    PROVE  JS!Post(j)
<1>1. \A w \in Workers : ~Holds(w, j) /\ ~Holds(w, j)'
  BY DEF SinglePlace
<1>2. /\ Stage(j) = "unposted" /\ Stage(j)' = "waiting"
      /\ Holder(j) = NoWorker /\ Holder(j)' = NoWorker
  BY <1>1 DEF Stage, Holder
<1> QED
  BY <1>2, OneJobChanges DEF Others, JS!Post

LEMMA DropStep ==
    ASSUME SinglePlace, SinglePlace', NEW j \in Jobs, Others(j),
           j \in queue, j \notin queue', j \in posted',
           \A w \in Workers : ~Holds(w, j)'
    PROVE  JS!Drop(j)
<1>1. j \in posted /\ \A w \in Workers : ~Holds(w, j)
  BY DEF SinglePlace
<1>2. /\ Stage(j) = "waiting" /\ Stage(j)' = "over"
      /\ Holder(j) = NoWorker /\ Holder(j)' = NoWorker
  BY <1>1 DEF Stage, Holder
<1> QED
  BY <1>2, OneJobChanges DEF Others, JS!Drop

LEMMA HandOverStep ==
    ASSUME SinglePlace, SinglePlace', NEW j \in Jobs, NEW w \in Workers,
           Others(j), j \in queue, Holds(w, j)'
    PROVE  JS!HandOver(j, w)
<1>1. Stage(j) = "waiting"
  BY DEF SinglePlace, Stage
<1>2. Stage(j)' = "held"
  BY DEF SinglePlace, Stage
<1>3. Holder(j)' = w
  BY NextHolderIs
<1> QED
  BY <1>1, <1>2, <1>3, OneJobChanges DEF Others, JS!HandOver

LEMMA EndStep ==
    ASSUME SinglePlace, SinglePlace', NEW j \in Jobs, NEW w \in Workers,
           Others(j), Holds(w, j), j \notin queue', j \in posted',
           \A v \in Workers : ~Holds(v, j)'
    PROVE  JS!End(j)
<1>1. Stage(j) = "held"
  BY DEF SinglePlace, Stage
<1>2. Stage(j)' = "over" /\ Holder(j)' = NoWorker
  BY DEF Stage, Holder
<1> QED
  BY <1>1, <1>2, OneJobChanges DEF Others, JS!End

\* A task leaves w, crashed or finished, or its grant reaches nobody.
Leaves(w) ==
    /\ UNCHANGED <<queue, posted>>
    /\ \A k \in Jobs : ~Holds(w, k)'
    /\ \A v \in Workers \ {w}, k \in Jobs : Holds(v, k)' <=> Holds(v, k)

LEMMA LeavesStep ==
    ASSUME IInv, IInv', NEW w \in Workers, Leaves(w)
    PROVE  [JS!ServiceNext]_(JS!serviceVars)
<1> USE DEF IInv
<1>1. CASE \E j \in Jobs : Holds(w, j)
  <2>1. PICK j \in Jobs : Holds(w, j)
    BY <1>1
  <2>2. \A k \in Jobs \ {j} : ~Holds(w, k)
    BY <2>1, <1>1 DEF Holds, PollsOnlyWhenFree
  <2>3. /\ j \in posted' /\ j \notin queue'
        /\ \A v \in Workers : ~Holds(v, j)'
        /\ Others(j)
    BY <2>1, <2>2 DEF Leaves, SinglePlace, Others, Untouched
  <2>4. JS!End(j)
    BY <2>1, <2>3, EndStep
  <2> QED
    BY <2>4 DEF JS!ServiceNext
<1>2. CASE ~\E j \in Jobs : Holds(w, j)
  <2>1. \A k \in Jobs : Untouched(k)
    BY <1>2 DEF Leaves, Untouched
  <2> QED
    BY <2>1, NothingChanges
<1> QED
  BY <1>1, <1>2

\* A queued job is taken by nobody: stopped, or granted to a gone client.
LEMMA TakenByNobody ==
    ASSUME IInv, IInv', NEW j \in Jobs, j \in queue, queue' = queue \ {j},
           UNCHANGED <<posted, cur, rpc>>
    PROVE  [JS!ServiceNext]_(JS!serviceVars)
<1> USE DEF IInv
<1>1. /\ Others(j) /\ j \notin queue' /\ j \in posted'
      /\ \A w \in Workers : ~Holds(w, j)'
  BY DEF Others, Untouched, Holds, SinglePlace
<1>2. JS!Drop(j)
  BY <1>1, DropStep
<1> QED
  BY <1>2 DEF JS!ServiceNext

\* Neither the queue nor what the workers hold changes.
LEMMA SamePlaces ==
    ASSUME IInv, IInv', UNCHANGED <<queue, posted>>,
           \A v \in Workers, k \in Jobs : Holds(v, k)' <=> Holds(v, k)
    PROVE  [JS!ServiceNext]_(JS!serviceVars)
<1>1. \A k \in Jobs : Untouched(k)
  BY DEF Untouched
<1> QED
  BY <1>1, NothingChanges DEF IInv

LEMMA RefinementStep ==
    ASSUME IInv, IInv', [Next]_vars
    PROVE  [JS!ServiceNext]_(JS!serviceVars)
<1>1. CASE \E j \in Jobs : PostJob(j)
  <2>1. PICK j \in Jobs : PostJob(j)
    BY <1>1
  <2>2. /\ j \notin posted /\ j \in posted' /\ j \in queue'
        /\ Others(j)
    BY <2>1 DEF PostJob, addJob, workerVars, Others, Untouched, Holds
  <2>3. JS!Post(j)
    BY <2>2, PostStep DEF IInv
  <2> QED
    BY <2>3 DEF JS!ServiceNext
<1>2. CASE \E id \in Ids : StopJob(id)
  <2>1. CASE UNCHANGED edgeVars
    BY <1>2, <2>1, SamePlaces DEF StopJob, edgeVars, workerVars, Holds
  <2>2. CASE \E id \in Ids : stopQueued(id)
    <3>1. PICK id \in Ids : stopQueued(id)
      BY <2>2
    <3>2. PICK j \in Jobs : j \in queue /\ queue' = queue \ {j}
      BY <3>1 DEF stopQueued, Queued, IInv, TypeOK, EdgeTypeOK
    <3> QED
      BY <1>2, <3>2, TakenByNobody DEF StopJob, workerVars
  <2> QED
    BY <1>2, <2>1, <2>2 DEF StopJob
<1>3. CASE \E w \in Workers : ListJobs(w)
  BY <1>3, SamePlaces DEF ListJobs, listJobs, edgeVars, netVars, Holds
<1>4. CASE \E w \in Workers, j \in Jobs : SendClaim(w, j)
  <2>1. PICK w \in Workers, j \in Jobs : ClaimSent(w, j)
    BY <1>4, SendClaimStep DEF IInv
  <2> QED
    BY <2>1, SamePlaces DEF ClaimSent, Holds
<1>5. CASE \E w \in Workers : GrantClaim(w)
  <2>1. PICK w \in Workers : GrantClaim(w)
    BY <1>5
  <2>2. PICK j \in Jobs : /\ j \in queue /\ queue' = queue \ {j}
                          /\ rpc' = [rpc EXCEPT ![w] =
                                [pc |-> "granted", job |-> j, idle |-> {}]]
    BY <2>1 DEF GrantClaim, claimGranted, Queued, IInv, TypeOK, EdgeTypeOK
  <2>3. UNCHANGED <<posted, cur>> /\ rpc[w].pc = "open"
    BY <2>1 DEF GrantClaim, workerVars
  <2>4. Holds(w, j)' /\ Others(j)
    BY <2>2, <2>3 DEF Others, Untouched, Holds, IInv, TypeOK, NetTypeOK
  <2>5. JS!HandOver(j, w)
    BY <2>2, <2>4, HandOverStep DEF IInv
  <2> QED
    BY <2>5 DEF JS!ServiceNext
<1>6. CASE \E w \in Workers : RefuseClaim(w)
  BY <1>6, SamePlaces
     DEF RefuseClaim, claimRefused, claimFailed, edgeVars, NoRpc, Holds, IInv,
         TypeOK, NetTypeOK
<1>7. CASE \E w \in Workers : ReceiveGrant(w)
  <2>1. PICK w \in Workers : ReceiveGrant(w)
    BY <1>7
  <2>2. /\ cur[w] = NoJob /\ rpc[w].pc = "granted" /\ rpc[w].job \in Jobs
        /\ cur' = [cur EXCEPT ![w] = rpc[w].job]
        /\ rpc' = [rpc EXCEPT ![w] = NoRpc]
    BY <2>1 DEF ReceiveGrant, claimSucceeded, IInv, Shape, PollsOnlyWhenFree
  <2>3. \A v \in Workers, k \in Jobs : Holds(v, k)' <=> Holds(v, k)
    BY <2>2 DEF NoRpc, Holds, IInv, TypeOK, NetTypeOK, WorkerTypeOK
  <2> QED
    BY <2>1, <2>3, SamePlaces DEF ReceiveGrant, edgeVars
<1>8. CASE \E w \in Workers : ClaimTimeout(w)
  <2>1. PICK w \in Workers : ClaimTimeout(w)
    BY <1>8
  <2>2. Leaves(w)
    BY <2>1 DEF ClaimTimeout, claimFailed, edgeVars, NoRpc, Leaves, Holds, IInv,
                TypeOK, NetTypeOK, PollsOnlyWhenFree
  <2> QED
    BY <2>2, LeavesStep
<1>9. CASE \E h \in orphans : FinishOrphan(h)
  <2>1. PICK h \in orphans : FinishOrphan(h)
    BY <1>9
  <2>2. CASE claimRefused(h.node, IdOf[h.job], h.idle)
    BY <2>1, <2>2, SamePlaces
       DEF FinishOrphan, claimRefused, edgeVars, workerVars, Holds
  <2>3. CASE \E j \in Queued(IdOf[h.job]) : claimGranted(h.node, j, h.idle)
    <3>1. PICK j \in Jobs : j \in queue /\ queue' = queue \ {j}
      BY <2>3 DEF claimGranted, Queued, IInv, TypeOK, EdgeTypeOK
    <3> QED
      BY <2>1, <3>1, TakenByNobody DEF FinishOrphan, workerVars
  <2> QED
    BY <2>1, <2>2, <2>3 DEF FinishOrphan
<1>10. CASE \E w \in Workers : RunTask(w)
  <2>1. PICK w \in Workers : RunTask(w)
    BY <1>10
  <2>2. CASE UNCHANGED cur
    BY <2>1, <2>2, SamePlaces DEF RunTask, edgeVars, netVars, Holds
  <2>3. CASE cur' = [cur EXCEPT ![w] = NoJob] /\ cur[w] # NoJob
    <3>1. Leaves(w)
      BY <2>1, <2>3 DEF RunTask, edgeVars, netVars, Leaves, Holds, IInv, TypeOK,
                        WorkerTypeOK, PollsOnlyWhenFree
    <3> QED
      BY <3>1, LeavesStep
  <2> QED
    BY <2>1, <2>2, <2>3
       DEF RunTask, processTask, startWorkload, prepareFails, finishWorkload,
           finalize, IInv, Shape, ProcessorOwnsTask
<1>11. CASE \E w \in Workers : ReportTask(w)
  BY <1>11, SamePlaces DEF ReportTask, returnFromTask, edgeVars, Holds
<1>12. CASE \E w \in Workers : CrashWorker(w)
  <2>1. PICK w \in Workers : CrashWorker(w)
    BY <1>12
  <2>2. Leaves(w)
    BY <2>1 DEF CrashWorker, stopProcess, edgeVars, NoRpc, Leaves, Holds, IInv,
                TypeOK, NetTypeOK, WorkerTypeOK
  <2> QED
    BY <2>2, LeavesStep
<1>13. CASE UNCHANGED coreVars
  BY <1>13, SamePlaces DEF coreVars, Holds
<1> QED
  BY <1>1, <1>2, <1>3, <1>4, <1>5, <1>6, <1>7, <1>8, <1>9, <1>10, <1>11, <1>12,
     <1>13, QuietSteps
     DEF Next, ClientStep, ClaimStep, TaskStep, TagStep, EventStep, MemberStep

LEMMA RefinementInit == Init => JS!ServiceInit
<1> SUFFICES ASSUME Init PROVE JS!ServiceInit
  OBVIOUS
<1>1. \A w \in Workers, j \in Jobs : ~Holds(w, j)
  BY DEF Init, WorkerInit, NoRpc, Holds
<1>2. \A j \in Jobs : Stage(j) = "unposted" /\ Holder(j) = NoWorker
  BY <1>1 DEF Init, Stage, Holder
<1> QED
  BY <1>2 DEF JS!ServiceInit

\* Whatever the network does, the cluster implements JobService: a job is
\* handed to one worker, once, and what is over stays over (addJob, claimJob,
\* stopJob, the finalizeTask functions).
THEOREM Refinement == Spec => ImplementsJobService
<1>1. IInv /\ IInv' /\ [Next]_vars => [JS!ServiceNext]_(JS!serviceVars)
  BY RefinementStep
<1> QED
  BY <1>1, RefinementInit, Invariance, PTL
     DEF Spec, ImplementsJobService, JS!Service

-------------------------------------------------------------------------------
(* What tags may say, and so whom a stop signals. Tags are old, overtaken  *)
(* or those of a process that has gone, but a job that has been given to a *)
(* worker is never given to another one, so that a tag that has once been  *)
(* true names the right worker for ever.                                   *)

\* j has left the queue, and nobody but w can have it.
Given(w, j) ==
    /\ j \in posted \ queue
    /\ \A v \in Workers \ {w} : ~Holds(v, j)

\* The tags of w name j: on the edge, on their way to it, or not given to SetTags yet.
Names(w, j) ==
    \/ view[w] = j
    \/ news[w] = j
    \/ \E p \in Publishers : tags[w][p] = j

TagsAim == \A w \in Workers, j \in Jobs : Names(w, j) => Given(w, j)

TagInv == TagsAim /\ CancelsGoToHolder

LEMMA TagInit == Init => TagInv
  BY DEF Init, WorkerInit, Nothing, TagInv, TagsAim, Names, CancelsGoToHolder

\* What a worker holds has been given to it.
LEMMA HeldIsGiven == SinglePlace => \A w \in Workers, j \in Jobs : Holds(w, j) => Given(w, j)
  BY DEF SinglePlace, Given

-------------------------------------------------------------------------------
(* A job is given once                                                     *)

\* A worker gets a job from the queue only, and only new jobs enter the queue.
LEMMA HoldsFromQueue ==
    ASSUME IInv, [Next]_vars
    PROVE  /\ posted \subseteq posted'
           /\ queue' \cap posted \subseteq queue
           /\ \A w \in Workers, j \in Jobs : Holds(w, j)' => Holds(w, j) \/ j \in queue
<1> USE DEF IInv, TypeOK, EdgeTypeOK, WorkerTypeOK, NetTypeOK, Shape, PollsOnlyWhenFree,
             Holds
<1>1. CASE \E j \in Jobs : PostJob(j)
  BY <1>1 DEF PostJob, addJob, workerVars, procVars
<1>2. CASE \E id \in Ids : StopJob(id)
  BY <1>2 DEF StopJob, stopQueued, edgeVars, workerVars, procVars
<1>3. CASE \E w \in Workers : ListJobs(w)
  BY <1>3 DEF ListJobs, listJobs, edgeVars, netVars, procVars
<1>4. CASE \E w \in Workers, j \in Jobs : SendClaim(w, j)
  <2>1. PICK w \in Workers, j \in Jobs : ClaimSent(w, j)
    BY <1>4, SendClaimStep
  <2>2. \A v \in Workers, k \in Jobs : Holds(v, k)' => Holds(v, k)
    BY <2>1 DEF ClaimSent
  <2>3. UNCHANGED <<queue, posted>>
    BY <2>1 DEF ClaimSent
  <2> HIDE DEF Holds
  <2> QED
    BY <2>2, <2>3
<1>5. CASE \E w \in Workers : GrantClaim(w)
  BY <1>5 DEF GrantClaim, claimGranted, Queued, workerVars, procVars
<1>6. CASE \E w \in Workers : RefuseClaim(w)
  BY <1>6 DEF RefuseClaim, claimRefused, claimFailed, edgeVars, procVars, NoRpc
<1>7. CASE \E w \in Workers : ReceiveGrant(w)
  BY <1>7 DEF ReceiveGrant, claimSucceeded, edgeVars, procVars, NoRpc
<1>8. CASE \E w \in Workers : ClaimTimeout(w)
  BY <1>8 DEF ClaimTimeout, claimFailed, edgeVars, procVars, NoRpc
<1>9. CASE \E h \in orphans : FinishOrphan(h)
  BY <1>9 DEF FinishOrphan, claimGranted, claimRefused, edgeVars, workerVars, procVars
<1>10. CASE \E w \in Workers : RunTask(w)
  BY <1>10 DEF RunTask, processTask, prepareFails, startWorkload, finishWorkload,
               finalize, edgeVars, netVars
<1>11. CASE \E w \in Workers : ReportTask(w)
  BY <1>11 DEF ReportTask, returnFromTask, clearRun, edgeVars
<1>12. CASE \E w \in Workers : CrashWorker(w)
  BY <1>12 DEF CrashWorker, stopProcess, clearRun, edgeVars, NoRpc
<1>13. CASE UNCHANGED coreVars
  BY <1>13 DEF coreVars
<1> QED
  BY <1>1, <1>2, <1>3, <1>4, <1>5, <1>6, <1>7, <1>8, <1>9, <1>10, <1>11,
     <1>12, <1>13, QuietSteps
     DEF Next, ClientStep, ClaimStep, TaskStep, TagStep, EventStep, MemberStep

LEMMA GivenStays ==
    ASSUME IInv, [Next]_vars, NEW w \in Workers, NEW j \in Jobs, Given(w, j)
    PROVE  Given(w, j)'
<1>1. /\ j \in posted /\ j \notin queue
      /\ \A v \in Workers \ {w} : ~Holds(v, j)
  BY DEF Given
<1>2. j \in posted' /\ j \notin queue'
  BY <1>1, HoldsFromQueue
<1>3. \A v \in Workers \ {w} : ~Holds(v, j)'
  BY <1>1, HoldsFromQueue
<1> QED
  BY <1>2, <1>3 DEF Given

\* A job that a worker has had is never another one's, nor queued again: not
\* after a crash, a lost answer, a removal or a second stop.
THEOREM GivenOnce ==
    Spec => [][\A w \in Workers, j \in Jobs : Given(w, j) => Given(w, j)']_vars
<1>1. IInv /\ [Next]_vars =>
          [\A w \in Workers, j \in Jobs : Given(w, j) => Given(w, j)']_vars
  BY GivenStays
<1> QED
  BY <1>1, Invariance, PTL DEF Spec

-------------------------------------------------------------------------------
(* Tags                                                                    *)

\* What may happen to the tags of w: a goroutine reads the current task for them, or
\* gives to SetTags what it has read, however long ago; they reach the edge; the
\* process ends, or starts.
TagMove(w) ==
    \/ /\ \E p \in Publishers : tags' = [tags EXCEPT ![w][p] = cur[w]]
       /\ UNCHANGED <<news, view>>
    \/ /\ \E p \in Publishers :
             /\ news' = [news EXCEPT ![w] = tags[w][p]]
             /\ tags' = [tags EXCEPT ![w][p] = NoTags]
       /\ UNCHANGED view
    \/ /\ view' = [view EXCEPT ![w] = news[w]]
       /\ news' = [news EXCEPT ![w] = NoTags]
       /\ UNCHANGED tags
    \/ /\ tags' = [tags EXCEPT ![w] = Nothing]
       /\ news' = [news EXCEPT ![w] = NoTags]
       /\ UNCHANGED view
    \/ /\ news' = [news EXCEPT ![w] = NoJob]
       /\ view' = [view EXCEPT ![w] = NoTags]
       /\ UNCHANGED tags

LEMMA TagMoves ==
    ASSUME IInv, [Next]_vars
    PROVE  (\E w \in Workers : TagMove(w)) \/ UNCHANGED <<tags, news, view>>
<1>1. CASE ClientStep
  BY <1>1 DEF ClientStep, PostJob, StopJob, SignalStop, workerVars, tagVars
<1>2. ASSUME NEW w \in Workers, ClaimStep(w) PROVE UNCHANGED <<tags, news, view>>
  BY <1>2 DEF ClaimStep, ListJobs, listJobs, SendClaim, GrantClaim, RefuseClaim,
              ReceiveGrant, ClaimTimeout, claimFailed, claimSucceeded, workerVars,
              tagVars, netVars
<1>3. ASSUME NEW w \in Workers, TaskStep(w)
      PROVE  TagMove(w) \/ UNCHANGED <<tags, news, view>>
  <2>1. CASE startWorkload(w)
    <3>1. /\ tags' = tags \/ tags' = [tags EXCEPT ![w]["processor"] = cur[w]]
          /\ news' = news
      BY <2>1 DEF startWorkload
    <3>2. "processor" \in Publishers
      BY DEF PublisherAssumption
    <3>3. view' = view
      BY <1>3 DEF TaskStep, RunTask, ReportTask, netVars
    <3> QED
      BY <3>1, <3>2, <3>3 DEF TagMove
  <2>2. CASE ~startWorkload(w)
    BY <1>3, <2>2 DEF TaskStep, RunTask, ReportTask, processTask, prepareFails,
                      finishWorkload, finalize, returnFromTask, netVars, tagVars
  <2> QED
    BY <2>1, <2>2
<1>4. ASSUME NEW w \in Workers, TagStep(w) PROVE TagMove(w)
  <2>1. CASE \E p \in Publishers : UpdateTags(w, p)
    BY <2>1 DEF UpdateTags, metricsTick, readTask, SetTags, netVars, TagMove
  <2>2. CASE DeliverTags(w)
    BY <2>2 DEF DeliverTags, TagMove
  <2> QED
    BY <1>4, <2>1, <2>2 DEF TagStep
<1>5. CASE EventStep
  BY <1>5 DEF EventStep, FinishOrphan, DeliverCancel, requestCancel, DeliverReport,
              LearnFromReport, LoseEvent, HandleMemberEvent, workerVars, tagVars, netVars
<1>6. ASSUME NEW w \in Workers, MemberStep(w)
      PROVE  TagMove(w) \/ UNCHANGED <<tags, news, view>>
  <2>1. CASE RestartWorker(w)
    BY <2>1 DEF RestartWorker, startProcess, TagMove
  <2>2. CASE CrashWorker(w)
    BY <2>2 DEF CrashWorker, stopProcess, TagMove
  <2>3. CASE LoseMember(w) \/ JoinMember(w)
    BY <2>3 DEF LoseMember, JoinMember, workerVars, tagVars
  <2> QED
    BY <1>6, <2>1, <2>2, <2>3 DEF MemberStep
<1>7. CASE UNCHANGED vars
  BY <1>7 DEF vars, workerVars, tagVars, netVars
<1> QED
  BY <1>1, <1>2, <1>3, <1>4, <1>5, <1>6, <1>7 DEF Next

\* A task gets into the tags of a worker that holds it.
LEMMA NamesFromHolder ==
    ASSUME IInv, [Next]_vars, NEW w \in Workers, NEW j \in Jobs, Names(w, j)'
    PROVE  Names(w, j) \/ Holds(w, j)
<1>types. /\ tags \in [Workers -> [Publishers -> Jobs \cup {NoJob, NoTags}]]
          /\ news \in [Workers -> Jobs \cup {NoJob, NoTags}]
          /\ view \in [Workers -> Jobs \cup {NoJob, NoTags}]
          /\ j # NoJob /\ j # NoTags
  BY DEF IInv, TypeOK, WorkerTypeOK, NetTypeOK
<1>1. CASE UNCHANGED <<tags, news, view>>
  BY <1>1 DEF Names
<1>2. ASSUME NEW v \in Workers, TagMove(v) PROVE Names(w, j) \/ Holds(w, j)
  BY <1>2, <1>types DEF TagMove, Names, Holds, Nothing
<1> QED
  BY <1>1, <1>2, TagMoves

LEMMA TagsStep == IInv /\ TagsAim /\ [Next]_vars => TagsAim'
<1> SUFFICES ASSUME IInv, TagsAim, [Next]_vars, NEW w \in Workers, NEW j \in Jobs,
                    Names(w, j)'
             PROVE  Given(w, j)'
  BY DEF TagsAim
<1>1. Given(w, j)
  BY NamesFromHolder, HeldIsGiven DEF TagsAim, IInv
<1> QED
  BY <1>1, GivenStays

-------------------------------------------------------------------------------
(* Stops                                                                   *)

\* A task-cancel event is sent to a worker whose tags name the id.
LEMMA CancelsFromTags ==
    ASSUME IInv, [Next]_vars, NEW c \in cancels'
    PROVE  \/ c \in cancels
           \/ c.node \in Workers /\ view[c.node] \in Jobs /\ IdOf[view[c.node]] = c.id
<1>1. CASE ClientStep
  <2>1. ASSUME NEW id \in Ids, SignalStop(id)
        PROVE  \/ UNCHANGED cancels
               \/ \E w \in Workers : /\ view[w] \in Jobs /\ IdOf[view[w]] = id
                                     /\ cancels' = cancels \cup {[node |-> w, id |-> id]}
    BY <2>1 DEF SignalStop, RunningNodes, IInv, TypeOK, NetTypeOK
  <2> QED
    BY <1>1, <2>1 DEF ClientStep, PostJob, StopJob
<1>2. ASSUME NEW w \in Workers, ClaimStep(w) PROVE UNCHANGED cancels
  BY <1>2 DEF ClaimStep, ListJobs, SendClaim, GrantClaim, RefuseClaim, ReceiveGrant,
              ClaimTimeout, netVars
<1>3. ASSUME NEW w \in Workers, TaskStep(w) \/ TagStep(w) PROVE UNCHANGED cancels
  BY <1>3 DEF TaskStep, RunTask, ReportTask, TagStep, UpdateTags,
              DeliverTags, netVars
<1>4. CASE EventStep
  BY <1>4 DEF EventStep, FinishOrphan, DeliverCancel, DeliverReport, LearnFromReport,
              LoseEvent, HandleMemberEvent, netVars
<1>5. ASSUME NEW w \in Workers, MemberStep(w) PROVE UNCHANGED cancels
  BY <1>5 DEF MemberStep, CrashWorker, RestartWorker, LoseMember, JoinMember
<1>6. CASE UNCHANGED vars
  BY <1>6 DEF vars, netVars
<1> QED
  BY <1>1, <1>2, <1>3, <1>4, <1>5, <1>6 DEF Next

LEMMA CancelsStep ==
    IInv /\ TagsAim /\ CancelsGoToHolder /\ [Next]_vars => CancelsGoToHolder'
<1> SUFFICES ASSUME IInv, TagsAim, CancelsGoToHolder, [Next]_vars, UniqueIds,
                    NEW c \in cancels', NEW j \in Jobs, IdOf[j] = c.id
             PROVE  Given(c.node, j)'
  BY DEF CancelsGoToHolder, UniqueIds, Given
<1>1. CASE c \in cancels
  <2>1. c.node \in Workers
    BY <1>1 DEF IInv, TypeOK, NetTypeOK, Cancel
  <2>2. Given(c.node, j)
    BY <1>1 DEF CancelsGoToHolder, Given
  <2> QED
    BY <2>1, <2>2, GivenStays
<1>2. CASE c.node \in Workers /\ view[c.node] \in Jobs /\ IdOf[view[c.node]] = c.id
  <2>1. view[c.node] = j
    BY <1>2 DEF UniqueIds
  <2>2. Given(c.node, j)
    BY <1>2, <2>1 DEF TagsAim, Names
  <2> QED
    BY <1>2, <2>2, GivenStays
<1> QED
  BY <1>1, <1>2, CancelsFromTags

\* A stop signals the worker that has the task, or has had it, and never passes
\* by another one that has it, however old the tags are that named the worker.
THEOREM StopsAimRight == Spec => []CancelsGoToHolder
<1>1. Init => IInv /\ TagInv
  BY InvInit, TagInit
<1>2. IInv /\ TagInv /\ [Next]_vars => (IInv /\ TagInv)'
  BY InvStep, TagsStep, CancelsStep DEF TagInv
<1>3. TagInv => CancelsGoToHolder
  BY DEF TagInv
<1> QED
  BY <1>1, <1>2, <1>3, PTL DEF Spec

-------------------------------------------------------------------------------
(* The workers of the cluster lead the life that Supervisor implements     *)

\* One worker's part of the cluster, as TaskLife sees it.
Of(w) == INSTANCE TaskLife
             WITH Tasks <- Jobs, NoTask <- NoJob, cur <- cur[w], stage <- pc[w],
                  task <- task[w], cancelled <- cancelled[w], outcome <- outcome[w]

\* The process of w ends in the middle of its life, and all of it is forgotten.
LifeEnds(w) == w \in up /\ w \notin up' /\ Of(w)!LifeInit'

\* A step of another worker.
LEMMA SameLife ==
    ASSUME NEW w \in Workers, NEW v \in Workers, v # w, IInv,
           \/ ClaimStep(v) \/ TaskStep(v) \/ CrashWorker(v)
           \/ \E id \in Ids : requestCancel(v, id)
    PROVE  UNCHANGED Of(w)!lifeVars
  BY DEF IInv, TypeOK, WorkerTypeOK, ClaimStep, ListJobs, listJobs, SendClaim,
         GrantClaim, RefuseClaim, ReceiveGrant, ClaimTimeout, claimFailed,
         claimSucceeded, workerVars, TaskStep, RunTask, ReportTask, processTask,
         prepareFails, startWorkload, finishWorkload, finalize, returnFromTask,
         clearRun, CrashWorker, stopProcess, requestCancel, procVars, Of!lifeVars

LEMMA LifeInClaims ==
    ASSUME IInv, NEW w \in Workers, ClaimStep(w)
    PROVE  [Of(w)!LifeNext]_(Of(w)!lifeVars)
<1>1. CASE ReceiveGrant(w)
  <2>1. /\ rpc[w].pc = "granted"
        /\ cur' = [cur EXCEPT ![w] = rpc[w].job]
        /\ UNCHANGED procVars
    BY <1>1 DEF ReceiveGrant, claimSucceeded
  <2>2. rpc[w].job \in Jobs /\ cur[w] = NoJob
    BY <2>1 DEF IInv, Shape, ProcessorOwnsTask
  <2>3. Of(w)!Take(rpc[w].job)
    BY <2>1, <2>2 DEF IInv, TypeOK, WorkerTypeOK, procVars, Of!Take
  <2> QED
    BY <2>2, <2>3 DEF Of!LifeNext
<1>2. CASE ~ReceiveGrant(w)
  BY <1>2 DEF ClaimStep, ListJobs, listJobs, SendClaim, GrantClaim, RefuseClaim,
              ClaimTimeout, claimFailed, workerVars, procVars, Of!lifeVars
<1> QED
  BY <1>1, <1>2

LEMMA LifeInTasks ==
    ASSUME IInv, NEW w \in Workers, TaskStep(w)
    PROVE  Of(w)!LifeNext
<1>types. /\ cur \in [Workers -> Jobs \cup {NoJob}]
          /\ pc \in [Workers -> {"idle", "prepare", "run", "report"}]
          /\ task \in [Workers -> Jobs \cup {NoJob}]
          /\ cancelled \in [Workers -> BOOLEAN]
          /\ outcome \in [Workers -> Outcomes \cup {"none"}]
  BY DEF IInv, TypeOK, WorkerTypeOK
<1>1. CASE processTask(w)
  <2>1. Of(w)!Begin
    BY <1>types, <1>1 DEF processTask, Of!Begin
  <2> QED
    BY <2>1 DEF Of!LifeNext
<1>2. CASE prepareFails(w)
  <2>1. Of(w)!Finish("failed")
    BY <1>types, <1>2 DEF prepareFails, finalize, Of!Finish
  <2> QED
    BY <2>1 DEF Of!LifeNext, Of!Ends
<1>3. CASE startWorkload(w)
  <2>1. Of(w)!Run
    BY <1>types, <1>3 DEF startWorkload, Of!Run
  <2> QED
    BY <2>1 DEF Of!LifeNext
<1>4. ASSUME NEW status \in Outcomes, finishWorkload(w, status)
      PROVE  Of(w)!LifeNext
  <2>1. Of(w)!Finish(status)
    BY <1>types, <1>4 DEF finishWorkload, finalize, Of!Finish
  <2> QED
    BY <2>1 DEF Of!LifeNext, Of!Ends, Outcomes
<1>5. CASE returnFromTask(w)
  <2>1. Of(w)!Report
    BY <1>types, <1>5 DEF returnFromTask, clearRun, Of!Report
  <2> QED
    BY <2>1 DEF Of!LifeNext
<1> QED
  BY <1>1, <1>2, <1>3, <1>4, <1>5 DEF TaskStep, RunTask, ReportTask

LEMMA LifeInCancels ==
    ASSUME IInv, NEW w \in Workers, NEW id \in Ids, requestCancel(w, id)
    PROVE  [Of(w)!LifeNext]_(Of(w)!lifeVars)
<1>types. cancelled \in [Workers -> BOOLEAN]
  BY DEF IInv, TypeOK, WorkerTypeOK
<1>1. CASE pc[w] = "run" /\ IdOf[task[w]] = id
  <2>1. Of(w)!Cancel
    BY <1>types, <1>1 DEF requestCancel, Of!Cancel
  <2> QED
    BY <2>1 DEF Of!LifeNext
<1>2. CASE ~(pc[w] = "run" /\ IdOf[task[w]] = id)
  BY <1>2 DEF requestCancel, Of!lifeVars
<1> QED
  BY <1>1, <1>2

LEMMA LifeInCrash ==
    ASSUME IInv, NEW w \in Workers, CrashWorker(w)
    PROVE  LifeEnds(w)
<1>1. w \in up /\ w \notin up'
  BY DEF CrashWorker, stopProcess
<1>2. Of(w)!LifeInit'
  BY DEF CrashWorker, stopProcess, clearRun, IInv, TypeOK, WorkerTypeOK, Of!LifeInit
<1> QED
  BY <1>1, <1>2 DEF LifeEnds

\* The steps of all workers and of the edge.
LEMMA LifeStep ==
    ASSUME NEW w \in Workers, IInv, [Next]_vars
    PROVE  [Of(w)!LifeNext \/ LifeEnds(w)]_(Of(w)!lifeVars)
<1>1. CASE ClientStep \/ UNCHANGED vars
  BY <1>1 DEF ClientStep, PostJob, StopJob, SignalStop, vars, workerVars, procVars,
              Of!lifeVars
<1>2. ASSUME NEW v \in Workers, ClaimStep(v)
      PROVE  [Of(w)!LifeNext]_(Of(w)!lifeVars)
  BY <1>2, SameLife, LifeInClaims
<1>3. ASSUME NEW v \in Workers, TaskStep(v)
      PROVE  [Of(w)!LifeNext]_(Of(w)!lifeVars)
  BY <1>3, SameLife, LifeInTasks
<1>4. ASSUME NEW v \in Workers, TagStep(v) PROVE UNCHANGED Of(w)!lifeVars
  BY <1>4 DEF TagStep, UpdateTags, metricsTick, readTask, SetTags,
              DeliverTags, procVars, Of!lifeVars
<1>5. ASSUME NEW v \in Workers, MemberStep(v)
      PROVE  LifeEnds(w) \/ UNCHANGED Of(w)!lifeVars
  <2>1. CASE CrashWorker(v)
    BY <2>1, SameLife, LifeInCrash
  <2>2. CASE RestartWorker(v) \/ LoseMember(v) \/ JoinMember(v)
    BY <2>2 DEF RestartWorker, startProcess, LoseMember, JoinMember, workerVars,
                procVars, Of!lifeVars
  <2> QED
    BY <1>5, <2>1, <2>2 DEF MemberStep
<1>6. CASE EventStep
  <2>1. ASSUME NEW c \in cancels, DeliverCancel(c)
        PROVE  [Of(w)!LifeNext]_(Of(w)!lifeVars)
    <3>1. c.node \in Workers /\ c.id \in Ids /\ requestCancel(c.node, c.id)
      BY <2>1 DEF DeliverCancel, IInv, TypeOK, NetTypeOK, Cancel
    <3> QED
      BY <3>1, SameLife, LifeInCancels
  <2>2. CASE ~\E c \in cancels : DeliverCancel(c)
    BY <1>6, <2>2 DEF EventStep, FinishOrphan, DeliverReport, LearnFromReport,
                      LoseEvent, HandleMemberEvent, workerVars, procVars, Of!lifeVars
  <2> QED
    BY <2>1, <2>2
<1> QED
  BY <1>1, <1>2, <1>3, <1>4, <1>5, <1>6 DEF Next

\* In the cluster every worker leads the life of TaskLife, which Supervisor implements:
\* while its poller, its processor, the event handler and the metrics loop go on
\* side by side, it gets a task only when it has none, its task stays until its run has
\* ended, the end is reported before the next run begins, and only the end of its
\* process breaks that off (claimJob, startJobScheduler, processTask, requestCancel).
THEOREM WorkersKeepTaskLife ==
    ASSUME NEW w \in Workers
    PROVE  Spec => /\ Of(w)!LifeInit
                   /\ [][Of(w)!LifeNext \/ LifeEnds(w)]_(Of(w)!lifeVars)
<1>1. Init => Of(w)!LifeInit
  BY DEF Init, WorkerInit, Of!LifeInit
<1>2. IInv /\ [Next]_vars => [Of(w)!LifeNext \/ LifeEnds(w)]_(Of(w)!lifeVars)
  BY LifeStep
<1> QED
  BY <1>1, <1>2, Invariance, PTL DEF Spec
===============================================================================
