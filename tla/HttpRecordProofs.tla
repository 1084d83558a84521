--------------------------- MODULE HttpRecordProofs ---------------------------
(***************************************************************************)
(* Proofs about the records, counters and tables of HttpDispatch, on top   *)
(* of the invariant IInv of HttpDispatchProofs. A job that is not over is  *)
(* unposted, queued, carried by one worker, or in one report on its way,   *)
(* and its record says which (RecordsFollow). Every step of the cluster is *)
(* one of seven moves, and each move keeps records and counters together.  *)
(***************************************************************************)
EXTENDS HttpDispatchProofs, FiniteSetTheorems

USE IdAssumption, MemAssumption, LimitAssumption, NoWorkerAssumption,
    NoJobAssumption, PublisherAssumption, FaultAssumption

\* The worker holds the job, or is about to report it.
Carries(w, j) == Holds(w, j) \/ (pc[w] = "report" /\ task[w] = j)

Pending == [status |-> "pending", node |-> NoWorker]
RunningOn(w) == [status |-> "running", node |-> w]

RecordsFollow ==
    /\ \A j \in Jobs \ posted : hist[IdOf[j]].status = "none"
    /\ \A j \in queue : hist[IdOf[j]] = Pending
    /\ \A w \in Workers, j \in Jobs : Carries(w, j) => hist[IdOf[j]] = RunningOn(w)
    /\ \A r \in reports : hist[IdOf[r.job]] = RunningOn(r.node)

\* A job is reported once, and nobody has it then.
ReportedOnce ==
    /\ \A w \in Workers, j \in Jobs : Carries(w, j) => \A r \in reports : r.job # j
    /\ \A r, s \in reports : r.job = s.job => r = s
    /\ \A w \in Workers : pc[w] = "report" => ~Holds(w, task[w])

\* The completion that the scheduler has not learned of yet.
Unlearned(w) == IF learning = w THEN 1 ELSE 0

CountersBounded ==
    /\ IsFiniteSet(posted)
    /\ \A w \in Workers : inflight[w] <= Cardinality(Unfinished(w)) + Unlearned(w)

RecordInv == RecordsFollow /\ ReportedOnce /\ CountersBounded

-------------------------------------------------------------------------------
(* The moves. *)

\* Jobs are passed on within a worker or lost; reports and counts only go.
Passes ==
    /\ UNCHANGED <<queue, posted, hist, learning>>
    /\ reports' \subseteq reports
    /\ \A w \in Workers : inflight'[w] <= inflight[w]
    /\ \A w \in Workers, j \in Jobs : Carries(w, j)' => Carries(w, j)
    /\ \A w \in Workers : pc'[w] = "report" => ~Holds(w, task[w])'

Elsewhere == UNCHANGED <<cur, rpc, pc, task>>

Posts(j) ==
    /\ j \notin posted
    /\ posted' = posted \cup {j}
    /\ queue' = queue \cup {j}
    /\ hist' = [hist EXCEPT ![IdOf[j]] = Pending]
    /\ UNCHANGED <<reports, inflight, learning>> /\ Elsewhere

Drops(j) ==
    /\ j \in queue
    /\ queue' = queue \ {j}
    /\ hist' = [hist EXCEPT ![IdOf[j]].status = "stopped"]
    /\ UNCHANGED <<posted, reports, inflight, learning>> /\ Elsewhere

Grants(w, j) ==
    /\ j \in queue
    /\ queue' = queue \ {j}
    /\ hist' = [hist EXCEPT ![IdOf[j]] = RunningOn(w)]
    /\ inflight' = [inflight EXCEPT ![w] = @ + 1]
    /\ UNCHANGED <<posted, reports, learning, cur, pc, task>>
    /\ \A v \in Workers : \/ rpc'[v] = rpc[v]
                          \/ v = w /\ rpc'[v].job = j

Reports(w) ==
    /\ pc[w] = "report"
    /\ reports' = reports \cup {[node |-> w, job |-> task[w], status |-> outcome[w]]}
    /\ pc' = [pc EXCEPT ![w] = "idle"]
    /\ \A v \in Workers \ {w} : task'[v] = task[v]
    /\ UNCHANGED <<queue, posted, hist, inflight, learning, cur, rpc>>

Delivers(r) ==
    /\ r \in reports
    /\ reports' = reports \ {r}
    /\ recordCompletion(r.node, IdOf[r.job], r.status)
    /\ UNCHANGED posted /\ Elsewhere

Learns ==
    /\ learnCompletion
    /\ UNCHANGED <<posted, reports>> /\ Elsewhere

Move ==
    \/ Passes
    \/ \E j \in Jobs : Posts(j) \/ Drops(j)
    \/ \E w \in Workers, j \in Jobs : Grants(w, j)
    \/ \E w \in Workers : Reports(w)
    \/ \E r \in reports : Delivers(r)
    \/ Learns

LEMMA IdleSteps ==
    ASSUME TypeOK, ReportedOnce, UNCHANGED <<queue, posted, hist, inflight, learning, cur, rpc, pc, task>>,
           reports' \subseteq reports
    PROVE  Passes
  BY DEF TypeOK, EdgeTypeOK, Passes, Carries, Holds, ReportedOnce

LEMMA ClientMoves == IInv /\ ReportedOnce /\ ClientStep => Move
<1> SUFFICES ASSUME IInv, ReportedOnce, ClientStep PROVE Move
  OBVIOUS
<1>1. CASE \E j \in Jobs : PostJob(j)
  <2> PICK j \in Jobs : PostJob(j)
    BY <1>1
  <2>1. Posts(j)
    BY DEF PostJob, addJob, Posts, Elsewhere, Pending, workerVars, procVars
  <2> QED
    BY <2>1 DEF Move
<1>2. CASE \E id \in Ids : StopJob(id)
  <2> PICK id \in Ids : StopJob(id)
    BY <1>2
  <2>1. CASE stopQueued(id)
    <3>1. PICK j \in queue : IdOf[j] = id /\ queue' = queue \ {j}
                             /\ hist' = [hist EXCEPT ![id].status = "stopped"]
                             /\ UNCHANGED <<inflight, learning>>
      BY <2>1 DEF stopQueued, Queued
    <3>2. j \in Jobs
      BY DEF IInv, TypeOK, EdgeTypeOK
    <3>3. Drops(j)
      BY <3>1 DEF StopJob, Drops, Elsewhere, workerVars, procVars
    <3> QED
      BY <3>2, <3>3 DEF Move
  <2>2. CASE UNCHANGED edgeVars
    <3>1. UNCHANGED <<queue, posted, hist, inflight, learning, cur, rpc, pc, task, reports>>
      BY <2>2 DEF StopJob, edgeVars, workerVars, procVars
    <3> QED
      BY <3>1, IdleSteps DEF Move, IInv
  <2> QED
    BY <2>1, <2>2 DEF StopJob
<1>3. CASE \E id \in Ids : SignalStop(id)
  <2>1. UNCHANGED <<queue, posted, hist, inflight, learning, cur, rpc, pc, task, reports>>
    BY <1>3 DEF SignalStop, edgeVars, workerVars, procVars
  <2> QED
    BY <2>1, IdleSteps DEF Move, IInv
<1> QED
  BY <1>1, <1>2, <1>3 DEF ClientStep

\* A granted claim moves its job from the queue to the worker, or to nobody.
LEMMA GrantMoves ==
    ASSUME IInv, RecordInv, NEW w \in Workers, NEW idle \in SUBSET Workers,
           NEW j \in queue, claimGranted(w, j, idle), UNCHANGED <<posted, reports, cur, pc, task>>,
           \A v \in Workers : rpc'[v] = rpc[v] \/ (v = w /\ rpc'[v].job = j)
    PROVE  Move
<1>1. j \in Jobs
  BY DEF IInv, TypeOK, EdgeTypeOK
<1>2. Grants(w, j)
  BY DEF claimGranted, Grants, RunningOn
<1> QED
  BY <1>1, <1>2 DEF Move

LEMMA ClaimMoves ==
    ASSUME IInv, RecordInv, NEW w \in Workers, ClaimStep(w)
    PROVE  Move
<1> USE DEF IInv, TypeOK, EdgeTypeOK, WorkerTypeOK, NetTypeOK, RecordInv
<1>1. CASE ListJobs(w)
  <2>1. UNCHANGED <<queue, posted, hist, inflight, learning, cur, rpc, pc, task, reports>>
    BY <1>1 DEF ListJobs, listJobs, edgeVars, netVars, procVars
  <2> QED
    BY <2>1, IdleSteps DEF Move
<1>2. CASE \E j \in Jobs : SendClaim(w, j)
  <2>1. UNCHANGED <<queue, posted, hist, inflight, learning, cur, pc, task, reports>>
    BY <1>2 DEF SendClaim, claimFailed, edgeVars, workerVars, procVars
  <2>2. \A v \in Workers : rpc'[v] = rpc[v] \/ (rpc[v].pc = "none" /\ rpc'[v].pc = "open")
    BY <1>2 DEF SendClaim
  <2>3. \A v \in Workers, j \in Jobs : Holds(v, j)' <=> Holds(v, j)
    BY <2>1, <2>2 DEF Holds
  <2>4. \A v \in Workers : pc[v] = "report" => task[v] \in Jobs
    BY DEF Shape
  <2>5. Passes
    BY <2>1, <2>3, <2>4 DEF Passes, Carries, ReportedOnce
  <2> QED
    BY <2>5 DEF Move
<1>3. CASE GrantClaim(w)
  <2> PICK j \in Queued(IdOf[rpc[w].job]) :
              /\ claimGranted(w, j, rpc[w].idle)
              /\ rpc' = [rpc EXCEPT ![w] = [pc |-> "granted", job |-> j, idle |-> {}]]
    BY <1>3 DEF GrantClaim
  <2>1. \A v \in Workers : rpc'[v] = rpc[v] \/ (v = w /\ rpc'[v].job = j)
    OBVIOUS
  <2>2. UNCHANGED <<posted, reports, cur, pc, task>>
    BY <1>3 DEF GrantClaim, workerVars, procVars
  <2>3. j \in queue /\ rpc[w].idle \in SUBSET Workers
    BY DEF Queued
  <2> HIDE DEF IInv, RecordInv
  <2> QED
    BY <2>1, <2>2, <2>3, GrantMoves
<1>4. CASE RefuseClaim(w) \/ ClaimTimeout(w)
  <2>1. UNCHANGED <<queue, posted, hist, inflight, learning, cur, pc, task, reports>>
    BY <1>4 DEF RefuseClaim, ClaimTimeout, claimRefused, claimFailed, edgeVars, procVars
  <2>2. rpc' = [rpc EXCEPT ![w] = NoRpc]
    BY <1>4 DEF RefuseClaim, ClaimTimeout
  <2>3. Passes
    BY <2>1, <2>2 DEF Passes, Carries, Holds, ReportedOnce, NoRpc
  <2> QED
    BY <2>3 DEF Move
<1>5. CASE ReceiveGrant(w)
  <2>1. UNCHANGED <<queue, posted, hist, inflight, learning, pc, task, reports>>
    BY <1>5 DEF ReceiveGrant, claimSucceeded, edgeVars, procVars
  <2>2. /\ rpc[w].pc = "granted"
        /\ rpc' = [rpc EXCEPT ![w] = NoRpc]
        /\ cur' = [cur EXCEPT ![w] = rpc[w].job]
    BY <1>5 DEF ReceiveGrant, claimSucceeded
  <2>3. Passes
    BY <2>1, <2>2 DEF Passes, Carries, Holds, ReportedOnce, NoRpc
  <2> QED
    BY <2>3 DEF Move
<1> QED
  BY <1>1, <1>2, <1>3, <1>4, <1>5 DEF ClaimStep

\* The processor goes on to another place, or ends its task.
LEMMA RunMoves ==
    ASSUME IInv, RecordInv, NEW w \in Workers, RunTask(w)
    PROVE  Move
<1> USE DEF IInv, TypeOK, EdgeTypeOK, WorkerTypeOK, NetTypeOK, RecordInv
<1>1. UNCHANGED <<queue, posted, hist, inflight, learning, rpc, reports>>
  BY DEF RunTask, edgeVars, netVars
<1>2. CASE processTask(w) \/ startWorkload(w)
  <2>1. /\ UNCHANGED cur
        /\ \A v \in Workers \ {w} : pc'[v] = pc[v] /\ task'[v] = task[v]
        /\ pc'[w] # "report"
    BY <1>2 DEF processTask, startWorkload
  <2>2. \A v \in Workers, j \in Jobs : Carries(v, j)' => Carries(v, j)
    BY <1>1, <2>1 DEF Carries, Holds
  <2>3. \A v \in Workers : pc'[v] = "report" => ~Holds(v, task[v])'
    BY <1>1, <2>1 DEF Holds, ReportedOnce
  <2>4. \A v \in Workers : inflight'[v] <= inflight[v]
    BY <1>1
  <2> HIDE DEF IInv, RecordInv
  <2>5. Passes
    BY <1>1, <2>2, <2>3, <2>4 DEF Passes
  <2> QED
    BY <2>5 DEF Move
<1>3. CASE prepareFails(w) \/ \E o \in Outcomes : finishWorkload(w, o)
  <2>1. /\ pc[w] \in {"prepare", "run"}
        /\ cur' = [cur EXCEPT ![w] = NoJob]
        /\ pc' = [pc EXCEPT ![w] = "report"]
        /\ UNCHANGED task
    BY <1>3 DEF prepareFails, finishWorkload, finalize
  <2>2. cur[w] = task[w] /\ cur[w] \in Jobs /\ rpc[w].pc # "granted"
    BY <2>1 DEF Shape, ProcessorOwnsTask
  <2>3. Holds(w, task[w]) /\ ~Holds(w, task[w])'
    BY <1>1, <2>1, <2>2 DEF Holds
  <2>4. Passes
    BY <1>1, <2>1, <2>3 DEF Passes, Carries, Holds, ReportedOnce
  <2> QED
    BY <2>4 DEF Move
<1> QED
  BY <1>2, <1>3 DEF RunTask

LEMMA TaskMoves ==
    ASSUME IInv, RecordInv, NEW w \in Workers, TaskStep(w) \/ TagStep(w)
    PROVE  Move
<1> USE DEF IInv, TypeOK, EdgeTypeOK, WorkerTypeOK, NetTypeOK, RecordInv
<1>1. CASE ReportTask(w)
  <2>1. Reports(w)
    <3>1. UNCHANGED <<queue, posted, hist, inflight, learning, cur, rpc>>
      BY <1>1 DEF ReportTask, returnFromTask, edgeVars
    <3>2. /\ pc[w] = "report"
          /\ pc' = [pc EXCEPT ![w] = "idle"]
          /\ task' = [task EXCEPT ![w] = NoJob]
      BY <1>1 DEF ReportTask, returnFromTask, clearRun
    <3>3. reports' = reports \cup {[node |-> w, job |-> task[w], status |-> outcome[w]]}
      BY <1>1 DEF ReportTask
    <3> QED
      BY <3>1, <3>2, <3>3 DEF Reports
  <2> QED
    BY <2>1 DEF Move
<1>2. CASE \/ \E p \in Publishers : UpdateTags(w, p)
           \/ DeliverTags(w)
  <2>1. UNCHANGED <<queue, posted, hist, inflight, learning, cur, rpc, pc, task, reports>>
    BY <1>2 DEF UpdateTags, metricsTick, readTask, SetTags, DeliverTags,
                edgeVars, netVars, procVars
  <2> QED
    BY <2>1, IdleSteps DEF Move
<1> HIDE DEF IInv, RecordInv
<1> QED
  BY <1>1, <1>2, RunMoves DEF TaskStep, TagStep

LEMMA EventMoves == IInv /\ RecordInv /\ EventStep => Move
<1> SUFFICES ASSUME IInv, RecordInv, EventStep PROVE Move
  OBVIOUS
<1> USE DEF IInv, TypeOK, EdgeTypeOK, WorkerTypeOK, NetTypeOK, RecordInv
<1>1. CASE \E h \in orphans : FinishOrphan(h)
  <2> PICK h \in orphans : FinishOrphan(h)
    BY <1>1
  <2>1. UNCHANGED <<posted, reports, cur, rpc, pc, task>>
    BY DEF FinishOrphan, workerVars, procVars
  <2>2. CASE \E j \in Queued(IdOf[h.job]) : claimGranted(h.node, j, h.idle)
    <3>1. PICK j \in Queued(IdOf[h.job]) : claimGranted(h.node, j, h.idle)
      BY <2>2
    <3>2. j \in queue /\ h.node \in Workers /\ h.idle \in SUBSET Workers
      BY DEF Queued, Handler
    <3> HIDE DEF IInv, RecordInv
    <3> QED
      BY <2>1, <3>1, <3>2, GrantMoves
  <2>3. CASE claimRefused(h.node, IdOf[h.job], h.idle)
    BY <2>1, <2>3, IdleSteps DEF claimRefused, edgeVars, Move
  <2> QED
    BY <2>2, <2>3 DEF FinishOrphan
<1>2. CASE \E c \in cancels : DeliverCancel(c)
  <2>1. UNCHANGED <<queue, posted, hist, inflight, learning, cur, rpc, pc, task, reports>>
    BY <1>2 DEF DeliverCancel, requestCancel, edgeVars
  <2> QED
    BY <2>1, IdleSteps DEF Move
<1>3. CASE \E r \in reports : DeliverReport(r)
  <2> PICK r \in reports : DeliverReport(r)
    BY <1>3
  <2>1. Delivers(r)
    BY DEF DeliverReport, Delivers, Elsewhere, workerVars, procVars
  <2> QED
    BY <2>1 DEF Move
<1>4. CASE LoseEvent
  <2>1. UNCHANGED <<queue, posted, hist, inflight, learning, cur, rpc, pc, task>>
    BY <1>4 DEF LoseEvent, edgeVars, workerVars, procVars
  <2>2. reports' \subseteq reports
    BY <1>4 DEF LoseEvent
  <2> QED
    BY <2>1, <2>2, IdleSteps DEF Move
<1>5. CASE HandleMemberEvent
  <2>1. UNCHANGED <<queue, posted, hist, learning, cur, rpc, pc, task, reports>>
    BY <1>5 DEF HandleMemberEvent, addNode, removeNode, workerVars, procVars
  <2>2. \/ inflight' = inflight
        \/ \E v \in Workers : inflight' = [inflight EXCEPT ![v] = 0]
    <3>1. Head(events) \in MemberEvent
      BY <1>5 DEF HandleMemberEvent
    <3>2. Head(events).node \in Workers
      BY <3>1 DEF MemberEvent
    <3> QED
      BY <1>5, <3>2 DEF HandleMemberEvent, addNode, removeNode
  <2>3. \A w \in Workers : inflight'[w] <= inflight[w]
    <3>1. inflight \in [Workers -> Nat]
      OBVIOUS
    <3> HIDE DEF IInv, RecordInv
    <3> QED
      BY <2>2, <3>1
  <2>4. Passes
    BY <2>1, <2>3 DEF Passes, Carries, Holds, ReportedOnce
  <2> QED
    BY <2>4 DEF Move
<1>6. CASE LearnFromReport
  <2>1. Learns
    BY <1>6 DEF LearnFromReport, Learns, Elsewhere, netVars, workerVars, procVars
  <2> QED
    BY <2>1 DEF Move
<1> QED
  BY <1>1, <1>2, <1>3, <1>4, <1>5, <1>6 DEF EventStep

LEMMA MemberMoves ==
    ASSUME IInv, RecordInv, NEW w \in Workers, MemberStep(w)
    PROVE  Move
<1> USE DEF IInv, TypeOK, EdgeTypeOK, WorkerTypeOK, NetTypeOK, RecordInv
<1>1. CASE CrashWorker(w)
  <2>1. UNCHANGED <<queue, posted, hist, inflight, learning, reports>>
    BY <1>1 DEF CrashWorker, edgeVars
  <2>2. /\ cur' = [cur EXCEPT ![w] = NoJob]
        /\ rpc' = [rpc EXCEPT ![w] = NoRpc]
        /\ pc' = [pc EXCEPT ![w] = "idle"]
        /\ task' = [task EXCEPT ![w] = NoJob]
    BY <1>1 DEF CrashWorker, stopProcess, clearRun
  <2>3. Passes
    BY <2>1, <2>2 DEF Passes, Carries, Holds, ReportedOnce, NoRpc
  <2> QED
    BY <2>3 DEF Move
<1>2. CASE RestartWorker(w) \/ LoseMember(w) \/ JoinMember(w)
  <2>1. UNCHANGED <<queue, posted, hist, inflight, learning, cur, rpc, pc, task, reports>>
    BY <1>2 DEF RestartWorker, startProcess, LoseMember, JoinMember, edgeVars, workerVars,
                procVars
  <2> QED
    BY <2>1, IdleSteps DEF Move
<1> QED
  BY <1>1, <1>2 DEF MemberStep

LEMMA EveryStepMoves == IInv /\ RecordInv /\ [Next]_vars => Move
<1> SUFFICES ASSUME IInv, RecordInv, [Next]_vars PROVE Move
  OBVIOUS
<1>1. CASE Next
  BY <1>1, ClientMoves, ClaimMoves, TaskMoves, EventMoves, MemberMoves DEF Next, RecordInv
<1>2. CASE UNCHANGED vars
  <2>1. UNCHANGED <<queue, posted, hist, inflight, learning, cur, rpc, pc, task, reports>>
    BY <1>2 DEF vars, edgeVars, workerVars, procVars, netVars
  <2> QED
    BY <2>1, IdleSteps DEF Move, IInv, RecordInv
<1> QED
  BY <1>1, <1>2

-------------------------------------------------------------------------------
(* What the moves keep. Ids are unique here.                               *)

RecordTypes ==
    /\ queue \subseteq posted /\ posted \subseteq Jobs
    /\ hist \in [Ids -> Record]
    /\ inflight \in [Workers -> Nat]
    /\ learning \in Workers \cup {NoWorker}
    /\ reports \subseteq Report
    /\ pc \in [Workers -> {"idle", "prepare", "run", "report"}]

LEMMA TypesOfRecords == IInv => RecordTypes
  BY DEF IInv, TypeOK, EdgeTypeOK, WorkerTypeOK, NetTypeOK, SinglePlace, RecordTypes

\* Who has a job, or reports it, is not to be found otherwise.
LEMMA OnlyRunning ==
    ASSUME RecordTypes, RecordsFollow, NEW j \in Jobs, hist[IdOf[j]].status # "running"
    PROVE  /\ \A w \in Workers : ~Carries(w, j)
           /\ \A r \in reports : r.job # j
<1>1. \A w \in Workers : RunningOn(w).status = "running"
  BY DEF RunningOn
<1>2. \A r \in reports : r.node \in Workers
  BY DEF RecordTypes, Report
<1> QED
  BY <1>1, <1>2 DEF RecordsFollow

LEMMA JobsOfReports == RecordTypes => \A r \in reports : r.job \in Jobs /\ r.node \in Workers
  BY DEF RecordTypes, Report

LEMMA PassesKeepRecords ==
    ASSUME RecordTypes, RecordsFollow, ReportedOnce, Passes
    PROVE  RecordsFollow' /\ ReportedOnce'
  BY DEF RecordTypes, RecordsFollow, ReportedOnce, Passes

LEMMA PostsKeepRecords ==
    ASSUME UniqueIds, RecordTypes, RecordsFollow, ReportedOnce, NEW j \in Jobs, Posts(j)
    PROVE  RecordsFollow' /\ ReportedOnce'
<1> USE DEF RecordTypes, Posts, Elsewhere
<1>1. \A w \in Workers, k \in Jobs : Carries(w, k)' <=> Carries(w, k)
  BY DEF Carries, Holds
<1>2. hist[IdOf[j]].status = "none"
  BY DEF RecordsFollow
<1>3. \A k \in Jobs \ {j} : hist'[IdOf[k]] = hist[IdOf[k]]
  BY DEF UniqueIds
<1>4. hist'[IdOf[j]] = Pending
  OBVIOUS
<1>5. /\ \A w \in Workers : ~Carries(w, j)
      /\ \A r \in reports : r.job # j /\ r.job \in Jobs
  BY <1>2, OnlyRunning, JobsOfReports
<1>6. RecordsFollow'
  BY <1>1, <1>3, <1>4, <1>5 DEF RecordsFollow
<1>7. ReportedOnce'
  <2>1. \A w \in Workers : Holds(w, task[w])' <=> Holds(w, task[w])
    BY DEF Holds
  <2> QED
    BY <1>1, <2>1 DEF ReportedOnce
<1> QED
  BY <1>6, <1>7

LEMMA DropsKeepRecords ==
    ASSUME UniqueIds, RecordTypes, RecordsFollow, ReportedOnce, NEW j \in Jobs, Drops(j)
    PROVE  RecordsFollow' /\ ReportedOnce'
<1> USE DEF RecordTypes, Drops, Elsewhere
<1>1. \A w \in Workers, k \in Jobs : Carries(w, k)' <=> Carries(w, k)
  BY DEF Carries, Holds
<1>2. hist[IdOf[j]] = Pending
  BY DEF RecordsFollow
<1>3. \A k \in Jobs \ {j} : hist'[IdOf[k]] = hist[IdOf[k]]
  BY DEF UniqueIds
<1>4. /\ \A w \in Workers : ~Carries(w, j)
      /\ \A r \in reports : r.job # j /\ r.job \in Jobs
  BY <1>2, OnlyRunning, JobsOfReports DEF Pending
<1>5. RecordsFollow'
  <2>1. \A k \in Jobs \ posted' : hist'[IdOf[k]].status = "none"
    <3>1. \A k \in Jobs \ posted' : k \in Jobs \ {j} /\ k \in Jobs \ posted
      OBVIOUS
    <3> QED
      BY <1>3, <3>1 DEF RecordsFollow
  <2>2. \A k \in queue' : hist'[IdOf[k]] = Pending
    <3>1. \A k \in queue' : k \in Jobs \ {j} /\ k \in queue
      OBVIOUS
    <3> QED
      BY <1>3, <3>1 DEF RecordsFollow
  <2>3. \A w \in Workers, k \in Jobs : Carries(w, k)' => hist'[IdOf[k]] = RunningOn(w)
    BY <1>1, <1>3, <1>4 DEF RecordsFollow
  <2>4. \A r \in reports' : hist'[IdOf[r.job]] = RunningOn(r.node)
    BY <1>3, <1>4 DEF RecordsFollow
  <2>5. \A w \in Workers : RunningOn(w)' = RunningOn(w)
    BY DEF RunningOn
  <2> QED
    BY <2>1, <2>2, <2>3, <2>4, <2>5 DEF RecordsFollow, Pending, RunningOn
<1>6. ReportedOnce'
  <2>1. \A w \in Workers : Holds(w, task[w])' <=> Holds(w, task[w])
    BY DEF Holds
  <2> QED
    BY <1>1, <2>1 DEF ReportedOnce
<1> QED
  BY <1>5, <1>6

LEMMA GrantsKeepRecords ==
    ASSUME UniqueIds, RecordTypes, Shape, RecordsFollow, ReportedOnce,
           NEW w \in Workers, NEW j \in Jobs, Grants(w, j)
    PROVE  RecordsFollow' /\ ReportedOnce'
<1> USE DEF RecordTypes, Grants
<1>1. \A v \in Workers, k \in Jobs : Holds(v, k)' => Holds(v, k) \/ (v = w /\ k = j)
  BY DEF Holds
<1>2. \A v \in Workers, k \in Jobs : Carries(v, k)' => Carries(v, k) \/ (v = w /\ k = j)
  BY <1>1 DEF Carries
<1>3. hist[IdOf[j]] = Pending
  BY DEF RecordsFollow
<1>4. \A k \in Jobs \ {j} : hist'[IdOf[k]] = hist[IdOf[k]]
  BY DEF UniqueIds
<1>5. hist'[IdOf[j]] = RunningOn(w)
  OBVIOUS
<1>6. /\ \A v \in Workers : ~Carries(v, j)
      /\ \A r \in reports : r.job # j /\ r.job \in Jobs
  BY <1>3, OnlyRunning, JobsOfReports DEF Pending
<1>7. RecordsFollow'
  BY <1>2, <1>4, <1>5, <1>6 DEF RecordsFollow
<1>8. ReportedOnce'
  <2>1. \A v \in Workers : pc[v] = "report" => task[v] \in Jobs /\ task[v] # j
    BY <1>6 DEF Shape, Carries
  <2>2. \A v \in Workers : pc'[v] = "report" => ~Holds(v, task[v])'
    BY <1>1, <2>1 DEF ReportedOnce
  <2> QED
    BY <1>2, <1>6, <2>2 DEF ReportedOnce
<1> QED
  BY <1>7, <1>8

LEMMA ReportsKeepRecords ==
    ASSUME UniqueIds, RecordTypes, Shape, RecordsFollow, ReportedOnce,
           NEW w \in Workers, Reports(w)
    PROVE  RecordsFollow' /\ ReportedOnce'
<1> PICK j : j = task[w]
  OBVIOUS
<1> PICK r : r = [node |-> w, job |-> j, status |-> outcome[w]]
  OBVIOUS
<1> USE DEF RecordTypes, Reports
<1>1. j \in Jobs /\ Carries(w, j) /\ ~Holds(w, j)
  BY DEF Shape, Carries, ReportedOnce
<1>2. hist[IdOf[j]] = RunningOn(w)
  BY <1>1 DEF RecordsFollow
<1>3. \A v \in Workers, k \in Jobs : Holds(v, k)' <=> Holds(v, k)
  BY DEF Holds
<1>4. \A v \in Workers : pc'[v] = "report" => v # w /\ pc[v] = "report" /\ task'[v] = task[v]
  OBVIOUS
<1>5. \A v \in Workers, k \in Jobs : Carries(v, k)' => Carries(v, k)
  BY <1>3, <1>4 DEF Carries
<1>6. \A v \in Workers : ~Carries(v, j)'
  <2> SUFFICES ASSUME NEW v \in Workers, Carries(v, j)' PROVE FALSE
    OBVIOUS
  <2>1. hist[IdOf[j]] = RunningOn(v)
    BY <1>1, <1>5 DEF RecordsFollow
  <2>2. v = w
    BY <1>2, <2>1 DEF RunningOn
  <2> QED
    BY <1>1, <1>3, <1>4, <2>2 DEF Carries
<1>7. \A s \in reports : s.job # j
  BY <1>1 DEF ReportedOnce
<1>8. RecordsFollow'
  <2>1. reports' = reports \cup {r}
    OBVIOUS
  <2>2. r.job = j /\ r.node = w
    OBVIOUS
  <2> QED
    BY <1>2, <1>5, <2>1, <2>2 DEF RecordsFollow
<1>9. ReportedOnce'
  <2>1. reports' = reports \cup {r}
    OBVIOUS
  <2>2. r.job = j
    OBVIOUS
  <2>3. \A v \in Workers : pc'[v] = "report" => ~Holds(v, task[v])'
    BY <1>4 DEF ReportedOnce, Holds
  <2> QED
    BY <1>5, <1>6, <1>7, <2>1, <2>2, <2>3 DEF ReportedOnce
<1> QED
  BY <1>8, <1>9

\* The record of a reported job takes the status in the report.
LEMMA DeliveredRecord ==
    ASSUME RecordTypes, RecordsFollow, NEW r \in reports, Delivers(r)
    PROVE  /\ r.job \in Jobs /\ r.node \in Workers /\ r.status \in Outcomes
           /\ hist[IdOf[r.job]] = RunningOn(r.node)
           /\ hist' = [hist EXCEPT ![IdOf[r.job]] = [status |-> r.status, node |-> r.node]]
<1>1. r.job \in Jobs /\ r.node \in Workers /\ r.status \in Outcomes
  BY DEF RecordTypes, Report
<1>2. hist[IdOf[r.job]] = RunningOn(r.node)
  BY DEF RecordsFollow
<1> QED
  BY <1>1, <1>2 DEF Delivers, recordCompletion, RunningOn, RecordTypes

LEMMA DeliversKeepRecords ==
    ASSUME UniqueIds, RecordTypes, RecordsFollow, ReportedOnce, NEW r \in reports, Delivers(r)
    PROVE  RecordsFollow' /\ ReportedOnce'
<1> USE DEF Elsewhere
<1>1. /\ r.job \in Jobs
      /\ hist[IdOf[r.job]] = RunningOn(r.node)
      /\ hist' = [hist EXCEPT ![IdOf[r.job]] = [status |-> r.status, node |-> r.node]]
  BY DeliveredRecord
<1>2. \A k \in Jobs \ {r.job} : hist'[IdOf[k]] = hist[IdOf[k]]
  BY <1>1 DEF UniqueIds, RecordTypes
<1>3. \A w \in Workers, k \in Jobs : Carries(w, k)' <=> Carries(w, k)
  BY DEF Carries, Holds, Delivers
<1>4. /\ \A w \in Workers : ~Carries(w, r.job)
      /\ \A s \in reports \ {r} : s.job # r.job /\ s.job \in Jobs
  BY <1>1, JobsOfReports DEF ReportedOnce
<1>5. r.job \in posted /\ r.job \notin queue
  BY <1>1 DEF RecordsFollow, RunningOn, Pending
<1>6. UNCHANGED <<queue, posted>> /\ reports' = reports \ {r}
  BY DEF Delivers, recordCompletion
<1>7. RecordsFollow'
  <2>1. \A k \in Jobs \ posted' : hist'[IdOf[k]].status = "none"
    <3>1. \A k \in Jobs \ posted' : k \in Jobs \ {r.job} /\ k \in Jobs \ posted
      BY <1>5, <1>6
    <3> QED
      BY <1>2, <3>1 DEF RecordsFollow
  <2>2. \A k \in queue' : hist'[IdOf[k]] = Pending
    <3>1. \A k \in queue' : k \in Jobs \ {r.job} /\ k \in queue
      BY <1>5, <1>6 DEF RecordTypes
    <3> QED
      BY <1>2, <3>1 DEF RecordsFollow
  <2>3. \A w \in Workers, k \in Jobs : Carries(w, k)' => hist'[IdOf[k]] = RunningOn(w)
    BY <1>2, <1>3, <1>4 DEF RecordsFollow
  <2>4. \A s \in reports' : hist'[IdOf[s.job]] = RunningOn(s.node)
    BY <1>2, <1>4, <1>6 DEF RecordsFollow
  <2> QED
    BY <2>1, <2>2, <2>3, <2>4 DEF RecordsFollow, Pending, RunningOn
<1>8. ReportedOnce'
  <2>1. \A w \in Workers : Holds(w, task[w])' <=> Holds(w, task[w])
    BY DEF Holds, Delivers
  <2>2. UNCHANGED pc
    BY DEF Delivers
  <2> QED
    BY <1>3, <1>6, <2>1, <2>2 DEF ReportedOnce
<1> QED
  BY <1>7, <1>8

LEMMA LearnsKeepRecords ==
    ASSUME RecordTypes, RecordsFollow, ReportedOnce, Learns
    PROVE  RecordsFollow' /\ ReportedOnce'
<1>1. UNCHANGED <<queue, posted, hist, reports, cur, rpc, pc, task>>
  BY DEF Learns, learnCompletion, Elsewhere
<1> QED
  BY <1>1 DEF RecordTypes, RecordsFollow, ReportedOnce, Carries, Holds

-------------------------------------------------------------------------------
(* The counters. *)

LEMMA UnfinishedIsFinite ==
    ASSUME IsFiniteSet(posted), NEW w \in Workers
    PROVE  IsFiniteSet(Unfinished(w)) /\ Cardinality(Unfinished(w)) \in Nat
<1>1. Unfinished(w) \in SUBSET posted
  BY DEF Unfinished
<1>2. IsFiniteSet(Unfinished(w))
  BY <1>1, FS_Subset
<1> QED
  BY <1>2, FS_CardinalityType

\* What a move leaves to show: each worker's counter goes with its jobs, and a job
\* that is recorded as completed is made up for until the scheduler has learned of it.
LEMMA CountersFollow ==
    ASSUME RecordTypes, RecordTypes', CountersBounded, IsFiniteSet(posted'),
           \A w \in Workers :
              \/ /\ inflight'[w] <= inflight[w]
                 /\ Unlearned(w)' = Unlearned(w) /\ Unfinished(w)' = Unfinished(w)
              \/ /\ inflight'[w] = inflight[w] + 1
                 /\ Unlearned(w)' = Unlearned(w)
                 /\ \E j : j \notin Unfinished(w) /\ Unfinished(w)' = Unfinished(w) \cup {j}
              \/ /\ inflight'[w] <= inflight[w]
                 /\ Unlearned(w) = 0 /\ Unlearned(w)' = 1
                 /\ \E j \in Unfinished(w) : Unfinished(w)' = Unfinished(w) \ {j}
              \/ /\ inflight'[w] = 0 \/ inflight'[w] = inflight[w] - 1
                 /\ Unlearned(w) = 1 /\ Unlearned(w)' = 0
                 /\ Unfinished(w)' = Unfinished(w)
    PROVE  CountersBounded'
<1> SUFFICES ASSUME NEW w \in Workers
             PROVE  inflight'[w] <= Cardinality(Unfinished(w)') + Unlearned(w)'
  BY DEF CountersBounded
<1> PICK S : S = Unfinished(w)
  OBVIOUS
<1> PICK T : T = Unfinished(w)'
  OBVIOUS
<1> PICK u : u = Unlearned(w)
  OBVIOUS
<1> PICK v : v = Unlearned(w)'
  OBVIOUS
<1>1. IsFiniteSet(S) /\ Cardinality(S) \in Nat /\ inflight[w] <= Cardinality(S) + u
  BY UnfinishedIsFinite DEF CountersBounded
<1>2. inflight[w] \in Nat /\ inflight'[w] \in Nat /\ u \in {0, 1} /\ v \in {0, 1}
  BY DEF RecordTypes, Unlearned
<1>3. CASE inflight'[w] <= inflight[w] /\ v = u /\ T = S
  BY <1>1, <1>2, <1>3
<1>4. CASE inflight'[w] = inflight[w] + 1 /\ v = u /\ \E j : j \notin S /\ T = S \cup {j}
  <2> PICK j : j \notin S /\ T = S \cup {j}
    BY <1>4
  <2>1. Cardinality(T) = Cardinality(S) + 1
    BY <1>1, FS_AddElement
  <2> QED
    BY <1>1, <1>2, <1>4, <2>1
<1>5. CASE inflight'[w] <= inflight[w] /\ u = 0 /\ v = 1 /\ \E j \in S : T = S \ {j}
  <2> PICK j \in S : T = S \ {j}
    BY <1>5
  <2>1. IsFiniteSet(T) /\ Cardinality(T) = Cardinality(S) - 1
    BY <1>1, FS_RemoveElement
  <2> QED
    BY <1>1, <1>2, <1>5, <2>1
<1>6. CASE /\ inflight'[w] = 0 \/ inflight'[w] = inflight[w] - 1
           /\ u = 1 /\ v = 0 /\ T = S
  BY <1>1, <1>2, <1>6
<1> QED
  BY <1>3, <1>4, <1>5, <1>6

LEMMA MovesKeepCounters ==
    ASSUME UniqueIds, RecordTypes, RecordTypes', RecordInv, Move
    PROVE  CountersBounded'
<1>1. IsFiniteSet(posted)
  BY DEF RecordInv, CountersBounded
<1>2. CASE Passes \/ \E w \in Workers : Reports(w)
  <2>1. UNCHANGED <<posted, hist, learning>> /\ \A w \in Workers : inflight'[w] <= inflight[w]
    BY <1>2 DEF Passes, Reports, RecordTypes
  <2>2. \A w \in Workers : Unfinished(w)' = Unfinished(w) /\ Unlearned(w)' = Unlearned(w)
    BY <2>1 DEF Unfinished, Unlearned
  <2> QED
    BY <1>1, <2>1, <2>2, CountersFollow DEF RecordInv
<1>3. CASE \E j \in Jobs : Posts(j)
  <2> PICK j \in Jobs : Posts(j)
    BY <1>3
  <2>1. hist[IdOf[j]].status = "none" /\ hist'[IdOf[j]] = Pending
    BY DEF RecordInv, RecordsFollow, Posts, RecordTypes
  <2>2. \A k \in posted : hist'[IdOf[k]] = hist[IdOf[k]]
    BY DEF UniqueIds, RecordTypes, Posts
  <2>3. posted' = posted \cup {j} /\ UNCHANGED <<inflight, learning>>
    BY DEF Posts
  <2>4. \A w \in Workers : Unfinished(w)' = Unfinished(w) /\ Unlearned(w)' = Unlearned(w)
    BY <2>1, <2>2, <2>3 DEF Unfinished, Unlearned, Pending, Posts
  <2>5. \A w \in Workers : inflight'[w] <= inflight[w]
    BY <2>3 DEF RecordTypes
  <2>6. IsFiniteSet(posted')
    BY <1>1, <2>3, FS_AddElement
  <2> QED
    BY <2>4, <2>5, <2>6, CountersFollow DEF RecordInv
<1>4. CASE \E j \in Jobs : Drops(j)
  <2> PICK j \in Jobs : Drops(j)
    BY <1>4
  <2>1. /\ hist[IdOf[j]] = Pending
        /\ hist' = [hist EXCEPT ![IdOf[j]].status = "stopped"]
    BY DEF RecordInv, RecordsFollow, Drops
  <2>2. hist'[IdOf[j]].node = NoWorker /\ hist[IdOf[j]].node = NoWorker
    BY <2>1 DEF RecordTypes, Pending, Record
  <2>3. \A k \in Jobs \ {j} : hist'[IdOf[k]] = hist[IdOf[k]]
    BY <2>1 DEF UniqueIds, RecordTypes
  <2>4. UNCHANGED <<posted, inflight, learning>>
    BY DEF Drops
  <2>5. \A w \in Workers : Unfinished(w)' = Unfinished(w) /\ Unlearned(w)' = Unlearned(w)
    BY <2>2, <2>3, <2>4 DEF Unfinished, Unlearned, RecordTypes
  <2>6. \A w \in Workers : inflight'[w] <= inflight[w]
    BY <2>4 DEF RecordTypes
  <2> QED
    BY <1>1, <2>4, <2>5, <2>6, CountersFollow DEF RecordInv
<1>5. CASE \E w \in Workers, j \in Jobs : Grants(w, j)
  <2> PICK w \in Workers, j \in Jobs : Grants(w, j)
    BY <1>5
  <2>1. hist[IdOf[j]] = Pending /\ hist'[IdOf[j]] = RunningOn(w) /\ j \in posted
    BY DEF RecordInv, RecordsFollow, Grants, RecordTypes
  <2>2. \A k \in posted \ {j} : hist'[IdOf[k]] = hist[IdOf[k]]
    BY DEF UniqueIds, RecordTypes, Grants
  <2>3. /\ UNCHANGED <<posted, learning>>
        /\ inflight' = [inflight EXCEPT ![w] = @ + 1]
        /\ \A v \in Workers : Unlearned(v)' = Unlearned(v)
    BY DEF Grants, Unlearned
  <2>4. j \notin Unfinished(w) /\ Unfinished(w)' = Unfinished(w) \cup {j}
    BY <2>1, <2>2, <2>3 DEF Unfinished, Pending, RunningOn
  <2>5. \A v \in Workers \ {w} : Unfinished(v)' = Unfinished(v)
    BY <2>1, <2>2, <2>3 DEF Unfinished, Pending, RunningOn
  <2>6. /\ inflight'[w] = inflight[w] + 1
        /\ \A v \in Workers \ {w} : inflight'[v] <= inflight[v]
    BY <2>3 DEF RecordTypes
  <2> QED
    BY <1>1, <2>3, <2>4, <2>5, <2>6, CountersFollow DEF RecordInv
<1>6. CASE \E r \in reports : Delivers(r)
  <2> PICK r \in reports : Delivers(r)
    BY <1>6
  <2> PICK j : j = r.job
    OBVIOUS
  <2> PICK w : w = r.node
    OBVIOUS
  <2>1. /\ j \in Jobs /\ w \in Workers
        /\ hist[IdOf[j]] = RunningOn(w)
        /\ hist' = [hist EXCEPT ![IdOf[j]] = [status |-> r.status, node |-> w]]
    BY DeliveredRecord DEF RecordInv
  <2>2. j \in posted
    BY <2>1 DEF RecordInv, RecordsFollow, RunningOn
  <2>3. hist'[IdOf[j]] = [status |-> r.status, node |-> w]
    BY <2>1 DEF RecordTypes
  <2>4. \A k \in posted \ {j} : hist'[IdOf[k]] = hist[IdOf[k]]
    BY <2>1 DEF UniqueIds, RecordTypes
  <2>5. /\ UNCHANGED <<posted, inflight>>
        /\ learning = NoWorker
        /\ learning' = IF r.status = "completed" THEN w ELSE NoWorker
    BY DEF Delivers, recordCompletion
  <2>6. \A v \in Workers \ {w} : Unfinished(v)' = Unfinished(v)
    BY <2>1, <2>3, <2>4, <2>5 DEF Unfinished, RunningOn
  <2>7. j \in Unfinished(w)
    BY <2>1, <2>2 DEF Unfinished, RunningOn
  <2>8. Unfinished(w)' = IF r.status = "completed" THEN Unfinished(w) \ {j} ELSE Unfinished(w)
    BY <2>1, <2>2, <2>3, <2>4, <2>5, <2>7 DEF Unfinished, RunningOn
  <2>9. /\ \A v \in Workers \ {w} : Unlearned(v)' = Unlearned(v)
        /\ r.status = "completed" => Unlearned(w) = 0 /\ Unlearned(w)' = 1
        /\ r.status # "completed" => Unlearned(w)' = Unlearned(w)
    BY <2>1, <2>5 DEF Unlearned
  <2>10. \A v \in Workers : inflight'[v] <= inflight[v]
    BY <2>5 DEF RecordTypes
  <2> QED
    BY <1>1, <2>5, <2>6, <2>7, <2>8, <2>9, <2>10, CountersFollow DEF RecordInv
<1>7. CASE Learns
  <2>1. /\ UNCHANGED <<posted, hist>>
        /\ learning \in Workers /\ learning' = NoWorker
    BY <1>7 DEF Learns, learnCompletion, RecordTypes
  <2>2. PICK w \in Workers : w = learning
    BY <2>1
  <2>3. /\ \A v \in Workers \ {w} : inflight'[v] <= inflight[v]
        /\ inflight'[w] = 0 \/ inflight'[w] = inflight[w] - 1
    BY <1>7, <2>2 DEF Learns, learnCompletion, RecordTypes
  <2>4. \A v \in Workers : Unfinished(v)' = Unfinished(v)
    BY <2>1 DEF Unfinished
  <2>5. /\ \A v \in Workers \ {w} : Unlearned(v)' = Unlearned(v)
        /\ Unlearned(w) = 1 /\ Unlearned(w)' = 0
    BY <2>1, <2>2 DEF Unlearned
  <2> QED
    BY <1>1, <2>1, <2>3, <2>4, <2>5, CountersFollow DEF RecordInv
<1> QED
  BY <1>2, <1>3, <1>4, <1>5, <1>6, <1>7 DEF Move

-------------------------------------------------------------------------------
(* The invariant and its theorems. *)

RInv == IInv /\ (UniqueIds => RecordInv)

LEMMA RInvInit == Init => RInv
<1> SUFFICES ASSUME Init PROVE RInv
  OBVIOUS
<1>1. IInv
  BY InvInit
<1>2. RecordsFollow /\ ReportedOnce
  BY DEF Init, EdgeInit, WorkerInit, RecordsFollow, ReportedOnce, Carries, Holds, NoRpc
<1>3. CountersBounded
  <2>1. IsFiniteSet(posted)
    BY FS_EmptySet DEF Init
  <2>2. \A w \in Workers : inflight[w] = 0
    BY DEF Init, EdgeInit
  <2> QED
    BY <2>1, <2>2, UnfinishedIsFinite DEF CountersBounded, Unlearned
<1> QED
  BY <1>1, <1>2, <1>3 DEF RInv, RecordInv

LEMMA MovesKeepRecords ==
    ASSUME UniqueIds, IInv, RecordInv, Move
    PROVE  RecordsFollow' /\ ReportedOnce'
<1>1. RecordTypes /\ Shape
  BY TypesOfRecords DEF IInv
<1> QED
  BY <1>1, PassesKeepRecords, PostsKeepRecords, DropsKeepRecords, GrantsKeepRecords,
     ReportsKeepRecords, DeliversKeepRecords, LearnsKeepRecords DEF Move, RecordInv

LEMMA RInvStep == RInv /\ [Next]_vars => RInv'
<1> SUFFICES ASSUME RInv, [Next]_vars PROVE RInv'
  OBVIOUS
<1>1. IInv /\ IInv'
  BY InvStep DEF RInv
<1>2. ASSUME UniqueIds PROVE RecordInv'
  <2>1. RecordInv /\ Move
    BY <1>1, <1>2, EveryStepMoves DEF RInv
  <2>2. RecordTypes /\ RecordTypes'
    BY <1>1, TypesOfRecords, PTL
  <2> QED
    BY <1>1, <1>2, <2>1, <2>2, MovesKeepRecords, MovesKeepCounters DEF RecordInv
<1>3. UniqueIds' => UniqueIds
  BY DEF UniqueIds
<1> QED
  BY <1>1, <1>2, <1>3 DEF RInv

LEMMA RInvAlways == Spec => []RInv
  BY RInvInit, RInvStep, PTL DEF Spec

\* As long as ids are unique, the record of a queued job says pending, that of
\* a held job running on its holder (addJob, claimJob, handleUserEvent).
THEOREM RecordsCorrect == Spec => []RecordsTrackJobs
<1>1. RInv => RecordsTrackJobs
  BY DEF RInv, RecordInv, RecordsFollow, Carries, RecordsTrackJobs, Pending, RunningOn
<1> QED
  BY <1>1, RInvAlways, PTL

\* As long as ids are unique, the scheduler's counter of a worker (OnAssigned,
\* OnCompleted, RemoveNode) never exceeds the recorded jobs it stands for, but by the
\* one whose completion is recorded and not learned yet (handleUserEvent).
THEOREM InflightCorrect == Spec => []InflightBounded
<1>1. RInv => InflightBounded
  BY DEF RInv, RecordInv, CountersBounded, Unlearned, InflightBounded
<1> QED
  BY <1>1, RInvAlways, PTL

\* The record that is not there names nobody. This holds for any ids.
EmptyRecords == \A id \in Ids : hist[id].status = "none" => hist[id].node = NoWorker

LEMMA EmptyRecordsStay == IInv /\ [Next]_vars /\ EmptyRecords => EmptyRecords'
<1> SUFFICES ASSUME IInv, [Next]_vars, EmptyRecords PROVE EmptyRecords'
  OBVIOUS
<1>types. hist \in [Ids -> Record] /\ queue \subseteq Jobs /\ reports \subseteq Report
  BY DEF IInv, TypeOK, EdgeTypeOK, NetTypeOK
<1>1. CASE UNCHANGED hist
  BY <1>1 DEF EmptyRecords
<1>2. ASSUME NEW i \in Ids, NEW r, r.status # "none", hist' = [hist EXCEPT ![i] = r]
      PROVE  EmptyRecords'
  BY <1>2, <1>types DEF EmptyRecords
<1> HIDE DEF IInv, EmptyRecords
<1>3. ASSUME NEW w, NEW j \in queue, NEW idle, claimGranted(w, j, idle) PROVE EmptyRecords'
  <2>1. IdOf[j] \in Ids /\ hist' = [hist EXCEPT ![IdOf[j]] = RunningOn(w)]
    BY <1>3, <1>types DEF claimGranted, RunningOn
  <2>2. RunningOn(w).status # "none"
    BY DEF RunningOn
  <2> QED
    BY <1>2, <2>1, <2>2
<1>4. CASE ClientStep
  <2>1. ASSUME NEW j \in Jobs, PostJob(j) PROVE EmptyRecords'
    <3>1. IdOf[j] \in Ids /\ hist' = [hist EXCEPT ![IdOf[j]] = Pending]
      BY <2>1 DEF PostJob, addJob, Pending
    <3>2. Pending.status # "none"
      BY DEF Pending
    <3> QED
      BY <1>2, <3>1, <3>2
  <2>2. ASSUME NEW i \in Ids, StopJob(i) PROVE EmptyRecords'
    <3>1. CASE stopQueued(i)
      <4>1. hist' = [hist EXCEPT ![i] = [hist[i] EXCEPT !.status = "stopped"]]
        BY <3>1 DEF stopQueued
      <4>2. [hist[i] EXCEPT !.status = "stopped"].status # "none"
        BY <1>types DEF Record
      <4> QED
        BY <1>2, <4>1, <4>2
    <3> QED
      BY <1>1, <2>2, <3>1 DEF StopJob, edgeVars
  <2>3. ASSUME NEW i \in Ids, SignalStop(i) PROVE UNCHANGED hist
    BY <2>3 DEF SignalStop, edgeVars
  <2> QED
    BY <1>1, <1>4, <2>1, <2>2, <2>3 DEF ClientStep
<1>5. ASSUME NEW w \in Workers, ClaimStep(w) PROVE EmptyRecords'
  <2>1. CASE GrantClaim(w)
    BY <1>3, <2>1 DEF GrantClaim, Queued
  <2>2. CASE ~GrantClaim(w)
    <3>1. UNCHANGED hist
      BY <1>5, <2>2 DEF ClaimStep, ListJobs, SendClaim, RefuseClaim, claimRefused,
                        ReceiveGrant, ClaimTimeout, edgeVars
    <3> QED
      BY <1>1, <3>1
  <2> QED
    BY <2>1, <2>2
<1>6. ASSUME NEW w \in Workers, TaskStep(w) \/ TagStep(w) \/ MemberStep(w)
      PROVE  UNCHANGED hist
  BY <1>6 DEF TaskStep, RunTask, ReportTask, TagStep, UpdateTags, DeliverTags, MemberStep,
              CrashWorker, RestartWorker, LoseMember, JoinMember, edgeVars
<1>7. CASE EventStep
  <2>1. ASSUME NEW h \in orphans, FinishOrphan(h) PROVE EmptyRecords'
    <3>1. CASE \E j \in Queued(IdOf[h.job]) : claimGranted(h.node, j, h.idle)
      BY <1>3, <3>1 DEF Queued
    <3>2. CASE claimRefused(h.node, IdOf[h.job], h.idle)
      BY <1>1, <3>2 DEF claimRefused, edgeVars
    <3> QED
      BY <2>1, <3>1, <3>2 DEF FinishOrphan
  <2>2. ASSUME NEW r \in reports, DeliverReport(r) PROVE EmptyRecords'
    <3> DEFINE n == [status |-> r.status,
                     node |-> IF hist[IdOf[r.job]].node = NoWorker THEN r.node
                              ELSE hist[IdOf[r.job]].node]
    <3>1. UNCHANGED hist \/ hist' = [hist EXCEPT ![IdOf[r.job]] = n]
      BY <2>2 DEF DeliverReport, recordCompletion
    <3>2. n.status # "none" /\ IdOf[r.job] \in Ids
      BY <1>types DEF Report, Outcomes
    <3> HIDE DEF n
    <3> QED
      BY <1>1, <1>2, <3>1, <3>2
  <2>3. ASSUME \/ LearnFromReport \/ LoseEvent \/ HandleMemberEvent
               \/ \E c \in cancels : DeliverCancel(c)
        PROVE  UNCHANGED hist
    BY <2>3 DEF LearnFromReport, learnCompletion, LoseEvent, HandleMemberEvent, addNode, removeNode, DeliverCancel, edgeVars
  <2> QED
    BY <1>1, <1>7, <2>1, <2>2, <2>3 DEF EventStep
<1>8. CASE UNCHANGED vars
  BY <1>1, <1>8 DEF vars, edgeVars
<1> QED
  BY <1>1, <1>4, <1>5, <1>6, <1>7, <1>8 DEF Next

\* Of the moves only those of a job that is not over write its record.
LEMMA MovesMoveRecords ==
    ASSUME IInv, RecordInv, EmptyRecords, Move
    PROVE  JR!RecordNext \/ UNCHANGED hist
<1>1. RecordTypes
  BY TypesOfRecords
<1>2. CASE Passes \/ Learns \/ \E w \in Workers : Reports(w)
  BY <1>2 DEF Passes, Learns, learnCompletion, Reports
<1>3. ASSUME NEW j \in Jobs, Posts(j) PROVE JR!RecordNext
  <2>1. IdOf[j] \in Ids
    OBVIOUS
  <2>2. hist[IdOf[j]] \in Record
    BY <1>1, <2>1 DEF RecordTypes
  <2>3. hist[IdOf[j]].status = "none" /\ hist[IdOf[j]].node = NoWorker
    BY <1>3, <2>1 DEF RecordInv, RecordsFollow, EmptyRecords, Posts
  <2>4. JR!Open(IdOf[j])
    BY <1>3, <2>2, <2>3 DEF JR!Open, Posts, Pending, Record
  <2> QED
    BY <2>1, <2>4 DEF JR!RecordNext
<1>4. ASSUME NEW j \in Jobs, Drops(j) PROVE JR!RecordNext
  <2>1. IdOf[j] \in Ids
    OBVIOUS
  <2>2. hist[IdOf[j]] = Pending
    BY <1>4 DEF RecordInv, RecordsFollow, Drops
  <2>3. hist' = [hist EXCEPT ![IdOf[j]] = [status |-> "stopped", node |-> NoWorker]]
    <3>1. hist' = [hist EXCEPT ![IdOf[j]] = [Pending EXCEPT !.status = "stopped"]]
      BY <1>4, <2>2 DEF Drops
    <3>2. [Pending EXCEPT !.status = "stopped"] = [status |-> "stopped", node |-> NoWorker]
      BY DEF Pending
    <3> QED
      BY <3>1, <3>2
  <2> QED
    BY <2>1, <2>2, <2>3 DEF JR!RecordNext, JR!Withdraw, Pending
<1>5. ASSUME NEW w \in Workers, NEW j \in Jobs, Grants(w, j) PROVE JR!RecordNext
  <2>1. IdOf[j] \in Ids
    OBVIOUS
  <2>2. hist[IdOf[j]] = Pending
    BY <1>5 DEF RecordInv, RecordsFollow, Grants
  <2>3. JR!Assign(IdOf[j], w)
    BY <1>5, <2>2 DEF JR!Assign, Grants, Pending, RunningOn
  <2> QED
    BY <2>1, <2>3 DEF JR!RecordNext
<1>6. ASSUME NEW r \in reports, Delivers(r) PROVE JR!RecordNext
  <2>1. /\ r.job \in Jobs
        /\ hist[IdOf[r.job]] = RunningOn(r.node)
        /\ hist' = [hist EXCEPT ![IdOf[r.job]] = [status |-> r.status, node |-> r.node]]
    BY <1>1, <1>6, DeliveredRecord DEF RecordInv
  <2>2. IdOf[r.job] \in Ids /\ r.node \in Workers /\ r.status \in JR!Outcomes
    BY <1>1, <2>1 DEF RecordTypes, Report, Outcomes, JR!Outcomes
  <2>3. JR!Conclude(IdOf[r.job], r.node, r.status)
    BY <2>1 DEF JR!Conclude, RunningOn
  <2> QED
    BY <2>2, <2>3 DEF JR!RecordNext
<1> QED
  BY <1>2, <1>3, <1>4, <1>5, <1>6 DEF Move

\* As long as ids are unique, the evaluation records implement JobRecord: opened,
\* assigned once, concluded by the worker that they name (addJob, stopJob, claimJob,
\* handleUserEvent).
THEOREM RecordsOnlyMoveOn == Spec => RecordsMoveOn
<1>1. Init => EmptyRecords /\ JR!RecordInit
  BY DEF Init, EdgeInit, EmptyRecords, JR!RecordInit
<1>2. IInv /\ [Next]_vars /\ EmptyRecords => EmptyRecords'
  BY EmptyRecordsStay
<1>3. RInv /\ EmptyRecords /\ [Next]_vars => [UniqueIds => JR!RecordNext]_hist
  BY EveryStepMoves, MovesMoveRecords DEF RInv
<1>4. Spec => []IInv
  BY Invariance
<1> QED
  BY <1>1, <1>2, <1>3, <1>4, RInvAlways, PTL DEF Spec, RecordsMoveOn

-------------------------------------------------------------------------------
(* Member events and the table of nodes.                                   *)

\* A worker without an event in eventCh is in the table iff it is a member;
\* the last of a worker's events says what its membership is.
EventsTell ==
    \A w \in Workers :
        /\ (\A i \in 1..Len(events) : events[i].node # w) => (w \in nodes <=> w \in alive)
        /\ \A i \in 1..Len(events) :
              (/\ events[i].node = w
               /\ \A k \in 1..Len(events) : k > i => events[k].node # w)
              => (events[i].kind = "join" <=> w \in alive)

\* The membership of a worker changes, and the last event says so.
Announces(w, kind) ==
    /\ alive' = IF kind = "join" THEN alive \cup {w} ELSE alive \ {w}
    /\ events' = Append(events, [kind |-> kind, node |-> w])
    /\ UNCHANGED nodes

LEMMA MemberChanges ==
    ASSUME [Next]_vars
    PROVE  \/ UNCHANGED <<nodes, alive, events>>
           \/ \E w \in Workers : Announces(w, "join") \/ Announces(w, "gone")
           \/ HandleMemberEvent
<1> USE DEF edgeVars, workerVars, netVars
<1>1. CASE ClientStep
  BY <1>1 DEF ClientStep, PostJob, addJob, StopJob, stopQueued, SignalStop
<1>2. ASSUME NEW w \in Workers, ClaimStep(w) PROVE UNCHANGED <<nodes, alive, events>>
  BY <1>2 DEF ClaimStep, ListJobs, SendClaim, GrantClaim, claimGranted, RefuseClaim,
              claimRefused, ReceiveGrant, ClaimTimeout
<1>3. ASSUME NEW w \in Workers, TaskStep(w) \/ TagStep(w)
      PROVE  UNCHANGED <<nodes, alive, events>>
  BY <1>3 DEF TaskStep, TagStep, RunTask, ReportTask, UpdateTags, DeliverTags
<1>4. CASE EventStep
  BY <1>4 DEF EventStep, FinishOrphan, claimGranted, claimRefused, DeliverCancel,
              DeliverReport, recordCompletion, LearnFromReport,
              learnCompletion, LoseEvent
<1>5. ASSUME NEW w \in Workers, MemberStep(w)
      PROVE  \/ UNCHANGED <<nodes, alive, events>>
             \/ Announces(w, "join") \/ Announces(w, "gone")
  BY <1>5 DEF MemberStep, CrashWorker, RestartWorker, LoseMember, JoinMember, Announces
<1>6. CASE UNCHANGED vars
  BY <1>6 DEF vars
<1> QED
  BY <1>1, <1>2, <1>3, <1>4, <1>5, <1>6 DEF Next

LEMMA AnnouncedIsTold ==
    ASSUME TypeOK, EventsTell, NEW v \in Workers, NEW kind \in {"join", "gone"},
           Announces(v, kind)
    PROVE  EventsTell'
<1> PICK n : n = Len(events)
  OBVIOUS
<1>1. events \in Seq(MemberEvent)
  BY DEF TypeOK, NetTypeOK
<1>2. /\ n \in Nat
      /\ Len(events') = n + 1
      /\ \A i \in 1..n : events'[i] = events[i]
      /\ events'[n + 1] = [kind |-> kind, node |-> v]
  BY <1>1 DEF Announces
<1> SUFFICES ASSUME NEW w \in Workers
             PROVE  /\ (\A i \in 1..(n + 1) : events'[i].node # w)
                          => (w \in nodes' <=> w \in alive')
                    /\ \A i \in 1..(n + 1) :
                          (/\ events'[i].node = w
                           /\ \A k \in 1..(n + 1) : k > i => events'[k].node # w)
                          => (events'[i].kind = "join" <=> w \in alive')
  BY <1>2 DEF EventsTell
<1>3. CASE w = v
  <2>1. events'[n + 1].node = w /\ n + 1 \in 1..(n + 1)
    BY <1>2, <1>3
  <2>2. \A i \in 1..(n + 1) : i = n + 1 \/ n + 1 > i
    BY <1>2
  <2>3. events'[n + 1].kind = "join" <=> w \in alive'
    BY <1>2, <1>3 DEF Announces
  <2> QED
    BY <2>1, <2>2, <2>3
<1>4. CASE w # v
  <2>1. (w \in alive' <=> w \in alive) /\ (w \in nodes' <=> w \in nodes)
    BY <1>4 DEF Announces
  <2>2. events'[n + 1].node # w
    BY <1>2, <1>4
  <2>3. \A i \in 1..(n + 1) : i \in 1..n \/ i = n + 1
    BY <1>2
  <2>4. \A i \in 1..n : i \in 1..(n + 1)
    BY <1>2
  <2>5. (\A i \in 1..(n + 1) : events'[i].node # w) => (\A i \in 1..n : events[i].node # w)
    BY <1>2, <2>4
  <2>6. ASSUME NEW i \in 1..(n + 1), events'[i].node = w,
               \A k \in 1..(n + 1) : k > i => events'[k].node # w
        PROVE  events'[i].kind = "join" <=> w \in alive'
    <3>1. i \in 1..n /\ events[i].node = w
      BY <1>2, <2>2, <2>3, <2>6
    <3>2. \A k \in 1..n : k > i => events[k].node # w
      BY <1>2, <2>4, <2>6
    <3> QED
      BY <1>2, <2>1, <3>1, <3>2 DEF EventsTell
  <2> QED
    BY <2>1, <2>5, <2>6 DEF EventsTell
<1> QED
  BY <1>3, <1>4

LEMMA HandledIsTold ==
    ASSUME TypeOK, EventsTell, HandleMemberEvent
    PROVE  EventsTell'
<1> PICK n : n = Len(events)
  OBVIOUS
<1> PICK e : e = events[1]
  OBVIOUS
<1>1. events \in Seq(MemberEvent) /\ events # <<>>
  BY DEF TypeOK, NetTypeOK, HandleMemberEvent
<1>2. /\ n \in Nat \ {0}
      /\ Len(events') = n - 1
      /\ \A i \in 1..(n - 1) : events'[i] = events[i + 1] /\ i + 1 \in 1..n
      /\ e = Head(events) /\ e \in MemberEvent
  BY <1>1 DEF HandleMemberEvent
<1>3. /\ nodes' = IF e.kind = "join" THEN nodes \cup {e.node} ELSE nodes \ {e.node}
      /\ UNCHANGED alive
  BY <1>2 DEF HandleMemberEvent, addNode, removeNode
<1>4. \A k \in 1..n : k = 1 \/ (k - 1 \in 1..(n - 1) /\ events[k] = events'[k - 1])
  BY <1>2
<1> SUFFICES ASSUME NEW w \in Workers
             PROVE  /\ (\A i \in 1..(n - 1) : events'[i].node # w)
                          => (w \in nodes' <=> w \in alive')
                    /\ \A i \in 1..(n - 1) :
                          (/\ events'[i].node = w
                           /\ \A k \in 1..(n - 1) : k > i => events'[k].node # w)
                          => (events'[i].kind = "join" <=> w \in alive')
  BY <1>2 DEF EventsTell
<1>5. ASSUME \A i \in 1..(n - 1) : events'[i].node # w
      PROVE  w \in nodes' <=> w \in alive'
  <2>1. \A k \in 1..n : k # 1 => events[k].node # w
    BY <1>4, <1>5
  <2>2. CASE e.node = w
    <3>1. 1 \in 1..n /\ events[1].node = w /\ \A k \in 1..n : k > 1 => events[k].node # w
      BY <1>2, <2>1, <2>2
    <3>2. e.kind = "join" <=> w \in alive
      BY <3>1 DEF EventsTell
    <3> QED
      BY <1>3, <2>2, <3>2
  <2>3. CASE e.node # w
    <3>1. \A k \in 1..n : events[k].node # w
      BY <2>1, <2>3
    <3> QED
      BY <1>3, <2>3, <3>1 DEF EventsTell
  <2> QED
    BY <2>2, <2>3
<1>6. ASSUME NEW i \in 1..(n - 1), events'[i].node = w,
             \A k \in 1..(n - 1) : k > i => events'[k].node # w
      PROVE  events'[i].kind = "join" <=> w \in alive'
  <2>1. i + 1 \in 1..n /\ events[i + 1].node = w
    BY <1>2, <1>6
  <2>2. \A k \in 1..n : k > i + 1 => events[k].node # w
    <3> SUFFICES ASSUME NEW k \in 1..n, k > i + 1 PROVE events[k].node # w
      OBVIOUS
    <3>1. k - 1 \in 1..(n - 1) /\ events[k] = events'[k - 1] /\ k - 1 > i
      BY <1>2, <1>4
    <3> QED
      BY <1>6, <3>1
  <2> QED
    BY <1>2, <1>3, <2>1, <2>2 DEF EventsTell
<1> QED
  BY <1>5, <1>6

\* Once eventCh is empty, addNode and removeNode have made the table of nodes
\* the membership, however often workers were lost and joined in between.
THEOREM NodesCorrect == Spec => []NodesTrackMembers
<1> DEFINE Told == IInv /\ EventsTell
<1>1. Init => Told
  BY InvInit DEF Init, EdgeInit, EventsTell
<1>2. Told /\ [Next]_vars => Told'
  <2> SUFFICES ASSUME Told, [Next]_vars PROVE Told'
    OBVIOUS
  <2>1. IInv' /\ TypeOK
    BY InvStep DEF IInv
  <2>2. CASE UNCHANGED <<nodes, alive, events>>
    BY <2>1, <2>2 DEF EventsTell
  <2> QED
    BY <2>1, <2>2, MemberChanges, AnnouncedIsTold, HandledIsTold
<1>3. Told => NodesTrackMembers
  <2> SUFFICES ASSUME Told, events = <<>> PROVE nodes = alive
    BY DEF NodesTrackMembers
  <2>1. \A w \in Workers : w \in nodes <=> w \in alive
    BY DEF EventsTell
  <2>2. nodes \subseteq Workers /\ alive \subseteq Workers
    BY DEF IInv, TypeOK, EdgeTypeOK, NetTypeOK
  <2> QED
    BY <2>1, <2>2
<1> QED
  BY <1>1, <1>2, <1>3, PTL DEF Spec

-------------------------------------------------------------------------------
(* What a worker may get, and what is stopped.                             *)

\* The job is in the worker's list, in its claim, or its current task.
Wants(w, j) ==
    j \in todo[w] \/ cur[w] = j \/ (rpc[w].pc # "none" /\ rpc[w].job = j)

WantsWhatFits == \A w \in Workers, j \in Jobs : Wants(w, j) => Mem[j] <= Limit[w]

LEMMA FitStep == UniqueIds /\ IInv /\ WantsWhatFits /\ [Next]_vars => WantsWhatFits'
<1> SUFFICES ASSUME UniqueIds, IInv, WantsWhatFits, [Next]_vars PROVE WantsWhatFits'
  OBVIOUS
<1>types. /\ todo \in [Workers -> SUBSET Jobs] /\ cur \in [Workers -> Jobs \cup {NoJob}]
          /\ rpc \in [Workers -> [pc : {"none", "open", "granted"},
                                  job : Jobs \cup {NoJob}, idle : SUBSET Workers]]
          /\ queue \subseteq Jobs
          /\ Shape
  BY DEF IInv, TypeOK, EdgeTypeOK, WorkerTypeOK, NetTypeOK
<1> SUFFICES \A w \in Workers, j \in Jobs :
                Wants(w, j)' => Wants(w, j) \/ Mem[j] <= Limit[w]
  BY DEF WantsWhatFits
<1> HIDE DEF IInv
<1>1. CASE UNCHANGED <<todo, cur, rpc>>
  BY <1>1 DEF Wants
<1>2. ASSUME NEW w \in Workers, ListJobs(w)
      PROVE  \A v \in Workers, j \in Jobs : Wants(v, j)' => Wants(v, j) \/ Mem[j] <= Limit[v]
  BY <1>2, <1>types DEF ListJobs, listJobs, netVars, Wants
<1>3. ASSUME NEW w \in Workers, NEW k \in Jobs, SendClaim(w, k)
      PROVE  \A v \in Workers, j \in Jobs : Wants(v, j)' => Wants(v, j)
  <2>1. k \in todo[w] /\ UNCHANGED cur /\ \A v \in Workers : todo'[v] \subseteq todo[v]
    BY <1>3, <1>types DEF SendClaim, claimFailed, workerVars
  <2>2. \A v \in Workers : rpc'[v] = rpc[v] \/ (v = w /\ rpc'[v].job = k)
    BY <1>3, <1>types DEF SendClaim
  <2> QED
    BY <2>1, <2>2 DEF Wants
<1>4. ASSUME NEW w \in Workers, GrantClaim(w)
      PROVE  \A v \in Workers, j \in Jobs : Wants(v, j)' => Wants(v, j)
  <2> PICK k \in Queued(IdOf[rpc[w].job]) :
              rpc' = [rpc EXCEPT ![w] = [pc |-> "granted", job |-> k, idle |-> {}]]
    BY <1>4 DEF GrantClaim
  <2>1. rpc[w].pc = "open" /\ UNCHANGED <<todo, cur>>
    BY <1>4 DEF GrantClaim, workerVars
  <2>2. k = rpc[w].job
    BY <2>1, <1>types DEF UniqueIds, Queued, Shape
  <2> QED
    BY <2>1, <2>2, <1>types DEF Wants
<1>5. ASSUME NEW w \in Workers, RefuseClaim(w) \/ ClaimTimeout(w)
      PROVE  \A v \in Workers, j \in Jobs : Wants(v, j)' => Wants(v, j)
  <2>1. UNCHANGED cur /\ rpc' = [rpc EXCEPT ![w] = NoRpc]
    BY <1>5 DEF RefuseClaim, ClaimTimeout, claimFailed
  <2>2. \E j : todo' = [todo EXCEPT ![w] = @ \ {j}]
    <3>1. CASE RefuseClaim(w)
      BY <3>1 DEF RefuseClaim, claimFailed
    <3>2. CASE ClaimTimeout(w)
      BY <3>2 DEF ClaimTimeout, claimFailed
    <3> QED
      BY <1>5, <3>1, <3>2
  <2>3. \A v \in Workers : todo'[v] \subseteq todo[v]
    BY <2>2, <1>types
  <2> QED
    BY <2>1, <2>3, <1>types DEF Wants, NoRpc
<1>6. ASSUME NEW w \in Workers, ReceiveGrant(w)
      PROVE  \A v \in Workers, j \in Jobs : Wants(v, j)' => Wants(v, j)
  <2>1. /\ rpc[w].pc = "granted"
        /\ cur' = [cur EXCEPT ![w] = rpc[w].job]
        /\ todo' = [todo EXCEPT ![w] = {}]
        /\ rpc' = [rpc EXCEPT ![w] = NoRpc]
    BY <1>6 DEF ReceiveGrant, claimSucceeded
  <2> QED
    BY <2>1, <1>types DEF Wants, NoRpc
<1>7. ASSUME NEW w \in Workers, TaskStep(w) \/ TagStep(w)
      PROVE  \A v \in Workers, j \in Jobs : Wants(v, j)' => Wants(v, j)
  <2>1. UNCHANGED <<todo, rpc>>
    BY <1>7 DEF TaskStep, TagStep, RunTask, processTask, startWorkload, prepareFails,
                finishWorkload, finalize, ReportTask, returnFromTask,
                metricsTick, UpdateTags, readTask, SetTags, DeliverTags, netVars
  <2>2. cur' = cur \/ cur' = [cur EXCEPT ![w] = NoJob]
    BY <1>7 DEF TaskStep, TagStep, RunTask, processTask, startWorkload, prepareFails,
                finishWorkload, finalize, ReportTask, returnFromTask,
                metricsTick, UpdateTags, readTask, SetTags, DeliverTags, netVars
  <2> QED
    BY <2>1, <2>2, <1>types DEF Wants
<1>8. ASSUME NEW w \in Workers, MemberStep(w)
      PROVE  \A v \in Workers, j \in Jobs : Wants(v, j)' => Wants(v, j)
  <2>1. CASE CrashWorker(w)
    <3>1. /\ cur' = [cur EXCEPT ![w] = NoJob]
          /\ todo' = [todo EXCEPT ![w] = {}]
          /\ rpc' = [rpc EXCEPT ![w] = NoRpc]
      BY <2>1 DEF CrashWorker, stopProcess
    <3> QED
      BY <3>1, <1>types DEF Wants, NoRpc
  <2>2. CASE RestartWorker(w) \/ LoseMember(w) \/ JoinMember(w)
    BY <2>2 DEF RestartWorker, startProcess, LoseMember, JoinMember, workerVars, Wants
  <2> QED
    BY <1>8, <2>1, <2>2 DEF MemberStep
<1>9. CASE ClientStep
  <2>1. UNCHANGED <<todo, cur, rpc>>
    BY <1>9 DEF ClientStep, PostJob, StopJob, SignalStop, workerVars
  <2> QED
    BY <1>1, <2>1
<1>10. CASE EventStep
  <2>1. UNCHANGED <<todo, cur, rpc>>
    BY <1>10 DEF EventStep, FinishOrphan, DeliverCancel, requestCancel, DeliverReport,
                 LearnFromReport, netVars, LoseEvent, HandleMemberEvent, workerVars
  <2> QED
    BY <1>1, <2>1
<1>11. CASE UNCHANGED vars
  BY <1>1, <1>11 DEF vars, workerVars, netVars
<1>12. ASSUME NEW w \in Workers, ClaimStep(w)
       PROVE  \A v \in Workers, j \in Jobs : Wants(v, j)' => Wants(v, j) \/ Mem[j] <= Limit[v]
  BY <1>2, <1>3, <1>4, <1>5, <1>6, <1>12 DEF ClaimStep
<1> QED
  BY <1>7, <1>8, <1>9, <1>10, <1>11, <1>12 DEF Next

\* As long as ids are unique, a worker never holds a job that is larger than
\* its memory limit: its list and its claims name only jobs that fit.
THEOREM HeldJobsFit == Spec => []HeldJobFits
<1> DEFINE Fit == IInv /\ (UniqueIds => WantsWhatFits)
<1>1. Init => Fit
  <2> SUFFICES ASSUME Init PROVE WantsWhatFits
    BY InvInit
  <2> QED
    BY DEF Init, WorkerInit, NoRpc, WantsWhatFits, Wants
<1>2. Fit /\ [Next]_vars => Fit'
  <2>1. UniqueIds' <=> UniqueIds
    BY DEF UniqueIds
  <2> QED
    BY <2>1, InvStep, FitStep
<1>3. Fit => HeldJobFits
  BY DEF WantsWhatFits, Wants, HeldJobFits, Holds
<1> QED
  BY <1>1, <1>2, <1>3, PTL DEF Spec

\* A client has asked to stop the id.
Asked(id) == answer[id] # "none"

\* Wherever "stopped" is, or may come from, somebody asked for it.
StopsAreAsked ==
    /\ \A id \in Ids : hist[id].status = "stopped" => Asked(id)
    /\ \A r \in reports : r.status = "stopped" => Asked(IdOf[r.job])
    /\ \A c \in cancels : Asked(c.id)
    /\ \A w \in Workers :
          IF pc[w] = "idle" THEN ~cancelled[w]
          ELSE cancelled[w] \/ outcome[w] = "stopped" => Asked(IdOf[task[w]])
    /\ \A w \in Workers : pc[w] # "report" => outcome[w] = "none"

LEMMA AnswersStay ==
    IInv /\ [Next]_vars => \A id \in Ids : Asked(id) => Asked(id)'
<1> SUFFICES ASSUME IInv, [Next]_vars
             PROVE  UNCHANGED answer \/ \E id \in Ids, a \in {"stopped", "looking", "cancelling", "notfound"} :
                                           answer' = [answer EXCEPT ![id] = a]
  BY DEF IInv, TypeOK, NetTypeOK, Asked
<1> USE DEF netVars
<1>1. CASE ClientStep
  BY <1>1 DEF ClientStep, PostJob, StopJob, SignalStop
<1>2. ASSUME NEW w \in Workers, ClaimStep(w) PROVE UNCHANGED answer
  BY <1>2 DEF ClaimStep, ListJobs, SendClaim, GrantClaim, RefuseClaim, ReceiveGrant, ClaimTimeout
<1>3. ASSUME NEW w \in Workers, TaskStep(w) \/ TagStep(w) PROVE UNCHANGED answer
  BY <1>3 DEF TaskStep, TagStep, RunTask, ReportTask, UpdateTags, DeliverTags
<1>4. CASE EventStep
  BY <1>4 DEF EventStep, FinishOrphan, DeliverCancel, DeliverReport, LearnFromReport,
              LoseEvent, HandleMemberEvent
<1>5. ASSUME NEW w \in Workers, MemberStep(w) PROVE UNCHANGED answer
  BY <1>5 DEF MemberStep, CrashWorker, RestartWorker, LoseMember, JoinMember
<1>6. CASE UNCHANGED vars
  BY <1>6 DEF vars
<1> QED
  BY <1>1, <1>2, <1>3, <1>4, <1>5, <1>6 DEF Next

\* The processor and its cancel function, in every kind of step.
LEMMA RunsAsked ==
    ASSUME IInv, StopsAreAsked, [Next]_vars
    PROVE  /\ \A w \in Workers :
                 IF pc'[w] = "idle" THEN ~cancelled'[w]
                 ELSE cancelled'[w] \/ outcome'[w] = "stopped" => Asked(IdOf[task'[w]])
           /\ \A w \in Workers : pc'[w] # "report" => outcome'[w] = "none"
<1>types. /\ pc \in [Workers -> {"idle", "prepare", "run", "report"}]
          /\ cur \in [Workers -> Jobs \cup {NoJob}]
          /\ task \in [Workers -> Jobs \cup {NoJob}]
          /\ cancelled \in [Workers -> BOOLEAN]
          /\ outcome \in [Workers -> Outcomes \cup {"none"}]
          /\ cancels \subseteq Cancel
  BY DEF IInv, TypeOK, WorkerTypeOK, NetTypeOK
<1> HIDE DEF IInv
<1>1. CASE UNCHANGED procVars
  BY <1>1 DEF procVars, StopsAreAsked
<1>2. ASSUME NEW w \in Workers, clearRun(w)
      PROVE  /\ \A v \in Workers :
                   IF pc'[v] = "idle" THEN ~cancelled'[v]
                   ELSE cancelled'[v] \/ outcome'[v] = "stopped" => Asked(IdOf[task'[v]])
             /\ \A v \in Workers : pc'[v] # "report" => outcome'[v] = "none"
  BY <1>2, <1>types DEF clearRun, StopsAreAsked
<1>3. ASSUME NEW w \in Workers, RunTask(w)
      PROVE  /\ \A v \in Workers :
                   IF pc'[v] = "idle" THEN ~cancelled'[v]
                   ELSE cancelled'[v] \/ outcome'[v] = "stopped" => Asked(IdOf[task'[v]])
             /\ \A v \in Workers : pc'[v] # "report" => outcome'[v] = "none"
  <2>1. CASE processTask(w)
    BY <2>1, <1>types DEF processTask, StopsAreAsked
  <2>2. CASE startWorkload(w)
    BY <2>2, <1>types DEF startWorkload, StopsAreAsked
  <2>3. CASE prepareFails(w)
    BY <2>3, <1>types DEF prepareFails, finalize, StopsAreAsked
  <2>4. CASE \E o \in Outcomes : finishWorkload(w, o)
    BY <2>4, <1>types DEF finishWorkload, finalize, StopsAreAsked
  <2> QED
    BY <1>3, <2>1, <2>2, <2>3, <2>4 DEF RunTask
<1>4. ASSUME NEW c \in cancels, DeliverCancel(c)
      PROVE  /\ \A v \in Workers :
                   IF pc'[v] = "idle" THEN ~cancelled'[v]
                   ELSE cancelled'[v] \/ outcome'[v] = "stopped" => Asked(IdOf[task'[v]])
             /\ \A v \in Workers : pc'[v] # "report" => outcome'[v] = "none"
  <2>1. /\ UNCHANGED <<pc, task, outcome>>
        /\ cancelled' = IF pc[c.node] = "run" /\ IdOf[task[c.node]] = c.id
                        THEN [cancelled EXCEPT ![c.node] = TRUE] ELSE cancelled
    BY <1>4 DEF DeliverCancel, requestCancel
  <2>2. Asked(c.id) /\ c.node \in Workers
    BY <1>types DEF StopsAreAsked, Cancel
  <2> QED
    BY <2>1, <2>2, <1>types DEF StopsAreAsked
<1>5. CASE ClientStep
  BY <1>1, <1>5 DEF ClientStep, PostJob, StopJob, SignalStop, workerVars, procVars
<1>6. ASSUME NEW w \in Workers, ClaimStep(w) \/ TagStep(w) PROVE UNCHANGED procVars
  BY <1>6 DEF ClaimStep, TagStep, ListJobs, listJobs, SendClaim, GrantClaim, RefuseClaim,
              ReceiveGrant, ClaimTimeout, claimFailed, claimSucceeded,
              metricsTick, UpdateTags, readTask, SetTags, DeliverTags, workerVars
<1>7. ASSUME NEW w \in Workers, MemberStep(w) PROVE clearRun(w) \/ UNCHANGED procVars
  BY <1>7 DEF MemberStep, CrashWorker, stopProcess, RestartWorker, startProcess, LoseMember,
              JoinMember, workerVars
<1>8. ASSUME NEW w \in Workers, ReportTask(w) PROVE clearRun(w)
  BY <1>8 DEF ReportTask, returnFromTask
<1>9. CASE EventStep
  <2>1. (\E c \in cancels : DeliverCancel(c)) \/ UNCHANGED procVars
    BY <1>9 DEF EventStep, FinishOrphan, DeliverReport, LearnFromReport, LoseEvent,
                HandleMemberEvent, workerVars
  <2> QED
    BY <1>1, <1>4, <2>1
<1>10. CASE UNCHANGED vars
  BY <1>1, <1>10 DEF vars, workerVars, procVars
<1> QED
  BY <1>1, <1>2, <1>3, <1>5, <1>6, <1>7, <1>8, <1>9, <1>10 DEF Next, TaskStep

\* The events on their way, and the records.
LEMMA EventsAsked ==
    ASSUME IInv, StopsAreAsked, [Next]_vars
    PROVE  /\ \A r \in reports' : r.status = "stopped" => Asked(IdOf[r.job])
           /\ \A c \in cancels' : Asked(c.id)'
<1>1. \A id \in Ids : Asked(id) => Asked(id)'
  BY AnswersStay
<1>2. \A c \in cancels : c.id \in Ids
  BY DEF IInv, TypeOK, NetTypeOK, Cancel
<1>3. \/ reports' \subseteq reports
      \/ \E w \in Workers : /\ pc[w] = "report"
                            /\ reports' = reports \cup
                                  {[node |-> w, job |-> task[w], status |-> outcome[w]]}
  <2>1. CASE ClientStep
    BY <2>1 DEF ClientStep, PostJob, StopJob, SignalStop
  <2>2. ASSUME NEW w \in Workers, ClaimStep(w) PROVE UNCHANGED reports
    BY <2>2 DEF ClaimStep, ListJobs, SendClaim, GrantClaim, RefuseClaim, ReceiveGrant,
                ClaimTimeout, netVars
  <2>3. ASSUME NEW w \in Workers, RunTask(w) \/ TagStep(w) PROVE UNCHANGED reports
    BY <2>3 DEF RunTask, TagStep, UpdateTags, DeliverTags, netVars
  <2>4. ASSUME NEW w \in Workers, ReportTask(w)
        PROVE  /\ pc[w] = "report"
               /\ reports' = reports \cup
                     {[node |-> w, job |-> task[w], status |-> outcome[w]]}
    BY <2>4 DEF ReportTask, returnFromTask
  <2>5. CASE EventStep
    BY <2>5 DEF EventStep, FinishOrphan, DeliverCancel, DeliverReport, LearnFromReport,
                LoseEvent, HandleMemberEvent, netVars
  <2>6. ASSUME NEW w \in Workers, MemberStep(w) PROVE UNCHANGED reports
    BY <2>6 DEF MemberStep, CrashWorker, RestartWorker, LoseMember, JoinMember
  <2>7. CASE UNCHANGED vars
    BY <2>7 DEF vars, netVars
  <2> QED
    BY <2>1, <2>2, <2>3, <2>4, <2>5, <2>6, <2>7 DEF Next, TaskStep
<1>4. \/ cancels' \subseteq cancels
      \/ \E w \in Workers, id \in Ids : /\ cancels' = cancels \cup {[node |-> w, id |-> id]}
                                        /\ answer' = [answer EXCEPT ![id] = "cancelling"]
  <2>1. CASE ClientStep
    <3>1. ASSUME NEW id \in Ids, SignalStop(id)
          PROVE  \/ UNCHANGED cancels
                 \/ \E w \in Workers : /\ cancels' = cancels \cup {[node |-> w, id |-> id]}
                                       /\ answer' = [answer EXCEPT ![id] = "cancelling"]
      BY <3>1 DEF SignalStop, RunningNodes, IInv, TypeOK, NetTypeOK
    <3> QED
      BY <2>1, <3>1 DEF ClientStep, PostJob, StopJob
  <2>2. ASSUME NEW w \in Workers, ClaimStep(w) PROVE UNCHANGED cancels
    BY <2>2 DEF ClaimStep, ListJobs, SendClaim, GrantClaim, RefuseClaim, ReceiveGrant,
                ClaimTimeout, netVars
  <2>3. ASSUME NEW w \in Workers, TaskStep(w) \/ TagStep(w) PROVE UNCHANGED cancels
    BY <2>3 DEF TaskStep, RunTask, ReportTask, TagStep, UpdateTags, DeliverTags, netVars
  <2>4. CASE EventStep
    BY <2>4 DEF EventStep, FinishOrphan, DeliverCancel, DeliverReport, LearnFromReport,
                LoseEvent, HandleMemberEvent, netVars
  <2>5. ASSUME NEW w \in Workers, MemberStep(w) PROVE UNCHANGED cancels
    BY <2>5 DEF MemberStep, CrashWorker, RestartWorker, LoseMember, JoinMember
  <2>6. CASE UNCHANGED vars
    BY <2>6 DEF vars, netVars
  <2> QED
    BY <2>1, <2>2, <2>3, <2>4, <2>5, <2>6 DEF Next
<1>5. \A r \in reports' : r.status = "stopped" => Asked(IdOf[r.job])
  <2>1. \A w \in Workers : pc[w] = "report" /\ outcome[w] = "stopped" => Asked(IdOf[task[w]])
    BY DEF StopsAreAsked
  <2> QED
    BY <1>3, <2>1 DEF StopsAreAsked
<1>6. \A c \in cancels' : Asked(c.id)'
  <2>1. \A c \in cancels : Asked(c.id)'
    BY <1>1, <1>2 DEF StopsAreAsked
  <2>2. answer \in [Ids -> {"none", "looking", "stopped", "cancelling", "notfound"}]
    BY DEF IInv, TypeOK, NetTypeOK
  <2> QED
    BY <1>4, <2>1, <2>2 DEF Asked
<1> QED
  BY <1>5, <1>6

LEMMA RecordsAsked ==
    ASSUME IInv, StopsAreAsked, [Next]_vars
    PROVE  \A id \in Ids : hist'[id].status = "stopped" => Asked(id)'
<1>types. /\ hist \in [Ids -> Record]
          /\ answer \in [Ids -> {"none", "looking", "stopped", "cancelling", "notfound"}]
          /\ queue \subseteq Jobs /\ reports \subseteq Report
  BY DEF IInv, TypeOK, EdgeTypeOK, NetTypeOK
<1>1. \A id \in Ids : Asked(id) => Asked(id)'
  BY AnswersStay
<1>2. CASE UNCHANGED hist
  BY <1>1, <1>2 DEF StopsAreAsked
<1>3. CASE \E i \in Ids : /\ hist'[i].status = "stopped" => Asked(i)'
                          /\ \A id \in Ids \ {i} : hist'[id] = hist[id]
  BY <1>1, <1>3 DEF StopsAreAsked
<1> HIDE DEF IInv, StopsAreAsked
<1>4. ASSUME NEW j \in Jobs, PostJob(j)
      PROVE  \E i \in Ids : /\ hist'[i].status = "stopped" => Asked(i)'
                            /\ \A id \in Ids \ {i} : hist'[id] = hist[id]
  <2>1. IdOf[j] \in Ids /\ hist' = [hist EXCEPT ![IdOf[j]] = Pending]
    BY <1>4 DEF PostJob, addJob, Pending
  <2> QED
    BY <2>1, <1>types DEF Pending
<1>5. ASSUME NEW i \in Ids, StopJob(i)
      PROVE  \/ UNCHANGED hist
             \/ /\ hist'[i].status = "stopped" => Asked(i)'
                /\ \A id \in Ids \ {i} : hist'[id] = hist[id]
  <2>1. CASE stopQueued(i) /\ answer' = [answer EXCEPT ![i] = "stopped"]
    <3>1. hist' = [hist EXCEPT ![i].status = "stopped"]
      BY <2>1 DEF stopQueued
    <3> QED
      BY <2>1, <3>1, <1>types DEF Asked
  <2>2. CASE UNCHANGED edgeVars
    BY <2>2 DEF edgeVars
  <2> QED
    BY <1>5, <2>1, <2>2 DEF StopJob
<1>6. ASSUME NEW w, NEW j \in queue, NEW idle, claimGranted(w, j, idle)
      PROVE  \E i \in Ids : /\ hist'[i].status = "stopped" => Asked(i)'
                            /\ \A id \in Ids \ {i} : hist'[id] = hist[id]
  <2>1. IdOf[j] \in Ids /\ hist' = [hist EXCEPT ![IdOf[j]] = RunningOn(w)]
    BY <1>6, <1>types DEF claimGranted, RunningOn
  <2> QED
    BY <2>1, <1>types DEF RunningOn
<1>7. ASSUME NEW r \in reports, DeliverReport(r)
      PROVE  \/ UNCHANGED hist
             \/ \E i \in Ids : /\ hist'[i].status = "stopped" => Asked(i)'
                               /\ \A id \in Ids \ {i} : hist'[id] = hist[id]
  <2> PICK i \in Ids : i = IdOf[r.job]
    BY <1>types DEF Report
  <2>1. UNCHANGED hist \/ (hist'[i].status = r.status /\ \A id \in Ids \ {i} : hist'[id] = hist[id])
    BY <1>7, <1>types DEF DeliverReport, recordCompletion
  <2>2. r.status = "stopped" => Asked(i)'
    BY <1>1 DEF StopsAreAsked
  <2> QED
    BY <2>1, <2>2
<1>8. CASE ClientStep
  <2>1. ASSUME NEW id \in Ids, SignalStop(id) PROVE UNCHANGED hist
    BY <2>1 DEF SignalStop, edgeVars
  <2> QED
    BY <1>2, <1>3, <1>4, <1>5, <1>8, <2>1 DEF ClientStep
<1>9. ASSUME NEW w \in Workers, ClaimStep(w)
      PROVE  \A id \in Ids : hist'[id].status = "stopped" => Asked(id)'
  <2>1. CASE GrantClaim(w)
    <3> PICK j \in Queued(IdOf[rpc[w].job]) : claimGranted(w, j, rpc[w].idle)
      BY <2>1 DEF GrantClaim
    <3>1. j \in queue
      BY DEF Queued
    <3> QED
      BY <1>3, <1>6, <3>1
  <2>2. CASE ~GrantClaim(w)
    <3>1. UNCHANGED hist
      BY <1>9, <2>2 DEF ClaimStep, ListJobs, SendClaim, RefuseClaim, claimRefused,
                        ReceiveGrant, ClaimTimeout, edgeVars
    <3> QED
      BY <1>2, <3>1
  <2> QED
    BY <2>1, <2>2
<1>10. ASSUME NEW w \in Workers, TaskStep(w) \/ TagStep(w) \/ MemberStep(w)
       PROVE  UNCHANGED hist
  BY <1>10 DEF TaskStep, RunTask, ReportTask, TagStep, UpdateTags, DeliverTags, MemberStep,
               CrashWorker, RestartWorker, LoseMember, JoinMember, edgeVars
<1>11. CASE EventStep
  <2>1. ASSUME NEW h \in orphans, FinishOrphan(h)
        PROVE  \A id \in Ids : hist'[id].status = "stopped" => Asked(id)'
    <3>1. CASE \E j \in Queued(IdOf[h.job]) : claimGranted(h.node, j, h.idle)
      BY <1>3, <1>6, <3>1 DEF Queued
    <3>2. CASE claimRefused(h.node, IdOf[h.job], h.idle)
      BY <1>2, <3>2 DEF claimRefused, edgeVars
    <3> QED
      BY <2>1, <3>1, <3>2 DEF FinishOrphan
  <2>2. ASSUME \/ LearnFromReport \/ LoseEvent \/ HandleMemberEvent
               \/ \E c \in cancels : DeliverCancel(c)
        PROVE  UNCHANGED hist
    BY <2>2 DEF LearnFromReport, learnCompletion, LoseEvent, HandleMemberEvent, addNode, removeNode, DeliverCancel, edgeVars
  <2> QED
    BY <1>2, <1>3, <1>7, <1>11, <2>1, <2>2 DEF EventStep
<1>12. CASE UNCHANGED vars
  BY <1>2, <1>12 DEF vars, edgeVars
<1> QED
  BY <1>2, <1>8, <1>9, <1>10, <1>11, <1>12 DEF Next

\* Nothing is recorded as stopped that no client asked to stop, even when ids
\* collide (stopJob, requestCancel, runTaskWorkload, handleUserEvent).
THEOREM StopsCorrect == Spec => []OnlyAskedTasksStop
<1> DEFINE Stops == IInv /\ StopsAreAsked
<1>1. Init => Stops
  BY InvInit DEF Init, EdgeInit, WorkerInit, StopsAreAsked
<1>2. Stops /\ [Next]_vars => Stops'
  <2> SUFFICES ASSUME Stops, [Next]_vars PROVE Stops'
    OBVIOUS
  <2>1. IInv /\ IInv'
    BY InvStep
  <2>2. \A id \in Ids : Asked(id) => Asked(id)'
    BY AnswersStay
  <2>3. /\ \A w \in Workers : pc'[w] # "idle" => IdOf[task'[w]] \in Ids
        /\ \A r \in reports' : IdOf[r.job] \in Ids
    BY <2>1 DEF IInv, Shape, TypeOK, NetTypeOK, Report
  <2>4. StopsAreAsked'
    BY <2>2, <2>3, RunsAsked, EventsAsked, RecordsAsked DEF StopsAreAsked
  <2> QED
    BY <2>1, <2>4
<1>3. Stops => OnlyAskedTasksStop
  BY DEF StopsAreAsked, Asked, OnlyAskedTasksStop
<1> QED
  BY <1>1, <1>2, <1>3, PTL DEF Spec
===============================================================================
