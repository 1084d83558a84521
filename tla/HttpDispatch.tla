----------------------------- MODULE HttpDispatch -----------------------------
(***************************************************************************)
(* The cluster of the default build (no mqtt tag): one edge server, the    *)
(* workers that poll it over HTTP, Serf between them, and the clients that *)
(* post and stop jobs.                                                     *)
(*                                                                         *)
(* The network is what makes it hard. The edge sees a worker's tags late.  *)
(* claimJob reads serf.Members() before it takes the lock. A worker gives  *)
(* a claim up after 5 s while its handler still runs, and the handler's    *)
(* grant then reaches nobody. User events (task-cancel, task-completion)   *)
(* are gossip: unordered, and they may be lost. Workers crash, restart,    *)
(* and are suspected while they are alive.                                 *)
(***************************************************************************)
EXTENDS EdgeCluster, WorkerNode, Sequences

CONSTANTS FaultKinds,   \* the faults of this instance: crash, timeout, ...
          MaxFaults,    \* how many of them may happen
          Stoppable     \* the ids that clients ask to stop

ASSUME FaultAssumption ==
    /\ FaultKinds \subseteq {"crash", "timeout", "suspect", "loss"}
    /\ MaxFaults \in Nat
    /\ Stoppable \subseteq Ids

VARIABLES posted,    \* the jobs posted so far
          alive,     \* members with StatusAlive in the edge's serf
          view,      \* view[w]: the task in w's tags as the edge has them
          events,    \* member events in eventCh, oldest first
          rpc,       \* rpc[w]: the claim that w waits for
          orphans,   \* claim handlers whose client has gone
          reports,   \* task-completion events on their way
          cancels,   \* task-cancel events on their way
          answer,    \* answer[id]: what the last stopJob of id has come to
          faults     \* faults so far

netVars == <<posted, alive, view, events, rpc, orphans, reports, cancels,
             answer, faults>>
vars == <<edgeVars, workerVars, netVars>>

NoRpc == [pc |-> "none", job |-> NoJob, idle |-> {}]
Handler == [node : Workers, job : Jobs, idle : SUBSET Workers]
Report == [node : Workers, job : Jobs, status : Outcomes]
Cancel == [node : Workers, id : Ids]
MemberEvent == [kind : {"join", "gone"}, node : Workers]

NetTypeOK ==
    /\ posted \subseteq Jobs
    /\ alive \subseteq Workers
    /\ view \in [Workers -> Jobs \cup {NoJob, NoTags}]
    /\ events \in Seq(MemberEvent)
    /\ rpc \in [Workers -> [pc : {"none", "open", "granted"},
                            job : Jobs \cup {NoJob}, idle : SUBSET Workers]]
    /\ orphans \subseteq Handler
    /\ reports \subseteq Report
    /\ cancels \subseteq Cancel
    /\ answer \in [Ids -> {"none", "looking", "stopped", "cancelling", "notfound"}]
    /\ faults \in Nat

TypeOK == EdgeTypeOK /\ WorkerTypeOK /\ NetTypeOK

Init ==
    /\ EdgeInit
    /\ WorkerInit
    /\ posted = {}
    /\ alive = Workers
    /\ view = [w \in Workers |-> NoJob]
    /\ events = <<>>
    /\ rpc = [w \in Workers |-> NoRpc]
    /\ orphans = {}
    /\ reports = {}
    /\ cancels = {}
    /\ answer = [id \in Ids |-> "none"]
    /\ faults = 0

Fault(kind) ==
    /\ kind \in FaultKinds
    /\ faults < MaxFaults
    /\ faults' = faults + 1

-------------------------------------------------------------------------------
(* Clients *)

\* createJob: the request is valid, its job is added.
PostJob(j) ==
    /\ j \notin posted
    /\ posted' = posted \cup {j}
    /\ addJob(j)
    /\ UNCHANGED <<workerVars, alive, view, events, rpc, orphans, reports,
                   cancels, answer, faults>>

\* stopJob, under the lock: a queued job is removed and the client is told; if
\* there is none the lock is released and the handler goes on.
StopJob(id) ==
    /\ id \in Stoppable
    /\ answer[id] # "looking"
    /\ \E j \in posted : IdOf[j] = id
    /\ \/ /\ stopQueued(id)
          /\ answer' = [answer EXCEPT ![id] = "stopped"]
       \/ /\ Queued(id) = {}
          /\ answer' = [answer EXCEPT ![id] = "looking"]
          /\ UNCHANGED edgeVars
    /\ UNCHANGED <<workerVars, posted, alive, view, events, rpc, orphans,
                   reports, cancels, faults>>

\* Mutated: the task in the tags is not compared.
RunningNodesAny(id) == {w \in alive : view[w] \in Jobs}

\* The alive members whose tags name a task with this id.
RunningNodes(id) ==
    {w \in alive : view[w] \in Jobs /\ IdOf[view[w]] = id}

\* stopJob, without the lock: the members' tags say who runs the task; that
\* worker is sent a task-cancel event, or the client a 404.
SignalStop(id) ==
    /\ answer[id] = "looking"
    /\ \/ \E w \in RunningNodes(id) :
              /\ cancels' = cancels \cup {[node |-> w, id |-> id]}
              /\ answer' = [answer EXCEPT ![id] = "cancelling"]
       \/ /\ RunningNodes(id) = {}
          /\ answer' = [answer EXCEPT ![id] = "notfound"]
          /\ UNCHANGED cancels
    /\ UNCHANGED <<edgeVars, workerVars, posted, alive, view, events, rpc,
                   orphans, reports, faults>>

-------------------------------------------------------------------------------
(* Listing and claiming *)

\* checkForAvailableJobs: GET /api/jobs/available returns the pending jobs.
ListJobs(w) ==
    /\ queue # {}
    /\ rpc[w].pc = "none"
    /\ listJobs(w, queue)
    /\ UNCHANGED <<edgeVars, netVars>>

\* POST .../claim and the part of claimJob before the lock: the members are
\* read; a claimant that is not alive (404) or that is busy (409) is refused.
SendClaim(w, j) ==
    /\ w \in up
    /\ j \in todo[w]
    /\ rpc[w].pc = "none"
    /\ IF w \notin alive \/ view[w] \in Jobs
       THEN /\ claimFailed(w, j)
            /\ UNCHANGED rpc
       ELSE /\ rpc' = [rpc EXCEPT ![w] =
                          [pc |-> "open", job |-> j,
                           idle |-> {c \in alive : view[c] = NoJob}]]
            /\ UNCHANGED workerVars
    /\ UNCHANGED <<edgeVars, posted, alive, view, events, orphans, reports,
                   cancels, answer, faults>>

\* The rest of claimJob, for an entry with the id asked for.
GrantClaim(w) ==
    /\ rpc[w].pc = "open"
    /\ \E j \in Queued(IdOf[rpc[w].job]) :
          /\ claimGranted(w, j, rpc[w].idle)
          /\ rpc' = [rpc EXCEPT ![w] = [pc |-> "granted", job |-> j, idle |-> {}]]
    /\ UNCHANGED <<workerVars, posted, alive, view, events, orphans, reports,
                   cancels, answer, faults>>

RefuseClaim(w) ==
    /\ rpc[w].pc = "open"
    /\ claimRefused(w, IdOf[rpc[w].job], rpc[w].idle)
    /\ claimFailed(w, rpc[w].job)
    /\ rpc' = [rpc EXCEPT ![w] = NoRpc]
    /\ UNCHANGED <<posted, alive, view, events, orphans, reports, cancels,
                   answer, faults>>

\* The 200 reaches the worker, which takes the job in the answer.
ReceiveGrant(w) ==
    /\ rpc[w].pc = "granted"
    /\ claimSucceeded(w, rpc[w].job)
    /\ rpc' = [rpc EXCEPT ![w] = NoRpc]
    /\ UNCHANGED <<edgeVars, posted, alive, view, events, orphans, reports,
                   cancels, answer, faults>>

\* What is left of the claim of w when w no longer waits for its answer.
abandoned(w) ==
    IF rpc[w].pc = "open"
    THEN {[node |-> w, job |-> rpc[w].job, idle |-> rpc[w].idle]} ELSE {}

\* The client timeout of claimJob, or an answer that cannot be read: the claim
\* counts as failed, and the worker tries the next job of its list.
ClaimTimeout(w) ==
    /\ Fault("timeout")
    /\ rpc[w].pc # "none"
    /\ \E j \in todo[w] : IdOf[j] = IdOf[rpc[w].job] /\ claimFailed(w, j)
    /\ orphans' = orphans \cup abandoned(w)
    /\ rpc' = [rpc EXCEPT ![w] = NoRpc]
    /\ UNCHANGED <<edgeVars, posted, alive, view, events, reports, cancels,
                   answer>>

\* An abandoned handler ends like any other; nobody reads its answer.
FinishOrphan(h) ==
    /\ orphans' = orphans \ {h}
    /\ \/ \E j \in Queued(IdOf[h.job]) : claimGranted(h.node, j, h.idle)
       \/ claimRefused(h.node, IdOf[h.job], h.idle)
    /\ UNCHANGED <<workerVars, posted, alive, view, events, rpc, reports,
                   cancels, answer, faults>>

-------------------------------------------------------------------------------
(* Running the task *)

\* The steps of processTask that stay inside the worker.
RunTask(w) ==
    /\ \/ processTask(w)
       \/ prepareFails(w)
       \/ startWorkload(w)
       \/ \E o \in Outcomes : finishWorkload(w, o)
    /\ UNCHANGED <<edgeVars, netVars>>

\* sendTaskCompletion: the task-completion event is handed to Serf.
ReportTask(w) ==
    /\ returnFromTask(w)
    /\ reports' = reports \cup
          {[node |-> w, job |-> task[w], status |-> outcome[w]]}
    /\ UNCHANGED <<edgeVars, posted, alive, view, events, rpc, orphans,
                   cancels, answer, faults>>

\* handleSerfEvents of the worker: a task-cancel event for this node.
DeliverCancel(c) ==
    /\ c.node \in up
    /\ requestCancel(c.node, c.id)
    /\ cancels' = cancels \ {c}
    /\ UNCHANGED <<edgeVars, posted, alive, view, events, rpc, orphans,
                   reports, answer, faults>>

\* handleSerfEvents of the edge: a task-completion event, up to the record.
DeliverReport(r) ==
    /\ recordCompletion(r.node, IdOf[r.job], r.status)
    /\ reports' = reports \ {r}
    /\ UNCHANGED <<workerVars, posted, alive, view, events, rpc, orphans,
                   cancels, answer, faults>>

\* The same event, under the lock for the second time.
LearnFromReport ==
    /\ learnCompletion
    /\ UNCHANGED <<workerVars, netVars>>

\* Gossip may lose an event; an event for a worker that is down reaches nobody.
LoseEvent ==
    /\ \/ /\ Fault("loss")
          /\ \/ \E r \in reports : reports' = reports \ {r} /\ UNCHANGED cancels
             \/ \E c \in cancels : cancels' = cancels \ {c} /\ UNCHANGED reports
       \/ /\ \E c \in cancels : c.node \notin up /\ cancels' = cancels \ {c}
          /\ UNCHANGED <<reports, faults>>
    /\ UNCHANGED <<edgeVars, workerVars, posted, alive, view, events, rpc,
                   orphans, answer>>

-------------------------------------------------------------------------------
(* Membership *)

\* updateMemoryTags of the goroutine p of w: the task is read, at a tick of the
\* metrics loop or after the change that has called for it, and then SetTags called.
UpdateTags(w, p) ==
    /\ \/ p = "loop" /\ metricsTick(w)
       \/ readTask(w, p)
       \/ SetTags(w, p)
    /\ UNCHANGED <<edgeVars, netVars>>

\* The latest tags of w reach the edge.
DeliverTags(w) ==
    /\ w \in up \cap alive
    /\ news[w] # NoTags
    /\ view' = [view EXCEPT ![w] = news[w]]
    /\ news' = [news EXCEPT ![w] = NoTags]
    /\ UNCHANGED <<edgeVars, up, cur, todo, due, tags, procVars, posted, alive,
                   events, rpc, orphans, reports, cancels, answer, faults>>

\* A worker's process ends. Its task and its list are gone; a claim handler
\* that was serving it goes on.
CrashWorker(w) ==
    /\ Fault("crash")
    /\ stopProcess(w)
    /\ orphans' = orphans \cup abandoned(w)
    /\ rpc' = [rpc EXCEPT ![w] = NoRpc]
    /\ UNCHANGED <<edgeVars, posted, alive, view, events, reports, cancels,
                   answer>>

\* It is started again; its name is free once the old member is gone.
RestartWorker(w) ==
    /\ w \notin alive
    /\ startProcess(w)
    /\ view' = [view EXCEPT ![w] = NoTags]
    /\ UNCHANGED <<edgeVars, posted, alive, events, rpc, orphans, reports,
                   cancels, answer, faults>>

\* The edge's serf gives up on w, because it has stopped or, wrongly, because
\* it does not answer in time, and emits a leave or failed event.
LoseMember(w) ==
    /\ w \in alive
    /\ IF w \in up THEN Fault("suspect") ELSE UNCHANGED faults
    /\ alive' = alive \ {w}
    /\ events' = Append(events, [kind |-> "gone", node |-> w])
    /\ UNCHANGED <<edgeVars, workerVars, posted, view, rpc, orphans, reports,
                   cancels, answer>>

\* A running worker (re)joins.
JoinMember(w) ==
    /\ w \in up \ alive
    /\ alive' = alive \cup {w}
    /\ events' = Append(events, [kind |-> "join", node |-> w])
    /\ UNCHANGED <<edgeVars, workerVars, posted, view, rpc, orphans, reports,
                   cancels, answer, faults>>

\* handleMemberEvent: the oldest member event is handled, by the goroutine that
\* handles the completions.
HandleMemberEvent ==
    /\ events # <<>>
    /\ learning = NoWorker
    /\ IF Head(events).kind = "join" THEN addNode(Head(events).node)
                                     ELSE removeNode(Head(events).node)
    /\ events' = Tail(events)
    /\ UNCHANGED <<workerVars, posted, alive, view, rpc, orphans, reports,
                   cancels, answer, faults>>

-------------------------------------------------------------------------------
ClientStep ==
    \/ \E j \in Jobs : PostJob(j)
    \/ \E id \in Ids : StopJob(id) \/ SignalStop(id)

ClaimStep(w) ==
    \/ ListJobs(w)
    \/ \E j \in Jobs : SendClaim(w, j)
    \/ GrantClaim(w)
    \/ RefuseClaim(w)
    \/ ReceiveGrant(w)
    \/ ClaimTimeout(w)

TaskStep(w) == RunTask(w) \/ ReportTask(w)

TagStep(w) ==
    \/ \E p \in Publishers : UpdateTags(w, p)
    \/ DeliverTags(w)

EventStep ==
    \/ \E h \in orphans : FinishOrphan(h)
    \/ \E c \in cancels : DeliverCancel(c)
    \/ \E r \in reports : DeliverReport(r)
    \/ LearnFromReport
    \/ LoseEvent
    \/ HandleMemberEvent

MemberStep(w) ==
    CrashWorker(w) \/ RestartWorker(w) \/ LoseMember(w) \/ JoinMember(w)

Next ==
    \/ ClientStep
    \/ \E w \in Workers : \/ ClaimStep(w) \/ TaskStep(w)
                          \/ TagStep(w) \/ MemberStep(w)
    \/ EventStep

Spec == Init /\ [][Next]_vars

\* The goroutines of a worker, each with its own publications, and its membership.
Poller(w) ==
    \/ ListJobs(w)
    \/ \E j \in Jobs : SendClaim(w, j)
    \/ GrantClaim(w) \/ RefuseClaim(w)
    \/ ReceiveGrant(w)
    \/ UpdateTags(w, "poller")

Processor(w) == TaskStep(w) \/ UpdateTags(w, "processor")

MetricsLoop(w) == "loop" \in Publishers /\ UpdateTags(w, "loop")

Membership(w) ==
    (w \notin up /\ LoseMember(w)) \/ RestartWorker(w) \/ JoinMember(w)

\* What the program's schedulers guarantee: tickers tick and goroutines run, a
\* request that is not given up is served, gossip is delivered unless it is
\* lost, a stopped process is noticed and started again (docker-compose.yml:
\* restart: unless-stopped), and a task ends, its preparation included. Of each
\* goroutine and member one step at a time is enabled, if not by a choice of its
\* own. Strong fairness of GrantClaim is the default mode's: the best worker is the
\* first candidate in the random order of serf.Members(), so a worker that keeps
\* asking is the best one some time.
Fairness ==
    /\ \A w \in Workers :
        /\ WF_vars(Poller(w))
        /\ SF_vars(GrantClaim(w))
        /\ WF_vars(Processor(w))
        /\ WF_vars(MetricsLoop(w))
        /\ WF_vars(DeliverTags(w))
        /\ WF_vars(Membership(w))
    /\ WF_vars(\E id \in Ids : SignalStop(id))
    /\ WF_vars(\E h \in orphans : FinishOrphan(h))
    /\ WF_vars(\E c \in cancels : DeliverCancel(c))
    /\ WF_vars(\E r \in reports : DeliverReport(r))
    /\ WF_vars(LearnFromReport)
    /\ WF_vars(HandleMemberEvent)

FairSpec == Spec /\ Fairness

-------------------------------------------------------------------------------
(* Properties *)

\* Where a job is while it is somebody's: in the answer on its way to w, or
\* the current task of w.
Holds(w, j) == cur[w] = j \/ (rpc[w].pc = "granted" /\ rpc[w].job = j)

UniqueIds == \A j, k \in Jobs : IdOf[j] = IdOf[k] => j = k

\* A job is in at most one place: queued, or with one worker, and what is
\* queued or held was posted. Claims of several workers for the same entry,
\* handlers whose client has gone, stops and restarts all compete for it.
SinglePlace ==
    /\ queue \subseteq posted
    /\ \A w \in Workers, j \in Jobs :
          Holds(w, j) => /\ j \in posted \ queue
                         /\ \A v \in Workers \ {w} : ~Holds(v, j)

\* The processor's task is the current task for as long as it works on it:
\* the polling goroutine never replaces a task under the processor, and never
\* takes a job while it has one.
ProcessorOwnsTask ==
    \A w \in Workers :
        /\ pc[w] \in {"prepare", "run"} => cur[w] = task[w]
        /\ rpc[w].pc = "granted" => cur[w] = NoJob

\* As long as ids are unique, a worker never holds a job larger than its
\* memory limit, although the edge's own memory check works on late tags.
HeldJobFits ==
    UniqueIds => \A w \in Workers, j \in Jobs : Holds(w, j) => Mem[j] <= Limit[w]

\* As long as ids are unique, the record of a queued job says pending and
\* that of a held job names its worker and says running.
RecordsTrackJobs ==
    UniqueIds =>
        \A j \in Jobs :
            /\ j \in queue =>
                  hist[IdOf[j]] = [status |-> "pending", node |-> NoWorker]
            /\ \A w \in Workers : Holds(w, j) =>
                  hist[IdOf[j]] = [status |-> "running", node |-> w]

\* Only a task that a client asked to stop is ever recorded as stopped: a late
\* task-cancel never hits the worker's next task.
OnlyAskedTasksStop ==
    \A id \in Ids : hist[id].status = "stopped" => answer[id] # "none"

\* As long as ids are unique, a task-cancel event never goes past the worker that
\* has the task: while it is on its way the task is not queued, and no other
\* worker has it or will ever get it. The tags that named the worker may be
\* older than any crash, restart, suspicion or handover since.
CancelsGoToHolder ==
    UniqueIds =>
        \A c \in cancels : \A j \in Jobs : IdOf[j] = c.id =>
            /\ j \in posted \ queue
            /\ \A v \in Workers \ {c.node} : ~Holds(v, j)

\* Jobs recorded as given to w and not as completed.
Unfinished(w) ==
    {j \in posted : hist[IdOf[j]].node = w /\ hist[IdOf[j]].status # "completed"}

\* As long as ids are unique, the scheduler's in-flight counter of a worker
\* counts no more than the jobs recorded as given to it and not completed, through
\* removals, rejoins and late completions. Between the two critical sections of
\* a completion it may be one ahead, for the job that is just recorded.
InflightBounded ==
    UniqueIds =>
        \A w \in Workers :
            inflight[w] <= Cardinality(Unfinished(w)) + (IF learning = w THEN 1 ELSE 0)

\* A job that nothing in the cluster will ever finish or report: it is not
\* queued, no worker has it or is about to report it, no report is on its way,
\* and its record is not final.
Lost ==
    {j \in posted :
        /\ j \notin queue
        /\ \A w \in Workers : ~Holds(w, j) /\ ~(pc[w] = "report" /\ task[w] = j)
        /\ \A r \in reports : r.job # j
        /\ hist[IdOf[j]].status \notin Terminal}

\* As long as ids are unique, only faults lose jobs, and each loses two at most:
\* a crash while the end of one task is not reported yet and the next claim is
\* open or granted. An abandoned claim may still take one.
LossBounded == UniqueIds => Cardinality(Lost) + Cardinality(orphans) <= 2 * faults

\* Once every member event is handled, the table of nodes is the membership.
NodesTrackMembers == events = <<>> => nodes = alive

JR == INSTANCE JobRecord WITH Keys <- Ids, record <- hist

\* As long as ids are unique, an evaluation record only moves on, in whatever
\* order events arrive: it is opened, assigned once and concluded by the worker
\* it names, or withdrawn before; and a final record stays as it is.
RecordsMoveOn == JR!RecordInit /\ [][UniqueIds => JR!RecordNext]_hist

\* The cluster implements the job service.
Stage(j) ==
    IF j \notin posted THEN "unposted"
    ELSE IF j \in queue THEN "waiting"
    ELSE IF \E w \in Workers : Holds(w, j) THEN "held" ELSE "over"

Holder(j) ==
    IF \E w \in Workers : Holds(w, j)
    THEN CHOOSE w \in Workers : Holds(w, j) ELSE NoWorker

JS == INSTANCE JobService WITH stage <- [j \in Jobs |-> Stage(j)],
                               holder <- [j \in Jobs |-> Holder(j)]

\* Whatever the network does, a job is handed out at most once and, once it is
\* over, never comes back.
ImplementsJobService == JS!Service

\* A queued job does not wait for ever: somebody takes it, or it is stopped,
\* although every claim may be refused because another worker is the best one.
QueueDrains == \A j \in Jobs : j \in queue ~> j \notin queue

\* A "busy" tag does not stick to a member: if it did, claimJob would refuse
\* that worker for ever. The job scheduler and the metrics loop may publish tags
\* that name the task after the processor has published those of its end.
BusyTagGoes ==
    \A w \in Workers :
        (w \in alive /\ view[w] \in Jobs) ~> ~(w \in alive /\ view[w] \in Jobs)

\* What the repository says and the code does not do.

\* removeNode "removes a node from the cluster and requeues its tasks": the
\* tasks recorded as running on it, whose completion is not on its way.
RemovalRequeues ==
    [][\A w \in nodes \ nodes', j \in posted :
          (/\ hist[IdOf[j]] = [status |-> "running", node |-> w]
           /\ \A r \in reports : r.job # j)
          => j \in queue']_vars

\* stopJob answers "Job not found (not queued or running)": then the job is
\* neither queued nor with a running worker.
NotFoundIsGone ==
    [][\A id \in Ids :
          (answer[id] = "looking" /\ answer'[id] = "notfound") =>
              \A j \in posted : IdOf[j] = id =>
                  j \notin queue /\ \A w \in up : ~Holds(w, j)]_vars

\* stopJob "cancels a running job (signals the worker)": a task-cancel event
\* that reaches the worker while the task is its current task takes effect.
DeliveredCancelActs ==
    [][\A c \in cancels \ cancels' :
          (c.node \in up /\ cur[c.node] \in Jobs /\ IdOf[cur[c.node]] = c.id) =>
              cancelled'[c.node]]_vars
===============================================================================
