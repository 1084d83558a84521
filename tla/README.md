# A TLA+ model of the heterogeneous edge AI cluster

This directory models the program under `src/`: an *edge server* that keeps a
queue of AI jobs, *worker nodes* (Milk-V boards) that ask it for work over HTTP,
the Serf gossip that connects them, the dashboards that watch, and the files that
travel with the jobs. TLC checks the modules on small instances. TLAPS proves the
theorems for every value of the constants.

`PROJECT.json` lists components, runs, mutants, findings, hazards and theorems,
and maps every definition to the lines of source it stands for.

## 1. Inventory

### Components

| Component | Source | State | Operations |
|---|---|---|---|
| Cluster manager | `edge-server/main.go`, `api.go` | `jobQueue`, `jobHistory` (one evaluation record per task id), `nodes`, all under one mutex | `addJob`, `claimJob`, `stopJob`, `addNode`, `removeNode`, the task-completion handler |
| Scheduler | `edge-server/scheduler.go` | per worker: `assigned`, `inflight`, `recent`, `perf`; pheromones per type and worker; tuned weights | `BestWorkerForTaskLocked` in nine modes, `OnAssigned`, `OnCompleted`, `EnsureNode`, `RemoveNode`, `UpdateParams` |
| Worker agent | `milkv-node/main.go` | `currentTask`, the registered cancel function, the published tags | the polling, processing, event and metrics goroutines |
| Workload supervisor | `milkv-node/main.go:433-781` | the child process, its waiter, signals, timers | `processTask`, `runExternalWorkload`, `runSimulatedWorkload` |
| Serf gossip | library | members, tags, user events | join, leave, fail, tags, `task-cancel`, `task-completion` |
| Dashboard feed | `edge-server/main.go:119-165, 209-311, 460-557` | websocket clients, `broadcastMux`, `eventCh`, the ticker's last tags | `handleWebSocket`, `broadcastClusterState`, `getClusterState`, `handleSerfEvents` |
| Evaluation report, metrics | `edge-server/eval.go`, `metrics.go`, `api.go` | derived from records and scheduler | `getEvalReport`, `SnapshotJSON`, percentiles, Gini index, batching savings |
| File and model staging | `api.go`, `milkv-node/main.go` | files on the edge's and the worker's disks | upload, edge-side fetch and conversion, download, conversion, clean-up, log rotation |
| MQTT dispatch | `*/mqtt.go` (build tag) | broker topics | claims, status, completion |
| Page, routing, scripts | `dashboard.html`, `web.go`, `tools/` | none of the cluster's | |

### How they interact

A client posts a job (`createJob`): the edge first fetches its video and its
configuration, then queues it (`addJob`). Every three seconds an idle worker lists
the pending jobs and claims, one after the other, those that fit its memory.
`claimJob` first reads `serf.Members()`, *then* takes the mutex, asks the scheduler
for the best worker and grants the claim only if that is the claimant. The answer
makes the job the worker's `currentTask`. Its processor picks it up at its next
tick, fetches missing programs, models and the job's file, runs the command and
sends a `task-completion` user event, from which the edge updates record and
scheduler. `stopJob` removes a queued job under the mutex, or else looks in the
members' *tags* for a worker that runs it and sends a `task-cancel` event. Most of
these steps end in a broadcast to the dashboards; the goroutine that handles Serf's
events does its broadcasts itself.

### What is hard here

* Every decision of the edge uses tags and membership of an earlier moment.
* A worker gives a claim up after 5 s, the handler does not notice.
* User events are unordered and may get lost. Ids repeat: they are the clock
  modulo 10^8 ns.
* Four goroutines of a worker share the current task and the cancel function. Three
  of them publish tags: each reads the current task first and calls `SetTags` later.
* The edge's completion handler takes the mutex twice, once for the record and once
  for the scheduler.
* A restarted worker remembers nothing, while the edge's records and counters
  live on, and the worker's disk keeps what the crash interrupted.
* Exit, cancel, deadline, grace period and kill of a child process race.
* A claim is refused whenever another worker is preferred, so everybody might be
  refused for ever.
* Scores are floats; NaN goes through comparisons and clamps unnoticed.
* A websocket connection has two possible writers, the initial state goes around
  the mutex of the broadcasts, and no write has a deadline.
* Serf sends member events to a bounded channel with its member lock held, and the
  receiver calls `Members()`, which takes that lock.
* Files are written in place, so readers meet parts of them.
* The evaluation report reads records, without a lock, several times over.

The hazards are listed with their lines under `hazards` in `PROJECT.json`.

### What makes each component correct

* *Dispatch*: a job is queued, or with one worker, or over, and never comes back;
  records and counters follow the jobs through faults; the queue drains.
* *Worker*: one task at a time, which fits; only the task named in a cancel is
  stopped.
* *Faults*: only faults lose jobs, and none loses more than two; a stop never goes past
  the worker that has the job, although tags are late.
* *Scheduler*: the choice is the best one by the mode's own measure; counters are
  bounded by what happened; refusals starve no job.
* *Supervisor*: no child process outlives its run; the reported outcome is true;
  cancelled runs end, and so do timed ones once they are prepared.
* *Feed*: broadcasts come in order and miss nobody; events go on being handled;
  closed connections are forgotten.
* *Staging*: a job runs on the whole of its own file, and leaves nothing behind; what
  users have put on a worker is not overwritten.
* *Report*: its figures do not contradict each other.

## 2. Modules

    ClusterParams         constants of the dispatch and their assumptions
      EdgeCluster         critical sections of the cluster manager
      WorkerNode          steps of the worker's goroutines
        HttpDispatch      both, with network, Serf, clients and faults
          MCHttpDispatch      instances for TLC
          HttpDispatchProofs  types, single place, refinement, stops, task life
            HttpRecordProofs  records, counters, table of nodes, stops
              HttpLossProofs  what a fault may cost
    JobService            life of a job; HttpDispatch and FileStaging implement it
    JobRecord             life of an evaluation record; HttpDispatch keeps its records
                          so, EvalReport relies on it
    TaskLife              life of a worker's task; Supervisor implements it, the workers
                          of HttpDispatch lead it
    Scheduler             the scheduler, with what feeds it
      MCScheduler, SchedulerProofs
    Supervisor            one worker's processTask in detail
      MCSupervisor, SupervisorProofs
    StateFeed             dashboards, broadcasts and the Serf event loop
      MCStateFeed, StateFeedProofs
    FileStaging           the files of a job, from createJob to clean-up
      MCFileStaging, FileStagingProofs
    EvalReport            the evaluation report beside changing records
      MCEvalReport, EvalReportProofs

Definitions whose comment begins with "Mutated:" are deliberately wrong variants
of the definition that follows. No specification uses them: they are there to
show that a property fails when the code is changed that way.

**EdgeCluster.** One operator per critical section of `ClusterManager.mutex`. The
queue is the set of its entries: handlers look entries up by id, and no property
depends on their order. The scheduler's choice is left open here: any candidate
may be the best. `Scheduler` shows which one is. The handler of a completion event is
two operators, `recordCompletion` and `learnCompletion`: in between the mutex is free,
and `learning` is the worker whose completion the scheduler has yet to learn. Serf's
events are handled by one goroutine, so no other event is handled then.

**WorkerNode.** One operator per step of a goroutine: `listJobs`, `claimFailed`,
`claimSucceeded` (polling); `processTask`, `prepareFails`, `startWorkload`,
`finishWorkload`, `finalize`, `returnFromTask` (processing); `requestCancel`
(events); `metricsTick` (metrics loop). Tags are published in three steps, by each
goroutine on its own: after a change `updateTags` only notes that the goroutine is `due`;
`readTask` reads what the current task is by then into the goroutine's own `tags`;
`SetTags` hands these over to Serf, where the last call wins (`news`), whichever goroutine
made it and however long ago it read. A goroutine goes on after its own `SetTags`;
`startWorkload` may publish the task once more, as the code does for a command before it
starts and for a simulated task at its end.

**TaskLife.** What is left of a worker without goroutines, commands and tags: a task is
taken when there is none, worked on while it is the current one, stopped only if it was
cancelled while it ran, and reported before the next one is begun.

**HttpDispatch.** `rpc[w]` is the claim a worker waits for, with the set of idle members
that its handler read before it took the mutex; `orphans` are handlers whose client timed
out; `view` is what the edge knows of the tags; `events` is the queue of member events;
`reports` and `cancels` are user events on their way, in no order. `StopJob` and
`SignalStop` are the two halves of `stopJob`, `DeliverReport` and `LearnFromReport` those of
the completion handler: in between the mutex is free. Faults: a worker crashes, a claim
times out, a live worker is suspected, a user event is lost. Restarts and rejoins follow.

**JobService.** The abstract specification: a posted job waits, is handed to at
most one worker, once, and is then over. The mapping takes queued jobs to
"waiting", jobs that are current or in an answer on the way to "held", all others
that were posted to "over". In FileStaging a job waits once its post has been
answered, is held from `Take` on, and is over when the worker is done with it: the
order in which jobs come to the worker there is one that the cluster allows.

**JobRecord.** The second abstract specification: a record is opened, assigned once,
and concluded by the worker it names, or withdrawn before. As long as ids are unique, the
cluster's `hist` follows it (`RecordsMoveOn`). The records that EvalReport reads while they
change follow it too, so the report is checked and proved for handlers that do no more
than the cluster's.

**Scheduler.** One pending job at a time, workers that ask, jobs that end with or
without a completion, departures, returns and late tags. Candidates come in any
order, since `serf.Members()` ranges over a map. Of floats the model keeps what
comparisons tell apart: a greedy score is ordered like the negated product of
predicted time and load; a hybrid score is 0 for an idle candidate, because
`math.Pow(1-Load, 2.42)` is multiplied in and `Load` is the in-flight count *plus
one*, and NaN for any other. NaN is a value of its own that no number exceeds.
The swarm, ant and genetic searches keep some candidate they have met: any.
`OnCompleted` gets an empty `shared.Task` (`main.go:296`), so completions are
learned under type 0 and affinity finds nothing. `UpdateParams` is left out because
it only moves weights that stay finite and positive and that no choice depends on.

**Supervisor.** `processTask` from the claim to its return: the processor, the
goroutine in `cmd.Wait`, the child (which may exit at any time, or ignore SIGINT,
or never exit), the timers and the event handler that cancels. A `select` with
several ready cases takes any of them. `ImplementsTaskLife` maps it to TaskLife: `Stage`
tells from the details whether the task is being prepared, runs, or waits for its
report, and a cancel counts while the task runs.

**StateFeed.** A state of the cluster is two numbers, how many changes of the
cluster manager and how many of Serf it includes, since `getClusterState` reads
these halves one after the other. `Senders` are the event loop and "others", which
stands for the ticker and for every goroutine started with `go`: all of them take
`broadcastMux`. Each sender goes through `Lock`, `Copy`, one `StartWrite` and
`WriteDone` or `WriteFails` per connection, and `Unlock`; the handler of a connection
through `Register`, `ReadEdge`, `ReadSerf`, `StartInitial`, `InitialDone` and
`ReadFails`. Merged are steps that commute with every other goroutine's: taking the
mutex with reading the first half, reading the second half with copying the clients.
The websocket library panics when it notices a second writer: in a broadcaster this
ends the process (`crashed`), in a handler `net/http` recovers, and the closed
connection stays registered ("panicked"). A race that the library does not notice is
not modelled. `blocked` is the event that Serf waits to send with its lock held. A
message waits in `inbox` until the browser shows it; when the buffers are full the
writer waits. `screen` compares what a dashboard shows with the present state.

**FileStaging.** `files` and `configs` are the edge's directory, `wdir` the worker's. A file
has an owner and may be a part of what it should be: creating it makes a part, and two
writers of one file at once leave a mixture or either's version (`Written`). The handlers of
posts and uploads proceed by file operations (`FetchCreate`, `FetchDone` or `FetchCut`,
`EdgeConvert`, `ConfigCreate`, `ConfigDone`, `Parse`, ...), and so does the worker's
processor (`Take`, `ResourceCreate`, `Chmod`, `Download`, `Convert`, `Start`, `End`, ...). A
job says what its file is (`type`), and the file has a suffix, which may say something else.
Edge and worker convert what is of type mp4 *or* ends in .mp4 (`ToConvert`); a file that
ends in .MP4 is one of "other" suffix and type mp4. The worker's `Convert` removes
`<stem>.mp4`, which is its input only if that has this suffix. `Placed` are the files that
users have put on the worker. ffmpeg may fail and leave a part of its output. A crash keeps
the disk. One worker takes the jobs in any order: workers do not share files. Left out:
simulated runs (they need no file), configurations that are already on the edge (they are
only read), and crashes of the edge (its state is lost with it).

**EvalReport.** `Copy` takes the pointers to the records under the lock; `Read` reads one
record in one pass, without the lock, while handlers change it. A figure is the set of
jobs it is made from; durations, energy and the like only weigh these jobs.
`WriteStatus` and `WriteDuration` are the two writes of the completion handler, between
which the unlocked passes may read. A torn read of a word yields the old or the new
value, which the interleaving contains. The fifth pass, the overall convergence, uses no
other job than the first ones and is left out. `gini` folds over the sorted assignments
as the code does; `AssignmentsByNode` has no entry for a worker without assignments.

## 3. Runs

| Run | Instance | Shows |
|---|---|---|
| `safety` | 2 workers (one too small for the second job), 2 jobs, 1 of them stoppable, 1 fault of any kind | `SinglePlace`, `ProcessorOwnsTask`, `HeldJobFits`, `RecordsTrackJobs`, `OnlyAskedTasksStop`, `CancelsGoToHolder`, `InflightBounded`, `LossBounded`, `NodesTrackMembers`, `RecordsMoveOn`, and that JobService is implemented |
| `progress` | 2 workers, metrics loop, fair; 2 jobs, or 1 job and 1 fault of any kind with its restart | the queue drains, no busy tag sticks |
| `sched` | 3 workers, 2 types, 2 jobs, Greedy or the default mode, fair | `GreedyIsBestSuited`, `HybridPicksFirst`, `InflightWithinAssigned`, `NobodyAsksInVain`, `JobTaken` |
| `supervisor` | a camera, a file and a simulated task, fair | `NothingLeftBehind`, `OutcomeIsTrue`, `CancelEnds`, `DurationEnds`, and that TaskLife is implemented |
| `feed` | 2 dashboards, one of them opened during the run, `eventCh` of 1, buffers of 2, 3 changes, both may leave, fair | `OnlyInitialOverlaps`, `BroadcastsInOrder`, `NewsIsOnItsWay`, `NewsArrives`, `EventsHandled`, `ClosedIsForgotten` |
| `staging` | 2 jobs, an upload, a user's movie in two formats, 2 configuration names, 2 old logs of which 1 is kept, one trouble, fair | `RunsOnItsFile`, `HostedFilesStay`, `NoLeftovers`, `OwnRequirements`, `LogsKept`, `UsersFilesStay`, `TaskEnds` |
| `eval` | 3 jobs, 2 workers, both symmetric | `LaterPassesCatchUp`, `SnapshotWhole`, `GiniIsMeanDifference` |

Five more runs expect a violation; see section 5. Every component has a type invariant.
They are proved, for any constants, and no run repeats them.

*What the less obvious properties say.* `CancelsGoToHolder`: while a task-cancel event is on
its way, no other worker than its addressee has the task or can still get it, even if the
tags that named the addressee are older than a crash, a restart or a suspicion.
`LossBounded`: a posted job is *lost* when it is not queued, nobody has it, no report of it
is under way and its record is not final. Lost jobs and abandoned claims together are at
most twice the faults. The bound of two is reached: a worker that crashes before it has
reported one task may be about to receive the next. `InflightBounded`: the in-flight counter
of a worker is at most the number of jobs recorded as given to it and not as completed, and
one ahead between the two critical sections of a completion. `BusyTagGoes`: the three
goroutines that publish may overtake each other, and the job scheduler's tag, read while the
task was there, may reach Serf after the processor's that says it has ended; such a tag
makes `claimJob` refuse the worker, and goes with the metrics loop's next tick.
`UsersFilesStay`: what is there under a user's name is never written again; an .mp4 goes
when a conversion of a file of that name has just made the .h264 (section 5).
`RecordsMoveOn`: late, repeated and lost events leave every record on the course of
JobRecord. `NobodyAsksInVain` and `NewsIsOnItsWay` are what the liveness properties
`JobTaken` and `NewsArrives` rest on, as invariants: while workers ask for a pending job,
one of them can be granted it, or a late tag is on its way; and what a dashboard has not
seen is with somebody who will send it.

**Bounds.** *Dispatch.* Two workers are enough for one to compete with, be preferred to, or
be taken for another. Two jobs give a worker a next task for late events to hit. Every
hazard of the dispatch needs one fault; `MaxFaults` = 1 lets each kind happen at any moment,
a restart and rejoin after it included. The safety run leaves the metrics loop out
(`Publishers` = `WithoutLoop`): job scheduler and processor already race with their tags,
and make them late in every way a safety property can see. The liveness run keeps it,
because only it can repair tags after the last change. `TagsBound` lets one worker at a time
have tags under way, and two of its goroutines at most publish at once; tags of both workers
that are late together are left to the proofs. `EventsBound` allows three of two jobs, a
fault, a stop and a race of two publishers. `Budget` has two jobs, or one job and one fault,
and races of publishers when there is no fault. The theorems need none of these bounds.
Colliding ids are left to the proofs: `SinglePlace`, `OnlyAskedTasksStop` and the refinement
are proved for any `IdOf`. *Scheduler.* The window is 1 instead of 10, so that two jobs
exceed it; one worker is faster, and one type does not fit it. *Supervisor.* The three tasks
cover the combinations of child or no child, deadline or none. *Feed.* Two broadcasters and
a connecting handler are all the writers a connection can have at once; three changes fill a
channel of one, with one event in the loop's hands and one that Serf holds. `Focus` keeps
the second dashboard for the first change and the third change for a full channel: this is
where they matter. *Staging.* `BudgetSpec` allows one trouble: a crash, an upload, a refused
request or a second configuration. The first job has any file of any type, the second one a
file that says what it is (`Plain`). With two jobs each of them meets an unrelated task
before and after. *Eval.* Three jobs are enough for a figure to have one job from before,
one from during and none from after a pass.

**Deadlock.** `progress` and `sched` check deadlock: there the metrics loop, or the
members, can always move. In the other runs all jobs may be over, all dashboards closed
or the report finished, and then nothing is left to do.

**Fairness.** Weak fairness stands for goroutines and tickers that run, requests
that are served, and gossip that arrives unless it is lost; restarts for `restart:
unless-stopped` in `docker-compose.yml`. It is stated for each goroutine of a worker by
itself (`Poller`, `Processor`, `MetricsLoop`), each with its own publications, and for the
worker's membership: one goroutine that runs on does not make up for another. Clients are
not fair, and no fault is.
Strong fairness of granting is the one strong assumption: candidates come in a
random order each time, and the choice in the default mode is the first one, so a
worker that keeps asking is chosen some time. In Greedy mode, equal candidates
alternate for the same reason, and unequal ones need no luck: strong fairness
there only says that a candidate who can be chosen asks. HttpDispatch assumes that
a workload ends, its preparation included. Supervisor assumes neither: a child need not exit
nor obey SIGINT, but it does not survive SIGKILL; and `prepare` has no fairness, because
the download of a program or a model has no deadline (`milkv-node/main.go:1569`). A task
may stay there for ever, so `DurationEnds` counts from the start of the run, and so does
`CancelEnds`, since only a run can be cancelled. `JobTaken` requires a fitting worker
that eventually stays: members that come and go for ever can leave a busy tag in
place for ever. In StateFeed open dashboards read what they are sent (`Show`): a
browser that stops reading without closing stalls its writer, and with it the holder
of `broadcastMux`, for as long as TCP keeps the connection; the model assumes this does
not last for ever. In FileStaging only the steps of `Local` are fair: ffmpeg and
commands end, and the download of a job's file has a deadline of 15 s. The download of
a program or model has none, so `TaskEnds` exempts it.

**What the feed's liveness excludes.** `Stuck` names a deadlock of the program:
`eventCh` is full, Serf waits for room with its member lock held, and the event loop,
or the holder of the mutex it waits for, is about to call `Members()`. It needs a burst
of events longer than the channel (the code's has 64), while one broadcast is under
way. `NewsArrives`, `EventsHandled` and `ClosedIsForgotten` say that nothing but this,
and the panic of section 2, takes the feed down.

## 4. Theorems

Proved for any number of workers, jobs, types, tasks, ids, dashboards, files and
faults, from the named assumptions on the constants:

| Module | Theorems | Argument |
|---|---|---|
| HttpDispatchProofs | `Invariance`, `TypeCorrect`, `AtMostOnePlace`, `ProcessorKeepsTask` | `IInv` below |
| | `Refinement` | every step moves at most one job; it maps to one step of JobService or to a stutter |
| | `GivenOnce`, `StopsAimRight` | a job leaves the queue for one worker and for good (`Given`); tags only name jobs so given (`TagsAim`) |
| | `WorkersKeepTaskLife` | whatever the cluster does, every worker leads the life of TaskLife, until its process ends (`LifeEnds`) |
| HttpRecordProofs | `RecordsCorrect`, `InflightCorrect`, `RecordsOnlyMoveOn` | seven moves of the jobs, below |
| | `NodesCorrect` | the last event about a worker says whether it is a member (`EventsTell`) |
| | `HeldJobsFit` | lists, claims and current tasks only name jobs that fit (`WantsWhatFits`) |
| | `StopsCorrect` | wherever "stopped" may come from, a client has asked (`StopsAreAsked`) |
| HttpLossProofs | `LossLimited` | double-entry books of losses and faults (`Balanced`), below |
| SchedulerProofs | `TypeCorrect`, `InflightBound` | inductive; the latter holds because `RemoveNode` deletes both counters |
| | `DefaultPicksFirst` | load >= 1 makes every first score 0 or NaN, and no other score exceeds it |
| | `GreedyBestSuited` | `argmax` is the largest of the scores, and a better candidate has a smaller product |
| | `ClaimsEnd`, `GrantsGoToCandidates` | in every mode a decision is one of the candidates (`PickIsCandidate`), below |
| SupervisorProofs | `Invariance`, `TypeCorrect`, `NothingIsLeft`, `OutcomesAreTrue` | `IInv` of that module |
| | `TaskLifeImplemented` | `IInv`, with one step of TaskLife or a stutter for every step |
| StateFeedProofs | `TypeCorrect`, `OverlapsAreInitial` | who is in the middle of a broadcast holds `broadcastMux` |
| | `BroadcastOrder` | every broadcast in an inbox is no newer than what the mutex' holder has read (`Bound`) |
| | `NewsOnItsWay` | whoever drops the news has handed it on, or was overtaken by newer news that somebody else carries |
| | `OnlyStuckStops` | whoever holds `broadcastMux` can move, unless `Stuck`; what fills the channel and the buffers is known (`Filled`) |
| FileStagingProofs | `TypeCorrect`, `RunsOnOwnFile`, `HostedStay`, `Requirements`, `Cleanup`, `UsersFiles` | an invariant about the edge's files and handlers, and on top of it one about the worker's |
| | `LogsAreKept` | a log on the disk is of a task that has started, once (`LogsInv`); `rotateLogs` drops a prefix |
| | `ServesJobs` | every step maps to one step of JobService or to a stutter |
| EvalReportProofs | `TypeCorrect`, `Snapshots`, `ReportAgrees` | what a pass has read stays true, so a later pass reads it too |
| | `RecordsLive` | a handler writes about a job that is running only (`LifeInv`); each write maps to a step of JobRecord or to a stutter |
| | `GiniCorrect` | the index of the first k sorted workers, for every k (`GiniOfValues`), below |

*Why the strengthening.* `SinglePlace` alone is not inductive: a grant may arrive
at a worker that already has a task. So `IInv` adds that a worker with jobs left to
try or a claim under way has no current task (`PollsOnlyWhenFree`: nobody but the
polling goroutine sets one), that an open claim names a job and a processor past
its start has a task (`Shape`), and `ProcessorOwnsTask`. It needs no assumption
about ids: the grant removes an entry from the queue under the mutex, whichever of
the entries with that id it is.

*Records and counters.* With unique ids, a job that is not over is unposted, queued,
carried by one worker (the job is held, or its run is about to be reported) or in one
report on its way, and its record says which (`RecordsFollow`, `ReportedOnce`). Every
step of the cluster is one of seven moves: a job is posted, dropped from the queue, or
granted; a worker reports, a report is delivered, a completion is learned; or jobs are passed
on or lost without a change of the records (`EveryStepMoves`). Each move keeps the records. A
delivered completion takes a job out of the set that the counter stands for while the counter
stays, and `learning` says so until the counter follows; every other move changes both
together, or only lowers the counter (`CountersFollow`). Each move
changes at most one record, and from the state that JobRecord asks for: only a pending
job is granted or withdrawn, and only the worker that a running record names reports. This
gives `RecordsOnlyMoveOn`, and in particular that a final record stays.

*Tags and stops.* `Given(w, j)` says that j has left the queue and that nobody but w has
it. It is stable (`GivenOnce`): a worker gets a job from the queue only, and only new jobs
enter the queue. What a worker holds has been given to it (`SinglePlace`), and tags are read
from what it holds: so every tag (`Names`), still with the goroutine that has read it, with
Serf or with the edge, however late, overtaken or left over from a process that has gone, names
a job given to that worker. With unique ids the cancel that such a tag
causes can therefore not miss another holder. It may still find that the addressee has
the job no more, or has not registered the cancel function yet (section 5).

*Losses.* `Balanced` has the lost jobs and the abandoned claims on one side and two per
fault on the other. `EveryStepAccounts` sorts the steps of the cluster: most cost nothing;
a fault adds two jobs, or a job and an abandoned claim; and an abandoned claim that is
granted to nobody turns from one into the other, which keeps the sum. That a crash costs no
more than two needs `PollsOnlyWhenFree` and `ProcessorOwnsTask`: without them a worker
could lose a current task, an unreported one and a granted claim at once. That nothing is
lost otherwise needs the records: a delivered report ends its job (`DeliveredRecord`), and
a posted id overwrites no other job's record. Finiteness comes from the posts: only
finitely many have happened.

*The other modules.* In the supervisor, `NothingLeftBehind` needs to know at each point
how far the child and its waiter are (`CommandShape`), and `OutcomeIsTrue` on which branch
a signal was sent and why (`BranchShape`, `CancelShape`). Its refinement of
TaskLife maps a cancel to `Cancel` only while the cancel function is registered, and every
end of a run, with all its branches, to one `Finish`. In the scheduler,
`ClaimsEnd` needs that every mode names a candidate when there is one: a pick of an
order of the candidates lies in its range, and an order always exists (`OrderExists`). A
candidate that asks can be granted; one that does not ask has a task which its tags do not
show yet. This and `GrantsGoToCandidates` are what `MayBeBest` and `MayBeOther` of
EdgeCluster assume. In the feed, order needs three
facts at once: the holder of the mutex has read a state that is no newer than the present
one, nobody else writes broadcasts, and everything in an inbox is no newer than what the
holder has read. `NewsIsOnItsWay` is inductive with `Known` (no handler before its
connection): a change makes a sender want to broadcast, a sender copies the clients only
after it has read, and a handler that registers too late for that reads the state itself.
In the staging, the edge's part is proved first (a file fetched for a
post is written by that post alone), and the worker's part uses it: a download starts from
a whole file that does not change any more. `UsersFiles` then goes through the writers of the
worker's directory: downloads and clean-up use names of tasks, so only a conversion touches a
user's name, and what it writes was not there. In the report, records only move forward,
and a job that a pass has counted still counts in the passes that follow.

*What holds the feed up.* `OnlyStuckStops` goes through what the holder of `broadcastMux`
may be at. Reading the edge's half and copying need nobody. Serf's half needs the member
lock, which is held by an event that waits for room in `eventCh`; then either there is room,
or the event loop can take an event, or the loop is itself behind the holder and the state is
`Stuck`. A write needs room in the inbox of its connection, a dashboard that has something to
read, or a connection that has been closed. If nobody holds the mutex, a waiting sender can
take it. `Filled` is needed so that a full channel is not an empty one, and so that every
write goes to a connection that exists.

*The index.* `gini` is a sum of index times value over the sorted list; `GiniIsMeanDifference`
is a sum over all pairs of workers. Both are folds, whose recursive functions first have to
be shown to exist (`SumExists`) and not to depend on the order (`OrderIsFree`). With this, a
worker is added at a time: the first k+1 workers have the pairs of the first k, twice the
differences between the new worker and each of them, which sortedness turns into k times its
value less the sum of theirs (`RowSum`), and a pair that does not count (`SquareCloses`). The
library's induction theorems take a predicate, which the provers do not instantiate;
`InductionOnNat` states induction for a set instead, from the least element of its complement.

*How the parts fit.* Each of these is about one part, and assumes of its surroundings only what
another one proves. TaskLife is implemented by Supervisor (`TaskLifeImplemented`), and every
worker of the cluster leads it (`WorkersKeepTaskLife`): the details of a run that Supervisor
adds are thus those of any worker in HttpDispatch. The jobs
that come to the worker of FileStaging take the course of JobService (`ServesJobs`), which the
cluster implements (`Refinement`). The records under the report take the course of JobRecord
(`RecordsLive`), which the cluster's take with unique ids (`RecordsOnlyMoveOn`). EdgeCluster's
open choice of a candidate is the scheduler's (`GrantsGoToCandidates`).

*Only model-checked.* All liveness (`QueueDrains`, `BusyTagGoes`, `JobTaken`,
`CancelEnds`, `DurationEnds`, `NewsArrives`, `EventsHandled`, `ClosedIsForgotten`,
`TaskEnds`), since the prover handles neither fairness nor ENABLED.
Of three of them the safety core is proved, as an invariant that says that whoever is waited
for can act: of `JobTaken` (`ClaimsEnd`), `NewsArrives` (`NewsOnItsWay`) and `EventsHandled`
(`OnlyStuckStops`). The types of all modules, every safety invariant and every action
property of the runs are proved.

*Assumptions.* All are of the constants and named in the modules. Those that are more than
types: the extra values are different from the jobs and workers; logs left from earlier are
named differently from each other and from the jobs' (`LogNamesAssumption`: they are files
of one directory, named by task); the memory limits, predicted durations, the window and
the number of logs kept are positive; the scheduler's workers are finitely many.
Statements that need unique ids say so (`UniqueIds`); `OnlyStuckStops` takes a channel and
buffers with room for at least one (`eventCh` has 64 places).

## 5. Where code and documentation disagree

| Run | What the run shows |
|---|---|
| `lost_task` | `removeNode` "requeues its tasks" (`main.go:593`), but nothing sets the fields it requeues from: the job of a failed worker is lost and its record stays "running" |
| `stop_404` | between a claim and the arrival of the worker's tags, `stopJob` answers "not queued or running" for a job that runs, and sends no cancel |
| `dropped_cancel` | a cancel that reaches the worker before `processTask` has registered its cancel function is ignored, after the client was told "cancelling" |
| `best_suited` | in the default mode the choice ignores load, speed and affinity: a worker with a job in flight may be preferred to an idle equal one (`scheduler.go:792`) |
| `feed_stale` | a broadcast overtakes the initial state of a dashboard that is connecting (`main.go:476`): it goes back to the older state and keeps it, while "updated in real time" is promised |

Two more disagreements need no run of their own, because a property of a passing run has
what the code does:

* `rotateLogs` is to "keep only 5 most recent" logs (`milkv-node/main.go:617`), but runs
  before the log of the task is created, so six stay: `LogsKept` has `Keep + 1`.
* After a conversion the worker is to "remove original mp4 file"
  (`milkv-node/main.go:1507`), and elsewhere takes care that it "avoids deleting
  user-provided local files" (844). What 1508 removes is `<stem>.mp4`: if the
  original ends in anything else, that is another file, perhaps a user's. `UsersFilesStay` says
  that this is the only way for a user's file to go.

## 6. Not modelled

* *MQTT dispatch*: the edge does not compile with that build tag (`mqtt.go:355` and
  `:358` call `addJob` with 6 of its 14 arguments), so there is no program to be
  faithful to. The default build links the stubs.
* *Scheduler*: `UpdateParams` as an optimiser (random floats without influence on a
  choice) and the decision latencies.
* *Evaluation report*: percentiles, energy, batching savings and convergence, which are
  arithmetic over the records that the model does show being read.
* *File staging*: simulated runs, configurations already on the edge, crashes of the
  edge, and two workers (they share no file but the edge's, which the single worker
  already reads at any moment).
* *Worker agent*: mDNS discovery, registration, memory figures.
* The HTML page, routing and static files, the evaluation scripts and result data (no
  state of the cluster); the transport inside Serf.

What could follow: a composition of HttpDispatch and FileStaging, to follow one job from its
upload to its completion; a model of the scheduler inside it, instead of the two facts proved
about its choices.
