------------------------------ MODULE WorkerNode ------------------------------
(***************************************************************************)
(* The worker process, without MQTT: the goroutines that share currentTask *)
(* and the cancel function.                                                *)
(*   - the job scheduler (startJobScheduler): lists the pending jobs, then *)
(*     claims them one by one until a claim succeeds;                      *)
(*   - the task processor (startTaskProcessor, processTask);               *)
(*   - the Serf event handler (task-cancel);                               *)
(*   - the metrics loop, which republishes the Serf tags.                  *)
(* Every operator is one step of one goroutine. The claim request itself   *)
(* and the delivery of tags and events belong to HttpDispatch.             *)
(***************************************************************************)
EXTENDS ClusterParams

\* The goroutines that call updateMemoryTags: the job scheduler and the task
\* processor, after a change of currentTask, and the metrics loop, which an
\* instance may leave out.
CONSTANT Publishers

ASSUME PublisherAssumption ==
    Publishers \in {{"poller", "processor"}, {"poller", "processor", "loop"}}

VARIABLES up,       \* the workers whose process runs
          cur,      \* cur[w]: currentTask
          todo,     \* todo[w]: what checkForAvailableJobs still has to try
          due,      \* due[w]: who has not read currentTask for its tags yet
          tags,     \* tags[w][p]: what p is about to give to SetTags
          news,     \* news[w]: tags that SetTags has left to the gossip
          pc,       \* pc[w]: where processTask is
          task,     \* task[w]: the task processTask works on
          cancelled,  \* cancelled[w]: the workload that runs has been cancelled
          outcome   \* outcome[w]: what the completion event is to say

procVars == <<pc, task, cancelled, outcome>>
tagVars == <<due, tags, news>>
workerVars == <<up, cur, todo, tagVars, procVars>>

Outcomes == {"completed", "failed", "stopped"}

\* No publication is under way.
Nothing == [p \in Publishers |-> NoTags]

WorkerTypeOK ==
    /\ up \subseteq Workers
    /\ cur \in [Workers -> Jobs \cup {NoJob}]
    /\ todo \in [Workers -> SUBSET Jobs]
    /\ due \in [Workers -> SUBSET Publishers]
    /\ tags \in [Workers -> [Publishers -> Jobs \cup {NoJob, NoTags}]]
    /\ news \in [Workers -> Jobs \cup {NoJob, NoTags}]
    /\ pc \in [Workers -> {"idle", "prepare", "run", "report"}]
    /\ task \in [Workers -> Jobs \cup {NoJob}]
    /\ cancelled \in [Workers -> BOOLEAN]
    /\ outcome \in [Workers -> Outcomes \cup {"none"}]

\* Every worker has joined and published its tags (sendNodeInfo).
WorkerInit ==
    /\ up = Workers
    /\ cur = [w \in Workers |-> NoJob]
    /\ todo = [w \in Workers |-> {}]
    /\ due = [w \in Workers |-> {}]
    /\ tags = [w \in Workers |-> Nothing]
    /\ news = [w \in Workers |-> NoTags]
    /\ pc = [w \in Workers |-> "idle"]
    /\ task = [w \in Workers |-> NoJob]
    /\ cancelled = [w \in Workers |-> FALSE]
    /\ outcome = [w \in Workers |-> "none"]

\* p is inside of updateMemoryTags, which returns after SetTags.
publishing(w, p) == p \in due[w] \/ tags[w][p] # NoTags

\* The first step of updateMemoryTags, after a change of currentTask that p has
\* just made: the tags will be those of the task p reads then, not now.
updateTags(w, p) == due' = [due EXCEPT ![w] = @ \cup {p}]

\* processTask returns, or the process goes: nothing of the run is left.
clearRun(w) ==
    /\ pc' = [pc EXCEPT ![w] = "idle"]
    /\ task' = [task EXCEPT ![w] = NoJob]
    /\ cancelled' = [cancelled EXCEPT ![w] = FALSE]
    /\ outcome' = [outcome EXCEPT ![w] = "none"]

-------------------------------------------------------------------------------
\* Mutated: a worker with a task asks for jobs, too.
listJobsWhileBusy(w, listed) ==
    /\ w \in up
    /\ todo[w] = {}
    /\ ~publishing(w, "poller")
    /\ todo' = [todo EXCEPT ![w] = {j \in listed : Mem[j] <= Limit[w]}]
    /\ UNCHANGED <<up, cur, tagVars, procVars>>

\* Mutated: jobs that do not fit are tried, too.
listJobsUnfiltered(w, listed) ==
    /\ w \in up
    /\ cur[w] = NoJob
    /\ todo[w] = {}
    /\ ~publishing(w, "poller")
    /\ todo' = [todo EXCEPT ![w] = listed]
    /\ UNCHANGED <<up, cur, tagVars, procVars>>

\* checkForAvailableJobs, after its GET: only without a current task, and only
\* the listed jobs that fit the memory limit are tried. The goroutine is here again
\* once it has published the tags of its last job.
listJobs(w, listed) ==
    /\ w \in up
    /\ cur[w] = NoJob
    /\ todo[w] = {}
    /\ ~publishing(w, "poller")
    /\ todo' = [todo EXCEPT ![w] = {j \in listed : Mem[j] <= Limit[w]}]
    /\ UNCHANGED <<up, cur, tagVars, procVars>>

\* Mutated: the refused job is tried again instead of the next one.
claimFailedRetries(w, j) == UNCHANGED workerVars

\* claimJob returned false for the entry j (404, 409, error or timeout): the
\* loop goes on with the next one.
claimFailed(w, j) ==
    /\ todo' = [todo EXCEPT ![w] = @ \ {j}]
    /\ UNCHANGED <<up, cur, tagVars, procVars>>

\* claimJob got its 200: the job in the answer becomes the current task, the
\* tags are to be refreshed and the loop is left.
claimSucceeded(w, got) ==
    /\ cur' = [cur EXCEPT ![w] = got]
    /\ todo' = [todo EXCEPT ![w] = {}]
    /\ updateTags(w, "poller")
    /\ UNCHANGED <<up, tags, news, procVars>>

\* A tick of startTaskProcessor finds a current task and enters processTask.
processTask(w) ==
    /\ w \in up
    /\ pc[w] = "idle"
    /\ cur[w] # NoJob
    /\ pc' = [pc EXCEPT ![w] = "prepare"]
    /\ task' = [task EXCEPT ![w] = cur[w]]
    /\ UNCHANGED <<up, cur, todo, tagVars, cancelled, outcome>>

\* The finalizeTask functions up to the completion event: the current task is
\* cleared and the tags are to be refreshed. The context of the run, cancelled or
\* not, is not read any more.
finalize(w, status) ==
    /\ cur' = [cur EXCEPT ![w] = NoJob]
    /\ updateTags(w, "processor")
    /\ pc' = [pc EXCEPT ![w] = "report"]
    /\ cancelled' = [cancelled EXCEPT ![w] = FALSE]
    /\ outcome' = [outcome EXCEPT ![w] = status]
    /\ UNCHANGED <<up, todo, tags, news, task>>

\* prepareFileForTask fails (download, conversion).
prepareFails(w) ==
    /\ w \in up
    /\ pc[w] = "prepare"
    /\ finalize(w, "failed")

\* Binaries and input are in place: the cancel function is registered and the
\* workload starts. Before a command starts, or at the end of a simulated workload,
\* the tags of the task, still the current one, are published once more.
startWorkload(w) ==
    /\ w \in up
    /\ pc[w] = "prepare"
    /\ pc' = [pc EXCEPT ![w] = "run"]
    /\ tags' \in {tags, [tags EXCEPT ![w]["processor"] = cur[w]]}
    /\ UNCHANGED <<up, cur, todo, due, news, task, cancelled, outcome>>

\* Mutated: the task named in the event is not compared.
requestCancelAny(w, id) ==
    /\ cancelled' = IF pc[w] = "run"
                    THEN [cancelled EXCEPT ![w] = TRUE] ELSE cancelled
    /\ UNCHANGED <<up, cur, todo, tagVars, pc, task, outcome>>

\* requestCancel: acts only if the named task is the one whose cancel function
\* is registered. Once the workload is over there is nothing left to cancel.
requestCancel(w, id) ==
    /\ cancelled' = IF pc[w] = "run" /\ IdOf[task[w]] = id
                    THEN [cancelled EXCEPT ![w] = TRUE] ELSE cancelled
    /\ UNCHANGED <<up, cur, todo, tagVars, pc, task, outcome>>

\* The workload ends: by itself, by its duration, with an error, or cancelled.
\* When it ends by itself while a cancel is pending, select takes either.
finishWorkload(w, status) ==
    /\ w \in up
    /\ pc[w] = "run"
    /\ ~publishing(w, "processor")
    /\ status = "stopped" => cancelled[w]
    /\ finalize(w, status)

\* The tags are out and sendTaskCompletion has been called: processTask returns,
\* and its deferred function drops the cancel function.
returnFromTask(w) ==
    /\ w \in up
    /\ pc[w] = "report"
    /\ ~publishing(w, "processor")
    /\ clearRun(w)
    /\ UNCHANGED <<up, cur, todo, tagVars>>

\* Mutated: the loop refreshes the tags of a busy worker only.
metricsTickWhenBusy(w) ==
    /\ "loop" \in Publishers
    /\ w \in up
    /\ ~publishing(w, "loop")
    /\ cur[w] # NoJob
    /\ tags' = [tags EXCEPT ![w]["loop"] = cur[w]]
    /\ UNCHANGED <<up, cur, todo, due, news, procVars>>

\* startMetricsLoop: a tick reads the current task for its tags.
metricsTick(w) ==
    /\ "loop" \in Publishers
    /\ w \in up
    /\ ~publishing(w, "loop")
    /\ tags' = [tags EXCEPT ![w]["loop"] = cur[w]]
    /\ UNCHANGED <<up, cur, todo, due, news, procVars>>

\* updateMemoryTags: p reads the current task, whatever it is by now, and computes
\* the tags.
readTask(w, p) ==
    /\ p \in due[w]
    /\ due' = [due EXCEPT ![w] = @ \ {p}]
    /\ tags' = [tags EXCEPT ![w][p] = cur[w]]
    /\ UNCHANGED <<up, cur, todo, news, procVars>>

\* updateMemoryTags: SetTags. Serf has one set of tags: the last call wins, and
\* takes the place of tags that have not got through yet, however old its own are.
SetTags(w, p) ==
    /\ tags[w][p] # NoTags
    /\ news' = [news EXCEPT ![w] = tags[w][p]]
    /\ tags' = [tags EXCEPT ![w][p] = NoTags]
    /\ UNCHANGED <<up, cur, todo, due, procVars>>

\* The process dies, or leaves on SIGTERM (shutdown): nothing is persisted.
stopProcess(w) ==
    /\ w \in up
    /\ up' = up \ {w}
    /\ cur' = [cur EXCEPT ![w] = NoJob]
    /\ todo' = [todo EXCEPT ![w] = {}]
    /\ clearRun(w)
    /\ due' = [due EXCEPT ![w] = {}]
    /\ tags' = [tags EXCEPT ![w] = Nothing]
    /\ news' = [news EXCEPT ![w] = NoTags]

\* The process starts, joins Serf (initSerf) and sends its tags (sendNodeInfo)
\* before the first tick of any goroutine.
startProcess(w) ==
    /\ w \notin up
    /\ up' = up \cup {w}
    /\ news' = [news EXCEPT ![w] = NoJob]
    /\ UNCHANGED <<cur, todo, due, tags, procVars>>
===============================================================================
