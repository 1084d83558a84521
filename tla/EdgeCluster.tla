----------------------------- MODULE EdgeCluster ------------------------------
(***************************************************************************)
(* The edge server's cluster manager: the job queue, the evaluation        *)
(* records, the table of nodes and the scheduler's in-flight counters,     *)
(* with the handlers that change them. Each operator is one critical       *)
(* section of ClusterManager.mutex, so it is one atomic step.              *)
(*                                                                         *)
(* The queue is the set of its entries: every handler looks entries up by  *)
(* id, and no property depends on their order.                             *)
(***************************************************************************)
EXTENDS ClusterParams

VARIABLES queue,      \* jobQueue: the pending jobs
          hist,       \* jobHistory[id]; status "none" when there is no record
          nodes,      \* the keys of ClusterManager.nodes
          inflight,   \* TaskScheduler.inflight; 0 when there is no entry
          learning    \* the worker whose completion is recorded but not learned

edgeVars == <<queue, hist, nodes, inflight, learning>>

Terminal == {"completed", "failed", "stopped"}
Record == [status : {"none", "pending", "running"} \cup Terminal,
           node : Workers \cup {NoWorker}]

EdgeTypeOK ==
    /\ queue \subseteq Jobs
    /\ hist \in [Ids -> Record]
    /\ nodes \subseteq Workers
    /\ inflight \in [Workers -> Nat]
    /\ learning \in Workers \cup {NoWorker}

\* The cluster once every worker has joined and before the first job.
EdgeInit ==
    /\ queue = {}
    /\ hist = [id \in Ids |-> [status |-> "none", node |-> NoWorker]]
    /\ nodes = Workers
    /\ inflight = [w \in Workers |-> 0]
    /\ learning = NoWorker

-------------------------------------------------------------------------------
\* addJob: a pending entry is appended and a fresh record is written, over the
\* record of any earlier job with the same id.
addJob(j) ==
    /\ queue' = queue \cup {j}
    /\ hist' = [hist EXCEPT ![IdOf[j]] = [status |-> "pending", node |-> NoWorker]]
    /\ UNCHANGED <<nodes, inflight, learning>>

\* The pending entries that a handler asked for id may find.
Queued(id) == {j \in queue : IdOf[j] = id}

\* collectCandidates: of the members seen idle (alive, node_type "milkv", not
\* "busy"), those whose free memory, the whole limit then, takes the job.
Candidates(j, idle) == {c \in idle : Mem[j] <= Limit[c]}

\* Mutated: a job that takes all of the memory is rejected.
MemoryRejectsExactFit(w, j, idle) == w \in idle /\ Limit[w] <= Mem[j]

\* Memory check of claimJob. A claimant without tags counts as 0 free, and 0
\* is taken to mean "unknown": the check is skipped.
MemoryRejects(w, j, idle) == w \in idle /\ Limit[w] < Mem[j]

\* BestWorkerForTaskLocked names one of the candidates, or nobody when there
\* are none. Which one depends on the mode and, in the default mode, on the
\* random order of serf.Members(); here it may be any of them.
MayBeBest(w, j, idle) ==
    Candidates(j, idle) # {} => w \in Candidates(j, idle)
MayBeOther(w, j, idle) == Candidates(j, idle) \ {w} # {}

\* Mutated: the granted entry stays in the queue.
claimGrantedKeepsEntry(w, j, idle) ==
    /\ j \in queue
    /\ ~MemoryRejects(w, j, idle)
    /\ MayBeBest(w, j, idle)
    /\ inflight' = [inflight EXCEPT ![w] = @ + 1]
    /\ hist' = [hist EXCEPT ![IdOf[j]] = [status |-> "running", node |-> w]]
    /\ UNCHANGED <<queue, nodes, learning>>

\* Mutated: the record is left as it was.
claimGrantedUnrecorded(w, j, idle) ==
    /\ j \in queue
    /\ ~MemoryRejects(w, j, idle)
    /\ MayBeBest(w, j, idle)
    /\ queue' = queue \ {j}
    /\ inflight' = [inflight EXCEPT ![w] = @ + 1]
    /\ UNCHANGED <<hist, nodes, learning>>

\* claimJob under the lock, granting the claim of w for the entry j. idle is
\* what the handler made of serf.Members() before it took the lock.
claimGranted(w, j, idle) ==
    /\ j \in queue
    /\ ~MemoryRejects(w, j, idle)
    /\ MayBeBest(w, j, idle)
    /\ queue' = queue \ {j}
    /\ inflight' = [inflight EXCEPT ![w] = @ + 1]
    /\ hist' = [hist EXCEPT ![IdOf[j]] = [status |-> "running", node |-> w]]
    /\ UNCHANGED <<nodes, learning>>

\* claimJob under the lock, answering 404 or 409: no such entry, not enough
\* memory, or another worker is the best one.
claimRefused(w, id, idle) ==
    /\ \/ Queued(id) = {}
       \/ \E j \in Queued(id) : MemoryRejects(w, j, idle) \/ MayBeOther(w, j, idle)
    /\ UNCHANGED edgeVars

\* Mutated: the record is stopped whether or not an entry was removed.
stopQueuedAnyRecord(id) ==
    /\ queue' = queue \ Queued(id)
    /\ hist' = [hist EXCEPT ![id].status = "stopped"]
    /\ UNCHANGED <<nodes, inflight, learning>>

\* First half of stopJob: a queued job is removed, its record stopped.
stopQueued(id) ==
    \E j \in Queued(id) :
        /\ queue' = queue \ {j}
        /\ hist' = [hist EXCEPT ![id].status = "stopped"]
        /\ UNCHANGED <<nodes, inflight, learning>>

\* addNode: the node's entry is (over)written; EnsureNode keeps a counter that
\* exists and creates a missing one as 0.
addNode(w) ==
    /\ nodes' = nodes \cup {w}
    /\ UNCHANGED <<queue, hist, inflight, learning>>

\* Mutated: the node's entry is not deleted.
removeNodeKeepsEntry(w) ==
    /\ inflight' = IF w \in nodes THEN [inflight EXCEPT ![w] = 0] ELSE inflight
    /\ UNCHANGED <<queue, hist, nodes, learning>>

\* Mutated: what the records say the node is running is queued again.
removeNodeRequeues(w) ==
    /\ nodes' = nodes \ {w}
    /\ queue' = queue \cup
          {j \in Jobs : hist[IdOf[j]] = [status |-> "running", node |-> w]}
    /\ inflight' = IF w \in nodes THEN [inflight EXCEPT ![w] = 0] ELSE inflight
    /\ UNCHANGED <<hist, learning>>

\* removeNode: the entry and the scheduler's counters go. The node's
\* CurrentTask and TaskQueue are appended to the queue: nothing in the HTTP
\* build ever sets either, so what is appended is empty.
removeNode(w) ==
    /\ nodes' = nodes \ {w}
    /\ inflight' = IF w \in nodes THEN [inflight EXCEPT ![w] = 0] ELSE inflight
    /\ UNCHANGED <<queue, hist, learning>>

\* handleUserEvent, "task-completion", the first time under the lock: the record
\* of the id takes the reported status, whatever it was; AssignedTo is only filled
\* in when it is empty. The scheduler is to learn from "completed" alone.
recordCompletion(w, id, status) ==
    /\ learning = NoWorker
    /\ hist' = IF hist[id].status = "none" THEN hist
               ELSE [hist EXCEPT ![id] =
                        [status |-> status,
                         node |-> IF @.node = NoWorker THEN w ELSE @.node]]
    /\ learning' = IF status = "completed" THEN w ELSE NoWorker
    /\ UNCHANGED <<queue, nodes, inflight>>

\* Mutated: the counter is left as it is.
learnCompletionNot ==
    /\ learning # NoWorker
    /\ learning' = NoWorker
    /\ UNCHANGED <<queue, hist, nodes, inflight>>

\* The second time under the lock: OnCompleted, whose counter stops at 0.
learnCompletion ==
    /\ learning # NoWorker
    /\ inflight' = IF inflight[learning] > 0
                   THEN [inflight EXCEPT ![learning] = @ - 1] ELSE inflight
    /\ learning' = NoWorker
    /\ UNCHANGED <<queue, hist, nodes>>
===============================================================================
