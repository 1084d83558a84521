------------------------------ MODULE EvalReport ------------------------------
(***************************************************************************)
(* The evaluation report of the edge server (getEvalReport in api.go and   *)
(* the statistics of eval.go) and its metrics (metrics.go), beside the     *)
(* handlers that change the job records meanwhile.                         *)
(*                                                                         *)
(* The report copies pointers to the records under the cluster's lock and  *)
(* then reads the records without it, in four passes. A figure is kept as  *)
(* the jobs that it is made from; energy, power and intensities only weigh *)
(* these jobs, and are left out. No two jobs have the same id.             *)
(***************************************************************************)
EXTENDS Integers, Sequences, FiniteSets, SequencesExt

CONSTANTS Jobs, Workers,
          None         \* no job, no worker

ASSUME NoneAssumption == None \notin Jobs \cup Workers
ASSUME FiniteAssumption == IsFiniteSet(Jobs) /\ IsFiniteSet(Workers)

VARIABLES records,  \* ClusterManager.jobHistory
          writing,  \* the job that a handler writes about, under the lock
          pass,     \* the pass of getEvalReport; 0 before, 5 after the report
          copied,   \* its copy of the pointers
          left,     \* records that the pass has not read yet
          report,   \* jobs by figure
          snapshot  \* the last SnapshotJSON: jobs by figure

vars == <<records, writing, pass, copied, left, report, snapshot>>

Final == {"completed", "failed", "stopped"}
Record == [status : {"none", "pending", "running"} \cup Final,
           assignedTo : Workers \cup {None},
           timed : BOOLEAN] \* DurationSec > 0
NoRecord == [status |-> "none", assignedTo |-> None, timed |-> FALSE]

Posted == {j \in Jobs : records[j].status # "none"}

\* Mutated: the lists are made before the records are counted.
PassesReversed == <<"batching", "totals", "workers", "energy">>

Passes == <<"totals", "workers", "energy", "batching">>

\* The figures of the report, in the order in which they are computed.
Figures == {"completed", "latencies", "assigned", "perWorker", "total", "listed"}
NoFigures == [f \in Figures |-> {}]

TypeOK ==
    /\ records \in [Jobs -> Record]
    /\ writing \in Jobs \cup {None}
    /\ pass \in 0..Len(Passes) + 1
    /\ copied \subseteq Jobs
    /\ left \subseteq copied
    /\ report \in [Figures -> SUBSET Jobs]
    /\ snapshot \in [{"completed", "timed"} -> SUBSET Jobs]

Init ==
    /\ records = [j \in Jobs |-> NoRecord]
    /\ writing = None
    /\ pass = 0
    /\ copied = {} /\ left = {}
    /\ report = NoFigures
    /\ snapshot = [f \in {"completed", "timed"} |-> {}]

-------------------------------------------------------------------------------
(* The handlers, as far as the records go *)

\* addJob writes a new record.
Post(j) ==
    /\ writing = None
    /\ records[j].status = "none"
    /\ records' = [records EXCEPT ![j] = [@ EXCEPT !.status = "pending"]]
    /\ UNCHANGED <<writing, pass, copied, left, report, snapshot>>

\* claimJob assigns the job.
Claim(j, w) ==
    /\ writing = None
    /\ records[j].status = "pending"
    /\ records' = [records EXCEPT ![j] =
          [@ EXCEPT !.status = "running", !.assignedTo = w]]
    /\ UNCHANGED <<writing, pass, copied, left, report, snapshot>>

\* stopJob stops a queued job.
Stop(j) ==
    /\ writing = None
    /\ records[j].status = "pending"
    /\ records' = [records EXCEPT ![j] = [@ EXCEPT !.status = "stopped"]]
    /\ UNCHANGED <<writing, pass, copied, left, report, snapshot>>

\* handleUserEvent takes the lock and writes the status,
WriteStatus(j, s) ==
    /\ writing = None
    /\ records[j].status = "running"
    /\ records' = [records EXCEPT ![j] = [@ EXCEPT !.status = s]]
    /\ writing' = j
    /\ UNCHANGED <<pass, copied, left, report, snapshot>>

\* and then the duration.
WriteDuration(j) ==
    /\ writing = j
    /\ records' = [records EXCEPT ![j] = [@ EXCEPT !.timed = TRUE]]
    /\ writing' = None
    /\ UNCHANGED <<pass, copied, left, report, snapshot>>

-------------------------------------------------------------------------------
(* SnapshotJSON *)

Completed(S) == {j \in S : records[j].status = "completed"}
Timed(S) == {j \in S : records[j].status \in Final /\ records[j].timed}

\* Mutated: records are copied without the lock.
SnapshotUnlocked ==
    /\ snapshot' = [completed |-> Completed(Posted), timed |-> Timed(Posted)]
    /\ UNCHANGED <<records, writing, pass, copied, left, report>>

\* The records are copied while the lock is held.
SnapshotJSON ==
    /\ writing = None
    /\ snapshot' = [completed |-> Completed(Posted), timed |-> Timed(Posted)]
    /\ UNCHANGED <<records, writing, pass, copied, left, report>>

-------------------------------------------------------------------------------
(* getEvalReport *)

\* The pointers are copied while the lock is held.
Copy ==
    /\ pass = 0
    /\ writing = None
    /\ pass' = 1
    /\ copied' = Posted
    /\ left' = Posted
    /\ report' = NoFigures
    /\ UNCHANGED <<records, writing, snapshot>>

\* Job j counts for the figure if c holds.
Counts(j, c) == IF c THEN {j} ELSE {}

\* Totals, latencies and assignments: the first pass.
ReadTotals(j) ==
    [report EXCEPT !["completed"] = @ \cup Completed({j}),
                   !["latencies"] = @ \cup (Completed({j}) \cap Timed({j})),
                   !["assigned"] = @ \cup Counts(j, records[j].assignedTo # None)]

\* Durations per worker, all durations, completed jobs per worker: the others.
ReadWorkers(j) ==
    [report EXCEPT !["perWorker"] = @ \cup {i \in Timed({j}) : records[i].assignedTo # None}]

ReadEnergy(j) == [report EXCEPT !["total"] = @ \cup Timed({j})]

ReadBatching(j) ==
    [report EXCEPT !["listed"] = @ \cup {i \in Completed({j}) : records[i].assignedTo # None}]

Read(j) ==
    /\ j \in left
    /\ left' = left \ {j}
    /\ \/ Passes[pass] = "totals" /\ report' = ReadTotals(j)
       \/ Passes[pass] = "workers" /\ report' = ReadWorkers(j)
       \/ Passes[pass] = "energy" /\ report' = ReadEnergy(j)
       \/ Passes[pass] = "batching" /\ report' = ReadBatching(j)
    /\ UNCHANGED <<records, writing, pass, copied, snapshot>>

\* The next pass over the same pointers, or the answer.
NextPass ==
    /\ pass \in DOMAIN Passes
    /\ left = {}
    /\ pass' = pass + 1
    /\ left' = IF pass' \in DOMAIN Passes THEN copied ELSE {}
    /\ UNCHANGED <<records, writing, copied, report, snapshot>>

Next ==
    \/ \E j \in Jobs :
          \/ Post(j)
          \/ \E w \in Workers : Claim(j, w)
          \/ Stop(j)
          \/ \E s \in Final : WriteStatus(j, s)
          \/ WriteDuration(j)
          \/ Read(j)
    \/ SnapshotJSON \/ Copy \/ NextPass

Spec == Init /\ [][Next]_vars

-------------------------------------------------------------------------------
(* The statistics *)

\* Mutated: ranks start with 0.
WeightedFromZero(s) == FoldLeftDomain(LAMBDA acc, i : acc + (i - 1) * s[i], 0, s)

\* The sum of the values, each times its rank.
Weighted(s) == FoldLeftDomain(LAMBDA acc, i : acc + i * s[i], 0, s)

Total(s) == FoldLeft(LAMBDA acc, v : acc + v, 0, s)

\* The numerator of gini over Len(s) * Total(s), for sorted values.
gini(s) == 2 * Weighted(s) - (Len(s) + 1) * Total(s)

-------------------------------------------------------------------------------
(* Properties *)

\* A report is not of one moment, but its parts do not contradict each other
\* either: a job that counts as completed is on its worker's list, and every
\* latency is also in the durations and energies that are summed up later.
LaterPassesCatchUp ==
    pass > Len(Passes) =>
        /\ report["completed"] \subseteq report["listed"]
        /\ report["latencies"] \subseteq report["perWorker"]
        /\ report["perWorker"] \subseteq report["total"]

\* A snapshot of the metrics, which does not count a job's completion without
\* its duration: the average latency is over all completed jobs.
SnapshotWhole == snapshot["completed"] \subseteq snapshot["timed"]

\* The values of a map, sorted.
Sorted(f) ==
    LET keys == CHOOSE s \in SetToSeqs(DOMAIN f) :
                    \A i, j \in DOMAIN s : i < j => f[s[i]] <= f[s[j]]
    IN  [i \in DOMAIN keys |-> f[keys[i]]]

\* AssignmentsByNode has no entry for a worker without assignments.
AssignmentsByNode ==
    LET by(w) == {j \in report["assigned"] : records[j].assignedTo = w}
    IN  [w \in {v \in Workers : by(v) # {}} |-> Cardinality(by(w))]

\* gini is the Gini index of the assignments: the mean absolute difference of
\* two workers, over twice the mean.
GiniIsMeanDifference ==
    LET n == AssignmentsByNode
        Gap(x) == IF n[x[1]] < n[x[2]] THEN n[x[2]] - n[x[1]] ELSE n[x[1]] - n[x[2]]
    IN  2 * gini(Sorted(n)) = MapThenSumSet(Gap, (DOMAIN n) \X DOMAIN n)
===============================================================================
