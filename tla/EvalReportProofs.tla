--------------------------- MODULE EvalReportProofs ---------------------------
(***************************************************************************)
(* Proofs about EvalReport, for any jobs and workers: however the handlers *)
(* write between the reads of a report, its parts agree, because records   *)
(* only move forward and every later pass reads all of them again; and the *)
(* index that it computes from the sorted assignments is the Gini index.   *)
(***************************************************************************)
EXTENDS EvalReport, FiniteSetTheorems, WellFoundedInduction, TLAPS

USE NoneAssumption

\* How far a record is: a job that has run has a worker, and only the record
\* that is being written can be final without its duration.
RecordShape ==
    \A j \in Jobs :
        /\ records[j].status \in {"running", "completed", "failed"} =>
              records[j].assignedTo # None
        /\ records[j].timed => /\ records[j].status \in Final
                               /\ records[j].assignedTo # None
        /\ records[j].status = "completed" => records[j].timed \/ writing = j
        /\ writing = j => records[j].status \in Final /\ records[j].assignedTo # None

\* What a pass has read stays true of the records.
ReadsStay ==
    /\ \A j \in report["completed"] : j \in copied /\ records[j].status = "completed"
    /\ \A j \in report["latencies"] :
          j \in copied /\ records[j].status = "completed" /\ records[j].timed
    /\ \A j \in report["perWorker"] : j \in copied /\ records[j].timed

\* Every pass has got as far with these jobs as it has read.
PassesFollow ==
    /\ pass = 2 => report["latencies"] \subseteq report["perWorker"] \cup left
    /\ pass > 2 => report["latencies"] \subseteq report["perWorker"]
    /\ pass = 3 => report["perWorker"] \subseteq report["total"] \cup left
    /\ pass > 3 => report["perWorker"] \subseteq report["total"]
    /\ pass = 4 => report["completed"] \subseteq report["listed"] \cup left
    /\ pass > 4 => report["completed"] \subseteq report["listed"]

\* Records are left to read during a pass only.
PassesOpen == left # {} => pass \in 1..4

IInv ==
    /\ TypeOK
    /\ RecordShape
    /\ ReadsStay
    /\ PassesOpen
    /\ PassesFollow
    /\ SnapshotWhole

LEMMA InvInit == Init => IInv
  BY DEF Init, IInv, TypeOK, RecordShape, ReadsStay, PassesOpen, PassesFollow,
         SnapshotWhole, Record, NoRecord, NoFigures, Figures, Passes, Final

\* A step that changes records keeps the rest, and loses nothing that was read.
LEMMA RecordsStep ==
    ASSUME IInv, NEW j \in Jobs,
           \/ Post(j) \/ Stop(j) \/ WriteDuration(j)
           \/ \E w \in Workers : Claim(j, w)
           \/ \E s \in Final : WriteStatus(j, s)
    PROVE  IInv'
<1> DEFINE r == records[j]
           q == records'[j]
<1>1. /\ UNCHANGED <<pass, copied, left, report, snapshot>>
      /\ records \in [Jobs -> Record] /\ r \in Record
      /\ j # None
  BY NoneAssumption DEF Post, Stop, WriteDuration, Claim, WriteStatus, IInv, TypeOK
<1>2. /\ records' = [records EXCEPT ![j] = q]
      /\ q \in Record
      /\ \/ writing = None /\ r.status \in {"none", "pending", "running"}
         \/ writing = j /\ q.status = r.status /\ q.assignedTo = r.assignedTo
      /\ r.timed => q.timed
      /\ q.timed => r.timed \/ writing = j
      /\ \/ writing' = None
            /\ \/ q.status \in {"pending", "stopped"}
               \/ q.status = "running" /\ q.assignedTo # None
               \/ writing = j /\ q.timed
         \/ writing' = j /\ q.status \in Final /\ r.status = "running"
            /\ q.assignedTo = r.assignedTo
  <2>1. CASE Post(j)
    BY <1>1, <2>1 DEF Post, Record
  <2>2. CASE Stop(j)
    BY <1>1, <2>2 DEF Stop, Record, Final
  <2>3. CASE WriteDuration(j)
    BY <1>1, <2>3 DEF WriteDuration, Record
  <2>4. CASE \E w \in Workers : Claim(j, w)
    <3>1. PICK w \in Workers : Claim(j, w)
      BY <2>4
    <3>2. q = [r EXCEPT !.status = "running", !.assignedTo = w]
      BY <1>1, <3>1 DEF Claim
    <3>3. q \in Record /\ q.status = "running" /\ q.assignedTo # None /\ q.timed = r.timed
      BY <1>1, <3>2, NoneAssumption DEF Record
    <3> QED
      BY <1>1, <3>1, <3>3 DEF Claim
  <2>5. CASE \E s \in Final : WriteStatus(j, s)
    <3>1. PICK s \in Final : WriteStatus(j, s)
      BY <2>5
    <3>2. q = [r EXCEPT !.status = s]
      BY <1>1, <3>1 DEF WriteStatus
    <3>3. /\ q \in Record /\ q.status \in Final
          /\ q.assignedTo = r.assignedTo /\ q.timed = r.timed
      BY <1>1, <3>2 DEF Record
    <3> QED
      BY <1>1, <3>1, <3>3 DEF WriteStatus
  <2> QED
    BY <2>1, <2>2, <2>3, <2>4, <2>5
<1>3. TypeOK' /\ RecordShape'
  <2>1. /\ records' \in [Jobs -> Record] /\ writing' \in Jobs \cup {None}
        /\ \A i \in Jobs \ {j} : records'[i] = records[i]
    BY <1>1, <1>2
  <2>2. TypeOK'
    BY <1>1, <2>1 DEF IInv, TypeOK
  <2>3. ASSUME NEW i \in Jobs \ {j}
        PROVE  /\ records'[i].status = "completed" => records'[i].timed \/ writing' = i
               /\ writing' # i
    <3>1. writing \in {None, j} /\ writing' \in {None, j} /\ None # i
      BY <1>2, NoneAssumption
    <3>2. records'[i] = records[i]
      BY <2>1
    <3>3. records[i].status = "completed" => records[i].timed \/ writing = i
      BY DEF IInv, RecordShape
    <3> QED
      BY <3>1, <3>2, <3>3
  <2>4. /\ q.status \in {"running", "completed", "failed"} => q.assignedTo # None
        /\ q.timed => q.status \in Final /\ q.assignedTo # None
        /\ q.status = "completed" => q.timed \/ writing' = j
        /\ writing' = j => q.status \in Final /\ q.assignedTo # None
    BY <1>1, <1>2 DEF IInv, RecordShape, Final
  <2> QED
    BY <2>1, <2>2, <2>3, <2>4 DEF IInv, RecordShape
<1>4. \A i \in Jobs :
          /\ records[i].timed => records'[i].timed
          /\ records[i].status = "completed" => records'[i].status = "completed"
  BY <1>1, <1>2
<1>5. ReadsStay'
  BY <1>1, <1>4 DEF ReadsStay, IInv, TypeOK
<1>6. PassesOpen' /\ PassesFollow' /\ SnapshotWhole'
  BY <1>1 DEF IInv, PassesOpen, PassesFollow, SnapshotWhole
<1> QED
  BY <1>3, <1>5, <1>6 DEF IInv

LEMMA ReadStep ==
    ASSUME IInv, NEW j \in Jobs, Read(j)
    PROVE  IInv'
<1> USE DEF IInv
<1>1. /\ UNCHANGED <<records, writing, pass, copied, snapshot>>
      /\ j \in left /\ left' = left \ {j} /\ j \in copied
      /\ RecordShape' /\ SnapshotWhole' /\ PassesOpen'
  BY DEF Read, TypeOK, RecordShape, SnapshotWhole, PassesOpen
<1>2. /\ j \in Jobs /\ records[j] \in Record /\ copied \subseteq Jobs /\ left \subseteq copied
      /\ report \in [Figures -> SUBSET Jobs]
  BY <1>1 DEF TypeOK
<1>3. CASE pass = 1 /\ report' = ReadTotals(j)
  <2>1. /\ report'["completed"] = report["completed"] \cup Completed({j})
        /\ report'["latencies"] = report["latencies"] \cup (Completed({j}) \cap Timed({j}))
        /\ report' \in [Figures -> SUBSET Jobs]
        /\ \A f \in {"perWorker", "total", "listed"} : report'[f] = report[f]
    BY <1>2, <1>3 DEF ReadTotals, Figures, Completed, Timed, Counts
  <2>2. ReadsStay'
    BY <1>1, <2>1 DEF ReadsStay, Completed, Timed
  <2> QED
    BY <1>1, <1>2, <1>3, <2>1, <2>2 DEF TypeOK, PassesFollow
<1>4. CASE pass = 2 /\ report' = ReadWorkers(j)
  <2>1. /\ report'["perWorker"] = report["perWorker"] \cup
              {i \in Timed({j}) : records[i].assignedTo # None}
        /\ report' \in [Figures -> SUBSET Jobs]
        /\ \A f \in {"completed", "latencies", "total", "listed"} : report'[f] = report[f]
    BY <1>2, <1>4 DEF ReadWorkers, Figures, Timed
  <2>2. ReadsStay'
    BY <1>1, <2>1 DEF ReadsStay, Timed
  <2>3. j \in report["latencies"] => j \in report'["perWorker"]
    BY <1>1, <1>2, <2>1 DEF ReadsStay, RecordShape, Timed, Final
  <2> QED
    BY <1>1, <1>2, <1>4, <2>1, <2>2, <2>3 DEF TypeOK, PassesFollow
<1>5. CASE pass = 3 /\ report' = ReadEnergy(j)
  <2>1. /\ report'["total"] = report["total"] \cup Timed({j})
        /\ report' \in [Figures -> SUBSET Jobs]
        /\ \A f \in {"completed", "latencies", "perWorker", "listed"} : report'[f] = report[f]
    BY <1>2, <1>5 DEF ReadEnergy, Figures, Timed
  <2>2. ReadsStay'
    BY <1>1, <2>1 DEF ReadsStay
  <2>3. j \in report["perWorker"] => j \in report'["total"]
    BY <1>1, <1>2, <2>1 DEF ReadsStay, RecordShape, Timed
  <2> QED
    BY <1>1, <1>2, <1>5, <2>1, <2>2, <2>3 DEF TypeOK, PassesFollow
<1>6. CASE pass = 4 /\ report' = ReadBatching(j)
  <2>1. /\ report'["listed"] = report["listed"] \cup
              {i \in Completed({j}) : records[i].assignedTo # None}
        /\ report' \in [Figures -> SUBSET Jobs]
        /\ \A f \in {"completed", "latencies", "perWorker", "total"} : report'[f] = report[f]
    BY <1>2, <1>6 DEF ReadBatching, Figures, Completed
  <2>2. ReadsStay'
    BY <1>1, <2>1 DEF ReadsStay
  <2>3. j \in report["completed"] => j \in report'["listed"]
    BY <1>1, <1>2, <2>1 DEF ReadsStay, RecordShape, Completed
  <2> QED
    BY <1>1, <1>2, <1>6, <2>1, <2>2, <2>3 DEF TypeOK, PassesFollow
<1>7. \/ pass = 1 /\ report' = ReadTotals(j)
      \/ pass = 2 /\ report' = ReadWorkers(j)
      \/ pass = 3 /\ report' = ReadEnergy(j)
      \/ pass = 4 /\ report' = ReadBatching(j)
  <2>1. pass \in 0..5
    BY DEF TypeOK, Passes
  <2>2. left = {} \/ pass \in 1..4
    BY <1>2, <2>1 DEF PassesOpen
  <2> QED
    BY <1>1, <2>2 DEF Read, Passes
<1> QED
  BY <1>3, <1>4, <1>5, <1>6, <1>7

LEMMA InvStep == IInv /\ [Next]_vars => IInv'
<1> SUFFICES ASSUME IInv, [Next]_vars PROVE IInv'
  OBVIOUS
<1>1. CASE Copy
  BY <1>1 DEF Copy, IInv, TypeOK, RecordShape, ReadsStay, PassesFollow, PassesOpen,
              SnapshotWhole, NoFigures, Figures, Posted, Passes
<1>2. CASE NextPass
  <2>1. /\ UNCHANGED <<records, writing, copied, report, snapshot>>
        /\ left = {} /\ pass \in 1..4 /\ pass' = pass + 1
        /\ left' = IF pass' \in 1..4 THEN copied ELSE {}
    BY <1>2 DEF NextPass, Passes
  <2>2. TypeOK' /\ RecordShape' /\ ReadsStay' /\ SnapshotWhole' /\ PassesOpen'
    BY <2>1 DEF IInv, TypeOK, RecordShape, ReadsStay, SnapshotWhole, PassesOpen, Passes
  <2>3. PassesFollow'
    BY <2>1 DEF IInv, PassesFollow, ReadsStay
  <2> QED
    BY <2>2, <2>3 DEF IInv
<1>3. CASE SnapshotJSON
  <2>1. /\ UNCHANGED <<records, writing, pass, copied, left, report>>
        /\ writing = None
        /\ snapshot' = [completed |-> Completed(Posted), timed |-> Timed(Posted)]
    BY <1>3 DEF SnapshotJSON
  <2>2. snapshot' \in [{"completed", "timed"} -> SUBSET Jobs]
    BY <2>1 DEF Completed, Timed, Posted
  <2>3. SnapshotWhole'
    BY <2>1 DEF IInv, RecordShape, SnapshotWhole, Completed, Timed, Posted, Final
  <2> QED
    BY <2>1, <2>2, <2>3 DEF IInv, TypeOK, RecordShape, ReadsStay, PassesFollow, PassesOpen
<1>4. CASE UNCHANGED vars
  BY <1>4 DEF vars, IInv, TypeOK, RecordShape, ReadsStay, PassesFollow, PassesOpen,
              SnapshotWhole, Completed, Timed
<1> QED
  BY <1>1, <1>2, <1>3, <1>4, RecordsStep, ReadStep DEF Next

LEMMA InvHolds == Spec => []IInv
  BY InvInit, InvStep, PTL DEF Spec

-------------------------------------------------------------------------------
\* Every variable keeps its type.
THEOREM TypeCorrect == Spec => []TypeOK
  BY InvHolds, PTL DEF IInv

\* SnapshotJSON, which copies the records under the lock, never counts a
\* completed job whose duration is not written yet.
THEOREM Snapshots == Spec => []SnapshotWhole
  BY InvHolds, PTL DEF IInv

\* The parts of a report agree, although its passes read the records without
\* the lock: a later pass sees at least what the earlier ones saw.
THEOREM ReportAgrees == Spec => []LaterPassesCatchUp
<1>1. IInv => LaterPassesCatchUp
  BY DEF IInv, TypeOK, PassesFollow, LaterPassesCatchUp, Passes
<1> QED
  BY InvHolds, <1>1, PTL

-------------------------------------------------------------------------------
(* The records                                                             *)

Kept == [j \in Jobs |-> [status |-> records[j].status, node |-> records[j].assignedTo]]

JR == INSTANCE JobRecord WITH Keys <- Jobs, NoWorker <- None, record <- Kept

\* A job that nobody has claimed has no worker.
Unclaimed ==
    \A j \in Jobs : records[j].status \in {"none", "pending"} => records[j].assignedTo = None

\* A claimed one has one.
Claimed ==
    \A j \in Jobs : records[j].status = "running" => records[j].assignedTo \in Workers

LifeInv == Unclaimed /\ Claimed

LEMMA LifeInit == Init => LifeInv /\ JR!RecordInit
<1> SUFFICES ASSUME Init PROVE LifeInv /\ JR!RecordInit
  OBVIOUS
<1>1. \A j \in Jobs : records[j] = [status |-> "none", assignedTo |-> None, timed |-> FALSE]
  BY DEF Init, NoRecord
<1> QED
  BY <1>1 DEF LifeInv, Unclaimed, Claimed, JR!RecordInit, Kept

\* What the handlers make of a record.
LEMMA LifeOfOne ==
    ASSUME IInv, LifeInv, NEW j \in Jobs,
           \/ Post(j) \/ Stop(j) \/ WriteDuration(j)
           \/ \E w \in Workers : Claim(j, w)
           \/ \E s \in Final : WriteStatus(j, s)
    PROVE  /\ \A i \in Jobs \ {j} : records'[i] = records[i]
           /\ LET r == records[j]
                  q == records'[j]
              IN  \/ /\ r.status = "none" /\ r.assignedTo = None
                     /\ q.status = "pending" /\ q.assignedTo = None
                  \/ /\ r.status = "pending" /\ r.assignedTo = None
                     /\ q.status = "stopped" /\ q.assignedTo = None
                  \/ /\ r.status = "pending" /\ r.assignedTo = None
                     /\ q.status = "running" /\ q.assignedTo \in Workers
                  \/ /\ r.status = "running" /\ r.assignedTo \in Workers
                     /\ q.status \in Final /\ q.assignedTo = r.assignedTo
                  \/ q.status = r.status /\ q.assignedTo = r.assignedTo
<1>1. records \in [Jobs -> Record] /\ records[j] \in Record
  BY DEF IInv, TypeOK
<1>2. CASE Post(j)
  <2>1. records' = [records EXCEPT ![j] = [records[j] EXCEPT !.status = "pending"]]
        /\ records[j].status = "none"
    BY <1>2 DEF Post
  <2> QED
    BY <1>1, <2>1 DEF LifeInv, Unclaimed, Record
<1>3. CASE Stop(j)
  <2>1. records' = [records EXCEPT ![j] = [records[j] EXCEPT !.status = "stopped"]]
        /\ records[j].status = "pending"
    BY <1>3 DEF Stop
  <2> QED
    BY <1>1, <2>1 DEF LifeInv, Unclaimed, Record
<1>4. CASE WriteDuration(j)
  <2>1. records' = [records EXCEPT ![j] = [records[j] EXCEPT !.timed = TRUE]]
    BY <1>4 DEF WriteDuration
  <2> QED
    BY <1>1, <2>1 DEF Record
<1>5. CASE \E w \in Workers : Claim(j, w)
  <2>1. PICK w \in Workers : Claim(j, w)
    BY <1>5
  <2>2. records' = [records EXCEPT ![j] =
                       [records[j] EXCEPT !.status = "running", !.assignedTo = w]]
        /\ records[j].status = "pending"
    BY <2>1 DEF Claim
  <2> QED
    BY <1>1, <2>2 DEF LifeInv, Unclaimed, Record
<1>6. CASE \E s \in Final : WriteStatus(j, s)
  <2>1. PICK s \in Final : WriteStatus(j, s)
    BY <1>6
  <2>2. records' = [records EXCEPT ![j] = [records[j] EXCEPT !.status = s]]
        /\ records[j].status = "running"
    BY <2>1 DEF WriteStatus
  <2> QED
    BY <1>1, <2>2 DEF LifeInv, Claimed, Record
<1> QED
  BY <1>2, <1>3, <1>4, <1>5, <1>6

LEMMA LifeStep ==
    IInv /\ LifeInv /\ [Next]_vars => LifeInv' /\ [JR!RecordNext]_Kept
<1> SUFFICES ASSUME IInv, LifeInv, [Next]_vars
             PROVE  LifeInv' /\ (JR!RecordNext \/ UNCHANGED Kept)
  OBVIOUS
<1>1. ASSUME NEW j \in Jobs,
             \/ Post(j) \/ Stop(j) \/ WriteDuration(j)
             \/ \E w \in Workers : Claim(j, w)
             \/ \E s \in Final : WriteStatus(j, s)
      PROVE  LifeInv' /\ (JR!RecordNext \/ UNCHANGED Kept)
  <2>1. /\ \A i \in Jobs \ {j} : records'[i] = records[i]
        /\ \/ /\ records[j].status = "none" /\ records[j].assignedTo = None
              /\ records'[j].status = "pending" /\ records'[j].assignedTo = None
           \/ /\ records[j].status = "pending" /\ records[j].assignedTo = None
              /\ records'[j].status = "stopped" /\ records'[j].assignedTo = None
           \/ /\ records[j].status = "pending" /\ records[j].assignedTo = None
              /\ records'[j].status = "running" /\ records'[j].assignedTo \in Workers
           \/ /\ records[j].status = "running" /\ records[j].assignedTo \in Workers
              /\ records'[j].status \in Final
              /\ records'[j].assignedTo = records[j].assignedTo
           \/ /\ records'[j].status = records[j].status
              /\ records'[j].assignedTo = records[j].assignedTo
    BY <1>1, LifeOfOne
  <2>2. LifeInv'
    BY <2>1 DEF LifeInv, Unclaimed, Claimed, Final
  <2>3. ASSUME NEW st, NEW n, records'[j].status = st, records'[j].assignedTo = n
        PROVE  Kept' = [Kept EXCEPT ![j] = [status |-> st, node |-> n]]
    BY <2>1, <2>3 DEF Kept
  <2>4. Kept[j] = [status |-> records[j].status, node |-> records[j].assignedTo]
    BY DEF Kept
  <2>5. CASE /\ records[j].status = "none" /\ records[j].assignedTo = None
             /\ records'[j].status = "pending" /\ records'[j].assignedTo = None
    <3>1. JR!Open(j)
      BY <2>3, <2>4, <2>5 DEF JR!Open
    <3> QED
      BY <2>2, <3>1 DEF JR!RecordNext
  <2>6. CASE /\ records[j].status = "pending" /\ records[j].assignedTo = None
             /\ records'[j].status = "stopped" /\ records'[j].assignedTo = None
    <3>1. JR!Withdraw(j)
      BY <2>3, <2>4, <2>6 DEF JR!Withdraw
    <3> QED
      BY <2>2, <3>1 DEF JR!RecordNext
  <2>7. CASE /\ records[j].status = "pending" /\ records[j].assignedTo = None
             /\ records'[j].status = "running" /\ records'[j].assignedTo \in Workers
    <3>1. PICK w \in Workers : records'[j].assignedTo = w
      BY <2>7
    <3>2. JR!Assign(j, w)
      BY <2>3, <2>4, <2>7, <3>1 DEF JR!Assign
    <3> QED
      BY <2>2, <3>2 DEF JR!RecordNext
  <2>8. CASE /\ records[j].status = "running" /\ records[j].assignedTo \in Workers
             /\ records'[j].status \in Final
             /\ records'[j].assignedTo = records[j].assignedTo
    <3>1. PICK w \in Workers, s \in Final :
             records[j].assignedTo = w /\ records'[j].assignedTo = w /\ records'[j].status = s
      BY <2>8
    <3>2. JR!Conclude(j, w, s) /\ s \in JR!Outcomes
      BY <2>3, <2>4, <2>8, <3>1 DEF JR!Conclude, JR!Outcomes, Final
    <3> QED
      BY <2>2, <3>2 DEF JR!RecordNext
  <2>9. CASE /\ records'[j].status = records[j].status
             /\ records'[j].assignedTo = records[j].assignedTo
    <3>1. Kept' = Kept
      BY <2>1, <2>9 DEF Kept
    <3> QED
      BY <2>2, <3>1
  <2> QED
    BY <2>1, <2>5, <2>6, <2>7, <2>8, <2>9
<1>2. CASE UNCHANGED records
  BY <1>2 DEF LifeInv, Unclaimed, Claimed, Kept
<1>3. \/ UNCHANGED records
      \/ \E j \in Jobs :
            \/ Post(j) \/ Stop(j) \/ WriteDuration(j)
            \/ \E w \in Workers : Claim(j, w)
            \/ \E s \in Final : WriteStatus(j, s)
  <2>1. ASSUME NEW j \in Jobs, Read(j) PROVE UNCHANGED records
    BY <2>1 DEF Read
  <2>2. SnapshotJSON \/ Copy \/ NextPass \/ UNCHANGED vars => UNCHANGED records
    BY DEF SnapshotJSON, Copy, NextPass, vars
  <2> QED
    BY <2>1, <2>2 DEF Next
<1> QED
  BY <1>1, <1>2, <1>3

\* The records that the report and the metrics read have the life that the
\* cluster gives its records; in between, the handler writes the duration of a
\* final one. What ReportAgrees says of the handlers' writes here is thus said of
\* those that HttpDispatch lets happen.
THEOREM RecordsLive == Spec => JR!RecordLife
  BY InvHolds, LifeInit, LifeStep, PTL DEF Spec, JR!RecordLife

-------------------------------------------------------------------------------
(* Sums over finite sets: what the folds of the report compute             *)

\* The order of the naturals, as a set of pairs.
Below == {p \in Nat \X Nat : p[1] < p[2]}

LEMMA BelowIsOrder == OpToRel(<, Nat) = Below
  BY Zenon DEF OpToRel, Below

\* Every nonempty set of naturals has a least one.
LEMMA LeastExists ==
    ASSUME NEW T, T \subseteq Nat, T # {}
    PROVE  \E x \in T : \A y \in T : x <= y
<1>1. IsWellFoundedOn(Below, Nat)
  BY Zenon, NatLessThanWellFounded, BelowIsOrder
<1>2. PICK x \in T : \A y \in T : ~(<<y, x>> \in Below)
  BY <1>1, WFMin
<1>3. \A y \in T : x \in Nat /\ y \in Nat /\ ~(y < x)
  BY <1>2 DEF Below
<1>4. \A y \in T : x <= y
  BY <1>3
<1> QED
  BY <1>4

\* Induction, for a set instead of a predicate.
LEMMA InductionOnNat ==
    ASSUME NEW Good, 0 \in Good, \A k \in Nat : k \in Good => k + 1 \in Good
    PROVE  \A k \in Nat : k \in Good
<1> DEFINE Bad == Nat \ Good
<1> SUFFICES ASSUME Bad # {} PROVE FALSE
  OBVIOUS
<1>1. PICK k \in Bad : \A y \in Bad : k <= y
  BY LeastExists
<1>2. k \in Nat /\ k # 0 /\ k \notin Good
  BY <1>1
<1>3. k - 1 \in Nat /\ k - 1 \notin Bad
  BY <1>1, <1>2
<1> QED
  BY <1>2, <1>3

\* f sums up g over the subsets of S, element by element in some order.
SumsUp(f, g, S) ==
    /\ f[{}] = 0
    /\ \A t \in SUBSET S : t # {} =>
          \E x \in t : f[t] = f[t \ {x}] + g[x] \/ f[t] = g[x] + f[t \ {x}]

\* The order does not matter: any element may come last.
IsSum(f, g, S) ==
    /\ f[{}] = 0
    /\ \A t \in SUBSET S : f[t] \in Int /\ \A x \in t : f[t] = f[t \ {x}] + g[x]

\* A sum does not depend on the order.
LEMMA OrderIsFree ==
    ASSUME NEW S, IsFiniteSet(S), NEW g \in [S -> Int], NEW f, SumsUp(f, g, S)
    PROVE  IsSum(f, g, S)
<1> DEFINE Right(t) == f[t] \in Int /\ \A x \in t : f[t] = f[t \ {x}] + g[x]
           Good == {k \in Nat : \A t \in SUBSET S : Cardinality(t) <= k => Right(t)}
<1>0. \A t \in SUBSET S : IsFiniteSet(t) /\ Cardinality(t) \in Nat
  BY FS_Subset, FS_CardinalityType
<1>1. 0 \in Good
  <2>1. \A t \in SUBSET S : Cardinality(t) <= 0 => t = {}
    BY <1>0, FS_EmptySet
  <2>2. Right({})
    BY DEF SumsUp
  <2>3. \A t \in SUBSET S : Cardinality(t) <= 0 => Right(t)
    BY <2>1, <2>2
  <2> QED
    BY <2>3
<1>2. ASSUME NEW k \in Nat, k \in Good PROVE k + 1 \in Good
  <2>1. \A u \in SUBSET S : Cardinality(u) <= k => Right(u)
    BY <1>2
  <2>2. SUFFICES ASSUME NEW t \in SUBSET S, Cardinality(t) = k + 1 PROVE Right(t)
    BY <1>0, <2>1
  <2>3. t # {}
    BY <2>2, FS_EmptySet
  <2>4. PICK c \in t : f[t] = f[t \ {c}] + g[c] \/ f[t] = g[c] + f[t \ {c}]
    BY <2>3 DEF SumsUp
  <2>5. \A x \in t : t \ {x} \in SUBSET S /\ Cardinality(t \ {x}) = k
    <3>1. \A x \in t : Cardinality(t \ {x}) = Cardinality(t) - 1
      BY <1>0, FS_RemoveElement
    <3> QED
      BY <2>2, <3>1
  <2>6. ASSUME NEW x \in t, NEW y \in t
        PROVE  (t \ {x}) \ {y} \in SUBSET S /\ Cardinality((t \ {x}) \ {y}) <= k
    <3>1. t \ {x} \in SUBSET S /\ Cardinality(t \ {x}) = k
      BY <2>5
    <3>2. (t \ {x}) \ {y} \in SUBSET (t \ {x})
      OBVIOUS
    <3> QED
      BY <1>0, <3>1, <3>2, FS_Subset
  <2>7. ASSUME NEW x \in t PROVE Right(t \ {x})
    <3>1. t \ {x} \in SUBSET S /\ Cardinality(t \ {x}) <= k
      BY <2>5
    <3> QED
      BY <2>1, <3>1
  <2>8. ASSUME NEW x \in t, NEW y \in t, x # y
         PROVE  f[t \ {x}] = f[(t \ {x}) \ {y}] + g[y]
    <3>1. y \in t \ {x}
      BY <2>8
    <3> QED
      BY <2>7, <3>1
  <2>9. \A x \in t : f[t \ {x}] \in Int /\ g[x] \in Int
    BY <2>1, <2>5
  <2>10. f[t] = f[t \ {c}] + g[c] /\ f[t] \in Int
    BY <2>4, <2>9
  <2>11. ASSUME NEW x \in t, x # c PROVE f[t] = f[t \ {x}] + g[x]
    <3>1. f[t \ {c}] = f[(t \ {c}) \ {x}] + g[x]
      BY <2>11, <2>8
    <3>2. f[t \ {x}] = f[(t \ {x}) \ {c}] + g[c]
      BY <2>11, <2>8
    <3>3. (t \ {c}) \ {x} = (t \ {x}) \ {c}
      OBVIOUS
    <3>4. f[(t \ {c}) \ {x}] \in Int
      BY <2>1, <2>11, <2>6
    <3>5. f[t \ {x}] = f[(t \ {c}) \ {x}] + g[c]
      BY <3>2, <3>3
    <3>6. g[x] \in Int /\ g[c] \in Int
      BY <2>9
    <3>7. f[t] = (f[(t \ {c}) \ {x}] + g[x]) + g[c]
      BY <2>10, <3>1
    <3> QED
      BY <3>4, <3>5, <3>6, <3>7
  <2> QED
    BY <2>10, <2>11
<1>3. \A k \in Nat : k \in Good
  BY <1>1, <1>2, InductionOnNat
<1>4. ASSUME NEW t \in SUBSET S PROVE Right(t)
  <2>1. Cardinality(t) \in Good /\ Cardinality(t) \in Nat
    BY <1>0, <1>3
  <2> QED
    BY <2>1
<1> QED
  BY <1>4 DEF IsSum, SumsUp

\* f is the recursive function of a fold that takes c[t] from t.
IsFold(f, g, c, S) ==
    f = [t \in SUBSET S |-> IF t = {} THEN 0 ELSE g[c[t]] + f[t \ {c[t]}]]

\* A fold over a finite set has a value, whatever order it takes.
LEMMA SumExists ==
    ASSUME NEW S, IsFiniteSet(S), NEW g, NEW c,
           \A t \in SUBSET S : t # {} => c[t] \in t
    PROVE  \E f : IsFold(f, g, c, S)
<1> DEFINE D(k) == {t \in SUBSET S : Cardinality(t) <= k}
           Unfolded(f, k) == [t \in D(k) |-> IF t = {} THEN 0 ELSE g[c[t]] + f[t \ {c[t]}]]
           Good == {k \in Nat : \E f : f = Unfolded(f, k)}
<1>0. \A t \in SUBSET S : IsFiniteSet(t) /\ Cardinality(t) \in Nat
  BY FS_Subset, FS_CardinalityType
<1>1. 0 \in Good
  <2>1. \A t \in D(0) : t = {}
    BY <1>0, FS_EmptySet
  <2>2. [t \in D(0) |-> 0] = Unfolded([t \in D(0) |-> 0], 0)
    BY <2>1
  <2> QED
    BY <2>2
<1>2. ASSUME NEW k \in Nat, k \in Good PROVE k + 1 \in Good
  <2>1. PICK f : f = Unfolded(f, k)
    BY <1>2
  <2> DEFINE F == Unfolded(f, k + 1)
  <2>2. ASSUME NEW t \in D(k + 1), t # {} PROVE t \ {c[t]} \in D(k)
    <3>1. Cardinality(t \ {c[t]}) = Cardinality(t) - 1
      BY <1>0, <2>2, FS_RemoveElement
    <3>2. Cardinality(t) \in Nat /\ Cardinality(t) <= k + 1
      BY <1>0
    <3> QED
      BY <3>1, <3>2
  <2>3. D(k) \subseteq D(k + 1)
    BY <1>0
  <2>4. ASSUME NEW t \in D(k) PROVE F[t] = f[t]
    BY <2>1, <2>3
  <2>5. ASSUME NEW t \in D(k + 1), t # {} PROVE F[t] = g[c[t]] + F[t \ {c[t]}]
    BY <2>2, <2>4, <2>5
  <2>6. F = Unfolded(F, k + 1)
    BY <2>5
  <2>7. \E h : h = Unfolded(h, k + 1)
    BY Zenon, <2>6
  <2>8. k + 1 \in Nat
    OBVIOUS
  <2> QED
    BY Zenon, <2>7, <2>8
<1>3. \A k \in Nat : k \in Good
  BY <1>1, <1>2, InductionOnNat
<1>4. Cardinality(S) \in Good
  BY <1>0, <1>3
<1>5. D(Cardinality(S)) = SUBSET S
  BY FS_Subset
<1>6. \E f : f = Unfolded(f, Cardinality(S))
  BY <1>4
<1> QED
  BY <1>5, <1>6 DEF IsFold

\* The folds over sequences take the largest index first.
LEMMA MaxIsIn ==
    ASSUME NEW n \in Nat, NEW t \in SUBSET (1..n), t # {}
    PROVE  Max(t) \in t
<1> DEFINE Gaps == {n - x : x \in t}
<1>1. Gaps \subseteq Nat /\ Gaps # {}
  <2>1. \A x \in t : x \in Int /\ n - x \in Nat
    OBVIOUS
  <2>2. \E x \in t : n - x \in Gaps
    OBVIOUS
  <2> QED
    BY <2>1, <2>2
<1>2. PICK m \in Gaps : \A y \in Gaps : m <= y
  BY <1>1, LeastExists
<1>3. PICK x \in t : m = n - x
  BY <1>2
<1>4. ASSUME NEW y \in t PROVE x >= y
  <2>1. n - y \in Gaps
    OBVIOUS
  <2>2. n - x <= n - y
    BY <1>2, <1>3, <2>1
  <2>3. x \in Int /\ y \in Int
    OBVIOUS
  <2> QED
    BY <2>2, <2>3
<1> QED
  BY <1>4 DEF Max

\* So FoldLeft has a value.
LEMMA FoldHasValue ==
    ASSUME NEW n \in Nat, NEW g \in [1..n -> Int]
    PROVE  \E f : f = [t \in SUBSET (1..n) |->
                         IF t = {} THEN 0 ELSE f[t \ {Max(t)}] + g[Max(t)]]
<1> DEFINE S == 1..n
           c == [t \in SUBSET S |-> Max(t)]
<1>1. IsFiniteSet(S)
  BY FS_Interval
<1>2. \A t \in SUBSET S : t # {} => c[t] \in t
  BY MaxIsIn
<1>3. PICK f : IsFold(f, g, c, S)
  <2> HIDE DEF c, S
  <2> QED
    BY Zenon, <1>1, <1>2, SumExists
<1>4. SumsUp(f, g, S)
  <2>1. f[{}] = 0
    BY <1>3 DEF IsFold
  <2>2. ASSUME NEW t \in SUBSET S, t # {} PROVE c[t] \in t /\ f[t] = g[c[t]] + f[t \ {c[t]}]
    BY <1>2, <1>3, <2>2 DEF IsFold
  <2> QED
    BY <2>1, <2>2 DEF SumsUp
<1>5. IsSum(f, g, S)
  BY <1>1, <1>4, OrderIsFree
<1>6. ASSUME NEW t \in SUBSET S, t # {} PROVE f[t] = f[t \ {Max(t)}] + g[Max(t)]
  BY <1>2, <1>5, <1>6 DEF IsSum
<1>7. f = [t \in SUBSET S |-> IF t = {} THEN 0 ELSE f[t \ {Max(t)}] + g[Max(t)]]
  BY <1>3, <1>6 DEF IsFold
<1> QED
  BY Zenon, <1>7

LEMMA TotalIsSum ==
    ASSUME NEW n \in Nat, NEW s \in [1..n -> Nat]
    PROVE  \E f : IsSum(f, s, 1..n) /\ f[1..n] = Total(s)
<1> DEFINE Unfolded(f) == [t \in SUBSET (1..n) |->
                             IF t = {} THEN 0 ELSE f[t \ {Max(t)}] + s[Max(t)]]
           f == CHOOSE f : f = Unfolded(f)
<1>1. DOMAIN s = 1..n /\ s \in [1..n -> Int]
  OBVIOUS
<1>2. Total(s) = f[1..n]
  BY <1>1 DEF Total, FoldLeft, MapThenFoldSet
<1>3. f = Unfolded(f)
  <2>1. \E h : h = Unfolded(h)
    BY <1>1, FoldHasValue
  <2> QED
    BY Zenon, <2>1
<1> HIDE DEF f
<1>4. SumsUp(f, s, 1..n)
  <2>1. f[{}] = 0
    BY <1>3
  <2>2. ASSUME NEW t \in SUBSET (1..n), t # {}
        PROVE  Max(t) \in t /\ f[t] = f[t \ {Max(t)}] + s[Max(t)]
    BY <1>3, <2>2, MaxIsIn
  <2> QED
    BY <2>1, <2>2 DEF SumsUp
<1>5. IsSum(f, s, 1..n)
  BY <1>1, <1>4, FS_Interval, OrderIsFree
<1> QED
  BY <1>2, <1>5

\* FoldLeftDomain likewise.
LEMMA WeightedIsSum ==
    ASSUME NEW n \in Nat, NEW s \in [1..n -> Nat]
    PROVE  \E f : IsSum(f, [i \in 1..n |-> i * s[i]], 1..n) /\ f[1..n] = Weighted(s)
<1> DEFINE id == [i \in 1..n |-> i]
           g == [i \in 1..n |-> i * s[i]]
           Unfolded(f) == [t \in SUBSET (1..n) |->
                             IF t = {} THEN 0 ELSE f[t \ {Max(t)}] + id[Max(t)] * s[id[Max(t)]]]
           f == CHOOSE f : f = Unfolded(f)
<1>1. DOMAIN s = 1..n /\ DOMAIN id = 1..n
  OBVIOUS
<1>2. Weighted(s) = f[1..n]
  BY <1>1 DEF Weighted, FoldLeftDomain, FoldLeft, MapThenFoldSet
<1>3. \A i \in 1..n : i * s[i] \in Int
  BY <1>1
<1>4. g \in [1..n -> Int]
  BY <1>3
<1>5. \A t \in SUBSET (1..n) : t # {} => /\ Max(t) \in t
                                         /\ g[Max(t)] = id[Max(t)] * s[id[Max(t)]]
  BY MaxIsIn
<1>6. f = Unfolded(f)
  <2>1. PICK h : h = [t \in SUBSET (1..n) |->
                         IF t = {} THEN 0 ELSE h[t \ {Max(t)}] + g[Max(t)]]
    <3> HIDE DEF g
    <3> QED
      BY <1>4, FoldHasValue
  <2>2. h = Unfolded(h)
    <3> HIDE DEF g, id
    <3> QED
      BY <1>5, <2>1
  <2> QED
    BY Zenon, <2>2
<1> HIDE DEF f
<1>7. SumsUp(f, g, 1..n)
  <2>1. f[{}] = 0
    BY <1>6
  <2>2. ASSUME NEW t \in SUBSET (1..n), t # {}
        PROVE  Max(t) \in t /\ f[t] = f[t \ {Max(t)}] + g[Max(t)]
    <3> HIDE DEF g, id
    <3> QED
      BY <1>5, <1>6, <2>2
  <2> HIDE DEF g
  <2> QED
    BY <2>1, <2>2 DEF SumsUp
<1>8. IsFiniteSet(1..n)
  BY FS_Interval
<1>9. IsSum(f, g, 1..n)
  <2> HIDE DEF g
  <2> QED
    BY Zenon, <1>4, <1>7, <1>8, OrderIsFree
<1> QED
  BY <1>2, <1>9

\* The differences between two values of n, for every pair in turn.
Gap(n, x) == IF n[x[1]] < n[x[2]] THEN n[x[2]] - n[x[1]] ELSE n[x[1]] - n[x[2]]

GapSum(n) == MapThenSumSet(LAMBDA x : Gap(n, x), (DOMAIN n) \X DOMAIN n)

\* MapThenSumSet takes the elements in whatever order.
LEMMA GapSumIsSum ==
    ASSUME NEW W, IsFiniteSet(W), NEW n \in [W -> Nat]
    PROVE  \E f : /\ IsSum(f, [x \in W \X W |-> Gap(n, x)], W \X W)
                  /\ f[W \X W] = GapSum(n)
<1> DEFINE S == W \X W
           g == [x \in S |-> Gap(n, x)]
           c == [t \in SUBSET S |-> CHOOSE x \in t : TRUE]
           Unfolded(f) == [t \in SUBSET S |->
                             IF t = {} THEN 0
                             ELSE Gap(n, CHOOSE x \in t : TRUE)
                                      + f[t \ {CHOOSE x \in t : TRUE}]]
           f == CHOOSE f : f = Unfolded(f)
<1>1. DOMAIN n = W
  OBVIOUS
<1>2. GapSum(n) = f[S]
  BY <1>1 DEF GapSum, MapThenSumSet, MapThenFoldSet
<1>3. \A x \in S : Gap(n, x) \in Int
  BY DEF Gap
<1>4. g \in [S -> Int] /\ IsFiniteSet(S)
  BY <1>3, FS_Product
<1>5. \A t \in SUBSET S : t # {} => c[t] \in t /\ c[t] = CHOOSE x \in t : TRUE
  OBVIOUS
<1>6. \A x \in S : g[x] = Gap(n, x)
  OBVIOUS
<1> HIDE DEF S, g, c
<1>7. f = Unfolded(f)
  <2>1. PICK h : IsFold(h, g, c, S)
    BY Zenon, <1>4, <1>5, SumExists
  <2>2. \A t \in SUBSET S : t # {} => g[c[t]] = Gap(n, CHOOSE x \in t : TRUE)
    BY <1>5, <1>6
  <2>3. h = Unfolded(h)
    BY <1>5, <2>1, <2>2 DEF IsFold
  <2> QED
    BY Zenon, <2>3
<1> HIDE DEF f
<1>8. SumsUp(f, g, S)
  <2>1. f[{}] = 0
    BY <1>7
  <2>2. ASSUME NEW t \in SUBSET S, t # {}
        PROVE  c[t] \in t /\ f[t] = g[c[t]] + f[t \ {c[t]}]
    <3>1. c[t] \in t /\ c[t] = CHOOSE x \in t : TRUE
      BY <1>5, <2>2
    <3>2. f[t] = Gap(n, CHOOSE x \in t : TRUE) + f[t \ {CHOOSE x \in t : TRUE}]
      BY <1>7, <2>2
    <3>3. g[c[t]] = Gap(n, c[t])
      BY <1>6, <3>1
    <3> QED
      BY Zenon, <3>1, <3>2, <3>3
  <2> QED
    BY <2>1, <2>2 DEF SumsUp
<1>9. IsSum(f, g, S)
  BY <1>4, <1>8, OrderIsFree
<1> QED
  BY Zenon, <1>2, <1>9 DEF S, g

\* Values can be sorted: sort.Float64s has a result.
LEMMA OrderedExists ==
    ASSUME NEW W, IsFiniteSet(W), NEW n \in [W -> Nat]
    PROVE  \E s \in SetToSeqs(W) : \A i, j \in DOMAIN s : i < j => n[s[i]] <= n[s[j]]
<1> DEFINE Sorts(s, D, k) ==
               /\ s \in [1..k -> D]
               /\ \A i, j \in 1..k : i # j => s[i] # s[j]
               /\ \A i, j \in 1..k : i < j => n[s[i]] <= n[s[j]]
           Good == {k \in Nat : \A D \in SUBSET W : Cardinality(D) = k => \E s : Sorts(s, D, k)}
<1>0. \A D \in SUBSET W : IsFiniteSet(D)
  BY FS_Subset
<1>1. 0 \in Good
  <2>1. ASSUME NEW D \in SUBSET W PROVE \E s : Sorts(s, D, 0)
    <3>1. Sorts([i \in 1..0 |-> {}], D, 0)
      OBVIOUS
    <3> QED
      BY Zenon, <3>1
  <2> QED
    BY <2>1
<1>2. ASSUME NEW k \in Nat, k \in Good PROVE k + 1 \in Good
  <2>1. SUFFICES ASSUME NEW D \in SUBSET W, Cardinality(D) = k + 1
                 PROVE  \E s : Sorts(s, D, k + 1)
    OBVIOUS
  <2>2. {n[w] : w \in D} \subseteq Nat /\ {n[w] : w \in D} # {}
    BY <1>0, <2>1, FS_EmptySet
  <2>3. PICK a \in D : \A w \in D : n[a] <= n[w]
    <3>1. PICK m \in {n[w] : w \in D} : \A y \in {n[w] : w \in D} : m <= y
      BY <2>2, LeastExists
    <3> QED
      BY <3>1
  <2>4. D \ {a} \in SUBSET W /\ Cardinality(D \ {a}) = k
    <3>1. Cardinality(D \ {a}) = Cardinality(D) - 1
      BY <1>0, FS_RemoveElement
    <3> QED
      BY <2>1, <3>1
  <2>5. PICK s : Sorts(s, D \ {a}, k)
    BY <1>2, <2>4
  <2> DEFINE z == [i \in 1..(k + 1) |-> IF i = 1 THEN a ELSE s[i - 1]]
  <2>6. \A i \in 1..(k + 1) : i # 1 => i - 1 \in 1..k /\ z[i] = s[i - 1] /\ z[i] \in D \ {a}
    BY <2>5
  <2>7. z[1] = a
    OBVIOUS
  <2>8. z \in [1..(k + 1) -> D]
    BY <2>6, <2>7
  <2>9. ASSUME NEW i \in 1..(k + 1), NEW j \in 1..(k + 1), i # j PROVE z[i] # z[j]
    <3> HIDE DEF z
    <3>1. CASE i = 1 \/ j = 1
      BY <2>6, <2>7, <2>9, <3>1
    <3>2. CASE i # 1 /\ j # 1
      <4>1. i - 1 # j - 1
        BY <2>9
      <4> QED
        BY <2>5, <2>6, <3>2, <4>1
    <3> QED
      BY <3>1, <3>2
  <2>10. ASSUME NEW i \in 1..(k + 1), NEW j \in 1..(k + 1), i < j PROVE n[z[i]] <= n[z[j]]
    <3> HIDE DEF z
    <3>1. j # 1
      BY <2>10
    <3>2. CASE i = 1
      BY <2>3, <2>6, <2>7, <3>1, <3>2
    <3>3. CASE i # 1
      <4>1. i - 1 < j - 1
        BY <2>10
      <4> QED
        BY <2>5, <2>6, <3>1, <3>3, <4>1
    <3> QED
      BY <3>2, <3>3
  <2>11. Sorts(z, D, k + 1)
    BY <2>8, <2>9, <2>10
  <2> QED
    BY Zenon, <2>11
<1>3. Cardinality(W) \in Nat /\ Cardinality(W) \in Good
  BY <1>1, <1>2, FS_CardinalityType, InductionOnNat
<1>4. PICK s : Sorts(s, W, Cardinality(W))
  BY <1>3
<1>5. DOMAIN s = 1..Cardinality(W)
  BY <1>4
<1>6. s \in SetToSeqs(W)
  BY <1>4 DEF SetToSeqs
<1> QED
  BY <1>4, <1>5, <1>6

\* keys lists W, by rising values of n; pos[w] is the place of w in it.
Ordered(W, n, keys, pos) ==
    LET N == Cardinality(W)
    IN  /\ N \in Nat
        /\ keys \in [1..N -> W]
        /\ pos \in [W -> 1..N]
        /\ \A w \in W : keys[pos[w]] = w
        /\ \A i \in 1..N : pos[keys[i]] = i
        /\ \A i, j \in 1..N : i < j => n[keys[i]] <= n[keys[j]]

LEMMA SortedIs ==
    ASSUME NEW W, IsFiniteSet(W), NEW n \in [W -> Nat]
    PROVE  \E keys, pos : /\ Ordered(W, n, keys, pos)
                          /\ Sorted(n) = [i \in 1..Cardinality(W) |-> n[keys[i]]]
<1> DEFINE N == Cardinality(W)
           keys == CHOOSE s \in SetToSeqs(DOMAIN n) :
                      \A i, j \in DOMAIN s : i < j => n[s[i]] <= n[s[j]]
           pos == [w \in W |-> CHOOSE i \in 1..N : keys[i] = w]
<1>1. DOMAIN n = W
  OBVIOUS
<1>2. keys \in SetToSeqs(W) /\ \A i, j \in DOMAIN keys : i < j => n[keys[i]] <= n[keys[j]]
  BY <1>1, OrderedExists
<1>3. Sorted(n) = [i \in DOMAIN keys |-> n[keys[i]]]
  BY DEF Sorted
<1> HIDE DEF keys
<1>4. N \in Nat
  BY FS_CardinalityType
<1>5. /\ keys \in [1..N -> W]
      /\ \A i, j \in 1..N : i # j => keys[i] # keys[j]
  BY <1>2 DEF SetToSeqs
<1>6. DOMAIN keys = 1..N
  BY <1>5
<1>7. keys \in Injection(1..N, W)
  BY <1>5 DEF Injection, IsInjective
<1>8. IsFiniteSet(1..N) /\ Cardinality(1..N) = N
  BY <1>4, FS_Interval
<1>9. keys \in Surjection(1..N, W)
  BY <1>7, <1>8, FS_Injection
<1>10. \A w \in W : \E i \in 1..N : keys[i] = w
  BY <1>9 DEF Surjection
<1>11. pos \in [W -> 1..N] /\ \A w \in W : keys[pos[w]] = w
  BY <1>10
<1> HIDE DEF pos
<1>12. \A i \in 1..N : pos[keys[i]] = i
  BY <1>5, <1>11
<1>13. Ordered(W, n, keys, pos)
  BY <1>2, <1>4, <1>5, <1>6, <1>11, <1>12 DEF Ordered
<1>14. Sorted(n) = [i \in 1..Cardinality(W) |-> n[keys[i]]]
  BY <1>3, <1>6
<1> QED
  BY Zenon, <1>13, <1>14

-------------------------------------------------------------------------------
(* The Gini index, worker by worker                                        *)

LEMMA PrefixSums ==
    ASSUME NEW N \in Nat, NEW g, NEW f, IsSum(f, g, 1..N)
    PROVE  /\ f[1..0] = 0
           /\ \A k \in 0..N : f[1..k] \in Int
           /\ \A k \in 0..(N - 1) : f[1..(k + 1)] = f[1..k] + g[k + 1]
<1>1. 1..0 = {}
  OBVIOUS
<1>2. ASSUME NEW k \in 0..N PROVE f[1..k] \in Int
  <2>1. 1..k \in SUBSET (1..N)
    OBVIOUS
  <2> QED
    BY <2>1 DEF IsSum
<1>3. ASSUME NEW k \in 0..(N - 1) PROVE f[1..(k + 1)] = f[1..k] + g[k + 1]
  <2>1. 1..(k + 1) \in SUBSET (1..N) /\ k + 1 \in 1..(k + 1)
    OBVIOUS
  <2>2. (1..(k + 1)) \ {k + 1} = 1..k
    OBVIOUS
  <2>3. f[1..(k + 1)] = f[(1..(k + 1)) \ {k + 1}] + g[k + 1]
    BY <2>1 DEF IsSum
  <2> QED
    BY <2>2, <2>3
<1> QED
  BY <1>1, <1>2, <1>3 DEF IsSum

\* The pairs of the first k workers, and those of the next one with the first i.
Pairs(W, pos, k, i) ==
    {x \in W \X W : \/ pos[x[1]] <= k /\ pos[x[2]] <= k
                    \/ pos[x[1]] = k + 1 /\ pos[x[2]] <= i
                    \/ pos[x[2]] = k + 1 /\ pos[x[1]] <= i}

\* f sums up the differences between the values of n.
SumsGaps(f, W, n) == IsSum(f, [x \in W \X W |-> Gap(n, x)], W \X W)

\* One more worker differs from each of the first i by as much in both orders.
LEMMA PairsGrow ==
    ASSUME NEW W, NEW n \in [W -> Nat], NEW keys, NEW pos, Ordered(W, n, keys, pos),
           NEW k \in 0..(Cardinality(W) - 1), NEW i \in 0..(k - 1),
           NEW f, SumsGaps(f, W, n)
    PROVE  f[Pairs(W, pos, k, i + 1)]
              = f[Pairs(W, pos, k, i)] + 2 * (n[keys[k + 1]] - n[keys[i + 1]])
<1> DEFINE N == Cardinality(W)
           g == [x \in W \X W |-> Gap(n, x)]
           a == keys[k + 1]
           b == keys[i + 1]
           E == Pairs(W, pos, k, i + 1)
<1>1. N \in Nat /\ k + 1 \in 1..N /\ i + 1 \in 1..N /\ i + 1 < k + 1 /\ k \in Nat /\ i \in Nat
  BY DEF Ordered
<1>2. /\ a \in W /\ b \in W
      /\ pos[a] = k + 1 /\ pos[b] = i + 1
      /\ n[b] <= n[a]
  BY <1>1 DEF Ordered
<1>3. a # b
  BY <1>1, <1>2
<1>4. \A w \in W : /\ pos[w] \in Nat
                   /\ pos[w] = k + 1 => w = a
                   /\ pos[w] = i + 1 => w = b
  BY DEF Ordered
<1> HIDE DEF a, b
<1>5. <<a, b>> \in E /\ <<b, a>> \in E /\ <<a, b>> # <<b, a>>
  BY <1>1, <1>2, <1>3 DEF Pairs
<1>6. (E \ {<<a, b>>}) \ {<<b, a>>} = Pairs(W, pos, k, i)
  <2>1. ASSUME NEW w \in W, NEW v \in W
        PROVE  <<w, v>> \in (E \ {<<a, b>>}) \ {<<b, a>>} <=> <<w, v>> \in Pairs(W, pos, k, i)
    <3>1. <<w, v>> \in E <=> \/ pos[w] <= k /\ pos[v] <= k
                             \/ pos[w] = k + 1 /\ pos[v] <= i + 1
                             \/ pos[v] = k + 1 /\ pos[w] <= i + 1
      BY DEF Pairs
    <3>2. <<w, v>> \in Pairs(W, pos, k, i) <=> \/ pos[w] <= k /\ pos[v] <= k
                                               \/ pos[w] = k + 1 /\ pos[v] <= i
                                               \/ pos[v] = k + 1 /\ pos[w] <= i
      BY DEF Pairs
    <3>3. /\ <<w, v>> = <<a, b>> <=> pos[w] = k + 1 /\ pos[v] = i + 1
          /\ <<w, v>> = <<b, a>> <=> pos[w] = i + 1 /\ pos[v] = k + 1
      BY <1>2, <1>4
    <3>4. \A p, q \in Nat :
             (/\ \/ p <= k /\ q <= k
                 \/ p = k + 1 /\ q <= i + 1
                 \/ q = k + 1 /\ p <= i + 1
              /\ ~(p = k + 1 /\ q = i + 1)
              /\ ~(p = i + 1 /\ q = k + 1)) <=> \/ p <= k /\ q <= k
                                                \/ p = k + 1 /\ q <= i
                                                \/ q = k + 1 /\ p <= i
      BY <1>1
    <3>5. pos[w] \in Nat /\ pos[v] \in Nat
      BY <1>4
    <3> HIDE DEF E
    <3> QED
      BY <3>1, <3>2, <3>3, <3>4, <3>5
  <2>2. E \subseteq W \X W /\ Pairs(W, pos, k, i) \subseteq W \X W
    BY DEF Pairs
  <2> QED
    BY <2>1, <2>2
<1>7. g[<<a, b>>] = n[a] - n[b] /\ g[<<b, a>>] = n[a] - n[b]
  <2>1. n[a] \in Nat /\ n[b] \in Nat
    BY <1>2
  <2>2. g[<<a, b>>] = Gap(n, <<a, b>>) /\ g[<<b, a>>] = Gap(n, <<b, a>>)
    BY <1>2
  <2> QED
    BY <1>2, <2>1, <2>2 DEF Gap
<1>8. E \in SUBSET (W \X W) /\ E \ {<<a, b>>} \in SUBSET (W \X W)
      /\ <<b, a>> \in E \ {<<a, b>>}
  BY <1>5 DEF Pairs
<1>9. /\ f[E] = f[E \ {<<a, b>>}] + g[<<a, b>>]
      /\ f[E \ {<<a, b>>}] = f[Pairs(W, pos, k, i)] + g[<<b, a>>]
  <2> HIDE DEF E, g
  <2>1. IsSum(f, g, W \X W)
    BY DEF g, SumsGaps
  <2> QED
    BY <1>5, <1>6, <1>8, <2>1 DEF IsSum
<1>10. f[Pairs(W, pos, k, i)] \in Int /\ n[a] \in Int /\ n[b] \in Int
  <2>1. Pairs(W, pos, k, i) \in SUBSET (W \X W)
    BY DEF Pairs
  <2> QED
    BY <1>2, <2>1 DEF IsSum, SumsGaps
<1>11. f[E] = f[Pairs(W, pos, k, i)] + 2 * (n[a] - n[b])
  <2> HIDE DEF E, g
  <2> QED
    BY <1>7, <1>9, <1>10
<1> QED
  BY <1>11 DEF a, b

\* The differences between the next worker and the first k.
LEMMA RowSum ==
    ASSUME NEW W, NEW n \in [W -> Nat], NEW keys, NEW pos, Ordered(W, n, keys, pos),
           NEW k \in 0..(Cardinality(W) - 1),
           NEW f, SumsGaps(f, W, n),
           NEW t, IsSum(t, [i \in 1..Cardinality(W) |-> n[keys[i]]], 1..Cardinality(W))
    PROVE  f[Pairs(W, pos, k, k)] = f[Pairs(W, pos, k, 0)] + 2 * (k * n[keys[k + 1]] - t[1..k])
<1> DEFINE N == Cardinality(W)
           s == [i \in 1..N |-> n[keys[i]]]
           S == n[keys[k + 1]]
           P(i) == Pairs(W, pos, k, i)
           Good == {i \in Nat : i <= k => f[P(i)] = f[P(0)] + 2 * (i * S - t[1..i])}
<1>1. N \in Nat /\ k \in Nat /\ k + 1 \in 1..N
  BY DEF Ordered
<1>2. /\ t[1..0] = 0
      /\ \A i \in 0..N : t[1..i] \in Int
      /\ \A i \in 0..(N - 1) : t[1..(i + 1)] = t[1..i] + s[i + 1]
  <2>1. IsSum(t, s, 1..N)
    OBVIOUS
  <2> HIDE DEF s, N
  <2> QED
    BY <1>1, <2>1, PrefixSums
<1>3. \A i \in 1..N : n[keys[i]] \in Nat /\ s[i] = n[keys[i]]
  BY DEF Ordered
<1>4. \A i : f[P(i)] \in Int
  <2>1. \A i : P(i) \in SUBSET (W \X W)
    BY DEF Pairs
  <2>2. \A E \in SUBSET (W \X W) : f[E] \in Int
    BY DEF IsSum, SumsGaps
  <2> QED
    BY <2>1, <2>2
<1>5. S \in Int
  BY <1>1, <1>3
<1>6. 0 \in Good
  BY <1>2, <1>4, <1>5
<1>7. ASSUME NEW i \in Nat, i \in Good PROVE i + 1 \in Good
  <2>1. SUFFICES ASSUME i + 1 <= k
                 PROVE  f[P(i + 1)] = f[P(0)] + 2 * ((i + 1) * S - t[1..(i + 1)])
    OBVIOUS
  <2>2. i \in 0..(k - 1) /\ i \in 0..(N - 1) /\ i \in 0..N /\ i + 1 \in 1..N /\ i \in Int
    BY <1>1, <2>1
  <2>3. f[P(i + 1)] = f[P(i)] + 2 * (S - n[keys[i + 1]])
    BY <2>2, PairsGrow
  <2>4. f[P(i)] = f[P(0)] + 2 * (i * S - t[1..i])
    BY <1>1, <1>7, <2>1
  <2>5. t[1..(i + 1)] = t[1..i] + n[keys[i + 1]]
    BY <1>2, <1>3, <2>2
  <2>6. t[1..i] \in Int /\ n[keys[i + 1]] \in Int /\ f[P(0)] \in Int /\ i * S \in Int
        /\ (i + 1) * S \in Int
    BY <1>2, <1>3, <1>4, <1>5, <2>2
  <2>7. 2 * (i * S - t[1..i]) + 2 * (S - n[keys[i + 1]])
           = 2 * ((i + 1) * S - (t[1..i] + n[keys[i + 1]]))
    <3> DEFINE u == t[1..i]
               d == n[keys[i + 1]]
    <3>1. u \in Int /\ d \in Int /\ S \in Int /\ i \in Int
      BY <1>5, <2>2, <2>6
    <3> HIDE DEF S, u, d
    <3>2. 2 * (i * S - u) + 2 * (S - d) = 2 * ((i + 1) * S - (u + d))
      BY <3>1
    <3> QED
      BY <3>2 DEF u, d
  <2> DEFINE p == f[P(0)]
             x == 2 * (i * S - t[1..i])
             y == 2 * (S - n[keys[i + 1]])
  <2>8. x \in Int /\ y \in Int /\ p \in Int
    <3> HIDE DEF S, P
    <3> QED
      BY <1>5, <2>6
  <2>9. f[P(i + 1)] = (p + x) + y
    BY <2>3, <2>4
  <2>10. x + y = 2 * ((i + 1) * S - t[1..(i + 1)])
    BY <2>5, <2>7
  <2>11. f[P(i + 1)] = p + (x + y)
    <3> HIDE DEF x, y, p, P
    <3> QED
      BY <2>8, <2>9
  <2> HIDE DEF x, y, P
  <2> QED
    BY <2>10, <2>11
<1>8. \A i \in Nat : i \in Good
  <2> HIDE DEF Good
  <2> QED
    BY <1>6, <1>7, InductionOnNat
<1>9. k \in Good
  BY <1>1, <1>8
<1> QED
  BY <1>1, <1>9

\* A worker does not differ from itself.
LEMMA SquareCloses ==
    ASSUME NEW W, NEW n \in [W -> Nat], NEW keys, NEW pos, Ordered(W, n, keys, pos),
           NEW k \in 0..(Cardinality(W) - 1),
           NEW f, SumsGaps(f, W, n)
    PROVE  f[Pairs(W, pos, k + 1, 0)] = f[Pairs(W, pos, k, k)]
<1> DEFINE a == keys[k + 1]
           g == [x \in W \X W |-> Gap(n, x)]
           E == Pairs(W, pos, k + 1, 0)
<1>1. k \in Nat /\ k + 1 \in 1..Cardinality(W) /\ Cardinality(W) \in Nat
  BY DEF Ordered
<1>2. a \in W /\ pos[a] = k + 1 /\ n[a] \in Nat
  BY <1>1 DEF Ordered
<1>3. \A w \in W : pos[w] \in Nat \ {0} /\ (pos[w] = k + 1 => w = a)
  BY <1>1 DEF Ordered
<1> HIDE DEF a
<1>4. <<a, a>> \in E /\ E \in SUBSET (W \X W)
  BY <1>1, <1>2 DEF Pairs
<1>5. E \ {<<a, a>>} = Pairs(W, pos, k, k)
  <2>1. ASSUME NEW w \in W, NEW v \in W
        PROVE  <<w, v>> \in E \ {<<a, a>>} <=> <<w, v>> \in Pairs(W, pos, k, k)
    <3>1. <<w, v>> \in E <=> \/ pos[w] <= k + 1 /\ pos[v] <= k + 1
                             \/ pos[w] = k + 1 + 1 /\ pos[v] <= 0
                             \/ pos[v] = k + 1 + 1 /\ pos[w] <= 0
      BY DEF Pairs
    <3>2. <<w, v>> \in Pairs(W, pos, k, k) <=> \/ pos[w] <= k /\ pos[v] <= k
                                               \/ pos[w] = k + 1 /\ pos[v] <= k
                                               \/ pos[v] = k + 1 /\ pos[w] <= k
      BY DEF Pairs
    <3>3. <<w, v>> = <<a, a>> <=> pos[w] = k + 1 /\ pos[v] = k + 1
      BY <1>2, <1>3
    <3>4. \A p, q \in Nat \ {0} :
             (/\ \/ p <= k + 1 /\ q <= k + 1
                 \/ p = k + 1 + 1 /\ q <= 0
                 \/ q = k + 1 + 1 /\ p <= 0
              /\ ~(p = k + 1 /\ q = k + 1)) <=> \/ p <= k /\ q <= k
                                                \/ p = k + 1 /\ q <= k
                                                \/ q = k + 1 /\ p <= k
      BY <1>1
    <3>5. pos[w] \in Nat \ {0} /\ pos[v] \in Nat \ {0}
      BY <1>3
    <3> HIDE DEF E
    <3> QED
      BY <3>1, <3>2, <3>3, <3>4, <3>5
  <2>2. Pairs(W, pos, k, k) \subseteq W \X W
    BY DEF Pairs
  <2> QED
    BY <1>4, <2>1, <2>2
<1>6. g[<<a, a>>] = 0
  BY <1>2 DEF Gap
<1>7. f[E] = f[E \ {<<a, a>>}] + g[<<a, a>>]
  <2> HIDE DEF E
  <2> QED
    BY <1>4 DEF IsSum, SumsGaps
<1>8. f[Pairs(W, pos, k, k)] \in Int
  <2>1. Pairs(W, pos, k, k) \in SUBSET (W \X W)
    BY DEF Pairs
  <2> QED
    BY <2>1 DEF IsSum, SumsGaps
<1>9. f[E] = f[Pairs(W, pos, k, k)] + 0
  BY Zenon, <1>5, <1>6, <1>7
<1> QED
  BY <1>8, <1>9

\* The index of the sorted values, from the differences of all pairs.
LEMMA GiniOfValues ==
    ASSUME NEW W, IsFiniteSet(W), NEW n \in [W -> Nat]
    PROVE  2 * gini(Sorted(n)) = GapSum(n)
<1> DEFINE N == Cardinality(W)
<1>1. PICK keys, pos : /\ Ordered(W, n, keys, pos)
                       /\ Sorted(n) = [i \in 1..N |-> n[keys[i]]]
  BY SortedIs
<1> DEFINE s == [i \in 1..N |-> n[keys[i]]]
           g == [i \in 1..N |-> i * s[i]]
           P(k) == Pairs(W, pos, k, 0)
<1>2. N \in Nat /\ \A i \in 1..N : n[keys[i]] \in Nat /\ s[i] = n[keys[i]]
  BY <1>1 DEF Ordered
<1>3. s \in [1..N -> Nat] /\ Len(s) = N
  BY <1>2
<1>4. PICK t : IsSum(t, s, 1..N) /\ t[1..N] = Total(s)
  <2> HIDE DEF s, N
  <2> QED
    BY <1>2, <1>3, TotalIsSum
<1>5. PICK v : IsSum(v, g, 1..N) /\ v[1..N] = Weighted(s)
  <2> HIDE DEF s, N
  <2> QED
    BY <1>2, <1>3, WeightedIsSum
<1>6. PICK f : SumsGaps(f, W, n) /\ f[W \X W] = GapSum(n)
  BY GapSumIsSum DEF SumsGaps
<1>7. /\ t[1..0] = 0 /\ v[1..0] = 0
      /\ \A k \in 0..N : t[1..k] \in Int /\ v[1..k] \in Int
      /\ \A k \in 0..(N - 1) : /\ t[1..(k + 1)] = t[1..k] + s[k + 1]
                                /\ v[1..(k + 1)] = v[1..k] + g[k + 1]
  <2> HIDE DEF s, g, N
  <2> QED
    BY <1>2, <1>4, <1>5, PrefixSums
<1>8. \A k \in 1..N : g[k] = k * n[keys[k]]
  BY <1>2
<1> DEFINE Good == {k \in Nat : k <= N => f[P(k)] = 2 * (2 * v[1..k] - (k + 1) * t[1..k])}
<1>9. 0 \in Good
  <2>1. P(0) = {}
    BY <1>1 DEF Pairs, Ordered
  <2>2. f[P(0)] = 0
    BY <1>6, <2>1 DEF IsSum, SumsGaps
  <2> QED
    BY <1>7, <2>2
<1>10. ASSUME NEW k \in Nat, k \in Good PROVE k + 1 \in Good
  <2>1. SUFFICES ASSUME k + 1 <= N
                 PROVE  f[P(k + 1)] = 2 * (2 * v[1..(k + 1)] - (k + 1 + 1) * t[1..(k + 1)])
    OBVIOUS
  <2> DEFINE S == n[keys[k + 1]]
             V == v[1..k]
             T == t[1..k]
  <2>2. k \in 0..(N - 1) /\ k \in 0..N /\ k + 1 \in 1..N /\ k \in Int
    BY <1>2, <2>1
  <2>3. f[P(k + 1)] = f[Pairs(W, pos, k, k)]
    BY <1>1, <1>6, <2>2, SquareCloses
  <2>4. f[Pairs(W, pos, k, k)] = f[P(k)] + 2 * (k * S - T)
    BY <1>1, <1>4, <1>6, <2>2, RowSum
  <2>5. f[P(k)] = 2 * (2 * V - (k + 1) * T)
    BY <1>2, <1>10, <2>1
  <2>6. v[1..(k + 1)] = V + (k + 1) * S /\ t[1..(k + 1)] = T + S
    BY <1>2, <1>7, <1>8, <2>2
  <2>7. V \in Int /\ T \in Int /\ S \in Int
    BY <1>2, <1>7, <2>2
  <2> HIDE DEF S, V, T, P
  <2>8. f[P(k + 1)] = 2 * (2 * V - (k + 1) * T) + 2 * (k * S - T)
    BY <2>3, <2>4, <2>5
  <2>9. 2 * (2 * V - (k + 1) * T) + 2 * (k * S - T)
           = 2 * (2 * (V + (k + 1) * S) - (k + 1 + 1) * (T + S))
    BY <2>2, <2>7
  <2> QED
    BY <2>6, <2>8, <2>9
<1>11. N \in Good
  <2> HIDE DEF Good
  <2> QED
    BY <1>2, <1>9, <1>10, InductionOnNat
<1>12. P(N) = W \X W
  <2>1. \A w \in W : pos[w] \in 1..N
    BY <1>1 DEF Ordered
  <2>2. \A w \in W : pos[w] <= N
    BY <1>2, <2>1
  <2> QED
    BY <2>2 DEF Pairs
<1>13. f[P(N)] = 2 * (2 * v[1..N] - (N + 1) * t[1..N])
  BY <1>2, <1>11
<1>14. GapSum(n) = 2 * (2 * Weighted(s) - (N + 1) * Total(s))
  BY Zenon, <1>4, <1>5, <1>6, <1>12, <1>13
<1>15. gini(s) = 2 * Weighted(s) - (N + 1) * Total(s)
  <2> HIDE DEF s, N
  <2> QED
    BY Zenon, <1>3 DEF gini
<1>16. Sorted(n) = s
  BY <1>1
<1> QED
  BY Zenon, <1>14, <1>15, <1>16

\* The Gini index of the assignments that the report computes from the sorted
\* list is the mean difference of the workers, for any assignments.
THEOREM GiniCorrect == Spec => []GiniIsMeanDifference
<1>1. TypeOK => GiniIsMeanDifference
  <2> SUFFICES ASSUME TypeOK PROVE GiniIsMeanDifference
    OBVIOUS
  <2> DEFINE by(w) == {j \in report["assigned"] : records[j].assignedTo = w}
             W == {w \in Workers : by(w) # {}}
             n == AssignmentsByNode
  <2>1. report["assigned"] \in SUBSET Jobs
    BY DEF TypeOK, Figures
  <2>2. \A w : by(w) \in SUBSET Jobs
    BY <2>1
  <2>3. \A w : Cardinality(by(w)) \in Nat
    BY <2>2, FiniteAssumption, FS_Subset, FS_CardinalityType
  <2>4. n = [w \in W |-> Cardinality(by(w))]
    BY DEF AssignmentsByNode
  <2>5. n \in [W -> Nat] /\ DOMAIN n = W
    BY <2>3, <2>4
  <2>6. IsFiniteSet(W)
    BY FiniteAssumption, FS_Subset
  <2> HIDE DEF W, n
  <2>7. 2 * gini(Sorted(n)) = GapSum(n)
    BY <2>5, <2>6, GiniOfValues
  <2> QED
    BY <2>7 DEF GiniIsMeanDifference, GapSum, Gap, n
<1> QED
  BY <1>1, TypeCorrect, PTL
===============================================================================
