----------------------------- MODULE HttpLossProofs -----------------------------
(***************************************************************************)
(* Proofs about HttpDispatch: what a fault may cost. On one side of the    *)
(* books are the jobs that nothing will finish any more and the claim      *)
(* handlers whose client has gone, which may take one more each; on the    *)
(* other side are the faults, worth two each. A step that is no fault      *)
(* costs nothing, or turns an abandoned claim into a lost job.             *)
(***************************************************************************)
EXTENDS HttpRecordProofs

USE IdAssumption, MemAssumption, LimitAssumption, NoWorkerAssumption,
    NoJobAssumption, PublisherAssumption, FaultAssumption

\* Where a job may be that is not lost, apart from the queue: with a worker, in a
\* report on its way, or over.
Carried == {j \in Jobs : \E w \in Workers : Carries(w, j)}
Reported == {r.job : r \in reports}
Ended == {j \in Jobs : hist[IdOf[j]].status \in Terminal}

LEMMA LostIs == IInv => Lost = posted \ (queue \cup Carried \cup Reported \cup Ended)
  BY DEF IInv, TypeOK, NetTypeOK, Lost, Carried, Carries, Reported, Ended

LEMMA LostStays ==
    ASSUME IInv, IInv', NEW A, posted' = posted,
           (queue \cup Carried \cup Reported \cup Ended) \ A
               \subseteq queue' \cup Carried' \cup Reported' \cup Ended'
    PROVE  Lost' \subseteq Lost \cup A
<1>1. Lost = posted \ (queue \cup Carried \cup Reported \cup Ended)
  BY LostIs
<1>2. Lost' = posted' \ (queue' \cup Carried' \cup Reported' \cup Ended')
  BY LostIs DEF IInv, TypeOK, NetTypeOK, Lost, Carried, Carries, Reported, Ended
<1> QED
  BY <1>1, <1>2

\* Nothing is lost where nothing moves.
LEMMA NothingLost ==
    ASSUME UNCHANGED <<queue, posted, hist, cur, rpc, pc, task, reports>>
    PROVE  Lost' = Lost
  BY DEF Lost, Holds

\* What only the workers change costs what they no longer carry.
LEMMA LostByWorkers ==
    ASSUME IInv, IInv', NEW A, UNCHANGED <<queue, posted, hist, reports>>,
           Carried \ A \subseteq Carried'
    PROVE  Lost' \subseteq Lost \cup A
<1>1. Reported' = Reported /\ Ended' = Ended
  BY DEF Reported, Ended
<1> QED
  BY <1>1, LostStays

-------------------------------------------------------------------------------
(* What a step may cost. *)

\* Nothing, although a fault may have been counted.
CostsNothing ==
    /\ faults' \in {faults, faults + 1}
    /\ Lost' \subseteq Lost
    /\ orphans' \subseteq orphans

\* A fault: two jobs, or a job and an abandoned claim.
CostsAtMostTwo ==
    /\ faults' = faults + 1
    /\ \/ orphans' = orphans /\ \E a, b : Lost' \subseteq Lost \cup {a, b}
       \/ \E a, h : Lost' \subseteq Lost \cup {a} /\ orphans' = orphans \cup {h}

\* An abandoned claim is granted after all, to nobody.
TurnsOrphan ==
    /\ faults' = faults
    /\ \E h \in orphans : orphans' = orphans \ {h}
    /\ \E a : Lost' \subseteq Lost \cup {a}

Accounts == CostsNothing \/ CostsAtMostTwo \/ TurnsOrphan

Balanced ==
    /\ IsFiniteSet(posted) /\ IsFiniteSet(orphans)
    /\ Cardinality(Lost) + Cardinality(orphans) <= 2 * faults

LEMMA LostFinite == IsFiniteSet(posted) => IsFiniteSet(Lost) /\ Cardinality(Lost) \in Nat
  BY FS_Subset, FS_CardinalityType DEF Lost

LEMMA AccountsBalance ==
    ASSUME faults \in Nat, Balanced, IsFiniteSet(posted'), Accounts
    PROVE  Balanced'
<1> PICK L : L = Lost
  OBVIOUS
<1> PICK M : M = Lost'
  OBVIOUS
<1> PICK O : O = orphans
  OBVIOUS
<1> PICK P : P = orphans'
  OBVIOUS
<1>1. /\ IsFiniteSet(L) /\ Cardinality(L) \in Nat
      /\ IsFiniteSet(O) /\ Cardinality(O) \in Nat
      /\ Cardinality(L) + Cardinality(O) <= 2 * faults
  BY LostFinite, FS_CardinalityType DEF Balanced
<1>2. ASSUME NEW S, IsFiniteSet(S), NEW a
      PROVE  /\ IsFiniteSet(S \cup {a}) /\ Cardinality(S \cup {a}) \in Nat
             /\ Cardinality(S \cup {a}) <= Cardinality(S) + 1
  <2>1. Cardinality(S) \in Nat
    BY <1>2, FS_CardinalityType
  <2>2. /\ IsFiniteSet(S \cup {a})
        /\ Cardinality(S \cup {a}) = IF a \in S THEN Cardinality(S) ELSE Cardinality(S) + 1
    BY <1>2, FS_AddElement
  <2> QED
    BY <2>1, <2>2
<1>3. ASSUME NEW S, IsFiniteSet(S), NEW T, T \subseteq S
      PROVE  IsFiniteSet(T) /\ Cardinality(T) \in Nat /\ Cardinality(T) <= Cardinality(S)
  BY <1>3, FS_Subset, FS_CardinalityType
<1>4. CASE CostsNothing
  <2>1. /\ Cardinality(M) \in Nat /\ Cardinality(M) <= Cardinality(L)
        /\ IsFiniteSet(P) /\ Cardinality(P) \in Nat /\ Cardinality(P) <= Cardinality(O)
    BY <1>1, <1>3, <1>4 DEF CostsNothing
  <2>2. faults' \in {faults, faults + 1}
    BY <1>4 DEF CostsNothing
  <2> QED
    BY <1>1, <2>1, <2>2 DEF Balanced
<1>5. CASE CostsAtMostTwo
  <2>1. CASE orphans' = orphans /\ \E a, b : Lost' \subseteq Lost \cup {a, b}
    <3> PICK a, b : M \subseteq (L \cup {a}) \cup {b}
      BY <2>1
    <3>1. /\ IsFiniteSet(L \cup {a}) /\ Cardinality(L \cup {a}) \in Nat
          /\ Cardinality(L \cup {a}) <= Cardinality(L) + 1
      BY <1>1, <1>2
    <3>2. /\ IsFiniteSet((L \cup {a}) \cup {b}) /\ Cardinality((L \cup {a}) \cup {b}) \in Nat
          /\ Cardinality((L \cup {a}) \cup {b}) <= Cardinality(L \cup {a}) + 1
      BY <3>1, <1>2
    <3>3. Cardinality(M) \in Nat /\ Cardinality(M) <= Cardinality((L \cup {a}) \cup {b})
      BY <3>2, <1>3
    <3>4. Cardinality(M) <= Cardinality(L) + 2
      BY <1>1, <3>1, <3>2, <3>3
    <3>5. faults' = faults + 1 /\ P = O
      BY <1>5, <2>1 DEF CostsAtMostTwo
    <3> QED
      BY <1>1, <3>3, <3>4, <3>5 DEF Balanced
  <2>2. CASE \E a, h : Lost' \subseteq Lost \cup {a} /\ orphans' = orphans \cup {h}
    <3> PICK a, h : M \subseteq L \cup {a} /\ P = O \cup {h}
      BY <2>2
    <3>1. /\ IsFiniteSet(L \cup {a}) /\ Cardinality(L \cup {a}) \in Nat
          /\ Cardinality(L \cup {a}) <= Cardinality(L) + 1
      BY <1>1, <1>2
    <3>2. Cardinality(M) \in Nat /\ Cardinality(M) <= Cardinality(L \cup {a})
      BY <3>1, <1>3
    <3>3. /\ IsFiniteSet(O \cup {h}) /\ Cardinality(O \cup {h}) \in Nat
          /\ Cardinality(O \cup {h}) <= Cardinality(O) + 1
      BY <1>1, <1>2
    <3>4. faults' = faults + 1
      BY <1>5 DEF CostsAtMostTwo
    <3> QED
      BY <1>1, <3>1, <3>2, <3>3, <3>4 DEF Balanced
  <2> QED
    BY <1>5, <2>1, <2>2 DEF CostsAtMostTwo
<1>6. CASE TurnsOrphan
  <2> PICK h \in O : P = O \ {h}
    BY <1>6 DEF TurnsOrphan
  <2> PICK a : M \subseteq L \cup {a}
    BY <1>6 DEF TurnsOrphan
  <2>1. /\ IsFiniteSet(L \cup {a}) /\ Cardinality(L \cup {a}) \in Nat
        /\ Cardinality(L \cup {a}) <= Cardinality(L) + 1
    BY <1>1, <1>2
  <2>2. Cardinality(M) \in Nat /\ Cardinality(M) <= Cardinality(L \cup {a})
    BY <2>1, <1>3
  <2>3. IsFiniteSet(O \ {h}) /\ Cardinality(O \ {h}) = Cardinality(O) - 1
    BY <1>1, FS_RemoveElement
  <2>4. faults' = faults
    BY <1>6 DEF TurnsOrphan
  <2> QED
    BY <1>1, <2>1, <2>2, <2>3, <2>4 DEF Balanced
<1> QED
  BY <1>4, <1>5, <1>6 DEF Accounts
-------------------------------------------------------------------------------
(* What every step costs. *)

LEMMA QuietCostsNothing ==
    ASSUME UNCHANGED <<queue, posted, hist, cur, rpc, pc, task, reports>>,
           UNCHANGED orphans, faults' \in {faults, faults + 1}
    PROVE  Accounts
  BY NothingLost DEF Accounts, CostsNothing

\* The jobs other than j keep their record where only that of j is written.
LEMMA OthersEnd ==
    ASSUME UniqueIds, RecordTypes, NEW j \in Jobs, NEW r,
           hist' = [hist EXCEPT ![IdOf[j]] = r]
    PROVE  /\ Ended \ {j} \subseteq Ended'
           /\ r.status \in Terminal => j \in Ended'
  BY DEF UniqueIds, RecordTypes, Ended

LEMMA ClientAccounts ==
    ASSUME UniqueIds, IInv, IInv', RecordInv, ClientStep
    PROVE  Accounts
<1>types. RecordTypes
  BY TypesOfRecords
<1>1. UNCHANGED <<cur, rpc, pc, task, reports, orphans, faults>>
  BY DEF ClientStep, PostJob, StopJob, SignalStop, workerVars, procVars
<1>2. Carried' = Carried /\ Reported' = Reported
  BY <1>1 DEF Carried, Carries, Holds, Reported
<1>3. CASE \E j \in Jobs : PostJob(j)
  <2> PICK j \in Jobs : PostJob(j)
    BY <1>3
  <2>1. /\ queue' = queue \cup {j} /\ posted' = posted \cup {j}
        /\ hist' = [hist EXCEPT ![IdOf[j]] = Pending]
    BY DEF PostJob, addJob, Pending
  <2>2. Ended \ {j} \subseteq Ended'
    BY <1>types, <2>1, OthersEnd
  <2>3. Lost' = posted' \ (queue' \cup Carried' \cup Reported' \cup Ended')
    BY LostIs, <1>types DEF IInv, TypeOK, NetTypeOK, Lost, Carried, Carries, Reported, Ended
  <2>4. Lost' \subseteq Lost
    BY <1>2, <2>1, <2>2, <2>3, LostIs
  <2> QED
    BY <1>1, <2>4 DEF Accounts, CostsNothing
<1>4. CASE \E id \in Ids : StopJob(id) /\ stopQueued(id)
  <2> PICK id \in Ids : StopJob(id) /\ stopQueued(id)
    BY <1>4
  <2>1. posted' = posted
    BY DEF StopJob
  <2>2. PICK j \in queue : /\ IdOf[j] = id /\ queue' = queue \ {j}
                           /\ hist' = [hist EXCEPT ![id].status = "stopped"]
    BY DEF stopQueued, Queued
  <2>3. j \in Jobs
    BY <1>types DEF RecordTypes
  <2>4. hist' = [hist EXCEPT ![IdOf[j]] = [hist[IdOf[j]] EXCEPT !.status = "stopped"]]
    BY <2>2
  <2>5. [hist[IdOf[j]] EXCEPT !.status = "stopped"].status \in Terminal
    BY <1>types, <2>3 DEF RecordTypes, Record, Terminal
  <2>6. Ended \ {j} \subseteq Ended' /\ j \in Ended'
    BY <1>types, <2>3, <2>4, <2>5, OthersEnd
  <2>7. Lost' \subseteq Lost \cup {}
    BY <1>2, <2>1, <2>2, <2>6, LostStays
  <2> QED
    BY <1>1, <2>7 DEF Accounts, CostsNothing
<1>5. CASE \E id \in Ids : SignalStop(id) \/ (StopJob(id) /\ UNCHANGED edgeVars)
  <2>1. UNCHANGED <<queue, posted, hist>>
    BY <1>5 DEF SignalStop, StopJob, edgeVars
  <2> QED
    BY <1>1, <2>1, QuietCostsNothing
<1> QED
  BY <1>3, <1>4, <1>5 DEF ClientStep, StopJob

\* A granted claim moves its job from the queue to whoever the answer reaches.
LEMMA GrantedLoses ==
    ASSUME UniqueIds, IInv, IInv', RecordInv,
           NEW w \in Workers, NEW idle \in SUBSET Workers,
           NEW j \in queue, claimGranted(w, j, idle), UNCHANGED <<posted, reports>>,
           Carried \subseteq Carried'
    PROVE  /\ Lost' \subseteq Lost \cup {j}
           /\ j \in Carried' => Lost' \subseteq Lost
<1>types. RecordTypes /\ j \in Jobs
  BY TypesOfRecords DEF RecordTypes
<1>1. queue' = queue \ {j} /\ hist' = [hist EXCEPT ![IdOf[j]] = RunningOn(w)]
  BY DEF claimGranted, RunningOn
<1>2. hist[IdOf[j]] = Pending
  BY DEF RecordInv, RecordsFollow
<1>3. j \notin Ended
  BY <1>2 DEF Ended, Pending, Terminal
<1>4. Ended \subseteq Ended'
  BY <1>types, <1>1, <1>3, OthersEnd
<1>5. Reported' = Reported
  BY DEF Reported
<1>6. Lost' \subseteq Lost \cup {j}
  BY <1>1, <1>4, <1>5, LostStays
<1>7. ASSUME j \in Carried' PROVE Lost' \subseteq Lost \cup {}
  BY <1>1, <1>4, <1>5, <1>7, LostStays
<1> QED
  BY <1>6, <1>7

LEMMA ClaimAccounts ==
    ASSUME UniqueIds, IInv, IInv', RecordInv, NEW w \in Workers, ClaimStep(w)
    PROVE  Accounts
<1>types. /\ rpc \in [Workers -> [pc : {"none", "open", "granted"},
                                  job : Jobs \cup {NoJob}, idle : SUBSET Workers]]
          /\ cur \in [Workers -> Jobs \cup {NoJob}]
          /\ queue \subseteq Jobs
  BY DEF IInv, TypeOK, EdgeTypeOK, WorkerTypeOK, NetTypeOK
<1>1. CASE ListJobs(w)
  <2>1. UNCHANGED <<queue, posted, hist, cur, rpc, pc, task, reports, orphans, faults>>
    BY <1>1 DEF ListJobs, listJobs, edgeVars, netVars, procVars
  <2> QED
    BY <2>1, QuietCostsNothing
<1>2. CASE \E j \in Jobs : SendClaim(w, j)
  <2>1. UNCHANGED <<queue, posted, hist, cur, pc, task, reports, orphans, faults>>
    BY <1>2 DEF SendClaim, claimFailed, edgeVars, workerVars, procVars
  <2>2. \A v \in Workers : rpc'[v] = rpc[v] \/ (rpc[v].pc = "none" /\ rpc'[v].pc = "open")
    BY <1>2, <1>types DEF SendClaim
  <2>3. Carried' = Carried
    BY <2>1, <2>2 DEF Carried, Carries, Holds
  <2>4. Lost' \subseteq Lost \cup {}
    BY <2>1, <2>3, LostByWorkers
  <2> QED
    BY <2>1, <2>4 DEF Accounts, CostsNothing
<1>3. CASE GrantClaim(w)
  <2> PICK j \in Queued(IdOf[rpc[w].job]) :
              /\ claimGranted(w, j, rpc[w].idle)
              /\ rpc' = [rpc EXCEPT ![w] = [pc |-> "granted", job |-> j, idle |-> {}]]
    BY <1>3 DEF GrantClaim
  <2>1. j \in queue /\ j \in Jobs /\ rpc[w].idle \in SUBSET Workers /\ rpc[w].pc = "open"
    BY <1>3, <1>types DEF Queued, GrantClaim
  <2>2. UNCHANGED <<posted, reports, cur, pc, task, orphans, faults>>
    BY <1>3 DEF GrantClaim, workerVars, procVars
  <2>3. \A v \in Workers \ {w} : rpc'[v] = rpc[v]
    BY <1>types
  <2>4. Carried \subseteq Carried'
    BY <2>1, <2>2, <2>3 DEF Carried, Carries, Holds
  <2>5. Holds(w, j)'
    BY <1>types DEF Holds
  <2>6. j \in Carried'
    BY <2>1, <2>5 DEF Carried, Carries
  <2>7. Lost' \subseteq Lost
    BY <2>1, <2>2, <2>4, <2>6, GrantedLoses
  <2> QED
    BY <2>2, <2>7 DEF Accounts, CostsNothing
<1>4. CASE RefuseClaim(w)
  <2>1. UNCHANGED <<queue, posted, hist, cur, pc, task, reports, orphans, faults>>
    BY <1>4 DEF RefuseClaim, claimRefused, claimFailed, edgeVars, procVars
  <2>2. rpc[w].pc = "open" /\ rpc' = [rpc EXCEPT ![w] = NoRpc]
    BY <1>4 DEF RefuseClaim
  <2>3. Carried \subseteq Carried'
    BY <1>types, <2>1, <2>2 DEF Carried, Carries, Holds, NoRpc
  <2>4. Lost' \subseteq Lost \cup {}
    BY <2>1, <2>3, LostByWorkers
  <2> QED
    BY <2>1, <2>4 DEF Accounts, CostsNothing
<1>5. CASE ReceiveGrant(w)
  <2>1. UNCHANGED <<queue, posted, hist, pc, task, reports, orphans, faults>>
    BY <1>5 DEF ReceiveGrant, claimSucceeded, edgeVars, procVars
  <2>2. /\ rpc[w].pc = "granted"
        /\ rpc' = [rpc EXCEPT ![w] = NoRpc]
        /\ cur' = [cur EXCEPT ![w] = rpc[w].job]
    BY <1>5 DEF ReceiveGrant, claimSucceeded
  <2>3. cur[w] = NoJob
    BY <2>2 DEF IInv, ProcessorOwnsTask
  <2>4. Carried \subseteq Carried'
    BY <1>types, <2>1, <2>2, <2>3 DEF Carried, Carries, Holds, NoRpc
  <2>5. Lost' \subseteq Lost \cup {}
    BY <2>1, <2>4, LostByWorkers
  <2> QED
    BY <2>1, <2>5 DEF Accounts, CostsNothing
<1>6. CASE ClaimTimeout(w)
  <2>1. UNCHANGED <<queue, posted, hist, cur, pc, task, reports>>
    BY <1>6 DEF ClaimTimeout, claimFailed, edgeVars, procVars
  <2>2. /\ rpc' = [rpc EXCEPT ![w] = NoRpc]
        /\ orphans' = orphans \cup abandoned(w)
        /\ faults' = faults + 1
    BY <1>6 DEF ClaimTimeout, Fault
  <2>3. Carried \ {rpc[w].job} \subseteq Carried'
    BY <1>types, <2>1, <2>2 DEF Carried, Carries, Holds, NoRpc
  <2>4. Lost' \subseteq Lost \cup {rpc[w].job}
    BY <2>1, <2>3, LostByWorkers
  <2>5. orphans' = orphans \/ \E h : orphans' = orphans \cup {h}
    BY <2>2 DEF abandoned
  <2>6. Lost' \subseteq Lost \cup {rpc[w].job, rpc[w].job}
    BY <2>4
  <2> QED
    BY <2>2, <2>4, <2>5, <2>6 DEF Accounts, CostsAtMostTwo
<1> QED
  BY <1>1, <1>2, <1>3, <1>4, <1>5, <1>6 DEF ClaimStep

LEMMA TaskAccounts ==
    ASSUME UniqueIds, IInv, IInv', RecordInv, NEW w \in Workers, TaskStep(w) \/ TagStep(w)
    PROVE  Accounts
<1>types. /\ pc \in [Workers -> {"idle", "prepare", "run", "report"}]
          /\ cur \in [Workers -> Jobs \cup {NoJob}]
          /\ task \in [Workers -> Jobs \cup {NoJob}]
  BY DEF IInv, TypeOK, WorkerTypeOK
<1>1. UNCHANGED <<queue, posted, hist, rpc, orphans, faults>>
  BY DEF TaskStep, TagStep, RunTask, ReportTask, UpdateTags, DeliverTags,
         edgeVars, netVars
<1>2. CASE RunTask(w)
  <2>1. reports' = reports
    BY <1>2 DEF RunTask, netVars
  <2>2. Carried \subseteq Carried'
    <3>1. CASE processTask(w) \/ startWorkload(w)
      <4>1. /\ cur' = cur /\ pc[w] # "report"
            /\ \A v \in Workers \ {w} : pc'[v] = pc[v] /\ task'[v] = task[v]
        BY <3>1, <1>types DEF processTask, startWorkload
      <4> QED
        BY <1>1, <4>1 DEF Carried, Carries, Holds
    <3>2. CASE prepareFails(w) \/ \E o \in Outcomes : finishWorkload(w, o)
      <4>1. /\ pc[w] \in {"prepare", "run"}
            /\ cur' = [cur EXCEPT ![w] = NoJob]
            /\ pc' = [pc EXCEPT ![w] = "report"]
            /\ task' = task
        BY <3>2 DEF prepareFails, finishWorkload, finalize
      <4>2. cur[w] = task[w]
        BY <4>1 DEF IInv, ProcessorOwnsTask
      <4> QED
        BY <1>types, <1>1, <4>1, <4>2 DEF Carried, Carries, Holds
    <3> QED
      BY <1>2, <3>1, <3>2 DEF RunTask
  <2>3. Lost' \subseteq Lost \cup {}
    BY <1>1, <2>1, <2>2, LostByWorkers
  <2> QED
    BY <1>1, <2>3 DEF Accounts, CostsNothing
<1>3. CASE ReportTask(w)
  <2>1. /\ pc[w] = "report"
        /\ cur' = cur
        /\ pc' = [pc EXCEPT ![w] = "idle"]
        /\ task' = [task EXCEPT ![w] = NoJob]
        /\ reports' = reports \cup {[node |-> w, job |-> task[w], status |-> outcome[w]]}
    BY <1>3 DEF ReportTask, returnFromTask, clearRun
  <2>2. Carried \ {task[w]} \subseteq Carried'
    BY <1>types, <1>1, <2>1 DEF Carried, Carries, Holds
  <2>3. Reported \cup {task[w]} \subseteq Reported'
    <3> PICK r : r = [node |-> w, job |-> task[w], status |-> outcome[w]]
      OBVIOUS
    <3>1. reports' = reports \cup {r} /\ r.job = task[w]
      BY <2>1
    <3> QED
      BY <3>1 DEF Reported
  <2>4. Ended' = Ended
    BY <1>1 DEF Ended
  <2>5. Lost' \subseteq Lost \cup {}
    BY <1>1, <2>2, <2>3, <2>4, LostStays
  <2> QED
    BY <1>1, <2>5 DEF Accounts, CostsNothing
<1>4. CASE \/ \E p \in Publishers : UpdateTags(w, p)
           \/ DeliverTags(w)
  <2>1. UNCHANGED <<cur, pc, task, reports>>
    BY <1>4 DEF UpdateTags, metricsTick, readTask, SetTags, DeliverTags,
                netVars, procVars
  <2> QED
    BY <1>1, <2>1, QuietCostsNothing
<1> QED
  BY <1>2, <1>3, <1>4 DEF TaskStep, TagStep

LEMMA OrphanAccounts ==
    ASSUME UniqueIds, IInv, IInv', RecordInv, NEW h \in orphans, FinishOrphan(h)
    PROVE  Accounts
<1>1. UNCHANGED <<posted, cur, rpc, pc, task, reports, faults>> /\ orphans' = orphans \ {h}
  BY DEF FinishOrphan, workerVars, procVars
<1>2. CASE \E j \in Queued(IdOf[h.job]) : claimGranted(h.node, j, h.idle)
  <2>1. PICK j \in queue : claimGranted(h.node, j, h.idle)
    BY <1>2 DEF Queued
  <2>2. h.node \in Workers /\ h.idle \in SUBSET Workers
    BY DEF IInv, TypeOK, NetTypeOK, Handler
  <2>3. Carried \subseteq Carried'
    BY <1>1 DEF Carried, Carries, Holds
  <2>4. Lost' \subseteq Lost \cup {j}
    BY <1>1, <2>1, <2>2, <2>3, GrantedLoses
  <2> QED
    BY <1>1, <2>4 DEF Accounts, TurnsOrphan
<1>3. CASE claimRefused(h.node, IdOf[h.job], h.idle)
  <2>1. UNCHANGED <<queue, hist>>
    BY <1>3 DEF claimRefused, edgeVars
  <2>2. Lost' = Lost
    BY <1>1, <2>1, NothingLost
  <2> QED
    BY <1>1, <2>2 DEF Accounts, CostsNothing
<1> QED
  BY <1>2, <1>3 DEF FinishOrphan

LEMMA EventAccounts ==
    ASSUME UniqueIds, IInv, IInv', RecordInv, EventStep
    PROVE  Accounts
<1>types. RecordTypes
  BY TypesOfRecords
<1>1. CASE (\E c \in cancels : DeliverCancel(c)) \/ HandleMemberEvent \/ LearnFromReport
  <2>1. UNCHANGED <<queue, posted, hist, cur, rpc, pc, task, reports, orphans, faults>>
    BY <1>1 DEF DeliverCancel, requestCancel, HandleMemberEvent, addNode, removeNode,
                LearnFromReport, learnCompletion, netVars, edgeVars, workerVars, procVars
  <2> QED
    BY <2>1, QuietCostsNothing
<1>2. CASE \E r \in reports : DeliverReport(r)
  <2> PICK r \in reports : DeliverReport(r)
    BY <1>2
  <2>1. UNCHANGED <<queue, posted, cur, rpc, pc, task, orphans, faults>> /\ reports' = reports \ {r}
    BY DEF DeliverReport, recordCompletion, workerVars, procVars
  <2>2. Delivers(r)
    BY <2>1 DEF DeliverReport, Delivers, Elsewhere
  <2>3. /\ r.job \in Jobs /\ r.status \in Outcomes
        /\ hist' = [hist EXCEPT ![IdOf[r.job]] = [status |-> r.status, node |-> r.node]]
    BY <1>types, <2>2, DeliveredRecord DEF RecordInv
  <2>4. [status |-> r.status, node |-> r.node].status \in Terminal
    BY <2>3 DEF Outcomes, Terminal
  <2>5. Ended \ {r.job} \subseteq Ended' /\ r.job \in Ended'
    BY <1>types, <2>3, <2>4, OthersEnd
  <2>6. Reported \ {r.job} \subseteq Reported'
    BY <2>1 DEF Reported
  <2>7. Carried' = Carried
    BY <2>1 DEF Carried, Carries, Holds
  <2>8. Lost' \subseteq Lost \cup {}
    BY <2>1, <2>5, <2>6, <2>7, LostStays
  <2> QED
    BY <2>1, <2>8 DEF Accounts, CostsNothing
<1>3. CASE LoseEvent
  <2>1. UNCHANGED <<queue, posted, hist, cur, rpc, pc, task, orphans>>
    BY <1>3 DEF LoseEvent, edgeVars, workerVars, procVars
  <2>2. CASE UNCHANGED reports
    <3>1. faults' \in {faults, faults + 1}
      BY <1>3 DEF LoseEvent, Fault
    <3> QED
      BY <2>1, <2>2, <3>1, QuietCostsNothing
  <2>3. CASE \E r \in reports : reports' = reports \ {r} /\ faults' = faults + 1
    <3> PICK r \in reports : reports' = reports \ {r} /\ faults' = faults + 1
      BY <2>3
    <3>1. Reported \ {r.job} \subseteq Reported'
      BY DEF Reported
    <3>2. Carried' = Carried /\ Ended' = Ended
      BY <2>1 DEF Carried, Carries, Holds, Ended
    <3>3. Lost' \subseteq Lost \cup {r.job}
      BY <2>1, <3>1, <3>2, LostStays
    <3>4. Lost' \subseteq Lost \cup {r.job, r.job}
      BY <3>3
    <3> QED
      BY <2>1, <3>4 DEF Accounts, CostsAtMostTwo
  <2> QED
    BY <1>3, <2>2, <2>3 DEF LoseEvent, Fault
<1> QED
  BY <1>1, <1>2, <1>3, OrphanAccounts DEF EventStep

LEMMA MemberAccounts ==
    ASSUME UniqueIds, IInv, IInv', RecordInv, NEW w \in Workers, MemberStep(w)
    PROVE  Accounts
<1>1. CASE CrashWorker(w)
  <2>1. UNCHANGED <<queue, posted, hist, reports>>
    BY <1>1 DEF CrashWorker, edgeVars
  <2>2. /\ cur' = [cur EXCEPT ![w] = NoJob]
        /\ rpc' = [rpc EXCEPT ![w] = NoRpc]
        /\ pc' = [pc EXCEPT ![w] = "idle"]
        /\ task' = [task EXCEPT ![w] = NoJob]
        /\ orphans' = orphans \cup abandoned(w)
        /\ faults' = faults + 1
    BY <1>1 DEF CrashWorker, stopProcess, clearRun, Fault
  <2>3. /\ cur \in [Workers -> Jobs \cup {NoJob}]
        /\ pc \in [Workers -> {"idle", "prepare", "run", "report"}]
        /\ task \in [Workers -> Jobs \cup {NoJob}]
        /\ rpc \in [Workers -> [pc : {"none", "open", "granted"},
                                job : Jobs \cup {NoJob}, idle : SUBSET Workers]]
    BY DEF IInv, TypeOK, WorkerTypeOK, NetTypeOK
  <2>4. rpc[w].pc # "none" => cur[w] = NoJob
    BY DEF IInv, PollsOnlyWhenFree
  <2>5. \A j \in Carried : \/ j \in Carried' \/ j = task[w] \/ j = cur[w]
                           \/ rpc[w].pc = "granted" /\ j = rpc[w].job
    BY <2>2, <2>3 DEF Carried, Carries, Holds
  <2>6. CASE rpc[w].pc = "open"
    <3>1. Carried \ {task[w]} \subseteq Carried'
      BY <2>3, <2>4, <2>5, <2>6 DEF Carried
    <3>2. Lost' \subseteq Lost \cup {task[w]}
      BY <2>1, <3>1, LostByWorkers
    <3>3. \E h : orphans' = orphans \cup {h}
      BY <2>2, <2>6 DEF abandoned
    <3> QED
      BY <2>2, <3>2, <3>3 DEF Accounts, CostsAtMostTwo
  <2>7. CASE rpc[w].pc # "open"
    <3> PICK a : a = IF rpc[w].pc = "granted" THEN rpc[w].job ELSE cur[w]
      OBVIOUS
    <3>1. Carried \ {task[w], a} \subseteq Carried'
      BY <2>3, <2>4, <2>5 DEF Carried
    <3>2. Lost' \subseteq Lost \cup {task[w], a}
      BY <2>1, <3>1, LostByWorkers
    <3>3. orphans' = orphans
      BY <2>2, <2>7 DEF abandoned
    <3> QED
      BY <2>2, <3>2, <3>3 DEF Accounts, CostsAtMostTwo
  <2> QED
    BY <2>6, <2>7
<1>2. CASE RestartWorker(w) \/ LoseMember(w) \/ JoinMember(w)
  <2>1. /\ UNCHANGED <<queue, posted, hist, cur, rpc, pc, task, reports, orphans>>
        /\ faults' \in {faults, faults + 1}
    BY <1>2 DEF RestartWorker, startProcess, LoseMember, JoinMember, Fault, edgeVars,
                workerVars, procVars
  <2> QED
    BY <2>1, QuietCostsNothing
<1> QED
  BY <1>1, <1>2 DEF MemberStep

LEMMA EveryStepAccounts ==
    UniqueIds /\ IInv /\ IInv' /\ RecordInv /\ [Next]_vars => Accounts
<1> SUFFICES ASSUME UniqueIds, IInv, IInv', RecordInv, [Next]_vars PROVE Accounts
  OBVIOUS
<1>1. CASE Next
  BY <1>1, ClientAccounts, ClaimAccounts, TaskAccounts, EventAccounts, MemberAccounts DEF Next
<1>2. CASE UNCHANGED vars
  <2>1. UNCHANGED <<queue, posted, hist, cur, rpc, pc, task, reports, orphans, faults>>
    BY <1>2 DEF vars, edgeVars, workerVars, procVars, netVars
  <2> QED
    BY <2>1, QuietCostsNothing
<1> QED
  BY <1>1, <1>2

\* As long as ids are unique, a job gets lost only by a fault, and never more than
\* two by one: through claims that end after their client has gone, restarts,
\* stops and completions in any order (claimJob, processTask, handleUserEvent).
THEOREM LossLimited == Spec => []LossBounded
<1> DEFINE BInv == RInv /\ (UniqueIds => Balanced)
<1>1. Init => BInv
  <2> SUFFICES ASSUME Init PROVE Balanced
    BY RInvInit
  <2>1. posted = {} /\ Lost = {} /\ orphans = {} /\ faults = 0
    BY DEF Init, Lost
  <2> QED
    BY <2>1, FS_EmptySet DEF Balanced
<1>2. BInv /\ [Next]_vars => BInv'
  <2> SUFFICES ASSUME BInv, [Next]_vars PROVE BInv'
    OBVIOUS
  <2>1. RInv /\ RInv'
    BY RInvStep
  <2>2. UniqueIds' => UniqueIds
    BY DEF UniqueIds
  <2>3. ASSUME UniqueIds PROVE Balanced'
    <3>1. IInv /\ IInv' /\ RecordInv
      BY <2>1, <2>3 DEF RInv
    <3>2. Accounts
      BY <2>3, <3>1, EveryStepAccounts
    <3>3. IsFiniteSet(posted')
      <4>1. UniqueIds' => RecordInv'
        BY <2>1 DEF RInv
      <4>2. UniqueIds'
        BY <2>3 DEF UniqueIds
      <4> QED
        BY <4>1, <4>2 DEF RecordInv, CountersBounded
    <3>4. faults \in Nat
      BY <3>1 DEF IInv, TypeOK, NetTypeOK
    <3> QED
      BY <2>3, <3>2, <3>3, <3>4, AccountsBalance
  <2> QED
    BY <2>1, <2>2, <2>3
<1>3. BInv => LossBounded
  BY DEF Balanced, LossBounded
<1> QED
  BY <1>1, <1>2, <1>3, PTL DEF Spec
===============================================================================
