------------------------------- MODULE JobRecord -------------------------------
(***************************************************************************)
(* What the evaluation record of a job goes through, whatever events and   *)
(* requests come late, twice or not at all: it is opened when the job is   *)
(* posted, assigned to one worker, once, and concluded with the outcome    *)
(* that this worker reports; or the job is withdrawn before. A concluded   *)
(* record does not change any more. HttpDispatch keeps its records in this *)
(* way as long as task ids are unique, and EvalReport relies on it.        *)
(***************************************************************************)
CONSTANTS Keys,       \* what a record is found under
          Workers,
          NoWorker    \* not assigned

VARIABLE record       \* record[k]: the record, or status "none"

Outcomes == {"completed", "failed", "stopped"}

RecordInit == record = [k \in Keys |-> [status |-> "none", node |-> NoWorker]]

\* The job is posted.
Open(k) ==
    /\ record[k] = [status |-> "none", node |-> NoWorker]
    /\ record' = [record EXCEPT ![k] = [status |-> "pending", node |-> NoWorker]]

\* Its client withdraws it in time.
Withdraw(k) ==
    /\ record[k] = [status |-> "pending", node |-> NoWorker]
    /\ record' = [record EXCEPT ![k] = [status |-> "stopped", node |-> NoWorker]]

\* It is given to w.
Assign(k, w) ==
    /\ record[k] = [status |-> "pending", node |-> NoWorker]
    /\ record' = [record EXCEPT ![k] = [status |-> "running", node |-> w]]

\* The worker it was given to, w, says how it ended.
Conclude(k, w, outcome) ==
    /\ record[k] = [status |-> "running", node |-> w]
    /\ record' = [record EXCEPT ![k] = [status |-> outcome, node |-> w]]

RecordNext ==
    \E k \in Keys : \/ Open(k)
                    \/ Withdraw(k)
                    \/ \E w \in Workers : \/ Assign(k, w)
                                          \/ \E o \in Outcomes : Conclude(k, w, o)

RecordLife == RecordInit /\ [][RecordNext]_record
===============================================================================
