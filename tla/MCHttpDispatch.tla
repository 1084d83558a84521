---------------------------- MODULE MCHttpDispatch ----------------------------
(***************************************************************************)
(* HttpDispatch for TLC: two workers of different size, two jobs.          *)
(***************************************************************************)
EXTENDS HttpDispatch, TLC

CONSTANTS w1, w2, j1, j2, id1, id2

OneWorker == {w1}
TwoWorkers == {w1, w2}
OneJob == {j1}
TwoJobs == {j1, j2}
OneId == {id1}
TwoIds == {id1, id2}

OwnIds == j1 :> id1 @@ j2 :> id2
OnlyOne == j1 :> id1

\* j1 fits both workers, j2 only the larger one.
Mixed == j1 :> 1 @@ j2 :> 2
SmallOne == j1 :> 1
Even == w1 :> 1 @@ w2 :> 1
Uneven == w1 :> 1 @@ w2 :> 2
Single == w1 :> 2

WithLoop == {"poller", "processor", "loop"}
WithoutLoop == {"poller", "processor"}

NoIds == {}
NoFaults == {}
Crashes == {"crash"}
AnyFault == {"crash", "timeout", "suspect", "loss"}

\* Publications cost most of the states: one worker at a time has tags under way,
\* and two of its goroutines at most.
Publications(w) == {p \in Publishers : publishing(w, p)}
Racing == {w \in Workers : Cardinality(Publications(w)) > 1}
TagsBound ==
    /\ Cardinality({w \in Workers : Publications(w) # {} \/ news[w] # NoTags}) <= 1
    /\ \A w \in Workers : Cardinality(Publications(w)) <= 2

\* Three of: two jobs, a fault, a stop, two goroutines that publish at a time.
EventsBound ==
    Cardinality(posted) + faults + Cardinality({id \in Ids : answer[id] # "none"})
        + Cardinality(Racing) <= 3

\* FairSpec with two jobs, or one job and one fault; the goroutines of a worker
\* publish one after the other once there was a fault.
Budget ==
    /\ Cardinality(posted) + faults <= 2
    /\ faults + Cardinality(Racing) <= 1
BudgetNext == Next /\ Budget' /\ TagsBound'
BudgetSpec == Init /\ [][BudgetNext]_vars /\ Fairness
===============================================================================
