------------------------------ MODULE Scheduler -------------------------------
(***************************************************************************)
(* The edge's TaskScheduler (scheduler.go): what it remembers of every     *)
(* worker, how its modes choose a worker for a job, and what the choice    *)
(* changes. Around it stands as much of the cluster as feeds it: one       *)
(* pending job at a time, idle workers that ask for it, jobs that end with *)
(* or without a completion, workers that leave and join, tags that lag.    *)
(* The claim protocol itself is HttpDispatch's.                            *)
(*                                                                         *)
(* Floating-point values are abstracted to what comparisons tell apart.    *)
(* NaN is a value of its own: every comparison with it is false. The       *)
(* tuned alpha, beta and rho (UpdateParams) stay finite and positive and   *)
(* therefore have no part in any of the choices below.                     *)
(***************************************************************************)
EXTENDS Integers, Sequences, FiniteSets

CONSTANTS Workers,     \* names of the worker nodes
          Types,       \* task types, 1..10 in the code
          Configured,  \* values that SCHEDULER_MODE may have
          Predicted,   \* Predicted[<<t, w>>]: estimated time / speed, in ticks
          Fits,        \* Fits[t]: workers whose memory takes a job of type t
          Window,      \* length of the recent list, 10 in the code
          NaN,         \* the result of an undefined float operation
          NoTask,      \* no job
          MaxJobs      \* bound: jobs posted

Hybrid == {"PSO_ACO_GA", "PSO_ACO_GA_NoPSO", "PSO_ACO_GA_NoBatching",
           "PSO_ACO_GA_NoGA"}
Modes == Hybrid \cup {"Greedy", "EcoTaskOpt", "PSO", "ACO", "GA"}

ASSUME ConfiguredAssumption == Configured \subseteq Modes
ASSUME WorkersAssumption == IsFiniteSet(Workers)
ASSUME TypesAssumption == Types \subseteq 1..10 /\ NoTask \notin Types
ASSUME PredictedAssumption == Predicted \in [Types \X Workers -> Nat \ {0}]
ASSUME FitsAssumption == Fits \in [Types -> SUBSET Workers]
ASSUME WindowAssumption == Window \in Nat \ {0} /\ MaxJobs \in Nat
ASSUME NaNAssumption == NaN \notin Int

VARIABLES mode,        \* TaskScheduler.mode
          members,     \* alive members
          tags,        \* tags[w]: the status tag as the edge sees it
          running,     \* running[w]: the type of the job that w has
          waiting,     \* the type of the pending job
          posts,       \* jobs posted so far
          assigned,    \* the scheduler's maps; 0, <<>>, {} where no entry is
          inflight,
          recent,
          batchingCounts,
          perf,        \* perf[w]: the types there are statistics for
          pheromone    \* pheromone[<<t, w>>]: absent, a number, or NaN

clusterVars == <<members, tags, running, waiting, posts>>
counters == <<mode, assigned, inflight, recent, batchingCounts, perf>>
vars == <<clusterVars, counters, pheromone>>

\* The type of shared.Task{}, with which OnCompleted is called.
Untyped == 0

TypeOK ==
    /\ mode \in Modes
    /\ members \subseteq Workers
    /\ tags \in [Workers -> {"none", "online", "busy"}]
    /\ running \in [Workers -> Types \cup {NoTask}]
    /\ waiting \in Types \cup {NoTask}
    /\ posts \in 0..MaxJobs
    /\ assigned \in [Workers -> Nat]
    /\ inflight \in [Workers -> Nat]
    /\ recent \in [Workers -> Seq(Types)]
    /\ batchingCounts \in [Workers -> Nat]
    /\ perf \in [Workers -> SUBSET {Untyped}]
    /\ pheromone \in [Types \X Workers -> {"none", "number", "NaN"}]

Init ==
    /\ mode \in Configured
    /\ members = Workers
    /\ tags = [w \in Workers |-> "online"]
    /\ running = [w \in Workers |-> NoTask]
    /\ waiting = NoTask
    /\ posts = 0
    /\ assigned = [w \in Workers |-> 0]
    /\ inflight = [w \in Workers |-> 0]
    /\ recent = [w \in Workers |-> <<>>]
    /\ batchingCounts = [w \in Workers |-> 0]
    /\ perf = [w \in Workers |-> {}]
    /\ pheromone = [x \in Types \X Workers |-> "none"]

-------------------------------------------------------------------------------
(* Choosing a worker *)

\* Mutated: dead members are candidates, too.
collectCandidatesDead(t) == {w \in Fits[t] : tags[w] = "online"}

\* collectCandidates: the members that are alive, known to be workers, not
\* busy, and have the memory.
collectCandidates(t) == {w \in members \cap Fits[t] : tags[w] = "online"}

\* serf.Members() ranges over a map: the candidates come in any order.
Orders(S) ==
    {s \in [1..Cardinality(S) -> S] :
        \A i, k \in DOMAIN s : s[i] = s[k] => i = k}

\* Mutated: the job to be assigned is not counted.
LoadBefore(w) == inflight[w]

\* The projected load of a candidate.
Load(w) == inflight[w] + 1

\* GreedyScore: 1 / (Predicted * Load), negated instead of inverted.
GreedyScore(t, w) == -(Predicted[<<t, w>>] * Load(w))

\* PSOACOGAScore is a product of finite positive numbers, of the pheromone and
\* of Pow(1 - Load, 2.42), which is 0 for load 1 and NaN for a higher one.
HybridScore(t, w) ==
    IF pheromone[<<t, w>>] = "NaN" \/ Load(w) > 1 THEN NaN
    ELSE IF Load(w) = 1 THEN 0 ELSE 1

Scores(t, order) ==
    [i \in DOMAIN order |-> IF mode \in Hybrid THEN HybridScore(t, order[i])
                                               ELSE GreedyScore(t, order[i])]

\* argmax: the first of the largest numbers, unless the first value is NaN,
\* which no number exceeds.
argmax(vals) ==
    IF vals[1] = NaN THEN 1
    ELSE CHOOSE i \in DOMAIN vals :
            /\ vals[i] # NaN
            /\ \A k \in DOMAIN vals :
                  vals[k] = NaN \/ vals[k] < vals[i]
                                \/ (vals[k] = vals[i] /\ i <= k)

\* scheduleEcoTaskOpt rounds a sigmoid of a number >= 0, which is always 1.
EcoTaskOptPick(order) == (1 % Len(order)) + 1

\* schedulePSO, scheduleACO and scheduleGA keep the best candidate that their
\* random search has met, whichever that was.
SearchPicks(order) == DOMAIN order

\* BestWorkerForTaskLocked: the candidates that a mode may choose.
Picks(t, order) ==
    IF mode \in Hybrid \cup {"Greedy"} THEN {argmax(Scores(t, order))}
    ELSE IF mode = "EcoTaskOpt" THEN {EcoTaskOptPick(order)}
    ELSE SearchPicks(order)

\* The number in a pheromone entry after acoPick and updatePheromones. A NaN
\* score of the first candidate makes every sum of probabilities NaN; the ants
\* then all select that candidate and add NaN to its pheromone. NaN passes the
\* clamps. Without the PSO phase the update starts from 2.0 instead.
Refined(t, order, i) ==
    IF \/ i = 1 /\ HybridScore(t, order[1]) = NaN
       \/ pheromone[<<t, order[i]>>] = "NaN" /\ mode # "PSO_ACO_GA_NoPSO"
    THEN "NaN" ELSE "number"

\* What a decision does to the pheromones, for the job's type and every
\* candidate. scheduleACO's own update yields numbers in any case.
updatePheromones(t, order) ==
    pheromone' =
        IF mode \notin Hybrid \cup {"ACO"} THEN pheromone
        ELSE [x \in Types \X Workers |->
                IF x[1] = t /\ \E i \in DOMAIN order : order[i] = x[2]
                THEN IF mode = "ACO" THEN "number"
                     ELSE Refined(t, order,
                                  CHOOSE i \in DOMAIN order : order[i] = x[2])
                ELSE pheromone[x]]

-------------------------------------------------------------------------------
(* What the scheduler remembers *)

\* OnAssigned. Only the default mode keeps the recent types.
OnAssigned(w, t) ==
    /\ assigned' = [assigned EXCEPT ![w] = @ + 1]
    /\ inflight' = [inflight EXCEPT ![w] = @ + 1]
    /\ IF mode = "PSO_ACO_GA"
       THEN LET rec == recent[w]
                all == Append(rec, t)
            IN  /\ batchingCounts' =
                      IF rec # <<>> /\ rec[Len(rec)] = t
                      THEN [batchingCounts EXCEPT ![w] = @ + 1]
                      ELSE batchingCounts
                /\ recent' = [recent EXCEPT ![w] =
                      IF Len(all) > Window THEN Tail(all) ELSE all]
       ELSE UNCHANGED <<recent, batchingCounts>>
    /\ UNCHANGED <<mode, perf>>

\* Mutated: the counter goes below 0.
OnCompletedUnfloored(w) ==
    /\ inflight' = [inflight EXCEPT ![w] = @ - 1]
    /\ UNCHANGED <<mode, assigned, recent, batchingCounts, perf>>

\* OnCompleted, with the empty task that handleUserEvent passes.
OnCompleted(w) ==
    /\ inflight' = [inflight EXCEPT ![w] = IF @ > 0 THEN @ - 1 ELSE 0]
    /\ perf' = IF mode = "Greedy" THEN perf
               ELSE [perf EXCEPT ![w] = @ \cup {Untyped}]
    /\ UNCHANGED <<mode, assigned, recent, batchingCounts>>

\* Mutated: the in-flight counter is not deleted.
RemoveNodeKeepsLoad(w) ==
    /\ assigned' = [assigned EXCEPT ![w] = 0]
    /\ UNCHANGED <<mode, inflight, recent, batchingCounts, perf, pheromone>>

\* RemoveNode: everything about w is deleted, except its batching count.
RemoveNode(w) ==
    /\ assigned' = [assigned EXCEPT ![w] = 0]
    /\ inflight' = [inflight EXCEPT ![w] = 0]
    /\ recent' = [recent EXCEPT ![w] = <<>>]
    /\ perf' = [perf EXCEPT ![w] = {}]
    /\ pheromone' = [x \in Types \X Workers |->
                        IF x[2] = w THEN "none" ELSE pheromone[x]]
    /\ UNCHANGED <<mode, batchingCounts>>

-------------------------------------------------------------------------------
(* The cluster around it *)

\* A job of type t is posted.
Post(t) ==
    /\ waiting = NoTask
    /\ posts < MaxJobs
    /\ waiting' = t
    /\ posts' = posts + 1
    /\ UNCHANGED <<members, tags, running, counters, pheromone>>

\* w may claim the pending job: it has none, it fits, and its tag is not busy.
Asks(w) ==
    /\ waiting # NoTask
    /\ w \in members \cap Fits[waiting]
    /\ running[w] = NoTask
    /\ tags[w] # "busy"

\* claimJob grants the claim of w: the scheduler chose w, or had no candidate.
Grant(w) ==
    /\ Asks(w)
    /\ \/ \E order \in Orders(collectCandidates(waiting)) :
             /\ order # <<>>
             /\ \E i \in Picks(waiting, order) : order[i] = w
             /\ updatePheromones(waiting, order)
       \/ collectCandidates(waiting) = {} /\ UNCHANGED pheromone
    /\ OnAssigned(w, waiting)
    /\ running' = [running EXCEPT ![w] = waiting]
    /\ waiting' = NoTask
    /\ UNCHANGED <<members, tags, posts>>

\* claimJob refuses it: the scheduler chose somebody else. The decision has
\* changed the pheromones all the same.
Refuse(w) ==
    /\ Asks(w)
    /\ \E order \in Orders(collectCandidates(waiting)) :
          /\ order # <<>>
          /\ \E i \in Picks(waiting, order) : order[i] # w
          /\ updatePheromones(waiting, order)
    /\ UNCHANGED <<clusterVars, counters>>

\* The job of w completes, and the edge hears of it.
Complete(w) ==
    /\ running[w] # NoTask
    /\ running' = [running EXCEPT ![w] = NoTask]
    /\ OnCompleted(w)
    /\ UNCHANGED <<members, tags, waiting, posts, pheromone>>

\* The job of w fails, is stopped, or is lost: OnCompleted is not called.
Abort(w) ==
    /\ running[w] # NoTask
    /\ running' = [running EXCEPT ![w] = NoTask]
    /\ UNCHANGED <<members, tags, waiting, posts, counters, pheromone>>

\* The status tag of w reaches the edge.
UpdateTags(w) ==
    /\ w \in members
    /\ tags' = [tags EXCEPT ![w] =
                   IF running[w] = NoTask THEN "online" ELSE "busy"]
    /\ UNCHANGED <<members, running, waiting, posts, counters, pheromone>>

\* removeNode: w has left or failed, or is taken to have.
Leave(w) ==
    /\ w \in members
    /\ members' = members \ {w}
    /\ RemoveNode(w)
    /\ UNCHANGED <<tags, running, waiting, posts>>

\* addNode: w comes back, or a new process of that name, without tags yet.
\* EnsureNode only creates what a map lookup yields anyway.
Join(w) ==
    /\ w \notin members
    /\ members' = members \cup {w}
    /\ \E g \in {"none", tags[w]} : tags' = [tags EXCEPT ![w] = g]
    /\ UNCHANGED <<running, waiting, posts, counters, pheromone>>

Next ==
    \/ \E t \in Types : Post(t)
    \/ \E w \in Workers :
          \/ Grant(w) \/ Refuse(w)
          \/ Complete(w) \/ Abort(w)
          \/ UpdateTags(w) \/ Leave(w) \/ Join(w)

Spec == Init /\ [][Next]_vars

\* Idle workers keep asking, jobs end, tags get through. A worker that may be
\* chosen in some order of the candidates asks in that order some time: the
\* order is random every time.
Fairness ==
    \A w \in Workers : /\ SF_vars(Grant(w))
                       /\ WF_vars(Complete(w) \/ Abort(w))
                       /\ WF_vars(w \in members /\ UpdateTags(w))

FairSpec == Spec /\ Fairness

-------------------------------------------------------------------------------
(* Properties *)

Decisions(t) == Orders(collectCandidates(t)) \ {<<>>}

\* v suits a job of type t better than w does: not slower, not more loaded,
\* and not the same.
Better(t, v, w) ==
    /\ Predicted[<<t, v>>] <= Predicted[<<t, w>>]
    /\ Load(v) <= Load(w)
    /\ Predicted[<<t, v>>] < Predicted[<<t, w>>] \/ Load(v) < Load(w)

\* "assigns tasks to the node best suited for processing": no decision passes
\* over a candidate that is better in every respect, in whatever order the
\* candidates come.
BestSuited ==
    \A t \in Types : \A order \in Decisions(t) :
        \A i \in Picks(t, order), k \in DOMAIN order :
            ~Better(t, order[k], order[i])

\* The greedy mode does so, whatever jobs, failures and late completions have
\* done to its counters.
GreedyIsBestSuited == mode = "Greedy" => BestSuited

\* In the default mode and its ablations a decision has nothing to do with
\* load, speed, pheromone or history: it is the first candidate in the random
\* order, in every state of the scheduler.
HybridPicksFirst ==
    mode \in Hybrid =>
        \A t \in Types : \A order \in Decisions(t) : Picks(t, order) = {1}

\* A worker's in-flight count never exceeds the assignments counted for it,
\* whatever is removed, comes back and completes late.
InflightWithinAssigned == \A w \in Workers : inflight[w] <= assigned[w]

\* The claim of w would be granted, in some order of the candidates.
Grantable(w) ==
    /\ Asks(w)
    /\ \/ collectCandidates(waiting) = {}
       \/ \E order \in Decisions(waiting) :
             \E i \in Picks(waiting, order) : order[i] = w

\* w looks idle and is not: it may be chosen and does not ask, until its tag
\* gets through.
TagLate(w) == w \in collectCandidates(waiting) /\ running[w] # NoTask

\* As long as a worker asks for the pending job, refusals have an end: there is
\* a worker that a decision may name and that asks itself, or one whose tag will
\* take it out of the decisions. No mode ever names nobody, or a worker that
\* could not take the job.
NobodyAsksInVain ==
    (\E w \in Workers : Asks(w)) => \E w \in Workers : Grantable(w) \/ TagLate(w)

\* A pending job is given away if a worker that it fits stays, although every
\* claim may be refused in favour of another worker, which may have left before
\* it asks, and tags may be late.
JobTaken ==
    \A t \in Types :
        (\E w \in Fits[t] : <>[](w \in members)) => (waiting = t ~> waiting = NoTask)
===============================================================================
