---------------------------- MODULE SchedulerProofs ---------------------------
(***************************************************************************)
(* Proofs about Scheduler, for any finite set of workers, any types, any   *)
(* times and any mode. Types and counters are proved by induction over the *)
(* steps; what a mode decides follows from the types alone.                *)
(***************************************************************************)
EXTENDS Scheduler, FiniteSetTheorems, FunctionTheorems, WellFoundedInduction, TLAPS

USE ConfiguredAssumption, WorkersAssumption, TypesAssumption, PredictedAssumption,
    FitsAssumption, WindowAssumption, NaNAssumption

CounterTypes ==
    /\ mode \in Modes
    /\ assigned \in [Workers -> Nat]
    /\ inflight \in [Workers -> Nat]
    /\ recent \in [Workers -> Seq(Types)]
    /\ batchingCounts \in [Workers -> Nat]
    /\ perf \in [Workers -> SUBSET {Untyped}]

ClusterTypes ==
    /\ members \subseteq Workers
    /\ tags \in [Workers -> {"none", "online", "busy"}]
    /\ running \in [Workers -> Types \cup {NoTask}]
    /\ waiting \in Types \cup {NoTask}
    /\ posts \in 0..MaxJobs

PheromoneTypes == pheromone \in [Types \X Workers -> {"none", "number", "NaN"}]

LEMMA TypeParts == TypeOK <=> CounterTypes /\ ClusterTypes /\ PheromoneTypes
  BY DEF TypeOK, CounterTypes, ClusterTypes, PheromoneTypes

-------------------------------------------------------------------------------
(* Types                                                                   *)

LEMMA AssignedTypes ==
    ASSUME CounterTypes, NEW w \in Workers, NEW t \in Types, OnAssigned(w, t)
    PROVE  CounterTypes'
<1>1. /\ mode' \in Modes
      /\ assigned' \in [Workers -> Nat]
      /\ inflight' \in [Workers -> Nat]
      /\ perf' \in [Workers -> SUBSET {Untyped}]
  BY DEF CounterTypes, OnAssigned
<1>2. CASE mode = "PSO_ACO_GA"
  <2> DEFINE all == Append(recent[w], t)
  <2>1. recent[w] \in Seq(Types)
    BY DEF CounterTypes
  <2>2. all \in Seq(Types) /\ all # <<>>
    BY <2>1
  <2>3. Tail(all) \in Seq(Types)
    BY <2>2
  <2>4. recent' = [recent EXCEPT ![w] =
                      IF Len(all) > Window THEN Tail(all) ELSE all]
    BY <1>2 DEF OnAssigned
  <2> HIDE DEF all
  <2>5. recent' \in [Workers -> Seq(Types)]
    BY <2>2, <2>3, <2>4 DEF CounterTypes
  <2>6. \/ batchingCounts' = batchingCounts
        \/ batchingCounts' = [batchingCounts EXCEPT ![w] = @ + 1]
    BY <1>2, Zenon DEF OnAssigned
  <2>7. batchingCounts' \in [Workers -> Nat]
    BY <2>6 DEF CounterTypes
  <2> QED
    BY <1>1, <2>5, <2>7 DEF CounterTypes
<1>3. CASE mode # "PSO_ACO_GA"
  BY <1>1, <1>3 DEF OnAssigned, CounterTypes
<1> QED
  BY <1>2, <1>3

LEMMA PheromoneStep ==
    ASSUME PheromoneTypes, NEW t, NEW order, updatePheromones(t, order)
    PROVE  PheromoneTypes'
<1>1. \A i : Refined(t, order, i) \in {"NaN", "number"}
  BY DEF Refined
<1> QED
  BY <1>1 DEF updatePheromones, PheromoneTypes

LEMMA TypeStep == TypeOK /\ [Next]_vars => TypeOK'
<1> SUFFICES ASSUME CounterTypes, ClusterTypes, PheromoneTypes, [Next]_vars
             PROVE  CounterTypes' /\ ClusterTypes' /\ PheromoneTypes'
  BY TypeParts DEF TypeOK, CounterTypes, ClusterTypes, PheromoneTypes
<1>1. ASSUME NEW t \in Types, Post(t)
      PROVE  CounterTypes' /\ ClusterTypes' /\ PheromoneTypes'
  BY <1>1 DEF Post, counters, CounterTypes, ClusterTypes, PheromoneTypes
<1>2. ASSUME NEW w \in Workers, Grant(w)
      PROVE  CounterTypes' /\ ClusterTypes' /\ PheromoneTypes'
  <2>1. waiting \in Types
    BY <1>2 DEF Grant, Asks, ClusterTypes
  <2>2. CounterTypes'
    BY <1>2, <2>1, AssignedTypes DEF Grant
  <2>3. ClusterTypes'
    BY <1>2, <2>1 DEF Grant, ClusterTypes
  <2>4. PheromoneTypes'
    BY <1>2, PheromoneStep DEF Grant, PheromoneTypes
  <2> QED
    BY <2>2, <2>3, <2>4
<1>3. ASSUME NEW w \in Workers, Refuse(w)
      PROVE  CounterTypes' /\ ClusterTypes' /\ PheromoneTypes'
  <2>1. PheromoneTypes'
    BY <1>3, PheromoneStep DEF Refuse
  <2> QED
    BY <1>3, <2>1 DEF Refuse, clusterVars, counters, CounterTypes, ClusterTypes
<1>4. ASSUME NEW w \in Workers, Complete(w)
      PROVE  CounterTypes' /\ ClusterTypes' /\ PheromoneTypes'
  BY <1>4 DEF Complete, OnCompleted, CounterTypes, ClusterTypes, PheromoneTypes
<1>5. ASSUME NEW w \in Workers, Abort(w)
      PROVE  CounterTypes' /\ ClusterTypes' /\ PheromoneTypes'
  BY <1>5 DEF Abort, counters, CounterTypes, ClusterTypes, PheromoneTypes
<1>6. ASSUME NEW w \in Workers, UpdateTags(w)
      PROVE  CounterTypes' /\ ClusterTypes' /\ PheromoneTypes'
  BY <1>6 DEF UpdateTags, counters, CounterTypes, ClusterTypes, PheromoneTypes
<1>7. ASSUME NEW w \in Workers, Leave(w)
      PROVE  CounterTypes' /\ ClusterTypes' /\ PheromoneTypes'
  <2>1. <<>> \in Seq(Types)
    OBVIOUS
  <2> QED
    BY <1>7, <2>1
    DEF Leave, RemoveNode, CounterTypes, ClusterTypes, PheromoneTypes
<1>8. ASSUME NEW w \in Workers, Join(w)
      PROVE  CounterTypes' /\ ClusterTypes' /\ PheromoneTypes'
  BY <1>8 DEF Join, counters, CounterTypes, ClusterTypes, PheromoneTypes
<1>9. CASE UNCHANGED vars
  BY <1>9 DEF vars, clusterVars, counters, CounterTypes, ClusterTypes,
              PheromoneTypes
<1> QED
  BY <1>1, <1>2, <1>3, <1>4, <1>5, <1>6, <1>7, <1>8, <1>9 DEF Next

LEMMA TypeInit == Init => TypeOK
<1>1. <<>> \in Seq(Types)
  OBVIOUS
<1> QED
  BY <1>1 DEF Init, TypeOK

\* The counters stay natural numbers and everything else what it is taken for.
THEOREM TypeCorrect == Spec => []TypeOK
  BY TypeInit, TypeStep, PTL DEF Spec

-------------------------------------------------------------------------------
(* Counters                                                                *)

LEMMA InflightStep ==
    TypeOK /\ InflightWithinAssigned /\ [Next]_vars => InflightWithinAssigned'
<1> SUFFICES ASSUME TypeOK, InflightWithinAssigned, [Next]_vars
             PROVE  InflightWithinAssigned'
  OBVIOUS
<1> USE DEF InflightWithinAssigned, TypeOK
<1>1. CASE UNCHANGED <<assigned, inflight>>
  BY <1>1
<1>2. ASSUME NEW w \in Workers, Grant(w)
      PROVE  InflightWithinAssigned'
  BY <1>2 DEF Grant, OnAssigned
<1>3. ASSUME NEW w \in Workers, Complete(w)
      PROVE  InflightWithinAssigned'
  BY <1>3 DEF Complete, OnCompleted
<1>4. ASSUME NEW w \in Workers, Leave(w)
      PROVE  InflightWithinAssigned'
  BY <1>4 DEF Leave, RemoveNode
<1> QED
  BY <1>1, <1>2, <1>3, <1>4
  DEF Next, Post, Refuse, Abort, UpdateTags, Join, vars, counters

\* No worker is taken to have more jobs in flight than were assigned to it.
THEOREM InflightBound == Spec => []InflightWithinAssigned
<1>1. Init => InflightWithinAssigned
  BY DEF Init, InflightWithinAssigned
<1> QED
  BY <1>1, TypeCorrect, InflightStep, PTL DEF Spec

-------------------------------------------------------------------------------
(* Decisions                                                               *)

LEMMA DecisionShape ==
    ASSUME TypeOK, NEW t \in Types, NEW order \in Decisions(t)
    PROVE  \E n \in Nat \ {0} : order \in [1..n -> Workers]
<1> DEFINE S == collectCandidates(t)
<1>1. S \in SUBSET Workers
  BY DEF collectCandidates, TypeOK
<1>2. Cardinality(S) \in Nat
  BY <1>1, FS_Subset, FS_CardinalityType
<1>3. order \in [1..Cardinality(S) -> Workers] /\ order # <<>>
  BY <1>1 DEF Decisions, Orders
<1>4. Cardinality(S) # 0
  BY <1>3
<1> QED
  BY <1>2, <1>3, <1>4

\* The default mode and its ablations decide for the first candidate in the
\* order of serf.Members(), whatever the state of the scheduler.
LEMMA FirstPicked == TypeOK => HybridPicksFirst
<1> SUFFICES ASSUME TypeOK, mode \in Hybrid,
                    NEW t \in Types, NEW order \in Decisions(t)
             PROVE  Picks(t, order) = {1}
  BY DEF HybridPicksFirst
<1>1. PICK n \in Nat \ {0} : order \in [1..n -> Workers]
  BY DecisionShape
<1> DEFINE vals == Scores(t, order)
<1>2. /\ DOMAIN vals = 1..n
      /\ \A i \in 1..n : vals[i] \in {0, NaN}
  BY <1>1 DEF Scores, HybridScore, Load, TypeOK
<1> HIDE DEF vals
<1>3. argmax(vals) = 1
  <2>1. CASE vals[1] = NaN
    BY <2>1 DEF argmax
  <2>2. CASE vals[1] # NaN
    BY <1>2, <2>2 DEF argmax
  <2> QED
    BY <2>1, <2>2
<1> QED
  BY <1>3 DEF Picks, vals

\* In every reachable state.
THEOREM DefaultPicksFirst == Spec => []HybridPicksFirst
  BY FirstPicked, TypeCorrect, PTL

-------------------------------------------------------------------------------
(* The greedy mode                                                         *)

LEMMA LeastNatural ==
    ASSUME NEW T, T \subseteq Nat, T # {}
    PROVE  \E m \in T : \A k \in T : m <= k
<1>1. PICK m \in T : \A k \in T : <<k, m>> \notin OpToRel(<, Nat)
  BY NatLessThanWellFounded, WFMin, Zenon
<1>2. \A k \in T : ~(k < m)
  BY <1>1 DEF OpToRel
<1> QED
  BY <1>2

\* Of finitely many integers that are bounded above, argmax finds a largest.
LEMMA ArgmaxIsLargest ==
    ASSUME NEW n \in Nat \ {0}, NEW cost \in [1..n -> Nat]
    PROVE  LET vals == [i \in 1..n |-> -cost[i]]
           IN  /\ argmax(vals) \in 1..n
               /\ \A k \in 1..n : cost[argmax(vals)] <= cost[k]
<1> DEFINE vals == [i \in 1..n |-> -cost[i]]
           Largest(i) == /\ vals[i] # NaN
                         /\ \A k \in DOMAIN vals :
                               vals[k] = NaN \/ vals[k] < vals[i]
                                             \/ (vals[k] = vals[i] /\ i <= k)
<1>1. /\ DOMAIN vals = 1..n
      /\ \A i \in 1..n : /\ cost[i] \in Nat
                         /\ vals[i] \in Int
                         /\ vals[i] = 0 - cost[i]
                         /\ vals[i] # NaN
  OBVIOUS
<1>2. PICK m \in {cost[i] : i \in 1..n} :
          \A k \in {cost[i] : i \in 1..n} : m <= k
  <2>1. {cost[i] : i \in 1..n} \subseteq Nat /\ cost[1] \in {cost[i] : i \in 1..n}
    OBVIOUS
  <2> QED
    BY <2>1, LeastNatural
<1>3. PICK j \in {i \in 1..n : cost[i] = m} :
          \A k \in {i \in 1..n : cost[i] = m} : j <= k
  <2>1. {i \in 1..n : cost[i] = m} \subseteq Nat
    OBVIOUS
  <2>2. {i \in 1..n : cost[i] = m} # {}
    BY <1>2
  <2> QED
    BY <2>1, <2>2, LeastNatural
<1> HIDE DEF vals
<1>4. Largest(j)
  <2>1. j \in 1..n /\ cost[j] = m /\ vals[j] # NaN
    BY <1>1, <1>3
  <2>2. ASSUME NEW k \in 1..n
        PROVE  vals[k] < vals[j] \/ (vals[k] = vals[j] /\ j <= k)
    <3>1. m <= cost[k] /\ (cost[k] = m => j <= k)
      BY <1>2, <1>3
    <3>2. /\ cost[k] \in Nat /\ cost[j] \in Nat
          /\ vals[k] = 0 - cost[k] /\ vals[j] = 0 - cost[j]
      BY <1>1, <2>1
    <3> HIDE <1>1
    <3> QED
      BY <2>1, <3>1, <3>2
  <2> QED
    BY <1>1, <2>1, <2>2
<1>5. vals[1] # NaN
  BY <1>1
<1>6. argmax(vals) = CHOOSE i \in DOMAIN vals : Largest(i)
  BY <1>5 DEF argmax
<1>7. PICK b \in 1..n : b = argmax(vals) /\ Largest(b)
  <2>1. \E i \in DOMAIN vals : Largest(i)
    BY <1>1, <1>3, <1>4
  <2> HIDE DEF Largest
  <2>2. argmax(vals) \in DOMAIN vals /\ Largest(argmax(vals))
    BY <1>6, <2>1, Zenon
  <2> QED
    BY <1>1, <2>2, Zenon
<1>8. ASSUME NEW k \in 1..n
      PROVE  cost[b] <= cost[k]
  <2>1. /\ cost[k] \in Nat /\ vals[k] = 0 - cost[k] /\ vals[k] # NaN
        /\ cost[b] \in Nat /\ vals[b] = 0 - cost[b]
    BY <1>1
  <2>2. vals[k] < vals[b] \/ vals[k] = vals[b]
    BY <1>1, <1>7, <2>1, Zenon
  <2> QED
    BY <2>1, <2>2
<1> QED
  BY <1>7, <1>8, Zenon DEF vals

\* A better candidate has a smaller product of time and load.
LEMMA SmallerProduct ==
    ASSUME NEW a \in Nat \ {0}, NEW b \in Nat \ {0}, NEW c \in Nat \ {0},
           NEW d \in Nat \ {0}, a <= c, b <= d, a < c \/ b < d
    PROVE  a * b < c * d
<1>1. a * b \in Int /\ c * b \in Int /\ c * d \in Int
  OBVIOUS
<1>2. c * b - a * b = (c - a) * b /\ c * d - c * b = c * (d - b)
  OBVIOUS
<1>3. (c - a) * b >= 0 /\ c * (d - b) >= 0
  OBVIOUS
<1>4. CASE a < c
  <2>1. (c - a) * b > 0
    BY <1>4
  <2> QED
    BY <1>1, <1>2, <1>3, <2>1
<1>5. CASE b < d
  <2>1. c * (d - b) > 0
    BY <1>5
  <2> QED
    BY <1>1, <1>2, <1>3, <2>1
<1> QED
  BY <1>4, <1>5

LEMMA GreedyBest == TypeOK => GreedyIsBestSuited
<1> SUFFICES ASSUME TypeOK, mode = "Greedy", NEW t \in Types,
                    NEW order \in Decisions(t), NEW i \in Picks(t, order),
                    NEW k \in DOMAIN order, Better(t, order[k], order[i])
             PROVE  FALSE
  BY DEF GreedyIsBestSuited, BestSuited
<1>1. PICK n \in Nat \ {0} : order \in [1..n -> Workers]
  BY DecisionShape
<1> DEFINE time(l) == Predicted[<<t, order[l]>>]
           cost == [l \in 1..n |-> time(l) * Load(order[l])]
<1>2. \A l \in 1..n : time(l) \in Nat \ {0} /\ Load(order[l]) \in Nat \ {0}
  <2> SUFFICES ASSUME NEW l \in 1..n
               PROVE  time(l) \in Nat \ {0} /\ Load(order[l]) \in Nat \ {0}
    OBVIOUS
  <2>1. order[l] \in Workers /\ <<t, order[l]>> \in Types \X Workers
    BY <1>1
  <2> QED
    BY <2>1 DEF Load, TypeOK
<1> HIDE DEF time
<1>3. cost \in [1..n -> Nat]
  BY <1>2
<1>4. Scores(t, order) = [l \in 1..n |-> -cost[l]]
  BY <1>1 DEF Scores, GreedyScore, Hybrid, time
<1>5. i = argmax(Scores(t, order))
  BY DEF Picks
<1>6. i \in 1..n /\ k \in 1..n /\ cost[i] <= cost[k]
  <2> HIDE DEF cost
  <2> QED
    BY <1>1, <1>3, <1>4, <1>5, ArgmaxIsLargest
<1>7. /\ time(k) <= time(i)
      /\ Load(order[k]) <= Load(order[i])
      /\ time(k) < time(i) \/ Load(order[k]) < Load(order[i])
  BY DEF Better, time
<1>8. time(k) * Load(order[k]) < time(i) * Load(order[i])
  BY <1>2, <1>6, <1>7, SmallerProduct
<1>9. cost[k] < cost[i]
  BY <1>6, <1>8
<1>10. cost[k] \in Nat /\ cost[i] \in Nat
  BY <1>3, <1>6
<1> QED
  BY <1>6, <1>9, <1>10

\* In the greedy mode no decision passes over a candidate that is better in
\* every respect.
THEOREM GreedyBestSuited == Spec => []GreedyIsBestSuited
  BY GreedyBest, TypeCorrect, PTL

-------------------------------------------------------------------------------
(* Claims                                                                  *)

\* A decision names a candidate in every mode, NaN or not: its index is one of
\* the candidates'.
LEMMA PickInRange ==
    ASSUME TypeOK, NEW t \in Types, NEW order \in Decisions(t)
    PROVE  Picks(t, order) # {} /\ Picks(t, order) \subseteq DOMAIN order
<1>1. PICK n \in Nat \ {0} : order \in [1..n -> Workers]
  BY DecisionShape
<1>2. DOMAIN order = 1..n /\ 1 \in 1..n /\ Len(order) = n
  BY <1>1
<1>3. CASE mode \in Hybrid
  BY <1>2, <1>3, FirstPicked DEF HybridPicksFirst
<1>4. CASE mode = "Greedy"
  <2> DEFINE cost == [l \in 1..n |-> Predicted[<<t, order[l]>>] * Load(order[l])]
  <2>1. ASSUME NEW l \in 1..n
        PROVE  Predicted[<<t, order[l]>>] * Load(order[l]) \in Nat
    <3>1. order[l] \in Workers /\ <<t, order[l]>> \in Types \X Workers
      BY <1>1
    <3>2. Predicted[<<t, order[l]>>] \in Nat /\ Load(order[l]) \in Nat
      BY <3>1 DEF Load, TypeOK
    <3> QED
      BY <3>2
  <2>2. cost \in [1..n -> Nat]
    BY <2>1
  <2>3. Scores(t, order) = [l \in 1..n |-> -cost[l]]
    BY <1>2, <1>4 DEF Scores, GreedyScore, Hybrid
  <2> HIDE DEF cost
  <2>4. argmax(Scores(t, order)) \in 1..n
    BY <2>2, <2>3, ArgmaxIsLargest
  <2> QED
    BY <1>2, <1>4, <2>4 DEF Picks
<1>5. CASE mode = "EcoTaskOpt"
  <2>1. (1 % n) + 1 \in 1..n
    OBVIOUS
  <2>2. Picks(t, order) = {(1 % n) + 1}
    BY <1>2, <1>5 DEF Picks, EcoTaskOptPick, Hybrid
  <2> QED
    BY <1>2, <2>1, <2>2
<1>6. CASE mode \notin Hybrid \cup {"Greedy", "EcoTaskOpt"}
  BY <1>2, <1>6 DEF Picks, SearchPicks
<1> QED
  BY <1>3, <1>4, <1>5, <1>6

\* If there are candidates, they come in some order.
LEMMA OrderExists ==
    ASSUME TypeOK, NEW t \in Types, collectCandidates(t) # {}
    PROVE  Decisions(t) # {}
<1> DEFINE S == collectCandidates(t)
<1>1. IsFiniteSet(S)
  BY FS_Subset DEF collectCandidates, TypeOK
<1>2. Cardinality(S) \in Nat /\ Cardinality(S) # 0
  BY <1>1, FS_CardinalityType, FS_EmptySet
<1>3. ExistsBijection(1..Cardinality(S), S)
  BY <1>1, FS_CardinalityType
<1>4. PICK f : f \in Bijection(1..Cardinality(S), S)
  BY <1>3, Fun_ExistsBij
<1> HIDE DEF S
<1>5. /\ f \in [1..Cardinality(S) -> S]
      /\ \A i, k \in 1..Cardinality(S) : f[i] = f[k] => i = k
  BY <1>4 DEF Bijection, Injection, IsInjective
<1>6. DOMAIN f = 1..Cardinality(S)
  BY <1>5
<1>7. f # <<>>
  BY <1>2, <1>6
<1> QED
  BY <1>5, <1>6, <1>7 DEF Decisions, Orders, S

LEMMA PickIsCandidate ==
    ASSUME TypeOK, NEW t \in Types, NEW order \in Decisions(t), NEW i \in Picks(t, order)
    PROVE  order[i] \in collectCandidates(t)
<1>1. order \in [1..Cardinality(collectCandidates(t)) -> collectCandidates(t)]
  BY DEF Decisions, Orders
<1> QED
  BY <1>1, PickInRange

LEMMA Asked == TypeOK => NobodyAsksInVain
<1> SUFFICES ASSUME TypeOK, NEW v \in Workers, Asks(v)
             PROVE  \E w \in Workers : Grantable(w) \/ TagLate(w)
  BY DEF NobodyAsksInVain
<1>1. waiting \in Types
  BY DEF Asks, TypeOK
<1>2. CASE collectCandidates(waiting) = {}
  BY <1>2 DEF Grantable
<1>3. CASE collectCandidates(waiting) # {}
  <2>1. PICK order \in Decisions(waiting) : TRUE
    BY <1>1, <1>3, OrderExists
  <2>2. PICK i \in Picks(waiting, order) : TRUE
    BY <1>1, PickInRange
  <2>3. order[i] \in collectCandidates(waiting)
    BY <1>1, PickIsCandidate
  <2>4. /\ order[i] \in members \cap Fits[waiting] /\ order[i] \in Workers
        /\ tags[order[i]] # "busy"
    BY <1>1, <2>3 DEF collectCandidates, TypeOK
  <2>5. running[order[i]] = NoTask => Grantable(order[i])
    BY <2>4 DEF Grantable, Asks
  <2>6. running[order[i]] # NoTask => TagLate(order[i])
    BY <2>3 DEF TagLate
  <2> QED
    BY <2>4, <2>5, <2>6
<1> QED
  BY <1>2, <1>3

\* Whatever the mode, history and NaN in the pheromones: somebody's claim can be
\* granted, or somebody's tag is late.
THEOREM ClaimsEnd == Spec => []NobodyAsksInVain
  BY Asked, TypeCorrect, PTL

\* A claim is granted to a candidate, if there are candidates, and refused for
\* the sake of another one: all that EdgeCluster takes for granted of a decision
\* (MayBeBest, MayBeOther).
THEOREM GrantsGoToCandidates ==
    Spec => [][\A w \in Workers :
                  /\ Grant(w) => \/ w \in collectCandidates(waiting)
                                 \/ collectCandidates(waiting) = {}
                  /\ Refuse(w) => collectCandidates(waiting) \ {w} # {}]_vars
<1> DEFINE A == \A w \in Workers :
                  /\ Grant(w) => \/ w \in collectCandidates(waiting)
                                 \/ collectCandidates(waiting) = {}
                  /\ Refuse(w) => collectCandidates(waiting) \ {w} # {}
<1>1. TypeOK => A
  <2> SUFFICES ASSUME TypeOK, NEW w \in Workers
               PROVE  /\ Grant(w) => \/ w \in collectCandidates(waiting)
                                     \/ collectCandidates(waiting) = {}
                      /\ Refuse(w) => collectCandidates(waiting) \ {w} # {}
    OBVIOUS
  <2>1. ASSUME Grant(w), collectCandidates(waiting) # {}
        PROVE  w \in collectCandidates(waiting)
    <3>1. waiting \in Types
      BY <2>1 DEF Grant, Asks, TypeOK
    <3>2. PICK order \in Decisions(waiting) : \E i \in Picks(waiting, order) : order[i] = w
      BY <2>1 DEF Grant, Decisions
    <3> QED
      BY <3>1, <3>2, PickIsCandidate
  <2>2. ASSUME Refuse(w)
        PROVE  collectCandidates(waiting) \ {w} # {}
    <3>1. waiting \in Types
      BY <2>2 DEF Refuse, Asks, TypeOK
    <3>2. PICK order \in Decisions(waiting) : \E i \in Picks(waiting, order) : order[i] # w
      BY <2>2 DEF Refuse, Decisions
    <3> QED
      BY <3>1, <3>2, PickIsCandidate
  <2> QED
    BY <2>1, <2>2
<1>2. TypeOK /\ [Next]_vars => [A]_vars
  <2> HIDE DEF A
  <2> QED
    BY <1>1
<1> QED
  BY <1>2, TypeCorrect, PTL DEF Spec
===============================================================================
