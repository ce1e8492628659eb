------------------------ MODULE ScenarioSearchProofs ------------------------
(***************************************************************************)
(* Proofs about ScenarioSearch: the search traces no scenario twice, leaves *)
(* no observed branch one-sided unless its budget is spent, forces only     *)
(* outcomes it has seen taken the other way, works breadth first and        *)
(* reports a longest completed body, for every set of traces and every      *)
(* budget.                                                                  *)
(***************************************************************************)
EXTENDS ScenarioSearch, TLAPS

Waiting == {queue[i] : i \in DOMAIN queue}

\* The scenario that is neither waiting nor recorded: the one in hand, and the
\* one the spent budget dropped.
InHand == IF \/ pc \in {"trace", "expand"}
             \/ pc \in {"choose", "done"} /\ Len(paths) >= MaxScenarios
          THEN {scenario} ELSE {}

\* Every queued scenario is waiting, recorded or in hand.
Accounted == /\ queued \subseteq Waiting \union Traced \union InHand
             /\ Waiting \subseteq queued
             /\ Traced \subseteq queued
             /\ pc \in {"trace", "expand"} => scenario \in queued
             /\ pc \in {"choose", "done"} /\ Len(paths) < MaxScenarios => queue = <<>>
             /\ Len(paths) <= MaxScenarios
             /\ pc \in {"trace", "expand"} => Len(paths) < MaxScenarios

\* ... and only one of the three, once.
Distinct == /\ TracedOnce
            /\ \A i, j \in DOMAIN queue : queue[i] = queue[j] => i = j
            /\ pc \in {"trace", "expand"} => scenario \notin Waiting /\ scenario \notin Traced

\* The branches the for loop has handled have led to a queued scenario.
Expanded ==
  /\ \A i \in DOMAIN paths : \A n \in DOMAIN paths[i].trace.branches :
       LET b == paths[i].trace.branches[n] IN
         ~b.support /\ CanPush(paths[i].scenario, b)
           => Alternate(paths[i].scenario, b) \in queued
  /\ pc = "expand" =>
       \A n \in 1..cursor :
         LET b == trace.branches[n] IN
           ~b.support /\ CanPush(scenario, b) => Alternate(scenario, b) \in queued

FlipOfRecorded(s) == s = <<>> \/ \E i \in DOMAIN paths : FlipOf(s, i)

FlipOfCurrent(s) ==
  /\ pc = "expand"
  /\ \E n \in DOMAIN trace.branches :
       ~trace.branches[n].support /\ s = Alternate(scenario, trace.branches[n])

Derived == /\ Observed
           /\ pc \in {"trace", "expand"} => FlipOfRecorded(scenario)
           /\ \A k \in DOMAIN queue :
                FlipOfRecorded(queue[k]) \/ FlipOfCurrent(queue[k])

\* Waiting scenarios differ by at most one predicate and are sorted.
Layered ==
  /\ BreadthFirst
  /\ \A i, j \in DOMAIN queue : i <= j => Len(queue[i]) <= Len(queue[j])
  /\ \A i, j \in DOMAIN queue : Len(queue[j]) <= Len(queue[i]) + 1
  /\ pc \in {"trace", "expand"} =>
       /\ \A i \in DOMAIN paths : Len(paths[i].scenario) <= Len(scenario)
       /\ \A j \in DOMAIN queue : /\ Len(scenario) <= Len(queue[j])
                                  /\ Len(queue[j]) <= Len(scenario) + 1

Reported == pc = "done" =>
              \/ paths = <<>>
              \/ \E k \in DOMAIN paths : Chosen(k) /\ analysis = Summary(paths[k])

-----------------------------------------------------------------------------
(* Type correctness.                                                       *)

LEMMA AlternateType ==
  ASSUME NEW s \in Scenario, NEW b \in Branch
  PROVE  /\ Alternate(s, b) \in Scenario
         /\ Len(Alternate(s, b)) = Len(s) + 1
BY DEF Alternate, Flip, Scenario, Predicate, Branch

LEMMA SummaryType ==
  ASSUME TypeOK, NEW k \in DOMAIN paths
  PROVE  Summary(paths[k]) \in Analysis
<1>1. paths[k] \in Path
  BY DEF TypeOK
<1>2. /\ paths[k].trace.completed \in BOOLEAN
      /\ paths[k].trace.statements \in Nat
  BY <1>1 DEF Path, Trace
<1>3. AtMost(paths[k].trace.statements, MaxStatements) \in Nat
  BY <1>2, ConstantsAssumption DEF AtMost
<1>4. (paths[k].trace.statements > MaxStatements) \in BOOLEAN
  OBVIOUS
<1>5. Len(paths) \in Nat
  BY DEF TypeOK
<1> QED BY <1>2, <1>3, <1>4, <1>5 DEF Summary, Analysis

LEMMA TypeInit == Init => TypeOK
<1> SUFFICES ASSUME Init PROVE TypeOK
  OBVIOUS
<1>1. <<>> \in Scenario
  BY DEF Scenario
<1>2. NoTrace \in Trace
  BY DEF NoTrace, Trace
<1>3. Unavailable \in Analysis
  BY DEF Unavailable, Analysis
<1>4. Len(NoTrace.branches) = 0
  BY DEF NoTrace
<1> QED BY <1>1, <1>2, <1>3, <1>4 DEF Init, TypeOK

LEMMA TypeStep == TypeOK /\ [Next]_vars => TypeOK'
<1> SUFFICES ASSUME TypeOK, [Next]_vars PROVE TypeOK'
  OBVIOUS
<1> USE DEF TypeOK
<1>0. /\ NoTrace \in Trace
      /\ Len(NoTrace.branches) = 0
      /\ <<>> \in Scenario
  BY DEF NoTrace, Trace, Scenario
<1>1. CASE EndTrace
  <2>1. trace' \in Trace
    BY <1>1, ConstantsAssumption DEF EndTrace
  <2>2. Len(trace'.branches) \in Nat
    BY <2>1 DEF Trace
  <2> QED BY <1>1, <2>1, <2>2 DEF EndTrace
<1>2. CASE StartTrace
  BY <1>2 DEF StartTrace
<1>9. CASE BudgetSpent
  BY <1>9 DEF BudgetSpent
<1>3. CASE Exhausted
  BY <1>3 DEF Exhausted
<1>4. CASE EnqueueAlternate
  <2>1. trace.branches \in Seq(Branch)
    BY DEF Trace
  <2>2. trace.branches[cursor + 1] \in Branch
    BY <1>4, <2>1 DEF EnqueueAlternate
  <2>3. Alternate(scenario, trace.branches[cursor + 1]) \in Scenario
    BY <2>2, AlternateType
  <2> QED BY <1>4, <2>1, <2>3 DEF EnqueueAlternate
<1>5. CASE SkipBranch
  BY <1>5 DEF SkipBranch, Trace
<1>6. CASE RecordPath
  BY <1>6, <1>0 DEF RecordPath, Path
<1>7. CASE Choose
  <2>1. Unavailable \in Analysis
    BY DEF Unavailable, Analysis
  <2>2. analysis' \in Analysis
    BY <1>7, <2>1, SummaryType DEF Choose
  <2> QED BY <1>7, <2>2 DEF Choose
<1>8. CASE UNCHANGED vars
  BY <1>8 DEF vars
<1> QED BY <1>1, <1>2, <1>3, <1>4, <1>5, <1>6, <1>7, <1>8, <1>9 DEF Next, Terminated

\* Every state of the search has the declared shape.
THEOREM TypeCorrect == Spec => []TypeOK
BY TypeInit, TypeStep, PTL DEF Spec

-----------------------------------------------------------------------------
(* How each action moves a scenario from waiting to in hand to recorded.   *)

LEMMA InitState ==
  ASSUME Init
  PROVE  /\ Waiting = {<<>>}
         /\ Traced = {}
         /\ InHand = {}
         /\ DOMAIN queue = {1} /\ queue[1] = <<>>
         /\ DOMAIN paths = {}
BY DEF Init, Waiting, Traced, InHand

\* StartTrace and BudgetSpent take the head of the queue.
LEMMA Popped ==
  ASSUME TypeOK, queue # <<>>, queue' = Tail(queue), scenario' = Head(queue)
  PROVE  /\ scenario' = queue[1]
         /\ 1 \in DOMAIN queue
         /\ Len(queue') = Len(queue) - 1
         /\ DOMAIN queue' = 1..(Len(queue) - 1)
         /\ \A i \in DOMAIN queue' : i + 1 \in DOMAIN queue /\ queue'[i] = queue[i + 1]
         /\ Waiting = Waiting' \union {scenario'}
<1> USE DEF TypeOK
<1>1. /\ scenario' = queue[1]
      /\ Len(queue') = Len(queue) - 1
      /\ \A i \in 1..(Len(queue) - 1) : queue'[i] = queue[i + 1]
  OBVIOUS
<1>2. /\ DOMAIN queue' = 1..(Len(queue) - 1)
      /\ DOMAIN queue = 1..Len(queue)
      /\ Len(queue) \in Nat /\ Len(queue) >= 1
  OBVIOUS
<1>3. Waiting \subseteq Waiting' \union {scenario'}
  <2> SUFFICES ASSUME NEW i \in DOMAIN queue, i # 1
               PROVE  \E k \in DOMAIN queue' : queue'[k] = queue[i]
    BY <1>1 DEF Waiting
  <2>1. i - 1 \in DOMAIN queue' /\ queue'[i - 1] = queue[i]
    BY <1>1, <1>2
  <2> QED BY <2>1
<1>4. Waiting' \union {scenario'} \subseteq Waiting
  BY <1>1, <1>2 DEF Waiting
<1> QED BY <1>1, <1>2, <1>3, <1>4

\* RecordPath moves the scenario in hand to the recorded ones.
LEMMA Recorded ==
  ASSUME TypeOK, RecordPath
  PROVE  /\ DOMAIN paths' = 1..(Len(paths) + 1)
         /\ Len(paths') = Len(paths) + 1
         /\ \A i \in DOMAIN paths : i \in DOMAIN paths' /\ paths'[i] = paths[i]
         /\ paths'[Len(paths) + 1] = [scenario |-> scenario, trace |-> trace]
         /\ DOMAIN paths = 1..Len(paths) /\ Len(paths) \in Nat
         /\ Traced' = Traced \union {scenario}
         /\ Waiting' = Waiting
<1> USE DEF TypeOK, RecordPath
<1>1. /\ DOMAIN paths' = 1..(Len(paths) + 1)
      /\ Len(paths') = Len(paths) + 1
      /\ DOMAIN paths = 1..Len(paths) /\ Len(paths) \in Nat
      /\ \A i \in DOMAIN paths : paths'[i] = paths[i]
      /\ paths'[Len(paths) + 1] = [scenario |-> scenario, trace |-> trace]
  OBVIOUS
<1>2. Traced' = {paths'[i].scenario : i \in DOMAIN paths'}
  BY DEF Traced
<1>3. \A i \in DOMAIN paths' : i \in DOMAIN paths \/ i = Len(paths) + 1
  BY <1>1
<1>4. paths'[Len(paths) + 1].scenario = scenario /\ Len(paths) + 1 \in DOMAIN paths'
  BY <1>1
<1>5. DOMAIN paths \subseteq DOMAIN paths'
  BY <1>1
<1>6. Traced' = Traced \union {scenario}
  BY <1>1, <1>2, <1>3, <1>4, <1>5 DEF Traced
<1>7. Waiting' = Waiting
  BY DEF Waiting
<1> QED BY <1>1, <1>5, <1>6, <1>7

\* EnqueueAlternate adds one scenario at the end of the queue.
LEMMA Pushed ==
  ASSUME TypeOK, EnqueueAlternate
  PROVE  LET b == trace.branches[cursor + 1]
             new == Alternate(scenario, b)
         IN /\ b \in Branch /\ ~b.support /\ CanPush(scenario, b)
            /\ cursor + 1 \in DOMAIN trace.branches
            /\ new \notin queued
            /\ queued' = queued \union {new}
            /\ DOMAIN queue' = 1..(Len(queue) + 1)
            /\ DOMAIN queue = 1..Len(queue) /\ Len(queue) \in Nat
            /\ \A i \in DOMAIN queue : queue'[i] = queue[i]
            /\ queue'[Len(queue) + 1] = new
            /\ Waiting' = Waiting \union {new}
<1> DEFINE b == trace.branches[cursor + 1]
           new == Alternate(scenario, b)
<1>1. trace.branches \in Seq(Branch) /\ cursor + 1 \in DOMAIN trace.branches
  BY DEF TypeOK, Trace, EnqueueAlternate
<1>2. b \in Branch /\ ~b.support /\ CanPush(scenario, b) /\ new \notin queued
  BY <1>1 DEF EnqueueAlternate, Enqueued
<1>3. queue' = Append(queue, new) /\ queued' = queued \union {new}
  BY DEF EnqueueAlternate
<1>4. new \in Scenario /\ queue \in Seq(Scenario)
  BY <1>2, AlternateType DEF TypeOK
<1> HIDE DEF new, b
<1>5. /\ DOMAIN queue' = 1..(Len(queue) + 1)
      /\ DOMAIN queue = 1..Len(queue) /\ Len(queue) \in Nat
      /\ \A i \in DOMAIN queue : queue'[i] = queue[i]
      /\ queue'[Len(queue) + 1] = new
  BY <1>3, <1>4
<1>6. \A i \in DOMAIN queue' : i \in DOMAIN queue \/ i = Len(queue) + 1
  BY <1>5
<1>7. DOMAIN queue \subseteq DOMAIN queue' /\ Len(queue) + 1 \in DOMAIN queue'
  BY <1>5
<1>8. Waiting' = Waiting \union {new}
  BY <1>5, <1>6, <1>7 DEF Waiting
<1> QED BY <1>1, <1>2, <1>3, <1>5, <1>8 DEF new, b

-----------------------------------------------------------------------------
(* The invariants, each preserved by every action.                         *)

LEMMA AccountedStep ==
  TypeOK /\ Accounted /\ [Next]_vars => Accounted'
<1> SUFFICES ASSUME TypeOK, Accounted, [Next]_vars PROVE Accounted'
  OBVIOUS
<1>0. Len(paths) \in Nat /\ MaxScenarios \in Nat
  BY ConstantsAssumption DEF TypeOK
<1>1. CASE StartTrace
  <2>1. Waiting = Waiting' \union {scenario'}
    BY <1>1, Popped DEF StartTrace
  <2>2. Traced' = Traced /\ queued' = queued /\ InHand' = {scenario'} /\ InHand = {}
    BY <1>1 DEF StartTrace, Traced, InHand
  <2> QED BY <1>1, <2>1, <2>2 DEF Accounted, StartTrace
<1>2. CASE BudgetSpent
  <2>1. Waiting = Waiting' \union {scenario'}
    BY <1>2, Popped DEF BudgetSpent
  <2>2. /\ Traced' = Traced /\ queued' = queued /\ paths' = paths
        /\ InHand' = {scenario'} /\ InHand = {}
    BY <1>2 DEF BudgetSpent, Traced, InHand
  <2> QED BY <1>0, <1>2, <2>1, <2>2 DEF Accounted, BudgetSpent
<1>3. CASE Exhausted
  <2>1. /\ Waiting' = Waiting /\ Traced' = Traced /\ InHand = {}
        /\ queued' = queued /\ queue' = queue /\ paths' = paths
    BY <1>3 DEF Exhausted, Waiting, Traced, InHand
  <2> QED BY <1>3, <2>1 DEF Accounted, Exhausted
<1>4. CASE EnqueueAlternate
  <2>1. \E new : /\ queued' = queued \union {new}
                 /\ Waiting' = Waiting \union {new}
    BY <1>4, Pushed
  <2>2. /\ Traced' = Traced /\ InHand' = InHand /\ paths' = paths
        /\ pc' = pc /\ scenario' = scenario
    BY <1>4 DEF EnqueueAlternate, Traced, InHand
  <2> QED BY <1>4, <2>1, <2>2 DEF Accounted, EnqueueAlternate
<1>5. CASE SkipBranch
  BY <1>5 DEF SkipBranch, Accounted, Waiting, Traced, InHand
<1>6. CASE RecordPath
  <2>1. /\ Traced' = Traced \union {scenario} /\ Waiting' = Waiting
        /\ Len(paths') = Len(paths) + 1
    BY <1>6, Recorded
  <2>2. InHand = {scenario} /\ InHand' = {} /\ queued' = queued
    BY <1>6 DEF RecordPath, InHand
  <2> QED BY <1>0, <1>6, <2>1, <2>2 DEF Accounted, RecordPath
<1>7. CASE EndTrace \/ Choose
  BY <1>7 DEF EndTrace, Choose, Accounted, Waiting, Traced, InHand
<1>8. CASE UNCHANGED vars
  BY <1>8 DEF vars, Accounted, Waiting, Traced, InHand
<1> QED BY <1>1, <1>2, <1>3, <1>4, <1>5, <1>6, <1>7, <1>8 DEF Next, Terminated

LEMMA DistinctStep ==
  TypeOK /\ Accounted /\ Distinct /\ [Next]_vars => Distinct'
<1> SUFFICES ASSUME TypeOK, Accounted, Distinct, [Next]_vars PROVE Distinct'
  OBVIOUS
<1>1. CASE StartTrace \/ BudgetSpent
  <2>1. /\ scenario' = queue[1] /\ 1 \in DOMAIN queue
        /\ DOMAIN queue' = 1..(Len(queue) - 1) /\ Len(queue) \in Nat
        /\ \A i \in DOMAIN queue' : i + 1 \in DOMAIN queue /\ queue'[i] = queue[i + 1]
    BY <1>1, Popped DEF StartTrace, BudgetSpent, TypeOK
  <2>2. paths' = paths /\ Traced' = Traced
    BY <1>1 DEF StartTrace, BudgetSpent, Traced
  <2>3. \A i, j \in DOMAIN queue' : queue'[i] = queue'[j] => i = j
    BY <2>1 DEF Distinct
  <2>4. \A i \in DOMAIN queue' : queue'[i] # scenario'
    <3> SUFFICES ASSUME NEW i \in DOMAIN queue' PROVE queue'[i] # scenario'
      OBVIOUS
    <3>1. i \in Nat /\ i + 1 # 1
      BY <2>1
    <3> QED BY <2>1, <3>1 DEF Distinct
  <2>5. \A i \in DOMAIN queue' : queue'[i] \notin Traced'
    BY <2>1, <2>2 DEF Distinct, TracedOnce
  <2>6. scenario' \notin Traced'
    BY <2>1, <2>2 DEF Distinct, TracedOnce
  <2> QED BY <2>2, <2>3, <2>4, <2>5, <2>6 DEF Distinct, TracedOnce, Waiting
<1>2. CASE Exhausted \/ EndTrace \/ SkipBranch \/ Choose \/ UNCHANGED vars
  <2>1. /\ queue' = queue /\ paths' = paths /\ scenario' = scenario
        /\ pc' \in {"trace", "expand"} => pc \in {"trace", "expand"}
    BY <1>2 DEF Exhausted, EndTrace, SkipBranch, Choose, vars
  <2>2. Traced' = Traced /\ Waiting' = Waiting
    BY <2>1 DEF Traced, Waiting
  <2> QED BY <2>1, <2>2 DEF Distinct, TracedOnce
<1>3. CASE EnqueueAlternate
  <2> DEFINE new == Alternate(scenario, trace.branches[cursor + 1])
  <2>1. /\ new \notin queued
        /\ DOMAIN queue' = 1..(Len(queue) + 1)
        /\ DOMAIN queue = 1..Len(queue) /\ Len(queue) \in Nat
        /\ \A i \in DOMAIN queue : queue'[i] = queue[i]
        /\ queue'[Len(queue) + 1] = new
        /\ Waiting' = Waiting \union {new}
    BY <1>3, Pushed
  <2> HIDE DEF new
  <2>2. paths' = paths /\ Traced' = Traced /\ scenario' = scenario /\ pc' = pc /\ pc = "expand"
    BY <1>3 DEF EnqueueAlternate, Traced
  <2>3. new \notin Waiting /\ new \notin Traced /\ new # scenario
    BY <2>1, <2>2 DEF Accounted
  <2>4. \A i \in DOMAIN queue : queue[i] # new
    BY <2>3 DEF Waiting
  <2>5. \A i \in DOMAIN queue' : i \in DOMAIN queue \/ i = Len(queue) + 1
    BY <2>1
  <2>6. \A i, j \in DOMAIN queue' : queue'[i] = queue'[j] => i = j
    BY <2>1, <2>4, <2>5 DEF Distinct
  <2>7. \A i \in DOMAIN queue' : queue'[i] \notin Traced'
    BY <2>1, <2>2, <2>3, <2>5 DEF Distinct, TracedOnce
  <2>8. scenario' \notin Waiting' /\ scenario' \notin Traced'
    BY <2>1, <2>2, <2>3 DEF Distinct
  <2> QED BY <2>2, <2>6, <2>7, <2>8 DEF Distinct, TracedOnce
<1>4. CASE RecordPath
  <2>1. /\ DOMAIN paths' = 1..(Len(paths) + 1)
        /\ \A i \in DOMAIN paths : i \in DOMAIN paths' /\ paths'[i] = paths[i]
        /\ paths'[Len(paths) + 1] = [scenario |-> scenario, trace |-> trace]
        /\ DOMAIN paths = 1..Len(paths) /\ Len(paths) \in Nat
        /\ Traced' = Traced \union {scenario}
    BY <1>4, Recorded
  <2>2. pc = "expand" /\ pc' = "pop" /\ queue' = queue
    BY <1>4 DEF RecordPath
  <2>3. \A i \in DOMAIN paths' : i \in DOMAIN paths \/ i = Len(paths) + 1
    BY <2>1
  <2>4. \A i \in DOMAIN paths : paths[i].scenario # scenario
    BY <2>2 DEF Distinct, Traced
  <2>5. \A i, j \in DOMAIN paths' : paths'[i].scenario = paths'[j].scenario => i = j
    BY <2>1, <2>3, <2>4 DEF Distinct, TracedOnce
  <2>6. \A i \in DOMAIN queue' : queue'[i] \notin Traced'
    BY <2>1, <2>2 DEF Distinct, TracedOnce, Waiting
  <2> QED BY <2>2, <2>5, <2>6 DEF Distinct, TracedOnce
<1> QED BY <1>1, <1>2, <1>3, <1>4 DEF Next, Terminated

LEMMA ShapeStep ==
  TypeOK /\ ScenarioShape /\ Accounted /\ [Next]_vars => ScenarioShape'
<1> SUFFICES ASSUME TypeOK, ScenarioShape, Accounted, [Next]_vars
             PROVE  ScenarioShape'
  OBVIOUS
<1>1. CASE EnqueueAlternate
  <2> DEFINE b == trace.branches[cursor + 1]
             new == Alternate(scenario, b)
  <2>1. b \in Branch /\ CanPush(scenario, b) /\ queued' = queued \union {new}
    BY <1>1, Pushed
  <2>2. scenario \in queued /\ scenario \in Scenario
    BY <1>1 DEF EnqueueAlternate, Accounted, TypeOK
  <2>3. /\ DOMAIN new = 1..(Len(scenario) + 1) /\ Len(new) = Len(scenario) + 1
        /\ DOMAIN scenario = 1..Len(scenario) /\ Len(scenario) \in Nat
        /\ \A i \in DOMAIN scenario : new[i] = scenario[i]
        /\ new[Len(scenario) + 1] = Flip(b)
    BY <2>2 DEF Alternate, Scenario
  <2>4. \A i \in DOMAIN scenario : scenario[i].rva # Flip(b).rva
    BY <2>1 DEF CanPush, Flip
  <2>5. Len(new) <= MaxPredicates
    BY <2>1, <2>3, ConstantsAssumption DEF CanPush
  <2> HIDE DEF new
  <2>6. \A i, j \in DOMAIN new : new[i].rva = new[j].rva => i = j
    <3>1. \A i \in DOMAIN new : i \in DOMAIN scenario \/ i = Len(scenario) + 1
      BY <2>3
    <3> QED BY <2>2, <2>3, <2>4, <3>1 DEF ScenarioShape
  <2> QED BY <2>1, <2>5, <2>6 DEF ScenarioShape
<1>2. CASE ~EnqueueAlternate
  <2>1. queued' = queued
    BY <1>2 DEF Next, StartTrace, BudgetSpent, Exhausted, EndTrace, SkipBranch, RecordPath,
                Choose, Terminated, vars
  <2> QED BY <2>1 DEF ScenarioShape
<1> QED BY <1>1, <1>2

LEMMA ExpandedStep ==
  TypeOK /\ Expanded /\ [Next]_vars => Expanded'
<1> SUFFICES ASSUME TypeOK, Expanded, [Next]_vars PROVE Expanded'
  OBVIOUS
<1>0. \A s, b : CanPush(s, b)' = CanPush(s, b) /\ Alternate(s, b)' = Alternate(s, b)
  BY DEF CanPush, Alternate, Flip
<1>1. CASE EndTrace
  <2>1. 1..cursor' = {}
    BY <1>1 DEF EndTrace
  <2>2. queued' = queued /\ paths' = paths
    BY <1>1 DEF EndTrace
  <2> QED BY <2>1, <2>2 DEF Expanded, CanPush, Alternate, Flip
<1>2. CASE StartTrace \/ BudgetSpent \/ Exhausted \/ Choose
  BY <1>2 DEF StartTrace, BudgetSpent, Exhausted, Choose, Expanded, CanPush, Alternate, Flip
<1>3. CASE EnqueueAlternate
  <2>1. queued \subseteq queued' /\ Alternate(scenario, trace.branches[cursor + 1]) \in queued'
    BY <1>3, Pushed
  <2>2. /\ paths' = paths /\ scenario' = scenario /\ trace' = trace
        /\ pc = "expand" /\ cursor' = cursor + 1
    BY <1>3 DEF EnqueueAlternate
  <2>3. \A n \in 1..cursor' : n \in 1..cursor \/ n = cursor + 1
    BY <2>2 DEF TypeOK, Trace
  <2> QED BY <2>1, <2>2, <2>3 DEF Expanded, CanPush, Alternate, Flip
<1>4. CASE SkipBranch
  <2>1. /\ paths' = paths /\ scenario' = scenario /\ trace' = trace
        /\ pc = "expand" /\ cursor' = cursor + 1 /\ queued' = queued
    BY <1>4 DEF SkipBranch
  <2>2. \A n \in 1..cursor' : n \in 1..cursor \/ n = cursor + 1
    BY <2>1 DEF TypeOK, Trace
  <2>3. ~Enqueued(scenario, trace.branches[cursor + 1])
    BY <1>4 DEF SkipBranch
  <2> QED BY <2>1, <2>2, <2>3 DEF Expanded, Enqueued, CanPush, Alternate, Flip
<1>5. CASE RecordPath
  <2>1. /\ DOMAIN paths' = 1..(Len(paths) + 1)
        /\ \A i \in DOMAIN paths : paths'[i] = paths[i]
        /\ paths'[Len(paths) + 1] = [scenario |-> scenario, trace |-> trace]
        /\ DOMAIN paths = 1..Len(paths) /\ Len(paths) \in Nat
    BY <1>5, Recorded
  <2>2. /\ pc = "expand" /\ pc' = "pop" /\ queued' = queued
        /\ cursor = Len(trace.branches)
    BY <1>5 DEF RecordPath
  <2>3. DOMAIN trace.branches = 1..cursor
    BY <2>2 DEF TypeOK, Trace
  <2> SUFFICES ASSUME NEW i \in DOMAIN paths', NEW n \in DOMAIN paths'[i].trace.branches,
                      ~paths'[i].trace.branches[n].support,
                      CanPush(paths'[i].scenario, paths'[i].trace.branches[n])
               PROVE  Alternate(paths'[i].scenario, paths'[i].trace.branches[n]) \in queued
    BY <2>2 DEF Expanded, CanPush, Alternate, Flip
  <2>4. CASE i \in DOMAIN paths
    BY <2>1, <2>4 DEF Expanded
  <2>5. CASE i = Len(paths) + 1
    BY <2>1, <2>2, <2>3, <2>5 DEF Expanded
  <2> QED BY <2>1, <2>4, <2>5
<1>6. CASE UNCHANGED vars
  BY <1>6 DEF vars, Expanded, CanPush, Alternate, Flip
<1> QED BY <1>1, <1>2, <1>3, <1>4, <1>5, <1>6 DEF Next, Terminated

LEMMA RecordedUnchanged ==
  ASSUME paths' = paths
  PROVE  /\ Observed' = Observed
         /\ \A s : FlipOfRecorded(s)' = FlipOfRecorded(s)
BY DEF Observed, FlipOfRecorded, FlipOf, Alternate, Flip

LEMMA CurrentUnchanged ==
  ASSUME pc' = "expand" => pc = "expand", pc = "expand" => pc' = "expand",
         scenario' = scenario, trace' = trace
  PROVE  \A s : FlipOfCurrent(s)' = FlipOfCurrent(s)
BY DEF FlipOfCurrent, Alternate, Flip

LEMMA DerivedStep ==
  TypeOK /\ Derived /\ [Next]_vars => Derived'
<1> SUFFICES ASSUME TypeOK, Derived, [Next]_vars PROVE Derived'
  OBVIOUS
<1>1. CASE StartTrace \/ BudgetSpent
  <2>1. /\ scenario' = queue[1] /\ 1 \in DOMAIN queue
        /\ \A i \in DOMAIN queue' : i + 1 \in DOMAIN queue /\ queue'[i] = queue[i + 1]
    BY <1>1, Popped DEF StartTrace, BudgetSpent
  <2>2. paths' = paths /\ pc = "pop"
    BY <1>1 DEF StartTrace, BudgetSpent
  <2>3. \A k \in DOMAIN queue : FlipOfRecorded(queue[k])
    BY <2>2 DEF Derived, FlipOfCurrent
  <2>4. (\A k \in DOMAIN queue : FlipOfRecorded(queue[k]))'
    BY <2>1, <2>2, <2>3, RecordedUnchanged
  <2>5. FlipOfRecorded(scenario)' /\ Observed'
    BY <2>1, <2>2, <2>3, RecordedUnchanged DEF Derived
  <2> QED BY <2>4, <2>5 DEF Derived
<1>0. CASE EndTrace
  <2>1. /\ paths' = paths /\ queue' = queue /\ scenario' = scenario /\ pc = "trace"
    BY <1>0 DEF EndTrace
  <2>2. \A s : ~FlipOfCurrent(s)
    BY <2>1 DEF FlipOfCurrent
  <2> QED BY <2>1, <2>2, RecordedUnchanged DEF Derived
<1>2. CASE Exhausted \/ Choose \/ UNCHANGED vars \/ SkipBranch
  <2>1. /\ paths' = paths /\ queue' = queue /\ scenario' = scenario /\ trace' = trace
        /\ pc' = "expand" <=> pc = "expand"
        /\ pc' = "trace" <=> pc = "trace"
    BY <1>2 DEF Exhausted, Choose, SkipBranch, vars
  <2> QED BY <2>1, RecordedUnchanged, CurrentUnchanged DEF Derived
<1>3. CASE EnqueueAlternate
  <2> DEFINE b == trace.branches[cursor + 1]
             new == Alternate(scenario, b)
  <2>1. /\ ~b.support
        /\ cursor + 1 \in DOMAIN trace.branches
        /\ DOMAIN queue' = 1..(Len(queue) + 1)
        /\ DOMAIN queue = 1..Len(queue) /\ Len(queue) \in Nat
        /\ \A i \in DOMAIN queue : queue'[i] = queue[i]
        /\ queue'[Len(queue) + 1] = new
    BY <1>3, Pushed
  <2>2. /\ paths' = paths /\ scenario' = scenario /\ trace' = trace
        /\ pc = "expand" /\ pc' = pc
    BY <1>3 DEF EnqueueAlternate
  <2>3. FlipOfCurrent(new)
    BY <2>1, <2>2 DEF FlipOfCurrent
  <2> HIDE DEF new, b
  <2>4. \A k \in DOMAIN queue' : k \in DOMAIN queue \/ k = Len(queue) + 1
    BY <2>1
  <2>5. (\A k \in DOMAIN queue : FlipOfRecorded(queue[k]) \/ FlipOfCurrent(queue[k]))'
    BY <2>1, <2>2, <2>3, <2>4, RecordedUnchanged, CurrentUnchanged DEF Derived
  <2> QED BY <2>2, <2>5, RecordedUnchanged DEF Derived
<1>4. CASE RecordPath
  <2>1. PICK last \in Nat :
          /\ DOMAIN paths' = 1..last
          /\ \A i \in DOMAIN paths : i \in DOMAIN paths' /\ paths'[i] = paths[i]
          /\ paths'[last] = [scenario |-> scenario, trace |-> trace]
          /\ DOMAIN paths = 1..(last - 1) /\ last >= 1
    <3>1. Len(paths) \in Nat /\ Len(paths) + 1 - 1 = Len(paths)
      BY DEF TypeOK
    <3> QED BY <1>4, <3>1, Recorded
  <2>2. pc = "expand" /\ pc' = "pop" /\ queue' = queue
    BY <1>4 DEF RecordPath
  <2>3. \A s : \A i \in DOMAIN paths : FlipOf(s, i) => FlipOf(s, i)'
    BY <2>1 DEF FlipOf, Alternate, Flip
  <2>4. \A s : FlipOfCurrent(s) => FlipOf(s, last)'
    BY <2>1 DEF FlipOfCurrent, FlipOf, Alternate, Flip
  <2>5. last \in DOMAIN paths' /\ DOMAIN paths \subseteq DOMAIN paths'
    BY <2>1
  <2>6. \A s : FlipOfRecorded(s) \/ FlipOfCurrent(s) => FlipOfRecorded(s)'
    BY <2>3, <2>4, <2>5 DEF FlipOfRecorded
  <2>7. \A k \in DOMAIN queue : FlipOfRecorded(queue[k]) \/ FlipOfCurrent(queue[k])
    BY DEF Derived
  <2>8. (\A k \in DOMAIN queue : FlipOfRecorded(queue[k]))'
    BY <2>2, <2>6, <2>7
  <2>9. \A s, j : /\ j \in DOMAIN paths'
                 /\ s = paths'[j].scenario
                 => s = <<>> \/ \E i \in 1..(j - 1) : FlipOf(s, i)'
    <3> SUFFICES ASSUME NEW j \in DOMAIN paths', NEW s, s = paths'[j].scenario, s # <<>>
                 PROVE  \E i \in 1..(j - 1) : FlipOf(s, i)'
      OBVIOUS
    <3>1. CASE j \in DOMAIN paths
      <4>1. s = paths[j].scenario
        BY <2>1, <3>1
      <4>2. PICK i \in 1..(j - 1) : FlipOf(s, i)
        BY <3>1, <4>1 DEF Derived, Observed
      <4>3. i \in DOMAIN paths
        BY <2>1, <3>1
      <4> QED BY <2>3, <4>2, <4>3
    <3>2. CASE j = last
      <4>1. s = scenario
        BY <2>1, <3>2
      <4>2. PICK i \in DOMAIN paths : FlipOf(s, i)
        BY <2>2, <4>1 DEF Derived, FlipOfRecorded
      <4>3. i \in 1..(j - 1)
        BY <2>1, <3>2
      <4> QED BY <2>3, <4>2, <4>3
    <3> QED BY <2>1, <3>1, <3>2
  <2>10. Observed'
    BY <2>9 DEF Observed
  <2> QED BY <2>2, <2>8, <2>10 DEF Derived
<1> QED BY <1>0, <1>1, <1>2, <1>3, <1>4 DEF Next, Terminated

LEMMA LayeredStep ==
  TypeOK /\ Layered /\ [Next]_vars => Layered'
<1> SUFFICES ASSUME TypeOK, Layered, [Next]_vars PROVE Layered'
  OBVIOUS
<1>0. /\ \A i \in DOMAIN queue : Len(queue[i]) \in Nat
      /\ \A i \in DOMAIN paths : Len(paths[i].scenario) \in Nat
      /\ Len(scenario) \in Nat
      /\ DOMAIN queue = 1..Len(queue) /\ Len(queue) \in Nat
      /\ DOMAIN paths = 1..Len(paths) /\ Len(paths) \in Nat
  BY DEF TypeOK, Scenario, Path
<1>1. CASE StartTrace \/ BudgetSpent
  <2>1. /\ scenario' = queue[1] /\ 1 \in DOMAIN queue
        /\ DOMAIN queue' = 1..(Len(queue) - 1)
        /\ \A i \in DOMAIN queue' : i + 1 \in DOMAIN queue /\ queue'[i] = queue[i + 1]
    BY <1>1, Popped DEF StartTrace, BudgetSpent
  <2>2. paths' = paths
    BY <1>1 DEF StartTrace, BudgetSpent
  <2>3. BreadthFirst'
    BY <2>1, <2>2 DEF Layered, BreadthFirst
  <2>4. \A i, j \in DOMAIN queue' : i <= j => Len(queue'[i]) <= Len(queue'[j])
    <3> SUFFICES ASSUME NEW i \in DOMAIN queue', NEW j \in DOMAIN queue', i <= j
                 PROVE  Len(queue'[i]) <= Len(queue'[j])
      OBVIOUS
    <3>1. i + 1 \in DOMAIN queue /\ j + 1 \in DOMAIN queue /\ i + 1 <= j + 1
      BY <2>1, <1>0
    <3> QED BY <2>1, <3>1 DEF Layered
  <2>5. \A i, j \in DOMAIN queue' : Len(queue'[j]) <= Len(queue'[i]) + 1
    BY <2>1 DEF Layered
  <2>6. \A i \in DOMAIN paths' : Len(paths'[i].scenario) <= Len(scenario')
    BY <2>1, <2>2 DEF Layered, BreadthFirst
  <2>7. \A j \in DOMAIN queue' : /\ Len(scenario') <= Len(queue'[j])
                                /\ Len(queue'[j]) <= Len(scenario') + 1
    <3> SUFFICES ASSUME NEW j \in DOMAIN queue'
                 PROVE  /\ Len(queue[1]) <= Len(queue[j + 1])
                        /\ Len(queue[j + 1]) <= Len(queue[1]) + 1
      BY <2>1
    <3>1. j + 1 \in DOMAIN queue /\ 1 <= j + 1
      BY <2>1, <1>0
    <3> QED BY <2>1, <3>1 DEF Layered
  <2> QED BY <2>3, <2>4, <2>5, <2>6, <2>7 DEF Layered
<1>2. CASE Exhausted \/ EndTrace \/ Choose \/ UNCHANGED vars \/ SkipBranch
  <2>1. /\ paths' = paths /\ queue' = queue /\ scenario' = scenario
        /\ pc' \in {"trace", "expand"} <=> pc \in {"trace", "expand"}
    BY <1>2 DEF Exhausted, EndTrace, Choose, SkipBranch, vars
  <2> QED BY <2>1 DEF Layered, BreadthFirst
<1>3. CASE EnqueueAlternate
  <2> DEFINE new == Alternate(scenario, trace.branches[cursor + 1])
  <2>1. /\ trace.branches[cursor + 1] \in Branch
        /\ DOMAIN queue' = 1..(Len(queue) + 1)
        /\ \A i \in DOMAIN queue : queue'[i] = queue[i]
        /\ queue'[Len(queue) + 1] = new
    BY <1>3, Pushed
  <2>2. /\ paths' = paths /\ scenario' = scenario /\ pc = "expand" /\ pc' = pc
    BY <1>3 DEF EnqueueAlternate
  <2>3. Len(new) = Len(scenario) + 1
    BY <2>1, AlternateType DEF TypeOK
  <2> HIDE DEF new
  <2>4. \A i \in DOMAIN queue' : i \in DOMAIN queue \/ i = Len(queue) + 1
    BY <2>1, <1>0
  <2>5. \A j \in DOMAIN queue' : /\ Len(scenario) <= Len(queue'[j])
                                /\ Len(queue'[j]) <= Len(scenario) + 1
    BY <1>0, <2>1, <2>2, <2>3, <2>4 DEF Layered
  <2>6. \A i, j \in DOMAIN queue' : i <= j => Len(queue'[i]) <= Len(queue'[j])
    <3> SUFFICES ASSUME NEW i \in DOMAIN queue', NEW j \in DOMAIN queue', i <= j
                 PROVE  Len(queue'[i]) <= Len(queue'[j])
      OBVIOUS
    <3>1. CASE j \in DOMAIN queue
      <4>1. i \in DOMAIN queue
        BY <2>4, <3>1, <1>0
      <4> QED BY <2>1, <3>1, <4>1 DEF Layered
    <3>2. CASE j = Len(queue) + 1
      BY <2>1, <2>3, <2>5, <3>2
    <3> QED BY <2>4, <3>1, <3>2
  <2>7. \A i \in DOMAIN queue' : Len(queue'[i]) \in Nat
    BY <1>0, <2>1, <2>3, <2>4
  <2>8. \A i, j \in DOMAIN queue' : Len(queue'[j]) <= Len(queue'[i]) + 1
    BY <1>0, <2>5, <2>7
  <2>9. \A i \in DOMAIN paths, j \in DOMAIN queue' :
          Len(paths[i].scenario) <= Len(queue'[j])
    BY <1>0, <2>2, <2>5, <2>7 DEF Layered
  <2> QED BY <2>2, <2>5, <2>6, <2>8, <2>9 DEF Layered, BreadthFirst
<1>4. CASE RecordPath
  <2>1. /\ DOMAIN paths' = 1..(Len(paths) + 1)
        /\ \A i \in DOMAIN paths : paths'[i] = paths[i]
        /\ paths'[Len(paths) + 1].scenario = scenario
    BY <1>4, Recorded
  <2>2. pc = "expand" /\ pc' = "pop" /\ queue' = queue
    BY <1>4 DEF RecordPath
  <2>3. \A i \in DOMAIN paths' : i \in DOMAIN paths \/ i = Len(paths) + 1
    BY <2>1, <1>0
  <2>4. \A i, j \in DOMAIN paths' :
          i <= j => Len(paths'[i].scenario) <= Len(paths'[j].scenario)
    <3> SUFFICES ASSUME NEW i \in DOMAIN paths', NEW j \in DOMAIN paths', i <= j
                 PROVE  Len(paths'[i].scenario) <= Len(paths'[j].scenario)
      OBVIOUS
    <3>1. CASE j \in DOMAIN paths
      <4>1. i \in DOMAIN paths
        BY <1>0, <2>3, <3>1
      <4> QED BY <2>1, <3>1, <4>1 DEF Layered, BreadthFirst
    <3>2. CASE j = Len(paths) + 1
      BY <1>0, <2>1, <2>2, <2>3, <3>2 DEF Layered
    <3> QED BY <2>3, <3>1, <3>2
  <2>5. \A i \in DOMAIN paths', j \in DOMAIN queue :
          Len(paths'[i].scenario) <= Len(queue[j])
    BY <2>1, <2>2, <2>3 DEF Layered, BreadthFirst
  <2> QED BY <2>2, <2>4, <2>5 DEF Layered, BreadthFirst
<1> QED BY <1>1, <1>2, <1>3, <1>4 DEF Next, Terminated

LEMMA ReportedStep ==
  TypeOK /\ Reported /\ [Next]_vars => Reported'
<1> SUFFICES ASSUME TypeOK, Reported, [Next]_vars PROVE Reported'
  OBVIOUS
<1> USE DEF Reported, Chosen, IsBest, Eligible, Summary, AtMost
<1>1. CASE Choose
  BY <1>1 DEF Choose
<1>2. CASE \/ StartTrace \/ BudgetSpent \/ Exhausted \/ EndTrace
           \/ EnqueueAlternate \/ SkipBranch \/ RecordPath
  <2>1. pc' # "done"
    BY <1>2 DEF StartTrace, BudgetSpent, Exhausted, EndTrace, EnqueueAlternate, SkipBranch, RecordPath
  <2> QED BY <2>1
<1>3. CASE UNCHANGED vars
  BY <1>3 DEF vars
<1> QED BY <1>1, <1>2, <1>3 DEF Next, Terminated

-----------------------------------------------------------------------------
(* The inductive invariant and what follows from it.                       *)

IInv == /\ TypeOK
        /\ Accounted
        /\ Distinct
        /\ ScenarioShape
        /\ Expanded
        /\ Derived
        /\ Layered
        /\ Reported

LEMMA InvInit == Init => IInv
<1> SUFFICES ASSUME Init PROVE IInv
  OBVIOUS
<1>1. TypeOK
  BY TypeInit
<1>2. /\ Waiting = {<<>>} /\ Traced = {} /\ InHand = {}
      /\ DOMAIN queue = {1} /\ queue[1] = <<>> /\ DOMAIN paths = {}
      /\ pc = "pop" /\ queued = {<<>>} /\ Len(paths) = 0
  BY InitState DEF Init
<1>3. Accounted
  BY <1>2, ConstantsAssumption DEF Accounted
<1>4. Distinct
  BY <1>2 DEF Distinct, TracedOnce
<1>5. ScenarioShape
  BY <1>2, ConstantsAssumption DEF ScenarioShape
<1>6. Expanded
  BY <1>2 DEF Expanded
<1>7. Derived
  BY <1>2 DEF Derived, Observed, FlipOfRecorded
<1>8. Layered
  BY <1>2 DEF Layered, BreadthFirst
<1>9. Reported
  BY <1>2 DEF Reported
<1> QED BY <1>1, <1>3, <1>4, <1>5, <1>6, <1>7, <1>8, <1>9 DEF IInv

LEMMA InvStep == IInv /\ [Next]_vars => IInv'
BY TypeStep, AccountedStep, DistinctStep, ShapeStep, ExpandedStep, DerivedStep,
   LayeredStep, ReportedStep DEF IInv

LEMMA Invariant == Spec => []IInv
BY InvInit, InvStep, PTL DEF Spec

\* Scenarios stay within MaxPredicates and never force one address twice.
THEOREM WellFormedScenarios == Spec => []ScenarioShape
<1>1. IInv => ScenarioShape
  BY DEF IInv
<1> QED BY <1>1, Invariant, PTL

\* With budget left at the end, both sides of every observed branch were traced.
THEOREM CompleteSearch == Spec => []SearchComplete
<1>1. IInv => SearchComplete
  <2> SUFFICES ASSUME IInv, pc = "done", Len(paths) < MaxScenarios
               PROVE  queued \subseteq Traced
    BY DEF SearchComplete, IInv, Expanded
  <2>1. queue = <<>> /\ Waiting = {}
    BY DEF IInv, Accounted, Waiting
  <2>2. InHand = {}
    BY ConstantsAssumption DEF InHand, IInv, TypeOK
  <2> QED BY <2>1, <2>2 DEF IInv, Accounted
<1> QED BY <1>1, Invariant, PTL

\* Only branches seen taken the other way are forced.
THEOREM OnlyObservedForced == Spec => []Observed
<1>1. IInv => Observed
  BY DEF IInv, Derived
<1> QED BY <1>1, Invariant, PTL

\* Fewer forced outcomes come first.
THEOREM ShallowFirst == Spec => []BreadthFirst
<1>1. IInv => BreadthFirst
  BY DEF IInv, Layered
<1> QED BY <1>1, Invariant, PTL

\* The budget is never exceeded, and no scenario is lost before it is used up.
THEOREM BudgetUsed == Spec => []BudgetExact
<1>1. IInv => BudgetExact
  <2> SUFFICES ASSUME IInv, pc = "done", queued # Traced
               PROVE  Len(paths) = MaxScenarios
    BY DEF BudgetExact, IInv, Accounted
  <2>1. ~(Len(paths) < MaxScenarios)
    <3> SUFFICES ASSUME Len(paths) < MaxScenarios PROVE FALSE
      OBVIOUS
    <3>1. Waiting = {}
      BY DEF IInv, Accounted, Waiting
    <3>2. InHand = {}
      BY ConstantsAssumption DEF InHand, IInv, TypeOK
    <3> QED BY <3>1, <3>2 DEF IInv, Accounted
  <2>2. Len(paths) \in Nat /\ Len(paths) <= MaxScenarios
    BY DEF IInv, TypeOK, Accounted
  <2> QED BY <2>1, <2>2, ConstantsAssumption
<1> QED BY <1>1, Invariant, PTL

\* The analysis reports a longest completed body whenever one was recovered.
THEOREM BestBodyReported == Spec => []NoBodyLost
<1>1. IInv => NoBodyLost
  <2> SUFFICES ASSUME IInv, pc = "done", NEW i \in DOMAIN paths, Eligible(i)
               PROVE  /\ analysis.completed
                      /\ analysis.body >= AtMost(paths[i].trace.statements, MaxStatements)
                      /\ \E k \in DOMAIN paths :
                           /\ Eligible(k)
                           /\ analysis.body = AtMost(paths[k].trace.statements, MaxStatements)
    BY DEF NoBodyLost
  <2>1. PICK k \in DOMAIN paths : IsBest(k) /\ analysis = Summary(paths[k])
    BY DEF IInv, Reported, Chosen
  <2>2. /\ paths[i].trace.statements \in Nat /\ paths[k].trace.statements \in Nat
        /\ paths[i].trace.statements <= paths[k].trace.statements
    <3>1. paths[i] \in Path /\ paths[k] \in Path
      BY DEF IInv, TypeOK
    <3>2. paths[i].trace.statements \in Nat /\ paths[k].trace.statements \in Nat
      BY <3>1 DEF Path, Trace
    <3> QED BY <2>1, <3>2 DEF IsBest
  <2>3. AtMost(paths[k].trace.statements, MaxStatements)
          >= AtMost(paths[i].trace.statements, MaxStatements)
    BY <2>2, ConstantsAssumption DEF AtMost
  <2>4. Eligible(k) /\ paths[k].trace.completed
    BY <2>1 DEF IsBest, Eligible
  <2> QED BY <2>1, <2>3, <2>4 DEF Summary
<1> QED BY <1>1, Invariant, PTL

-----------------------------------------------------------------------------
(* The end of the search.                                                   *)

\* What is left of a search, the weightiest first: traces in the budget, the way
\* through one turn of the while loop, branches for the for loop.
Unspent   == MaxScenarios - Len(paths)
Stage     == CASE pc = "pop" -> 4 [] pc = "trace" -> 3 [] pc = "expand" -> 2
               [] pc = "choose" -> 1 [] pc = "done" -> 0
Unhandled == Len(trace.branches) - cursor

Bounded == Unspent \in Nat /\ Stage \in Nat /\ Unhandled \in Nat

Nearer == /\ Bounded /\ Bounded'
          /\ \/ Unspent' < Unspent
             \/ Unspent' = Unspent /\ Stage' < Stage
             \/ Unspent' = Unspent /\ Stage' = Stage /\ Unhandled' < Unhandled

LEMMA IsBounded == TypeOK /\ Accounted => Bounded
<1> SUFFICES ASSUME TypeOK, Accounted PROVE Bounded
  OBVIOUS
<1>1. Len(paths) \in Nat /\ Len(paths) <= MaxScenarios /\ MaxScenarios \in Nat
  BY ConstantsAssumption DEF TypeOK, Accounted
<1>2. Unspent \in Nat
  BY <1>1 DEF Unspent
<1>3. trace.branches \in Seq(Branch) /\ cursor \in 0..Len(trace.branches)
  BY DEF TypeOK, Trace
<1>4. Unhandled \in Nat
  BY <1>3 DEF Unhandled
<1>5. Stage \in Nat
  BY DEF TypeOK, Stage
<1> QED BY <1>2, <1>4, <1>5 DEF Bounded

LEMMA NearerStep ==
  TypeOK /\ Bounded /\ Bounded' /\ [Next]_vars => [Nearer]_vars
<1> SUFFICES ASSUME TypeOK, Bounded, Bounded', Next, vars' # vars
             PROVE  Nearer
  OBVIOUS
<1>1. Bounded /\ Bounded'
  OBVIOUS
<1>2. CASE \/ StartTrace \/ BudgetSpent \/ Exhausted \/ EndTrace \/ Choose
  <2>1. UNCHANGED paths
    BY <1>2 DEF StartTrace, BudgetSpent, Exhausted, EndTrace, Choose
  <2>2. \/ pc = "pop" /\ pc' \in {"trace", "choose"}
        \/ pc = "trace" /\ pc' = "expand"
        \/ pc = "choose" /\ pc' = "done"
    BY <1>2 DEF StartTrace, BudgetSpent, Exhausted, EndTrace, Choose
  <2>3. Unspent' = Unspent
    BY <2>1 DEF Unspent
  <2>4. Stage' < Stage
    BY <2>2 DEF Stage
  <2> QED BY <1>1, <2>3, <2>4 DEF Nearer
<1>3. CASE EnqueueAlternate \/ SkipBranch
  <2>1. UNCHANGED <<paths, pc, trace>> /\ cursor' = cursor + 1
    BY <1>3 DEF EnqueueAlternate, SkipBranch
  <2>2. Unspent' = Unspent /\ Stage' = Stage
    BY <2>1 DEF Unspent, Stage
  <2>3. Len(trace.branches) \in Nat /\ cursor \in Nat
    BY DEF TypeOK, Trace
  <2>4. Unhandled' < Unhandled
    BY <2>1, <2>3 DEF Unhandled
  <2> QED BY <1>1, <2>2, <2>4 DEF Nearer
<1>4. CASE RecordPath
  <2>1. paths' = Append(paths, [scenario |-> scenario, trace |-> trace])
    BY <1>4 DEF RecordPath
  <2>2. Len(paths') = Len(paths) + 1 /\ Len(paths) \in Nat /\ MaxScenarios \in Nat
    BY <2>1, ConstantsAssumption DEF TypeOK
  <2>3. Unspent' < Unspent
    BY <2>2 DEF Unspent
  <2> QED BY <1>1, <2>3 DEF Nearer
<1> QED BY <1>2, <1>3, <1>4 DEF Next, Terminated

\* Every step of analyze_method uses up some of its budget, or moves on within one turn
\* of its loops: however many branches traces report, the search cannot go on for ever.
THEOREM SearchDescends == Spec => [][Nearer]_vars
<1>1. IInv => TypeOK /\ Bounded
  BY IsBounded DEF IInv
<1> QED BY <1>1, NearerStep, Invariant, PTL DEF Spec
=============================================================================
