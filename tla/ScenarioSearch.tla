--------------------------- MODULE ScenarioSearch ---------------------------
(***************************************************************************)
(* The breadth-first search over forced branch outcomes that                *)
(* DynamicContext::analyze_method (src/src/dynamic.rs) runs for one native  *)
(* method, and the choice of the path that becomes the recovered body.      *)
(*                                                                          *)
(* A trace_scenario call ends with some member of Traces here.  Nothing     *)
(* ties two calls together, because a trace also depends on a wall-clock    *)
(* timeout; ScenarioTrace refines the choice for a given target program.    *)
(***************************************************************************)
EXTENDS Integers, Sequences

CONSTANTS
  Rva,            \* addresses of conditional jumps of the method
  Traces,         \* what one emulation may report
  MaxPredicates,  \* forced predicates per scenario (8 in the code)
  MaxScenarios,   \* DynamicConfig::max_scenarios_per_method
  MaxStatements   \* DynamicConfig::max_statements_per_method

Predicate == [rva : Rva, occurrence : Nat, outcome : BOOLEAN]
Scenario  == Seq(Predicate)

\* support is runtime_support: such branches belong to JNIC's own plumbing.
Branch == [rva : Rva, occurrence : Nat, taken : BOOLEAN, support : BOOLEAN]

\* statements abstracts the recovered body to its length.
Trace == [branches : Seq(Branch), completed : BOOLEAN, statements : Nat]

ASSUME ConstantsAssumption ==
  /\ Traces \subseteq Trace
  /\ MaxPredicates \in Nat
  /\ MaxScenarios \in Nat
  /\ MaxStatements \in Nat

VARIABLES
  pc,         \* "pop": head of the while loop; "trace": inside trace_scenario;
              \* "expand": inside the for loop; "choose": after the loops;
              \* "done": the analysis is returned
  queue,      \* scenarios waiting to be traced
  queued,     \* every scenario ever queued (the HashSet)
  scenario,   \* the scenario popped last
  trace,      \* the path it produced
  cursor,     \* number of branches of trace the for loop has handled
  paths,      \* the traced scenarios with their paths, oldest first
  analysis    \* the result

vars == <<pc, queue, queued, scenario, trace, cursor, paths, analysis>>

NoTrace  == [branches |-> <<>>, completed |-> FALSE, statements |-> 0]
Path     == [scenario : Scenario, trace : Trace]
Analysis == [attempted : BOOLEAN, completed : BOOLEAN, body : Nat,
             scenarios : Nat, cut : BOOLEAN]

Unavailable == [attempted |-> FALSE, completed |-> FALSE, body |-> 0,
                scenarios |-> 0, cut |-> FALSE]

-----------------------------------------------------------------------------
\* TraceScenario::push refuses a ninth predicate and a second one for the same
\* address, whatever its occurrence.
CanPush(s, b) == /\ Len(s) < MaxPredicates
                 /\ \A i \in DOMAIN s : s[i].rva # b.rva

Flip(b) == [rva |-> b.rva, occurrence |-> b.occurrence, outcome |-> ~b.taken]

Alternate(s, b) == Append(s, Flip(b))

\* Mutants of Enqueued: one predicate less than allowed; branches of the plumbing too.
EnqueuedShallow(s, b) == /\ ~b.support /\ CanPush(s, b) /\ Len(s) + 1 < MaxPredicates
                         /\ Alternate(s, b) \notin queued

EnqueuedPlumbing(s, b) == CanPush(s, b) /\ Alternate(s, b) \notin queued

Enqueued(s, b) == ~b.support /\ CanPush(s, b) /\ Alternate(s, b) \notin queued

Init == /\ pc = "pop"
        /\ queue = << <<>> >>
        /\ queued = {<<>>}
        /\ scenario = <<>>
        /\ trace = NoTrace
        /\ cursor = 0
        /\ paths = <<>>
        /\ analysis = Unavailable

\* Mutant of StartTrace: one trace over the budget.
StartTraceLate == /\ pc = "pop"
                  /\ queue # <<>>
                  /\ Len(paths) <= MaxScenarios
                  /\ scenario' = Head(queue)
                  /\ queue' = Tail(queue)
                  /\ pc' = "trace"
                  /\ UNCHANGED <<queued, trace, cursor, paths, analysis>>

\* The scenario is popped before the budget is looked at ...
StartTrace == /\ pc = "pop"
              /\ queue # <<>>
              /\ Len(paths) < MaxScenarios
              /\ scenario' = Head(queue)
              /\ queue' = Tail(queue)
              /\ pc' = "trace"
              /\ UNCHANGED <<queued, trace, cursor, paths, analysis>>

\* ... so the one that finds it spent is lost.
BudgetSpent == /\ pc = "pop"
               /\ queue # <<>>
               /\ Len(paths) >= MaxScenarios
               /\ scenario' = Head(queue)
               /\ queue' = Tail(queue)
               /\ pc' = "choose"
               /\ UNCHANGED <<queued, trace, cursor, paths, analysis>>

Exhausted == /\ pc = "pop"
             /\ queue = <<>>
             /\ pc' = "choose"
             /\ UNCHANGED <<queue, queued, scenario, trace, cursor, paths, analysis>>

\* trace_scenario returns.
EndTrace == /\ pc = "trace"
            /\ trace' \in Traces
            /\ cursor' = 0
            /\ pc' = "expand"
            /\ UNCHANGED <<queue, queued, scenario, paths, analysis>>

\* Mutant of EnqueueAlternate: push_front.
EnqueueFront ==
  /\ pc = "expand"
  /\ cursor < Len(trace.branches)
  /\ LET b == trace.branches[cursor + 1] IN
       /\ Enqueued(scenario, b)
       /\ queue' = <<Alternate(scenario, b)>> \o queue
       /\ queued' = queued \union {Alternate(scenario, b)}
  /\ cursor' = cursor + 1
  /\ UNCHANGED <<pc, scenario, trace, paths, analysis>>

EnqueueAlternate ==
  /\ pc = "expand"
  /\ cursor < Len(trace.branches)
  /\ LET b == trace.branches[cursor + 1] IN
       /\ Enqueued(scenario, b)
       /\ queue' = Append(queue, Alternate(scenario, b))
       /\ queued' = queued \union {Alternate(scenario, b)}
  /\ cursor' = cursor + 1
  /\ UNCHANGED <<pc, scenario, trace, paths, analysis>>

SkipBranch == /\ pc = "expand"
              /\ cursor < Len(trace.branches)
              /\ ~Enqueued(scenario, trace.branches[cursor + 1])
              /\ cursor' = cursor + 1
              /\ UNCHANGED <<pc, queue, queued, scenario, trace, paths, analysis>>

RecordPath == /\ pc = "expand"
              /\ cursor = Len(trace.branches)
              /\ paths' = Append(paths, [scenario |-> scenario, trace |-> trace])
              /\ pc' = "pop"
              /\ scenario' = <<>>
              /\ trace' = NoTrace
              /\ cursor' = 0
              /\ UNCHANGED <<queue, queued, analysis>>

-----------------------------------------------------------------------------
Eligible(i) == paths[i].trace.completed /\ paths[i].trace.statements > 0

\* Mutant of IsBest: the first completed path instead of the longest.
IsBestFirst(k) == Eligible(k) /\ \A i \in DOMAIN paths : Eligible(i) => k <= i

\* Iterator::max_by_key keeps the last of equal maxima.
IsBest(k) == /\ Eligible(k)
             /\ \A i \in DOMAIN paths : Eligible(i) =>
                  \/ paths[i].trace.statements < paths[k].trace.statements
                  \/ paths[i].trace.statements = paths[k].trace.statements /\ i <= k

Chosen(k) == \/ IsBest(k)
             \/ k = 1 /\ \A i \in DOMAIN paths : ~Eligible(i)

AtMost(n, limit) == IF n > limit THEN limit ELSE n

Summary(path) ==
  [attempted |-> TRUE,
   completed |-> path.trace.completed,
   body |-> AtMost(path.trace.statements, MaxStatements),
   scenarios |-> Len(paths),
   cut |-> path.trace.statements > MaxStatements]

Choose == /\ pc = "choose"
          /\ \/ \E k \in DOMAIN paths :
                  Chosen(k) /\ analysis' = Summary(paths[k])
             \/ paths = <<>> /\ analysis' = Unavailable
          /\ pc' = "done"
          /\ UNCHANGED <<queue, queued, scenario, trace, cursor, paths>>

Terminated == pc = "done" /\ UNCHANGED vars

Next == \/ StartTrace \/ BudgetSpent \/ Exhausted
        \/ EndTrace \/ EnqueueAlternate \/ SkipBranch \/ RecordPath
        \/ Choose \/ Terminated

Spec == Init /\ [][Next]_vars

-----------------------------------------------------------------------------
TypeOK == /\ pc \in {"pop", "trace", "expand", "choose", "done"}
          /\ queue \in Seq(Scenario)
          /\ queued \subseteq Scenario
          /\ scenario \in Scenario
          /\ trace \in Trace
          /\ cursor \in 0..Len(trace.branches)
          /\ paths \in Seq(Path)
          /\ analysis \in Analysis

Traced == {paths[i].scenario : i \in DOMAIN paths}

\* No list of predicates is emulated twice (a lemma of the proofs).  The queued set
\* compares lists and sees no more than this: the same predicates in two orders are
\* two scenarios (ScenarioTrace!RepeatsShowNothing says what the second one is worth).
TracedOnce ==
  /\ \A i, j \in DOMAIN paths : paths[i].scenario = paths[j].scenario => i = j
  /\ \A i \in DOMAIN queue : queue[i] \notin Traced

\* At most MaxPredicates forced outcomes, and never two for one address, in any
\* scenario the search builds (TraceScenario::push on every way in).
ScenarioShape ==
  \A s \in queued : /\ Len(s) <= MaxPredicates
                    /\ \A i, j \in DOMAIN s : s[i].rva = s[j].rva => i = j

\* A search that ends with budget left has tried the other side of every branch
\* it saw: each recorded branch that may be flipped leads to a traced scenario.
SearchComplete ==
  pc = "done" /\ Len(paths) < MaxScenarios =>
    \A i \in DOMAIN paths : \A n \in DOMAIN paths[i].trace.branches :
      LET b == paths[i].trace.branches[n] IN
        ~b.support /\ CanPush(paths[i].scenario, b)
          => Alternate(paths[i].scenario, b) \in Traced

\* s is the default scenario or flips one application branch that path i reported.
FlipOf(s, i) ==
  \E n \in DOMAIN paths[i].trace.branches :
    /\ ~paths[i].trace.branches[n].support
    /\ s = Alternate(paths[i].scenario, paths[i].trace.branches[n])

\* Every traced scenario but the first flips a branch that an earlier path
\* really took the other way: nothing is forced that was never observed.
Observed ==
  \A j \in DOMAIN paths :
    paths[j].scenario = <<>> \/ \E i \in 1..(j - 1) : FlipOf(paths[j].scenario, i)

\* Scenarios are traced in order of the number of outcomes they force, so that a
\* spent budget leaves out the deepest ones (VecDeque push_back / pop_front).
BreadthFirst ==
  /\ \A i, j \in DOMAIN paths :
       i <= j => Len(paths[i].scenario) <= Len(paths[j].scenario)
  /\ \A i \in DOMAIN paths, j \in DOMAIN queue :
       Len(paths[i].scenario) <= Len(queue[j])

\* The budget counts paths exactly: it is never exceeded, and when it stops the
\* search (a popped scenario is lost) every unit of it was used.
BudgetExact ==
  /\ Len(paths) <= MaxScenarios
  /\ pc = "done" /\ queued # Traced => Len(paths) = MaxScenarios

\* The reported body is one of the recorded ones and the longest completed one:
\* no failed trace, later or earlier, hides a method body that was recovered.
NoBodyLost ==
  pc = "done" =>
    \A i \in DOMAIN paths : Eligible(i) =>
      /\ analysis.completed
      /\ analysis.body >= AtMost(paths[i].trace.statements, MaxStatements)
      /\ \E k \in DOMAIN paths :
           Eligible(k) /\ analysis.body = AtMost(paths[k].trace.statements, MaxStatements)
=============================================================================
