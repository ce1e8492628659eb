---------------------------- MODULE ScenarioTrace ----------------------------
(***************************************************************************)
(* The scenario search composed with the emulation it drives: while the     *)
(* search waits in trace_scenario, the processor runs a target method whose *)
(* conditional jumps go through handle_conditional (src/src/dynamic.rs).    *)
(*                                                                          *)
(* A method is a graph of conditional jumps; straight code between two      *)
(* jumps is abstracted to the number of Java statements it emits.  A method *)
(* is deterministic, the wall clock is not.                                 *)
(***************************************************************************)
EXTENDS Integers, Sequences

CONSTANTS
  Rva, MaxPredicates, MaxScenarios, MaxStatements,  \* as in ScenarioSearch
  Methods,   \* the methods that may be analysed
  MaxSteps   \* max_instructions_per_scenario, in jumps

VARIABLES pc, queue, queued, scenario, trace, cursor, paths, analysis

AnyTrace ==
  [branches : Seq([rva : Rva, occurrence : Nat, taken : BOOLEAN, support : BOOLEAN]),
   completed : BOOLEAN,
   statements : Nat]

INSTANCE ScenarioSearch WITH Traces <- AnyTrace

Exits == {"ret", "trap"}

\* known: both sides of the comparison have a shadow expression.
\* support: the condition mentions an exception or a raw handle.
\* emits: statements of the code that leads to the jump.
\* takenFrom: the jump falls through until this occurrence and is taken from then on.
\* inverted: outcomes that force_condition turns into their opposite
\*           (BranchForcing!ForceInverted); empty for equality and unsigned jumps.
Jump == [known : BOOLEAN, support : BOOLEAN, emits : Nat, takenFrom : Nat,
         inverted : SUBSET BOOLEAN, taken : Rva \union Exits, next : Rva \union Exits]

Method == [entry : Rva, jumps : [Rva -> Jump]]

ASSUME TraceAssumption == /\ Methods \subseteq Method
                          /\ Rva \intersect Exits = {}
                          /\ {MaxPredicates, MaxScenarios, MaxStatements, MaxSteps} \subseteq Nat

VARIABLES
  method,  \* the method under analysis
  at,      \* the jump about to execute, or the exit reached
  seen,    \* predicate_occurrences
  log,     \* branches recorded so far
  went,    \* history: the direction the processor took at each recorded branch
  body,    \* statements emitted so far
  steps,   \* jumps executed, counted against MaxSteps
  routes   \* history: went and completion of every recorded path

searchVars == <<pc, queue, queued, scenario, trace, cursor, paths, analysis>>
emulation == <<at, seen, log, went, body, steps>>
allVars   == <<searchVars, method, emulation, routes>>

Code == method.jumps[at]

TraceInit == /\ Init
             /\ method \in Methods
             /\ at = "ret"
             /\ seen = [r \in Rva |-> 0]
             /\ log = <<>>
             /\ went = <<>>
             /\ body = 0
             /\ steps = 0
             /\ routes = <<>>

\* Mutant of Launch: predicate_occurrences survives from the scenario before.
LaunchStale == /\ StartTrace
               /\ at' = method.entry
               /\ log' = <<>>
               /\ went' = <<>>
               /\ body' = 0
               /\ steps' = 0
               /\ UNCHANGED <<method, seen, routes>>

\* TraceState::new, then emu_start at the function's first instruction.
Launch == /\ StartTrace
          /\ at' = method.entry
          /\ seen' = [r \in Rva |-> 0]
          /\ log' = <<>>
          /\ went' = <<>>
          /\ body' = 0
          /\ steps' = 0
          /\ UNCHANGED <<method, routes>>

Running == pc = "trace" /\ at \in Rva /\ steps < MaxSteps

Proceed(direction) == /\ at' = IF direction THEN Code.taken ELSE Code.next
                      /\ seen' = [seen EXCEPT ![at] = @ + 1]
                      /\ body' = body + Code.emits
                      /\ steps' = steps + 1

Natural == seen[at] >= Code.takenFrom

\* Mutant of Wanted: predicates are used up in the order they were pushed.
WantedInOrder == {i \in DOMAIN scenario :
                    /\ scenario[i].rva = at
                    /\ scenario[i].occurrence = seen[at]
                    /\ \A k \in 1..(i - 1) : seen[scenario[k].rva] > scenario[k].occurrence}

\* TraceScenario::wants: the predicate must name this occurrence; the order in which
\* the predicates were pushed does not matter.
Wanted == {i \in DOMAIN scenario : /\ scenario[i].rva = at
                                   /\ scenario[i].occurrence = seen[at]}

\* handle_conditional counts the occurrence and returns.
UnknownJump == /\ Running
               /\ ~Code.known
               /\ Proceed(Natural)
               /\ UNCHANGED <<searchVars, method, log, went, routes>>

RecordJump(outcome, direction) ==
  /\ Running
  /\ Code.known
  /\ log' = Append(log, [rva |-> at, occurrence |-> seen[at],
                         taken |-> outcome, support |-> Code.support])
  /\ went' = Append(went, direction)
  /\ Proceed(direction)
  /\ UNCHANGED <<searchVars, method, routes>>

NaturalJump == Wanted = {} /\ RecordJump(Natural, Natural)

\* Mutant of ForcedJump: the wanted outcome is recorded, the flags stay.
ForcedJumpUnwritten == \E i \in Wanted : RecordJump(scenario[i].outcome, Natural)

ForcedJump == \E i \in Wanted :
                LET outcome == scenario[i].outcome IN
                  RecordJump(outcome, IF outcome \in Code.inverted THEN ~outcome ELSE outcome)

\* The path trace_scenario builds when the emulation is over.
Outcome(returned) == [branches |-> log, completed |-> returned, statements |-> body]

Finish(returned) == /\ trace' = Outcome(returned)
                    /\ EndTrace
                    /\ UNCHANGED <<method, emulation, routes>>

Returned         == at = "ret" /\ Finish(TRUE)
Trapped          == at = "trap" /\ Finish(FALSE)

\* Mutant of InstructionLimit: the count steps over the limit it is compared with.
InstructionLimitMissed == at \in Rva /\ steps > MaxSteps /\ Finish(FALSE)

InstructionLimit == at \in Rva /\ steps = MaxSteps /\ Finish(FALSE)
TimeLimit        == at \in Rva /\ steps < MaxSteps /\ Finish(FALSE)

\* The search's own steps.
Search == \/ /\ RecordPath
             /\ routes' = Append(routes, went)
             /\ UNCHANGED <<method, emulation>>
          \/ /\ BudgetSpent \/ Exhausted \/ EnqueueAlternate \/ SkipBranch \/ Choose \/ Terminated
             /\ UNCHANGED <<method, emulation, routes>>

TraceNext == \/ Launch \/ UnknownJump \/ NaturalJump \/ ForcedJump
             \/ Returned \/ Trapped \/ InstructionLimit \/ TimeLimit
             \/ Search

TraceSpec == TraceInit /\ [][TraceNext]_allVars

\* One thread; an emulation that is not stopped keeps executing instructions.
FairTraceSpec == TraceSpec /\ WF_allVars(TraceNext)

-----------------------------------------------------------------------------
TraceTypeOK == /\ TypeOK
               /\ method \in Methods
               /\ at \in Rva \union Exits
               /\ seen \in [Rva -> 0..MaxSteps]
               /\ log \in Seq(Branch)
               /\ went \in Seq(BOOLEAN) /\ Len(went) = Len(log)
               /\ body \in Nat
               /\ steps \in 0..MaxSteps
               /\ routes \in Seq(Seq(BOOLEAN))

\* The paths of a child scenario and of the path it was derived from: the same
\* recorded branches up to the flipped one, which the child records flipped, unless
\* the clock or a limit stopped the child before.
Diverges(parent, child, n) ==
  LET p == parent.trace.branches
      c == child.trace.branches
      common == IF Len(c) < n - 1 THEN Len(c) ELSE n - 1
  IN /\ SubSeq(c, 1, common) = SubSeq(p, 1, common)
     /\ Len(c) >= n => c[n] = [p[n] EXCEPT !.taken = ~@]
     /\ Len(c) < n => ~child.trace.completed

\* Forcing one more outcome changes nothing before the branch it flips: every
\* traced scenario replays its parent's branches and then takes the other side.
ReplaysParent ==
  \A j \in DOMAIN paths :
    paths[j].scenario = <<>> \/
      \E i \in 1..(j - 1) : \E n \in DOMAIN paths[i].trace.branches :
        /\ paths[j].scenario = Alternate(paths[i].scenario, paths[i].trace.branches[n])
        /\ Diverges(paths[i], paths[j], n)

Prefix(u, v) == Len(u) <= Len(v) /\ \A m \in 1..Len(u) : u[m] = v[m]

\* Two scenarios that force the same outcomes, in whatever order they were pushed.
SameForces(s, t) == {s[k] : k \in DOMAIN s} = {t[k] : k \in DOMAIN t}

\* A scenario queued twice, its predicates in two orders (the queued set compares
\* lists), is emulated twice, and the second emulation is a mere repeat: of two paths
\* that force the same outcomes one records the beginning of what the other records,
\* and one that completed records everything.  Nothing the search could learn hangs
\* on which order is traced, nor on what was emulated in between.
RepeatsShowNothing ==
  \A i, j \in DOMAIN paths :
    SameForces(paths[i].scenario, paths[j].scenario) =>
      LET p == paths[i].trace.branches
          q == paths[j].trace.branches
      IN Prefix(q, p) \/ (Prefix(p, q) /\ ~paths[i].trace.completed)

\* Path j is cut short before its n-th branch, or really takes the other side there.
OtherSide(i, j, n) ==
  LET b == paths[i].trace.branches[n] IN
    \/ /\ Len(routes[j]) >= n
       /\ paths[j].trace.branches[n].rva = b.rva
       /\ paths[j].trace.branches[n].occurrence = b.occurrence
       /\ routes[j][n] = ~routes[i][n]
    \/ Len(routes[j]) < n /\ ~paths[j].trace.completed

\* A search that ends within its budget has executed both sides of every
\* application branch on every path, as far as predicates allow it: the promise of
\* the search on the processor's side, for the outcomes force_condition can force.
BothSidesExecuted ==
  pc = "done" /\ Len(paths) < MaxScenarios =>
    \A i \in DOMAIN paths : \A n \in DOMAIN paths[i].trace.branches :
      LET b == paths[i].trace.branches[n] IN
        /\ ~b.support
        /\ CanPush(paths[i].scenario, b)
        /\ (~b.taken) \notin method.jumps[b.rva].inverted
        => \E j \in DOMAIN paths :
             paths[j].scenario = Alternate(paths[i].scenario, b) /\ OtherSide(i, j, n)

\* The analysis of a method ends even if the method loops forever.
AnalysisEnds == <>(pc = "done")
=============================================================================
