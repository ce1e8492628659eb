------------------------ MODULE ScenarioTraceProofs ------------------------
(***************************************************************************)
(* Proofs about ScenarioTrace, for every method, every limit and any point  *)
(* at which the clock strikes: a forced scenario replays the path it was    *)
(* derived from up to the branch it flips, scenarios that force the same    *)
(* outcomes in two orders show the same branches, and a search that ends    *)
(* within its budget has driven the processor both ways.                    *)
(*                                                                         *)
(* The heart is determinism.  The configurations that the emulation of one  *)
(* scenario runs through form a set (Covers) in which each leads to the     *)
(* next; the emulation of a child scenario moves inside the set of its      *)
(* parent until it reaches the flipped branch.                              *)
(***************************************************************************)
EXTENDS ScenarioTrace, TLAPS

\* The theorems of the abstract search.
S == INSTANCE ScenarioSearchProofs WITH Traces <- AnyTrace

-----------------------------------------------------------------------------
(* Every step of the analysis is a step of the search or leaves it alone.   *)

LEMMA SearchAssumption == S!ConstantsAssumption
BY TraceAssumption DEF AnyTrace, S!ConstantsAssumption, S!Trace, S!Branch

LEMMA StartsSearch == TraceInit => Init
BY DEF TraceInit

LEMMA StepsSearch == [TraceNext]_allVars => [Next]_vars
<1> USE DEF searchVars, vars
<1>1. Launch => Next
  BY DEF Launch, Next
<1>2. UnknownJump \/ NaturalJump \/ ForcedJump => UNCHANGED vars
  BY DEF UnknownJump, NaturalJump, ForcedJump, RecordJump
<1>3. Returned \/ Trapped \/ InstructionLimit \/ TimeLimit => Next
  BY DEF Returned, Trapped, InstructionLimit, TimeLimit, Finish, Next
<1>4. Search => Next
  BY DEF Search, Next
<1>5. UNCHANGED allVars => UNCHANGED vars
  BY DEF allVars
<1> QED BY <1>1, <1>2, <1>3, <1>4, <1>5 DEF TraceNext

\* The two names of the abstract search are one.
LEMMA SameSearch == (Init <=> S!Init) /\ ([Next]_vars <=> [S!Next]_S!vars)
<1>1. Init <=> S!Init
  BY DEF Init, S!Init, NoTrace, S!NoTrace, Unavailable, S!Unavailable
<1>3. \A s, b : /\ Alternate(s, b) = S!Alternate(s, b)
                /\ CanPush(s, b) <=> S!CanPush(s, b)
                /\ Enqueued(s, b) <=> S!Enqueued(s, b)
  BY DEF Alternate, S!Alternate, Flip, S!Flip, CanPush, S!CanPush, Enqueued, S!Enqueued
<1>4. \A k : Chosen(k) <=> S!Chosen(k)
  BY DEF Chosen, S!Chosen, IsBest, S!IsBest, Eligible, S!Eligible
<1>5. \A p : Summary(p) = S!Summary(p)
  BY DEF Summary, S!Summary, AtMost, S!AtMost
<1>6. /\ StartTrace <=> S!StartTrace
      /\ BudgetSpent <=> S!BudgetSpent
      /\ Exhausted <=> S!Exhausted
      /\ EndTrace <=> S!EndTrace
  BY DEF StartTrace, S!StartTrace, BudgetSpent, S!BudgetSpent, Exhausted, S!Exhausted,
         EndTrace, S!EndTrace
<1>7. EnqueueAlternate <=> S!EnqueueAlternate
  BY <1>3 DEF EnqueueAlternate, S!EnqueueAlternate
<1>8. SkipBranch <=> S!SkipBranch
  BY <1>3 DEF SkipBranch, S!SkipBranch
<1>9. RecordPath <=> S!RecordPath
  BY DEF RecordPath, S!RecordPath, NoTrace, S!NoTrace
<1>10. Choose <=> S!Choose
  BY <1>4, <1>5 DEF Choose, S!Choose, Unavailable, S!Unavailable
<1>11. UNCHANGED vars <=> UNCHANGED S!vars
  BY DEF vars, S!vars
<1>12. Next <=> S!Next
  BY <1>6, <1>7, <1>8, <1>9, <1>10, <1>11 DEF Next, S!Next, Terminated, S!Terminated
<1> QED BY <1>1, <1>11, <1>12

LEMMA SearchInvariant == TraceSpec => [](S!IInv /\ S!SearchComplete)
<1>1. TraceSpec => S!Spec
  <2>1. TraceInit => S!Init
    BY StartsSearch, SameSearch
  <2>2. [TraceNext]_allVars => [S!Next]_S!vars
    BY StepsSearch, SameSearch
  <2> QED BY <2>1, <2>2, PTL DEF TraceSpec, S!Spec
<1>2. S!Spec => []S!IInv
  BY SearchAssumption, S!Invariant
<1>3. S!Spec => []S!SearchComplete
  BY SearchAssumption, S!CompleteSearch
<1> QED BY <1>1, <1>2, <1>3, PTL


Distinctive(s) == \A a, b \in DOMAIN s : s[a].rva = s[b].rva => a = b

\* What the emulation needs to know of the search around it.
Searched ==
  /\ TypeOK
  /\ TracedOnce
  /\ SearchComplete
  /\ pc \in {"trace", "expand"} => Distinctive(scenario)
  /\ \A i \in DOMAIN paths : Distinctive(paths[i].scenario)
  /\ pc = "pop" => \A k \in DOMAIN queue :
       queue[k] = <<>> \/ \E i \in DOMAIN paths : FlipOf(queue[k], i)

LEMMA SearchGives == S!IInv /\ S!SearchComplete => Searched
<1> SUFFICES ASSUME S!IInv, S!SearchComplete PROVE Searched
  OBVIOUS
<1>1. TypeOK
  BY DEF S!IInv, S!TypeOK, TypeOK, S!Scenario, Scenario, S!Predicate, Predicate,
         S!Trace, Trace, S!Branch, Branch, S!Path, Path, S!Analysis, Analysis
<1>2. TracedOnce
  BY DEF S!IInv, S!Distinct, S!TracedOnce, TracedOnce, S!Traced, Traced
<1>3. \A s, b : /\ Alternate(s, b) = S!Alternate(s, b)
                /\ CanPush(s, b) <=> S!CanPush(s, b)
  BY DEF Alternate, S!Alternate, Flip, S!Flip, CanPush, S!CanPush
<1>4. SearchComplete
  BY <1>3 DEF S!SearchComplete, SearchComplete, S!Traced, Traced
<1>5. \A s \in queued : Distinctive(s)
  BY DEF S!IInv, S!ScenarioShape, Distinctive
<1>6. \A i \in DOMAIN paths : paths[i].scenario \in queued
  BY DEF S!IInv, S!Accounted, S!Traced
<1>7. pc \in {"trace", "expand"} => scenario \in queued
  BY DEF S!IInv, S!Accounted
<1>8. \A s, i : S!FlipOf(s, i) => FlipOf(s, i)
  BY <1>3 DEF S!FlipOf, FlipOf
<1>9. ASSUME pc = "pop", NEW k \in DOMAIN queue
      PROVE  queue[k] = <<>> \/ \E i \in DOMAIN paths : FlipOf(queue[k], i)
  BY <1>8, <1>9 DEF S!IInv, S!Derived, S!FlipOfRecorded, S!FlipOfCurrent
<1> QED BY <1>1, <1>2, <1>4, <1>5, <1>6, <1>7, <1>9 DEF Searched

LEMMA SearchHolds == TraceSpec => []Searched
BY SearchInvariant, SearchGives, PTL

-----------------------------------------------------------------------------
(* Type correctness.                                                       *)

Typed == /\ TraceTypeOK
         /\ \A r \in Rva : seen[r] <= steps
         /\ Len(routes) = Len(paths)

LEMMA MethodShape ==
  ASSUME method \in Methods, NEW r \in Rva
  PROVE  /\ method.jumps[r].known \in BOOLEAN
         /\ method.jumps[r].support \in BOOLEAN
         /\ method.jumps[r].emits \in Nat
         /\ method.jumps[r].takenFrom \in Nat
         /\ method.jumps[r].taken \in Rva \union Exits
         /\ method.jumps[r].next \in Rva \union Exits
         /\ method.entry \in Rva
BY TraceAssumption DEF Method, Jump


LEMMA TypedInit == TraceInit /\ Searched => Typed
<1> SUFFICES ASSUME TraceInit, Searched PROVE Typed
  OBVIOUS
<1>1. MaxSteps \in Nat /\ 0 \in 0..MaxSteps
  BY TraceAssumption
<1>2. log \in Seq(Branch) /\ went \in Seq(BOOLEAN) /\ routes \in Seq(Seq(BOOLEAN))
  BY DEF TraceInit
<1>3. seen \in [Rva -> 0..MaxSteps] /\ \A r \in Rva : seen[r] <= steps
  BY <1>1 DEF TraceInit
<1>4. TypeOK /\ Len(routes) = Len(paths) /\ Len(went) = Len(log)
  BY DEF TraceInit, Init, Searched
<1>5. method \in Methods /\ at \in Rva \union Exits /\ body \in Nat /\ steps \in 0..MaxSteps
  BY <1>1 DEF TraceInit, Exits
<1> QED BY <1>2, <1>3, <1>4, <1>5 DEF Typed, TraceTypeOK

LEMMA TypedStep ==
  ASSUME Searched, Typed, [TraceNext]_allVars, Searched'
  PROVE  Typed'
<1> USE DEF Typed, TraceTypeOK
<1>0. TypeOK' /\ MaxSteps \in Nat
  BY TraceAssumption DEF Searched
<1>1. CASE Launch
  <2>1. method.entry \in Rva
    BY TraceAssumption DEF Method
  <2>2. log' \in Seq(Branch) /\ went' \in Seq(BOOLEAN) /\ Len(went') = Len(log')
    BY <1>1 DEF Launch
  <2>3. 0 \in 0..MaxSteps /\ steps' = 0 /\ body' = 0
    BY <1>0, <1>1 DEF Launch
  <2>4. seen' \in [Rva -> 0..MaxSteps] /\ \A r \in Rva : seen'[r] <= steps'
    BY <1>1, <2>3 DEF Launch
  <2>5. at' \in Rva \union Exits /\ UNCHANGED <<method, routes, paths>>
    BY <1>1, <2>1 DEF Launch, StartTrace
  <2> QED BY <1>0, <2>2, <2>3, <2>4, <2>5
<1>2. ASSUME NEW direction \in BOOLEAN, Running, Proceed(direction), method' = method
      PROVE  /\ at' \in Rva \union Exits
             /\ seen' \in [Rva -> 0..MaxSteps]
             /\ \A r \in Rva : seen'[r] <= steps'
             /\ body' \in Nat
             /\ steps' \in 0..MaxSteps
  <2>1. /\ at \in Rva /\ Code.emits \in Nat
        /\ Code.taken \in Rva \union Exits /\ Code.next \in Rva \union Exits
    BY <1>2, MethodShape DEF Running, Code
  <2>2. steps + 1 \in 0..MaxSteps /\ \A r \in Rva : seen[r] \in 0..MaxSteps
    BY <1>0, <1>2 DEF Running
  <2> QED BY <1>0, <1>2, <2>1, <2>2 DEF Proceed
<1>3. CASE UnknownJump
  <2>1. Natural \in BOOLEAN
    BY DEF Natural
  <2> QED BY <1>0, <1>2, <1>3, <2>1 DEF UnknownJump, searchVars
<1>4. ASSUME NEW outcome \in BOOLEAN, NEW direction \in BOOLEAN, RecordJump(outcome, direction)
      PROVE  Typed'
  <2> DEFINE b == [rva |-> at, occurrence |-> seen[at],
                   taken |-> outcome, support |-> Code.support]
  <2>1. b \in Branch
    BY <1>4, MethodShape DEF RecordJump, Running, Code, Branch
  <2>2. log' \in Seq(Branch) /\ went' \in Seq(BOOLEAN) /\ Len(went') = Len(log')
    BY <1>4, <2>1 DEF RecordJump
  <2> QED BY <1>0, <1>2, <1>4, <2>2 DEF RecordJump, searchVars
<1>5. CASE NaturalJump
  <2>1. Natural \in BOOLEAN
    BY DEF Natural
  <2>2. RecordJump(Natural, Natural)
    BY <1>5 DEF NaturalJump
  <2> HIDE DEF Typed, TraceTypeOK
  <2> QED BY <1>4, <2>1, <2>2
<1>6. CASE ForcedJump
  <2>1. \A i \in DOMAIN scenario : scenario[i].outcome \in BOOLEAN
    <3>1. scenario \in Seq(Predicate)
      BY DEF TypeOK, Scenario
    <3>2. \A i \in DOMAIN scenario : scenario[i] \in Predicate
      BY <3>1
    <3> QED BY <3>2 DEF Predicate
  <2>2. PICK i \in Wanted :
          LET outcome == scenario[i].outcome IN
            RecordJump(outcome, IF outcome \in Code.inverted THEN ~outcome ELSE outcome)
    BY <1>6 DEF ForcedJump
  <2> DEFINE outcome == scenario[i].outcome
             direction == IF outcome \in Code.inverted THEN ~outcome ELSE outcome
  <2>3. outcome \in BOOLEAN
    BY <2>1 DEF Wanted
  <2>4. direction \in BOOLEAN
    BY <2>3
  <2>5. RecordJump(outcome, direction)
    BY <2>2
  <2> HIDE DEF Typed, TraceTypeOK, outcome, direction
  <2> QED BY <1>4, <2>3, <2>4, <2>5
<1>7. CASE Returned \/ Trapped \/ InstructionLimit \/ TimeLimit
  BY <1>0, <1>7 DEF Returned, Trapped, InstructionLimit, TimeLimit, Finish, EndTrace, emulation
<1>8. CASE Search
  <2>1. CASE RecordPath /\ routes' = Append(routes, went) /\ UNCHANGED <<method, emulation>>
    BY <1>0, <2>1 DEF RecordPath, emulation, TypeOK
  <2>2. CASE /\ BudgetSpent \/ Exhausted \/ EnqueueAlternate \/ SkipBranch \/ Choose \/ Terminated
             /\ UNCHANGED <<method, emulation, routes>>
    <3>1. paths' = paths
      BY <2>2 DEF BudgetSpent, Exhausted, EnqueueAlternate, SkipBranch, Choose, Terminated, vars
    <3> QED BY <1>0, <2>2, <3>1 DEF emulation
  <2> QED BY <1>8, <2>1, <2>2 DEF Search
<1>9. CASE UNCHANGED allVars
  BY <1>0, <1>9 DEF allVars, searchVars, emulation
<1> QED BY <1>1, <1>3, <1>5, <1>6, <1>7, <1>8, <1>9 DEF TraceNext

-----------------------------------------------------------------------------
(* The emulation of one scenario is deterministic.                          *)

\* What decides how the emulation of a scenario goes on.
Config == [at : Rva \union Exits, seen : [Rva -> Nat], log : Seq(Branch)]

Now   == [at |-> at, seen |-> seen, log |-> log]
Start == [at |-> method.entry, seen |-> [r \in Rva |-> 0], log |-> <<>>]

Moved(c, d, direction) ==
  /\ d.at = IF direction THEN method.jumps[c.at].taken ELSE method.jumps[c.at].next
  /\ d.seen = [c.seen EXCEPT ![c.at] = @ + 1]

Recorded(c, d, outcome) ==
  d.log = Append(c.log, [rva |-> c.at, occurrence |-> c.seen[c.at],
                         taken |-> outcome, support |-> method.jumps[c.at].support])

WantedAt(s, c) == {q \in DOMAIN s : s[q].rva = c.at /\ s[q].occurrence = c.seen[c.at]}

NaturalAt(c) == c.seen[c.at] >= method.jumps[c.at].takenFrom

Driven(r, outcome) == IF outcome \in method.jumps[r].inverted THEN ~outcome ELSE outcome

\* One jump takes the emulation of scenario s from c to d.
Follows(s, c, d) ==
  /\ c.at \in Rva
  /\ \/ /\ ~method.jumps[c.at].known
        /\ Moved(c, d, NaturalAt(c)) /\ d.log = c.log
     \/ /\ method.jumps[c.at].known /\ WantedAt(s, c) = {}
        /\ Moved(c, d, NaturalAt(c)) /\ Recorded(c, d, NaturalAt(c))
     \/ /\ method.jumps[c.at].known
        /\ \E q \in WantedAt(s, c) : /\ Moved(c, d, Driven(c.at, s[q].outcome))
                                     /\ Recorded(c, d, s[q].outcome)

\* The emulation of s runs from Start to end through C and records branches.
Covers(C, s, branches, end) ==
  /\ C \subseteq Config /\ Start \in C /\ end \in C /\ end.log = branches
  /\ \A c \in C : Prefix(c.log, branches)
  /\ \A c \in C \ {end} : \E d \in C : Follows(s, c, d)

\* The emulation of s has recorded branches, at the return when it has returned.
Reaches(s, branches, returned) ==
  \E C \in SUBSET Config : \E end \in C :
    Covers(C, s, branches, end) /\ (returned => end.at = "ret")

ReachesNow == \E C \in SUBSET Config : Covers(C, scenario, log, Now)

LEMMA NowConfig == Typed => Now \in Config
<1> SUFFICES ASSUME Typed PROVE Now \in Config
  OBVIOUS
<1>1. MaxSteps \in Nat
  BY TraceAssumption
<1>2. seen \in [Rva -> Nat]
  BY <1>1 DEF Typed, TraceTypeOK
<1> QED BY <1>2 DEF Typed, TraceTypeOK, Now, Config

LEMMA JumpFollows ==
  ASSUME UnknownJump \/ NaturalJump \/ ForcedJump
  PROVE  Follows(scenario, Now, Now') /\ UNCHANGED <<searchVars, method, routes>>
<1> USE DEF Now, Moved, Recorded, NaturalAt, WantedAt, Driven, Natural, Wanted, Code,
            Proceed, Running
<1>1. CASE UnknownJump
  BY <1>1 DEF UnknownJump, Follows
<1>2. CASE NaturalJump
  BY <1>2 DEF NaturalJump, RecordJump, Follows
<1>3. CASE ForcedJump
  <2>1. PICK q \in Wanted : RecordJump(scenario[q].outcome, Driven(at, scenario[q].outcome))
    BY <1>3 DEF ForcedJump
  <2> QED BY <2>1 DEF RecordJump, Follows
<1> QED BY <1>1, <1>2, <1>3

\* Nothing of this depends on anything but the method.
LEMMA MethodOnly ==
  ASSUME method' = method
  PROVE  /\ \A s, c, d : Follows(s, c, d)' <=> Follows(s, c, d)
         /\ \A C, s, branches, end :
              Covers(C, s, branches, end)' <=> Covers(C, s, branches, end)
<1>1. \A s, c, d : Follows(s, c, d)' <=> Follows(s, c, d)
  BY DEF Follows, Moved, Recorded, NaturalAt, Driven, WantedAt
<1>2. Start' = Start
  BY DEF Start
<1> QED BY <1>1, <1>2 DEF Covers

LEMMA StartCovers ==
  ASSUME Typed, NEW s
  PROVE  Covers({Start}, s, <<>>, Start)
<1>1. method.entry \in Rva
  BY TraceAssumption DEF Typed, TraceTypeOK, Method
<1>2. Start \in Config /\ Start.log = <<>>
  BY <1>1 DEF Start, Config
<1> QED BY <1>2 DEF Covers, Prefix

\* The log never loses what it holds.
LEMMA FollowsLog ==
  ASSUME NEW s, NEW c \in Config, NEW d \in Config, Follows(s, c, d)
  PROVE  /\ Prefix(c.log, d.log)
         /\ Len(d.log) <= Len(c.log) + 1
         /\ d.log # c.log => /\ Len(d.log) = Len(c.log) + 1
                             /\ method.jumps[c.at].known
                             /\ d.log[Len(d.log)].rva = c.at
                             /\ d.log[Len(d.log)].occurrence = c.seen[c.at]
<1>1. c.log \in Seq(Branch) /\ d.log \in Seq(Branch)
  BY DEF Config
<1>2. CASE d.log = c.log
  BY <1>1, <1>2 DEF Prefix
<1>3. CASE d.log # c.log
  <2>1. PICK outcome : Recorded(c, d, outcome) /\ method.jumps[c.at].known
    BY <1>3 DEF Follows
  <2> DEFINE b == [rva |-> c.at, occurrence |-> c.seen[c.at],
                   taken |-> outcome, support |-> method.jumps[c.at].support]
  <2>2. d.log = Append(c.log, b) /\ b.rva = c.at /\ b.occurrence = c.seen[c.at]
    BY <2>1 DEF Recorded
  <2> HIDE DEF b
  <2>3. Len(d.log) = Len(c.log) + 1 /\ d.log[Len(c.log) + 1] = b
        /\ \A m \in 1..Len(c.log) : d.log[m] = c.log[m]
    BY <1>1, <2>2
  <2> QED BY <1>1, <2>1, <2>2, <2>3 DEF Prefix
<1> QED BY <1>2, <1>3

LEMMA PrefixTransitive ==
  ASSUME NEW u \in Seq(Branch), NEW v \in Seq(Branch), NEW w \in Seq(Branch),
         Prefix(u, v), Prefix(v, w)
  PROVE  Prefix(u, w)
BY DEF Prefix

LEMMA CoverGrows ==
  ASSUME NEW C, NEW s, NEW branches, NEW end, Covers(C, s, branches, end),
         NEW d \in Config, Follows(s, end, d)
  PROVE  Covers(C \union {d}, s, d.log, d)
<1>1. end \in Config /\ branches \in Seq(Branch) /\ d.log \in Seq(Branch)
  BY DEF Covers, Config
<1>2. Prefix(branches, d.log)
  BY <1>1, FollowsLog DEF Covers
<1>3. \A c \in C : Prefix(c.log, d.log)
  <2> TAKE c \in C
  <2>1. c.log \in Seq(Branch) /\ Prefix(c.log, branches)
    BY DEF Covers, Config
  <2> QED BY <1>1, <1>2, <2>1, PrefixTransitive
<1>4. Prefix(d.log, d.log)
  BY <1>1 DEF Prefix
<1>5. \A c \in (C \union {d}) \ {d} : \E e \in C \union {d} : Follows(s, c, e)
  BY DEF Covers
<1> QED BY <1>3, <1>4, <1>5 DEF Covers

-----------------------------------------------------------------------------
(* A child scenario against the one it was derived from.                    *)

\* The child's extra predicate is for the jump about to execute.
AtFlip(c, b) == /\ method.jumps[c.at].known
                /\ c.at = b.rva
                /\ c.seen[c.at] = b.occurrence

LEMMA AlternateShape ==
  ASSUME NEW s \in Scenario, NEW b \in Branch, NEW c
  PROVE  LET child == Alternate(s, b) IN
           /\ DOMAIN child = DOMAIN s \union {Len(s) + 1}
           /\ Len(s) + 1 \notin DOMAIN s
           /\ \A q \in DOMAIN s : child[q] = s[q]
           /\ child[Len(s) + 1] = Flip(b)
<1>1. s \in Seq(Predicate) /\ Flip(b) \in Predicate
  BY DEF Scenario, Flip, Branch, Predicate
<1> DEFINE f == Flip(b)
<1> HIDE DEF f
<1>2. /\ DOMAIN Append(s, f) = 1..(Len(s) + 1) /\ DOMAIN s = 1..Len(s) /\ Len(s) \in Nat
      /\ \A q \in 1..Len(s) : Append(s, f)[q] = s[q]
      /\ Append(s, f)[Len(s) + 1] = f
  BY <1>1
<1> QED BY <1>2 DEF Alternate, f

LEMMA AlternateInjective ==
  ASSUME NEW s \in Scenario, NEW t \in Scenario, NEW b \in Branch, NEW f \in Branch,
         Alternate(s, b) = Alternate(t, f)
  PROVE  s = t /\ Flip(b) = Flip(f)
<1> DEFINE x == Flip(b)
           y == Flip(f)
<1>1. /\ s \in Seq(Predicate) /\ t \in Seq(Predicate)
      /\ x \in Predicate /\ y \in Predicate
  BY DEF Scenario, Flip, Branch, Predicate
<1>2. Append(s, x) = Append(t, y)
  BY DEF Alternate
<1> HIDE DEF x, y
<1>3. /\ Len(Append(s, x)) = Len(s) + 1 /\ Len(Append(t, y)) = Len(t) + 1
      /\ Append(s, x)[Len(s) + 1] = x /\ Append(t, y)[Len(t) + 1] = y
      /\ \A q \in 1..Len(s) : Append(s, x)[q] = s[q]
      /\ \A q \in 1..Len(t) : Append(t, y)[q] = t[q]
  BY <1>1
<1>4. Len(s) = Len(t) /\ Len(s) \in Nat
  BY <1>1, <1>2, <1>3
<1>5. x = y /\ \A q \in 1..Len(s) : s[q] = t[q]
  BY <1>2, <1>3, <1>4
<1> QED BY <1>1, <1>4, <1>5 DEF x, y

\* Where the flip is not at stake, parent and child go the same way.
LEMMA SameSuccessor ==
  ASSUME NEW s \in Scenario, NEW b \in Branch, Distinctive(s),
         NEW c \in Config, NEW d \in Config, NEW e \in Config, ~AtFlip(c, b),
         Follows(s, c, d), Follows(Alternate(s, b), c, e)
  PROVE  d = e
<1> DEFINE child == Alternate(s, b)
<1>1. /\ DOMAIN child = DOMAIN s \union {Len(s) + 1}
      /\ \A q \in DOMAIN s : child[q] = s[q]
      /\ child[Len(s) + 1] = Flip(b)
  BY AlternateShape
<1>2. method.jumps[c.at].known => WantedAt(child, c) = WantedAt(s, c)
  BY <1>1 DEF WantedAt, AtFlip, Flip
<1> HIDE DEF child
<1>3. SUFFICES d.at = e.at /\ d.seen = e.seen /\ d.log = e.log
  <2>1. /\ d = [at |-> d.at, seen |-> d.seen, log |-> d.log]
        /\ e = [at |-> e.at, seen |-> e.seen, log |-> e.log]
    BY DEF Config
  <2> QED BY <2>1
<1>4. CASE ~method.jumps[c.at].known
  BY <1>4 DEF Follows, Moved
<1>5. CASE method.jumps[c.at].known /\ WantedAt(s, c) = {}
  BY <1>2, <1>5 DEF Follows, Moved, Recorded, child
<1>6. CASE method.jumps[c.at].known /\ WantedAt(s, c) # {}
  <2>1. PICK q \in WantedAt(s, c) :
          Moved(c, d, Driven(c.at, s[q].outcome)) /\ Recorded(c, d, s[q].outcome)
    BY <1>6 DEF Follows
  <2>2. PICK t \in WantedAt(child, c) :
          Moved(c, e, Driven(c.at, child[t].outcome)) /\ Recorded(c, e, child[t].outcome)
    BY <1>2, <1>6 DEF Follows, child
  <2>3. t \in WantedAt(s, c) /\ q = t /\ child[t] = s[t]
    BY <1>1, <1>2, <1>6, <2>1, <2>2 DEF WantedAt, Distinctive
  <2> QED BY <2>1, <2>2, <2>3 DEF Moved, Recorded
<1> QED BY <1>4, <1>5, <1>6

\* An emulation goes one way.
LEMMA Deterministic ==
  ASSUME NEW s, Distinctive(s),
         NEW c \in Config, NEW d \in Config, NEW e \in Config,
         Follows(s, c, d), Follows(s, c, e)
  PROVE  d = e
<1>1. SUFFICES d.at = e.at /\ d.seen = e.seen /\ d.log = e.log
  <2>1. /\ d = [at |-> d.at, seen |-> d.seen, log |-> d.log]
        /\ e = [at |-> e.at, seen |-> e.seen, log |-> e.log]
    BY DEF Config
  <2> QED BY <2>1
<1>2. CASE ~method.jumps[c.at].known
  BY <1>2 DEF Follows, Moved
<1>3. CASE method.jumps[c.at].known /\ WantedAt(s, c) = {}
  BY <1>3 DEF Follows, Moved, Recorded
<1>4. CASE method.jumps[c.at].known /\ WantedAt(s, c) # {}
  <2>1. PICK q \in WantedAt(s, c) :
          Moved(c, d, Driven(c.at, s[q].outcome)) /\ Recorded(c, d, s[q].outcome)
    BY <1>4 DEF Follows
  <2>2. PICK t \in WantedAt(s, c) :
          Moved(c, e, Driven(c.at, s[t].outcome)) /\ Recorded(c, e, s[t].outcome)
    BY <1>4 DEF Follows
  <2>3. q = t
    BY <2>1, <2>2 DEF WantedAt, Distinctive
  <2> QED BY <2>1, <2>2, <2>3 DEF Moved, Recorded
<1> QED BY <1>2, <1>3, <1>4

\* It goes the same way for the same outcomes, in whatever order they were pushed.
LEMMA SameForcesFollow ==
  ASSUME NEW s, NEW t, SameForces(s, t), NEW c, NEW d, Follows(s, c, d)
  PROVE  Follows(t, c, d)
<1>1. \A q \in DOMAIN s : \E k \in DOMAIN t : t[k] = s[q]
  BY DEF SameForces
<1>2. \A k \in DOMAIN t : \E q \in DOMAIN s : s[q] = t[k]
  BY DEF SameForces
<1>3. WantedAt(s, c) = {} <=> WantedAt(t, c) = {}
  BY <1>1, <1>2 DEF WantedAt
<1>4. \A q \in WantedAt(s, c) : \E k \in WantedAt(t, c) : t[k] = s[q]
  BY <1>1 DEF WantedAt
<1> QED BY <1>3, <1>4 DEF Follows

\* A branch with the other outcome, written out.
LEMMA OtherOutcome ==
  ASSUME NEW b \in Branch
  PROVE  [b EXCEPT !.taken = ~@] = [rva |-> b.rva, occurrence |-> b.occurrence,
                                    taken |-> ~b.taken, support |-> b.support]
BY DEF Branch

\* At the flip, the child records the other outcome.
LEMMA FlippedSuccessor ==
  ASSUME NEW s \in Scenario, NEW b \in Branch, Distinctive(Alternate(s, b)),
         NEW c \in Config, NEW e \in Config, AtFlip(c, b), Follows(Alternate(s, b), c, e)
  PROVE  e.log = Append(c.log, [rva |-> b.rva, occurrence |-> b.occurrence,
                                taken |-> ~b.taken, support |-> method.jumps[c.at].support])
<1> DEFINE child == Alternate(s, b)
<1>1. /\ Len(s) + 1 \in DOMAIN child
      /\ child[Len(s) + 1] = Flip(b)
  BY AlternateShape
<1> HIDE DEF child
<1>2. Len(s) + 1 \in WantedAt(child, c)
  BY <1>1 DEF WantedAt, AtFlip, Flip
<1>3. PICK q \in WantedAt(child, c) : Recorded(c, e, child[q].outcome)
  BY <1>2 DEF Follows, child, AtFlip
<1>4. q = Len(s) + 1
  <2>1. Distinctive(child)
    BY DEF child
  <2>2. q \in DOMAIN child /\ child[q].rva = child[Len(s) + 1].rva
    BY <1>2, <1>3 DEF WantedAt
  <2> QED BY <1>1, <2>1, <2>2 DEF Distinctive
<1> QED BY <1>1, <1>3, <1>4 DEF Recorded, Flip, AtFlip

Unique(branches) ==
  \A m, k \in DOMAIN branches :
    branches[m].rva = branches[k].rva /\ branches[m].occurrence = branches[k].occurrence
      => m = k

\* The log shares p's branches before the n-th and holds the n-th flipped.
Flipped(branches, p, n) == /\ Len(branches) >= n
                           /\ \A m \in 1..(n - 1) : branches[m] = p[m]
                           /\ branches[n] = [p[n] EXCEPT !.taken = ~@]

\* One jump of the child: it stays where its parent has been, or flips.
LEMMA Tracks ==
  ASSUME NEW s \in Scenario, NEW p \in Seq(Branch), Unique(p), NEW n \in DOMAIN p,
         Distinctive(s), Distinctive(Alternate(s, p[n])),
         NEW C, NEW end, Covers(C, s, p, end), NEW c \in C, Len(c.log) < n,
         NEW e \in Config, Follows(Alternate(s, p[n]), c, e)
  PROVE  \/ Len(e.log) < n /\ e \in C
         \/ Flipped(e.log, p, n)
<1> DEFINE b == p[n]
<1>0. /\ b \in Branch /\ n \in Nat /\ n <= Len(p) /\ n >= 1 /\ Len(p) \in Nat
      /\ DOMAIN p = 1..Len(p)
      /\ c \in Config /\ c.log \in Seq(Branch) /\ e.log \in Seq(Branch)
  BY DEF Covers, Config
<1>1. c # end
  BY <1>0 DEF Covers
<1>2. PICK d \in C : Follows(s, c, d)
  BY <1>1 DEF Covers
<1>3. /\ d \in Config /\ d.log \in Seq(Branch)
      /\ Prefix(d.log, p) /\ Prefix(c.log, p)
  BY <1>2 DEF Covers, Config
<1>4. /\ Prefix(c.log, d.log)
      /\ Len(d.log) <= Len(c.log) + 1
      /\ d.log # c.log => /\ Len(d.log) = Len(c.log) + 1
                          /\ method.jumps[c.at].known
                          /\ d.log[Len(d.log)].rva = c.at
                          /\ d.log[Len(d.log)].occurrence = c.seen[c.at]
  BY <1>0, <1>2, <1>3, FollowsLog
<1> HIDE DEF b
<1>5. CASE AtFlip(c, b)
  <2>1. PICK outcome : Recorded(c, d, outcome)
    BY <1>2, <1>5 DEF Follows, AtFlip
  <2> DEFINE r == [rva |-> c.at, occurrence |-> c.seen[c.at],
                   taken |-> outcome, support |-> method.jumps[c.at].support]
             f == [rva |-> b.rva, occurrence |-> b.occurrence,
                   taken |-> ~b.taken, support |-> method.jumps[c.at].support]
  <2>2. r.rva = b.rva /\ r.occurrence = b.occurrence
    BY <1>5 DEF AtFlip
  <2>3. d.log = Append(c.log, r)
    BY <2>1 DEF Recorded
  <2>4. e.log = Append(c.log, f)
    BY <1>0, <1>5, FlippedSuccessor DEF b
  <2>5. p[Len(c.log) + 1] = r /\ Len(c.log) + 1 \in DOMAIN p
    <3> HIDE DEF r
    <3>1. Len(d.log) = Len(c.log) + 1 /\ d.log[Len(c.log) + 1] = r
      BY <1>0, <2>3
    <3> QED BY <1>0, <1>3, <3>1 DEF Prefix
  <2>6. n = Len(c.log) + 1
    BY <2>2, <2>5 DEF Unique, b
  <2>7. f = [b EXCEPT !.taken = ~@]
    <3>1. b.support = method.jumps[c.at].support
      BY <2>5, <2>6 DEF b
    <3>2. f = [rva |-> b.rva, occurrence |-> b.occurrence, taken |-> ~b.taken,
               support |-> b.support]
      BY <3>1
    <3> QED BY <1>0, <3>2, OtherOutcome
  <2> HIDE DEF f
  <2>8. Len(e.log) = n /\ e.log[n] = f /\ \A m \in 1..(n - 1) : e.log[m] = c.log[m]
    BY <1>0, <2>4, <2>6
  <2>9. \A m \in 1..(n - 1) : c.log[m] = p[m]
    BY <1>0, <1>3, <2>6 DEF Prefix
  <2> QED BY <1>0, <2>7, <2>8, <2>9 DEF Flipped, b
<1>6. CASE ~AtFlip(c, b)
  <2>1. d = e
    BY <1>0, <1>2, <1>3, <1>6, SameSuccessor DEF b
  <2>2. SUFFICES ASSUME Len(d.log) >= n PROVE FALSE
    BY <1>0, <1>2, <1>3, <2>1
  <2>3. d.log # c.log /\ Len(d.log) = n
    BY <1>0, <1>3, <1>4, <2>2
  <2>4. d.log[n] = b
    BY <1>0, <1>3, <2>3 DEF Prefix, b
  <2> QED BY <1>4, <1>6, <2>3, <2>4 DEF AtFlip
<1> QED BY <1>5, <1>6

-----------------------------------------------------------------------------
(* The inductive invariant.                                                 *)

\* The processor goes where the recorded outcome says, unless a predicate for that
\* occurrence forced it; then it goes where force_condition drives it.
Faithful(s, branches, route) ==
  /\ Len(route) = Len(branches)
  /\ \A m \in DOMAIN branches :
       LET b == branches[m] IN
         /\ (\A q \in DOMAIN s : s[q].rva # b.rva) => route[m] = b.taken
         /\ \A q \in DOMAIN s :
              s[q].rva = b.rva /\ s[q].occurrence = b.occurrence
                => b.taken = s[q].outcome /\ route[m] = Driven(b.rva, b.taken)

\* No occurrence of a jump is recorded twice.
Counted == /\ Unique(log)
           /\ \A m \in DOMAIN log : log[m].occurrence < seen[log[m].rva]

\* The emulation under way, or just over.
Current == /\ pc \in {"trace", "expand"} => ReachesNow /\ Faithful(scenario, log, went)
           /\ pc = "expand" => /\ trace.branches = log
                               /\ trace.completed => at = "ret"

\* Every recorded path is the beginning of a deterministic emulation.
Past ==
  \A i \in DOMAIN paths :
    LET p == paths[i].trace.branches IN
      /\ Reaches(paths[i].scenario, p, paths[i].trace.completed)
      /\ Unique(p)
      /\ Faithful(paths[i].scenario, p, routes[i])

\* Where path i has been, before its n-th branch.
Inside(i, n) ==
  /\ Len(log) < n
  /\ \E C \in SUBSET Config :
       Now \in C /\ \E end \in C : Covers(C, paths[i].scenario, paths[i].trace.branches, end)

\* The child under way follows its parent or has taken the other side.
Tracking ==
  pc \in {"trace", "expand"} /\ scenario # <<>> =>
    \E i \in DOMAIN paths : \E n \in DOMAIN paths[i].trace.branches :
      /\ scenario = Alternate(paths[i].scenario, paths[i].trace.branches[n])
      /\ Inside(i, n) \/ Flipped(log, paths[i].trace.branches, n)

\* Where path i, which forces the same outcomes, has been, or beyond its end.
Along(i) ==
  LET p == paths[i].trace.branches IN
    \/ \E C \in SUBSET Config : \E end \in C :
         /\ Now \in C
         /\ Covers(C, paths[i].scenario, p, end)
         /\ paths[i].trace.completed => end.at = "ret"
    \/ Prefix(p, log) /\ ~paths[i].trace.completed

\* The scenario under way goes along every path that forces the same outcomes.
Repeating ==
  pc \in {"trace", "expand"} =>
    \A i \in DOMAIN paths : SameForces(paths[i].scenario, scenario) => Along(i)

EmulationInv == /\ Typed /\ Counted /\ Current /\ Past /\ Tracking /\ Repeating
                /\ ReplaysParent /\ RepeatsShowNothing

LEMMA EmulationInit == TraceInit /\ Searched => EmulationInv
<1> SUFFICES ASSUME TraceInit, Searched PROVE EmulationInv
  OBVIOUS
<1>1. Typed
  BY TypedInit
<1>2. pc = "pop" /\ DOMAIN paths = {} /\ DOMAIN log = {}
  BY DEF TraceInit, Init
<1> QED BY <1>1, <1>2 DEF EmulationInv, Counted, Unique, Current, Past, Tracking, Repeating,
                          ReplaysParent, RepeatsShowNothing

\* Of the state, these speak of the method, the paths and the emulation alone.
LEMMA FaithfulMethod ==
  ASSUME method' = method
  PROVE  \A s, branches, route : Faithful(s, branches, route)' <=> Faithful(s, branches, route)
BY DEF Faithful, Driven

LEMMA ConstantOperators ==
  /\ \A s, b : Alternate(s, b)' = Alternate(s, b)
  /\ \A u, v, n : Diverges(u, v, n)' <=> Diverges(u, v, n)
  /\ \A u, v, n : Flipped(u, v, n)' <=> Flipped(u, v, n)
  /\ \A u, v : /\ Prefix(u, v)' <=> Prefix(u, v)
               /\ SameForces(u, v)' <=> SameForces(u, v)
<1>1. \A s, b : Alternate(s, b)' = Alternate(s, b)
  BY DEF Alternate, Flip
<1>2. \A u, v, n : Diverges(u, v, n)' <=> Diverges(u, v, n)
  BY DEF Diverges
<1>3. \A u, v, n : Flipped(u, v, n)' <=> Flipped(u, v, n)
  BY DEF Flipped
<1>4. \A u, v : (Prefix(u, v)' <=> Prefix(u, v)) /\ (SameForces(u, v)' <=> SameForces(u, v))
  BY DEF Prefix, SameForces
<1> QED BY <1>1, <1>2, <1>3, <1>4

LEMMA PastKept ==
  ASSUME method' = method, paths' = paths, routes' = routes
  PROVE  /\ Past => Past'
         /\ ReplaysParent => ReplaysParent'
         /\ RepeatsShowNothing => RepeatsShowNothing'
<1>1. \A s, branches, r : Reaches(s, branches, r) => Reaches(s, branches, r)'
  BY MethodOnly DEF Reaches
<1>2. Past => Past'
  BY <1>1, FaithfulMethod DEF Past, Unique
<1>3. ReplaysParent => ReplaysParent'
  BY ConstantOperators DEF ReplaysParent
<1>4. RepeatsShowNothing => RepeatsShowNothing'
  BY ConstantOperators DEF RepeatsShowNothing
<1> QED BY <1>2, <1>3, <1>4

\* A path is followed for as long as the emulation stands where it stood.
LEMMA AlongKept ==
  ASSUME NEW i, method' = method, paths' = paths, Now' = Now, log' = log, Along(i)
  PROVE  Along(i)'
BY MethodOnly, ConstantOperators DEF Along

\* Steps that leave the emulation and the paths alone.
LEMMA QuietStep ==
  ASSUME EmulationInv, Typed', UNCHANGED <<paths, method, emulation, routes>>,
         pc' \in {"trace", "expand"} => pc \in {"trace", "expand"} /\ scenario' = scenario,
         pc' = "expand" => trace'.branches = log /\ (trace'.completed => at = "ret")
  PROVE  EmulationInv'
<1>1. Past' /\ ReplaysParent' /\ RepeatsShowNothing'
  BY PastKept DEF EmulationInv
<1>2. Counted'
  BY DEF EmulationInv, Counted, Unique, emulation
<1>3. Now' = Now
  BY DEF Now, emulation
<1>4. Current'
  <2> SUFFICES ASSUME pc' \in {"trace", "expand"} PROVE Current'
    BY DEF Current
  <2>1. ReachesNow'
    BY <1>3, MethodOnly DEF EmulationInv, Current, ReachesNow, emulation
  <2>2. Faithful(scenario, log, went)'
    BY FaithfulMethod DEF EmulationInv, Current, emulation
  <2> QED BY <2>1, <2>2 DEF EmulationInv, Current, emulation
<1>5. Tracking'
  <2> SUFFICES ASSUME pc' \in {"trace", "expand"}, scenario' # <<>> PROVE Tracking'
    BY DEF Tracking
  <2>1. PICK i \in DOMAIN paths : \E n \in DOMAIN paths[i].trace.branches :
          /\ scenario = Alternate(paths[i].scenario, paths[i].trace.branches[n])
          /\ Inside(i, n) \/ Flipped(log, paths[i].trace.branches, n)
    BY DEF EmulationInv, Tracking
  <2>2. PICK n \in DOMAIN paths[i].trace.branches :
          /\ scenario = Alternate(paths[i].scenario, paths[i].trace.branches[n])
          /\ Inside(i, n) \/ Flipped(log, paths[i].trace.branches, n)
    BY <2>1
  <2>3. Inside(i, n) => Inside(i, n)'
    BY <1>3, MethodOnly DEF Inside, emulation
  <2>4. /\ scenario' = Alternate(paths[i].scenario, paths[i].trace.branches[n])'
        /\ Inside(i, n)' \/ Flipped(log, paths[i].trace.branches, n)'
    BY <2>2, <2>3, ConstantOperators DEF emulation
  <2> QED BY <2>4 DEF Tracking
<1>6. Repeating'
  BY <1>3, AlongKept, ConstantOperators DEF EmulationInv, Repeating, emulation
<1> QED BY <1>1, <1>2, <1>4, <1>5, <1>6 DEF EmulationInv

LEMMA LaunchStep ==
  ASSUME Searched, EmulationInv, Typed', Launch
  PROVE  EmulationInv'
<1>0. /\ UNCHANGED <<method, paths, routes>> /\ log' = <<>> /\ went' = <<>>
      /\ pc = "pop" /\ pc' = "trace" /\ queue # <<>> /\ scenario' = Head(queue)
  BY DEF Launch, StartTrace
<1>1. Past' /\ ReplaysParent' /\ RepeatsShowNothing'
  BY <1>0, PastKept DEF EmulationInv
<1>2. Counted'
  BY <1>0 DEF Counted, Unique
<1>3. Now' = Start
  BY DEF Launch, Now, Start
<1>4. Current'
  <2>1. Covers({Start}, scenario', <<>>, Start)
    BY StartCovers DEF EmulationInv
  <2>2. {Start} \in SUBSET Config
    BY <2>1 DEF Covers
  <2>3. ReachesNow'
    BY <1>0, <1>3, <2>1, <2>2, MethodOnly DEF ReachesNow
  <2>4. Faithful(scenario, log, went)'
    BY <1>0 DEF Faithful
  <2> QED BY <1>0, <2>3, <2>4 DEF Current
<1>5. Tracking'
  <2> SUFFICES ASSUME scenario' # <<>> PROVE Tracking'
    BY DEF Tracking
  <2>1. 1 \in DOMAIN queue /\ scenario' = queue[1]
    BY <1>0 DEF Searched, TypeOK
  <2>2. PICK i \in DOMAIN paths : FlipOf(scenario', i)
    BY <1>0, <2>1 DEF Searched
  <2>3. PICK n \in DOMAIN paths[i].trace.branches :
          scenario' = Alternate(paths[i].scenario, paths[i].trace.branches[n])
    BY <2>2 DEF FlipOf
  <2>4. PICK C \in SUBSET Config : \E end \in C :
          Covers(C, paths[i].scenario, paths[i].trace.branches, end)
    BY DEF EmulationInv, Past, Reaches
  <2>5. Start \in C
    BY <2>4 DEF Covers
  <2>6. n \in Nat /\ n > 0
    <3>1. paths[i] \in Path
      BY DEF Searched, TypeOK
    <3>2. paths[i].trace.branches \in Seq(Branch)
      BY <3>1 DEF Path, Trace
    <3> QED BY <3>2
  <2>7. Len(log') < n
    BY <1>0, <2>6
  <2>8. Inside(i, n)'
    BY <1>0, <1>3, <2>4, <2>5, <2>7, MethodOnly DEF Inside
  <2> QED BY <1>0, <2>3, <2>8, ConstantOperators DEF Tracking
<1>6. Repeating'
  <2> SUFFICES ASSUME NEW i \in DOMAIN paths PROVE Along(i)'
    BY <1>0 DEF Repeating
  <2>1. PICK C \in SUBSET Config : \E end \in C :
          /\ Covers(C, paths[i].scenario, paths[i].trace.branches, end)
          /\ paths[i].trace.completed => end.at = "ret"
    BY DEF EmulationInv, Past, Reaches
  <2>2. Start \in C
    BY <2>1 DEF Covers
  <2> QED BY <1>0, <1>3, <2>1, <2>2, MethodOnly DEF Along
<1> QED BY <1>1, <1>2, <1>4, <1>5, <1>6 DEF EmulationInv

\* One jump and the log.
LEMMA CountedStep ==
  ASSUME Typed, Counted, UnknownJump \/ NaturalJump \/ ForcedJump
  PROVE  Counted'
<1>0. /\ at \in Rva /\ seen \in [Rva -> Nat] /\ log \in Seq(Branch)
      /\ seen' = [seen EXCEPT ![at] = @ + 1]
  <2>1. Typed => Now \in Config
    BY NowConfig
  <2> QED BY <2>1 DEF UnknownJump, NaturalJump, ForcedJump, RecordJump, Proceed, Running,
                      Now, Config
<1>1. \A m \in DOMAIN log : log[m] \in Branch /\ log[m].rva \in Rva /\ log[m].occurrence \in Nat
  <2>1. \A m \in DOMAIN log : log[m] \in Branch
    BY <1>0
  <2> QED BY <2>1 DEF Branch
<1>2. \A m \in DOMAIN log : log[m].occurrence < seen'[log[m].rva]
  <2>1. \A r \in Rva : seen[r] \in Nat /\ seen'[r] \in Nat /\ seen[r] <= seen'[r]
    BY <1>0
  <2> QED BY <1>1, <2>1 DEF Counted
<1>3. CASE log' = log
  BY <1>2, <1>3 DEF Counted, Unique
<1>4. ASSUME NEW outcome, NEW direction, RecordJump(outcome, direction)
      PROVE  Counted'
  <2> DEFINE b == [rva |-> at, occurrence |-> seen[at],
                   taken |-> outcome, support |-> Code.support]
  <2>1. log' = Append(log, b) /\ b.rva = at /\ b.occurrence = seen[at]
    BY <1>4 DEF RecordJump
  <2> HIDE DEF b
  <2>2. /\ DOMAIN log' = DOMAIN log \union {Len(log) + 1}
        /\ log'[Len(log) + 1] = b
        /\ \A m \in DOMAIN log : log'[m] = log[m]
    BY <1>0, <2>1
  <2>3. \A m \in DOMAIN log : ~(log[m].rva = b.rva /\ log[m].occurrence = b.occurrence)
    BY <1>0, <1>1, <2>1 DEF Counted
  <2>4. Unique(log')
    BY <2>2, <2>3 DEF Counted, Unique
  <2>5. \A m \in DOMAIN log' : log'[m].occurrence < seen'[log'[m].rva]
    <3>1. b.occurrence < seen'[b.rva]
      BY <1>0, <2>1
    <3> QED BY <1>2, <2>2, <3>1
  <2> QED BY <2>4, <2>5 DEF Counted, Unique
<1> QED BY <1>3, <1>4 DEF UnknownJump, NaturalJump, ForcedJump

LEMMA RecordFaithful ==
  ASSUME Typed, Faithful(scenario, log, went), NEW outcome \in BOOLEAN,
         NEW direction \in BOOLEAN, RecordJump(outcome, direction),
         (\A q \in DOMAIN scenario : scenario[q].rva # at) => direction = outcome,
         \A q \in Wanted : outcome = scenario[q].outcome /\ direction = Driven(at, outcome)
  PROVE  Faithful(scenario, log, went)'
<1> DEFINE b == [rva |-> at, occurrence |-> seen[at],
                 taken |-> outcome, support |-> Code.support]
<1>1. /\ log \in Seq(Branch) /\ went \in Seq(BOOLEAN) /\ Len(went) = Len(log)
  BY DEF Typed, TraceTypeOK
<1>2. /\ log' = Append(log, b) /\ went' = Append(went, direction)
      /\ UNCHANGED <<scenario, method>>
      /\ b.rva = at /\ b.occurrence = seen[at] /\ b.taken = outcome
  BY DEF RecordJump, searchVars
<1> HIDE DEF b
<1>3. /\ DOMAIN log' = DOMAIN log \union {Len(log) + 1}
      /\ log'[Len(log) + 1] = b /\ went'[Len(log) + 1] = direction
      /\ \A m \in DOMAIN log : log'[m] = log[m] /\ went'[m] = went[m]
      /\ Len(went') = Len(log')
  BY <1>1, <1>2
<1>4. /\ (\A q \in DOMAIN scenario : scenario[q].rva # b.rva) => direction = b.taken
      /\ \A q \in DOMAIN scenario :
           scenario[q].rva = b.rva /\ scenario[q].occurrence = b.occurrence
             => b.taken = scenario[q].outcome /\ direction = Driven(b.rva, b.taken)
  BY <1>2 DEF Wanted
<1>5. Faithful(scenario, log', went')
  BY <1>3, <1>4 DEF Faithful
<1> QED BY <1>2, <1>5, FaithfulMethod

LEMMA FaithfulStep ==
  ASSUME Searched, Typed, Distinctive(scenario), Faithful(scenario, log, went),
         UnknownJump \/ NaturalJump \/ ForcedJump
  PROVE  Faithful(scenario, log, went)'
<1>1. CASE UnknownJump
  BY <1>1, FaithfulMethod DEF UnknownJump, searchVars
<1>2. CASE NaturalJump
  <2>1. Natural \in BOOLEAN /\ RecordJump(Natural, Natural) /\ Wanted = {}
    BY <1>2 DEF NaturalJump, Natural
  <2> QED BY <2>1, RecordFaithful
<1>3. CASE ForcedJump
  <2>1. PICK q \in Wanted : RecordJump(scenario[q].outcome, Driven(at, scenario[q].outcome))
    BY <1>3 DEF ForcedJump, Driven, Code
  <2>2. scenario \in Seq(Predicate)
    BY DEF Searched, TypeOK, Scenario
  <2>3. scenario[q] \in Predicate /\ q \in DOMAIN scenario /\ scenario[q].rva = at
    BY <2>2 DEF Wanted
  <2>4. scenario[q].outcome \in BOOLEAN
    BY <2>3 DEF Predicate
  <2>5. Driven(at, scenario[q].outcome) \in BOOLEAN
    BY <2>4 DEF Driven
  <2>6. \A t \in Wanted : t = q
    BY <2>3 DEF Wanted, Distinctive
  <2> QED BY <2>1, <2>3, <2>4, <2>5, <2>6, RecordFaithful
<1> QED BY <1>1, <1>2, <1>3

\* A member of the scenario's family: the shape the search gives it.
LEMMA ParentShape ==
  ASSUME Searched, NEW i \in DOMAIN paths, NEW n \in DOMAIN paths[i].trace.branches
  PROVE  /\ paths[i].scenario \in Scenario
         /\ Distinctive(paths[i].scenario)
         /\ paths[i].trace.branches \in Seq(Branch)
         /\ paths[i].trace.branches[n] \in Branch
         /\ n \in Nat /\ n > 0 /\ n <= Len(paths[i].trace.branches)
         /\ paths[i].trace.completed \in BOOLEAN
<1>1. paths[i] \in Path
  BY DEF Searched, TypeOK
<1>2. paths[i].trace.branches \in Seq(Branch) /\ paths[i].trace.completed \in BOOLEAN
  BY <1>1 DEF Path, Trace
<1> QED BY <1>1, <1>2 DEF Path, Searched

LEMMA JumpStep ==
  ASSUME Searched, EmulationInv, Typed', UnknownJump \/ NaturalJump \/ ForcedJump
  PROVE  EmulationInv'
<1>0. /\ Follows(scenario, Now, Now') /\ UNCHANGED <<searchVars, method, routes>>
      /\ pc = "trace" /\ Now' \in Config /\ Now \in Config
      /\ Distinctive(scenario) /\ ReachesNow /\ Faithful(scenario, log, went)
  <2>1. pc = "trace"
    BY DEF UnknownJump, NaturalJump, ForcedJump, RecordJump, Running
  <2>2. Now' \in Config
    <3>1. Typed' => (Now \in Config)'
      BY NowConfig, PTL
    <3> QED BY <3>1 DEF Config, Branch, Now
  <2> QED BY <2>1, <2>2, NowConfig, JumpFollows DEF EmulationInv, Current, Searched
<1>1. Past' /\ ReplaysParent' /\ RepeatsShowNothing'
  BY <1>0, PastKept DEF EmulationInv, searchVars
<1>2. Counted'
  BY CountedStep DEF EmulationInv
<1>3. Current'
  <2>1. PICK C \in SUBSET Config : Covers(C, scenario, log, Now)
    BY <1>0 DEF ReachesNow
  <2>2. Covers(C \union {Now'}, scenario, Now'.log, Now')
    BY <1>0, <2>1, CoverGrows
  <2>3. Now'.log = log' /\ C \union {Now'} \in SUBSET Config
    BY <1>0 DEF Now
  <2>4. ReachesNow'
    BY <1>0, <2>2, <2>3, MethodOnly DEF ReachesNow, searchVars
  <2>5. Faithful(scenario, log, went)'
    BY <1>0, FaithfulStep DEF EmulationInv
  <2> QED BY <1>0, <2>4, <2>5 DEF Current, searchVars
<1>4. Tracking'
  <2> SUFFICES ASSUME scenario # <<>> PROVE Tracking'
    BY <1>0 DEF Tracking, searchVars
  <2>1. PICK i \in DOMAIN paths : \E n \in DOMAIN paths[i].trace.branches :
          /\ scenario = Alternate(paths[i].scenario, paths[i].trace.branches[n])
          /\ Inside(i, n) \/ Flipped(log, paths[i].trace.branches, n)
    BY <1>0 DEF EmulationInv, Tracking
  <2> DEFINE p == paths[i].trace.branches
             s == paths[i].scenario
  <2>2. PICK n \in DOMAIN p :
          scenario = Alternate(s, p[n]) /\ (Inside(i, n) \/ Flipped(log, p, n))
    BY <2>1
  <2>3. /\ s \in Scenario /\ Distinctive(s) /\ p \in Seq(Branch) /\ Unique(p)
        /\ n \in Nat /\ n > 0 /\ n <= Len(p)
    BY ParentShape DEF EmulationInv, Past
  <2>4. /\ Now.log = log /\ log \in Seq(Branch)
        /\ Now'.log = log' /\ log' \in Seq(Branch)
    BY <1>0 DEF Now, Config
  <2> HIDE DEF p, s
  <2>5. CASE Inside(i, n)
    <3>1. PICK C \in SUBSET Config : /\ Now \in C
                                     /\ \E end \in C : Covers(C, s, p, end)
      BY <2>5 DEF Inside, s, p
    <3>2. PICK end \in C : Covers(C, s, p, end)
      BY <3>1
    <3>3. \/ Len(Now'.log) < n /\ Now' \in C
          \/ Flipped(Now'.log, p, n)
      <4>1. Len(Now.log) < n
        BY <2>4, <2>5 DEF Inside
      <4>2. Follows(Alternate(s, p[n]), Now, Now')
        BY <1>0, <2>2
      <4>3. Distinctive(Alternate(s, p[n]))
        BY <1>0, <2>2
      <4> QED BY <1>0, <2>3, <3>1, <3>2, <4>1, <4>2, <4>3, Tracks
    <3>4. Inside(i, n)' \/ Flipped(log', p, n)
      BY <1>0, <2>4, <3>2, <3>3, MethodOnly DEF Inside, s, p, searchVars
    <3> QED BY <1>0, <2>2, <3>4, ConstantOperators DEF Tracking, searchVars, s, p
  <2>6. CASE Flipped(log, p, n)
    <3>1. Prefix(log, log')
      BY <1>0, <2>4, FollowsLog
    <3>2. \A m \in 1..n : log'[m] = log[m]
      BY <2>3, <2>4, <2>6, <3>1 DEF Flipped, Prefix
    <3>3. Flipped(log', p, n)
      BY <2>3, <2>4, <2>6, <3>1, <3>2 DEF Flipped, Prefix
    <3> QED BY <1>0, <2>2, <3>3, ConstantOperators DEF Tracking, searchVars, s, p
  <2> QED BY <2>2, <2>5, <2>6
<1>5. Repeating'
  <2> SUFFICES ASSUME NEW i \in DOMAIN paths, SameForces(paths[i].scenario, scenario)
               PROVE  Along(i)'
    BY <1>0, ConstantOperators DEF Repeating, searchVars
  <2> DEFINE p == paths[i].trace.branches
             t == paths[i].scenario
  <2>1. Along(i) /\ paths' = paths /\ method' = method
    BY <1>0 DEF EmulationInv, Repeating, searchVars
  <2>2. p \in Seq(Branch)
    <3>1. paths[i] \in Path
      BY DEF Searched, TypeOK
    <3> QED BY <3>1 DEF Path, Trace
  <2>3. /\ Now.log = log /\ log \in Seq(Branch) /\ Now.at = at
        /\ Now'.log = log' /\ log' \in Seq(Branch)
    BY <1>0 DEF Now, Config
  <2>4. Prefix(log, log') /\ at \in Rva
    BY <1>0, <2>3, FollowsLog DEF Follows
  <2>5. CASE Prefix(p, log) /\ ~paths[i].trace.completed
    <3>1. Prefix(p, log')
      BY <2>2, <2>3, <2>4, <2>5, PrefixTransitive
    <3> QED BY <2>1, <2>5, <3>1, ConstantOperators DEF Along
  <2>6. CASE \E C \in SUBSET Config : \E end \in C :
               /\ Now \in C /\ Covers(C, t, p, end)
               /\ paths[i].trace.completed => end.at = "ret"
    <3>1. PICK C \in SUBSET Config : \E end \in C :
                 /\ Now \in C /\ Covers(C, t, p, end)
                 /\ paths[i].trace.completed => end.at = "ret"
      BY <2>6
    <3>2. PICK end \in C : /\ Now \in C /\ Covers(C, t, p, end)
                           /\ paths[i].trace.completed => end.at = "ret"
      BY <3>1
    <3>3. CASE Now = end
      <4>1. p = log /\ ~paths[i].trace.completed
        BY <2>3, <2>4, <3>2, <3>3, TraceAssumption DEF Covers, Exits
      <4> QED BY <2>1, <2>4, <4>1, ConstantOperators DEF Along
    <3>4. CASE Now # end
      <4>1. PICK d \in C : Follows(t, Now, d)
        BY <3>2, <3>4 DEF Covers
      <4>2. Follows(scenario, Now, d)
        BY <4>1, SameForcesFollow
      <4>3. d \in Config /\ d = Now'
        BY <1>0, <3>2, <4>1, <4>2, Deterministic
      <4>4. Covers(C, t, p, end)'
        BY <2>1, <3>2, MethodOnly
      <4> HIDE DEF p, t
      <4> QED BY <2>1, <3>2, <4>3, <4>4 DEF Along, p, t
    <3> QED BY <3>3, <3>4
  <2> QED BY <2>1, <2>5, <2>6 DEF Along
<1> QED BY <1>1, <1>2, <1>3, <1>4, <1>5 DEF EmulationInv

LEMMA FinishStep ==
  ASSUME EmulationInv, Typed', NEW returned, Finish(returned), returned => at = "ret"
  PROVE  EmulationInv'
<1>1. trace'.branches = log /\ (trace'.completed => at = "ret")
  BY DEF Finish, Outcome
<1> QED BY <1>1, QuietStep DEF Finish, EndTrace

\* What the emulation has recorded of a child, when it ends, diverges from the parent.
LEMMA EndDiverges ==
  ASSUME NEW s, NEW p \in Seq(Branch), NEW n \in DOMAIN p,
         NEW branches \in Seq(Branch), NEW completed \in BOOLEAN,
         \/ /\ Len(branches) < n
            /\ Prefix(branches, p)
            /\ ~completed
         \/ Flipped(branches, p, n),
         NEW parent, parent.trace.branches = p,
         NEW child, child.trace.branches = branches, child.trace.completed = completed
  PROVE  Diverges(parent, child, n)
<1>0. n \in Nat /\ n > 0 /\ n <= Len(p) /\ Len(p) \in Nat /\ Len(branches) \in Nat
  OBVIOUS
<1> DEFINE common == IF Len(branches) < n - 1 THEN Len(branches) ELSE n - 1
<1>1. common \in Nat /\ common <= Len(branches) /\ common <= Len(p) /\ common <= n - 1
      /\ (Len(branches) < n => common = Len(branches))
  BY <1>0 DEF Flipped
<1>2. \A m \in 1..common : branches[m] = p[m]
  BY <1>0, <1>1 DEF Prefix, Flipped
<1>3. (Len(branches) >= n => branches[n] = [p[n] EXCEPT !.taken = ~@])
      /\ (Len(branches) < n => ~completed)
  BY <1>0 DEF Flipped
<1> HIDE DEF common
<1>4. SubSeq(branches, 1, common) = SubSeq(p, 1, common)
  BY <1>1, <1>2
<1> QED BY <1>3, <1>4 DEF Diverges, common

LEMMA RecordStep ==
  ASSUME Searched, EmulationInv, Typed', RecordPath, routes' = Append(routes, went),
         UNCHANGED <<method, emulation>>
  PROVE  EmulationInv'
<1> DEFINE new == [scenario |-> scenario, trace |-> trace]
           k == Len(paths) + 1
<1>0. /\ pc = "expand" /\ pc' = "pop" /\ trace.branches = log
      /\ trace.completed => at = "ret"
      /\ ReachesNow /\ Faithful(scenario, log, went) /\ Distinctive(scenario)
      /\ trace \in Trace /\ log \in Seq(Branch)
  BY DEF RecordPath, EmulationInv, Current, Searched, TypeOK, Typed, TraceTypeOK
<1>1. /\ DOMAIN paths = 1..Len(paths) /\ Len(paths) \in Nat
      /\ DOMAIN paths' = 1..k /\ Len(paths') = k
      /\ \A i \in DOMAIN paths : paths'[i] = paths[i]
      /\ paths'[k] = new
  BY DEF RecordPath, Searched, TypeOK
<1>2. /\ \A i \in DOMAIN paths : routes'[i] = routes[i]
      /\ routes'[k] = went
  <2>1. routes \in Seq(Seq(BOOLEAN)) /\ Len(routes) = Len(paths)
    BY DEF EmulationInv, Typed, TraceTypeOK
  <2> QED BY <1>1, <2>1
<1>3. new.scenario = scenario /\ new.trace = trace
  OBVIOUS
<1> HIDE DEF new, k
<1>4. Counted'
  BY DEF EmulationInv, Counted, Unique, emulation
<1>5. Past'
  <2> SUFFICES ASSUME NEW i \in 1..k, NEW path, path = paths'[i],
                      NEW route, route = routes'[i]
               PROVE  /\ Reaches(path.scenario, path.trace.branches, path.trace.completed)
                      /\ Unique(path.trace.branches)
                      /\ Faithful(path.scenario, path.trace.branches, route)
    <3>1. \A s, branches, r : Reaches(s, branches, r)' <=> Reaches(s, branches, r)
      BY MethodOnly DEF Reaches
    <3> QED BY <1>1, <3>1, FaithfulMethod DEF Past, Unique
  <2>1. CASE i \in DOMAIN paths
    BY <1>1, <1>2, <2>1 DEF EmulationInv, Past
  <2>2. CASE i = k
    <3>1. Reaches(scenario, log, trace.completed)
      BY <1>0 DEF Reaches, ReachesNow, Covers, Now
    <3>2. /\ path.scenario = scenario /\ path.trace.branches = log /\ route = went
          /\ path.trace.completed = trace.completed
      BY <1>0, <1>1, <1>2, <1>3, <2>2
    <3>3. Unique(log)
      BY DEF EmulationInv, Counted
    <3> QED BY <1>0, <3>1, <3>2, <3>3
  <2>3. i \in DOMAIN paths \/ i = k
    BY <1>1 DEF k
  <2> QED BY <2>1, <2>2, <2>3
<1>6. ReplaysParent'
  <2> SUFFICES ASSUME NEW j \in 1..k, paths'[j].scenario # <<>>
               PROVE  \E i \in 1..(j - 1) : \E n \in DOMAIN paths'[i].trace.branches :
                        /\ paths'[j].scenario
                             = Alternate(paths'[i].scenario, paths'[i].trace.branches[n])
                        /\ Diverges(paths'[i], paths'[j], n)
    BY <1>1, ConstantOperators DEF ReplaysParent
  <2>1. CASE j \in DOMAIN paths
    <3>1. \A i \in 1..(j - 1) : i \in DOMAIN paths
      BY <1>1, <2>1
    <3> QED BY <1>1, <2>1, <3>1 DEF EmulationInv, ReplaysParent
  <2>2. CASE j = k
    <3>1. scenario # <<>>
      BY <1>1, <1>3, <2>2
    <3>2. PICK i \in DOMAIN paths : \E n \in DOMAIN paths[i].trace.branches :
            /\ scenario = Alternate(paths[i].scenario, paths[i].trace.branches[n])
            /\ Inside(i, n) \/ Flipped(log, paths[i].trace.branches, n)
      BY <1>0, <3>1 DEF EmulationInv, Tracking
    <3> DEFINE p == paths[i].trace.branches
    <3>3. PICK n \in DOMAIN p : /\ scenario = Alternate(paths[i].scenario, p[n])
                                /\ Inside(i, n) \/ Flipped(log, p, n)
      BY <3>2
    <3>4. p \in Seq(Branch) /\ n \in Nat /\ n > 0 /\ n <= Len(p)
      BY ParentShape
    <3>5. Inside(i, n) => Len(log) < n /\ Prefix(log, p) /\ ~trace.completed
      <4> SUFFICES ASSUME Inside(i, n) PROVE Len(log) < n /\ Prefix(log, p) /\ ~trace.completed
        OBVIOUS
      <4>1. PICK C \in SUBSET Config :
              /\ Now \in C
              /\ \E end \in C : Covers(C, paths[i].scenario, paths[i].trace.branches, end)
        BY DEF Inside
      <4>2. PICK end \in C : Covers(C, paths[i].scenario, p, end)
        BY <4>1
      <4>3. Now.log = log /\ Now.at = at
        BY DEF Now
      <4>4. Prefix(log, p) /\ Len(log) < n
        BY <4>1, <4>2, <4>3 DEF Covers, Inside
      <4>5. Now # end
        BY <3>4, <4>2, <4>3, <4>4 DEF Covers
      <4>6. at \in Rva
        BY <4>1, <4>2, <4>3, <4>5 DEF Covers, Follows
      <4> QED BY <1>0, <4>4, <4>6, TraceAssumption DEF Exits
    <3> HIDE DEF p
    <3>6. Diverges(paths[i], new, n)
      <4>1. trace.completed \in BOOLEAN
        BY <1>0 DEF Trace
      <4>2. paths[i].trace.branches = p /\ new.trace.branches = log
            /\ new.trace.completed = trace.completed
        BY <1>0, <1>3 DEF p
      <4> QED BY <1>0, <3>3, <3>4, <3>5, <4>1, <4>2, EndDiverges
    <3>7. i \in 1..(j - 1) /\ paths'[i] = paths[i] /\ paths'[j] = new
      BY <1>1, <2>2 DEF k
    <3> QED BY <1>3, <3>3, <3>6, <3>7 DEF p
  <2> QED BY <1>1, <2>1, <2>2 DEF k
<1>7. ASSUME NEW i \in DOMAIN paths, SameForces(paths[i].scenario, scenario)
      PROVE  LET p == paths[i].trace.branches IN
               /\ Prefix(log, p) \/ (Prefix(p, log) /\ ~paths[i].trace.completed)
               /\ Prefix(p, log) \/ (Prefix(log, p) /\ ~trace.completed)
  <2> DEFINE p == paths[i].trace.branches
             t == paths[i].scenario
  <2>1. Along(i)
    BY <1>0, <1>7 DEF EmulationInv, Repeating
  <2>2. CASE Prefix(p, log) /\ ~paths[i].trace.completed
    BY <2>2
  <2>3. CASE \E C \in SUBSET Config : \E end \in C :
               /\ Now \in C /\ Covers(C, t, p, end)
               /\ paths[i].trace.completed => end.at = "ret"
    <3>1. PICK C \in SUBSET Config : \E end \in C : Now \in C /\ Covers(C, t, p, end)
      BY <2>3
    <3>2. PICK end \in C : Now \in C /\ Covers(C, t, p, end)
      BY <3>1
    <3>3. Now.log = log /\ Now.at = at /\ Prefix(log, p)
      BY <3>2 DEF Covers, Now
    <3>4. trace.completed => Now = end
      <4>1. Now # end => at \in Rva
        BY <3>2, <3>3 DEF Covers, Follows
      <4> QED BY <1>0, <4>1, TraceAssumption DEF Exits
    <3>5. Now = end => p = log
      BY <3>2, <3>3 DEF Covers
    <3> QED BY <3>3, <3>4, <3>5
  <2> QED BY <2>1, <2>2, <2>3 DEF Along
<1>8. RepeatsShowNothing'
  <2> SUFFICES ASSUME NEW i \in 1..k, NEW j \in 1..k,
                      NEW u, u = paths'[i], NEW v, v = paths'[j],
                      SameForces(u.scenario, v.scenario)
               PROVE  \/ Prefix(v.trace.branches, u.trace.branches)
                      \/ (Prefix(u.trace.branches, v.trace.branches) /\ ~u.trace.completed)
    BY <1>1, ConstantOperators DEF RepeatsShowNothing
  <2>1. i \in DOMAIN paths \/ i = k
    BY <1>1 DEF k
  <2>2. j \in DOMAIN paths \/ j = k
    BY <1>1 DEF k
  <2>3. CASE i \in DOMAIN paths /\ j \in DOMAIN paths
    BY <1>1, <2>3 DEF EmulationInv, RepeatsShowNothing
  <2>4. CASE i \in DOMAIN paths /\ j = k
    BY <1>0, <1>1, <1>3, <1>7, <2>4
  <2>5. CASE i = k /\ j \in DOMAIN paths
    <3>1. SameForces(paths[j].scenario, scenario)
      <4>1. u = new /\ v = paths[j]
        BY <1>1, <2>5
      <4>2. SameForces(scenario, paths[j].scenario)
        BY <1>3, <4>1
      <4>3. \A s, t : SameForces(s, t) => SameForces(t, s)
        BY DEF SameForces
      <4> QED BY <4>2, <4>3
    <3> QED BY <1>0, <1>1, <1>3, <1>7, <2>5, <3>1
  <2>6. CASE i = k /\ j = k
    BY <1>0, <1>1, <1>3, <2>6 DEF Prefix
  <2> QED BY <2>1, <2>2, <2>3, <2>4, <2>5, <2>6
<1> QED BY <1>0, <1>4, <1>5, <1>6, <1>8 DEF EmulationInv, Current, Tracking, Repeating

LEMMA EmulationStep ==
  Searched /\ EmulationInv /\ [TraceNext]_allVars /\ Searched' => EmulationInv'
<1> SUFFICES ASSUME Searched, EmulationInv, [TraceNext]_allVars, Searched'
             PROVE  EmulationInv'
  OBVIOUS
<1>0. Typed'
  BY TypedStep DEF EmulationInv
<1>1. CASE Launch
  BY <1>0, <1>1, LaunchStep
<1>2. CASE UnknownJump \/ NaturalJump \/ ForcedJump
  BY <1>0, <1>2, JumpStep
<1>3. CASE Returned \/ Trapped \/ InstructionLimit \/ TimeLimit
  BY <1>0, <1>3, FinishStep DEF Returned, Trapped, InstructionLimit, TimeLimit
<1>4. CASE RecordPath /\ routes' = Append(routes, went) /\ UNCHANGED <<method, emulation>>
  BY <1>0, <1>4, RecordStep
<1>5. CASE /\ BudgetSpent \/ Exhausted \/ EnqueueAlternate \/ SkipBranch \/ Choose \/ Terminated
           /\ UNCHANGED <<method, emulation, routes>>
  <2>1. /\ paths' = paths
        /\ pc' \in {"trace", "expand"} => UNCHANGED <<pc, scenario, trace>>
    BY <1>5 DEF BudgetSpent, Exhausted, EnqueueAlternate, SkipBranch, Choose, Terminated, vars
  <2> QED BY <1>0, <1>5, <2>1, QuietStep DEF EmulationInv, Current
<1>6. CASE UNCHANGED allVars
  BY <1>0, <1>6, QuietStep DEF allVars, searchVars, EmulationInv, Current
<1> QED BY <1>1, <1>2, <1>3, <1>4, <1>5, <1>6 DEF TraceNext, Search

LEMMA EmulationInvariant == TraceSpec => []EmulationInv
BY SearchHolds, EmulationInit, EmulationStep, PTL DEF TraceSpec

\* The composed state is well typed: no jump is counted more often than the limit.
THEOREM TraceTypeCorrect == TraceSpec => []TraceTypeOK
<1>1. EmulationInv => TraceTypeOK
  BY DEF EmulationInv, Typed
<1> QED BY <1>1, EmulationInvariant, PTL

\* Every forced scenario replays its parent up to the flipped branch.
THEOREM ParentReplayed == TraceSpec => []ReplaysParent
<1>1. EmulationInv => ReplaysParent
  BY DEF EmulationInv
<1> QED BY <1>1, EmulationInvariant, PTL

\* Scenarios that force the same outcomes in two orders are mere repeats of each other.
THEOREM RepeatsAlike == TraceSpec => []RepeatsShowNothing
<1>1. EmulationInv => RepeatsShowNothing
  BY DEF EmulationInv
<1> QED BY <1>1, EmulationInvariant, PTL

\* A search that ends within its budget has driven the processor both ways at every
\* application branch it recorded and may flip.
THEOREM BothSides == TraceSpec => []BothSidesExecuted
<1>1. Searched /\ EmulationInv => BothSidesExecuted
  <2> SUFFICES ASSUME Searched, EmulationInv, pc = "done", Len(paths) < MaxScenarios,
                      NEW i \in DOMAIN paths, NEW n \in DOMAIN paths[i].trace.branches,
                      ~paths[i].trace.branches[n].support,
                      CanPush(paths[i].scenario, paths[i].trace.branches[n]),
                      (~paths[i].trace.branches[n].taken)
                        \notin method.jumps[paths[i].trace.branches[n].rva].inverted
               PROVE  \E j \in DOMAIN paths :
                        /\ paths[j].scenario
                             = Alternate(paths[i].scenario, paths[i].trace.branches[n])
                        /\ OtherSide(i, j, n)
    BY DEF BothSidesExecuted
  <2> DEFINE p == paths[i].trace.branches
             b == p[n]
             s == paths[i].scenario
             child == Alternate(s, b)
  <2>1. PICK j \in DOMAIN paths : paths[j].scenario = child
    BY DEF Searched, SearchComplete, Traced
  <2>2. /\ s \in Scenario /\ Distinctive(s) /\ p \in Seq(Branch) /\ b \in Branch
        /\ n \in Nat /\ n > 0 /\ n <= Len(p)
    BY ParentShape
  <2>3. /\ DOMAIN child = DOMAIN s \union {Len(s) + 1}
        /\ Len(s) + 1 \notin DOMAIN s
        /\ \A q \in DOMAIN s : child[q] = s[q]
        /\ child[Len(s) + 1] = Flip(b)
    BY <2>2, AlternateShape
  <2>4. Diverges(paths[i], paths[j], n)
    <3>1. child # <<>>
      BY <2>3
    <3>2. PICK k \in 1..(j - 1) : \E m \in DOMAIN paths[k].trace.branches :
            /\ paths[j].scenario = Alternate(paths[k].scenario, paths[k].trace.branches[m])
            /\ Diverges(paths[k], paths[j], m)
      BY <2>1, <3>1 DEF EmulationInv, ReplaysParent
    <3>3. PICK m \in DOMAIN paths[k].trace.branches :
            /\ paths[j].scenario = Alternate(paths[k].scenario, paths[k].trace.branches[m])
            /\ Diverges(paths[k], paths[j], m)
      BY <3>2
    <3>4. k \in DOMAIN paths
      BY DEF Searched, TypeOK
    <3> DEFINE t == paths[k].scenario
               f == paths[k].trace.branches[m]
    <3>5. t \in Scenario /\ f \in Branch
      BY <3>4, ParentShape
    <3>6. child = Alternate(t, f)
      BY <2>1, <3>3
    <3>7. s = t /\ Flip(b) = Flip(f)
      <4> HIDE DEF s, t, child, b, f
      <4>1. Alternate(s, b) = Alternate(t, f)
        BY <3>6 DEF child
      <4> QED BY <2>2, <3>5, <4>1, AlternateInjective
    <3>8. k = i
      BY <3>4, <3>7 DEF Searched, TracedOnce
    <3>9. b.rva = f.rva /\ b.occurrence = f.occurrence
      BY <3>7 DEF Flip
    <3>10. m = n
      BY <3>8, <3>9 DEF EmulationInv, Past, Unique
    <3> QED BY <3>3, <3>8, <3>10
  <2> DEFINE c == paths[j].trace.branches
  <2>5. /\ Len(routes[i]) = Len(p) /\ Len(routes[j]) = Len(c)
        /\ Faithful(s, p, routes[i]) /\ Faithful(child, c, routes[j])
    <3>1. \A k \in DOMAIN paths :
            Faithful(paths[k].scenario, paths[k].trace.branches, routes[k])
      BY DEF EmulationInv, Past
    <3>2. \A t, branches, route :
            Faithful(t, branches, route) => Len(route) = Len(branches)
      BY DEF Faithful
    <3>3. Faithful(s, p, routes[i])
      BY <3>1
    <3>4. Faithful(child, c, routes[j])
      BY <2>1, <3>1
    <3> HIDE DEF s, p, child, c
    <3> QED BY <3>2, <3>3, <3>4
  <2>6. /\ c \in Seq(Branch)
        /\ Len(c) >= n => c[n] = [b EXCEPT !.taken = ~@]
        /\ Len(c) < n => ~paths[j].trace.completed
    <3>1. paths[j] \in Path
      BY DEF Searched, TypeOK
    <3>2. c \in Seq(Branch)
      BY <3>1 DEF Path, Trace
    <3> QED BY <2>4, <3>2 DEF Diverges
  <2>7. \A q \in DOMAIN s : s[q].rva # b.rva
    BY DEF CanPush
  <2>8. routes[i][n] = b.taken
    BY <2>5, <2>7 DEF Faithful
  <2>9. CASE Len(c) >= n
    <3>1. /\ n \in DOMAIN c /\ c[n].rva = b.rva /\ c[n].occurrence = b.occurrence
          /\ c[n].taken = ~b.taken
      <4> HIDE DEF b, c
      <4>1. n \in DOMAIN c /\ c[n] = [b EXCEPT !.taken = ~@]
        BY <2>2, <2>6, <2>9
      <4> QED BY <2>2, <4>1 DEF Branch
    <3>2. /\ Len(s) + 1 \in DOMAIN child /\ child[Len(s) + 1].rva = b.rva
          /\ child[Len(s) + 1].occurrence = b.occurrence
      BY <2>3 DEF Flip
    <3>3. routes[j][n] = Driven(b.rva, ~b.taken)
      <4> HIDE DEF b, c, child
      <4>1. \A m \in DOMAIN c, q \in DOMAIN child :
              child[q].rva = c[m].rva /\ child[q].occurrence = c[m].occurrence
                => routes[j][m] = Driven(c[m].rva, c[m].taken)
        BY <2>5 DEF Faithful
      <4> QED BY <3>1, <3>2, <4>1
    <3>4. routes[j][n] = ~b.taken
      BY <3>3 DEF Driven
    <3> QED BY <2>1, <2>5, <2>8, <2>9, <3>1, <3>4 DEF OtherSide
  <2>10. CASE Len(c) < n
    BY <2>1, <2>5, <2>6, <2>10 DEF OtherSide
  <2> QED BY <2>2, <2>6, <2>9, <2>10
<1> QED BY <1>1, SearchHolds, EmulationInvariant, PTL

-----------------------------------------------------------------------------
(* The end of the analysis.                                                 *)

\* A jump of the emulated method, which leaves the search alone and uses up a unit of
\* the emulation's limit.
Emulates == /\ UNCHANGED searchVars
            /\ MaxSteps - steps \in Nat /\ MaxSteps - steps' \in Nat
            /\ MaxSteps - steps' < MaxSteps - steps

\* Every step of the analysis brings the search nearer to its end, or the emulation it
\* waits for, even where the method loops for ever.
THEOREM AnalysisDescends == TraceSpec => [][S!Nearer \/ Emulates]_allVars
<1>1. S!IInv => S!TypeOK /\ S!Bounded
  BY SearchAssumption, S!IsBounded DEF S!IInv
<1>2. /\ S!TypeOK /\ S!Bounded /\ S!Bounded'
      /\ EmulationInv /\ EmulationInv' /\ [TraceNext]_allVars
      => [S!Nearer \/ Emulates]_allVars
  <2> SUFFICES ASSUME S!TypeOK, S!Bounded, S!Bounded', EmulationInv, EmulationInv', TraceNext,
                      allVars' # allVars
               PROVE  S!Nearer \/ Emulates
    OBVIOUS
  <2>1. S!vars' # S!vars => S!Nearer
    <3>1. [S!Next]_S!vars
      BY StepsSearch, SameSearch
    <3> QED BY <3>1, SearchAssumption, S!NearerStep
  <2>2. CASE UnknownJump \/ NaturalJump \/ ForcedJump
    <3>1. UNCHANGED searchVars /\ steps' = steps + 1
      BY <2>2 DEF UnknownJump, NaturalJump, ForcedJump, RecordJump, Proceed
    <3>2. steps \in 0..MaxSteps /\ steps' \in 0..MaxSteps /\ MaxSteps \in Nat
      BY TraceAssumption DEF EmulationInv, Typed, TraceTypeOK
    <3> QED BY <3>1, <3>2 DEF Emulates
  <2>3. CASE Launch \/ Returned \/ Trapped \/ InstructionLimit \/ TimeLimit
    <3>1. pc' # pc
      BY <2>3 DEF Launch, StartTrace, Returned, Trapped, InstructionLimit, TimeLimit, Finish,
                  EndTrace
    <3> QED BY <2>1, <3>1 DEF S!vars
  <2>4. CASE RecordPath
    <3>1. pc' # pc
      BY <2>4 DEF RecordPath
    <3> QED BY <2>1, <3>1 DEF S!vars
  <2>5. CASE UNCHANGED <<method, emulation, routes>>
    <3>1. UNCHANGED S!vars => UNCHANGED allVars
      BY <2>5 DEF S!vars, allVars, searchVars
    <3> QED BY <2>1, <3>1
  <2> QED BY <2>2, <2>3, <2>4, <2>5 DEF TraceNext, Search
<1> QED BY <1>1, <1>2, SearchInvariant, EmulationInvariant, PTL DEF TraceSpec
=============================================================================
