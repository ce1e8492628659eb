----------------------------- MODULE ControlFlow -----------------------------
(***************************************************************************)
(* Static analysis of one native function: analyze_native and               *)
(* explore_control_flow in src/src/emulator.rs.  A linear decode, a scan for *)
(* block leaders and loops, then a breadth-first walk of the decoded         *)
(* instructions in which every address is visited at most MaxVisits times.   *)
(*                                                                          *)
(* Machine code is abstracted to what each address decodes to: a length, a   *)
(* kind of control flow and the target of a near branch.                     *)
(***************************************************************************)
EXTENDS Integers, Sequences

CONSTANTS
  Start, End,       \* the function's addresses, End excluded
  Layouts,          \* what may lie there
  MaxInstructions,  \* max_instructions_per_method
  MaxStates,        \* max_path_states
  MaxVisits         \* max_visits_per_block (2 in the code)

Address == Start..(End - 1)

Flows == {"Next", "Call", "IndirectCall", "IndirectBranch", "ConditionalBranch",
          "UnconditionalBranch", "Return", "Exception", "Interrupt", "invalid"}

\* Branch targets outside the function matter only as such.
Instruction == [length : Nat \ {0}, flow : Flows, target : Address \union {End}]

Layout == [Address -> Instruction]

ASSUME FlowAssumption ==
  /\ Start \in Nat /\ End \in Nat /\ Start < End   \* ensure!(begin < end)
  /\ Layouts \subseteq Layout
  /\ MaxInstructions \in Nat \ {0} /\ MaxStates \in Nat \ {0} /\ MaxVisits \in Nat \ {0}

VARIABLES
  layout,
  pc,         \* "slice", "decode", "scan", "explore", "done", "failed"
  ip,         \* the decoder's position
  decoded,    \* addresses of the decoded instructions (by_ip)
  count,      \* how many there are
  leaders, loops,
  queue,      \* addresses waiting to be visited
  visits,     \* visits of each address
  explored,   \* explored_path_states
  truncated

vars == <<layout, pc, ip, decoded, count, leaders, loops, queue, visits, explored, truncated>>

Init == /\ layout \in Layouts
        /\ pc = "slice"
        /\ ip = Start
        /\ decoded = {}
        /\ count = 0
        /\ leaders = {Start}
        /\ loops = {}
        /\ queue = <<Start>>
        /\ visits = [a \in Address |-> 0]
        /\ explored = 0
        /\ truncated = FALSE

\* PeImage::slice refuses a range no section of the file covers.
SliceFails == /\ pc = "slice"
              /\ pc' = "failed"
              /\ UNCHANGED <<layout, ip, decoded, count, leaders, loops, queue, visits,
                             explored, truncated>>

Slice == /\ pc = "slice"
         /\ pc' = "decode"
         /\ UNCHANGED <<layout, ip, decoded, count, leaders, loops, queue, visits,
                        explored, truncated>>

-----------------------------------------------------------------------------
NextIp(a) == a + layout[a].length

\* An instruction that runs past the end of the slice does not decode either.
Decodes(a) == layout[a].flow # "invalid" /\ NextIp(a) <= End

Decode == /\ pc = "decode"
          /\ ip < End
          /\ count < MaxInstructions
          /\ Decodes(ip)
          /\ decoded' = decoded \union {ip}
          /\ count' = count + 1
          /\ ip' = NextIp(ip)
          /\ UNCHANGED <<layout, pc, leaders, loops, queue, visits, explored, truncated>>

DecodeBudget == /\ pc = "decode"
                /\ ip < End
                /\ count >= MaxInstructions
                /\ truncated' = TRUE
                /\ pc' = "scan"
                /\ UNCHANGED <<layout, ip, decoded, count, leaders, loops, queue, visits, explored>>

\* The end of the function, or bytes that are no instruction: not a truncation.
DecodeEnds == /\ pc = "decode"
              /\ ip < End => count < MaxInstructions /\ ~Decodes(ip)
              /\ pc' = "scan"
              /\ UNCHANGED <<layout, ip, decoded, count, leaders, loops, queue, visits,
                             explored, truncated>>

Branches(a) == layout[a].flow \in {"ConditionalBranch", "UnconditionalBranch"}
Conditional(a)  == layout[a].flow = "ConditionalBranch"
BranchesWithin(a) == Branches(a) /\ layout[a].target \in Address

\* Mutant of Scan: a jump to itself is no loop.
ScanForward ==
  /\ pc = "scan"
  /\ leaders' = {Start}
       \union {layout[a].target : a \in {x \in decoded : BranchesWithin(x)}}
       \union {NextIp(a) : a \in {x \in decoded : BranchesWithin(x) /\ Conditional(x)}}
  /\ loops' = {[header |-> layout[a].target, backEdge |-> a] :
                 a \in {x \in decoded : BranchesWithin(x) /\ layout[x].target < x}}
  /\ pc' = "explore"
  /\ UNCHANGED <<layout, ip, decoded, count, queue, visits, explored, truncated>>

\* The pass over the instructions, which nothing interrupts.
Scan == /\ pc = "scan"
        /\ leaders' = {Start}
             \union {layout[a].target : a \in {x \in decoded : BranchesWithin(x)}}
             \union {NextIp(a) : a \in {x \in decoded : BranchesWithin(x) /\ Conditional(x)}}
        /\ loops' = {[header |-> layout[a].target, backEdge |-> a] :
                       a \in {x \in decoded : BranchesWithin(x) /\ layout[x].target <= x}}
        /\ pc' = "explore"
        /\ UNCHANGED <<layout, ip, decoded, count, queue, visits, explored, truncated>>

-----------------------------------------------------------------------------
\* The enqueue closure drops what is outside the function or was not decoded.
Enqueue(a) == IF a \in decoded THEN <<a>> ELSE <<>>

\* Anything that is no branch and does not end the path continues behind itself, a
\* call and an indirect jump included.
Successors(a) ==
  CASE layout[a].flow = "ConditionalBranch" ->
         Enqueue(layout[a].target) \o Enqueue(NextIp(a))
    [] layout[a].flow = "UnconditionalBranch" -> Enqueue(layout[a].target)
    [] layout[a].flow \in {"Return", "Exception", "Interrupt"} -> <<>>
    [] OTHER -> Enqueue(NextIp(a))

\* Mutant of StateBudget: the truncation is not noted.
StateBudgetSilent == /\ pc = "explore"
                     /\ queue # <<>>
                     /\ explored >= MaxStates
                     /\ queue' = Tail(queue)
                     /\ pc' = "done"
                     /\ UNCHANGED <<layout, ip, decoded, count, leaders, loops, visits,
                                    explored, truncated>>

\* The limit is looked at after the pop, before the visit count.
StateBudget == /\ pc = "explore"
               /\ queue # <<>>
               /\ explored >= MaxStates
               /\ truncated' = TRUE
               /\ queue' = Tail(queue)
               /\ pc' = "done"
               /\ UNCHANGED <<layout, ip, decoded, count, leaders, loops, visits, explored>>

SkipVisited == /\ pc = "explore"
               /\ queue # <<>>
               /\ explored < MaxStates
               /\ visits[Head(queue)] >= MaxVisits
               /\ queue' = Tail(queue)
               /\ UNCHANGED <<layout, pc, ip, decoded, count, leaders, loops, visits,
                              explored, truncated>>

\* Mutant of Visit: every instruction may also fall through.
VisitThrough ==
  /\ pc = "explore"
  /\ queue # <<>>
  /\ explored < MaxStates
  /\ visits[Head(queue)] < MaxVisits
  /\ visits' = [visits EXCEPT ![Head(queue)] = @ + 1]
  /\ explored' = explored + 1
  /\ queue' = Tail(queue) \o
                (IF Head(queue) \in decoded
                   THEN Successors(Head(queue)) \o Enqueue(NextIp(Head(queue))) ELSE <<>>)
  /\ UNCHANGED <<layout, pc, ip, decoded, count, leaders, loops, truncated>>

Visit == /\ pc = "explore"
         /\ queue # <<>>
         /\ explored < MaxStates
         /\ visits[Head(queue)] < MaxVisits
         /\ visits' = [visits EXCEPT ![Head(queue)] = @ + 1]
         /\ explored' = explored + 1
         /\ queue' = Tail(queue) \o
                       (IF Head(queue) \in decoded THEN Successors(Head(queue)) ELSE <<>>)
         /\ UNCHANGED <<layout, pc, ip, decoded, count, leaders, loops, truncated>>

Explored == /\ pc = "explore"
            /\ queue = <<>>
            /\ pc' = "done"
            /\ UNCHANGED <<layout, ip, decoded, count, leaders, loops, queue, visits,
                           explored, truncated>>

Terminated == pc \in {"done", "failed"} /\ UNCHANGED vars

Next == \/ SliceFails \/ Slice \/ Decode \/ DecodeBudget \/ DecodeEnds \/ Scan
        \/ StateBudget \/ SkipVisited \/ Visit \/ Explored \/ Terminated

Spec == Init /\ [][Next]_vars

-----------------------------------------------------------------------------
Loop == [header : Address, backEdge : Address]

TypeOK == /\ layout \in Layouts
          /\ pc \in {"slice", "decode", "scan", "explore", "done", "failed"}
          /\ ip \in Start..End
          /\ decoded \subseteq Address
          /\ count \in Nat
          /\ leaders \subseteq Nat
          /\ loops \subseteq Loop
          /\ queue \in Seq(Address)
          /\ visits \in [Address -> 0..MaxVisits]
          /\ explored \in 0..MaxStates
          /\ truncated \in BOOLEAN

Visited == {a \in Address : visits[a] > 0}
Follows(a, b) == \E i \in DOMAIN Successors(a) : Successors(a)[i] = b

\* An analysis not marked as truncated has visited the entry and everything that can
\* be reached from it over decoded instructions, also through code it met twice.
EverythingVisited ==
  pc = "done" /\ ~truncated =>
    /\ Start \in Visited
    /\ \A a \in Visited \intersect decoded : \A b \in decoded : Follows(a, b) => b \in Visited

\* What was visited or waits to be is the entry or follows a visited instruction.
NothingInvented ==
  \A b \in Visited \union {queue[i] : i \in DOMAIN queue} :
    b = Start \/ \E a \in Visited \intersect decoded : b \in decoded /\ Follows(a, b)

\* Every cycle of the walked graph is reported: a step that does not lead forward is
\* the back edge of a loop candidate.
NoHiddenLoop ==
  pc \in {"explore", "done"} =>
    \A a, b \in decoded : Follows(a, b) /\ b <= a =>
      [header |-> b, backEdge |-> a] \in loops

\* An instruction that is no block leader is entered in one way only, from the
\* instruction in front of it.
BlocksEnteredAtLeaders ==
  pc \in {"explore", "done"} =>
    \A a, b \in decoded : Follows(a, b) /\ b \notin leaders =>
      NextIp(a) = b /\ ~(Branches(a) /\ layout[a].target = b)

=============================================================================
