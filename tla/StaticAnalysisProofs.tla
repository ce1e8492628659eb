------------------------ MODULE StaticAnalysisProofs ------------------------
(***************************************************************************)
(* The two static passes over a function's instructions.                    *)
(*                                                                         *)
(* ControlFlow: what the walk visits, which loops it reports and that its    *)
(* blocks are entered at their leaders, for any code and limits.            *)
(* JniOrigins: the origin pass is exact off the strayed places, for any      *)
(* registers, stack operands, slots and code.                               *)
(***************************************************************************)
EXTENDS ControlFlow, JniOrigins, TLAPS

-----------------------------------------------------------------------------
(* The walk.                                                                *)

Pending == {queue[i] : i \in DOMAIN queue}

\* Before the walk nothing has been visited.
Unstarted == pc \in {"slice", "decode", "scan"} =>
               /\ queue = <<Start>>
               /\ visits = [a \in Address |-> 0]

\* During the walk everything that follows a visited instruction is visited or waits.
Frontier == pc = "explore" =>
              /\ Start \in Visited \union Pending
              /\ \A a \in Visited \intersect decoded : \A b \in decoded :
                   Follows(a, b) => b \in Visited \union Pending

Walk == TypeOK /\ Unstarted /\ Frontier /\ EverythingVisited /\ NothingInvented

\* What the scan has found.
Scanned ==
  pc \in {"explore", "done"} =>
    /\ \A a \in decoded : BranchesWithin(a) =>
         /\ layout[a].target \in leaders
         /\ Conditional(a) => NextIp(a) \in leaders
         /\ layout[a].target <= a => [header |-> layout[a].target, backEdge |-> a] \in loops

-----------------------------------------------------------------------------
\* The elements of a queue after its head is popped and a sequence is appended.
LEMMA Pushed ==
  ASSUME TypeOK, queue # <<>>, NEW s \in Seq(Address), queue' = Tail(queue) \o s
  PROVE  /\ \A i \in DOMAIN queue :
              queue[i] = Head(queue) \/ \E j \in DOMAIN queue' : queue'[j] = queue[i]
         /\ \A i \in DOMAIN s : \E j \in DOMAIN queue' : queue'[j] = s[i]
         /\ \A j \in DOMAIN queue' : (\E i \in DOMAIN queue : queue[i] = queue'[j])
                                        \/ \E i \in DOMAIN s : s[i] = queue'[j]
<1>0. queue \in Seq(Address)
  BY DEF TypeOK
<1> DEFINE t == Tail(queue)
<1>1. t \in Seq(Address) /\ Len(t) = Len(queue) - 1 /\ \A i \in 1..Len(t) : t[i] = queue[i + 1]
  BY <1>0
<1>2. /\ queue' \in Seq(Address) /\ Len(queue') = Len(t) + Len(s)
      /\ \A i \in 1..Len(queue') : queue'[i] = IF i <= Len(t) THEN t[i] ELSE s[i - Len(t)]
  BY <1>0, <1>1
<1>3. \A i \in DOMAIN queue : queue[i] = Head(queue) \/ \E j \in DOMAIN queue' : queue'[j] = queue[i]
  <2> SUFFICES ASSUME NEW i \in DOMAIN queue, i # 1
               PROVE  \E j \in DOMAIN queue' : queue'[j] = queue[i]
    OBVIOUS
  <2>1. i - 1 \in 1..Len(t) /\ t[i - 1] = queue[i]
    BY <1>0, <1>1
  <2>2. i - 1 \in DOMAIN queue' /\ queue'[i - 1] = queue[i]
    BY <1>0, <1>2, <2>1
  <2> QED BY <2>2
<1>4. \A i \in DOMAIN s : \E j \in DOMAIN queue' : queue'[j] = s[i]
  <2> SUFFICES ASSUME NEW i \in DOMAIN s PROVE \E j \in DOMAIN queue' : queue'[j] = s[i]
    OBVIOUS
  <2>1. Len(t) + i \in DOMAIN queue' /\ queue'[Len(t) + i] = s[i]
    BY <1>0, <1>1, <1>2
  <2> QED BY <2>1
<1>5. \A j \in DOMAIN queue' : (\E i \in DOMAIN queue : queue[i] = queue'[j]) \/ \E i \in DOMAIN s : s[i] = queue'[j]
  <2> SUFFICES ASSUME NEW j \in DOMAIN queue'
               PROVE (\E i \in DOMAIN queue : queue[i] = queue'[j]) \/ \E i \in DOMAIN s : s[i] = queue'[j]
    OBVIOUS
  <2>1. CASE j <= Len(t)
    <3>1. j + 1 \in DOMAIN queue /\ queue[j + 1] = queue'[j]
      BY <1>0, <1>1, <1>2, <2>1
    <3> QED BY <3>1
  <2>2. CASE j > Len(t)
    <3>1. j - Len(t) \in DOMAIN s /\ s[j - Len(t)] = queue'[j]
      BY <1>0, <1>1, <1>2, <2>2
    <3> QED BY <3>1
  <2> QED BY <1>0, <1>1, <1>2, <2>1, <2>2
<1> QED BY <1>2, <1>3, <1>4, <1>5

\* The elements of a concatenation.
LEMMA Concat ==
  ASSUME NEW S, NEW s \in Seq(S), NEW r \in Seq(S)
  PROVE  \A j \in DOMAIN (s \o r) :
           (\E i \in DOMAIN s : s[i] = (s \o r)[j]) \/ \E i \in DOMAIN r : r[i] = (s \o r)[j]
<1> SUFFICES ASSUME NEW j \in DOMAIN (s \o r)
             PROVE  (\E i \in DOMAIN s : s[i] = (s \o r)[j])
                      \/ \E i \in DOMAIN r : r[i] = (s \o r)[j]
  OBVIOUS
<1>1. CASE j <= Len(s)
  <2>1. j \in DOMAIN s /\ s[j] = (s \o r)[j]
    BY <1>1
  <2> QED BY <2>1
<1>2. CASE j > Len(s)
  <2>1. j - Len(s) \in DOMAIN r /\ r[j - Len(s)] = (s \o r)[j]
    BY <1>2
  <2> QED BY <2>1
<1> QED BY <1>1, <1>2

\* Where the walk goes from an instruction.
LEMMA Flow ==
  ASSUME TypeOK, NEW a \in decoded
  PROVE  /\ Successors(a) \in Seq(Address)
         /\ \A b : Follows(a, b) =>
              /\ b \in decoded
              /\ \/ Branches(a) /\ b = layout[a].target
                 \/ layout[a].flow # "UnconditionalBranch" /\ b = NextIp(a)
<1> DEFINE t == layout[a].target
           n == NextIp(a)
<1>1. \A b : /\ Enqueue(b) \in Seq(Address)
             /\ \A i \in DOMAIN Enqueue(b) : Enqueue(b)[i] = b /\ b \in decoded
  BY DEF Enqueue, TypeOK
<1>2. CASE layout[a].flow = "ConditionalBranch"
  <2>1. Successors(a) = Enqueue(t) \o Enqueue(n)
    BY <1>2 DEF Successors
  <2>2. \A j \in DOMAIN (Enqueue(t) \o Enqueue(n)) :
          (\E i \in DOMAIN Enqueue(t) : Enqueue(t)[i] = (Enqueue(t) \o Enqueue(n))[j])
            \/ \E i \in DOMAIN Enqueue(n) : Enqueue(n)[i] = (Enqueue(t) \o Enqueue(n))[j]
    BY <1>1, Concat
  <2>3. Enqueue(t) \o Enqueue(n) \in Seq(Address)
    BY <1>1
  <2> HIDE DEF t, n
  <2>4. \A j \in DOMAIN Successors(a) : Successors(a)[j] \in decoded /\ Successors(a)[j] \in {t, n}
    BY <1>1, <2>1, <2>2
  <2> QED BY <1>2, <2>1, <2>3, <2>4 DEF Follows, Branches, t, n
<1>3. CASE layout[a].flow = "UnconditionalBranch"
  <2>1. Successors(a) = Enqueue(t)
    BY <1>3 DEF Successors
  <2> QED BY <1>1, <1>3, <2>1 DEF Follows, Branches
<1>4. CASE layout[a].flow \in {"Return", "Exception", "Interrupt"}
  <2>1. Successors(a) = <<>>
    BY <1>4 DEF Successors
  <2> QED BY <2>1 DEF Follows
<1>5. CASE layout[a].flow \notin {"ConditionalBranch", "UnconditionalBranch", "Return",
                                 "Exception", "Interrupt"}
  <2>1. Successors(a) = Enqueue(n)
    BY <1>5 DEF Successors
  <2> QED BY <1>1, <1>5, <2>1 DEF Follows
<1> QED BY <1>2, <1>3, <1>4, <1>5

-----------------------------------------------------------------------------
LEMMA TypeInit == Init => TypeOK
<1> SUFFICES ASSUME Init PROVE TypeOK
  OBVIOUS
<1>1. Start \in Address
  BY FlowAssumption DEF Address
<1>2. queue \in Seq(Address)
  BY <1>1 DEF Init
<1>3. visits \in [Address -> 0..MaxVisits]
  BY FlowAssumption DEF Init
<1>4. ip \in Start..End /\ leaders \subseteq Nat /\ explored \in 0..MaxStates
  BY FlowAssumption DEF Init
<1>5. decoded \subseteq Address /\ loops \subseteq Loop /\ count \in Nat
  BY DEF Init
<1>6. layout \in Layouts /\ pc = "slice" /\ truncated \in BOOLEAN
  BY DEF Init
<1> QED BY <1>2, <1>3, <1>4, <1>5, <1>6 DEF TypeOK

LEMMA TypeStep == TypeOK /\ [Next]_vars => TypeOK'
<1> SUFFICES ASSUME TypeOK, [Next]_vars PROVE TypeOK'
  OBVIOUS
<1> USE FlowAssumption
<1>0. layout \in Layout
  BY DEF TypeOK
<1>1. CASE SliceFails \/ Slice \/ DecodeBudget \/ DecodeEnds \/ Explored
  BY <1>1 DEF SliceFails, Slice, DecodeBudget, DecodeEnds, Explored, TypeOK
<1>2. CASE Decode
  <2>1. ip \in Address /\ layout[ip].length \in Nat \ {0}
    BY <1>0, <1>2 DEF Decode, TypeOK, Address, Layout, Instruction
  <2>2. NextIp(ip) \in Start..End
    BY <1>2, <2>1 DEF Decode, Decodes, NextIp, Address
  <2> QED BY <1>2, <2>1, <2>2 DEF Decode, TypeOK
<1>3. CASE Scan
  <2>1. \A a \in decoded : /\ a \in Address /\ a \in Nat
                           /\ layout[a].length \in Nat \ {0}
                           /\ layout[a].target \in Nat
                           /\ BranchesWithin(a) => layout[a].target \in Address
    BY <1>0 DEF TypeOK, Layout, Instruction, BranchesWithin, Address
  <2>2. \A a \in decoded : NextIp(a) \in Nat
    BY <2>1 DEF NextIp
  <2>3. leaders' \subseteq Nat
    BY <1>3, <2>1, <2>2 DEF Scan
  <2>4. loops' \subseteq Loop
    BY <1>3, <2>1 DEF Scan, Loop
  <2> QED BY <1>3, <2>3, <2>4 DEF Scan, TypeOK
<1>4. CASE StateBudget \/ SkipVisited
  <2>1. queue \in Seq(Address) /\ queue # <<>>
    BY <1>4 DEF StateBudget, SkipVisited, TypeOK
  <2>2. Tail(queue) \in Seq(Address)
    BY <2>1
  <2>3. CASE StateBudget
    BY <2>2, <2>3 DEF StateBudget, TypeOK
  <2>4. CASE SkipVisited
    BY <2>2, <2>4 DEF SkipVisited, TypeOK
  <2> QED BY <1>4, <2>3, <2>4
<1>5. CASE Visit
  <2>1. Head(queue) \in Address
    BY <1>5 DEF Visit, TypeOK
  <2>2. (IF Head(queue) \in decoded THEN Successors(Head(queue)) ELSE <<>>) \in Seq(Address)
    BY Flow
  <2>3. queue' \in Seq(Address)
    BY <1>5, <2>2 DEF Visit, TypeOK
  <2>4. visits' \in [Address -> 0..MaxVisits] /\ explored' \in 0..MaxStates
    BY <1>5, <2>1 DEF Visit, TypeOK
  <2> QED BY <1>5, <2>3, <2>4 DEF Visit, TypeOK
<1>6. CASE UNCHANGED vars
  BY <1>6 DEF vars, TypeOK
<1> QED BY <1>1, <1>2, <1>3, <1>4, <1>5, <1>6 DEF Next, Terminated

-----------------------------------------------------------------------------
LEMMA WalkInit == Init => Walk
<1> SUFFICES ASSUME Init PROVE Walk
  OBVIOUS
<1>1. TypeOK
  BY TypeInit
<1>2. Unstarted /\ Frontier /\ EverythingVisited
  BY DEF Init, Unstarted, Frontier, EverythingVisited
<1>3. \A i \in DOMAIN queue : queue[i] = Start
  BY DEF Init
<1>4. Visited = {}
  BY DEF Init, Visited
<1> QED BY <1>1, <1>2, <1>3, <1>4 DEF Walk, NothingInvented

\* The walk's own steps keep the code and the scan's results.
LEMMA SameCode ==
  ASSUME UNCHANGED <<layout, decoded>>
  PROVE  \A a, b : Follows(a, b)' <=> Follows(a, b)
  BY DEF Follows, Successors, Enqueue, NextIp

\* Popping the head of the queue leaves the other waiting addresses.
LEMMA Popped ==
  ASSUME TypeOK, queue # <<>>, queue' = Tail(queue)
  PROVE  /\ Pending' \subseteq Pending
         /\ Pending \subseteq Pending' \union {Head(queue)}
         /\ Head(queue) \in Pending
<1>1. queue \in Seq(Address)
  BY DEF TypeOK
<1>2. \A i \in DOMAIN Tail(queue) : Tail(queue)[i] = queue[i + 1] /\ i + 1 \in DOMAIN queue
  BY <1>1
<1>3. \A i \in DOMAIN queue : i # 1 => i - 1 \in DOMAIN Tail(queue) /\ Tail(queue)[i - 1] = queue[i]
  BY <1>1
<1>4. 1 \in DOMAIN queue /\ Head(queue) = queue[1]
  BY <1>1
<1> QED BY <1>2, <1>3, <1>4 DEF Pending

LEMMA WalkStep == Walk /\ [Next]_vars => Walk'
<1> SUFFICES ASSUME Walk, [Next]_vars PROVE Walk'
  OBVIOUS
<1>0. TypeOK /\ TypeOK'
  BY TypeStep DEF Walk
<1>1. CASE SliceFails \/ Slice \/ Decode \/ DecodeBudget \/ DecodeEnds
  <2>1. pc \in {"slice", "decode"} /\ pc' \in {"failed", "decode", "scan"}
        /\ UNCHANGED <<queue, visits>>
    BY <1>1 DEF SliceFails, Slice, Decode, DecodeBudget, DecodeEnds
  <2>2. queue' = <<Start>> /\ Visited' = {}
    BY <2>1 DEF Walk, Unstarted, Visited
  <2>3. \A i \in DOMAIN queue' : queue'[i] = Start
    BY <2>2
  <2> QED BY <1>0, <2>1, <2>2, <2>3
          DEF Walk, Unstarted, Frontier, EverythingVisited, NothingInvented
<1>2. CASE Scan
  <2>1. pc' = "explore" /\ UNCHANGED <<queue, visits>>
    BY <1>2 DEF Scan
  <2>2. queue' = <<Start>> /\ Visited' = {}
    BY <1>2, <2>1 DEF Scan, Walk, Unstarted, Visited
  <2>3. Pending' = {Start} /\ \A i \in DOMAIN queue' : queue'[i] = Start
    BY <2>2 DEF Pending
  <2> QED BY <1>0, <2>1, <2>2, <2>3
          DEF Walk, Unstarted, Frontier, EverythingVisited, NothingInvented
<1>3. CASE StateBudget
  BY <1>0, <1>3, Popped, SameCode
     DEF StateBudget, Walk, Unstarted, Frontier, EverythingVisited, NothingInvented, Pending, Visited
<1>4. CASE SkipVisited
  <2>1. /\ pc = "explore" /\ pc' = "explore" /\ queue # <<>> /\ queue' = Tail(queue)
        /\ UNCHANGED <<layout, decoded, visits, truncated>>
        /\ visits[Head(queue)] >= MaxVisits
    BY <1>4 DEF SkipVisited
  <2>2. Pending' \subseteq Pending /\ Pending \subseteq Pending' \union {Head(queue)}
        /\ Head(queue) \in Pending
    BY <1>0, <2>1, Popped
  <2>3. Head(queue) \in Visited
    BY <1>0, <2>1, FlowAssumption DEF TypeOK, Visited
  <2>4. Visited' = Visited
    BY <2>1 DEF Visited
  <2>5. Frontier'
    BY <2>1, <2>2, <2>3, <2>4, SameCode DEF Walk, Frontier
  <2>6. NothingInvented'
    BY <2>1, <2>2, <2>4, SameCode DEF Walk, NothingInvented, Pending
  <2> QED BY <1>0, <2>1, <2>5, <2>6 DEF Walk, Unstarted, EverythingVisited
<1>5. CASE Visit
  <2> DEFINE h == Head(queue)
             s == IF h \in decoded THEN Successors(h) ELSE <<>>
  <2>1. /\ pc = "explore" /\ pc' = "explore" /\ queue # <<>> /\ queue' = Tail(queue) \o s
        /\ UNCHANGED <<layout, decoded, truncated>>
        /\ visits' = [visits EXCEPT ![h] = @ + 1]
    BY <1>5 DEF Visit
  <2>2. queue \in Seq(Address) /\ s \in Seq(Address) /\ h \in Address
        /\ visits \in [Address -> Nat]
    BY <1>0, <2>1, Flow DEF TypeOK
  <2>3. Visited' = Visited \union {h}
    BY <2>1, <2>2 DEF Visited
  <2>4. \A b : (\E i \in DOMAIN s : s[i] = b) <=> (h \in decoded /\ Follows(h, b))
    BY DEF Follows
  <2> HIDE DEF s
  <2>5. h \in Pending
    <3>1. 1 \in DOMAIN queue /\ h = queue[1]
      BY <2>1, <2>2
    <3> QED BY <3>1 DEF Pending
  <2>p. /\ \A i \in DOMAIN queue : queue[i] = h \/ \E j \in DOMAIN queue' : queue'[j] = queue[i]
        /\ \A i \in DOMAIN s : \E j \in DOMAIN queue' : queue'[j] = s[i]
        /\ \A j \in DOMAIN queue' : (\E i \in DOMAIN queue : queue[i] = queue'[j])
                                       \/ \E i \in DOMAIN s : s[i] = queue'[j]
    <3>1. queue \in Seq(Address) /\ queue # <<>> /\ s \in Seq(Address)
          /\ queue' = Tail(queue) \o s
      BY <2>1, <2>2
    <3>2. /\ \A i \in DOMAIN queue :
               queue[i] = Head(queue) \/ \E j \in DOMAIN queue' : queue'[j] = queue[i]
          /\ \A i \in DOMAIN s : \E j \in DOMAIN queue' : queue'[j] = s[i]
          /\ \A j \in DOMAIN queue' : (\E i \in DOMAIN queue : queue[i] = queue'[j])
                                        \/ \E i \in DOMAIN s : s[i] = queue'[j]
      BY <1>0, <3>1, Pushed
    <3> QED BY <3>2
  <2> HIDE DEF h
  <2>6. Pending \subseteq Pending' \union {h}
    BY <2>p DEF Pending
  <2>7. \A b : h \in decoded /\ Follows(h, b) => b \in Pending'
    BY <2>p, <2>4 DEF Pending
  <2>8. \A b \in Pending' : b \in Pending \/ (h \in decoded /\ Follows(h, b))
    <3>1. \A j \in DOMAIN queue' :
            queue'[j] \in Pending \/ (h \in decoded /\ Follows(h, queue'[j]))
      <4>1. \A i \in DOMAIN queue : queue[i] \in Pending
        BY DEF Pending
      <4> QED BY <2>p, <2>4, <4>1
    <3> QED BY <3>1 DEF Pending
  <2>9. Frontier'
    BY <2>1, <2>3, <2>6, <2>7, SameCode DEF Walk, Frontier
  <2>10. NothingInvented'
    <3>1. \A b \in Visited \union Pending :
            b = Start \/ \E a \in Visited \intersect decoded : b \in decoded /\ Follows(a, b)
      BY DEF Walk, NothingInvented, Pending
    <3>2. \A b : h \in decoded /\ Follows(h, b) => b \in decoded
      BY <1>0, Flow
    <3>3. \A b \in Visited' \union Pending' :
            b = Start \/ \E a \in Visited' \intersect decoded : b \in decoded /\ Follows(a, b)
      BY <2>3, <2>5, <2>8, <3>1, <3>2
    <3> QED BY <2>1, <3>3, SameCode DEF NothingInvented, Pending
  <2> QED BY <1>0, <2>1, <2>9, <2>10 DEF Walk, Unstarted, EverythingVisited
<1>6. CASE Explored
  BY <1>0, <1>6, SameCode
     DEF Explored, Walk, Unstarted, Frontier, EverythingVisited, NothingInvented, Pending, Visited
<1>7. CASE UNCHANGED vars
  BY <1>0, <1>7, SameCode
     DEF vars, Walk, Unstarted, Frontier, EverythingVisited, NothingInvented, Pending, Visited
<1> QED BY <1>1, <1>2, <1>3, <1>4, <1>5, <1>6, <1>7 DEF Next, Terminated

-----------------------------------------------------------------------------
LEMMA ScanStep == TypeOK /\ Scanned /\ [Next]_vars => Scanned'
<1> SUFFICES ASSUME TypeOK, Scanned, [Next]_vars PROVE Scanned'
  OBVIOUS
<1>1. CASE Scan
  <2>1. UNCHANGED <<layout, decoded>>
    BY <1>1 DEF Scan
  <2> SUFFICES ASSUME NEW a \in decoded, BranchesWithin(a)
               PROVE  /\ layout[a].target \in leaders'
                      /\ Conditional(a) => NextIp(a) \in leaders'
                      /\ layout[a].target <= a =>
                           [header |-> layout[a].target, backEdge |-> a] \in loops'
    BY <2>1 DEF Scanned, BranchesWithin, Branches, Conditional, NextIp
  <2> QED BY <1>1 DEF Scan
<1>2. CASE UNCHANGED <<layout, decoded, leaders, loops>> /\ (pc' \in {"explore", "done"} => pc = "explore" \/ pc = pc')
  BY <1>2 DEF Scanned, BranchesWithin, Branches, Conditional, NextIp
<1>3. CASE pc' \notin {"explore", "done"}
  BY <1>3 DEF Scanned
<1> QED BY <1>1, <1>2, <1>3
  DEF Next, Terminated, vars, SliceFails, Slice, Decode, DecodeBudget, DecodeEnds,
      StateBudget, SkipVisited, Visit, Explored

LEMMA ScanShows == TypeOK /\ Scanned => NoHiddenLoop /\ BlocksEnteredAtLeaders
<1> SUFFICES ASSUME TypeOK, Scanned, pc \in {"explore", "done"},
                    NEW a \in decoded, NEW b \in decoded, Follows(a, b)
             PROVE  /\ b <= a => [header |-> b, backEdge |-> a] \in loops
                    /\ b \notin leaders =>
                         NextIp(a) = b /\ ~(Branches(a) /\ layout[a].target = b)
  BY DEF NoHiddenLoop, BlocksEnteredAtLeaders
<1>1. \/ Branches(a) /\ b = layout[a].target
      \/ layout[a].flow # "UnconditionalBranch" /\ b = NextIp(a)
  BY Flow
<1>2. Branches(a) /\ b = layout[a].target => BranchesWithin(a)
  BY DEF BranchesWithin, TypeOK
<1>3. NextIp(a) > a
  <2>1. a \in Address /\ layout[a].length \in Nat \ {0}
    BY FlowAssumption DEF TypeOK, Layout, Instruction
  <2> QED BY <2>1, FlowAssumption DEF NextIp, Address
<1>4. a \in Int /\ b \in Int
  BY FlowAssumption DEF TypeOK, Address
<1>5. CASE Branches(a) /\ b = layout[a].target
  BY <1>2, <1>5 DEF Scanned
<1>6. CASE ~(Branches(a) /\ b = layout[a].target)
  <2>1. b = NextIp(a)
    BY <1>1, <1>6
  <2>2. ~(b <= a)
    BY <1>3, <1>4, <2>1 DEF NextIp
  <2> QED BY <1>6, <2>1, <2>2
<1> QED BY <1>5, <1>6

IInv == Walk /\ Scanned

LEMMA Invariant == Spec => []IInv
<1>1. Init => IInv
  BY WalkInit DEF Init, IInv, Scanned
<1>2. IInv /\ [Next]_vars => IInv'
  BY WalkStep, ScanStep DEF IInv, Walk
<1> QED BY <1>1, <1>2, PTL DEF Spec

\* Every variable keeps its type, and the limits on visits and states hold.
THEOREM TypeCorrect == Spec => []TypeOK
<1>1. IInv => TypeOK
  BY DEF IInv, Walk
<1> QED BY <1>1, Invariant, PTL

\* Without the truncation mark, all that is reachable over decoded code was visited.
THEOREM CompleteWalk == Spec => []EverythingVisited
<1>1. IInv => EverythingVisited
  BY DEF IInv, Walk
<1> QED BY <1>1, Invariant, PTL

\* Only what follows a visited instruction is ever visited.
THEOREM SoundWalk == Spec => []NothingInvented
<1>1. IInv => NothingInvented
  BY DEF IInv, Walk
<1> QED BY <1>1, Invariant, PTL

\* Every backward step of the walk is a reported loop.
THEOREM LoopsReported == Spec => []NoHiddenLoop
<1>1. IInv => NoHiddenLoop
  BY ScanShows DEF IInv, Walk
<1> QED BY <1>1, Invariant, PTL

\* Control enters the middle of a block from the instruction in front only.
THEOREM BlocksWellFormed == Spec => []BlocksEnteredAtLeaders
<1>1. IInv => BlocksEnteredAtLeaders
  BY ScanShows DEF IInv, Walk
<1> QED BY <1>1, Invariant, PTL

\* What is left of an analysis: bytes to decode, states to explore and addresses waiting.
\* A visit uses up one state and adds at most two addresses.
Remaining == 3 * (MaxStates - explored) + Len(queue)

Left == CASE pc = "slice"   -> End - ip + Remaining + 4
          [] pc = "decode"  -> End - ip + Remaining + 3
          [] pc = "scan"    -> Remaining + 2
          [] pc = "explore" -> Remaining + 1
          [] pc \in {"done", "failed"} -> 0

Descends == Left \in Nat /\ Left' \in Nat /\ Left' < Left

LEMMA AtMostTwo ==
  ASSUME TypeOK, NEW a \in Address
  PROVE  Successors(a) \in Seq(Address) /\ Len(Successors(a)) <= 2
<1>1. \A b : Enqueue(b) \in Seq(Address) /\ Len(Enqueue(b)) <= 1 /\ Len(Enqueue(b)) \in Nat
  <2>1. \A b \in Address : <<b>> \in Seq(Address) /\ Len(<<b>>) = 1
    OBVIOUS
  <2>2. <<>> \in Seq(Address) /\ Len(<<>>) = 0
    OBVIOUS
  <2>3. decoded \subseteq Address
    BY DEF TypeOK
  <2> QED BY <2>1, <2>2, <2>3 DEF Enqueue
<1>2. \A s, r \in Seq(Address) : s \o r \in Seq(Address) /\ Len(s \o r) = Len(s) + Len(r)
  OBVIOUS
<1>3. <<>> \in Seq(Address) /\ Len(<<>>) = 0
  OBVIOUS
<1>4. CASE layout[a].flow = "ConditionalBranch"
  <2>1. Successors(a) = Enqueue(layout[a].target) \o Enqueue(NextIp(a))
    BY <1>4 DEF Successors
  <2> QED BY <1>1, <1>2, <2>1
<1>5. CASE layout[a].flow # "ConditionalBranch"
  <2>1. Successors(a) \in {Enqueue(layout[a].target), <<>>, Enqueue(NextIp(a))}
    BY <1>5 DEF Successors
  <2>2. PICK s : s = Successors(a)
    OBVIOUS
  <2>3. s = <<>> \/ \E b : s = Enqueue(b)
    BY <2>1, <2>2
  <2>4. CASE s = <<>>
    BY <1>3, <2>2, <2>4
  <2>5. CASE \E b : s = Enqueue(b)
    <3>1. PICK b : s = Enqueue(b)
      BY <2>5
    <3>2. Enqueue(b) \in Seq(Address) /\ Len(Enqueue(b)) <= 1 /\ Len(Enqueue(b)) \in Nat
      BY <1>1
    <3>3. s \in Seq(Address) /\ Len(s) <= 1 /\ Len(s) \in Nat
      BY <3>1, <3>2
    <3>4. Len(s) <= 2
      BY <3>3
    <3> QED BY <2>2, <3>3, <3>4
  <2> QED BY <2>3, <2>4, <2>5
<1> QED BY <1>4, <1>5

\* Every step of analyze_native brings its end nearer, through any loops of the code: it
\* takes at most End - Start + 3 * MaxStates + 5 steps.
THEOREM AnalysisDescends == Spec => [][Descends]_vars
<1>1. TypeOK /\ TypeOK' /\ [Next]_vars => [Descends]_vars
  <2> SUFFICES ASSUME TypeOK, TypeOK', Next, vars' # vars
               PROVE  Left \in Nat /\ Left' \in Nat /\ Left' < Left
    BY DEF Descends
  <2>1. /\ Start \in Nat /\ End \in Nat /\ MaxStates \in Nat
        /\ ip \in Start..End /\ ip' \in Start..End
        /\ explored \in 0..MaxStates /\ explored' \in 0..MaxStates
        /\ queue \in Seq(Address) /\ queue' \in Seq(Address)
        /\ pc \in {"slice", "decode", "scan", "explore", "done", "failed"}
        /\ pc' \in {"slice", "decode", "scan", "explore", "done", "failed"}
    BY FlowAssumption DEF TypeOK
  <2>2. Len(queue) \in Nat /\ Len(queue') \in Nat
    BY <2>1
  <2>3. Remaining \in Nat /\ Remaining' \in Nat
    BY <2>1, <2>2 DEF Remaining
  <2>4. Left \in Nat /\ Left' \in Nat
    <3>1. \A n \in Nat, i \in Start..End :
            /\ End - i + n + 4 \in Nat /\ End - i + n + 3 \in Nat
            /\ n + 2 \in Nat /\ n + 1 \in Nat
      BY <2>1
    <3>2. Left \in Nat
      BY <2>1, <2>3, <3>1 DEF Left
    <3>3. Left' \in Nat
      BY <2>1, <2>3, <3>1 DEF Left
    <3> QED BY <3>2, <3>3
  <2>5. CASE SliceFails \/ Slice \/ DecodeBudget \/ DecodeEnds \/ Scan \/ Explored
    <3>1. UNCHANGED <<ip, explored, queue>>
      BY <2>5 DEF SliceFails, Slice, DecodeBudget, DecodeEnds, Scan, Explored
    <3>2. Remaining' = Remaining
      BY <3>1 DEF Remaining
    <3>3. \/ pc = "slice" /\ pc' \in {"failed", "decode"}
          \/ pc = "decode" /\ pc' = "scan"
          \/ pc = "scan" /\ pc' = "explore"
          \/ pc = "explore" /\ pc' = "done"
      BY <2>5 DEF SliceFails, Slice, DecodeBudget, DecodeEnds, Scan, Explored
    <3> HIDE DEF Remaining
    <3>4. CASE pc = "slice" /\ pc' \in {"failed", "decode"}
      BY <2>1, <2>3, <2>4, <3>1, <3>2, <3>4 DEF Left
    <3>5. CASE pc = "decode" /\ pc' = "scan"
      BY <2>1, <2>3, <2>4, <3>1, <3>2, <3>5 DEF Left
    <3>6. CASE pc = "scan" /\ pc' = "explore"
      BY <2>1, <2>3, <2>4, <3>1, <3>2, <3>6 DEF Left
    <3>7. CASE pc = "explore" /\ pc' = "done"
      BY <2>1, <2>3, <2>4, <3>1, <3>2, <3>7 DEF Left
    <3> QED BY <3>3, <3>4, <3>5, <3>6, <3>7
  <2>6. CASE Decode
    <3>1. pc = "decode" /\ pc' = "decode" /\ ip' = NextIp(ip) /\ UNCHANGED <<explored, queue>>
      BY <2>6 DEF Decode
    <3>2. ip \in Address
      BY <2>1, <2>6 DEF Decode, Address
    <3>3. layout[ip].length \in Nat /\ layout[ip].length > 0
      BY <3>2, FlowAssumption DEF TypeOK, Layout, Instruction
    <3>4. ip' > ip
      BY <2>1, <3>1, <3>3 DEF NextIp
    <3>5. Remaining' = Remaining
      BY <3>1 DEF Remaining
    <3> QED BY <2>1, <2>3, <3>1, <3>4, <3>5, <2>4 DEF Left
  <2>7. CASE StateBudget
    <3>1. pc = "explore" /\ pc' = "done"
      BY <2>7 DEF StateBudget
    <3> QED BY <2>3, <2>4, <3>1 DEF Left
  <2>8. CASE SkipVisited
    <3>1. /\ pc = "explore" /\ pc' = "explore" /\ explored' = explored
          /\ queue # <<>> /\ queue' = Tail(queue)
      BY <2>8 DEF SkipVisited
    <3>2. Len(queue') = Len(queue) - 1
      BY <2>1, <3>1
    <3>3. Remaining' < Remaining
      BY <2>1, <2>2, <3>1, <3>2 DEF Remaining
    <3> QED BY <2>3, <2>4, <3>1, <3>3 DEF Left
  <2>9. CASE Visit
    <3>1. /\ pc = "explore" /\ pc' = "explore" /\ explored' = explored + 1 /\ queue # <<>>
      BY <2>9 DEF Visit
    <3>2. PICK s \in Seq(Address) : Len(s) <= 2 /\ queue' = Tail(queue) \o s
      <4>1. Head(queue) \in Address
        BY <2>1, <3>1
      <4>2. CASE Head(queue) \in decoded
        BY <2>9, <4>1, <4>2, AtMostTwo DEF Visit
      <4>3. CASE Head(queue) \notin decoded
        <5>1. queue' = Tail(queue) \o <<>>
          BY <2>9, <4>3 DEF Visit
        <5>2. <<>> \in Seq(Address) /\ Len(<<>>) <= 2
          OBVIOUS
        <5> QED BY <5>1, <5>2
      <4> QED BY <4>2, <4>3
    <3>3. Len(queue') <= Len(queue) + 1
      <4>1. Tail(queue) \in Seq(Address) /\ Len(Tail(queue)) = Len(queue) - 1
        BY <2>1, <3>1
      <4>2. Len(queue') = Len(Tail(queue)) + Len(s)
        BY <3>2, <4>1
      <4> QED BY <2>2, <3>2, <4>1, <4>2
    <3>4. Remaining' < Remaining
      BY <2>1, <2>2, <3>1, <3>3 DEF Remaining
    <3> QED BY <2>3, <2>4, <3>1, <3>4 DEF Left
  <2> QED BY <2>4, <2>5, <2>6, <2>7, <2>8, <2>9 DEF Next, Terminated
<1>2. IInv => TypeOK
  BY DEF IInv, Walk
<1> QED BY <1>1, <1>2, Invariant, PTL DEF Spec

-----------------------------------------------------------------------------
(* The origin pass.                                                         *)

Knowable == Symbols \union {"other"}

Typed == /\ known \in [Places -> Knowable]
         /\ machine \in [Places -> Values]

Inv == Typed /\ OriginsAgree /\ SitesExact

LEMMA Parts == /\ Rcx \in Volatile /\ Volatile \subseteq Registers
               /\ Registers \subseteq Places /\ Keys \subseteq Places
               /\ Symbols \subseteq Knowable /\ "other" \in Knowable
               /\ "env" \in Symbols /\ "table" \in Symbols
               /\ Knowable \subseteq Values /\ Loose \subseteq Values
               /\ \A v \in Values : Symbol(v) \in Knowable
               /\ \A v \in Knowable : Symbol(v) = v
               /\ \A v : v \notin Symbols => Symbol(v) = "other"
BY OriginAssumption, ElsewhereAssumption DEF Places, Values, Symbols, Knowable, Symbol

LEMMA NoSiteExact == ASSUME site' = NoSite PROVE SitesExact'
BY DEF SitesExact, NoSite

\* An instruction that writes one place keeps the agreement if what the pass takes
\* it to write is what the processor writes, whenever it claims to follow.
LEMMA StepKeeps ==
  ASSUME Inv, NEW p \in Places, NEW symbol \in Knowable, NEW value \in Values,
         NEW follows, follows => symbol = Symbol(value), Step(p, symbol, value, follows)
  PROVE  Inv'
<1>1. known' = [known EXCEPT ![p] = symbol]
  BY DEF Step, Write
<1>2. SitesExact'
  BY NoSiteExact DEF Step
<1>3. CASE away
  <2>1. machine' = machine /\ strayed' = strayed \union {p}
    BY <1>3 DEF Step, Write
  <2> QED BY <1>1, <1>2, <2>1 DEF Inv, Typed, OriginsAgree
<1>4. CASE ~away
  <2>1. /\ machine' = [machine EXCEPT ![p] = value]
        /\ strayed' = IF follows THEN strayed \ {p} ELSE strayed \union {p}
    BY <1>4 DEF Step, Write
  <2>2. Typed'
    BY <1>1, <2>1 DEF Inv, Typed
  <2>3. ASSUME NEW q \in Places \ strayed' PROVE known'[q] = Symbol(machine'[q])
    BY <1>1, <2>1, <2>3 DEF Inv, Typed, OriginsAgree
  <2> QED BY <1>2, <2>2, <2>3 DEF Inv, OriginsAgree
<1> QED BY <1>3, <1>4

LEMMA SetType ==
  ASSUME NEW T, NEW f \in [Places -> T], NEW S, NEW v \in T
  PROVE  Set(f, S, v) \in [Places -> T]
BY DEF Set

LEMMA StoreKeeps == ASSUME Inv, StoreSlot PROVE Inv'
<1> USE Parts DEF Inv, Typed
<1>1. PICK k \in Keys, s \in Registers :
        /\ known' = [known EXCEPT ![k] = known[s]]
        /\ IF away
             THEN machine' = machine /\ strayed' = strayed \union {k}
             ELSE /\ machine' = Set(machine, Names(k), machine[s])
                  /\ strayed' = (strayed \ {k}) \union Aliases(k)
                                  \union (IF s \in strayed THEN {k} ELSE {})
        /\ site' = NoSite
  BY DEF StoreSlot
<1>2. k \in Places /\ s \in Places /\ known[s] \in Knowable /\ machine[s] \in Values
  OBVIOUS
<1>3. Typed'
  <2>1. Set(machine, Names(k), machine[s]) \in [Places -> Values]
    BY <1>2, SetType
  <2>2. machine' = machine \/ machine' = Set(machine, Names(k), machine[s])
    BY <1>1
  <2>3. machine' \in [Places -> Values]
    BY <2>1, <2>2
  <2>4. known' \in [Places -> Knowable]
    BY <1>1, <1>2
  <2> QED BY <2>3, <2>4
<1>4. ASSUME NEW q \in Places \ strayed' PROVE known'[q] = Symbol(machine'[q])
  <2>1. CASE away
    BY <1>1, <1>2, <1>4, <2>1 DEF OriginsAgree
  <2>2. CASE ~away
    <3>1. q \notin Aliases(k)
      BY <1>1, <1>4, <2>2
    <3>2. machine'[q] = IF q = k THEN machine[s] ELSE machine[q]
      BY <1>1, <2>2, <3>1 DEF Set, Names
    <3>3. q = k => s \notin strayed
      BY <1>1, <1>4, <2>2
    <3>4. q # k => q \notin strayed
      BY <1>1, <1>4, <2>2
    <3> QED BY <1>1, <1>2, <3>2, <3>3, <3>4 DEF OriginsAgree
  <2> QED BY <2>1, <2>2
<1> QED BY <1>1, <1>3, <1>4, NoSiteExact DEF OriginsAgree

LEMMA InexactStoreKeeps == ASSUME Inv, StoreInexact PROVE Inv'
<1> USE Parts DEF Inv, Typed
<1>1. PICK k \in Keys, s \in Registers, v \in Loose :
        \E written :
          /\ known' = [known EXCEPT ![k] = known[s]]
          /\ machine' = IF away THEN machine ELSE Set(machine, written, v)
          /\ strayed' = strayed \union {k} \union written
          /\ site' = NoSite
  BY DEF StoreInexact
<1>2. PICK written :
          /\ known' = [known EXCEPT ![k] = known[s]]
          /\ machine' = IF away THEN machine ELSE Set(machine, written, v)
          /\ strayed' = strayed \union {k} \union written
          /\ site' = NoSite
  BY <1>1
<1>3. Typed'
  <2>1. v \in Values /\ known[s] \in Knowable
    OBVIOUS
  <2>2. machine' \in [Places -> Values]
    BY <1>2, <2>1, SetType
  <2> QED BY <1>2, <2>1, <2>2
<1>4. ASSUME NEW q \in Places \ strayed' PROVE known'[q] = Symbol(machine'[q])
  <2>1. q # k /\ q \notin written /\ q \notin strayed
    BY <1>2
  <2>2. known'[q] = known[q] /\ machine'[q] = machine[q]
    BY <1>2, <2>1 DEF Set
  <2> QED BY <2>1, <2>2 DEF OriginsAgree
<1> QED BY <1>2, <1>3, <1>4, NoSiteExact DEF OriginsAgree

LEMMA CallKeeps == ASSUME Inv, AfterCall PROVE Typed' /\ OriginsAgree'
<1> USE Parts DEF Inv, Typed
<1>1. known' = Set(known, Volatile, "other")
  BY DEF AfterCall
<1>2. known' \in [Places -> Knowable]
  BY <1>1, SetType
<1>3. CASE away
  <2>1. machine' = machine /\ strayed' = strayed \union Volatile
    BY <1>3 DEF AfterCall
  <2> QED BY <1>1, <1>2, <2>1 DEF OriginsAgree, Set
<1>4. CASE ~away
  <2> DEFINE lost == Volatile \union HomeArea
  <2>1. PICK f \in [lost -> Loose] :
          /\ machine' = [p \in Places |-> IF p \in lost THEN f[p] ELSE machine[p]]
          /\ strayed' = (strayed \ Volatile) \union HomeArea
                          \union {p \in Volatile : f[p] \in Symbols}
    BY <1>4 DEF AfterCall
  <2>2. machine' \in [Places -> Values]
    BY <2>1
  <2>3. ASSUME NEW q \in Places \ strayed' PROVE known'[q] = Symbol(machine'[q])
    <3>1. q \notin HomeArea
      BY <2>1, <2>3
    <3>2. CASE q \in Volatile
      BY <1>1, <2>1, <2>3, <3>2 DEF Set
    <3>3. CASE q \notin Volatile
      BY <1>1, <2>1, <2>3, <3>1, <3>3 DEF OriginsAgree, Set
    <3> QED BY <3>2, <3>3
  <2> QED BY <1>2, <2>2, <2>3 DEF OriginsAgree
<1> QED BY <1>3, <1>4

LEMMA MovesKeep ==
  ASSUME Inv, Move \/ LoadTable \/ LoadSlot \/ MoveInexact \/ Clear \/ MoveOther \/ Unlisted
  PROVE  Inv'
<1> USE Parts DEF Inv, Typed
<1>0. \A base, displacement : TableOf(base, displacement) \in Knowable
  BY DEF TableOf
<1>1. CASE Move
  <2>1. PICK d \in Registers, s \in Registers :
          Step(d, known[s], machine[s], s \notin strayed)
    BY <1>1 DEF Move
  <2>2. s \notin strayed => known[s] = Symbol(machine[s])
    BY DEF OriginsAgree
  <2> QED BY <2>1, <2>2, StepKeeps
<1>2. CASE LoadTable
  <2>1. PICK d \in Registers, base \in Registers, displacement \in {0, 8} :
          \E v \in Loaded(base, displacement) :
            Step(d, TableOf(base, displacement), v,
                 base \notin strayed /\ (machine[base] = "env" \/ v \notin Symbols))
    BY <1>2 DEF LoadTable
  <2>2. PICK v \in Loaded(base, displacement) :
            Step(d, TableOf(base, displacement), v,
                 base \notin strayed /\ (machine[base] = "env" \/ v \notin Symbols))
    BY <2>1
  <2>3. v \in Values
    BY DEF Loaded, Values, Symbols
  <2>4. base \notin strayed => known[base] = Symbol(machine[base])
    BY DEF OriginsAgree
  <2>5. ASSUME base \notin strayed, machine[base] = "env" \/ v \notin Symbols
        PROVE  TableOf(base, displacement) = Symbol(v)
    <3>1. CASE machine[base] = "env"
      <4>1. known[base] = "env"
        BY <2>4, <2>5, <3>1
      <4>2. v = IF displacement = 0 THEN "table" ELSE "other"
        BY <2>2, <3>1 DEF Loaded
      <4> QED BY <4>1, <4>2 DEF TableOf, Symbol, Symbols
    <3>2. CASE machine[base] # "env"
      <4>1. known[base] # "env"
        BY <2>4, <2>5, <3>2 DEF Symbol
      <4>2. v \notin Symbols
        BY <2>5, <3>2
      <4> QED BY <4>1, <4>2 DEF TableOf
    <3> QED BY <3>1, <3>2
  <2> QED BY <1>0, <2>2, <2>3, <2>5, StepKeeps
<1>3. CASE LoadSlot
  <2>1. PICK d \in Registers, k \in Keys : Step(d, known[k], machine[k], k \notin strayed)
    BY <1>3 DEF LoadSlot
  <2>2. k \notin strayed => known[k] = Symbol(machine[k])
    BY DEF OriginsAgree
  <2> QED BY <2>1, <2>2, StepKeeps
<1>4. CASE MoveInexact
  <2>1. PICK d \in Registers, symbol \in Readings, v \in Loose :
          Step(d, symbol, v, symbol = "other" /\ v \notin Symbols)
    BY <1>4 DEF MoveInexact
  <2>2. symbol \in Knowable
    BY <1>0 DEF Readings
  <2> QED BY <2>1, <2>2, StepKeeps
<1>5. CASE Clear
  BY <1>5, StepKeeps DEF Clear
<1>6. CASE MoveOther
  BY <1>6, StepKeeps DEF MoveOther
<1>7. CASE Unlisted
  BY <1>7, StepKeeps DEF Unlisted
<1> QED BY <1>1, <1>2, <1>3, <1>4, <1>5, <1>6, <1>7

LEMMA CallsKeep == ASSUME Inv, DirectCall \/ IndirectCall \/ RegisterCall \/ TailCall PROVE Inv'
<1>1. CASE DirectCall
  BY <1>1, CallKeeps, NoSiteExact DEF DirectCall, Inv
<1>2. CASE IndirectCall
  <2>1. PICK base \in Registers, slot \in Slots, called \in Slots, indexed \in BOOLEAN :
          /\ indexed \/ called = slot
          /\ site' = [reported |-> Slot(slot, Reported(base, slot)),
                      made |-> Slot(called, machine[base] = "table" /\ called \in Named),
                      executed |-> ~away,
                      sure |-> base \notin strayed /\ ~indexed]
    BY <1>2 DEF IndirectCall
  <2>2. base \notin strayed => (known[base] = "table" <=> machine[base] = "table")
    BY Parts DEF Inv, OriginsAgree, Symbol, Symbols
  <2>3. SitesExact'
    BY <2>1, <2>2 DEF SitesExact, Reported, Slot
  <2> QED BY <1>2, <2>3, CallKeeps DEF IndirectCall, Inv
<1>3. CASE RegisterCall
  <2>1. SitesExact'
    BY <1>3 DEF RegisterCall, SitesExact
  <2> QED BY <1>3, <2>1, CallKeeps DEF RegisterCall, Inv
<1>4. CASE TailCall
  <2>1. SitesExact'
    BY <1>4 DEF TailCall, SitesExact
  <2> QED BY <1>4, <2>1 DEF TailCall, Inv, Typed, OriginsAgree
<1> QED BY <1>1, <1>2, <1>3, <1>4

LEMMA NextKeeps == Inv /\ [OriginNext]_originVars => Inv'
<1> SUFFICES ASSUME Inv, [OriginNext]_originVars PROVE Inv'
  OBVIOUS
<1>1. CASE Move \/ LoadTable \/ LoadSlot \/ MoveInexact \/ Clear \/ MoveOther \/ Unlisted
  BY <1>1, MovesKeep
<1>2. CASE StoreSlot
  BY <1>2, StoreKeeps
<1>3. CASE StoreInexact
  BY <1>3, InexactStoreKeeps
<1>4. CASE StoreElsewhere
  <2>1. PICK k \in Keys, v \in Loose :
          /\ machine' = Set(machine, Names(k), v)
          /\ strayed' = strayed \union Names(k)
    BY <1>4 DEF StoreElsewhere
  <2>2. known' = known /\ SitesExact'
    BY <1>4, NoSiteExact DEF StoreElsewhere
  <2>3. machine' \in [Places -> Values]
    BY <2>1, Parts, SetType DEF Inv, Typed
  <2>4. ASSUME NEW q \in Places \ strayed' PROVE known'[q] = Symbol(machine'[q])
    <3>1. q \notin Names(k) /\ q \notin strayed
      BY <2>1
    <3>2. machine'[q] = machine[q]
      BY <2>1, <3>1 DEF Set, Inv, Typed
    <3> QED BY <2>2, <3>1, <3>2 DEF Inv, OriginsAgree
  <2> QED BY <2>2, <2>3, <2>4 DEF Inv, Typed, OriginsAgree
<1>5. CASE MoveFrame
  <2>1. PICK b \in {"rsp", "rbp"}, f \in [Keys -> Loose] :
          /\ machine' = [p \in Places |->
                           IF p \in {k \in Keys : k[1] = b} THEN f[p] ELSE machine[p]]
          /\ strayed' = strayed \union {k \in Keys : k[1] = b}
    BY <1>5 DEF MoveFrame
  <2>2. known' = known /\ SitesExact'
    BY <1>5, NoSiteExact DEF MoveFrame
  <2> QED BY <2>1, <2>2, Parts DEF Inv, Typed, OriginsAgree
<1>6. CASE DirectCall \/ IndirectCall \/ RegisterCall \/ TailCall
  BY <1>6, CallsKeep
<1>7. CASE JumpForward \/ Land
  BY <1>7, NoSiteExact DEF JumpForward, Land, Inv, Typed, OriginsAgree
<1>8. CASE Entered
  <2>1. machine' \in [Places -> Values] /\ strayed' = Places /\ known' = known /\ SitesExact'
    BY <1>8, ElsewhereAssumption, NoSiteExact DEF Entered
  <2> QED BY <2>1 DEF Inv, Typed, OriginsAgree
<1>9. CASE UNCHANGED originVars
  BY <1>9 DEF originVars, Inv, Typed, OriginsAgree, SitesExact
<1> QED BY <1>1, <1>2, <1>3, <1>4, <1>5, <1>6, <1>7, <1>8, <1>9 DEF OriginNext

LEMMA InitHolds == OriginInit => Inv
<1> SUFFICES ASSUME OriginInit PROVE Inv
  OBVIOUS
<1>1. known \in [Places -> Knowable] /\ machine = known
  BY Parts DEF OriginInit
<1> QED BY <1>1, Parts DEF OriginInit, Inv, Typed, OriginsAgree, SitesExact, NoSite

\* The types of what Inv says nothing of.
SiteType == [reported : Slots \union {None}, made : Slots \union {None},
             executed : BOOLEAN, sure : BOOLEAN]

Rest == /\ strayed \subseteq Places
        /\ frame \in Frames
        /\ away \in BOOLEAN
        /\ site \in SiteType
        /\ steps \in 0..MaxSteps

LEMMA NamesArePlaces == \A k \in Keys : Names(k) \subseteq Places
BY Parts DEF Names, Aliases

LEMMA CallsTyped ==
  ASSUME Inv, Rest, DirectCall \/ IndirectCall \/ RegisterCall \/ TailCall,
         Tick => steps' \in 0..MaxSteps
  PROVE  Rest'
<1> USE Parts DEF Rest
<1>1. AfterCall => strayed' \subseteq Places /\ frame' = frame
  BY DEF AfterCall, HomeArea
<1>2. \A s \in Slots : \A c : Slot(s, c) \in Slots \union {None}
  BY DEF Slot
<1>3. NoSite \in SiteType
  BY DEF NoSite, SiteType
<1>4. CASE DirectCall
  BY <1>1, <1>3, <1>4 DEF DirectCall
<1>5. CASE IndirectCall
  BY <1>1, <1>2, <1>5 DEF IndirectCall, SiteType
<1>6. CASE RegisterCall
  BY <1>1, <1>2, <1>6, OriginAssumption DEF RegisterCall, SiteType
<1>7. CASE TailCall
  BY <1>2, <1>7 DEF TailCall, SiteType
<1> QED BY <1>4, <1>5, <1>6, <1>7

LEMMA RestStep == Inv /\ Rest /\ [OriginNext]_originVars => Rest'
<1> SUFFICES ASSUME Inv, Rest, [OriginNext]_originVars PROVE Rest'
  OBVIOUS
<1> USE Parts DEF Rest
<1>0. /\ NoSite \in SiteType
      /\ Tick => steps' \in 0..MaxSteps
      /\ MaxSteps \in Nat
  BY OriginAssumption DEF NoSite, Tick, SiteType
<1>1. ASSUME NEW p \in Places, NEW symbol, NEW value, NEW follows, Step(p, symbol, value, follows)
      PROVE  Rest'
  BY <1>0, <1>1 DEF Step, Write
<1>2. CASE Move \/ LoadTable \/ LoadSlot \/ MoveInexact \/ Clear \/ MoveOther \/ Unlisted
  <2>1. \E p \in Places : \E symbol, value, follows : Step(p, symbol, value, follows)
    BY <1>2 DEF Move, LoadTable, LoadSlot, MoveInexact, Clear, MoveOther, Unlisted
  <2> QED BY <2>1, <1>1
<1>3. CASE StoreSlot
  BY <1>0, <1>3 DEF StoreSlot, Aliases
<1>4. CASE StoreInexact
  BY <1>0, <1>4, NamesArePlaces DEF StoreInexact
<1>5. CASE StoreElsewhere
  BY <1>0, <1>5, NamesArePlaces DEF StoreElsewhere
<1>6. CASE MoveFrame
  BY <1>0, <1>6 DEF MoveFrame
<1>7. CASE DirectCall \/ IndirectCall \/ RegisterCall \/ TailCall
  BY <1>0, <1>7, CallsTyped
<1>8. CASE JumpForward \/ Land \/ Entered
  BY <1>0, <1>8 DEF JumpForward, Land, Entered
<1>9. CASE UNCHANGED originVars
  BY <1>9 DEF originVars
<1> QED BY <1>2, <1>3, <1>4, <1>5, <1>6, <1>7, <1>8, <1>9 DEF OriginNext

\* Types of the pass and the processor beside it.
THEOREM OriginTypeCorrect == OriginSpec => []OriginTypeOK
<1>1. OriginInit => Rest
  <2>1. NoSite \in SiteType
    BY DEF NoSite, SiteType
  <2>2. 0 \in 0..MaxSteps
    BY OriginAssumption
  <2> QED BY <2>1, <2>2 DEF OriginInit, Rest
<1>2. Inv /\ Rest => OriginTypeOK
  BY DEF Inv, Typed, Rest, OriginTypeOK, Knowable, SiteType
<1> QED BY <1>1, <1>2, InitHolds, NextKeeps, RestStep, PTL DEF OriginSpec

\* The pass knows exactly where the pointers are, but for the strayed places.
THEOREM OriginsKnown == OriginSpec => []OriginsAgree
<1>1. Inv => OriginsAgree
  BY DEF Inv
<1> QED BY <1>1, InitHolds, NextKeeps, PTL DEF OriginSpec

\* A call [r + n] through a register that did not stray is reported as what it calls.
THEOREM SitesReported == OriginSpec => []SitesExact
<1>1. Inv => SitesExact
  BY DEF Inv
<1> QED BY <1>1, InitHolds, NextKeeps, PTL DEF OriginSpec
=============================================================================
