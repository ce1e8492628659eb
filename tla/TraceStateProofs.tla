-------------------------- MODULE TraceStateProofs --------------------------
(***************************************************************************)
(* The state of one emulation.                                              *)
(*                                                                         *)
(* TraceRun: for every instruction budget the verdict agrees with where the  *)
(* processor stopped, the return statement is captured once, and the         *)
(* reported reason is the true one.                                         *)
(* SyntheticHeap: for every heap, word size and request, blocks of           *)
(* reasonable size are disjoint, hold no handle and lie in the heap; handles  *)
(* keep their meaning; only a request that wraps escapes the bound.          *)
(***************************************************************************)
EXTENDS TraceRun, SyntheticHeap, TLAPS

-----------------------------------------------------------------------------
(* How a run ends.                                                          *)

\* Unicorn's count splits into target instructions and stub instructions, and the
\* hook stops the run before the last target instruction.
Counting == phase \in {"setup", "running"} =>
               /\ executed = counted + stubs
               /\ counted < MaxInstructions

\* Nothing is decided while the processor runs.
Undecided == phase \in {"setup", "running"} =>
               /\ ~reached /\ ~limited /\ ~timedOut
               /\ captures = 0
               /\ reason \in {"none", "heap"}

\* What is known when emu_start returns.
Halted == phase = "stopped" =>
            /\ captures = IF reached THEN 1 ELSE 0
            /\ reached <=> reason = "returned"
            /\ reached => place = "sentinel"
            /\ limited <=> reason = "instructions"
            /\ reason \in {"invalid", "trap"} => place = reason
            /\ reason \in {"instructions", "fault", "terminated"} => place # "sentinel"
            /\ reason \notin {"setup", "time", "engine"}
            /\ reason = "none" /\ ~timedOut /\ status = "Ok" /\ place # "sentinel" =>
                 executed = MaxInstructions /\ stubs > 0

IInv == /\ TypeOK
        /\ Counting
        /\ Undecided
        /\ Halted
        /\ CompletedIffReturned
        /\ ReturnCapturedOnce
        /\ ReasonTruthful

LEMMA InvInit == Init => IInv
<1> SUFFICES ASSUME Init PROVE IInv
  OBVIOUS
<1>1. TypeOK
  <2>1. 0 \in 0..MaxInstructions /\ 0 \in 0..0
    BY BudgetAssumption
  <2> QED BY <2>1 DEF Init, TypeOK, Places, Reasons
<1>4. Counting
  BY BudgetAssumption DEF Init, Counting
<1>2. Undecided /\ Halted
  BY DEF Init, Undecided, Halted
<1>3. CompletedIffReturned /\ ReturnCapturedOnce /\ ReasonTruthful
  BY DEF Init, CompletedIffReturned, ReturnCapturedOnce, ReasonTruthful, Finished
<1> QED BY <1>1, <1>2, <1>3, <1>4 DEF IInv

LEMMA TypeStep == TypeOK /\ Counting /\ [Next]_vars => TypeOK'
<1> SUFFICES ASSUME TypeOK, Counting, [Next]_vars PROVE TypeOK'
  OBVIOUS
<1> USE BudgetAssumption DEF TypeOK, Places, Reasons
<1>1. CASE SetupFails \/ Start
  BY <1>1 DEF SetupFails, Start
<1>2. CASE HookLimit \/ BadInstruction
  <2>1. counted' \in 0..MaxInstructions
    BY <1>2 DEF HookLimit, BadInstruction, Count, InFlight, Counting
  <2> QED BY <1>2, <2>1 DEF HookLimit, BadInstruction, Stop
<1>3. CASE Execute
  BY <1>3 DEF Execute, Count, InFlight, LastOne, Counting
<1>4. CASE MemoryFault \/ EngineFails
  <2>1. counted' \in 0..MaxInstructions
    BY <1>4 DEF MemoryFault, EngineFails, Count, InFlight, Counting
  <2> QED BY <1>4, <2>1 DEF MemoryFault, EngineFails, Stop
<1>5. CASE StubAnswers \/ StubHeapSpent
  <2>1. executed' \in 0..MaxInstructions /\ stubs' \in 0..executed'
    BY <1>5 DEF StubAnswers, StubHeapSpent, Stub, InFlight
  <2> QED BY <1>5, <2>1 DEF StubAnswers, StubHeapSpent, Stub
<1>6. CASE StubTerminates \/ SilentReturn \/ EngineLimit \/ Timeout
  BY <1>6 DEF StubTerminates, SilentReturn, EngineLimit, EngineFails, Timeout, Stop
<1>9. CASE HookReturn
  BY <1>9 DEF HookReturn, Stop
<1>7. CASE Conclude
  <2>1. reached' \in BOOLEAN /\ captures' \in Nat
    <3>1. CASE LateReturn
      BY <1>7, <3>1 DEF Conclude
    <3>2. CASE ~LateReturn
      BY <1>7, <3>2 DEF Conclude
    <3> QED BY <3>1, <3>2
  <2>2. reason' \in Reasons
    BY <1>7 DEF Conclude, Verdict
  <2> QED BY <1>7, <2>1, <2>2 DEF Conclude
<1>8. CASE UNCHANGED vars
  BY <1>8 DEF vars
<1> QED BY <1>1, <1>2, <1>3, <1>4, <1>5, <1>6, <1>7, <1>8, <1>9 DEF Next, Terminated

LEMMA CountingStep == TypeOK /\ Counting /\ [Next]_vars => Counting'
<1> SUFFICES ASSUME TypeOK, Counting, [Next]_vars PROVE Counting'
  OBVIOUS
<1>0. /\ counted \in Nat /\ executed \in Nat /\ stubs \in Nat
      /\ MaxInstructions \in Nat
  BY BudgetAssumption DEF TypeOK
<1>1. CASE Start
  BY <1>1 DEF Start, Counting
<1>2. CASE Execute
  BY <1>0, <1>2 DEF Execute, Count, InFlight, LastOne, Counting
<1>3. CASE StubAnswers \/ StubHeapSpent
  BY <1>0, <1>3 DEF StubAnswers, StubHeapSpent, Stub, InFlight, Counting
<1>4. CASE UNCHANGED vars
  BY <1>4 DEF vars, Counting
<1>5. CASE phase' \notin {"setup", "running"}
  BY <1>5 DEF Counting
<1> QED BY <1>1, <1>2, <1>3, <1>4, <1>5
  DEF Next, Terminated, SetupFails, HookLimit, BadInstruction, MemoryFault, StubTerminates,
      HookReturn, SilentReturn, EngineLimit, EngineFails, Timeout, Conclude, Stop

LEMMA UndecidedStep == Undecided /\ [Next]_vars => Undecided'
<1> SUFFICES ASSUME Undecided, [Next]_vars PROVE Undecided'
  OBVIOUS
<1>1. CASE Start \/ Execute \/ StubAnswers \/ StubHeapSpent
  BY <1>1 DEF Start, Execute, Count, InFlight, StubAnswers, StubHeapSpent, Stub, Undecided
<1>2. CASE UNCHANGED vars
  BY <1>2 DEF vars, Undecided
<1>3. CASE phase' \notin {"setup", "running"}
  BY <1>3 DEF Undecided
<1> QED BY <1>1, <1>2, <1>3
  DEF Next, Terminated, SetupFails, HookLimit, BadInstruction, MemoryFault, StubTerminates,
      HookReturn, SilentReturn, EngineLimit, EngineFails, Timeout, Conclude, Stop

LEMMA HaltedStep ==
  TypeOK /\ Counting /\ Undecided /\ Halted /\ [Next]_vars => Halted'
<1> SUFFICES ASSUME TypeOK, Counting, Undecided, Halted, [Next]_vars PROVE Halted'
  OBVIOUS
<1>1. CASE HookLimit \/ BadInstruction
  BY <1>1 DEF HookLimit, BadInstruction, Count, InFlight, Stop, Undecided, Halted
<1>2. CASE MemoryFault \/ EngineFails \/ StubTerminates
  BY <1>2 DEF MemoryFault, EngineFails, StubTerminates, Count, InFlight, Stop, Undecided, Halted
<1>3. CASE HookReturn
  BY <1>3 DEF HookReturn, InFlight, Stop, Undecided, Halted
<1>4. CASE SilentReturn
  BY <1>4 DEF SilentReturn, InFlight, Undecided, Halted
<1>5. CASE EngineLimit
  <2>1. executed = MaxInstructions /\ stubs > 0
    BY <1>5, BudgetAssumption DEF EngineLimit, Counting, TypeOK
  <2> QED BY <1>5, <2>1 DEF EngineLimit, Undecided, Halted
<1>6. CASE Timeout
  BY <1>6 DEF Timeout, Undecided, Halted
<1>7. CASE UNCHANGED vars
  BY <1>7 DEF vars, Halted
<1>8. CASE phase' # "stopped"
  BY <1>8 DEF Halted
<1> QED BY <1>1, <1>2, <1>3, <1>4, <1>5, <1>6, <1>7, <1>8
  DEF Next, Terminated, SetupFails, Start, Execute, Count, InFlight, StubAnswers,
      StubHeapSpent, Stub, Conclude

\* The three claims about a finished path, together.
Verdicts == /\ CompletedIffReturned
            /\ ReturnCapturedOnce
            /\ ReasonTruthful

LEMMA VerdictStep ==
  TypeOK /\ Halted /\ Verdicts /\ [Next]_vars => Verdicts'
<1> SUFFICES ASSUME TypeOK, Halted, Verdicts, [Next]_vars PROVE Verdicts'
  OBVIOUS
<1> USE DEF Verdicts, CompletedIffReturned, ReturnCapturedOnce, ReasonTruthful, Finished
<1>1. CASE Conclude
  <2>1. CASE reached \/ place # "sentinel"
    BY <1>1, <2>1 DEF Conclude, Verdict, LateReturn, Halted, TypeOK
  <2>2. CASE ~reached /\ place = "sentinel"
    <3>0. ~reached /\ captures = 0
      BY <1>1, <2>2 DEF Conclude, Halted, TypeOK
    <3>1. /\ captures' = 1 /\ reached'
          /\ reason' = IF reason # "none" THEN reason ELSE "returned"
          /\ place' = place /\ limited' = limited
      BY <1>1, <2>2, <3>0 DEF Conclude, Verdict, LateReturn
    <3>2. reason \in {"none", "heap"} /\ ~limited
      BY <1>1, <2>2 DEF Conclude, Halted, TypeOK, Reasons
    <3>3. reason' \in {"returned", "heap"} /\ ~limited'
      BY <3>1, <3>2
    <3> QED BY <2>2, <3>1, <3>3
  <2> QED BY <2>1, <2>2
<1>2. CASE SetupFails
  BY <1>2 DEF SetupFails
<1>3. CASE UNCHANGED vars
  BY <1>3 DEF vars
<1>4. CASE phase' # "finished"
  BY <1>4
<1> QED BY <1>1, <1>2, <1>3, <1>4
  DEF Next, Terminated, Start, HookLimit, BadInstruction, MemoryFault, StubTerminates, Execute,
      StubAnswers, StubHeapSpent, Stub, Count, InFlight,
      HookReturn, SilentReturn, EngineLimit, EngineFails, Timeout, Stop

LEMMA Invariant == Spec => []IInv
<1>1. IInv /\ [Next]_vars => IInv'
  BY TypeStep, CountingStep, UndecidedStep, HaltedStep, VerdictStep DEF IInv, Verdicts
<1> QED BY InvInit, <1>1, PTL DEF Spec

\* The counters of a run stay within the budget, and the reason is one of those listed.
THEOREM RunTypeCorrect == Spec => []TypeOK
<1>1. IInv => TypeOK
  BY DEF IInv
<1> QED BY <1>1, Invariant, PTL

\* A path is completed exactly when the processor stopped on the sentinel.
THEOREM Completion == Spec => []CompletedIffReturned
<1>1. IInv => CompletedIffReturned
  BY DEF IInv
<1> QED BY <1>1, Invariant, PTL

\* The return statement is emitted exactly once per completed path.
THEOREM SingleReturn == Spec => []ReturnCapturedOnce
<1>1. IInv => ReturnCapturedOnce
  BY DEF IInv
<1> QED BY <1>1, Invariant, PTL

\* The reported stop reason is the true one.
THEOREM TrueReason == Spec => []ReasonTruthful
<1>1. IInv => ReasonTruthful
  BY DEF IInv
<1> QED BY <1>1, Invariant, PTL

\* What is left of a run: the instructions Unicorn may still execute, and the phases.
Left == CASE phase = "setup"    -> MaxInstructions + 3
          [] phase = "running"  -> MaxInstructions - executed + 2
          [] phase = "stopped"  -> 1
          [] phase = "finished" -> 0

Descends == Left \in Nat /\ Left' \in Nat /\ Left' < Left

\* Every step of trace_scenario brings its end nearer, whatever the target and the clock
\* do: a run has at most MaxInstructions + 3 steps, wherever control goes.
THEOREM RunDescends == Spec => [][Descends]_vars
<1>1. TypeOK /\ Counting /\ TypeOK' /\ [Next]_vars
        => [Descends]_vars
  <2> SUFFICES ASSUME TypeOK, TypeOK', Next, vars' # vars
               PROVE  Left \in Nat /\ Left' \in Nat /\ Left' < Left
    BY DEF Descends
  <2>1. /\ MaxInstructions \in Nat
        /\ executed \in 0..MaxInstructions /\ executed' \in 0..MaxInstructions
        /\ phase \in {"setup", "running", "stopped", "finished"}
        /\ phase' \in {"setup", "running", "stopped", "finished"}
    BY BudgetAssumption DEF TypeOK
  <2>2. Left \in Nat /\ Left' \in Nat
    BY <2>1 DEF Left
  <2>3. CASE SetupFails \/ Start
    BY <2>1, <2>3 DEF SetupFails, Start, Left
  <2>4. CASE Execute \/ StubAnswers \/ StubHeapSpent
    <3>1. phase = "running" /\ phase' = "running" /\ executed' = executed + 1
      BY <2>4 DEF Execute, Count, StubAnswers, StubHeapSpent, Stub, InFlight
    <3> QED BY <2>1, <2>2, <3>1 DEF Left
  <2>5. CASE \/ HookLimit \/ BadInstruction \/ MemoryFault \/ StubTerminates
             \/ HookReturn \/ SilentReturn \/ EngineLimit \/ EngineFails \/ Timeout
    <3>1. phase = "running" /\ phase' = "stopped"
      BY <2>5 DEF HookLimit, BadInstruction, MemoryFault, StubTerminates, HookReturn,
                  SilentReturn, EngineLimit, EngineFails, Timeout, Count, InFlight, Stop
    <3> QED BY <2>1, <2>2, <3>1 DEF Left
  <2>6. CASE Conclude
    <3>1. phase = "stopped" /\ phase' = "finished"
      BY <2>6 DEF Conclude
    <3> QED BY <2>2, <3>1 DEF Left
  <2> QED BY <2>2, <2>3, <2>4, <2>5, <2>6 DEF Next, Terminated
<1>2. IInv => TypeOK /\ Counting
  BY DEF IInv
<1> QED BY <1>1, <1>2, Invariant, PTL DEF Spec

-----------------------------------------------------------------------------
(* The heap.                                                                *)

\* What the bump pointer leaves behind: every handle and every sound block lies
\* below it.
Below == /\ HeapAddress + Reserve <= heapNext
         /\ \A h \in DOMAIN handles : h < heapNext
         /\ \A b \in Sound : b.address + b.asked <= heapNext

HeapInv == HeapTypeOK /\ Below /\ Disjoint /\ InHeap /\ OnlyWrappedGranted

\* What allocate grants: rounding up covers the request unless it wraps, and a
\* granted amount leaves the pointer within the heap.
LEMMA Granted ==
  ASSUME NEW size \in 0..(Modulus - 1), heapNext \in Nat
  PROVE  /\ Amount(size) \in Nat
         /\ size <= HeapSize => size <= Amount(size)
         /\ size <= HeapSize => Amount(size) >= Unit
         /\ Fits(size) => heapNext + Amount(size) <= HeapEnd
         /\ Fits(size) /\ size > HeapSize => size > Modulus - Unit
<1> USE HeapAssumption DEF Unit
<1> DEFINE most == IF size < Unit THEN Unit ELSE size
           padded == Plus(most, Unit - 1)
<1>1. most \in Nat /\ most < Modulus /\ size <= most /\ Unit <= most
  OBVIOUS
<1>2. padded \in Nat /\ padded % 16 \in 0..15 /\ padded % 16 <= padded
  <2>1. padded \in Nat
    BY <1>1 DEF Plus
  <2> HIDE DEF padded
  <2> QED BY <2>1
<1>3. Amount(size) = padded - (padded % 16)
  BY DEF Amount
<1>4. size <= Modulus - Unit => padded = most + 15
  BY <1>1 DEF Plus
<1> HIDE DEF padded, most
<1>5. Amount(size) \in Nat
  BY <1>2, <1>3
<1>6. size <= Modulus - Unit => most <= Amount(size)
  BY <1>1, <1>2, <1>3, <1>4
<1>7. HeapSize <= Modulus - Unit
  OBVIOUS
<1>8. Fits(size) => heapNext + Amount(size) <= HeapEnd
  BY <1>5 DEF Fits, Minus, HeapEnd
<1>9. Fits(size) /\ size > HeapSize => size > Modulus - Unit
  BY <1>1, <1>5, <1>6 DEF Fits
<1> QED BY <1>1, <1>5, <1>6, <1>7, <1>8, <1>9

LEMMA HeapInvInit == HeapInit => HeapInv
<1> SUFFICES ASSUME HeapInit PROVE HeapInv
  OBVIOUS
<1>1. DOMAIN handles = {} /\ blocks = {} /\ Sound = {}
  BY DEF HeapInit, Sound
<1>2. heapNext \in 0..(Modulus - 1) /\ heapNext = HeapAddress + Reserve
  BY HeapAssumption DEF HeapInit, Unit
<1>3. spent \in BOOLEAN
  BY DEF HeapInit
<1> QED
  BY <1>1, <1>2, <1>3, HeapAssumption
  DEF HeapInv, HeapTypeOK, Below, Disjoint, InHeap, OnlyWrappedGranted

LEMMA AllocateStep ==
  ASSUME NEW size \in 0..(Modulus - 1), HeapInv, Allocate(size)
  PROVE  HeapInv' /\ UNCHANGED handles
<1> USE HeapAssumption
<1>1. heapNext \in Nat
  BY DEF HeapInv, HeapTypeOK
<1>2. CASE ~Fits(size)
  BY <1>2 DEF Allocate, HeapInv, HeapTypeOK, Below, Disjoint, InHeap, OnlyWrappedGranted, Sound
<1>3. CASE Fits(size)
  <2> DEFINE new == [address |-> heapNext, asked |-> size]
  <2>1. /\ blocks' = blocks \union {new}
        /\ heapNext' = heapNext + Amount(size)
        /\ UNCHANGED <<handles, spent>>
    BY <1>3 DEF Allocate
  <2>2. /\ Amount(size) \in Nat
        /\ heapNext' <= HeapEnd
        /\ size <= HeapSize => heapNext + size <= heapNext' /\ heapNext < heapNext'
    BY <1>1, <1>3, <2>1, Granted DEF Unit
  <2>3. /\ new \in Block
        /\ new.address = heapNext /\ new.asked = size
    BY DEF Block, HeapInv, HeapTypeOK
  <2>4. Sound' = IF size <= HeapSize THEN Sound \union {new} ELSE Sound
    BY <2>1 DEF Sound
  <2> HIDE DEF new
  <2>5. \A b \in Sound : b \in Block
    BY DEF Sound, HeapInv, HeapTypeOK
  <2>6. HeapTypeOK'
    BY <1>1, <2>1, <2>2, <2>3 DEF HeapInv, HeapTypeOK, HeapEnd, Unit
  <2>7. Below'
    <3>1. heapNext <= heapNext' /\ heapNext' \in Nat
      BY <1>1, <2>1, <2>2
    <3>2. HeapAddress + Reserve <= heapNext'
      BY <1>1, <3>1 DEF HeapInv, Below
    <3>3. \A h \in DOMAIN handles' : h < heapNext'
      BY <1>1, <2>1, <3>1 DEF HeapInv, Below, HeapTypeOK
    <3>4. \A b \in Sound : b.address + b.asked <= heapNext'
      BY <1>1, <2>5, <3>1 DEF HeapInv, Below, Block
    <3>5. size <= HeapSize => new.address + new.asked <= heapNext'
      BY <2>2, <2>3
    <3> QED BY <2>4, <3>2, <3>3, <3>4, <3>5 DEF Below
  <2>8. Disjoint'
    <3>1. \A b \in Sound : b.address + b.asked <= heapNext
      BY DEF HeapInv, Below
    <3>2. \A h \in DOMAIN handles : h < heapNext /\ h \in Nat
      BY DEF HeapInv, Below, HeapTypeOK
    <3>3. \A b \in Sound' : \A c \in Sound' :
            b # c => Apart(b.address, b.asked, c.address, c.asked)
      BY <1>1, <2>3, <2>4, <2>5, <3>1 DEF HeapInv, Disjoint, Apart, Block
    <3>4. \A b \in Sound' : \A h \in DOMAIN handles : Apart(b.address, b.asked, h, 1)
      BY <1>1, <2>3, <2>4, <2>5, <3>2 DEF HeapInv, Disjoint, Apart, Block
    <3> QED BY <2>1, <3>3, <3>4 DEF Disjoint
  <2>9. InHeap'
    BY <1>1, <2>1, <2>2, <2>3, <2>4, <2>5 DEF HeapInv, InHeap, Below, HeapEnd, Block
  <2>10. OnlyWrappedGranted'
    BY <1>1, <1>3, <2>1, <2>3, Granted DEF HeapInv, OnlyWrappedGranted
  <2> QED BY <2>1, <2>6, <2>7, <2>8, <2>9, <2>10 DEF HeapInv
<1> QED BY <1>2, <1>3 DEF Allocate

LEMMA HandleStep ==
  ASSUME HeapInv, MakeHandle
  PROVE  /\ HeapInv'
         /\ \A h \in DOMAIN handles : h \in DOMAIN handles' /\ handles'[h] = handles[h]
<1> USE HeapAssumption DEF Unit
<1>1. PICK kind \in Kinds :
        handles' = [a \in DOMAIN handles \union {heapNext} |->
                      IF a = heapNext THEN kind ELSE handles[a]]
  BY DEF MakeHandle
<1>2. heapNext \in Nat /\ heapNext' = heapNext + 16 /\ heapNext' < Modulus
  BY DEF MakeHandle, SaturatingPlus, HeapInv, HeapTypeOK
<1>3. UNCHANGED <<blocks, spent>> /\ Sound' = Sound
  BY DEF MakeHandle, Sound
<1>4. \A b \in Sound : b \in Block
  BY DEF Sound, HeapInv, HeapTypeOK
<1>5. DOMAIN handles' = DOMAIN handles \union {heapNext}
  BY <1>1
<1>6. HeapTypeOK'
  BY <1>1, <1>2, <1>3, <1>5 DEF HeapInv, HeapTypeOK
<1>7. Below'
  BY <1>2, <1>3, <1>4, <1>5 DEF HeapInv, Below, HeapTypeOK, Block
<1>8. Disjoint'
  BY <1>2, <1>3, <1>4, <1>5 DEF HeapInv, Disjoint, Below, Apart, Block
<1>9. InHeap' /\ OnlyWrappedGranted'
  BY <1>3 DEF HeapInv, InHeap, OnlyWrappedGranted
<1>10. \A h \in DOMAIN handles : h # heapNext
  BY <1>2 DEF HeapInv, Below, HeapTypeOK
<1> QED BY <1>1, <1>5, <1>6, <1>7, <1>8, <1>9, <1>10 DEF HeapInv

LEMMA NextStep ==
  HeapInv /\ [HeapNext]_heapVars =>
    /\ HeapInv'
    /\ \A h \in DOMAIN handles : h \in DOMAIN handles' /\ handles'[h] = handles[h]
<1> SUFFICES ASSUME HeapInv, [HeapNext]_heapVars
             PROVE  /\ HeapInv'
                    /\ \A h \in DOMAIN handles :
                         h \in DOMAIN handles' /\ handles'[h] = handles[h]
  OBVIOUS
<1>1. CASE Malloc
  BY <1>1, AllocateStep, HeapAssumption DEF Malloc
<1>2. CASE Calloc
  <2>1. \A m, n \in Words : SaturatingTimes(m, n) \in 0..(Modulus - 1)
    BY HeapAssumption DEF SaturatingTimes
  <2> QED BY <1>2, <2>1, AllocateStep DEF Calloc
<1>3. CASE MakeHandle
  BY <1>3, HandleStep
<1>4. CASE UNCHANGED heapVars
  BY <1>4 DEF heapVars, HeapInv, HeapTypeOK, Below, Disjoint, InHeap, OnlyWrappedGranted, Sound
<1> QED BY <1>1, <1>2, <1>3, <1>4 DEF HeapNext

LEMMA HeapInvariant == HeapSpec => []HeapInv
<1> QED BY HeapInvInit, NextStep, PTL DEF HeapSpec

\* The bump pointer, handles and blocks are machine words throughout.
THEOREM HeapTypeCorrect == HeapSpec => []HeapTypeOK
<1>1. HeapInv => HeapTypeOK
  BY DEF HeapInv
<1> QED BY <1>1, HeapInvariant, PTL

\* No two blocks of reasonable size share a byte, and none holds a handle.
THEOREM BlocksDisjoint == HeapSpec => []Disjoint
<1>1. HeapInv => Disjoint
  BY DEF HeapInv
<1> QED BY <1>1, HeapInvariant, PTL

\* Blocks of reasonable size stay inside the mapped heap.
THEOREM BlocksInHeap == HeapSpec => []InHeap
<1>1. HeapInv => InHeap
  BY DEF HeapInv
<1> QED BY <1>1, HeapInvariant, PTL

\* An oversized request is granted only if it wraps to nothing.
THEOREM OversizeDefectIsolated == HeapSpec => []OnlyWrappedGranted
<1>1. HeapInv => OnlyWrappedGranted
  BY DEF HeapInv
<1> QED BY <1>1, HeapInvariant, PTL

\* A handle never changes its meaning.
THEOREM StableHandles == HeapSpec => HandlesKeepMeaning
<1>1. HeapInv /\ [HeapNext]_heapVars =>
        [\A h \in DOMAIN handles : h \in DOMAIN handles' /\ handles'[h] = handles[h]]_heapVars
  BY NextStep
<1> QED BY <1>1, HeapInvariant, PTL DEF HeapSpec, HandlesKeepMeaning
=============================================================================
