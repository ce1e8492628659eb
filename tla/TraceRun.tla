------------------------------ MODULE TraceRun ------------------------------
(***************************************************************************)
(* One call of DynamicContext::trace_scenario (src/src/dynamic.rs): setting *)
(* up the emulator, the code hook and the invalid-memory hook on every      *)
(* instruction, the ways an emulation ends and the verdict formed            *)
(* afterwards.                                                              *)
(*                                                                          *)
(* Unicorn is external.  It counts every instruction it executes, the ret    *)
(* of a stub included; it stops at SENTINEL_ADDRESS by itself, whether or    *)
(* not it calls the code hook first; its timeout strikes between any two     *)
(* instructions.  Target code is abstracted to what the next address holds.  *)
(***************************************************************************)
EXTENDS Integers

CONSTANT MaxInstructions  \* max_instructions_per_scenario

ASSUME BudgetAssumption == MaxInstructions \in Nat \ {0}

\* What the processor meets next: straight code, undecodable bytes, int3 or ud2,
\* a JNI or import stub, unmapped memory, the return sentinel.
Places == {"code", "invalid", "trap", "stub", "unmapped", "sentinel"}

Reasons == {"none", "setup", "returned", "instructions", "time", "invalid", "trap",
            "fault", "terminated", "heap", "engine"}

VARIABLES
  phase,     \* "setup", "running", "stopped" (emu_start returned), "finished"
  place,     \* what RIP points to
  executed,  \* instructions Unicorn has counted
  counted,   \* instruction_count
  stubs,     \* history: stub instructions among the executed ones
  status,    \* what emu_start returns: "Ok" or "Err"
  timedOut,  \* Query::TIMEOUT
  limited,   \* instruction_limit
  reached,   \* reached_sentinel, reported as TracePath::completed
  captures,  \* calls of capture_return so far
  reason     \* stop_reason

vars == <<phase, place, executed, counted, stubs, status, timedOut, limited, reached,
          captures, reason>>

Init == /\ phase = "setup"
        /\ place \in {"code", "invalid", "trap", "unmapped"}
        /\ executed = 0 /\ counted = 0 /\ stubs = 0
        /\ status = "Ok"
        /\ timedOut = FALSE /\ limited = FALSE /\ reached = FALSE
        /\ captures = 0
        /\ reason = "none"

\* Unicorn::new, prepare_memory or a hook fails: TracePath::stopped.
SetupFails == /\ phase = "setup"
              /\ phase' = "finished"
              /\ reason' = "setup"
              /\ UNCHANGED <<place, executed, counted, stubs, status, timedOut, limited, reached, captures>>

Start == /\ phase = "setup"
         /\ phase' = "running"
         /\ UNCHANGED <<place, executed, counted, stubs, status, timedOut, limited, reached, captures, reason>>

InFlight == phase = "running" /\ executed < MaxInstructions

\* on_code counts the instruction before it looks at it.
Count == InFlight /\ counted' = counted + 1

LastOne == counted + 1 >= MaxInstructions

\* The hook asks Unicorn to stop; the instruction is not executed.
Stop(why) == /\ phase' = "stopped"
             /\ reason' = why
             /\ UNCHANGED <<place, executed, stubs, timedOut>>

HookLimit == /\ place \in {"code", "invalid", "trap"}
             /\ Count /\ LastOne
             /\ limited' = TRUE
             /\ Stop("instructions")
             /\ UNCHANGED <<status, reached, captures>>

BadInstruction == /\ place \in {"invalid", "trap"}
                  /\ Count /\ ~LastOne
                  /\ Stop(place)
                  /\ UNCHANGED <<status, limited, reached, captures>>

Execute == /\ place = "code"
           /\ Count /\ ~LastOne
           /\ executed' = executed + 1
           /\ place' \in Places
           /\ UNCHANGED <<phase, stubs, status, timedOut, limited, reached, captures, reason>>

\* An instruction of the target touches unmapped memory, control leaves it, or the
\* ret of a stub finds no stack.
MemoryFault == /\ \/ place = "code" /\ Count /\ ~LastOne
                  \/ place \in {"unmapped", "stub"} /\ InFlight /\ UNCHANGED counted
               /\ Stop("fault")
               /\ status' = "Err"
               /\ UNCHANGED <<limited, reached, captures>>

\* The engine gives up by itself, on a CPU exception or on an instruction it does not
\* know: no hook leaves a reason.
EngineFails == /\ place = "code"
               /\ Count /\ ~LastOne
               /\ phase' = "stopped"
               /\ status' = "Err"
               /\ UNCHANGED <<place, executed, stubs, timedOut, limited, reached, captures, reason>>

\* A stub answers and its ret is executed: back to the caller, or to wherever the
\* target made the return address point.
Stub == /\ place = "stub"
        /\ InFlight
        /\ executed' = executed + 1
        /\ stubs' = stubs + 1
        /\ place' \in Places

StubAnswers == Stub /\ UNCHANGED <<phase, counted, status, timedOut, limited, reached, captures, reason>>

\* allocate finds the heap budget spent: it leaves a stop_reason and goes on.
StubHeapSpent == /\ Stub
                 /\ reason' = "heap"
                 /\ UNCHANGED <<phase, counted, status, timedOut, limited, reached, captures>>

\* FatalError, abort, exit.
StubTerminates == /\ place = "stub"
                  /\ InFlight
                  /\ Stop("terminated")
                  /\ UNCHANGED <<counted, status, limited, reached, captures>>

\* The code hook sees the sentinel ...
HookReturn == /\ place = "sentinel"
              /\ InFlight
              /\ captures' = captures + 1
              /\ reached' = TRUE
              /\ Stop("returned")
              /\ UNCHANGED <<counted, status, limited>>

\* ... or Unicorn stops at its end address without calling the hook.
SilentReturn == /\ place = "sentinel"
                /\ InFlight
                /\ phase' = "stopped"
                /\ UNCHANGED <<place, executed, counted, stubs, status, timedOut, limited, reached, captures, reason>>

EngineLimit == /\ phase = "running"
               /\ executed = MaxInstructions
               /\ phase' = "stopped"
               /\ UNCHANGED <<place, executed, counted, stubs, status, timedOut, limited, reached, captures, reason>>

Timeout == /\ phase = "running"
           /\ phase' = "stopped"
           /\ timedOut' = TRUE
           /\ UNCHANGED <<place, executed, counted, stubs, status, limited, reached, captures, reason>>

\* Mutant of LateReturn: a timeout wins over the return.
LateReturnTimed == ~reached /\ place = "sentinel" /\ ~timedOut
\* trace_scenario after emu_start: RIP decides whether the method returned, then a
\* reason is chosen unless a hook has left one.
LateReturn == ~reached /\ place = "sentinel"

\* Mutant of Verdict: the clock is asked first.
VerdictTimeFirst == IF reason # "none" THEN reason
                    ELSE IF timedOut THEN "time"
                    ELSE IF reached \/ LateReturn THEN "returned"
                    ELSE IF limited THEN "instructions" ELSE "engine"

Verdict == IF reason # "none" THEN reason
           ELSE IF reached \/ LateReturn THEN "returned"
           ELSE IF limited THEN "instructions"
           ELSE IF timedOut THEN "time" ELSE "engine"

\* Mutant of Conclude: it waits for a reason from the hooks.
ConcludeNamed == /\ phase = "stopped"
                 /\ reason # "none"
                 /\ phase' = "finished"
                 /\ UNCHANGED <<reason, reached, captures, place, executed, counted, stubs,
                                status, timedOut, limited>>

Conclude == /\ phase = "stopped"
            /\ phase' = "finished"
            /\ \/ LateReturn /\ reached' = TRUE /\ captures' = captures + 1
               \/ ~LateReturn /\ UNCHANGED <<reached, captures>>
            /\ reason' = Verdict
            /\ UNCHANGED <<place, executed, counted, stubs, status, timedOut, limited>>

Terminated == phase = "finished" /\ UNCHANGED vars

Next == \/ SetupFails \/ Start
        \/ HookLimit \/ BadInstruction \/ Execute \/ MemoryFault \/ EngineFails
        \/ StubAnswers \/ StubHeapSpent \/ StubTerminates
        \/ HookReturn \/ SilentReturn \/ EngineLimit \/ Timeout
        \/ Conclude \/ Terminated

Spec == Init /\ [][Next]_vars

\* Unicorn keeps executing until it stops; nothing waits on another thread.
FairSpec == Spec /\ WF_vars(Next)

-----------------------------------------------------------------------------
TypeOK == /\ phase \in {"setup", "running", "stopped", "finished"}
          /\ place \in Places
          /\ executed \in 0..MaxInstructions
          /\ counted \in 0..MaxInstructions
          /\ stubs \in 0..executed
          /\ status \in {"Ok", "Err"}
          /\ timedOut \in BOOLEAN /\ limited \in BOOLEAN /\ reached \in BOOLEAN
          /\ captures \in Nat
          /\ reason \in Reasons

Finished == phase = "finished" /\ reason # "setup"

\* A path counts as completed exactly when the processor stands on the sentinel: a
\* timeout or an exhausted count that strikes at that very instruction does not lose
\* the return, and no other stop is mistaken for one.
CompletedIffReturned == Finished => (reached <=> place = "sentinel")

\* The return statement is emitted once for a completed path and never otherwise,
\* although both the hook and the code after emu_start emit it.
ReturnCapturedOnce == Finished => captures = IF reached THEN 1 ELSE 0

\* The reported reason is the true one: "returned" and "instruction limit" never
\* describe a path that ended otherwise, "time" only one the clock stopped, and a stop
\* is left unnamed ("emulator stopped") only when the engine failed or when stub
\* instructions used up part of its count.  A path that spent the heap carries that
\* reason if nothing later names another, whatever stopped it.
ReasonTruthful ==
  Finished =>
    /\ reason = "returned" => reached
    /\ reached => reason \in {"returned", "heap"}
    /\ reason = "instructions" <=> limited
    /\ reason = "time" => timedOut /\ ~limited /\ ~reached
    /\ reason \in {"invalid", "trap"} => place = reason
    /\ reason = "engine" => status = "Err" \/ (executed = MaxInstructions /\ stubs > 0)

\* trace_scenario returns, whatever the target does.
Ends == <>(phase = "finished")
=============================================================================
