------------------------------ MODULE JniOrigins ------------------------------
(***************************************************************************)
(* How the static analysis finds JNI calls (trace_jni_origins in            *)
(* src/src/emulator.rs).  One pass over the decoded instructions, in the     *)
(* order of their addresses, follows the environment pointer and its        *)
(* function table through registers and stack slots; a call of a word that  *)
(* a register holding the table points to is a JNI call.                    *)
(*                                                                         *)
(* The model runs a processor over the same instructions.  While it follows  *)
(* the order of addresses, each step is one instruction of both.  When it    *)
(* jumps forward, the pass alone reads what is skipped; code behind a return  *)
(* or a jump is entered with registers from elsewhere.  RSP and RBP point    *)
(* into the frame: a target that keeps other values in RBP is left out.      *)
(***************************************************************************)
EXTENDS Integers, FiniteSets

CONSTANTS
  Registers,  \* general registers other than RSP and RBP
  Rcx,        \* holds the environment pointer on entry
  Volatile,   \* the registers the pass forgets at a call
  Keys,       \* stack operands as the pass names them: base register and displacement
  Slots,      \* displacement / 8 of an indirect call
  Named,      \* the slots below 236 that have a name
  Frames,     \* how many bytes RBP may stand above RSP
  Loose,      \* what may be in a word that neither side can tell
  Elsewhere,  \* what registers and stack may hold in code entered from elsewhere
  MaxSteps    \* bound of the model: instructions of the function

ASSUME OriginAssumption == /\ Rcx \in Volatile /\ Volatile \subseteq Registers
                           /\ Named \subseteq Slots
                           /\ Keys \subseteq {"rsp", "rbp"} \X Int
                           /\ Registers \intersect Keys = {}
                           /\ Frames \subseteq Int /\ Slots \subseteq Nat
                           /\ MaxSteps \in Nat

Symbols == {"env", "table"}

\* "entry": the address of a JNI function, read from the table.  The pass has no symbol
\* for it, as for any other word.
Values == Symbols \union {"entry", "other"}

Symbol(v) == IF v \in Symbols THEN v ELSE "other"

Places == Registers \union Keys

ASSUME ElsewhereAssumption == Elsewhere \subseteq [Places -> Values] /\ Loose \subseteq Values

VARIABLES
  known,    \* registers and stack_slots of the pass; "other" where it holds none
  machine,  \* what the processor's registers and stack operands hold
  strayed,  \* history: places where the two may differ
  frame,    \* RBP stands this many bytes above RSP
  away,     \* the processor jumped over the instructions now read
  site,     \* the indirect call read last
  steps

originVars == <<known, machine, strayed, frame, away, site, steps>>

None == -1

\* reported and made: the slot reported, and the JNI function called, if any.
\* sure: the call is of [r + n], and r has not strayed.
NoSite == [reported |-> None, made |-> None, executed |-> FALSE, sure |-> FALSE]

OriginInit == /\ known = [p \in Places |-> IF p = Rcx THEN "env" ELSE "other"]
              /\ machine = known
              /\ strayed = {}
              /\ frame \in Frames
              /\ away = FALSE
              /\ site = NoSite
              /\ steps = 0

Tick == steps < MaxSteps /\ steps' = steps + 1

-----------------------------------------------------------------------------
(* Effects shared by the instructions.                                     *)

Set(f, S, v) == [p \in DOMAIN f |-> IF p \in S THEN v ELSE f[p]]

\* The pass takes place p to hold `symbol`, the processor `value`; `follows` says
\* that the pass follows such an instruction.  A processor that is away does not
\* execute it.
Write(p, symbol, value, follows) ==
  /\ known' = [known EXCEPT ![p] = symbol]
  /\ IF away
       THEN machine' = machine /\ strayed' = strayed \union {p}
       ELSE /\ machine' = [machine EXCEPT ![p] = value]
            /\ strayed' = IF follows THEN strayed \ {p} ELSE strayed \union {p}

Step(p, symbol, value, follows) ==
  /\ Tick /\ Write(p, symbol, value, follows) /\ site' = NoSite /\ UNCHANGED <<frame, away>>

\* Mutant of TableOf: the load of any field of the environment is its table.
TableOfAny(base, displacement) == IF known[base] = "env" THEN "table" ELSE "other"

TableOf(base, displacement) ==
  IF known[base] = "env" /\ displacement = 0 THEN "table" ELSE "other"

-----------------------------------------------------------------------------
(* Instructions.                                                           *)

\* mov r, r
Move == \E d, s \in Registers : Step(d, known[s], machine[s], s \notin strayed)

\* What the processor loads: the table from the environment, the address of a function
\* from the table.
Loaded(base, displacement) ==
  CASE machine[base] = "env"   -> IF displacement = 0 THEN {"table"} ELSE {"other"}
    [] machine[base] = "table" -> {"entry", "other"}
    [] OTHER                   -> Loose

\* mov r, [base + displacement].  A pointer kept in other memory is not followed.
LoadTable == \E d, base \in Registers, displacement \in {0, 8} :
               \E v \in Loaded(base, displacement) :
                 Step(d, TableOf(base, displacement), v,
                      base \notin strayed /\ (machine[base] = "env" \/ v \notin Symbols))

\* mov r, [rsp + n] or [rbp + n]
LoadSlot == \E d \in Registers, k \in Keys :
              Step(d, known[k], machine[k], k \notin strayed)

\* What the pass may take a mov to read: a register, a stack slot or the table.
Readings == {known[p] : p \in Places}
              \union {TableOf(base, displacement) : base \in Registers, displacement \in {0, 8}}

\* The pass does not look at an operand's width, nor at its index register: for a
\* narrow mov, or one from [base + index + n], it takes the whole word at base + n.
MoveInexact == \E d \in Registers, symbol \in Readings, v \in Loose :
                 Step(d, symbol, v, symbol = "other" /\ v \notin Symbols)

\* The two names of one stack word.
StackWord(k) == IF k[1] = "rbp" THEN k[2] + frame ELSE k[2]
Aliases(k) == {j \in Keys : j # k /\ StackWord(j) = StackWord(k)}
Names(k) == {k} \union Aliases(k)

\* mov [rsp + n], r or [rbp + n], r: the other name of the word is not updated.
StoreSlot == \E k \in Keys, s \in Registers :
               /\ Tick
               /\ known' = [known EXCEPT ![k] = known[s]]
               /\ IF away
                    THEN machine' = machine /\ strayed' = strayed \union {k}
                    ELSE /\ machine' = Set(machine, Names(k), machine[s])
                         /\ strayed' = (strayed \ {k}) \union Aliases(k)
                                         \union (IF s \in strayed THEN {k} ELSE {})
               /\ site' = NoSite /\ UNCHANGED <<frame, away>>

\* The same with an index register or a narrow r: the pass takes it for a store of r
\* to [base + n], the processor writes another word of the stack, part of one, or
\* none that has a name here.
StoreInexact == \E k \in Keys, s \in Registers, v \in Loose :
                  \E written \in {{}} \union {Names(j) : j \in Keys} :
                    /\ Tick
                    /\ away => written = {}
                    /\ known' = [known EXCEPT ![k] = known[s]]
                    /\ machine' = IF away THEN machine ELSE Set(machine, written, v)
                    /\ strayed' = strayed \union {k} \union written
                    /\ site' = NoSite /\ UNCHANGED <<frame, away>>

\* The pass sees no store through another register, of an immediate or by another
\* instruction; any may hit a stack word.
StoreElsewhere == \E k \in Keys, v \in Loose :
                    /\ Tick
                    /\ ~away
                    /\ machine' = Set(machine, Names(k), v)
                    /\ strayed' = strayed \union Names(k)
                    /\ site' = NoSite /\ UNCHANGED <<known, frame, away>>

\* lea, xor, and, or, add, sub, imul and pop leave no pointer the pass knows of;
\* a copy of one made this way (pop, lea with no displacement) is lost.
Clear == \E d \in Registers, v \in Loose : Step(d, "other", v, v \notin Symbols)

\* An immediate, or any other operand of mov.
MoveOther == \E d \in Registers : Step(d, "other", "other", TRUE)

\* cmov, xchg, movzx and whatever else the pass does not list.
Unlisted == \E d \in Registers, v \in Loose : Step(d, known[d], v, FALSE)

\* push, pop and arithmetic on RSP or RBP: the slots keep their names.
MoveFrame == \E b \in {"rsp", "rbp"} : \E f \in [Keys -> Loose] :
               LET moved == {k \in Keys : k[1] = b} IN
                 /\ Tick
                 /\ ~away
                 /\ machine' = [p \in Places |-> IF p \in moved THEN f[p] ELSE machine[p]]
                 /\ strayed' = strayed \union moved
                 /\ frame' \in Frames
                 /\ site' = NoSite /\ UNCHANGED <<known, away>>

\* The words above the return address that the callee owns, by either name.
HomeArea == {k \in Keys : StackWord(k) \in 0..31}

\* A call keeps the other registers and, by the calling convention, the frame, but not
\* the home area: the pass keeps what it knows of it.  A pointer that the callee
\* returns is not followed; what it writes elsewhere is a StoreElsewhere.
AfterCall ==
  LET lost == Volatile \union HomeArea IN
    /\ known' = Set(known, Volatile, "other")
    /\ IF away
         THEN machine' = machine /\ strayed' = strayed \union Volatile
         ELSE \E f \in [lost -> Loose] :
                /\ machine' = [p \in Places |-> IF p \in lost THEN f[p] ELSE machine[p]]
                /\ strayed' = (strayed \ Volatile) \union HomeArea
                                \union {p \in Volatile : f[p] \in Symbols}
    /\ UNCHANGED frame

DirectCall == Tick /\ AfterCall /\ site' = NoSite /\ UNCHANGED away

\* Mutant of Reported: any indirect call through a pointer to the table's owner.
ReportedEnv(base, slot) == known[base] \in Symbols /\ slot \in Named

Reported(base, slot) == known[base] = "table" /\ slot \in Named

Slot(slot, condition) == IF condition THEN slot ELSE None

\* call [base + 8 * slot], or with an index register, which the pass ignores: then
\* another slot is called.
IndirectCall == \E base \in Registers, slot, called \in Slots, indexed \in BOOLEAN :
                  /\ Tick
                  /\ indexed \/ called = slot
                  /\ site' = [reported |-> Slot(slot, Reported(base, slot)),
                              made |-> Slot(called, machine[base] = "table" /\ called \in Named),
                              executed |-> ~away,
                              sure |-> base \notin strayed /\ ~indexed]
                  /\ AfterCall /\ UNCHANGED away

\* call r: with the address of a function in r it is a JNI call that is not reported.
RegisterCall == \E r \in Registers, slot \in Named :
                  /\ Tick
                  /\ site' = [reported |-> None, made |-> Slot(slot, machine[r] = "entry"),
                              executed |-> ~away, sure |-> FALSE]
                  /\ AfterCall /\ UNCHANGED away

\* jmp [base + 8 * slot] calls a JNI function in place of a return; it is no call for
\* the pass.
TailCall == \E base \in Registers, slot \in Slots :
              /\ Tick
              /\ site' = [reported |-> None,
                          made |-> Slot(slot, machine[base] = "table" /\ slot \in Named),
                          executed |-> ~away, sure |-> FALSE]
              /\ away' = TRUE
              /\ UNCHANGED <<known, machine, strayed, frame>>

\* A forward jump is taken; the pass reads on.
JumpForward == /\ Tick
               /\ ~away
               /\ away' = TRUE
               /\ site' = NoSite
               /\ UNCHANGED <<known, machine, strayed, frame>>

\* The target of that jump.
Land == /\ away
        /\ away' = FALSE
        /\ site' = NoSite
        /\ UNCHANGED <<known, machine, strayed, frame, steps>>

\* Code after a return or a jump back, reached from elsewhere.
Entered == /\ Tick
           /\ machine' \in Elsewhere
           /\ strayed' = Places
           /\ frame' \in Frames
           /\ away' = FALSE
           /\ site' = NoSite
           /\ UNCHANGED known

OriginNext ==
  \/ Move \/ LoadTable \/ LoadSlot \/ MoveInexact \/ Clear \/ MoveOther \/ Unlisted
  \/ StoreSlot \/ StoreInexact \/ StoreElsewhere \/ MoveFrame
  \/ DirectCall \/ IndirectCall \/ RegisterCall \/ TailCall
  \/ JumpForward \/ Land \/ Entered

OriginSpec == OriginInit /\ [][OriginNext]_originVars

-----------------------------------------------------------------------------
OriginTypeOK == /\ known \in [Places -> Symbols \union {"other"}]
                /\ machine \in [Places -> Values]
                /\ strayed \subseteq Places
                /\ frame \in Frames
                /\ away \in BOOLEAN
                /\ site \in [reported : Slots \union {None}, made : Slots \union {None},
                            executed : BOOLEAN, sure : BOOLEAN]
                /\ steps \in 0..MaxSteps

\* The pass knows exactly where the environment and its table are, except in places
\* last written by something it does not follow: an unlisted instruction, an operand
\* that is narrow or has an index register, the other name of a stack word, a store it
\* does not see, a moved frame, the home area of a call, a pointer computed or
\* returned, or code that the processor did not execute.
OriginsAgree == \A p \in Places \ strayed : known[p] = Symbol(machine[p])

\* A call [r + n] that the processor executes is reported as the JNI function it calls,
\* and as none if it calls none, unless r strayed.  (A function called with an index
\* register, by its address in a register or by a tail jump is not sure: the first is
\* reported under the slot of n, the others not at all.)
SitesExact == site.executed /\ site.sure => site.reported = site.made
=============================================================================
