----------------------------- MODULE ShadowValues -----------------------------
(***************************************************************************)
(* The expressions kept beside the emulated registers (shadow_step,         *)
(* read_operand, read_lea and memory_address in src/src/dynamic.rs) against *)
(* a processor that executes the same instructions.                         *)
(*                                                                         *)
(* An expression is represented by the word it denotes for the arguments    *)
(* and stub answers of this run.  A register is a word or its part: all but *)
(* the top bit, standing for the narrower operand sizes.  `misled` is a     *)
(* history of the registers that hold an expression of doubtful origin; the *)
(* actions name every such origin, and the properties say that there is no  *)
(* other.                                                                   *)
(*                                                                         *)
(* addsd to mulss are in the list of shadow_step, too, but the vector       *)
(* registers are looked up by names nothing is ever stored under, so their  *)
(* expressions are always unknown.                                          *)
(***************************************************************************)
EXTENDS ConditionCodes

CONSTANTS
  Registers,  \* full registers; a part of a register shares its expression
  Rax,        \* the register that calls return in
  Immediates, \* the immediate operands of the target
  Results,    \* words that stubs and instructions outside the model produce
  Images,     \* flags that instructions other than comparisons leave
  Bits,       \* what xor, and, or and the shifts compute (the processor, and Java)
  MaxSteps,   \* bound of the model: instructions of one run
  Unknown,    \* Value::unknown()
  Garbled     \* an expression that denotes no word

Shifts        == {"Shl", "Shr", "Sar"}
BitOperations == {"Xor", "And", "Or"} \union Shifts
Operations    == {"Add", "Sub", "Imul"} \union BitOperations

ASSUME ShadowAssumption == /\ Rax \in Registers
                           /\ Immediates \subseteq Word /\ Results \subseteq Word
                           /\ Images \subseteq Flags
                           /\ Unknown \notin Nat /\ Garbled \notin Nat
                           /\ Unknown # Garbled
                           /\ MaxSteps \in Nat

ASSUME BitsAssumption == \A op \in BitOperations : \A l, r \in Word : Bits[op][l, r] \in Word

VARIABLES
  regs,       \* the processor's registers
  cells,      \* the processor's stack: a local and, above it, an argument
  flags,      \* EFLAGS
  shadow,     \* registers: what each register's expression denotes
  pending,    \* pending_comparison, and whether it is what the flags test
  operands,   \* <<l, r>> while flags are those of cmp l, r; <<>> otherwise
  branch,     \* the jump executed last (see BranchForcing)
  condition,  \* the comparison recorded with it
  misled,     \* history: registers with an expression of doubtful origin
  steps

vars == <<regs, cells, flags, shadow, pending, operands, branch, condition, misled, steps>>

Text == Word \union {Unknown, Garbled}

NoComparison == [left |-> Unknown, right |-> Unknown, sound |-> FALSE]

\* The same run as BranchForcing sees it: of a comparison it only keeps whether
\* both sides are known.
Forcing == INSTANCE BranchForcing WITH
  pending <- IF pending = <<>> THEN "none"
             ELSE IF Unknown \in {pending[1].left, pending[1].right} THEN "unknown" ELSE "known"

-----------------------------------------------------------------------------
(* Sizes.                                                                  *)

Wrap(n) == n % Modulus

Low(n)      == IF Negative(n) THEN n - Half ELSE n
Top(n)      == 2 * Low(n)   \* the part, moved to the top of the word
Extended(n) == IF Negative(Top(n)) THEN Low(n) + Half ELSE Low(n)

\* How an instruction writes its destination: the whole register, the low part with
\* zeroes or its sign above, or the low part alone.
Forms == {"whole", "zero", "sign", "merge"}

Written(form, new, old) ==
  CASE form = "whole" -> new
    [] form = "zero"  -> Low(new)
    [] form = "sign"  -> Extended(new)
    [] form = "merge" -> IF Negative(old) THEN Half + Low(new) ELSE Low(new)

-----------------------------------------------------------------------------
(* Operands: the word the processor reads, what read_operand says of it,    *)
(* and whether there is a named reason to doubt that.                       *)

Read == [value : Word, text : Text, doubtful : BOOLEAN]

RegisterReads ==
  {[value |-> regs[r], text |-> shadow[r], doubtful |-> r \in misled] : r \in Registers}

\* An immediate is printed as an unsigned number; a negative one is no Java literal.
ImmediateReads ==
  {[value |-> k, text |-> IF Negative(k) THEN Garbled ELSE k, doubtful |-> Negative(k)] :
     k \in Immediates}

Local == 0
Slot  == 1   \* the stack argument, whose expression initialize_arguments stored

Addresses == {Local, Slot}

\* The third argument of a method is given the value 3; no instruction changes
\* what the memory map says.  Its keys are the address and eight bytes.
Argument == Wrap(3)
Remembered(address, form) == IF address = Slot /\ form = "whole" THEN Argument ELSE Unknown

\* memory_address: a negative displacement does not fit i64 and counts as zero.
ShadowAddress(base, displacement) ==
  IF displacement < 0 THEN base ELSE base + displacement

\* Doubtful when the displacement is negative or the slot has been written since it
\* was given its expression.
MemoryRead(address, believed, form) ==
  [value    |-> cells[address],
   text     |-> Remembered(believed, form),
   doubtful |-> address # believed \/ cells[address] # Argument]

MemoryReads(form) ==
  {MemoryRead(p[1] + p[2], ShadowAddress(p[1], p[2]), form) :
     p \in {q \in Addresses \X (-1..1) : q[1] + q[2] \in Addresses}}

Reads(form) == RegisterReads \union ImmediateReads \union MemoryReads(form)

-----------------------------------------------------------------------------
(* Arithmetic.                                                             *)

\* Mutant of Apply: the operands of a subtraction change places.
ApplySwapped(op, l, r) == CASE op = "Add"  -> Wrap(l + r)
                            [] op = "Sub"  -> Wrap(r - l)
                            [] op = "Imul" -> Wrap(l * r)
                            [] OTHER       -> Bits[op][l, r]

\* What the text "(l operator r)" denotes in Java.
Apply(op, l, r) == CASE op = "Add"  -> Wrap(l + r)
                     [] op = "Sub"  -> Wrap(l - r)
                     [] op = "Imul" -> Wrap(l * r)
                     [] OTHER       -> Bits[op][l, r]

\* What the processor computes, whatever text the program writes for it: a shift to
\* the right of a part shifts in zeroes or the sign of the part.
Computed(op, form, l, r) ==
  CASE op = "Add"  -> (l + r) % Modulus
    [] op = "Sub"  -> (l - r) % Modulus
    [] op = "Imul" -> (l * r) % Modulus
    [] op = "Shr" /\ form # "whole" -> Bits[op][Low(l), r]
    [] op = "Sar" /\ form # "whole" -> Bits[op][Extended(l), r]
    [] OTHER       -> Bits[op][l, r]

Combine(op, l, r) == IF Unknown \in {l, r} THEN Unknown
                     ELSE IF Garbled \in {l, r} THEN Garbled ELSE Apply(op, l, r)

Absent == [value |-> 0, text |-> Unknown, doubtful |-> FALSE]

\* read_lea adds the expressions it knows and no displacement.
LeaText(base, index, scale) ==
  IF index = Unknown THEN base
  ELSE IF base = Unknown THEN Combine("Imul", index, scale)
  ELSE Combine("Add", base, Combine("Imul", index, scale))

-----------------------------------------------------------------------------
(* Effects shared by the actions.                                          *)

Assign(d, value, text, doubtful) ==
  /\ regs' = [regs EXCEPT ![d] = value]
  /\ shadow' = [shadow EXCEPT ![d] = text]
  /\ misled' = IF doubtful /\ text # Unknown THEN misled \union {d} ELSE misled \ {d}

Tick == steps < MaxSteps /\ steps' = steps + 1

KeepFlags == UNCHANGED <<flags, pending, operands, branch, condition>>

\* Arithmetic sets the flags and leaves the pending comparison in place.
SetFlags == /\ flags' \in Images
            /\ operands' = <<>>
            /\ branch' = Forcing!NoBranch
            /\ condition' = NoComparison
            /\ UNCHANGED pending

-----------------------------------------------------------------------------
Init == /\ regs = [r \in Registers |-> IF r = Rax THEN 0 ELSE 1]
        /\ cells = [address \in Addresses |-> IF address = Slot THEN Argument ELSE 0]
        /\ flags = [zf |-> FALSE, sf |-> FALSE, of |-> FALSE, cf |-> FALSE]
        /\ shadow = [r \in Registers |-> IF r = Rax THEN Unknown ELSE regs[r]]
        /\ pending = <<>>
        /\ operands = <<>>
        /\ branch = Forcing!NoBranch
        /\ condition = NoComparison
        /\ misled = {}
        /\ steps = 0

\* mov, movzx, movsx and movsxd: the register takes the expression of the source,
\* which is doubtful when extension, truncation or the upper bits make another word
\* of it.
Move ==
  /\ Tick
  /\ \E d \in Registers, form \in Forms : \E s \in Reads(form) :
       LET v == Written(form, s.value, regs[d]) IN
         /\ Assign(d, v, s.text, s.doubtful \/ v # s.value)
         /\ KeepFlags /\ UNCHANGED cells

\* A conditional move takes the source's expression whether or not it moves.
ConditionalMove ==
  /\ Tick
  /\ \E d \in Registers, form \in {"whole", "zero", "merge"},
        m \in Mnemonics \intersect {"Je", "Jne", "Jg", "Jge", "Jl", "Jle"} :
       \E s \in RegisterReads \union MemoryReads(form) :
         LET moves == Condition(m, flags)
             v == Written(form, IF moves THEN s.value ELSE regs[d], regs[d])
         IN /\ Assign(d, v, s.text, s.doubtful \/ ~moves \/ v # s.value)
            /\ KeepFlags /\ UNCHANGED cells

\* Any register but RIP as base or index; doubtful when a displacement, or a register
\* without an expression, is left out of the sum.
Lea ==
  /\ Tick
  /\ \E d \in Registers, form \in {"whole", "zero"}, scale \in {1, 2}, displacement \in {0, 1} :
       \E base, index \in RegisterReads \union {Absent} :
         LET sum == Wrap(base.value + index.value * scale + displacement)
             v   == Written(form, sum, regs[d])
         IN /\ Assign(d, v, LeaText(base.text, index.text, scale),
                      \/ displacement # 0 \/ v # sum
                      \/ \E t \in {base, index} \ {Absent} : t.doubtful \/ t.text = Unknown)
            /\ KeepFlags /\ UNCHANGED cells

\* The listed arithmetic with two operands and a register as destination; inc and dec
\* are the cases of an immediate 1.
Arithmetic ==
  /\ Tick
  /\ \E d \in Registers, form \in {"whole", "zero", "merge"}, op \in Operations :
       \E s \in IF op \in Shifts THEN RegisterReads \union ImmediateReads ELSE Reads(form) :
         LET result == Computed(op, form, regs[d], s.value)
             v      == Written(form, result, regs[d])
         IN /\ Assign(d, v, Combine(op, shadow[d], s.text),
                      \/ d \in misled \/ s.doubtful
                      \/ v # Computed(op, "whole", regs[d], s.value))
            /\ SetFlags \/ (op \in Shifts /\ KeepFlags)
            /\ UNCHANGED cells

\* imul with three operands multiplies the last two; its expression is made of
\* the first two.
MultiplyThree ==
  /\ Tick
  /\ \E d \in Registers, form \in {"whole", "zero", "merge"}, k \in Immediates :
       \E s \in RegisterReads \union MemoryReads(form) :
         /\ Assign(d, Written(form, Computed("Imul", form, s.value, k), regs[d]),
                   Combine("Imul", shadow[d], s.text), TRUE)
         /\ SetFlags
         /\ UNCHANGED cells

\* mov and arithmetic whose destination is memory: the shadow does not notice.
Store ==
  /\ Tick
  /\ \E address \in Addresses, form \in {"whole", "merge"} :
       \E s \in RegisterReads \union ImmediateReads :
         /\ \/ /\ cells' = [cells EXCEPT ![address] = Written(form, s.value, cells[address])]
               /\ KeepFlags
            \/ \E op \in Operations :
                 /\ cells' = [cells EXCEPT ![address] =
                                Written(form, Computed(op, form, cells[address], s.value),
                                        cells[address])]
                 /\ SetFlags
         /\ UNCHANGED <<regs, shadow, misled>>

\* pop, xchg, neg, setcc, cdq, mul and every other instruction that is not listed may
\* change registers and flags; all expressions stay.
Unlisted ==
  /\ Tick
  /\ \E D \in SUBSET Registers : \E after \in [D -> Results] :
       /\ regs' = [r \in Registers |-> IF r \in D THEN after[r] ELSE regs[r]]
       /\ misled' = misled \union {r \in D : shadow[r] # Unknown}
       /\ KeepFlags \/ SetFlags
       /\ UNCHANGED <<cells, shadow>>

\* A RIP-relative lea, and a load that finds nothing in the memory map because of its
\* address or its size, give no expression.
Elsewhere ==
  /\ Tick
  /\ \E d \in Registers, v \in Results :
       /\ Assign(d, v, Unknown, FALSE)
       /\ KeepFlags /\ UNCHANGED cells

\* Entering a function drops the expression of the return register.
Call == /\ Tick
        /\ Assign(Rax, regs[Rax], Unknown, FALSE)
        /\ KeepFlags /\ UNCHANGED cells

\* A stub writes the register and its expression together: none, or a text that names
\* the answer (a literal, a variable, a field or a call, read at this moment) ...
Answer ==
  /\ Tick
  /\ \E v \in Results, known \in BOOLEAN :
       /\ Assign(Rax, v, IF known THEN v ELSE Unknown, FALSE)
       /\ KeepFlags /\ UNCHANGED cells

\* ... but ExceptionCheck answers 0, no exception, with a text that is true then.
ExceptionCheck == /\ Tick
                  /\ Assign(Rax, 0, 1, TRUE)
                  /\ KeepFlags /\ UNCHANGED cells

\* The operands of cmp and test: one of them may be in memory, the first is no
\* immediate.
Comparable(form) == RegisterReads \X Reads(form)
                    \union MemoryReads(form) \X (RegisterReads \union ImmediateReads)

\* A comparison of parts orders them as their images at the top of the word.
Tested(form, n) == IF form = "whole" THEN n ELSE Top(n)

\* A pending comparison speaks of the whole registers.  It tells what the flags tell
\* when neither expression is doubtful and neither part has lost anything.
Sound(form, s) == ~s.doubtful /\ (form = "whole" \/ s.value = Extended(s.value))

Pending(form, l, r) ==
  [left |-> l.text, right |-> r.text, sound |-> Sound(form, l) /\ Sound(form, r)]

SetComparison(form, p) == /\ operands' = <<Tested(form, p[1].value), Tested(form, p[2].value)>>
                          /\ flags' = CompareFlags(operands'[1], operands'[2])
                          /\ branch' = Forcing!NoBranch
                          /\ condition' = NoComparison
                          /\ UNCHANGED <<regs, cells, shadow, misled>>

\* Mutant of Compare: a comparison does not replace one that is still pending.
CompareFirst ==
  /\ Tick
  /\ \E form \in {"whole", "merge"} : \E p \in Comparable(form) :
       /\ SetComparison(form, p)
       /\ pending' = IF pending # <<>> THEN pending ELSE <<Pending(form, p[1], p[2])>>

Compare ==
  /\ Tick
  /\ \E form \in {"whole", "merge"} : \E p \in Comparable(form) :
       /\ SetComparison(form, p)
       /\ pending' = <<Pending(form, p[1], p[2])>>

\* test sets the flags of a bitwise and; the pending comparison says l against r.
Test ==
  /\ Tick
  /\ \E form \in {"whole", "merge"} : \E p \in Comparable(form) :
       LET both == Tested(form, Bits["And"][p[1].value, p[2].value]) IN
         /\ flags' = [zf |-> both = 0, sf |-> Negative(both), of |-> FALSE, cf |-> FALSE]
         /\ operands' = <<>>
         /\ pending' = <<[Pending(form, p[1], p[2]) EXCEPT !.sound = FALSE]>>
         /\ branch' = Forcing!NoBranch
         /\ condition' = NoComparison
         /\ UNCHANGED <<regs, cells, shadow, misled>>

Known == pending # <<>> /\ Unknown \notin {pending[1].left, pending[1].right}

UnknownJump ==
  /\ Tick /\ ~Known
  /\ \E m \in Mnemonics :
       branch' = [Forcing!NoBranch EXCEPT !.mnemonic = m, !.operands = operands,
                                          !.executed = Condition(m, flags)]
  /\ condition' = NoComparison
  /\ UNCHANGED <<regs, cells, flags, shadow, pending, operands, misled>>

NaturalJump ==
  /\ Tick /\ Known
  /\ \E m \in Mnemonics :
       branch' = [mnemonic |-> m, recorded |-> TRUE, forced |-> FALSE,
                  taken |-> Condition(m, flags), executed |-> Condition(m, flags),
                  operands |-> operands]
  /\ condition' = pending[1]
  /\ pending' = <<>>
  /\ UNCHANGED <<regs, cells, flags, shadow, operands, misled>>

ForceTo(m, desired) == /\ flags' = ForceCondition(m, flags, desired)
                     /\ branch' = [mnemonic |-> m, recorded |-> TRUE, forced |-> TRUE,
                                   taken |-> desired, executed |-> Condition(m, flags'),
                                   operands |-> <<>>]
                     /\ condition' = pending[1]
                     /\ operands' = <<>>
                     /\ UNCHANGED <<regs, cells, shadow, misled>>

\* Mutant of ForcedJump: the comparison stays pending.
ForcedJumpKept ==
  /\ Tick /\ Known
  /\ \E m \in Mnemonics, desired \in BOOLEAN : ForceTo(m, desired)
  /\ UNCHANGED pending

ForcedJump ==
  /\ Tick /\ Known
  /\ \E m \in Mnemonics, desired \in BOOLEAN : ForceTo(m, desired)
  /\ pending' = <<>>

Next == \/ Move \/ ConditionalMove \/ Lea \/ Arithmetic \/ MultiplyThree \/ Store
        \/ Unlisted \/ Elsewhere \/ Call \/ Answer \/ ExceptionCheck
        \/ Compare \/ Test \/ UnknownJump \/ NaturalJump \/ ForcedJump

Spec == Init /\ [][Next]_vars

-----------------------------------------------------------------------------
Comparison == [left : Text, right : Text, sound : BOOLEAN]

TypeOK == /\ regs \in [Registers -> Word]
          /\ cells \in [Addresses -> Word]
          /\ shadow \in [Registers -> Text]
          /\ pending \in {<<>>} \union {<<c>> : c \in Comparison}
          /\ condition \in Comparison
          /\ misled \subseteq Registers
          /\ steps \in 0..MaxSteps
          /\ Forcing!TypeOK

\* What capture_return, a receiver or a condition prints for a register denotes the
\* value of that register, unless it goes back to one of these: an unlisted
\* instruction, a conditional move that did not move, a part whose extension,
\* truncation or upper bits change the word, a displacement or a register without
\* expression in lea, a load from below its base or from a slot overwritten since,
\* imul with three operands, a negative immediate, or ExceptionCheck.
ShadowTruthful ==
  \A r \in Registers \ misled : shadow[r] \in {Unknown, regs[r]}

\* conditional_operator prints one order for signed and unsigned jumps, which Java
\* reads as signed.
Shown(m) == CASE m \in {"Jg", "Ja"}  -> "Jg"
              [] m \in {"Jge", "Jae"} -> "Jge"
              [] m \in {"Jl", "Jb"}  -> "Jl"
              [] m \in {"Jle", "Jbe"} -> "Jle"
              [] OTHER -> m

\* A condition recorded for a jump is true exactly when the processor takes it, if the
\* flags are still those of a cmp whose operands are not misled and, if parts, no
\* different from their whole registers, the jump was not forced, and its order
\* agrees with Java's on these values.  A comparison left pending by an earlier cmp
\* is never recorded for a later one.
ConditionTruthful ==
  /\ branch.recorded /\ branch.operands # <<>> /\ condition.sound
  /\ \/ branch.mnemonic = Shown(branch.mnemonic)
     \/ Negative(condition.left) = Negative(condition.right)
  => Means(Shown(branch.mnemonic), condition.left, condition.right) = branch.executed

\* Unless flags were forced in between, a jump goes where the operands of the last
\* comparison send it; and a recorded direction is wrong only for forced signed
\* jumps (both stated in BranchForcing).
JumpsByOperands        == Forcing!JumpsByOperands
OnlySignedForcingFails == Forcing!OnlySignedForcingFails

\* With expressions reduced to known or unknown, every run is one of BranchForcing:
\* what holds there of recorded and forced jumps holds with real registers.
ImplementsForcing == Forcing!Spec
=============================================================================
