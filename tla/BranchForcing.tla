---------------------------- MODULE BranchForcing ----------------------------
(***************************************************************************)
(* How one emulation records and forces conditional jumps (shadow_step,     *)
(* handle_conditional, actual_condition and force_condition in              *)
(* src/src/dynamic.rs).  The code hook sees a jump before the processor      *)
(* executes it: it records a direction and may rewrite EFLAGS so that the    *)
(* processor takes a wanted one.  The four flags are kept exactly; operand   *)
(* values matter only through the flags a comparison leaves, and shadow      *)
(* expressions only through being known or not.                             *)
(***************************************************************************)
EXTENDS ConditionCodes

VARIABLES
  flags,      \* EFLAGS of the emulated processor
  operands,   \* <<l, r>> while flags are those of cmp l, r; <<>> otherwise
  pending,    \* pending_comparison: "none", "known" or "unknown" expressions
  branch      \* the jump executed last: what it recorded and what it did

vars == <<flags, operands, pending, branch>>

NoBranch == [mnemonic |-> "none", recorded |-> FALSE, taken |-> FALSE,
             forced |-> FALSE, executed |-> FALSE, operands |-> <<>>]

Init == /\ flags \in Flags
        /\ operands = <<>>
        /\ pending = "none"
        /\ branch = NoBranch

\* Cmp sets the pending comparison, whatever is known of the operands ...
Compare == /\ branch' = NoBranch
           /\ pending' \in {"known", "unknown"}
           /\ \E l, r \in Word : /\ operands' = <<l, r>>
                                /\ flags' = CompareFlags(l, r)

\* ... and so does Test, which leaves the flags of a bitwise and.
Test == /\ branch' = NoBranch
        /\ operands' = <<>>
        /\ pending' \in {"known", "unknown"}
        /\ flags' \in {f \in Flags : ~f.of /\ ~f.cf /\ ~(f.zf /\ f.sf)}

\* Any other instruction that sets flags leaves the pending comparison behind.
Arithmetic == /\ branch' = NoBranch
              /\ operands' = <<>>
              /\ UNCHANGED pending
              /\ flags' \in Flags

\* A jump whose comparison is unknown is neither recorded nor forced.
UnknownJump == \E m \in Mnemonics :
                 /\ pending # "known"
                 /\ branch' = [NoBranch EXCEPT !.mnemonic = m,
                                               !.executed = Condition(m, flags),
                                               !.operands = operands]
                 /\ UNCHANGED <<flags, operands, pending>>

\* The scenario has no predicate for this occurrence of the jump.
NaturalJump == \E m \in Mnemonics :
                 /\ pending = "known"
                 /\ branch' = [mnemonic |-> m, recorded |-> TRUE, forced |-> FALSE,
                               taken |-> Condition(m, flags),
                               executed |-> Condition(m, flags),
                               operands |-> operands]
                 /\ pending' = "none"
                 /\ UNCHANGED <<flags, operands>>

\* Mutant of ForcedJump: the wanted outcome is recorded, EFLAGS are not written.
ForcedJumpUnwritten == \E m \in Mnemonics, desired \in BOOLEAN :
                         /\ pending = "known"
                         /\ branch' = [mnemonic |-> m, recorded |-> TRUE, forced |-> TRUE,
                                       taken |-> desired,
                                       executed |-> Condition(m, flags),
                                       operands |-> <<>>]
                         /\ operands' = <<>>
                         /\ pending' = "none"
                         /\ UNCHANGED flags

\* The scenario wants an outcome: force_condition writes EFLAGS, the record takes
\* the wanted outcome, and the processor then evaluates what was written.
ForcedJump == \E m \in Mnemonics, desired \in BOOLEAN :
                /\ pending = "known"
                /\ flags' = ForceCondition(m, flags, desired)
                /\ branch' = [mnemonic |-> m, recorded |-> TRUE, forced |-> TRUE,
                              taken |-> desired,
                              executed |-> Condition(m, flags'),
                              operands |-> <<>>]
                /\ operands' = <<>>
                /\ pending' = "none"

Next == Compare \/ Test \/ Arithmetic \/ UnknownJump \/ NaturalJump \/ ForcedJump

Spec == Init /\ [][Next]_vars

-----------------------------------------------------------------------------
Operands == Word \X Word

Jumped == [mnemonic : Mnemonics \union {"none"}, recorded : BOOLEAN, taken : BOOLEAN,
           forced : BOOLEAN, executed : BOOLEAN, operands : {<<>>} \union Operands]

TypeOK == /\ flags \in Flags
          /\ operands \in {<<>>} \union Operands
          /\ pending \in {"none", "known", "unknown"}
          /\ branch \in Jumped

\* The direction a branch is recorded with is the direction the processor takes,
\* forced or not: the search flips recorded directions, so a wrong one makes it
\* explore the same side twice and report the other as covered.
RecordedIsExecuted == branch.recorded => branch.taken = branch.executed

\* Unless flags were forced in between, a jump goes where the operands of the last
\* comparison send it: the flag formulas of actual_condition are the signed and
\* unsigned orders, also when the subtraction overflows.
JumpsByOperands ==
  branch.operands # <<>> =>
    branch.executed = Means(branch.mnemonic, branch.operands[1], branch.operands[2])

\* The exact extent of the defect of force_condition: a recorded direction differs
\* from the executed one only for a forced signed jump, and then only for "greater"
\* jumps forced to be taken and "less" jumps forced to fall through.
OnlySignedForcingFails ==
  branch.recorded /\ branch.taken # branch.executed =>
    /\ branch.forced
    /\ \/ branch.mnemonic \in {"Jg", "Jge"} /\ branch.taken
       \/ branch.mnemonic \in {"Jl", "Jle"} /\ ~branch.taken
=============================================================================
