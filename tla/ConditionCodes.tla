---------------------------- MODULE ConditionCodes ----------------------------
(***************************************************************************)
(* The four flags of EFLAGS that conditional jumps read, as actual_condition *)
(* evaluates them, as force_condition in src/src/dynamic.rs rewrites them, and *)
(* as a comparison of two words leaves them.                                *)
(***************************************************************************)
EXTENDS Integers

CONSTANTS
  Mnemonics,  \* the conditional jumps the target uses
  Width       \* bits of a register

AllMnemonics ==
  {"Je", "Jne", "Jg", "Jge", "Jl", "Jle", "Ja", "Jae", "Jb", "Jbe"}

ASSUME ForcingAssumption == Mnemonics \subseteq AllMnemonics /\ Width \in Nat \ {0}

Flags == [zf : BOOLEAN, sf : BOOLEAN, of : BOOLEAN, cf : BOOLEAN]

\* Mutant of Less: the overflow flag is forgotten.
LessSignOnly(f) == f.sf

\* The signed order: the sign of the difference, inverted by an overflow.
Less(f) == f.sf # f.of

\* actual_condition, which also is what the processor tests.
Condition(m, f) ==
  CASE m = "Je"  -> f.zf
    [] m = "Jne" -> ~f.zf
    [] m = "Jg"  -> ~f.zf /\ ~Less(f)
    [] m = "Jge" -> ~Less(f)
    [] m = "Jl"  -> Less(f)
    [] m = "Jle" -> f.zf \/ Less(f)
    [] m = "Ja"  -> ~f.cf /\ ~f.zf
    [] m = "Jae" -> ~f.cf
    [] m = "Jb"  -> f.cf
    [] m = "Jbe" -> f.cf \/ f.zf

\* The two flag images force_condition writes for signed jumps.
SignOnly(f)     == [zf |-> FALSE, sf |-> TRUE, of |-> FALSE, cf |-> FALSE]

\* Mutant of OverflowOnly: the overflow flag is cleared, too.
NeitherFlag(f) == [f EXCEPT !.sf = FALSE, !.of = FALSE, !.cf = TRUE]

OverflowOnly(f) == [f EXCEPT !.sf = FALSE, !.of = TRUE, !.cf = TRUE]

ForceCondition(m, f, desired) ==
  CASE m = "Je"            -> [f EXCEPT !.zf = desired]
    [] m = "Jne"           -> [f EXCEPT !.zf = ~desired]
    [] m \in {"Jg", "Jge"} -> IF desired THEN SignOnly(f) ELSE OverflowOnly(f)
    [] m \in {"Jl", "Jle"} -> IF desired THEN OverflowOnly(f) ELSE SignOnly(f)
    [] m \in {"Ja", "Jae"} -> IF desired THEN [f EXCEPT !.cf = FALSE, !.zf = FALSE]
                                         ELSE [f EXCEPT !.cf = TRUE]
    [] m \in {"Jb", "Jbe"} -> IF desired THEN [f EXCEPT !.cf = TRUE]
                                         ELSE [f EXCEPT !.cf = FALSE, !.zf = FALSE]

-----------------------------------------------------------------------------
(* What cmp computes on Width-bit operands (the processor, external).      *)

Half    == 2 ^ (Width - 1)
Modulus == 2 * Half
Word    == 0..(Modulus - 1)

ASSUME HalfAssumption == Half \in Nat \ {0}

Negative(n) == n >= Half
Signed(n)   == IF Negative(n) THEN n - Modulus ELSE n

CompareFlags(l, r) ==
  LET difference == IF l >= r THEN l - r ELSE l - r + Modulus IN
    [zf |-> l = r,
     sf |-> Negative(difference),
     of |-> Negative(l) # Negative(r) /\ Negative(difference) # Negative(l),
     cf |-> l < r]

\* What each jump means for the operands.
Means(m, l, r) ==
  CASE m = "Je"  -> l = r
    [] m = "Jne" -> l # r
    [] m = "Jg"  -> Signed(l) > Signed(r)
    [] m = "Jge" -> Signed(l) >= Signed(r)
    [] m = "Jl"  -> Signed(l) < Signed(r)
    [] m = "Jle" -> Signed(l) <= Signed(r)
    [] m = "Ja"  -> l > r
    [] m = "Jae" -> l >= r
    [] m = "Jb"  -> l < r
    [] m = "Jbe" -> l <= r
=============================================================================
