-------------------------- MODULE ShadowValuesProofs --------------------------
(***************************************************************************)
(* What a comparison says of its operands and what force_condition achieves *)
(* (ConditionCodes), then expressions, recorded conditions and the          *)
(* refinement of BranchForcing, for any registers, immediates and width.    *)
(*                                                                         *)
(* force_condition makes equality and unsigned jumps go as wanted, and      *)
(* drives half of the signed cases the opposite way.                        *)
(***************************************************************************)
EXTENDS ShadowValues, TLAPS

-----------------------------------------------------------------------------
(* Flags.                                                                   *)

LEMMA FlagFields ==
  ASSUME NEW f \in Flags
  PROVE  f.zf \in BOOLEAN /\ f.sf \in BOOLEAN /\ f.of \in BOOLEAN /\ f.cf \in BOOLEAN
BY DEF Flags

\* Both flag images of signed forcing say "less".
LEMMA LessValues ==
  ASSUME NEW f \in Flags
  PROVE  /\ Less(SignOnly(f)) = TRUE
         /\ Less(OverflowOnly(f)) = TRUE
         /\ SignOnly(f).zf = FALSE
BY DEF Less, SignOnly, OverflowOnly, Flags

\* After the rewrite the processor takes the wanted direction.
THEOREM ForceHonoured ==
  ASSUME NEW f \in Flags, NEW desired \in BOOLEAN,
         NEW m \in {"Je", "Jne", "Ja", "Jae", "Jb", "Jbe"}
  PROVE  Condition(m, ForceCondition(m, f, desired)) = desired
<1>1. f.zf \in BOOLEAN /\ f.cf \in BOOLEAN
  BY FlagFields
<1>2. CASE m = "Je"
  BY <1>1, <1>2 DEF Condition, ForceCondition, Flags
<1>3. CASE m = "Jne"
  BY <1>1, <1>3 DEF Condition, ForceCondition, Flags
<1>4. CASE m = "Ja"
  BY <1>1, <1>4 DEF Condition, ForceCondition, Flags
<1>5. CASE m = "Jae"
  BY <1>1, <1>5 DEF Condition, ForceCondition, Flags
<1>6. CASE m = "Jb"
  BY <1>1, <1>6 DEF Condition, ForceCondition, Flags
<1>7. CASE m = "Jbe"
  BY <1>1, <1>7 DEF Condition, ForceCondition, Flags
<1> QED BY <1>2, <1>3, <1>4, <1>5, <1>6, <1>7

\* A signed "greater" jump forced to be taken falls through, and a signed "less"
\* jump forced to fall through is taken.
THEOREM ForceInverted ==
  ASSUME NEW f \in Flags
  PROVE  /\ \A m \in {"Jg", "Jge"} : Condition(m, ForceCondition(m, f, TRUE)) = FALSE
         /\ \A m \in {"Jl", "Jle"} : Condition(m, ForceCondition(m, f, FALSE)) = TRUE
BY LessValues DEF Condition, ForceCondition, SignOnly

\* In the other two signed cases it works.
LEMMA SignedHonoured ==
  ASSUME NEW f \in Flags
  PROVE  /\ \A m \in {"Jg", "Jge"} : Condition(m, ForceCondition(m, f, FALSE)) = FALSE
         /\ \A m \in {"Jl", "Jle"} : Condition(m, ForceCondition(m, f, TRUE)) = TRUE
<1>1. /\ \A m \in {"Jg", "Jge"} : ForceCondition(m, f, FALSE) = OverflowOnly(f)
      /\ \A m \in {"Jl", "Jle"} : ForceCondition(m, f, TRUE) = OverflowOnly(f)
  BY DEF ForceCondition
<1> QED BY <1>1, LessValues DEF Condition

\* The flags of a comparison decide every jump as its operands would.
LEMMA FlagsMean ==
  ASSUME NEW l \in Word, NEW r \in Word, NEW m \in AllMnemonics
  PROVE  Condition(m, CompareFlags(l, r)) = Means(m, l, r)
<1> DEFINE f == CompareFlags(l, r)
           d == IF l >= r THEN l - r ELSE l - r + Modulus
<1>1. Half \in Nat /\ Half > 0 /\ Modulus = Half + Half
  BY HalfAssumption DEF Modulus
<1>2. l \in Int /\ r \in Int /\ 0 <= l /\ l < Modulus /\ 0 <= r /\ r < Modulus
  BY <1>1 DEF Word
<1>3. /\ f.zf = (l = r) /\ f.cf = (l < r) /\ f.sf = Negative(d)
      /\ f.of = (Negative(l) # Negative(r) /\ Negative(d) # Negative(l))
  BY DEF CompareFlags
<1>4. Less(f) = (Signed(l) < Signed(r))
  <2>1. Less(f) = (Negative(d) # (Negative(l) # Negative(r) /\ Negative(d) # Negative(l)))
    BY <1>3 DEF Less
  <2>2. CASE l < Half /\ r < Half
    BY <1>1, <1>2, <2>1, <2>2 DEF Negative, Signed
  <2>3. CASE l < Half /\ r >= Half
    BY <1>1, <1>2, <2>1, <2>3 DEF Negative, Signed
  <2>4. CASE l >= Half /\ r < Half
    BY <1>1, <1>2, <2>1, <2>4 DEF Negative, Signed
  <2>5. CASE l >= Half /\ r >= Half
    BY <1>1, <1>2, <2>1, <2>5 DEF Negative, Signed
  <2> QED BY <1>1, <1>2, <2>2, <2>3, <2>4, <2>5
<1>5. Signed(l) \in Int /\ Signed(r) \in Int /\ (Signed(l) = Signed(r) <=> l = r)
  BY <1>1, <1>2 DEF Signed, Negative
<1> SUFFICES Condition(m, f) = Means(m, l, r)
  OBVIOUS
<1> HIDE DEF f, d
<1>6. CASE m = "Je"
  BY <1>2, <1>3, <1>4, <1>5, <1>6 DEF Condition, Means
<1>7. CASE m = "Jne"
  BY <1>2, <1>3, <1>4, <1>5, <1>7 DEF Condition, Means
<1>8. CASE m = "Ja"
  BY <1>2, <1>3, <1>4, <1>5, <1>8 DEF Condition, Means
<1>9. CASE m = "Jae"
  BY <1>2, <1>3, <1>4, <1>5, <1>9 DEF Condition, Means
<1>10. CASE m = "Jb"
  BY <1>2, <1>3, <1>4, <1>5, <1>10 DEF Condition, Means
<1>11. CASE m = "Jbe"
  BY <1>2, <1>3, <1>4, <1>5, <1>11 DEF Condition, Means
<1>12. CASE m = "Jg"
  BY <1>2, <1>3, <1>4, <1>5, <1>12 DEF Condition, Means
<1>13. CASE m = "Jge"
  BY <1>2, <1>3, <1>4, <1>5, <1>13 DEF Condition, Means
<1>14. CASE m = "Jl"
  BY <1>2, <1>3, <1>4, <1>5, <1>14 DEF Condition, Means
<1>15. CASE m = "Jle"
  BY <1>2, <1>3, <1>4, <1>5, <1>15 DEF Condition, Means
<1> QED BY <1>6, <1>7, <1>8, <1>9, <1>10, <1>11, <1>12, <1>13, <1>14, <1>15 DEF AllMnemonics

LEMMA CompareFlagsType ==
  ASSUME NEW l \in Word, NEW r \in Word
  PROVE  CompareFlags(l, r) \in Flags
BY DEF CompareFlags, Flags, Negative

LEMMA ForceType ==
  ASSUME NEW f \in Flags, NEW desired \in BOOLEAN, NEW m \in AllMnemonics
  PROVE  ForceCondition(m, f, desired) \in Flags
<1>1. CASE m \in {"Je", "Jne"}
  BY <1>1 DEF ForceCondition, Flags
<1>2. CASE m \in {"Jg", "Jge", "Jl", "Jle"}
  BY <1>2 DEF ForceCondition, Flags, SignOnly, OverflowOnly
<1>3. CASE m \in {"Ja", "Jae", "Jb", "Jbe"}
  BY <1>3 DEF ForceCondition, Flags
<1> QED BY <1>1, <1>2, <1>3 DEF AllMnemonics

\* A forced jump goes the other way only for "greater" jumps forced to be taken and
\* "less" jumps forced to fall through.
LEMMA ForcedOutcome ==
  ASSUME NEW f \in Flags, NEW desired \in BOOLEAN, NEW m \in AllMnemonics,
         Condition(m, ForceCondition(m, f, desired)) # desired
  PROVE  \/ m \in {"Jg", "Jge"} /\ desired
         \/ m \in {"Jl", "Jle"} /\ ~desired
<1>1. m \notin {"Je", "Jne", "Ja", "Jae", "Jb", "Jbe"}
  BY ForceHonoured
<1>2. CASE m \in {"Jg", "Jge"}
  BY <1>2, SignedHonoured
<1>3. CASE m \in {"Jl", "Jle"}
  BY <1>3, SignedHonoured
<1> QED BY <1>1, <1>2, <1>3 DEF AllMnemonics

-----------------------------------------------------------------------------
(* Expressions.                                                             *)

Typed == /\ regs \in [Registers -> Word]
         /\ cells \in [Addresses -> Word]
         /\ shadow \in [Registers -> Text]
         /\ flags \in Flags

LEMMA Sizes == /\ Half \in Nat /\ Half > 0
               /\ Modulus \in Nat /\ Modulus = Half + Half
               /\ Word = {n \in Int : 0 <= n /\ n < Modulus}
BY HalfAssumption DEF Modulus, Word

LEMMA WrapType ==
  ASSUME NEW n \in Int
  PROVE  n % Modulus \in Word /\ (n \in Word => n % Modulus = n)
BY Sizes

\* A register is written with a word, in every form.
LEMMA WrittenType ==
  ASSUME NEW form \in Forms, NEW new \in Word, NEW old \in Word
  PROVE  /\ Low(new) \in Word /\ Extended(new) \in Word /\ Top(new) \in Word
         /\ Written(form, new, old) \in Word
         /\ Written("whole", new, old) = new
<1>1. Low(new) \in Int /\ 0 <= Low(new) /\ Low(new) < Half
  BY Sizes DEF Low, Negative
<1>2. Low(new) \in Word /\ Extended(new) \in Word /\ Top(new) \in Word
  BY <1>1, Sizes DEF Extended, Top
<1>3. Half + Low(new) \in Word
  BY <1>1, Sizes
<1> QED BY <1>2, <1>3 DEF Written, Forms

LEMMA ComputedType ==
  ASSUME NEW op \in Operations, NEW form \in Forms, NEW l \in Word, NEW r \in Word
  PROVE  Computed(op, form, l, r) \in Word /\ Apply(op, l, r) = Computed(op, "whole", l, r)
<1>1. l \in Int /\ r \in Int
  BY Sizes
<1>2. l + r \in Int /\ l - r \in Int /\ l * r \in Int
  BY <1>1
<1>3. /\ (l + r) % Modulus \in Word
      /\ (l - r) % Modulus \in Word
      /\ (l * r) % Modulus \in Word
  BY <1>2, WrapType
<1>4. Low(l) \in Word /\ Extended(l) \in Word
  BY WrittenType
<1>5. CASE op \in {"Add", "Sub", "Imul"}
  BY <1>3, <1>5 DEF Computed, Apply, Wrap
<1>6. CASE op \in BitOperations
  BY <1>4, <1>6, BitsAssumption DEF Computed, Apply, BitOperations, Shifts
<1> QED BY <1>5, <1>6 DEF Operations

LEMMA TextWords == /\ Word \subseteq Text /\ Unknown \in Text /\ Garbled \in Text
                   /\ Unknown \notin Nat /\ Garbled \notin Nat /\ Unknown # Garbled
                   /\ Unknown \notin Word /\ Garbled \notin Word
BY ShadowAssumption, Sizes DEF Text

LEMMA CombineType ==
  ASSUME NEW op \in Operations, NEW l \in Text, NEW r \in Text
  PROVE  Combine(op, l, r) \in Text
<1>1. ASSUME Unknown \notin {l, r}, Garbled \notin {l, r} PROVE Apply(op, l, r) \in Word
  <2>1. l \in Word /\ r \in Word
    BY <1>1 DEF Text
  <2> QED BY <2>1, ComputedType DEF Forms
<1> QED BY <1>1, TextWords DEF Combine

\* Combining what is known or right gives what is known or right.
LEMMA CombineTruthful ==
  ASSUME NEW op \in Operations, NEW l \in Word, NEW r \in Word,
         NEW e \in {Unknown, l}, NEW f \in {Unknown, r}
  PROVE  Combine(op, e, f) \in {Unknown, Computed(op, "whole", l, r)}
BY ComputedType, TextWords DEF Combine, Forms

\* What an operand says of itself, unless there is a named reason to doubt it.
Right(s) == s.doubtful \/ s.text \in {Unknown, s.value}

LEMMA ArgumentType == Argument \in Word
BY WrapType DEF Argument, Wrap

LEMMA RegisterRead ==
  ASSUME Typed, ShadowTruthful, NEW s \in RegisterReads
  PROVE  s \in Read /\ Right(s)
<1>1. PICK r \in Registers :
        s = [value |-> regs[r], text |-> shadow[r], doubtful |-> r \in misled]
  BY DEF RegisterReads
<1>2. regs[r] \in Word /\ shadow[r] \in Text
  BY DEF Typed
<1>3. r \notin misled => shadow[r] \in {Unknown, regs[r]}
  BY DEF ShadowTruthful
<1>4. (r \in misled) \in BOOLEAN
  OBVIOUS
<1>5. s \in Read
  BY <1>1, <1>2, <1>4 DEF Read
<1>6. s.value = regs[r] /\ s.text = shadow[r] /\ s.doubtful = (r \in misled)
  BY <1>1
<1> QED BY <1>3, <1>5, <1>6 DEF Right

LEMMA ImmediateRead ==
  ASSUME NEW s \in ImmediateReads
  PROVE  s \in Read /\ Right(s)
<1>1. PICK k \in Immediates :
        s = [value |-> k, text |-> IF Negative(k) THEN Garbled ELSE k, doubtful |-> Negative(k)]
  BY DEF ImmediateReads
<1>2. k \in Word /\ Negative(k) \in BOOLEAN
  BY ShadowAssumption DEF Negative
<1> QED BY <1>1, <1>2, TextWords DEF Read, Right

LEMMA MemoryReadRight ==
  ASSUME Typed, NEW form, NEW s \in MemoryReads(form)
  PROVE  s \in Read /\ Right(s)
<1>1. PICK p \in Addresses \X (-1..1) :
        /\ p[1] + p[2] \in Addresses
        /\ s = MemoryRead(p[1] + p[2], ShadowAddress(p[1], p[2]), form)
  BY DEF MemoryReads
<1> DEFINE a == p[1] + p[2]
           b == ShadowAddress(p[1], p[2])
<1>2. s = [value |-> cells[a], text |-> Remembered(b, form),
           doubtful |-> a # b \/ cells[a] # Argument]
  BY <1>1 DEF MemoryRead
<1>3. cells[a] \in Word /\ Remembered(b, form) \in Text
  BY <1>1, ArgumentType, TextWords DEF Typed, Remembered
<1>4. Remembered(b, form) \in {Unknown, Argument}
  BY DEF Remembered
<1> QED BY <1>2, <1>3, <1>4 DEF Read, Right

LEMMA AnyRead ==
  ASSUME Typed, ShadowTruthful, NEW form, NEW s \in Reads(form)
  PROVE  s \in Read /\ Right(s)
BY RegisterRead, ImmediateRead, MemoryReadRight DEF Reads

\* An instruction whose expression is beyond doubt gives the word it computes.
LEMMA AssignKeeps ==
  ASSUME Typed, ShadowTruthful,
         NEW d \in Registers, NEW value \in Word, NEW e \in Text,
         NEW doubtful, ~doubtful => e \in {Unknown, value},
         Assign(d, value, e, doubtful)
  PROVE  /\ regs' \in [Registers -> Word]
         /\ shadow' \in [Registers -> Text]
         /\ ShadowTruthful'
<1>1. /\ regs' = [regs EXCEPT ![d] = value]
      /\ shadow' = [shadow EXCEPT ![d] = e]
      /\ misled' = IF doubtful /\ e # Unknown THEN misled \union {d} ELSE misled \ {d}
  BY DEF Assign
<1>2. ASSUME NEW r \in Registers \ misled' PROVE shadow'[r] \in {Unknown, regs'[r]}
  <2>1. CASE r = d
    BY <1>1, <1>2, <2>1 DEF Typed
  <2>2. CASE r # d
    BY <1>1, <1>2, <2>2 DEF Typed, ShadowTruthful
  <2> QED BY <2>1, <2>2
<1> QED BY <1>1, <1>2 DEF Typed, ShadowTruthful

\* The shape shared by the instructions that write one register.
LEMMA AssignStep ==
  ASSUME Typed, ShadowTruthful,
         NEW d \in Registers, NEW value \in Word, NEW e \in Text,
         NEW doubtful, ~doubtful => e \in {Unknown, value},
         Assign(d, value, e, doubtful), KeepFlags \/ SetFlags, UNCHANGED cells
  PROVE  Typed' /\ ShadowTruthful'
<1>1. /\ regs' \in [Registers -> Word] /\ shadow' \in [Registers -> Text]
      /\ ShadowTruthful'
  BY AssignKeeps
<1>2. flags' \in Flags
  BY ShadowAssumption DEF Typed, KeepFlags, SetFlags
<1> QED BY <1>1, <1>2 DEF Typed

-----------------------------------------------------------------------------
(* The instructions that write a register.                                 *)

LEMMA MoveKeeps ==
  ASSUME Typed, ShadowTruthful, Move PROVE Typed' /\ ShadowTruthful'
<1>1. PICK d \in Registers, form \in Forms : \E s \in Reads(form) :
        /\ Assign(d, Written(form, s.value, regs[d]), s.text,
                  s.doubtful \/ Written(form, s.value, regs[d]) # s.value)
        /\ KeepFlags /\ UNCHANGED cells
  BY DEF Move
<1>2. PICK s \in Reads(form) :
        /\ Assign(d, Written(form, s.value, regs[d]), s.text,
                  s.doubtful \/ Written(form, s.value, regs[d]) # s.value)
        /\ KeepFlags /\ UNCHANGED cells
  BY <1>1
<1>3. s.value \in Word /\ s.text \in Text /\ (s.doubtful \/ s.text \in {Unknown, s.value})
  BY AnyRead DEF Read, Right
<1>4. Written(form, s.value, regs[d]) \in Word
  BY <1>3, WrittenType DEF Typed
<1>5. ~(s.doubtful \/ Written(form, s.value, regs[d]) # s.value)
        => s.text \in {Unknown, Written(form, s.value, regs[d])}
  BY <1>3
<1> QED BY <1>2, <1>3, <1>4, <1>5, AssignStep

LEMMA ConditionalMoveKeeps ==
  ASSUME Typed, ShadowTruthful, ConditionalMove PROVE Typed' /\ ShadowTruthful'
<1> DEFINE v(d, form, m, s) ==
             Written(form, IF Condition(m, flags) THEN s.value ELSE regs[d], regs[d])
<1>1. PICK d \in Registers, form \in {"whole", "zero", "merge"},
           m \in Mnemonics \intersect {"Je", "Jne", "Jg", "Jge", "Jl", "Jle"} :
        \E s \in RegisterReads \union MemoryReads(form) :
          /\ Assign(d, v(d, form, m, s), s.text,
                    s.doubtful \/ ~Condition(m, flags) \/ v(d, form, m, s) # s.value)
          /\ KeepFlags /\ UNCHANGED cells
  BY DEF ConditionalMove
<1>2. PICK s \in RegisterReads \union MemoryReads(form) :
        /\ Assign(d, v(d, form, m, s), s.text,
                  s.doubtful \/ ~Condition(m, flags) \/ v(d, form, m, s) # s.value)
        /\ KeepFlags /\ UNCHANGED cells
  BY <1>1
<1>3. s.value \in Word /\ s.text \in Text /\ (s.doubtful \/ s.text \in {Unknown, s.value})
  BY AnyRead DEF Read, Right, Reads
<1>4. v(d, form, m, s) \in Word
  <2>1. (IF Condition(m, flags) THEN s.value ELSE regs[d]) \in Word /\ regs[d] \in Word
    BY <1>3 DEF Typed
  <2>2. form \in Forms
    BY DEF Forms
  <2> QED BY <2>1, <2>2, WrittenType
<1>5. ~(s.doubtful \/ ~Condition(m, flags) \/ v(d, form, m, s) # s.value)
        => s.text \in {Unknown, v(d, form, m, s)}
  BY <1>3
<1> HIDE DEF v
<1> QED BY <1>2, <1>3, <1>4, <1>5, AssignStep

\* The terms of a sum whose index is scaled.
LEMMA Scaled ==
  ASSUME NEW index \in Text, NEW scale \in {1, 2}
  PROVE  /\ Combine("Imul", index, scale) \in Text
         /\ index = Unknown <=> Combine("Imul", index, scale) = Unknown
         /\ index \in Word => Combine("Imul", index, scale) = Wrap(index * scale)
<1>1. Unknown # scale /\ Garbled # scale
  BY TextWords
<1>2. Apply("Imul", index, scale) = Wrap(index * scale)
  BY DEF Apply
<1>3. ASSUME index \in Word PROVE Wrap(index * scale) \in Word
  <2>1. index * scale \in Int
    BY <1>3, Sizes
  <2> QED BY <2>1, WrapType DEF Wrap
<1> QED BY <1>1, <1>2, <1>3, TextWords DEF Combine, Text

LEMMA WrapSum ==
  ASSUME NEW m \in Word, NEW n \in Int, 0 <= n, n < Modulus + Modulus
  PROVE  Wrap(m + Wrap(n)) = Wrap(m + n)
<1>1. Modulus \in Nat /\ Modulus > 0 /\ m \in Int /\ 0 <= m /\ m < Modulus
  BY Sizes
<1>2. \A x \in Int : /\ 0 <= x /\ x < Modulus => x % Modulus = x
                     /\ Modulus <= x /\ x < Modulus + Modulus => x % Modulus = x - Modulus
                     /\ Modulus + Modulus <= x /\ x < Modulus + Modulus + Modulus
                          => x % Modulus = x - Modulus - Modulus
  BY <1>1
<1>3. CASE n < Modulus
  BY <1>1, <1>2, <1>3 DEF Wrap
<1>4. CASE Modulus <= n
  <2>1. n % Modulus = n - Modulus
    BY <1>2, <1>4
  <2> QED BY <1>1, <1>2, <1>4, <2>1 DEF Wrap
<1> QED BY <1>1, <1>3, <1>4

\* read_lea is the sum of its terms when it has an expression for each of them.
LEMMA LeaRight ==
  ASSUME NEW base \in Read, NEW index \in Read, NEW scale \in {1, 2},
         base = Absent \/ base.text = base.value,
         index = Absent \/ index.text = index.value
  PROVE  LeaText(base.text, index.text, scale)
           \in {Unknown, Wrap(base.value + index.value * scale)}
<1>1. /\ base.value \in Word /\ base.value \in Int
      /\ index.value \in Word /\ index.value \in Int /\ index.value * scale \in Int
  BY Sizes DEF Read
<1>2. /\ base = Absent => base.text = Unknown /\ base.value = 0
      /\ index = Absent => index.text = Unknown /\ index.value = 0 /\ index.value * scale = 0
  BY DEF Absent
<1> DEFINE product == Combine("Imul", index.text, scale)
<1>3. index # Absent => product = Wrap(index.value * scale) /\ product \in Word
                          /\ index.text # Unknown
  BY <1>1, Scaled, TextWords, WrapType DEF Read, Wrap
<1>4. base # Absent => base.text \in Word /\ base.text # Unknown /\ base.text = base.value
  BY <1>1, TextWords
<1> HIDE DEF product
<1>5. CASE index = Absent /\ base = Absent
  BY <1>2, <1>5 DEF LeaText
<1>6. CASE index = Absent /\ base # Absent
  <2>1. Wrap(base.value + index.value * scale) = base.value
    BY <1>1, <1>2, <1>6, WrapType DEF Wrap
  <2> QED BY <1>2, <1>4, <1>6, <2>1 DEF LeaText
<1>7. CASE index # Absent /\ base = Absent
  <2>1. base.value + index.value * scale = index.value * scale
    BY <1>1, <1>2, <1>7
  <2> QED BY <1>2, <1>3, <1>7, <2>1 DEF LeaText, product
<1>8. CASE index # Absent /\ base # Absent
  <2>1. LeaText(base.text, index.text, scale) = Combine("Add", base.text, product)
    BY <1>3, <1>4, <1>8 DEF LeaText, product
  <2>2. Combine("Add", base.text, product) = Wrap(base.value + product)
    BY <1>3, <1>4, <1>8, TextWords DEF Combine, Apply
  <2>3. 0 <= index.value * scale /\ index.value * scale < Modulus + Modulus
    BY <1>1, Sizes
  <2> QED BY <1>1, <1>3, <1>8, <2>1, <2>2, <2>3, WrapSum
<1> QED BY <1>5, <1>6, <1>7, <1>8

\* What lea computes, writes and doubts.
LeaSum(base, index, scale, n) == Wrap(base.value + index.value * scale + n)
LeaValue(d, form, base, index, scale, n) ==
  Written(form, LeaSum(base, index, scale, n), regs[d])
LeaDoubt(d, form, base, index, scale, n) ==
  \/ n # 0 \/ LeaValue(d, form, base, index, scale, n) # LeaSum(base, index, scale, n)
  \/ \E t \in {base, index} \ {Absent} : t.doubtful \/ t.text = Unknown

LEMMA LeaAssigns ==
  ASSUME Lea
  PROVE  \E d \in Registers, form \in {"whole", "zero"}, scale \in {1, 2}, n \in {0, 1} :
           \E base, index \in RegisterReads \union {Absent} :
             /\ Assign(d, LeaValue(d, form, base, index, scale, n),
                       LeaText(base.text, index.text, scale),
                       LeaDoubt(d, form, base, index, scale, n))
             /\ KeepFlags /\ UNCHANGED cells
BY DEF Lea, LeaSum, LeaValue, LeaDoubt

LEMMA LeaKeeps ==
  ASSUME Typed, ShadowTruthful, Lea PROVE Typed' /\ ShadowTruthful'
<1>1. PICK d \in Registers, form \in {"whole", "zero"}, scale \in {1, 2}, n \in {0, 1} :
        \E base, index \in RegisterReads \union {Absent} :
          /\ Assign(d, LeaValue(d, form, base, index, scale, n),
                    LeaText(base.text, index.text, scale),
                    LeaDoubt(d, form, base, index, scale, n))
          /\ KeepFlags /\ UNCHANGED cells
  BY LeaAssigns
<1>2. PICK base \in RegisterReads \union {Absent}, index \in RegisterReads \union {Absent} :
        /\ Assign(d, LeaValue(d, form, base, index, scale, n),
                  LeaText(base.text, index.text, scale),
                  LeaDoubt(d, form, base, index, scale, n))
        /\ KeepFlags /\ UNCHANGED cells
  BY <1>1
<1>3. /\ Absent \in Read
      /\ base \in Read /\ (base = Absent \/ Right(base))
      /\ index \in Read /\ (index = Absent \/ Right(index))
  <2>1. Absent \in Read
    BY TextWords, Sizes DEF Absent, Read
  <2> QED BY <2>1, RegisterRead
<1>4. LeaSum(base, index, scale, n) \in Word
  <2>1. base.value \in Int /\ index.value \in Int
    BY <1>3, Sizes DEF Read
  <2>2. base.value + index.value * scale + n \in Int
    BY <2>1
  <2> QED BY <2>2, WrapType DEF Wrap, LeaSum
<1>5. LeaValue(d, form, base, index, scale, n) \in Word
  BY <1>4, WrittenType DEF Typed, Forms, LeaValue
<1>6. LeaText(base.text, index.text, scale) \in Text
  <2>1. base.text \in Text /\ index.text \in Text
    BY <1>3 DEF Read
  <2>2. Combine("Imul", index.text, scale) \in Text /\ "Add" \in Operations
    BY <2>1, Scaled DEF Operations
  <2> QED BY <2>1, <2>2, CombineType DEF LeaText
<1>7. ASSUME ~LeaDoubt(d, form, base, index, scale, n)
      PROVE  LeaText(base.text, index.text, scale)
               \in {Unknown, LeaValue(d, form, base, index, scale, n)}
  <2>1. /\ n = 0
        /\ LeaValue(d, form, base, index, scale, n) = LeaSum(base, index, scale, n)
        /\ base # Absent => ~base.doubtful /\ base.text # Unknown
        /\ index # Absent => ~index.doubtful /\ index.text # Unknown
    BY <1>7 DEF LeaDoubt
  <2>2. /\ base = Absent \/ base.text = base.value
        /\ index = Absent \/ index.text = index.value
    BY <1>3, <2>1 DEF Right
  <2>3. base.value + index.value * scale + n = base.value + index.value * scale
    BY <1>3, <2>1, Sizes DEF Read
  <2> QED BY <1>3, <2>1, <2>2, <2>3, LeaRight DEF LeaSum
<1> QED BY <1>2, <1>5, <1>6, <1>7, AssignStep

LEMMA ArithmeticKeeps ==
  ASSUME Typed, ShadowTruthful, Arithmetic PROVE Typed' /\ ShadowTruthful'
<1> DEFINE v(d, form, op, s) == Written(form, Computed(op, form, regs[d], s.value), regs[d])
           plain(d, op, s) == Computed(op, "whole", regs[d], s.value)
<1>0. PICK d \in Registers, form \in {"whole", "zero", "merge"}, op \in Operations :
        \E s \in IF op \in Shifts THEN RegisterReads \union ImmediateReads ELSE Reads(form) :
          /\ Assign(d, v(d, form, op, s), Combine(op, shadow[d], s.text),
                    d \in misled \/ s.doubtful \/ v(d, form, op, s) # plain(d, op, s))
          /\ SetFlags \/ (op \in Shifts /\ KeepFlags)
          /\ UNCHANGED cells
  BY DEF Arithmetic
<1>1. form \in Forms
  BY DEF Forms
<1>2. PICK s \in Reads(form) :
        /\ Assign(d, v(d, form, op, s), Combine(op, shadow[d], s.text),
                  d \in misled \/ s.doubtful \/ v(d, form, op, s) # plain(d, op, s))
        /\ SetFlags \/ KeepFlags
        /\ UNCHANGED cells
  BY <1>0 DEF Reads
<1>3. s.value \in Word /\ s.text \in Text /\ (s.doubtful \/ s.text \in {Unknown, s.value})
  BY AnyRead DEF Read, Right
<1>4. regs[d] \in Word /\ shadow[d] \in Text
  BY DEF Typed
<1>5. v(d, form, op, s) \in Word
  BY <1>1, <1>3, <1>4, ComputedType, WrittenType
<1>6. Combine(op, shadow[d], s.text) \in Text
  BY <1>3, <1>4, CombineType
<1>7. ~(d \in misled \/ s.doubtful \/ v(d, form, op, s) # plain(d, op, s))
        => Combine(op, shadow[d], s.text) \in {Unknown, v(d, form, op, s)}
  <2> SUFFICES ASSUME d \notin misled, ~s.doubtful, v(d, form, op, s) = plain(d, op, s)
               PROVE  Combine(op, shadow[d], s.text) \in {Unknown, plain(d, op, s)}
    OBVIOUS
  <2>1. shadow[d] \in {Unknown, regs[d]} /\ s.text \in {Unknown, s.value}
    BY <1>3 DEF ShadowTruthful
  <2> QED BY <1>3, <1>4, <2>1, CombineTruthful
<1> HIDE DEF v, plain
<1> QED BY <1>2, <1>5, <1>6, <1>7, AssignStep

LEMMA MultiplyThreeKeeps ==
  ASSUME Typed, ShadowTruthful, MultiplyThree PROVE Typed' /\ ShadowTruthful'
<1>1. PICK d \in Registers, form \in Forms, k \in Immediates :
        \E s \in RegisterReads \union MemoryReads(form) :
          /\ Assign(d, Written(form, Computed("Imul", form, s.value, k), regs[d]),
                    Combine("Imul", shadow[d], s.text), TRUE)
          /\ SetFlags
          /\ UNCHANGED cells
  BY DEF MultiplyThree, Forms
<1>2. PICK s \in Reads(form) :
        /\ Assign(d, Written(form, Computed("Imul", form, s.value, k), regs[d]),
                  Combine("Imul", shadow[d], s.text), TRUE)
        /\ SetFlags
        /\ UNCHANGED cells
  BY <1>1 DEF Reads
<1>3. /\ s.value \in Word /\ s.text \in Text /\ k \in Word /\ "Imul" \in Operations
      /\ regs[d] \in Word /\ shadow[d] \in Text
  BY AnyRead, ShadowAssumption DEF Read, Typed, Operations
<1>4. Written(form, Computed("Imul", form, s.value, k), regs[d]) \in Word
  BY <1>3, ComputedType, WrittenType
<1>5. Combine("Imul", shadow[d], s.text) \in Text
  BY <1>3, CombineType
<1> QED BY <1>2, <1>4, <1>5, AssignStep

\* Values from outside the instructions: what other code, a stub or a call leaves.
LEMMA OutsideKeeps ==
  ASSUME Typed, ShadowTruthful, Elsewhere \/ Call \/ Answer \/ ExceptionCheck
  PROVE  Typed' /\ ShadowTruthful'
<1>1. KeepFlags /\ UNCHANGED cells
  BY DEF Elsewhere, Call, Answer, ExceptionCheck
<1>2. CASE Elsewhere
  <2>1. PICK d \in Registers, v \in Results : Assign(d, v, Unknown, FALSE)
    BY <1>2 DEF Elsewhere
  <2>2. v \in Word
    BY ShadowAssumption
  <2> QED BY <1>1, <2>1, <2>2, AssignStep, TextWords
<1>3. CASE Call
  <2>1. Assign(Rax, regs[Rax], Unknown, FALSE) /\ Rax \in Registers
    BY <1>3, ShadowAssumption DEF Call
  <2>2. regs[Rax] \in Word
    BY <2>1 DEF Typed
  <2> QED BY <1>1, <2>1, <2>2, AssignStep, TextWords
<1>4. CASE Answer
  <2>1. PICK v \in Results, known \in BOOLEAN :
          Assign(Rax, v, IF known THEN v ELSE Unknown, FALSE)
    BY <1>4 DEF Answer
  <2>2. v \in Word /\ Rax \in Registers /\ (IF known THEN v ELSE Unknown) \in Text
    BY ShadowAssumption, TextWords
  <2>3. (IF known THEN v ELSE Unknown) \in {Unknown, v}
    OBVIOUS
  <2> QED BY <1>1, <2>1, <2>2, <2>3, AssignStep
<1>5. CASE ExceptionCheck
  <2>1. Assign(Rax, 0, 1, TRUE) /\ Rax \in Registers
    BY <1>5, ShadowAssumption DEF ExceptionCheck
  <2>2. 0 \in Word /\ 1 \in Text
    BY Sizes, TextWords
  <2> QED BY <1>1, <2>1, <2>2, AssignStep
<1> QED BY <1>2, <1>3, <1>4, <1>5

LEMMA UnlistedKeeps ==
  ASSUME Typed, ShadowTruthful, Unlisted PROVE Typed' /\ ShadowTruthful'
<1>1. PICK D \in SUBSET Registers : \E after \in [D -> Results] :
        /\ regs' = [r \in Registers |-> IF r \in D THEN after[r] ELSE regs[r]]
        /\ misled' = misled \union {r \in D : shadow[r] # Unknown}
        /\ KeepFlags \/ SetFlags
        /\ UNCHANGED <<cells, shadow>>
  BY DEF Unlisted
<1>2. PICK after \in [D -> Results] :
        /\ regs' = [r \in Registers |-> IF r \in D THEN after[r] ELSE regs[r]]
        /\ misled' = misled \union {r \in D : shadow[r] # Unknown}
        /\ KeepFlags \/ SetFlags
        /\ UNCHANGED <<cells, shadow>>
  BY <1>1
<1>3. regs' \in [Registers -> Word]
  BY <1>2, ShadowAssumption DEF Typed
<1>4. flags' \in Flags
  BY <1>2, ShadowAssumption DEF Typed, KeepFlags, SetFlags
<1>5. ASSUME NEW r \in Registers \ misled' PROVE shadow'[r] \in {Unknown, regs'[r]}
  <2>1. CASE r \in D
    BY <1>2, <1>5, <2>1
  <2>2. CASE r \notin D
    BY <1>2, <1>5, <2>2 DEF ShadowTruthful
  <2> QED BY <2>1, <2>2
<1> QED BY <1>2, <1>3, <1>4, <1>5 DEF Typed, ShadowTruthful

-----------------------------------------------------------------------------
(* The instructions that leave the registers alone.                        *)

LEMMA StoreKeeps ==
  ASSUME Typed, ShadowTruthful, Store PROVE Typed' /\ ShadowTruthful'
<1>1. UNCHANGED <<regs, shadow, misled>>
  BY DEF Store
<1>2. PICK address \in Addresses, form \in Forms : \E s \in RegisterReads \union ImmediateReads :
        \/ /\ cells' = [cells EXCEPT ![address] = Written(form, s.value, cells[address])]
           /\ KeepFlags
        \/ \E op \in Operations :
             /\ cells' = [cells EXCEPT ![address] =
                            Written(form, Computed(op, form, cells[address], s.value),
                                    cells[address])]
             /\ SetFlags
  BY DEF Store, Forms
<1>3. PICK s \in RegisterReads \union ImmediateReads :
        \/ /\ cells' = [cells EXCEPT ![address] = Written(form, s.value, cells[address])]
           /\ KeepFlags
        \/ \E op \in Operations :
             /\ cells' = [cells EXCEPT ![address] =
                            Written(form, Computed(op, form, cells[address], s.value),
                                    cells[address])]
             /\ SetFlags
  BY <1>2
<1>4. s.value \in Word /\ cells[address] \in Word
  BY RegisterRead, ImmediateRead DEF Read, Typed
<1>5. \A op \in Operations :
        Written(form, Computed(op, form, cells[address], s.value), cells[address]) \in Word
  BY <1>4, ComputedType, WrittenType
<1>6. Written(form, s.value, cells[address]) \in Word
  BY <1>4, WrittenType
<1>7. cells' \in [Addresses -> Word]
  BY <1>3, <1>5, <1>6 DEF Typed
<1>8. flags' \in Flags
  BY <1>3, ShadowAssumption DEF Typed, KeepFlags, SetFlags
<1> QED BY <1>1, <1>7, <1>8 DEF Typed, ShadowTruthful

LEMMA TestFlagsType ==
  ASSUME NEW v
  PROVE  [zf |-> v = 0, sf |-> Negative(v), of |-> FALSE, cf |-> FALSE] \in Flags
BY DEF Flags, Negative

\* The operands of cmp and test, and what of them the flags are about.
LEMMA ComparableReads ==
  ASSUME Typed, ShadowTruthful, NEW form \in Forms, NEW p \in Comparable(form)
  PROVE  /\ p[1] \in Read /\ Right(p[1]) /\ p[2] \in Read /\ Right(p[2])
         /\ Tested(form, p[1].value) \in Word /\ Tested(form, p[2].value) \in Word
<1>1. p[1] \in Reads(form) /\ p[2] \in Reads(form)
  BY DEF Comparable, Reads
<1>2. p[1] \in Read /\ Right(p[1]) /\ p[2] \in Read /\ Right(p[2])
  BY <1>1, AnyRead
<1>3. p[1].value \in Word /\ p[2].value \in Word
  BY <1>2 DEF Read
<1> QED BY <1>2, <1>3, WrittenType DEF Tested

LEMMA CompareSets ==
  ASSUME Typed, ShadowTruthful, Compare
  PROVE  \E form \in Forms : \E p \in Comparable(form) :
           /\ SetComparison(form, p)
           /\ pending' = <<Pending(form, p[1], p[2])>>
           /\ operands' = <<Tested(form, p[1].value), Tested(form, p[2].value)>>
           /\ flags' = CompareFlags(Tested(form, p[1].value), Tested(form, p[2].value))
           /\ branch' = Forcing!NoBranch
BY DEF Compare, SetComparison, Forms

LEMMA FlagsOnlyKeep ==
  ASSUME Typed, ShadowTruthful, Compare \/ Test \/ UnknownJump \/ NaturalJump \/ ForcedJump
  PROVE  Typed' /\ ShadowTruthful'
<1>1. UNCHANGED <<regs, cells, shadow, misled>>
  BY DEF Compare, SetComparison, Test, UnknownJump, NaturalJump, ForcedJump, ForceTo
<1>2. flags' \in Flags
  <2>1. CASE Compare
    BY <2>1, CompareSets, ComparableReads, CompareFlagsType
  <2>2. CASE Test
    BY <2>2, TestFlagsType DEF Test
  <2>3. CASE UnknownJump \/ NaturalJump
    BY <2>3 DEF UnknownJump, NaturalJump, Typed
  <2>4. CASE ForcedJump
    <3>1. PICK m \in Mnemonics, desired \in BOOLEAN : flags' = ForceCondition(m, flags, desired)
      BY <2>4 DEF ForcedJump, ForceTo
    <3> QED BY <3>1, ForceType, ForcingAssumption DEF Typed
  <2> QED BY <2>1, <2>2, <2>3, <2>4
<1> QED BY <1>1, <1>2 DEF Typed, ShadowTruthful

LEMMA StepKeeps ==
  ASSUME Typed, ShadowTruthful, [Next]_vars PROVE Typed' /\ ShadowTruthful'
<1>1. CASE UNCHANGED vars
  BY <1>1 DEF vars, Typed, ShadowTruthful
<1> QED BY <1>1, MoveKeeps, ConditionalMoveKeeps, LeaKeeps, ArithmeticKeeps, MultiplyThreeKeeps,
           StoreKeeps, UnlistedKeeps, OutsideKeeps, FlagsOnlyKeep DEF Next

LEMMA StartsTruthful == Init => Typed /\ ShadowTruthful
<1> SUFFICES ASSUME Init PROVE Typed /\ ShadowTruthful
  OBVIOUS
<1>1. 0 \in Word /\ 1 \in Word /\ Argument \in Word
  BY Sizes, ArgumentType
<1> QED BY <1>1, TextWords DEF Init, Typed, ShadowTruthful, Flags

\* An expression denotes the value of its register, or is unknown, unless the register
\* goes back to one of the causes the property names: whatever the registers, the
\* width and the program.
THEOREM ExpressionsTruthful == Spec => []ShadowTruthful
<1>1. Init => Typed /\ ShadowTruthful
  BY StartsTruthful
<1>2. Typed /\ ShadowTruthful /\ [Next]_vars => Typed' /\ ShadowTruthful'
  BY StepKeeps
<1> QED BY <1>1, <1>2, PTL DEF Spec

-----------------------------------------------------------------------------
(* The pending comparison and the conditions recorded from it.             *)

\* Fresh operands are those of the comparison that set the flags.
Fresh == operands # <<>> => \E l, r \in Word : /\ operands = <<l, r>>
                                              /\ flags = CompareFlags(l, r)

\* A sound comparison that is still pending orders its words as the flags do.
PendingTruthful ==
  pending # <<>> /\ operands # <<>> /\ pending[1].sound =>
    \E l, r \in Word :
      /\ pending[1].left \in {Unknown, l}
      /\ pending[1].right \in {Unknown, r}
      /\ \A m \in AllMnemonics : Means(m, l, r) = Means(m, operands[1], operands[2])

LEMMA NoRecord ==
  ASSUME branch' = Forcing!NoBranch PROVE ConditionTruthful' /\ JumpsByOperands'
BY DEF Forcing!NoBranch, ConditionTruthful, JumpsByOperands, Forcing!JumpsByOperands

LEMMA MeansSame ==
  ASSUME NEW m, NEW l, NEW r
  PROVE  Forcing!Means(m, l, r) = Means(m, l, r)
BY DEF Forcing!Means, Means, Forcing!Signed, Signed, Forcing!Negative, Negative,
       Forcing!Modulus, Modulus, Forcing!Half, Half

\* Java's order is the order of the jump, unless exactly one operand is negative.
LEMMA ShownMeans ==
  ASSUME NEW m \in AllMnemonics, NEW l \in Word, NEW r \in Word,
         m = Shown(m) \/ Negative(l) = Negative(r)
  PROVE  Means(Shown(m), l, r) = Means(m, l, r)
<1>1. /\ l \in Int /\ r \in Int /\ Half \in Nat /\ Modulus \in Nat
  BY Sizes
<1>2. CASE m = Shown(m)
  BY <1>2
<1>3. CASE Negative(l) = Negative(r)
  <2>1. /\ Signed(l) > Signed(r) <=> l > r
        /\ Signed(l) >= Signed(r) <=> l >= r
        /\ Signed(l) < Signed(r) <=> l < r
        /\ Signed(l) <= Signed(r) <=> l <= r
    BY <1>1, <1>3 DEF Signed, Negative
  <2>2. CASE m = "Ja"
    BY <2>1, <2>2 DEF Shown, Means
  <2>3. CASE m = "Jae"
    BY <2>1, <2>3 DEF Shown, Means
  <2>4. CASE m = "Jb"
    BY <2>1, <2>4 DEF Shown, Means
  <2>5. CASE m = "Jbe"
    BY <2>1, <2>5 DEF Shown, Means
  <2>6. CASE m \in {"Je", "Jne", "Jg", "Jge", "Jl", "Jle"}
    BY <2>6 DEF Shown
  <2> QED BY <2>2, <2>3, <2>4, <2>5, <2>6 DEF AllMnemonics
<1> QED BY <1>2, <1>3

\* What a jump on fresh flags does.
LEMMA JumpOnFresh ==
  ASSUME Fresh, operands # <<>>, NEW m \in Mnemonics
  PROVE  /\ operands[1] \in Word /\ operands[2] \in Word
         /\ Condition(m, flags) = Means(m, operands[1], operands[2])
<1>1. PICK l \in Word, r \in Word : operands = <<l, r>> /\ flags = CompareFlags(l, r)
  BY DEF Fresh
<1>2. m \in AllMnemonics
  BY ForcingAssumption
<1> QED BY <1>1, <1>2, FlagsMean

Recorded == Fresh /\ PendingTruthful /\ ConditionTruthful /\ JumpsByOperands

\* Instructions that keep the flags keep the record of the last jump; the ones that
\* set them drop it.
LEMMA OthersKeepRecord ==
  ASSUME Recorded,
         \/ Move \/ ConditionalMove \/ Lea \/ Arithmetic \/ MultiplyThree \/ Store
         \/ Unlisted \/ Elsewhere \/ Call \/ Answer \/ ExceptionCheck
         \/ Test \/ UNCHANGED vars
  PROVE  Recorded'
<1>1. CASE KeepFlags
  BY <1>1 DEF KeepFlags, Recorded, Fresh, PendingTruthful, ConditionTruthful, JumpsByOperands,
              Forcing!JumpsByOperands
<1>2. CASE operands' = <<>> /\ branch' = Forcing!NoBranch
  BY <1>2, NoRecord DEF Recorded, Fresh, PendingTruthful
<1>3. CASE UNCHANGED vars
  <2>1. KeepFlags
    BY <1>3 DEF vars, KeepFlags
  <2> QED BY <1>1, <2>1
<1>4. Move \/ ConditionalMove \/ Lea \/ Elsewhere \/ Call \/ Answer \/ ExceptionCheck => KeepFlags
  BY DEF Move, ConditionalMove, Lea, Elsewhere, Call, Answer, ExceptionCheck
<1>5. Arithmetic \/ MultiplyThree \/ Store \/ Unlisted \/ Test
        => KeepFlags \/ (operands' = <<>> /\ branch' = Forcing!NoBranch)
  BY DEF Arithmetic, MultiplyThree, Store, Unlisted, Test, SetFlags
<1> QED BY <1>1, <1>2, <1>3, <1>4, <1>5

\* The order of two parts is that of the words they are sign extensions to.
LEMMA PartMeans ==
  ASSUME NEW l \in Word, NEW r \in Word, l = Extended(l), r = Extended(r),
         NEW m \in AllMnemonics
  PROVE  Means(m, l, r) = Means(m, Top(l), Top(r))
<1> DEFINE a == Low(l)
           b == Low(r)
<1>1. /\ a \in Int /\ 0 <= a /\ a < Half /\ b \in Int /\ 0 <= b /\ b < Half
  BY Sizes DEF Low, Negative
<1>2. /\ Top(l) = a + a /\ Top(r) = b + b
  BY <1>1 DEF Top
<1>3. /\ l = IF a + a >= Half THEN a + Half ELSE a
      /\ r = IF b + b >= Half THEN b + Half ELSE b
  BY <1>2 DEF Extended, Negative
<1> HIDE DEF a, b
<1>4. /\ l \in Int /\ r \in Int /\ Top(l) \in Int /\ Top(r) \in Int
      /\ l = r <=> Top(l) = Top(r)
      /\ l < r <=> Top(l) < Top(r)
  BY <1>1, <1>2, <1>3, Sizes
<1>5. /\ Signed(l) \in Int /\ Signed(Top(l)) = Signed(l) + Signed(l)
      /\ Signed(r) \in Int /\ Signed(Top(r)) = Signed(r) + Signed(r)
  BY <1>1, <1>2, <1>3, Sizes DEF Signed, Negative
<1> QED BY <1>4, <1>5 DEF Means, AllMnemonics

LEMMA CompareRecords == ASSUME Typed, ShadowTruthful, Compare PROVE Recorded'
<1>0. PICK form \in Forms : \E p \in Comparable(form) :
        /\ pending' = <<Pending(form, p[1], p[2])>>
        /\ operands' = <<Tested(form, p[1].value), Tested(form, p[2].value)>>
        /\ flags' = CompareFlags(Tested(form, p[1].value), Tested(form, p[2].value))
        /\ branch' = Forcing!NoBranch
  BY CompareSets
<1>1. PICK p \in Comparable(form) :
        /\ pending' = <<Pending(form, p[1], p[2])>>
        /\ operands' = <<Tested(form, p[1].value), Tested(form, p[2].value)>>
        /\ flags' = CompareFlags(Tested(form, p[1].value), Tested(form, p[2].value))
        /\ branch' = Forcing!NoBranch
  BY <1>0
<1> DEFINE l == p[1].value
           r == p[2].value
<1>2. /\ l \in Word /\ r \in Word
      /\ Tested(form, l) \in Word /\ Tested(form, r) \in Word
      /\ p[1].doubtful \/ p[1].text \in {Unknown, l}
      /\ p[2].doubtful \/ p[2].text \in {Unknown, r}
  BY ComparableReads DEF Read, Right
<1>3. Fresh'
  BY <1>1, <1>2 DEF Fresh
<1>4. ASSUME pending'[1].sound
      PROVE  /\ pending'[1].left \in {Unknown, l}
             /\ pending'[1].right \in {Unknown, r}
             /\ \A m \in AllMnemonics : Means(m, l, r) = Means(m, operands'[1], operands'[2])
  <2>1. /\ pending'[1].left = p[1].text /\ pending'[1].right = p[2].text
        /\ Sound(form, p[1]) /\ Sound(form, p[2])
    BY <1>1, <1>4 DEF Pending
  <2>2. /\ operands'[1] = Tested(form, l) /\ operands'[2] = Tested(form, r)
    BY <1>1
  <2>3. CASE form = "whole"
    BY <1>2, <2>1, <2>2, <2>3 DEF Sound, Tested
  <2>4. CASE form # "whole"
    <3>1. l = Extended(l) /\ r = Extended(r)
      BY <2>1, <2>4 DEF Sound
    <3>2. operands'[1] = Top(l) /\ operands'[2] = Top(r)
      BY <2>2, <2>4 DEF Tested
    <3> QED BY <1>2, <2>1, <3>1, <3>2, PartMeans DEF Sound
  <2> QED BY <2>3, <2>4
<1>5. PendingTruthful'
  BY <1>2, <1>4 DEF PendingTruthful
<1> QED BY <1>1, <1>3, <1>5, NoRecord DEF Recorded

LEMMA UnknownJumpRecords == ASSUME Recorded, UnknownJump PROVE Recorded'
<1>1. PICK m \in Mnemonics :
        branch' = [Forcing!NoBranch EXCEPT !.mnemonic = m, !.operands = operands,
                                           !.executed = Condition(m, flags)]
  BY DEF UnknownJump
<1>2. /\ branch'.recorded = FALSE /\ branch'.operands = operands
      /\ branch'.mnemonic = m /\ branch'.executed = Condition(m, flags)
  BY <1>1 DEF Forcing!NoBranch
<1>3. UNCHANGED <<flags, pending, operands>>
  BY DEF UnknownJump
<1>4. JumpsByOperands'
  BY <1>2, <1>3, JumpOnFresh, MeansSame DEF Recorded, JumpsByOperands, Forcing!JumpsByOperands
<1> QED BY <1>2, <1>3, <1>4 DEF Recorded, Fresh, PendingTruthful, ConditionTruthful

LEMMA NaturalJumpRecords == ASSUME Recorded, NaturalJump PROVE Recorded'
<1>1. PICK m \in Mnemonics :
        /\ Known
        /\ branch' = [mnemonic |-> m, recorded |-> TRUE, forced |-> FALSE,
                      taken |-> Condition(m, flags), executed |-> Condition(m, flags),
                      operands |-> operands]
        /\ condition' = pending[1]
        /\ pending' = <<>>
        /\ UNCHANGED <<flags, operands>>
  BY DEF NaturalJump
<1>2. /\ branch'.operands = operands /\ branch'.mnemonic = m
      /\ branch'.executed = Condition(m, flags)
  BY <1>1
<1>3. JumpsByOperands'
  BY <1>2, JumpOnFresh, MeansSame DEF Recorded, JumpsByOperands, Forcing!JumpsByOperands
<1>4. ASSUME operands # <<>>, condition'.sound,
             m = Shown(m) \/ Negative(condition'.left) = Negative(condition'.right)
      PROVE  Means(Shown(m), condition'.left, condition'.right) = branch'.executed
  <2>1. m \in AllMnemonics
    BY ForcingAssumption
  <2>2. PICK l \in Word, r \in Word :
          /\ condition'.left = l /\ condition'.right = r
          /\ Means(m, l, r) = Means(m, operands[1], operands[2])
    BY <1>1, <1>4, <2>1 DEF Known, Recorded, PendingTruthful
  <2>3. Condition(m, flags) = Means(m, operands[1], operands[2])
    BY <1>4, JumpOnFresh DEF Recorded
  <2> QED BY <1>2, <1>4, <2>1, <2>2, <2>3, ShownMeans
<1>5. ConditionTruthful'
  BY <1>2, <1>4 DEF ConditionTruthful
<1> QED BY <1>1, <1>3, <1>5 DEF Recorded, Fresh, PendingTruthful

LEMMA ForcedJumpRecords == ASSUME ForcedJump PROVE Recorded'
<1>1. operands' = <<>> /\ branch'.operands = <<>> /\ pending' = <<>>
  BY DEF ForcedJump, ForceTo
<1> QED BY <1>1 DEF Recorded, Fresh, PendingTruthful, ConditionTruthful, JumpsByOperands,
                    Forcing!JumpsByOperands

LEMMA RecordsInductive ==
  /\ Init => Recorded
  /\ Typed /\ ShadowTruthful /\ Recorded /\ [Next]_vars => Recorded'
<1>1. Init => Recorded
  BY DEF Init, Recorded, Fresh, PendingTruthful, ConditionTruthful, JumpsByOperands,
         Forcing!JumpsByOperands, Forcing!NoBranch
<1>2. Typed /\ ShadowTruthful /\ Recorded /\ [Next]_vars => Recorded'
  BY OthersKeepRecord, CompareRecords, UnknownJumpRecords, NaturalJumpRecords,
     ForcedJumpRecords DEF Next
<1> QED BY <1>1, <1>2

\* The condition recorded for an unforced jump is true exactly when the jump is taken,
\* under the exceptions its property names, at any width.
THEOREM ConditionsTruthful == Spec => []ConditionTruthful
<1>1. Init => Typed /\ ShadowTruthful /\ Recorded
  BY StartsTruthful, RecordsInductive
<1>2. Typed /\ ShadowTruthful /\ Recorded /\ [Next]_vars
        => Typed' /\ ShadowTruthful' /\ Recorded'
  BY StepKeeps, RecordsInductive
<1>3. Recorded => ConditionTruthful
  BY DEF Recorded
<1> QED BY <1>1, <1>2, <1>3, PTL DEF Spec

\* A jump on the flags of a comparison goes where its operands send it: the formulas of
\* actual_condition are the signed and unsigned orders, at any width.
THEOREM JumpsMean == Spec => []JumpsByOperands
<1>1. Init => Typed /\ ShadowTruthful /\ Recorded
  BY StartsTruthful, RecordsInductive
<1>2. Typed /\ ShadowTruthful /\ Recorded /\ [Next]_vars
        => Typed' /\ ShadowTruthful' /\ Recorded'
  BY StepKeeps, RecordsInductive
<1>3. Recorded => JumpsByOperands
  BY DEF Recorded
<1> QED BY <1>1, <1>2, <1>3, PTL DEF Spec

-----------------------------------------------------------------------------
(* Forcing.                                                                *)

LEMMA ForcedJumpFails ==
  ASSUME Typed, ForcedJump PROVE OnlySignedForcingFails'
<1>1. PICK m \in Mnemonics, desired \in BOOLEAN :
        /\ flags' = ForceCondition(m, flags, desired)
        /\ branch' = [mnemonic |-> m, recorded |-> TRUE, forced |-> TRUE,
                      taken |-> desired, executed |-> Condition(m, flags'),
                      operands |-> <<>>]
  BY DEF ForcedJump, ForceTo
<1>2. /\ branch'.mnemonic = m /\ branch'.forced = TRUE /\ branch'.taken = desired
      /\ branch'.executed = Condition(m, ForceCondition(m, flags, desired))
  BY <1>1
<1>3. m \in AllMnemonics /\ flags \in Flags
  BY ForcingAssumption DEF Typed
<1>4. Condition(m, ForceCondition(m, flags, desired)) # desired
        => (m \in {"Jg", "Jge"} /\ desired) \/ (m \in {"Jl", "Jle"} /\ ~desired)
  BY <1>3, ForcedOutcome
<1> QED BY <1>2, <1>4 DEF OnlySignedForcingFails, Forcing!OnlySignedForcingFails

\* The exact extent of the defect of force_condition: a record differs from what the
\* processor does only for signed jumps forced against the flag images it writes.
THEOREM SignedDefectIsolated == Spec => []OnlySignedForcingFails
<1>1. Init => Typed /\ ShadowTruthful /\ OnlySignedForcingFails
  BY StartsTruthful DEF Init, OnlySignedForcingFails, Forcing!OnlySignedForcingFails,
                        Forcing!NoBranch
<1>2. Typed /\ ShadowTruthful /\ OnlySignedForcingFails /\ [Next]_vars
        => Typed' /\ ShadowTruthful' /\ OnlySignedForcingFails'
  <2> SUFFICES ASSUME Typed, ShadowTruthful, OnlySignedForcingFails, [Next]_vars
               PROVE  OnlySignedForcingFails'
    BY StepKeeps
  <2>1. CASE branch' = branch
    BY <2>1 DEF OnlySignedForcingFails, Forcing!OnlySignedForcingFails
  <2>2. CASE branch' = Forcing!NoBranch
    BY <2>2 DEF OnlySignedForcingFails, Forcing!OnlySignedForcingFails, Forcing!NoBranch
  <2>3. CASE UnknownJump
    BY <2>3 DEF UnknownJump, OnlySignedForcingFails, Forcing!OnlySignedForcingFails,
                Forcing!NoBranch
  <2>4. CASE NaturalJump
    <3>1. PICK m \in Mnemonics :
            branch' = [mnemonic |-> m, recorded |-> TRUE, forced |-> FALSE,
                       taken |-> Condition(m, flags), executed |-> Condition(m, flags),
                       operands |-> operands]
      BY <2>4 DEF NaturalJump
    <3> QED BY <3>1 DEF OnlySignedForcingFails, Forcing!OnlySignedForcingFails
  <2>5. Move \/ ConditionalMove \/ Lea \/ Elsewhere \/ Call \/ Answer \/ ExceptionCheck
          \/ UNCHANGED vars => branch' = branch
    BY DEF Move, ConditionalMove, Lea, Elsewhere, Call, Answer, ExceptionCheck, KeepFlags, vars
  <2>6. Arithmetic \/ MultiplyThree \/ Store \/ Unlisted \/ Compare \/ Test
          => branch' = branch \/ branch' = Forcing!NoBranch
    BY DEF Arithmetic, MultiplyThree, Store, Unlisted, Compare, SetComparison, Test, SetFlags,
           KeepFlags
  <2> QED BY <2>1, <2>2, <2>3, <2>4, <2>5, <2>6, ForcedJumpFails DEF Next
<1>3. Init /\ [][Next]_vars => [](Typed /\ ShadowTruthful /\ OnlySignedForcingFails)
  BY <1>1, <1>2, PTL
<1> QED BY <1>3, PTL DEF Spec

-----------------------------------------------------------------------------
(* The refinement: operators of the instance are those of this module.     *)

LEMMA SameCodes ==
  /\ Forcing!Flags = Flags /\ Forcing!Word = Word
  /\ \A m, f : Forcing!Condition(m, f) = Condition(m, f)
  /\ \A m, f, desired : Forcing!ForceCondition(m, f, desired) = ForceCondition(m, f, desired)
  /\ \A l, r : Forcing!CompareFlags(l, r) = CompareFlags(l, r)
<1>1. Forcing!Half = Half /\ Forcing!Modulus = Modulus
  BY DEF Forcing!Half, Half, Forcing!Modulus, Modulus
<1>2. \A n : Forcing!Negative(n) = Negative(n)
  BY <1>1 DEF Forcing!Negative, Negative
<1>3. \A f : Forcing!Less(f) = Less(f)
  BY DEF Forcing!Less, Less
<1>4. \A m, f : Forcing!Condition(m, f) = Condition(m, f)
  BY DEF Forcing!Condition, Condition, Forcing!Less, Less
<1>5. \A m, f, desired : Forcing!ForceCondition(m, f, desired) = ForceCondition(m, f, desired)
  BY DEF Forcing!ForceCondition, ForceCondition, Forcing!SignOnly, SignOnly,
         Forcing!OverflowOnly, OverflowOnly
<1>6. \A l, r : Forcing!CompareFlags(l, r) = CompareFlags(l, r)
  BY DEF Forcing!CompareFlags, CompareFlags, Forcing!Negative, Negative, Forcing!Modulus,
         Modulus, Forcing!Half, Half
<1>7. Forcing!Flags = Flags /\ Forcing!Word = Word
  BY <1>1 DEF Forcing!Flags, Flags, Forcing!Word, Word
<1> QED BY <1>4, <1>5, <1>6, <1>7

\* The pending comparison as BranchForcing sees it.
View == IF pending = <<>> THEN "none"
        ELSE IF Unknown \in {pending[1].left, pending[1].right} THEN "unknown" ELSE "known"

LEMMA KnownView == Known <=> View = "known"
BY DEF Known, View

LEMMA InitRefines == Init => Forcing!Init
BY SameCodes DEF Init, Forcing!Init, Flags

LEMMA KeepFlagsRefines == KeepFlags => UNCHANGED Forcing!vars
BY DEF KeepFlags, Forcing!vars

LEMMA SetFlagsRefines == SetFlags => Forcing!Arithmetic
BY SameCodes, ShadowAssumption DEF SetFlags, Forcing!Arithmetic

LEMMA CompareRefines == ASSUME Typed, ShadowTruthful, Compare PROVE Forcing!Compare
<1>0. PICK form \in Forms : \E p \in Comparable(form) :
        /\ pending' = <<Pending(form, p[1], p[2])>>
        /\ operands' = <<Tested(form, p[1].value), Tested(form, p[2].value)>>
        /\ flags' = CompareFlags(Tested(form, p[1].value), Tested(form, p[2].value))
        /\ branch' = Forcing!NoBranch
  BY CompareSets
<1>1. PICK p \in Comparable(form) :
        /\ pending' = <<Pending(form, p[1], p[2])>>
        /\ operands' = <<Tested(form, p[1].value), Tested(form, p[2].value)>>
        /\ flags' = CompareFlags(Tested(form, p[1].value), Tested(form, p[2].value))
        /\ branch' = Forcing!NoBranch
  BY <1>0
<1>2. Tested(form, p[1].value) \in Word /\ Tested(form, p[2].value) \in Word
  BY ComparableReads
<1>3. pending' # <<>>
  BY <1>1
<1> QED BY <1>1, <1>2, <1>3, SameCodes DEF Forcing!Compare

LEMMA TestRefines == ASSUME Test PROVE Forcing!Test
<1>0. PICK form \in {"whole", "merge"} : \E p \in Comparable(form) :
        LET both == Tested(form, Bits["And"][p[1].value, p[2].value]) IN
        /\ flags' = [zf |-> both = 0, sf |-> Negative(both), of |-> FALSE, cf |-> FALSE]
        /\ operands' = <<>>
        /\ pending' = <<[Pending(form, p[1], p[2]) EXCEPT !.sound = FALSE]>>
        /\ branch' = Forcing!NoBranch
  BY DEF Test
<1> DEFINE image(p) == Tested(form, Bits["And"][p[1].value, p[2].value])
<1>1. PICK p \in Comparable(form) :
        /\ flags' = [zf |-> image(p) = 0, sf |-> Negative(image(p)), of |-> FALSE, cf |-> FALSE]
        /\ operands' = <<>>
        /\ pending' = <<[Pending(form, p[1], p[2]) EXCEPT !.sound = FALSE]>>
        /\ branch' = Forcing!NoBranch
  BY <1>0
<1>4. pending' # <<>>
  BY <1>1
<1> DEFINE both == image(p)
<1> HIDE DEF both, image
<1>2. flags' \in Flags /\ ~flags'.of /\ ~flags'.cf
  BY <1>1, TestFlagsType DEF both
<1>3. ~(flags'.zf /\ flags'.sf)
  <2>1. (flags'.zf <=> both = 0) /\ (flags'.sf <=> Negative(both))
    BY <1>1, Zenon DEF both
  <2>2. both = 0 => ~Negative(both)
    BY Sizes DEF Negative
  <2> QED BY <2>1, <2>2
<1> QED BY <1>1, <1>2, <1>3, <1>4, SameCodes DEF Forcing!Test

LEMMA JumpRefines ==
  /\ UnknownJump => Forcing!UnknownJump
  /\ NaturalJump => Forcing!NaturalJump
  /\ ForcedJump => Forcing!ForcedJump
<1>1. UnknownJump => Forcing!UnknownJump
  BY SameCodes, KnownView DEF UnknownJump, Forcing!UnknownJump, View
<1>2. ASSUME NaturalJump PROVE Forcing!NaturalJump
  <2>1. PICK m \in Mnemonics :
          /\ Known
          /\ branch' = [mnemonic |-> m, recorded |-> TRUE, forced |-> FALSE,
                        taken |-> Condition(m, flags), executed |-> Condition(m, flags),
                        operands |-> operands]
          /\ pending' = <<>>
          /\ UNCHANGED <<flags, operands>>
    BY <1>2 DEF NaturalJump
  <2> QED BY <2>1, SameCodes, KnownView DEF Forcing!NaturalJump, View
<1>3. ForcedJump => Forcing!ForcedJump
  BY SameCodes, KnownView DEF ForcedJump, ForceTo, Forcing!ForcedJump, View
<1> QED BY <1>1, <1>2, <1>3

LEMMA StepRefines == Typed /\ ShadowTruthful /\ [Next]_vars => [Forcing!Next]_Forcing!vars
<1> SUFFICES ASSUME Typed, ShadowTruthful, [Next]_vars
             PROVE  Forcing!Next \/ UNCHANGED Forcing!vars
  OBVIOUS
<1>1. Move \/ ConditionalMove \/ Lea \/ Elsewhere \/ Call \/ Answer \/ ExceptionCheck
        \/ UNCHANGED vars => KeepFlags
  BY DEF Move, ConditionalMove, Lea, Elsewhere, Call, Answer, ExceptionCheck, KeepFlags, vars
<1>2. Arithmetic \/ MultiplyThree \/ Store \/ Unlisted => KeepFlags \/ SetFlags
  BY DEF Arithmetic, MultiplyThree, Store, Unlisted
<1> QED BY <1>1, <1>2, KeepFlagsRefines, SetFlagsRefines, CompareRefines, TestRefines, JumpRefines
        DEF Next, Forcing!Next

\* Every run on registers is a run of BranchForcing, which knows of expressions only
\* whether there is one: what its model checker runs say holds here.
THEOREM Refinement == Spec => ImplementsForcing
<1>1. Init => Typed /\ ShadowTruthful /\ Forcing!Init
  BY StartsTruthful, InitRefines
<1>2. Typed /\ ShadowTruthful /\ [Next]_vars => Typed' /\ ShadowTruthful'
  BY StepKeeps
<1>3. Typed /\ ShadowTruthful /\ [Next]_vars => [Forcing!Next]_Forcing!vars
  BY StepRefines
<1> QED BY <1>1, <1>2, <1>3, PTL DEF Spec, ImplementsForcing, Forcing!Spec

-----------------------------------------------------------------------------
(* The types, of the abstract specification first.                          *)

LEMMA ConditionType ==
  ASSUME NEW m \in AllMnemonics, NEW f \in Flags
  PROVE  Condition(m, f) \in BOOLEAN
BY FlagFields DEF Condition, Less, AllMnemonics

LEMMA JumpedType ==
  ASSUME NEW m \in Mnemonics, NEW a \in BOOLEAN, NEW b \in BOOLEAN, NEW c \in BOOLEAN,
         NEW e \in BOOLEAN, NEW o \in {<<>>} \union Forcing!Operands
  PROVE  /\ Forcing!NoBranch \in Forcing!Jumped
         /\ [mnemonic |-> m, recorded |-> a, forced |-> b, taken |-> c, executed |-> e,
             operands |-> o] \in Forcing!Jumped
         /\ [Forcing!NoBranch EXCEPT !.mnemonic = m, !.executed = e, !.operands = o]
              \in Forcing!Jumped
BY DEF Forcing!Jumped, Forcing!NoBranch

LEMMA ForcingTypes ==
  ASSUME Forcing!TypeOK, [Forcing!Next]_(Forcing!vars)
  PROVE  Forcing!TypeOK'
<1>0. Mnemonics \subseteq AllMnemonics /\ Forcing!NoBranch \in Forcing!Jumped
  BY ForcingAssumption DEF Forcing!Jumped, Forcing!NoBranch
<1>1. /\ flags \in Flags /\ operands \in {<<>>} \union Forcing!Operands
      /\ branch \in Forcing!Jumped
  BY SameCodes DEF Forcing!TypeOK
<1>2. SUFFICES /\ flags' \in Flags /\ operands' \in {<<>>} \union Forcing!Operands
               /\ branch' \in Forcing!Jumped
  BY SameCodes DEF Forcing!TypeOK
<1>3. CASE Forcing!Compare
  <2>1. PICK l \in Word, r \in Word : operands' = <<l, r>> /\ flags' = CompareFlags(l, r)
    BY <1>3, SameCodes DEF Forcing!Compare
  <2>2. branch' = Forcing!NoBranch
    BY <1>3 DEF Forcing!Compare
  <2>3. <<l, r>> \in Forcing!Operands
    BY SameCodes DEF Forcing!Operands
  <2> QED BY <1>0, <2>1, <2>2, <2>3, CompareFlagsType
<1>4. CASE Forcing!Test \/ Forcing!Arithmetic
  BY <1>0, <1>4, SameCodes DEF Forcing!Test, Forcing!Arithmetic
<1>5. CASE Forcing!UnknownJump
  <2>1. PICK m \in Mnemonics :
          branch' = [Forcing!NoBranch EXCEPT !.mnemonic = m, !.executed = Condition(m, flags),
                                             !.operands = operands]
    BY <1>5, SameCodes DEF Forcing!UnknownJump
  <2>2. Condition(m, flags) \in BOOLEAN
    BY <1>0, <1>1, ConditionType
  <2>3. UNCHANGED <<flags, operands>>
    BY <1>5 DEF Forcing!UnknownJump
  <2> QED BY <1>1, <2>1, <2>2, <2>3, JumpedType
<1>6. CASE Forcing!NaturalJump
  <2>1. PICK m \in Mnemonics :
          branch' = [mnemonic |-> m, recorded |-> TRUE, forced |-> FALSE,
                     taken |-> Condition(m, flags), executed |-> Condition(m, flags),
                     operands |-> operands]
    BY <1>6, SameCodes DEF Forcing!NaturalJump
  <2>2. Condition(m, flags) \in BOOLEAN
    BY <1>0, <1>1, ConditionType
  <2>3. UNCHANGED <<flags, operands>>
    BY <1>6 DEF Forcing!NaturalJump
  <2> QED BY <1>1, <2>1, <2>2, <2>3, JumpedType
<1>7. CASE Forcing!ForcedJump
  <2>1. PICK m \in Mnemonics, desired \in BOOLEAN :
          /\ flags' = ForceCondition(m, flags, desired)
          /\ branch' = [mnemonic |-> m, recorded |-> TRUE, forced |-> TRUE, taken |-> desired,
                        executed |-> Condition(m, flags'), operands |-> <<>>]
          /\ operands' = <<>>
    BY <1>7, SameCodes DEF Forcing!ForcedJump
  <2>2. flags' \in Flags
    BY <1>0, <1>1, <2>1, ForceType
  <2>3. Condition(m, flags') \in BOOLEAN
    BY <1>0, <2>2, ConditionType
  <2> QED BY <2>1, <2>2, <2>3, JumpedType
<1>8. CASE UNCHANGED Forcing!vars
  BY <1>1, <1>8 DEF Forcing!vars
<1> QED BY <1>3, <1>4, <1>5, <1>6, <1>7, <1>8 DEF Forcing!Next

\* The part of TypeOK that Typed and BranchForcing leave.
Kept == /\ pending \in {<<>>} \union {<<c>> : c \in Comparison}
        /\ condition \in Comparison
        /\ misled \subseteq Registers
        /\ steps \in 0..MaxSteps

LEMMA KeptStep ==
  ASSUME Typed, ShadowTruthful, Kept, [Next]_vars
  PROVE  Kept'
<1>1. NoComparison \in Comparison
  BY TextWords DEF NoComparison, Comparison
<1>2. steps' \in 0..MaxSteps
  <2>1. Tick \/ UNCHANGED vars
    BY DEF Next, Move, ConditionalMove, Lea, Arithmetic, MultiplyThree, Store, Unlisted,
           Elsewhere, Call, Answer, ExceptionCheck, Compare, Test, UnknownJump, NaturalJump,
           ForcedJump
  <2>2. steps \in 0..MaxSteps /\ MaxSteps \in Nat
    BY ShadowAssumption DEF Kept
  <2>3. CASE Tick
    BY <2>2, <2>3 DEF Tick
  <2>4. CASE UNCHANGED vars
    BY <2>2, <2>4 DEF vars
  <2> QED BY <2>1, <2>3, <2>4
<1>3. misled' \subseteq Registers
  <2>1. \A d \in Registers : \A value, e, doubtful :
          Assign(d, value, e, doubtful) => misled' \subseteq Registers
    BY DEF Kept, Assign
  <2>2. CASE Move \/ Elsewhere
    BY <2>1, <2>2 DEF Move, Elsewhere
  <2>7. CASE ConditionalMove
    BY <2>1, <2>7 DEF ConditionalMove
  <2>8. CASE Lea
    BY <2>1, <2>8, LeaAssigns
  <2>3. CASE Arithmetic \/ MultiplyThree
    BY <2>1, <2>3 DEF Arithmetic, MultiplyThree
  <2>4. CASE Call \/ Answer \/ ExceptionCheck
    BY <2>1, <2>4, ShadowAssumption DEF Call, Answer, ExceptionCheck
  <2>5. CASE Unlisted
    BY <2>5 DEF Kept, Unlisted
  <2>6. CASE \/ Store \/ Compare \/ Test \/ UnknownJump \/ NaturalJump \/ ForcedJump
             \/ UNCHANGED vars
    BY <2>6 DEF Kept, Store, Compare, SetComparison, Test, UnknownJump, NaturalJump, ForcedJump,
                ForceTo, vars
  <2> QED BY <2>2, <2>3, <2>4, <2>5, <2>6, <2>7, <2>8 DEF Next
<1>4. /\ pending' \in {<<>>} \union {<<c>> : c \in Comparison}
      /\ condition' \in Comparison
  <2>0. ASSUME NEW form, NEW l \in Read, NEW r \in Read
        PROVE  /\ Pending(form, l, r) \in Comparison
               /\ [Pending(form, l, r) EXCEPT !.sound = FALSE] \in Comparison
    <3>1. l.text \in Text /\ r.text \in Text /\ (Sound(form, l) /\ Sound(form, r)) \in BOOLEAN
      BY <2>0 DEF Read, Sound
    <3> QED BY <3>1 DEF Pending, Comparison
  <2>1. CASE KeepFlags
    BY <2>1 DEF Kept, KeepFlags
  <2>2. CASE UNCHANGED <<pending>> /\ condition' = NoComparison
    BY <1>1, <2>2 DEF Kept
  <2>3. CASE Compare
    <3>0. PICK form \in Forms : \E p \in Comparable(form) :
            SetComparison(form, p) /\ pending' = <<Pending(form, p[1], p[2])>>
      BY <2>3, CompareSets
    <3>1. PICK p \in Comparable(form) :
            SetComparison(form, p) /\ pending' = <<Pending(form, p[1], p[2])>>
      BY <3>0
    <3>2. p[1] \in Read /\ p[2] \in Read
      BY ComparableReads
    <3> QED BY <1>1, <2>0, <3>1, <3>2 DEF SetComparison
  <2>4. CASE Test
    <3>0. PICK form \in Forms : \E p \in Comparable(form) :
            pending' = <<[Pending(form, p[1], p[2]) EXCEPT !.sound = FALSE]>>
      BY <2>4 DEF Test, Forms
    <3>1. PICK p \in Comparable(form) :
            pending' = <<[Pending(form, p[1], p[2]) EXCEPT !.sound = FALSE]>>
      BY <3>0
    <3>2. p[1] \in Read /\ p[2] \in Read
      BY ComparableReads
    <3>3. condition' = NoComparison
      BY <2>4 DEF Test
    <3> QED BY <1>1, <2>0, <3>1, <3>2, <3>3
  <2>5. CASE NaturalJump \/ ForcedJump
    <3>1. pending # <<>> /\ condition' = pending[1] /\ pending' = <<>>
      BY <2>5 DEF NaturalJump, ForcedJump, ForceTo, Known
    <3>2. PICK c \in Comparison : pending = <<c>>
      BY <3>1 DEF Kept
    <3> QED BY <3>1, <3>2
  <2>6. Move \/ ConditionalMove \/ Lea \/ Elsewhere \/ Call \/ Answer \/ ExceptionCheck
          => KeepFlags
    BY DEF Move, ConditionalMove, Lea, Elsewhere, Call, Answer, ExceptionCheck
  <2>7. Arithmetic \/ MultiplyThree \/ Store \/ Unlisted => KeepFlags \/ SetFlags
    BY DEF Arithmetic, MultiplyThree, Store, Unlisted
  <2>8. SetFlags \/ UnknownJump => UNCHANGED <<pending>> /\ condition' = NoComparison
    BY DEF SetFlags, UnknownJump
  <2>9. UNCHANGED vars => KeepFlags
    BY DEF vars, KeepFlags
  <2> QED BY <2>1, <2>2, <2>3, <2>4, <2>5, <2>6, <2>7, <2>8, <2>9 DEF Next
<1> QED BY <1>2, <1>3, <1>4 DEF Kept

\* shadow_step keeps an expression or none for each register, and at most one comparison
\* pending; the branch it records is one of BranchForcing's.
THEOREM TypeCorrect == Spec => []TypeOK
<1>1. Init => Typed /\ ShadowTruthful /\ Kept /\ Forcing!TypeOK
  <2> SUFFICES ASSUME Init PROVE Kept /\ Forcing!TypeOK
    BY StartsTruthful
  <2>1. Kept
    BY ShadowAssumption, TextWords DEF Init, Kept, Comparison, NoComparison
  <2>2. flags \in Flags
    BY StartsTruthful DEF Typed
  <2>3. Forcing!TypeOK
    BY <2>2, SameCodes DEF Init, Forcing!TypeOK, Forcing!Jumped, Forcing!NoBranch
  <2> QED BY <2>1, <2>3
<1>2. Typed /\ ShadowTruthful /\ Kept /\ Forcing!TypeOK /\ [Next]_vars
        => Typed' /\ ShadowTruthful' /\ Kept' /\ Forcing!TypeOK'
  BY StepKeeps, KeptStep, StepRefines, ForcingTypes
<1>3. Typed /\ Kept /\ Forcing!TypeOK => TypeOK
  BY DEF Typed, Kept, TypeOK
<1> QED BY <1>1, <1>2, <1>3, PTL DEF Spec
=============================================================================
