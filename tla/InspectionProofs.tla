-------------------------- MODULE InspectionProofs --------------------------
(***************************************************************************)
(* Proofs about Inspection, and through it about Discovery, LoaderSeeds and  *)
(* RegistrationMapping, for any JAR, any image and any class initialisers:   *)
(* what the loader was chosen from, what the nonce is, and that every class  *)
(* is mapped once and whole, or accounted for.                               *)
(***************************************************************************)
EXTENDS Inspection, FiniteSetTheorems, WellFoundedInduction, TLAPS

-----------------------------------------------------------------------------
(* Least elements, from which the inductions below are made: an induction    *)
(* theorem takes the proposition as a parameter, a least counterexample does *)
(* not.                                                                     *)

LEMMA Least ==
  ASSUME NEW T \in SUBSET Nat, T # {}
  PROVE  \E m \in T : \A t \in T : m <= t
<1> DEFINE R == {p \in Nat \X Nat : p[1] < p[2]}
<1>1. IsWellFoundedOn(OpToRel(<, Nat), Nat)
  BY NatLessThanWellFounded
<1>2. OpToRel(<, Nat) = R
  BY DEF OpToRel
<1>3. IsWellFoundedOn(R, Nat)
  BY <1>1, <1>2
<1> HIDE DEF R
<1>4. PICK m \in T : \A t \in T : ~(<<t, m>> \in R)
  BY <1>3, WFMin
<1>5. \A t \in T : <<t, m>> \in Nat \X Nat /\ (t < m => <<t, m>> \in R)
  BY DEF R
<1>6. \A t \in T : ~(t < m) /\ t \in Nat /\ m \in Nat
  BY <1>4, <1>5
<1> QED BY <1>6

\* A set that holds 0 and, below n, with each number its successor holds n.
LEMMA Climb ==
  ASSUME NEW n \in Nat, NEW S, 0 \in S, \A k \in 0..(n - 1) : k \in S => k + 1 \in S
  PROVE  n \in S
<1> SUFFICES ASSUME n \notin S PROVE FALSE
  OBVIOUS
<1> DEFINE T == (0..n) \ S
<1>0. T \in SUBSET Nat /\ T # {}
  OBVIOUS
<1> HIDE DEF T
<1>1. PICK m \in T : \A t \in T : m <= t
  BY <1>0, Least
<1> USE DEF T
<1>2. m # 0 /\ m - 1 \in 0..(n - 1)
  OBVIOUS
<1>3. m - 1 \in S
  BY <1>1, <1>2
<1> QED BY <1>2, <1>3

-----------------------------------------------------------------------------
(* The registration targets of a stub.                                      *)

LEMMA ScannedIs ==
  ASSUME NEW leas, Len(leas) \in Nat
  PROVE  Scanned(leas) = [n \in 0..Len(leas) |->
                            IF n = 0 THEN <<>> ELSE Register(Scanned(leas)[n - 1], leas[n])]
<1> DEFINE Fits(f, k) ==
             f = [n \in 0..k |-> IF n = 0 THEN <<>> ELSE Register(f[n - 1], leas[n])]
           S == {k \in 0..Len(leas) : \E f : Fits(f, k)}
<1>1. 0 \in S
  <2>1. Fits([n \in 0..0 |-> <<>>], 0)
    OBVIOUS
  <2> HIDE DEF Fits
  <2> QED BY <2>1
<1>2. ASSUME NEW k \in 0..(Len(leas) - 1), k \in S
      PROVE  k + 1 \in S
  <2>1. PICK f : Fits(f, k)
    BY <1>2
  <2> DEFINE g == [n \in 0..(k + 1) |-> IF n = k + 1 THEN Register(f[k], leas[n]) ELSE f[n]]
  <2>2. \A n \in 0..(k + 1) : g[n] = IF n = 0 THEN <<>> ELSE Register(g[n - 1], leas[n])
    <3>1. \A n \in 0..k : f[n] = IF n = 0 THEN <<>> ELSE Register(f[n - 1], leas[n])
      BY <2>1
    <3>2. \A n \in 0..k : g[n] = f[n]
      OBVIOUS
    <3>3. g[k + 1] = Register(g[k], leas[k + 1])
      BY <3>2
    <3> QED BY <3>1, <3>2, <3>3
  <2>3. g = [n \in 0..(k + 1) |-> g[n]]
    OBVIOUS
  <2> HIDE DEF g
  <2>4. Fits(g, k + 1)
    BY <2>2, <2>3
  <2> HIDE DEF Fits
  <2> QED BY <2>4
<1> HIDE DEF S
<1>3. \A k \in 0..(Len(leas) - 1) : k \in S => k + 1 \in S
  BY <1>2
<1>4. Len(leas) \in S
  BY <1>1, <1>3, Climb
<1>5. \E f : Fits(f, Len(leas))
  BY <1>4 DEF S
<1>6. Scanned(leas) = CHOOSE f : Fits(f, Len(leas))
  BY DEF Scanned
<1> HIDE DEF Fits
<1>7. Fits(Scanned(leas), Len(leas))
  BY <1>5, <1>6
<1> QED BY <1>7 DEF Fits

\* A target is executable, no export, and registered once.
Distinct(found) == \A i, j \in DOMAIN found : found[i] = found[j] => i = j

LEMMA ScanSound ==
  ASSUME NEW leas \in Seq(Addresses)
  PROVE  /\ Scan(leas) \in Seq(Addresses) /\ Distinct(Scan(leas))
         /\ \A n \in DOMAIN Scan(leas) : Registers(Scan(leas)[n])
<1> DEFINE found == Scanned(leas)
           Sound(s) == /\ s \in Seq(Addresses) /\ Distinct(s)
                       /\ \A n \in DOMAIN s : Registers(s[n])
           S == {k \in 0..Len(leas) : Sound(found[k])}
<1>0. Len(leas) \in Nat /\ DOMAIN leas = 1..Len(leas)
  OBVIOUS
<1>1. \A k \in 0..Len(leas) :
        found[k] = IF k = 0 THEN <<>> ELSE Register(found[k - 1], leas[k])
  BY <1>0, ScannedIs
<1>2. 0 \in S
  <2>1. found[0] = <<>>
    BY <1>0, <1>1
  <2>2. Sound(<<>>)
    BY DEF Distinct
  <2> HIDE DEF Sound, found
  <2> QED BY <1>0, <2>1, <2>2
<1>3. ASSUME NEW k \in 0..(Len(leas) - 1), k \in S
      PROVE  k + 1 \in S
  <2>1. found[k + 1] = Register(found[k], leas[k + 1])
    BY <1>0, <1>1
  <2>2. leas[k + 1] \in Addresses
    BY <1>0
  <2>3. Sound(found[k])
    BY <1>3
  <2> DEFINE s == found[k]
             a == leas[k + 1]
  <2> HIDE DEF s, a, found
  <2>4. ASSUME Registers(a), ~Contains(s, a), Sound(s), a \in Addresses
        PROVE  Sound(Append(s, a))
    <3>1. /\ Append(s, a) \in Seq(Addresses) /\ DOMAIN Append(s, a) = DOMAIN s \union {Len(s) + 1}
          /\ Append(s, a)[Len(s) + 1] = a /\ \A i \in DOMAIN s : Append(s, a)[i] = s[i]
      BY <2>4
    <3>2. \A i \in DOMAIN s : s[i] # a
      BY <2>4 DEF Contains
    <3> QED BY <2>4, <3>1, <3>2 DEF Distinct
  <2>5. Sound(Register(s, a))
    BY <2>2, <2>3, <2>4 DEF Register, s, a
  <2> QED BY <1>0, <2>1, <2>5 DEF s, a
<1> HIDE DEF S, found, Sound
<1>4. \A k \in 0..(Len(leas) - 1) : k \in S => k + 1 \in S
  BY <1>3
<1>5. Len(leas) \in S
  BY <1>0, <1>2, <1>4, Climb
<1> QED BY <1>5 DEF S, Sound, found, Scan

-----------------------------------------------------------------------------
(* The words of the nonce.                                                  *)


LEMMA SeenIs ==
  ASSUME NEW code, Len(code) \in Nat
  PROVE  Seen(code) = [n \in 0..Len(code) |->
                        IF n = 0 THEN Nothing ELSE See(Seen(code)[n - 1], code[n])]
<1> DEFINE Fits(f, k) ==
             f = [n \in 0..k |-> IF n = 0 THEN Nothing ELSE See(f[n - 1], code[n])]
           S == {k \in 0..Len(code) : \E f : Fits(f, k)}
<1>1. 0 \in S
  <2>1. Fits([n \in 0..0 |-> Nothing], 0)
    OBVIOUS
  <2> HIDE DEF Fits
  <2> QED BY <2>1
<1>2. ASSUME NEW k \in 0..(Len(code) - 1), k \in S
      PROVE  k + 1 \in S
  <2>1. PICK f : Fits(f, k)
    BY <1>2
  <2> DEFINE g == [n \in 0..(k + 1) |-> IF n = k + 1 THEN See(f[k], code[n]) ELSE f[n]]
  <2>2. \A n \in 0..(k + 1) : g[n] = IF n = 0 THEN Nothing ELSE See(g[n - 1], code[n])
    <3>1. \A n \in 0..k : f[n] = IF n = 0 THEN Nothing ELSE See(f[n - 1], code[n])
      BY <2>1
    <3>2. \A n \in 0..k : g[n] = f[n]
      OBVIOUS
    <3>3. g[k + 1] = See(g[k], code[k + 1])
      BY <3>2
    <3> QED BY <3>1, <3>2, <3>3
  <2>3. g = [n \in 0..(k + 1) |-> g[n]]
    OBVIOUS
  <2> HIDE DEF g
  <2>4. Fits(g, k + 1)
    BY <2>2, <2>3
  <2> HIDE DEF Fits
  <2> QED BY <2>4
<1> HIDE DEF S
<1>3. \A k \in 0..(Len(code) - 1) : k \in S => k + 1 \in S
  BY <1>2
<1>4. Len(code) \in S
  BY <1>1, <1>3, Climb
<1>5. \E f : Fits(f, Len(code))
  BY <1>4 DEF S
<1>6. Seen(code) = CHOOSE f : Fits(f, Len(code))
  BY DEF Seen
<1> HIDE DEF Fits
<1>7. Fits(Seen(code), Len(code))
  BY <1>5, <1>6
<1> QED BY <1>7 DEF Fits

LEMMA RanIs ==
  ASSUME NEW code
  PROVE  /\ Ran(code)[0] = {Idle}
         /\ \A n \in 0..(MaxRun - 1) : Ran(code)[n + 1] = Onwards(code, Ran(code)[n])
<1>0. MaxRun \in Nat
  BY InspectionAssumption
<1> DEFINE Fits(f, k) ==
             f = [n \in 0..k |-> IF n = 0 THEN {Idle} ELSE Onwards(code, f[n - 1])]
           S == {k \in 0..MaxRun : \E f : Fits(f, k)}
<1>1. 0 \in S
  <2>1. Fits([n \in 0..0 |-> {Idle}], 0)
    OBVIOUS
  <2> HIDE DEF Fits
  <2> QED BY <1>0, <2>1
<1>2. ASSUME NEW k \in 0..(MaxRun - 1), k \in S
      PROVE  k + 1 \in S
  <2>1. PICK f : Fits(f, k)
    BY <1>2
  <2> DEFINE g == [n \in 0..(k + 1) |-> IF n = k + 1 THEN Onwards(code, f[k]) ELSE f[n]]
  <2>2. \A n \in 0..(k + 1) : g[n] = IF n = 0 THEN {Idle} ELSE Onwards(code, g[n - 1])
    <3>1. \A n \in 0..k : f[n] = IF n = 0 THEN {Idle} ELSE Onwards(code, f[n - 1])
      BY <2>1
    <3>2. \A n \in 0..k : g[n] = f[n]
      BY <1>0
    <3>3. g[k + 1] = Onwards(code, g[k])
      BY <1>0, <3>2
    <3>4. \A n \in 0..k : g[n] = IF n = 0 THEN {Idle} ELSE Onwards(code, g[n - 1])
      <4> SUFFICES ASSUME NEW n \in 0..k
                   PROVE  g[n] = IF n = 0 THEN {Idle} ELSE Onwards(code, g[n - 1])
        OBVIOUS
      <4>1. n # 0 => n - 1 \in 0..k
        BY <1>0
      <4>2. g[n] = f[n] /\ (n # 0 => g[n - 1] = f[n - 1])
        BY <3>2, <4>1
      <4> HIDE DEF g
      <4> QED BY <3>1, <4>2
    <3> HIDE DEF g
    <3>5. \A n \in 0..(k + 1) : n \in 0..k \/ n = k + 1
      BY <1>0
    <3>6. k + 1 # 0 /\ (k + 1) - 1 = k
      BY <1>0
    <3> QED BY <3>3, <3>4, <3>5, <3>6
  <2>3. g = [n \in 0..(k + 1) |-> g[n]]
    OBVIOUS
  <2> HIDE DEF g
  <2>4. Fits(g, k + 1)
    BY <2>2, <2>3
  <2> HIDE DEF Fits
  <2> QED BY <1>0, <2>4
<1> HIDE DEF S
<1>3. \A k \in 0..(MaxRun - 1) : k \in S => k + 1 \in S
  BY <1>2
<1>4. MaxRun \in S
  BY <1>0, <1>1, <1>3, Climb
<1>5. \E f : Fits(f, MaxRun)
  BY <1>4 DEF S
<1>6. Ran(code) = CHOOSE f : Fits(f, MaxRun)
  BY DEF Ran
<1> HIDE DEF Fits
<1>7. Fits(Ran(code), MaxRun)
  BY <1>5, <1>6
<1>8. \A n \in 0..MaxRun :
        Ran(code)[n] = IF n = 0 THEN {Idle} ELSE Onwards(code, Ran(code)[n - 1])
  BY <1>7 DEF Fits
<1> QED BY <1>0, <1>8

LEMMA SingletonSeq == ASSUME NEW v PROVE SetToSeq({v}) = <<v>>
<1>1. Cardinality({v}) = 1
  BY FS_Singleton
<1>2. SetToSeq({v}) = CHOOSE f \in [1..1 -> {v}] : IsInjective(f)
  BY <1>1 DEF SetToSeq
<1>3. \E f \in [1..1 -> {v}] : IsInjective(f)
  <2>1. [i \in 1..1 |-> v] \in [1..1 -> {v}] /\ IsInjective([i \in 1..1 |-> v])
    BY DEF IsInjective
  <2> QED BY <2>1
<1>4. SetToSeq({v}) \in [1..1 -> {v}]
  BY <1>2, <1>3
<1>5. \A f \in [1..1 -> {v}] : f = <<v>>
  OBVIOUS
<1> QED BY <1>4, <1>5

Pending == {{}} \union {{v} : v \in Int}
Walk    == [pending : Pending, values : Seq(Int)]

LEMMA PendingSeq ==
  ASSUME NEW pending \in Pending
  PROVE  SetToSeq(pending) \in Seq(Int)
<1>1. CASE pending = {}
  <2>1. Cardinality({}) = 0
    BY FS_EmptySet
  <2>2. SetToSeq({}) = CHOOSE f \in [1..0 -> {}] : IsInjective(f)
    BY <2>1 DEF SetToSeq
  <2>3. \A f \in [1..0 -> {}] : f = <<>> /\ IsInjective(f)
    BY DEF IsInjective
  <2>4. <<>> \in [1..0 -> {}]
    OBVIOUS
  <2>5. SetToSeq({}) = <<>>
    BY <2>2, <2>3, <2>4
  <2>6. <<>> \in Seq(Int)
    OBVIOUS
  <2> QED BY <1>1, <2>5, <2>6
<1>2. CASE \E v \in Int : pending = {v}
  <2>1. PICK v \in Int : pending = {v}
    BY <1>2
  <2>2. SetToSeq(pending) = <<v>>
    BY <2>1, SingletonSeq
  <2>3. <<v>> \in Seq(Int)
    OBVIOUS
  <2> QED BY <2>2, <2>3
<1> QED BY <1>1, <1>2 DEF Pending

LEMMA BelowType ==
  ASSUME NEW stack \in Seq(Int)
  PROVE  Below(stack) \in Seq(Int) /\ Top(stack) \in Int
<1>1. CASE stack = <<>>
  BY <1>1 DEF Below, Top, Unknown
<1>2. CASE stack # <<>>
  BY <1>2 DEF Below, Top, Front, Last
<1> QED BY <1>1, <1>2

LEMMA PushedType ==
  ASSUME NEW stack \in Seq(Int), NEW value \in Int
  PROVE  Append(stack, value) \in Seq(Int) /\ Top(Append(stack, value)) = value
<1> DEFINE pushed == Append(stack, value)
<1>1. /\ pushed \in Seq(Int) /\ Len(pushed) = Len(stack) + 1 /\ Len(stack) \in Nat
      /\ pushed[Len(stack) + 1] = value
  OBVIOUS
<1> HIDE DEF pushed
<1>2. pushed # <<>>
  BY <1>1
<1>3. Top(pushed) = value
  BY <1>1, <1>2 DEF Top, Last
<1> QED BY <1>1, <1>3 DEF pushed

LEMMA StackedType ==
  ASSUME NEW stack \in Seq(Int), NEW i \in Instruction
  PROVE  /\ Stacked(stack, i) \in Seq(Int)
         /\ i.op = "push" => Top(Stacked(stack, i)) = i.value
<1>1. i.op = "push" => i.value \in Int
  BY InspectionAssumption DEF Instruction
<1>2. /\ Unknown \in Int
      /\ Below(stack) \in Seq(Int) /\ Below(Below(stack)) \in Seq(Int)
  BY BelowType DEF Unknown
<1>3. CASE i.op = "push"
  <2>1. Stacked(stack, i) = Append(stack, i.value)
    BY <1>3 DEF Stacked
  <2> QED BY <1>1, <1>3, <2>1, PushedType
<1>4. CASE i.op # "push"
  <2>1. /\ Append(stack, Unknown) \in Seq(Int)
        /\ Append(Below(stack), Unknown) \in Seq(Int)
        /\ Append(Below(Below(stack)), Unknown) \in Seq(Int)
    BY <1>2, PushedType
  <2> QED BY <1>2, <1>4, <2>1 DEF Stacked
<1> QED BY <1>3, <1>4

LEMMA SeenType ==
  ASSUME NEW code \in Seq(Instruction)
  PROVE  /\ \A k \in 0..Len(code) : Seen(code)[k] \in Walk
         /\ Seen(code)[0] = Nothing
         /\ \A k \in 1..Len(code) : Seen(code)[k] = See(Seen(code)[k - 1], code[k])
<1>0. Len(code) \in Nat /\ DOMAIN code = 1..Len(code)
  OBVIOUS
<1>1. \A k \in 0..Len(code) :
        Seen(code)[k] = IF k = 0 THEN Nothing ELSE See(Seen(code)[k - 1], code[k])
  BY <1>0, SeenIs
<1>2. Seen(code)[0] = Nothing
      /\ \A k \in 1..Len(code) : Seen(code)[k] = See(Seen(code)[k - 1], code[k])
  BY <1>0, <1>1
<1>3. ASSUME NEW n \in 0..Len(code)
      PROVE  Seen(code)[n] \in Walk
  <2> DEFINE S == {k \in 0..n : Seen(code)[k] \in Walk}
  <2>1. 0 \in S
    <3>1. Nothing \in Walk
      BY DEF Nothing, Walk, Pending
    <3>2. 0 \in 0..n
      BY <1>0
    <3> QED BY <1>2, <3>1, <3>2
  <2>2. ASSUME NEW k \in 0..(n - 1), k \in S
        PROVE  k + 1 \in S
    <3> DEFINE walk == Seen(code)[k]
               i == code[k + 1]
    <3>1. Seen(code)[k + 1] = See(walk, i) /\ walk \in Walk /\ i \in Instruction
      BY <1>0, <1>2, <2>2
    <3> HIDE DEF walk, i
    <3>2. i.op = "push" => i.value \in Int
      BY <3>1, InspectionAssumption DEF Instruction
    <3>3. /\ walk.pending \in Pending /\ walk.values \in Seq(Int)
          /\ walk = [pending |-> walk.pending, values |-> walk.values]
      BY <3>1 DEF Walk
    <3>4. i.op = "putInt" => walk.values \o SetToSeq(walk.pending) \in Seq(Int)
      BY <3>3, PendingSeq
    <3>5. {} \in Pending /\ (i.op = "push" => {i.value} \in Pending)
      BY <3>2 DEF Pending
    <3>6. See(walk, i) \in Walk
      BY <3>3, <3>4, <3>5 DEF See, Walk
    <3> QED BY <3>1, <3>6
  <2> HIDE DEF S
  <2>3. n \in S
    BY <2>1, <2>2, Climb
  <2> QED BY <2>3 DEF S
<1> QED BY <1>2, <1>3

\* Where the text has no putInt, the walk sees no word.
LEMMA NothingSeen ==
  ASSUME NEW code \in Seq(Instruction), NEW from \in 0..Len(code), NEW to \in from..Len(code),
         \A q \in (from + 1)..to : code[q].op # "putInt"
  PROVE  Seen(code)[to].values = Seen(code)[from].values
<1> DEFINE Same(k) == Seen(code)[k].values = Seen(code)[from].values
           S == {k \in 0..to : k < from \/ Same(k)}
<1>0. Len(code) \in Nat /\ DOMAIN code = 1..Len(code)
  OBVIOUS
<1>1. 0 \in S
  OBVIOUS
<1>2. ASSUME NEW k \in 0..(to - 1), k \in S
      PROVE  k + 1 \in S
  <2>1. CASE k + 1 <= from
    BY <2>1
  <2>2. CASE k >= from
    <3> DEFINE walk == Seen(code)[k]
               i == code[k + 1]
    <3>1. /\ Seen(code)[k + 1] = See(walk, i) /\ walk \in Walk
          /\ Same(k) /\ i.op # "putInt"
      BY <1>0, <1>2, <2>2, SeenType
    <3> HIDE DEF walk, i
    <3>2. See(walk, i).values = walk.values
      BY <3>1 DEF See, Walk
    <3> QED BY <3>1, <3>2 DEF walk
  <2> QED BY <2>1, <2>2
<1> HIDE DEF S
<1>3. to \in S
  BY <1>1, <1>2, Climb
<1> QED BY <1>3 DEF S

Machine(code) == [at : Nat, came : 0..Len(code), stack : Seq(Int), puts : Seq(Int),
                  upto : 0..Len(code), direct : BOOLEAN]

\* A machine that ran every putInt in place has put what the walk sees up to the last of
\* them; a constant just pushed is on top of its stack.
Agree(code, m) ==
  /\ m \in Machine(code)
  /\ m.direct => m.puts = Seen(code)[m.upto].values
  /\ m.came # 0 /\ code[m.came].op = "push" => Top(m.stack) = code[m.came].value

LEMMA AgreeStep ==
  ASSUME NEW code \in Seq(Instruction), NEW m, Agree(code, m), m.at \in DOMAIN code,
         NEW n \in Run(code, m)
  PROVE  Agree(code, n)
<1> DEFINE i == code[m.at]
<1>0. Len(code) \in Nat /\ DOMAIN code = 1..Len(code) /\ i \in Instruction
  OBVIOUS
<1>1. /\ m.at \in 1..Len(code) /\ m.came \in 0..Len(code) /\ m.upto \in 0..Len(code)
      /\ m.stack \in Seq(Int) /\ m.puts \in Seq(Int) /\ m.direct \in BOOLEAN
  BY <1>0 DEF Agree, Machine
<1>2. PICK to \in Nat :
        n = [at |-> to, came |-> m.at, stack |-> Stacked(m.stack, i),
             puts |-> IF i.op = "putInt" THEN Append(m.puts, Top(m.stack)) ELSE m.puts,
             upto |-> IF i.op = "putInt" THEN m.at ELSE m.upto,
             direct |-> m.direct /\ (i.op = "putInt" => InPlace(code, m))]
  <2>1. i.op = "if" => i.value \in Nat
    BY <1>0, InspectionAssumption DEF Instruction
  <2>2. m.at + 1 \in Nat
    BY <1>1
  <2> HIDE DEF i
  <2> QED BY <2>1, <2>2 DEF Run, i
<1>3. /\ Stacked(m.stack, i) \in Seq(Int)
      /\ i.op = "push" => Top(Stacked(m.stack, i)) = i.value
  BY <1>0, <1>1, StackedType
<1>4. CASE i.op = "putInt"
  <2> DEFINE v == Top(m.stack)
  <2>1. n = [at |-> to, came |-> m.at, stack |-> Stacked(m.stack, i),
             puts |-> Append(m.puts, v), upto |-> m.at,
             direct |-> m.direct /\ InPlace(code, m)]
    BY <1>2, <1>4
  <2>2. v \in Int /\ Append(m.puts, v) \in Seq(Int)
    BY <1>1, BelowType
  <2>3. ASSUME m.direct, InPlace(code, m)
        PROVE  Append(m.puts, v) = Seen(code)[m.at].values
    <3>1. /\ m.came # 0 /\ m.came = m.at - 1 /\ code[m.came].op = "push"
          /\ m.upto <= m.came /\ \A q \in (m.upto + 1)..m.came : code[q].op # "putInt"
      BY <1>1, <2>3 DEF InPlace
    <3>2. m.puts = Seen(code)[m.upto].values /\ v = code[m.came].value
      BY <2>3, <3>1 DEF Agree
    <3>3. m.came \in 1..Len(code) /\ m.came - 1 \in 0..Len(code) /\ m.upto \in 0..Len(code)
      BY <1>1, <3>1
    <3>4. Seen(code)[m.came].values = m.puts
      <4>1. m.came \in m.upto..Len(code)
        BY <3>1, <3>3
      <4> QED BY <3>1, <3>2, <3>3, <4>1, NothingSeen
    <3>5. Seen(code)[m.came].pending = {v}
      <4> DEFINE before == Seen(code)[m.came - 1]
                 p == code[m.came]
      <4>1. Seen(code)[m.came] = See(before, p) /\ before \in Walk /\ p.op = "push" /\ p.value = v
        BY <3>1, <3>2, <3>3, SeenType
      <4> HIDE DEF before, p
      <4> QED BY <4>1 DEF See, Walk
    <3>6. Seen(code)[m.at] = See(Seen(code)[m.came], i)
      BY <1>1, <3>1, SeenType
    <3>7. Seen(code)[m.at].values = m.puts \o SetToSeq({v})
      BY <1>4, <3>4, <3>5, <3>6 DEF See
    <3>8. SetToSeq({v}) = <<v>>
      BY SingletonSeq
    <3>9. \A s \in Seq(Int), e \in Int : s \o <<e>> = Append(s, e)
      OBVIOUS
    <3> HIDE DEF v
    <3> QED BY <1>1, <2>2, <3>7, <3>8, <3>9
  <2> HIDE DEF v
  <2>4. InPlace(code, m) \in BOOLEAN
    BY DEF InPlace
  <2> QED BY <1>0, <1>1, <1>3, <1>4, <2>1, <2>2, <2>3, <2>4 DEF Agree, Machine
<1>5. CASE i.op # "putInt"
  <2>1. n = [at |-> to, came |-> m.at, stack |-> Stacked(m.stack, i), puts |-> m.puts,
             upto |-> m.upto, direct |-> m.direct]
    BY <1>1, <1>2, <1>5
  <2>2. m.direct => m.puts = Seen(code)[m.upto].values
    BY DEF Agree
  <2> QED BY <1>0, <1>1, <1>3, <2>1, <2>2 DEF Agree, Machine
<1> QED BY <1>4, <1>5

\* After a direct run the walk has seen what the machine put.
LEMMA SeenIsPut ==
  ASSUME NEW code \in Seq(Instruction), NEW m \in Ends(code), Direct(code, m)
  PROVE  PutInts(code) = m.puts
<1>0. Len(code) \in Nat /\ DOMAIN code = 1..Len(code) /\ MaxRun \in Nat
  BY InspectionAssumption
<1> DEFINE S == {n \in 0..MaxRun : \A r \in Ran(code)[n] : Agree(code, r)}
<1>1. 0 \in S
  <2>1. Agree(code, Idle)
    BY <1>0, SeenType DEF Agree, Idle, Machine, Nothing
  <2> QED BY <1>0, <2>1, RanIs
<1>2. ASSUME NEW n \in 0..(MaxRun - 1), n \in S
      PROVE  n + 1 \in S
  <2>1. Ran(code)[n + 1] = Onwards(code, Ran(code)[n])
    BY RanIs
  <2>2. ASSUME NEW r \in Ran(code)[n + 1]
        PROVE  Agree(code, r)
    <3>1. PICK b \in Ran(code)[n] :
            r \in IF b.at \in DOMAIN code THEN Run(code, b) ELSE {b}
      BY <2>1 DEF Onwards
    <3>2. Agree(code, b)
      BY <1>2
    <3>3. CASE b.at \in DOMAIN code
      BY <3>1, <3>2, <3>3, AgreeStep
    <3>4. CASE b.at \notin DOMAIN code
      BY <3>1, <3>2, <3>4
    <3> QED BY <3>3, <3>4
  <2> QED BY <1>0, <2>2
<1> HIDE DEF S
<1>3. MaxRun \in S
  BY <1>0, <1>1, <1>2, Climb
<1>4. Agree(code, m)
  BY <1>3 DEF S, Ends
<1>5. m.puts = Seen(code)[m.upto].values /\ m.upto \in 0..Len(code)
      /\ \A q \in (m.upto + 1)..Len(code) : code[q].op # "putInt"
  BY <1>4 DEF Agree, Machine, Direct
<1>6. Seen(code)[Len(code)].values = m.puts
  BY <1>0, <1>5, NothingSeen
<1> QED BY <1>6 DEF PutInts

LEMMA NoncesSound ==
  ASSUME NEW found \in Nonces, found.direct
  PROVE  found.taken = found.put
<1>1. PICK code \in Initialisers :
        \E m \in Ends(code) : found = [taken |-> Window(PutInts(code)),
                                      direct |-> Direct(code, m), put |-> Window(m.puts)]
  BY DEF Nonces
<1>2. PICK m \in Ends(code) : found = [taken |-> Window(PutInts(code)),
                                      direct |-> Direct(code, m), put |-> Window(m.puts)]
  BY <1>1
<1>3. code \in Seq(Instruction) /\ Direct(code, m)
  BY <1>2, InspectionAssumption DEF Initialisers
<1> QED BY <1>2, <1>3, SeenIsPut

-----------------------------------------------------------------------------
(* Discovery.                                                               *)

\* What inspect_jar knows of the JAR, and the evidence that decided.
Weighed ==
  /\ jar \in Seq(Classes) /\ dats \subseteq Resources
  /\ next \in 0..Len(jar)
  /\ parsed \in Seq(1..next) /\ skipped \in Seq(1..next)
  /\ \A i, j \in DOMAIN parsed : i < j => parsed[i] < parsed[j]
  /\ 1..next = D!Elements(parsed) \union D!Elements(skipped)
  /\ stage = "parse" \/ next = Len(jar)

Chosen ==
  /\ stage \in {"parse", "select"} => selected = <<>>
  /\ selected = <<>> \/ selected \in D!Evidence

DiscoveryInv == Weighed /\ Chosen /\ NonceAsPut

\* The three rules, with the members they leave.
LEMMA EvidenceCases ==
  ASSUME NEW p \in D!Evidence
  PROVE  \/ D!ExactPairs = {p}
         \/ D!LoaderPairs = {p}
         \/ \E c, r : D!Candidates = {c} /\ dats = {r} /\ p = <<c, r>>
<1>1. CASE D!Lone(D!ExactPairs)
  BY <1>1 DEF D!Evidence, D!Lone
<1>2. CASE ~D!Lone(D!ExactPairs) /\ D!Lone(D!LoaderPairs)
  BY <1>2 DEF D!Evidence, D!Lone
<1>3. CASE ~D!Lone(D!ExactPairs) /\ ~D!Lone(D!LoaderPairs)
  <2>1. D!Lone(D!Candidates) /\ D!Lone(dats) /\ p \in D!Candidates \X dats
    BY <1>3 DEF D!Evidence
  <2>2. PICK c : D!Candidates = {c}
    BY <2>1 DEF D!Lone
  <2>3. PICK r : dats = {r}
    BY <2>1 DEF D!Lone
  <2> QED BY <2>1, <2>2, <2>3
<1> QED BY <1>1, <1>2, <1>3

LEMMA EvidenceIsPair ==
  ASSUME NEW p \in D!Evidence
  PROVE  p \in D!Elements(parsed) \X dats
<1>1. CASE D!ExactPairs = {p} \/ D!LoaderPairs = {p}
  BY <1>1 DEF D!ExactPairs, D!LoaderPairs
<1>2. CASE \E c, r : D!Candidates = {c} /\ dats = {r} /\ p = <<c, r>>
  BY <1>2 DEF D!Candidates
<1> QED BY <1>1, <1>2, EvidenceCases

LEMMA ChosenAlone == DiscoveryInv => NoRivalLoader
<1> SUFFICES ASSUME DiscoveryInv, selected # <<>> PROVE NoRivalLoader
  BY DEF NoRivalLoader, D!NoRivalLoader
<1>1. Weighed /\ selected \in D!Evidence /\ next = Len(jar)
  BY DEF DiscoveryInv, Chosen, Weighed
<1>2. DOMAIN jar = D!Elements(parsed) \union D!Elements(skipped)
  BY <1>1 DEF Weighed
<1>3. selected \in D!Elements(parsed) \X dats
  BY <1>1, EvidenceIsPair
<1>4. ASSUME NEW c \in D!Elements(parsed), NEW r \in dats, jar[c].loader, r \in jar[c].refs
      PROVE  selected = <<c, r>>
  <2>1. <<c, r>> \in D!ExactPairs /\ <<c, r>> \in D!LoaderPairs /\ c \in D!Candidates
    BY <1>4 DEF D!ExactPairs, D!LoaderPairs, D!Candidates
  <2> QED BY <1>1, <2>1, EvidenceCases
<1> QED BY <1>2, <1>3, <1>4 DEF NoRivalLoader, D!NoRivalLoader

LEMMA GuessAlone == DiscoveryInv => GuessIsForced
<1> SUFFICES ASSUME DiscoveryInv, selected # <<>>, selected[2] \notin jar[selected[1]].refs
             PROVE  /\ dats = {selected[2]}
                    /\ \A c \in D!Elements(parsed) \ {selected[1]} :
                         ~jar[c].loader /\ ~jar[c].named
  BY DEF GuessIsForced, D!GuessIsForced
<1>1. Weighed /\ selected \in D!Evidence
  BY DEF DiscoveryInv, Chosen
<1>2. selected \notin D!ExactPairs /\ selected \notin D!LoaderPairs
  BY DEF D!ExactPairs, D!LoaderPairs
<1>3. PICK c, r : D!Candidates = {c} /\ dats = {r} /\ selected = <<c, r>>
  BY <1>1, <1>2, EvidenceCases
<1> QED BY <1>3 DEF D!Candidates

-----------------------------------------------------------------------------
(* The mappings.                                                            *)

\* A function .pdata knows, no function, or an inferred one that stops short.
Stops(f) ==
  f \in image.functions \union {None} \/
    /\ f.begin < f.end /\ f.end - f.begin <= MaxInferred
    /\ \E s \in image.sections : s.executable /\ s.lo <= f.begin /\ f.end <= s.hi
    /\ \A g \in image.functions : g.begin <= f.begin \/ g.begin >= f.end

LEMMA BoundaryStops ==
  ASSUME image \in Images, NEW a \in Addresses, NEW f \in Boundary(a)
  PROVE  f \in Function /\ Stops(f)
<1>1. /\ image.functions \subseteq Function /\ image.sections \subseteq Section
      /\ Addresses \subseteq Nat /\ MaxInferred \in Nat
  BY MappingAssumption DEF Image
<1>2. CASE FunctionAt(a) # {}
  BY <1>1, <1>2 DEF Boundary, FunctionAt, Stops
<1>3. CASE FunctionAt(a) = {}
  <2>1. PICK s \in image.sections : /\ InSection(a, s) /\ s.executable
                                    /\ InferredEnd(a, s) - a <= MaxInferred
                                    /\ f = [begin |-> a, end |-> InferredEnd(a, s)]
    BY <1>3 DEF Boundary
  <2> DEFINE begins == {g.begin : g \in {h \in image.functions : h.begin > a}} \union {s.hi}
             end == InferredEnd(a, s)
             Nearest(e) == e <= s.hi /\ \A other \in begins : e <= other
  <2>2. begins \in SUBSET Addresses /\ begins \in SUBSET Nat /\ s.hi \in begins
    BY <1>1 DEF Function, Section
  <2>3. \A e \in begins : a < e
    BY <2>1, <1>1 DEF InSection
  <2>4. end = CHOOSE e \in begins : Nearest(e)
    BY DEF InferredEnd
  <2>5. \A g \in image.functions : g.begin > a => g.begin \in begins
    OBVIOUS
  <2> HIDE DEF begins, end
  <2>6. \E e \in begins : Nearest(e)
    BY <2>2, Least
  <2>7. end \in begins /\ end <= s.hi /\ \A other \in begins : end <= other
    BY <2>4, <2>6
  <2>8. f = [begin |-> a, end |-> end] /\ end - a <= MaxInferred
    BY <2>1 DEF end
  <2>9. f \in Function
    BY <2>2, <2>7, <2>8 DEF Function
  <2>10. s.executable /\ s.lo <= f.begin /\ f.end <= s.hi
    BY <2>1, <2>7, <2>8 DEF InSection
  <2>11. \A g \in image.functions : g.begin <= f.begin \/ g.begin >= f.end
    <3>1. \A g \in image.functions : g.begin \in Nat /\ a \in Nat
      BY <1>1 DEF Function
    <3>2. \A g \in image.functions : g.begin > a => end <= g.begin
      BY <2>5, <2>7
    <3> QED BY <2>2, <2>7, <2>8, <3>1, <3>2
  <2>12. f.begin < f.end /\ f.end - f.begin <= MaxInferred
    BY <2>3, <2>7, <2>8
  <2> QED BY <2>9, <2>10, <2>11, <2>12 DEF Stops
<1> QED BY <1>2, <1>3

\* A finished mapping: whole, with addresses of its own, and named in a warning where
\* its methods and its targets do not pair up.
MappingSound(m) ==
  /\ m.name \in attempted
  /\ \E c \in Named(m.name) : Len(m.methods) = classes[c].protected
  /\ \A i, j \in DOMAIN m.methods :
       m.methods[i].rva # -1 =>
         /\ m.methods[i].rva \notin ExportRvas
         /\ m.methods[i].rva = m.methods[j].rva => i = j
  /\ \A i \in DOMAIN m.methods : Stops(m.methods[i].function)
  /\ (\E n \in DOMAIN m.methods : m.methods[n].rva = -1) \/ m.discovered > Len(m.methods)
       => <<"count mismatch", m.name>> \in warnings

\* What the mapping knows of the discovery that went before it.
Handed ==
  /\ pc \in {"waiting", "exports", "methods", "report", "mapped", "failed"}
  /\ cursor \in Nat
  /\ stage # "found" => pc = "waiting"
  /\ stage \in {"context", "found"} => image \in Images
  /\ pc = "waiting" => mappings = <<>>
  /\ pc # "waiting" => classes = [i \in DOMAIN parsed |-> AsMapped(parsed[i])]

\* The class in progress: no mapping has its name, and its nth method has the nth target.
InProgress ==
  pc = "methods" =>
    /\ targets \in Seq(Addresses) /\ Distinct(targets)
    /\ \A n \in DOMAIN targets : Registers(targets[n])
    /\ methods \in Seq(Method)
    /\ \A n \in DOMAIN methods :
         /\ methods[n].rva = IF n <= Len(targets) THEN targets[n] ELSE -1
         /\ Stops(methods[n].function)
    /\ current \in Named(classes[current].name)
    /\ classes[current].name \in attempted \intersect Names
    /\ \A i \in DOMAIN mappings : mappings[i].name # classes[current].name

Whole ==
  /\ mappings \in Seq(Mapping)
  /\ \A i \in DOMAIN mappings : MappingSound(mappings[i])
  /\ \A i, j \in DOMAIN mappings : mappings[i].name = mappings[j].name => i = j

Reported ==
  /\ pc \in {"report", "mapped"} =>
       \A i, j \in DOMAIN mappings : i < j => mappings[i].name < mappings[j].name
  /\ pc = "mapped" => \A i \in Unmapped : <<"not mapped", classes[i].name>> \in warnings

MappingInv == Handed /\ InProgress /\ Whole /\ Reported

Inv == DiscoveryInv /\ MappingInv

-----------------------------------------------------------------------------
\* Warnings and names tried only grow, and nothing else a mapping is judged by changes.
LEMMA StaysSound ==
  ASSUME NEW m, MappingSound(m), UNCHANGED <<image, classes>>,
         attempted \subseteq attempted', warnings \subseteq warnings'
  PROVE  MappingSound(m)'
<1>1. \A f : Stops(f) => Stops(f)'
  BY DEF Stops
<1>2. Named(m.name)' = Named(m.name) /\ ExportRvas' = ExportRvas
  BY DEF Named, ExportRvas
<1> QED BY <1>1, <1>2 DEF MappingSound

\* The classes and resources the evidence is taken from stay, once all are weighed.
LEMMA EvidenceStays ==
  ASSUME UNCHANGED <<jar, dats, parsed>>
  PROVE  D!Evidence' = D!Evidence
<1>1. D!ExactPairs' = D!ExactPairs /\ D!Candidates' = D!Candidates
  BY DEF D!ExactPairs, D!Candidates, D!Elements
<1>2. D!LoaderPairs' = D!LoaderPairs
  BY <1>1 DEF D!LoaderPairs
<1> QED BY <1>1, <1>2 DEF D!Evidence, D!Lone

LEMMA AppendAbove ==
  ASSUME NEW n \in Nat, NEW s \in Seq(1..n)
  PROVE  /\ s \in Seq(1..(n + 1)) /\ Append(s, n + 1) \in Seq(1..(n + 1))
         /\ D!Elements(Append(s, n + 1)) = D!Elements(s) \union {n + 1}
         /\ (\A i, j \in DOMAIN s : i < j => s[i] < s[j]) =>
              \A i, j \in DOMAIN Append(s, n + 1) :
                i < j => Append(s, n + 1)[i] < Append(s, n + 1)[j]
<1> DEFINE t == Append(s, n + 1)
<1>1. /\ Len(s) \in Nat /\ DOMAIN s = 1..Len(s) /\ \A i \in DOMAIN s : s[i] \in 1..n
      /\ DOMAIN t = 1..(Len(s) + 1) /\ t[Len(s) + 1] = n + 1
      /\ \A i \in DOMAIN s : t[i] = s[i]
  OBVIOUS
<1>2. s \in Seq(1..(n + 1))
  BY <1>1
<1>3. t \in Seq(1..(n + 1))
  BY <1>2
<1> HIDE DEF t
<1>4. D!Elements(t) = D!Elements(s) \union {n + 1}
  BY <1>1 DEF D!Elements
<1>5. ASSUME \A i, j \in DOMAIN s : i < j => s[i] < s[j]
      PROVE  \A i, j \in DOMAIN t : i < j => t[i] < t[j]
  BY <1>1, <1>5
<1> QED BY <1>2, <1>3, <1>4, <1>5 DEF t

LEMMA DiscoveryInit == Start => DiscoveryInv
<1> SUFFICES ASSUME Start PROVE DiscoveryInv
  OBVIOUS
<1>1. /\ jar \in UNION {[1..n -> Classes] : n \in 0..MaxClasses} /\ dats \subseteq Resources
      /\ stage = "parse" /\ next = 0 /\ parsed = <<>> /\ skipped = <<>> /\ selected = <<>>
      /\ nonceFrom = 0
  BY DEF Start, D!Init
<1>2. jar \in Seq(Classes)
  BY <1>1, InspectionAssumption DEF D!DiscoveryAssumption
<1>3. Weighed
  <2>1. 0 \in 0..Len(jar) /\ 1..0 = {}
    BY <1>2
  <2> QED BY <1>1, <1>2, <2>1 DEF Weighed, D!Elements
<1> QED BY <1>1, <1>3 DEF DiscoveryInv, Chosen, NonceAsPut, D!NonceAsPut

LEMMA DiscoveryNext ==
  ASSUME DiscoveryInv, Discover \/ Payload \/ UNCHANGED discovery
  PROVE  DiscoveryInv'
<1> USE DEF DiscoveryInv, D!nonceVars
<1>1. CASE D!ParseClass
  <2>1. /\ stage = "parse" /\ next < Len(jar) /\ next' = next + 1
        /\ UNCHANGED <<jar, dats, stage, selected, nonceFrom, nonce, direct, put>>
        /\ \/ parsed' = Append(parsed, next + 1) /\ UNCHANGED skipped
           \/ skipped' = Append(skipped, next + 1) /\ UNCHANGED parsed
    BY <1>1 DEF D!ParseClass
  <2>2. next \in Nat /\ next + 1 \in 0..Len(jar) /\ parsed \in Seq(1..next) /\ skipped \in Seq(1..next)
    BY <2>1 DEF Weighed
  <2>3. 1..(next + 1) = D!Elements(parsed) \union D!Elements(skipped) \union {next + 1}
    BY <2>2 DEF Weighed
  <2>4. Weighed'
    <3>1. CASE parsed' = Append(parsed, next + 1) /\ UNCHANGED skipped
      <4>0. /\ D!Elements(parsed)' = D!Elements(Append(parsed, next + 1))
            /\ D!Elements(skipped)' = D!Elements(skipped)
        BY <3>1 DEF D!Elements
      <4>1. D!Elements(parsed)' = D!Elements(parsed) \union {next + 1}
        BY <2>2, <4>0, AppendAbove
      <4>2. /\ parsed' \in Seq(1..(next + 1)) /\ skipped' \in Seq(1..(next + 1))
            /\ \A i, j \in DOMAIN parsed' : i < j => parsed'[i] < parsed'[j]
        BY <2>2, <3>1, AppendAbove DEF Weighed
      <4> QED BY <2>1, <2>2, <2>3, <4>0, <4>1, <4>2 DEF Weighed
    <3>2. CASE skipped' = Append(skipped, next + 1) /\ UNCHANGED parsed
      <4>0. /\ D!Elements(skipped)' = D!Elements(Append(skipped, next + 1))
            /\ D!Elements(parsed)' = D!Elements(parsed)
        BY <3>2 DEF D!Elements
      <4>1. D!Elements(skipped)' = D!Elements(skipped) \union {next + 1}
        BY <2>2, <4>0, AppendAbove
      <4>2. /\ parsed' \in Seq(1..(next + 1)) /\ skipped' \in Seq(1..(next + 1))
            /\ \A i, j \in DOMAIN parsed' : i < j => parsed'[i] < parsed'[j]
        BY <2>2, <3>2, AppendAbove DEF Weighed
      <4> QED BY <2>1, <2>2, <2>3, <4>0, <4>1, <4>2 DEF Weighed
    <3> QED BY <2>1, <3>1, <3>2
  <2>5. Chosen' /\ NonceAsPut'
    BY <2>1 DEF Chosen, NonceAsPut, D!NonceAsPut
  <2> QED BY <2>4, <2>5
<1>2. CASE D!Parsed
  <2>1. Chosen'
    BY <1>2 DEF D!Parsed, Chosen
  <2>2. Weighed' /\ NonceAsPut'
    BY <1>2 DEF D!Parsed, Weighed, D!Elements, NonceAsPut, D!NonceAsPut
  <2> QED BY <2>1, <2>2
<1>3. CASE D!Select
  <2>1. UNCHANGED <<jar, dats, parsed>> /\ selected' \in D!Evidence /\ stage' = "payload"
    BY <1>3 DEF D!Select
  <2>2. Chosen'
    BY <2>1, EvidenceStays DEF Chosen
  <2>3. Weighed' /\ NonceAsPut'
    BY <1>3 DEF D!Select, Weighed, D!Elements, NonceAsPut, D!NonceAsPut
  <2> QED BY <2>2, <2>3
<1>4. CASE \/ D!SelectFails \/ D!Payload \/ D!ContextFails
           \/ UNCHANGED discovery
  <2>1. /\ UNCHANGED <<jar, dats, next, parsed, skipped, selected, nonceFrom, nonce, direct, put>>
        /\ stage' = stage \/ (stage \notin {"parse"} /\ stage' \notin {"parse", "select"})
    BY <1>4 DEF D!SelectFails, D!Payload, D!ContextFails, discovery
  <2>2. Chosen'
    BY <2>1, EvidenceStays DEF Chosen
  <2>3. Weighed' /\ NonceAsPut'
    BY <2>1 DEF Weighed, D!Elements, NonceAsPut, D!NonceAsPut
  <2> QED BY <2>2, <2>3
<1>5. CASE D!Context
  <2>1. /\ UNCHANGED <<jar, dats, next, parsed, skipped, selected>>
        /\ stage = "context" /\ stage' = "found"
    BY <1>5 DEF D!Context
  <2>2. PICK found \in Nonces : nonce' = found.taken /\ direct' = found.direct /\ put' = found.put
    BY <1>5 DEF D!Context
  <2>3. NonceAsPut'
    BY <2>2, NoncesSound DEF NonceAsPut, D!NonceAsPut
  <2>4. Chosen'
    BY <2>1, EvidenceStays DEF Chosen
  <2>5. Weighed'
    BY <2>1 DEF Weighed, D!Elements
  <2> QED BY <2>3, <2>4, <2>5
<1> QED BY <1>1, <1>2, <1>3, <1>4, <1>5 DEF Discover, Payload

-----------------------------------------------------------------------------
(* Each step of the mapping.                                                *)

LEMMA ImageType ==
  ASSUME image \in Images
  PROVE  /\ image.exports \in Seq(Export) /\ image.functions \subseteq Function
         /\ image.stub \in [Addresses -> Seq(Addresses)]
  BY MappingAssumption DEF Image

\* The classes handed over are the parsed ones, which discovery has weighed.
LEMMA ClassesHanded ==
  ASSUME Inv, pc # "waiting"
  PROVE  /\ stage = "found" /\ image \in Images /\ next = Len(jar)
         /\ DOMAIN classes = DOMAIN parsed
         /\ \A i \in DOMAIN classes :
              /\ parsed[i] \in DOMAIN jar
              /\ classes[i] = AsMapped(parsed[i])
              /\ classes[i].protected \in Nat
<1>1. /\ stage = "found" /\ image \in Images /\ next = Len(jar)
      /\ classes = [i \in DOMAIN parsed |-> AsMapped(parsed[i])]
  BY DEF Inv, MappingInv, Handed, DiscoveryInv, Weighed
<1>2. jar \in Seq(D!Class) /\ parsed \in Seq(1..Len(jar))
  BY <1>1, InspectionAssumption DEF Inv, DiscoveryInv, Weighed, D!DiscoveryAssumption
<1>3. \A i \in DOMAIN parsed : parsed[i] \in DOMAIN jar
  BY <1>2
<1>4. \A c \in DOMAIN jar : jar[c] \in D!Class
  BY <1>2
<1>5. \A c \in DOMAIN jar : jar[c].protected \in Nat
  BY <1>4 DEF D!Class
<1> QED BY <1>1, <1>3, <1>5 DEF AsMapped

LEMMA HandedOn ==
  ASSUME Inv, pc # "waiting", UNCHANGED discovery, UNCHANGED <<image, classes>>,
         pc' \in {"exports", "methods", "report", "mapped", "failed"}, cursor' \in Nat
  PROVE  Handed'
<1>1. stage = "found" /\ image \in Images
  BY ClassesHanded
<1>2. classes' = [i \in DOMAIN parsed' |-> AsMapped(parsed[i])']
  BY DEF Inv, MappingInv, Handed, discovery, AsMapped
<1> QED BY <1>1, <1>2 DEF discovery, Handed

LEMMA WholeOn ==
  ASSUME Inv, UNCHANGED <<image, classes, mappings>>,
         attempted \subseteq attempted', warnings \subseteq warnings'
  PROVE  Whole'
<1>1. \A i \in DOMAIN mappings' : MappingSound(mappings[i])'
  <2> SUFFICES ASSUME NEW i \in DOMAIN mappings' PROVE MappingSound(mappings[i])'
    OBVIOUS
  <2> DEFINE m == mappings[i]
  <2>1. MappingSound(m) /\ m' = m
    BY DEF Inv, MappingInv, Whole
  <2> QED BY <2>1, StaysSound
<1> QED BY <1>1 DEF Inv, MappingInv, Whole


LEMMA MappingInit == Start => MappingInv
  BY DEF Start, D!Init, MappingInv, Handed, InProgress, Whole, Reported

\* Until the classes are handed over there is no mapping.
LEMMA DiscoverKeeps ==
  ASSUME Inv, Discover \/ Payload
  PROVE  MappingInv'
<1>1. /\ stage # "found" /\ UNCHANGED mapping
      /\ UNCHANGED image \/ (stage' \in {"context", "found"} /\ image' \in Images)
      /\ stage' \in {"context", "found"} => stage \in {"context", "found"} \/ image' \in Images
  BY DEF Discover, Payload, D!ParseClass, D!Parsed, D!Select, D!SelectFails, D!Payload,
         D!Context, D!ContextFails
<1>2. pc = "waiting" /\ mappings = <<>>
  BY <1>1 DEF Inv, MappingInv, Handed
<1>3. pc' = "waiting" /\ mappings' = <<>> /\ cursor' = cursor
  BY <1>1, <1>2 DEF mapping
<1>4. Whole'
  BY <1>3 DEF Whole
<1>5. InProgress' /\ Reported'
  BY <1>3 DEF InProgress, Reported
<1>6. Handed'
  BY <1>1, <1>3 DEF Inv, MappingInv, Handed
<1> QED BY <1>4, <1>5, <1>6 DEF MappingInv

LEMMA BuildKeeps ==
  ASSUME Inv, BuildMappings
  PROVE  MappingInv'
<1>1. mappings = <<>> /\ mappings' = <<>> /\ pc' = "exports" /\ image \in Images
  BY DEF Inv, MappingInv, Handed, BuildMappings
<1>2. Whole'
  BY <1>1 DEF Whole
<1>3. InProgress' /\ Reported'
  BY <1>1 DEF InProgress, Reported
<1>4. classes' = [i \in DOMAIN parsed' |-> AsMapped(parsed[i])']
  BY DEF BuildMappings, discovery, AsMapped
<1>5. Handed'
  BY <1>1, <1>4 DEF Inv, MappingInv, Handed, BuildMappings, discovery
<1> QED BY <1>2, <1>3, <1>5 DEF MappingInv

\* An export that leads to no class in progress.
LEMMA ExportKeeps ==
  ASSUME Inv, UNCHANGED discovery, SkipExport \/ GiveUpExport \/ ScanFails
  PROVE  MappingInv'
<1>1. /\ pc = "exports" /\ pc' \in {"exports", "failed"} /\ cursor' = cursor + 1
      /\ UNCHANGED <<image, classes, mappings>>
      /\ attempted \subseteq attempted' /\ warnings \subseteq warnings'
  BY DEF SkipExport, GiveUpExport, ScanFails, TryExport, Unmappable
<1>2. cursor \in Nat
  BY DEF Inv, MappingInv, Handed
<1>3. Handed' /\ Whole'
  BY <1>1, <1>2, HandedOn, WholeOn
<1>4. InProgress' /\ Reported'
  BY <1>1 DEF InProgress, Reported
<1> QED BY <1>3, <1>4 DEF MappingInv

LEMMA ScanKeeps ==
  ASSUME Inv, UNCHANGED discovery, ScanStub
  PROVE  MappingInv'
<1>1. PICK e \in {image.exports[i] : i \in DOMAIN image.exports} :
        /\ TryExport(e)
        /\ \E i \in Named(e.class) : classes[i].protected > 0 /\ current' = i
        /\ targets' = Scan(image.stub[e.rva])
        /\ methods' = <<>> /\ pc' = "methods" /\ UNCHANGED <<mappings, warnings>>
  BY DEF ScanStub
<1>2. /\ pc = "exports" /\ Decodes(e) /\ e.class \notin attempted /\ cursor' = cursor + 1
      /\ attempted' = attempted \union {e.class} /\ UNCHANGED <<image, classes, dynamicMode>>
  BY <1>1 DEF TryExport
<1>3. image \in Images /\ cursor \in Nat
  BY <1>2, ClassesHanded DEF Inv, MappingInv, Handed
<1>4. Handed' /\ Whole'
  BY <1>1, <1>2, <1>3, HandedOn, WholeOn
<1>5. e \in Export /\ e.class \in Names
  <2>1. e \in Export
    BY <1>3, ImageType
  <2> QED BY <1>2, <2>1 DEF Export, Decodes
<1>6. image.stub[e.rva] \in Seq(Addresses)
  BY <1>3, <1>5, ImageType DEF Export
<1>7. /\ targets' \in Seq(Addresses) /\ Distinct(targets')
      /\ \A n \in DOMAIN targets' : Registers(targets'[n])
  BY <1>1, <1>6, ScanSound
<1>8. \A a : Registers(a)' = Registers(a)
  BY <1>2 DEF Registers, Executable, InSection, ExportRvas
<1>9. /\ current' \in Named(e.class) /\ classes[current'].name = e.class
      /\ Named(e.class)' = Named(e.class)
  BY <1>1, <1>2 DEF Named
<1>10. current' \in Named(classes[current].name)' /\ classes'[current'].name = e.class
  BY <1>2, <1>9 DEF Named
<1>11. \A i \in DOMAIN mappings' : mappings'[i].name # e.class
  BY <1>1, <1>2 DEF Inv, MappingInv, Whole, MappingSound
<1>12. methods' \in Seq(Method) /\ DOMAIN methods' = {}
  BY <1>1
<1>13. \A n \in DOMAIN targets' : Registers(targets[n])'
  BY <1>7, <1>8 DEF Registers, Executable, InSection, ExportRvas
<1>14. InProgress'
  BY <1>2, <1>5, <1>7, <1>10, <1>11, <1>12, <1>13 DEF InProgress, Distinct
<1>15. Reported'
  BY <1>1 DEF Reported
<1> QED BY <1>4, <1>14, <1>15 DEF MappingInv

\* One more method of the class in progress, with the target that is next.
LEMMA MethodKeeps ==
  ASSUME Inv, UNCHANGED discovery, MapMethod \/ NativeFails \/ NoFunction
  PROVE  MappingInv'
<1>0. PICK f : /\ f \in Located \/ (f = None /\ Located = {})
               /\ AddMethod(f, TRUE) \/ AddMethod(f, FALSE)
  <2>1. CASE MapMethod
    <3>1. PICK f \in Located : AddMethod(f, TRUE)
      BY <2>1 DEF MapMethod
    <3> QED BY <3>1
  <2>2. CASE NativeFails
    <3>1. PICK f \in Located : AddMethod(f, FALSE)
      BY <2>2 DEF NativeFails
    <3> QED BY <3>1
  <2>3. CASE NoFunction
    BY <2>3 DEF NoFunction
  <2> QED BY <2>1, <2>2, <2>3
<1>1. PICK analysed \in BOOLEAN : AddMethod(f, analysed)
  BY <1>0
<1>2. warnings \subseteq warnings'
  BY DEF MapMethod, NativeFails, NoFunction
<1> DEFINE m == [rva |-> Rva, function |-> f, analysed |-> analysed,
                 dynamic |-> DynamicOf(Located # {})]
<1>3. /\ pc = "methods" /\ methods' = Append(methods, m)
      /\ UNCHANGED <<image, classes, dynamicMode, pc, cursor, attempted, current, targets, mappings>>
  BY <1>1 DEF AddMethod
<1>4. image \in Images /\ cursor \in Nat
  BY <1>3, ClassesHanded DEF Inv, MappingInv, Handed
<1>5. Handed' /\ Whole'
  BY <1>2, <1>3, <1>4, HandedOn, WholeOn
<1>6. /\ targets \in Seq(Addresses) /\ methods \in Seq(Method)
      /\ \A n \in DOMAIN methods :
           /\ methods[n].rva = IF n <= Len(targets) THEN targets[n] ELSE -1
           /\ Stops(methods[n].function)
  BY <1>3 DEF Inv, MappingInv, InProgress
<1>7. Rva = IF Len(methods) + 1 <= Len(targets) THEN targets[Len(methods) + 1] ELSE -1
  BY <1>6 DEF Rva
<1>8. Rva \in Addresses \union {-1}
  BY <1>6, <1>7
<1>9. f \in Function \union {None} /\ Stops(f)
  <2>1. CASE f = None
    BY <2>1 DEF Stops
  <2>2. CASE f \in Located
    <3>1. Len(methods) + 1 \in DOMAIN targets /\ f \in Boundary(targets[Len(methods) + 1])
      BY <1>6, <2>2 DEF Located
    <3>2. targets[Len(methods) + 1] \in Addresses
      BY <1>6, <3>1
    <3> QED BY <1>4, <3>1, <3>2, BoundaryStops
  <2> QED BY <1>0, <2>1, <2>2
<1>10. m \in Method /\ m.rva = Rva /\ m.function = f
  BY <1>8, <1>9 DEF Method, DynamicOf
<1> HIDE DEF m
<1>11. /\ methods' \in Seq(Method) /\ DOMAIN methods' = 1..(Len(methods) + 1)
       /\ DOMAIN methods = 1..Len(methods) /\ Len(methods) \in Nat
       /\ methods'[Len(methods) + 1] = m
       /\ \A n \in DOMAIN methods : methods'[n] = methods[n]
  BY <1>3, <1>6, <1>10
<1>12. \A n \in DOMAIN methods' :
         /\ methods'[n].rva = IF n <= Len(targets) THEN targets[n] ELSE -1
         /\ Stops(methods'[n].function)
  BY <1>6, <1>7, <1>9, <1>10, <1>11
<1>13. \A n \in DOMAIN methods' : Stops(methods[n].function)'
  BY <1>3, <1>12 DEF Stops
<1>14. \A n \in DOMAIN targets' : Registers(targets[n])'
  BY <1>3 DEF Inv, MappingInv, InProgress, Registers, Executable, InSection, ExportRvas
<1>15. current' \in Named(classes[current].name)'
  BY <1>3 DEF Inv, MappingInv, InProgress, Named
<1>16. InProgress'
  BY <1>3, <1>6, <1>11, <1>12, <1>13, <1>14, <1>15 DEF Inv, MappingInv, InProgress
<1>17. Reported'
  BY <1>3 DEF Reported
<1> QED BY <1>5, <1>16, <1>17 DEF MappingInv

LEMMA EndKeeps ==
  ASSUME Inv, UNCHANGED discovery, EndClass
  PROVE  MappingInv'
<1>a. PICK name : name = classes[current].name
  OBVIOUS
<1>b. PICK m : m = [name |-> name, export |-> cursor, discovered |-> Len(targets),
                    methods |-> methods]
  OBVIOUS
<1>1. /\ pc = "methods" /\ pc' = "exports" /\ Len(methods) = classes[current].protected
      /\ Len(targets) # Len(methods) => <<"count mismatch", name>> \in warnings'
      /\ warnings \subseteq warnings' /\ mappings' = Append(mappings, m)
      /\ UNCHANGED <<image, classes, dynamicMode, cursor, attempted, current, targets, methods>>
  BY <1>a, <1>b DEF EndClass
<1>2. image \in Images /\ cursor \in Nat
  BY <1>1, ClassesHanded DEF Inv, MappingInv, Handed
<1>3. Handed'
  BY <1>1, <1>2, HandedOn
<1>4. InProgress' /\ Reported'
  BY <1>1 DEF InProgress, Reported
<1>5. /\ targets \in Seq(Addresses) /\ Distinct(targets)
      /\ \A n \in DOMAIN targets : Registers(targets[n])
      /\ methods \in Seq(Method)
      /\ \A n \in DOMAIN methods :
           /\ methods[n].rva = IF n <= Len(targets) THEN targets[n] ELSE -1
           /\ Stops(methods[n].function)
      /\ current \in Named(name) /\ name \in attempted /\ name \in Names
      /\ \A i \in DOMAIN mappings : mappings[i].name # name
  BY <1>a, <1>1 DEF Inv, MappingInv, InProgress
<1>6. /\ m \in Mapping /\ m.name = name /\ m.methods = methods /\ m.discovered = Len(targets)
  BY <1>b, <1>2, <1>5 DEF Mapping
<1>7. ASSUME NEW i \in DOMAIN methods, NEW j \in DOMAIN methods, methods[i].rva # -1
      PROVE  /\ methods[i].rva \notin ExportRvas
             /\ methods[i].rva = methods[j].rva => i = j
  <2>1. i \in DOMAIN targets /\ methods[i].rva = targets[i]
    BY <1>5, <1>7
  <2>2. methods[i].rva \notin ExportRvas
    BY <1>5, <2>1 DEF Registers
  <2>3. methods[i].rva = methods[j].rva => j \in DOMAIN targets /\ methods[j].rva = targets[j]
    BY <1>5, <1>7
  <2> QED BY <1>5, <2>1, <2>2, <2>3 DEF Distinct
<1>8. (\E n \in DOMAIN methods : methods[n].rva = -1) \/ Len(targets) > Len(methods)
         => Len(targets) # Len(methods)
  <2>1. ASSUME NEW n \in DOMAIN methods, n <= Len(targets)
        PROVE  methods[n].rva # -1
    <3>1. n \in DOMAIN targets /\ methods[n].rva = targets[n]
      BY <1>5, <2>1
    <3>2. targets[n] \in Addresses
      BY <1>5, <3>1
    <3>3. targets[n] \in Nat
      BY <3>2, MappingAssumption
    <3> QED BY <3>1, <3>3
  <2> QED BY <1>5, <2>1
<1>9. MappingSound(m)'
  <2>1. Named(name)' = Named(name) /\ ExportRvas' = ExportRvas
    BY <1>1 DEF Named, ExportRvas
  <2>2. \A f : Stops(f) => Stops(f)'
    BY <1>1 DEF Stops
  <2>3. \A i \in DOMAIN m.methods : Stops(m.methods[i].function)'
    BY <1>5, <1>6, <2>2
  <2>4. /\ m.name \in attempted' /\ current \in Named(m.name)'
        /\ Len(m.methods) = classes'[current].protected
    BY <1>a, <1>1, <1>5, <1>6, <2>1
  <2>5. (\E n \in DOMAIN m.methods : m.methods[n].rva = -1) \/ m.discovered > Len(m.methods)
          => <<"count mismatch", m.name>> \in warnings'
    BY <1>1, <1>6, <1>8
  <2> QED BY <1>6, <1>7, <2>1, <2>3, <2>4, <2>5 DEF MappingSound
<1>10. Whole'
  <2>1. mappings \in Seq(Mapping) /\ \A i \in DOMAIN mappings : MappingSound(mappings[i])
    BY DEF Inv, MappingInv, Whole
  <2>2. /\ mappings' \in Seq(Mapping) /\ DOMAIN mappings' = 1..(Len(mappings) + 1)
        /\ DOMAIN mappings = 1..Len(mappings) /\ Len(mappings) \in Nat
        /\ mappings'[Len(mappings) + 1] = m
        /\ \A i \in DOMAIN mappings : mappings'[i] = mappings[i]
    <3>1. mappings \in Seq(Mapping) /\ m \in Mapping /\ mappings' = Append(mappings, m)
      BY <1>1, <1>6, <1>b, <2>1
    <3> QED BY <3>1
  <2>3. \A i \in DOMAIN mappings : MappingSound(mappings[i])'
    <3> SUFFICES ASSUME NEW i \in DOMAIN mappings PROVE MappingSound(mappings[i])'
      OBVIOUS
    <3> DEFINE o == mappings[i]
    <3>1. MappingSound(o) /\ o' = o
      BY <2>1, <2>2
    <3> QED BY <1>1, <3>1, StaysSound
  <2>4. \A i \in DOMAIN mappings' : MappingSound(mappings[i])'
    BY <1>9, <2>2, <2>3
  <2>5. \A i, j \in DOMAIN mappings' : mappings'[i].name = mappings'[j].name => i = j
    BY <1>5, <1>6, <2>2 DEF Inv, MappingInv, Whole
  <2> QED BY <2>2, <2>4, <2>5 DEF Whole
<1> QED BY <1>3, <1>4, <1>10 DEF MappingInv

\* A permutation keeps what holds of each mapping; distinct names leave no ties.
LEMMA SortKeeps ==
  ASSUME Inv, UNCHANGED discovery, SortMappings
  PROVE  MappingInv'
<1>1. PICK order \in Bijection(DOMAIN mappings, DOMAIN mappings) :
        ByName(order) /\ mappings' = [i \in DOMAIN mappings |-> mappings[order[i]]]
  BY DEF SortMappings
<1>2. /\ pc = "exports" /\ pc' = "report"
      /\ UNCHANGED <<image, classes, dynamicMode, cursor, attempted, current, targets, methods, warnings>>
  BY DEF SortMappings
<1>3. /\ order \in [DOMAIN mappings -> DOMAIN mappings]
      /\ \A i, j \in DOMAIN mappings : order[i] = order[j] => i = j
  BY DEF Bijection, Injection, IsInjective
<1>4. /\ mappings \in Seq(Mapping)
      /\ \A i \in DOMAIN mappings : MappingSound(mappings[i])
      /\ \A i, j \in DOMAIN mappings : mappings[i].name = mappings[j].name => i = j
  BY DEF Inv, MappingInv, Whole
<1>5. DOMAIN mappings' = DOMAIN mappings /\ mappings' \in Seq(Mapping)
  <2>1. mappings \in Seq(Mapping) /\ order \in [DOMAIN mappings -> DOMAIN mappings]
    BY <1>3, <1>4
  <2>2. \A i \in DOMAIN mappings : mappings[order[i]] \in Mapping
    BY <2>1
  <2>3. DOMAIN mappings = 1..Len(mappings) /\ Len(mappings) \in Nat
    BY <2>1
  <2> QED BY <1>1, <2>2, <2>3
<1>6. \A i \in DOMAIN mappings' : order[i] \in DOMAIN mappings /\ mappings'[i] = mappings[order[i]]
  BY <1>1, <1>3, <1>5
<1>7. \A i \in DOMAIN mappings' : MappingSound(mappings[i])'
  <2> SUFFICES ASSUME NEW i \in DOMAIN mappings' PROVE MappingSound(mappings[i])'
    OBVIOUS
  <2>1. PICK o : o = mappings'[i]
    OBVIOUS
  <2>2. MappingSound(o)
    BY <1>4, <1>6, <2>1
  <2>3. MappingSound(o)'
    BY <1>2, <2>2, StaysSound
  <2> QED BY <2>1, <2>3
<1>8. \A i, j \in DOMAIN mappings' : mappings'[i].name = mappings'[j].name => i = j
  BY <1>3, <1>4, <1>5, <1>6
<1>9. ASSUME NEW i \in DOMAIN mappings', NEW j \in DOMAIN mappings', i < j
      PROVE  mappings'[i].name < mappings'[j].name
  <2>1. order[i] # order[j] => mappings[order[i]].name # mappings[order[j]].name
    BY <1>4, <1>6
  <2>2. i # j
    BY <1>4, <1>5, <1>9
  <2>3. mappings[order[i]].name # mappings[order[j]].name
    BY <1>3, <1>5, <2>1, <2>2
  <2>4. mappings[order[i]].name < mappings[order[j]].name
    BY <1>1, <1>5, <1>9, <2>3 DEF ByName
  <2> QED BY <1>6, <2>4
<1>10. Whole' /\ Reported'
  BY <1>2, <1>5, <1>7, <1>8, <1>9 DEF Whole, Reported
<1>11. Handed' /\ InProgress'
  <2>1. cursor \in Nat
    BY DEF Inv, MappingInv, Handed
  <2> QED BY <1>2, <2>1, HandedOn DEF InProgress
<1> QED BY <1>10, <1>11 DEF MappingInv

LEMMA ReportKeeps ==
  ASSUME Inv, UNCHANGED discovery, ReportUnmapped
  PROVE  MappingInv'
<1>1. /\ pc = "report" /\ pc' = "mapped" /\ warnings \subseteq warnings'
      /\ \A i \in Unmapped : <<"not mapped", classes[i].name>> \in warnings'
      /\ UNCHANGED <<image, classes, dynamicMode, cursor, attempted, current, targets, methods, mappings>>
  BY DEF ReportUnmapped
<1>2. Handed' /\ Whole'
  <2>1. cursor \in Nat
    BY DEF Inv, MappingInv, Handed
  <2> QED BY <1>1, <2>1, HandedOn, WholeOn
<1>3. Unmapped' = Unmapped
  BY <1>1 DEF Unmapped, MappedNames
<1>4. InProgress' /\ Reported'
  BY <1>1, <1>3 DEF Inv, MappingInv, InProgress, Reported
<1> QED BY <1>2, <1>4 DEF MappingInv

\* The inductive invariant of the inspection.
THEOREM Invariant == InspectionSpec => []Inv
<1>1. Start => Inv
  BY DiscoveryInit, MappingInit DEF Inv
<1>2. Inv /\ [Inspect]_inspected => Inv'
  <2> SUFFICES ASSUME Inv, [Inspect]_inspected PROVE Inv'
    OBVIOUS
  <2>1. CASE Discover \/ Payload
    BY <2>1, DiscoveryNext, DiscoverKeeps DEF Inv
  <2>2. CASE BuildMappings
    <3>1. UNCHANGED discovery
      BY <2>2 DEF BuildMappings
    <3> QED BY <2>2, <3>1, DiscoveryNext, BuildKeeps DEF Inv
  <2>3. CASE MapExports
    <3>1. UNCHANGED discovery
      BY <2>3 DEF MapExports
    <3>2. DiscoveryInv'
      BY <3>1, DiscoveryNext DEF Inv
    <3>3. MappingInv'
      BY <2>3, <3>1, ExportKeeps, ScanKeeps, MethodKeeps, EndKeeps, SortKeeps, ReportKeeps
         DEF MapExports
    <3> QED BY <3>2, <3>3 DEF Inv
  <2>4. CASE Ended \/ UNCHANGED inspected
    <3>1. UNCHANGED <<discovery, mapping, image, dynamicMode>>
      BY <2>4 DEF Ended, inspected
    <3>2. DiscoveryInv'
      BY <3>1, DiscoveryNext DEF Inv
    <3>3. Whole'
      BY <3>1, WholeOn DEF mapping
    <3>4. InProgress' /\ Reported'
      BY <3>1 DEF mapping, Inv, MappingInv, InProgress, Reported, Distinct, Registers, Executable,
                  InSection, ExportRvas, Stops, Named, Unmapped, MappedNames
    <3>5. Handed'
      BY <3>1 DEF mapping, discovery, Inv, MappingInv, Handed, AsMapped
    <3> QED BY <3>2, <3>3, <3>4, <3>5 DEF Inv, MappingInv
  <2> QED BY <2>1, <2>2, <2>3, <2>4 DEF Inspect
<1> QED BY <1>1, <1>2, PTL DEF InspectionSpec

-----------------------------------------------------------------------------
\* inspect_jar decodes the .dat resource of no class but the one that all the evidence
\* leaves: no loader that names a resource is overridden, or chosen between.
THEOREM LoaderAlone == InspectionSpec => []NoRivalLoader
<1>1. Inv => NoRivalLoader
  BY ChosenAlone DEF Inv
<1> QED BY <1>1, Invariant, PTL

\* A resource the loader does not name is decoded only where no other fits.
THEOREM GuessSound == InspectionSpec => []GuessIsForced
<1>1. Inv => GuessIsForced
  BY GuessAlone DEF Inv
<1> QED BY <1>1, Invariant, PTL

\* The nonce all_put_int_values and loader_nonce take from the text of a class initialiser
\* is the one a run of it puts, whatever else it calls and wherever it jumps, as long as
\* the run passes putInt the constants the text pushes right before each, one after the
\* other.
THEOREM NonceFaithful == InspectionSpec => []NonceAsPut
<1>1. Inv => NonceAsPut
  BY DEF Inv, DiscoveryInv
<1> QED BY <1>1, Invariant, PTL

\* infer_function_boundary runs into no other function and over no end of a section.
THEOREM BoundariesSound == InspectionSpec => []InferredStopsShort
<1>1. Inv => InferredStopsShort
  <2> SUFFICES ASSUME Inv, NEW i \in DOMAIN mappings, NEW n \in DOMAIN mappings[i].methods
               PROVE  Stops(mappings[i].methods[n].function)
    BY DEF InferredStopsShort, Stops
  <2> QED BY DEF Inv, MappingInv, Whole, MappingSound
<1> QED BY <1>1, Invariant, PTL

\* build_mappings maps a class once and whole, no two of its methods to one address.
THEOREM MappedOnce == InspectionSpec => []EachMappedOnce
<1>1. Inv => EachMappedOnce
  <2> SUFFICES ASSUME Inv PROVE EachMappedOnce
    OBVIOUS
  <2>1. \A i \in DOMAIN mappings : MappingSound(mappings[i])
    BY DEF Inv, MappingInv, Whole
  <2>2. \A i, j \in DOMAIN mappings : mappings[i].name = mappings[j].name => i = j
    BY DEF Inv, MappingInv, Whole
  <2>3. \A i \in DOMAIN mappings :
          \E c \in Named(mappings[i].name) : Len(mappings[i].methods) = classes[c].protected
    BY <2>1 DEF MappingSound
  <2>4. \A m \in {mappings[i] : i \in DOMAIN mappings} :
          \A i, j \in DOMAIN m.methods :
            m.methods[i].rva # -1 =>
              /\ m.methods[i].rva \notin ExportRvas
              /\ m.methods[i].rva = m.methods[j].rva => i = j
    <3>1. ASSUME NEW m, MappingSound(m), NEW i \in DOMAIN m.methods, NEW j \in DOMAIN m.methods,
                 m.methods[i].rva # -1
          PROVE  /\ m.methods[i].rva \notin ExportRvas
                 /\ m.methods[i].rva = m.methods[j].rva => i = j
      BY <3>1 DEF MappingSound
    <3> QED BY <2>1, <3>1
  <2>5. pc = "mapped" =>
          \A i, j \in DOMAIN mappings : i < j => mappings[i].name < mappings[j].name
    BY DEF Inv, MappingInv, Reported
  <2> QED BY <2>2, <2>3, <2>4, <2>5 DEF EachMappedOnce
<1> QED BY <1>1, Invariant, PTL

\* A class member that inspect_jar neither maps nor warns of has nothing to map, is no
\* loader, or stands behind a later one of its name; and a mapping that does not pair its
\* methods with the targets of the stub is warned of.
THEOREM NothingLost == InspectionSpec => []NothingLostSilently
<1>1. Inv => NothingLostSilently
  <2> SUFFICES ASSUME Inv, pc = "mapped" PROVE NothingLostSilently
    BY DEF NothingLostSilently
  <2>1. \A i \in DOMAIN mappings : MappingSound(mappings[i])
    BY DEF Inv, MappingInv, Whole
  <2>2. ASSUME NEW c \in DOMAIN jar, c \notin D!Elements(skipped),
               jar[c].protected # 0, jar[c].loader,
               <<"not mapped", jar[c].name>> \notin warnings
        PROVE  \E i \in DOMAIN mappings :
                 /\ mappings[i].name = jar[c].name
                 /\ \/ Len(mappings[i].methods) = jar[c].protected
                    \/ \E later \in D!Elements(parsed) :
                         later > c /\ jar[later].name = jar[c].name
    <3>1. c \in D!Elements(parsed)
      <4>1. DOMAIN jar = 1..next /\ 1..next = D!Elements(parsed) \union D!Elements(skipped)
        BY ClassesHanded DEF Inv, DiscoveryInv, Weighed
      <4> QED BY <2>2, <4>1
    <3>2. PICK k \in DOMAIN parsed : parsed[k] = c
      BY <3>1 DEF D!Elements
    <3>3. /\ k \in DOMAIN classes /\ classes[k].name = jar[c].name
          /\ classes[k].protected = jar[c].protected /\ classes[k].loader = jar[c].loader
          /\ classes[k].protected > 0
      <4>1. k \in DOMAIN classes /\ classes[k] = AsMapped(c) /\ classes[k].protected \in Nat
        BY <3>2, ClassesHanded
      <4>2. /\ classes[k].name = jar[c].name /\ classes[k].loader = jar[c].loader
            /\ classes[k].protected = jar[c].protected
        BY <4>1 DEF AsMapped
      <4>3. jar[c].protected # 0
        BY <2>2
      <4>4. classes[k].protected > 0
        BY <4>1, <4>2, <4>3
      <4> QED BY <4>1, <4>2, <4>4
    <3>4. k \notin Unmapped
      BY <2>2, <3>3 DEF Inv, MappingInv, Reported
    <3>5. PICK i \in DOMAIN mappings : mappings[i].name = jar[c].name
      BY <2>2, <3>3, <3>4 DEF Unmapped, MappedNames
    <3>6. PICK d \in Named(jar[c].name) : Len(mappings[i].methods) = classes[d].protected
      BY <2>1, <3>5 DEF MappingSound
    <3>7. d \in DOMAIN classes /\ classes[d].name = jar[c].name /\ k <= d
      BY <3>3, <3>6 DEF Named
    <3>8. CASE d = k
      BY <3>3, <3>5, <3>6, <3>8
    <3>9. CASE d # k
      <4>1. d \in DOMAIN parsed /\ k < d
        <5>1. parsed \in Seq(1..next) /\ DOMAIN classes = DOMAIN parsed
          BY ClassesHanded DEF Inv, DiscoveryInv, Weighed
        <5> QED BY <3>2, <3>7, <3>9, <5>1
      <4>2. parsed[k] < parsed[d]
        BY <3>2, <4>1 DEF Inv, DiscoveryInv, Weighed
      <4>3. parsed[d] \in D!Elements(parsed) /\ jar[parsed[d]].name = jar[c].name
        BY <3>7, <4>1, ClassesHanded DEF D!Elements, AsMapped
      <4>4. parsed[d] \in Int /\ c \in Int /\ parsed[d] > c
        <5>1. parsed \in Seq(1..next) /\ next \in Nat
          BY DEF Inv, DiscoveryInv, Weighed
        <5>2. parsed[d] \in 1..next /\ parsed[k] \in 1..next
          BY <3>2, <4>1, <5>1
        <5> QED BY <3>2, <4>2, <5>1, <5>2
      <4> QED BY <3>5, <4>3, <4>4
    <3> QED BY <3>8, <3>9
  <2>3. \A i \in DOMAIN mappings :
          (\E n \in DOMAIN mappings[i].methods : mappings[i].methods[n].rva = -1)
            \/ mappings[i].discovered > Len(mappings[i].methods)
          => <<"count mismatch", mappings[i].name>> \in warnings
    BY <2>1 DEF MappingSound
  <2> QED BY <2>2, <2>3 DEF NothingLostSilently
<1> QED BY <1>1, Invariant, PTL

-----------------------------------------------------------------------------
(* The types of Discovery's variables.                                      *)

\* Every step of the inspection is one of Discovery, or does not touch what Discovery
\* keeps: from "found" on, build_mappings only reads it.
LEMMA StepsOfDiscovery == InspectionSpec => D!Spec
<1>1. Start => D!Init
  BY DEF Start
<1>2. [Inspect]_inspected => [D!Next]_(D!vars)
  <2> SUFFICES ASSUME [Inspect]_inspected PROVE D!Next \/ UNCHANGED D!vars
    OBVIOUS
  <2>1. CASE Discover \/ Payload
    BY <2>1 DEF Discover, Payload, D!Next
  <2>2. UNCHANGED <<discovery, dynamicMode>> => UNCHANGED D!vars
    BY DEF discovery, D!vars, D!nonceVars
  <2>3. CASE BuildMappings
    BY <2>2, <2>3 DEF BuildMappings
  <2>4. CASE MapExports
    <3>1. UNCHANGED discovery
      BY <2>4 DEF MapExports
    <3>2. UNCHANGED dynamicMode
      BY <2>4 DEF MapExports, SkipExport, GiveUpExport, ScanFails, ScanStub, TryExport, MapMethod,
                  NativeFails, NoFunction, AddMethod, EndClass, SortMappings, ReportUnmapped
    <3> QED BY <2>2, <3>1, <3>2
  <2>5. CASE Ended \/ UNCHANGED inspected
    BY <2>2, <2>5 DEF Ended, inspected
  <2> QED BY <2>1, <2>3, <2>4, <2>5 DEF Inspect
<1> QED BY <1>1, <1>2, PTL DEF InspectionSpec, D!Spec

LEMMA DiscoveryTyped == D!Init => D!TypeOK
<1> SUFFICES ASSUME D!Init PROVE D!TypeOK
  OBVIOUS
<1>1. PICK n \in 0..MaxClasses : jar \in [1..n -> Classes]
  BY DEF D!Init
<1>2. n \in Nat /\ Classes \subseteq D!Class
  BY InspectionAssumption DEF D!DiscoveryAssumption
<1>3. jar \in Seq(D!Class) /\ Len(jar) = n
  BY <1>1, <1>2
<1> QED BY <1>2, <1>3 DEF D!Init, D!TypeOK

LEMMA DiscoveryTypeStep ==
  ASSUME D!TypeOK, [D!Next]_(D!vars)
  PROVE  D!TypeOK'
<1>0. Len(jar) \in Nat /\ DOMAIN jar = 1..Len(jar)
  BY DEF D!TypeOK
<1>1. CASE D!ParseClass
  <2>1. /\ next < Len(jar) /\ next' = next + 1
        /\ parsed' \in {parsed, Append(parsed, next + 1)}
        /\ skipped' \in {skipped, Append(skipped, next + 1)}
        /\ UNCHANGED <<jar, dats, dynamicMode, stage, selected, nonceFrom, nonce, direct, put>>
    BY <1>1 DEF D!ParseClass, D!nonceVars
  <2>2. next + 1 \in DOMAIN jar /\ next' \in 0..Len(jar)
    BY <1>0, <2>1 DEF D!TypeOK
  <2>3. parsed' \in Seq(DOMAIN jar) /\ skipped' \in Seq(DOMAIN jar)
    <3>1. ASSUME NEW S, NEW s \in Seq(S), NEW e \in S PROVE Append(s, e) \in Seq(S)
      BY <3>1
    <3>2. parsed \in Seq(DOMAIN jar) /\ skipped \in Seq(DOMAIN jar)
      BY DEF D!TypeOK
    <3>3. Append(parsed, next + 1) \in Seq(DOMAIN jar) /\ Append(skipped, next + 1) \in Seq(DOMAIN jar)
      BY <2>2, <3>1, <3>2
    <3> QED BY <2>1, <3>2, <3>3
  <2> QED BY <2>1, <2>2, <2>3 DEF D!TypeOK
<1>2. CASE D!Parsed
  BY <1>2 DEF D!TypeOK, D!Parsed, D!nonceVars
<1>3. CASE D!Select
  <2>1. PICK p \in D!Evidence : selected' = p
    BY <1>3 DEF D!Select
  <2>2. p \in D!Elements(parsed) \X dats
    BY <2>1, EvidenceIsPair
  <2>3. D!Elements(parsed) \subseteq DOMAIN jar
    BY DEF D!TypeOK, D!Elements
  <2>4. selected' \in (DOMAIN jar) \X Resources
    BY <2>1, <2>2, <2>3 DEF D!TypeOK
  <2> QED BY <1>3, <2>4 DEF D!TypeOK, D!Select, D!nonceVars
<1>4. CASE D!SelectFails \/ D!ContextFails \/ D!Payload
  BY <1>4 DEF D!TypeOK, D!SelectFails, D!ContextFails, D!Payload, D!nonceVars
<1>5. CASE D!Context
  <2>1. PICK i \in D!NonceClasses : nonceFrom' = parsed[i]
    BY <1>5 DEF D!Context
  <2>2. nonceFrom' \in 0..Len(jar)
    BY <1>0, <2>1 DEF D!TypeOK, D!NonceClasses
  <2>3. PICK found \in Nonces :
          nonce' = found.taken /\ direct' = found.direct /\ put' = found.put
    BY <1>5 DEF D!Context
  <2>4. found = [taken |-> found.taken, direct |-> found.direct, put |-> found.put]
    BY <2>3 DEF Nonces
  <2>5. [taken |-> nonce', direct |-> direct', put |-> put'] \in Nonces
    BY <2>3, <2>4
  <2> QED BY <1>5, <2>2, <2>5 DEF D!TypeOK, D!Context
<1>6. CASE D!Terminated \/ UNCHANGED D!vars
  BY <1>6 DEF D!TypeOK, D!Terminated, D!vars, D!nonceVars
<1> QED BY <1>1, <1>2, <1>3, <1>4, <1>5, <1>6 DEF D!Next

\* The variables of inspect_jar keep their types: the loader is a class member of the JAR,
\* and its resource a .dat name.
THEOREM DiscoveryTypeCorrect == InspectionSpec => []D!TypeOK
<1>1. D!Spec => []D!TypeOK
  BY DiscoveryTyped, DiscoveryTypeStep, PTL DEF D!Spec
<1> QED BY <1>1, StepsOfDiscovery, PTL
=============================================================================
