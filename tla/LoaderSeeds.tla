---------------------------- MODULE LoaderSeeds ----------------------------
(***************************************************************************)
(* How the nonce words are read out of a class initialiser:                 *)
(* all_put_int_values and the window of loader_nonce                        *)
(* (src/src/loader_seeds.rs), beside what the Java machine passes to putInt *)
(* when it runs that initialiser.                                           *)
(*                                                                          *)
(* The walk goes over the instructions in the order of the text, and over   *)
(* jumps as over any other instruction; the machine follows them.  An       *)
(* instruction is what the two tell apart.                                  *)
(***************************************************************************)
EXTENDS Integers, Sequences, SequencesExt

CONSTANTS
  Ints,      \* int constants the code pushes, naturals to tell them from Unknown
  Words,     \* words of a nonce (3 in the code)
  Skip,      \* words before it in a full initialiser (8, the key)
  MaxCode,   \* bound of the model: instructions of an initialiser
  MaxRun     \* bound of the model: instructions a run of it executes

\* A push; putInt, which returns its buffer; a field read, a call with so many
\* arguments and a pop, which leave the constant pending; and int arithmetic and a
\* conditional jump, which do not.  A jump to the end is a return, one that is always
\* taken a goto, several are a switch.
Instruction == [op : {"push"}, value : Ints]
                 \union [op : {"putInt", "getstatic", "pop", "iadd"}, value : {0}]
                 \union [op : {"call"}, value : {0, 1}]
                 \union [op : {"if"}, value : 1..(MaxCode + 1)]

Initialisers ==
  {code \in UNION {[1..n -> Instruction] : n \in 0..MaxCode} :
     \A k \in DOMAIN code : code[k].op = "if" => code[k].value <= Len(code) + 1}

Nothing == [pending |-> {}, values |-> <<>>]

\* Mutant of See: the name of the called method is not looked at.
SeeAnyCall(walk, i) ==
  IF i.op = "push" THEN [walk EXCEPT !.pending = {i.value}]
  ELSE IF i.op \in {"putInt", "call"}
    THEN [pending |-> {}, values |-> walk.values \o SetToSeq(walk.pending)]
  ELSE IF i.op \in {"getstatic", "pop"} THEN walk
  ELSE [walk EXCEPT !.pending = {}]

\* One instruction of all_put_int_values; pending is a set of at most one constant.
\* A putInt without a pending constant adds no word.
See(walk, i) ==
  IF i.op = "push" THEN [walk EXCEPT !.pending = {i.value}]
  ELSE IF i.op = "putInt"
    THEN [pending |-> {}, values |-> walk.values \o SetToSeq(walk.pending)]
  ELSE IF i.op \in {"getstatic", "call", "pop"} THEN walk
  ELSE [walk EXCEPT !.pending = {}]

Seen(code) ==
  LET walk[n \in 0..Len(code)] == IF n = 0 THEN Nothing ELSE See(walk[n - 1], code[n])
  IN walk

PutInts(code) == Seen(code)[Len(code)].values

\* The nonce is taken after the key, or from the start of a short list, if that has
\* enough words.
Window(values) ==
  IF Len(values) >= Skip + Words THEN SubSeq(values, Skip + 1, Skip + Words)
  ELSE IF Len(values) >= Words THEN SubSeq(values, 1, Words)
  ELSE <<>>

-----------------------------------------------------------------------------
\* The Java machine: its stack holds constants and values nobody knows.
Unknown == -1

Top(stack) == IF stack = <<>> THEN Unknown ELSE Last(stack)

Below(stack) == IF stack = <<>> THEN <<>> ELSE Front(stack)

Stacked(stack, i) ==
  IF i.op = "push" THEN Append(stack, i.value)
  ELSE IF i.op = "getstatic" \/ (i.op = "call" /\ i.value = 0) THEN Append(stack, Unknown)
  ELSE IF i.op = "call" THEN Append(Below(stack), Unknown)
  ELSE IF i.op = "iadd" THEN Append(Below(Below(stack)), Unknown)
  ELSE Below(stack)

\* The putInt at m.at is passed the constant that the instruction before it in the text
\* has just pushed, and is the first one in the text after the putInt run last.
InPlace(code, m) ==
  /\ m.came # 0 /\ m.came = m.at - 1 /\ code[m.came].op = "push"
  /\ m.upto < m.at /\ \A q \in (m.upto + 1)..(m.at - 1) : code[q].op # "putInt"

\* The machines that m, about to run instruction m.at, may become.
Run(code, m) ==
  LET i   == code[m.at]
      now == i.op = "putInt"
  IN {[at     |-> to,
       came   |-> m.at,
       stack  |-> Stacked(m.stack, i),
       puts   |-> IF now THEN Append(m.puts, Top(m.stack)) ELSE m.puts,
       upto   |-> IF now THEN m.at ELSE m.upto,
       direct |-> m.direct /\ (now => InPlace(code, m))] :
         to \in {m.at + 1} \union (IF i.op = "if" THEN {i.value} ELSE {})}

\* At instruction 1, coming from none and with nothing put: upto and direct are history,
\* the last putInt run and whether each one so far was in place.
Idle == [at |-> 1, came |-> 0, stack |-> <<>>, puts |-> <<>>, upto |-> 0, direct |-> TRUE]

\* A machine that has left the text, stays at its end.
Onwards(code, machines) ==
  UNION {IF m.at \in DOMAIN code THEN Run(code, m) ELSE {m} : m \in machines}

Ran(code) ==
  LET machines[n \in 0..MaxRun] == IF n = 0 THEN {Idle} ELSE Onwards(code, machines[n - 1])
  IN machines

\* How a run may end.
Ends(code) == {m \in Ran(code)[MaxRun] : m.at = Len(code) + 1}

\* Each putInt of the text was run once, in the order of the text, in place.
Direct(code, m) == m.direct /\ \A q \in (m.upto + 1)..Len(code) : code[q].op # "putInt"

\* What an initialiser with enough words yields: the nonce taken, and of a run of it
\* whether it is direct and the words it really puts there.
Nonces ==
  {found \in UNION {{[taken |-> Window(PutInts(code)), direct |-> Direct(code, m),
                      put |-> Window(m.puts)] : m \in Ends(code)} : code \in Initialisers} :
     found.taken # <<>>}
=============================================================================
