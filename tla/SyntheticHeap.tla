--------------------------- MODULE SyntheticHeap ---------------------------
(***************************************************************************)
(* The synthetic heap of one emulation (make_handle, allocate and the       *)
(* allocation functions of handle_import in src/src/dynamic.rs).  JNI       *)
(* handles and the blocks of the target's own allocator come from one bump   *)
(* pointer; nothing is ever freed.  Handles are numbers the recovered source  *)
(* is keyed by, blocks are memory the target writes to.                      *)
(*                                                                          *)
(* Sizes are machine words: the release build wraps where the code does not  *)
(* ask for saturation.                                                       *)
(***************************************************************************)
EXTENDS Integers

CONSTANTS
  Modulus,      \* 2^64
  HeapAddress, HeapSize,
  Reserve,      \* the first page of the heap stays unused
  HandleLimit,  \* bound: a handle costs an instruction, so heap_next stays below it
  Words,        \* register contents the target passes as sizes
  Kinds         \* what a handle stands for

Unit == 16

ASSUME HeapAssumption ==
  /\ Modulus \in Nat /\ HeapAddress \in Nat /\ HeapSize \in Nat /\ Reserve \in Nat
  /\ HandleLimit \in Nat
  /\ Reserve <= HeapSize
  /\ HeapAddress + HeapSize <= HandleLimit
  /\ HandleLimit + Unit < Modulus /\ 2 * Unit <= Modulus
  /\ Words \subseteq 0..(Modulus - 1)

VARIABLES
  heapNext,  \* heap_next
  handles,   \* address -> what it stands for
  blocks,    \* history: the addresses allocate returned, with the sizes asked for
  spent      \* stop_reason says that the heap budget was reached

heapVars == <<heapNext, handles, blocks, spent>>

HeapInit == /\ heapNext = HeapAddress + Reserve
            /\ handles = [a \in {} |-> "none"]
            /\ blocks = {}
            /\ spent = FALSE

-----------------------------------------------------------------------------
HeapEnd == HeapAddress + HeapSize

\* Arithmetic on machine words.
Plus(m, n)  == IF m + n >= Modulus THEN m + n - Modulus ELSE m + n
Minus(m, n) == IF m >= n THEN m - n ELSE m - n + Modulus
SaturatingPlus(m, n)  == IF m + n >= Modulus THEN Modulus - 1 ELSE m + n
SaturatingTimes(m, n) == IF m * n >= Modulus THEN Modulus - 1 ELSE m * n

\* Mutant of Amount: rounded down.
AmountDown(size) == LET padded == IF size < Unit THEN Unit ELSE size
                    IN padded - (padded % Unit)

\* (size.max(16) + 15) & !15
Amount(size) ==
  LET padded == Plus(IF size < Unit THEN Unit ELSE size, Unit - 1)
  IN padded - (padded % Unit)

\* Mutant of Fits: without the check of the length alone.
FitsWrapped(size) == heapNext <= Minus(HeapEnd, Amount(size))

Fits(size) == /\ Amount(size) <= HeapSize
              /\ heapNext <= Minus(HeapEnd, Amount(size))

Allocate(size) ==
  \/ /\ Fits(size)
     /\ blocks' = blocks \union {[address |-> heapNext, asked |-> size]}
     /\ heapNext' = heapNext + Amount(size)
     /\ UNCHANGED <<handles, spent>>
  \/ /\ ~Fits(size)
     /\ spent' = TRUE
     /\ UNCHANGED <<heapNext, handles, blocks>>

\* malloc(size), and realloc(block, size), which takes a new block and copies nothing.
Malloc == \E size \in Words : Allocate(size)

Calloc == \E count, size \in Words : Allocate(SaturatingTimes(count, size))

\* Mutant of MakeHandle: the pointer stays.
MakeHandleInPlace ==
  /\ heapNext <= HandleLimit
  /\ \E kind \in Kinds :
       handles' = [a \in DOMAIN handles \union {heapNext} |->
                     IF a = heapNext THEN kind ELSE handles[a]]
  /\ UNCHANGED <<heapNext, blocks, spent>>

\* FindClass, the member lookups, strings, object fields, results and new objects.
MakeHandle ==
  /\ heapNext <= HandleLimit
  /\ \E kind \in Kinds :
       handles' = [a \in DOMAIN handles \union {heapNext} |->
                     IF a = heapNext THEN kind ELSE handles[a]]
  /\ heapNext' = SaturatingPlus(heapNext, Unit)
  /\ UNCHANGED <<blocks, spent>>

HeapNext == Malloc \/ Calloc \/ MakeHandle

HeapSpec == HeapInit /\ [][HeapNext]_heapVars

-----------------------------------------------------------------------------
Block == [address : 0..(Modulus - 1), asked : 0..(Modulus - 1)]

HeapTypeOK == /\ heapNext \in 0..(Modulus - 1)
              /\ DOMAIN handles \subseteq 0..(Modulus - 1)
              /\ \A h \in DOMAIN handles : handles[h] \in Kinds
              /\ blocks \subseteq Block
              /\ spent \in BOOLEAN

\* Blocks of a size the heap could hold.
Sound == {b \in blocks : b.asked <= HeapSize}

Apart(start, length, other, otherLength) ==
  start + length <= other \/ other + otherLength <= start

\* A block of reasonable size shares no byte with another one and contains no
\* handle: the target's writes cannot reach what another pointer names.
Disjoint ==
  \A b \in Sound :
    /\ \A c \in Sound : b # c => Apart(b.address, b.asked, c.address, c.asked)
    /\ \A h \in DOMAIN handles : Apart(b.address, b.asked, h, 1)

\* Such a block lies in the mapped heap and off its reserved page, however many
\* handles have moved the bump pointer, even past the end.
InHeap ==
  \A b \in Sound : /\ HeapAddress + Reserve <= b.address
                   /\ b.address + b.asked <= HeapEnd

\* The exact extent of the defect of allocate: a request beyond the heap is granted
\* only if rounding it up wraps to nothing.
OnlyWrappedGranted ==
  \A b \in blocks : b.asked > HeapSize => b.asked > Modulus - Unit

\* A handle keeps its meaning as long as the emulation runs: the recovered source
\* names values through it.
HandlesKeepMeaning ==
  [][\A h \in DOMAIN handles : h \in DOMAIN handles' /\ handles'[h] = handles[h]]_heapVars
=============================================================================
