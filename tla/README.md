# A TLA+ model of jnic-emulator

jnic-emulator reads a JAR (or a bare PE64 DLL) protected by JNIC, finds the
native payload, maps protected Java methods to native functions, and analyses
those functions statically or, in dynamic mode, by running them in an isolated
Unicorn emulator with synthetic JNI functions, from which it recovers Java
statements. This directory holds TLA+ specifications of the program, TLC
configurations that check them on small instances, and TLAPS proofs of their
main invariants. Paths below are relative to the repository's `src/` directory
(`src/dynamic.rs` is the Rust file `src/src/dynamic.rs` of `PROJECT.json`).

The program is one process with one thread. What makes it hard to test is not
locking; it is

* the callbacks of the emulator, where several independent limits, faults and
  the method's own return compete to end one run;
* the search over forced branch outcomes, which runs the same method again and
  again and relies on every run agreeing with its parent up to the flip;
* the rewriting of processor flags in the middle of a run;
* long sequences of JNI calls of the target that build up one statement list;
* input that changes on disk while it is read twice;
* evidence from many classes and exports that must combine into one answer.

## 1. Inventory

| component (file) | state | operations | interacts with |
|---|---|---|---|
| command line (`main.rs`) | none | parse, check limits, write report, write Java | `analyze_path`, the renderers |
| intake (`analyzer.rs`: `file_identity`, `read_bounded`) | file handle, hasher | stat, hash, reopen, read | the file system, other processes |
| archive (`archive.rs`) | bytes of the JAR, member list, `LimitedWriter` | open, read a member, decompress | intake, loader discovery |
| loader discovery (`analyzer.rs`: `inspect_jar`) | classes, warnings, evidence pairs | parse each class, choose loader and resource, find the embedded PE | class parser, archive, PE parser |
| class parser, descriptors (`classfile.rs`, `descriptor.rs`) | reader position | parse one class, one descriptor | discovery, JNI recovery |
| PE parser (`pe.rs`) | sections, exports, imports, functions | parse, look up an address, scan a loader stub | mapping, emulators |
| registration mapping (`analyzer.rs`: `build_mappings`) | mapped names, mappings, warnings | per export: find the class, scan its stub, pair methods and addresses | PE parser, static and dynamic analysis |
| static analysis (`emulator.rs`: `analyze_native`) | decoded instructions, leaders, loops, visit counts | decode, scan, walk | PE parser |
| static JNI call sites (`emulator.rs`: `trace_jni_origins`) | symbols of registers and of stack slots | one pass over the decoded instructions | static analysis |
| loader secrets (`loader_seeds.rs`) | none | find key, constants, nonce and length; produce the ChaCha20 stream | class parser, PE parser |
| scenario search (`dynamic.rs`: `analyze_method`) | queue, set of queued scenarios, paths | pop, trace, enqueue alternatives, choose the best body | one emulator run per scenario |
| emulator run (`dynamic.rs`: `trace_scenario`, `TraceState`) | registers and memory of Unicorn, counters, stop reason | hooks for code and bad memory, stubs, timeout | Unicorn (external) |
| branch forcing (`dynamic.rs`: `handle_conditional`, `force_condition`) | pending comparison, branch log, EFLAGS | record, force | shadow values, the search |
| shadow values (`dynamic.rs`: `shadow_step`) | expression per register and memory word | one step per instruction | forcing, JNI recovery |
| synthetic heap (`dynamic.rs`: `allocate`, `make_handle`) | bump pointer, handle table | allocate, make a handle | import stubs, JNI stubs |
| JNI recovery (`dynamic.rs`: `handle_jni`, `handle_call`) | handles, name counters, statements | one operation per JNI slot | heap, shadow values |
| JNI table, limits, result model, report (`jni.rs`, `limits.rs`, `dynamic_model.rs`, `report.rs`) | none | constants and formatting | all |

What makes each component correct, in the words its properties formalise:

* **Search**: when the queue runs dry, both sides of every application branch
  have been tried; predicates queued in two orders are traced twice but show
  nothing new; nothing is forced that was never observed; shallow scenarios come
  first; the budget is used exactly; the longest completed body is reported.
* **Run**: a run is completed exactly if the method returned; the reason reported
  is true.
* **Forcing**: what is recorded as the outcome is what the processor does.
* **Shadow values**: an expression denotes the value of its register, and where it
  does not the cause is known; a condition recorded with a jump is true exactly
  when the jump is taken.
* **Heap**: blocks are disjoint, inside the heap, and apart from handles; a handle
  never changes its meaning.
* **JNI recovery**: emitted effects keep the call order; every variable is declared
  once, before its use; receivers and arguments are the right ones; the return
  statement names what the method returns.
* **Static analysis**: an analysis not marked truncated has visited all reachable
  code, nothing else, and reported every loop.
* **JNI call sites**: an executed call `[r + n]` is reported as the JNI function it
  calls, or as none; the calls that the pass cannot see are known.
* **Intake**: sizes are bounded, the hash belongs to the bytes analysed, a payload
  is whole or refused.
* **Command line**: the input is never written to, the products land whole at
  their own paths.
* **Discovery**: no rival evidence is overruled; a guess is made only if forced;
  the nonce is what its initialiser puts.
* **Mapping**: one whole mapping per class, no two of its methods at one address, no
  silent loss.

The complete list of hazards with their lines and the properties that cover them
is `hazards` in `PROJECT.json`.

## 2. Modules

| module | models | composes or refines | proofs |
|---|---|---|---|
| `ScenarioSearch` | the search, with arbitrary traces | the abstract specification of an analysis | `ScenarioSearchProofs` |
| `ScenarioTrace` | the search driving an emulator that runs a deterministic method | `INSTANCE ScenarioSearch`: a composition whose every step is one of the search or leaves it alone | `ScenarioTraceProofs` |
| `ConditionCodes` | flags, comparisons, what each jump means, the flags a force writes | extended by the next two | `ShadowValuesProofs` |
| `BranchForcing` | recording and forcing of jumps, values reduced to known or unknown | the abstract specification of the next | through `ShadowValuesProofs` |
| `ShadowValues` | expressions beside a processor with real registers | `INSTANCE BranchForcing`; implements it (`ImplementsForcing`) | `ShadowValuesProofs` |
| `TraceRun` | one run of the emulator, how it ends and what is reported | the end of a trace in the search modules | `TraceStateProofs` |
| `SyntheticHeap` | allocation and handles with wrapping words | | `TraceStateProofs` |
| `JniRecovery` | JNI calls to statements | handles as in `SyntheticHeap` | `JniRecoveryProofs` |
| `ControlFlow` | static analysis of one function | | `StaticAnalysisProofs` |
| `JniOrigins` | static search for JNI calls, beside a processor | | `StaticAnalysisProofs` |
| `InputIntake` | stat, hash, read, unpack | extended by `CommandLine` | `CommandLineProofs` |
| `CommandLine` | arguments, analysis, report and Java output | composes `InputIntake` with the writes | `CommandLineProofs` |
| `Discovery` | loader, resource and nonce class | instantiated by `Inspection` | `InspectionProofs` |
| `LoaderSeeds` | the nonce words of an initialiser | extended by `Inspection`, which hands its results to `Discovery` | `InspectionProofs` |
| `RegistrationMapping` | exports to methods | extended by `Inspection` | `InspectionProofs` |
| `Inspection` | `inspect_jar` from class members to mappings | composes the three above | `InspectionProofs` |

`MC*` modules only give values to constants. Operators whose comment starts with
"Mutant of" are faulty variants of the definition that follows them: the same
definition with a plausible slip. They take no part in a specification; each is
there to show that a property can fail.

`TypeOK` is stated in each module with variables of its own as documentation of
them. No run spends a property on it; TLAPS proves it instead, for every module
but `RegistrationMapping`, of which only the parts that its invariant needs are
proved (`Handed`, `InProgress` and `Whole` of `InspectionProofs`).

### ScenarioSearch

`pc` is the position in the loops of `analyze_method`: `StartTrace`,
`BudgetSpent` and `Exhausted` are the head of the `while` (a scenario is popped
*before* the budget is tested, so the one popped last is lost), `EndTrace` the
return of `trace_scenario`, `EnqueueAlternate` and `SkipBranch` one turn of the
`for`, `RecordPath` its end, `Choose` the selection after the loops. A trace is a
sequence of branches, a completion flag and the length of its body. Any
trace in `Traces` may answer any scenario, because a wall-clock timeout can cut a
run anywhere. `max_by_key` returns the last maximum, so `IsBest` does.

### ScenarioTrace

While the search waits at `trace`, a processor runs a `method`: a graph of
conditional jumps with a rule for when each falls through, what it emits and
which of its outcomes `force_condition` inverts. Actions are the cases of
`handle_conditional` (unknown, natural, forced), the exits, the hook's
instruction limit and the clock. `ReplaysParent` is the heart of the design: a
child path is its parent up to the flipped branch, or was cut before it. The set
of queued scenarios compares lists, so that predicates found in two orders are
traced twice and use up the budget twice; `RepeatsShowNothing` says that this is
all it costs.
`BothSidesExecuted` says that a search with budget left has really driven the
processor both ways, except where the force is inverted.

### ConditionCodes, BranchForcing and ShadowValues

The four flags are exact and operands are `Width`-bit words. The
hook sees a jump before the processor executes it: `NaturalJump` records
`actual_condition`, `ForcedJump` records the desired outcome and writes flags,
and `branch.executed` is what the processor then does. `Means` states the x86
meaning of each jump on operands, apart from the flags. A comparison of unknown
values makes `handle_conditional` return early (`UnknownJump`).

`BranchForcing` lets any comparison and any arithmetic happen. `ShadowValues`
executes instructions, each with what `shadow_step` does to the expressions.
Operands are whole registers, their parts, immediates and two words of the stack;
a part is all but the top bit of a word, and `Forms` are the ways in which an
instruction writes its destination (the whole, zero- or sign-extended, or the part
alone), which the shadow does not tell apart. What bit operations and shifts
compute is a constant, `Bits`. An expression is represented by the word it
denotes, so that "the text is right" is an equation between `shadow` and `regs`;
a stub's text is read at the moment of the answer. `misled` is a history of the
registers whose expression comes from something `shadow_step` does not follow,
each named in the comment of `ShadowTruthful`: an unlisted instruction, a
conditional move that did not move, a part whose extension, truncation or upper
bits change the word, a displacement or an unknown register in `lea`, a load from
below its base or from a slot overwritten since, `imul` with three operands, a
negative immediate, and the text of `ExceptionCheck`. The property says that
there is no other way to go wrong. `ConditionTruthful` ties the comparison
recorded with a jump to the jump: Java reads every order as signed (`Shown`), so
unsigned jumps are exact only for operands of equal sign, and a comparison of
parts only if they have lost nothing (`Sound`). Whatever changes the flags in
between leaves the comparison pending: `operands` is the history that says whose
the flags are. The SSE arithmetic in the list of `shadow_step` is left out,
because the vector registers are looked up by names that nothing is stored under
and their expressions are always unknown. With `pending` reduced to known or
unknown the module implements `BranchForcing`.

### TraceRun

`place` is what the next address holds. The hook counts an instruction before it
looks at it and never counts a stub; Unicorn counts both. `Timeout` and
`EngineLimit` may strike between any two instructions; `EngineFails` is `emu_start`
returning an error that no hook saw, such as a CPU exception. `SilentReturn` is Unicorn
stopping at the end address without calling the hook; the program handles both,
which is why capturing twice is a hazard. `LateReturn` and `Verdict` are the code
after `emu_start`.

### SyntheticHeap

Words have the modulus `Modulus` and wrap where a release build does;
`calloc` and `make_handle` saturate. Handles and blocks share the bump pointer;
only `allocate` tests the bound.

### JniRecovery

A statement holds the expressions it mentions, as names, never as text.
`calls` is a history of what the target really passed, and `rax` keeps the word,
the shadow text and, as history, what the word means and whether the target left
another text with it. A word that the target moves to `RDX` or `RAX` may come with
no text, its own, or a stale one (`Held`), as `ShadowValues` shows it can; any
stale text stands for all, and the last answer's is taken. `Receiver` and `Target`
look at the shadow of `RDX` before the handle, as the code does. `Frame` lays the
arguments out as the convention says: a nonvirtual call has the method ID in `R9`,
a construction from a list a pointer. `Return` is `capture_return`, for a value a
stub left in `RAX` or one the target put there. The target passes at most two
arguments, one in `R9` and one on the stack, and the words in the home area are
arbitrary. Slots without a branch and calls through unknown method IDs
(`Unlisted`, `CallUnknown`) answer 0 and leave no statement, as in the code. Left
out are the class named in `new` and `throw new`, and the special wording of
single methods (`append`, `out`, `currentTimeMillis`). The name of a field stands
for all its objects: `GetObjectField` and the reads of int and long fields drop the
object from the text, which no property contradicts.

### ControlFlow

The linear decode ends at the limit, at an invalid instruction or at the end of
the function. `Scan` is the pass that finds leaders, blocks and back-edges;
`Visit` and `SkipVisited` are one turn of the breadth-first loop, in which each
address is visited at most `MaxVisits` times. An indirect branch is followed as
if it fell through: the code does so.

### JniOrigins

The pass (`known`) reads instructions in address order; the processor
(`machine`) executes them in the same order as long as no jump is taken, is
`away` while the pass reads skipped code, and arrives with anything at code that
stands behind a return (`Entered`). Stack slots are named by base register and
displacement, so one word may have two names (`Aliases`). The pass looks at neither
index register nor width (`MoveInexact`, `StoreInexact`, `IndirectCall` with
`indexed`), keeps what it knows of a callee's home area (`HomeArea`), and does not
see a call through a register (`RegisterCall`) or a tail jump (`TailCall`).
`strayed` is the history of places where the two may differ, each for a reason the
comment of `OriginsAgree` lists. A target that uses RBP for something else than
its frame is left out.

### InputIntake and CommandLine

A file is a sequence of blocks and another process may overwrite, append or
truncate at any moment, at most `MaxWrites` times. A member's
declared and actual sizes differ freely. The hash is taken to be injective.
`CommandLine` puts the argument checks in front, and behind it the two writes with
their failures. Paths are compared as text, and `Node` says which
file a path names. `disk` holds the products; the contents of the input are
`file` of `InputIntake`, and a write to the input's node shows in `disk`.

### Discovery, LoaderSeeds, RegistrationMapping and Inspection

A class is what `inspect_jar` looks at: whether it parses, which resources it
names, whether it has a loader method, whether its name says so, and its class
initialiser. `ExactPairs`, `LoaderPairs` and `Candidates` are the three rounds of
evidence. `LoaderSeeds` walks the text of an initialiser as `all_put_int_values`
does, over jumps as over any other instruction, beside a Java stack machine that
follows them (`Run` has two successors at a conditional jump) and says what
`putInt` is really passed. The two agree if the run executes each `putInt` of the
text once, in that order, with the constant the text pushes right before it
(`InPlace`, `Direct`), whatever is pushed, called, popped and jumped over in
between (`NonceAsPut`). Outside that condition they do not: the words on a branch
not taken or in a loop are counted as they stand in the text, and a `putInt` whose
argument is computed takes a constant still pending. The instance contains such
initialisers; the code accepts their nonce all the same.

In `RegistrationMapping` `cursor` walks the exports; `attempted` is
`mapped_classes`, which gets a name before anything else about the export is
checked. A stub's `lea` targets become `targets`; methods take them by position.
The addresses seen are remembered per stub, so two classes may share one, and do
in the instance: `EachMappedOnce` speaks of the methods of one class.
The stable sort of the mappings is stated by what it does: a permutation `order`
that leaves names in order and, under one name, positions in order (`ByName`).
Assumed of an image: `.pdata` begins are distinct and sections do not overlap.
The code does not check the latter; images with overlapping sections are not
Windows-loadable.

`Inspection` runs one after the other: the classes that `Discovery` parsed become
the inventory of the mapping, the image is whatever the payload holds, and both
lists of warnings make up the report's. `NothingLostSilently` is a property of
the composition only: a class member can be lost in parsing or in mapping, which a
warning names, or behind a later member of the same name, which none does.

## 3. Runs

| run | properties | instance and why it is enough |
|---|---|---|
| `ScenarioSearch` | `SearchComplete` `Observed` `BreadthFirst` `BudgetExact` `NoBodyLost` | three jumps, twenty traces (none, one, two branches, a repeated jump, plumbing; four outcomes), depth 2 of 3 addresses, budget 4: both limits are hit. About 420 000 states |
| `ScenarioTrace` | `ReplaysParent` `RepeatsShowNothing` `BothSidesExecuted` `AnalysisEnds` | six methods: cascaded ifs with a trap, two independent ifs, a loop, an endless loop, plumbing and unknown values, an inverted jump. Budget 7 exceeds what depth 2 can queue for some methods (the independent ifs end after five complete paths, two of which force the same two outcomes) and not for others |
| `ShadowValues` | `ShadowTruthful` `ConditionTruthful` `JumpsByOperands` `OnlySignedForcingFails` `ImplementsForcing` | programs of three instructions over two registers of two bits, parts of one bit, two words of stack, a positive and a negative immediate, all ten jumps: enough for an expression to be built, compared or overwritten and jumped on, for every combination of carry, overflow and sign, and for each cause in `misled`. About 174 000 states; the theorems lift the bounds |
| `BranchForcingSigned` | `RecordedIsExecuted` (violated) | `BranchForcing` alone with 2 bits |
| `TraceRun` | `CompletedIffReturned` `ReasonTruthful` `Ends` | limit of 6 instructions: every mix of stubs and code reaches every stop, and a failure of the engine, at the same instant |
| `SyntheticHeap` | `Disjoint` `OnlyWrappedGranted` `HandlesKeepMeaning` | a heap of four units, words modulo 1024, sizes at each boundary and products that saturate |
| `ControlFlow` | `EverythingVisited` `NothingInvented` `NoHiddenLoop` | every layout of five addresses over the instruction kinds; 4 decoded instructions, 6 states, 2 visits: each limit bites in some layouts and not in others |
| `JniOrigins` | `OriginsAgree` `SitesExact` | four instructions, a volatile and a preserved register, three operands of which `[rbp]` is one word with `[rsp+32]` or, in the other frame, with `[rsp]`, which is home area: the environment is dereferenced and called through, or saved, lost to a call or an alias and loaded again. About 214 000 states |
| `JniRecovery` | `DeclaredBeforeUse` `EffectsKept` `ReceiverAndFirstArgument` `ReturnFaithful` | four handles, two calls and a return, with any stale text in `RDX` and `RAX`: an object can be made, then used or returned; the method ends after its last call. About 2.4 million states |
| `JniRecoveryArguments` | `ArgumentsNamed` (violated) | methods with two parameters, five handles |
| `CommandLine` | `LimitUnlessArchiveGrew` `IdentityOfQuietInput` `PayloadWhole` `OutputsInPlace` | files of up to 4 blocks against a limit of 2, two writes: one between stat and hash, one after; five paths for three files, two of them second spellings. About 3.3 million states |
| `Inspection` | `NoRivalLoader` `GuessIsForced` `NonceAsPut` `InferredStopsShort` `EachMappedOnce` `NothingLostSilently` | every archive of up to three classes of nine kinds, two resources; initialisers of up to four instructions with jumps either way, runs of up to six, one nonce word after one key word; images with two stubs, three layouts of runtime functions, missing code, repeated, forwarded and foreign exports. About 4.1 million states |

**Fairness.** Liveness is checked under weak fairness of the whole next-state
relation (`FairSpec` of `TraceRun`, `FairTraceSpec` of `ScenarioTrace`). The code
runs on one thread with no waiting: a loop body that can run, runs, and a
call to the emulator returns because the engine has an instruction count and a
timeout. No single action is assumed fair: in `ScenarioTrace` the clock never has
to strike, and the analysis ends by the instruction limit alone.

**Deadlock** is checked except in `ShadowValues`, `JniOrigins`, `JniRecovery` and
`JniRecoveryArguments`: there the next instruction or call is the target's choice,
it may make none, and the bounds end the behaviours.

## 4. Divergences

Two runs are violated. Both follow the code, and quote what it contradicts:

* `BranchForcingSigned` (`src/dynamic.rs:1533`): `force_condition` has two flag
  images for the signed jumps, and both of them mean "less" (`SF` differs from
  `OF`). `jg` and `jge` forced to fall through and `jl` and `jle` forced to be
  taken are therefore honoured; `jg` and `jge` forced to be taken (line 1533) fall
  through, and `jl` and `jle` forced to fall through (line 1536) are taken, while
  `handle_conditional` records the desired outcome (lines 717-718).
  `OnlySignedForcingFails` shows that this is the only way a record can be wrong;
  `ForceHonoured` and `ForceInverted` prove both halves for any flags.
* `JniRecoveryArguments` (`src/dynamic.rs:1173`): stack arguments are read at
  `[RSP+0x10]`, inside the home area, rather than at `[RSP+0x28]`.
  `ReceiverAndFirstArgument` is what does hold.

Others are isolated by properties that hold, which name the exception:

* A request within 15 bytes of 2^64 wraps to zero in `allocate`
  (`src/dynamic.rs:1246`) and is granted: `OnlyWrappedGranted` shows that no
  other request beyond the heap is.
* An archive that grows after its size was checked is read whole
  (`src/archive.rs:34`), unlike a PE: `LimitUnlessArchiveGrew`.
* The hash and the size reported are those of the first read; if another process
  writes before the second (`src/analyzer.rs:437`), the report names the hash of
  other bytes than those analysed. `IdentityOfQuietInput` holds of inputs nobody
  writes to.
* A class that does not parse is skipped with a warning, and the others may still
  lead to a guessed resource, although `README.md:197` says that malformed data
  returns an error instead of selecting a guessed payload. `GuessIsForced` and
  `NoRivalLoader` range over the classes that parsed.
* What `shadow_step` follows inexactly, listed above for `misled`:
  `ShadowTruthful`.
* Unsigned jumps are printed with signed operators and `test` as a comparison
  of a register with itself: `ConditionTruthful`.
* Comparisons of parts of registers are printed with the whole registers, and a
  comparison stays pending when other instructions change the flags:
  `ConditionTruthful`.
* A call with an index register is reported under the slot of its displacement; a
  call through a register or by a tail jump is not reported
  (`src/emulator.rs:161`): `SitesExact`.
* A nonvirtual call is rendered with its method ID as first argument, and a text
  left in the shadow of `RDX` with another object takes the place of the receiver
  (`src/dynamic.rs:965`, `src/dynamic.rs:1112`): `ReceiverAndFirstArgument`.
* The text of `ExceptionCheck` is true where the answer is 0, a stale text in the
  shadow of `RAX` is returned as it is, and a floating result is looked for in a
  register no stub writes: `ReturnFaithful`.
* The nonce of an initialiser that skips, repeats or computes words is not the one
  it puts (`src/loader_seeds.rs:137`): `NonceAsPut`.
* A file given under two spellings can be overwritten: `OutputsInPlace`.
* Of two members with one class name only the later is mapped, without a warning:
  `NothingLostSilently`.

Five are described only, because nothing in the code bears on them:

* `loader_nonce` (`src/loader_seeds.rs:109`) may read another class than the
  selected loader. `Discovery` has the step; no property ties the two.
* Boolean, int and long calls appear where their value is used rather than where
  they happen (`src/dynamic.rs:1017`).
* The call site of a JNI event is read one word too high (`src/dynamic.rs:1187`).
* A run that spent the heap and went on to be stopped by something that leaves no
  reason of its own is reported with the heap's (`src/dynamic.rs:1248`):
  `ReasonTruthful` counts this as true of the run, though the heap did not stop it.
* A method that has an address but no boundary that can be inferred gets an empty
  analysis without a warning (`src/analyzer.rs:341`): `NothingLostSilently` is about
  classes, methods and addresses, not about what the analysis found.

## 5. Proofs

All theorems are for every value of the constants under the assumptions that the
modules name: `ConstantsAssumption`, `TraceAssumption` (search), `BudgetAssumption`
(one run), `ForcingAssumption`, `HalfAssumption`, `ShadowAssumption` (forcing and
shadowing), `HeapAssumption`, `RecoveryAssumption` (handles and JNI calls),
`FlowAssumption`, `OriginAssumption`, `ElsewhereAssumption` (static analysis),
`LimitsAssumption`, `PathsAssumption` (intake and command) and
`InspectionAssumption`, which contains that of `Discovery`, with
`MappingAssumption`. TLC evaluates each of them for the instances of the runs.

The theorems are of four kinds: `Spec => []Inv`; action properties; one refinement
(`ShadowValues` implements `BranchForcing`, where instructions map to other
steps); and descents, which say that each step uses something up. `ForceHonoured`
and `ForceInverted` are facts about operators; all others are about behaviours.
Every safety property and the refinement of a passing run is the statement of a
theorem. Where one module drives or extends another (`ScenarioTrace` and
`ScenarioSearch`, `CommandLine` and `InputIntake`, `Inspection` and `Discovery`) the
steps are the other's by construction; that is a lemma where it is used, not a
result.

### The search

* **ScenarioSearchProofs.** `Accounted` says where every scenario ever queued is:
  waiting, recorded, in hand, or dropped by the spent budget; `Distinct` that it
  is in one of these places only. `SearchComplete` is not inductive, because the
  branches of the path in hand are half expanded: `Expanded` says which part has
  been done. `BreadthFirst` needs `Layered`: waiting scenarios are sorted and
  differ in depth by at most one. `Observed` needs `Derived`, which speaks
  of waiting scenarios too, `NoBodyLost` the fact that the result is the summary
  of a chosen path (`Reported`).
* **ScenarioTraceProofs.** What the search guarantees for arbitrary traces holds
  for these (`StepsSearch`). The rest is about two
  emulations of one method: a parent and the child that flips its `n`-th branch.
  Neither has a state the other could be compared with, because the child runs
  when only the parent's record is left. `Covers` therefore describes the
  parent by the set of configurations it may have been in; as long as the
  child has recorded fewer than `n` branches it is in that set (`Inside`), since
  the emulation is deterministic and the two sets of predicates agree until the
  flip. `Tracking` states this of the child under way, `Past` that each recorded
  path is the beginning of such an emulation, `Counted` that no occurrence of a
  jump is recorded twice, without which the flip could strike twice.
  `BothSides` follows from `ReplaysParent`, `CompleteSearch` and `Faithful`, the
  relation between what is recorded and where the processor went. `RepeatsAlike`
  uses the same sets: what an emulation does depends on its predicates as a set, so
  two orders of one set share their configurations.

### Within a trace

* **TraceStateProofs** (`TraceRun`). `Counting` splits Unicorn's count into
  instructions and stubs, which is why the engine's count can only strike without
  the hook's after stubs, and an unnamed stop is that or a failure of the engine;
  `Undecided` says nothing is concluded while the processor runs
  and `Halted` what is known between the engine's return and the verdict.
* **TraceStateProofs** (`SyntheticHeap`). `Below` puts every handle and every sound
  block below the bump pointer; `Granted` bounds what rounding does modulo the word
  size. `HandlesKeepMeaning` is an action property from the same invariant.
* **ShadowValuesProofs** (`ConditionCodes`). The forced flags are computed case by
  case (`ForceHonoured`, `ForceInverted`), with `LessValues` for the two images
  written for signed jumps. `FlagsMean` is the arithmetic behind natural jumps:
  after a comparison each mnemonic's flag test is its meaning on the operands, at
  any width.
* **ShadowValuesProofs.** `ShadowTruthful` with `Typed` is inductive, one lemma
  per kind of instruction; each operand is `Right` (`AnyRead`), and `LeaRight`
  is the arithmetic of `lea` modulo the word. `ConditionTruthful` is about a
  jump that may come long after its comparison: `PendingTruthful` says what a
  pending comparison still knows while the flags are its own, `PartMeans` that
  parts which lost nothing are ordered as their registers, `Fresh` that the
  operands in the history and the flags agree. `Refinement` maps each
  instruction to the step of `BranchForcing` it is, or to a stutter; `JumpsMean`
  and `SignedDefectIsolated` are proved of the detailed module. `TypeCorrect`
  covers both modules.
* **JniRecoveryProofs.** The three properties of the body are not inductive: a
  statement written later may mention any handle's text. `Nameable` says that
  whatever a handle or `RAX` can put into a statement is declared already,
  `Numbered` that the next name is new, `Linked` and `Passed` tie statements to
  calls and calls to handles, `RaxSound` says when text and meaning of `RAX` are
  the same, whatever the shadow held before the last stub, and `Open` that nothing
  follows the return. `Added` says what one more statement has to satisfy (`Says`,
  `Counts`) for the body to keep its properties, and one lemma per kind of call
  shows it; `Framed` reads the arguments back from where the convention put them.
  The return is recorded as a call too, which is why the bound on `calls` has one to
  spare.

### Static analysis

* **StaticAnalysisProofs** (`ControlFlow`). `Frontier` states the search argument:
  whatever follows a visited address is visited, waiting or accounted for by the
  budget. `Scanned` relates leaders and loops to the decoded code.
* **StaticAnalysisProofs** (`JniOrigins`). `OriginsAgree` and `SitesExact` are
  inductive with the types; the argument is one lemma for writes to a register
  (`StepKeeps`), one for each kind of store, and one for what a call leaves
  (`CallKeeps`), each with the case of a processor that is away.

### The program around it

* **CommandLineProofs.** `Quiet` says that without external writes the hash and
  the bytes are prefixes of one file whose length was measured first; `Bounded` and
  `Whole` follow a PE and a member to acceptance. `Staged` describes the disk at
  each stage of the command.
* **InspectionProofs** (discovery). `Weighed` says that every member looked at is
  parsed or skipped, in order; `Chosen` that the pair is backed by a kind of
  evidence, from which the three rounds give `NoRivalLoader` and `GuessIsForced`.
  `NonceAsPut` compares the walk over the text with a run of the machine, which
  need not meet the same instructions: `Agree` says that as long as every `putInt`
  was in place, the words put are those the walk has seen up to the last one
  (`AgreeStep`), and `SeenIsPut` that nothing is added behind it. The library's
  induction theorems cannot be used here, so `Climb` takes the least number where
  a claim about it fails, which exists because `<` is well-founded on `Nat`
  (`Least`); `SeenIs` and `RanIs` show in the same way that the two recursive
  functions are what their definitions say.
* **InspectionProofs** (mapping). `InProgress` and `Whole` follow the methods of
  a class to its mapping, `BoundaryStops` is the arithmetic of an inferred
  function's end, `MappingSound` is what is never lost from a mapping made
  (`StaysSound`). `EachMappedOnce` needs that a name is `attempted` before it is
  mapped. `NothingLostSilently` joins `Weighed`, which says that a class that is
  not in the inventory has a warning, to `Reported`, which says so of a class in
  the inventory that is not mapped.

### What ends, and what is only model-checked

Liveness under fairness is out of reach of these proofs. What is proved is
the half that could go wrong, that nothing goes on for ever:

* `RunDescends`: a run has at most `MaxInstructions + 3` steps.
* `AnalysisDescends` of `StaticAnalysisProofs`: an analysis has at most as many
  steps as the function has addresses, plus three for each state of the search
  and five.
* `SearchDescends`: each step of the search spends budget or moves on within its
  turn of the loop, in the lexicographic order of what is left to trace, the stage
  of the turn and the branches not yet handled. All three are natural numbers, so
  the order has no infinite descent.
* `AnalysisDescends` of `ScenarioTraceProofs`: every step of the composition is
  such a step or one of the emulation it waits for, whose instructions are counted.

With them `Ends` and `AnalysisEnds` are reduced to the statement that a step is
always possible before the end, that is to `ENABLED` and to fairness; this half,
and the conclusion, TLC checks. Nothing else is only model-checked.

## 6. Not modelled

* Parsing of class files, PE headers and descriptors: pure functions of their
  input; `Discovery` and `RegistrationMapping` start from their results.
* The key, the keystream address and its length, which are byte patterns searched
  in x86 code, and the arithmetic of ChaCha20: neither has a state to explore.
* Report and Java rendering, the JNI name table, the limits: formatting and
  constants.
* The literal text of statements (string literals, special spellings such as
  `System.out`), the list of JNI events, the values of fields, the verdict that a
  condition is plumbing because of its words.
* Member names with backslashes, `SelfTest`.
* Unicorn, the processor, the Java machine and the target itself: `external`
  entries of the map state what the program relies on.
