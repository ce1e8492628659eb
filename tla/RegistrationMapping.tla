------------------------ MODULE RegistrationMapping ------------------------
(***************************************************************************)
(* From loader exports to native method addresses: build_mappings and       *)
(* infer_function_boundary (src/src/analyzer.rs) with the parts of          *)
(* src/src/pe.rs they rest on, and the warnings inspect_jar adds after them. *)
(*                                                                          *)
(* An image is abstracted to its exports, its runtime functions, its        *)
(* sections and the addresses that a loader stub's lea instructions name.   *)
(* Class names are numbers in the order of the names.                       *)
(***************************************************************************)
EXTENDS Integers, Sequences, SequencesExt

CONSTANTS
  Names,        \* internal class names
  Addresses,    \* RVAs, 0..n
  Images,       \* PE images to be mapped
  Inventories,  \* sequences of parsed classes
  MaxInferred   \* longest inferred function (1 MiB in the code)

\* class is what decode_jni_export_class makes of the export's name, 0 if nothing.
Export   == [class : Names \union {0}, rva : Addresses, forwarded : BOOLEAN]
Function == [begin : Addresses, end : Addresses]
Section  == [lo : Addresses, hi : Addresses, executable : BOOLEAN]

\* stub[a] lists the targets of the lea instructions of the function at a; backed
\* are the functions whose code lies in the file.
Image == [exports : Seq(Export), functions : SUBSET Function, sections : SUBSET Section,
          backed : SUBSET Addresses, stub : [Addresses -> Seq(Addresses)]]

\* protected is the number of native methods other than $jnicLoader.
JavaClass == [name : Names, protected : Nat, loader : BOOLEAN]

ASSUME MappingAssumption ==
  /\ Names \subseteq Nat \ {0}
  /\ Addresses \subseteq Nat
  /\ Images \subseteq Image
  /\ Inventories \subseteq Seq(JavaClass)
  /\ MaxInferred \in Nat
  /\ \A image \in Images :
       /\ \A f, g \in image.functions : f.begin < f.end /\ (f.begin = g.begin => f = g)
       /\ \A s, t \in image.sections :
            s.lo < s.hi /\ (s # t => s.hi <= t.lo \/ t.hi <= s.lo)

VARIABLES
  image, classes,
  dynamicMode,  \* AnalysisMode::Dynamic
  pc,        \* "exports", "methods", "report", "mapped" or "failed"
  cursor,    \* exports looked at
  attempted, \* mapped_classes: names some export was tried for
  current,   \* index in classes of the class being mapped
  targets,   \* its registration targets
  methods,   \* its methods so far
  mappings,
  warnings   \* set of <<kind, name>>

vars == <<image, classes, dynamicMode, pc, cursor, attempted, current, targets,
          methods, mappings, warnings>>

None == [begin |-> 0, end |-> 0]

Method  == [rva : Addresses \union {-1}, function : Function \union {None},
            analysed : BOOLEAN, dynamic : {"off", "unavailable", "run"}]

Mapping == [name : Names, export : Nat, discovered : Nat, methods : Seq(Method)]

Init == /\ image \in Images
        /\ classes \in Inventories
        /\ dynamicMode \in BOOLEAN
        /\ pc = "exports"
        /\ cursor = 0
        /\ attempted = {}
        /\ current = 0
        /\ targets = <<>>
        /\ methods = <<>>
        /\ mappings = <<>>
        /\ warnings = {}

-----------------------------------------------------------------------------
ExportRvas == {image.exports[i].rva : i \in DOMAIN image.exports}

InSection(a, s) == s.lo <= a /\ a < s.hi

Executable(a) == \E s \in image.sections : InSection(a, s) /\ s.executable

FunctionAt(a) == {f \in image.functions : f.begin = a}

\* scan_registration_targets: executable, not an export, and each address once.
Registers(a) == Executable(a) /\ a \notin ExportRvas

Register(found, a) ==
  IF Registers(a) /\ ~Contains(found, a) THEN Append(found, a) ELSE found

Scanned(leas) ==
  LET found[n \in 0..Len(leas)] == IF n = 0 THEN <<>> ELSE Register(found[n - 1], leas[n])
  IN found

Scan(leas) == Scanned(leas)[Len(leas)]

\* Mutant of InferredEnd: the next function is not asked for.
InferredEndOfSection(a, s) == s.hi

\* The end of an address that .pdata does not list: the next runtime function, or
\* the end of its section.
InferredEnd(a, s) ==
  LET begins == {f.begin : f \in {g \in image.functions : g.begin > a}} \union {s.hi}
  IN CHOOSE e \in begins : e <= s.hi /\ \A other \in begins : e <= other

\* infer_function_boundary.
Boundary(a) ==
  IF FunctionAt(a) # {} THEN FunctionAt(a)
  ELSE {[begin |-> a, end |-> InferredEnd(a, s)] :
          s \in {t \in image.sections :
                   InSection(a, t) /\ t.executable /\ InferredEnd(a, t) - a <= MaxInferred}}

\* class_by_name is collected from the classes: the last one of a name stays.
Named(name) == {i \in DOMAIN classes : /\ classes[i].name = name
                                      /\ \A j \in DOMAIN classes :
                                           classes[j].name = name => j <= i}

-----------------------------------------------------------------------------
Decodes(e) == ~e.forwarded /\ e.class # 0

\* An export that is no loader's, or whose class some earlier export stood for.
SkipExport ==
  /\ pc = "exports"
  /\ cursor < Len(image.exports)
  /\ LET e == image.exports[cursor + 1] IN ~Decodes(e) \/ e.class \in attempted
  /\ cursor' = cursor + 1
  /\ UNCHANGED <<image, classes, dynamicMode, pc, attempted, current, targets, methods,
                 mappings, warnings>>

\* Mutant of TryExport: a class may be mapped by every export of its name.
TryExportAgain(e) ==
  /\ pc = "exports"
  /\ cursor < Len(image.exports)
  /\ e = image.exports[cursor + 1]
  /\ Decodes(e)
  /\ cursor' = cursor + 1
  /\ attempted' = attempted \union {e.class}
  /\ UNCHANGED <<image, classes, dynamicMode>>

\* The name counts as mapped before anything is known of its class.
TryExport(e) ==
  /\ pc = "exports"
  /\ cursor < Len(image.exports)
  /\ e = image.exports[cursor + 1]
  /\ Decodes(e) /\ e.class \notin attempted
  /\ cursor' = cursor + 1
  /\ attempted' = attempted \union {e.class}
  /\ UNCHANGED <<image, classes, dynamicMode>>

Unmappable(e) ==
  \/ /\ Named(e.class) = {}
     /\ warnings' = warnings \union {<<"no class", e.class>>}
  \/ /\ \E i \in Named(e.class) : classes[i].protected = 0
     /\ warnings' = warnings
  \/ /\ \E i \in Named(e.class) : classes[i].protected > 0
     /\ FunctionAt(e.rva) = {}
     /\ warnings' = warnings \union {<<"no boundary", e.class>>}

GiveUpExport ==
  \E e \in {image.exports[i] : i \in DOMAIN image.exports} :
    /\ TryExport(e)
    /\ Unmappable(e)
    /\ UNCHANGED <<pc, current, targets, methods, mappings>>

\* slice fails on a stub that the file does not hold, and `?' ends the analysis.
ScanFails ==
  \E e \in {image.exports[i] : i \in DOMAIN image.exports} :
    /\ TryExport(e)
    /\ \E i \in Named(e.class) : classes[i].protected > 0
    /\ FunctionAt(e.rva) # {}
    /\ e.rva \notin image.backed
    /\ pc' = "failed"
    /\ UNCHANGED <<current, targets, methods, mappings, warnings>>

ScanStub ==
  \E e \in {image.exports[i] : i \in DOMAIN image.exports} :
    /\ TryExport(e)
    /\ \E i \in Named(e.class) : classes[i].protected > 0 /\ current' = i
    /\ FunctionAt(e.rva) # {}
    /\ e.rva \in image.backed
    /\ targets' = Scan(image.stub[e.rva])
    /\ methods' = <<>>
    /\ pc' = "methods"
    /\ UNCHANGED <<mappings, warnings>>

\* The native function of the method that is next, if it has one.
Located == IF Len(methods) < Len(targets) THEN Boundary(targets[Len(methods) + 1]) ELSE {}

Rva == IF Len(methods) < Len(targets) THEN targets[Len(methods) + 1] ELSE -1

DynamicOf(available) == IF ~dynamicMode THEN "off" ELSE IF available THEN "run" ELSE "unavailable"

AddMethod(function, analysed) ==
  /\ pc = "methods"
  /\ Len(methods) < classes[current].protected
  /\ methods' = Append(methods, [rva |-> Rva, function |-> function, analysed |-> analysed,
                                 dynamic |-> DynamicOf(Located # {})])
  /\ UNCHANGED <<image, classes, dynamicMode, pc, cursor, attempted, current, targets, mappings>>

\* Methods are registered in the order of the stub: the nth target is the nth
\* protected method.  analyze_native fails where the code is not in the file.
MapMethod == \E f \in Located : f.begin \in image.backed /\ AddMethod(f, TRUE) /\ UNCHANGED warnings

NativeFails == \E f \in Located : /\ f.begin \notin image.backed
                                 /\ AddMethod(f, FALSE)
                                 /\ warnings' = warnings \union
                                      {<<"native skipped", classes[current].name>>}

NoFunction == Located = {} /\ AddMethod(None, FALSE) /\ UNCHANGED warnings

EndClass ==
  /\ pc = "methods"
  /\ Len(methods) = classes[current].protected
  /\ warnings' = IF Len(targets) # Len(methods)
                   THEN warnings \union {<<"count mismatch", classes[current].name>>}
                   ELSE warnings
  /\ mappings' = Append(mappings, [name |-> classes[current].name, export |-> cursor,
                                   discovered |-> Len(targets), methods |-> methods])
  /\ pc' = "exports"
  /\ UNCHANGED <<image, classes, dynamicMode, cursor, attempted, current, targets, methods>>

\* sort_by(internal_name), which is stable: the mapping that comes nth was order[n]th.
ByName(order) ==
  \A i, j \in DOMAIN mappings : i < j =>
    LET m == mappings[order[i]].name
        n == mappings[order[j]].name
    IN m < n \/ (m = n /\ order[i] < order[j])

SortMappings ==
  /\ pc = "exports"
  /\ cursor = Len(image.exports)
  /\ \E order \in Bijection(DOMAIN mappings, DOMAIN mappings) :
       /\ ByName(order)
       /\ mappings' = [i \in DOMAIN mappings |-> mappings[order[i]]]
  /\ pc' = "report"
  /\ UNCHANGED <<image, classes, dynamicMode, cursor, attempted, current, targets, methods, warnings>>

MappedNames == {mappings[i].name : i \in DOMAIN mappings}

\* Mutant of Unmapped: what an export was tried for is taken for mapped.
UnmappedUntried == {i \in DOMAIN classes : /\ classes[i].loader
                                           /\ classes[i].protected > 0
                                           /\ classes[i].name \notin attempted}

\* inspect_jar: a protected class with a loader method that has no mapping.
Unmapped == {i \in DOMAIN classes : /\ classes[i].loader
                                    /\ classes[i].protected > 0
                                    /\ classes[i].name \notin MappedNames}

ReportUnmapped ==
  /\ pc = "report"
  /\ warnings' = warnings \union {<<"not mapped", classes[i].name>> : i \in Unmapped}
  /\ pc' = "mapped"
  /\ UNCHANGED <<image, classes, dynamicMode, cursor, attempted, current, targets, methods, mappings>>

Terminated == pc \in {"mapped", "failed"} /\ UNCHANGED vars

Next == \/ SkipExport \/ GiveUpExport \/ ScanFails \/ ScanStub
        \/ MapMethod \/ NativeFails \/ NoFunction \/ EndClass
        \/ SortMappings \/ ReportUnmapped \/ Terminated

Spec == Init /\ [][Next]_vars

-----------------------------------------------------------------------------
TypeOK == /\ image \in Images
          /\ classes \in Inventories
          /\ dynamicMode \in BOOLEAN
          /\ pc \in {"exports", "methods", "report", "mapped", "failed"}
          /\ cursor \in 0..Len(image.exports)
          /\ attempted \subseteq Names
          /\ current \in 0..Len(classes)
          /\ targets \in Seq(Addresses)
          /\ methods \in Seq(Method)
          /\ mappings \in Seq(Mapping)
          /\ warnings \subseteq {"no class", "no boundary", "native skipped",
                                 "count mismatch", "not mapped"} \X Names

\* A class is mapped at most once and with all its methods, however many exports decode
\* to one name, fail on the way or find several classes that share it; no two methods of
\* a class share an address, and none has an export's (two classes may share one: the
\* addresses seen are remembered per stub); and the report lists mappings by name.
EachMappedOnce ==
  /\ \A i, j \in DOMAIN mappings : mappings[i].name = mappings[j].name => i = j
  /\ \A i \in DOMAIN mappings :
       \E c \in Named(mappings[i].name) : Len(mappings[i].methods) = classes[c].protected
  /\ \A m \in {mappings[i] : i \in DOMAIN mappings} :
       \A i, j \in DOMAIN m.methods :
         m.methods[i].rva # -1 =>
           /\ m.methods[i].rva \notin ExportRvas
           /\ m.methods[i].rva = m.methods[j].rva => i = j
  /\ pc = "mapped" => \A i, j \in DOMAIN mappings : i < j => mappings[i].name < mappings[j].name

\* A boundary that had to be inferred is a nonempty stretch of one executable
\* section, within the limit, that runs into no function .pdata knows.
InferredStopsShort ==
  \A m \in {mappings[i] : i \in DOMAIN mappings} :
    \A f \in {m.methods[i].function : i \in DOMAIN m.methods} \ (image.functions \union {None}) :
      /\ f.begin < f.end /\ f.end - f.begin <= MaxInferred
      /\ \E s \in image.sections : s.executable /\ s.lo <= f.begin /\ f.end <= s.hi
      /\ \A g \in image.functions : g.begin <= f.begin \/ g.begin >= f.end
=============================================================================
