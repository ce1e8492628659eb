----------------------------- MODULE Inspection -----------------------------
(***************************************************************************)
(* inspect_jar (src/src/analyzer.rs) from the class members of the JAR to   *)
(* the finished mappings: Discovery hands its parsed classes, and the image *)
(* found in the payload, to RegistrationMapping, whose warnings join its    *)
(* own.                                                                     *)
(***************************************************************************)
EXTENDS RegistrationMapping, LoaderSeeds

CONSTANTS Resources, Classes, MaxClasses  \* see Discovery

VARIABLES jar, dats, stage, next, parsed, skipped, selected, nonceFrom, nonce, direct, put

D == INSTANCE Discovery WITH dynamic <- dynamicMode, pc <- stage, classes <- parsed,
                             warnings <- skipped

ASSUME InspectionAssumption == /\ D!DiscoveryAssumption
                               /\ Ints \union {Words, Skip, MaxCode, MaxRun} \subseteq Nat

discovery == <<jar, dats, stage, next, parsed, skipped, selected, nonceFrom, nonce, direct, put>>
mapping   == <<classes, pc, cursor, attempted, current, targets, methods, mappings, warnings>>
inspected == <<discovery, mapping, image, dynamicMode>>

NoImage == [exports |-> <<>>, functions |-> {}, sections |-> {}, backed |-> {},
            stub |-> [a \in Addresses |-> <<>>]]

Start == /\ D!Init
         /\ image = NoImage
         /\ classes = <<>>
         /\ pc = "waiting"
         /\ cursor = 0
         /\ attempted = {}
         /\ current = 0
         /\ targets = <<>>
         /\ methods = <<>>
         /\ mappings = <<>>
         /\ warnings = {}

-----------------------------------------------------------------------------
Discover == /\ \/ D!ParseClass \/ D!Parsed
               \/ D!Select \/ D!SelectFails
               \/ D!Context \/ D!ContextFails
            /\ UNCHANGED <<mapping, image>>

\* The payload is read and decoded, and the PE found in it parses, or `?' returns.
Payload == /\ D!Payload
           /\ IF stage' = "failed" THEN UNCHANGED image ELSE image' \in Images
           /\ UNCHANGED mapping

\* What build_mappings looks at in a class.
AsMapped(c) == [name |-> jar[c].name, protected |-> jar[c].protected, loader |-> jar[c].loader]

BuildMappings == /\ stage = "found"
                 /\ pc = "waiting"
                 /\ pc' = "exports"
                 /\ classes' = [i \in DOMAIN parsed |-> AsMapped(parsed[i])]
                 /\ UNCHANGED <<discovery, image, dynamicMode, cursor, attempted, current,
                                targets, methods, mappings, warnings>>

MapExports == /\ \/ SkipExport \/ GiveUpExport \/ ScanFails \/ ScanStub
                 \/ MapMethod \/ NativeFails \/ NoFunction \/ EndClass
                 \/ SortMappings \/ ReportUnmapped
              /\ UNCHANGED discovery

Ended == /\ stage = "failed" \/ pc \in {"mapped", "failed"}
         /\ UNCHANGED inspected

Inspect == Discover \/ Payload \/ BuildMappings \/ MapExports \/ Ended

InspectionSpec == Start /\ [][Inspect]_inspected

-----------------------------------------------------------------------------
\* Properties of Discovery, kept by the whole inspection: no loader with a resource is
\* overridden or chosen between.
NoRivalLoader == D!NoRivalLoader

\* A resource the chosen class does not name is decoded only if nothing else fits.
GuessIsForced == D!GuessIsForced

\* The nonce is what the initialiser puts when it runs, if jumps neither skip, repeat nor
\* reorder its putInts and each is passed the constant pushed right before it.
NonceAsPut == D!NonceAsPut

\* Every class member of the JAR is accounted for in a finished report: its class is
\* mapped or warned about, has nothing to map, is no loader, or stands behind a later
\* member of the same class name, whose methods are the ones reported.  A mapping with
\* a method that has no address, or with an address that has no method, is named in a
\* warning.
NothingLostSilently ==
  pc = "mapped" =>
    /\ \A c \in DOMAIN jar :
         \/ c \in D!Elements(skipped)
         \/ jar[c].protected = 0 \/ ~jar[c].loader
         \/ <<"not mapped", jar[c].name>> \in warnings
         \/ \E i \in DOMAIN mappings :
              /\ mappings[i].name = jar[c].name
              /\ \/ Len(mappings[i].methods) = jar[c].protected
                 \/ \E later \in D!Elements(parsed) : later > c /\ jar[later].name = jar[c].name
    /\ \A i \in DOMAIN mappings :
         (\E n \in DOMAIN mappings[i].methods : mappings[i].methods[n].rva = -1)
           \/ mappings[i].discovered > Len(mappings[i].methods)
         => <<"count mismatch", mappings[i].name>> \in warnings
=============================================================================
