---------------------------- MODULE MCInspection ----------------------------
(* A JAR with two .dat names, either of which may be missing, and classes     *)
(* with every kind of evidence; an image of ten addresses: stubs at 0 and 1,  *)
(* native code from 2 on, data from 8 on.                                     *)
EXTENDS Inspection

CONSTANTS payload, other

MCResources == {payload, other}

Member(refs, loader, named, clinit, name, protected) ==
  [parses |-> TRUE, refs |-> refs, loader |-> loader, named |-> named, clinit |-> clinit,
   name |-> name, protected |-> protected]

Malformed == [Member({}, FALSE, FALSE, FALSE, 1, 0) EXCEPT !.parses = FALSE]

\* A malformed class, plain ones, classes that mention a resource, and loaders by
\* method, by name and by both; two classes share the name 1.
MCClasses == { Malformed,
               Member({}, FALSE, FALSE, FALSE, 1, 3),
               Member({other}, FALSE, FALSE, TRUE, 2, 0),
               Member({payload, other}, FALSE, FALSE, FALSE, 2, 1),
               Member({}, FALSE, TRUE, TRUE, 2, 2),
               Member({payload}, FALSE, TRUE, TRUE, 1, 2),
               Member({}, TRUE, FALSE, TRUE, 2, 2),
               Member({payload}, TRUE, FALSE, TRUE, 1, 1),
               Member({payload, other}, TRUE, TRUE, TRUE, 1, 0) }

MCNames == 1..2
MCAddresses == 0..10
MCInventories ==
  UNION {[1..n -> {[name |-> c.name, protected |-> c.protected, loader |-> c.loader] :
                     c \in MCClasses}] : n \in 0..3}

Stub(a, class) == [class |-> class, rva |-> a, forwarded |-> FALSE]

\* Two loaders; one class twice; a name no class has; a forwarded and a foreign one.
MCExports == { <<Stub(1, 2), Stub(0, 1)>>,
               <<Stub(0, 1), Stub(1, 1)>>,
               <<Stub(0, 0), [class |-> 1, rva |-> 0, forwarded |-> TRUE], Stub(1, 1)>> }

F(begin, end) == [begin |-> begin, end |-> end]

\* Runtime functions, and the addresses whose code the file holds.
MCLayouts == { <<{F(0, 1), F(1, 2)}, 0..7>>, <<{F(0, 1), F(3, 5)}, 0..7>>,
               <<{F(0, 1), F(1, 2), F(4, 6)}, 0..7>>, <<{F(0, 1), F(1, 2)}, {0, 3}>> }

MCSections == { [lo |-> 0, hi |-> 8, executable |-> TRUE],
                [lo |-> 8, hi |-> 10, executable |-> FALSE] }

\* A stub that names data, an export and one address twice; one with two targets.
MCStubs == { <<<<8, 3, 0, 3, 2>>, <<4, 3>>>>, <<<<6>>, <<8, 3, 0, 3, 2>>>>, <<<<4, 3>>, <<6>>>> }

MCImages ==
  { [exports |-> e, functions |-> l[1], sections |-> MCSections, backed |-> l[2],
     stub |-> [a \in MCAddresses |-> IF a < 2 THEN s[a + 1] ELSE <<>>]] :
      e \in MCExports, l \in MCLayouts, s \in MCStubs }
=============================================================================
