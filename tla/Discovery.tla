----------------------------- MODULE Discovery -----------------------------
(***************************************************************************)
(* The first half of inspect_jar (src/src/analyzer.rs): the classes of a    *)
(* JAR are parsed one by one, the loader class and its .dat resource are    *)
(* chosen from the evidence in them, and, in dynamic mode,                  *)
(* DynamicContext::new takes the ChaCha nonce from a loader class it looks  *)
(* up for itself (loader_nonce, src/src/loader_seeds.rs; LoaderSeeds has    *)
(* the walk over its initialiser).                                          *)
(***************************************************************************)
EXTENDS Integers, Sequences

CONSTANTS
  Resources,  \* names of .dat members, in normal form
  Classes,    \* class members a JAR may have
  MaxClasses, \* bound of the model: class members of the JAR
  Nonces      \* what class initialisers yield, see LoaderSeeds

\* What is looked at in a class member.  refs is dat_resources after
\* normalize_resource_name; loader is has_loader_method (a native method
\* $jnicLoader); protected counts the native methods other than that one; named is
\* the suffix /JNICLoader; clinit says whether there is a static initialiser.
Class == [parses : BOOLEAN, refs : SUBSET Resources, loader : BOOLEAN, named : BOOLEAN,
          clinit : BOOLEAN, name : Nat, protected : Nat]

DiscoveryAssumption == Classes \subseteq Class /\ MaxClasses \in Nat

VARIABLES
  jar,       \* the class members, in archive order
  dats,      \* the .dat members
  dynamic,   \* config.mode = AnalysisMode::Dynamic
  pc,        \* "parse", "select", "payload", "context", "found" or "failed"
  next,      \* class members parsed so far
  classes,   \* indices in jar of the parsed classes, in order
  warnings,  \* indices in jar of the members skipped with a warning
  selected,  \* the (class, resource) pair; <<>> if none
  nonceFrom, \* the class loader_nonce read, 0 if none
  nonce,     \* the words it took there
  direct,    \* history: a run of that initialiser puts the words one by one, in the order
             \* of the text, each pushed right before
  put        \* history: the words that run really puts there

nonceVars == <<nonceFrom, nonce, direct, put>>
vars == <<jar, dats, dynamic, pc, next, classes, warnings, selected, nonceVars>>

Elements(s) == {s[i] : i \in DOMAIN s}

Init == /\ jar \in UNION {[1..n -> Classes] : n \in 0..MaxClasses}
        /\ dats \in SUBSET Resources
        /\ dynamic \in BOOLEAN
        /\ pc = "parse"
        /\ next = 0
        /\ classes = <<>>
        /\ warnings = <<>>
        /\ selected = <<>>
        /\ nonceFrom = 0
        /\ nonce = <<>>
        /\ direct = TRUE
        /\ put = <<>>

-----------------------------------------------------------------------------
ParseClass == /\ pc = "parse"
              /\ next < Len(jar)
              /\ next' = next + 1
              /\ IF jar[next + 1].parses
                   THEN classes' = Append(classes, next + 1) /\ UNCHANGED warnings
                   ELSE warnings' = Append(warnings, next + 1) /\ UNCHANGED classes
              /\ UNCHANGED <<jar, dats, dynamic, pc, selected, nonceVars>>

\* "JAR does not contain a parseable class file".
Parsed == /\ pc = "parse"
          /\ next = Len(jar)
          /\ pc' = IF classes = <<>> THEN "failed" ELSE "select"
          /\ UNCHANGED <<jar, dats, dynamic, next, classes, warnings, selected, nonceVars>>

\* exact_pairs after sort and dedup: references that name a member.
ExactPairs == {p \in Elements(classes) \X dats : p[2] \in jar[p[1]].refs}

LoaderPairs == {p \in ExactPairs : jar[p[1]].loader}

Candidates == {c \in Elements(classes) : jar[c].loader \/ jar[c].named}

\* len() == 1.
Lone(S) == \E x \in S : S = {x}

\* Mutants of Evidence: any of the loaders; any of the candidates.
EvidenceOfLoaders ==
  IF Lone(ExactPairs) THEN ExactPairs
  ELSE IF LoaderPairs # {} THEN LoaderPairs
  ELSE IF Lone(Candidates) /\ Lone(dats) THEN Candidates \X dats ELSE {}

EvidenceOfCandidates ==
  IF Lone(ExactPairs) THEN ExactPairs
  ELSE IF Lone(LoaderPairs) THEN LoaderPairs
  ELSE IF Lone(dats) THEN Candidates \X dats ELSE {}

\* The pairs the three rules leave, the first rule with an answer deciding.
Evidence ==
  IF Lone(ExactPairs) THEN ExactPairs
  ELSE IF Lone(LoaderPairs) THEN LoaderPairs
  ELSE IF Lone(Candidates) /\ Lone(dats)
         THEN Candidates \X dats
         ELSE {}

Select == /\ pc = "select"
          /\ \E p \in Evidence : selected' = p
          /\ pc' = "payload"
          /\ UNCHANGED <<jar, dats, dynamic, next, classes, warnings, nonceVars>>

\* "no unambiguous loader class and .dat resource pair was found".
SelectFails == /\ pc = "select"
               /\ Evidence = {}
               /\ pc' = "failed"
               /\ UNCHANGED <<jar, dats, dynamic, next, classes, warnings, selected, nonceVars>>

\* The member is read and decoded, and the PE found in it parses, or `?' returns.
Payload == /\ pc = "payload"
           /\ pc' \in {IF dynamic THEN "context" ELSE "found", "failed"}
           /\ UNCHANGED <<jar, dats, dynamic, next, classes, warnings, selected, nonceVars>>

\* The parsed classes with a .dat reference and a static initialiser.
NonceClasses == {i \in DOMAIN classes : jar[classes[i]].refs # {} /\ jar[classes[i]].clinit}

\* loader_nonce takes the first of them and then asks whether it puts enough words.
\* No other step reads an initialiser, so its code is drawn here.
Context == /\ pc = "context"
           /\ \E i \in NonceClasses :
                /\ \A j \in NonceClasses : i <= j
                /\ nonceFrom' = classes[i]
           /\ \E found \in Nonces :
                nonce' = found.taken /\ direct' = found.direct /\ put' = found.put
           /\ pc' = "found"
           /\ UNCHANGED <<jar, dats, dynamic, next, classes, warnings, selected>>

\* "loader direct-buffer nonce not found", or another part of the state is not.
ContextFails == /\ pc = "context"
                /\ pc' = "failed"
                /\ UNCHANGED <<jar, dats, dynamic, next, classes, warnings, selected, nonceVars>>

Terminated == pc \in {"found", "failed"} /\ UNCHANGED vars

Next == \/ ParseClass \/ Parsed
        \/ Select \/ SelectFails
        \/ Payload
        \/ Context \/ ContextFails
        \/ Terminated

Spec == Init /\ [][Next]_vars

-----------------------------------------------------------------------------
TypeOK == /\ jar \in Seq(Class)
          /\ dats \subseteq Resources
          /\ dynamic \in BOOLEAN
          /\ pc \in {"parse", "select", "payload", "context", "found", "failed"}
          /\ next \in 0..Len(jar)
          /\ classes \in Seq(DOMAIN jar)
          /\ warnings \in Seq(DOMAIN jar)
          /\ selected = <<>> \/ selected \in (DOMAIN jar) \X Resources
          /\ nonceFrom \in 0..Len(jar)
          /\ nonceFrom # 0 => [taken |-> nonce, direct |-> direct, put |-> put] \in Nonces

\* The pair that is decoded was found in the JAR, and no class with a loader method
\* names another one: neither a class that merely mentions a .dat file nor the rule
\* for a lone candidate overrides, or chooses between, loaders with a resource.
\* Every class member was weighed, or has a warning that it could not be.
NoRivalLoader ==
  selected # <<>> =>
    /\ DOMAIN jar = Elements(classes) \union Elements(warnings)
    /\ selected[1] \in Elements(classes)
    /\ selected[2] \in dats
    /\ \A c \in Elements(classes), r \in dats :
         jar[c].loader /\ r \in jar[c].refs => selected = <<c, r>>

\* A resource that the chosen class does not name is decoded only if nothing else
\* could be meant: it is the only .dat member and no other class looks like a loader.
GuessIsForced ==
  selected # <<>> /\ selected[2] \notin jar[selected[1]].refs =>
    /\ dats = {selected[2]}
    /\ \A c \in Elements(classes) \ {selected[1]} : ~jar[c].loader /\ ~jar[c].named

\* The nonce is what the initialiser puts behind the key when it runs, if each putInt is
\* run once, in the order of the text, and is passed the constant pushed right before it:
\* then constants that other calls consume, or that stay pending across jumps and calls,
\* neither add a word nor shift the window, and jumps between the words do no harm.
NonceAsPut == nonceFrom # 0 /\ direct => nonce = put
=============================================================================
