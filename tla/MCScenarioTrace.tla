--------------------------- MODULE MCScenarioTrace ---------------------------
(* Methods that show each way a jump can behave.                             *)
EXTENDS ScenarioTrace, TLC

CONSTANTS ra, rb, rc

MCRva == {ra, rb, rc}

Plain(taken, next, from, emits) ==
  [known |-> TRUE, support |-> FALSE, emits |-> emits, takenFrom |-> from,
   inverted |-> {}, taken |-> taken, next |-> next]

Never == 9

\* if / if / assertion: the last jump traps on one side.
Cascade == [entry |-> ra,
            jumps |-> (ra :> Plain(rb, rc, 0, 1)) @@ (rb :> Plain("ret", rc, Never, 1))
                        @@ (rc :> Plain("ret", "trap", 0, 0))]

\* Two independent ifs in a row: the search ends with budget left.
Diamonds == [entry |-> ra,
             jumps |-> (ra :> Plain(rb, rb, 0, 1)) @@ (rb :> Plain("ret", "ret", Never, 1))
                         @@ (rc :> Plain("ret", "ret", 0, 0))]

\* A loop left at the second test, with an if in its body.
Loop == [entry |-> ra,
         jumps |-> (ra :> Plain("ret", rb, 1, 0)) @@ (rb :> Plain(ra, ra, 0, 1))
                     @@ (rc :> Plain("ret", "ret", 0, 0))]

\* A loop that never ends unless it is forced to, and a trap on one side of it.
Endless == [entry |-> ra,
            jumps |-> (ra :> Plain("ret", rb, Never, 1)) @@ (rb :> Plain("trap", ra, Never, 0))
                        @@ (rc :> Plain("ret", "ret", 0, 0))]

\* An exception check, a jump on an unknown value, then an application branch.
Plumbed == [entry |-> ra,
            jumps |-> (ra :> [Plain("trap", rb, Never, 0) EXCEPT !.support = TRUE])
                        @@ (rb :> [Plain("ret", rc, Never, 1) EXCEPT !.known = FALSE])
                        @@ (rc :> Plain("ret", ra, 1, 2))]

\* A signed loop test (jge): forcing it to be taken falls through.
SignedLoop == [Loop EXCEPT !.jumps[ra].inverted = {TRUE}]

MCMethods == {Cascade, Diamonds, Loop, Endless, Plumbed, SignedLoop}
=============================================================================
