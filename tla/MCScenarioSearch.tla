-------------------------- MODULE MCScenarioSearch --------------------------
(* Values for the constants of ScenarioSearch, small enough for TLC.        *)
EXTENDS ScenarioSearch

CONSTANTS ra, rb, rc

MCRva == {ra, rb, rc}

Jump(rva, occurrence, taken) ==
  [rva |-> rva, occurrence |-> occurrence, taken |-> taken, support |-> FALSE]

Plumbing(rva) == [rva |-> rva, occurrence |-> 0, taken |-> TRUE, support |-> TRUE]

\* No branch, one branch, two in a row, a loop that meets one branch twice, a
\* branch after an exception check, and the third address that fills a scenario.
MCBranches == { <<>>,
                <<Jump(ra, 0, FALSE)>>,
                <<Jump(ra, 0, TRUE), Jump(rb, 0, FALSE)>>,
                <<Jump(rb, 0, TRUE), Jump(rb, 1, FALSE)>>,
                <<Plumbing(ra), Jump(rc, 0, FALSE)>> }

\* Returned with nothing, with a short and with a long body, and a failed trace
\* with a body.
MCOutcomes == { <<TRUE, 0>>, <<TRUE, 1>>, <<TRUE, 3>>, <<FALSE, 2>> }

MCTraces == { [branches |-> x, completed |-> o[1], statements |-> o[2]] :
                x \in MCBranches, o \in MCOutcomes }
=============================================================================
