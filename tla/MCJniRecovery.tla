---------------------------- MODULE MCJniRecovery ----------------------------
(* Negative numbers stand for words that are no handle.                      *)
EXTENDS JniRecovery

MCScalars == {-1}

\* Constructors with and without an argument; the stubs treat any other method as they
\* treat the first.
MCSignatures == { [parameters |-> <<"string">>, constructor |-> TRUE],
                  [parameters |-> <<>>, constructor |-> TRUE] }

MCTwoArguments == { [parameters |-> <<"string", "other">>, constructor |-> FALSE] }
=============================================================================
