--------------------------- MODULE MCCommandLine ---------------------------
(* Two contents of a block suffice to tell a changed file from the hashed one. *)
(* One path is a second spelling of the input, another one of a product.      *)
EXTENDS CommandLine

CONSTANTS x, y
MCBlocks == {x, y}

MCPaths == {"jar", "./jar", "out", "./out", "java"}
MCNode == [p \in MCPaths |-> CASE p \in {"jar", "./jar"} -> 1
                               [] p \in {"out", "./out"} -> 2
                               [] OTHER -> 3]
=============================================================================
