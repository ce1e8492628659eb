---------------------------- MODULE MCControlFlow ----------------------------
(* All functions of five addresses over a choice of instructions.            *)
EXTENDS ControlFlow

Op(length, flow, target) == [length |-> length, flow |-> flow, target |-> target]

\* Straight code of both lengths, a call, a jump to the entry, into the middle or
\* out of the function, both kinds of branches, a return and no instruction.
MCInstructions ==
  {Op(1, "Next", 0), Op(2, "IndirectBranch", 0), Op(1, "Return", 0), Op(1, "invalid", 0),
   Op(1, "UnconditionalBranch", 1)}
    \union {Op(1, "ConditionalBranch", t) : t \in {0, 2, End}}

MCLayouts == [Address -> MCInstructions]
=============================================================================
