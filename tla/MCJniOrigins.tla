----------------------------- MODULE MCJniOrigins -----------------------------
(* A volatile and a preserved register; [rsp] is in the home area, [rbp] is    *)
(* the same word as [rsp + 32] or, in another frame, as [rsp].  Slot 1 is      *)
(* reserved and has no name.                                                  *)
EXTENDS JniOrigins

CONSTANTS rcx, rbx

MCRegisters == {rcx, rbx}
MCVolatile  == {rcx}
MCKeys      == {<<"rsp", 0>>, <<"rsp", 32>>, <<"rbp", 0>>}
MCElsewhere == {[p \in Places |-> IF p = held THEN "table" ELSE "other"] : held \in Places}
=============================================================================
