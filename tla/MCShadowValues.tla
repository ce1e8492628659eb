---------------------------- MODULE MCShadowValues ----------------------------
(* Two registers of two bits, whose part is one bit: the return register and *)
(* an argument.                                                             *)
EXTENDS ShadowValues, Bitwise

CONSTANTS rax, rcx

MCRegisters == {rax, rcx}
MCMnemonics == AllMnemonics
MCImages    == {[zf |-> FALSE, sf |-> TRUE, of |-> FALSE, cf |-> TRUE]}

\* Shift counts are taken modulo the width.
MCBits == [op \in BitOperations |->
            [l, r \in Word |->
              LET power == 2 ^ (r % Width) IN
              CASE op = "Xor" -> l ^^ r
                [] op = "And" -> l & r
                [] op = "Or"  -> l | r
                [] op = "Shl" -> (l * power) % Modulus
                [] op = "Shr" -> l \div power
                [] op = "Sar" -> (Signed(l) \div power) % Modulus]]
=============================================================================
