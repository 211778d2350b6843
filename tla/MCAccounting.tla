---------------------------- MODULE MCAccounting ----------------------------
(* Instances of Accounting: every opcode, followed by a short tail.         *)
EXTENDS Accounting

CONSTANTS
    First,   \* opcodes at address 0
    Second   \* opcodes at address 3

NOP == \h00

\* Address 0 holds the first opcode, its operands (if any) are NOPs, address 3
\* holds the second; the last byte is the three-byte JMP that wraps.
Images ==
    {[a \in 0..7 |-> IF a = 0 THEN f ELSE IF a = 3 THEN s ELSE IF a = 7 THEN JMP ELSE NOP] :
        f \in First, s \in Second}
AllOpcodes == 0..255
Tail3 == {NOP, \h3A, \hCD, \h36}
Conditional == {\hC2}
=============================================================================
