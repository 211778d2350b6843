------------------------------ MODULE Opcodes -------------------------------
(***************************************************************************)
(* What two parts of the program know of the 256 opcodes of the 8080: the  *)
(* debugger's table of instruction lengths (debugger/src/opcode_info.h)    *)
(* and the memory accesses the CPU really makes (src/i8080.cpp), in their  *)
(* order and with the value PC has when each of them happens.              *)
(***************************************************************************)
EXTENDS Integers, Sequences

Column(first) == {first + 8 * i : i \in 0..7}

LXI   == {\h01, \h11, \h21, \h31}
MVI   == {\h06, \h0E, \h16, \h1E, \h26, \h2E, \h3E}
MVIM  == \h36
AluI  == Column(\hC6)
InOut == {\hD3, \hDB}
SHLD  == \h22
LHLD  == \h2A
STA   == \h32
LDA   == \h3A
Jcc   == Column(\hC2)
Ccc   == Column(\hC4)
Rcc   == Column(\hC0)
JMP   == \hC3
CALL  == \hCD
RET   == \hC9
RST   == Column(\hC7)
PopR  == {\hC1, \hD1, \hE1, \hF1}
PushR == {\hC5, \hD5, \hE5, \hF5}
XTHL  == \hE3
PCHL  == \hE9
HLT   == \h76
StoreM == {\h02, \h12} \cup (\h70..\h77 \ {HLT})
ReadM  == {\h0A, \h1A} \cup {\h46, \h4E, \h56, \h5E, \h66, \h6E, \h7E}
          \cup Column(\h86)
INRM  == \h34
DCRM  == \h35

\* Opcodes the CPU executes as another one; the length table knows only NOP
\* and RET of them.
UndocJMP  == {\hCB}
UndocCALL == {\hDD, \hED, \hFD}
UndocRET  == {\hD9}

\* opcode_info::get_length().
Length(op) ==
    IF op \in LXI \cup {SHLD, LHLD, STA, LDA, JMP, CALL} \cup Jcc \cup Ccc THEN 3
    ELSE IF op \in MVI \cup {MVIM} \cup AluI \cup InOut THEN 2
    ELSE 1

-----------------------------------------------------------------------------
(* An access: what it is, where (an offset from the opcode, or Data), the  *)
(* stack line, and PC at that moment (an offset from the opcode).          *)

Data == -1

\* RD_BYTE(PC++): PC is already past the byte.
Immediate == [kind |-> "Fetch", at |-> 1, stack |-> FALSE, pc |-> 2]

\* RD_WORD(PC) and, in CALL, RD_STACK(PC): PC still stands before the word.
Word(stack) == << [kind |-> "Fetch", at |-> 1, stack |-> stack, pc |-> 1],
                  [kind |-> "Fetch", at |-> 2, stack |-> stack, pc |-> 1] >>

Read(stack)  == [kind |-> "Read", at |-> Data, stack |-> stack, pc |-> 1]
Write(stack) == [kind |-> "Write", at |-> Data, stack |-> stack, pc |-> 1]

Pop  == <<Read(TRUE), Read(TRUE)>>
Push == <<Write(TRUE), Write(TRUE)>>

\* The accesses of i8080_execute(op) after the opcode has been read.  A
\* conditional jump or call that is not taken skips its operand unread.
Accesses(op, taken) ==
    CASE op \in LXI \cup {JMP} \cup UndocJMP            -> Word(FALSE)
      [] op \in Jcc                                     -> IF taken THEN Word(FALSE) ELSE <<>>
      [] op \in {CALL} \cup UndocCALL                   -> Push \o Word(TRUE)
      [] op \in Ccc                                     -> IF taken THEN Push \o Word(TRUE) ELSE <<>>
      [] op \in {RET} \cup UndocRET \cup PopR           -> Pop
      [] op \in Rcc                                     -> IF taken THEN Pop ELSE <<>>
      [] op \in RST \cup PushR                          -> Push
      [] op = XTHL                                      -> Pop \o Push
      [] op \in MVI \cup AluI \cup InOut                -> <<Immediate>>
      [] op = MVIM                                      -> <<Read(FALSE), Immediate, Write(FALSE)>>
      [] op = SHLD                                      -> Word(FALSE) \o <<Write(FALSE), Write(FALSE)>>
      [] op = LHLD                                      -> Word(FALSE) \o <<Read(FALSE), Read(FALSE)>>
      [] op = STA                                       -> Word(FALSE) \o <<Write(FALSE)>>
      [] op = LDA                                       -> Word(FALSE) \o <<Read(FALSE)>>
      [] op \in ReadM                                   -> <<Read(FALSE)>>
      [] op \in StoreM                                  -> <<Write(FALSE)>>
      [] op = INRM                                      -> <<Read(FALSE), Write(FALSE)>>
      [] op = DCRM                                      -> <<Read(FALSE), Read(FALSE), Write(FALSE)>>
      [] OTHER                                          -> <<>>

\* Where PC is after the instruction at address a: beyond it, on it (HLT
\* steps back), or wherever the operand, the stack or HL says.
Jumps(op, taken) ==
    \/ op \in {JMP, CALL, RET, PCHL} \cup UndocJMP \cup UndocCALL \cup UndocRET \cup RST
    \/ taken /\ op \in Jcc \cup Ccc \cup Rcc

\* How far PC moves when it does not jump.
Advance(op) ==
    IF op = HLT THEN 0
    ELSE IF op \in LXI \cup {SHLD, LHLD, STA, LDA} \cup Jcc \cup Ccc THEN 3
    ELSE IF op \in MVI \cup {MVIM} \cup AluI \cup InOut THEN 2
    ELSE 1
=============================================================================
