----------------------------- MODULE Interrupts -----------------------------
(***************************************************************************)
(* The frame interrupt: the pin INTE and the request (Board), the flip-    *)
(* flop IFF and the hold-off of EI (i8080), and the raster that raises the *)
(* request once a frame, while a program with EI, DI and HLT runs, is      *)
(* stepped, stopped, reset and replaced by a debugger.                     *)
(***************************************************************************)
EXTENDS Integers

CONSTANTS
    FrameLen,    \* instructions of a frame
    IntMaxUser   \* bound: actions of the user

ASSUME InterruptAssumption == FrameLen \in Nat \ {0, 1} /\ IntMaxUser \in Nat

VARIABLES
    inte,       \* Board::inte
    irq,        \* Board::irq
    irqCarry,   \* Board::irq_carry
    iff,        \* IFF
    eiPending,  \* EI_PENDING
    lastHlt,    \* last_opcode is HLT
    atHlt,      \* PC stays at the HLT that was executed
    left,       \* instructions left of the frame, 0 between frames
    due,        \* the beam has yet to pass the point of the request
    crossed,    \* PixelFiller::irq: it has passed it, and nobody has cleared that
    cut,        \* a breakpoint or steps have left the beam elsewhere
    intOps,     \* against IntMaxUser
    ei,         \* ghost: instructions since EI, 2 for more, or NotAsked
    intPcSet,   \* ghost: PC was set from outside since the last instruction
    took        \* ghost: the last interrupt taken

intCpu == <<iff, eiPending>>
intvars == <<inte, irq, irqCarry, intCpu, lastHlt, atHlt, left, due, crossed, cut, intOps,
             ei, intPcSet, took>>

NotAsked == -1
NotTaken == [asked |-> NotAsked, skipped |-> FALSE, halted |-> FALSE, set |-> FALSE, any |-> FALSE]

IntInit ==
    /\ inte = FALSE /\ irq = FALSE /\ irqCarry = FALSE /\ iff = FALSE /\ eiPending = 0
    /\ lastHlt = FALSE /\ atHlt = FALSE /\ left = 0 /\ due = FALSE
    /\ crossed = FALSE /\ cut = FALSE /\ intOps = 0
    /\ ei = NotAsked /\ intPcSet = FALSE /\ took = NotTaken

-----------------------------------------------------------------------------
(* The processor and the pin, as a record m of inte, irq, iff and pending *)

Machine == [inte |-> inte, irq |-> irq, iff |-> iff, pending |-> eiPending]

\* Board::interrupt(): INTE low clears the request.
Pin(m, on) == [m EXCEPT !.inte = on, !.irq = @ /\ on]

\* The end of i8080_execute(): the hold-off runs out.
HoldOff(m) ==
    IF m.pending = 0 THEN m
    ELSE IF m.pending > 1 THEN [m EXCEPT !.pending = @ - 1]
    ELSE Pin([m EXCEPT !.pending = 0, !.iff = TRUE], TRUE)

\* i8080_execute(), of the instructions that matter here.
Execute(m, op) ==
    HoldOff(CASE op = "EI" -> [Pin([m EXCEPT !.iff = FALSE], TRUE) EXCEPT !.pending = 2]
              [] op = "DI" -> Pin([m EXCEPT !.pending = 0, !.iff = FALSE], FALSE)
              [] OTHER -> m)

\* check_interrupt(): the acknowledge lowers INTE and runs RST 7; IFF stays.
Accepts(m) == m.irq /\ m.iff
CheckInterrupt(m) == IF Accepts(m) THEN Execute(Pin(m, FALSE), "RST") ELSE m

\* Mutant: a late request is dropped.
RasterDropsLate(m, vsync) == [m EXCEPT !.irq = @ \/ (m.inte /\ vsync = "hit")]

\* single_step() after the instruction: the raster may have raised the request
\* ("hit"), too late in the instruction to be seen before the next ("late").
Raster(m, vsync) ==
    [m EXCEPT !.irq = @ \/ (m.inte /\ (vsync = "hit" \/ (vsync = "none" /\ irqCarry)))]

Take(m) ==
    /\ inte' = m.inte /\ irq' = m.irq /\ iff' = m.iff /\ eiPending' = m.pending

\* What an instruction finds of the raster.  In a frame the beam passes the point
\* of the request once, early.  The steps of a debugger move it anywhere, over
\* that point too, and then, as only the loop of execute_frame() clears the
\* flag, each step meets it again.
Vsyncs ==
    CASE left > 0 /\ ~due                   -> {"none"}
      [] left > 0 /\ due /\ left < FrameLen -> {"hit", "late"}
      [] left = 0 /\ crossed                -> {"hit", "late"}
      [] OTHER                              -> {"none", "hit", "late"}

\* The ghost of EI, after an instruction.
EiAfter(op) ==
    IF op = "EI" THEN 0
    ELSE IF op = "DI" \/ took' # took THEN NotAsked
    ELSE IF ei \in 0..1 THEN ei + 1 ELSE ei

\* Mutant: last_opcode is noted for HLT only.
InstructionSticky(m, stays) ==
    \E op \in (IF stays THEN {"HLT"} ELSE {"EI", "DI", "HLT", "NOP"}), v \in Vsyncs :
        /\ Take(Raster(Execute(m, op), v))
        /\ irqCarry' = (v = "late" \/ (v = "hit" /\ irqCarry))
        /\ due' = (due /\ v = "none") /\ crossed' = (v # "none")
        /\ lastHlt' = (lastHlt \/ op = "HLT") /\ atHlt' = (op = "HLT")
        /\ intPcSet' = FALSE
        /\ ei' = EiAfter(op)

\* One instruction: the HLT again, or whatever the program has there.
Instruction(m, stays) ==
    \E op \in (IF stays THEN {"HLT"} ELSE {"EI", "DI", "HLT", "NOP"}), v \in Vsyncs :
        /\ Take(Raster(Execute(m, op), v))
        /\ irqCarry' = (v = "late" \/ (v = "hit" /\ irqCarry))
        /\ due' = (due /\ v = "none") /\ crossed' = (v # "none")
        /\ lastHlt' = (op = "HLT") /\ atHlt' = (op = "HLT")
        /\ intPcSet' = FALSE
        /\ ei' = EiAfter(op)

-----------------------------------------------------------------------------
(* Actions *)

\* execute_frame(), its beginning: line 0 again, but the pixel counter stays,
\* after a cut perhaps past the point of the request.
IntFrame ==
    /\ left = 0
    /\ left' = FrameLen
    /\ due' \in (IF cut THEN BOOLEAN ELSE {TRUE})
    /\ crossed' = FALSE /\ cut' = FALSE
    /\ irqCarry' = FALSE
    /\ UNCHANGED <<inte, irq, intCpu, lastHlt, atHlt, intOps, ei, intPcSet, took>>

\* The ghost of an interrupt, if one is taken here.
Acknowledged ==
    IF Accepts(Machine)
    THEN [asked |-> ei, skipped |-> lastHlt, halted |-> atHlt, set |-> intPcSet,
          any |-> ~took.any]
    ELSE took

\* An iteration of its loop: the interrupt, then an instruction.
IntStep ==
    /\ left > 0
    /\ left' = left - 1
    /\ took' = Acknowledged
    /\ Instruction(CheckInterrupt(Machine), atHlt /\ ~Accepts(Machine))
    /\ UNCHANGED <<cut, intOps>>

User == intOps < IntMaxUser /\ intOps' = intOps + 1

\* An iteration that meets a breakpoint: the interrupt is taken, the frame ends,
\* and last_opcode is still that of the instruction before.
IntBreak ==
    /\ User /\ left > 0
    /\ left' = 0 /\ cut' = TRUE /\ crossed' = FALSE
    /\ took' = Acknowledged
    /\ Take(CheckInterrupt(Machine))
    /\ atHlt' = (atHlt /\ ~Accepts(Machine))
    /\ ei' = IF Accepts(Machine) THEN NotAsked ELSE ei
    /\ intPcSet' = (intPcSet /\ ~Accepts(Machine))
    /\ UNCHANGED <<irqCarry, lastHlt, due>>

\* stepInstruction(): no interrupt is taken.
IntSingleStep ==
    /\ User /\ left = 0
    /\ cut' = TRUE
    /\ UNCHANGED <<left, took>>
    /\ Instruction(Machine, atHlt)

\* A debugger sets PC: last_opcode stays.
IntSetPc ==
    /\ User /\ left = 0
    /\ atHlt' = FALSE /\ intPcSet' = TRUE
    /\ UNCHANGED <<inte, irq, irqCarry, intCpu, lastHlt, left, due, crossed, cut, ei, took>>

\* Mutant: no DI, as before the correction.
IntLoadRomKeepsInte ==
    /\ User /\ left = 0
    /\ Take([Machine EXCEPT !.irq = FALSE])
    /\ lastHlt' = FALSE /\ atHlt' = FALSE /\ ei' = NotAsked /\ intPcSet' = FALSE
    /\ UNCHANGED <<irqCarry, left, due, crossed, cut, took>>

\* DebugAdapter::loadRom(): Board::reset(), then a DI.
IntLoadRom ==
    /\ User /\ left = 0
    /\ Take(Execute([Machine EXCEPT !.irq = FALSE], "DI"))
    /\ lastHlt' = FALSE /\ atHlt' = FALSE /\ ei' = NotAsked /\ intPcSet' = FALSE
    /\ UNCHANGED <<irqCarry, left, due, crossed, cut, took>>

\* DebugAdapter::reset(), with the boot ROM or without: IFF and the hold-off
\* stay, and without the boot ROM so does INTE.
IntReset ==
    /\ User /\ left = 0
    /\ \E boot \in BOOLEAN : Take(IF boot THEN Pin(Machine, FALSE) ELSE [Machine EXCEPT !.irq = FALSE])
    /\ lastHlt' = FALSE /\ atHlt' = FALSE /\ intPcSet' = FALSE
    /\ UNCHANGED <<irqCarry, left, due, crossed, cut, ei, took>>

IntNext ==
    \/ IntFrame \/ IntStep \/ IntBreak \/ IntSingleStep
    \/ IntSetPc \/ IntLoadRom \/ IntReset

IntSpec == IntInit /\ [][IntNext]_intvars

-----------------------------------------------------------------------------
(* Properties *)

\* An interrupt is taken only if the program has executed EI, and one more
\* instruction, since the last DI, the last interrupt and the last ROM load:
\* a handler is not interrupted before its EI, the instruction after EI is
\* protected, and nothing is inherited by a program that is loaded.
InterruptAskedFor == took # NotTaken => took.asked >= 1

\* The address an interrupt returns to is that of the next instruction: a HLT
\* is left behind, and no other instruction is skipped (unless a debugger has
\* set PC since, which last_opcode does not notice).
ReturnsAfterHlt == took.set \/ took.skipped = took.halted

\* A program that waits in HLT with interrupts enabled is woken by the frame
\* interrupt (which lowers INTE), however the frames before were cut.
HltWakes == atHlt /\ inte ~> ~(atHlt /\ inte)
=============================================================================
