----------------------------- MODULE Accounting -----------------------------
(***************************************************************************)
(* How the debugger tells instruction fetches from data reads.  The board  *)
(* calls DebugBackend::onMemoryRead() and onMemoryWrite() for every access *)
(* of the CPU; onMemoryRead() recognises the first byte of an instruction  *)
(* by its address and PC, and takes the next bytes for operands by the     *)
(* opcode's length.  stepInstructionDetailed() sets the same window itself *)
(* around the one instruction it executes.  All of it runs on the thread   *)
(* that executes the instruction, one access at a time.                    *)
(***************************************************************************)
EXTENDS Opcodes

CONSTANTS
    Top,        \* the address space is 0..Top-1 and wraps, as uint16_t does
    Programs,   \* the memory images to execute
    DataAddrs,  \* where data and stack accesses go
    Targets,    \* where jumps go
    MaxInstr    \* bound: instructions executed

ASSUME AccountingAssumption ==
    /\ Top \in Nat \ {0}
    /\ Programs \subseteq [0..(Top - 1) -> 0..255]
    /\ DataAddrs \subseteq 0..(Top - 1)
    /\ Targets \subseteq 0..(Top - 1)
    /\ MaxInstr \in Nat

VARIABLES
    mem,        \* the program
    pc,         \* PC between instructions
    cur,        \* ghost: the address of the instruction being executed
    todo,       \* the accesses it has still to make
    phase,      \* between instructions, armed by a step, inside an instruction
    stepping,   \* steppingInProgress_
    base,       \* fetchBasePc_
    remaining,  \* fetchRemaining_
    seq,        \* instructionSequence_
    started,    \* freeRunSequenceStarted_
    execs,      \* executeCount_
    last,       \* the newest event of memHistory and of the access log
    truth,      \* ghost: how often each instruction was executed
    misled,     \* ghost: the window no longer follows the CPU
    off,        \* ghost: it was misled since the counters were cleared
    count       \* instructions executed, against MaxInstr

vars == <<mem, pc, cur, todo, phase, stepping, base, remaining, seq, started,
          execs, last, truth, misled, off, count>>

Addr == 0..(Top - 1)
Wrap(a) == a % Top
NoEvent == [type |-> "none", kind |-> "none", at |-> 0, base |-> 0, by |-> 0,
            num |-> 0, step |-> FALSE]

Init ==
    /\ mem \in Programs
    /\ pc = 0 /\ cur = 0 /\ todo = <<>> /\ phase = "between"
    /\ stepping = FALSE /\ base = 0 /\ remaining = 0
    /\ seq = 0 /\ started = FALSE
    /\ execs = [a \in Addr |-> 0]
    /\ last = NoEvent
    /\ truth = [a \in Addr |-> 0]
    /\ misled = FALSE /\ off = FALSE /\ count = 0

-----------------------------------------------------------------------------
(* The hooks *)

\* Mutant: an operand byte is not excluded by the window that is still open.
StartsAnyByte(virt, stack, pcNow) ==
    ~stepping /\ ~stack /\ Wrap(virt + 1) = pcNow

\* The condition of onMemoryRead() for the first byte of an instruction.
StartsInstruction(virt, stack, pcNow) ==
    ~stepping /\ remaining = 0 /\ ~stack /\ Wrap(virt + 1) = pcNow

\* The event of an access of the instruction at address who: its type and
\* attribution by the hook, its true kind by the CPU.
Event(type, kind, virt, b, who, n) ==
    [type |-> type, kind |-> kind, at |-> virt, base |-> b, by |-> who,
     num |-> n, step |-> stepping]

\* Mutant: only steps advance the number.
OnMemoryReadSameNumber(virt, stack, pcNow, kind, who) ==
    LET start == StartsInstruction(virt, stack, pcNow)
        rem   == IF start THEN Length(mem[virt]) ELSE remaining
        type  == IF rem > 0 THEN "Fetch" ELSE "Read"
    IN  /\ seq' = seq
        /\ started' = (started \/ start)
        /\ execs' = IF start THEN [execs EXCEPT ![virt] = @ + 1] ELSE execs
        /\ base' = IF start THEN virt ELSE base
        /\ remaining' = IF rem > 0 THEN rem - 1 ELSE 0
        /\ last' = Event(type, kind, virt, base', who, seq')

\* onMemoryRead().
OnMemoryRead(virt, stack, pcNow, kind, who) ==
    LET start == StartsInstruction(virt, stack, pcNow)
        rem   == IF start THEN Length(mem[virt]) ELSE remaining
        type  == IF rem > 0 THEN "Fetch" ELSE "Read"
    IN  /\ seq' = IF start /\ started THEN seq + 1 ELSE seq
        /\ started' = (started \/ start)
        /\ execs' = IF start THEN [execs EXCEPT ![virt] = @ + 1] ELSE execs
        /\ base' = IF start THEN virt ELSE base
        /\ remaining' = IF rem > 0 THEN rem - 1 ELSE 0
        /\ last' = Event(type, kind, virt, base', who, seq')

\* onMemoryWrite().
OnMemoryWrite(virt, who) ==
    /\ last' = Event("Write", "Write", virt, base, who, seq)
    /\ UNCHANGED <<seq, started, execs, base, remaining>>

-----------------------------------------------------------------------------
(* The CPU *)

\* Instructions whose reads do not follow the length in the debugger's table:
\* the operand is skipped, comes after a data read, or is not in the table.
Misleading(op, taken) ==
    \/ op \in Jcc \cup Ccc /\ ~taken
    \/ op = MVIM
    \/ op \in UndocJMP \cup UndocCALL

\* i8080_instruction(): the opcode is read with PC already past it.
Fetch ==
    /\ phase \in {"between", "armed"}
    /\ phase = "between" => count < MaxInstr
    /\ cur' = pc
    /\ \E taken \in BOOLEAN :
         /\ todo' = Accesses(mem[pc], taken)
         /\ misled' = (misled \/ Misleading(mem[pc], taken))
         /\ off' = (off \/ (~stepping /\ misled'))
         /\ pc' \in IF Jumps(mem[pc], taken) THEN Targets
                    ELSE {Wrap(pc + Advance(mem[pc]))}
    /\ OnMemoryRead(pc, FALSE, Wrap(pc + 1), "Fetch", pc)
    /\ truth' = [truth EXCEPT ![pc] = @ + 1]
    /\ count' = IF phase = "between" THEN count + 1 ELSE count
    /\ phase' = "inside"
    /\ UNCHANGED <<mem, stepping>>

\* The next access.  A data read of the instruction's own opcode byte looks
\* like its fetch.
Access ==
    /\ phase = "inside"
    /\ todo # <<>>
    /\ LET a == Head(todo) IN
       \E virt \in IF a.at = Data THEN DataAddrs ELSE {Wrap(cur + a.at)} :
         IF a.kind = "Write"
           THEN OnMemoryWrite(virt, cur) /\ UNCHANGED <<misled, off>>
           ELSE /\ OnMemoryRead(virt, a.stack, Wrap(cur + a.pc), a.kind, cur)
                /\ misled' = (misled \/ (a.kind = "Read" /\ ~a.stack /\ virt = cur /\ ~stepping))
                /\ off' = (off \/ (~stepping /\ misled'))
    /\ todo' = Tail(todo)
    /\ UNCHANGED <<mem, pc, cur, phase, stepping, truth, count>>

\* The free run goes on to the next instruction.
NextInstruction ==
    /\ phase = "inside"
    /\ todo = <<>>
    /\ ~stepping
    /\ phase' = "between"
    /\ UNCHANGED <<mem, pc, cur, todo, stepping, base, remaining, seq, started,
                   execs, last, truth, misled, off, count>>

\* check_interrupt() between two instructions: i8080_execute(0xff) pushes PC
\* without reading an opcode.
Interrupt ==
    /\ phase = "between"
    /\ count < MaxInstr
    /\ count' = count + 1
    /\ \E virt \in DataAddrs : last' = Event("Write", "Write", virt, base, last.by, seq)
    /\ pc' \in Targets
    /\ UNCHANGED <<mem, cur, todo, phase, stepping, base, remaining, seq,
                   started, execs, truth, misled, off>>

\* stepInstructionDetailed() before the instruction.
StepBegin ==
    /\ phase = "between"
    /\ count < MaxInstr
    /\ count' = count + 1
    /\ base' = pc
    /\ remaining' = Length(mem[pc])
    /\ stepping' = TRUE
    /\ misled' = FALSE
    /\ phase' = "armed"
    /\ UNCHANGED <<mem, pc, cur, todo, seq, started, execs, last, truth, off>>

\* Mutant: the instruction of a step is not counted.
StepEndUncounted ==
    /\ phase = "inside"
    /\ todo = <<>>
    /\ stepping
    /\ stepping' = FALSE
    /\ remaining' = 0
    /\ UNCHANGED execs
    /\ seq' = seq + 1
    /\ started' = TRUE
    /\ misled' = FALSE
    /\ phase' = "between"
    /\ UNCHANGED <<mem, pc, cur, todo, base, last, truth, off, count>>

\* stepInstructionDetailed() after it.
StepEnd ==
    /\ phase = "inside"
    /\ todo = <<>>
    /\ stepping
    /\ stepping' = FALSE
    /\ remaining' = 0
    /\ execs' = [execs EXCEPT ![cur] = @ + 1]
    /\ seq' = seq + 1
    /\ started' = TRUE
    /\ misled' = FALSE
    /\ phase' = "between"
    /\ UNCHANGED <<mem, pc, cur, todo, base, last, truth, off, count>>

\* reset() and restart(): numbers, counters and histories, but not the window.
Reset ==
    /\ phase = "between"
    /\ last # NoEvent
    /\ pc' = 0
    /\ seq' = 0
    /\ started' = FALSE
    /\ execs' = [a \in Addr |-> 0]
    /\ last' = NoEvent
    /\ truth' = [a \in Addr |-> 0]
    /\ off' = misled
    /\ UNCHANGED <<mem, cur, todo, phase, stepping, base, remaining, misled, count>>

Next ==
    \/ Fetch \/ Access \/ NextInstruction \/ Interrupt
    \/ StepBegin \/ StepEnd \/ Reset

Spec == Init /\ [][Next]_vars

-----------------------------------------------------------------------------
(* Properties *)

\* As long as the window has not been misled, and again after every step, each
\* access is recorded as what the CPU does and against the instruction that
\* does it, with or without stepping, in every order of the two.
AccessesClassified ==
    phase = "inside" /\ ~misled => last.type = last.kind /\ last.base = last.by

\* The execute counters count executions, one each, whichever mixture of steps
\* and free running led here.
CountsExact == phase = "between" /\ ~off => execs = truth

\* Two instructions executed one after the other in the same mode have
\* different numbers, and all accesses of one instruction share its number.
NumbersTellInstructionsApart ==
    [][/\ phase' = "inside" /\ phase # "inside" /\ started
            /\ last.step = last'.step /\ ~misled' /\ ~off'
            => last'.num # last.num
       /\ phase = "inside" /\ phase' = "inside" /\ ~misled' => last'.num = last.num]_vars

\* What debugger/tests/test_runtime_accounting.cpp checks of a recorded fetch:
\* it lies inside the instruction it is logged against.
FetchesStayInside ==
    phase = "inside" /\ last.type = "Fetch" =>
        \E i \in 0..2 : last.at = Wrap(last.base + i)
=============================================================================
