---------------------------- MODULE Breakpoints -----------------------------
(***************************************************************************)
(* Breakpoints from the user to the CPU: the list of DebugBackend, the set *)
(* DebugAdapter has handed on, and the vector that Board tests before each *)
(* instruction; the frame loop that runs the CPU and reports why it        *)
(* stopped; and the client calls that edit the list, run, step or skip.    *)
(*                                                                         *)
(* One client and no timeouts: the command protocol is DebugBackend's      *)
(* matter, here a command is carried out where the frame loop or the idle  *)
(* loop takes it.  The program is a relation Succ between addresses.       *)
(***************************************************************************)
EXTENDS Naturals, FiniteSets

CONSTANTS
    Addrs,     \* code addresses
    Succ,      \* where an instruction may lead
    Fall,      \* the address after an instruction (pc + length)
    Start,     \* PC after a reset or a ROM load
    Vector,    \* where an interrupt leads (RST 7)
    MaxCalls,  \* bound: API calls a client makes
    NoAddr     \* no address

ASSUME BreakpointsAssumption ==
    /\ Succ \in [Addrs -> SUBSET Addrs]
    /\ \A a \in Addrs : Succ[a] # {}
    /\ Fall \in [Addrs -> Addrs]
    /\ Start \in Addrs /\ Vector \in Addrs
    /\ NoAddr \notin Addrs
    /\ MaxCalls \in Nat

VARIABLES
    bps,         \* breakpoints_: per address none, enabled or disabled
    synced,      \* DebugAdapter::syncedBreakpoints_
    board,       \* Board::breakpoints: how often each address is in it
    pc,          \* i8080_pc()
    before,      \* pcBeforeFrame
    after,       \* pcAfterFrame
    running,     \* running_
    pauseReq,    \* pauseRequestedAtomic_
    skipBp,      \* skipBreakpoint_
    stopReason,  \* stopReason_
    epc,         \* where the emulation thread is
    owes,        \* ghost: the user knows of the breakpoint under the PC and nothing
                 \* has been executed, moved or edited since
    missed,      \* ghost: a frame executed an instruction under a breakpoint
    req,         \* the command the client waits for
    call,        \* what the client is doing: a skip, a ROM load, or waiting for req
    temp,        \* nextAddr of requestSkipInstruction()
    added,       \* skipTempBreakpointAdded_
    saved,       \* ghost: the list when the skip began
    calls        \* calls made so far

listVars == <<bps, synced, board>>
cpuVars  == <<pc, before, after, owes, missed>>
loopVars == <<running, pauseReq, skipBp, stopReason, epc>>
callVars == <<req, call, temp, added, saved, calls>>
vars == <<listVars, cpuVars, loopVars, callVars>>

NoReq == [type |-> "none", addr |-> NoAddr]
EditTypes == {"Add", "Remove", "Enable", "Disable"}
ReqTypes == EditTypes \cup {"none", "Clear", "Run", "Step", "WritePc", "Reset", "LoadRom"}

Init ==
    /\ bps = [a \in Addrs |-> "none"]
    /\ synced = {}
    /\ board = [a \in Addrs |-> 0]
    /\ pc = Start /\ before = Start /\ after = Start /\ owes = FALSE /\ missed = FALSE
    /\ running = FALSE /\ pauseReq = FALSE /\ skipBp = FALSE
    /\ stopReason = "None" /\ epc = "idle"
    /\ req = NoReq /\ call = "idle" /\ temp = NoAddr /\ added = FALSE
    /\ saved = [a \in Addrs |-> "none"]
    /\ calls = 0

-----------------------------------------------------------------------------
(* The three lists *)

\* What syncBreakpointsToTarget() passes on: the enabled ones.
Enabled(b) == {a \in Addrs : b[a] = "enabled"}

\* Mutant: addresses that stay are inserted again.
SyncTwice(b) ==
    /\ board' = [a \in Addrs |->
                   IF a \in synced \ Enabled(b) THEN 0
                   ELSE IF a \in Enabled(b) THEN board[a] + 1
                   ELSE board[a]]
    /\ synced' = Enabled(b)

\* DebugAdapter::syncBreakpoints(): remove_breakpoint erases every copy,
\* insert_breakpoint pushes one.
Sync(b) ==
    /\ board' = [a \in Addrs |->
                   IF a \in synced \ Enabled(b) THEN 0
                   ELSE IF a \in Enabled(b) \ synced THEN board[a] + 1
                   ELSE board[a]]
    /\ synced' = Enabled(b)

\* checkBreakpoint() of the backend and check_breakpoint() of the board.
BackendStops(a) == bps[a] = "enabled"
BoardStops(a) == board[a] > 0

\* addBreakpoint, removeBreakpoint and setBreakpointEnabled.
Edited(type, a) ==
    CASE type = "Add"     -> [bps EXCEPT ![a] = IF @ = "none" THEN "enabled" ELSE @]
      [] type = "Remove"  -> [bps EXCEPT ![a] = "none"]
      [] type = "Enable"  -> [bps EXCEPT ![a] = IF @ = "none" THEN @ ELSE "enabled"]
      [] type = "Disable" -> [bps EXCEPT ![a] = IF @ = "none" THEN @ ELSE "disabled"]

-----------------------------------------------------------------------------
(* The emulation thread *)

\* A command is carried out where the thread takes it: idle, or between frames.
TakesCommand == epc \in {"idle", "cmds"} /\ req # NoReq

ExecEdit ==
    /\ TakesCommand
    /\ req.type \in EditTypes
    /\ bps' = Edited(req.type, req.addr)
    /\ Sync(bps')
    /\ owes' = FALSE
    /\ req' = NoReq
    /\ UNCHANGED <<pc, before, after, missed, loopVars, call, temp, added, saved, calls>>

ExecClear ==
    /\ TakesCommand
    /\ req.type = "Clear"
    /\ bps' = [a \in Addrs |-> "none"]
    /\ Sync(bps')
    /\ owes' = FALSE
    /\ req' = NoReq
    /\ UNCHANGED <<pc, before, after, missed, loopVars, call, temp, added, saved, calls>>

\* Run: a breakpoint under the PC is to be stepped over, once.
ExecRun ==
    /\ TakesCommand
    /\ req.type = "Run"
    /\ running' = TRUE
    /\ pauseReq' = FALSE
    /\ skipBp' = BackendStops(pc)
    /\ epc' = IF epc = "idle" THEN "prologue" ELSE epc
    /\ owes' = (owes \/ (epc = "idle" /\ BackendStops(pc)))
    /\ req' = NoReq
    /\ UNCHANGED <<listVars, pc, before, after, missed, stopReason, call, temp, added, saved, calls>>

ExecStep ==
    /\ TakesCommand
    /\ req.type = "Step"
    /\ pc' \in Succ[pc]
    /\ stopReason' = "Step"
    /\ owes' = FALSE
    /\ req' = NoReq
    /\ UNCHANGED <<listVars, before, after, missed, running, pauseReq, skipBp, epc,
                   call, temp, added, saved, calls>>

\* A register write to PC: refused while running.
ExecWritePc ==
    /\ TakesCommand
    /\ req.type = "WritePc"
    /\ pc' = IF running THEN pc ELSE req.addr
    /\ owes' = (running /\ owes)
    /\ req' = NoReq
    /\ UNCHANGED <<listVars, before, after, missed, loopVars, call, temp, added, saved, calls>>

ExecReset ==
    /\ TakesCommand
    /\ req.type = "Reset"
    /\ running' = FALSE /\ pauseReq' = FALSE /\ stopReason' = "Reset"
    /\ pc' = Start
    /\ owes' = FALSE
    /\ req' = NoReq
    /\ UNCHANGED <<listVars, before, after, missed, skipBp, epc, call, temp, added, saved, calls>>

\* The loop is stopped, then the image is loaded; the client goes on only if
\* the file could be read.
ExecLoadRom ==
    /\ TakesCommand
    /\ req.type = "LoadRom"
    /\ running' = FALSE
    /\ \/ pc' = Start /\ owes' = FALSE /\ UNCHANGED call
       \/ call' = "idle" /\ UNCHANGED <<pc, owes>>
    /\ req' = NoReq
    /\ UNCHANGED <<listVars, before, after, missed, pauseReq, skipBp, stopReason,
                   epc, temp, added, saved, calls>>

\* Mutant: Run stops at the breakpoint it was issued on.
PrologueNoSkip ==
    /\ epc = "prologue"
    /\ Sync(bps)
    /\ epc' = "loop"
    /\ UNCHANGED <<bps, cpuVars, running, pauseReq, skipBp, stopReason, callVars>>

\* executeFramesTarget_() up to its loop.
Prologue ==
    /\ epc = "prologue"
    /\ Sync(bps)
    /\ IF skipBp /\ BackendStops(pc)
         THEN /\ skipBp' = FALSE
              /\ pc' \in Succ[pc]
              /\ stopReason' = "Step"
              /\ owes' = FALSE
         ELSE UNCHANGED <<skipBp, pc, stopReason, owes>>
    /\ epc' = "loop"
    /\ UNCHANGED <<bps, before, after, missed, running, pauseReq, callVars>>

\* The loop's head and the poll callback: a pause request keeps the frame from
\* starting, and so does a breakRequested_ left over from one that a Run or a
\* ROM load has withdrawn since (DebugBackend has that flag, here it may be up).
FrameStart ==
    /\ epc = "loop"
    /\ before' = pc
    /\ after' = pc
    /\ epc' \in {"cmds", "inFrame"}
    /\ pauseReq => epc' = "cmds"
    /\ UNCHANGED <<listVars, pc, owes, missed, running, pauseReq, skipBp, stopReason, callVars>>

\* check_interrupt(): the PC may have gone to the vector before anything else.
Interrupted == {pc, Vector}

\* The instruction at a is executed; the raster may end the frame after it.
ExecuteInFrame(a) ==
    /\ pc' \in Succ[a]
    /\ owes' = FALSE
    /\ missed' = (missed \/ BackendStops(a))
    /\ epc' \in {"inFrame", "cmds"}

\* Mutant: the breakpoint is tested only when the frame has begun to move.
FrameInstructionFirst ==
    /\ epc = "inFrame"
    /\ \E a \in Interrupted :
         IF BoardStops(a) /\ a # before
           THEN pc' = a /\ epc' = "cmds" /\ UNCHANGED <<owes, missed>>
           ELSE ExecuteInFrame(a)
    /\ after' = pc'
    /\ UNCHANGED <<listVars, before, running, pauseReq, skipBp, stopReason, callVars>>

\* One iteration of Board::execute_frame: the interrupt first, then the test for
\* a breakpoint, then the instruction.
FrameInstruction ==
    /\ epc = "inFrame"
    /\ \E a \in Interrupted :
         IF BoardStops(a)
           THEN pc' = a /\ epc' = "cmds" /\ UNCHANGED <<owes, missed>>
           ELSE ExecuteInFrame(a)
    /\ after' = pc'
    /\ UNCHANGED <<listVars, before, running, pauseReq, skipBp, stopReason, callVars>>

CommandsDone ==
    /\ epc = "cmds"
    /\ req = NoReq
    /\ epc' = "check"
    /\ UNCHANGED <<listVars, cpuVars, running, pauseReq, skipBp, stopReason, callVars>>

\* The stop at a breakpoint is reported.
ReportBreakpoint ==
    /\ running' = FALSE /\ stopReason' = "Breakpoint" /\ epc' = "idle"
    /\ owes' = TRUE
    /\ UNCHANGED pauseReq

\* The tests after the frame and the commands: a breakpoint under the PC when the
\* frame had not moved it, then a pause or a stop, then any breakpoint.
FrameCheck ==
    /\ epc = "check"
    /\ IF after = before /\ BackendStops(pc)
         THEN ReportBreakpoint
       ELSE IF pauseReq \/ ~running
         THEN /\ running' = FALSE /\ stopReason' = "UserPause" /\ epc' = "idle" /\ pauseReq' = FALSE
              /\ UNCHANGED owes
       ELSE IF BackendStops(pc)
         THEN ReportBreakpoint
       ELSE epc' = "loop" /\ UNCHANGED <<running, stopReason, pauseReq, owes>>
    /\ UNCHANGED <<listVars, pc, before, after, missed, skipBp, callVars>>

-----------------------------------------------------------------------------
(* The client *)

Ask(type, a) == req' = [type |-> type, addr |-> a]

\* One command, and the wait for its result.
Call ==
    /\ call = "idle" /\ req = NoReq /\ calls < MaxCalls
    /\ \/ \E t \in EditTypes \cup {"WritePc"}, a \in Addrs : Ask(t, a)
       \/ \E t \in {"Clear", "Run", "Step", "Reset"} : Ask(t, NoAddr)
    /\ calls' = calls + 1
    /\ UNCHANGED <<listVars, cpuVars, loopVars, call, temp, added, saved>>

RequestPause ==
    /\ call = "idle" /\ req = NoReq /\ calls < MaxCalls
    /\ pauseReq' = TRUE
    /\ calls' = calls + 1
    /\ UNCHANGED <<listVars, cpuVars, running, skipBp, stopReason, epc, req, call,
                   temp, added, saved>>

\* loadRom(): the command first; then the client itself clears the list, passes
\* it on and stores the flags.
LoadRom ==
    /\ call = "idle" /\ req = NoReq /\ calls < MaxCalls
    /\ Ask("LoadRom", NoAddr)
    /\ call' = "romClear"
    /\ calls' = calls + 1
    /\ UNCHANGED <<listVars, cpuVars, loopVars, temp, added, saved>>

LoadRomClear ==
    /\ call = "romClear" /\ req = NoReq
    /\ bps' = [a \in Addrs |-> "none"]
    /\ owes' = FALSE
    /\ call' = "romSync"
    /\ UNCHANGED <<synced, board, pc, before, after, missed, loopVars, req, temp, added, saved, calls>>

LoadRomSync ==
    /\ call = "romSync"
    /\ Sync(bps)
    /\ running' = FALSE
    /\ pauseReq' = FALSE
    /\ call' = "idle"
    /\ UNCHANGED <<bps, cpuVars, skipBp, stopReason, epc, req, temp, added,
                   saved, calls>>

\* requestSkipInstruction(), enabled by the GUI while paused: a temporary
\* breakpoint after the current instruction, unless an enabled one is there.
SkipBegin ==
    /\ call = "idle" /\ req = NoReq /\ calls < MaxCalls
    /\ ~running
    /\ temp' = Fall[pc]
    /\ saved' = bps
    /\ added' = (bps[Fall[pc]] # "enabled")
    /\ IF added' THEN Ask("Add", Fall[pc]) ELSE UNCHANGED req
    /\ call' = "skipRun"
    /\ calls' = calls + 1
    /\ UNCHANGED <<listVars, cpuVars, loopVars>>

SkipRun ==
    /\ call = "skipRun" /\ req = NoReq
    /\ Ask("Run", NoAddr)
    /\ call' = "skipRemove"
    /\ UNCHANGED <<listVars, cpuVars, loopVars, temp, added, saved, calls>>

\* Mutant: the breakpoint is removed whoever added it.
SkipRemoveAlways ==
    /\ call = "skipRemove" /\ req = NoReq
    /\ Ask("Remove", temp)
    /\ added' = FALSE
    /\ call' = "skipEnd"
    /\ UNCHANGED <<listVars, cpuVars, loopVars, temp, saved, calls>>

\* requestRun() returned: the Run command is done, the run is not.
SkipRemove ==
    /\ call = "skipRemove" /\ req = NoReq
    /\ IF added THEN Ask("Remove", temp) ELSE UNCHANGED req
    /\ added' = FALSE
    /\ call' = "skipEnd"
    /\ UNCHANGED <<listVars, cpuVars, loopVars, temp, saved, calls>>

SkipEnd ==
    /\ call = "skipEnd" /\ req = NoReq
    /\ temp' = NoAddr
    /\ stopReason' = "Skip"
    /\ call' = "idle"
    /\ UNCHANGED <<listVars, cpuVars, running, pauseReq, skipBp, epc, req, added,
                   saved, calls>>

\* The machine is stopped and nobody asks for anything.
Rest ==
    /\ epc = "idle" /\ req = NoReq /\ call = "idle"
    /\ UNCHANGED vars

EmuNext ==
    \/ ExecEdit \/ ExecClear \/ ExecRun \/ ExecStep \/ ExecWritePc \/ ExecReset
    \/ ExecLoadRom \/ Prologue \/ FrameStart \/ FrameInstruction \/ CommandsDone \/ FrameCheck

ClientNext ==
    \/ Call \/ RequestPause \/ LoadRom \/ LoadRomClear \/ LoadRomSync
    \/ SkipBegin \/ SkipRun \/ SkipRemove \/ SkipEnd

Next == EmuNext \/ ClientNext \/ Rest

Spec == Init /\ [][Next]_vars

-----------------------------------------------------------------------------
(* Properties *)

\* The adapter knows what the board holds, and holds it once.
BoardKnown == \A a \in Addrs : board[a] = IF a \in synced THEN 1 ELSE 0

Agree == synced = Enabled(bps) /\ BoardKnown

\* The three lists agree while a frame executes: the board holds each enabled
\* breakpoint once and nothing else.
ListsAgree == epc = "inFrame" => Agree

\* Why they do: every command syncs what it edits before it returns to the
\* loop, and between loadRom()'s two steps on the client's thread no frame can
\* begin, because running_ is already down and the client asks for nothing.
Quiet == ~running /\ epc \in {"idle", "cmds", "check"}

SyncDiscipline ==
    /\ BoardKnown
    /\ call # "romSync" => Agree
    /\ call = "romSync" => req = NoReq /\ Quiet
    /\ call = "romClear" => req.type = "LoadRom" \/ (req = NoReq /\ Quiet)
    /\ epc \in {"prologue", "loop", "inFrame"} => running

\* No instruction under an enabled breakpoint is executed inside a frame.
NoMissedBreakpoint == ~missed

\* A Run gets off the breakpoint the machine stands on.  No stop at a breakpoint
\* is reported twice, and none is reported to a Run that found the machine
\* stopped there, before the loop has executed an instruction or the user has
\* moved the PC or edited the list.  A Run that is taken between the frame in
\* which the board stopped and the loop's own test does not get off: it is
\* answered by the report, which is then the first one of that stop.
RunMakesProgress ==
    [][epc = "check" /\ epc' = "idle" /\ stopReason' = "Breakpoint" => ~owes]_vars

\* requestSkipInstruction() keeps its breakpoint until the run has stopped.
SkipWaitsForStop ==
    [][call = "skipRemove" /\ call' = "skipEnd" /\ req'.type = "Remove" => ~running]_vars

\* requestSkipInstruction() leaves the enabled breakpoints as they were, whether
\* or not one of them is at the next instruction.  (A disabled one there is lost.)
SkipKeepsEnabled ==
    [][call = "skipEnd" /\ call' = "idle" => Enabled(bps) = Enabled(saved)]_vars
=============================================================================
