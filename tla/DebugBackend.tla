---------------------------- MODULE DebugBackend ----------------------------
(***************************************************************************)
(* The command protocol of debugger/src/backend.cpp: client threads (the   *)
(* GUI, the MCP server, tests) submit commands through a queue; one        *)
(* emulation thread, in runUntilPause(), executes them between frames.     *)
(*                                                                         *)
(* A step of the model is one access to shared state (an atomic, a mutex   *)
(* section, a promise) or several of them by one thread where no other     *)
(* thread can tell them apart; the comment of the action says so.  The     *)
(* machine is reduced to what the protocol reads of it: whether the CPU    *)
(* stands on an enabled breakpoint (atBp) and whether the last frame moved *)
(* the PC (moved).  CommandType::Pause has no producer in the repository   *)
(* and testSynchronous_ is set by unit tests only: neither is modelled.    *)
(***************************************************************************)
EXTENDS Naturals, Sequences

CONSTANTS
    Clients,     \* the threads that call the API
    Commands,    \* the Command objects that may be allocated
    Ops,         \* the API calls the clients make
    MaxTrace,    \* TraceExecutionParams::maxInstructions
    FreedReads,  \* what a load of Command::state may return once it is freed
    None         \* no command

SubmitOps == {"Run", "Step", "Reset", "LoadRom", "Write", "Edit"}
FutureOps == {"RunFuture", "Trace"}
OtherOps  == {"Pause", "Quit", "LoadWav", "AgentStep"}

ASSUME BackendAssumption ==
    /\ None \notin Commands
    /\ None \notin Clients
    /\ Ops \subseteq SubmitOps \cup FutureOps \cup OtherOps
    /\ MaxTrace \in Nat
    /\ FreedReads \subseteq {"Queued", "Executing", "Cancelled", "Completed"}

CommandTypes  == SubmitOps \cup FutureOps \cup {"Quit"}
CommandStates == {"Queued", "Executing", "Cancelled", "Completed"}
Answers       == {"Completed", "Failed", "Cancelled"}
Outcomes      == {"none", "unset", "broken", "Completed", "Cancelled", "Timeout", "Ret"}

VARIABLES
    queue,       \* commandQueue_
    ctype,       \* Command::type; RunFuture is a Run that carries a pausePromise
    cstate,      \* Command::state ("None": not allocated yet)
    result,      \* Command::promise
    outcome,     \* Command::pausePromise of a RunFuture, tracePromise of a Trace
    pending,     \* pendingPausePromises_, by the commands they belong to
    freed,       \* commands whose unique_ptr was destroyed
    applied,     \* ghost: commands whose operation was carried out
    running,     \* running_
    state,       \* state_
    stopReason,  \* stopReason_
    skipBp,      \* skipBreakpoint_
    atBp,        \* what checkBreakpoint() returns
    moved,       \* pcAfterFrame # pcBeforeFrame
    pauseReq,    \* pauseRequestedAtomic_
    breakReq,    \* breakRequested_
    quitReq,     \* quitRequested_
    loopRunning, \* emulationLoopRunning_
    epc,         \* where the emulation thread is
    ecmd,        \* the command it holds
    where,       \* who called processCommand: the main loop or the frame loop
    tleft,       \* instructions left to a running trace
    asked,       \* ghost: a break or quit was requested since the last trace began,
                 \* while it ran
    cpc,         \* where each client is
    ccmd,        \* the command each client submitted
    reply        \* what submitAndWait returned for a command

cmdVars == <<queue, ctype, cstate, result, outcome, pending, freed, applied>>
runVars == <<running, state, stopReason, skipBp, atBp, moved>>
sigVars == <<pauseReq, breakReq, quitReq, loopRunning>>
emuVars == <<epc, ecmd, where, tleft, asked>>
cliVars == <<cpc, ccmd, reply>>
vars == <<cmdVars, runVars, sigVars, emuVars, cliVars>>

EmuPcs == {"start", "top", "prologue", "loop", "loopQuit", "poll", "inFrame",
           "cmds", "proc", "dispatch", "exec", "runState", "trace", "done",
           "drop", "dropBreak", "check", "end", "quitCheck", "wait", "drain",
           "exited"}
ClientPcs == {"idle", "wait", "check", "cas", "get", "future", "pause2",
              "quit2", "romDirect", "rom0", "stop1", "stop2", "stop3",
              "wavLoad", "stepCpu", "gone"}

Init ==
    /\ queue = <<>>
    /\ ctype = [c \in Commands |-> "Quit"]
    /\ cstate = [c \in Commands |-> "None"]
    /\ result = [c \in Commands |-> "unset"]
    /\ outcome = [c \in Commands |-> "none"]
    /\ pending = {} /\ freed = {} /\ applied = {}
    /\ running = FALSE /\ state = "Paused" /\ stopReason = "None"
    /\ skipBp = FALSE /\ atBp = FALSE /\ moved = FALSE
    /\ pauseReq = FALSE /\ breakReq = FALSE /\ quitReq = FALSE
    /\ loopRunning = FALSE
    /\ epc = "start" /\ ecmd = None /\ where = "main"
    /\ tleft = 0 /\ asked = FALSE
    /\ cpc = [p \in Clients |-> "idle"]
    /\ ccmd = [p \in Clients |-> None]
    /\ reply = [c \in Commands |-> "none"]

-----------------------------------------------------------------------------
(* Helpers on commands and promises *)

\* A new Command of type t, enqueued.  Its promise is empty.
Enqueue(c, t) ==
    /\ cstate[c] = "None"
    /\ ctype' = [ctype EXCEPT ![c] = t]
    /\ cstate' = [cstate EXCEPT ![c] = "Queued"]
    /\ outcome' = [outcome EXCEPT ![c] = IF t \in FutureOps THEN "unset" ELSE "none"]
    /\ queue' = Append(queue, c)
    /\ UNCHANGED <<result, pending, freed, applied>>

\* fulfillPausePromises_(): every pending pause promise gets Completed.
FulfillPausePromises ==
    /\ outcome' = [c \in Commands |-> IF c \in pending THEN "Completed" ELSE outcome[c]]
    /\ pending' = {}

\* cmd.promise.set_value(r) by executeCommand, which leaves its command to the
\* rest of processCommand.
Answer(r) ==
    /\ result' = [result EXCEPT ![ecmd] = r]
    /\ applied' = applied \cup {ecmd}
    /\ epc' = "done"

\* A destroyed promise that nobody holds and nobody set is broken: its future
\* throws std::future_error.
BrokenIfUnset(p, c) == [p EXCEPT ![c] = IF @ = "unset" /\ c \notin pending THEN "broken" ELSE @]

-----------------------------------------------------------------------------
(* The emulation thread: runUntilPause() *)

EmuStart ==
    /\ epc = "start"
    /\ loopRunning' = TRUE
    /\ epc' = "top"
    /\ UNCHANGED <<cmdVars, runVars, pauseReq, breakReq, quitReq, ecmd, where,
                   tleft, asked, cliVars>>

\* The head of the main loop.
EmuTop ==
    /\ epc = "top"
    /\ epc' = IF running THEN "prologue" ELSE "quitCheck"
    /\ UNCHANGED <<cmdVars, runVars, sigVars, ecmd, where, tleft, asked, cliVars>>

\* executeFramesTarget_() before its loop: step off the breakpoint that Run
\* was issued on.
FramePrologue ==
    /\ epc = "prologue"
    /\ IF skipBp /\ atBp
         THEN /\ skipBp' = FALSE
              /\ stopReason' = "Step"
              /\ atBp' \in BOOLEAN
         ELSE UNCHANGED <<skipBp, stopReason, atBp>>
    /\ epc' = "loop"
    /\ UNCHANGED <<cmdVars, running, state, moved, sigVars, ecmd, where, tleft,
                   asked, cliVars>>

FrameLoop ==
    /\ epc = "loop"
    /\ epc' = IF running THEN "loopQuit" ELSE "end"
    /\ UNCHANGED <<cmdVars, runVars, sigVars, ecmd, where, tleft, asked, cliVars>>

FrameLoopQuit ==
    /\ epc = "loopQuit"
    /\ epc' = IF quitReq THEN "quitCheck" ELSE "poll"
    /\ UNCHANGED <<cmdVars, runVars, sigVars, ecmd, where, tleft, asked, cliVars>>

\* The poll callback at the head of Board::execute_frame.  Each break makes
\* the frame return before its first instruction.  One step: each branch
\* writes at most one flag, the one it has just read as true, or sets pauseReq.
PollDebugger ==
    /\ epc = "poll"
    /\ moved' = FALSE
    /\ \/ /\ quitReq
          /\ epc' = "cmds"
          /\ UNCHANGED <<breakReq, pauseReq>>
       \/ /\ ~quitReq /\ breakReq
          /\ breakReq' = FALSE
          /\ epc' = "cmds"
          /\ UNCHANGED pauseReq
       \/ /\ ~quitReq /\ ~breakReq /\ (pauseReq \/ ~running)
          /\ pauseReq' = TRUE
          /\ epc' = "cmds"
          /\ UNCHANGED breakReq
       \/ /\ ~quitReq /\ ~breakReq /\ ~pauseReq /\ running
          /\ epc' = "inFrame"
          /\ UNCHANGED <<breakReq, pauseReq>>
    /\ UNCHANGED <<cmdVars, running, state, stopReason, skipBp, atBp, quitReq,
                   loopRunning, ecmd, where, tleft, asked, cliVars>>

\* The frame ends: at its last cycle, or on a breakpoint.
FrameDone ==
    /\ epc = "inFrame"
    /\ atBp' \in BOOLEAN
    /\ moved' \in BOOLEAN
    /\ epc' = "cmds"
    /\ UNCHANGED <<cmdVars, running, state, stopReason, skipBp, sigVars, ecmd,
                   where, tleft, asked, cliVars>>

\* The command loop between two frames (tryDequeue).
FrameCommands ==
    /\ epc = "cmds"
    /\ IF queue = <<>>
         THEN epc' = "check" /\ UNCHANGED <<queue, ecmd, where>>
         ELSE /\ ecmd' = Head(queue)
              /\ queue' = Tail(queue)
              /\ where' = "frame"
              /\ epc' = "proc"
    /\ UNCHANGED <<ctype, cstate, result, outcome, pending, freed, applied,
                   runVars, sigVars, tleft, asked, cliVars>>

\* Mutant: a pause request does not stop the loop.
FrameCheckNoPause ==
    /\ epc = "check"
    /\ \/ /\ ~moved /\ ~quitReq /\ atBp
          /\ running' = FALSE /\ stopReason' = "Breakpoint"
          /\ epc' = "end"
          /\ UNCHANGED <<state, pauseReq>>
       \/ /\ ~(~moved /\ ~quitReq /\ atBp)
          /\ ~running
          /\ running' = FALSE /\ stopReason' = "UserPause" /\ state' = "Paused"
          /\ pauseReq' = FALSE
          /\ epc' = "end"
       \/ /\ ~(~moved /\ ~quitReq /\ atBp)
          /\ running /\ atBp
          /\ running' = FALSE /\ stopReason' = "Breakpoint"
          /\ epc' = "end"
          /\ UNCHANGED <<state, pauseReq>>
       \/ /\ running /\ ~atBp
          /\ epc' = "loop"
          /\ UNCHANGED <<running, stopReason, state, pauseReq>>
    /\ UNCHANGED <<cmdVars, skipBp, atBp, moved, breakReq, quitReq, loopRunning,
                   ecmd, where, tleft, asked, cliVars>>

\* The three tests after the command loop.  One step: a flag that another
\* thread raises between two of them is a flag raised after all of them, and
\* the pause branch clears what it has just honoured.
FrameCheck ==
    /\ epc = "check"
    /\ \/ /\ ~moved /\ ~quitReq /\ atBp
          /\ running' = FALSE /\ stopReason' = "Breakpoint"
          /\ epc' = "end"
          /\ UNCHANGED <<state, pauseReq>>
       \/ /\ ~(~moved /\ ~quitReq /\ atBp)
          /\ pauseReq \/ ~running
          /\ running' = FALSE /\ stopReason' = "UserPause" /\ state' = "Paused"
          /\ pauseReq' = FALSE
          /\ epc' = "end"
       \/ /\ ~(~moved /\ ~quitReq /\ atBp)
          /\ ~pauseReq /\ running /\ atBp
          /\ running' = FALSE /\ stopReason' = "Breakpoint"
          /\ epc' = "end"
          /\ UNCHANGED <<state, pauseReq>>
       \/ /\ ~pauseReq /\ running /\ ~atBp
          /\ epc' = "loop"
          /\ UNCHANGED <<running, stopReason, state, pauseReq>>
    /\ UNCHANGED <<cmdVars, skipBp, atBp, moved, breakReq, quitReq, loopRunning,
                   ecmd, where, tleft, asked, cliVars>>

\* Mutant: state_ keeps its value when the loop ends.
FramesEndStillRunning ==
    /\ epc = "end"
    /\ UNCHANGED state
    /\ FulfillPausePromises
    /\ epc' = "quitCheck"
    /\ UNCHANGED <<queue, ctype, cstate, result, freed, applied, running,
                   stopReason, skipBp, atBp, moved, sigVars, ecmd, where, tleft,
                   asked, cliVars>>

\* Mutant: the pause promises are left pending.
FramesEndUnfulfilled ==
    /\ epc = "end"
    /\ state' = "Paused"
    /\ UNCHANGED <<outcome, pending>>
    /\ epc' = "quitCheck"
    /\ UNCHANGED <<queue, ctype, cstate, result, freed, applied, running,
                   stopReason, skipBp, atBp, moved, sigVars, ecmd, where, tleft,
                   asked, cliVars>>

\* executeFramesTarget_() after its loop.
FramesEnd ==
    /\ epc = "end"
    /\ state' = "Paused"
    /\ FulfillPausePromises
    /\ epc' = "quitCheck"
    /\ UNCHANGED <<queue, ctype, cstate, result, freed, applied, running,
                   stopReason, skipBp, atBp, moved, sigVars, ecmd, where, tleft,
                   asked, cliVars>>

QuitCheck ==
    /\ epc = "quitCheck"
    /\ epc' = IF quitReq THEN "drain" ELSE "wait"
    /\ UNCHANGED <<cmdVars, runVars, sigVars, ecmd, where, tleft, asked, cliVars>>

\* waitAndDequeue() in the main loop.
WaitAndDequeue ==
    /\ epc = "wait"
    /\ queue # <<>>
    /\ ecmd' = Head(queue)
    /\ queue' = Tail(queue)
    /\ where' = "main"
    /\ epc' = "proc"
    /\ UNCHANGED <<ctype, cstate, result, outcome, pending, freed, applied,
                   runVars, sigVars, tleft, asked, cliVars>>

\* Mutant: a drained command is cancelled and not answered.
DrainOneSilently ==
    /\ epc = "drain"
    /\ queue # <<>>
    /\ LET c == Head(queue) IN
         /\ IF cstate[c] = "Queued"
              THEN /\ cstate' = [cstate EXCEPT ![c] = "Cancelled"]
                   /\ UNCHANGED result
                   /\ outcome' = IF ctype[c] = "RunFuture"
                                   THEN [outcome EXCEPT ![c] = "Cancelled"]
                                   ELSE BrokenIfUnset(outcome, c)
              ELSE /\ outcome' = BrokenIfUnset(outcome, c)
                   /\ result' = BrokenIfUnset(result, c)
                   /\ UNCHANGED cstate
         /\ freed' = freed \cup {c}
    /\ queue' = Tail(queue)
    /\ UNCHANGED <<ctype, pending, applied, runVars, sigVars, emuVars, cliVars>>

\* One iteration of the drain loop: cancel what is still Queued, answer it and
\* destroy it.  One step: a client that loads the state in between sees
\* Cancelled and waits for the answer that follows.
DrainOne ==
    /\ epc = "drain"
    /\ queue # <<>>
    /\ LET c == Head(queue) IN
         /\ IF cstate[c] = "Queued"
              THEN /\ cstate' = [cstate EXCEPT ![c] = "Cancelled"]
                   /\ result' = [result EXCEPT ![c] = "Cancelled"]
                   /\ outcome' = IF ctype[c] = "RunFuture"
                                   THEN [outcome EXCEPT ![c] = "Cancelled"]
                                   ELSE BrokenIfUnset(outcome, c)
              ELSE /\ outcome' = BrokenIfUnset(outcome, c)
                   /\ result' = BrokenIfUnset(result, c)
                   /\ UNCHANGED cstate
         /\ freed' = freed \cup {c}
    /\ queue' = Tail(queue)
    /\ UNCHANGED <<ctype, pending, applied, runVars, sigVars, emuVars, cliVars>>

\* The queue is drained: runUntilPause() returns.
EmuExit ==
    /\ epc = "drain"
    /\ queue = <<>>
    /\ state' = "Paused"
    /\ FulfillPausePromises
    /\ loopRunning' = FALSE
    /\ epc' = "exited"
    /\ UNCHANGED <<queue, ctype, cstate, result, freed, applied, running,
                   stopReason, skipBp, atBp, moved, pauseReq, breakReq, quitReq,
                   ecmd, where, tleft, asked, cliVars>>

-----------------------------------------------------------------------------
(* processCommand() and executeCommand(), on the emulation thread *)

\* Mutant: a plain store in place of the CAS.
ProcessStore ==
    /\ epc = "proc"
    /\ IF cstate[ecmd] \in CommandStates
         THEN /\ cstate' = [cstate EXCEPT ![ecmd] = "Executing"]
              /\ epc' = "dispatch"
              /\ UNCHANGED result
         ELSE /\ result' = [result EXCEPT ![ecmd] = "Cancelled"]
              /\ epc' = "drop"
              /\ UNCHANGED cstate
    /\ UNCHANGED <<queue, ctype, outcome, pending, freed, applied, runVars,
                   sigVars, ecmd, where, tleft, asked, cliVars>>

\* CAS Queued -> Executing; a command its client cancelled is only answered.
ProcessCas ==
    /\ epc = "proc"
    /\ IF cstate[ecmd] = "Queued"
         THEN /\ cstate' = [cstate EXCEPT ![ecmd] = "Executing"]
              /\ epc' = "dispatch"
              /\ UNCHANGED result
         ELSE /\ result' = [result EXCEPT ![ecmd] = "Cancelled"]
              /\ epc' = "drop"
              /\ UNCHANGED cstate
    /\ UNCHANGED <<queue, ctype, outcome, pending, freed, applied, runVars,
                   sigVars, ecmd, where, tleft, asked, cliVars>>

\* Mutant: the refused command is executed all the same.
ProcessRefusedGoesOn ==
    /\ epc = "dispatch"
    /\ quitReq /\ ctype[ecmd] # "Quit"
    /\ cstate' = [cstate EXCEPT ![ecmd] = "Completed"]
    /\ result' = [result EXCEPT ![ecmd] = "Cancelled"]
    /\ epc' = "exec"
    /\ UNCHANGED <<queue, ctype, outcome, pending, freed, applied, runVars,
                   sigVars, ecmd, where, tleft, asked, cliVars>>

\* Mutant: the refused command is reported Completed.
ProcessRefusedAsDone ==
    /\ epc = "dispatch"
    /\ quitReq /\ ctype[ecmd] # "Quit"
    /\ cstate' = [cstate EXCEPT ![ecmd] = "Completed"]
    /\ result' = [result EXCEPT ![ecmd] = "Completed"]
    /\ epc' = "dropBreak"
    /\ UNCHANGED <<queue, ctype, outcome, pending, freed, applied, runVars,
                   sigVars, ecmd, where, tleft, asked, cliVars>>

\* After a quit request every command but Quit is refused.
ProcessRefused ==
    /\ epc = "dispatch"
    /\ quitReq /\ ctype[ecmd] # "Quit"
    /\ cstate' = [cstate EXCEPT ![ecmd] = "Completed"]
    /\ result' = [result EXCEPT ![ecmd] = "Cancelled"]
    /\ epc' = "dropBreak"
    /\ UNCHANGED <<queue, ctype, outcome, pending, freed, applied, runVars,
                   sigVars, ecmd, where, tleft, asked, cliVars>>

ProcessQuit ==
    /\ epc = "dispatch"
    /\ ctype[ecmd] = "Quit"
    /\ quitReq' = TRUE
    /\ running' = FALSE
    /\ state' = "Paused"
    /\ cstate' = [cstate EXCEPT ![ecmd] = "Completed"]
    /\ result' = [result EXCEPT ![ecmd] = "Completed"]
    /\ applied' = applied \cup {ecmd}
    /\ FulfillPausePromises
    /\ epc' = "dropBreak"
    /\ UNCHANGED <<queue, ctype, freed, stopReason, skipBp, atBp, moved,
                   pauseReq, breakReq, loopRunning, ecmd, where, tleft, asked,
                   cliVars>>

\* A trace pauses the machine before it runs.
ProcessTrace ==
    /\ epc = "dispatch"
    /\ ~quitReq /\ ctype[ecmd] = "Trace"
    /\ running' = FALSE
    /\ state' = "Paused"
    /\ pauseReq' = FALSE
    /\ tleft' = MaxTrace
    /\ asked' = FALSE
    /\ epc' = "trace"
    /\ UNCHANGED <<cmdVars, stopReason, skipBp, atBp, moved, breakReq, quitReq,
                   loopRunning, ecmd, where, cliVars>>

ProcessOther ==
    /\ epc = "dispatch"
    /\ ~quitReq /\ ctype[ecmd] \notin {"Quit", "Trace"}
    /\ epc' = "exec"
    /\ UNCHANGED <<cmdVars, runVars, sigVars, ecmd, where, tleft, asked, cliVars>>

\* executeTraceInternal(): the flags are read before every instruction.
TraceStops(why) ==
    /\ Answer("Completed")
    /\ outcome' = [outcome EXCEPT ![ecmd] = why]
    /\ UNCHANGED tleft

\* Mutant: the trace loop runs once too often.
TraceStepOnce ==
    /\ epc = "trace"
    /\ \/ /\ breakReq \/ quitReq
          /\ TraceStops("Timeout")
          /\ UNCHANGED <<stopReason, atBp>>
       \/ /\ ~breakReq /\ ~quitReq
          /\ stopReason' = "Step"
          /\ atBp' \in BOOLEAN
          /\ \/ TraceStops("Ret")
             \/ /\ tleft' = tleft - 1
                /\ UNCHANGED <<result, outcome, applied, epc>>
    /\ UNCHANGED <<queue, ctype, cstate, pending, freed, running, state, skipBp,
                   moved, sigVars, ecmd, where, asked, cliVars>>

TraceStep ==
    /\ epc = "trace"
    /\ \/ /\ tleft = 0 \/ breakReq \/ quitReq
          /\ TraceStops("Timeout")
          /\ UNCHANGED <<stopReason, atBp>>
       \/ /\ tleft > 0 /\ ~breakReq /\ ~quitReq
          /\ stopReason' = "Step"
          /\ atBp' \in BOOLEAN
          /\ \/ TraceStops("Ret")
             \/ /\ tleft' = tleft - 1
                /\ UNCHANGED <<result, outcome, applied, epc>>
    /\ UNCHANGED <<queue, ctype, cstate, pending, freed, running, state, skipBp,
                   moved, sigVars, ecmd, where, asked, cliVars>>

\* CommandType::Run, first half: the promise is kept, running_ is set.
ExecRun ==
    /\ epc = "exec"
    /\ ctype[ecmd] \in {"Run", "RunFuture"}
    /\ pending' = IF ctype[ecmd] = "RunFuture" THEN pending \cup {ecmd} ELSE pending
    /\ running' = TRUE
    /\ epc' = "runState"
    /\ UNCHANGED <<queue, ctype, cstate, result, outcome, freed, applied, state,
                   stopReason, skipBp, atBp, moved, sigVars, ecmd, where, tleft,
                   asked, cliVars>>

\* Second half, under stateMutex_.
ExecRunState ==
    /\ epc = "runState"
    /\ state' = "Running"
    /\ pauseReq' = FALSE
    /\ skipBp' = atBp
    /\ Answer("Completed")
    /\ UNCHANGED <<queue, ctype, cstate, outcome, pending, freed, running,
                   stopReason, atBp, moved, breakReq, quitReq, loopRunning, ecmd,
                   where, tleft, asked, cliVars>>

ExecStep ==
    /\ epc = "exec"
    /\ ctype[ecmd] = "Step"
    /\ stopReason' = "Step"
    /\ atBp' \in BOOLEAN
    /\ Answer("Completed")
    /\ UNCHANGED <<queue, ctype, cstate, outcome, pending, freed, running, state,
                   skipBp, moved, sigVars, ecmd, where, tleft, asked, cliVars>>

\* CommandType::Reset and Restart differ only in what the machine does.
ExecReset ==
    /\ epc = "exec"
    /\ ctype[ecmd] = "Reset"
    /\ running' = FALSE
    /\ state' = "Paused"
    /\ pauseReq' = FALSE
    /\ stopReason' = "Reset"
    /\ atBp' \in BOOLEAN
    /\ Answer("Completed")
    /\ UNCHANGED <<queue, ctype, cstate, outcome, pending, freed, skipBp, moved,
                   breakReq, quitReq, loopRunning, ecmd, where, tleft, asked,
                   cliVars>>

\* The machine is replaced; state_ is left to the client (StopFlags below).
ExecLoadRom ==
    /\ epc = "exec"
    /\ ctype[ecmd] = "LoadRom"
    /\ running' = FALSE
    /\ atBp' \in BOOLEAN
    /\ \E r \in {"Completed", "Failed"} : Answer(r)
    /\ UNCHANGED <<queue, ctype, cstate, outcome, pending, freed, state,
                   stopReason, skipBp, moved, sigVars, ecmd, where, tleft, asked,
                   cliVars>>

\* MemoryWrite, RegisterWrite and IoWrite: refused unless Paused.  A register
\* write may move the PC.
ExecWrite ==
    /\ epc = "exec"
    /\ ctype[ecmd] = "Write"
    /\ IF state = "Paused"
         THEN atBp' \in BOOLEAN /\ Answer("Completed")
         ELSE UNCHANGED atBp /\ Answer("Failed")
    /\ UNCHANGED <<queue, ctype, cstate, outcome, pending, freed, running, state,
                   stopReason, skipBp, moved, sigVars, ecmd, where, tleft, asked,
                   cliVars>>

\* Mutant: a failed edit is tried again.
ExecEditAgain ==
    /\ epc = "exec"
    /\ ctype[ecmd] = "Edit"
    /\ atBp' \in BOOLEAN
    /\ \/ Answer("Completed")
       \/ UNCHANGED <<result, applied, epc>>
    /\ UNCHANGED <<queue, ctype, cstate, outcome, pending, freed, running, state,
                   stopReason, skipBp, moved, sigVars, ecmd, where, tleft, asked,
                   cliVars>>

\* The breakpoint and symbol commands.
ExecEdit ==
    /\ epc = "exec"
    /\ ctype[ecmd] = "Edit"
    /\ atBp' \in BOOLEAN
    /\ \E r \in {"Completed", "Failed"} : Answer(r)
    /\ UNCHANGED <<queue, ctype, cstate, outcome, pending, freed, running, state,
                   stopReason, skipBp, moved, sigVars, ecmd, where, tleft, asked,
                   cliVars>>

\* Mutant: the pause promises are fulfilled after any command.
ProcessDoneFulfils ==
    /\ epc = "done"
    /\ cstate' = [cstate EXCEPT ![ecmd] = "Completed"]
    /\ FulfillPausePromises
    /\ epc' = "drop"
    /\ UNCHANGED <<queue, ctype, result, freed, applied, runVars, sigVars, ecmd,
                   where, tleft, asked, cliVars>>

\* processCommand() after executeCommand().
ProcessDone ==
    /\ epc = "done"
    /\ cstate' = [cstate EXCEPT ![ecmd] = "Completed"]
    /\ IF state = "Paused" THEN FulfillPausePromises ELSE UNCHANGED <<outcome, pending>>
    /\ epc' = "drop"
    /\ UNCHANGED <<queue, ctype, result, freed, applied, runVars, sigVars, ecmd,
                   where, tleft, asked, cliVars>>

\* The caller of processCommand() lets its unique_ptr go.
DropCommand ==
    /\ epc \in {"drop", "dropBreak"}
    /\ freed' = freed \cup {ecmd}
    /\ outcome' = BrokenIfUnset(outcome, ecmd)
    /\ ecmd' = None
    /\ epc' = IF where = "main" THEN "top"
              ELSE IF epc = "drop" THEN "cmds" ELSE "check"
    /\ UNCHANGED <<queue, ctype, cstate, result, pending, applied, runVars,
                   sigVars, where, tleft, asked, cliVars>>

EmuNext ==
    \/ EmuStart \/ EmuTop \/ FramePrologue \/ FrameLoop \/ FrameLoopQuit
    \/ PollDebugger \/ FrameDone \/ FrameCommands \/ FrameCheck \/ FramesEnd
    \/ QuitCheck \/ WaitAndDequeue \/ DrainOne \/ EmuExit
    \/ ProcessCas \/ ProcessRefused \/ ProcessQuit \/ ProcessTrace \/ ProcessOther
    \/ TraceStep \/ ExecRun \/ ExecRunState \/ ExecStep \/ ExecReset
    \/ ExecLoadRom \/ ExecWrite \/ ExecEdit \/ ProcessDone \/ DropCommand

-----------------------------------------------------------------------------
(* The clients *)

Goto(p, pc) == cpc' = [cpc EXCEPT ![p] = pc]

\* submitAndWait(): enqueue, then wait for at most five seconds.  A ROM load
\* comes here only when the emulation loop is up.
Submit(p, op, c) ==
    /\ cpc[p] = "idle"
    /\ op \in SubmitOps
    /\ op = "LoadRom" => loopRunning
    /\ Enqueue(c, op)
    /\ ccmd' = [ccmd EXCEPT ![p] = c]
    /\ Goto(p, "wait")
    /\ UNCHANGED <<runVars, sigVars, emuVars, reply>>

\* submitAndWait() returns r.  loadRom() goes on with its own part.
Return(p, r) ==
    /\ reply' = [reply EXCEPT ![ccmd[p]] = r]
    /\ IF ctype[ccmd[p]] = "LoadRom" /\ r = "Completed"
         THEN Goto(p, "rom0") /\ UNCHANGED ccmd
         ELSE Goto(p, "idle") /\ ccmd' = [ccmd EXCEPT ![p] = None]

\* The future is ready, within the five seconds or in the unbounded get().
ReadyInTime(p) ==
    /\ cpc[p] \in {"wait", "get"}
    /\ ctype[ccmd[p]] \in SubmitOps
    /\ result[ccmd[p]] \in Answers
    /\ Return(p, result[ccmd[p]])
    /\ UNCHANGED <<cmdVars, runVars, sigVars, emuVars>>

WaitTimesOut(p) ==
    /\ cpc[p] = "wait"
    /\ result[ccmd[p]] = "unset"
    /\ Goto(p, "check")
    /\ UNCHANGED <<cmdVars, runVars, sigVars, emuVars, ccmd, reply>>

\* rawCmd->state: once the emulation thread has destroyed the command, the
\* load returns whatever the memory holds.
StateReads(c) == IF c \in freed THEN FreedReads ELSE {cstate[c]}

CheckState(p) ==
    /\ cpc[p] = "check"
    /\ \E s \in StateReads(ccmd[p]) :
         Goto(p, IF s = "Executing" THEN "get" ELSE "cas")
    /\ UNCHANGED <<cmdVars, runVars, sigVars, emuVars, ccmd, reply>>

\* Mutant: a plain store in place of the CAS.
CancelStore(p) ==
    /\ cpc[p] = "cas"
    /\ \E s \in StateReads(ccmd[p]) :
         IF s \in CommandStates
           THEN /\ cstate' = IF ccmd[p] \in freed THEN cstate
                             ELSE [cstate EXCEPT ![ccmd[p]] = "Cancelled"]
                /\ Return(p, "Timeout")
           ELSE Goto(p, "get") /\ UNCHANGED <<cstate, ccmd, reply>>
    /\ UNCHANGED <<queue, ctype, result, outcome, pending, freed, applied,
                   runVars, sigVars, emuVars>>

\* CAS Queued -> Cancelled.  A write to freed memory changes no command.
CancelCas(p) ==
    /\ cpc[p] = "cas"
    /\ \E s \in StateReads(ccmd[p]) :
         IF s = "Queued"
           THEN /\ cstate' = IF ccmd[p] \in freed THEN cstate
                             ELSE [cstate EXCEPT ![ccmd[p]] = "Cancelled"]
                /\ Return(p, "Timeout")
           ELSE Goto(p, "get") /\ UNCHANGED <<cstate, ccmd, reply>>
    /\ UNCHANGED <<queue, ctype, result, outcome, pending, freed, applied,
                   runVars, sigVars, emuVars>>

\* requestRunFuture() and requestExecuteTrace() wait without a limit, first for
\* the command and then, in the caller, for the future they return.
SubmitFuture(p, op, c) ==
    /\ cpc[p] = "idle"
    /\ op \in FutureOps
    /\ Enqueue(c, op)
    /\ ccmd' = [ccmd EXCEPT ![p] = c]
    /\ Goto(p, "get")
    /\ UNCHANGED <<runVars, sigVars, emuVars, reply>>

FutureAccepted(p) ==
    /\ cpc[p] = "get"
    /\ ctype[ccmd[p]] \in FutureOps
    /\ result[ccmd[p]] \in Answers
    /\ Goto(p, "future")
    /\ UNCHANGED <<cmdVars, runVars, sigVars, emuVars, ccmd, reply>>

FutureReady(p) ==
    /\ cpc[p] = "future"
    /\ outcome[ccmd[p]] # "unset"
    /\ Goto(p, "idle")
    /\ ccmd' = [ccmd EXCEPT ![p] = None]
    /\ UNCHANGED <<cmdVars, runVars, sigVars, emuVars, reply>>

\* requestPause(): two atomic stores.
RequestPause(p) ==
    /\ cpc[p] = "idle"
    /\ pauseReq' = TRUE
    /\ Goto(p, "pause2")
    /\ UNCHANGED <<cmdVars, runVars, breakReq, quitReq, loopRunning, emuVars,
                   ccmd, reply>>

RequestBreak(p) ==
    /\ cpc[p] = "pause2"
    /\ breakReq' = TRUE
    /\ asked' = (asked \/ epc = "trace")
    /\ Goto(p, "idle")
    /\ UNCHANGED <<cmdVars, runVars, pauseReq, quitReq, loopRunning, epc, ecmd,
                   where, tleft, ccmd, reply>>

\* requestQuit(): the signal, then the command.  Its callers go on to join the
\* emulation thread and make no other call.
RequestQuit(p, c) ==
    /\ cpc[p] = "idle"
    /\ cstate[c] = "None"
    /\ quitReq' = TRUE
    /\ asked' = (asked \/ epc = "trace")
    /\ cstate' = [cstate EXCEPT ![c] = "Queued"]
    /\ ccmd' = [ccmd EXCEPT ![p] = c]
    /\ Goto(p, "quit2")
    /\ UNCHANGED <<queue, ctype, result, outcome, pending, freed, applied,
                   runVars, pauseReq, breakReq, loopRunning, epc, ecmd, where,
                   tleft, reply>>

\* Mutant: the signal alone, without the command.
EnqueueNoQuit(p) ==
    /\ cpc[p] = "quit2"
    /\ UNCHANGED queue
    /\ ccmd' = [ccmd EXCEPT ![p] = None]
    /\ Goto(p, "gone")
    /\ UNCHANGED <<ctype, cstate, result, outcome, pending, freed, applied,
                   runVars, sigVars, emuVars, reply>>

EnqueueQuit(p) ==
    /\ cpc[p] = "quit2"
    /\ queue' = Append(queue, ccmd[p])
    /\ ccmd' = [ccmd EXCEPT ![p] = None]
    /\ Goto(p, "gone")
    /\ UNCHANGED <<ctype, cstate, result, outcome, pending, freed, applied,
                   runVars, sigVars, emuVars, reply>>

\* loadRom() before the emulation loop is up (or after it has ended): the
\* command runs on the caller's thread.
LoadRomDirect(p, c) ==
    /\ cpc[p] = "idle"
    /\ ~loopRunning
    /\ cstate[c] = "None"
    /\ ctype' = [ctype EXCEPT ![c] = "LoadRom"]
    /\ cstate' = [cstate EXCEPT ![c] = "Executing"]
    /\ ccmd' = [ccmd EXCEPT ![p] = c]
    /\ Goto(p, "romDirect")
    /\ UNCHANGED <<queue, result, outcome, pending, freed, applied, runVars,
                   sigVars, emuVars, reply>>

LoadRomHere(p) ==
    /\ cpc[p] = "romDirect"
    /\ running' = FALSE
    /\ atBp' \in BOOLEAN
    /\ applied' = applied \cup {ccmd[p]}
    /\ \E r \in {"Completed", "Failed"} : result' = [result EXCEPT ![ccmd[p]] = r]
    /\ Goto(p, "get")
    /\ UNCHANGED <<queue, ctype, cstate, outcome, pending, freed, state,
                   stopReason, skipBp, moved, sigVars, emuVars, ccmd, reply>>

\* What loadRom() does itself after the load: breakpoints, then the flags.
ClearForRom(p) ==
    /\ cpc[p] = "rom0"
    /\ atBp' = FALSE
    /\ Goto(p, "stop1")
    /\ UNCHANGED <<cmdVars, running, state, stopReason, skipBp, moved, sigVars,
                   emuVars, ccmd, reply>>

\* loadWav() stores the same flags, then loads the tape itself.
LoadWav(p) ==
    /\ cpc[p] = "idle"
    /\ Goto(p, "stop1")
    /\ UNCHANGED <<cmdVars, runVars, sigVars, emuVars, ccmd, reply>>

StopFlags(p) ==
    /\ \/ /\ cpc[p] = "stop1"
          /\ running' = FALSE
          /\ Goto(p, "stop2")
          /\ UNCHANGED <<state, pauseReq, ccmd>>
       \/ /\ cpc[p] = "stop2"
          /\ state' = "Paused"
          /\ Goto(p, "stop3")
          /\ UNCHANGED <<running, pauseReq, ccmd>>
       \/ /\ cpc[p] = "stop3"
          /\ pauseReq' = FALSE
          /\ Goto(p, IF ccmd[p] = None THEN "wavLoad" ELSE "idle")
          /\ ccmd' = [ccmd EXCEPT ![p] = None]
          /\ UNCHANGED <<running, state>>
    /\ UNCHANGED <<cmdVars, stopReason, skipBp, atBp, moved, breakReq, quitReq,
                   loopRunning, emuVars, reply>>

LoadWavHere(p) ==
    /\ cpc[p] = "wavLoad"
    /\ Goto(p, "idle")
    /\ UNCHANGED <<cmdVars, runVars, sigVars, emuVars, ccmd, reply>>

\* Mutant: isPaused() is not asked.
AgentStepAlways(p) ==
    /\ cpc[p] = "idle"
    /\ Goto(p, "stepCpu")
    /\ UNCHANGED <<cmdVars, runVars, sigVars, emuVars, ccmd, reply>>

\* AgentApi::step(): isPaused(), then stepInstruction() on the caller's thread.
AgentStep(p) ==
    /\ cpc[p] = "idle"
    /\ state = "Paused"
    /\ Goto(p, "stepCpu")
    /\ UNCHANGED <<cmdVars, runVars, sigVars, emuVars, ccmd, reply>>

AgentStepHere(p) ==
    /\ cpc[p] = "stepCpu"
    /\ stopReason' = "Step"
    /\ atBp' \in BOOLEAN
    /\ Goto(p, "idle")
    /\ UNCHANGED <<cmdVars, running, state, skipBp, moved, sigVars, emuVars,
                   ccmd, reply>>

\* A client starts a call, or takes the next step of the one it is in.
ClientCall(p) ==
    \/ \E op \in Ops, c \in Commands : Submit(p, op, c) \/ SubmitFuture(p, op, c)
    \/ "Pause" \in Ops /\ RequestPause(p)
    \/ "Quit" \in Ops /\ \E c \in Commands : RequestQuit(p, c)
    \/ "LoadRom" \in Ops /\ \E c \in Commands : LoadRomDirect(p, c)
    \/ "LoadWav" \in Ops /\ LoadWav(p)
    \/ "AgentStep" \in Ops /\ AgentStep(p)

ClientStep(p) ==
    \/ ReadyInTime(p) \/ WaitTimesOut(p) \/ CheckState(p) \/ CancelCas(p)
    \/ FutureAccepted(p) \/ FutureReady(p) \/ RequestBreak(p)
    \/ EnqueueQuit(p)
    \/ LoadRomHere(p) \/ ClearForRom(p) \/ StopFlags(p) \/ LoadWavHere(p)
    \/ AgentStepHere(p)

\* No call is in progress and the emulation thread waits for one, or is gone:
\* the only state in which the program may stay for ever.
Rest ==
    /\ \A p \in Clients : cpc[p] \in {"idle", "gone"}
    /\ epc = "exited" \/ (epc = "wait" /\ queue = <<>>)
    /\ UNCHANGED vars

Next ==
    \/ EmuNext
    \/ \E p \in Clients : ClientCall(p) \/ ClientStep(p)
    \/ Rest

Spec == Init /\ [][Next]_vars

\* The threads are scheduled fairly: no mutex is held across a wait, and a
\* call in progress is carried on.  Nobody is obliged to start a call.
Fairness == WF_vars(EmuNext) /\ \A p \in Clients : WF_vars(ClientStep(p))

FairSpec == Spec /\ Fairness

-----------------------------------------------------------------------------
(* Properties *)

CommandsTypeOK ==
    /\ queue \in Seq(Commands)
    /\ ctype \in [Commands -> CommandTypes]
    /\ cstate \in [Commands -> CommandStates \cup {"None"}]
    /\ result \in [Commands -> Answers \cup {"unset", "broken"}]
    /\ outcome \in [Commands -> Outcomes]
    /\ pending \subseteq Commands
    /\ freed \subseteq Commands
    /\ applied \subseteq Commands

FlagsTypeOK ==
    /\ running \in BOOLEAN
    /\ skipBp \in BOOLEAN /\ atBp \in BOOLEAN /\ moved \in BOOLEAN
    /\ pauseReq \in BOOLEAN /\ breakReq \in BOOLEAN /\ quitReq \in BOOLEAN
    /\ loopRunning \in BOOLEAN
    /\ asked \in BOOLEAN

ThreadsTypeOK ==
    /\ state \in {"Paused", "Running"}
    /\ stopReason \in {"None", "UserPause", "Breakpoint", "Step", "Reset"}
    /\ epc \in EmuPcs
    /\ ecmd \in Commands \cup {None}
    /\ where \in {"main", "frame"}
    /\ tleft \in 0..MaxTrace
    /\ cpc \in [Clients -> ClientPcs]
    /\ ccmd \in [Clients -> Commands \cup {None}]
    /\ reply \in [Commands -> Answers \cup {"none", "Timeout"}]

\* The ranges of the state of debugger/src/backend.h.
TypeOK == CommandsTypeOK /\ FlagsTypeOK /\ ThreadsTypeOK

\* The emulation thread holds a command, and may carry it out.
Holding  == {"proc", "dispatch", "exec", "runState", "trace", "done", "drop", "dropBreak"}
Carrying == {"dispatch", "exec", "runState", "trace", "done"}

\* A client is inside a call that allocated a command.
Calling == {"wait", "check", "cas", "get", "future", "quit2", "romDirect", "rom0"}

\* Who owns a command: what is carried out is Executing from the CAS of
\* processCommand() to the store of Completed, so that no client can cancel it;
\* what a client was told has timed out stays Cancelled.
Ownership ==
    /\ epc \in Holding => ecmd \in Commands
    /\ epc \in Carrying => cstate[ecmd] = "Executing"
    /\ \A p \in Clients : cpc[p] \in Calling => ccmd[p] \in Commands
    /\ \A p \in Clients : cpc[p] = "romDirect" => cstate[ccmd[p]] \in {"Executing", "Completed"}
    /\ \A c \in applied : cstate[c] \in {"Executing", "Completed"}
    /\ \A c \in Commands : reply[c] = "Timeout" => cstate[c] = "Cancelled"

\* submitAndWait() answers Timeout only for a command that has not been and
\* will never be carried out: the two CAS on Command::state exclude each other.
TimeoutMeansNotExecuted ==
    \A c \in Commands : reply[c] = "Timeout" => c \notin applied

LifecycleSteps ==
    {<<"None", "Queued">>, <<"None", "Executing">>, <<"Queued", "Executing">>,
     <<"Queued", "Cancelled">>, <<"Executing", "Completed">>}

\* Command::state takes only the transitions of backend.h: Queued to Executing,
\* Queued to Cancelled, Executing to Completed.  (A ROM load on the caller's
\* thread is born Executing.)
Lifecycle ==
    [][\A c \in Commands : cstate'[c] # cstate[c]
          => <<cstate[c], cstate'[c]>> \in LifecycleSteps]_vars

\* No promise is set twice (std::promise would throw on the emulation thread),
\* and an answer once given never changes.
PromiseSetOnce ==
    [][\A c \in Commands :
          /\ result[c] \in Answers => result'[c] = result[c]
          /\ outcome[c] \notin {"none", "unset"} => outcome'[c] = outcome[c]]_vars

\* running_ and state_ are stored one after the other, by the emulation thread
\* and by the clients that load a ROM or a WAV file.  When the emulation thread
\* blocks for a command the machine is stopped and isPaused() says so, or is
\* about to: the client that has stored the one flag is on its way to the other.
\* A frame is executed as Running, or is the rest of one that loadWav() has
\* stopped without waiting for it, after which no other follows.  (So for one
\* client, with every call it makes, and for any number that load nothing; a
\* LoadWav that meets the Run of another client leaves the flags different.)
FlagsAgree ==
    /\ epc = "wait" => ~running /\ (state = "Paused" \/ \E p \in Clients : cpc[p] = "stop2")
    /\ epc = "inFrame" => state = "Running" \/ ~running

\* When the emulation thread blocks for a command, no caller of
\* requestRunFuture() is left waiting for the pause that has happened.
NoPromiseForgotten == epc = "wait" => pending = {}

\* A pause promise is fulfilled only when the machine has stopped: no frame
\* follows without another Run, or the emulation thread has ended.
FulfilledMeansPaused ==
    [][\A c \in Commands :
          outcome[c] = "unset" /\ outcome'[c] = "Completed"
             => state' = "Paused" /\ (~running' \/ epc' = "exited")]_vars

\* The places at which the emulation thread uses the machine, and those at which
\* a client does so from its own thread.
EmuInMachine    == {"prologue", "inFrame", "trace", "exec"}
ClientInMachine == {"romDirect", "stepCpu", "wavLoad"}

\* Two threads are in the machine at once in one case only: loadWav() stores
\* running_ and state_ while a frame executes and does not wait for its end, so
\* the load of the tape, and a step() that meanwhile sees isPaused(), run
\* beside the rest of that frame.  A frame that goes on, a trace or a command is
\* never interfered with.  (So for one client, with every call it makes.)
OverlapOnlyInStoppedFrame ==
    \A p \in Clients :
        cpc[p] \in ClientInMachine /\ epc \in EmuInMachine
           => epc \in {"prologue", "inFrame"} /\ ~running

\* After runUntilPause() has returned, every command it took from the queue has
\* its answer, and so has every pause promise it kept.
ExitAnswersAll ==
    epc = "exited" =>
        /\ pending = {}
        /\ \A c \in freed : result[c] \in Answers \/ reply[c] = "Timeout"

\* Every submitAndWait() returns, whatever the emulation thread does.
CallsReturn ==
    \A p \in Clients :
        cpc[p] \in {"wait", "check", "cas", "get"} ~> cpc[p] \notin {"wait", "check", "cas", "get"}

\* requestQuit() ends the emulation thread.
QuitTerminates == quitReq ~> epc = "exited"

\* A pause requested while the machine runs stops it, unless a later Run
\* command withdraws the request or the thread ends.
PauseHonoured == (pauseReq /\ running) ~> (~running \/ epc \in {"runState", "exited"})

\* The promise of requestRunFuture() and that of requestExecuteTrace() are set
\* before their command is destroyed, on quit as well: no future is broken.
FuturesKept == \A c \in Commands : outcome[c] # "broken"

\* A trace that reports Timeout has used up its instructions or was asked to
\* stop while it ran.
TraceTimeoutIsReal ==
    [][epc = "trace" /\ epc' = "done" /\ outcome'[ecmd] = "Timeout"
          => tleft = 0 \/ asked]_vars

\* The frame loop leaves the stop reason that a Reset has just recorded.
ResetReasonKept == [][stopReason = "Reset" /\ epc = "check" => stopReason' = "Reset"]_vars

\* How Command::state and the ghost tell what became of a command.
ServicePhase ==
    [c \in Commands |->
       IF cstate[c] = "None" THEN "unsubmitted"
       ELSE IF c \in applied THEN "applied"
       ELSE IF cstate[c] \in {"Cancelled", "Completed"} THEN "withdrawn"
       ELSE "pending"]

Service == INSTANCE CommandService WITH phase <- ServicePhase

\* The queue, the two CAS, the timeout and the drain implement the service.
ImplementsService == Service!Spec
=============================================================================
