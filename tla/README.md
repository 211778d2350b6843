# A TLA+ development for vector-debugger

vector-debugger is an emulator of the Vector-06C home computer (`src/`) with a
debugger (`debugger/`) that can be driven by a GUI, by an MCP server and by
tests.  This directory holds TLA+ models of its debugger core, of the debugger's
bookkeeping and files, of the emulator's threads and of the machine's devices;
TLC configurations that check them on small instances; and TLAPS proofs of what
matters most for instances of any size.

## 1. The system

### Components

| Component | State | Operations | Interacts with |
|---|---|---|---|
| **DebugBackend, command protocol** (`backend.cpp`) | command queue; `running_`, `state_`, `stopReason_`, `skipBreakpoint_`; atomic signals `pauseRequestedAtomic_`, `breakRequested_`, `quitRequested_`; `pendingPausePromises_` | `submitAndWait`, `requestRunFuture`, `requestExecuteTrace`, `requestPause`, `requestQuit`, `loadRom`, `loadWav`; on the emulation thread `runUntilPause`, `processCommand`, `executeCommand`, `executeFramesTarget_`, `executeTraceInternal` | clients through the queue, futures and atomics; the machine through `IDebugTarget` |
| **Breakpoints** (`backend.cpp`, `debug_adapter.cpp`, `board.cpp`) | `breakpoints_`; `syncedBreakpoints_`; `Board::breakpoints` | add, remove, enable, disable, clear; sync; `check_breakpoint` before every instruction; run over a breakpoint; skip an instruction | three owners of one list, two threads |
| **Runtime access log** (`ring_buffer.h`, `backend.cpp`) | ring buffer, access map, sequence counter | `onMemoryRead`, `onMemoryWrite`, the two clears, `snapshot` | written by the emulation thread, cleared and read by clients |
| **Instrumentation** (`backend.cpp`) | fetch classifier, execute counts, histories, statistics | memory and port callbacks | called by the CPU |
| Memory snapshots (`backend.cpp`) | named copies of memory | take, compare, invalidate | |
| DebugAdapter (`debug_adapter.cpp`) | timer, PC0 and palette mirrors | loads, resets, steps, frames | backend, Board |
| Debug memory, VRAM mapping | - | address arithmetic | GUI |
| **Symbol database, ROM database (RDB), map import** | objects, dirty flag, path; symbols and where they came from; the `.rdb` files | create, rename, remove, load, reload, save, import | `loadRom`, clients, the emulation thread, other programs |
| Disassembler, opcode table | - | decoding | backend, GUI, API |
| Agent API, MCP server (`agent/`, `mcp/`) | log, traces, analysis | one method per tool | a client of the backend |
| Debugger GUI (`gui/`) | windows | one frame per display refresh | a client of the backend |
| Assembly exporter, PNG encoder | - | output | |
| **Board** (`board.cpp`) | interrupt latch, frame clock, watchpoints | `execute_frame`, `single_step` | CPU, filler, devices |
| **Emulator threads** (`emulator.cpp`) | two event queues | UI loop, engine loop, frame timer | Board, SDL, GDB server |
| **Soundnik** (`sound.cpp`) | ring of sample buffers | `sample`, audio callback | Board and the audio thread |
| **i8253, FD1793, paged memory**, keyboard and ports | device registers | port reads and writes, ticks | Board |
| i8080, filler, TV | registers, raster | instruction, raster | Board |
| **GDB server** (`server.cpp`) | sessions, watchpoints and listeners | break, continue, breakpoints | Board |
| Scripting, options, WAV; Android port, tools | - | | |

The ones in bold are modelled, in whole or in part; `PROJECT.json` lists each
with what is, and is not, modelled of it.

### Threads

One *emulation thread* sits in `runUntilPause()`.  It sleeps in
`waitAndDequeue()` while the machine is stopped; a `Run` makes it execute
frames, between which it carries out queued commands.  Any number of *client*
threads (the GUI's main thread, the MCP loop, tests) call the backend.  Most
calls allocate a `Command`, enqueue it and wait at most five seconds for its
promise; on a timeout the client tries to cancel the command with a
compare-and-swap that races with the one of the emulation thread.  `Pause` and
`Quit` are signalled through atomics.  A few calls (`loadWav`, `AgentApi::step`,
the second half of `loadRom`, the clears of the access log, edits and saves of
the ROM database) act on the caller's thread.

The emulator without the debugger has threads of its own: the *UI thread* in
`run_event_loop()` and the *engine* in `threadfunc()`, with a queue each way,
and a source of frames that depends on the options: the *audio callback*, an SDL
*timer* (`--nosound`), or the UI thread itself (`--nosound --novideo`).  The GDB
server is polled by the engine between frames.

### What is hard about it, and what makes it correct

* *The timeout race.*  A caller that is told Timeout relies on its command not
  being carried out, now or later.
* *Promises.*  Each command carries up to two; each must be set once, on every
  path, shutdown included.
* *Two flags for one fact.*  `running_` steers the frame loop, `state_` answers
  `isPaused()` and guards writes; they are stored at different moments by
  different threads.
* *One machine, several threads.*  Some calls act on the machine from the caller's
  thread; a frame that they meet must at least be one that has been told to stop.
* *Three breakpoint lists* that are updated by difference: the CPU must stop on
  exactly the breakpoints the user sees, and `Run` must get off the one it
  stands on.
* *A log without a lock.*  The map, the log and the counter are updated in three
  steps, and cleared by another thread in three others, at any moment.
* *Guessing what the CPU does.*  `onMemoryRead()` sees addresses and a PC and
  must tell opcode, operand and data apart.
* *A save in several steps* with an edit, a failure or a crash between them.
* *A ring without an overrun check*, written and read by two threads.
* *Devices that move when polled*: a transfer that was given up half way, a count
  read in two bytes while it runs, a request raised in the middle of an
  instruction, debuggers that connect, overlap, detach or are cut off.

The hazards in `PROJECT.json` give the line at which each of these bites.

## 2. Modules

| Module | Models |
|---|---|
| `CommandService` | what `submitAndWait()` promises: a command is carried out or withdrawn, and the caller learns which |
| `DebugBackend` | the command protocol: queue, clients, emulation thread |
| `MCDebugBackend` | symmetry sets for its runs |
| `DebugBackendProofs` | its types, the ownership of commands and what follows for timeouts |
| `CommandServiceProofs` | that it implements `CommandService`; its promises, its flags, and who is in the machine |
| `Breakpoints`, `MCBreakpoints`, `BreakpointsProofs` | the three lists, the frame, Run, Step, Skip, ROM load |
| `BoundedLog` | what a bounded log is: the newest entries in order |
| `AccessLog`, `MCAccessLog`, `AccessLogProofs` | the ring buffer, the access map and the sequence numbers |
| `Opcodes` | the debugger's table of instruction lengths and the accesses the CPU really makes, for all 256 opcodes |
| `Accounting`, `MCAccounting`, `AccountingProofs` | telling fetches from reads, counting and numbering instructions |
| `RomDatabase`, `MCRomDatabase`, `RomDatabaseProofs` | the ROM and symbol databases and their files |
| `SoundRing` | the ring of sample buffers |
| `Emulator`, `MCEmulator` | the threads of the front end around the ring |
| `EmulatorProofs` | sound, shown frames and keys arrive in order |
| `FloppyController` | FD1793, drives and image file, with the driver that polls it |
| `IntervalTimer` | a counter of the i8253 |
| `Interrupts` | frame interrupt, EI, DI and HLT, under a debugger |
| `PagedMemory` | memory, quasi-disk and boot ROM |
| `GdbServer` | sessions, stop replies, watchpoints and listeners |
| `MCDevices` | the five devices: `focus` picks the one that moves in a behaviour, for they share no state |
| `DeviceProofs` | proofs about the five devices |

### DebugBackend

The emulation thread is one program counter `epc`; each client has one, `cpc`.
A step is one access to shared state: an atomic, a section under a mutex, a
promise.  Where an action takes several at once, its comment says why no other
thread can tell.

| Code | Actions |
|---|---|
| `runUntilPause` | `EmuStart`, `EmuTop`, `QuitCheck`, `WaitAndDequeue`, `DrainOne`, `EmuExit`, `DropCommand` |
| poll callback | `PollDebugger` |
| `executeFramesTarget_` | `FramePrologue`, `FrameLoop`, `FrameLoopQuit`, `FrameDone`, `FrameCommands`, `FrameCheck`, `FramesEnd` |
| `processCommand` | `ProcessCas`, `ProcessRefused`, `ProcessQuit`, `ProcessTrace`, `ProcessOther`, `ProcessDone` |
| `executeCommand` | `ExecRun`, `ExecRunState`, `ExecStep`, `ExecReset`, `ExecLoadRom`, `ExecWrite`, `ExecEdit`, `TraceStep` |
| `submitAndWait` | `Submit`, `ReadyInTime`, `WaitTimesOut`, `CheckState`, `CancelCas` |
| `requestRunFuture`, `requestExecuteTrace` | `SubmitFuture`, `FutureAccepted`, `FutureReady` |
| `requestPause`, `requestQuit` | `RequestPause`, `RequestBreak`; `RequestQuit`, `EnqueueQuit` |
| `loadRom`, `loadWav` | `LoadRomDirect`, `LoadRomHere`, `ClearForRom`, `StopFlags`; `LoadWav`, `StopFlags`, `LoadWavHere` |
| `AgentApi::step` | `AgentStep`, `AgentStepHere` |

The machine is reduced to what the protocol reads of it: whether the PC stands
on an enabled breakpoint (`atBp`) and whether the last frame moved it (`moved`),
both chosen freely by a frame.  `Edit` stands for the breakpoint and symbol
commands, `Write` for the memory, register and port writes, `Reset` for Reset
and Restart: within a group the commands do the same to the protocol.  The
clock of the five second wait is a choice: a wait may time out whenever the
answer is not there.  A `Command` that was destroyed may read as any value of
the constant `FreedReads`; the runs leave it at `Completed`, the value that its
destruction leaves in the memory until it is reused.

Left out: `CommandType::Pause` (nothing creates one), `testSynchronous_` (set by
unit tests only), `executeFramesNoTarget_` and `run()` (no caller in the
programs).

### Breakpoints

One client, no timeouts: what the command protocol guarantees is taken from
`DebugBackend`.  `bps`, `synced` and `board` are the three lists; the board's is
a vector, so `board` counts copies.  The program is a relation `Succ` between
addresses, so an instruction may loop, branch or stay; an interrupt may send the
PC to `Vector` before any instruction, as `check_interrupt()` does.  Ghost
variables: `missed` (a frame executed an instruction under an enabled
breakpoint), `owes` (a stop at the breakpoint under the PC was reported, or a Run
found the machine stopped there, and nothing has been executed, moved or edited
since), `saved` (the list when a skip began).  `before` and `after` are the PC
around the frame, taken before the commands that follow it, as in the code.

### AccessLog

`buf`, `head`, `count` are the members of `RingBuffer`; `Push`, `Clear`, `First`
and `Snapshot` its methods.  The emulation thread records an access in four
steps (read the count of the block, store it, draw a number, push); a client
clears the log in one, or the map block by block, the log and the counter
(`BeginClear`, `ClearMap`, `ClearLog`, `ResetSequence`), whether the machine runs or
not, for the emulation thread does not take the clients' lock.  `missed` is the
block of the access that had been counted and not logged when the log was cleared.

### Opcodes and Accounting

`Accesses` gives for each opcode what `i8080_execute()` reads and writes after
the opcode, in its order and with the PC of the moment; `Length` is the
debugger's table.  `Accounting` lets a program with these accesses run freely
(`Fetch`, `Access`, `NextInstruction`, `Interrupt`) or in steps (`StepBegin`,
`StepEnd`), with `Reset` between, and applies `onMemoryRead()` and
`onMemoryWrite()` to each access.  The ghosts are the truth: which instruction
makes the access (`cur`), how often each was executed (`truth`), and `misled`,
which is set when the window has lost the CPU: after a jump not taken, a length
that the table has wrong, a data read that looks like an opcode.  The properties
are claimed where it is not set; a step sets the window right.

### RomDatabase

`objects`, `path`, `dirty` and `exists` are the members of `RdbController::Impl`;
`symbols` the symbol database; `disk` and `tmp` the files.  An object is its name
and its comment; `Normal` is what `normalizeRdbText()` does to a comment.  A save
is `SaveOpen`, `SaveWrite`, `SaveRename`, `SaveMark`, each of which may fail, and
between which the program may crash (`Restart`).  `ForeignWrite` is another
program that changes a file; the properties do not speak of a file that was
changed behind the program's back.  `Concurrent` allows an edit while another
thread saves.

### Emulator and SoundRing

| Code | Actions |
|---|---|
| `run_event_loop`, `wait_event` | `UiStart`, `UiKey`, `UiPauseKey`, `UiExposed`, `UiQuit`, `UiRender`, `UiJoin` |
| `threadfunc`, `handle_threadevent` | `EngineFrame`, `EngineSample`, `EngineRendered`, `EngineKey`, `EngineQuit`, `EngineUnpause`, `EngineReset`, `EngineEnd` |
| `Soundnik` | `Sample`; `Callback` (`Starve` or `Play`); `PauseReset` in three unlocked steps |
| SDL, GDB client | `TimerTick`, `AudioCallback`; `Packet` |

A sample is its serial number, so what is heard can be compared with what was
produced.  A frame produces one buffer of samples.

### Devices

* `FloppyController`: the registers and flags keep their names.  The controller
  has no clock: it moves when the driver polls the status (`FdStatus`), moves a
  byte (`FdTake`, `FdGive`), or sets the data register for a seek (`FdSetData`),
  which moves a transfer on that was given up.  The driver may give up (`FdGiveUp`)
  and command again; `fdLinger` is the delay before DRQ shows.  `Flush` has the
  outcomes of `flush()`: no temporary file, a short `fwrite`, a `rename` that fails,
  of which the last two are not noticed (`fdLost`).  `FdClose` is the destructor.
* `IntervalTimer`: one counter, a byte of `TmBase` values.  `TmCount` is one
  clock; `tmSince` measures the period of OUT.  A control word for counter 3 indexes
  the array of counters outside its bounds and is not in the model.
* `Interrupts`: a frame of `FrameLen` instructions; the beam raises the request in
  the middle of one, too late for it or not (`Vsyncs`).  `crossed` is the flag that
  the raster leaves set: the frame loop clears it, single steps do not, and then it
  repeats the request.  Steps may move the beam anywhere.  The user sets PC, steps,
  loads a ROM, resets, and has breakpoints that end a frame between the acknowledge
  of an interrupt and the instruction (`IntBreak`).  `ei` is the distance from the
  last EI.
* `PagedMemory`: `ToBank` moves the bits of an address as `tobank()` does, in a
  smaller address space of the same shape; the ghost `store` is the memory by page
  and address.  `PgImages` are the images, by origin and length: a ROM at any address
  of main memory, of any length, or the images of the quasi-disk, of which the second
  lies outside.  A third would clear a negative number of bytes and is left out.
* `GdbServer`: `listener` is which watchpoint check sits in each of the four
  callbacks; `missed` records an access that a watchpoint covers and nothing heard.
  Sessions may overlap.  `onbreak` is the raw pointer in `onbreakpoint`; a session
  whose last handler has ended is destroyed (`freed`), and a stop that then calls it
  ends the program or goes nowhere (`Report`, `dangled`).

## 3. Runs

Passing runs:

| Run | Instance | Shows |
|---|---|---|
| `commands` | 2 clients, 3 commands; RunFuture, Write, Trace, Quit, Reset, Pause | the ownership of commands, that Timeout means not executed, that no promise is set twice and nothing a quitting thread took is left unanswered; that whenever the thread sleeps it owes nobody a pause, and fulfils none before the machine stands; and that the protocol implements `CommandService` |
| `one_client` | 1 client, 2 commands; Run, Step, Reset, LoadRom, LoadWav, Edit, Trace, Pause, Quit, AgentStep; fair | no deadlock; whenever the thread sleeps the machine is stopped and says so, and a frame runs as Running or has been stopped; both threads are in the machine only in the rest of such a frame; calls return, Quit terminates, Pause is honoured |
| `breakpoints` | 3 addresses with a loop and a branch, 6 calls | the lists agree while a frame executes, no breakpoint is missed, no stop is reported twice or to a Run that found the machine stopped there, a skip keeps the enabled breakpoints |
| `access_log` | capacity 4, 2 blocks, numbers to 3, any number of clears | the ring implements a bounded log; its numbering restarts at most twice, at 1; the map misses at most the access in flight at a clear |
| `accounting` | every opcode before each of four others, 8 addresses that wrap, 3 instructions | accesses are recorded as what they are and against their instruction, each execution is counted once, neighbours have different numbers |
| `rom_database` | 2 ROMs, 2 addresses, 2 names, 3 comments, 5 edits | a clean database is a saved one, saved to its own file; files stay whole; a new ROM shows nothing of the last |
| `emulator` | the three modes; 2 buffers of 2 samples, 4 callbacks, 2 frames before the limit, 2 queued requests | sound is heard in order and overruns only after starving, every frame of a test run is rendered, a break by GDB is followed by its continue, and the threads end when they should |
| `devices` | see below | what driver, program and debugger expect of the five devices |

*Deadlock* is checked in `one_client`, `breakpoints` and `access_log`.  In
`commands` it is not: `requestRunFuture()` and `requestExecuteTrace()` wait
without a limit, and a command that is enqueued after the final drain is never
answered.  The others stop when their bound is reached or the program has ended.

*Bounds.*  Two clients and three commands are enough for each race the protocol
has: one command being carried out, one being cancelled and one waiting behind
them, or a command, a Quit and one that arrives late.  The two runs share the
calls so that each call meets the ones that act on the same flags.  Three
addresses give a breakpoint on the instruction, on its successor and on the
interrupt vector; six calls are enough to add, run, disable, re-add, run and load.
Numbers to three and a ring of four hold the three numberings that a clear can leave,
and with accesses between the clears the ring wraps.  Three instructions lead from a
misread window through the instruction that suffers to the one that recovers;
data and jumps go next to the code and across the wrap.  Five edits load a ROM,
edit, save, crash or change the ROM, and save again.  Two buffers are the
smallest ring that can be full and not empty; four callbacks starve and overrun
it.  Devices: one track of two sectors of two bytes on two sides, and two
commands, so that the second finds what the first left half done (of the steps only
`out`, which differs from the others by its direction), and a short write that stops
inside a sector; bytes of two
values (counts 1 to 3, odd and even, and 0 for the full four) and seven port
accesses, so that a counter set up by three bytes is latched and read three times; frames of three instructions and three actions of the user; three
addresses (below the boot ROM's end, above it, and in the window) of 16 in two
pages, three operations, images that fill main memory, lie inside it, run over its
end, fill the quasi-disk and more, or lie outside; two sessions and three packets
(four in `vio_watchpoints`).  The proofs of section 4
remove these bounds for the properties they cover.

*Fairness.* `one_client` assumes that the emulation thread and each client
inside a call keep being scheduled (`WF` on `EmuNext` and on each `ClientStep`).
The code holds no mutex across a wait and the waits are on condition variables
and futures that are signalled, so an operating system that schedules its
threads justifies it. Nobody is obliged to start a call. `emulator` assumes the
same of the UI thread and the engine, and that the frame timer and the audio
device go on calling back, which is what they are for; events and GDB packets
may stop coming. `devices` assumes that the driver of the floppy goes on polling
and moving bytes, and that frames go on being executed; the user need do
nothing.

*Sensitivity.*  A definition whose comment begins with "Mutant" is the definition
after it with a plausible fault: a dropped guard, a store in place of a
compare-and-swap, a missing reset.  `PROJECT.json` pairs every checked property
with one that TLC finds it to be broken by; no specification uses them.

### Where code and its documents part

Each is a run in which TLC finds the counterexample, and a finding in
`PROJECT.json` with the sentence that is contradicted.

| Run | What happens |
|---|---|
| `vio_futures` | a Run or Trace refused on quit is answered through its command promise only; its other promise is destroyed unset |
| `vio_fetch_window` | a jump that is not taken leaves its operand unread, and the next opcode is logged as an operand of the jump |
| `vio_lost_edit` | an edit made while another thread saves is marked as saved and is not in the file |
| `vio_watchpoints` | a read watchpoint on memory is accepted, listens to writes, and hears no read |

Others can be seen by changing an instance; the runs and proofs above are stated
so as to leave them out:

* `FreedReads = {"Queued"}` in `Commands.cfg`: `submitAndWait()` loads the state of
  a command that may have been destroyed; if that memory reads Queued, Timeout is
  reported for a command that was carried out.
* `"LoadRom"` with two clients: a ROM load right after a Run of another client
  leaves the pause promise of the Run pending while the thread sleeps
  (`NoPromiseForgotten`).
* `"AgentStep"` or `"LoadWav"` with two clients: both act on the machine from the
  client's thread while another client's Run executes frames that nobody has stopped
  (`OverlapOnlyInStoppedFrame`; `agent_api.cpp:67`, `backend.cpp:280`).  With one
  client the overlap is what the property leaves: `loadWav()` stores Paused and goes
  on without waiting for the frame, and so does an `AgentApi::step` after it, which
  takes `isPaused()` for the end of the frame.
* `"LoadWav"` or `"LoadRom"` with two clients: the load of one stores Paused over the
  Run of the other (`FlagsAgree`).
* `TraceTimeoutIsReal`: a Pause on a stopped machine leaves `breakRequested_` set,
  and the next trace stops at once and reports Timeout (`backend.cpp:1483`).
* `ResetReasonKept`: the reason of a Reset between two frames is overwritten with
  UserPause (`backend.cpp:2013`).
* `SkipWaitsForStop`: `requestRun()` returns when the Run is accepted, so a skip
  removes its breakpoint while the machine runs (`backend.cpp:605`).
* `bps = saved` in place of `SkipKeepsEnabled`: a disabled breakpoint of the user
  at the next instruction is deleted by a skip, because `hasBreakpoint()` is
  false for it, the add is refused and the remove is not.
* The numbers of the log in order, in place of `LogRestartsTwice`, and the map covering
  the log, in place of `MapMissesOne`: a clear while the machine runs breaks both
  (`backend.cpp:2168`), and the two properties say by how much.
* `SaveMeansSaved`: a `.rdb` that does not parse leaves the path empty; a map
  import then makes the database dirty, and `save()` reports success having
  written nothing (`rdb_controller.cpp:309`; section 15 of
  `docs/Pipeline/Stage_6.11_RDB_ROM_Database.md` says otherwise).
* `dangled = {}` in place of the second conjunct of `StopIsReported`: a stop after the
  session was lost, or at a watchpoint after it detached, calls into a session that
  was destroyed (`server.cpp:81`).
* `fdLost = FALSE`: a short `fwrite` replaces the image file by its beginning, or a
  failed `rename` leaves the old one, and the image is marked clean (`fd1793.h:124`).

The models say what the code does; some of it a reader may not expect:

* *Accounting.*  Between a free run and a step two instructions get the same
  number, between a step and a free run one number is skipped.  The pushes of an
  interrupt are charged to the instruction before it.  A reset leaves the fetch
  window as it is.  `MVI M` reads M before its operand.  The table gives CB, DD, ED
  and FD the length 1; the CPU reads two bytes more.
* *ROM database.*  A reload that fails leaves no objects but keeps the dirty mark,
  so the next save writes an empty database.  Loading another ROM discards unsaved
  edits (the question Save, Discard, Cancel of the document is not asked).
  `RemoveSymbol` leaves the object.  `matchesRom()` has no caller.
* *Emulator.*  `vsync_enable` is never set.  In the free-running mode a rendered
  frame asks for the next: after a break by GDB nobody polls again.  The Pause key
  ends the engine while the UI goes on.  `Soundnik::pause()` resets the ring without
  the lock.
* *Floppy.*  BUSY falls with the access after the last byte; force interrupt and
  restore do not clear it after a transfer that was given up.  A command does not
  clear DRQ: a driver that left it up takes a byte of the old transfer first.  The
  bytes of a transfer that was given up stay in the image and reach the file with the
  next flush or when the disk is closed, and setting the data register for a seek adds
  to them.  A track beyond the image throws.  `flush()` does not check its writes.
* *Timer.*  In mode 3 a count of one runs away downwards.  In mode 0 a count of zero
  never raises OUT.  A count written in mid-period may shorten the first odd period.
* *Interrupts.*  `DebugAdapter::reset()` leaves IFF and the hold-off of EI in the one
  case and INTE in the other.  Setting PC after a HLT makes the next interrupt return
  one byte too far.  A break in mid-frame may lose that frame's request.  In single
  steps the request is repeated until a frame is executed.
* *Memory.*  An image longer than main memory runs into the quasi-disk, and what
  reaches beyond that is dropped.
* *Breakpoints.*  A Run taken between the frame in which the board stopped and the
  loop's own test is answered by the report of that stop.
* *GDB.*  A new session takes over `onbreakpoint`, and the ones before are not told of
  stops; a detach of one takes the breakpoints from all.  Watchpoints left in at a detach, or by a lost connection, stop the machine
  for good.  A memory write by the client on a watched byte sends a stop reply that
  nobody asked for.  A memory write watchpoint before one on a port keeps the port's
  listener from being installed.

What the checked properties exempt, and hazards that are in the models but not
caught: the count of one in mode 3 (`CounterKeepsTime`); reads that mix latched and
plain accesses or have a write between their bytes (`LatchedReadWhole`); an EI before
a reset (`InterruptAskedFor`); a PC written by a debugger (`ReturnsAfterHlt`); the
bounds and the priority of the two windows, which `PagesKept` takes from the code; a
read that begins with DRQ up (`TransfersWholeSectors`); the read of a freed command
other than as `Completed` (`TimeoutMeansNotExecuted`).  `Continues` says something in
the mode with the frame timer only.

## 4. Proofs

Constants are assumed to be what the modules' `ASSUME`s say, and where a theorem
needs more it is a hypothesis of the theorem, named here.

### The command protocol

`DebugBackendProofs`: for any number of clients, commands and calls.

* `BackendInv`: `TypeOK` and `Ownership` hold always.  Their conjunction is the
  inductive invariant.  `Ownership` is needed because the two
  compare-and-swaps are far apart: between the one that makes a command
  `Executing` and the store of `Completed` the emulation thread passes through
  five program points, and only the fact that the command stays `Executing` at
  each shows that no client can cancel it.
* `TimeoutIsSafe`: `TimeoutMeansNotExecuted`.  It rests on the last two conjuncts
  of `Ownership`: what was carried out is Executing or Completed, what timed out
  is Cancelled.  It assumes that freed memory does not read `Queued`, and needs
  to (see above).
* `LifecycleHolds` (`Command::state` takes only the transitions its declaration
  lists), `TypeCorrect`.

`CommandServiceProofs`: the same constants, three groups of theorems.

* `CustodyInv` says who keeps a command: the client that has not enqueued it or
  carries it out itself, the queue (where it stands once), or the emulation
  thread; and how far its promises have come with each.  From it
  `ServiceImplemented` (the refinement `ImplementsService`), `PromisesSetOnce`
  (`PromiseSetOnce`) and `ExitAnswers` (`ExitAnswersAll`).  Ownership alone is not
  enough for these: that a promise is not set twice needs that no two keepers hold
  the same command, and that a client which waits has a command that no other
  client waits for.  The refinement goes action by action: each is a stutter of
  the service, or the carrying out, the withdrawal or the answer of one command.
  All assume that freed memory does not read `Queued`.
* `FlagsAgreeHolds` (`FlagsAgree`), `PromisesRemembered` (`NoPromiseForgotten`) and
  `FulfilledMeansPausedHolds` (`FulfilledMeansPaused`) for any number of clients
  and every call but the two loads.  `loadRom()` and `loadWav()` store `running_`
  and `state_` from the client's thread, and with a second client the properties
  fail (see above); without them the flags belong to the emulation thread.  The
  invariants `FlagDiscipline` and `PromiseDiscipline` say at each of its program
  points what `running_`, `state_` and the local `loopRunning` may be, and where a
  pause promise may still be pending.
* `OverlapIsLimited` (`OverlapOnlyInStoppedFrame`) and `FlagsAgreeWithLoads`
  (`FlagsAgree`) for one client, with every call, the loads and `AgentApi::step`
  included.  The invariant follows the client through its call: while it acts on
  the machine the emulation thread traces nothing and carries out no command, and of
  frames executes only the one whose `running_` is down; and it says where `state_`
  may lag behind `running_` (`MachineKnown`).

### The debugger's bookkeeping

`BreakpointsProofs`: for every program, interrupt vector and number of calls.

* `SyncDisciplineHolds`, and from it `BoardTestsUsersBreakpoints` (`ListsAgree`)
  and `BreakpointsAreNotMissed`.  `ListsAgree` speaks of frames only and is not
  inductive; `SyncDiscipline` says what holds in between: the adapter always knows
  what the board holds, and the lists may differ only inside `loadRom()`, when
  `running_` is down, the thread is where no frame can begin, and the client asks
  for nothing.
* `RunGetsOffItsBreakpoint`: `RunMakesProgress`, from the fact that `owes` is true
  only where the machine stands, or between a Run that has set `skipBreakpoint_` and
  the end of the prologue, which executes the instruction.
* `SkipRestoresEnabled`: `SkipKeepsEnabled`.  The invariant compares the list with
  `saved` at each step of a skip: it differs at most at the address of the skip's
  own breakpoint.

`AccessLogProofs`: for every capacity and set of blocks.

* `RingImplementsLog`: the refinement `ImplementsLog`.  The invariant is that the
  indices are in range and that a ring that is not full starts at slot 0, which
  is what makes `Clear` (that resets `head_`) correct.
* `NumbersRestartTwice` (`LogRestartsTwice`), with clears at any moment.  The
  invariant `Numbering` speaks of the log with the entry on its way to it: it is cut
  in two places at most, in one at most between the clear of the log and the reset of
  the counter (which makes the second), and it ends at `seq` or where the next cut is.
* `MapMisses` (`MapMissesOne`), with clears at any moment.  The invariant `Covered`
  relates the count of each block to the entries of the log that are in it and to the
  access in flight, by cardinalities of sets of slots.  It rests on the order of the
  steps: the map is cleared before the log and counts before the log records, and a
  count that is cleared between its read and its store ends too high, never too low.

`AccountingProofs`: for address spaces of any size, every memory image, and any
sets of data addresses and jump targets.

* `AccessesAreClassified` (`AccessesClassified`), `CountsAreExact` (`CountsExact`)
  and `NumbersTell` (`NumbersTellInstructionsApart`).  The run executes three
  instructions in a row; the invariant `AcInv` says what carries over.  A window
  that has not been misled is closed between instructions, covers the whole
  instruction when a step begins, and inside one is exactly as long as the operand
  bytes still to come (`Expects`), with nothing but writes before them and no fetch
  after them.  A window that is misled in a free run is remembered in `off`, and a
  step repairs it.  The counters lag by one inside a step, and a number given to a
  step is below the next one.
* `AccessesFollow`, a lemma: for each of the 256 opcodes except those that
  `Misleading` names, the CPU's accesses are those that the debugger's length table
  lets the window expect.  It is the one place where the two tables meet, proved
  arm by arm.

`RomDatabaseProofs`: for any ROMs, addresses, names, comments, maps and contents of
the files, and any number of edits, failures and restarts.  All but the last assume
that no thread edits while another saves (`vio_lost_edit` shows it is needed).

* `DatabaseInv`, and from it `CleanMeansSaved` (`CleanIsSaved`), `SavedToOwnFile`
  (`SavesToOwnFile`) and `FilesRemainWhole` (`FilesStayWhole`).  The invariant adds
  what holds inside a save (the objects are what was serialised, and after the
  rename what the file holds), that comments are kept normalised, without which a
  file would not read back as it was written, and that the file of a loaded ROM
  is one that parsed.
* `PreviousRomIsForgotten` (`PreviousRomForgotten`), with other threads or without.

### The machine

`EmulatorProofs`: for rings of any number of buffers of any size, any limit of
frames, and any number of callbacks, events and requests.

* `ThreadsInvariant` (`EmInv`), and from it `SoundInOrder` (`HeardInOrder`).  The
  property speaks of what the last callback played.  The invariant says why the next
  one will be right: every sample between the reader and the writer is newer than
  what was heard, and they are in order of their distance from the reader
  (`RingOrder`); `pause()` finds the reader where it started, unless a callback ran
  inside it, and then drops what there is (`ResetInv`).  The second half of the
  property counts: each complete buffer, each request in the queue and the buffer
  under way were paid for by a callback that found the ring empty or by an exposed
  window (`OwedInv`), so that a writer that laps the reader has been paid for at
  least `NBuffers` times.  A callback pays for its own request with the buffer it
  takes; only one that finds none leaves a debt.
* `FramesInOrder`: a test run, without sound and window, shows every frame right
  after the one before (`ShowsNextFrame`, the safety part of `EndsInOrder`).  One
  frame is under way at a time: `SpinInv` counts it as wanted, requested, executed or
  waiting to be shown.  It does not need the limit of frames or a GDB client that
  keeps quiet: a stopped machine sends an event that shows nothing.
* `KeysArrive`: the last key event in the queue tells whether the key is down, and
  when there is none the keyboard matrix holds what is pressed.  No run checks it in
  this form; it held in every state of an instance before it was proved.

`DeviceProofs`: one section for each device.

* Interrupts, for frames of any length and any number of actions of the user:
  `InterruptInv`, and from it `InterruptsAreAskedFor` (`InterruptAskedFor`) and
  `InterruptsReturnAfterHlt` (`ReturnsAfterHlt`).  The two properties speak of the
  interrupt taken last only.  The invariant says why the next one will be right:
  a request needs the pin, the pin and the flip-flop together need an EI and one
  instruction more, the hold-off is up only right after EI, and `last_opcode` knows
  the HLT unless PC was set from outside.
* Floppy, for every geometry and set of commands: `SectorsAreWhole`
  (`TransfersWholeSectors`) and `FileFollowsImage` (`FileKeepsUp`).  The
  invariant `FdInv` relates the driver to the controller: what the driver has moved
  so far is the beginning of the sector in the image, and the drive's offset is one
  ahead of it in a read (the byte in the data register) and level with it in a
  write.  An image that is not dirty is the file's, which is why a `flush()` that
  finds nothing to do leaves the right file.
* Timer, for bytes of any even number of values: `TimerKeepsTime`
  (`CounterKeepsTime`) and `LatchedReadsAreWhole` (`LatchedReadWhole`).  A period is
  measured over many clocks; the invariant `InPhase` gives the count at each of
  them, in the high and in the low half, for odd and even periods, so that OUT can
  only rise after exactly the period.  The even base makes the full count even.
* Memory, for pages of every size that has the eight parts which `tobank()`
  permutes, any number of them, and images of any origin and length: `PagesAreKept`
  (`PagesKept`).  What it rests on
  is that `ToBank` is one to one: an address is taken apart into block, quarter and
  place, and put together again.
* GDB server, for any number of sessions that overlap as they like: `StopsAreReported`
  (`StopIsReported`).  The invariant is that `onbreak` is the session accepted last,
  and that a breakpoint stops the machine only while one is attached: after a detach
  `debugging` is down until the next session replaces the pointer.

The timer's proof found a fault of the model that the run had missed: the ghost of
a latched read took a third byte, read of a running count, for the first of the
latched pair.  Six port accesses were too few to get there; there are seven now.

### Only model-checked

Liveness (`CallsReturn`, `QuitTerminates`, `PauseHonoured`, `Continues`,
`DriverFinishes`, `HltWakes`, and of `EndsInOrder` all but the order of the frames),
which is out of the prover's reach: its rules for fairness need ENABLED.  Every
safety property that a run checks is proved.  The findings are counterexamples, and
need no proof.

## 5. Plan

In order of importance:

1. *Composition*: the emulation thread of `DebugBackend` over `Interrupts`, so that
   breaks and resets come from commands.
2. *Agent API*: traces, function analysis, memory snapshots and their difference, as
   operators against reference definitions.
3. *Timing*: deferred port writes, the cadence of displays that are not at 50 Hz.

## 6. Not modelled

* The GUI, text output, the MCP adapter, PNG and WAV encoding, the assembly
  exporter, logging, command line and scripting glue: presentation, formatting and
  input/output, with no state that another part depends on.
* The arithmetic of the i8080 and the raster: tables better served by the test ROMs
  the repository has.  SHA-256, JSON text, resampling and filters: functions of data
  with nothing to interleave.
* Serialisation of the machine, the disk image made of a directory, BCD counting, the
  tape.
* Data races inside library containers (`getBreakpoints()` reads a `std::map` that
  the emulation thread edits): they have no useful set of outcomes.
* Vendored code (ChaiScript, stb_image, Dear ImGui, JSON), the boot programs of the
  Android and Godot ports, tests and tools.  They, with the GUI and text above, are
  most of the repository's lines; the models cover the parts with state and control
  of their own, which are a small share of the lines.
