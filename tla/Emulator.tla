------------------------------ MODULE Emulator ------------------------------
(***************************************************************************)
(* The threads of the emulator's front end: the UI thread in               *)
(* run_event_loop(), the engine in threadfunc(), and the source of frames, *)
(* which is the audio callback (mode "sound"), an SDL timer ("timer", with *)
(* --nosound) or the UI thread itself ("spin", with --nosound --novideo).  *)
(* ui_to_engine_queue is a FIFO.  engine_to_ui_queue is a priority queue   *)
(* whose elements compare equal, and its reader empties it: a set.         *)
(***************************************************************************)
EXTENDS SoundRing

CONSTANTS
    MaxFrame,     \* --max-frame; frame numbers beyond it are not told apart
    MaxQueue,     \* bound: frame requests a timer may pile up
    MaxCallbacks, \* bound: audio callbacks
    MaxInput,     \* bound: SDL events, for each mode
    MaxPackets    \* bound: requests of a GDB client, for each mode

Modes == {"sound", "timer", "spin"}

ASSUME EmulatorAssumption ==
    /\ {MaxFrame, MaxQueue, MaxCallbacks} \subseteq Nat
    /\ {MaxInput, MaxPackets} \subseteq [Modes -> Nat]

VARIABLES
    mode,       \* where frames come from
    limited,    \* is --max-frame given?
    upc,        \* UI thread
    kickstart,  \* local of run_event_loop()
    pressed,    \* ghost: the key is down
    inputs,     \* SDL events so far, against MaxInput
    toEngine,   \* ui_to_engine_queue
    toUi,       \* engine_to_ui_queue
    epc,        \* engine thread
    first,      \* i == 0 in threadfunc()
    left,       \* samples the current frame has still to produce
    terminate,  \* Keyboard::terminate
    held,       \* the key in the keyboard matrix
    frame,      \* Board::frame_no
    rendered,   \* ghost: the frame on the screen
    stopped,    \* Board::debugger_interrupt
    packets,    \* requests at the GDB server, read by poll_debugger
    sent,       \* against MaxPackets
    device,     \* the audio device is running
    callbacks,  \* against MaxCallbacks
    kicks       \* ghost: frames requested for an exposed window

ui     == <<upc, kickstart, pressed, inputs, kicks, rendered>>
engine == <<epc, first, left, terminate, held, frame, stopped>>
conf   == <<mode, limited>>
gdb    == <<packets, sent>>
audio  == <<device, callbacks>>
vars   == <<conf, ui, toEngine, toUi, engine, gdb, audio, ring>>

Request == [type |-> "frame"]
Quit    == [type |-> "quit"]
Key(d)  == [type |-> "key", down |-> d]
Pause   == [type |-> "pause"]

Init ==
    /\ mode \in Modes /\ limited \in BOOLEAN
    /\ upc = "start" /\ kickstart = TRUE /\ pressed = FALSE /\ inputs = 0
    /\ toEngine = <<>> /\ toUi = {}
    /\ epc = "wait" /\ first = TRUE /\ left = 0
    /\ terminate = FALSE /\ held = FALSE
    /\ frame = 0 /\ rendered = 0
    /\ stopped = FALSE /\ packets = <<>> /\ sent = 0
    /\ device = FALSE /\ callbacks = 0 /\ kicks = 0
    /\ RingInit

-----------------------------------------------------------------------------
(* Frame sources *)

\* The SDL timer.
TimerTick ==
    /\ mode = "timer"
    /\ Len(toEngine) < MaxQueue
    /\ toEngine' = Append(toEngine, Request)
    /\ UNCHANGED <<conf, ui, toUi, engine, gdb, audio, ring>>

\* The audio callback, which is also the frame interrupt.
AudioCallback ==
    /\ device
    /\ callbacks < MaxCallbacks
    /\ callbacks' = callbacks + 1
    /\ Callback(epc \in {"reset1", "reset2", "reset3"})
    /\ toEngine' = Append(toEngine, Request)
    /\ UNCHANGED <<conf, ui, toUi, engine, gdb, device>>

-----------------------------------------------------------------------------
(* The UI thread *)

\* run_event_loop() before its loop.
UiStart ==
    /\ upc = "start"
    /\ upc' = "loop"
    /\ toEngine' = IF mode = "spin" THEN Append(toEngine, Request) ELSE toEngine
    /\ UNCHANGED <<conf, kickstart, pressed, inputs, kicks, rendered, toUi, engine, gdb, audio, ring>>

Input == upc = "loop" /\ inputs < MaxInput[mode] /\ inputs' = inputs + 1

\* SDL_KEYDOWN and SDL_KEYUP; without a window there is no keyboard.
UiKey ==
    /\ Input
    /\ mode # "spin"
    /\ pressed' = ~pressed
    /\ toEngine' = Append(toEngine, Key(~pressed))
    /\ UNCHANGED <<conf, upc, kickstart, kicks, rendered, toUi, engine, gdb, audio, ring>>

\* SDL_KEYDOWN of Pause, which ends the engine.
UiPauseKey ==
    /\ Input
    /\ mode # "spin"
    /\ toEngine' = Append(toEngine, Pause)
    /\ UNCHANGED <<conf, upc, kickstart, pressed, kicks, rendered, toUi, engine, gdb, audio, ring>>

\* SDL_WINDOWEVENT_EXPOSED: the first one starts the frames.
UiExposed ==
    /\ Input
    /\ mode # "spin"
    /\ kickstart
    /\ kickstart' = FALSE
    /\ toEngine' = Append(toEngine, Request)
    /\ kicks' = kicks + 1
    /\ UNCHANGED <<conf, upc, pressed, rendered, toUi, engine, gdb, audio, ring>>

\* SDL_QUIT.
UiQuit ==
    /\ Input
    /\ toEngine' = Append(toEngine, Quit)
    /\ upc' = "join"
    /\ UNCHANGED <<conf, kickstart, pressed, kicks, rendered, toUi, engine, gdb, audio, ring>>

\* Mutant: nothing asks for the next frame.
UiRenderNoKick ==
    /\ upc = "loop"
    /\ \E ev \in toUi :
         LET kick == FALSE
             stop == ev.executed /\ limited /\ ev.frame >= MaxFrame
         IN  /\ rendered' = IF ev.executed THEN ev.frame ELSE rendered
             /\ UNCHANGED kicks
             /\ toEngine' = toEngine \o (IF kick THEN <<Request>> ELSE <<>>)
                                     \o (IF stop THEN <<Quit>> ELSE <<>>)
             /\ upc' = IF stop THEN "join" ELSE upc
    /\ toUi' = {}
    /\ UNCHANGED <<conf, kickstart, pressed, inputs, engine, gdb, audio, ring>>

\* wait_event() pulls one request and purges the others, the last one pulled
\* counts; handle_render().
UiRender ==
    /\ upc = "loop"
    /\ \E ev \in toUi :
         LET kick == ev.executed /\ mode = "spin"
             stop == ev.executed /\ limited /\ ev.frame >= MaxFrame
         IN  /\ rendered' = IF ev.executed THEN ev.frame ELSE rendered
             /\ UNCHANGED kicks
             /\ toEngine' = toEngine \o (IF kick THEN <<Request>> ELSE <<>>)
                                     \o (IF stop THEN <<Quit>> ELSE <<>>)
             /\ upc' = IF stop THEN "join" ELSE upc
    /\ toUi' = {}
    /\ UNCHANGED <<conf, kickstart, pressed, inputs, engine, gdb, audio, ring>>

\* join_emulator_thread().
UiJoin ==
    /\ upc = "join"
    /\ epc = "ended"
    /\ upc' = "done"
    /\ UNCHANGED <<conf, kickstart, pressed, inputs, kicks, rendered, toEngine, toUi,
                   engine, gdb, audio, ring>>

-----------------------------------------------------------------------------
(* The engine thread *)

\* A GDB client asks to break or to continue.
Packet ==
    /\ sent < MaxPackets[mode]
    /\ sent' = sent + 1
    /\ \E p \in {"break", "continue"} : packets' = Append(packets, p)
    /\ UNCHANGED <<conf, ui, toEngine, toUi, engine, audio, ring>>

AfterEvent == IF first THEN "unpause" ELSE "wait"
Taken(type) ==
    /\ epc = "wait" /\ ~terminate
    /\ toEngine # <<>> /\ Head(toEngine).type = type
    /\ toEngine' = Tail(toEngine)

\* Mutant: a stopped machine does not poll.
EngineFrameNoPoll ==
    LET polled == packets # <<>> /\ ~stopped
        stops  == IF polled THEN Head(packets) = "break" ELSE stopped
    IN
    /\ Taken("frame")
    /\ stopped' = stops
    /\ packets' = IF polled THEN Tail(packets) ELSE packets
    /\ IF stops
         THEN /\ toUi' = toUi \cup {[executed |-> FALSE, frame |-> frame]}
              /\ epc' = AfterEvent
              /\ UNCHANGED <<frame, left>>
         ELSE /\ frame' = IF frame <= MaxFrame THEN frame + 1 ELSE frame
              /\ left' = IF mode = "sound" THEN FrameSize ELSE 0
              /\ epc' = "frame"
              /\ UNCHANGED toUi
    /\ UNCHANGED <<conf, ui, first, terminate, held, sent, audio, ring>>

\* execute_frame(): poll_debugger() first, which handles at most one packet,
\* and nothing more while stopped.
EngineFrame ==
    LET polled == packets # <<>>
        stops  == IF polled THEN Head(packets) = "break" ELSE stopped
    IN
    /\ Taken("frame")
    /\ stopped' = stops
    /\ packets' = IF polled THEN Tail(packets) ELSE packets
    /\ IF stops
         THEN /\ toUi' = toUi \cup {[executed |-> FALSE, frame |-> frame]}
              /\ epc' = AfterEvent
              /\ UNCHANGED <<frame, left>>
         ELSE /\ frame' = IF frame <= MaxFrame THEN frame + 1 ELSE frame
              /\ left' = IF mode = "sound" THEN FrameSize ELSE 0
              /\ epc' = "frame"
              /\ UNCHANGED toUi
    /\ UNCHANGED <<conf, ui, first, terminate, held, sent, audio, ring>>

EngineSample ==
    /\ epc = "frame"
    /\ left > 0
    /\ left' = left - 1
    /\ Sample
    /\ UNCHANGED <<conf, ui, toEngine, toUi, epc, first, terminate, held, frame, stopped, gdb, audio>>

\* The frame is over: tell the UI thread.
EngineRendered ==
    /\ epc = "frame"
    /\ left = 0
    /\ toUi' = toUi \cup {[executed |-> TRUE, frame |-> frame]}
    /\ epc' = AfterEvent
    /\ UNCHANGED <<conf, ui, toEngine, first, left, terminate, held, frame, stopped, gdb, audio, ring>>

\* handle_keydown(), handle_keyup().
EngineKey ==
    /\ Taken("key")
    /\ held' = Head(toEngine).down
    /\ epc' = AfterEvent
    /\ UNCHANGED <<conf, ui, toUi, first, left, terminate, frame, stopped, gdb, audio, ring>>

\* handle_quit(), and the Pause key.
EngineQuit ==
    /\ Taken("quit") \/ Taken("pause")
    /\ terminate' = TRUE
    /\ epc' = AfterEvent
    /\ UNCHANGED <<conf, ui, toUi, first, left, held, frame, stopped, gdb, audio, ring>>

\* pause_sound(0) after the first event.
EngineUnpause ==
    /\ epc = "unpause"
    /\ first' = FALSE
    /\ device' = (mode = "sound")
    /\ epc' = "reset1"
    /\ UNCHANGED <<conf, ui, toEngine, toUi, left, terminate, held, frame, stopped, gdb, callbacks, ring>>

EngineReset ==
    \E step \in 1..3 :
      /\ epc = <<"reset1", "reset2", "reset3">>[step]
      /\ PauseReset(step)
      /\ epc' = <<"reset2", "reset3", "wait">>[step]
      /\ UNCHANGED <<conf, ui, toEngine, toUi, first, left, terminate, held, frame, stopped, gdb, audio>>

\* terminating() at the head of the loop.
EngineEnd ==
    /\ epc = "wait"
    /\ terminate
    /\ epc' = "ended"
    /\ UNCHANGED <<conf, ui, toEngine, toUi, first, left, terminate, held, frame, stopped, gdb, audio, ring>>

Engine ==
    \/ EngineFrame \/ EngineSample \/ EngineRendered \/ EngineKey \/ EngineQuit
    \/ EngineUnpause \/ EngineReset \/ EngineEnd

Ui == UiStart \/ UiRender \/ UiJoin

Next ==
    \/ TimerTick \/ AudioCallback \/ Packet
    \/ Ui \/ UiKey \/ UiPauseKey \/ UiExposed \/ UiQuit
    \/ Engine

\* Threads run, and SDL's timer and audio thread call back.
Fairness == WF_vars(Engine) /\ WF_vars(Ui) /\ WF_vars(TimerTick) /\ WF_vars(AudioCallback)

Spec == Init /\ [][Next]_vars /\ Fairness

-----------------------------------------------------------------------------
(* Properties *)

\* The writer can lap the reader only after the audio callback has found the
\* ring empty about as often as it has buffers (requests are made by the
\* callbacks themselves, one buffer for one); until then everything is heard in
\* the order it was produced.
HeardInOrder ==
    /\ InOrder
    /\ overrun => starves + kicks >= NBuffers \/ raced

\* With a timer, a machine that a GDB client has stopped goes on once the
\* client says so, although it executes no frame in between.
Continues ==
    mode = "timer" /\ stopped /\ packets # <<>> /\ packets[Len(packets)] = "continue"
        ~> ~stopped \/ terminate \/ (packets # <<>> /\ packets[Len(packets)] = "break")

\* What a test run shows after a frame is the next one.
ShowsNextFrame == mode = "spin" /\ rendered' # rendered => rendered' = rendered + 1

\* Quitting ends both threads, whatever is still queued; a test run (--nosound
\* --novideo --max-frame) reaches its last frame and ends by itself, unless GDB
\* stops it; and on the way it renders every frame once, in order, which is what
\* --save-frame relies on.
EndsInOrder ==
    /\ upc = "join" ~> upc = "done"
    /\ mode = "spin" /\ limited ~> upc = "done" \/ stopped
    /\ [][ShowsNextFrame]_vars
=============================================================================
