------------------------------ MODULE GdbServer -----------------------------
(***************************************************************************)
(* The remote debugger: the sessions of the GDB server, the breakpoints    *)
(* and watchpoints of the board, the listeners they install on memory and  *)
(* ports, and the loop of execute_frame() that they stop.  The server is   *)
(* polled between frames, so its handlers and the machine alternate.       *)
(* A client may connect at any time, others being connected or not.        *)
(* One breakpoint address, and one watched byte in memory and one port.    *)
(***************************************************************************)
EXTENDS Integers, Sequences

LOCAL INSTANCE SequencesExt

CONSTANTS
    GdbSessions,   \* connections, in the order of their acceptance: 1..n
    GdbMaxOps      \* bound: packets

NoSession == 0
TheBoard  == 0
Spaces  == {"memory", "port"}
WpTypes == {"write", "read", "access"}

ASSUME GdbAssumption ==
    GdbSessions \in Nat /\ GdbMaxOps \in Nat

VARIABLES
    debugging,   \* Board::debugging
    stopped,     \* Board::debugger_interrupt
    bpSet,       \* the address is in Board::breakpoints
    wps,         \* Board::memory_watchpoints
    listener,    \* memory.onwrite, memory.onread, io.onwrite, io.onread
    onbreak,     \* Board::onbreakpoint: the session whose raw pointer it holds
    sess,        \* each session's socket
    freed,       \* no handler holds the Session any more: it is destroyed
    waits,       \* the client has continued and waits for a stop reply
    replies,     \* stop replies on their way to the client
    gdbCrash,    \* a call into a destroyed session has ended the program
    stopper,     \* history: who stopped the machine last, the board or a client
    dangled,     \* history: the calls into destroyed sessions, and what made them
    missed,      \* history: an access that a watchpoint covers went on unnoticed
    gdbOps       \* against GdbMaxOps

gdbBoard == <<debugging, stopped, bpSet, wps, listener, onbreak>>
gdbStop  == <<gdbCrash, stopper, dangled>>
gdbvars  == <<gdbBoard, sess, freed, waits, replies, gdbStop, missed, gdbOps>>

Ids == 1..GdbSessions
Slots == {"memory", "port"} \X {"write", "read"}
NoListeners == [s \in Slots |-> "none"]

GdbInit ==
    /\ debugging = FALSE /\ stopped = FALSE /\ bpSet = FALSE /\ wps = <<>>
    /\ listener = NoListeners /\ onbreak = NoSession
    /\ sess = [s \in Ids |-> "none"] /\ freed = [s \in Ids |-> FALSE]
    /\ waits = [s \in Ids |-> FALSE] /\ replies = [s \in Ids |-> 0]
    /\ gdbCrash = FALSE /\ stopper = TheBoard /\ dangled = {}
    /\ missed = {} /\ gdbOps = 0

-----------------------------------------------------------------------------
(* Board *)

\* refresh_watchpoint_listeners(), one watchpoint: the write part, guarded by
\* the memory's write listener, then the read part, guarded by the memory's
\* read listener.  The read part sets the memory's write listener.
WritePart(l, w) ==
    IF w.type \in {"write", "access"} /\ l[<<"memory", "write">>] = "none"
    THEN [l EXCEPT ![<<w.space, "write">>] = "write"] ELSE l

ReadPart(l, w) ==
    IF w.type \in {"read", "access"} /\ l[<<"memory", "read">>] = "none"
    THEN IF w.space = "port" THEN [l EXCEPT ![<<"port", "read">>] = "read"]
         ELSE [l EXCEPT ![<<"memory", "write">>] = "read"]
    ELSE l

Refresh(ws) == FoldLeft(LAMBDA l, w : ReadPart(WritePart(l, w), w), NoListeners, ws)

\* check_watchpoint(): a listener found a watchpoint of its kind.
Covers(w, space, how) == w.space = space /\ w.type \in {"access", how}
Caught(space, way) ==
    /\ listener[<<space, way>>] # "none"
    /\ \E i \in 1..Len(wps) : Covers(wps[i], space, listener[<<space, way>>])

\* insert_breakpoint() and remove_breakpoint(), of a watchpoint.
InsertWatch(w) == wps' = Append(wps, w) /\ listener' = Refresh(wps')
RemoveWatch(w) == wps' = SelectSeq(wps, LAMBDA x : x # w) /\ listener' = Refresh(wps')

\* Two replies on their way are enough to tell that there was more than one.
More(n) == IF n < 2 THEN n + 1 ELSE n

\* The board stops and calls onbreakpoint(), whose replies come on top of r: a
\* stop reply to the session that started last.  The call into a session that is
\* destroyed is undefined: it ends the program (shared_from_this() throws, or the
\* memory is no longer there), or writes to nobody.
Report(r, what) ==
    /\ stopped' = TRUE /\ stopper' = TheBoard
    /\ IF onbreak = NoSession
         THEN replies' = r /\ UNCHANGED <<gdbCrash, dangled>>
         ELSE IF freed[onbreak]
         THEN /\ replies' = r /\ gdbCrash' \in BOOLEAN
              /\ dangled' = dangled \cup {<<sess[onbreak], what>>}
         ELSE replies' = [r EXCEPT ![onbreak] = More(@)] /\ UNCHANGED <<gdbCrash, dangled>>

NoReport(r) == replies' = r /\ UNCHANGED <<stopped, gdbStop>>

-----------------------------------------------------------------------------
(* The machine *)

\* The loop of execute_frame(): a breakpoint before the instruction.
HitBreakpoint ==
    /\ ~stopped /\ debugging /\ bpSet
    /\ Report(replies, "breakpoint")
    /\ UNCHANGED <<debugging, bpSet, wps, listener, onbreak, sess, freed, waits, missed, gdbOps>>

\* An instruction with an access that may be watched.
RunInstruction ==
    /\ ~stopped
    /\ \E space \in Spaces, way \in {"write", "read"} :
         /\ IF Caught(space, way) THEN Report(replies, "watchpoint") ELSE NoReport(replies)
         /\ missed' = IF ~Caught(space, way) /\ \E i \in 1..Len(wps) : Covers(wps[i], space, way)
                      THEN missed \cup {<<space, way>>} ELSE missed
    /\ UNCHANGED <<debugging, bpSet, wps, listener, onbreak, sess, freed, waits, gdbOps>>

-----------------------------------------------------------------------------
(* Sessions: the client sends a packet when it does not wait for a stop *)

Packet(s) ==
    /\ sess[s] = "open" /\ ~waits[s]
    /\ gdbOps < GdbMaxOps /\ gdbOps' = gdbOps + 1

\* Mutant: the handler of the previous client is kept.
AcceptKeeps(s) ==
    /\ sess[s] = "none" /\ \A t \in Ids : t < s => sess[t] # "none"
    /\ sess' = [sess EXCEPT ![s] = "open"]
    /\ debugging' = TRUE /\ stopped' = TRUE /\ stopper' = s
    /\ onbreak' = IF onbreak = NoSession THEN s ELSE onbreak
    /\ UNCHANGED <<bpSet, wps, listener, freed, waits, replies, gdbCrash, dangled, missed, gdbOps>>

\* handle_accept(), Session::start(): the machine stops, and will report to the
\* new session.
Accept(s) ==
    /\ sess[s] = "none" /\ \A t \in Ids : t < s => sess[t] # "none"
    /\ sess' = [sess EXCEPT ![s] = "open"]
    /\ debugging' = TRUE /\ stopped' = TRUE /\ stopper' = s
    /\ onbreak' = s
    /\ UNCHANGED <<bpSet, wps, listener, freed, waits, replies, gdbCrash, dangled, missed, gdbOps>>

\* 'c'.  A client with a stop reply still unread takes that for the answer.
GdbContinue(s) ==
    /\ Packet(s)
    /\ stopped' = FALSE
    /\ waits' = [waits EXCEPT ![s] = TRUE]
    /\ UNCHANGED <<debugging, bpSet, wps, listener, onbreak, sess, freed, replies, gdbStop, missed>>

\* The break character, from a client that waits: answered as a stop, to this
\* client only.
GdbBreak(s) ==
    /\ sess[s] = "open" /\ waits[s] /\ replies[s] = 0
    /\ gdbOps < GdbMaxOps /\ gdbOps' = gdbOps + 1
    /\ stopped' = TRUE /\ stopper' = s
    /\ replies' = [replies EXCEPT ![s] = More(@)]
    /\ UNCHANGED <<debugging, bpSet, wps, listener, onbreak, sess, freed, waits, gdbCrash, dangled,
                   missed>>

\* The client reads a stop reply.
ReadReply(s) ==
    /\ sess[s] = "open" /\ replies[s] > 0
    /\ replies' = [replies EXCEPT ![s] = @ - 1]
    /\ waits' = [waits EXCEPT ![s] = FALSE]
    /\ UNCHANGED <<gdbBoard, sess, freed, gdbStop, missed, gdbOps>>

\* 's': an instruction without a look at the breakpoints, and a stop reply,
\* besides the one of a watchpoint.
GdbStep(s) ==
    /\ Packet(s)
    /\ LET r == [replies EXCEPT ![s] = More(@)] IN
         \E space \in Spaces, way \in {"write", "read"} :
           IF Caught(space, way) THEN Report(r, "watchpoint") ELSE NoReport(r)
    /\ waits' = [waits EXCEPT ![s] = TRUE]
    /\ UNCHANGED <<debugging, bpSet, wps, listener, onbreak, sess, freed, missed>>

\* 'M': the debugger's own write is heard by the listener as well.
GdbWriteMemory(s) ==
    /\ Packet(s)
    /\ IF Caught("memory", "write") THEN Report(replies, "watchpoint") ELSE NoReport(replies)
    /\ UNCHANGED <<debugging, bpSet, wps, listener, onbreak, sess, freed, waits, missed>>

\* 'Z' and 'z': breakpoints and watchpoints.
GdbInsert(s) ==
    /\ Packet(s)
    /\ \/ bpSet' = TRUE /\ UNCHANGED <<wps, listener>>
       \/ (\E space \in Spaces, type \in WpTypes : InsertWatch([space |-> space, type |-> type]))
          /\ UNCHANGED bpSet
    /\ UNCHANGED <<debugging, stopped, onbreak, sess, freed, waits, replies, gdbStop, missed>>

GdbRemove(s) ==
    /\ Packet(s)
    /\ \/ bpSet' = FALSE /\ UNCHANGED <<wps, listener>>
       \/ (\E i \in 1..Len(wps) : RemoveWatch(wps[i])) /\ UNCHANGED bpSet
    /\ missed' = {}
    /\ UNCHANGED <<debugging, stopped, onbreak, sess, freed, waits, replies, gdbStop>>

\* 'D': whoever else is connected, the breakpoints are off and the machine runs.
GdbDetach(s) ==
    /\ Packet(s)
    /\ sess' = [sess EXCEPT ![s] = "detached"]
    /\ debugging' = FALSE /\ stopped' = FALSE
    /\ UNCHANGED <<bpSet, wps, listener, onbreak, freed, waits, replies, gdbStop, missed>>

\* The connection is lost, which the board does not learn.
GdbLost(s) ==
    /\ sess[s] = "open"
    /\ sess' = [sess EXCEPT ![s] = "lost"]
    /\ UNCHANGED <<gdbBoard, freed, waits, replies, gdbStop, missed, gdbOps>>

\* The last handler of the session ends without a new read: handle_read() or
\* handle_write() with an error, or handle_write() after the detach.  The Session is
\* destroyed; onbreakpoint still points to it.
GdbRelease(s) ==
    /\ sess[s] \in {"lost", "detached"} /\ ~freed[s]
    /\ freed' = [freed EXCEPT ![s] = TRUE]
    /\ UNCHANGED <<gdbBoard, sess, waits, replies, gdbStop, missed, gdbOps>>

GdbNext ==
    /\ ~gdbCrash
    /\ \/ HitBreakpoint \/ RunInstruction
       \/ \E s \in Ids : Accept(s) \/ GdbContinue(s) \/ GdbBreak(s) \/ ReadReply(s)
                           \/ GdbStep(s) \/ GdbWriteMemory(s) \/ GdbInsert(s) \/ GdbRemove(s)
                           \/ GdbDetach(s) \/ GdbLost(s) \/ GdbRelease(s)

GdbSpec == GdbInit /\ [][GdbNext]_gdbvars

-----------------------------------------------------------------------------
(* Properties *)

Newest(s) == sess[s] # "none" /\ \A t \in Ids : t > s => sess[t] = "none"

\* Whatever clients come, go and overlap: a stop that the board makes (breakpoint or
\* watchpoint) is told to the client that connected last, if it is still connected
\* and waits.  (Others are not told, nor is it told of a stop that another client
\* makes, by its break or by connecting.)  A session that has detached is never
\* called for a breakpoint.  (It is for a watchpoint that was left in, and one that
\* was lost is for both: then the program uses memory that was freed.)  And once all
\* clients have detached the machine runs, unless they left a watchpoint in.
StopIsReported ==
    /\ \A s \in Ids : Newest(s) /\ sess[s] = "open" /\ waits[s] /\ stopped /\ stopper = TheBoard
                       => replies[s] > 0
    /\ <<"detached", "breakpoint">> \notin dangled
    /\ (\A s \in Ids : sess[s] \in {"none", "detached"}) /\ wps = <<>> => ~stopped

\* Every watchpoint that was inserted with the answer OK stops the machine at
\* the accesses it covers.
WatchpointsHeard == missed = {}
=============================================================================
