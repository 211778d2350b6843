------------------------ MODULE CommandServiceProofs ------------------------
(***************************************************************************)
(* DebugBackend implements CommandService, and what else follows from      *)
(* knowing, at every moment, who has custody of a command.                 *)
(***************************************************************************)
EXTENDS DebugBackendProofs

\* Nobody has taken the command yet: it may have been cancelled by its client.
Untouched(c) ==
    /\ cstate[c] \in {"Queued", "Cancelled"}
    /\ result[c] = "unset"

\* The command is in the queue.
InQueue(c) == \E i \in 1..Len(queue) : queue[i] = c

\* The emulation thread holds the command.
Held(c) == epc \in Holding /\ ecmd = c

\* A client is inside the call that allocated its command and has no answer.
Waiting == {"wait", "check", "cas", "get", "quit2", "romDirect"}

\* Every command in the queue is there once, untouched, and held by nobody.
QueueCustody ==
    /\ \A i, j \in 1..Len(queue) : queue[i] = queue[j] => i = j
    /\ \A i \in 1..Len(queue) : Untouched(queue[i]) /\ ~Held(queue[i])

\* The command the emulation thread holds is answered exactly when it is done.
HeldCustody ==
    /\ epc = "proc" => Untouched(ecmd)
    /\ epc \in {"dispatch", "exec", "runState", "trace"} => result[ecmd] = "unset"
    /\ epc = "done" => ecmd \in applied
    /\ epc \in {"drop", "dropBreak"} => result[ecmd] \in Answers
    /\ epc = "trace" => ctype[ecmd] = "Trace"

\* What the promise of a command says of it.
AnswerCustody == \A c \in Commands :
    /\ c \in applied <=> result[c] \in {"Completed", "Failed"}
    /\ result[c] \in {"Cancelled", "broken"} => cstate[c] \in {"Cancelled", "Completed"}
    /\ result[c] = "broken" => reply[c] = "Timeout"
    /\ cstate[c] = "Cancelled" /\ result[c] = "unset" => reply[c] = "Timeout"
    /\ c \in freed => result[c] # "unset"
    /\ cstate[c] = "None" => /\ result[c] = "unset" /\ reply[c] = "none"
                             /\ outcome[c] = "none" /\ ctype[c] = "Quit"

\* The second promise of a RunFuture or a Trace is unset until it is kept.
OutcomeCustody ==
    /\ \A c \in pending : /\ ctype[c] = "RunFuture" /\ outcome[c] = "unset"
                          /\ cstate[c] \in {"Executing", "Completed"}
    /\ \A c \in Commands :
          cstate[c] = "Queued" /\ ctype[c] \in FutureOps => outcome[c] = "unset"
    /\ epc \in {"dispatch", "exec", "trace"} /\ ctype[ecmd] \in FutureOps
          => outcome[ecmd] = "unset"
    /\ epc = "exited" => pending = {}

\* A client that waits has a command of its own.  The one it has not enqueued
\* yet, and the one it carries out itself, nobody else can reach.
ClientCustody ==
    /\ \A p \in Clients : cpc[p] \in Waiting =>
          reply[ccmd[p]] = "none" /\ cstate[ccmd[p]] # "None"
    /\ \A p, q \in Clients : p # q /\ cpc[p] \in Waiting /\ cpc[q] \in Waiting
          => ccmd[p] # ccmd[q]
    /\ \A p \in Clients : cpc[p] = "quit2" =>
          /\ ctype[ccmd[p]] = "Quit"
          /\ cstate[ccmd[p]] = "Queued" /\ result[ccmd[p]] = "unset"
          /\ ~InQueue(ccmd[p]) /\ ~Held(ccmd[p])
    /\ \A p \in Clients : cpc[p] = "romDirect" =>
          /\ cstate[ccmd[p]] = "Executing" /\ result[ccmd[p]] = "unset"
          /\ ~Held(ccmd[p])

Custody == QueueCustody /\ HeldCustody /\ AnswerCustody /\ OutcomeCustody /\ ClientCustody

\* The steps that only move the emulation thread leave custody as it is.
LEMMA ControlKeepsCustody ==
  ASSUME Custody, UNCHANGED <<cmdVars, cliVars, ecmd>>,
         epc' \notin Holding, epc' # "exited"
  PROVE  Custody'
BY DEF Custody, QueueCustody, HeldCustody, AnswerCustody, OutcomeCustody,
   ClientCustody, Untouched, InQueue, Held, Holding, Waiting, cmdVars, cliVars

\* So do the steps that only move a client, unless it takes a command of its own.
LEMMA CallKeepsCustody ==
  ASSUME TypeOK, Custody, UNCHANGED <<cmdVars, epc, ecmd, reply>>,
         NEW p \in Clients, NEW pc, Goto(p, pc), pc \notin {"quit2", "romDirect"},
         \A q \in Clients : q # p => ccmd'[q] = ccmd[q],
         pc \in Waiting => cpc[p] \in Waiting /\ ccmd'[p] = ccmd[p]
  PROVE  Custody'
<1> USE DEF TypeOK, ThreadsTypeOK, Custody, ClientCustody, Waiting, Goto, cmdVars
<1>1. \A q \in Clients : cpc'[q] = IF q = p THEN pc ELSE cpc[q]
  OBVIOUS
<1>2. ClientCustody'
  BY <1>1 DEF InQueue, Held, Holding
<1>3. QueueCustody' /\ HeldCustody' /\ AnswerCustody' /\ OutcomeCustody'
  BY DEF QueueCustody, HeldCustody, AnswerCustody, OutcomeCustody, Untouched,
        Held, Holding
<1> QED BY <1>2, <1>3

\* What is left of a queue after its head is taken.
LEMMA TailOfQueue ==
  ASSUME NEW S, NEW s \in Seq(S), s # <<>>
  PROVE  /\ Len(s) \in Nat \ {0} /\ Head(s) = s[1] /\ Head(s) \in S
         /\ Tail(s) \in Seq(S) /\ Len(Tail(s)) = Len(s) - 1
         /\ \A i \in 1..Len(Tail(s)) : Tail(s)[i] = s[i + 1]
OBVIOUS

\* tryDequeue() and waitAndDequeue() hand the head over to the emulation thread.
LEMMA DequeueKeepsCustody ==
  ASSUME TypeOK, Custody, queue # <<>>, epc \notin Holding,
         ecmd' = Head(queue), queue' = Tail(queue), epc' = "proc",
         UNCHANGED <<ctype, cstate, result, outcome, pending, freed, applied, cliVars>>
  PROVE  Custody'
<1> USE DEF TypeOK, CommandsTypeOK, Custody, QueueCustody, HeldCustody,
        AnswerCustody, OutcomeCustody, ClientCustody, Untouched, InQueue, Held,
        Holding, Waiting, cliVars
<1> DEFINE c == Head(queue)
<1>1. /\ c \in Commands /\ Len(queue) \in Nat \ {0} /\ queue[1] = c
      /\ Len(queue') = Len(queue) - 1
      /\ \A i \in 1..Len(queue') : queue'[i] = queue[i + 1]
  BY TailOfQueue
<1>2. Untouched(c) /\ \A i \in 1..Len(queue') : queue'[i] # c
  BY <1>1
<1>3. QueueCustody'
  BY <1>1, <1>2
<1>4. HeldCustody'
  BY <1>1, <1>2
<1>5. AnswerCustody'
  OBVIOUS
<1>6. OutcomeCustody'
  OBVIOUS
<1>7. ClientCustody'
  <2>1. \A d : InQueue(d)' \/ Held(d)' => InQueue(d)
    BY <1>1
  <2>2. \A p \in Clients : cpc[p] = "romDirect" => ccmd[p] # c
    BY <1>2
  <2> QED BY <2>1, <2>2
<1> QED BY <1>3, <1>4, <1>5, <1>6, <1>7

\* Custody is kept by every step.
LEMMA CustodyKept ==
  ASSUME TypeOK, Ownership, Custody, "Queued" \notin FreedReads, [Next]_vars
  PROVE  Custody'
<1> USE BackendAssumption DEF TypeOK, CommandsTypeOK, ThreadsTypeOK, Ownership,
        Holding, Carrying, Calling, Custody, QueueCustody, HeldCustody,
        AnswerCustody, OutcomeCustody, ClientCustody, Untouched, InQueue, Held,
        Waiting, Answers, SubmitOps, FutureOps, cmdVars, runVars, sigVars,
        emuVars, cliVars
<1>1. CASE EmuStart
  BY <1>1, ControlKeepsCustody DEF EmuStart
<1>2. CASE EmuTop
  BY <1>2, ControlKeepsCustody DEF EmuTop
<1>3. CASE FramePrologue
  BY <1>3, ControlKeepsCustody DEF FramePrologue
<1>4. CASE FrameLoop
  BY <1>4, ControlKeepsCustody DEF FrameLoop
<1>5. CASE FrameLoopQuit
  BY <1>5, ControlKeepsCustody DEF FrameLoopQuit
<1>6. CASE PollDebugger
  BY <1>6, ControlKeepsCustody DEF PollDebugger
<1>7. CASE FrameDone
  BY <1>7, ControlKeepsCustody DEF FrameDone
<1>8. CASE FrameCommands
  <2>1. CASE queue = <<>>
    BY <1>8, <2>1, ControlKeepsCustody DEF FrameCommands
  <2>2. CASE queue # <<>>
    BY <1>8, <2>2, DequeueKeepsCustody DEF FrameCommands
  <2> QED BY <2>1, <2>2
<1>9. CASE FrameCheck
  BY <1>9, ControlKeepsCustody DEF FrameCheck
<1>10. CASE FramesEnd
  BY <1>10 DEF FramesEnd, FulfillPausePromises
<1>11. CASE QuitCheck
  BY <1>11, ControlKeepsCustody DEF QuitCheck
<1>12. CASE WaitAndDequeue
  BY <1>12, DequeueKeepsCustody DEF WaitAndDequeue
<1>13. CASE DrainOne
  <2> DEFINE c == Head(queue)
  <2>1. /\ c \in Commands /\ Len(queue) \in Nat \ {0} /\ queue[1] = c /\ epc = "drain"
        /\ queue' = Tail(queue) /\ Len(queue') = Len(queue) - 1
        /\ \A i \in 1..Len(queue') : queue'[i] = queue[i + 1]
        /\ freed' = freed \cup {c}
        /\ UNCHANGED <<ctype, pending, applied, emuVars, cliVars>>
    BY <1>13, TailOfQueue DEF DrainOne
  <2>2. Untouched(c) /\ c \notin pending
    BY <1>13, <2>1
  <2>3. /\ cstate[c] = "Queued" => result'[c] = "Cancelled"
        /\ cstate[c] = "Cancelled" => result'[c] = "broken"
        /\ cstate'[c] = "Cancelled"
        /\ \A d \in Commands : d # c => /\ result'[d] = result[d]
                                       /\ cstate'[d] = cstate[d]
                                       /\ outcome'[d] = outcome[d]
    BY <1>13, <2>1, <2>2 DEF DrainOne, BrokenIfUnset
  <2>4. QueueCustody'
    BY <2>1, <2>2, <2>3
  <2>5. HeldCustody'
    BY <2>1
  <2>6. AnswerCustody'
    BY <2>1, <2>2, <2>3
  <2>7. OutcomeCustody'
    BY <2>1, <2>2, <2>3
  <2>8. ClientCustody'
    <3>1. \A d : InQueue(d)' => InQueue(d)
      BY <2>1
    <3> QED BY <2>1, <2>2, <2>3, <3>1
  <2> QED BY <2>4, <2>5, <2>6, <2>7, <2>8
<1>14. CASE EmuExit
  BY <1>14 DEF EmuExit, FulfillPausePromises
<1>15. CASE ProcessCas
  BY <1>15 DEF ProcessCas
<1>16. CASE ProcessRefused
  <2>1. QueueCustody'
    BY <1>16 DEF ProcessRefused
  <2>2. HeldCustody'
    BY <1>16 DEF ProcessRefused
  <2>3. AnswerCustody'
    BY <1>16 DEF ProcessRefused
  <2>4. OutcomeCustody'
    BY <1>16 DEF ProcessRefused
  <2>5. ClientCustody'
    BY <1>16 DEF ProcessRefused
  <2> QED BY <2>1, <2>2, <2>3, <2>4, <2>5
<1>17. CASE ProcessQuit
  BY <1>17 DEF ProcessQuit, FulfillPausePromises
<1>18. CASE ProcessTrace
  BY <1>18 DEF ProcessTrace
<1>19. CASE ProcessOther
  BY <1>19 DEF ProcessOther
<1>20. CASE TraceStep
  <2>1. CASE \E why \in {"Timeout", "Ret"} : TraceStops(why)
    <3>1. QueueCustody'
      BY <1>20, <2>1 DEF TraceStep, TraceStops, Answer
    <3>2. HeldCustody'
      BY <1>20, <2>1 DEF TraceStep, TraceStops, Answer
    <3>3. AnswerCustody'
      BY <1>20, <2>1 DEF TraceStep, TraceStops, Answer
    <3>4. OutcomeCustody'
      BY <1>20, <2>1 DEF TraceStep, TraceStops, Answer
    <3>5. ClientCustody'
      BY <1>20, <2>1 DEF TraceStep, TraceStops, Answer
    <3> QED BY <3>1, <3>2, <3>3, <3>4, <3>5
  <2>2. CASE UNCHANGED <<result, outcome, applied, epc>>
    BY <1>20, <2>2 DEF TraceStep
  <2> QED BY <1>20, <2>1, <2>2 DEF TraceStep
<1>21. CASE ExecRun
  BY <1>21 DEF ExecRun
<1>22. CASE ExecRunState
  BY <1>22 DEF ExecRunState, Answer
<1>23. CASE ExecStep
  BY <1>23 DEF ExecStep, Answer
<1>24. CASE ExecReset
  BY <1>24 DEF ExecReset, Answer
<1>25. CASE ExecLoadRom
  BY <1>25 DEF ExecLoadRom, Answer
<1>26. CASE ExecWrite
  BY <1>26 DEF ExecWrite, Answer
<1>27. CASE ExecEdit
  BY <1>27 DEF ExecEdit, Answer
<1>28. CASE ProcessDone
  BY <1>28 DEF ProcessDone, FulfillPausePromises
<1>29. CASE DropCommand
  BY <1>29 DEF DropCommand, BrokenIfUnset
<1>30. ASSUME NEW p \in Clients, ClientCall(p) PROVE Custody'
  <2>1. CASE \E op \in Ops, c \in Commands : Submit(p, op, c)
    BY <2>1 DEF Submit, Enqueue, Goto
  <2>2. CASE \E op \in Ops, c \in Commands : SubmitFuture(p, op, c)
    BY <2>2 DEF SubmitFuture, Enqueue, Goto
  <2>3. CASE RequestPause(p)
    BY <2>3, CallKeepsCustody DEF RequestPause, Goto
  <2>4. CASE \E c \in Commands : RequestQuit(p, c)
    BY <2>4 DEF RequestQuit, Goto
  <2>5. CASE \E c \in Commands : LoadRomDirect(p, c)
    BY <2>5 DEF LoadRomDirect, Goto
  <2>6. CASE LoadWav(p)
    BY <2>6, CallKeepsCustody DEF LoadWav, Goto
  <2>7. CASE AgentStep(p)
    BY <2>7, CallKeepsCustody DEF AgentStep, Goto
  <2> QED BY <1>30, <2>1, <2>2, <2>3, <2>4, <2>5, <2>6, <2>7 DEF ClientCall
<1>31. ASSUME NEW p \in Clients, ClientStep(p) PROVE Custody'
  <2>1. CASE ReadyInTime(p)
    BY <2>1 DEF ReadyInTime, Return, Goto
  <2>2. CASE WaitTimesOut(p)
    BY <2>2, CallKeepsCustody DEF WaitTimesOut, Goto
  <2>3. CASE CheckState(p)
    BY <2>3, CallKeepsCustody DEF CheckState, Goto
  <2>4. CASE CancelCas(p)
    <3> DEFINE c == ccmd[p]
    <3>1. c \in Commands /\ UNCHANGED <<queue, ctype, result, outcome, pending, freed,
                                        applied, emuVars>>
      BY <2>4 DEF CancelCas
    <3>2. CASE cstate[c] = "Queued" /\ c \notin freed
      <4>1. /\ cstate' = [cstate EXCEPT ![c] = "Cancelled"]
            /\ reply' = [reply EXCEPT ![c] = "Timeout"]
            /\ cpc' = [cpc EXCEPT ![p] = "idle"]
            /\ ccmd' = [ccmd EXCEPT ![p] = None]
        BY <2>4, <3>2 DEF CancelCas, StateReads, Return, Goto
      <4>2. \A q \in Clients : q # p /\ cpc[q] \in Waiting => ccmd[q] # c
        BY <2>4 DEF CancelCas
      <4>3. QueueCustody' /\ HeldCustody'
        BY <3>1, <3>2, <4>1
      <4>4. AnswerCustody'
        BY <3>1, <3>2, <4>1
      <4>5. OutcomeCustody'
        BY <3>1, <3>2, <4>1
      <4>6. ClientCustody'
        BY <3>1, <3>2, <4>1, <4>2
      <4> QED BY <4>3, <4>4, <4>5, <4>6
    <3>3. CASE ~(cstate[c] = "Queued" /\ c \notin freed)
      BY <2>4, <3>1, <3>3 DEF CancelCas, StateReads, Goto
    <3> QED BY <3>2, <3>3
  <2>5. CASE FutureAccepted(p)
    BY <2>5, CallKeepsCustody DEF FutureAccepted, Goto
  <2>6. CASE FutureReady(p)
    BY <2>6, CallKeepsCustody DEF FutureReady, Goto
  <2>7. CASE RequestBreak(p)
    BY <2>7, CallKeepsCustody DEF RequestBreak, Goto
  <2>8. CASE EnqueueQuit(p)
    BY <2>8 DEF EnqueueQuit, Goto
  <2>9. CASE LoadRomHere(p)
    BY <2>9 DEF LoadRomHere, Goto
  <2>10. CASE ClearForRom(p)
    BY <2>10, CallKeepsCustody DEF ClearForRom, Goto
  <2>11. CASE StopFlags(p)
    <3>1. PICK pc \in {"stop2", "stop3", "wavLoad", "idle"} : Goto(p, pc)
      BY <2>11 DEF StopFlags
    <3>2. \A q \in Clients : q # p => ccmd'[q] = ccmd[q]
      BY <2>11 DEF StopFlags
    <3> QED BY <2>11, <3>1, <3>2, CallKeepsCustody DEF StopFlags
  <2>12. CASE LoadWavHere(p)
    BY <2>12, CallKeepsCustody DEF LoadWavHere, Goto
  <2>13. CASE AgentStepHere(p)
    BY <2>13, CallKeepsCustody DEF AgentStepHere, Goto
  <2> QED BY <1>31, <2>1, <2>2, <2>3, <2>4, <2>5, <2>6, <2>7, <2>8, <2>9,
        <2>10, <2>11, <2>12, <2>13 DEF ClientStep
<1>32. CASE Rest \/ UNCHANGED vars
  BY <1>32 DEF Rest, vars
<1> QED BY <1>1, <1>2, <1>3, <1>4, <1>5, <1>6, <1>7, <1>8, <1>9, <1>10, <1>11,
      <1>12, <1>13, <1>14, <1>15, <1>16, <1>17, <1>18, <1>19, <1>20, <1>21,
      <1>22, <1>23, <1>24, <1>25, <1>26, <1>27, <1>28, <1>29, <1>30, <1>31,
      <1>32 DEF Next, EmuNext

\* Nobody has a command yet.
LEMMA InitCustody == Init => Custody
BY DEF Init, Custody, QueueCustody, HeldCustody, AnswerCustody, OutcomeCustody,
   ClientCustody, Untouched, InQueue, Held, Holding, Waiting

\* At every moment each command has one keeper: the client that is about to
\* enqueue it or executes it itself, the queue, or the emulation thread; and
\* its promises tell how far it has come.
THEOREM CustodyInv ==
  ASSUME "Queued" \notin FreedReads
  PROVE  Spec => []Custody
<1>1. Init => Custody
  BY InitCustody
<1>2. TypeOK /\ Ownership /\ Custody /\ [Next]_vars => Custody'
  BY CustodyKept
<1> QED BY <1>1, <1>2, BackendInv, PTL DEF Spec

\* When the emulation thread has ended, every command it destroyed has its
\* answer, or its caller was told Timeout, and no pause promise is pending.
THEOREM ExitAnswers ==
  ASSUME "Queued" \notin FreedReads
  PROVE  Spec => []ExitAnswersAll
<1>1. TypeOK /\ Custody => ExitAnswersAll
  BY DEF TypeOK, CommandsTypeOK, Custody, AnswerCustody, OutcomeCustody,
        Answers,
     ExitAnswersAll
<1> QED BY <1>1, BackendInv, CustodyInv, PTL

\* What a step may do to the two promises of a command.
OnlyUnsetIsSet ==
    \A c \in Commands :
        /\ result[c] \in Answers => result'[c] = result[c]
        /\ outcome[c] \notin {"none", "unset"} => outcome'[c] = outcome[c]

\* A step sets a promise only where the command's keeper left it unset.
LEMMA PromisesKept ==
  ASSUME TypeOK, Ownership, Custody, [Next]_vars
  PROVE  OnlyUnsetIsSet
<1> USE BackendAssumption DEF TypeOK, CommandsTypeOK, ThreadsTypeOK, Ownership,
        Holding, Carrying, Calling, Custody, QueueCustody, HeldCustody,
        AnswerCustody, OutcomeCustody, ClientCustody, Untouched, InQueue, Held,
        Waiting, Answers, SubmitOps, FutureOps, cmdVars, runVars, sigVars,
        emuVars, cliVars, OnlyUnsetIsSet
<1>1. CASE EmuStart
  BY <1>1 DEF EmuStart
<1>2. CASE EmuTop
  BY <1>2 DEF EmuTop
<1>3. CASE FramePrologue
  BY <1>3 DEF FramePrologue
<1>4. CASE FrameLoop
  BY <1>4 DEF FrameLoop
<1>5. CASE FrameLoopQuit
  BY <1>5 DEF FrameLoopQuit
<1>6. CASE PollDebugger
  BY <1>6 DEF PollDebugger
<1>7. CASE FrameDone
  BY <1>7 DEF FrameDone
<1>8. CASE FrameCommands
  BY <1>8 DEF FrameCommands
<1>9. CASE FrameCheck
  BY <1>9 DEF FrameCheck
<1>10. CASE FramesEnd
  BY <1>10 DEF FramesEnd, FulfillPausePromises
<1>11. CASE QuitCheck
  BY <1>11 DEF QuitCheck
<1>12. CASE WaitAndDequeue
  BY <1>12 DEF WaitAndDequeue
<1>13. CASE DrainOne
  BY <1>13 DEF DrainOne, BrokenIfUnset
<1>14. CASE EmuExit
  BY <1>14 DEF EmuExit, FulfillPausePromises
<1>15. CASE ProcessCas
  BY <1>15 DEF ProcessCas
<1>16. CASE ProcessRefused
  BY <1>16 DEF ProcessRefused
<1>17. CASE ProcessQuit
  BY <1>17 DEF ProcessQuit, FulfillPausePromises
<1>18. CASE ProcessTrace
  BY <1>18 DEF ProcessTrace
<1>19. CASE ProcessOther
  BY <1>19 DEF ProcessOther
<1>20. CASE TraceStep
  BY <1>20 DEF TraceStep, TraceStops, Answer
<1>21. CASE ExecRun
  BY <1>21 DEF ExecRun
<1>22. CASE ExecRunState
  BY <1>22 DEF ExecRunState, Answer
<1>23. CASE ExecStep
  BY <1>23 DEF ExecStep, Answer
<1>24. CASE ExecReset
  BY <1>24 DEF ExecReset, Answer
<1>25. CASE ExecLoadRom
  BY <1>25 DEF ExecLoadRom, Answer
<1>26. CASE ExecWrite
  BY <1>26 DEF ExecWrite, Answer
<1>27. CASE ExecEdit
  BY <1>27 DEF ExecEdit, Answer
<1>28. CASE ProcessDone
  BY <1>28 DEF ProcessDone, FulfillPausePromises
<1>29. CASE DropCommand
  BY <1>29 DEF DropCommand, BrokenIfUnset
<1>30. ASSUME NEW p \in Clients, ClientCall(p) PROVE OnlyUnsetIsSet
  <2>1. CASE \E op \in Ops, c \in Commands : Submit(p, op, c)
    BY <2>1 DEF Submit, Enqueue, Goto
  <2>2. CASE \E op \in Ops, c \in Commands : SubmitFuture(p, op, c)
    BY <2>2 DEF SubmitFuture, Enqueue, Goto
  <2>3. CASE RequestPause(p)
    BY <2>3 DEF RequestPause, Goto
  <2>4. CASE \E c \in Commands : RequestQuit(p, c)
    BY <2>4 DEF RequestQuit, Goto
  <2>5. CASE \E c \in Commands : LoadRomDirect(p, c)
    BY <2>5 DEF LoadRomDirect, Goto
  <2>6. CASE LoadWav(p)
    BY <2>6 DEF LoadWav, Goto
  <2>7. CASE AgentStep(p)
    BY <2>7 DEF AgentStep, Goto
  <2> QED BY <1>30, <2>1, <2>2, <2>3, <2>4, <2>5, <2>6, <2>7 DEF ClientCall
<1>31. ASSUME NEW p \in Clients, ClientStep(p) PROVE OnlyUnsetIsSet
  <2>1. CASE ReadyInTime(p)
    BY <2>1 DEF ReadyInTime, Return, Goto
  <2>2. CASE WaitTimesOut(p)
    BY <2>2 DEF WaitTimesOut, Goto
  <2>3. CASE CheckState(p)
    BY <2>3 DEF CheckState, Goto, StateReads
  <2>4. CASE CancelCas(p)
    BY <2>4 DEF CancelCas, StateReads, Return, Goto
  <2>5. CASE FutureAccepted(p)
    BY <2>5 DEF FutureAccepted, Goto
  <2>6. CASE FutureReady(p)
    BY <2>6 DEF FutureReady, Goto
  <2>7. CASE RequestBreak(p)
    BY <2>7 DEF RequestBreak, Goto
  <2>8. CASE EnqueueQuit(p)
    BY <2>8 DEF EnqueueQuit, Goto
  <2>9. CASE LoadRomHere(p)
    BY <2>9 DEF LoadRomHere, Goto
  <2>10. CASE ClearForRom(p)
    BY <2>10 DEF ClearForRom, Goto
  <2>11. CASE StopFlags(p)
    BY <2>11 DEF StopFlags, Goto
  <2>12. CASE LoadWavHere(p)
    BY <2>12 DEF LoadWavHere, Goto
  <2>13. CASE AgentStepHere(p)
    BY <2>13 DEF AgentStepHere, Goto
  <2> QED BY <1>31, <2>1, <2>2, <2>3, <2>4, <2>5, <2>6, <2>7, <2>8, <2>9,
        <2>10, <2>11, <2>12, <2>13 DEF ClientStep
<1>32. CASE Rest \/ UNCHANGED vars
  BY <1>32 DEF Rest, vars
<1> QED BY <1>1, <1>2, <1>3, <1>4, <1>5, <1>6, <1>7, <1>8, <1>9, <1>10,
        <1>11, <1>12, <1>13, <1>14, <1>15, <1>16, <1>17, <1>18, <1>19, <1>20,
        <1>21, <1>22, <1>23, <1>24, <1>25, <1>26, <1>27, <1>28, <1>29, <1>30,
        <1>31, <1>32 DEF Next, EmuNext

\* std::promise::set_value() is called at most once on each promise, and what
\* it was given stays.
THEOREM PromisesSetOnce ==
  ASSUME "Queued" \notin FreedReads
  PROVE  Spec => PromiseSetOnce
<1>1. TypeOK /\ Ownership /\ Custody /\ [Next]_vars
        => [\A c \in Commands :
              /\ result[c] \in Answers => result'[c] = result[c]
              /\ outcome[c] \notin {"none", "unset"} => outcome'[c] = outcome[c]]_vars
  BY PromisesKept DEF OnlyUnsetIsSet
<1> QED BY <1>1, BackendInv, CustodyInv, PTL DEF Spec, PromiseSetOnce

\* A step that neither moves a command nor answers a caller stutters.
LEMMA ServiceStutters ==
  ASSUME UNCHANGED <<cstate, applied, reply>>
  PROVE  UNCHANGED Service!vars
BY DEF ServicePhase, Service!vars

\* How the phase of one command changes.
LEMMA PhaseMoves ==
  ASSUME NEW c \in Commands, NEW to,
         ServicePhase'[c] = to,
         \A d \in Commands \ {c} : ServicePhase'[d] = ServicePhase[d]
  PROVE  Service!Move(c, ServicePhase[c], to)
BY DEF ServicePhase, Service!Move

\* A command that was just allocated is submitted to the service.
LEMMA ServiceSubmits ==
  ASSUME TypeOK, Custody, NEW c \in Commands, NEW s \in {"Queued", "Executing"},
         cstate[c] = "None", cstate' = [cstate EXCEPT ![c] = s],
         UNCHANGED <<applied, reply>>
  PROVE  Service!Next
<1>1. c \notin applied
  BY DEF Custody, AnswerCustody
<1>2. ServicePhase[c] = "unsubmitted" /\ ServicePhase'[c] = "pending"
  BY <1>1 DEF ServicePhase, TypeOK, CommandsTypeOK
<1>3. \A d \in Commands \ {c} : ServicePhase'[d] = ServicePhase[d]
  BY DEF ServicePhase, TypeOK, CommandsTypeOK
<1>4. Service!Submit(c)
  BY <1>2, <1>3, PhaseMoves DEF Service!Submit
<1> QED BY <1>4 DEF Service!Next

\* A command that is carried out is applied by the service.
LEMMA ServiceApplies ==
  ASSUME TypeOK, NEW c \in Commands, c \notin applied, cstate[c] = "Executing",
         applied' = applied \cup {c},
         cstate' \in {cstate, [cstate EXCEPT ![c] = "Completed"]}, UNCHANGED reply
  PROVE  Service!Next
<1>1. ServicePhase[c] = "pending" /\ ServicePhase'[c] = "applied"
  BY DEF ServicePhase, TypeOK, CommandsTypeOK
<1>2. \A d \in Commands \ {c} : ServicePhase'[d] = ServicePhase[d]
  BY DEF ServicePhase, TypeOK, CommandsTypeOK
<1>3. Service!Apply(c)
  BY <1>1, <1>2, PhaseMoves DEF Service!Apply
<1> QED BY <1>3 DEF Service!Next

\* A command that is cancelled or refused is withdrawn.
LEMMA PhaseWithdrawn ==
  ASSUME TypeOK, NEW c \in Commands, c \notin applied,
         cstate[c] \in {"Queued", "Executing"}, UNCHANGED applied,
         NEW s \in {"Cancelled", "Completed"}, cstate' = [cstate EXCEPT ![c] = s]
  PROVE  Service!Move(c, "pending", "withdrawn")
<1>1. ServicePhase[c] = "pending" /\ ServicePhase'[c] = "withdrawn"
  BY DEF ServicePhase, TypeOK, CommandsTypeOK
<1>2. \A d \in Commands \ {c} : ServicePhase'[d] = ServicePhase[d]
  BY DEF ServicePhase, TypeOK, CommandsTypeOK
<1> QED BY <1>1, <1>2, PhaseMoves

\* A step of the threads is a step of the service or leaves it alone.
LEMMA ServiceStep ==
  ASSUME TypeOK, Ownership, Custody, "Queued" \notin FreedReads, [Next]_vars
  PROVE  [Service!Next]_(Service!vars)
<1> USE DEF cmdVars, runVars, sigVars, emuVars, cliVars
<1>a. epc \in {"dispatch", "exec", "runState", "trace"} =>
        ecmd \in Commands /\ ecmd \notin applied /\ cstate[ecmd] = "Executing"
  BY DEF Ownership, Holding, Carrying, Custody, HeldCustody, AnswerCustody
<1>1. CASE EmuStart
  BY <1>1, ServiceStutters DEF EmuStart
<1>2. CASE EmuTop
  BY <1>2, ServiceStutters DEF EmuTop
<1>3. CASE FramePrologue
  BY <1>3, ServiceStutters DEF FramePrologue
<1>4. CASE FrameLoop
  BY <1>4, ServiceStutters DEF FrameLoop
<1>5. CASE FrameLoopQuit
  BY <1>5, ServiceStutters DEF FrameLoopQuit
<1>6. CASE PollDebugger
  BY <1>6, ServiceStutters DEF PollDebugger
<1>7. CASE FrameDone
  BY <1>7, ServiceStutters DEF FrameDone
<1>8. CASE FrameCommands
  BY <1>8, ServiceStutters DEF FrameCommands
<1>9. CASE FrameCheck
  BY <1>9, ServiceStutters DEF FrameCheck
<1>10. CASE FramesEnd
  BY <1>10, ServiceStutters DEF FramesEnd
<1>11. CASE QuitCheck
  BY <1>11, ServiceStutters DEF QuitCheck
<1>12. CASE WaitAndDequeue
  BY <1>12, ServiceStutters DEF WaitAndDequeue
<1>13. CASE DrainOne
  <2> DEFINE c == Head(queue)
  <2>1. c \in Commands /\ Untouched(c) /\ c \notin applied
    BY <1>13, TailOfQueue DEF DrainOne, TypeOK, CommandsTypeOK, Custody,
          QueueCustody,
       AnswerCustody, Untouched
  <2>2. CASE cstate[c] = "Queued"
    <3>1. Service!Withdraw(c)
      BY <1>13, <2>1, <2>2, PhaseWithdrawn DEF DrainOne, Service!Withdraw
    <3> QED BY <2>1, <3>1 DEF Service!Next
  <2>3. CASE cstate[c] # "Queued"
    BY <1>13, <2>3, ServiceStutters DEF DrainOne
  <2> QED BY <2>2, <2>3
<1>14. CASE EmuExit
  BY <1>14, ServiceStutters DEF EmuExit
<1>15. CASE ProcessCas
  <2>1. CASE cstate[ecmd] = "Queued"
    <3>1. ServicePhase' = ServicePhase
      BY <1>15, <2>1 DEF ProcessCas, ServicePhase, TypeOK, CommandsTypeOK
    <3> QED BY <1>15, <3>1 DEF ProcessCas, Service!vars
  <2>2. CASE cstate[ecmd] # "Queued"
    BY <1>15, <2>2, ServiceStutters DEF ProcessCas
  <2> QED BY <2>1, <2>2
<1>16. CASE ProcessRefused
  <2>1. Service!Withdraw(ecmd)
    BY <1>16, <1>a, PhaseWithdrawn DEF ProcessRefused, Service!Withdraw
  <2> QED BY <1>16, <1>a, <2>1 DEF ProcessRefused, Service!Next
<1>17. CASE ProcessQuit
  BY <1>17, <1>a, ServiceApplies DEF ProcessQuit
<1>18. CASE ProcessTrace
  BY <1>18, ServiceStutters DEF ProcessTrace
<1>19. CASE ProcessOther
  BY <1>19, ServiceStutters DEF ProcessOther
<1>20. CASE TraceStep
  <2>1. CASE \E why \in {"Timeout", "Ret"} : TraceStops(why)
    BY <1>20, <2>1, <1>a, ServiceApplies DEF TraceStep, TraceStops, Answer
  <2>2. CASE UNCHANGED <<result, outcome, applied, epc>>
    BY <1>20, <2>2, ServiceStutters DEF TraceStep
  <2> QED BY <1>20, <2>1, <2>2 DEF TraceStep
<1>21. CASE ExecRun
  BY <1>21, ServiceStutters DEF ExecRun
<1>22. CASE ExecRunState
  BY <1>22, <1>a, ServiceApplies DEF ExecRunState, Answer
<1>23. CASE ExecStep
  BY <1>23, <1>a, ServiceApplies DEF ExecStep, Answer
<1>24. CASE ExecReset
  BY <1>24, <1>a, ServiceApplies DEF ExecReset, Answer
<1>25. CASE ExecLoadRom
  BY <1>25, <1>a, ServiceApplies DEF ExecLoadRom, Answer
<1>26. CASE ExecWrite
  BY <1>26, <1>a, ServiceApplies DEF ExecWrite, Answer
<1>27. CASE ExecEdit
  BY <1>27, <1>a, ServiceApplies DEF ExecEdit, Answer
<1>28. CASE ProcessDone
  <2>1. ecmd \in applied /\ ecmd \in Commands /\ cstate[ecmd] # "None"
    BY <1>28 DEF ProcessDone, Custody, HeldCustody, Ownership, Holding,
          Carrying
  <2>2. ServicePhase' = ServicePhase
    BY <1>28, <2>1 DEF ProcessDone, ServicePhase, TypeOK, CommandsTypeOK
  <2> QED BY <1>28, <2>2 DEF ProcessDone, Service!vars
<1>29. CASE DropCommand
  BY <1>29, ServiceStutters DEF DropCommand
<1>30. ASSUME NEW p \in Clients, ClientCall(p) PROVE [Service!Next]_(Service!vars)
  <2>1. CASE \E op \in Ops, c \in Commands : Submit(p, op, c)
    BY <2>1, ServiceSubmits DEF Submit, Enqueue
  <2>2. CASE \E op \in Ops, c \in Commands : SubmitFuture(p, op, c)
    BY <2>2, ServiceSubmits DEF SubmitFuture, Enqueue
  <2>3. CASE RequestPause(p)
    BY <2>3, ServiceStutters DEF RequestPause
  <2>4. CASE \E c \in Commands : RequestQuit(p, c)
    BY <2>4, ServiceSubmits DEF RequestQuit
  <2>5. CASE \E c \in Commands : LoadRomDirect(p, c)
    BY <2>5, ServiceSubmits DEF LoadRomDirect
  <2>6. CASE LoadWav(p)
    BY <2>6, ServiceStutters DEF LoadWav
  <2>7. CASE AgentStep(p)
    BY <2>7, ServiceStutters DEF AgentStep
  <2> QED BY <1>30, <2>1, <2>2, <2>3, <2>4, <2>5, <2>6, <2>7 DEF ClientCall
<1>31. ASSUME NEW p \in Clients, ClientStep(p) PROVE [Service!Next]_(Service!vars)
  <2>1. CASE ReadyInTime(p)
    <3> DEFINE c == ccmd[p]
    <3>1. c \in Commands /\ reply[c] = "none" /\ result[c] \in Answers
      BY <2>1 DEF ReadyInTime, Ownership, Calling, Custody, ClientCustody,
            Waiting
    <3>2. /\ result[c] \in {"Completed", "Failed"} => ServicePhase[c] = "applied"
          /\ result[c] = "Cancelled" => ServicePhase[c] = "withdrawn"
      BY <3>1 DEF ServicePhase, Custody, AnswerCustody
    <3>3. ServicePhase' = ServicePhase /\ reply' = [reply EXCEPT ![c] = result[c]]
      BY <2>1 DEF ReadyInTime, Return, ServicePhase
    <3>4. Service!Answer(c)
      BY <3>1, <3>2, <3>3 DEF Service!Answer, Service!Truthful, Answers
    <3> QED BY <3>1, <3>4 DEF Service!Next
  <2>2. CASE WaitTimesOut(p)
    BY <2>2, ServiceStutters DEF WaitTimesOut
  <2>3. CASE CheckState(p)
    BY <2>3, ServiceStutters DEF CheckState
  <2>4. CASE CancelCas(p)
    <3> DEFINE c == ccmd[p]
    <3>1. c \in Commands /\ reply[c] = "none"
      BY <2>4 DEF CancelCas, Ownership, Calling, Custody, ClientCustody,
            Waiting
    <3>2. CASE cstate[c] = "Queued" /\ c \notin freed
      <4>1. /\ cstate' = [cstate EXCEPT ![c] = "Cancelled"] /\ UNCHANGED applied
            /\ reply' = [reply EXCEPT ![c] = "Timeout"]
        BY <2>4, <3>2 DEF CancelCas, StateReads, Return
      <4>2. c \notin applied
        BY <3>1, <3>2 DEF Ownership
      <4>3. Service!TimeOut(c)
        BY <3>1, <3>2, <4>1, <4>2, PhaseWithdrawn DEF Service!TimeOut
      <4> QED BY <3>1, <4>3 DEF Service!Next
    <3>3. CASE ~(cstate[c] = "Queued" /\ c \notin freed)
      BY <2>4, <3>3, ServiceStutters DEF CancelCas, StateReads
    <3> QED BY <3>2, <3>3
  <2>5. CASE FutureAccepted(p)
    BY <2>5, ServiceStutters DEF FutureAccepted
  <2>6. CASE FutureReady(p)
    BY <2>6, ServiceStutters DEF FutureReady
  <2>7. CASE RequestBreak(p)
    BY <2>7, ServiceStutters DEF RequestBreak
  <2>8. CASE EnqueueQuit(p)
    BY <2>8, ServiceStutters DEF EnqueueQuit
  <2>9. CASE LoadRomHere(p)
    <3>1. ccmd[p] \in Commands /\ ccmd[p] \notin applied /\ cstate[ccmd[p]] = "Executing"
      BY <2>9 DEF LoadRomHere, Ownership, Calling, Custody, ClientCustody,
            AnswerCustody
    <3> QED BY <2>9, <3>1, ServiceApplies DEF LoadRomHere
  <2>10. CASE ClearForRom(p)
    BY <2>10, ServiceStutters DEF ClearForRom
  <2>11. CASE StopFlags(p)
    BY <2>11, ServiceStutters DEF StopFlags
  <2>12. CASE LoadWavHere(p)
    BY <2>12, ServiceStutters DEF LoadWavHere
  <2>13. CASE AgentStepHere(p)
    BY <2>13, ServiceStutters DEF AgentStepHere
  <2> QED BY <1>31, <2>1, <2>2, <2>3, <2>4, <2>5, <2>6, <2>7, <2>8, <2>9,
        <2>10, <2>11, <2>12, <2>13 DEF ClientStep
<1>32. CASE Rest \/ UNCHANGED vars
  BY <1>32, ServiceStutters DEF Rest, vars
<1> QED BY <1>1, <1>2, <1>3, <1>4, <1>5, <1>6, <1>7, <1>8, <1>9, <1>10,
        <1>11, <1>12, <1>13, <1>14, <1>15, <1>16, <1>17, <1>18, <1>19, <1>20,
        <1>21, <1>22, <1>23, <1>24, <1>25, <1>26, <1>27, <1>28, <1>29, <1>30,
        <1>31, <1>32 DEF Next, EmuNext

\* The queue, the two CAS, the timeout and the drain implement the service of
\* submitAndWait(): each command is carried out once or withdrawn, never both,
\* and its caller is told truthfully which.
THEOREM ServiceImplemented ==
  ASSUME "Queued" \notin FreedReads
  PROVE  Spec => ImplementsService
<1>1. Init => Service!Init
  BY DEF Init, Service!Init, ServicePhase
<1>2. TypeOK /\ Ownership /\ Custody /\ [Next]_vars => [Service!Next]_(Service!vars)
  BY ServiceStep
<1> QED BY <1>1, <1>2, BackendInv, CustodyInv, PTL
       DEF Spec, ImplementsService, Service!Spec

-----------------------------------------------------------------------------
(* The flags running_ and state_, when nobody loads a ROM or a tape: those two
   calls store the flags from the caller's thread. *)

NoLoads == {"LoadRom", "LoadWav"} \cap Ops = {}

\* No client is inside loadRom() or loadWav().
NobodyLoads ==
    /\ \A c \in Commands : ctype[c] # "LoadRom"
    /\ \A p \in Clients :
          cpc[p] \notin {"romDirect", "rom0", "stop1", "stop2", "stop3", "wavLoad"}

\* running_ and state_ agree but inside a Run command, at the end of the frame
\* loop and after the exit; and what the emulation thread knows of running_.
FlagDiscipline ==
    /\ epc \notin {"runState", "end", "exited"} => (running <=> state = "Running")
    /\ epc \in {"runState", "prologue", "loop", "loopQuit", "poll", "inFrame"} => running
    /\ epc \in {"end", "trace", "wait"} => ~running
    /\ epc = "quitCheck" => ~running \/ quitReq

\* While a pause promise is pending the machine runs, or the emulation thread
\* is on its way to fulfil it.
PromiseDiscipline ==
    /\ pending # {} => running \/ epc \in {"trace", "done", "end", "exited"}
    /\ epc = "quitCheck" => pending = {} \/ quitReq

\* Without loads no step starts one.
LEMMA NobodyLoadsKept ==
  ASSUME NoLoads, TypeOK, Ownership, NobodyLoads, [Next]_vars
  PROVE  NobodyLoads'
<1> USE BackendAssumption DEF NoLoads, TypeOK, CommandsTypeOK, ThreadsTypeOK, Ownership,
        Holding, Carrying, Calling, NobodyLoads, SubmitOps, FutureOps, cmdVars, runVars,
        sigVars, emuVars, cliVars
<1>1. CASE EmuStart
  BY <1>1 DEF EmuStart
<1>2. CASE EmuTop
  BY <1>2 DEF EmuTop
<1>3. CASE FramePrologue
  BY <1>3 DEF FramePrologue
<1>4. CASE FrameLoop
  BY <1>4 DEF FrameLoop
<1>5. CASE FrameLoopQuit
  BY <1>5 DEF FrameLoopQuit
<1>6. CASE PollDebugger
  BY <1>6 DEF PollDebugger
<1>7. CASE FrameDone
  BY <1>7 DEF FrameDone
<1>8. CASE FrameCommands
  BY <1>8 DEF FrameCommands
<1>9. CASE FrameCheck
  BY <1>9 DEF FrameCheck
<1>10. CASE FramesEnd
  BY <1>10 DEF FramesEnd, FulfillPausePromises
<1>11. CASE QuitCheck
  BY <1>11 DEF QuitCheck
<1>12. CASE WaitAndDequeue
  BY <1>12 DEF WaitAndDequeue
<1>13. CASE DrainOne
  BY <1>13 DEF DrainOne, BrokenIfUnset
<1>14. CASE EmuExit
  BY <1>14 DEF EmuExit, FulfillPausePromises
<1>15. CASE ProcessCas
  BY <1>15 DEF ProcessCas
<1>16. CASE ProcessRefused
  BY <1>16 DEF ProcessRefused
<1>17. CASE ProcessQuit
  BY <1>17 DEF ProcessQuit, FulfillPausePromises
<1>18. CASE ProcessTrace
  BY <1>18 DEF ProcessTrace
<1>19. CASE ProcessOther
  BY <1>19 DEF ProcessOther
<1>20. CASE TraceStep
  BY <1>20 DEF TraceStep, TraceStops, Answer
<1>21. CASE ExecRun
  BY <1>21 DEF ExecRun
<1>22. CASE ExecRunState
  BY <1>22 DEF ExecRunState, Answer
<1>23. CASE ExecStep
  BY <1>23 DEF ExecStep, Answer
<1>24. CASE ExecReset
  BY <1>24 DEF ExecReset, Answer
<1>25. CASE ExecLoadRom
  BY <1>25 DEF ExecLoadRom, Answer
<1>26. CASE ExecWrite
  BY <1>26 DEF ExecWrite, Answer
<1>27. CASE ExecEdit
  BY <1>27 DEF ExecEdit, Answer
<1>28. CASE ProcessDone
  BY <1>28 DEF ProcessDone, FulfillPausePromises
<1>29. CASE DropCommand
  BY <1>29 DEF DropCommand, BrokenIfUnset
<1>30. ASSUME NEW p \in Clients, ClientCall(p) PROVE NobodyLoads'
  <2>1. CASE \E op \in Ops, c \in Commands : Submit(p, op, c)
    BY <2>1 DEF Submit, Enqueue, Goto
  <2>2. CASE \E op \in Ops, c \in Commands : SubmitFuture(p, op, c)
    BY <2>2 DEF SubmitFuture, Enqueue, Goto
  <2>3. CASE RequestPause(p)
    BY <2>3 DEF RequestPause, Goto
  <2>4. CASE \E c \in Commands : RequestQuit(p, c)
    BY <2>4 DEF RequestQuit, Goto
  <2>5. CASE "LoadRom" \in Ops /\ \E c \in Commands : LoadRomDirect(p, c)
    BY <2>5 DEF LoadRomDirect, Goto
  <2>6. CASE "LoadWav" \in Ops /\ LoadWav(p)
    BY <2>6 DEF LoadWav, Goto
  <2>7. CASE AgentStep(p)
    BY <2>7 DEF AgentStep, Goto
  <2> QED BY <1>30, <2>1, <2>2, <2>3, <2>4, <2>5, <2>6, <2>7 DEF ClientCall
<1>31. ASSUME NEW p \in Clients, ClientStep(p) PROVE NobodyLoads'
  <2>1. CASE ReadyInTime(p)
    BY <2>1 DEF ReadyInTime, Return, Goto
  <2>2. CASE WaitTimesOut(p)
    BY <2>2 DEF WaitTimesOut, Goto
  <2>3. CASE CheckState(p)
    BY <2>3 DEF CheckState, Goto, StateReads
  <2>4. CASE CancelCas(p)
    BY <2>4 DEF CancelCas, StateReads, Return, Goto
  <2>5. CASE FutureAccepted(p)
    BY <2>5 DEF FutureAccepted, Goto
  <2>6. CASE FutureReady(p)
    BY <2>6 DEF FutureReady, Goto
  <2>7. CASE RequestBreak(p)
    BY <2>7 DEF RequestBreak, Goto
  <2>8. CASE EnqueueQuit(p)
    BY <2>8 DEF EnqueueQuit, Goto
  <2>9. CASE LoadRomHere(p)
    BY <2>9 DEF LoadRomHere, Goto
  <2>10. CASE ClearForRom(p)
    BY <2>10 DEF ClearForRom, Goto
  <2>11. CASE StopFlags(p)
    BY <2>11 DEF StopFlags, Goto
  <2>12. CASE LoadWavHere(p)
    BY <2>12 DEF LoadWavHere, Goto
  <2>13. CASE AgentStepHere(p)
    BY <2>13 DEF AgentStepHere, Goto
  <2> QED BY <1>31, <2>1, <2>2, <2>3, <2>4, <2>5, <2>6, <2>7, <2>8, <2>9,
        <2>10, <2>11, <2>12, <2>13 DEF ClientStep
<1>32. CASE Rest \/ UNCHANGED vars
  BY <1>32 DEF Rest, vars
<1> QED BY <1>1, <1>2, <1>3, <1>4, <1>5, <1>6, <1>7, <1>8, <1>9, <1>10,
        <1>11, <1>12, <1>13, <1>14, <1>15, <1>16, <1>17, <1>18, <1>19, <1>20,
        <1>21, <1>22, <1>23, <1>24, <1>25, <1>26, <1>27, <1>28, <1>29, <1>30,
        <1>31, <1>32 DEF Next, EmuNext

\* The flags stay in step.
LEMMA FlagsKept ==
  ASSUME TypeOK, Ownership, NobodyLoads, FlagDiscipline, PromiseDiscipline, [Next]_vars
  PROVE  FlagDiscipline' /\ PromiseDiscipline'
<1> USE BackendAssumption DEF TypeOK, FlagsTypeOK, ThreadsTypeOK, Ownership,
        Holding, NobodyLoads, FlagDiscipline, PromiseDiscipline, cmdVars, runVars,
        sigVars, emuVars, cliVars
<1>1. CASE EmuStart
  BY <1>1 DEF EmuStart
<1>2. CASE EmuTop
  BY <1>2 DEF EmuTop
<1>3. CASE FramePrologue
  BY <1>3 DEF FramePrologue
<1>4. CASE FrameLoop
  BY <1>4 DEF FrameLoop
<1>5. CASE FrameLoopQuit
  BY <1>5 DEF FrameLoopQuit
<1>6. CASE PollDebugger
  BY <1>6 DEF PollDebugger
<1>7. CASE FrameDone
  BY <1>7 DEF FrameDone
<1>8. CASE FrameCommands
  BY <1>8 DEF FrameCommands
<1>9. CASE FrameCheck
  BY <1>9 DEF FrameCheck
<1>10. CASE FramesEnd
  BY <1>10 DEF FramesEnd, FulfillPausePromises
<1>11. CASE QuitCheck
  BY <1>11 DEF QuitCheck
<1>12. CASE WaitAndDequeue
  BY <1>12 DEF WaitAndDequeue
<1>13. CASE DrainOne
  BY <1>13 DEF DrainOne, BrokenIfUnset
<1>14. CASE EmuExit
  BY <1>14 DEF EmuExit, FulfillPausePromises
<1>15. CASE ProcessCas
  BY <1>15 DEF ProcessCas
<1>16. CASE ProcessRefused
  BY <1>16 DEF ProcessRefused
<1>17. CASE ProcessQuit
  BY <1>17 DEF ProcessQuit, FulfillPausePromises
<1>18. CASE ProcessTrace
  BY <1>18 DEF ProcessTrace
<1>19. CASE ProcessOther
  BY <1>19 DEF ProcessOther
<1>20. CASE TraceStep
  BY <1>20 DEF TraceStep, TraceStops, Answer
<1>21. CASE ExecRun
  BY <1>21 DEF ExecRun
<1>22. CASE ExecRunState
  BY <1>22 DEF ExecRunState, Answer
<1>23. CASE ExecStep
  BY <1>23 DEF ExecStep, Answer
<1>24. CASE ExecReset
  BY <1>24 DEF ExecReset, Answer
<1>25. CASE ExecLoadRom
  BY <1>25 DEF ExecLoadRom, Answer
<1>26. CASE ExecWrite
  BY <1>26 DEF ExecWrite, Answer
<1>27. CASE ExecEdit
  BY <1>27 DEF ExecEdit, Answer
<1>28. CASE ProcessDone
  BY <1>28 DEF ProcessDone, FulfillPausePromises
<1>29. CASE DropCommand
  BY <1>29 DEF DropCommand, BrokenIfUnset
<1>30. ASSUME NEW p \in Clients, ClientCall(p) PROVE FlagDiscipline' /\ PromiseDiscipline'
  <2>1. CASE \E op \in Ops, c \in Commands : Submit(p, op, c)
    BY <2>1 DEF Submit, Enqueue, Goto
  <2>2. CASE \E op \in Ops, c \in Commands : SubmitFuture(p, op, c)
    BY <2>2 DEF SubmitFuture, Enqueue, Goto
  <2>3. CASE RequestPause(p)
    BY <2>3 DEF RequestPause, Goto
  <2>4. CASE \E c \in Commands : RequestQuit(p, c)
    BY <2>4 DEF RequestQuit, Goto
  <2>5. CASE \E c \in Commands : LoadRomDirect(p, c)
    BY <2>5 DEF LoadRomDirect, Goto
  <2>6. CASE LoadWav(p)
    BY <2>6 DEF LoadWav, Goto
  <2>7. CASE AgentStep(p)
    BY <2>7 DEF AgentStep, Goto
  <2> QED BY <1>30, <2>1, <2>2, <2>3, <2>4, <2>5, <2>6, <2>7 DEF ClientCall
<1>31. ASSUME NEW p \in Clients, ClientStep(p) PROVE FlagDiscipline' /\ PromiseDiscipline'
  <2>1. CASE ReadyInTime(p)
    BY <2>1 DEF ReadyInTime, Return, Goto
  <2>2. CASE WaitTimesOut(p)
    BY <2>2 DEF WaitTimesOut, Goto
  <2>3. CASE CheckState(p)
    BY <2>3 DEF CheckState, Goto, StateReads
  <2>4. CASE CancelCas(p)
    BY <2>4 DEF CancelCas, StateReads, Return, Goto
  <2>5. CASE FutureAccepted(p)
    BY <2>5 DEF FutureAccepted, Goto
  <2>6. CASE FutureReady(p)
    BY <2>6 DEF FutureReady, Goto
  <2>7. CASE RequestBreak(p)
    BY <2>7 DEF RequestBreak, Goto
  <2>8. CASE EnqueueQuit(p)
    BY <2>8 DEF EnqueueQuit, Goto
  <2>9. CASE LoadRomHere(p)
    BY <2>9 DEF LoadRomHere, Goto
  <2>10. CASE ClearForRom(p)
    BY <2>10 DEF ClearForRom, Goto
  <2>11. CASE StopFlags(p)
    BY <2>11 DEF StopFlags, Goto
  <2>12. CASE LoadWavHere(p)
    BY <2>12 DEF LoadWavHere, Goto
  <2>13. CASE AgentStepHere(p)
    BY <2>13 DEF AgentStepHere, Goto
  <2> QED BY <1>31, <2>1, <2>2, <2>3, <2>4, <2>5, <2>6, <2>7, <2>8, <2>9,
        <2>10, <2>11, <2>12, <2>13 DEF ClientStep
<1>32. CASE Rest \/ UNCHANGED vars
  BY <1>32 DEF Rest, vars
<1> QED BY <1>1, <1>2, <1>3, <1>4, <1>5, <1>6, <1>7, <1>8, <1>9, <1>10,
        <1>11, <1>12, <1>13, <1>14, <1>15, <1>16, <1>17, <1>18, <1>19, <1>20,
        <1>21, <1>22, <1>23, <1>24, <1>25, <1>26, <1>27, <1>28, <1>29, <1>30,
        <1>31, <1>32 DEF Next, EmuNext

\* A step that fulfils a pause promise finds the machine stopped.
LEMMA FulfilledWhenPaused ==
  ASSUME TypeOK, NobodyLoads, FlagDiscipline, [Next]_vars,
         NEW c \in Commands, outcome[c] = "unset", outcome'[c] = "Completed"
  PROVE  state' = "Paused" /\ (~running' \/ epc' = "exited")
<1> USE BackendAssumption DEF TypeOK, CommandsTypeOK, FlagsTypeOK, ThreadsTypeOK,
        NobodyLoads, FlagDiscipline, cmdVars, runVars, sigVars, emuVars, cliVars
<1>1. CASE EmuStart
  BY <1>1 DEF EmuStart
<1>2. CASE EmuTop
  BY <1>2 DEF EmuTop
<1>3. CASE FramePrologue
  BY <1>3 DEF FramePrologue
<1>4. CASE FrameLoop
  BY <1>4 DEF FrameLoop
<1>5. CASE FrameLoopQuit
  BY <1>5 DEF FrameLoopQuit
<1>6. CASE PollDebugger
  BY <1>6 DEF PollDebugger
<1>7. CASE FrameDone
  BY <1>7 DEF FrameDone
<1>8. CASE FrameCommands
  BY <1>8 DEF FrameCommands
<1>9. CASE FrameCheck
  BY <1>9 DEF FrameCheck
<1>10. CASE FramesEnd
  BY <1>10 DEF FramesEnd, FulfillPausePromises
<1>11. CASE QuitCheck
  BY <1>11 DEF QuitCheck
<1>12. CASE WaitAndDequeue
  BY <1>12 DEF WaitAndDequeue
<1>13. CASE DrainOne
  <2> DEFINE d == Head(queue)
  <2>1. /\ d \in Commands
        /\ outcome' = [outcome EXCEPT ![d] = "Cancelled"] \/ outcome' = BrokenIfUnset(outcome, d)
    BY <1>13 DEF DrainOne
  <2>2. outcome'[c] # "Completed"
    BY <2>1 DEF BrokenIfUnset
  <2> QED BY <2>2
<1>14. CASE EmuExit
  BY <1>14 DEF EmuExit, FulfillPausePromises
<1>15. CASE ProcessCas
  BY <1>15 DEF ProcessCas
<1>16. CASE ProcessRefused
  BY <1>16 DEF ProcessRefused
<1>17. CASE ProcessQuit
  BY <1>17 DEF ProcessQuit, FulfillPausePromises
<1>18. CASE ProcessTrace
  BY <1>18 DEF ProcessTrace
<1>19. CASE ProcessOther
  BY <1>19 DEF ProcessOther
<1>20. CASE TraceStep
  BY <1>20 DEF TraceStep, TraceStops, Answer
<1>21. CASE ExecRun
  BY <1>21 DEF ExecRun
<1>22. CASE ExecRunState
  BY <1>22 DEF ExecRunState, Answer
<1>23. CASE ExecStep
  BY <1>23 DEF ExecStep, Answer
<1>24. CASE ExecReset
  BY <1>24 DEF ExecReset, Answer
<1>25. CASE ExecLoadRom
  BY <1>25 DEF ExecLoadRom, Answer
<1>26. CASE ExecWrite
  BY <1>26 DEF ExecWrite, Answer
<1>27. CASE ExecEdit
  BY <1>27 DEF ExecEdit, Answer
<1>28. CASE ProcessDone
  BY <1>28 DEF ProcessDone, FulfillPausePromises
<1>29. CASE DropCommand
  BY <1>29 DEF DropCommand, BrokenIfUnset
<1>30. ASSUME NEW p \in Clients, ClientCall(p) PROVE state' = "Paused" /\ (~running' \/ epc' = "exited")
  <2>1. CASE \E op \in Ops, d \in Commands : Submit(p, op, d)
    BY <2>1 DEF Submit, Enqueue, Goto
  <2>2. CASE \E op \in Ops, d \in Commands : SubmitFuture(p, op, d)
    BY <2>2 DEF SubmitFuture, Enqueue, Goto
  <2>3. CASE RequestPause(p)
    BY <2>3 DEF RequestPause, Goto
  <2>4. CASE \E d \in Commands : RequestQuit(p, d)
    BY <2>4 DEF RequestQuit, Goto
  <2>5. CASE \E d \in Commands : LoadRomDirect(p, d)
    BY <2>5 DEF LoadRomDirect, Goto
  <2>6. CASE LoadWav(p)
    BY <2>6 DEF LoadWav, Goto
  <2>7. CASE AgentStep(p)
    BY <2>7 DEF AgentStep, Goto
  <2> QED BY <1>30, <2>1, <2>2, <2>3, <2>4, <2>5, <2>6, <2>7 DEF ClientCall
<1>31. ASSUME NEW p \in Clients, ClientStep(p) PROVE state' = "Paused" /\ (~running' \/ epc' = "exited")
  <2>1. CASE ReadyInTime(p)
    BY <2>1 DEF ReadyInTime, Return, Goto
  <2>2. CASE WaitTimesOut(p)
    BY <2>2 DEF WaitTimesOut, Goto
  <2>3. CASE CheckState(p)
    BY <2>3 DEF CheckState, Goto, StateReads
  <2>4. CASE CancelCas(p)
    BY <2>4 DEF CancelCas, StateReads, Return, Goto
  <2>5. CASE FutureAccepted(p)
    BY <2>5 DEF FutureAccepted, Goto
  <2>6. CASE FutureReady(p)
    BY <2>6 DEF FutureReady, Goto
  <2>7. CASE RequestBreak(p)
    BY <2>7 DEF RequestBreak, Goto
  <2>8. CASE EnqueueQuit(p)
    BY <2>8 DEF EnqueueQuit, Goto
  <2>9. CASE LoadRomHere(p)
    BY <2>9 DEF LoadRomHere, Goto
  <2>10. CASE ClearForRom(p)
    BY <2>10 DEF ClearForRom, Goto
  <2>11. CASE StopFlags(p)
    BY <2>11 DEF StopFlags, Goto
  <2>12. CASE LoadWavHere(p)
    BY <2>12 DEF LoadWavHere, Goto
  <2>13. CASE AgentStepHere(p)
    BY <2>13 DEF AgentStepHere, Goto
  <2> QED BY <1>31, <2>1, <2>2, <2>3, <2>4, <2>5, <2>6, <2>7, <2>8, <2>9,
        <2>10, <2>11, <2>12, <2>13 DEF ClientStep
<1>32. CASE Rest \/ UNCHANGED vars
  BY <1>32 DEF Rest, vars
<1> QED BY <1>1, <1>2, <1>3, <1>4, <1>5, <1>6, <1>7, <1>8, <1>9, <1>10,
        <1>11, <1>12, <1>13, <1>14, <1>15, <1>16, <1>17, <1>18, <1>19, <1>20,
        <1>21, <1>22, <1>23, <1>24, <1>25, <1>26, <1>27, <1>28, <1>29, <1>30,
        <1>31, <1>32 DEF Next, EmuNext

\* The invariant behind the next three theorems.
LEMMA FlagsInv ==
  ASSUME NoLoads, "Queued" \notin FreedReads
  PROVE  Spec => [](NobodyLoads /\ FlagDiscipline /\ PromiseDiscipline)
<1>1. Init => NobodyLoads /\ FlagDiscipline /\ PromiseDiscipline
  BY DEF Init, NobodyLoads, FlagDiscipline, PromiseDiscipline
<1>2. TypeOK /\ Ownership /\ NobodyLoads /\ FlagDiscipline /\ PromiseDiscipline /\ [Next]_vars
        => NobodyLoads' /\ FlagDiscipline' /\ PromiseDiscipline'
  BY NobodyLoadsKept, FlagsKept
<1> QED BY <1>1, <1>2, BackendInv, PTL DEF Spec

\* Without loads, the emulation thread blocks for a command only with the
\* machine stopped and reported Paused, and executes frames only as Running.
THEOREM FlagsAgreeHolds ==
  ASSUME NoLoads, "Queued" \notin FreedReads
  PROVE  Spec => []FlagsAgree
<1>1. TypeOK /\ FlagDiscipline => FlagsAgree
  BY DEF TypeOK, ThreadsTypeOK, FlagsTypeOK, FlagDiscipline, FlagsAgree
<1> QED BY <1>1, BackendInv, FlagsInv, PTL

\* Without loads, no pause promise is pending when the emulation thread blocks.
THEOREM PromisesRemembered ==
  ASSUME NoLoads, "Queued" \notin FreedReads
  PROVE  Spec => []NoPromiseForgotten
<1>1. FlagDiscipline /\ PromiseDiscipline => NoPromiseForgotten
  BY DEF FlagDiscipline, PromiseDiscipline, NoPromiseForgotten
<1> QED BY <1>1, FlagsInv, PTL

\* Without loads, a pause promise is fulfilled only once the machine stands.
THEOREM FulfilledMeansPausedHolds ==
  ASSUME NoLoads, "Queued" \notin FreedReads
  PROVE  Spec => FulfilledMeansPaused
<1>1. TypeOK /\ NobodyLoads /\ FlagDiscipline /\ [Next]_vars
        => [\A c \in Commands :
              outcome[c] = "unset" /\ outcome'[c] = "Completed"
                 => state' = "Paused" /\ (~running' \/ epc' = "exited")]_vars
  BY FulfilledWhenPaused
<1> QED BY <1>1, BackendInv, FlagsInv, PTL DEF Spec, FulfilledMeansPaused

-----------------------------------------------------------------------------
(* One client: what it submitted it waits for, so it meets the emulation thread
   at the machine only after it has stopped a frame itself. *)

SoleClient == \A p, q \in Clients : p = q

\* A command that may still be carried out has a client that waits for it.
Claimed == \A c \in Commands :
    cstate[c] \in {"Queued", "Executing"} /\ result[c] = "unset" =>
        ctype[c] = "Quit" \/ \E p \in Clients : cpc[p] \in Waiting /\ ccmd[p] = c

\* What a client that is outside such a call knows of the machine; and how far
\* apart running_ and state_ can be, and where.
MachineKnown ==
    /\ epc \in {"exec", "runState"} => ctype[ecmd] # "Quit"
    /\ running /\ state = "Paused" => epc \in {"runState", "exited"}
    /\ epc \in {"start", "end", "wait"} => ~running
    /\ epc = "quitCheck" => ~running \/ quitReq
    /\ epc = "runState" => running
    /\ epc \in {"proc", "dispatch", "exec"} /\ where = "main" => ~running
    /\ ~running /\ state = "Running" =>
          \/ \E p \in Clients : cpc[p] = "stop2"
          \/ epc \in {"cmds", "check", "end", "drain", "exited"}
          \/ epc \in Holding /\ where = "frame"
    /\ loopRunning <=> epc \notin {"start", "exited"}
    /\ \A p \in Clients :
          /\ cpc[p] \in {"stop2", "stop3", "wavLoad"} => ~running
          /\ cpc[p] = "romDirect" => ~running \/ epc = "exited"
          /\ cpc[p] = "stepCpu" => state = "Paused"

\* A client that moves inside its call, or that is in none, leaves every claim.
LEMMA CallKeepsClaim ==
  ASSUME TypeOK, Claimed, UNCHANGED cmdVars,
         NEW p \in Clients, NEW pc, Goto(p, pc),
         \A q \in Clients : q # p => ccmd'[q] = ccmd[q],
         cpc[p] \in Waiting => pc \in Waiting /\ ccmd'[p] = ccmd[p]
  PROVE  Claimed'
BY DEF TypeOK, ThreadsTypeOK, Claimed, Goto, cmdVars

\* A client leaves a command only with an answer, or cancelled.
LEMMA ClaimedKept ==
  ASSUME TypeOK, Ownership, Custody, Claimed, "Queued" \notin FreedReads, [Next]_vars
  PROVE  Claimed'
<1> USE BackendAssumption DEF TypeOK, CommandsTypeOK, ThreadsTypeOK, Ownership,
        Holding, Carrying, Calling, Custody, QueueCustody, HeldCustody,
        AnswerCustody, ClientCustody, Untouched, Claimed,
        Waiting, Answers, SubmitOps, FutureOps, cmdVars, runVars, sigVars,
        emuVars, cliVars
<1>1. CASE EmuStart
  BY <1>1 DEF EmuStart
<1>2. CASE EmuTop
  BY <1>2 DEF EmuTop
<1>3. CASE FramePrologue
  BY <1>3 DEF FramePrologue
<1>4. CASE FrameLoop
  BY <1>4 DEF FrameLoop
<1>5. CASE FrameLoopQuit
  BY <1>5 DEF FrameLoopQuit
<1>6. CASE PollDebugger
  BY <1>6 DEF PollDebugger
<1>7. CASE FrameDone
  BY <1>7 DEF FrameDone
<1>8. CASE FrameCommands
  BY <1>8 DEF FrameCommands
<1>9. CASE FrameCheck
  BY <1>9 DEF FrameCheck
<1>10. CASE FramesEnd
  BY <1>10 DEF FramesEnd, FulfillPausePromises
<1>11. CASE QuitCheck
  BY <1>11 DEF QuitCheck
<1>12. CASE WaitAndDequeue
  BY <1>12 DEF WaitAndDequeue
<1>13. CASE DrainOne
  <2> DEFINE d == Head(queue)
  <2>1. d \in Commands /\ UNCHANGED <<ctype, cpc, ccmd>>
    BY <1>13 DEF DrainOne
  <2>2. \A c \in Commands : cstate'[c] = cstate[c] \/ cstate'[c] = "Cancelled"
    BY <1>13 DEF DrainOne
  <2>3. result' = [result EXCEPT ![d] = "Cancelled"] \/ result' = BrokenIfUnset(result, d)
    BY <1>13 DEF DrainOne
  <2>4. \A c \in Commands : result'[c] = "unset" => result[c] = "unset"
    BY <2>1, <2>3 DEF BrokenIfUnset
  <2> QED BY <2>1, <2>2, <2>4
<1>14. CASE EmuExit
  BY <1>14 DEF EmuExit, FulfillPausePromises
<1>15. CASE ProcessCas
  BY <1>15 DEF ProcessCas
<1>16. CASE ProcessRefused
  BY <1>16 DEF ProcessRefused
<1>17. CASE ProcessQuit
  BY <1>17 DEF ProcessQuit, FulfillPausePromises
<1>18. CASE ProcessTrace
  BY <1>18 DEF ProcessTrace
<1>19. CASE ProcessOther
  BY <1>19 DEF ProcessOther
<1>20. CASE TraceStep
  BY <1>20 DEF TraceStep, TraceStops, Answer
<1>21. CASE ExecRun
  BY <1>21 DEF ExecRun
<1>22. CASE ExecRunState
  BY <1>22 DEF ExecRunState, Answer
<1>23. CASE ExecStep
  BY <1>23 DEF ExecStep, Answer
<1>24. CASE ExecReset
  BY <1>24 DEF ExecReset, Answer
<1>25. CASE ExecLoadRom
  BY <1>25 DEF ExecLoadRom, Answer
<1>26. CASE ExecWrite
  BY <1>26 DEF ExecWrite, Answer
<1>27. CASE ExecEdit
  BY <1>27 DEF ExecEdit, Answer
<1>28. CASE ProcessDone
  BY <1>28 DEF ProcessDone, FulfillPausePromises
<1>29. CASE DropCommand
  BY <1>29 DEF DropCommand, BrokenIfUnset
<1>30. ASSUME NEW p \in Clients, ClientCall(p) PROVE Claimed'
  <2>1. CASE \E op \in Ops, c \in Commands : Submit(p, op, c)
    BY <2>1 DEF Submit, Enqueue, Goto
  <2>2. CASE \E op \in Ops, c \in Commands : SubmitFuture(p, op, c)
    BY <2>2 DEF SubmitFuture, Enqueue, Goto
  <2>3. CASE RequestPause(p)
    BY <2>3, CallKeepsClaim DEF RequestPause, Goto
  <2>4. CASE \E c \in Commands : RequestQuit(p, c)
    BY <2>4 DEF RequestQuit, Goto
  <2>5. CASE \E c \in Commands : LoadRomDirect(p, c)
    BY <2>5 DEF LoadRomDirect, Goto
  <2>6. CASE LoadWav(p)
    BY <2>6, CallKeepsClaim DEF LoadWav, Goto
  <2>7. CASE AgentStep(p)
    BY <2>7, CallKeepsClaim DEF AgentStep, Goto
  <2> QED BY <1>30, <2>1, <2>2, <2>3, <2>4, <2>5, <2>6, <2>7 DEF ClientCall
<1>31. ASSUME NEW p \in Clients, ClientStep(p) PROVE Claimed'
  <2>1. CASE ReadyInTime(p)
    BY <2>1 DEF ReadyInTime, Return, Goto
  <2>2. CASE WaitTimesOut(p)
    BY <2>2, CallKeepsClaim DEF WaitTimesOut, Goto
  <2>3. CASE CheckState(p)
    BY <2>3, CallKeepsClaim DEF CheckState, Goto
  <2>4. CASE CancelCas(p)
    <3>1. PICK s \in StateReads(ccmd[p]) :
            IF s = "Queued"
              THEN /\ cstate' = IF ccmd[p] \in freed THEN cstate
                                ELSE [cstate EXCEPT ![ccmd[p]] = "Cancelled"]
                   /\ Return(p, "Timeout")
              ELSE Goto(p, "get") /\ UNCHANGED <<cstate, ccmd, reply>>
      BY <2>4 DEF CancelCas
    <3>2. /\ cpc[p] = "cas" /\ ccmd[p] \in Commands
          /\ UNCHANGED <<queue, ctype, result, outcome, pending, freed, applied>>
      BY <2>4 DEF CancelCas
    <3>3. CASE s = "Queued"
      <4>1. cstate' = [cstate EXCEPT ![ccmd[p]] = "Cancelled"]
        BY <3>1, <3>3 DEF StateReads
      <4>2. \A q \in Clients : q # p => cpc'[q] = cpc[q] /\ ccmd'[q] = ccmd[q]
        BY <3>1, <3>3 DEF Return, Goto
      <4>3. \A c \in Commands : cstate'[c] = IF c = ccmd[p] THEN "Cancelled" ELSE cstate[c]
        BY <3>2, <4>1
      <4> QED BY <3>2, <4>2, <4>3
    <3>4. CASE s # "Queued"
      BY <3>1, <3>2, <3>4, CallKeepsClaim
    <3> QED BY <3>3, <3>4
  <2>5. CASE FutureAccepted(p)
    BY <2>5 DEF FutureAccepted, Goto
  <2>6. CASE FutureReady(p)
    BY <2>6, CallKeepsClaim DEF FutureReady, Goto
  <2>7. CASE RequestBreak(p)
    BY <2>7, CallKeepsClaim DEF RequestBreak, Goto
  <2>8. CASE EnqueueQuit(p)
    BY <2>8 DEF EnqueueQuit, Goto
  <2>9. CASE LoadRomHere(p)
    BY <2>9 DEF LoadRomHere, Goto
  <2>10. CASE ClearForRom(p)
    BY <2>10, CallKeepsClaim DEF ClearForRom, Goto
  <2>11. CASE StopFlags(p)
    <3>1. PICK pc \in {"stop2", "stop3", "wavLoad", "idle"} : Goto(p, pc)
      BY <2>11 DEF StopFlags
    <3>2. cpc[p] \notin Waiting /\ \A q \in Clients : q # p => ccmd'[q] = ccmd[q]
      BY <2>11 DEF StopFlags
    <3> QED BY <2>11, <3>1, <3>2, CallKeepsClaim DEF StopFlags
  <2>12. CASE LoadWavHere(p)
    BY <2>12, CallKeepsClaim DEF LoadWavHere, Goto
  <2>13. CASE AgentStepHere(p)
    BY <2>13, CallKeepsClaim DEF AgentStepHere, Goto
  <2> QED BY <1>31, <2>1, <2>2, <2>3, <2>4, <2>5, <2>6, <2>7, <2>8, <2>9,
        <2>10, <2>11, <2>12, <2>13 DEF ClientStep
<1>32. CASE Rest \/ UNCHANGED vars
  BY <1>32 DEF Rest, vars
<1> QED BY <1>1, <1>2, <1>3, <1>4, <1>5, <1>6, <1>7, <1>8, <1>9, <1>10,
        <1>11, <1>12, <1>13, <1>14, <1>15, <1>16, <1>17, <1>18, <1>19, <1>20,
        <1>21, <1>22, <1>23, <1>24, <1>25, <1>26, <1>27, <1>28, <1>29, <1>30,
        <1>31, <1>32 DEF Next, EmuNext

\* While the emulation thread is about to start the machine, the only client
\* waits.
LEMMA SoleClientWaits ==
  ASSUME SoleClient, TypeOK, Ownership, Custody, Claimed, MachineKnown,
         epc \in {"exec", "runState", "trace"}, NEW p \in Clients
  PROVE  cpc[p] \in Waiting \ {"romDirect", "quit2"}
<1>1. /\ ecmd \in Commands /\ cstate[ecmd] = "Executing" /\ result[ecmd] = "unset"
      /\ ctype[ecmd] # "Quit"
  BY DEF Ownership, Holding, Carrying, Custody, HeldCustody, MachineKnown
<1>2. cpc[p] \in Waiting /\ ccmd[p] = ecmd
  BY <1>1 DEF Claimed, SoleClient
<1> QED BY <1>2 DEF Custody, ClientCustody, Held, Holding, Waiting

\* What the client knows stays true.
LEMMA MachineKnownKept ==
  ASSUME SoleClient, TypeOK, Ownership, Custody, Claimed, MachineKnown, [Next]_vars
  PROVE  MachineKnown'
<1>a. epc \in {"exec", "runState", "trace"} =>
        \A p \in Clients : cpc[p] \in {"wait", "check", "cas", "get"}
  BY SoleClientWaits DEF Waiting
<1>b. epc \in {"exec", "runState"} => ecmd \in Commands /\ cstate[ecmd] = "Executing"
  BY DEF Ownership, Holding, Carrying
<1> USE <1>a, BackendAssumption DEF TypeOK, CommandsTypeOK, FlagsTypeOK, ThreadsTypeOK,
        MachineKnown, Holding, cmdVars, runVars, sigVars, emuVars, cliVars
<1>1. CASE EmuStart
  BY <1>1 DEF EmuStart
<1>2. CASE EmuTop
  BY <1>2 DEF EmuTop
<1>3. CASE FramePrologue
  BY <1>3 DEF FramePrologue
<1>4. CASE FrameLoop
  BY <1>4 DEF FrameLoop
<1>5. CASE FrameLoopQuit
  BY <1>5 DEF FrameLoopQuit
<1>6. CASE PollDebugger
  BY <1>6 DEF PollDebugger
<1>7. CASE FrameDone
  BY <1>7 DEF FrameDone
<1>8. CASE FrameCommands
  BY <1>8 DEF FrameCommands
<1>9. CASE FrameCheck
  BY <1>9 DEF FrameCheck
<1>10. CASE FramesEnd
  BY <1>10 DEF FramesEnd, FulfillPausePromises
<1>11. CASE QuitCheck
  BY <1>11 DEF QuitCheck
<1>12. CASE WaitAndDequeue
  BY <1>12 DEF WaitAndDequeue
<1>13. CASE DrainOne
  BY <1>13 DEF DrainOne, BrokenIfUnset
<1>14. CASE EmuExit
  BY <1>14 DEF EmuExit, FulfillPausePromises
<1>15. CASE ProcessCas
  BY <1>15 DEF ProcessCas
<1>16. CASE ProcessRefused
  BY <1>16 DEF ProcessRefused
<1>17. CASE ProcessQuit
  BY <1>17 DEF ProcessQuit, FulfillPausePromises
<1>18. CASE ProcessTrace
  BY <1>18 DEF ProcessTrace
<1>19. CASE ProcessOther
  BY <1>19 DEF ProcessOther
<1>20. CASE TraceStep
  BY <1>20 DEF TraceStep, TraceStops, Answer
<1>21. CASE ExecRun
  BY <1>21 DEF ExecRun
<1>22. CASE ExecRunState
  BY <1>22 DEF ExecRunState, Answer
<1>23. CASE ExecStep
  BY <1>23 DEF ExecStep, Answer
<1>24. CASE ExecReset
  BY <1>24 DEF ExecReset, Answer
<1>25. CASE ExecLoadRom
  BY <1>25 DEF ExecLoadRom, Answer
<1>26. CASE ExecWrite
  BY <1>26 DEF ExecWrite, Answer
<1>27. CASE ExecEdit
  BY <1>27 DEF ExecEdit, Answer
<1>28. CASE ProcessDone
  BY <1>28 DEF ProcessDone, FulfillPausePromises
<1>29. CASE DropCommand
  BY <1>29 DEF DropCommand, BrokenIfUnset
<1>30. ASSUME NEW p \in Clients, ClientCall(p) PROVE MachineKnown'
  <2>1. CASE \E op \in Ops, c \in Commands : Submit(p, op, c)
    BY <1>b, <2>1 DEF Submit, Enqueue, Goto
  <2>2. CASE \E op \in Ops, c \in Commands : SubmitFuture(p, op, c)
    BY <1>b, <2>2 DEF SubmitFuture, Enqueue, Goto
  <2>3. CASE RequestPause(p)
    BY <2>3 DEF RequestPause, Goto
  <2>4. CASE \E c \in Commands : RequestQuit(p, c)
    BY <2>4 DEF RequestQuit, Goto
  <2>5. CASE \E c \in Commands : LoadRomDirect(p, c)
    BY <2>5 DEF LoadRomDirect, Goto
  <2>6. CASE LoadWav(p)
    BY <2>6 DEF LoadWav, Goto
  <2>7. CASE AgentStep(p)
    BY <2>7 DEF AgentStep, Goto
  <2> QED BY <1>30, <2>1, <2>2, <2>3, <2>4, <2>5, <2>6, <2>7 DEF ClientCall
<1>31. ASSUME NEW p \in Clients, ClientStep(p) PROVE MachineKnown'
  <2>1. CASE ReadyInTime(p)
    BY <2>1 DEF ReadyInTime, Return, Goto
  <2>2. CASE WaitTimesOut(p)
    BY <2>2 DEF WaitTimesOut, Goto
  <2>3. CASE CheckState(p)
    BY <2>3 DEF CheckState, Goto, StateReads
  <2>4. CASE CancelCas(p)
    BY <2>4 DEF CancelCas, StateReads, Return, Goto
  <2>5. CASE FutureAccepted(p)
    BY <2>5 DEF FutureAccepted, Goto
  <2>6. CASE FutureReady(p)
    BY <2>6 DEF FutureReady, Goto
  <2>7. CASE RequestBreak(p)
    BY <2>7 DEF RequestBreak, Goto
  <2>8. CASE EnqueueQuit(p)
    BY <2>8 DEF EnqueueQuit, Goto
  <2>9. CASE LoadRomHere(p)
    BY <2>9 DEF LoadRomHere, Goto
  <2>10. CASE ClearForRom(p)
    BY <2>10 DEF ClearForRom, Goto
  <2>11. CASE StopFlags(p)
    BY <2>11 DEF StopFlags, Goto
  <2>12. CASE LoadWavHere(p)
    BY <2>12 DEF LoadWavHere, Goto
  <2>13. CASE AgentStepHere(p)
    BY <2>13 DEF AgentStepHere, Goto
  <2> QED BY <1>31, <2>1, <2>2, <2>3, <2>4, <2>5, <2>6, <2>7, <2>8, <2>9,
        <2>10, <2>11, <2>12, <2>13 DEF ClientStep
<1>32. CASE Rest \/ UNCHANGED vars
  BY <1>32 DEF Rest, vars
<1> QED BY <1>1, <1>2, <1>3, <1>4, <1>5, <1>6, <1>7, <1>8, <1>9, <1>10,
        <1>11, <1>12, <1>13, <1>14, <1>15, <1>16, <1>17, <1>18, <1>19, <1>20,
        <1>21, <1>22, <1>23, <1>24, <1>25, <1>26, <1>27, <1>28, <1>29, <1>30,
        <1>31, <1>32 DEF Next, EmuNext

\* The invariant behind the next two theorems.
LEMMA SoleClientInv ==
  ASSUME SoleClient, "Queued" \notin FreedReads
  PROVE  Spec => [](Claimed /\ MachineKnown)
<1>1. Init => Claimed /\ MachineKnown
  BY DEF Init, Claimed, MachineKnown
<1>2. TypeOK /\ Ownership /\ Custody /\ Claimed /\ MachineKnown /\ [Next]_vars
        => Claimed' /\ MachineKnown'
  BY ClaimedKept, MachineKnownKept
<1> QED BY <1>1, <1>2, BackendInv, CustodyInv, PTL DEF Spec

\* With a single client of the API, whichever calls it makes, two threads are in
\* the machine at once only in the rest of a frame that loadWav() has stopped.
THEOREM OverlapIsLimited ==
  ASSUME SoleClient, "Queued" \notin FreedReads
  PROVE  Spec => []OverlapOnlyInStoppedFrame
<1>1. TypeOK /\ Ownership /\ Custody /\ Claimed /\ MachineKnown => OverlapOnlyInStoppedFrame
  <2>1. ASSUME TypeOK, Ownership, Custody, Claimed, MachineKnown, epc \in {"exec", "trace"}
        PROVE  OverlapOnlyInStoppedFrame
    BY <2>1, SoleClientWaits DEF OverlapOnlyInStoppedFrame, ClientInMachine, Waiting
  <2>2. ASSUME TypeOK, MachineKnown, epc \notin {"exec", "trace"}
        PROVE  OverlapOnlyInStoppedFrame
    BY <2>2 DEF TypeOK, FlagsTypeOK, ThreadsTypeOK, MachineKnown,
          OverlapOnlyInStoppedFrame, ClientInMachine, EmuInMachine
  <2> QED BY <2>1, <2>2
<1> QED BY <1>1, SoleClientInv, BackendInv, CustodyInv, PTL

\* With a single client, whichever calls it makes, loads of ROM and WAV files
\* among them, running_ and state_ agree where the emulation thread blocks and
\* where it executes a frame.
THEOREM FlagsAgreeWithLoads ==
  ASSUME SoleClient, "Queued" \notin FreedReads
  PROVE  Spec => []FlagsAgree
<1>1. TypeOK /\ MachineKnown => FlagsAgree
  BY DEF TypeOK, FlagsTypeOK, ThreadsTypeOK, MachineKnown, Holding, FlagsAgree
<1> QED BY <1>1, SoleClientInv, BackendInv, PTL

=============================================================================
