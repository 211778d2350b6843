------------------------- MODULE DebugBackendProofs -------------------------
(***************************************************************************)
(* Theorems of DebugBackend, for any number of clients and commands and    *)
(* any mix of calls.  The inductive invariant is TypeOK /\ Ownership; the  *)
(* lemmas show, one action at a time, that a step preserves each part.     *)
(***************************************************************************)
EXTENDS DebugBackend, TLAPS

\* A step keeps the queue and the commands in their ranges.
LEMMA CommandsTyped ==
  ASSUME TypeOK, Ownership, [Next]_vars
  PROVE  CommandsTypeOK'
<1> USE BackendAssumption DEF TypeOK, CommandsTypeOK, Ownership, Holding,
        Carrying, Calling, CommandTypes, CommandStates, Answers, Outcomes,
        SubmitOps, FutureOps, cmdVars, runVars, sigVars, emuVars, cliVars
<1>1. CASE EmuStart
  BY <1>1 DEF EmuStart
<1>2. CASE EmuTop
  BY <1>2 DEF EmuTop
<1>3. CASE FramePrologue
  BY <1>3 DEF FramePrologue
<1>4. CASE FrameLoop
  BY <1>4 DEF FrameLoop
<1>5. CASE FrameLoopQuit
  BY <1>5 DEF FrameLoopQuit
<1>6. CASE PollDebugger
  BY <1>6 DEF PollDebugger
<1>7. CASE FrameDone
  BY <1>7 DEF FrameDone
<1>8. CASE FrameCommands
  BY <1>8 DEF FrameCommands
<1>9. CASE FrameCheck
  BY <1>9 DEF FrameCheck
<1>10. CASE FramesEnd
  BY <1>10 DEF FramesEnd, FulfillPausePromises
<1>11. CASE QuitCheck
  BY <1>11 DEF QuitCheck
<1>12. CASE WaitAndDequeue
  BY <1>12 DEF WaitAndDequeue
<1>13. CASE DrainOne
  <2> DEFINE c == Head(queue)
  <2>1. c \in Commands /\ Tail(queue) \in Seq(Commands)
    BY <1>13 DEF DrainOne
  <2>2. queue' = Tail(queue) /\ freed' = freed \cup {c}
    BY <1>13 DEF DrainOne
  <2>3. cstate' \in [Commands -> CommandStates \cup {"None"}]
    BY <1>13 DEF DrainOne
  <2>4. result' \in [Commands -> Answers \cup {"unset", "broken"}]
    <3>1. CASE cstate[c] = "Queued"
      BY <1>13, <2>1, <3>1 DEF DrainOne
    <3>2. CASE cstate[c] # "Queued"
      <4>1. result' = BrokenIfUnset(result, c)
        BY <1>13, <3>2 DEF DrainOne
      <4> QED BY <2>1, <4>1 DEF BrokenIfUnset
    <3> QED BY <3>1, <3>2
  <2>5. outcome' \in [Commands -> Outcomes]
    BY <1>13, <2>1 DEF DrainOne, BrokenIfUnset
  <2> QED BY <1>13, <2>1, <2>2, <2>3, <2>4, <2>5 DEF DrainOne
<1>14. CASE EmuExit
  BY <1>14 DEF EmuExit, FulfillPausePromises
<1>15. CASE ProcessCas
  BY <1>15 DEF ProcessCas
<1>16. CASE ProcessRefused
  BY <1>16 DEF ProcessRefused
<1>17. CASE ProcessQuit
  BY <1>17 DEF ProcessQuit, FulfillPausePromises
<1>18. CASE ProcessTrace
  BY <1>18 DEF ProcessTrace
<1>19. CASE ProcessOther
  BY <1>19 DEF ProcessOther
<1>20. CASE TraceStep
  BY <1>20 DEF TraceStep, TraceStops, Answer
<1>21. CASE ExecRun
  BY <1>21 DEF ExecRun
<1>22. CASE ExecRunState
  BY <1>22 DEF ExecRunState, Answer
<1>23. CASE ExecStep
  BY <1>23 DEF ExecStep, Answer
<1>24. CASE ExecReset
  BY <1>24 DEF ExecReset, Answer
<1>25. CASE ExecLoadRom
  BY <1>25 DEF ExecLoadRom, Answer
<1>26. CASE ExecWrite
  BY <1>26 DEF ExecWrite, Answer
<1>27. CASE ExecEdit
  BY <1>27 DEF ExecEdit, Answer
<1>28. CASE ProcessDone
  BY <1>28 DEF ProcessDone, FulfillPausePromises
<1>29. CASE DropCommand
  BY <1>29 DEF DropCommand, BrokenIfUnset
<1>30. ASSUME NEW p \in Clients, ClientCall(p) PROVE CommandsTypeOK'
  <2>1. CASE \E op \in Ops, c \in Commands : Submit(p, op, c)
    BY <2>1 DEF Submit, Enqueue, Goto
  <2>2. CASE \E op \in Ops, c \in Commands : SubmitFuture(p, op, c)
    BY <2>2 DEF SubmitFuture, Enqueue, Goto
  <2>3. CASE RequestPause(p)
    BY <2>3 DEF RequestPause, Goto
  <2>4. CASE \E c \in Commands : RequestQuit(p, c)
    BY <2>4 DEF RequestQuit, Goto
  <2>5. CASE \E c \in Commands : LoadRomDirect(p, c)
    BY <2>5 DEF LoadRomDirect, Goto
  <2>6. CASE LoadWav(p)
    BY <2>6 DEF LoadWav, Goto
  <2>7. CASE AgentStep(p)
    BY <2>7 DEF AgentStep, Goto
  <2> QED BY <1>30, <2>1, <2>2, <2>3, <2>4, <2>5, <2>6, <2>7 DEF ClientCall
<1>31. ASSUME NEW p \in Clients, ClientStep(p) PROVE CommandsTypeOK'
  <2>1. CASE ReadyInTime(p)
    BY <2>1 DEF ReadyInTime, Return, Goto
  <2>2. CASE WaitTimesOut(p)
    BY <2>2 DEF WaitTimesOut, Goto
  <2>3. CASE CheckState(p)
    BY <2>3 DEF CheckState, Goto, StateReads
  <2>4. CASE CancelCas(p)
    BY <2>4 DEF CancelCas, StateReads, Return, Goto
  <2>5. CASE FutureAccepted(p)
    BY <2>5 DEF FutureAccepted, Goto
  <2>6. CASE FutureReady(p)
    BY <2>6 DEF FutureReady, Goto
  <2>7. CASE RequestBreak(p)
    BY <2>7 DEF RequestBreak, Goto
  <2>8. CASE EnqueueQuit(p)
    BY <2>8 DEF EnqueueQuit, Goto
  <2>9. CASE LoadRomHere(p)
    BY <2>9 DEF LoadRomHere, Goto
  <2>10. CASE ClearForRom(p)
    BY <2>10 DEF ClearForRom, Goto
  <2>11. CASE StopFlags(p)
    BY <2>11 DEF StopFlags, Goto
  <2>12. CASE LoadWavHere(p)
    BY <2>12 DEF LoadWavHere, Goto
  <2>13. CASE AgentStepHere(p)
    BY <2>13 DEF AgentStepHere, Goto
  <2> QED BY <1>31, <2>1, <2>2, <2>3, <2>4, <2>5, <2>6, <2>7, <2>8, <2>9,
        <2>10, <2>11, <2>12, <2>13 DEF ClientStep
<1>32. CASE Rest \/ UNCHANGED vars
  BY <1>32 DEF Rest, vars
<1> QED BY <1>1, <1>2, <1>3, <1>4, <1>5, <1>6, <1>7, <1>8, <1>9, <1>10,
        <1>11, <1>12, <1>13, <1>14, <1>15, <1>16, <1>17, <1>18, <1>19, <1>20,
        <1>21, <1>22, <1>23, <1>24, <1>25, <1>26, <1>27, <1>28, <1>29, <1>30,
        <1>31, <1>32 DEF Next, EmuNext

\* A step keeps the atomics and the flags Boolean.
LEMMA FlagsTyped ==
  ASSUME TypeOK, Ownership, [Next]_vars
  PROVE  FlagsTypeOK'
<1> USE BackendAssumption DEF TypeOK, FlagsTypeOK, cmdVars, runVars, sigVars,
        emuVars, cliVars
<1>1. CASE EmuStart
  BY <1>1 DEF EmuStart
<1>2. CASE EmuTop
  BY <1>2 DEF EmuTop
<1>3. CASE FramePrologue
  BY <1>3 DEF FramePrologue
<1>4. CASE FrameLoop
  BY <1>4 DEF FrameLoop
<1>5. CASE FrameLoopQuit
  BY <1>5 DEF FrameLoopQuit
<1>6. CASE PollDebugger
  BY <1>6 DEF PollDebugger
<1>7. CASE FrameDone
  BY <1>7 DEF FrameDone
<1>8. CASE FrameCommands
  BY <1>8 DEF FrameCommands
<1>9. CASE FrameCheck
  BY <1>9 DEF FrameCheck
<1>10. CASE FramesEnd
  BY <1>10 DEF FramesEnd, FulfillPausePromises
<1>11. CASE QuitCheck
  BY <1>11 DEF QuitCheck
<1>12. CASE WaitAndDequeue
  BY <1>12 DEF WaitAndDequeue
<1>13. CASE DrainOne
  BY <1>13 DEF DrainOne, BrokenIfUnset
<1>14. CASE EmuExit
  BY <1>14 DEF EmuExit, FulfillPausePromises
<1>15. CASE ProcessCas
  BY <1>15 DEF ProcessCas
<1>16. CASE ProcessRefused
  BY <1>16 DEF ProcessRefused
<1>17. CASE ProcessQuit
  BY <1>17 DEF ProcessQuit, FulfillPausePromises
<1>18. CASE ProcessTrace
  BY <1>18 DEF ProcessTrace
<1>19. CASE ProcessOther
  BY <1>19 DEF ProcessOther
<1>20. CASE TraceStep
  BY <1>20 DEF TraceStep, TraceStops, Answer
<1>21. CASE ExecRun
  BY <1>21 DEF ExecRun
<1>22. CASE ExecRunState
  BY <1>22 DEF ExecRunState, Answer
<1>23. CASE ExecStep
  BY <1>23 DEF ExecStep, Answer
<1>24. CASE ExecReset
  BY <1>24 DEF ExecReset, Answer
<1>25. CASE ExecLoadRom
  BY <1>25 DEF ExecLoadRom, Answer
<1>26. CASE ExecWrite
  BY <1>26 DEF ExecWrite, Answer
<1>27. CASE ExecEdit
  BY <1>27 DEF ExecEdit, Answer
<1>28. CASE ProcessDone
  BY <1>28 DEF ProcessDone, FulfillPausePromises
<1>29. CASE DropCommand
  BY <1>29 DEF DropCommand, BrokenIfUnset
<1>30. ASSUME NEW p \in Clients, ClientCall(p) PROVE FlagsTypeOK'
  <2>1. CASE \E op \in Ops, c \in Commands : Submit(p, op, c)
    BY <2>1 DEF Submit, Enqueue, Goto
  <2>2. CASE \E op \in Ops, c \in Commands : SubmitFuture(p, op, c)
    BY <2>2 DEF SubmitFuture, Enqueue, Goto
  <2>3. CASE RequestPause(p)
    BY <2>3 DEF RequestPause, Goto
  <2>4. CASE \E c \in Commands : RequestQuit(p, c)
    BY <2>4 DEF RequestQuit, Goto
  <2>5. CASE \E c \in Commands : LoadRomDirect(p, c)
    BY <2>5 DEF LoadRomDirect, Goto
  <2>6. CASE LoadWav(p)
    BY <2>6 DEF LoadWav, Goto
  <2>7. CASE AgentStep(p)
    BY <2>7 DEF AgentStep, Goto
  <2> QED BY <1>30, <2>1, <2>2, <2>3, <2>4, <2>5, <2>6, <2>7 DEF ClientCall
<1>31. ASSUME NEW p \in Clients, ClientStep(p) PROVE FlagsTypeOK'
  <2>1. CASE ReadyInTime(p)
    BY <2>1 DEF ReadyInTime, Return, Goto
  <2>2. CASE WaitTimesOut(p)
    BY <2>2 DEF WaitTimesOut, Goto
  <2>3. CASE CheckState(p)
    BY <2>3 DEF CheckState, Goto, StateReads
  <2>4. CASE CancelCas(p)
    BY <2>4 DEF CancelCas, StateReads, Return, Goto
  <2>5. CASE FutureAccepted(p)
    BY <2>5 DEF FutureAccepted, Goto
  <2>6. CASE FutureReady(p)
    BY <2>6 DEF FutureReady, Goto
  <2>7. CASE RequestBreak(p)
    BY <2>7 DEF RequestBreak, Goto
  <2>8. CASE EnqueueQuit(p)
    BY <2>8 DEF EnqueueQuit, Goto
  <2>9. CASE LoadRomHere(p)
    BY <2>9 DEF LoadRomHere, Goto
  <2>10. CASE ClearForRom(p)
    BY <2>10 DEF ClearForRom, Goto
  <2>11. CASE StopFlags(p)
    BY <2>11 DEF StopFlags, Goto
  <2>12. CASE LoadWavHere(p)
    BY <2>12 DEF LoadWavHere, Goto
  <2>13. CASE AgentStepHere(p)
    BY <2>13 DEF AgentStepHere, Goto
  <2> QED BY <1>31, <2>1, <2>2, <2>3, <2>4, <2>5, <2>6, <2>7, <2>8, <2>9,
        <2>10, <2>11, <2>12, <2>13 DEF ClientStep
<1>32. CASE Rest \/ UNCHANGED vars
  BY <1>32 DEF Rest, vars
<1> QED BY <1>1, <1>2, <1>3, <1>4, <1>5, <1>6, <1>7, <1>8, <1>9, <1>10,
        <1>11, <1>12, <1>13, <1>14, <1>15, <1>16, <1>17, <1>18, <1>19, <1>20,
        <1>21, <1>22, <1>23, <1>24, <1>25, <1>26, <1>27, <1>28, <1>29, <1>30,
        <1>31, <1>32 DEF Next, EmuNext

\* A step keeps the threads at their labels and the replies in range.
LEMMA ThreadsTyped ==
  ASSUME TypeOK, Ownership, [Next]_vars
  PROVE  ThreadsTypeOK'
<1> USE BackendAssumption DEF TypeOK, ThreadsTypeOK, EmuPcs, ClientPcs,
        Answers, SubmitOps, FutureOps, cmdVars, runVars, sigVars, emuVars,
        cliVars
<1>1. CASE EmuStart
  BY <1>1 DEF EmuStart
<1>2. CASE EmuTop
  BY <1>2 DEF EmuTop
<1>3. CASE FramePrologue
  BY <1>3 DEF FramePrologue
<1>4. CASE FrameLoop
  BY <1>4 DEF FrameLoop
<1>5. CASE FrameLoopQuit
  BY <1>5 DEF FrameLoopQuit
<1>6. CASE PollDebugger
  BY <1>6 DEF PollDebugger
<1>7. CASE FrameDone
  BY <1>7 DEF FrameDone
<1>8. CASE FrameCommands
  BY <1>8 DEF FrameCommands, CommandsTypeOK
<1>9. CASE FrameCheck
  BY <1>9 DEF FrameCheck
<1>10. CASE FramesEnd
  BY <1>10 DEF FramesEnd, FulfillPausePromises
<1>11. CASE QuitCheck
  BY <1>11 DEF QuitCheck
<1>12. CASE WaitAndDequeue
  BY <1>12 DEF WaitAndDequeue, CommandsTypeOK
<1>13. CASE DrainOne
  BY <1>13 DEF DrainOne, BrokenIfUnset
<1>14. CASE EmuExit
  BY <1>14 DEF EmuExit, FulfillPausePromises
<1>15. CASE ProcessCas
  BY <1>15 DEF ProcessCas
<1>16. CASE ProcessRefused
  BY <1>16 DEF ProcessRefused
<1>17. CASE ProcessQuit
  BY <1>17 DEF ProcessQuit, FulfillPausePromises
<1>18. CASE ProcessTrace
  BY <1>18 DEF ProcessTrace
<1>19. CASE ProcessOther
  BY <1>19 DEF ProcessOther
<1>20. CASE TraceStep
  BY <1>20 DEF TraceStep, TraceStops, Answer
<1>21. CASE ExecRun
  BY <1>21 DEF ExecRun
<1>22. CASE ExecRunState
  BY <1>22 DEF ExecRunState, Answer
<1>23. CASE ExecStep
  BY <1>23 DEF ExecStep, Answer
<1>24. CASE ExecReset
  BY <1>24 DEF ExecReset, Answer
<1>25. CASE ExecLoadRom
  BY <1>25 DEF ExecLoadRom, Answer
<1>26. CASE ExecWrite
  BY <1>26 DEF ExecWrite, Answer
<1>27. CASE ExecEdit
  BY <1>27 DEF ExecEdit, Answer
<1>28. CASE ProcessDone
  BY <1>28 DEF ProcessDone, FulfillPausePromises
<1>29. CASE DropCommand
  BY <1>29 DEF DropCommand, BrokenIfUnset
<1>30. ASSUME NEW p \in Clients, ClientCall(p) PROVE ThreadsTypeOK'
  <2>1. CASE \E op \in Ops, c \in Commands : Submit(p, op, c)
    BY <2>1 DEF Submit, Enqueue, Goto
  <2>2. CASE \E op \in Ops, c \in Commands : SubmitFuture(p, op, c)
    BY <2>2 DEF SubmitFuture, Enqueue, Goto
  <2>3. CASE RequestPause(p)
    BY <2>3 DEF RequestPause, Goto
  <2>4. CASE \E c \in Commands : RequestQuit(p, c)
    BY <2>4 DEF RequestQuit, Goto
  <2>5. CASE \E c \in Commands : LoadRomDirect(p, c)
    BY <2>5 DEF LoadRomDirect, Goto
  <2>6. CASE LoadWav(p)
    BY <2>6 DEF LoadWav, Goto
  <2>7. CASE AgentStep(p)
    BY <2>7 DEF AgentStep, Goto
  <2> QED BY <1>30, <2>1, <2>2, <2>3, <2>4, <2>5, <2>6, <2>7 DEF ClientCall
<1>31. ASSUME NEW p \in Clients, ClientStep(p) PROVE ThreadsTypeOK'
  <2>1. CASE ReadyInTime(p)
    <3>1. UNCHANGED <<state, stopReason, emuVars>>
      BY <2>1 DEF ReadyInTime
    <3>2. reply' \in [Commands -> Answers \cup {"none", "Timeout"}]
      BY <2>1 DEF ReadyInTime, Return
    <3>3. cpc' \in [Clients -> ClientPcs]
      BY <2>1 DEF ReadyInTime, Return, Goto
    <3>4. ccmd' \in [Clients -> Commands \cup {None}]
      BY <2>1 DEF ReadyInTime, Return
    <3> QED BY <3>1, <3>2, <3>3, <3>4
  <2>2. CASE WaitTimesOut(p)
    BY <2>2 DEF WaitTimesOut, Goto
  <2>3. CASE CheckState(p)
    BY <2>3 DEF CheckState, Goto, StateReads
  <2>4. CASE CancelCas(p)
    BY <2>4 DEF CancelCas, StateReads, Return, Goto
  <2>5. CASE FutureAccepted(p)
    BY <2>5 DEF FutureAccepted, Goto
  <2>6. CASE FutureReady(p)
    BY <2>6 DEF FutureReady, Goto
  <2>7. CASE RequestBreak(p)
    BY <2>7 DEF RequestBreak, Goto
  <2>8. CASE EnqueueQuit(p)
    BY <2>8 DEF EnqueueQuit, Goto
  <2>9. CASE LoadRomHere(p)
    BY <2>9 DEF LoadRomHere, Goto
  <2>10. CASE ClearForRom(p)
    BY <2>10 DEF ClearForRom, Goto
  <2>11. CASE StopFlags(p)
    BY <2>11 DEF StopFlags, Goto
  <2>12. CASE LoadWavHere(p)
    BY <2>12 DEF LoadWavHere, Goto
  <2>13. CASE AgentStepHere(p)
    BY <2>13 DEF AgentStepHere, Goto
  <2> QED BY <1>31, <2>1, <2>2, <2>3, <2>4, <2>5, <2>6, <2>7, <2>8, <2>9,
        <2>10, <2>11, <2>12, <2>13 DEF ClientStep
<1>32. CASE Rest \/ UNCHANGED vars
  BY <1>32 DEF Rest, vars
<1> QED BY <1>1, <1>2, <1>3, <1>4, <1>5, <1>6, <1>7, <1>8, <1>9, <1>10,
        <1>11, <1>12, <1>13, <1>14, <1>15, <1>16, <1>17, <1>18, <1>19, <1>20,
        <1>21, <1>22, <1>23, <1>24, <1>25, <1>26, <1>27, <1>28, <1>29, <1>30,
        <1>31, <1>32 DEF Next, EmuNext

\* A step keeps commands owned: the CAS of the two threads exclude each other.
LEMMA OwnershipKept ==
  ASSUME TypeOK, Ownership, "Queued" \notin FreedReads, [Next]_vars
  PROVE  Ownership'
<1> USE BackendAssumption DEF TypeOK, CommandsTypeOK, ThreadsTypeOK,
        Ownership, Holding, Carrying, Calling, CommandTypes, CommandStates,
        Answers, Outcomes, SubmitOps, FutureOps, cmdVars, runVars, sigVars,
        emuVars, cliVars
<1>1. CASE EmuStart
  BY <1>1 DEF EmuStart
<1>2. CASE EmuTop
  BY <1>2 DEF EmuTop
<1>3. CASE FramePrologue
  BY <1>3 DEF FramePrologue
<1>4. CASE FrameLoop
  BY <1>4 DEF FrameLoop
<1>5. CASE FrameLoopQuit
  BY <1>5 DEF FrameLoopQuit
<1>6. CASE PollDebugger
  BY <1>6 DEF PollDebugger
<1>7. CASE FrameDone
  BY <1>7 DEF FrameDone
<1>8. CASE FrameCommands
  BY <1>8 DEF FrameCommands
<1>9. CASE FrameCheck
  BY <1>9 DEF FrameCheck
<1>10. CASE FramesEnd
  BY <1>10 DEF FramesEnd, FulfillPausePromises
<1>11. CASE QuitCheck
  BY <1>11 DEF QuitCheck
<1>12. CASE WaitAndDequeue
  BY <1>12 DEF WaitAndDequeue
<1>13. CASE DrainOne
  <2>1. /\ \A c \in Commands : cstate[c] # "Queued" => cstate'[c] = cstate[c]
        /\ \A c \in Commands : cstate[c] = "Queued" => cstate'[c] \in {"Queued", "Cancelled"}
    BY <1>13 DEF DrainOne
  <2>2. UNCHANGED <<epc, ecmd, cpc, ccmd, applied, reply>> /\ epc = "drain"
    BY <1>13 DEF DrainOne
  <2> QED BY <2>1, <2>2
<1>14. CASE EmuExit
  BY <1>14 DEF EmuExit, FulfillPausePromises
<1>15. CASE ProcessCas
  BY <1>15 DEF ProcessCas
<1>16. CASE ProcessRefused
  BY <1>16 DEF ProcessRefused
<1>17. CASE ProcessQuit
  BY <1>17 DEF ProcessQuit, FulfillPausePromises
<1>18. CASE ProcessTrace
  BY <1>18 DEF ProcessTrace
<1>19. CASE ProcessOther
  BY <1>19 DEF ProcessOther
<1>20. CASE TraceStep
  BY <1>20 DEF TraceStep, TraceStops, Answer
<1>21. CASE ExecRun
  BY <1>21 DEF ExecRun
<1>22. CASE ExecRunState
  BY <1>22 DEF ExecRunState, Answer
<1>23. CASE ExecStep
  BY <1>23 DEF ExecStep, Answer
<1>24. CASE ExecReset
  BY <1>24 DEF ExecReset, Answer
<1>25. CASE ExecLoadRom
  BY <1>25 DEF ExecLoadRom, Answer
<1>26. CASE ExecWrite
  BY <1>26 DEF ExecWrite, Answer
<1>27. CASE ExecEdit
  BY <1>27 DEF ExecEdit, Answer
<1>28. CASE ProcessDone
  BY <1>28 DEF ProcessDone, FulfillPausePromises
<1>29. CASE DropCommand
  BY <1>29 DEF DropCommand, BrokenIfUnset
<1>30. ASSUME NEW p \in Clients, ClientCall(p) PROVE Ownership'
  <2>1. CASE \E op \in Ops, c \in Commands : Submit(p, op, c)
    BY <2>1 DEF Submit, Enqueue, Goto
  <2>2. CASE \E op \in Ops, c \in Commands : SubmitFuture(p, op, c)
    BY <2>2 DEF SubmitFuture, Enqueue, Goto
  <2>3. CASE RequestPause(p)
    BY <2>3 DEF RequestPause, Goto
  <2>4. CASE \E c \in Commands : RequestQuit(p, c)
    BY <2>4 DEF RequestQuit, Goto
  <2>5. CASE \E c \in Commands : LoadRomDirect(p, c)
    BY <2>5 DEF LoadRomDirect, Goto
  <2>6. CASE LoadWav(p)
    BY <2>6 DEF LoadWav, Goto
  <2>7. CASE AgentStep(p)
    BY <2>7 DEF AgentStep, Goto
  <2> QED BY <1>30, <2>1, <2>2, <2>3, <2>4, <2>5, <2>6, <2>7 DEF ClientCall
<1>31. ASSUME NEW p \in Clients, ClientStep(p) PROVE Ownership'
  <2>1. CASE ReadyInTime(p)
    BY <2>1 DEF ReadyInTime, Return, Goto
  <2>2. CASE WaitTimesOut(p)
    BY <2>2 DEF WaitTimesOut, Goto
  <2>3. CASE CheckState(p)
    BY <2>3 DEF CheckState, Goto, StateReads
  <2>4. CASE CancelCas(p)
    <3> DEFINE c == ccmd[p]
    <3>1. c \in Commands /\ UNCHANGED <<epc, ecmd, applied>>
      BY <2>4 DEF CancelCas
    <3>2. CASE cstate[c] = "Queued" /\ c \notin freed
      <4>1. /\ cstate' = [cstate EXCEPT ![c] = "Cancelled"]
            /\ reply' = [reply EXCEPT ![c] = "Timeout"]
        BY <2>4, <3>2 DEF CancelCas, StateReads, Return
      <4>2. /\ \A q \in Clients : q # p => cpc'[q] = cpc[q] /\ ccmd'[q] = ccmd[q]
            /\ cpc'[p] \in {"rom0", "idle"}
            /\ cpc'[p] = "rom0" => ccmd'[p] = c
        BY <2>4, <3>2 DEF CancelCas, StateReads, Return, Goto
      <4> QED BY <3>1, <3>2, <4>1, <4>2
    <3>3. CASE ~(cstate[c] = "Queued" /\ c \notin freed)
      BY <2>4, <3>1, <3>3 DEF CancelCas, StateReads, Goto
    <3> QED BY <3>2, <3>3
  <2>5. CASE FutureAccepted(p)
    BY <2>5 DEF FutureAccepted, Goto
  <2>6. CASE FutureReady(p)
    BY <2>6 DEF FutureReady, Goto
  <2>7. CASE RequestBreak(p)
    BY <2>7 DEF RequestBreak, Goto
  <2>8. CASE EnqueueQuit(p)
    BY <2>8 DEF EnqueueQuit, Goto
  <2>9. CASE LoadRomHere(p)
    BY <2>9 DEF LoadRomHere, Goto
  <2>10. CASE ClearForRom(p)
    BY <2>10 DEF ClearForRom, Goto
  <2>11. CASE StopFlags(p)
    BY <2>11 DEF StopFlags, Goto
  <2>12. CASE LoadWavHere(p)
    BY <2>12 DEF LoadWavHere, Goto
  <2>13. CASE AgentStepHere(p)
    BY <2>13 DEF AgentStepHere, Goto
  <2> QED BY <1>31, <2>1, <2>2, <2>3, <2>4, <2>5, <2>6, <2>7, <2>8, <2>9,
        <2>10, <2>11, <2>12, <2>13 DEF ClientStep
<1>32. CASE Rest \/ UNCHANGED vars
  BY <1>32 DEF Rest, vars
<1> QED BY <1>1, <1>2, <1>3, <1>4, <1>5, <1>6, <1>7, <1>8, <1>9, <1>10,
        <1>11, <1>12, <1>13, <1>14, <1>15, <1>16, <1>17, <1>18, <1>19, <1>20,
        <1>21, <1>22, <1>23, <1>24, <1>25, <1>26, <1>27, <1>28, <1>29, <1>30,
        <1>31, <1>32 DEF Next, EmuNext

\* A step moves the state of a command along the lifecycle only.
LEMMA LifecycleStep ==
  ASSUME TypeOK, Ownership, [Next]_vars
  PROVE  \A c \in Commands : cstate'[c] # cstate[c] => <<cstate[c], cstate'[c]>> \in LifecycleSteps
<1> USE BackendAssumption DEF TypeOK, CommandsTypeOK, ThreadsTypeOK,
        Ownership, Holding, Carrying, Calling, LifecycleSteps, CommandTypes,
        CommandStates, Answers, Outcomes, SubmitOps, FutureOps, cmdVars,
        runVars, sigVars, emuVars, cliVars
<1>1. CASE EmuStart
  BY <1>1 DEF EmuStart
<1>2. CASE EmuTop
  BY <1>2 DEF EmuTop
<1>3. CASE FramePrologue
  BY <1>3 DEF FramePrologue
<1>4. CASE FrameLoop
  BY <1>4 DEF FrameLoop
<1>5. CASE FrameLoopQuit
  BY <1>5 DEF FrameLoopQuit
<1>6. CASE PollDebugger
  BY <1>6 DEF PollDebugger
<1>7. CASE FrameDone
  BY <1>7 DEF FrameDone
<1>8. CASE FrameCommands
  BY <1>8 DEF FrameCommands
<1>9. CASE FrameCheck
  BY <1>9 DEF FrameCheck
<1>10. CASE FramesEnd
  BY <1>10 DEF FramesEnd, FulfillPausePromises
<1>11. CASE QuitCheck
  BY <1>11 DEF QuitCheck
<1>12. CASE WaitAndDequeue
  BY <1>12 DEF WaitAndDequeue
<1>13. CASE DrainOne
  BY <1>13 DEF DrainOne, BrokenIfUnset
<1>14. CASE EmuExit
  BY <1>14 DEF EmuExit, FulfillPausePromises
<1>15. CASE ProcessCas
  BY <1>15 DEF ProcessCas
<1>16. CASE ProcessRefused
  BY <1>16 DEF ProcessRefused
<1>17. CASE ProcessQuit
  BY <1>17 DEF ProcessQuit, FulfillPausePromises
<1>18. CASE ProcessTrace
  BY <1>18 DEF ProcessTrace
<1>19. CASE ProcessOther
  BY <1>19 DEF ProcessOther
<1>20. CASE TraceStep
  BY <1>20 DEF TraceStep, TraceStops, Answer
<1>21. CASE ExecRun
  BY <1>21 DEF ExecRun
<1>22. CASE ExecRunState
  BY <1>22 DEF ExecRunState, Answer
<1>23. CASE ExecStep
  BY <1>23 DEF ExecStep, Answer
<1>24. CASE ExecReset
  BY <1>24 DEF ExecReset, Answer
<1>25. CASE ExecLoadRom
  BY <1>25 DEF ExecLoadRom, Answer
<1>26. CASE ExecWrite
  BY <1>26 DEF ExecWrite, Answer
<1>27. CASE ExecEdit
  BY <1>27 DEF ExecEdit, Answer
<1>28. CASE ProcessDone
  BY <1>28 DEF ProcessDone, FulfillPausePromises
<1>29. CASE DropCommand
  BY <1>29 DEF DropCommand, BrokenIfUnset
<1>30. ASSUME NEW p \in Clients, ClientCall(p) PROVE \A c \in Commands : cstate'[c] # cstate[c] => <<cstate[c], cstate'[c]>> \in LifecycleSteps
  <2>1. CASE \E op \in Ops, c \in Commands : Submit(p, op, c)
    BY <2>1 DEF Submit, Enqueue, Goto
  <2>2. CASE \E op \in Ops, c \in Commands : SubmitFuture(p, op, c)
    BY <2>2 DEF SubmitFuture, Enqueue, Goto
  <2>3. CASE RequestPause(p)
    BY <2>3 DEF RequestPause, Goto
  <2>4. CASE \E c \in Commands : RequestQuit(p, c)
    BY <2>4 DEF RequestQuit, Goto
  <2>5. CASE \E c \in Commands : LoadRomDirect(p, c)
    BY <2>5 DEF LoadRomDirect, Goto
  <2>6. CASE LoadWav(p)
    BY <2>6 DEF LoadWav, Goto
  <2>7. CASE AgentStep(p)
    BY <2>7 DEF AgentStep, Goto
  <2> QED BY <1>30, <2>1, <2>2, <2>3, <2>4, <2>5, <2>6, <2>7 DEF ClientCall
<1>31. ASSUME NEW p \in Clients, ClientStep(p) PROVE \A c \in Commands : cstate'[c] # cstate[c] => <<cstate[c], cstate'[c]>> \in LifecycleSteps
  <2>1. CASE ReadyInTime(p)
    BY <2>1 DEF ReadyInTime, Return, Goto
  <2>2. CASE WaitTimesOut(p)
    BY <2>2 DEF WaitTimesOut, Goto
  <2>3. CASE CheckState(p)
    BY <2>3 DEF CheckState, Goto, StateReads
  <2>4. CASE CancelCas(p)
    BY <2>4 DEF CancelCas, StateReads, Return, Goto
  <2>5. CASE FutureAccepted(p)
    BY <2>5 DEF FutureAccepted, Goto
  <2>6. CASE FutureReady(p)
    BY <2>6 DEF FutureReady, Goto
  <2>7. CASE RequestBreak(p)
    BY <2>7 DEF RequestBreak, Goto
  <2>8. CASE EnqueueQuit(p)
    BY <2>8 DEF EnqueueQuit, Goto
  <2>9. CASE LoadRomHere(p)
    BY <2>9 DEF LoadRomHere, Goto
  <2>10. CASE ClearForRom(p)
    BY <2>10 DEF ClearForRom, Goto
  <2>11. CASE StopFlags(p)
    BY <2>11 DEF StopFlags, Goto
  <2>12. CASE LoadWavHere(p)
    BY <2>12 DEF LoadWavHere, Goto
  <2>13. CASE AgentStepHere(p)
    BY <2>13 DEF AgentStepHere, Goto
  <2> QED BY <1>31, <2>1, <2>2, <2>3, <2>4, <2>5, <2>6, <2>7, <2>8, <2>9,
        <2>10, <2>11, <2>12, <2>13 DEF ClientStep
<1>32. CASE Rest \/ UNCHANGED vars
  BY <1>32 DEF Rest, vars
<1> QED BY <1>1, <1>2, <1>3, <1>4, <1>5, <1>6, <1>7, <1>8, <1>9, <1>10,
        <1>11, <1>12, <1>13, <1>14, <1>15, <1>16, <1>17, <1>18, <1>19, <1>20,
        <1>21, <1>22, <1>23, <1>24, <1>25, <1>26, <1>27, <1>28, <1>29, <1>30,
        <1>31, <1>32 DEF Next, EmuNext

\* Initially every part of the invariant holds.
LEMMA InitInv == Init => TypeOK /\ Ownership
<1> SUFFICES ASSUME Init PROVE TypeOK /\ Ownership
  OBVIOUS
<1> USE DEF Init
<1>1. CommandsTypeOK
  BY DEF CommandsTypeOK, CommandTypes, Outcomes
<1>2. FlagsTypeOK
  BY DEF FlagsTypeOK
<1>3. ThreadsTypeOK
  BY BackendAssumption DEF ThreadsTypeOK, EmuPcs, ClientPcs
<1>4. Ownership
  BY DEF Ownership, Holding, Carrying, Calling
<1> QED BY <1>1, <1>2, <1>3, <1>4 DEF TypeOK

\* The invariant of the protocol: ranges and ownership, as long as a freed
\* command never reads as Queued.
THEOREM BackendInv ==
  ASSUME "Queued" \notin FreedReads
  PROVE  Spec => [](TypeOK /\ Ownership)
<1>1. Init => TypeOK /\ Ownership
  BY InitInv
<1>2. TypeOK /\ Ownership /\ [Next]_vars => TypeOK' /\ Ownership'
  BY CommandsTyped, FlagsTyped, ThreadsTyped, OwnershipKept DEF TypeOK
<1> QED BY <1>1, <1>2, PTL DEF Spec

\* Type correctness of debugger/src/backend.h's state.
THEOREM TypeCorrect ==
  ASSUME "Queued" \notin FreedReads
  PROVE  Spec => []TypeOK
BY BackendInv, PTL

\* submitAndWait() never answers Timeout for a command that is carried out,
\* before or after: the answer leaves the command Cancelled, and what is
\* carried out is Executing or Completed.
THEOREM TimeoutIsSafe ==
  ASSUME "Queued" \notin FreedReads
  PROVE  Spec => []TimeoutMeansNotExecuted
<1>1. TypeOK /\ Ownership => TimeoutMeansNotExecuted
  BY DEF TypeOK, CommandsTypeOK, Ownership, TimeoutMeansNotExecuted
<1> QED BY <1>1, BackendInv, PTL

\* Command::state takes no transition that backend.h does not list.
THEOREM LifecycleHolds ==
  ASSUME "Queued" \notin FreedReads
  PROVE  Spec => Lifecycle
<1>1. TypeOK /\ Ownership /\ [Next]_vars
        => [\A c \in Commands : cstate'[c] # cstate[c]
              => <<cstate[c], cstate'[c]>> \in LifecycleSteps]_vars
  <2> SUFFICES ASSUME TypeOK, Ownership, [Next]_vars
               PROVE  \A c \in Commands : cstate'[c] # cstate[c]
                        => <<cstate[c], cstate'[c]>> \in LifecycleSteps
    OBVIOUS
  <2> QED BY LifecycleStep
<1> QED BY <1>1, BackendInv, PTL DEF Spec, Lifecycle

=============================================================================
