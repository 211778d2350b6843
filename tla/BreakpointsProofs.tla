------------------------- MODULE BreakpointsProofs --------------------------
(***************************************************************************)
(* Proofs about Breakpoints, for every program, every set of addresses and *)
(* any number of calls.  SyncDiscipline is the strengthening: ListsAgree   *)
(* alone is not inductive, because loadRom() empties the backend's list in *)
(* one step and the board's in another; what saves it is that no frame can *)
(* begin between the two.                                                  *)
(***************************************************************************)
EXTENDS Breakpoints, TLAPS

\* The ranges of the state that the lists depend on.
DataTypeOK ==
    /\ bps \in [Addrs -> {"none", "enabled", "disabled"}]
    /\ synced \subseteq Addrs
    /\ board \in [Addrs -> Nat]
    /\ pc \in Addrs /\ before \in Addrs
    /\ req \in [type : ReqTypes, addr : Addrs \cup {NoAddr}]
    /\ temp \in Addrs \cup {NoAddr}
    /\ saved \in [Addrs -> {"none", "enabled", "disabled"}]

\* An edit names an address, and so will the one that ends a skip.
EditsNamed ==
    /\ req.type \in EditTypes \cup {"WritePc"} => req.addr \in Addrs
    /\ call \in {"skipRun", "skipRemove"} => temp \in Addrs

\* While the user knows of the breakpoint under the PC, the machine is stopped on
\* it, or is where the breakpoint will be stepped over.
OwesInPrologue ==
    owes => /\ BackendStops(pc)
            /\ epc = "idle" \/ (epc = "prologue" /\ skipBp)

IInv == DataTypeOK /\ EditsNamed /\ SyncDiscipline /\ NoMissedBreakpoint /\ OwesInPrologue

\* DebugAdapter::syncBreakpoints() makes the board hold the enabled breakpoints,
\* once each, if the adapter knew what the board held.
LEMMA SyncAgrees ==
    ASSUME DataTypeOK, BoardKnown, Sync(bps')
    PROVE  /\ synced' = Enabled(bps)'
           /\ BoardKnown'
           /\ board' \in [Addrs -> Nat]
           /\ synced' \subseteq Addrs
  BY DEF DataTypeOK, BoardKnown, Sync, Enabled

\* The initial state: no breakpoints anywhere, the machine stopped.
LEMMA InitInv == Init => IInv
  BY BreakpointsAssumption DEF Init, IInv, DataTypeOK, EditsNamed, SyncDiscipline,
     NoMissedBreakpoint, OwesInPrologue, BoardKnown, Agree, Enabled, NoReq, ReqTypes, EditTypes, Quiet

\* Every step keeps the invariant; one step of the proof for each action.
LEMMA StepInv == IInv /\ [Next]_vars => IInv'
  <1> SUFFICES ASSUME IInv, [Next]_vars PROVE IInv'
    OBVIOUS
  <1> USE BreakpointsAssumption
  <1>1. CASE ExecEdit
    <2>1. req.addr \in Addrs /\ bps' \in [Addrs -> {"none", "enabled", "disabled"}]
      BY <1>1 DEF ExecEdit, Edited, EditTypes, IInv, DataTypeOK, EditsNamed
    <2>2. DataTypeOK /\ BoardKnown /\ Sync(bps')
      BY <1>1 DEF ExecEdit, IInv, SyncDiscipline
    <2>3. synced' = Enabled(bps)' /\ BoardKnown' /\ board' \in [Addrs -> Nat] /\ synced' \subseteq Addrs
      BY <2>2, SyncAgrees
    <2>4. DataTypeOK'
      BY <1>1, <2>1, <2>3 DEF ExecEdit, NoReq, ReqTypes, IInv, DataTypeOK, cpuVars
    <2>5. call # "romSync" /\ call # "romClear" /\ ~owes'
      BY <1>1 DEF ExecEdit, TakesCommand, NoReq, EditTypes, IInv, SyncDiscipline, OwesInPrologue
    <2> QED
      BY <1>1, <2>3, <2>4, <2>5 DEF ExecEdit, TakesCommand, NoReq, EditTypes, IInv, EditsNamed,
         SyncDiscipline, NoMissedBreakpoint, OwesInPrologue, Agree, cpuVars, loopVars
  <1>2. CASE ExecClear
    <2>1. bps' \in [Addrs -> {"none", "enabled", "disabled"}]
      BY <1>2 DEF ExecClear
    <2>2. DataTypeOK /\ BoardKnown /\ Sync(bps')
      BY <1>2 DEF ExecClear, IInv, SyncDiscipline
    <2>3. synced' = Enabled(bps)' /\ BoardKnown' /\ board' \in [Addrs -> Nat] /\ synced' \subseteq Addrs
      BY <2>2, SyncAgrees
    <2>4. DataTypeOK'
      BY <1>2, <2>1, <2>3 DEF ExecClear, NoReq, ReqTypes, IInv, DataTypeOK, cpuVars
    <2>5. call # "romSync" /\ call # "romClear" /\ ~owes'
      BY <1>2 DEF ExecClear, TakesCommand, NoReq, IInv, SyncDiscipline, OwesInPrologue
    <2> QED
      BY <1>2, <2>3, <2>4, <2>5 DEF ExecClear, TakesCommand, NoReq, EditTypes, IInv, EditsNamed,
         SyncDiscipline, NoMissedBreakpoint, OwesInPrologue, Agree, cpuVars, loopVars
  <1>3. CASE ExecRun
    BY <1>3 DEF ExecRun, TakesCommand, NoReq,
       IInv, DataTypeOK, EditsNamed, SyncDiscipline, NoMissedBreakpoint, OwesInPrologue,
       listVars, cpuVars, loopVars, callVars, Agree, BoardKnown, Enabled, Quiet, BackendStops, ReqTypes, EditTypes
  <1>4. CASE ExecStep
    BY <1>4 DEF ExecStep, TakesCommand, NoReq,
       IInv, DataTypeOK, EditsNamed, SyncDiscipline, NoMissedBreakpoint, OwesInPrologue,
       listVars, cpuVars, loopVars, callVars, Agree, BoardKnown, Enabled, Quiet, BackendStops, ReqTypes, EditTypes
  <1>5. CASE ExecWritePc
    BY <1>5 DEF ExecWritePc, TakesCommand, NoReq,
       IInv, DataTypeOK, EditsNamed, SyncDiscipline, NoMissedBreakpoint, OwesInPrologue,
       listVars, cpuVars, loopVars, callVars, Agree, BoardKnown, Enabled, Quiet, BackendStops, ReqTypes, EditTypes
  <1>6. CASE ExecReset
    BY <1>6 DEF ExecReset, TakesCommand, NoReq,
       IInv, DataTypeOK, EditsNamed, SyncDiscipline, NoMissedBreakpoint, OwesInPrologue,
       listVars, cpuVars, loopVars, callVars, Agree, BoardKnown, Enabled, Quiet, BackendStops, ReqTypes, EditTypes
  <1>7. CASE ExecLoadRom
    BY <1>7 DEF ExecLoadRom, TakesCommand, NoReq,
       IInv, DataTypeOK, EditsNamed, SyncDiscipline, NoMissedBreakpoint, OwesInPrologue,
       listVars, cpuVars, loopVars, callVars, Agree, BoardKnown, Enabled, Quiet, BackendStops, ReqTypes, EditTypes
  <1>8. CASE Prologue
    <2>1. DataTypeOK /\ BoardKnown /\ Sync(bps') /\ bps' = bps
      BY <1>8 DEF Prologue, IInv, SyncDiscipline
    <2>2. synced' = Enabled(bps)' /\ BoardKnown' /\ board' \in [Addrs -> Nat] /\ synced' \subseteq Addrs
      BY <2>1, SyncAgrees
    <2>3. pc' \in Addrs
      BY <1>8 DEF Prologue, IInv, DataTypeOK
    <2>4. DataTypeOK'
      BY <1>8, <2>1, <2>2, <2>3 DEF Prologue, callVars, DataTypeOK
    <2>5. call # "romSync" /\ (call = "romClear" => req.type = "LoadRom") /\ running
      BY <1>8 DEF Prologue, IInv, SyncDiscipline, Quiet
    <2>6. ~owes'
      BY <1>8 DEF Prologue, IInv, OwesInPrologue
    <2> QED
      BY <1>8, <2>2, <2>4, <2>5, <2>6 DEF Prologue, IInv, EditsNamed,
         SyncDiscipline, NoMissedBreakpoint, OwesInPrologue, Agree, callVars
  <1>9. CASE FrameStart
    BY <1>9 DEF FrameStart,
       IInv, DataTypeOK, EditsNamed, SyncDiscipline, NoMissedBreakpoint, OwesInPrologue,
       listVars, cpuVars, loopVars, callVars, Agree, BoardKnown, Enabled, Quiet, BackendStops, ReqTypes, EditTypes
  <1>10. CASE FrameInstruction
    <2>1. Agree /\ call # "romSync" /\ (call = "romClear" => req.type = "LoadRom")
      BY <1>10 DEF FrameInstruction, IInv, SyncDiscipline, Quiet
    <2>2. \A a \in Addrs : ~BoardStops(a) => ~BackendStops(a)
      BY <2>1 DEF IInv, DataTypeOK, Agree, BoardKnown, Enabled, BoardStops, BackendStops
    <2> PICK a \in Interrupted :
             IF BoardStops(a)
               THEN pc' = a /\ epc' = "cmds" /\ UNCHANGED <<owes, missed>>
               ELSE ExecuteInFrame(a)
      BY <1>10 DEF FrameInstruction
    <2>a. a \in Addrs
      BY DEF Interrupted, IInv, DataTypeOK
    <2>3. ~missed'
      BY <2>2, <2>a DEF ExecuteInFrame, IInv, NoMissedBreakpoint
    <2>4. ~owes' /\ pc' \in Addrs
      BY <1>10, <2>a DEF FrameInstruction, ExecuteInFrame, IInv, OwesInPrologue
    <2>5. DataTypeOK'
      BY <1>10, <2>4 DEF FrameInstruction, IInv, DataTypeOK, listVars, callVars
    <2>6. epc' \in {"inFrame", "cmds"}
      BY DEF ExecuteInFrame
    <2> QED
      BY <1>10, <2>1, <2>3, <2>4, <2>5, <2>6 DEF FrameInstruction, IInv, EditsNamed, SyncDiscipline,
         NoMissedBreakpoint, OwesInPrologue, Agree, BoardKnown, Enabled, listVars, callVars
  <1>11. CASE CommandsDone
    BY <1>11 DEF CommandsDone, NoReq,
       IInv, DataTypeOK, EditsNamed, SyncDiscipline, NoMissedBreakpoint, OwesInPrologue,
       listVars, cpuVars, loopVars, callVars, Agree, BoardKnown, Enabled, Quiet, BackendStops, ReqTypes, EditTypes
  <1>12. CASE FrameCheck
    BY <1>12 DEF FrameCheck, ReportBreakpoint,
       IInv, DataTypeOK, EditsNamed, SyncDiscipline, NoMissedBreakpoint, OwesInPrologue,
       listVars, cpuVars, loopVars, callVars, Agree, BoardKnown, Enabled, Quiet, BackendStops, ReqTypes, EditTypes
  <1>13. CASE Call
    BY <1>13 DEF Call, Ask, NoReq,
       IInv, DataTypeOK, EditsNamed, SyncDiscipline, NoMissedBreakpoint, OwesInPrologue,
       listVars, cpuVars, loopVars, callVars, Agree, BoardKnown, Enabled, Quiet, BackendStops, ReqTypes, EditTypes
  <1>14. CASE RequestPause
    BY <1>14 DEF RequestPause, NoReq,
       IInv, DataTypeOK, EditsNamed, SyncDiscipline, NoMissedBreakpoint, OwesInPrologue,
       listVars, cpuVars, loopVars, callVars, Agree, BoardKnown, Enabled, Quiet, BackendStops, ReqTypes, EditTypes
  <1>15. CASE LoadRom
    BY <1>15 DEF LoadRom, Ask, NoReq,
       IInv, DataTypeOK, EditsNamed, SyncDiscipline, NoMissedBreakpoint, OwesInPrologue,
       listVars, cpuVars, loopVars, callVars, Agree, BoardKnown, Enabled, Quiet, BackendStops, ReqTypes, EditTypes
  <1>16. CASE LoadRomClear
    BY <1>16 DEF LoadRomClear, NoReq,
       IInv, DataTypeOK, EditsNamed, SyncDiscipline, NoMissedBreakpoint, OwesInPrologue,
       listVars, cpuVars, loopVars, callVars, Agree, BoardKnown, Enabled, Quiet, BackendStops, ReqTypes, EditTypes
  <1>17. CASE LoadRomSync
    <2>1. DataTypeOK /\ BoardKnown /\ Sync(bps') /\ bps' = bps
      BY <1>17 DEF LoadRomSync, IInv, SyncDiscipline
    <2>2. synced' = Enabled(bps)' /\ BoardKnown' /\ board' \in [Addrs -> Nat] /\ synced' \subseteq Addrs
      BY <2>1, SyncAgrees
    <2>3. DataTypeOK'
      BY <1>17, <2>1, <2>2 DEF LoadRomSync, DataTypeOK, cpuVars
    <2>4. epc \in {"idle", "cmds", "check"}
      BY <1>17 DEF LoadRomSync, IInv, SyncDiscipline, Quiet
    <2> QED
      BY <1>17, <2>2, <2>3, <2>4 DEF LoadRomSync, IInv, EditsNamed,
         SyncDiscipline, NoMissedBreakpoint, OwesInPrologue, BackendStops, Agree, cpuVars
  <1>18. CASE SkipBegin
    BY <1>18 DEF SkipBegin, Ask, NoReq,
       IInv, DataTypeOK, EditsNamed, SyncDiscipline, NoMissedBreakpoint, OwesInPrologue,
       listVars, cpuVars, loopVars, callVars, Agree, BoardKnown, Enabled, Quiet, BackendStops, ReqTypes, EditTypes
  <1>19. CASE SkipRun
    BY <1>19 DEF SkipRun, Ask, NoReq,
       IInv, DataTypeOK, EditsNamed, SyncDiscipline, NoMissedBreakpoint, OwesInPrologue,
       listVars, cpuVars, loopVars, callVars, Agree, BoardKnown, Enabled, Quiet, BackendStops, ReqTypes, EditTypes
  <1>20. CASE SkipRemove
    BY <1>20 DEF SkipRemove, Ask, NoReq,
       IInv, DataTypeOK, EditsNamed, SyncDiscipline, NoMissedBreakpoint, OwesInPrologue,
       listVars, cpuVars, loopVars, callVars, Agree, BoardKnown, Enabled, Quiet, BackendStops, ReqTypes, EditTypes
  <1>21. CASE SkipEnd
    BY <1>21 DEF SkipEnd, NoReq,
       IInv, DataTypeOK, EditsNamed, SyncDiscipline, NoMissedBreakpoint, OwesInPrologue,
       listVars, cpuVars, loopVars, callVars, Agree, BoardKnown, Enabled, Quiet, BackendStops, ReqTypes, EditTypes
  <1>22. CASE UNCHANGED vars
    BY <1>22 DEF vars, IInv, DataTypeOK, EditsNamed, SyncDiscipline, NoMissedBreakpoint, OwesInPrologue,
       listVars, cpuVars, loopVars, callVars, Agree, BoardKnown, Enabled, Quiet, BackendStops
  <1> QED
    BY <1>1, <1>2, <1>3, <1>4, <1>5, <1>6, <1>7, <1>8, <1>9, <1>10, <1>11, <1>12, <1>13, <1>14, <1>15, <1>16, <1>17, <1>18, <1>19, <1>20, <1>21, <1>22 DEF Next, EmuNext, ClientNext, Rest

\* The invariant holds in every reachable state.
LEMMA BreakpointsInv == Spec => []IInv
  BY InitInv, StepInv, PTL DEF Spec

\* While Board::execute_frame runs, the board tests exactly the breakpoints the
\* user has enabled, each once, whatever edits and ROM loads came before.
THEOREM BoardTestsUsersBreakpoints == Spec => []ListsAgree
  <1>1. IInv => ListsAgree
    BY DEF IInv, SyncDiscipline, Quiet, ListsAgree
  <1> QED
    BY <1>1, BreakpointsInv, PTL

\* Syncing discipline of syncBreakpointsToTarget() and loadRom().
THEOREM SyncDisciplineHolds == Spec => []SyncDiscipline
  <1>1. IInv => SyncDiscipline
    BY DEF IInv
  <1> QED
    BY <1>1, BreakpointsInv, PTL

\* No instruction under an enabled breakpoint is executed inside a frame.
THEOREM BreakpointsAreNotMissed == Spec => []NoMissedBreakpoint
  <1>1. IInv => NoMissedBreakpoint
    BY DEF IInv
  <1> QED
    BY <1>1, BreakpointsInv, PTL

\* No stop at a breakpoint is reported twice, nor to a Run that found the machine
\* stopped there, before an instruction was executed or the user moved or edited.
THEOREM RunGetsOffItsBreakpoint == Spec => RunMakesProgress
  <1>1. IInv /\ [Next]_vars
          => [epc = "check" /\ epc' = "idle" /\ stopReason' = "Breakpoint" => ~owes]_vars
    BY DEF IInv, OwesInPrologue
  <1> QED
    BY <1>1, BreakpointsInv, PTL DEF Spec, RunMakesProgress

-----------------------------------------------------------------------------
(* requestSkipInstruction() *)

\* How far a skip has come, in terms of the list it began with: the temporary
\* breakpoint is on its way in, may be in, is on its way out, is out.
SkipProgress ==
    LET now == Enabled(bps)
        was == Enabled(saved)
    IN  /\ call = "skipRun" /\ added =>
              \/ req = [type |-> "Add", addr |-> temp] /\ now = was /\ temp \notin was
              \/ req = NoReq /\ now \ {temp} = was
        /\ call = "skipRemove" /\ added =>
              req \in {NoReq, [type |-> "Run", addr |-> NoAddr]} /\ now \ {temp} = was
        /\ call = "skipEnd" =>
              \/ req = [type |-> "Remove", addr |-> temp] /\ now \ {temp} = was
              \/ req = NoReq /\ now = was
        /\ call \in {"skipRun", "skipRemove"} /\ ~added =>
              req \in {NoReq, [type |-> "Run", addr |-> NoAddr]} /\ now = was

\* The skip names the address it has to clean up until it is over.
SkipNamed == call = "skipEnd" => temp \in Addrs

\* Add enables at most its address, Remove disables exactly its address.
LEMMA EditedEnables ==
    ASSUME DataTypeOK, NEW a \in Addrs
    PROVE  /\ Enabled(Edited("Add", a)) \ {a} = Enabled(bps) \ {a}
           /\ Enabled(Edited("Remove", a)) = Enabled(bps) \ {a}
  BY DEF DataTypeOK, Enabled, Edited

\* Every step keeps the progress of a skip.
LEMMA StepSkip ==
    ASSUME IInv, SkipNamed, SkipProgress, [Next]_vars
    PROVE  SkipNamed' /\ SkipProgress'
  <1> USE BreakpointsAssumption DEF SkipNamed, SkipProgress, NoReq
  <1>0. req \in [type : ReqTypes, addr : Addrs \cup {NoAddr}] /\ DataTypeOK
    BY DEF IInv, DataTypeOK
  <1>1. CASE ExecEdit
    <2>1. /\ bps' = Edited(req.type, req.addr) /\ req' = NoReq /\ req # NoReq
          /\ req.type \in EditTypes /\ req.addr \in Addrs
          /\ UNCHANGED <<call, temp, added, saved>>
      BY <1>1 DEF ExecEdit, TakesCommand, IInv, EditsNamed
    <2>2. CASE call = "skipRun"
      <3>1. added /\ req = [type |-> "Add", addr |-> temp] /\ temp \in Addrs
        BY <2>1, <2>2 DEF EditTypes
      <3>2. Enabled(bps') \ {temp} = Enabled(saved)
        BY <2>1, <2>2, <3>1, <1>0, EditedEnables
      <3> QED
        BY <2>1, <2>2, <3>1, <3>2
    <2>3. CASE call = "skipEnd"
      <3>1. req = [type |-> "Remove", addr |-> temp] /\ temp \in Addrs
        BY <2>1, <2>3 DEF EditTypes
      <3>2. Enabled(bps') = Enabled(saved)
        BY <2>1, <2>3, <3>1, <1>0, EditedEnables
      <3> QED
        BY <2>1, <2>3, <3>2
    <2>4. call # "skipRemove"
      BY <2>1 DEF EditTypes
    <2> QED
      BY <2>1, <2>2, <2>3, <2>4
  <1>2. CASE ExecClear
    BY <1>0, <1>2 DEF ExecClear, TakesCommand, listVars, callVars
  <1>3. CASE ExecRun
    BY <1>0, <1>3 DEF ExecRun, TakesCommand, Enabled, listVars, callVars
  <1>4. CASE ExecStep
    BY <1>0, <1>4 DEF ExecStep, TakesCommand, Enabled, listVars, callVars
  <1>5. CASE ExecWritePc
    BY <1>0, <1>5 DEF ExecWritePc, TakesCommand, Enabled, listVars, callVars
  <1>6. CASE ExecReset
    BY <1>0, <1>6 DEF ExecReset, TakesCommand, Enabled, listVars, callVars
  <1>7. CASE ExecLoadRom
    BY <1>0, <1>7 DEF ExecLoadRom, TakesCommand, Enabled, listVars, callVars
  <1>8. CASE Prologue
    BY <1>0, <1>8 DEF Prologue, Enabled, listVars, callVars
  <1>9. CASE FrameStart
    BY <1>0, <1>9 DEF FrameStart, Enabled, listVars, callVars
  <1>10. CASE FrameInstruction
    BY <1>0, <1>10 DEF FrameInstruction, Enabled, listVars, callVars
  <1>11. CASE CommandsDone
    BY <1>0, <1>11 DEF CommandsDone, Enabled, listVars, callVars
  <1>12. CASE FrameCheck
    BY <1>0, <1>12 DEF FrameCheck, ReportBreakpoint, Enabled, listVars, callVars
  <1>13. CASE Call
    BY <1>0, <1>13 DEF Call, Ask, Enabled, listVars, callVars
  <1>14. CASE RequestPause
    BY <1>0, <1>14 DEF RequestPause, Enabled, listVars, callVars
  <1>15. CASE LoadRom
    BY <1>0, <1>15 DEF LoadRom, Ask, Enabled, listVars, callVars
  <1>16. CASE LoadRomClear
    BY <1>0, <1>16 DEF LoadRomClear, listVars, callVars
  <1>17. CASE LoadRomSync
    BY <1>0, <1>17 DEF LoadRomSync, listVars, callVars
  <1>18. CASE SkipBegin
    BY <1>0, <1>18 DEF SkipBegin, Ask, Enabled, IInv, DataTypeOK, listVars, callVars
  <1>19. CASE SkipRun
    BY <1>0, <1>19 DEF SkipRun, Ask, Enabled, IInv, EditsNamed, listVars, callVars
  <1>20. CASE SkipRemove
    BY <1>0, <1>20 DEF SkipRemove, Ask, Enabled, IInv, EditsNamed, listVars, callVars
  <1>21. CASE SkipEnd
    BY <1>0, <1>21 DEF SkipEnd, Enabled, listVars, callVars
  <1>22. CASE UNCHANGED vars
    BY <1>22 DEF vars, listVars, callVars, Enabled
  <1> QED
    BY <1>1, <1>2, <1>3, <1>4, <1>5, <1>6, <1>7, <1>8, <1>9, <1>10, <1>11,
       <1>12, <1>13, <1>14, <1>15, <1>16, <1>17, <1>18, <1>19, <1>20,
       <1>21, <1>22 DEF Next, EmuNext, ClientNext, Rest

\* requestSkipInstruction() gives the user's enabled breakpoints back, whatever
\* the machine did meanwhile.
THEOREM SkipRestoresEnabled == Spec => SkipKeepsEnabled
  <1>1. Init => SkipNamed /\ SkipProgress
    BY DEF Init, SkipNamed, SkipProgress
  <1>2. IInv /\ SkipNamed /\ SkipProgress /\ [Next]_vars => SkipNamed' /\ SkipProgress'
    BY StepSkip
  <1>3. IInv /\ SkipProgress /\ [Next]_vars
          => [call = "skipEnd" /\ call' = "idle" => Enabled(bps) = Enabled(saved)]_vars
    <2> SUFFICES ASSUME SkipProgress, call = "skipEnd", call' = "idle", Next
                 PROVE  Enabled(bps) = Enabled(saved)
      BY DEF vars, callVars
    <2>1. SkipEnd \/ ExecLoadRom
      BY DEF Next, EmuNext, ClientNext, Rest, ExecEdit, ExecClear, ExecRun, ExecStep, ExecWritePc,
         ExecReset, Prologue, FrameStart, FrameInstruction, CommandsDone, FrameCheck, ReportBreakpoint, Call,
         RequestPause, LoadRom, LoadRomClear, LoadRomSync, SkipBegin, SkipRun, SkipRemove,
         vars, callVars
    <2> QED
      BY <2>1 DEF SkipProgress, SkipEnd, ExecLoadRom, TakesCommand, NoReq
  <1> QED
    BY <1>1, <1>2, <1>3, BreakpointsInv, PTL DEF Spec, SkipKeepsEnabled
=============================================================================
