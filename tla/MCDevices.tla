----------------------------- MODULE MCDevices ------------------------------
(***************************************************************************)
(* The devices of the board for TLC.  They share no state but the          *)
(* processor that drives them, so each is explored with the others at      *)
(* rest: a behaviour is about the device in focus.                         *)
(***************************************************************************)
EXTENDS FloppyController, IntervalTimer, Interrupts, PagedMemory, GdbServer

VARIABLE focus

\* ROMs at 0 and with an origin, one that spills into the quasi-disk, and images
\* of the quasi-disk: too long, and of a second one.
Images == {<<0, 16>>, <<1, 2>>, <<1, 17>>, <<16, 34>>, <<48, 2>>}

Init ==
    /\ focus \in {"floppy", "timer", "interrupts", "memory", "gdb"}
    /\ FdInit /\ TmInit /\ IntInit /\ PgInit /\ GdbInit

OnlyFloppy     == focus = "floppy"     /\ UNCHANGED <<focus, tmvars, intvars, pgvars, gdbvars>>
OnlyTimer      == focus = "timer"      /\ UNCHANGED <<focus, fdvars, intvars, pgvars, gdbvars>>
OnlyInterrupts == focus = "interrupts" /\ UNCHANGED <<focus, fdvars, tmvars, pgvars, gdbvars>>
OnlyMemory     == focus = "memory"     /\ UNCHANGED <<focus, fdvars, tmvars, intvars, gdbvars>>
OnlyGdb        == focus = "gdb"        /\ UNCHANGED <<focus, fdvars, tmvars, intvars, pgvars>>

Next ==
    \/ OnlyFloppy     /\ FdNext
    \/ OnlyTimer      /\ TmNext
    \/ OnlyInterrupts /\ IntNext
    \/ OnlyMemory     /\ PgNext
    \/ OnlyGdb        /\ GdbNext

vars == <<focus, fdvars, tmvars, intvars, pgvars, gdbvars>>

\* The driver of the floppy goes on polling and moving bytes, and the
\* frames go on.
Progress ==
    \/ OnlyFloppy     /\ (FdStatus \/ FdTake \/ FdGive)
    \/ OnlyInterrupts /\ (IntFrame \/ IntStep)

Spec == Init /\ [][Next]_vars /\ WF_vars(Progress)
=============================================================================
