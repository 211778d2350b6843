--------------------------- MODULE CommandService ---------------------------
(***************************************************************************)
(* What submitAndWait() promises its callers, without threads, queue or    *)
(* timers.  A submitted command is either carried out once or withdrawn,   *)
(* never both; the caller gets one answer, which tells it truthfully which *)
(* of the two happened.                                                    *)
(***************************************************************************)
CONSTANT Commands

VARIABLES
    phase,  \* unsubmitted, pending, applied or withdrawn
    reply   \* what the caller was told

vars == <<phase, reply>>

Init ==
    /\ phase = [c \in Commands |-> "unsubmitted"]
    /\ reply = [c \in Commands |-> "none"]

Move(c, from, to) ==
    /\ phase[c] = from
    /\ phase' = [phase EXCEPT ![c] = to]

Submit(c)   == Move(c, "unsubmitted", "pending") /\ UNCHANGED reply
Apply(c)    == Move(c, "pending", "applied") /\ UNCHANGED reply
Withdraw(c) == Move(c, "pending", "withdrawn") /\ UNCHANGED reply

\* The caller gives up and takes its command back in the same instant.
TimeOut(c) ==
    /\ Move(c, "pending", "withdrawn")
    /\ reply[c] = "none"
    /\ reply' = [reply EXCEPT ![c] = "Timeout"]

Truthful(c) == IF phase[c] = "applied" THEN {"Completed", "Failed"} ELSE {"Cancelled"}

Answer(c) ==
    /\ phase[c] \in {"applied", "withdrawn"}
    /\ reply[c] = "none"
    /\ \E r \in Truthful(c) : reply' = [reply EXCEPT ![c] = r]
    /\ UNCHANGED phase

Next == \E c \in Commands :
    Submit(c) \/ Apply(c) \/ Withdraw(c) \/ TimeOut(c) \/ Answer(c)

Spec == Init /\ [][Next]_vars
=============================================================================
