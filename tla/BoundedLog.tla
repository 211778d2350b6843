----------------------------- MODULE BoundedLog -----------------------------
(***************************************************************************)
(* What a RingBuffer promises its readers: a log of the newest Capacity    *)
(* entries, oldest first, that may be emptied at any time.                 *)
(***************************************************************************)
EXTENDS Naturals, Sequences

CONSTANTS Capacity, Entries

VARIABLE log

Init == log = <<>>

\* A new entry; when the log is full the oldest one gives way.
Record(e) == log' = IF Len(log) < Capacity THEN Append(log, e) ELSE Append(Tail(log), e)

Forget == log' = <<>>

Next == Forget \/ \E e \in Entries : Record(e)

Spec == Init /\ [][Next]_log
=============================================================================
