----------------------------- MODULE AccessLog ------------------------------
(***************************************************************************)
(* The runtime memory access map and log of debugger/src/backend.cpp and   *)
(* the RingBuffer that holds the log.  The emulation thread records every  *)
(* memory access in onMemoryRead() and onMemoryWrite(): it bumps the count *)
(* of the 256-byte block, draws a sequence number and pushes an entry.     *)
(* Client threads clear the log, or the map and the log, at any time, the  *)
(* machine running or not.  RingBuffer has a mutex of its own;             *)
(* runtimeAccessMutex_ keeps the clients apart but the emulation thread    *)
(* does not take it, so its updates interleave with every step of a clear. *)
(***************************************************************************)
EXTENDS Naturals, Sequences, FiniteSets

CONSTANTS
    Capacity,      \* DEFAULT_RUNTIME_ACCESS_LOG
    Blocks,        \* 256-byte blocks of the address space
    MaxSeq,        \* bound: sequence numbers and counts
    NoEntry        \* a slot that was never written

ASSUME AccessLogAssumption ==
    /\ Capacity \in Nat \ {0}
    /\ MaxSeq \in Nat

Entries == [block : Blocks, sequence : 0..MaxSeq]

VARIABLES
    buf, head, count,  \* RingBuffer: buf_, head_, count_
    seq,               \* accessSequence_
    map,               \* runtimeAccessMap_: the count of each block
    running,           \* the emulation thread executes instructions
    epc,               \* where it is in an access
    entry,             \* logEntry
    cpc,               \* the step clearRuntimeAccessMap() has come to
    toClear,           \* the blocks its loop has yet to clear
    missed             \* history: the block of the access that had been counted
                       \* and not logged when the log was last cleared with the map

ringVars == <<buf, head, count>>
clearVars == <<cpc, toClear, missed>>
vars == <<ringVars, seq, map, running, epc, entry, clearVars>>

Init ==
    /\ buf = [i \in 0..(Capacity - 1) |-> NoEntry] /\ head = 0 /\ count = 0
    /\ seq = 0
    /\ map = [b \in Blocks |-> 0]
    /\ running = FALSE /\ epc = "idle" /\ entry = NoEntry
    /\ cpc = "idle" /\ toClear = {} /\ missed = NoEntry

-----------------------------------------------------------------------------
(* RingBuffer *)

\* Mutant: a full buffer starts over.
PushStartsOver(e) ==
    LET slot == IF count < Capacity THEN head ELSE 0 IN
    /\ buf' = [buf EXCEPT ![slot] = e]
    /\ head' = (slot + 1) % Capacity
    /\ count' = slot + 1

Push(e) ==
    /\ buf' = [buf EXCEPT ![head] = e]
    /\ head' = (head + 1) % Capacity
    /\ count' = IF count < Capacity THEN count + 1 ELSE count

Clear ==
    /\ head' = 0
    /\ count' = 0
    /\ UNCHANGED buf

\* The slot of the oldest entry, and snapshot(): all entries, oldest first.
First == IF count < Capacity THEN 0 ELSE head
Snapshot == [i \in 1..count |-> buf[(First + (i - 1)) % Capacity]]

-----------------------------------------------------------------------------
(* The emulation thread: one memory access *)

\* read_count++ and its like, not atomic: the count is read ...
ReadCount ==
    /\ running /\ epc = "idle" /\ seq < MaxSeq
    /\ \E b \in Blocks :
         /\ map[b] < MaxSeq
         /\ entry' = [block |-> b, sequence |-> map[b]]
    /\ epc' = "count"
    /\ UNCHANGED <<ringVars, seq, map, running, clearVars>>

\* ... and stored.
WriteCount ==
    /\ epc = "count"
    /\ map' = [map EXCEPT ![entry.block] = entry.sequence + 1]
    /\ epc' = "number"
    /\ UNCHANGED <<ringVars, seq, running, entry, clearVars>>

\* accessSequence_.fetch_add(1) + 1
DrawSequence ==
    /\ epc = "number"
    /\ seq' = seq + 1
    /\ entry' = [entry EXCEPT !.sequence = seq']
    /\ epc' = "push"
    /\ UNCHANGED <<ringVars, map, running, clearVars>>

PushEntry ==
    /\ epc = "push"
    /\ Push(entry)
    /\ entry' = NoEntry
    /\ epc' = "idle"
    /\ UNCHANGED <<seq, map, running, clearVars>>

\* The frame loop starts on a Run command and stops between instructions.
Start ==
    /\ ~running
    /\ running' = TRUE
    /\ UNCHANGED <<ringVars, seq, map, epc, entry, clearVars>>

Stop ==
    /\ running /\ epc = "idle"
    /\ running' = FALSE
    /\ UNCHANGED <<ringVars, seq, map, epc, entry, clearVars>>

-----------------------------------------------------------------------------
(* The clients *)

\* Mutant: the numbering starts again and the log stays.
RestartNumbering ==
    /\ cpc = "idle"
    /\ seq' = 0
    /\ UNCHANGED <<ringVars, map, running, epc, entry, clearVars>>

\* clearMemoryAccessLog(): the log alone; the numbering goes on.
ClearMemoryAccessLog ==
    /\ cpc = "idle"
    /\ Clear
    /\ UNCHANGED <<seq, map, running, epc, entry, clearVars>>

\* Mutant: the log is cleared before the map.
LogBeforeMap == [idle |-> "log", log |-> "map", map |-> "sequence", sequence |-> "idle"]

\* clearRuntimeAccessMap() takes runtimeAccessMutex_ and clears the map, the log
\* and the sequence, in this order.
NextStep == [idle |-> "map", map |-> "log", log |-> "sequence", sequence |-> "idle"]

BeginClear ==
    /\ cpc = "idle"
    /\ cpc' = NextStep["idle"]
    /\ toClear' = Blocks
    /\ UNCHANGED <<ringVars, seq, map, running, epc, entry, missed>>

\* One turn of the loop over the 256 blocks; their order does not matter.
ClearMap ==
    /\ cpc = "map"
    /\ \E b \in toClear :
         /\ map' = [map EXCEPT ![b] = 0]
         /\ toClear' = toClear \ {b}
    /\ cpc' = IF toClear' = {} THEN NextStep["map"] ELSE "map"
    /\ UNCHANGED <<ringVars, seq, running, epc, entry, missed>>

ClearLog ==
    /\ cpc = "log"
    /\ Clear
    /\ cpc' = NextStep["log"]
    /\ missed' = IF epc \in {"number", "push"} THEN entry.block ELSE NoEntry
    /\ UNCHANGED <<seq, map, running, epc, entry, toClear>>

ResetSequence ==
    /\ cpc = "sequence"
    /\ seq' = 0
    /\ cpc' = NextStep["sequence"]
    /\ UNCHANGED <<ringVars, map, running, epc, entry, toClear, missed>>

Next ==
    \/ ReadCount \/ WriteCount \/ DrawSequence \/ PushEntry \/ Start \/ Stop
    \/ ClearMemoryAccessLog \/ BeginClear \/ ClearMap \/ ClearLog \/ ResetSequence

Spec == Init /\ [][Next]_vars

-----------------------------------------------------------------------------
(* Properties *)

Log == INSTANCE BoundedLog WITH log <- Snapshot

\* The ring buffer implements the bounded log: snapshot() is the newest
\* Capacity entries, oldest first, across wraps and clears.
ImplementsLog == Log!Spec

\* The places of the log where the numbering does not go up by one.
Restarts == {i \in 1..(count - 1) : Snapshot[i + 1].sequence # Snapshot[i].sequence + 1}

\* A clear in the middle of a run can leave several numberings in the log: an
\* access that was under way when the log was cleared brings the number it had
\* drawn, and those recorded before the sequence is reset go on with the old one.
\* It is never worse than that: the numbering of the log restarts at most twice,
\* and then at 1, over any number of clears and wraps.
LogRestartsTwice ==
    /\ \A i \in Restarts : Snapshot[i + 1].sequence = 1
    /\ \E p, q \in 0..count : Restarts \subseteq {p, q}

\* How many entries of the log are about block b.
LoggedAccesses(b) == Cardinality({i \in 1..count : Snapshot[i].block = b})

\* From the clear of the log on, the map has counted every access that the log
\* shows but one at most: the access that was counted before its block was
\* cleared and logged after the log was.  With no access in flight at that
\* moment (the machine stands) the map misses none.
MapMissesOne ==
    cpc \in {"idle", "sequence"} =>
        \A b \in Blocks :
            LoggedAccesses(b) <= map[b] + (IF b = missed THEN 1 ELSE 0)
=============================================================================
