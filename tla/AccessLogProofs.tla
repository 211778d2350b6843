-------------------------- MODULE AccessLogProofs ---------------------------
(***************************************************************************)
(* Proofs about AccessLog, for every capacity: the ring buffer implements  *)
(* the bounded log; with clears at any time, the numbering of the log      *)
(* restarts at most twice and the map misses one access at most.           *)
(***************************************************************************)
EXTENDS AccessLog, SequenceTheorems, FiniteSetTheorems, TLAPS

\* The ranges of the ring; one that is not full starts at slot 0.
RingOK ==
    /\ buf \in [0..(Capacity - 1) -> Entries \cup {NoEntry}]
    /\ head \in 0..(Capacity - 1)
    /\ count \in 0..Capacity
    /\ count < Capacity => head = count

\* What the index arithmetic needs of the constants.
LEMMA CapacityPositive == Capacity \in Nat \ {0}
  BY AccessLogAssumption

\* Where an index that is at most one turn past the end comes to lie.
Wrapped(x) == IF x < Capacity THEN x ELSE x - Capacity

\* The modulus in RingBuffer's index arithmetic is that wrap.
LEMMA Wrap == \A x \in Nat : x < Capacity + Capacity => x % Capacity = Wrapped(x)
  <1> SUFFICES ASSUME NEW x \in Nat, x < Capacity + Capacity
               PROVE  x % Capacity = IF x < Capacity THEN x ELSE x - Capacity
    BY DEF Wrapped
  <1> USE CapacityPositive
  <1>1. CASE x < Capacity
    BY <1>1
  <1>2. CASE x >= Capacity
    <2>1. x - Capacity \in 0..(Capacity - 1)
      BY <1>2
    <2>2. x = 1 * Capacity + (x - Capacity)
      OBVIOUS
    <2> QED
      BY <1>2, <2>1, <2>2
  <1> QED
    BY <1>1, <1>2

\* A snapshot is a sequence of count slots: from slot 0 when the ring is not
\* full, from head and around the end when it is.
Slots ==
    /\ Snapshot \in Seq(Entries \cup {NoEntry})
    /\ Len(Snapshot) = count
    /\ \A i \in 1..count : count < Capacity => Snapshot[i] = buf[i - 1]
    /\ \A i \in 1..count : count = Capacity =>
         Snapshot[i] = buf[Wrapped(head + (i - 1))]

\* RingBuffer::snapshot() reads the slots in logical order.
LEMMA SnapshotSlots == RingOK => Slots
  <1> SUFFICES ASSUME RingOK PROVE Slots
    OBVIOUS
  <1> USE CapacityPositive
  <1>1. First \in 0..(Capacity - 1)
    BY DEF First, RingOK
  <1>2. ASSUME NEW i \in 1..count
        PROVE  /\ First + (i - 1) \in Nat
               /\ (First + (i - 1)) % Capacity = Wrapped(First + (i - 1))
    <2>1. First + (i - 1) \in Nat /\ First + (i - 1) < Capacity + Capacity
      BY <1>1 DEF RingOK
    <2> QED
      BY <2>1, Wrap, Zenon
  <1>3. ASSUME NEW i \in 1..count
        PROVE  (First + (i - 1)) % Capacity \in 0..(Capacity - 1)
    BY <1>1, <1>2 DEF RingOK, Wrapped
  <1>4. Snapshot \in [1..count -> Entries \cup {NoEntry}] /\ count \in Nat
    BY <1>3 DEF Snapshot, RingOK
  <1>5. Snapshot \in Seq(Entries \cup {NoEntry}) /\ Len(Snapshot) = count
    BY <1>4
  <1>6. ASSUME NEW i \in 1..count, count < Capacity
        PROVE  Snapshot[i] = buf[i - 1]
    <2>1. First = 0 /\ First + (i - 1) = i - 1 /\ i - 1 < Capacity
      BY <1>6 DEF First, RingOK
    <2> QED
      BY <2>1, <1>2 DEF Snapshot, Wrapped
  <1>7. ASSUME NEW i \in 1..count, count = Capacity
        PROVE  Snapshot[i] = buf[Wrapped(head + (i - 1))]
    <2>1. First = head
      BY <1>7 DEF First, RingOK
    <2> QED
      BY <2>1, <1>2 DEF Snapshot
  <1> QED
    BY <1>5, <1>6, <1>7 DEF Slots

\* RingBuffer::push() records an entry in the bounded log.
LEMMA PushRecords ==
    ASSUME RingOK, NEW e \in Entries, Push(e)
    PROVE  /\ RingOK'
           /\ Log!Record(e)
  <1> USE CapacityPositive
  <1> DEFINE S == Entries \cup {NoEntry}
  <1>1. head' = IF head + 1 < Capacity THEN head + 1 ELSE 0
    <2>1. head + 1 \in Nat /\ head + 1 < Capacity + Capacity
      BY DEF RingOK
    <2>2. (head + 1) % Capacity = Wrapped(head + 1)
      BY <2>1, Wrap, Zenon
    <2> QED
      BY <2>2 DEF Push, RingOK, Wrapped
  <1>2. RingOK'
    BY <1>1 DEF Push, RingOK
  <1>3. Slots /\ Slots'
    BY <1>2, SnapshotSlots, PTL
  <1>4. CASE count < Capacity
    <2> DEFINE t == Append(Snapshot, e)
    <2>1. t \in Seq(S) /\ Len(t) = count + 1 /\ t[count + 1] = e
          /\ \A i \in 1..count : t[i] = Snapshot[i]
      BY <1>3 DEF Slots, RingOK
    <2>2. count' = count + 1 /\ head = count /\ buf' = [buf EXCEPT ![head] = e]
      BY <1>4 DEF Push, RingOK
    <2>3. ASSUME NEW i \in 1..count' PROVE Snapshot'[i] = buf'[i - 1]
      <3>1. CASE count' < Capacity
        BY <1>3, <3>1 DEF Slots
      <3>2. CASE count' = Capacity
        <4>1. head' = 0
          BY <1>1, <2>2, <3>2 DEF RingOK
        <4>2. Wrapped(head' + (i - 1)) = i - 1
          BY <4>1, <2>2, <3>2 DEF RingOK, Wrapped
        <4> QED
          BY <1>3, <3>2, <4>2 DEF Slots
      <3> QED
        BY <1>2, <3>1, <3>2 DEF RingOK
    <2>4. ASSUME NEW i \in 1..count' PROVE Snapshot'[i] = t[i]
      <3>1. CASE i = count + 1
        <4>1. buf'[i - 1] = e
          BY <2>2, <3>1 DEF RingOK
        <4> QED
          BY <2>1, <2>3, <3>1, <4>1
      <3>2. CASE i \in 1..count
        <4>1. Snapshot[i] = buf[i - 1]
          BY <1>3, <1>4, <3>2 DEF Slots
        <4>2. buf'[i - 1] = buf[i - 1]
          BY <2>2, <3>2 DEF RingOK
        <4> QED
          BY <2>1, <2>3, <3>2, <4>1, <4>2
      <3>3. i = count + 1 \/ i \in 1..count
        BY <2>2 DEF RingOK
      <3> QED
        BY <3>1, <3>2, <3>3
    <2>5. Snapshot' \in Seq(S) /\ Len(Snapshot') = count'
      BY <1>3 DEF Slots
    <2>6. Snapshot' = t
      BY <2>1, <2>2, <2>4, <2>5, SeqEqual
    <2> QED
      BY <1>2, <1>3, <1>4, <2>6 DEF Slots, Log!Record
  <1>5. CASE count = Capacity
    <2> DEFINE t == Append(Tail(Snapshot), e)
    <2>1. t \in Seq(S) /\ Len(t) = count /\ t[count] = e
          /\ \A i \in 1..(count - 1) : t[i] = Snapshot[i + 1]
      BY <1>3, <1>5 DEF Slots, RingOK
    <2>2. count' = count /\ buf' = [buf EXCEPT ![head] = e]
      BY <1>5 DEF Push, RingOK
    <2>3. ASSUME NEW i \in 1..count' PROVE Snapshot'[i] = t[i]
      <3> DEFINE j == Wrapped(head' + (i - 1))
      <3>1. Snapshot'[i] = buf'[j]
        BY <1>3, <1>5, <2>2 DEF Slots
      <3>2. j \in 0..(Capacity - 1)
        <4>1. head' \in 0..(Capacity - 1) /\ i \in 1..Capacity
          BY <1>2, <1>5, <2>2 DEF RingOK
        <4> HIDE DEF j
        <4>2. \A h \in 0..(Capacity - 1), k \in 1..Capacity :
                Wrapped(h + (k - 1)) \in 0..(Capacity - 1)
          BY DEF Wrapped
        <4> QED
          BY <4>1, <4>2 DEF j
      <3>3. CASE i = count
        <4>1. j = head
          BY <1>1, <1>5, <3>3 DEF RingOK, Wrapped
        <4>2. buf'[j] = e
          BY <4>1, <2>2 DEF RingOK
        <4> QED
          BY <2>1, <3>1, <3>3, <4>2
      <3>4. CASE i \in 1..(count - 1)
        <4>1. j # head /\ j = Wrapped(head + i)
          BY <1>1, <1>5, <3>4 DEF RingOK, Wrapped
        <4>2. buf'[j] = buf[j]
          BY <4>1, <3>2, <2>2 DEF RingOK
        <4>3. Snapshot[i + 1] = buf[j]
          <5>1. i + 1 \in 1..count /\ (i + 1) - 1 = i
            BY <1>5, <3>4 DEF RingOK
          <5>2. Snapshot[i + 1] = buf[Wrapped(head + ((i + 1) - 1))]
            BY <1>3, <1>5, <5>1 DEF Slots
          <5> QED
            BY <5>1, <5>2, <4>1
        <4> QED
          BY <2>1, <3>1, <3>4, <4>2, <4>3
      <3>5. i = count \/ i \in 1..(count - 1)
        BY <1>5, <2>2 DEF RingOK
      <3> QED
        BY <3>3, <3>4, <3>5
    <2>4. Snapshot' \in Seq(S) /\ Len(Snapshot') = count'
      BY <1>3 DEF Slots
    <2>5. Snapshot' = t
      BY <2>1, <2>2, <2>3, <2>4, SeqEqual
    <2> QED
      BY <1>2, <1>3, <1>5, <2>5 DEF Slots, Log!Record
  <1> QED
    BY <1>4, <1>5 DEF RingOK

\* RingBuffer::clear() empties the bounded log.
LEMMA ClearForgets ==
    ASSUME RingOK, Clear
    PROVE  RingOK' /\ Log!Forget
  <1>1. RingOK'
    BY CapacityPositive DEF Clear, RingOK
  <1>2. Slots'
    BY <1>1, SnapshotSlots, PTL
  <1>3. Snapshot' = <<>>
    BY <1>2 DEF Slots, Clear
  <1> QED
    BY <1>1, <1>3 DEF Log!Forget

\* The rest of the state: numbers within the bound, an entry while one is being
\* recorded.
EntryOK ==
    /\ MaxSeq \in Nat
    /\ seq \in 0..MaxSeq
    /\ epc \in {"count", "number"} => seq < MaxSeq
    /\ epc \in {"idle", "count", "number", "push"}
    /\ epc # "idle" => entry \in Entries
    /\ epc = "count" => entry.sequence < MaxSeq
    /\ map \in [Blocks -> Nat]
    /\ cpc \in {"idle", "map", "log", "sequence"}

\* The invariant of the refinement.
Inv == RingOK /\ EntryOK

\* Every step keeps the ring and the entry in order, and maps to a step of the
\* bounded log or to none.
LEMMA StepRecords ==
    ASSUME Inv, [Next]_vars
    PROVE  Inv' /\ [Log!Next]_Snapshot
  <1> USE DEF Inv
  <1>1. CASE ReadCount
    <2>1. UNCHANGED ringVars /\ EntryOK'
      BY <1>1 DEF ReadCount, EntryOK, clearVars, Entries
    <2> QED
      BY <2>1 DEF ringVars, RingOK, Snapshot, First
  <1>2. CASE WriteCount
    <2>1. UNCHANGED ringVars /\ EntryOK'
      BY <1>2 DEF WriteCount, EntryOK, clearVars, Entries
    <2> QED
      BY <2>1 DEF ringVars, RingOK, Snapshot, First
  <1>3. CASE DrawSequence
    <2>1. UNCHANGED ringVars /\ EntryOK'
      BY <1>3 DEF DrawSequence, EntryOK, clearVars, Entries
    <2> QED
      BY <2>1 DEF ringVars, RingOK, Snapshot, First
  <1>4. CASE PushEntry
    <2>1. entry \in Entries /\ Push(entry) /\ EntryOK'
      BY <1>4 DEF PushEntry, EntryOK, clearVars
    <2>2. RingOK' /\ Log!Record(entry)
      BY <2>1, PushRecords
    <2> QED
      BY <2>1, <2>2 DEF Log!Next
  <1>5. CASE Start \/ Stop
    <2>1. UNCHANGED ringVars /\ EntryOK'
      BY <1>5 DEF Start, Stop, EntryOK, clearVars
    <2> QED
      BY <2>1 DEF ringVars, RingOK, Snapshot, First
  <1>6. CASE ClearMemoryAccessLog \/ ClearLog
    <2>1. Clear /\ EntryOK'
      BY <1>6 DEF ClearMemoryAccessLog, ClearLog, EntryOK, clearVars, NextStep
    <2> QED
      BY <2>1, ClearForgets DEF Log!Next
  <1>7. CASE BeginClear \/ ClearMap
    <2>1. UNCHANGED ringVars /\ UNCHANGED <<seq, epc, entry>> /\ map' \in [Blocks -> Nat]
      BY <1>7 DEF BeginClear, ClearMap, EntryOK
    <2>2. cpc' \in {"map", "log"}
      BY <1>7 DEF BeginClear, ClearMap, NextStep
    <2>3. EntryOK'
      BY <2>1, <2>2 DEF EntryOK
    <2> QED
      BY <2>1, <2>3 DEF ringVars, RingOK, Snapshot, First
  <1>8. CASE ResetSequence
    <2>1. UNCHANGED ringVars /\ EntryOK'
      BY <1>8 DEF ResetSequence, EntryOK, NextStep
    <2> QED
      BY <2>1 DEF ringVars, RingOK, Snapshot, First
  <1>9. CASE UNCHANGED vars
    <2>1. UNCHANGED ringVars /\ EntryOK'
      BY <1>9 DEF vars, EntryOK, clearVars
    <2> QED
      BY <2>1 DEF ringVars, RingOK, Snapshot, First
  <1> QED
    BY <1>1, <1>2, <1>3, <1>4, <1>5, <1>6, <1>7, <1>8, <1>9 DEF Next

\* The initial ring is the empty log.
LEMMA InitRecords == Init => Inv /\ Log!Init
  <1> SUFFICES ASSUME Init PROVE Inv /\ Log!Init
    OBVIOUS
  <1>1. MaxSeq \in Nat
    BY AccessLogAssumption
  <1>2. RingOK
    BY CapacityPositive DEF Init, RingOK
  <1>3. EntryOK
    BY <1>1 DEF Init, EntryOK
  <1>4. Slots
    BY <1>2, SnapshotSlots
  <1>5. Snapshot = <<>>
    BY <1>4 DEF Slots, Init
  <1> QED
    BY <1>2, <1>3, <1>5 DEF Inv, Log!Init

\* The invariant holds in every reachable state.
LEMMA AccessLogInv == Spec => []Inv
  <1>1. Inv /\ [Next]_vars => Inv'
    BY StepRecords
  <1> QED
    BY <1>1, InitRecords, PTL DEF Spec

\* For every capacity, what snapshot() returns is the bounded log: the newest
\* Capacity entries in the order they were pushed, whenever it is taken.
THEOREM RingImplementsLog == Spec => ImplementsLog
  <1>1. Inv /\ [Next]_vars => [Log!Next]_Snapshot
    BY StepRecords
  <1> QED
    BY <1>1, InitRecords, AccessLogInv, PTL DEF Spec, ImplementsLog, Log!Spec

-----------------------------------------------------------------------------
(* The numbering of the log *)

\* The numbers go up by one along s, but for restarts at the places in P.
Cuts(s, P) ==
    \A i \in 1..(Len(s) - 1) :
        \/ s[i + 1].sequence = s[i].sequence + 1
        \/ s[i + 1].sequence = 1 /\ i \in P

\* The last number of s is n, or the numbering begins anew after it.
Ends(s, n, P) ==
    Len(s) > 0 => s[Len(s)].sequence = n \/ (n = 0 /\ Len(s) \in P)

\* The log and the entry that has its number and is on its way to the log.
Line == IF epc = "push" THEN Append(Snapshot, entry) ELSE Snapshot

\* Where the numbering stands.  While a clear has emptied the log and not yet
\* reset the sequence, one restart at most has been used up.
Numbering ==
    \E p, q \in Int :
        /\ Cuts(Line, {p, q})
        /\ Ends(Line, seq, {p, q})
        /\ cpc = "sequence" => p = q

NumberInv == Inv /\ Numbering

\* The next number continues the line.
LEMMA DrawContinues ==
    ASSUME NEW S, NEW s \in Seq(S), NEW e, NEW n \in Nat, NEW P, NEW t,
           Cuts(s, P), Ends(s, n, P), e.sequence = n + 1, t = Append(s, e)
    PROVE  Cuts(t, P) /\ Ends(t, n + 1, P)
  <1>1. /\ Len(s) \in Nat /\ Len(t) = Len(s) + 1 /\ t[Len(t)] = e
        /\ \A i \in 1..Len(s) : t[i] = s[i]
    OBVIOUS
  <1>2. ASSUME NEW i \in 1..(Len(t) - 1)
        PROVE  \/ t[i + 1].sequence = t[i].sequence + 1
               \/ t[i + 1].sequence = 1 /\ i \in P
    <2>1. CASE i < Len(s)
      <3>1. i \in 1..(Len(s) - 1) /\ t[i] = s[i] /\ t[i + 1] = s[i + 1]
        BY <1>1, <2>1
      <3> QED
        BY <3>1 DEF Cuts
    <2>2. CASE i = Len(s)
      <3>1. t[i] = s[Len(s)] /\ t[i + 1] = e /\ Len(s) > 0
        BY <1>1, <1>2, <2>2
      <3>2. CASE s[Len(s)].sequence = n
        BY <3>1, <3>2
      <3>3. CASE n = 0 /\ Len(s) \in P
        BY <2>2, <3>1, <3>3
      <3> QED
        BY <3>1, <3>2, <3>3 DEF Ends
    <2> QED
      BY <1>1, <2>1, <2>2
  <1> QED
    BY <1>1, <1>2 DEF Cuts, Ends

\* Dropping the oldest entry moves the restarts down by one place.
LEMMA TailCuts ==
    ASSUME NEW S, NEW s \in Seq(S), Len(s) > 0, NEW p \in Int, NEW q \in Int, NEW n \in Nat,
           Cuts(s, {p, q}), Ends(s, n, {p, q}), NEW t, t = Tail(s)
    PROVE  Cuts(t, {p - 1, q - 1}) /\ Ends(t, n, {p - 1, q - 1})
  <1>1. Len(s) \in Nat /\ Len(t) = Len(s) - 1 /\ \A i \in 1..Len(t) : t[i] = s[i + 1]
    OBVIOUS
  <1>2. ASSUME NEW i \in 1..(Len(t) - 1)
        PROVE  \/ t[i + 1].sequence = t[i].sequence + 1
               \/ t[i + 1].sequence = 1 /\ i \in {p - 1, q - 1}
    <2>1. t[i] = s[i + 1] /\ t[i + 1] = s[(i + 1) + 1] /\ i + 1 \in 1..(Len(s) - 1)
      BY <1>1
    <2>2. i + 1 \in {p, q} => i \in {p - 1, q - 1}
      OBVIOUS
    <2> QED
      BY <2>1, <2>2 DEF Cuts
  <1>3. Ends(t, n, {p - 1, q - 1})
    <2> SUFFICES ASSUME Len(t) > 0
                 PROVE  t[Len(t)].sequence = n \/ (n = 0 /\ Len(t) \in {p - 1, q - 1})
      BY DEF Ends
    <2>1. t[Len(t)] = s[Len(s)] /\ Len(t) = Len(s) - 1
      BY <1>1
    <2>2. Len(s) \in {p, q} => Len(t) \in {p - 1, q - 1}
      BY <1>1
    <2> QED
      BY <2>1, <2>2 DEF Ends
  <1> QED
    BY <1>2, <1>3 DEF Cuts

\* A line of one entry or none needs no more than one restart.
LEMMA ShortLine ==
    ASSUME NEW s, Len(s) \in {0, 1}, NEW n, NEW p, p = 1,
           Len(s) = 1 => s[1].sequence = n \/ n = 0
    PROVE  Cuts(s, {p, p}) /\ Ends(s, n, {p, p})
  BY DEF Cuts, Ends

\* The line is a sequence, and so is what is recorded of it.
LEMMA LineType ==
    ASSUME Inv
    PROVE  /\ Snapshot \in Seq(Entries \cup {NoEntry}) /\ Len(Snapshot) = count
           /\ Line \in Seq(Entries \cup {NoEntry}) /\ seq \in Nat
  BY SnapshotSlots DEF Inv, Slots, EntryOK, Line

\* The entry on its way bears the number drawn last, or the sequence was reset.
LEMMA FlightNumber ==
    ASSUME NumberInv, epc = "push"
    PROVE  entry.sequence = seq \/ seq = 0
  <1>1. Line = Append(Snapshot, entry) /\ Snapshot \in Seq(Entries \cup {NoEntry})
    BY LineType DEF NumberInv, Line
  <1>2. Len(Line) > 0 /\ Line[Len(Line)] = entry
    BY <1>1
  <1> QED
    BY <1>2 DEF NumberInv, Numbering, Ends

\* Every step keeps the numbering, clears in the middle of an access included.
LEMMA StepNumbers ==
    ASSUME NumberInv, [Next]_vars
    PROVE  NumberInv'
  <1>1. Inv'
    BY StepRecords DEF NumberInv
  <1>2. PICK p \in Int, q \in Int :
          /\ Cuts(Line, {p, q}) /\ Ends(Line, seq, {p, q})
          /\ cpc = "sequence" => p = q
    BY DEF NumberInv, Numbering
  <1>3. /\ Snapshot \in Seq(Entries \cup {NoEntry}) /\ Len(Snapshot) = count
        /\ Line \in Seq(Entries \cup {NoEntry}) /\ seq \in Nat
    BY LineType DEF NumberInv
  <1>4. CASE ReadCount \/ WriteCount \/ Start \/ Stop \/ BeginClear \/ ClearMap \/ UNCHANGED vars
    <2>1. Snapshot' = Snapshot /\ seq' = seq
      BY <1>4 DEF ReadCount, WriteCount, Start, Stop, BeginClear, ClearMap, vars, ringVars, Snapshot, First
    <2>2. Line' = Line
      BY <1>4, <2>1 DEF ReadCount, WriteCount, Start, Stop, BeginClear, ClearMap, vars, Line
    <2>3. cpc' = "sequence" => cpc = "sequence"
      BY <1>4 DEF ReadCount, WriteCount, Start, Stop, BeginClear, ClearMap, vars, clearVars, NextStep
    <2> QED
      BY <1>1, <1>2, <2>1, <2>2, <2>3 DEF NumberInv, Numbering
  <1>5. CASE DrawSequence
    <2>1. /\ Snapshot' = Snapshot /\ seq' = seq + 1 /\ cpc' = cpc
          /\ epc = "number" /\ epc' = "push"
      BY <1>5 DEF DrawSequence, ringVars, Snapshot, First, clearVars
    <2>2. entry'.sequence = seq + 1
      BY <1>5, <2>1 DEF DrawSequence, NumberInv, Inv, EntryOK, Entries
    <2>3. Line = Snapshot /\ Line' = Append(Snapshot, entry')
      BY <2>1 DEF Line
    <2>4. PICK e : e = entry'
      OBVIOUS
    <2>5. PICK t : t = Append(Snapshot, e)
      OBVIOUS
    <2>6. e.sequence = seq + 1 /\ Cuts(Snapshot, {p, q}) /\ Ends(Snapshot, seq, {p, q})
      BY <1>2, <2>2, <2>3, <2>4
    <2>7. Cuts(t, {p, q}) /\ Ends(t, seq + 1, {p, q})
      BY <1>3, <2>5, <2>6, DrawContinues
    <2>8. Line' = t
      BY <2>3, <2>4, <2>5
    <2> QED
      BY <1>1, <1>2, <2>1, <2>7, <2>8 DEF NumberInv, Numbering
  <1>6. CASE PushEntry
    <2>1. Push(entry) /\ entry \in Entries /\ seq' = seq /\ cpc' = cpc /\ epc = "push" /\ epc' = "idle"
      BY <1>6 DEF PushEntry, NumberInv, Inv, EntryOK, clearVars
    <2>2. Log!Record(entry)
      BY <2>1, PushRecords DEF NumberInv, Inv
    <2>3. Line = Append(Snapshot, entry) /\ Line' = Snapshot'
      BY <2>1 DEF Line
    <2>4. CASE Len(Snapshot) < Capacity
      <3>1. Line' = Line
        BY <2>2, <2>3, <2>4 DEF Log!Record
      <3> QED
        BY <1>1, <1>2, <2>1, <3>1 DEF NumberInv, Numbering
    <2>5. CASE ~(Len(Snapshot) < Capacity)
      <3>1. Line' = Append(Tail(Snapshot), entry) /\ Len(Snapshot) > 0
        BY <1>3, <2>2, <2>3, <2>5, CapacityPositive DEF Log!Record
      <3>2. Append(Tail(Snapshot), entry) = Tail(Line) /\ Len(Line) > 0
        <4> DEFINE a == Append(Tail(Snapshot), entry)
                   b == Tail(Append(Snapshot, entry))
        <4>1. a \in Seq(Entries \cup {NoEntry}) /\ b \in Seq(Entries \cup {NoEntry})
          BY <1>3, <2>1, <3>1
        <4>2. Len(a) = Len(b) /\ \A i \in 1..Len(a) : a[i] = b[i]
          BY <1>3, <2>1, <3>1
        <4>3. a = b
          BY <4>1, <4>2, SeqEqual
        <4> QED
          BY <1>3, <2>1, <2>3, <4>3
      <3>3. PICK t : t = Tail(Line)
        OBVIOUS
      <3>4. Cuts(t, {p - 1, q - 1}) /\ Ends(t, seq, {p - 1, q - 1})
        BY <1>2, <1>3, <3>2, <3>3, TailCuts
      <3>5. Line' = t /\ p - 1 \in Int /\ q - 1 \in Int /\ (p = q => p - 1 = q - 1)
        BY <3>1, <3>2, <3>3
      <3> QED
        BY <1>1, <1>2, <2>1, <3>4, <3>5 DEF NumberInv, Numbering
    <2> QED
      BY <2>4, <2>5
  <1>7. CASE ClearMemoryAccessLog \/ ClearLog
    <2>1. Clear /\ epc' = epc /\ seq' = seq /\ entry' = entry
      BY <1>7 DEF ClearMemoryAccessLog, ClearLog
    <2>2. Snapshot' = <<>>
      BY <2>1, ClearForgets DEF NumberInv, Inv, Log!Forget
    <2>3. PICK t : t = Line'
      OBVIOUS
    <2>4. Len(t) \in {0, 1} /\ (Len(t) = 1 => t[1].sequence = seq \/ seq = 0)
      <3>1. CASE epc = "push"
        <4>1. t = Append(<<>>, entry)
          BY <2>1, <2>2, <2>3, <3>1 DEF Line
        <4>2. Len(t) = 1 /\ t[1] = entry
          BY <4>1
        <4> QED
          BY <3>1, <4>2, FlightNumber
      <3>2. CASE epc # "push"
        BY <2>1, <2>2, <2>3, <3>2 DEF Line
      <3> QED
        BY <3>1, <3>2
    <2>5. PICK k \in Int : k = 1
      OBVIOUS
    <2>6. Cuts(t, {k, k}) /\ Ends(t, seq, {k, k})
      BY <2>4, <2>5, ShortLine
    <2> QED
      BY <1>1, <2>1, <2>3, <2>6 DEF NumberInv, Numbering
  <1>8. CASE ResetSequence
    <2>1. Snapshot' = Snapshot /\ epc' = epc /\ entry' = entry /\ seq' = 0 /\ p = q /\ cpc' = "idle"
      BY <1>2, <1>8 DEF ResetSequence, ringVars, Snapshot, First, NextStep
    <2>2. Line' = Line
      BY <2>1 DEF Line
    <2>3. PICK k \in Int : k = Len(Line)
      BY <1>3
    <2>4. Cuts(Line, {p, k}) /\ Ends(Line, 0, {p, k})
      BY <1>2, <2>1, <2>3 DEF Cuts, Ends
    <2> QED
      BY <1>1, <2>1, <2>2, <2>4 DEF NumberInv, Numbering
  <1> QED
    BY <1>4, <1>5, <1>6, <1>7, <1>8 DEF Next

\* For every capacity, and with clears at any moment of a run, the numbering of
\* the log restarts at most twice, each time at 1.
THEOREM NumbersRestartTwice == Spec => []LogRestartsTwice
  <1>1. Init => NumberInv
    <2> SUFFICES ASSUME Init PROVE NumberInv
      OBVIOUS
    <2>1. Inv /\ Snapshot = <<>> /\ epc = "idle" /\ cpc = "idle"
      BY InitRecords DEF Log!Init, Init
    <2>2. Line = <<>>
      BY <2>1 DEF Line
    <2>3. PICK k \in Int : k = 1
      OBVIOUS
    <2>4. Cuts(Line, {k, k}) /\ Ends(Line, seq, {k, k})
      BY <2>2, <2>3, ShortLine
    <2> QED
      BY <2>1, <2>4 DEF NumberInv, Numbering
  <1>2. NumberInv /\ [Next]_vars => NumberInv'
    BY StepNumbers
  <1>3. NumberInv => LogRestartsTwice
    <2> SUFFICES ASSUME NumberInv PROVE LogRestartsTwice
      OBVIOUS
    <2>1. PICK p \in Int, q \in Int : Cuts(Line, {p, q})
      BY DEF NumberInv, Numbering
    <2>2. Snapshot \in Seq(Entries \cup {NoEntry}) /\ Len(Snapshot) = count /\ count \in Nat
      BY LineType DEF NumberInv, Inv, RingOK
    <2>3. Len(Line) >= count /\ Len(Line) \in Nat /\ \A i \in 1..count : Line[i] = Snapshot[i]
      BY <2>2 DEF Line
    <2>4. ASSUME NEW i \in Restarts
          PROVE  Snapshot[i + 1].sequence = 1 /\ i \in {p, q} /\ i \in 1..(count - 1)
      <3>1. i \in 1..(count - 1) /\ Snapshot[i + 1].sequence # Snapshot[i].sequence + 1
        BY DEF Restarts
      <3>2. Line[i] = Snapshot[i] /\ Line[i + 1] = Snapshot[i + 1] /\ i \in 1..(Len(Line) - 1)
        BY <2>2, <2>3, <3>1
      <3> QED
        BY <2>1, <3>1, <3>2 DEF Cuts
    <2> DEFINE In(k) == IF k \in 0..count THEN k ELSE 0
    <2>5. In(p) \in 0..count /\ In(q) \in 0..count
      BY <2>2
    <2>6. Restarts \subseteq {In(p), In(q)}
      BY <2>2, <2>4
    <2> QED
      BY <2>4, <2>5, <2>6 DEF LogRestartsTwice
  <1> QED
    BY <1>1, <1>2, <1>3, PTL DEF Spec

-----------------------------------------------------------------------------
(* The map and the log *)

\* Where the log s mentions block b.
About(s, b) == {i \in 1..Len(s) : s[i].block = b}

\* An entry adds at most itself to the mentions of its block.
Mentions(e, b) == IF e.block = b THEN 1 ELSE 0

\* The mentions of a block are finitely many.
LEMMA AboutFinite ==
    ASSUME NEW S, NEW s \in Seq(S), NEW b
    PROVE  IsFiniteSet(About(s, b)) /\ Cardinality(About(s, b)) \in Nat
  <1>1. IsFiniteSet(1..Len(s))
    BY FS_Interval
  <1>2. About(s, b) \in SUBSET (1..Len(s))
    BY DEF About
  <1> QED
    BY <1>1, <1>2, FS_Subset, FS_CardinalityType

\* Appending an entry adds at most one mention.
LEMMA AppendAbout ==
    ASSUME NEW S, NEW s \in Seq(S), NEW e \in S, NEW b
    PROVE  Cardinality(About(Append(s, e), b)) <= Cardinality(About(s, b)) + Mentions(e, b)
  <1> DEFINE n == Len(s) + 1
             t == Append(s, e)
  <1>1. /\ Len(s) \in Nat /\ t \in Seq(S) /\ Len(t) = n /\ t[n] = e
        /\ \A i \in 1..Len(s) : t[i] = s[i]
    OBVIOUS
  <1>2. IsFiniteSet(About(s, b)) /\ Cardinality(About(s, b)) \in Nat
    BY AboutFinite
  <1>3. CASE e.block = b
    <2>1. About(t, b) = About(s, b) \cup {n}
      BY <1>1, <1>3 DEF About
    <2>2. n \notin About(s, b)
      BY <1>1 DEF About
    <2>3. Cardinality(About(s, b) \cup {n}) = Cardinality(About(s, b)) + 1
      BY <1>2, <2>2, FS_AddElement
    <2> QED
      BY <1>2, <1>3, <2>1, <2>3 DEF Mentions
  <1>4. CASE e.block # b
    <2>1. About(t, b) = About(s, b)
      BY <1>1, <1>4 DEF About
    <2> QED
      BY <1>2, <1>4, <2>1 DEF Mentions
  <1> QED
    BY <1>3, <1>4

\* Dropping the oldest entry adds none: each mention moves down by one place.
LEMMA TailAbout ==
    ASSUME NEW S, NEW s \in Seq(S), s # <<>>, NEW b
    PROVE  Cardinality(About(Tail(s), b)) <= Cardinality(About(s, b))
  <1> DEFINE t == Tail(s)
             up == [i \in About(t, b) |-> i + 1]
  <1>1. /\ Len(s) \in Nat \ {0} /\ t \in Seq(S) /\ Len(t) = Len(s) - 1
        /\ \A i \in 1..Len(t) : t[i] = s[i + 1]
    OBVIOUS
  <1>2. \A i \in About(t, b) : i \in Nat /\ i + 1 \in About(s, b)
    BY <1>1 DEF About
  <1>3. up \in [About(t, b) -> About(s, b)]
    BY <1>2
  <1>4. \A i, j \in About(t, b) : up[i] = up[j] => i = j
    BY <1>2
  <1>5. up \in Injection(About(t, b), About(s, b))
    BY <1>3, <1>4 DEF Injection, IsInjective
  <1> QED
    BY <1>5, AboutFinite, FS_Injection

\* Recording an entry adds at most one mention.
LEMMA RecordAbout ==
    ASSUME NEW S, NEW s \in Seq(S), NEW e \in S, NEW b, Capacity \in Nat \ {0},
           NEW t, t = IF Len(s) < Capacity THEN Append(s, e) ELSE Append(Tail(s), e)
    PROVE  Cardinality(About(t, b)) <= Cardinality(About(s, b)) + Mentions(e, b)
  <1>1. CASE Len(s) < Capacity
    BY <1>1, AppendAbout
  <1>2. CASE ~(Len(s) < Capacity)
    <2>1. s # <<>> /\ Tail(s) \in Seq(S)
      BY <1>2
    <2>2. Cardinality(About(t, b)) <= Cardinality(About(Tail(s), b)) + Mentions(e, b)
      BY <1>2, <2>1, AppendAbout
    <2>3. Cardinality(About(Tail(s), b)) <= Cardinality(About(s, b))
      BY <2>1, TailAbout
    <2>4. /\ Cardinality(About(s, b)) \in Nat /\ Cardinality(About(Tail(s), b)) \in Nat
          /\ Mentions(e, b) \in Nat
      BY <2>1, AboutFinite DEF Mentions
    <2>5. t \in Seq(S)
      BY <1>2, <2>1
    <2>6. Cardinality(About(t, b)) \in Nat
      BY <2>5, AboutFinite
    <2> QED
      BY <2>2, <2>3, <2>4, <2>6
  <1> QED
    BY <1>1, <1>2

\* The access in progress, once counted.
Flight(b) == IF epc \in {"number", "push"} THEN Mentions(entry, b) ELSE 0

\* The one access that the map may have missed.
Missed(b) == IF b = missed THEN 1 ELSE 0

\* The count of an access is raised before its entry is pushed; what a clear
\* makes of the count in between only makes it too high.
Covered ==
    /\ cpc \in {"idle", "sequence"} =>
         \A b \in Blocks : Cardinality(About(Snapshot, b)) + Flight(b) <= map[b] + Missed(b)
    /\ epc = "count" => map[entry.block] <= entry.sequence

\* What the log says of a block, counted with its length.
LEMMA LoggedIsAbout == Inv => \A b : LoggedAccesses(b) = Cardinality(About(Snapshot, b))
  BY SnapshotSlots DEF Inv, Slots, LoggedAccesses, About

\* The empty log mentions nothing.
LEMMA EmptyAbout == \A b : Cardinality(About(<<>>, b)) = 0
  <1>1. \A b : About(<<>>, b) = {}
    BY DEF About
  <1> QED
    BY <1>1, FS_EmptySet

\* Every step keeps the map ahead of the log, but for the missed access.
LEMMA StepCovers ==
    ASSUME Inv, Covered, [Next]_vars
    PROVE  Covered'
  <1>1. /\ Snapshot \in Seq(Entries \cup {NoEntry}) /\ map \in [Blocks -> Nat]
        /\ epc # "idle" => entry \in Entries /\ entry.block \in Blocks /\ entry.sequence \in Nat
    BY SnapshotSlots DEF Inv, Slots, EntryOK, Entries
  <1>2. \A b : /\ Cardinality(About(Snapshot, b)) \in Nat /\ Mentions(entry, b) \in {0, 1}
               /\ Flight(b) \in {0, 1} /\ Missed(b) \in {0, 1}
    BY <1>1, AboutFinite DEF Mentions, Flight, Missed
  <1>3. CASE ReadCount
    <2>1. /\ Snapshot' = Snapshot /\ UNCHANGED <<map, cpc, missed>>
          /\ epc = "idle" /\ epc' = "count"
      BY <1>3 DEF ReadCount, ringVars, clearVars, Snapshot, First
    <2>2. map'[entry'.block] <= entry'.sequence
      BY <1>1, <1>3, <2>1 DEF ReadCount
    <2>3. \A b : Flight(b)' = Flight(b) /\ Missed(b)' = Missed(b)
      BY <2>1 DEF Flight, Missed
    <2> QED
      BY <2>1, <2>2, <2>3 DEF Covered
  <1>4. CASE WriteCount
    <2>1. /\ Snapshot' = Snapshot /\ UNCHANGED <<entry, cpc, missed>>
          /\ epc = "count" /\ epc' = "number"
          /\ map' = [map EXCEPT ![entry.block] = entry.sequence + 1]
      BY <1>4 DEF WriteCount, ringVars, clearVars, Snapshot, First
    <2>2. ASSUME NEW b \in Blocks, cpc \in {"idle", "sequence"}
          PROVE  Cardinality(About(Snapshot, b)) + Mentions(entry, b) <= map'[b] + Missed(b)
      <3>1. /\ Cardinality(About(Snapshot, b)) <= map[b] + Missed(b)
            /\ map[entry.block] <= entry.sequence
        BY <1>1, <1>2, <2>1, <2>2 DEF Covered, Flight
      <3>2. CASE b = entry.block
        <4>1. map'[b] = entry.sequence + 1 /\ Mentions(entry, b) = 1 /\ map[b] \in Nat
          BY <1>1, <2>1, <3>2 DEF Mentions
        <4> QED
          BY <1>1, <1>2, <2>1, <3>1, <3>2, <4>1
      <3>3. CASE b # entry.block
        <4>1. map'[b] = map[b] /\ Mentions(entry, b) = 0 /\ map[b] \in Nat
          BY <1>1, <2>1, <3>3 DEF Mentions
        <4> QED
          BY <1>2, <3>1, <4>1
      <3> QED
        BY <3>2, <3>3
    <2>3. \A b : Flight(b)' = Mentions(entry, b) /\ Missed(b)' = Missed(b)
      BY <2>1 DEF Flight, Missed, Mentions
    <2> QED
      BY <2>1, <2>2, <2>3 DEF Covered
  <1>5. CASE DrawSequence
    <2>1. /\ Snapshot' = Snapshot /\ UNCHANGED <<map, cpc, missed>>
          /\ epc = "number" /\ epc' = "push"
      BY <1>5 DEF DrawSequence, ringVars, clearVars, Snapshot, First
    <2>2. entry'.block = entry.block
      BY <1>1, <1>5 DEF DrawSequence, Entries
    <2>3. \A b : Flight(b)' = Flight(b) /\ Missed(b)' = Missed(b)
      BY <2>1, <2>2 DEF Flight, Missed, Mentions
    <2> QED
      BY <2>1, <2>3 DEF Covered
  <1>6. CASE PushEntry
    <2>1. /\ epc = "push" /\ epc' = "idle" /\ UNCHANGED <<map, cpc, missed>>
          /\ Push(entry) /\ entry \in Entries
      BY <1>1, <1>6 DEF PushEntry, clearVars
    <2>2. Log!Record(entry)
      BY <2>1, PushRecords DEF Inv
    <2>3. \A b : Cardinality(About(Snapshot', b))
                   <= Cardinality(About(Snapshot, b)) + Mentions(entry, b)
      BY <1>1, <2>1, <2>2, RecordAbout, CapacityPositive DEF Log!Record
    <2>4. \A b \in Blocks : Cardinality(About(Snapshot', b)) \in Nat
      <3>1. Inv'
        BY StepRecords
      <3>2. Slots'
        BY <3>1, SnapshotSlots, PTL DEF Inv
      <3> QED
        BY <3>2, AboutFinite DEF Slots
    <2>5. \A b : Flight(b)' = 0 /\ Flight(b) = Mentions(entry, b) /\ Missed(b)' = Missed(b)
      BY <2>1 DEF Flight, Missed
    <2>6. PICK l : l = Snapshot'
      OBVIOUS
    <2>7. ASSUME NEW b \in Blocks, cpc \in {"idle", "sequence"}
          PROVE  Cardinality(About(l, b)) + 0 <= map[b] + Missed(b)
      BY <1>1, <1>2, <2>3, <2>4, <2>5, <2>6, <2>7 DEF Covered
    <2> QED
      BY <2>1, <2>5, <2>6, <2>7 DEF Covered
  <1>7. CASE Start \/ Stop \/ UNCHANGED vars
    <2>1. Snapshot' = Snapshot /\ UNCHANGED <<map, epc, entry, cpc, missed>>
      BY <1>7 DEF Start, Stop, vars, ringVars, clearVars, Snapshot, First
    <2>2. \A b : Flight(b)' = Flight(b) /\ Missed(b)' = Missed(b)
      BY <2>1 DEF Flight, Missed, Mentions
    <2> QED
      BY <2>1, <2>2 DEF Covered
  <1>8. CASE ClearMemoryAccessLog
    <2>1. Clear /\ UNCHANGED <<map, epc, entry, missed, cpc>> /\ cpc = "idle"
      BY <1>8 DEF ClearMemoryAccessLog, clearVars
    <2>2. Snapshot' = <<>>
      BY <2>1, ClearForgets DEF Inv, Log!Forget
    <2>3. \A b : Flight(b)' = Flight(b) /\ Missed(b)' = Missed(b)
      BY <2>1 DEF Flight, Missed, Mentions
    <2>4. ASSUME NEW b \in Blocks
          PROVE  Cardinality(About(<<>>, b)) + Flight(b) <= map[b] + Missed(b)
      <3>1. Cardinality(About(Snapshot, b)) + Flight(b) <= map[b] + Missed(b)
        BY <2>1 DEF Covered
      <3> QED
        BY <1>1, <1>2, <3>1, EmptyAbout
    <2> QED
      BY <2>1, <2>2, <2>3, <2>4 DEF Covered
  <1>9. CASE ClearLog
    <2>1. /\ Clear /\ UNCHANGED <<map, epc, entry>>
          /\ missed' = IF epc \in {"number", "push"} THEN entry.block ELSE NoEntry
      BY <1>9 DEF ClearLog
    <2>2. Snapshot' = <<>>
      BY <2>1, ClearForgets DEF Inv, Log!Forget
    <2>3. PICK m : m = missed'
      OBVIOUS
    <2>4. ASSUME NEW b \in Blocks
          PROVE  Cardinality(About(<<>>, b)) + Flight(b) <= map[b] + (IF b = m THEN 1 ELSE 0)
      <3>1. Flight(b) = 1 => b = m
        BY <2>1, <2>3 DEF Flight, Mentions
      <3> QED
        BY <1>1, <1>2, <3>1, EmptyAbout
    <2>5. \A b : Flight(b)' = Flight(b) /\ Missed(b)' = (IF b = m THEN 1 ELSE 0)
      BY <2>1, <2>3 DEF Flight, Missed, Mentions
    <2> QED
      BY <2>1, <2>2, <2>4, <2>5 DEF Covered
  <1>10. CASE BeginClear \/ ClearMap
    <2>1. cpc' \in {"map", "log"} /\ UNCHANGED <<epc, entry>>
      BY <1>10 DEF BeginClear, ClearMap, NextStep
    <2>2. \A b \in Blocks : map'[b] = map[b] \/ map'[b] = 0
      BY <1>1, <1>10 DEF BeginClear, ClearMap
    <2>3. epc' = "count" => map'[entry'.block] <= entry'.sequence
      BY <1>1, <2>1, <2>2 DEF Covered
    <2> QED
      BY <2>1, <2>3 DEF Covered
  <1>11. CASE ResetSequence
    <2>1. /\ Snapshot' = Snapshot /\ UNCHANGED <<map, epc, entry, missed>>
          /\ cpc = "sequence" /\ cpc' = "idle"
      BY <1>11 DEF ResetSequence, ringVars, Snapshot, First, NextStep
    <2>2. \A b : Flight(b)' = Flight(b) /\ Missed(b)' = Missed(b)
      BY <2>1 DEF Flight, Missed, Mentions
    <2> QED
      BY <2>1, <2>2 DEF Covered
  <1> QED
    BY <1>3, <1>4, <1>5, <1>6, <1>7, <1>8, <1>9, <1>10, <1>11 DEF Next

\* For every capacity and any number of blocks, and with clears at any moment,
\* the counts of runtimeAccessMap_ account for every access in the log but the
\* one that was under way when the log was cleared.
THEOREM MapMisses == Spec => []MapMissesOne
  <1>1. Init => Inv /\ Covered
    <2> SUFFICES ASSUME Init PROVE Inv /\ Covered
      OBVIOUS
    <2>1. Inv /\ Snapshot = <<>>
      BY InitRecords DEF Log!Init
    <2>2. epc = "idle" /\ map = [b \in Blocks |-> 0]
      BY DEF Init
    <2>3. \A b : Flight(b) = 0 /\ Missed(b) \in {0, 1}
      BY <2>2 DEF Flight, Missed
    <2>4. \A b \in Blocks : Cardinality(About(Snapshot, b)) + Flight(b) <= map[b] + Missed(b)
      BY <2>1, <2>2, <2>3, EmptyAbout
    <2> QED
      BY <2>1, <2>2, <2>4 DEF Covered
  <1>2. Inv /\ Covered /\ [Next]_vars => Inv' /\ Covered'
    BY StepRecords, StepCovers
  <1>3. Inv /\ Covered => MapMissesOne
    <2> SUFFICES ASSUME Inv, Covered, cpc \in {"idle", "sequence"}, NEW b \in Blocks
                 PROVE  LoggedAccesses(b) <= map[b] + Missed(b)
      BY DEF MapMissesOne, Missed
    <2>1. /\ Cardinality(About(Snapshot, b)) + Flight(b) <= map[b] + Missed(b)
          /\ LoggedAccesses(b) = Cardinality(About(Snapshot, b))
      BY LoggedIsAbout DEF Covered
    <2>2. /\ Cardinality(About(Snapshot, b)) \in Nat /\ Flight(b) \in Nat
          /\ map[b] \in Nat /\ Missed(b) \in Nat
      BY SnapshotSlots, AboutFinite DEF Inv, Slots, EntryOK, Flight, Missed, Mentions
    <2> QED
      BY <2>1, <2>2
  <1> QED
    BY <1>1, <1>2, <1>3, PTL DEF Spec
=============================================================================
