--------------------------- MODULE EmulatorProofs ----------------------------
(***************************************************************************)
(* Proofs about the emulator's threads (module Emulator) and the ring of   *)
(* sample buffers (module SoundRing), for rings of any size, any limit of  *)
(* frames and any number of callbacks, events and requests.                *)
(***************************************************************************)
EXTENDS Emulator, SequenceTheorems, FiniteSetTheorems, TLAPS

-----------------------------------------------------------------------------
(* The inductive invariant *)

Buffers == 0..(NBuffers - 1)
Resets  == {"reset1", "reset2", "reset3"}
Events  == {Request, Quit, Pause, Key(TRUE), Key(FALSE)}
Shown   == [executed : BOOLEAN, frame : Nat]

\* The values of the variables.
EmTyped ==
    /\ mode \in Modes
    /\ upc \in {"start", "loop", "join", "done"}
    /\ toEngine \in Seq(Events) /\ toUi \subseteq Shown
    /\ epc \in {"wait", "frame", "unpause", "ended"} \cup Resets
    /\ first \in BOOLEAN /\ device \in BOOLEAN /\ pressed \in BOOLEAN /\ held \in BOOLEAN
    /\ left \in 0..FrameSize
    /\ frame \in Nat /\ rendered \in Nat /\ kicks \in Nat

\* The values of the ring's variables.
RingTyped ==
    /\ buffer \in [Buffers -> [1..FrameSize -> Nat]]
    /\ wrbuf \in Buffers /\ rdbuf \in Buffers /\ wrptr \in 0..(FrameSize - 1)
    /\ serial \in Nat /\ heard \in Nat /\ played \in Seq(Nat) /\ starves \in Nat
    /\ overrun \in BOOLEAN /\ raced \in BOOLEAN

\* How far a buffer is ahead of another, and of the one to be played next.
Distance(b, r) == IF b >= r THEN b - r ELSE b - r + NBuffers
Ahead(b)       == Distance(b, rdbuf)

\* The samples that the callback has yet to play.
Unplayed(b, i) ==
    \/ Ahead(b) < Ahead(wrbuf)
    \/ b = wrbuf /\ i <= wrptr

\* The newest sample played.
Newest == IF played = <<>> THEN heard ELSE played[Len(played)]

\* The ring holds its unplayed samples in order, all newer than what was heard.
RingOrder ==
    /\ Newest < serial
    /\ \A b \in Buffers, i \in 1..FrameSize :
          Unplayed(b, i) => Newest < buffer[b][i] /\ buffer[b][i] < serial
    /\ \A b \in Buffers, c \in Buffers, i \in 1..FrameSize, k \in 1..FrameSize :
          /\ Unplayed(b, i) /\ Unplayed(c, k)
          /\ Ahead(b) < Ahead(c) \/ (b = c /\ i < k)
          => buffer[b][i] < buffer[c][k]

SoundInv == InOrder /\ (~overrun /\ ~raced => RingOrder)

\* pause() finds the ring as the callback has never touched it.
ResetInv ==
    /\ epc = "unpause" => first
    /\ first => ~device
    /\ device => mode = "sound"
    /\ epc # "frame" => left = 0
    /\ left > 0 => mode = "sound"
    /\ epc \in {"reset2", "reset3"} => wrptr = 0
    /\ ~raced /\ (~device \/ epc \in Resets) => rdbuf = 0

\* The requests for a frame in the queue of the engine.
Frames(q)   == {i \in 1..Len(q) : q[i].type = "frame"}
Requests(q) == Cardinality(Frames(q))
Wants(e)    == IF e.type = "frame" THEN 1 ELSE 0

\* Buffers that are complete, requested or under way, and what paid for them:
\* a callback that found the ring empty, or an exposed window.
Filling == IF wrptr + left >= FrameSize THEN 1 ELSE 0
Debt    == Ahead(wrbuf) + Requests(toEngine) + Filling
Paid    == starves + kicks
OwedInv ==
    /\ mode = "sound" /\ ~raced => IF overrun THEN Paid >= NBuffers ELSE Debt <= Paid
    /\ mode # "sound" => ~overrun

\* In a test run one frame is under way: wanted at the start, requested,
\* being executed, or waiting to be shown.
Starting  == IF upc = "start" THEN 1 ELSE 0
Executing == IF epc = "frame" THEN 1 ELSE 0
Waiting   == IF \E ev \in toUi : ev.executed THEN 1 ELSE 0
Tokens    == Starting + Requests(toEngine) + Executing + Waiting
SpinInv ==
    mode = "spin" =>
      /\ Tokens <= 1
      /\ frame \in {rendered, rendered + 1}
      /\ upc = "start" \/ Requests(toEngine) > 0 => frame = rendered
      /\ \A ev \in toUi : ev.executed => ev.frame = frame

EmInv == EmTyped /\ RingTyped /\ SoundInv /\ ResetInv /\ OwedInv /\ SpinInv

\* The last key event in the queue tells the state of the key; without one the
\* keyboard matrix has it.
KeysTell(q, h, p) ==
    /\ (\A i \in 1..Len(q) : q[i].type # "key") => h = p
    /\ \A i \in 1..Len(q) :
          q[i].type = "key" /\ (\A j \in (i + 1)..Len(q) : q[j].type # "key")
             => q[i].down = p
KeysUnderWay == KeysTell(toEngine, held, pressed)

-----------------------------------------------------------------------------
(* Requests in the queue *)

\* There are finitely many.
LEMMA RequestsTyped ==
    ASSUME NEW q \in Seq(Events)
    PROVE  IsFiniteSet(Frames(q)) /\ Requests(q) \in Nat
<1>1. IsFiniteSet(1..Len(q))
  BY FS_Interval
<1>2. Frames(q) \in SUBSET (1..Len(q))
  BY DEF Frames
<1> QED
  BY <1>1, <1>2, FS_Subset, FS_CardinalityType DEF Requests

LEMMA EmptyQueue == Requests(<<>>) = 0
<1>1. Frames(<<>>) = {}
  BY DEF Frames
<1> QED
  BY <1>1, FS_EmptySet DEF Requests

\* An event at the end counts if it is a request.
LEMMA RequestsAppend ==
    ASSUME NEW q \in Seq(Events), NEW e \in Events
    PROVE  /\ Append(q, e) \in Seq(Events)
           /\ Requests(Append(q, e)) = Requests(q) + Wants(e)
<1> DEFINE n == Len(q) + 1
           t == Append(q, e)
<1>1. /\ Len(q) \in Nat /\ t \in Seq(Events) /\ Len(t) = n /\ t[n] = e
      /\ \A i \in 1..Len(q) : t[i] = q[i]
  OBVIOUS
<1>2. IsFiniteSet(Frames(q)) /\ Requests(q) \in Nat
  BY RequestsTyped
<1>3. CASE e.type = "frame"
  <2>1. Frames(t) = Frames(q) \cup {n}
    BY <1>1, <1>3 DEF Frames
  <2>2. n \notin Frames(q)
    BY <1>1 DEF Frames
  <2>3. Cardinality(Frames(q) \cup {n}) = Cardinality(Frames(q)) + 1
    BY <1>2, <2>2, FS_AddElement
  <2> QED
    BY <1>1, <1>3, <2>1, <2>3 DEF Wants, Requests
<1>4. CASE e.type # "frame"
  <2>1. Frames(t) = Frames(q)
    BY <1>1, <1>4 DEF Frames
  <2> QED
    BY <1>1, <1>2, <1>4, <2>1 DEF Wants, Requests
<1> QED
  BY <1>3, <1>4

\* The event that is taken counts no more.
LEMMA RequestsTail ==
    ASSUME NEW q \in Seq(Events), q # <<>>
    PROVE  /\ Tail(q) \in Seq(Events) /\ Head(q) \in Events
           /\ Requests(Tail(q)) + Wants(Head(q)) <= Requests(q)
<1> DEFINE t    == Tail(q)
           rest == Frames(q) \ {1}
           up   == [i \in Frames(t) |-> i + 1]
<1>1. /\ Len(q) \in Nat \ {0} /\ t \in Seq(Events) /\ Len(t) = Len(q) - 1
      /\ \A i \in 1..Len(t) : t[i] = q[i + 1]
  OBVIOUS
<1>2. Head(q) = q[1] /\ Head(q) \in Events
  OBVIOUS
<1>3. \A i \in Frames(t) : i \in Nat \ {0} /\ i + 1 \in rest
  BY <1>1 DEF Frames
<1>4. up \in [Frames(t) -> rest]
  BY <1>3
<1>5. \A i, j \in Frames(t) : up[i] = up[j] => i = j
  BY <1>3
<1>6. up \in Injection(Frames(t), rest)
  BY <1>4, <1>5 DEF Injection, IsInjective
<1>7. IsFiniteSet(Frames(q)) /\ Requests(q) \in Nat /\ Requests(t) \in Nat
  BY <1>1, RequestsTyped
<1>8. IsFiniteSet(rest) /\ Cardinality(rest) \in Nat
  BY <1>7, FS_Subset, FS_CardinalityType
<1>9. Requests(t) <= Cardinality(rest)
  BY <1>6, <1>8, FS_Injection DEF Requests
<1>10. Cardinality(rest) + Wants(Head(q)) <= Requests(q)
  <2>1. CASE q[1].type = "frame"
    <3>1. 1 \in Frames(q)
      BY <1>1, <2>1 DEF Frames
    <3>2. Cardinality(rest) = Cardinality(Frames(q)) - 1
      BY <1>7, <3>1, FS_RemoveElement
    <3> QED
      BY <1>2, <1>7, <2>1, <3>2 DEF Wants, Requests
  <2>2. CASE q[1].type # "frame"
    <3>1. rest = Frames(q)
      BY <2>2 DEF Frames
    <3>2. Wants(Head(q)) = 0
      BY <1>2, <2>2 DEF Wants
    <3>3. Cardinality(rest) = Requests(q)
      BY <3>1, Zenon DEF Requests
    <3> QED
      BY <1>7, <3>2, <3>3
  <2> QED
    BY <2>1, <2>2
<1>11. Wants(Head(q)) \in {0, 1}
  BY DEF Wants
<1>12. Requests(t) + Wants(Head(q)) <= Requests(q)
  BY <1>7, <1>8, <1>9, <1>10, <1>11
<1> QED
  BY <1>1, <1>2, <1>12

-----------------------------------------------------------------------------
(* Distances in the ring *)

LEMMA DistanceTyped ==
    ASSUME NEW b \in Buffers, NEW r \in Buffers
    PROVE  /\ Distance(b, r) \in 0..(NBuffers - 1) /\ Distance(r, r) = 0
           /\ Distance(b, r) \in Int
<1>1. NBuffers \in Nat /\ b \in Nat /\ r \in Nat /\ b + 1 <= NBuffers /\ r + 1 <= NBuffers
  BY SoundRingAssumption DEF Buffers
<1> QED
  BY <1>1 DEF Distance

\* Two buffers are not at the same distance.
LEMMA DistanceTells ==
    ASSUME NEW b \in Buffers, NEW c \in Buffers, NEW r \in Buffers,
           Distance(b, r) = Distance(c, r)
    PROVE  b = c
<1>1. /\ NBuffers \in Nat /\ b \in Nat /\ c \in Nat /\ r \in Nat
      /\ b + 1 <= NBuffers /\ c + 1 <= NBuffers /\ r + 1 <= NBuffers
  BY SoundRingAssumption DEF Buffers
<1> QED
  BY <1>1 DEF Distance

\* The next buffer.
LEMMA NextBuffer ==
    ASSUME NEW b \in Buffers
    PROVE  /\ (b + 1) % NBuffers = IF b + 1 = NBuffers THEN 0 ELSE b + 1
           /\ (b + 1) % NBuffers \in Buffers
<1>1. (b + 1) % NBuffers = IF b + 1 = NBuffers THEN 0 ELSE b + 1
  BY SoundRingAssumption, SMT DEF Buffers
<1>2. (IF b + 1 = NBuffers THEN 0 ELSE b + 1) \in Buffers
  BY SoundRingAssumption DEF Buffers
<1> QED
  BY <1>1, <1>2

\* The writer's next buffer is one farther ahead, unless it is the reader's.
LEMMA WriterMoves ==
    ASSUME NEW b \in Buffers, NEW r \in Buffers, NEW n, n = (b + 1) % NBuffers
    PROVE  /\ n = r => Distance(b, r) + 1 = NBuffers
           /\ n # r => Distance(n, r) = Distance(b, r) + 1
<1>1. NBuffers \in Nat /\ b \in Nat /\ r \in Nat /\ b + 1 <= NBuffers /\ r + 1 <= NBuffers
  BY SoundRingAssumption DEF Buffers
<1>2. n = IF b + 1 = NBuffers THEN 0 ELSE b + 1
  BY NextBuffer
<1>3. CASE b + 1 = NBuffers
  <2>1. n = 0
    BY <1>2, <1>3
  <2>2. Distance(b, r) = b - r
    BY <1>1, <1>3 DEF Distance
  <2>3. r # 0 => Distance(n, r) = NBuffers - r
    BY <1>1, <2>1 DEF Distance
  <2> QED
    BY <1>1, <1>3, <2>1, <2>2, <2>3
<1>4. CASE b + 1 # NBuffers
  <2>1. n = b + 1
    BY <1>2, <1>4
  <2> QED
    BY <1>1, <2>1 DEF Distance
<1> QED
  BY <1>3, <1>4

\* When the reader moves on, the other buffers come nearer, and the one that
\* was played is the farthest.
LEMMA ReaderMoves ==
    ASSUME NEW b \in Buffers, NEW r \in Buffers, NEW n, n = (r + 1) % NBuffers
    PROVE  /\ b # r => Distance(b, n) = Distance(b, r) - 1
           /\ Distance(r, n) = NBuffers - 1
<1>1. NBuffers \in Nat /\ b \in Nat /\ r \in Nat /\ b + 1 <= NBuffers /\ r + 1 <= NBuffers
  BY SoundRingAssumption DEF Buffers
<1>2. n = IF r + 1 = NBuffers THEN 0 ELSE r + 1
  BY NextBuffer
<1>3. CASE r + 1 = NBuffers
  <2>1. n = 0
    BY <1>2, <1>3
  <2>2. Distance(b, n) = b /\ Distance(r, n) = r
    BY <1>1, <2>1 DEF Distance
  <2>3. b # r => Distance(b, r) = b - r + NBuffers
    BY <1>1, <1>3 DEF Distance
  <2> QED
    BY <1>1, <1>3, <2>2, <2>3
<1>4. CASE r + 1 # NBuffers
  <2>1. n = r + 1
    BY <1>2, <1>4
  <2> QED
    BY <1>1, <2>1 DEF Distance
<1> QED
  BY <1>3, <1>4

-----------------------------------------------------------------------------
(* The ring *)

\* The typed values of the ring, for arithmetic.
LEMMA RingValues ==
    ASSUME RingTyped
    PROVE  /\ wrbuf \in Buffers /\ rdbuf \in Buffers
           /\ wrptr \in Nat /\ wrptr + 1 \in 1..FrameSize /\ wrptr < FrameSize
           /\ serial \in Nat /\ heard \in Nat /\ starves \in Nat /\ Newest \in Nat
           /\ buffer \in [Buffers -> [1..FrameSize -> Nat]]
           /\ \A b \in Buffers, i \in 1..FrameSize : buffer[b][i] \in Nat
           /\ \A b \in Buffers : Ahead(b) \in Int /\ Ahead(b) \in 0..(NBuffers - 1)
           /\ Ahead(rdbuf) = 0
           /\ NBuffers \in Nat \ {0} /\ FrameSize \in Nat \ {0}
<1> USE SoundRingAssumption
<1>1. /\ wrbuf \in Buffers /\ rdbuf \in Buffers /\ heard \in Nat /\ starves \in Nat
      /\ wrptr \in 0..(FrameSize - 1) /\ serial \in Nat /\ played \in Seq(Nat)
      /\ buffer \in [Buffers -> [1..FrameSize -> Nat]]
  BY DEF RingTyped
<1>2. played # <<>> => Len(played) \in 1..Len(played)
  BY <1>1
<1>3. Newest \in Nat
  BY <1>1, <1>2 DEF Newest
<1>4. \A b \in Buffers : Ahead(b) \in Int /\ Ahead(b) \in 0..(NBuffers - 1)
  BY <1>1, DistanceTyped DEF Ahead
<1>5. Ahead(rdbuf) = 0
  BY <1>1, DistanceTyped DEF Ahead
<1>6. wrptr \in Nat /\ wrptr + 1 \in 1..FrameSize /\ wrptr < FrameSize
  BY <1>1
<1> QED
  BY <1>1, <1>3, <1>4, <1>5, <1>6

\* What sample() does to the distances and to the samples still to be played.
LEMMA SampleMoves ==
    ASSUME RingTyped, Sample
    PROVE  /\ RingTyped'
           /\ \A b \in Buffers : Ahead(b)' = Ahead(b)
           /\ \A b \in Buffers, i \in 1..FrameSize :
                 buffer'[b][i] = IF b = wrbuf /\ i = wrptr + 1 THEN serial ELSE buffer[b][i]
           /\ wrptr + 1 < FrameSize =>
                 wrptr' = wrptr + 1 /\ wrbuf' = wrbuf /\ overrun' = overrun
           /\ wrptr + 1 = FrameSize =>
                 /\ wrptr' = 0
                 /\ wrbuf' = rdbuf => overrun' /\ Ahead(wrbuf) + 1 = NBuffers
                 /\ wrbuf' # rdbuf => overrun' = overrun /\ Ahead(wrbuf)' = Ahead(wrbuf) + 1
<1> USE SoundRingAssumption
<1>1. /\ wrptr + 1 \in 1..FrameSize /\ wrbuf \in Buffers /\ rdbuf \in Buffers
      /\ buffer \in [Buffers -> [1..FrameSize -> Nat]] /\ serial \in Nat
      /\ NBuffers \in Nat \ {0}
  BY RingValues
<1>2. \A b \in Buffers : Ahead(b)' = Ahead(b)
  BY DEF Sample, Ahead
<1>3. /\ buffer' \in [Buffers -> [1..FrameSize -> Nat]]
      /\ \A b \in Buffers, i \in 1..FrameSize :
            buffer'[b][i] = IF b = wrbuf /\ i = wrptr + 1 THEN serial ELSE buffer[b][i]
  BY <1>1 DEF Sample
<1>4. ASSUME wrptr + 1 < FrameSize
      PROVE  wrptr' = wrptr + 1 /\ wrbuf' = wrbuf /\ overrun' = overrun
  <2>1. ~(wrptr + 1 >= FrameSize)
    BY <1>1, <1>4
  <2>2. wrptr' = wrptr + 1 /\ wrbuf' = wrbuf
    BY <2>1 DEF Sample
  <2>3. overrun' = overrun
    BY <2>1, Zenon DEF Sample, RingTyped
  <2> QED
    BY <2>2, <2>3
<1>5. ASSUME wrptr + 1 = FrameSize
      PROVE  /\ wrptr' = 0 /\ wrbuf' \in Buffers
             /\ wrbuf' = rdbuf => overrun' /\ Ahead(wrbuf) + 1 = NBuffers
             /\ wrbuf' # rdbuf => overrun' = overrun /\ Ahead(wrbuf)' = Ahead(wrbuf) + 1
  <2>1. wrptr + 1 >= FrameSize
    BY <1>5
  <2>2. wrptr' = 0 /\ wrbuf' = (wrbuf + 1) % NBuffers /\ rdbuf' = rdbuf
    BY <2>1 DEF Sample
  <2>3. wrbuf' \in Buffers
    BY <1>1, <2>2, NextBuffer
  <2>4. wrbuf' = rdbuf => overrun'
    BY <2>1, Zenon DEF Sample
  <2>5. wrbuf' # rdbuf => overrun' = overrun
    BY <2>1, Zenon DEF Sample, RingTyped
  <2>6. /\ wrbuf' = rdbuf => Distance(wrbuf, rdbuf) + 1 = NBuffers
        /\ wrbuf' # rdbuf => Distance(wrbuf', rdbuf) = Distance(wrbuf, rdbuf) + 1
    BY <1>1, <2>2, WriterMoves
  <2>7. Ahead(wrbuf) = Distance(wrbuf, rdbuf) /\ Ahead(wrbuf)' = Distance(wrbuf', rdbuf)
    BY <2>2 DEF Ahead
  <2> QED
    BY <2>2, <2>3, <2>4, <2>5, <2>6, <2>7
<1>6. wrptr + 1 < FrameSize \/ wrptr + 1 = FrameSize
  BY <1>1
<1>7. RingTyped'
  <2>1. wrptr' \in 0..(FrameSize - 1) /\ wrbuf' \in Buffers
    BY <1>1, <1>4, <1>5, <1>6
  <2>2. serial' \in Nat
    BY <1>1 DEF Sample
  <2>3. overrun' \in BOOLEAN
    BY Zenon DEF Sample, RingTyped
  <2>4. rdbuf' = rdbuf /\ heard' = heard /\ played' = played /\ starves' = starves /\ raced' = raced
    BY Zenon DEF Sample
  <2> QED
    BY <1>3, <2>1, <2>2, <2>3, <2>4, Zenon DEF RingTyped
<1> QED
  BY <1>2, <1>3, <1>4, <1>5, <1>7, Zenon

\* Only the new sample is added to those that are still to be played.
LEMMA SampleAdds ==
    ASSUME RingTyped, Sample, ~overrun',
           NEW b \in Buffers, NEW i \in 1..FrameSize, Unplayed(b, i)'
    PROVE  Unplayed(b, i) \/ (b = wrbuf /\ i = wrptr + 1)
<1>1. /\ wrbuf \in Buffers /\ wrptr \in Nat /\ wrptr + 1 \in 1..FrameSize
      /\ rdbuf \in Buffers /\ FrameSize \in Nat
      /\ \A c \in Buffers : Ahead(c) \in Int
  BY RingValues
<1>2. Ahead(b)' < Ahead(wrbuf)' \/ (b = wrbuf' /\ i <= wrptr')
  BY Zenon DEF Unplayed
<1>3. Ahead(b)' = Ahead(b)
  BY SampleMoves
<1>4. CASE wrptr + 1 < FrameSize
  <2>1. wrptr' = wrptr + 1 /\ wrbuf' = wrbuf
    BY <1>4, SampleMoves, Zenon
  <2>2. Ahead(wrbuf)' = Ahead(wrbuf)
    BY <2>1 DEF Ahead, Sample
  <2>3. i <= wrptr + 1 => i <= wrptr \/ i = wrptr + 1
    BY <1>1
  <2>4. Ahead(b) < Ahead(wrbuf) \/ (b = wrbuf /\ i <= wrptr + 1)
    BY <1>2, <1>3, <2>1, <2>2
  <2> QED
    BY <2>3, <2>4, Zenon DEF Unplayed
<1>5. CASE wrptr + 1 = FrameSize
  <2>1. wrptr' = 0 /\ Ahead(wrbuf)' = Ahead(wrbuf) + 1
    BY <1>5, SampleMoves, Zenon
  <2>2. ~(i <= wrptr')
    BY <2>1
  <2>3. Ahead(b) < Ahead(wrbuf) + 1
    BY <1>2, <1>3, <2>1, <2>2
  <2>4. Ahead(b) < Ahead(wrbuf) \/ Ahead(b) = Ahead(wrbuf)
    BY <1>1, <2>3
  <2>5. Ahead(b) = Ahead(wrbuf) => b = wrbuf
    BY <1>1, DistanceTells DEF Ahead
  <2>6. i <= wrptr \/ i = wrptr + 1
    BY <1>1, <1>5
  <2> QED
    BY <2>4, <2>5, <2>6, Zenon DEF Unplayed
<1> QED
  BY <1>1, <1>4, <1>5

\* sample() adds the newest sample behind all others.
LEMMA SampleOrder ==
    ASSUME RingTyped, SoundInv, Sample
    PROVE  SoundInv'
<1>1. /\ heard' = heard /\ played' = played /\ raced' = raced /\ serial' = serial + 1
      /\ serial \in Nat /\ wrptr + 1 \in 1..FrameSize /\ wrbuf \in Buffers
      /\ wrptr \in Nat /\ Newest \in Nat
      /\ \A b \in Buffers, i \in 1..FrameSize : buffer[b][i] \in Nat
      /\ \A b \in Buffers : Ahead(b) \in Int
  BY RingValues DEF Sample
<1>2. ~overrun' => ~overrun
  BY Zenon DEF Sample
<1>3. InOrder'
  BY <1>1, <1>2 DEF SoundInv, InOrder
<1>4. ASSUME ~overrun', ~raced' PROVE RingOrder'
  <2>1. RingOrder
    BY <1>1, <1>2, <1>4, Zenon DEF SoundInv
  <2>2. /\ \A b \in Buffers : Ahead(b)' = Ahead(b)
        /\ \A b \in Buffers, i \in 1..FrameSize :
              buffer'[b][i] = IF b = wrbuf /\ i = wrptr + 1 THEN serial ELSE buffer[b][i]
    BY SampleMoves, Zenon
  <2>3. \A b \in Buffers, i \in 1..FrameSize :
           Unplayed(b, i)' => Unplayed(b, i) \/ (b = wrbuf /\ i = wrptr + 1)
    BY <1>4, SampleAdds, Zenon
  <2>4. Newest' = Newest
    BY <1>1 DEF Newest
  <2>5. Newest < serial
    BY <2>1 DEF RingOrder
  <2>6. \A b \in Buffers, i \in 1..FrameSize :
           Unplayed(b, i)' => Newest < buffer'[b][i] /\ buffer'[b][i] < serial + 1
    BY <1>1, <2>1, <2>2, <2>3, <2>5 DEF RingOrder
  <2>7. ASSUME NEW b \in Buffers, NEW c \in Buffers, NEW i \in 1..FrameSize,
               NEW k \in 1..FrameSize, Unplayed(b, i)', Unplayed(c, k)',
               Ahead(b)' < Ahead(c)' \/ (b = c /\ i < k)
        PROVE  buffer'[b][i] < buffer'[c][k]
    <3>1. Ahead(b) < Ahead(c) \/ (b = c /\ i < k)
      BY <2>2, <2>7
    <3>2. CASE c = wrbuf /\ k = wrptr + 1
      <4>1. ~(b = wrbuf /\ i = wrptr + 1)
        BY <1>1, <3>1, <3>2
      <4>2. Unplayed(b, i)
        BY <2>3, <2>7, <4>1, Zenon
      <4> QED
        BY <2>1, <2>2, <3>2, <4>1, <4>2 DEF RingOrder
    <3>3. CASE ~(c = wrbuf /\ k = wrptr + 1)
      <4>1. Unplayed(c, k)
        BY <2>3, <2>7, <3>3, Zenon
      <4>2. ~(b = wrbuf /\ i = wrptr + 1)
        BY <1>1, <3>1, <4>1 DEF Unplayed
      <4>3. Unplayed(b, i)
        BY <2>3, <2>7, <4>2, Zenon
      <4> QED
        BY <2>1, <2>2, <3>1, <3>3, <4>1, <4>2, <4>3 DEF RingOrder
    <3> QED
      BY <3>2, <3>3
  <2>8. Newest' < serial'
    BY <1>1, <2>4, <2>5
  <2> QED
    BY <1>1, <2>4, <2>6, <2>7, <2>8, Zenon DEF RingOrder
<1> QED
  BY <1>3, <1>4, Zenon DEF SoundInv

\* A row of the ring is a sequence.
LEMMA RowSequence ==
    ASSUME NEW s \in [1..FrameSize -> Nat]
    PROVE  s \in Seq(Nat) /\ Len(s) = FrameSize
<1>1. FrameSize \in Nat
  BY SoundRingAssumption
<1>2. s \in Seq(Nat)
  BY <1>1, SeqDef
<1>3. Len(s) \in Nat /\ DOMAIN s = 1..Len(s)
  BY <1>2, LenProperties
<1>4. 1..Len(s) = 1..FrameSize
  BY <1>3
<1> QED
  BY <1>1, <1>2, <1>3, <1>4

\* The beginning of a row.
LEMMA SubPrefix ==
    ASSUME NEW f \in [Buffers -> [1..FrameSize -> Nat]], NEW b \in Buffers,
           NEW n \in Nat, n < FrameSize
    PROVE  /\ SubSeq(f[b], 1, n) \in Seq(Nat) /\ Len(SubSeq(f[b], 1, n)) = n
           /\ \A i \in 1..n : SubSeq(f[b], 1, n)[i] = f[b][i]
<1>1. f[b] \in Seq(Nat) /\ Len(f[b]) = FrameSize /\ FrameSize \in Nat
  BY RowSequence, SoundRingAssumption
<1>2. \A i \in 1..n : i \in 1..Len(f[b])
  BY <1>1
<1>3. /\ SubSeq(f[b], 1, n) \in Seq(Nat)
      /\ Len(SubSeq(f[b], 1, n)) = IF 1 <= n THEN n - 1 + 1 ELSE 0
      /\ \A i \in 1..(n - 1 + 1) : SubSeq(f[b], 1, n)[i] = f[b][1 + i - 1]
  BY <1>1, <1>2, SubSeqProperties
<1> QED
  BY <1>1, <1>3

\* A step that only takes samples away, and leaves the order of the others,
\* keeps the ring in order.
LEMMA FewerUnplayed ==
    ASSUME RingTyped, RingOrder, buffer' = buffer, serial' = serial, Newest' < serial,
           \A b \in Buffers, i \in 1..FrameSize :
              Unplayed(b, i)' => Unplayed(b, i) /\ Newest' < buffer[b][i],
           \A b \in Buffers, c \in Buffers, i \in 1..FrameSize, k \in 1..FrameSize :
              Unplayed(b, i)' /\ Unplayed(c, k)' /\ Ahead(b)' < Ahead(c)'
                 => Ahead(b) < Ahead(c)
    PROVE  RingOrder'
<1>1. Newest' < serial'
  OBVIOUS
<1>2. \A b \in Buffers, i \in 1..FrameSize :
         Unplayed(b, i)' => Newest' < buffer'[b][i] /\ buffer'[b][i] < serial'
  BY DEF RingOrder
<1>3. \A b \in Buffers, c \in Buffers, i \in 1..FrameSize, k \in 1..FrameSize :
         /\ Unplayed(b, i)' /\ Unplayed(c, k)'
         /\ Ahead(b)' < Ahead(c)' \/ (b = c /\ i < k)
         => buffer'[b][i] < buffer'[c][k]
  BY Zenon DEF RingOrder
<1> QED
  BY <1>1, <1>2, <1>3, Zenon DEF RingOrder

\* A played buffer was the oldest.
LEMMA PlayOrder ==
    ASSUME RingTyped, SoundInv, Play, heard' = Newest, ~raced' => ~raced,
           buffer' = buffer, wrbuf' = wrbuf, serial' = serial, overrun' = overrun
    PROVE  SoundInv'
<1> SUFFICES ASSUME ~overrun', ~raced'
             PROVE  InOrder' /\ RingOrder'
  BY Zenon DEF SoundInv, InOrder
<1>1. /\ wrbuf \in Buffers /\ rdbuf \in Buffers /\ wrptr \in Nat
      /\ Newest \in Nat /\ buffer \in [Buffers -> [1..FrameSize -> Nat]]
      /\ \A b \in Buffers, i \in 1..FrameSize : buffer[b][i] \in Nat
      /\ \A b \in Buffers : Ahead(b) \in Int /\ Ahead(b) \in 0..(NBuffers - 1)
      /\ Ahead(rdbuf) = 0 /\ NBuffers \in Nat /\ FrameSize \in Nat \ {0}
  BY RingValues
<1>2. RingOrder
  BY Zenon DEF SoundInv
<1>3. /\ wrbuf # rdbuf /\ played' = buffer[rdbuf]
      /\ rdbuf' = (rdbuf + 1) % NBuffers /\ wrptr' = wrptr
  BY DEF Play
<1>4. Ahead(wrbuf) # 0
  BY <1>1, <1>3, DistanceTells DEF Ahead
<1>5. \A i \in 1..FrameSize : Unplayed(rdbuf, i)
  BY <1>1, <1>4 DEF Unplayed
<1>6. played' \in Seq(Nat) /\ Len(played') = FrameSize /\ played' # <<>>
  <2>1. buffer[rdbuf] \in [1..FrameSize -> Nat]
    BY <1>1
  <2>2. played' \in Seq(Nat) /\ Len(played') = FrameSize
    BY <1>3, <2>1, RowSequence
  <2> QED
    BY <1>1, <2>2
<1>7. Newest' = buffer[rdbuf][FrameSize]
  BY <1>3, <1>6 DEF Newest
<1>8. InOrder'
  <2>1. \A i \in 1..FrameSize : Newest < buffer[rdbuf][i]
    BY <1>1, <1>2, <1>5 DEF RingOrder
  <2>2. \A i \in 1..FrameSize, k \in 1..FrameSize :
           i < k => buffer[rdbuf][i] < buffer[rdbuf][k]
    BY <1>1, <1>2, <1>5 DEF RingOrder
  <2>3. \A i \in 1..Len(played') : played'[i] > heard'
    BY <1>1, <1>3, <1>6, <2>1
  <2>4. \A i \in 1..(Len(played') - 1) : played'[i] < played'[i + 1]
    BY <1>1, <1>3, <1>6, <2>2
  <2> QED
    BY <2>3, <2>4, Zenon DEF InOrder
<1>9. /\ \A b \in Buffers : b # rdbuf => Ahead(b)' = Ahead(b) - 1
      /\ Ahead(wrbuf)' = Ahead(wrbuf) - 1
      /\ \A b \in Buffers : b = rdbuf => Ahead(b)' = NBuffers - 1
  <2>1. \A b \in Buffers : b # rdbuf => Distance(b, rdbuf') = Distance(b, rdbuf) - 1
    BY <1>1, <1>3, ReaderMoves
  <2>2. Distance(rdbuf, rdbuf') = NBuffers - 1
    BY <1>1, <1>3, ReaderMoves
  <2>3. Ahead(wrbuf)' = Distance(wrbuf, rdbuf')
    BY DEF Ahead
  <2> QED
    BY <1>1, <1>3, <2>1, <2>2, <2>3 DEF Ahead
<1>10. ASSUME NEW b \in Buffers, NEW i \in 1..FrameSize, Unplayed(b, i)'
       PROVE  Unplayed(b, i) /\ b # rdbuf
  <2>1. Ahead(b)' < Ahead(wrbuf)' \/ (b = wrbuf /\ i <= wrptr)
    BY <1>3, <1>10, Zenon DEF Unplayed
  <2>2. b # rdbuf
    BY <1>1, <1>3, <1>9, <2>1
  <2>3. Ahead(b)' < Ahead(wrbuf)' => Ahead(b) < Ahead(wrbuf)
    BY <1>1, <1>9, <2>2
  <2> QED
    BY <2>1, <2>2, <2>3, Zenon DEF Unplayed
<1>11. ASSUME NEW b \in Buffers, NEW i \in 1..FrameSize, Unplayed(b, i)'
       PROVE  Unplayed(b, i) /\ Newest' < buffer[b][i]
  <2>1. Unplayed(b, i) /\ b # rdbuf
    BY <1>10, <1>11
  <2>2. Ahead(b) # 0
    BY <1>1, <2>1, DistanceTells DEF Ahead
  <2>3. Ahead(rdbuf) < Ahead(b)
    BY <1>1, <2>2
  <2>4. FrameSize \in 1..FrameSize
    BY <1>1
  <2>5. buffer[rdbuf][FrameSize] < buffer[b][i]
    BY <1>1, <1>2, <1>5, <2>1, <2>3, <2>4, Zenon DEF RingOrder
  <2> QED
    BY <1>7, <2>1, <2>5
<1>12. ASSUME NEW b \in Buffers, NEW c \in Buffers, NEW i \in 1..FrameSize,
              NEW k \in 1..FrameSize, Unplayed(b, i)', Unplayed(c, k)', Ahead(b)' < Ahead(c)'
       PROVE  Ahead(b) < Ahead(c)
  <2>1. b # rdbuf /\ c # rdbuf
    BY <1>10, <1>12
  <2> QED
    BY <1>1, <1>9, <1>12, <2>1
<1>13. Newest' < serial
  <2>1. FrameSize \in 1..FrameSize
    BY <1>1
  <2> QED
    BY <1>1, <1>2, <1>5, <1>7, <2>1 DEF RingOrder
<1>14. RingOrder'
  BY <1>2, <1>11, <1>12, <1>13, FewerUnplayed, Zenon
<1> QED
  BY <1>8, <1>14

\* What is played of an incomplete buffer leaves nothing.
LEMMA StarveOrder ==
    ASSUME RingTyped, SoundInv, Starve, heard' = Newest, ~raced' => ~raced,
           buffer' = buffer, wrbuf' = wrbuf, serial' = serial, overrun' = overrun
    PROVE  SoundInv'
<1> SUFFICES ASSUME ~overrun', ~raced'
             PROVE  InOrder' /\ RingOrder'
  BY Zenon DEF SoundInv, InOrder
<1>1. /\ wrbuf \in Buffers /\ rdbuf \in Buffers /\ wrptr \in Nat /\ wrptr < FrameSize
      /\ Newest \in Nat /\ buffer \in [Buffers -> [1..FrameSize -> Nat]]
      /\ \A b \in Buffers, i \in 1..FrameSize : buffer[b][i] \in Nat
      /\ \A b \in Buffers : Ahead(b) \in Int /\ Ahead(b) \in 0..(NBuffers - 1)
      /\ Ahead(rdbuf) = 0 /\ NBuffers \in Nat /\ FrameSize \in Nat \ {0}
  BY RingValues
<1>2. RingOrder
  BY Zenon DEF SoundInv
<1>3. /\ wrbuf = rdbuf /\ played' = SubSeq(buffer[rdbuf], 1, wrptr)
      /\ rdbuf' = rdbuf /\ wrptr' = 0
  BY DEF Starve
<1>4. /\ played' \in Seq(Nat) /\ Len(played') = wrptr
      /\ \A i \in 1..wrptr : played'[i] = buffer[rdbuf][i]
  BY <1>1, <1>3, SubPrefix
<1>5. \A i \in 1..wrptr : i \in 1..FrameSize /\ Unplayed(rdbuf, i)
  BY <1>1, <1>3 DEF Unplayed
<1>6. \A i \in 1..wrptr : Newest < buffer[rdbuf][i] /\ buffer[rdbuf][i] < serial
  BY <1>1, <1>2, <1>5 DEF RingOrder
<1>7. InOrder'
  <2>1. \A i \in 1..wrptr, k \in 1..wrptr : i < k => buffer[rdbuf][i] < buffer[rdbuf][k]
    BY <1>1, <1>2, <1>5 DEF RingOrder
  <2>2. \A i \in 1..Len(played') : played'[i] > heard'
    BY <1>1, <1>4, <1>6
  <2>3. ASSUME NEW i \in 1..(Len(played') - 1) PROVE played'[i] < played'[i + 1]
    <3>1. i \in 1..wrptr /\ i + 1 \in 1..wrptr /\ i < i + 1
      BY <1>1, <1>4
    <3>2. played'[i] = buffer[rdbuf][i] /\ played'[i + 1] = buffer[rdbuf][i + 1]
      BY <1>4, <3>1, Zenon
    <3> QED
      BY <2>1, <3>1, <3>2
  <2> QED
    BY <2>2, <2>3, Zenon DEF InOrder
<1>8. Newest' < serial
  <2>1. CASE wrptr = 0
    <3>1. Newest' = Newest
      BY <1>4, <2>1 DEF Newest
    <3> QED
      BY <1>2, <3>1 DEF RingOrder
  <2>2. CASE wrptr # 0
    <3>1. wrptr \in 1..wrptr /\ played' # <<>>
      BY <1>1, <1>4, <2>2
    <3>2. Newest' = buffer[rdbuf][wrptr]
      BY <1>4, <3>1 DEF Newest
    <3> QED
      BY <1>6, <3>1, <3>2
  <2> QED
    BY <2>1, <2>2
<1>9. ASSUME NEW b \in Buffers, NEW i \in 1..FrameSize PROVE ~Unplayed(b, i)'
  <2>1. Ahead(b)' = Ahead(b) /\ Ahead(wrbuf)' = 0
    BY <1>1, <1>3 DEF Ahead
  <2>2. ~(Ahead(b)' < Ahead(wrbuf)') /\ ~(i <= wrptr')
    BY <1>1, <1>3, <2>1
  <2> QED
    BY <2>2, Zenon DEF Unplayed
<1>10. RingOrder'
  BY <1>2, <1>8, <1>9, FewerUnplayed, Zenon
<1> QED
  BY <1>7, <1>10

\* callback().
LEMMA CallbackKeeps ==
    ASSUME RingTyped, SoundInv, Callback(epc \in {"reset1", "reset2", "reset3"})
    PROVE  /\ RingTyped' /\ SoundInv'
           /\ buffer' = buffer /\ wrbuf' = wrbuf /\ overrun' = overrun
           /\ ~raced' => ~raced /\ epc \notin Resets
<1>1. /\ buffer' = buffer /\ wrbuf' = wrbuf /\ overrun' = overrun /\ serial' = serial
      /\ Starve \/ Play
      /\ heard' = Newest
  BY Zenon DEF Callback, Newest
<1>2. raced' \in BOOLEAN /\ (~raced' => ~raced /\ epc \notin Resets)
  BY Zenon DEF Callback, RingTyped, Resets
<1>3. SoundInv'
  BY <1>1, <1>2, PlayOrder, StarveOrder, Zenon
<1>4. /\ wrbuf \in Buffers /\ rdbuf \in Buffers /\ wrptr \in Nat /\ wrptr < FrameSize
      /\ Newest \in Nat /\ buffer \in [Buffers -> [1..FrameSize -> Nat]] /\ starves \in Nat
      /\ FrameSize \in Nat \ {0}
  BY RingValues
<1>5. rdbuf' \in Buffers /\ wrptr' \in 0..(FrameSize - 1) /\ starves' \in Nat
      /\ played' \in Seq(Nat)
  <2>1. CASE Play
    <3>1. rdbuf' \in Buffers
      BY <1>4, <2>1, NextBuffer DEF Play
    <3>2. wrptr' \in 0..(FrameSize - 1) /\ starves' \in Nat
      BY <1>4, <2>1 DEF Play
    <3>3. buffer[rdbuf] \in [1..FrameSize -> Nat]
      BY <1>4
    <3>4. played' \in Seq(Nat)
      BY <2>1, <3>3, RowSequence DEF Play
    <3> QED
      BY <3>1, <3>2, <3>4
  <2>2. CASE Starve
    <3>1. rdbuf' \in Buffers /\ wrptr' \in 0..(FrameSize - 1) /\ starves' \in Nat
      BY <1>4, <2>2 DEF Starve
    <3>2. played' \in Seq(Nat)
      BY <1>4, <2>2, SubPrefix DEF Starve
    <3> QED
      BY <3>1, <3>2
  <2> QED
    BY <1>1, <2>1, <2>2
<1>6. RingTyped'
  BY <1>1, <1>2, <1>4, <1>5, Zenon DEF RingTyped
<1> QED
  BY <1>1, <1>2, <1>3, <1>6, Zenon

\* pause() finds nothing that was played, and drops what is there.
LEMMA PauseKeeps ==
    ASSUME RingTyped, SoundInv, ResetInv, NEW step \in 1..3, PauseReset(step),
           epc = <<"reset1", "reset2", "reset3">>[step]
    PROVE  /\ RingTyped' /\ SoundInv'
           /\ overrun' = overrun /\ raced' = raced /\ starves' = starves
           /\ ~raced => /\ rdbuf = 0 /\ rdbuf' = 0 /\ wrptr' <= wrptr
                        /\ Ahead(wrbuf)' <= Ahead(wrbuf)
           /\ step # 3 => wrptr' = 0
<1>1. /\ wrbuf \in Buffers /\ rdbuf \in Buffers /\ wrptr \in Nat /\ wrptr < FrameSize
      /\ Newest \in Nat /\ buffer \in [Buffers -> [1..FrameSize -> Nat]]
      /\ \A b \in Buffers, i \in 1..FrameSize : buffer[b][i] \in Nat
      /\ \A b \in Buffers : Ahead(b) \in Int /\ Ahead(b) \in 0..(NBuffers - 1)
      /\ Ahead(rdbuf) = 0 /\ NBuffers \in Nat \ {0} /\ FrameSize \in Nat \ {0}
  BY RingValues
<1>2. /\ step = 1 => epc = "reset1"
      /\ step = 2 => epc = "reset2"
      /\ step = 3 => epc = "reset3"
      /\ step = 1 \/ step = 2 \/ step = 3
  OBVIOUS
<1>3. epc \in Resets
  BY <1>2, Zenon DEF Resets
<1>4. ~raced => rdbuf = 0
  BY <1>3, Zenon DEF ResetInv
<1>5. step # 1 => wrptr = 0
  BY <1>2 DEF ResetInv
<1>6. /\ wrptr' = IF step = 1 THEN 0 ELSE wrptr
      /\ rdbuf' = IF step = 2 THEN 0 ELSE rdbuf
      /\ wrbuf' = IF step = 3 THEN 0 ELSE wrbuf
      /\ buffer' = buffer /\ serial' = serial /\ heard' = heard /\ played' = played
      /\ starves' = starves /\ overrun' = overrun /\ raced' = raced
  BY Zenon DEF PauseReset
<1>7. 0 \in Buffers
  BY <1>1 DEF Buffers
<1>8. wrptr' = 0 /\ rdbuf' \in Buffers /\ wrbuf' \in Buffers /\ (~raced => rdbuf' = 0)
  BY <1>1, <1>4, <1>5, <1>6, <1>7
<1>9. RingTyped'
  <2>1. wrptr' \in 0..(FrameSize - 1)
    BY <1>1, <1>8
  <2> QED
    BY <1>6, <1>8, <2>1, Zenon DEF RingTyped
<1>10. ASSUME ~raced
       PROVE  /\ \A b \in Buffers : Ahead(b)' = Ahead(b)
              /\ Ahead(wrbuf)' = Ahead(wrbuf) \/ Ahead(wrbuf)' = 0
              /\ Ahead(wrbuf)' <= Ahead(wrbuf)
  <2>1. rdbuf = 0 /\ rdbuf' = 0
    BY <1>4, <1>8, <1>10
  <2>2. Ahead(wrbuf)' = Distance(wrbuf', 0) /\ Ahead(wrbuf) = Distance(wrbuf, 0)
    BY <2>1 DEF Ahead
  <2>3. wrbuf' = wrbuf \/ wrbuf' = 0
    BY <1>6
  <2>4. Distance(0, 0) = 0
    BY <1>7, DistanceTyped
  <2>5. Ahead(wrbuf)' = Ahead(wrbuf) \/ Ahead(wrbuf)' = 0
    BY <2>2, <2>3, <2>4
  <2>6. Ahead(wrbuf)' <= Ahead(wrbuf)
    BY <1>1, <2>5
  <2>7. \A b \in Buffers : Ahead(b)' = Ahead(b)
    BY <2>1 DEF Ahead
  <2> QED
    BY <2>5, <2>6, <2>7
<1>11. SoundInv'
  <2>1. InOrder'
    BY <1>6 DEF SoundInv, InOrder
  <2>2. ASSUME ~overrun', ~raced' PROVE RingOrder'
    <3>1. RingOrder /\ ~raced
      BY <1>6, <2>2, Zenon DEF SoundInv
    <3>2. Newest' = Newest
      BY <1>6 DEF Newest
    <3>3. Newest' < serial
      BY <3>1, <3>2 DEF RingOrder
    <3>4. ASSUME NEW b \in Buffers, NEW i \in 1..FrameSize, Unplayed(b, i)'
          PROVE  Unplayed(b, i) /\ Newest' < buffer[b][i]
      <4>1. ~(i <= wrptr')
        BY <1>8
      <4>2. Ahead(b)' < Ahead(wrbuf)'
        BY <3>4, <4>1, Zenon DEF Unplayed
      <4>3. Ahead(b) < Ahead(wrbuf)
        BY <1>1, <1>10, <3>1, <4>2
      <4>4. Unplayed(b, i)
        BY <4>3, Zenon DEF Unplayed
      <4> QED
        BY <3>1, <3>2, <4>4 DEF RingOrder
    <3>5. \A b \in Buffers, c \in Buffers : Ahead(b)' < Ahead(c)' => Ahead(b) < Ahead(c)
      BY <1>10, <3>1
    <3> QED
      BY <1>6, <3>1, <3>3, <3>4, <3>5, FewerUnplayed, Zenon
  <2> QED
    BY <2>1, <2>2, Zenon DEF SoundInv
<1> QED
  BY <1>1, <1>4, <1>6, <1>8, <1>9, <1>10, <1>11

\* A step that leaves the ring alone.
LEMMA RingUnchanged ==
    ASSUME RingTyped, SoundInv, UNCHANGED ring
    PROVE  /\ RingTyped' /\ SoundInv'
           /\ Ahead(wrbuf)' = Ahead(wrbuf) /\ wrptr' = wrptr /\ starves' = starves
           /\ rdbuf' = rdbuf /\ overrun' = overrun /\ raced' = raced
<1>1. /\ buffer' = buffer /\ wrbuf' = wrbuf /\ rdbuf' = rdbuf /\ wrptr' = wrptr
      /\ serial' = serial /\ heard' = heard /\ played' = played /\ starves' = starves
      /\ overrun' = overrun /\ raced' = raced
  BY Zenon DEF ring
<1>2. RingTyped'
  BY <1>1, Zenon DEF RingTyped
<1>3. \A b \in Buffers : Ahead(b)' = Ahead(b)
  BY <1>1 DEF Ahead
<1>4. Ahead(wrbuf)' = Ahead(wrbuf)
  BY <1>1 DEF Ahead
<1>5. \A b \in Buffers, i \in 1..FrameSize : Unplayed(b, i)' <=> Unplayed(b, i)
  BY <1>1, <1>3, <1>4, Zenon DEF Unplayed
<1>6. Newest' = Newest
  BY <1>1 DEF Newest
<1>7. RingOrder => RingOrder'
  BY <1>1, <1>3, <1>5, <1>6, Zenon DEF RingOrder
<1>8. InOrder => InOrder'
  BY <1>1, Zenon DEF InOrder
<1> QED
  BY <1>1, <1>2, <1>4, <1>7, <1>8, Zenon DEF SoundInv

-----------------------------------------------------------------------------
(* The invariant, part by part *)

\* Arithmetic of the accounts.
LEMMA IntSums ==
    ASSUME NEW a \in Int, NEW b \in Int, NEW c \in Int
    PROVE  a + b \in Int /\ a + b + c \in Int /\ (b <= c => a + b <= a + c)
OBVIOUS

LEMMA NatSums ==
    ASSUME NEW a \in Nat, NEW b \in Nat
    PROVE  a + b \in Nat
OBVIOUS

LEMMA Pays ==
    ASSUME NEW d \in Int, NEW p \in Int, NEW d2 \in Int, NEW p2 \in Int,
           d2 + p <= d + p2, d <= p
    PROVE  d2 <= p2
OBVIOUS

\* Requests that are paid for.
LEMMA PaidRequests ==
    ASSUME NEW a \in Int, NEW f \in Int, NEW s \in Int,
           NEW r \in Int, NEW k \in Int, NEW r2 \in Int, NEW k2 \in Int,
           r2 + k <= r + k2
    PROVE  a + r2 + f + (s + k) <= a + r + f + (s + k2)
OBVIOUS

\* A request that becomes a buffer under way.
LEMMA TakenRequests ==
    ASSUME NEW a \in Int, NEW f \in {0, 1}, NEW f2 \in {0, 1}, NEW p \in Int,
           NEW r \in Int, NEW r2 \in Int, (f2 <= f /\ r2 <= r) \/ r2 + 1 <= r
    PROVE  a + r2 + f2 + p <= a + r + f + p
OBVIOUS

\* A buffer is full no earlier with less to write.
LEMMA FillsLess ==
    ASSUME NEW w \in Int, NEW w2 \in Int, NEW l \in Int, NEW l2 \in Int, NEW n \in Int,
           w2 <= w, l2 <= l
    PROVE  (IF w2 + l2 >= n THEN 1 ELSE 0) <= (IF w + l >= n THEN 1 ELSE 0)
OBVIOUS

\* The numbers that the accounts are made of.
LEMMA Counts ==
    ASSUME EmTyped, RingTyped
    PROVE  /\ Requests(toEngine) \in Nat /\ Filling \in {0, 1}
           /\ Debt \in Int /\ Paid \in Nat /\ starves \in Nat /\ kicks \in Nat
           /\ Starting \in {0, 1} /\ Executing \in {0, 1} /\ Waiting \in {0, 1}
           /\ Tokens \in Nat /\ left \in Nat /\ frame \in Nat /\ rendered \in Nat
<1>1. Requests(toEngine) \in Nat
  BY RequestsTyped DEF EmTyped
<1>2. Ahead(wrbuf) \in Int /\ starves \in Nat /\ FrameSize \in Nat
  BY RingValues
<1>3. left \in Nat /\ frame \in Nat /\ rendered \in Nat /\ kicks \in Nat
  BY <1>2 DEF EmTyped
<1>4. /\ Filling \in {0, 1} /\ Starting \in {0, 1}
      /\ Executing \in {0, 1} /\ Waiting \in {0, 1}
  BY DEF Filling, Starting, Executing, Waiting
<1>5. Debt \in Int /\ Paid \in Nat /\ Tokens \in Nat
  BY <1>1, <1>2, <1>3, <1>4 DEF Debt, Paid, Tokens
<1> QED
  BY <1>1, <1>2, <1>3, <1>4, <1>5

\* The same after a step.
LEMMA CountsNext ==
    ASSUME EmTyped', RingTyped'
    PROVE  /\ Requests(toEngine') \in Nat /\ Filling' \in {0, 1}
           /\ Debt' \in Int /\ Paid' \in Nat /\ left' \in Nat
<1>1. Requests(toEngine') \in Nat
  BY RequestsTyped DEF EmTyped
<1>2. wrbuf' \in Buffers /\ rdbuf' \in Buffers /\ starves' \in Nat /\ FrameSize \in Nat
  BY SoundRingAssumption DEF RingTyped
<1>3. Ahead(wrbuf)' \in Int
  <2>1. Distance(wrbuf', rdbuf') \in Int
    BY <1>2, DistanceTyped
  <2> QED
    BY <2>1 DEF Ahead
<1>4. left' \in Nat /\ kicks' \in Nat
  BY <1>2 DEF EmTyped
<1>5. Filling' \in {0, 1}
  BY DEF Filling
<1>6. Debt' \in Int
  <2>1. Debt' = Ahead(wrbuf)' + Requests(toEngine') + Filling'
    BY DEF Debt
  <2>2. Requests(toEngine') \in Int /\ Filling' \in Int
    BY <1>1, <1>5
  <2> QED
    BY <1>3, <2>1, <2>2, IntSums, Zenon
<1>7. Paid' \in Nat
  BY <1>2, <1>4, NatSums, Zenon DEF Paid
<1> QED
  BY <1>1, <1>4, <1>5, <1>6, <1>7

\* Debts are paid while the writer does not move to another buffer.
LEMMA OwedKept ==
    ASSUME EmTyped, RingTyped, EmTyped', RingTyped', OwedInv,
           mode' = mode, overrun' = overrun, ~raced' => ~raced,
           mode = "sound" => Paid' >= Paid,
           mode = "sound" /\ ~raced' => Debt' + Paid <= Debt + Paid'
    PROVE  OwedInv'
<1>1. Debt \in Int /\ Paid \in Int
  BY Counts
<1>2. Debt' \in Int /\ Paid' \in Int
  BY CountsNext
<1>3. NBuffers \in Nat
  BY SoundRingAssumption
<1>4. mode' # "sound" => ~overrun'
  BY Zenon DEF OwedInv
<1>5. ASSUME mode' = "sound", ~raced'
      PROVE  (overrun' => Paid' >= NBuffers) /\ (~overrun' => Debt' <= Paid')
  <2>1. (overrun => Paid >= NBuffers) /\ (~overrun => Debt <= Paid)
    BY <1>5, Zenon DEF OwedInv
  <2>2. Paid' >= Paid /\ Debt' + Paid <= Debt + Paid'
    BY <1>5
  <2>3. Paid >= NBuffers => Paid' >= NBuffers
    BY <1>1, <1>2, <1>3, <2>2
  <2>4. Debt <= Paid => Debt' <= Paid'
    BY <1>1, <1>2, <2>2, Pays, Zenon
  <2> QED
    BY <2>1, <2>3, <2>4, Zenon
<1> QED
  BY <1>4, <1>5, Zenon DEF OwedInv

\* A step that starts nothing and shows nothing.
LEMMA SpinKept ==
    ASSUME EmTyped, RingTyped, EmTyped', RingTyped', SpinInv,
           mode' = mode, frame' = frame, rendered' = rendered, toUi' = toUi,
           Requests(toEngine') <= Requests(toEngine),
           upc' = "start" => upc = "start", epc' = "frame" => epc = "frame"
    PROVE  SpinInv'
<1>1. Requests(toEngine) \in Nat /\ Requests(toEngine') \in Nat
  BY Counts, CountsNext
<1>2. Waiting' = Waiting
  BY DEF Waiting
<1>3. Starting' <= Starting /\ Executing' <= Executing
  BY DEF Starting, Executing
<1>4. /\ Starting \in {0, 1} /\ Executing \in {0, 1} /\ Waiting \in {0, 1}
      /\ Starting' \in {0, 1} /\ Executing' \in {0, 1}
  BY DEF Starting, Executing, Waiting
<1>5. Tokens <= 1 => Tokens' <= 1
  BY <1>1, <1>2, <1>3, <1>4 DEF Tokens
<1>6. Requests(toEngine') > 0 => Requests(toEngine) > 0
  BY <1>1
<1> QED
  BY <1>5, <1>6, Zenon DEF SpinInv

\* A step outside the engine and the ring.
LEMMA UiStep ==
    ASSUME EmInv, UNCHANGED <<mode, epc, first, left, frame, device, held>>, UNCHANGED ring,
           pressed' \in BOOLEAN,
           upc' \in {"start", "loop", "join", "done"}, toEngine' \in Seq(Events),
           toUi' \subseteq Shown, rendered' \in Nat, kicks' \in Nat, kicks' >= kicks,
           mode = "sound" =>
              Requests(toEngine') + kicks <= Requests(toEngine) + kicks',
           EmTyped' /\ RingTyped' => SpinInv'
    PROVE  EmInv'
<1>1. EmTyped /\ RingTyped /\ SoundInv /\ ResetInv /\ OwedInv
  BY Zenon DEF EmInv
<1>2. /\ mode' = mode /\ epc' = epc /\ first' = first /\ left' = left /\ frame' = frame
      /\ device' = device /\ held' = held
  OBVIOUS
<1>3. (first' <=> first) /\ (device' <=> device)
  BY <1>2
<1>4. EmTyped'
  BY <1>1, <1>2, Zenon DEF EmTyped
<1>5. /\ RingTyped' /\ SoundInv'
      /\ Ahead(wrbuf)' = Ahead(wrbuf) /\ wrptr' = wrptr /\ starves' = starves
      /\ rdbuf' = rdbuf /\ overrun' = overrun /\ raced' = raced
  BY <1>1, RingUnchanged, Zenon
<1>6. raced' <=> raced
  BY <1>5
<1>7. ResetInv'
  <2>1. /\ epc' = "unpause" => first'
        /\ first' => ~device'
        /\ device' => mode' = "sound"
    BY <1>1, <1>2, <1>3, Zenon DEF ResetInv
  <2>2. /\ epc' # "frame" => left' = 0
        /\ left' > 0 => mode' = "sound"
    BY <1>1, <1>2, Zenon DEF ResetInv
  <2>3. epc' \in {"reset2", "reset3"} => wrptr' = 0
    BY <1>1, <1>2, <1>5, Zenon DEF ResetInv
  <2>4. ~raced' /\ (~device' \/ epc' \in Resets) => rdbuf' = 0
    BY <1>1, <1>2, <1>6, <1>3, <1>5, Zenon DEF ResetInv
  <2> QED
    BY <2>1, <2>2, <2>3, <2>4, Zenon DEF ResetInv
<1>8. OwedInv'
  <2>1. /\ Requests(toEngine) \in Nat /\ Filling \in {0, 1} /\ starves \in Nat /\ kicks \in Nat
        /\ Ahead(wrbuf) \in Int
    BY <1>1, Counts, RingValues
  <2>2. Requests(toEngine') \in Nat
    BY <1>4, <1>5, CountsNext
  <2>3. Filling' = Filling
    BY <1>2, <1>5 DEF Filling
  <2>4. /\ Paid' = starves + kicks'
        /\ Debt' = Ahead(wrbuf) + Requests(toEngine') + Filling
    BY <1>5, <2>3 DEF Paid, Debt
  <2>5. /\ starves \in Int /\ kicks \in Int /\ kicks' \in Int /\ kicks <= kicks'
        /\ Requests(toEngine) \in Int /\ Requests(toEngine') \in Int /\ Filling \in Int
    BY <2>1, <2>2
  <2>6. starves + kicks <= starves + kicks'
    BY <2>5, IntSums, Zenon
  <2>7. Paid' >= Paid
    BY <2>4, <2>6 DEF Paid
  <2>8. mode = "sound" => Debt' + Paid <= Debt + Paid'
    BY <2>1, <2>4, <2>5, PaidRequests, Zenon DEF Debt, Paid
  <2> QED
    BY <1>1, <1>2, <1>4, <1>5, <2>7, <2>8, OwedKept, Zenon
<1> QED
  BY <1>4, <1>5, <1>7, <1>8, Zenon DEF EmInv

\* A step of the engine outside the ring, with a request less or not.
LEMMA EngineStep ==
    ASSUME EmInv, UNCHANGED <<mode, upc, kicks, rendered, first, device, pressed>>,
           UNCHANGED ring,
           held' \in BOOLEAN,
           toEngine' \in Seq(Events), toUi' \subseteq Shown,
           epc' \in {"wait", "frame", "unpause", "ended"}, epc' = "unpause" => first,
           left' \in 0..FrameSize, epc' # "frame" => left' = 0,
           left' > 0 => mode = "sound", frame' \in Nat,
           left' > left => left = 0 /\ Requests(toEngine') + 1 <= Requests(toEngine),
           Requests(toEngine') <= Requests(toEngine),
           EmTyped' /\ RingTyped' => SpinInv'
    PROVE  EmInv'
<1>1. EmTyped /\ RingTyped /\ SoundInv /\ ResetInv /\ OwedInv
  BY Zenon DEF EmInv
<1>2. /\ mode' = mode /\ upc' = upc /\ kicks' = kicks /\ rendered' = rendered
      /\ first' = first /\ device' = device /\ pressed' = pressed
  OBVIOUS
<1>3. (first' <=> first) /\ (device' <=> device)
  BY <1>2
<1>4. EmTyped'
  BY <1>1, <1>2, Zenon DEF EmTyped
<1>5. /\ RingTyped' /\ SoundInv'
      /\ Ahead(wrbuf)' = Ahead(wrbuf) /\ wrptr' = wrptr /\ starves' = starves
      /\ rdbuf' = rdbuf /\ overrun' = overrun /\ raced' = raced
  BY <1>1, RingUnchanged, Zenon
<1>6. raced' <=> raced
  BY <1>5
<1>7. ResetInv'
  <2>1. epc' \notin {"reset2", "reset3"} /\ epc' \notin Resets
    BY Zenon DEF Resets
  <2>2. /\ epc' = "unpause" => first'
        /\ first' => ~device'
        /\ device' => mode' = "sound"
    BY <1>1, <1>2, <1>3, Zenon DEF ResetInv
  <2>3. /\ epc' # "frame" => left' = 0
        /\ left' > 0 => mode' = "sound"
    BY <1>1, <1>2, Zenon DEF ResetInv
  <2>4. epc' \in {"reset2", "reset3"} => wrptr' = 0
    BY <2>1, Zenon
  <2>5. ~raced' /\ (~device' \/ epc' \in Resets) => rdbuf' = 0
    BY <1>1, <1>2, <1>6, <1>3, <1>5, <2>1, Zenon DEF ResetInv
  <2> QED
    BY <2>2, <2>3, <2>4, <2>5, Zenon DEF ResetInv
<1>8. OwedInv'
  <2>1. /\ Requests(toEngine) \in Nat /\ Filling \in {0, 1} /\ starves \in Nat /\ kicks \in Nat
        /\ Ahead(wrbuf) \in Int /\ left \in Nat /\ wrptr \in Nat /\ FrameSize \in Nat
        /\ wrptr < FrameSize
    BY <1>1, Counts, RingValues
  <2>2. Requests(toEngine') \in Nat /\ Filling' \in {0, 1} /\ left' \in Nat
    BY <1>4, <1>5, CountsNext
  <2>3. left' <= left => Filling' <= Filling
    <3> SUFFICES ASSUME left' <= left PROVE Filling' <= Filling
      OBVIOUS
    <3>1. Filling' = IF wrptr + left' >= FrameSize THEN 1 ELSE 0
      BY <1>5 DEF Filling
    <3>2. /\ wrptr \in Int /\ left \in Int /\ left' \in Int /\ FrameSize \in Int
          /\ wrptr <= wrptr
      BY <2>1, <2>2
    <3>3. (IF wrptr + left' >= FrameSize THEN 1 ELSE 0)
             <= (IF wrptr + left >= FrameSize THEN 1 ELSE 0)
      BY <3>2, FillsLess, Zenon
    <3> QED
      BY <3>1, <3>3 DEF Filling
  <2>4. Paid' = Paid /\ Paid \in Int
    BY <1>2, <1>5, <2>1 DEF Paid
  <2>5. \/ Filling' <= Filling /\ Requests(toEngine') <= Requests(toEngine)
        \/ Requests(toEngine') + 1 <= Requests(toEngine)
    <3>1. left' <= left \/ left' > left
      BY <2>1, <2>2
    <3> QED
      BY <2>3, <3>1
  <2>6. Requests(toEngine) \in Int /\ Requests(toEngine') \in Int
    BY <2>1, <2>2
  <2>7. Debt' = Ahead(wrbuf) + Requests(toEngine') + Filling'
    BY <1>5 DEF Debt
  <2>8. Debt' + Paid <= Debt + Paid
    BY <2>1, <2>2, <2>4, <2>5, <2>6, <2>7, TakenRequests, Zenon DEF Debt
  <2>9. Paid' >= Paid /\ Debt' + Paid <= Debt + Paid'
    BY <2>4, <2>8
  <2> QED
    BY <1>1, <1>2, <1>4, <1>5, <2>9, OwedKept, Zenon
<1> QED
  BY <1>4, <1>5, <1>7, <1>8, Zenon DEF EmInv

-----------------------------------------------------------------------------
(* The steps of the UI thread, of the timer and of a GDB client *)

LEMMA EventsTyped ==
    /\ Request \in Events /\ Quit \in Events /\ Pause \in Events
    /\ \A d \in BOOLEAN : Key(d) \in Events
    /\ Wants(Request) = 1 /\ Wants(Quit) = 0 /\ Wants(Pause) = 0
    /\ \A d \in BOOLEAN : Wants(Key(d)) = 0
<1>1. \A d \in BOOLEAN : Key(d) \in Events
  <2>1. \A d \in BOOLEAN : d = TRUE \/ d = FALSE
    OBVIOUS
  <2> QED
    BY <2>1, Zenon DEF Events
<1>2. Request \in Events /\ Quit \in Events /\ Pause \in Events
  BY Zenon DEF Events
<1>3. /\ Request.type = "frame" /\ Quit.type = "quit" /\ Pause.type = "pause"
      /\ \A d \in BOOLEAN : Key(d).type = "key"
  BY DEF Request, Quit, Pause, Key
<1> QED
  BY <1>1, <1>2, <1>3 DEF Wants

\* The parts of the invariant that a step needs to know.
LEMMA InvParts ==
    ASSUME EmInv
    PROVE  /\ EmTyped /\ RingTyped /\ ResetInv /\ OwedInv /\ SpinInv /\ SoundInv
           /\ toEngine \in Seq(Events) /\ toUi \subseteq Shown
           /\ upc \in {"start", "loop", "join", "done"}
           /\ Requests(toEngine) \in Nat /\ kicks \in Nat /\ rendered \in Nat /\ frame \in Nat
           /\ kicks \in Int /\ Requests(toEngine) \in Int /\ kicks >= kicks
           /\ pressed \in BOOLEAN
           /\ Requests(toEngine) + kicks <= Requests(toEngine) + kicks
<1>1. EmTyped /\ RingTyped /\ ResetInv /\ OwedInv /\ SpinInv /\ SoundInv
  BY Zenon DEF EmInv
<1>2. /\ toEngine \in Seq(Events) /\ toUi \subseteq Shown
      /\ upc \in {"start", "loop", "join", "done"} /\ kicks \in Nat /\ rendered \in Nat
      /\ frame \in Nat /\ pressed \in BOOLEAN
  BY <1>1, Zenon DEF EmTyped
<1>3. Requests(toEngine) \in Nat
  BY <1>2, RequestsTyped
<1> QED
  BY <1>1, <1>2, <1>3

LEMMA TimerKeeps == ASSUME EmInv, TimerTick PROVE EmInv'
<1>1. /\ mode = "timer" /\ toEngine' = Append(toEngine, Request)
      /\ UNCHANGED <<mode, epc, first, left, frame, device, held>> /\ UNCHANGED ring
      /\ upc' = upc /\ toUi' = toUi /\ rendered' = rendered /\ kicks' = kicks /\ pressed' = pressed
  BY Zenon DEF TimerTick, conf, ui, engine, audio
<1>2. toEngine' \in Seq(Events)
  BY <1>1, InvParts, EventsTyped, RequestsAppend
<1>3. mode # "sound" /\ mode' # "spin"
  BY <1>1
<1>4. SpinInv'
  BY <1>3, Zenon DEF SpinInv
<1> QED
  BY <1>1, <1>2, <1>3, <1>4, InvParts, UiStep, Zenon

LEMMA UiStartKeeps == ASSUME EmInv, UiStart PROVE EmInv'
<1>1. /\ upc = "start" /\ upc' = "loop"
      /\ toEngine' = IF mode = "spin" THEN Append(toEngine, Request) ELSE toEngine
      /\ UNCHANGED <<mode, epc, first, left, frame, device, held>> /\ UNCHANGED ring
      /\ toUi' = toUi /\ rendered' = rendered /\ kicks' = kicks /\ pressed' = pressed
  BY Zenon DEF UiStart, conf, engine, audio
<1>2. toEngine' \in Seq(Events)
  BY <1>1, InvParts, EventsTyped, RequestsAppend
<1>3. mode = "sound" => toEngine' = toEngine
  BY <1>1
<1>4. mode = "spin" => Requests(toEngine') = Requests(toEngine) + 1
  BY <1>1, InvParts, EventsTyped, RequestsAppend
<1>5. ASSUME EmTyped', RingTyped' PROVE SpinInv'
  <2> SUFFICES ASSUME mode = "spin" PROVE SpinInv'
    BY <1>1, Zenon DEF SpinInv
  <2>1. /\ Tokens <= 1 /\ frame = rendered /\ frame' = frame
        /\ \A ev \in toUi : ev.executed => ev.frame = frame
    BY <1>1, InvParts, Zenon DEF SpinInv
  <2>2. /\ Starting = 1 /\ Starting' = 0 /\ Executing' = Executing /\ Waiting' = Waiting
    BY <1>1 DEF Starting, Executing, Waiting
  <2>3. /\ Executing \in {0, 1} /\ Waiting \in {0, 1} /\ Requests(toEngine) \in Nat
    BY InvParts, Counts
  <2>4. Tokens' = 0 + (Requests(toEngine) + 1) + Executing + Waiting
    BY <1>4, <2>2 DEF Tokens
  <2>5. Tokens' <= 1
    BY <2>1, <2>2, <2>3, <2>4 DEF Tokens
  <2>6. frame' \in {rendered', rendered' + 1} /\ frame' = rendered'
    BY <1>1, <2>1
  <2> QED
    BY <1>1, <2>1, <2>5, <2>6, Zenon DEF SpinInv
<1> QED
  BY <1>1, <1>2, <1>3, <1>5, InvParts, UiStep, Zenon

\* Keys, Pause and Quit ask for no frame.
LEMMA UiInputKeeps ==
    ASSUME EmInv, UiKey \/ UiPauseKey \/ UiQuit PROVE EmInv'
<1>1. /\ \E e \in {Key(~pressed), Pause, Quit} : toEngine' = Append(toEngine, e)
      /\ upc' = upc \/ upc' = "join"
      /\ UNCHANGED <<mode, epc, first, left, frame, device, held>> /\ UNCHANGED ring
      /\ toUi' = toUi /\ rendered' = rendered /\ kicks' = kicks
      /\ (pressed' = pressed \/ pressed' = ~pressed)
  BY Zenon DEF UiKey, UiPauseKey, UiQuit, Input, conf, engine, audio
<1>2. toEngine' \in Seq(Events) /\ Requests(toEngine') = Requests(toEngine)
  <2>1. PICK e \in {Key(~pressed), Pause, Quit} : toEngine' = Append(toEngine, e)
    BY <1>1
  <2>2. (~pressed) \in BOOLEAN
    BY InvParts DEF EmTyped
  <2>3. e \in Events /\ Wants(e) = 0
    BY <2>2, EventsTyped, Zenon
  <2>4. toEngine' \in Seq(Events) /\ Requests(toEngine') = Requests(toEngine) + 0
    BY <2>1, <2>3, InvParts, RequestsAppend, Zenon
  <2> QED
    BY <2>4, InvParts
<1>3. upc' \in {"start", "loop", "join", "done"} /\ pressed' \in BOOLEAN
  BY <1>1, InvParts DEF EmTyped
<1>4. ASSUME EmTyped', RingTyped' PROVE SpinInv'
  <2>1. upc' = "start" => upc = "start"
    BY <1>1
  <2>2. Requests(toEngine') <= Requests(toEngine)
    BY <1>2, InvParts
  <2> QED
    BY <1>1, <1>4, <2>1, <2>2, InvParts, SpinKept, Zenon
<1> QED
  BY <1>1, <1>2, <1>3, <1>4, InvParts, UiStep, Zenon

\* An exposed window pays for its request.
LEMMA UiExposedKeeps == ASSUME EmInv, UiExposed PROVE EmInv'
<1>1. /\ mode # "spin" /\ toEngine' = Append(toEngine, Request) /\ kicks' = kicks + 1
      /\ UNCHANGED <<mode, epc, first, left, frame, device, held>> /\ UNCHANGED ring
      /\ upc' = upc /\ toUi' = toUi /\ rendered' = rendered /\ pressed' = pressed
  BY Zenon DEF UiExposed, Input, conf, engine, audio
<1>2. toEngine' \in Seq(Events) /\ Requests(toEngine') = Requests(toEngine) + 1
  BY <1>1, InvParts, EventsTyped, RequestsAppend
<1>3. kicks' \in Nat /\ kicks' >= kicks
  BY <1>1, InvParts
<1>4. Requests(toEngine') + kicks <= Requests(toEngine) + kicks'
  BY <1>1, <1>2, InvParts
<1>5. SpinInv'
  BY <1>1, Zenon DEF SpinInv
<1> QED
  BY <1>1, <1>2, <1>3, <1>4, <1>5, InvParts, UiStep, Zenon

LEMMA UiJoinKeeps == ASSUME EmInv, UiJoin PROVE EmInv'
<1>1. /\ upc' = "done" /\ toEngine' = toEngine
      /\ UNCHANGED <<mode, epc, first, left, frame, device, held>> /\ UNCHANGED ring
      /\ toUi' = toUi /\ rendered' = rendered /\ kicks' = kicks /\ pressed' = pressed
  BY Zenon DEF UiJoin, conf, engine, audio
<1>2. upc' \in {"start", "loop", "join", "done"} /\ upc' # "start"
  BY <1>1
<1>3. Requests(toEngine') <= Requests(toEngine)
  BY <1>1, InvParts
<1>4. EmTyped' /\ RingTyped' => SpinInv'
  BY <1>1, <1>2, <1>3, InvParts, SpinKept, Zenon
<1> QED
  BY <1>1, <1>2, <1>4, InvParts, UiStep, Zenon

\* A GDB client's request, or no step at all.
LEMMA PacketKeeps == ASSUME EmInv, Packet \/ UNCHANGED vars PROVE EmInv'
<1>1. /\ upc' = upc /\ toEngine' = toEngine
      /\ UNCHANGED <<mode, epc, first, left, frame, device, held>> /\ UNCHANGED ring
      /\ toUi' = toUi /\ rendered' = rendered /\ kicks' = kicks /\ pressed' = pressed
  BY Zenon DEF Packet, vars, conf, ui, engine, audio
<1>2. Requests(toEngine') <= Requests(toEngine)
  BY <1>1, InvParts
<1>3. EmTyped' /\ RingTyped' => SpinInv'
  BY <1>1, <1>2, InvParts, SpinKept, Zenon
<1> QED
  BY <1>1, <1>3, InvParts, UiStep, Zenon

\* The events that a shown frame puts into the queue.
LEMMA RenderQueue ==
    ASSUME NEW q \in Seq(Events), NEW kick \in BOOLEAN, NEW stop \in BOOLEAN, NEW t,
           t = q \o (IF kick THEN <<Request>> ELSE <<>>) \o (IF stop THEN <<Quit>> ELSE <<>>)
    PROVE  t \in Seq(Events) /\ Requests(t) = IF kick THEN Requests(q) + 1 ELSE Requests(q)
<1> DEFINE s == IF kick THEN Append(q, Request) ELSE q
<1>1. s = q \o (IF kick THEN <<Request>> ELSE <<>>)
  BY EventsTyped, AppendIsConcat, ConcatEmptySeq
<1>2. s \in Seq(Events) /\ Requests(s) = IF kick THEN Requests(q) + 1 ELSE Requests(q)
  BY EventsTyped, RequestsAppend
<1>3. Requests(s) \in Nat
  BY <1>2, RequestsTyped
<1> HIDE DEF s
<1>4. t = IF stop THEN Append(s, Quit) ELSE s
  BY <1>1, <1>2, EventsTyped, AppendIsConcat, ConcatEmptySeq
<1>5. stop => t \in Seq(Events) /\ Requests(t) = Requests(s) + 0
  BY <1>2, <1>4, EventsTyped, RequestsAppend
<1>6. ~stop => t = s
  BY <1>4, Zenon
<1>7. Requests(s) + 0 = Requests(s)
  BY <1>3
<1>8. t \in Seq(Events) /\ Requests(t) = Requests(s)
  BY <1>2, <1>5, <1>6, <1>7, Zenon
<1> QED
  BY <1>2, <1>8, Zenon

\* What UiRender shows, and what it asks for.
LEMMA RenderShows ==
    ASSUME EmInv, UiRender
    PROVE  \E ev \in toUi :
              /\ rendered' = IF ev.executed THEN ev.frame ELSE rendered
              /\ toEngine' \in Seq(Events)
              /\ Requests(toEngine') = IF ev.executed /\ mode = "spin"
                                         THEN Requests(toEngine) + 1 ELSE Requests(toEngine)
<1>1. PICK ev \in toUi :
         /\ rendered' = IF ev.executed THEN ev.frame ELSE rendered
         /\ toEngine' = toEngine \o (IF ev.executed /\ mode = "spin" THEN <<Request>> ELSE <<>>)
                          \o (IF ev.executed /\ limited /\ ev.frame >= MaxFrame
                                THEN <<Quit>> ELSE <<>>)
  BY Zenon DEF UiRender
<1>2. PICK kick \in BOOLEAN : kick <=> ev.executed /\ mode = "spin"
  BY Zenon
<1>3. PICK stop \in BOOLEAN : stop <=> ev.executed /\ limited /\ ev.frame >= MaxFrame
  BY Zenon
<1>4. toEngine' = toEngine \o (IF kick THEN <<Request>> ELSE <<>>)
                     \o (IF stop THEN <<Quit>> ELSE <<>>)
  BY <1>1, <1>2, <1>3
<1>5. /\ toEngine' \in Seq(Events)
      /\ Requests(toEngine') = IF kick THEN Requests(toEngine) + 1 ELSE Requests(toEngine)
  BY <1>4, InvParts, RenderQueue, Zenon
<1> QED
  BY <1>1, <1>2, <1>5

\* A shown frame is the one that was executed, and in a test run it asks for
\* the next one.
LEMMA UiRenderKeeps ==
    ASSUME EmInv, UiRender
    PROVE  /\ EmInv'
           /\ mode = "spin" /\ rendered' # rendered => rendered' = rendered + 1
<1>1. /\ upc = "loop" /\ upc' \in {"loop", "join"}
      /\ toUi' = {} /\ kicks' = kicks /\ pressed' = pressed
      /\ UNCHANGED <<mode, epc, first, left, frame, device, held>> /\ UNCHANGED ring
  <2>1. /\ upc = "loop" /\ toUi' = {} /\ kicks' = kicks /\ pressed' = pressed
        /\ UNCHANGED <<mode, epc, first, left, frame, device, held>> /\ UNCHANGED ring
    BY Zenon DEF UiRender, conf, engine, audio
  <2>2. upc' = upc \/ upc' = "join"
    BY Zenon DEF UiRender
  <2> QED
    BY <2>1, <2>2
<1>2. PICK ev \in toUi :
         /\ rendered' = IF ev.executed THEN ev.frame ELSE rendered
         /\ toEngine' \in Seq(Events)
         /\ Requests(toEngine') = IF ev.executed /\ mode = "spin"
                                    THEN Requests(toEngine) + 1 ELSE Requests(toEngine)
  BY RenderShows
<1>3. ev \in Shown /\ ev.frame \in Nat
  <2>1. ev \in Shown
    BY InvParts
  <2> QED
    BY <2>1 DEF Shown
<1>4. rendered' \in Nat
  BY <1>2, <1>3, InvParts
<1>5. upc' \in {"start", "loop", "join", "done"} /\ toUi' \subseteq Shown /\ upc' # "start"
  BY <1>1
<1>6. mode = "sound" => Requests(toEngine') + kicks <= Requests(toEngine) + kicks'
  BY <1>1, <1>2, InvParts
<1>7. ASSUME mode = "spin"
      PROVE  /\ rendered' # rendered => rendered' = rendered + 1
             /\ EmTyped' /\ RingTyped' => SpinInv'
  <2>1. /\ Tokens <= 1 /\ frame \in {rendered, rendered + 1}
        /\ upc = "start" \/ Requests(toEngine) > 0 => frame = rendered
        /\ ev.executed => ev.frame = frame
    BY <1>7, InvParts, Zenon DEF SpinInv
  <2>2. /\ Starting = 0 /\ Starting' = 0 /\ Executing' = Executing /\ Waiting' = 0
        /\ ev.executed => Waiting = 1
    BY <1>1 DEF Starting, Executing, Waiting
  <2>3. /\ Executing \in {0, 1} /\ Waiting \in {0, 1} /\ Requests(toEngine) \in Nat
    BY InvParts, Counts
  <2>4. rendered' # rendered => rendered' = rendered + 1
    BY <1>2, <2>1
  <2>5. Tokens' = 0 + Requests(toEngine') + Executing + 0
    BY <2>2 DEF Tokens
  <2>6. Tokens = 0 + Requests(toEngine) + Executing + Waiting
    BY <2>2 DEF Tokens
  <2>7. CASE ev.executed
    <3>1. Requests(toEngine') = Requests(toEngine) + 1 /\ rendered' = frame /\ Waiting = 1
      BY <1>2, <1>7, <2>1, <2>2, <2>7
    <3>2. Tokens' <= 1
      BY <2>1, <2>3, <2>5, <2>6, <3>1
    <3>3. frame' = rendered' /\ frame' \in {rendered', rendered' + 1}
      BY <1>1, <3>1
    <3>4. SpinInv'
      BY <1>1, <3>2, <3>3, Zenon DEF SpinInv
    <3> QED
      BY <2>4, <3>4
  <2>8. CASE ~ev.executed
    <3>1. Requests(toEngine') = Requests(toEngine) /\ rendered' = rendered
      BY <1>2, <2>8
    <3>2. Tokens' <= 1
      BY <2>1, <2>3, <2>5, <2>6, <3>1
    <3>3. frame' \in {rendered', rendered' + 1}
      BY <1>1, <2>1, <3>1
    <3>4. Requests(toEngine') > 0 => frame' = rendered'
      BY <1>1, <2>1, <3>1
    <3>5. SpinInv'
      BY <1>1, <1>5, <3>2, <3>3, <3>4, Zenon DEF SpinInv
    <3> QED
      BY <2>4, <3>5
  <2> QED
    BY <2>7, <2>8
<1>8. mode # "spin" => SpinInv'
  BY <1>1, Zenon DEF SpinInv
<1>9. EmTyped' /\ RingTyped' => SpinInv'
  BY <1>7, <1>8
<1>10. kicks' \in Nat /\ kicks' >= kicks /\ pressed' \in BOOLEAN
  BY <1>1, InvParts
<1>11. EmInv'
  BY <1>1, <1>2, <1>4, <1>5, <1>6, <1>9, <1>10, UiStep, Zenon
<1> QED
  BY <1>7, <1>11

-----------------------------------------------------------------------------
(* The steps of the engine outside the ring *)

\* What is taken from the queue is asked for no more.
LEMMA TakenKeeps ==
    ASSUME EmInv, NEW type, Taken(type)
    PROVE  /\ toEngine' \in Seq(Events) /\ epc = "wait" /\ left = 0
           /\ Head(toEngine) \in Events /\ Head(toEngine).type = type
           /\ Requests(toEngine') <= Requests(toEngine)
           /\ type = "frame" => Requests(toEngine') + 1 <= Requests(toEngine)
<1>1. /\ toEngine # <<>> /\ toEngine' = Tail(toEngine) /\ epc = "wait"
      /\ Head(toEngine).type = type
  BY Zenon DEF Taken
<1>2. left = 0
  <2>1. epc # "frame"
    BY <1>1
  <2> QED
    BY <2>1, InvParts, Zenon DEF ResetInv
<1>3. /\ Tail(toEngine) \in Seq(Events) /\ Head(toEngine) \in Events
      /\ Requests(Tail(toEngine)) + Wants(Head(toEngine)) <= Requests(toEngine)
  BY <1>1, InvParts, RequestsTail
<1>4. Requests(Tail(toEngine)) \in Nat /\ Wants(Head(toEngine)) \in {0, 1}
  BY <1>3, RequestsTyped DEF Wants
<1>5. type = "frame" => Wants(Head(toEngine)) = 1
  BY <1>1 DEF Wants
<1>6. Requests(Tail(toEngine)) <= Requests(toEngine)
  BY <1>3, <1>4, InvParts
<1> QED
  BY <1>1, <1>2, <1>3, <1>5, <1>6

LEMMA AfterEventValues ==
    /\ AfterEvent \in {"wait", "frame", "unpause", "ended"} /\ AfterEvent # "frame"
    /\ AfterEvent = "unpause" => first
BY DEF AfterEvent

\* Keys, quitting and the end.
LEMMA EngineInputKeeps ==
    ASSUME EmInv, EngineKey \/ EngineQuit \/ EngineEnd PROVE EmInv'
<1>1. /\ UNCHANGED <<mode, upc, kicks, rendered, first, device, pressed>> /\ UNCHANGED ring
      /\ toUi' = toUi /\ left' = left /\ frame' = frame
  BY Zenon DEF EngineKey, EngineQuit, EngineEnd, conf, ui, audio
<1>2. /\ toEngine' \in Seq(Events) /\ left = 0 /\ Requests(toEngine') <= Requests(toEngine)
      /\ epc' \in {"wait", "frame", "unpause", "ended"} /\ epc' # "frame"
      /\ epc' = "unpause" => first
      /\ held' \in BOOLEAN
  <2>1. CASE EngineKey
    <3>1. Taken("key") /\ epc' = AfterEvent /\ held' = Head(toEngine).down
      BY <2>1, Zenon DEF EngineKey
    <3>2. Head(toEngine) \in Events /\ Head(toEngine).type = "key"
      BY <3>1, TakenKeeps, Zenon
    <3>3. \A e \in Events : e.type = "key" => e = Key(TRUE) \/ e = Key(FALSE)
      <4>1. /\ Request.type # "key" /\ Quit.type # "key" /\ Pause.type # "key"
        BY DEF Request, Quit, Pause
      <4> QED
        BY <4>1, Zenon DEF Events
    <3>4. Key(TRUE).down = TRUE /\ Key(FALSE).down = FALSE
      BY DEF Key
    <3>5. held' \in BOOLEAN
      BY <3>1, <3>2, <3>3, <3>4
    <3> QED
      BY <3>1, <3>5, TakenKeeps, AfterEventValues, Zenon
  <2>2. CASE EngineQuit
    <3>1. (Taken("quit") \/ Taken("pause")) /\ epc' = AfterEvent /\ held' = held
      BY <2>2, Zenon DEF EngineQuit
    <3>2. held \in BOOLEAN
      BY InvParts DEF EmTyped
    <3> QED
      BY <3>1, <3>2, TakenKeeps, AfterEventValues, Zenon
  <2>3. CASE EngineEnd
    <3>1. epc = "wait" /\ epc' = "ended" /\ toEngine' = toEngine /\ held' = held
      BY <2>3, Zenon DEF EngineEnd
    <3>2. epc # "frame" /\ epc' # "frame" /\ epc' # "unpause"
          /\ epc' \in {"wait", "frame", "unpause", "ended"}
      BY <3>1
    <3>3. left = 0
      BY <3>2, InvParts, Zenon DEF ResetInv
    <3>4. Requests(toEngine') <= Requests(toEngine)
      BY <3>1, InvParts
    <3>5. held \in BOOLEAN
      BY InvParts DEF EmTyped
    <3> QED
      BY <3>1, <3>2, <3>3, <3>4, <3>5, InvParts, Zenon
  <2> QED
    BY <2>1, <2>2, <2>3
<1>3. /\ left' \in 0..FrameSize /\ left' = 0 /\ ~(left' > 0) /\ ~(left' > left)
      /\ frame' \in Nat
  BY <1>1, <1>2, InvParts, SoundRingAssumption
<1>4. EmTyped' /\ RingTyped' => SpinInv'
  BY <1>1, <1>2, InvParts, SpinKept, Zenon
<1> QED
  BY <1>1, <1>2, <1>3, <1>4, InvParts, EngineStep, Zenon

\* The executed frame is the one that will be shown.
LEMMA EngineRenderedKeeps == ASSUME EmInv, EngineRendered PROVE EmInv'
<1> DEFINE ev == [executed |-> TRUE, frame |-> frame]
<1>1. /\ UNCHANGED <<mode, upc, kicks, rendered, first, device, pressed>> /\ UNCHANGED ring
      /\ toUi' = toUi \cup {ev} /\ left' = left /\ frame' = frame /\ toEngine' = toEngine
      /\ epc = "frame" /\ left = 0 /\ epc' = AfterEvent /\ held' = held
  BY Zenon DEF EngineRendered, conf, ui, audio
<1>2. ev \in Shown /\ ev.executed = TRUE /\ ev.frame = frame
  BY InvParts DEF Shown
<1> HIDE DEF ev
<1>3. toUi' \subseteq Shown
  BY <1>1, <1>2, InvParts
<1>4. held' \in BOOLEAN
  BY <1>1, InvParts DEF EmTyped
<1>5. /\ left' \in 0..FrameSize /\ left' = 0 /\ ~(left' > 0) /\ ~(left' > left)
      /\ frame' \in Nat /\ Requests(toEngine') <= Requests(toEngine)
  BY <1>1, InvParts, SoundRingAssumption
<1>6. /\ epc' \in {"wait", "frame", "unpause", "ended"} /\ epc' # "frame"
      /\ epc' = "unpause" => first
  BY <1>1, AfterEventValues, Zenon
<1>7. SpinInv'
  <2> SUFFICES ASSUME mode = "spin" PROVE SpinInv'
    BY <1>1, Zenon DEF SpinInv
  <2>1. /\ Tokens <= 1 /\ frame \in {rendered, rendered + 1}
        /\ upc = "start" \/ Requests(toEngine) > 0 => frame = rendered
    BY InvParts, Zenon DEF SpinInv
  <2>2. /\ Starting' = Starting /\ Executing = 1 /\ Executing' = 0 /\ Waiting' = 1
    BY <1>1, <1>2, <1>6 DEF Starting, Executing, Waiting
  <2>3. /\ Starting \in {0, 1} /\ Waiting \in {0, 1} /\ Requests(toEngine) \in Nat
    BY InvParts, Counts
  <2>4. Tokens = Starting + Requests(toEngine) + 1 + Waiting
    BY <2>2 DEF Tokens
  <2>5. Waiting = 0
    BY <2>1, <2>3, <2>4
  <2>6. Tokens' = Starting + Requests(toEngine) + 0 + 1
    BY <1>1, <2>2 DEF Tokens
  <2>7. Tokens' <= 1
    BY <2>1, <2>3, <2>4, <2>6
  <2>8. \A e \in toUi : ~e.executed
    BY <2>5 DEF Waiting
  <2>9. \A e \in toUi' : e.executed => e.frame = frame'
    BY <1>1, <1>2, <2>8
  <2>10. frame' \in {rendered', rendered' + 1}
    BY <1>1, <2>1
  <2> QED
    BY <1>1, <2>1, <2>7, <2>9, <2>10, Zenon DEF SpinInv
<1> QED
  BY <1>1, <1>3, <1>4, <1>5, <1>6, <1>7, InvParts, EngineStep, Zenon

\* A request becomes a frame, unless the machine is stopped.
LEMMA EngineFrameKeeps == ASSUME EmInv, EngineFrame PROVE EmInv'
<1> DEFINE ev == [executed |-> FALSE, frame |-> frame]
<1>1. /\ UNCHANGED <<mode, upc, kicks, rendered, first, device, pressed>> /\ UNCHANGED ring
      /\ Taken("frame") /\ held' = held
      /\ \/ /\ toUi' = toUi \cup {ev} /\ epc' = AfterEvent
            /\ frame' = frame /\ left' = left
         \/ /\ frame' = IF frame <= MaxFrame THEN frame + 1 ELSE frame
            /\ left' = IF mode = "sound" THEN FrameSize ELSE 0
            /\ epc' = "frame" /\ toUi' = toUi
  BY Zenon DEF EngineFrame, conf, ui, audio
<1>2. /\ toEngine' \in Seq(Events) /\ epc = "wait" /\ left = 0
      /\ Requests(toEngine') <= Requests(toEngine)
      /\ Requests(toEngine') + 1 <= Requests(toEngine)
  BY <1>1, TakenKeeps, Zenon
<1>3. ev \in Shown /\ ev.executed = FALSE
  BY InvParts DEF Shown
<1> HIDE DEF ev
<1>4. held' \in BOOLEAN
  BY <1>1, InvParts DEF EmTyped
<1>5. toUi' \subseteq Shown /\ (\A e \in toUi' : e.executed => e \in toUi)
  BY <1>1, <1>3, InvParts
<1>6. /\ epc' \in {"wait", "frame", "unpause", "ended"}
      /\ epc' = "unpause" => first
      /\ epc' # "frame" => left' = 0 /\ frame' = frame
  BY <1>1, <1>2, AfterEventValues
<1>7. /\ left' \in 0..FrameSize /\ (left' > 0 => mode = "sound")
      /\ frame' \in {frame, frame + 1} /\ frame' \in Nat
  BY <1>1, <1>2, InvParts, SoundRingAssumption
<1>8. ASSUME EmTyped', RingTyped' PROVE SpinInv'
  <2> SUFFICES ASSUME mode = "spin" PROVE SpinInv'
    BY <1>1, Zenon DEF SpinInv
  <2>1. /\ Requests(toEngine) \in Nat /\ Requests(toEngine') \in Nat
        /\ Requests(toEngine) > 0
    BY <1>2, <1>8, InvParts, CountsNext
  <2>2. Tokens <= 1 /\ frame = rendered
    BY <2>1, InvParts, Zenon DEF SpinInv
  <2>3. /\ Starting' = Starting /\ Starting \in {0, 1} /\ Waiting \in {0, 1}
        /\ Executing \in {0, 1} /\ Executing' \in {0, 1}
        /\ Starting = 1 => upc = "start"
    BY <1>1 DEF Starting, Executing, Waiting
  <2>4. Starting = 0 /\ Waiting = 0 /\ Executing = 0 /\ Requests(toEngine) = 1
    BY <2>1, <2>2, <2>3 DEF Tokens
  <2>5. \A e \in toUi' : ~e.executed
    BY <1>5, <2>4 DEF Waiting
  <2>6. Waiting' = 0
    BY <2>5 DEF Waiting
  <2>7. Requests(toEngine') = 0
    BY <1>2, <2>1, <2>4
  <2>8. Tokens' = 0 + 0 + Executing' + 0
    BY <2>3, <2>4, <2>6, <2>7 DEF Tokens
  <2>9. Tokens' <= 1
    <3>1. \A x \in {0, 1} : 0 + 0 + x + 0 <= 1
      OBVIOUS
    <3> QED
      BY <2>3, <2>8, <3>1, Zenon
  <2>10. upc' # "start" /\ ~(Requests(toEngine') > 0)
    BY <1>1, <2>4, <2>7 DEF Starting
  <2>11. frame' \in {rendered', rendered' + 1}
    BY <1>1, <1>7, <2>2
  <2> QED
    BY <2>5, <2>9, <2>10, <2>11, Zenon DEF SpinInv
<1> QED
  BY <1>1, <1>2, <1>4, <1>5, <1>6, <1>7, <1>8, EngineStep, Zenon

-----------------------------------------------------------------------------
(* The steps that move the ring *)

\* A callback takes a complete buffer, or finds the ring empty.
LEMMA CallbackMoves ==
    ASSUME RingTyped, Callback(epc \in {"reset1", "reset2", "reset3"})
    PROVE  \/ /\ Ahead(wrbuf)' = Ahead(wrbuf) - 1
              /\ starves' = starves /\ wrptr' = wrptr
           \/ /\ Ahead(wrbuf)' = Ahead(wrbuf)
              /\ starves' = starves + 1 /\ wrptr' = 0
<1>1. wrbuf' = wrbuf /\ (Starve \/ Play)
  BY Zenon DEF Callback
<1>2. wrbuf \in Buffers /\ rdbuf \in Buffers
  BY RingValues
<1>3. ASSUME Play
      PROVE  Ahead(wrbuf)' = Ahead(wrbuf) - 1 /\ starves' = starves /\ wrptr' = wrptr
  <2>1. rdbuf' = (rdbuf + 1) % NBuffers /\ wrbuf # rdbuf
    BY <1>3 DEF Play
  <2>2. Distance(wrbuf, rdbuf') = Distance(wrbuf, rdbuf) - 1
    BY <1>2, <2>1, ReaderMoves
  <2>3. Ahead(wrbuf)' = Distance(wrbuf, rdbuf')
    BY <1>1 DEF Ahead
  <2>4. starves' = starves /\ wrptr' = wrptr
    BY <1>3 DEF Play
  <2> QED
    BY <2>2, <2>3, <2>4 DEF Ahead
<1>4. ASSUME Starve
      PROVE  Ahead(wrbuf)' = Ahead(wrbuf) /\ starves' = starves + 1 /\ wrptr' = 0
  BY <1>1, <1>4 DEF Starve, Ahead
<1> QED
  BY <1>1, <1>3, <1>4

LEMMA AudioKeeps == ASSUME EmInv, AudioCallback PROVE EmInv'
<1>1. /\ device /\ Callback(epc \in {"reset1", "reset2", "reset3"})
      /\ toEngine' = Append(toEngine, Request)
      /\ UNCHANGED <<mode, upc, pressed, kicks, rendered, toUi>>
      /\ UNCHANGED <<epc, first, left, held, frame, device>>
  BY Zenon DEF AudioCallback, conf, ui, engine
<1>2. /\ mode' = mode /\ upc' = upc /\ pressed' = pressed /\ kicks' = kicks
      /\ rendered' = rendered /\ toUi' = toUi /\ epc' = epc /\ first' = first
      /\ left' = left /\ held' = held /\ frame' = frame /\ device' = device
  BY <1>1
<1>3. /\ RingTyped' /\ SoundInv' /\ overrun' = overrun
      /\ ~raced' => ~raced /\ epc \notin Resets
  BY <1>1, InvParts, CallbackKeeps, Zenon
<1>4. toEngine' \in Seq(Events) /\ Requests(toEngine') = Requests(toEngine) + 1
  BY <1>1, InvParts, EventsTyped, RequestsAppend
<1>5. EmTyped'
  BY <1>2, <1>4, InvParts, Zenon DEF EmTyped
<1>6. mode = "sound" /\ ~first
  BY <1>1, InvParts, Zenon DEF ResetInv
<1>7. SpinInv'
  <2>1. mode' # "spin"
    BY <1>2, <1>6
  <2> QED
    BY <2>1, Zenon DEF SpinInv
<1>8. /\ Requests(toEngine) \in Int /\ Filling \in {0, 1} /\ starves \in Int /\ kicks \in Int
      /\ Ahead(wrbuf) \in Int /\ left \in Int /\ wrptr \in Nat /\ wrptr \in Int
      /\ FrameSize \in Int /\ left <= left
  BY InvParts, Counts, RingValues
<1>9. Filling' \in {0, 1}
  BY DEF Filling
<1>10. \/ /\ Ahead(wrbuf)' = Ahead(wrbuf) - 1
          /\ starves' = starves /\ wrptr' = wrptr
       \/ /\ Ahead(wrbuf)' = Ahead(wrbuf)
          /\ starves' = starves + 1 /\ wrptr' = 0
  BY <1>1, InvParts, CallbackMoves, Zenon
<1>11. Filling' <= Filling
  <2>1. Filling' = IF wrptr' + left >= FrameSize THEN 1 ELSE 0
    BY <1>2 DEF Filling
  <2>2. wrptr' \in Int /\ wrptr' <= wrptr
    BY <1>8, <1>10
  <2>3. (IF wrptr' + left >= FrameSize THEN 1 ELSE 0)
           <= (IF wrptr + left >= FrameSize THEN 1 ELSE 0)
    BY <1>8, <2>2, FillsLess, Zenon
  <2> QED
    BY <2>1, <2>3 DEF Filling
<1>12. Paid' >= Paid /\ Debt' + Paid <= Debt + Paid'
  <2>1. PICK f \in {0, 1} : f = Filling' /\ f <= Filling
    BY <1>9, <1>11
  <2>2. /\ Debt' = Ahead(wrbuf)' + (Requests(toEngine) + 1) + f
        /\ Paid' = starves' + kicks
    BY <1>2, <1>4, <2>1 DEF Debt, Paid
  <2>3. Debt = Ahead(wrbuf) + Requests(toEngine) + Filling /\ Paid = starves + kicks
    BY DEF Debt, Paid
  <2>4. CASE Ahead(wrbuf)' = Ahead(wrbuf) - 1 /\ starves' = starves
    <3>1. /\ Debt' = (Ahead(wrbuf) - 1) + (Requests(toEngine) + 1) + f
          /\ Paid' = starves + kicks
      BY <2>2, <2>4
    <3>2. Paid' >= Paid
      BY <1>8, <2>3, <3>1
    <3>3. (Ahead(wrbuf) - 1) + (Requests(toEngine) + 1) + f + (starves + kicks)
            <= Ahead(wrbuf) + Requests(toEngine) + Filling + (starves + kicks)
      BY <1>8, <2>1
    <3> QED
      BY <2>3, <3>1, <3>2, <3>3, Zenon
  <2>5. CASE Ahead(wrbuf)' = Ahead(wrbuf) /\ starves' = starves + 1
    <3>1. /\ Debt' = Ahead(wrbuf) + (Requests(toEngine) + 1) + f
          /\ Paid' = (starves + 1) + kicks
      BY <2>2, <2>5
    <3>2. Paid' >= Paid
      BY <1>8, <2>3, <3>1
    <3>3. Ahead(wrbuf) + (Requests(toEngine) + 1) + f + (starves + kicks)
            <= Ahead(wrbuf) + Requests(toEngine) + Filling + ((starves + 1) + kicks)
      BY <1>8, <2>1
    <3> QED
      BY <2>3, <3>1, <3>2, <3>3, Zenon
  <2> QED
    BY <1>10, <2>4, <2>5
<1>13. OwedInv'
  BY <1>2, <1>3, <1>5, <1>12, InvParts, OwedKept, Zenon
<1>14. ResetInv'
  <2>1. (first' <=> first) /\ (device' <=> device)
    BY <1>2
  <2>2. epc \in {"reset2", "reset3"} => wrptr' = 0
    <3>1. epc \in {"reset2", "reset3"} => wrptr = 0
      BY InvParts, Zenon DEF ResetInv
    <3> QED
      BY <1>10, <3>1
  <2>3. ~raced' /\ (~device' \/ epc' \in Resets) => rdbuf' = 0
    BY <1>1, <1>2, <1>3, <2>1, Zenon
  <2>4. /\ epc' = "unpause" => first'
        /\ first' => ~device'
        /\ device' => mode' = "sound"
    BY <1>2, <2>1, InvParts, Zenon DEF ResetInv
  <2>5. /\ epc' # "frame" => left' = 0
        /\ left' > 0 => mode' = "sound"
    BY <1>2, InvParts, Zenon DEF ResetInv
  <2> QED
    BY <1>2, <2>2, <2>3, <2>4, <2>5, Zenon DEF ResetInv
<1> QED
  BY <1>3, <1>5, <1>7, <1>13, <1>14, Zenon DEF EmInv

\* A complete buffer was under way; the last one there is was paid for.
LEMMA SampleKeeps == ASSUME EmInv, EngineSample PROVE EmInv'
<1>1. /\ epc = "frame" /\ left > 0 /\ left' = left - 1 /\ Sample
      /\ mode' = mode /\ upc' = upc /\ pressed' = pressed /\ kicks' = kicks
      /\ rendered' = rendered /\ toEngine' = toEngine /\ toUi' = toUi /\ epc' = epc
      /\ first' = first /\ held' = held /\ frame' = frame /\ device' = device
  BY Zenon DEF EngineSample, conf, ui, audio
<1>2. RingTyped' /\ SoundInv'
  BY <1>1, InvParts, SampleMoves, SampleOrder, Zenon
<1>3. left \in 1..FrameSize /\ left' \in 0..FrameSize /\ left \in Int
  BY <1>1, InvParts, SoundRingAssumption DEF EmTyped
<1>4. EmTyped'
  BY <1>1, <1>3, InvParts, Zenon DEF EmTyped
<1>5. mode = "sound"
  BY <1>1, InvParts, Zenon DEF ResetInv
<1>6. SpinInv'
  <2>1. mode' # "spin"
    BY <1>1, <1>5
  <2> QED
    BY <2>1, Zenon DEF SpinInv
<1>7. rdbuf' = rdbuf /\ (raced' <=> raced) /\ starves' = starves
  <2>1. rdbuf' = rdbuf /\ raced' = raced /\ starves' = starves
    BY <1>1, Zenon DEF Sample
  <2> QED
    BY <2>1
<1>8. ResetInv'
  <2>1. (first' <=> first) /\ (device' <=> device)
    BY <1>1
  <2>2. epc' = "frame" /\ epc' \notin {"reset2", "reset3"} /\ epc' \notin Resets
        /\ epc' # "unpause"
    BY <1>1 DEF Resets
  <2>3. mode' = "sound"
    BY <1>1, <1>5
  <2>4. first' => ~device'
    BY <2>1, InvParts, Zenon DEF ResetInv
  <2>5. ~raced' /\ ~device' => rdbuf' = 0
    BY <1>7, <2>1, InvParts, Zenon DEF ResetInv
  <2> QED
    BY <2>2, <2>3, <2>4, <2>5, Zenon DEF ResetInv
<1>9. /\ Requests(toEngine) \in Nat /\ Paid \in Nat /\ Ahead(wrbuf) \in Int
      /\ wrptr \in Nat /\ wrptr < FrameSize /\ FrameSize \in Nat \ {0} /\ Debt \in Int
      /\ Filling \in {0, 1} /\ Filling \in Int
      /\ NBuffers \in Nat
  <2>1. /\ Requests(toEngine) \in Nat /\ Paid \in Nat /\ Debt \in Int
        /\ Filling \in {0, 1}
    BY InvParts, Counts
  <2>2. /\ wrptr \in Nat /\ wrptr < FrameSize /\ FrameSize \in Nat \ {0}
        /\ Ahead(wrbuf) \in Int /\ NBuffers \in Nat
    BY InvParts, RingValues
  <2> QED
    BY <2>1, <2>2
<1>10. Paid' = Paid
  BY <1>1, <1>7 DEF Paid
<1>11. OwedInv'
  <2>1. CASE wrptr + 1 < FrameSize
    <3>1. wrptr' = wrptr + 1 /\ wrbuf' = wrbuf /\ overrun' = overrun
      BY <1>1, <2>1, InvParts, SampleMoves, Zenon
    <3>2. Ahead(wrbuf)' = Ahead(wrbuf)
      BY <1>7, <3>1 DEF Ahead
    <3>3. (wrptr + 1) + (left - 1) = wrptr + left
      BY <1>3, <1>9
    <3>4. Filling' = Filling
      <4>1. Filling' = IF (wrptr + 1) + (left - 1) >= FrameSize THEN 1 ELSE 0
        BY <1>1, <3>1 DEF Filling
      <4> QED
        BY <3>3, <4>1 DEF Filling
    <3>5. Debt' = Debt
      BY <1>1, <3>2, <3>4 DEF Debt
    <3>6. Paid' >= Paid /\ Debt' + Paid <= Debt + Paid'
      BY <1>9, <1>10, <3>5
    <3>7. ~raced' => ~raced
      BY <1>7
    <3> QED
      BY <1>1, <1>2, <1>4, <3>1, <3>6, <3>7, InvParts, OwedKept, Zenon
  <2>2. CASE wrptr + 1 = FrameSize
    <3>1. wrptr' = 0
      BY <1>1, <2>2, InvParts, SampleMoves, Zenon
    <3>2. Filling = 1
      BY <1>3, <1>9, <2>2 DEF Filling
    <3>3. Filling' = 0
      <4>1. Filling' = IF 0 + (left - 1) >= FrameSize THEN 1 ELSE 0
        BY <1>1, <3>1 DEF Filling
      <4>2. ~(0 + (left - 1) >= FrameSize)
        BY <1>3, <1>9
      <4> QED
        BY <4>1, <4>2
    <3> SUFFICES ASSUME ~raced'
                 PROVE  (overrun' => Paid' >= NBuffers) /\ (~overrun' => Debt' <= Paid')
      BY <1>1, <1>5, Zenon DEF OwedInv
    <3>4. (overrun => Paid >= NBuffers) /\ (~overrun => Debt <= Paid)
      BY <1>5, <1>7, InvParts, Zenon DEF OwedInv
    <3>5. CASE wrbuf' = rdbuf
      <4>1. overrun' /\ Ahead(wrbuf) + 1 = NBuffers
        BY <1>1, <2>2, <3>5, InvParts, SampleMoves, Zenon
      <4>2. Debt <= Paid => NBuffers <= Paid
        BY <1>9, <3>2, <4>1 DEF Debt
      <4>3. Paid' >= NBuffers
        BY <1>9, <1>10, <3>4, <4>2
      <4> QED
        BY <4>1, <4>3
    <3>6. CASE wrbuf' # rdbuf
      <4>1. overrun' = overrun /\ Ahead(wrbuf)' = Ahead(wrbuf) + 1
        BY <1>1, <2>2, <3>6, InvParts, SampleMoves, Zenon
      <4>2. Debt' = (Ahead(wrbuf) + 1) + Requests(toEngine) + 0
        BY <1>1, <3>3, <4>1 DEF Debt
      <4>3. Debt = Ahead(wrbuf) + Requests(toEngine) + 1
        BY <3>2 DEF Debt
      <4>4. Debt' = Debt
        BY <1>9, <4>2, <4>3
      <4>5. overrun' <=> overrun
        BY <4>1
      <4> QED
        BY <1>10, <3>4, <4>4, <4>5, Zenon
    <3> QED
      BY <3>5, <3>6
  <2> QED
    BY <1>9, <2>1, <2>2
<1> QED
  BY <1>2, <1>4, <1>6, <1>8, <1>11, Zenon DEF EmInv

\* Until the device is unpaused nobody has read the ring.
LEMMA UnpauseKeeps == ASSUME EmInv, EngineUnpause PROVE EmInv'
<1>1. /\ epc = "unpause" /\ first' = FALSE /\ device' = (mode = "sound") /\ epc' = "reset1"
      /\ UNCHANGED ring
      /\ mode' = mode /\ upc' = upc /\ pressed' = pressed /\ kicks' = kicks
      /\ rendered' = rendered /\ toEngine' = toEngine /\ toUi' = toUi
      /\ left' = left /\ held' = held /\ frame' = frame
  BY Zenon DEF EngineUnpause, conf, ui
<1>2. /\ RingTyped' /\ SoundInv'
      /\ Ahead(wrbuf)' = Ahead(wrbuf) /\ wrptr' = wrptr /\ starves' = starves
      /\ rdbuf' = rdbuf /\ overrun' = overrun /\ raced' = raced
  BY <1>1, InvParts, RingUnchanged, Zenon
<1>3. /\ first' \in BOOLEAN /\ device' \in BOOLEAN
      /\ epc' \in {"wait", "frame", "unpause", "ended"} \cup Resets
      /\ epc' # "frame" /\ epc # "frame" /\ epc' # "unpause" /\ epc' \notin {"reset2", "reset3"}
  BY <1>1 DEF Resets
<1>4. EmTyped'
  BY <1>1, <1>3, InvParts, Zenon DEF EmTyped
<1>5. first /\ ~device /\ left = 0 /\ (~raced => rdbuf = 0)
  BY <1>1, <1>3, InvParts, Zenon DEF ResetInv
<1>6. ResetInv'
  <2>1. ~first' /\ (device' => mode' = "sound")
    BY <1>1, Zenon
  <2>3. left' = 0 /\ ~(left' > 0)
    BY <1>1, <1>5
  <2>2. ~raced' => rdbuf' = 0
    BY <1>2, <1>5
  <2> QED
    BY <1>3, <2>1, <2>2, <2>3, Zenon DEF ResetInv
<1>7. Debt' = Debt /\ Paid' = Paid /\ Debt \in Int /\ Paid \in Nat
  <2>1. Filling' = Filling
    BY <1>1, <1>2 DEF Filling
  <2> QED
    BY <1>1, <1>2, <2>1, InvParts, Counts DEF Debt, Paid
<1>8. Paid' >= Paid /\ Debt' + Paid <= Debt + Paid' /\ (~raced' => ~raced)
  BY <1>2, <1>7
<1>9. OwedInv'
  BY <1>1, <1>2, <1>4, <1>8, InvParts, OwedKept, Zenon
<1>10. Requests(toEngine') <= Requests(toEngine)
  BY <1>1, InvParts
<1>11. SpinInv'
  BY <1>1, <1>2, <1>3, <1>4, <1>10, InvParts, SpinKept, Zenon
<1> QED
  BY <1>2, <1>4, <1>6, <1>9, <1>11, Zenon DEF EmInv

LEMMA EngineResetKeeps == ASSUME EmInv, EngineReset PROVE EmInv'
<1>1. PICK step \in 1..3 :
         /\ epc = <<"reset1", "reset2", "reset3">>[step] /\ PauseReset(step)
         /\ epc' = <<"reset2", "reset3", "wait">>[step]
         /\ UNCHANGED <<conf, ui, toEngine, toUi, first, left, terminate, held, frame,
                        stopped, gdb, audio>>
  BY Zenon DEF EngineReset
<1>2. /\ mode' = mode /\ upc' = upc /\ pressed' = pressed /\ kicks' = kicks
      /\ rendered' = rendered /\ toEngine' = toEngine /\ toUi' = toUi
      /\ left' = left /\ held' = held /\ frame' = frame /\ first' = first /\ device' = device
  BY <1>1, Zenon DEF conf, ui, audio
<1>3. /\ RingTyped' /\ SoundInv'
      /\ overrun' = overrun /\ raced' = raced /\ starves' = starves
      /\ ~raced => /\ rdbuf = 0 /\ rdbuf' = 0 /\ wrptr' <= wrptr
                   /\ Ahead(wrbuf)' <= Ahead(wrbuf)
      /\ step # 3 => wrptr' = 0
  BY <1>1, InvParts, PauseKeeps, Zenon
<1>4. /\ epc \in Resets /\ epc # "frame" /\ epc' # "frame" /\ epc' # "unpause"
      /\ epc' \in {"wait", "frame", "unpause", "ended"} \cup Resets
      /\ epc' \in {"reset2", "reset3"} => step # 3
  BY <1>1 DEF Resets
<1>5. EmTyped'
  BY <1>2, <1>4, InvParts, Zenon DEF EmTyped
<1>6. left = 0
  BY <1>4, InvParts, Zenon DEF ResetInv
<1>7. ResetInv'
  <2>1. (first' <=> first) /\ (device' <=> device) /\ (raced' <=> raced)
    BY <1>2, <1>3
  <2>2. left' = 0 /\ ~(left' > 0)
    BY <1>2, <1>6
  <2>3. ~raced' => rdbuf' = 0
    BY <1>3, <2>1
  <2>4. (first' => ~device') /\ (device' => mode' = "sound")
    BY <1>2, <2>1, InvParts, Zenon DEF ResetInv
  <2>5. epc' \in {"reset2", "reset3"} => wrptr' = 0
    BY <1>3, <1>4, Zenon
  <2> QED
    BY <1>4, <2>2, <2>3, <2>4, <2>5, Zenon DEF ResetInv
<1>8. Paid' = Paid /\ Paid \in Nat
  BY <1>2, <1>3, InvParts, Counts DEF Paid
<1>9. ~raced => Debt' + Paid <= Debt + Paid
  <2> SUFFICES ASSUME ~raced PROVE Debt' + Paid <= Debt + Paid
    OBVIOUS
  <2>1. wrptr' \in Int /\ wrptr' <= wrptr
    BY <1>3, SoundRingAssumption DEF RingTyped
  <2>2. wrptr \in Int /\ left \in Int /\ FrameSize \in Int /\ left <= left
    BY <1>6, InvParts, RingValues
  <2>3. Filling' = IF wrptr' + left >= FrameSize THEN 1 ELSE 0
    BY <1>2 DEF Filling
  <2>4. Filling' <= Filling
    <3>1. Filling = IF wrptr + left >= FrameSize THEN 1 ELSE 0
      BY DEF Filling
    <3> QED
      BY <2>1, <2>2, <2>3, <3>1, FillsLess, Zenon
  <2>5. /\ Ahead(wrbuf)' \in Int /\ Ahead(wrbuf) \in Int /\ Requests(toEngine) \in Int
        /\ Filling' \in Int /\ Filling \in Int /\ Paid \in Int
    <3>1. Ahead(wrbuf)' \in Int
      <4>1. wrbuf' \in Buffers /\ rdbuf' \in Buffers
        BY <1>3 DEF RingTyped
      <4> QED
        BY <4>1, DistanceTyped DEF Ahead
    <3>2. Filling' \in Int
      BY <2>3
    <3>3. Filling \in Int /\ Paid \in Int /\ Requests(toEngine) \in Int
      BY InvParts, Counts
    <3>4. Ahead(wrbuf) \in Int
      BY InvParts, RingValues
    <3> QED
      BY <3>1, <3>2, <3>3, <3>4
  <2>6. Debt' = Ahead(wrbuf)' + Requests(toEngine) + Filling'
    BY <1>2 DEF Debt
  <2>7. \A a \in Int, a2 \in Int, r \in Int, f \in Int, f2 \in Int, p \in Int :
           a2 <= a /\ f2 <= f => a2 + r + f2 + p <= a + r + f + p
    OBVIOUS
  <2> QED
    BY <1>3, <2>4, <2>5, <2>6, <2>7, Zenon DEF Debt
<1>10. Paid' >= Paid /\ (~raced' => ~raced) /\ (~raced' => Debt' + Paid <= Debt + Paid')
  BY <1>3, <1>8, <1>9
<1>11. OwedInv'
  BY <1>2, <1>3, <1>5, <1>10, InvParts, OwedKept, Zenon
<1>12. Requests(toEngine') <= Requests(toEngine)
  BY <1>2, InvParts
<1>13. upc' = "start" => upc = "start"
  BY <1>2
<1>14. SpinInv'
  BY <1>2, <1>3, <1>4, <1>5, <1>12, <1>13, InvParts, SpinKept, Zenon
<1> QED
  BY <1>3, <1>5, <1>7, <1>11, <1>14, Zenon DEF EmInv

-----------------------------------------------------------------------------
(* The theorems *)

LEMMA InitInv == Init => EmInv
<1> SUFFICES ASSUME Init PROVE EmInv
  OBVIOUS
<1> USE SoundRingAssumption
<1>1. /\ mode \in Modes /\ upc = "start" /\ pressed = FALSE /\ held = FALSE
      /\ toEngine = <<>> /\ toUi = {} /\ epc = "wait" /\ first = TRUE /\ left = 0
      /\ frame = 0 /\ rendered = 0 /\ device = FALSE /\ kicks = 0
  BY Zenon DEF Init
<1>2. /\ buffer = [b \in Buffers |-> [i \in 1..FrameSize |-> 0]]
      /\ wrbuf = 0 /\ rdbuf = 0 /\ wrptr = 0 /\ serial = 1 /\ heard = 0 /\ played = <<>>
      /\ starves = 0 /\ overrun = FALSE /\ raced = FALSE
  BY Zenon DEF Init, RingInit, Buffers
<1>3. EmTyped
  <2>1. toEngine \in Seq(Events) /\ toUi \subseteq Shown
    BY <1>1
  <2>2. /\ upc \in {"start", "loop", "join", "done"}
        /\ epc \in {"wait", "frame", "unpause", "ended"} \cup Resets
    BY <1>1
  <2>3. /\ left \in 0..FrameSize /\ frame \in Nat /\ rendered \in Nat /\ kicks \in Nat
    BY <1>1
  <2>4. first \in BOOLEAN /\ device \in BOOLEAN /\ pressed \in BOOLEAN /\ held \in BOOLEAN
    BY <1>1
  <2> QED
    BY <1>1, <2>1, <2>2, <2>3, <2>4, Zenon DEF EmTyped
<1>4. RingTyped
  BY <1>2 DEF RingTyped, Buffers
<1>5. Ahead(wrbuf) = 0 /\ \A b \in Buffers : Ahead(b) \in Nat
  <2>1. \A b \in Buffers : Ahead(b) \in 0..(NBuffers - 1)
    BY <1>4, RingValues
  <2> QED
    BY <1>2, <1>4, <2>1, RingValues
<1>6. SoundInv
  <2>1. InOrder
    BY <1>2 DEF InOrder
  <2>2. Newest = 0
    BY <1>2 DEF Newest
  <2>3. \A b \in Buffers, i \in 1..FrameSize : ~Unplayed(b, i)
    BY <1>2, <1>5 DEF Unplayed
  <2>4. RingOrder
    BY <1>2, <2>2, <2>3 DEF RingOrder
  <2> QED
    BY <2>1, <2>4, Zenon DEF SoundInv
<1>7. ResetInv
  BY <1>1, <1>2 DEF ResetInv
<1>8. Requests(toEngine) = 0
  BY <1>1, EmptyQueue
<1>9. OwedInv
  <2>1. Filling = 0
    BY <1>1, <1>2 DEF Filling
  <2>2. Debt = 0 /\ Paid = 0
    BY <1>1, <1>2, <1>5, <1>8, <2>1 DEF Debt, Paid
  <2> QED
    BY <1>2, <2>2 DEF OwedInv
<1>10. SpinInv
  <2>1. Starting = 1 /\ Executing = 0 /\ Waiting = 0
    BY <1>1 DEF Starting, Executing, Waiting
  <2> QED
    BY <1>1, <1>8, <2>1 DEF SpinInv, Tokens
<1> QED
  BY <1>3, <1>4, <1>6, <1>7, <1>9, <1>10, Zenon DEF EmInv

\* Every step keeps the invariant.
LEMMA NextInv == EmInv /\ [Next]_vars => EmInv'
<1> SUFFICES ASSUME EmInv, [Next]_vars PROVE EmInv'
  OBVIOUS
<1>1. CASE TimerTick
  BY <1>1, TimerKeeps, Zenon
<1>2. CASE AudioCallback
  BY <1>2, AudioKeeps, Zenon
<1>3. CASE Packet \/ UNCHANGED vars
  BY <1>3, PacketKeeps, Zenon
<1>4. CASE UiStart \/ UiRender \/ UiJoin
  BY <1>4, UiStartKeeps, UiRenderKeeps, UiJoinKeeps, Zenon
<1>5. CASE UiKey \/ UiPauseKey \/ UiQuit \/ UiExposed
  BY <1>5, UiInputKeeps, UiExposedKeeps, Zenon
<1>6. CASE EngineFrame \/ EngineRendered
  BY <1>6, EngineFrameKeeps, EngineRenderedKeeps, Zenon
<1>7. CASE EngineSample \/ EngineUnpause \/ EngineReset
  BY <1>7, SampleKeeps, UnpauseKeeps, EngineResetKeeps, Zenon
<1>8. CASE EngineKey \/ EngineQuit \/ EngineEnd
  BY <1>8, EngineInputKeeps, Zenon
<1> QED
  BY <1>1, <1>2, <1>3, <1>4, <1>5, <1>6, <1>7, <1>8, Zenon DEF Next, Ui, Engine

\* The invariant of the emulator's threads.
THEOREM ThreadsInvariant == Spec => []EmInv
BY InitInv, NextInv, PTL DEF Spec

\* For any number of buffers of any size: what callback() plays is what sample()
\* produced, in order, until the writer laps the reader, which takes as many
\* callbacks that found the ring empty, or exposed windows, as there are buffers.
THEOREM SoundInOrder == Spec => []HeardInOrder
<1>1. EmInv => HeardInOrder
  <2> SUFFICES ASSUME EmInv PROVE HeardInOrder
    OBVIOUS
  <2>1. InOrder
    BY InvParts, Zenon DEF SoundInv
  <2>2. overrun => mode = "sound"
    BY InvParts, Zenon DEF OwedInv
  <2>3. overrun /\ ~raced => Paid >= NBuffers
    BY <2>2, InvParts, Zenon DEF OwedInv
  <2> QED
    BY <2>1, <2>3, Zenon DEF HeardInOrder, Paid
<1> QED
  BY <1>1, ThreadsInvariant, PTL

\* In a test run, without sound and window, each frame that handle_render()
\* shows is the one after the frame it showed before, so that --save-frame
\* writes what it names.
THEOREM FramesInOrder == Spec => [][ShowsNextFrame]_vars
<1>1. EmInv /\ [Next]_vars => [ShowsNextFrame]_vars
  <2> SUFFICES ASSUME EmInv, Next, mode = "spin", rendered' # rendered
               PROVE  rendered' = rendered + 1
    BY Zenon DEF ShowsNextFrame
  <2>1. CASE UiRender
    BY <2>1, UiRenderKeeps, Zenon
  <2>2. CASE ~UiRender
    <3>1. rendered' = rendered
      BY <2>2, Zenon DEF Next, Ui, Engine, TimerTick, AudioCallback, Packet, UiStart, UiJoin,
         UiKey, UiPauseKey, UiExposed, UiQuit, EngineFrame, EngineSample, EngineRendered,
         EngineKey, EngineQuit, EngineUnpause, EngineReset, EngineEnd, ui
    <3> QED
      BY <3>1
  <2> QED
    BY <2>1, <2>2
<1> QED
  BY <1>1, ThreadsInvariant, PTL DEF Spec

-----------------------------------------------------------------------------
(* Keys on their way *)

LEMMA KeysAppendOther ==
    ASSUME NEW q \in Seq(Events), NEW e \in Events, e.type # "key",
           NEW h, NEW p, KeysTell(q, h, p)
    PROVE  KeysTell(Append(q, e), h, p)
<1> DEFINE n == Len(q) + 1
           t == Append(q, e)
<1>1. /\ Len(q) \in Nat /\ Len(t) = n /\ t[n] = e
      /\ \A i \in 1..Len(q) : t[i] = q[i]
  OBVIOUS
<1>2. \A i \in 1..n : i \in 1..Len(q) \/ i = n
  BY <1>1
<1>3. ASSUME \A i \in 1..n : t[i].type # "key" PROVE h = p
  <2>1. \A i \in 1..Len(q) : i \in 1..n
    BY <1>1
  <2>2. \A i \in 1..Len(q) : q[i].type # "key"
    BY <1>1, <1>3, <2>1
  <2> QED
    BY <2>2 DEF KeysTell
<1>4. ASSUME NEW i \in 1..n, t[i].type = "key", \A j \in (i + 1)..n : t[j].type # "key"
      PROVE  t[i].down = p
  <2>1. i \in 1..Len(q) /\ t[i] = q[i]
    BY <1>1, <1>2, <1>4
  <2>2. \A j \in (i + 1)..Len(q) : j \in 1..Len(q) /\ j \in (i + 1)..n
    BY <1>1, <2>1
  <2>3. \A j \in (i + 1)..Len(q) : q[j].type # "key"
    BY <1>1, <1>4, <2>2
  <2> QED
    BY <1>4, <2>1, <2>3 DEF KeysTell
<1> HIDE DEF t
<1> QED
  BY <1>1, <1>3, <1>4 DEF KeysTell, t

LEMMA KeysAppendKey ==
    ASSUME NEW q \in Seq(Events), NEW h, NEW d \in BOOLEAN
    PROVE  KeysTell(Append(q, Key(d)), h, d)
<1> DEFINE n == Len(q) + 1
           t == Append(q, Key(d))
<1>1. Len(q) \in Nat /\ Len(t) = n /\ t[n] = Key(d)
  OBVIOUS
<1>2. Key(d).type = "key" /\ Key(d).down = d
  BY DEF Key
<1>3. n \in 1..n /\ t[n].type = "key" /\ t[n].down = d
  BY <1>1, <1>2
<1>4. \A i \in 1..n : i # n => n \in (i + 1)..n
  BY <1>1
<1> HIDE DEF t
<1> QED
  BY <1>1, <1>3, <1>4 DEF KeysTell, t

\* The engine takes the keys one by one.
LEMMA KeysTail ==
    ASSUME NEW q \in Seq(Events), q # <<>>, NEW h, NEW p, NEW h2, KeysTell(q, h, p),
           Head(q).type = "key" => h2 = Head(q).down,
           Head(q).type # "key" => h2 = h
    PROVE  KeysTell(Tail(q), h2, p)
<1> DEFINE t == Tail(q)
<1>1. /\ Len(q) \in Nat \ {0} /\ Len(t) = Len(q) - 1 /\ Head(q) = q[1]
      /\ \A i \in 1..Len(t) : t[i] = q[i + 1]
  OBVIOUS
<1>2. \A j \in 2..Len(q) : j - 1 \in 1..Len(t) /\ q[j] = t[j - 1]
  BY <1>1
<1>3. ASSUME \A i \in 1..Len(t) : t[i].type # "key" PROVE h2 = p
  <2>1. \A j \in 2..Len(q) : q[j].type # "key"
    BY <1>2, <1>3
  <2>2. 1 \in 1..Len(q) /\ 1 + 1 = 2 /\ \A i \in 1..Len(q) : i = 1 \/ i \in 2..Len(q)
    BY <1>1
  <2>3. CASE Head(q).type = "key"
    BY <1>1, <2>1, <2>2, <2>3 DEF KeysTell
  <2>4. CASE Head(q).type # "key"
    <3>1. \A i \in 1..Len(q) : q[i].type # "key"
      BY <1>1, <2>1, <2>2, <2>4
    <3> QED
      BY <2>4, <3>1 DEF KeysTell
  <2> QED
    BY <2>3, <2>4
<1>4. ASSUME NEW i \in 1..Len(t), t[i].type = "key",
             \A j \in (i + 1)..Len(t) : t[j].type # "key"
      PROVE  t[i].down = p
  <2>1. i + 1 \in 1..Len(q) /\ t[i] = q[i + 1]
    BY <1>1
  <2>2. \A j \in (i + 1 + 1)..Len(q) : j \in 2..Len(q) /\ j - 1 \in (i + 1)..Len(t)
    BY <1>1
  <2>3. \A j \in (i + 1 + 1)..Len(q) : q[j].type # "key"
    BY <1>2, <1>4, <2>2
  <2> QED
    BY <1>4, <2>1, <2>3 DEF KeysTell
<1> HIDE DEF t
<1> QED
  BY <1>3, <1>4 DEF KeysTell, t

LEMMA KeysRender ==
    ASSUME EmInv, KeysUnderWay, UiRender
    PROVE  KeysUnderWay'
<1>1. PICK ev \in toUi :
         toEngine' = toEngine \o (IF ev.executed /\ mode = "spin" THEN <<Request>> ELSE <<>>)
                        \o (IF ev.executed /\ limited /\ ev.frame >= MaxFrame
                              THEN <<Quit>> ELSE <<>>)
  BY Zenon DEF UiRender
<1>2. held' = held /\ pressed' = pressed
  BY Zenon DEF UiRender, engine
<1>3. Request \in Events /\ Quit \in Events /\ Request.type # "key" /\ Quit.type # "key"
  <2>1. Request.type # "key" /\ Quit.type # "key"
    BY DEF Request, Quit
  <2> QED
    BY <2>1, EventsTyped
<1>4. toEngine \in Seq(Events) /\ KeysTell(toEngine, held, pressed)
  BY InvParts, Zenon DEF KeysUnderWay
<1>5. PICK s : s = toEngine \o (IF ev.executed /\ mode = "spin" THEN <<Request>> ELSE <<>>)
  OBVIOUS
<1>6. s = Append(toEngine, Request) \/ s = toEngine
  BY <1>3, <1>4, <1>5, AppendIsConcat, ConcatEmptySeq
<1>7. s \in Seq(Events)
  BY <1>3, <1>4, <1>6, RequestsAppend
<1>8. KeysTell(s, held, pressed)
  BY <1>3, <1>4, <1>6, KeysAppendOther, Zenon
<1>9. toEngine' = Append(s, Quit) \/ toEngine' = s
  BY <1>1, <1>3, <1>5, <1>7, AppendIsConcat, ConcatEmptySeq
<1>10. KeysTell(toEngine', held, pressed)
  BY <1>3, <1>7, <1>8, <1>9, KeysAppendOther, Zenon
<1> QED
  BY <1>2, <1>10, Zenon DEF KeysUnderWay

LEMMA KeysNext == EmInv /\ KeysUnderWay /\ [Next]_vars => KeysUnderWay'
<1> SUFFICES ASSUME EmInv, KeysUnderWay, [Next]_vars PROVE KeysUnderWay'
  OBVIOUS
<1>1. /\ toEngine \in Seq(Events) /\ KeysTell(toEngine, held, pressed)
      /\ pressed \in BOOLEAN
  BY InvParts, Zenon DEF KeysUnderWay
<1>2. /\ Request \in Events /\ Quit \in Events /\ Pause \in Events
      /\ Request.type # "key" /\ Quit.type # "key" /\ Pause.type # "key"
  <2>1. Request.type # "key" /\ Quit.type # "key" /\ Pause.type # "key"
    BY DEF Request, Quit, Pause
  <2> QED
    BY <2>1, EventsTyped
<1>3. ASSUME \E e \in {Request, Quit, Pause} : toEngine' = Append(toEngine, e),
             held' = held, pressed' = pressed
      PROVE  KeysUnderWay'
  <2>1. KeysTell(toEngine', held, pressed)
    BY <1>1, <1>2, <1>3, KeysAppendOther, Zenon
  <2> QED
    BY <1>3, <2>1, Zenon DEF KeysUnderWay
<1>4. ASSUME toEngine' = toEngine, held' = held, pressed' = pressed PROVE KeysUnderWay'
  BY <1>1, <1>4, Zenon DEF KeysUnderWay
<1>5. CASE TimerTick \/ AudioCallback \/ UiPauseKey \/ UiExposed \/ UiQuit
  <2>1. /\ \E e \in {Request, Quit, Pause} : toEngine' = Append(toEngine, e)
        /\ held' = held /\ pressed' = pressed
    BY <1>5, Zenon DEF TimerTick, AudioCallback, UiPauseKey, UiExposed, UiQuit, ui, engine
  <2> QED
    BY <1>3, <2>1
<1>6. CASE UiStart
  <2>1. /\ toEngine' = Append(toEngine, Request) \/ toEngine' = toEngine
        /\ held' = held /\ pressed' = pressed
    BY <1>6, Zenon DEF UiStart, engine
  <2> QED
    BY <1>3, <1>4, <2>1, Zenon
<1>7. CASE UiKey
  <2>1. toEngine' = Append(toEngine, Key(~pressed)) /\ pressed' = ~pressed
    BY <1>7, Zenon DEF UiKey
  <2>2. PICK d \in BOOLEAN : d = ~pressed
    BY <1>1
  <2>3. KeysTell(toEngine', held', d)
    BY <1>1, <2>1, <2>2, KeysAppendKey
  <2> QED
    BY <2>1, <2>2, <2>3, Zenon DEF KeysUnderWay
<1>8. CASE EngineFrame \/ EngineQuit \/ EngineKey
  <2>1. PICK type : Taken(type) /\ (type = "key" => held' = Head(toEngine).down)
                    /\ (type # "key" => held' = held)
    <3>1. "frame" # "key" /\ "quit" # "key" /\ "pause" # "key"
      OBVIOUS
    <3> QED
      BY <1>8, <3>1, Zenon DEF EngineFrame, EngineQuit, EngineKey
  <2>2. /\ toEngine # <<>> /\ toEngine' = Tail(toEngine) /\ Head(toEngine).type = type
    BY <2>1, Zenon DEF Taken
  <2>3. pressed' = pressed
    BY <1>8, Zenon DEF EngineFrame, EngineQuit, EngineKey, ui
  <2>4. KeysTell(toEngine', held', pressed)
    BY <1>1, <2>1, <2>2, KeysTail, Zenon
  <2> QED
    BY <2>3, <2>4, Zenon DEF KeysUnderWay
<1>9. CASE UiRender
  BY <1>9, KeysRender, Zenon
<1>10. CASE Packet \/ UiJoin \/ UNCHANGED vars
  <2>1. toEngine' = toEngine /\ held' = held /\ pressed' = pressed
    BY <1>10, Zenon DEF Packet, UiJoin, vars, ui, engine
  <2> QED
    BY <1>4, <2>1
<1>11. CASE EngineSample \/ EngineRendered \/ EngineUnpause \/ EngineReset \/ EngineEnd
  <2>1. toEngine' = toEngine /\ held' = held /\ pressed' = pressed
    BY <1>11, Zenon DEF EngineSample, EngineRendered, EngineUnpause, EngineReset, EngineEnd, ui
  <2> QED
    BY <1>4, <2>1
<1> QED
  BY <1>5, <1>6, <1>7, <1>8, <1>9, <1>10, <1>11, Zenon DEF Next, Ui, Engine

\* Key events that handle_keydown() and handle_keyup() have yet to see are in
\* the queue in their order: the last one tells whether the key is down, and
\* when there is none the keyboard matrix holds what is pressed.
THEOREM KeysArrive == Spec => []KeysUnderWay
<1>1. Init => KeysUnderWay
  <2> SUFFICES ASSUME Init PROVE KeysUnderWay
    OBVIOUS
  <2>1. toEngine = <<>> /\ held = FALSE /\ pressed = FALSE
    BY Zenon DEF Init
  <2>2. held = pressed /\ Len(toEngine) = 0
    BY <2>1
  <2>3. \A i \in 1..Len(toEngine) : FALSE
    BY <2>2
  <2> QED
    BY <2>2, <2>3, Zenon DEF KeysUnderWay, KeysTell
<1> QED
  BY <1>1, KeysNext, ThreadsInvariant, PTL DEF Spec
==============================================================================
