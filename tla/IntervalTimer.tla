--------------------------- MODULE IntervalTimer ----------------------------
(***************************************************************************)
(* A counter of the i8253 timer (CounterUnit), as a program sets, reads    *)
(* and latches it through ports 08h-0Bh while the sound clock counts it.   *)
(* A byte has TmBase values, 256 in the machine; BCD counting is left out. *)
(***************************************************************************)
EXTENDS Integers

CONSTANTS
    TmBase,     \* values of a byte: an even number, or the full count is odd
    TmMaxOps    \* bound: port accesses

TmFull == TmBase * TmBase
NoLatch == -1

ASSUME TimerAssumption == TmBase \in Nat \ {0} /\ TmBase % 2 = 0 /\ TmMaxOps \in Nat

VARIABLES
    ct,       \* the counter
    tmSince,  \* ghost: clocks since OUT rose, in one stretch of mode 3
    tmRead,   \* ghost: the latched value and the bytes read of it
    tmBad,    \* ghost: a value was loaded that the chip does not allow
    tmOps     \* against TmMaxOps

tmvars == <<ct, tmSince, tmRead, tmBad, tmOps>>

\* Globals are zero; latch_value is set by the constructor.
TmInit ==
    /\ ct = [mode |-> 0, access |-> 0, out |-> 0, value |-> 0, load |-> FALSE,
             enabled |-> FALSE, armed |-> FALSE, delay |-> 0, state |-> 0, lsb |-> 0,
             loadvalue |-> 0, latch |-> NoLatch]
    /\ tmSince = [n |-> 0, known |-> FALSE, period |-> 0]
    /\ tmRead = [latched |-> NoLatch, lsb |-> NoLatch, msb |-> NoLatch]
    /\ tmBad = FALSE /\ tmOps = 0

-----------------------------------------------------------------------------
(* Count(), by mode, on a counter that is enabled or has a value to load *)

Reload(c) == IF c.loadvalue = 0 THEN TmFull ELSE c.loadvalue

\* Interrupt on terminal count.  A count of zero disarms OUT at once.
Mode0(c) ==
    LET prev == IF c.load THEN c.loadvalue ELSE c.value
        armed == c.load \/ c.armed
        done == prev - 1 <= 0
    IN  [c EXCEPT !.value = IF done THEN prev - 1 + TmFull ELSE prev - 1,
                  !.enabled = TRUE,
                  !.armed = armed /\ ~done,
                  !.out = IF done /\ armed /\ prev # 0 THEN 1 ELSE IF c.load THEN 0 ELSE @,
                  !.load = FALSE]

\* One-shot: a new value does not restart the count.
Mode1(c) ==
    LET v == c.value - 1
        reload == IF c.loadvalue = 0 THEN TmFull ELSE c.loadvalue + 1
    IN  [c EXCEPT !.value = IF v <= 0 THEN v + reload ELSE v, !.enabled = TRUE, !.load = FALSE]

\* Where modes 2 and 3 count from.
From(c) == IF ~c.enabled /\ c.load THEN c.loadvalue ELSE c.value

\* Rate generator.
Mode2(c) ==
    LET v == From(c) - 1
    IN  [c EXCEPT !.value = IF v <= 0 THEN v + Reload(c) ELSE v, !.enabled = TRUE, !.load = FALSE]

\* Mutant: the odd clock is added to both halves.
Mode3BothOdd(c) ==
    LET u == From(c)
        v == u - (IF u = c.loadvalue /\ u % 2 = 1 THEN 1 ELSE 2)
    IN  [c EXCEPT !.value = IF v <= 0 THEN v + Reload(c) ELSE v,
                  !.out = IF v <= 0 THEN 1 - @ ELSE @,
                  !.enabled = TRUE, !.load = FALSE]

\* Square wave: two at a time, and the odd clock in the high half.
Mode3(c) ==
    LET u == From(c)
        v == u - (IF u = c.loadvalue /\ u % 2 = 1 THEN (IF c.out = 0 THEN 3 ELSE 1) ELSE 2)
    IN  [c EXCEPT !.value = IF v <= 0 THEN v + Reload(c) ELSE v,
                  !.out = IF v <= 0 THEN 1 - @ ELSE @,
                  !.enabled = TRUE, !.load = FALSE]

\* Count(): one clock.
Count(c) ==
    IF c.delay > 0 THEN [c EXCEPT !.delay = @ - 1]
    ELSE IF ~c.enabled /\ ~c.load THEN c
    ELSE CASE c.mode = 0 -> Mode0(c)
           [] c.mode = 1 -> Mode1(c)
           [] c.mode = 2 -> Mode2(c)
           [] c.mode = 3 -> Mode3(c)

\* SetMode().
SetMode(c, m, access) ==
    [Count(c) EXCEPT !.delay = 1, !.mode = m, !.access = access,
                     !.out = IF m = 0 THEN 0 ELSE 1,
                     !.armed = IF m \in {0, 1} THEN TRUE ELSE @,
                     !.enabled = FALSE, !.load = FALSE, !.state = 0]

\* Mutant: the latch follows the counter.
LatchNothing(c) == [Count(c) EXCEPT !.delay = 1]

\* Latch().
Latch(c) == LET d == Count(c) IN [d EXCEPT !.delay = 1, !.latch = d.value]

\* write_value(): low byte, high byte, or one after the other; a value that
\* waits to be loaded is delayed again by every byte written.
WriteValue(c, b) ==
    LET d == CASE c.access = 3 /\ c.state = 0 -> [c EXCEPT !.lsb = b, !.state = 1]
               [] c.access = 3 /\ c.state = 1 ->
                    [c EXCEPT !.loadvalue = b * TmBase + c.lsb, !.state = 0, !.load = TRUE]
               [] c.access = 1 -> [c EXCEPT !.loadvalue = b, !.load = TRUE]
               [] c.access = 2 -> [c EXCEPT !.loadvalue = b * TmBase, !.value = b * TmBase,
                                            !.load = TRUE]
               [] OTHER -> c
    IN  IF d.load /\ (d.mode = 0 \/ ~d.enabled) THEN [d EXCEPT !.delay = 3] ELSE d

Low(v)  == v % TmBase
High(v) == (v \div TmBase) % TmBase

\* The byte read_value() returns, and what it leaves behind.
ReadByte(c) ==
    LET v == IF c.latch # NoLatch THEN c.latch ELSE c.value IN
    IF c.access = 2 \/ (c.access = 3 /\ c.state = 1) THEN High(v)
    ELSE IF c.access = 0 THEN 0 ELSE Low(v)

AfterRead(c) ==
    IF c.access = 3 /\ c.state = 0 THEN [c EXCEPT !.state = 1]
    ELSE IF c.access = 0 THEN c
    ELSE [c EXCEPT !.latch = NoLatch, !.state = 0]

-----------------------------------------------------------------------------
Access == tmOps < TmMaxOps /\ tmOps' = tmOps + 1
NotMeasured == [n |-> 0, known |-> FALSE, period |-> 0]
NotRead == [latched |-> NoLatch, lsb |-> NoLatch, msb |-> NoLatch]

\* The sound clock.  The ghost measures the period of the square wave.  A
\* mode 3 counter that runs away downwards is followed through one range.
TmCount ==
    /\ ct.mode = 3 => ct.value > -TmFull
    /\ ct' = Count(ct)
    /\ tmSince' = IF ct.mode # 3 THEN NotMeasured
                  ELSE IF ct.out = 0 /\ ct'.out = 1
                    THEN [n |-> 0, known |-> ct'.value = Reload(ct'),
                          period |-> IF tmSince.known THEN tmSince.n + 1 ELSE 0]
                  ELSE [tmSince EXCEPT !.n = IF tmSince.known /\ @ < 2 * TmFull THEN @ + 1 ELSE @]
    /\ UNCHANGED <<tmRead, tmBad, tmOps>>

\* A control word for this counter.  (One whose counter bits are 3 addresses
\* counters[3], which does not exist: outside the array, and outside the model.)
TmControl ==
    /\ Access
    /\ \E m \in 0..3, access \in 1..3 : ct' = SetMode(ct, m, access)
    /\ tmSince' = NotMeasured
    /\ tmRead' = NotRead
    /\ UNCHANGED tmBad

\* The latch command.
TmLatch ==
    /\ Access
    /\ ct' = Latch(ct)
    /\ tmRead' = IF ct.state = 0 THEN [NotRead EXCEPT !.latched = Count(ct).value] ELSE NotRead
    /\ tmSince' = NotMeasured
    /\ UNCHANGED tmBad

\* Writing a byte.  The chip allows no count of one in mode 3.
TmWrite ==
    /\ Access
    /\ \E b \in 0..(TmBase - 1) : ct' = WriteValue(ct, b)
    /\ tmBad' = (tmBad \/ (ct'.mode = 3 /\ ct'.loadvalue = 1))
    /\ tmSince' = NotMeasured
    /\ tmRead' = NotRead

\* Reading a byte.  A byte after the pair begins another, of a running count.
TmReadByte ==
    /\ Access
    /\ ct' = AfterRead(ct)
    /\ tmRead' = IF ct.access # 3 THEN NotRead
                 ELSE IF ct.state = 0
                   THEN IF tmRead.msb = NoLatch THEN [tmRead EXCEPT !.lsb = ReadByte(ct)] ELSE NotRead
                 ELSE [tmRead EXCEPT !.msb = ReadByte(ct)]
    /\ UNCHANGED <<tmSince, tmBad>>

TmNext == TmCount \/ TmControl \/ TmLatch \/ TmWrite \/ TmReadByte

TmSpec == TmInit /\ [][TmNext]_tmvars

-----------------------------------------------------------------------------
(* Properties *)

\* The counter stays in the range of sixteen bits through every change of mode
\* and count, if mode 3 is never given a count of one (which makes it run away
\* downwards).
CounterInRange == ~tmBad => ct.value \in 0..TmFull

\* In mode 3 OUT has exactly the period that was loaded, odd counts and zero
\* (the full range) included, once a high half has begun with the whole count
\* (the count that was running when the program wrote another may end past zero
\* and shorten the first odd period).
SquareWave ==
    ct.mode = 3 /\ tmSince.period # 0 /\ ~tmBad => tmSince.period = Reload(ct)

\* The counter keeps time: it stays in range and the square wave has its period.
CounterKeepsTime == CounterInRange /\ SquareWave

\* Two byte reads after a latch give the latched value, however far the
\* counter has run in between.
LatchedReadWhole ==
    tmRead.latched # NoLatch /\ tmRead.lsb # NoLatch /\ tmRead.msb # NoLatch =>
        tmRead.msb * TmBase + tmRead.lsb = tmRead.latched % TmFull
=============================================================================
