---------------------------- MODULE DeviceProofs ----------------------------
(***************************************************************************)
(* Proofs about the devices of the board and the GDB server, for every     *)
(* geometry of the disk, base of the timer's bytes, size and number of     *)
(* pages and number of sessions: the invariants that the devices run       *)
(* checks on small instances; and about the interrupts, for frames of any  *)
(* length and any number of actions of the user.  Each part has a section  *)
(* of its own with the inductive invariant of its specification (TmInv,    *)
(* PgInv, FdInv, GdbInv, IntInv), one lemma per group of operations, and   *)
(* the theorems.                                                           *)
(***************************************************************************)
EXTENDS FloppyController, IntervalTimer, Interrupts, PagedMemory, GdbServer, TLAPS

-----------------------------------------------------------------------------
(* Arithmetic *)

\* Multiplication and order.
LEMMA Products ==
    ASSUME NEW m \in Nat, NEW x \in Int, NEW y \in Int, x <= y
    PROVE  x * m <= y * m /\ x * m \in Int
<1>1. (y - x) * m >= 0
  OBVIOUS
<1> QED
  BY <1>1

\* A number is its quotient times the divisor, and the remainder.
LEMMA Division ==
    ASSUME NEW m \in Nat \ {0}, NEW a \in Int
    PROVE  /\ a \div m \in Int /\ a % m \in 0..(m - 1)
           /\ a = m * (a \div m) + (a % m)
OBVIOUS

\* There is one way to divide.
LEMMA DivisionUnique ==
    ASSUME NEW m \in Nat \ {0}, NEW p \in Int, NEW q \in Int,
           NEW r \in 0..(m - 1), NEW s \in 0..(m - 1), m * p + r = m * q + s
    PROVE  p = q /\ r = s
<1>1. CASE p < q
  <2>1. (p + 1) * m <= q * m
    BY <1>1, Products
  <2> QED
    BY <2>1
<1>2. CASE q < p
  <2>1. (q + 1) * m <= p * m
    BY <1>2, Products
  <2> QED
    BY <2>1
<1>3. CASE p = q
  BY <1>3
<1> QED
  BY <1>1, <1>2, <1>3

Divided(a, m, q, r) == a = m * q + r

\* A quotient and a remainder are the ones of the division.
LEMMA Quotient ==
    ASSUME NEW m \in Nat \ {0}, NEW q \in Int, NEW r \in 0..(m - 1), NEW a, Divided(a, m, q, r)
    PROVE  a \div m = q /\ a % m = r
<1>1. a \in Int /\ a = m * q + r
  BY DEF Divided
<1>2. a \div m \in Int /\ a % m \in 0..(m - 1) /\ a = m * (a \div m) + (a % m)
  BY <1>1, Division
<1> QED
  BY <1>1, <1>2, DivisionUnique

-----------------------------------------------------------------------------
(* IntervalTimer: the count, the wave and the latch *)

\* A counter.
Counters ==
    [mode : 0..3, access : 0..3, out : 0..1, value : Int, load : BOOLEAN, enabled : BOOLEAN,
     armed : BOOLEAN, delay : Nat, state : 0..1, lsb : 0..(TmBase - 1),
     loadvalue : 0..(TmFull - 1), latch : Int]

\* A counter that counts, or will when the delay is over.
Runs(c) == c.enabled \/ c.load

\* A count of one in mode 3 is the one that is not kept.
Allowed(c) == c.value \in 0..TmFull /\ ~(c.mode = 3 /\ Runs(c) /\ c.loadvalue = 1)

\* Where a square wave is, n clocks after OUT rose: two down at a clock, one
\* in the first clock of an odd period and three in the first clock of its
\* low half.
InPhase(c, n) ==
    LET r == Reload(c) IN
    /\ c.value > 0
    /\ IF c.out = 1
       THEN \/ n = 0 /\ c.value = r
            \/ c.value < r /\ c.value = r + (r % 2) - 2 * n
       ELSE \/ 2 * n = r + (r % 2) /\ c.value = r
            \/ c.value < r /\ c.value = 2 * r - 2 * n

\* Between the latch and the first byte, between the bytes, and after both.
Latched(c, rd) ==
    rd.latched # NoLatch =>
        \/ rd.lsb = NoLatch /\ rd.msb = NoLatch /\ c.latch = rd.latched /\ c.state = 0
        \/ /\ rd.lsb = Low(rd.latched) /\ rd.msb = NoLatch
           /\ c.latch = rd.latched /\ c.state = 1
        \/ rd.lsb = Low(rd.latched) /\ rd.msb = High(rd.latched) /\ c.state = 0

\* The inductive invariant.
TmTyped ==
    /\ ct \in Counters /\ tmBad \in BOOLEAN
    /\ tmSince \in [n : Nat, known : BOOLEAN, period : Nat]
    /\ tmRead \in [latched : Int, lsb : Int, msb : Int]
TmKeeps == tmBad \/ Allowed(ct)
TmMeasures ==
    /\ tmSince.known /\ ~tmBad =>
         ct.mode = 3 /\ ct.enabled /\ ~ct.load /\ ct.delay = 0 /\ InPhase(ct, tmSince.n)
    /\ SquareWave
TmInv == TmTyped /\ TmKeeps /\ TmMeasures /\ Latched(ct, tmRead)

-----------------------------------------------------------------------------
\* The full count is an even number,
LEMMA FullCount ==
    /\ TmBase \in Nat /\ TmBase >= 2 /\ TmFull \in Nat /\ TmFull >= 4
    /\ TmFull % 2 = 0
<1>1. TmBase \in Nat \ {0} /\ TmBase % 2 = 0
  BY TimerAssumption
<1> DEFINE k == TmBase \div 2
<1>2. k \in Int /\ TmBase = 2 * k
  BY <1>1
<1> HIDE DEF k
<1>3. TmBase >= 2
  BY <1>1, <1>2
<1>4. TmFull \in Nat /\ TmFull >= 2 * TmBase
  BY <1>1, <1>3, Products DEF TmFull
<1>5. k * TmBase \in Int /\ TmFull = 2 * (k * TmBase) + 0
  BY <1>1, <1>2 DEF TmFull
<1>6. TmFull % 2 = 0
  <2>1. Divided(TmFull, 2, k * TmBase, 0) /\ 0 \in 0..(2 - 1) /\ 2 \in Nat \ {0}
    BY <1>5 DEF Divided
  <2> QED
    BY <1>5, <2>1, Quotient
<1> QED
  BY <1>1, <1>3, <1>4, <1>6

\* and two bytes stay below it.
LEMMA TwoBytes ==
    ASSUME NEW h \in 0..(TmBase - 1), NEW l \in 0..(TmBase - 1)
    PROVE  h * TmBase + l \in 0..(TmFull - 1)
<1>1. (h + 1) * TmBase <= TmBase * TmBase /\ 0 * TmBase <= h * TmBase
  BY FullCount, Products
<1> QED
  BY FullCount, <1>1 DEF TmFull

\* The two bytes of a value make the value, as far as sixteen bits go.
LEMMA BytePair ==
    ASSUME NEW v \in Int
    PROVE  /\ Low(v) \in 0..(TmBase - 1) /\ High(v) \in 0..(TmBase - 1)
           /\ High(v) * TmBase + Low(v) = v % TmFull
<1> DEFINE q == v \div TmBase
<1> DEFINE p == q \div TmBase
<1>1. TmBase \in Nat \ {0} /\ TmFull \in Nat \ {0}
  BY FullCount
<1>2. q \in Int /\ Low(v) \in 0..(TmBase - 1) /\ v = TmBase * q + Low(v)
  BY <1>1, Division DEF Low
<1>3. p \in Int /\ High(v) \in 0..(TmBase - 1) /\ q = TmBase * p + High(v)
  BY <1>1, <1>2, Division DEF High
<1> HIDE DEF p, q
<1> DEFINE r == High(v) * TmBase + Low(v)
<1>4. r \in 0..(TmFull - 1)
  BY <1>2, <1>3, TwoBytes
<1>5. v = TmFull * p + r
  BY <1>1, <1>2, <1>3 DEF TmFull
<1> HIDE DEF r
<1>6. v % TmFull = r
  <2>1. Divided(v, TmFull, p, r)
    BY <1>5 DEF Divided
  <2> QED
    BY <1>1, <1>3, <1>4, <2>1, Quotient
<1> QED
  BY <1>2, <1>3, <1>6 DEF r

-----------------------------------------------------------------------------
\* A clock that counts does so by the mode.
LEMMA CountByMode ==
    ASSUME NEW c \in Counters, c.delay = 0, Runs(c)
    PROVE  /\ c.mode = 0 => Count(c) = Mode0(c)
           /\ c.mode = 1 => Count(c) = Mode1(c)
           /\ c.mode = 2 => Count(c) = Mode2(c)
           /\ c.mode = 3 => Count(c) = Mode3(c)
BY DEF Count, Counters, Runs

\* What a mode assigns makes a counter again.
LEMMA ValueAssigned ==
    ASSUME NEW c \in Counters, NEW v \in Int
    PROVE  [c EXCEPT !.value = v, !.enabled = TRUE, !.load = FALSE] \in Counters
BY DEF Counters

\* The same for OUT,
LEMMA OutAssigned ==
    ASSUME NEW c \in Counters, NEW v \in Int, NEW o \in 0..1
    PROVE  [c EXCEPT !.value = v, !.out = o, !.enabled = TRUE, !.load = FALSE] \in Counters
BY DEF Counters

\* for what arms a counter,
LEMMA ArmAssigned ==
    ASSUME NEW c \in Counters, NEW v \in Int, NEW o \in 0..1, NEW a \in BOOLEAN
    PROVE  [c EXCEPT !.value = v, !.enabled = TRUE, !.armed = a, !.out = o, !.load = FALSE]
              \in Counters
BY DEF Counters

\* and so for every mode.
LEMMA ModesAssign ==
    ASSUME NEW c \in Counters
    PROVE  Mode0(c) \in Counters /\ Mode1(c) \in Counters /\ Mode2(c) \in Counters
           /\ Mode3(c) \in Counters
<1> USE FullCount
<1>1. Mode0(c) \in Counters
  <2> DEFINE v == Mode0(c).value
             a == Mode0(c).armed
             o == Mode0(c).out
  <2>1. v \in Int /\ a \in BOOLEAN /\ o \in 0..1
    BY DEF Mode0, Counters
  <2>2. Mode0(c) = [c EXCEPT !.value = v, !.enabled = TRUE, !.armed = a, !.out = o, !.load = FALSE]
    BY DEF Mode0, Counters
  <2> HIDE DEF v, a, o
  <2> QED
    <3>1. [c EXCEPT !.value = v, !.enabled = TRUE, !.armed = a, !.out = o, !.load = FALSE]
            \in Counters
      BY <2>1, ArmAssigned
    <3> QED
      BY <2>2, <3>1
<1>2. Mode1(c) \in Counters
  <2> DEFINE v == Mode1(c).value
  <2>1. v \in Int
    BY DEF Mode1, Counters
  <2>2. Mode1(c) = [c EXCEPT !.value = v, !.enabled = TRUE, !.load = FALSE]
    BY DEF Mode1, Counters
  <2> HIDE DEF v
  <2> QED
    BY <2>1, <2>2, ValueAssigned
<1>3. Mode2(c) \in Counters
  <2> DEFINE v == Mode2(c).value
  <2>1. v \in Int
    BY DEF Mode2, From, Reload, Counters
  <2>2. Mode2(c) = [c EXCEPT !.value = v, !.enabled = TRUE, !.load = FALSE]
    BY DEF Mode2, Counters
  <2> HIDE DEF v
  <2> QED
    BY <2>1, <2>2, ValueAssigned
<1>4. Mode3(c) \in Counters
  <2> DEFINE v == Mode3(c).value
             o == Mode3(c).out
  <2>1. v \in Int /\ o \in 0..1
    BY DEF Mode3, From, Reload, Counters
  <2>2. Mode3(c) = [c EXCEPT !.value = v, !.out = o, !.enabled = TRUE, !.load = FALSE]
    BY DEF Mode3, Counters
  <2> HIDE DEF v, o
  <2> QED
    <3>1. [c EXCEPT !.value = v, !.out = o, !.enabled = TRUE, !.load = FALSE] \in Counters
      BY <2>1, OutAssigned
    <3> QED
      BY <2>2, <3>1
<1> QED
  BY <1>1, <1>2, <1>3, <1>4

\* What a clock leaves alone.
LEMMA CountKeeps ==
    ASSUME NEW c \in Counters
    PROVE  /\ Count(c) \in Counters
           /\ Count(c).mode = c.mode /\ Count(c).access = c.access /\ Count(c).state = c.state
           /\ Count(c).lsb = c.lsb /\ Count(c).loadvalue = c.loadvalue
           /\ Count(c).latch = c.latch /\ (Runs(Count(c)) <=> Runs(c))
<1> USE FullCount
<1>1. CASE c.delay > 0
  BY <1>1 DEF Count, Counters, Runs
<1>2. CASE c.delay = 0 /\ ~Runs(c)
  BY <1>2 DEF Count, Counters, Runs
<1>3. CASE c.delay = 0 /\ Runs(c) /\ c.mode = 0
  <2>1. Count(c) = Mode0(c) /\ Mode0(c) \in Counters
    BY <1>3, CountByMode, ModesAssign
  <2> QED
    BY <1>3, <2>1 DEF Mode0, Counters, Runs
<1>4. CASE c.delay = 0 /\ Runs(c) /\ c.mode = 1
  <2>1. Count(c) = Mode1(c) /\ Mode1(c) \in Counters
    BY <1>4, CountByMode, ModesAssign
  <2> QED
    BY <1>4, <2>1 DEF Mode1, Counters, Runs
<1>5. CASE c.delay = 0 /\ Runs(c) /\ c.mode = 2
  <2>1. Count(c) = Mode2(c) /\ Mode2(c) \in Counters
    BY <1>5, CountByMode, ModesAssign
  <2> QED
    BY <1>5, <2>1 DEF Mode2, Counters, Runs
<1>6. CASE c.delay = 0 /\ Runs(c) /\ c.mode = 3
  <2>1. Count(c) = Mode3(c) /\ Mode3(c) \in Counters
    BY <1>6, CountByMode, ModesAssign
  <2> QED
    BY <1>6, <2>1 DEF Mode3, Counters, Runs
<1> QED
  BY <1>1, <1>2, <1>3, <1>4, <1>5, <1>6 DEF Counters

\* A clock keeps the value in range.
LEMMA CountInRange ==
    ASSUME NEW c \in Counters, Allowed(c)
    PROVE  Allowed(Count(c))
<1> USE FullCount
<1>0. SUFFICES Count(c).value \in 0..TmFull
  BY CountKeeps DEF Allowed
<1>1. CASE c.delay > 0
  BY <1>1 DEF Count, Counters, Allowed
<1>2. CASE c.delay = 0 /\ ~Runs(c)
  BY <1>2 DEF Count, Counters, Allowed, Runs
<1>3. CASE c.delay = 0 /\ Runs(c) /\ c.mode = 0
  <2>1. Mode0(c).value \in 0..TmFull
    BY DEF Mode0, Counters, Allowed
  <2> QED
    BY <1>3, <2>1, CountByMode
<1>4. CASE c.delay = 0 /\ Runs(c) /\ c.mode = 1
  <2>1. Mode1(c).value \in 0..TmFull
    BY DEF Mode1, Counters, Allowed
  <2> QED
    BY <1>4, <2>1, CountByMode
<1>5. CASE c.delay = 0 /\ Runs(c) /\ c.mode = 2
  <2>1. Mode2(c).value \in 0..TmFull
    BY DEF Mode2, From, Reload, Counters, Allowed
  <2> QED
    BY <1>5, <2>1, CountByMode
<1>6. CASE c.delay = 0 /\ Runs(c) /\ c.mode = 3
  <2>1. c.loadvalue # 1
    BY <1>6 DEF Allowed
  <2>2. Mode3(c).value \in 0..TmFull
    BY <2>1 DEF Mode3, From, Reload, Counters, Allowed
  <2> QED
    BY <1>6, <2>2, CountByMode
<1> QED
  BY <1>1, <1>2, <1>3, <1>4, <1>5, <1>6 DEF Counters

\* The next phase of the high half of a period r = 2k + e, and of the low half.
LEMMA HighHalf ==
    ASSUME NEW k \in Int, NEW e \in 0..1, NEW r \in Nat, r = 2 * k + e, r >= 2,
           NEW n \in Nat, NEW u \in Nat, u > 0,
           (n = 0 /\ u = r) \/ (u < r /\ u = r + e - 2 * n),
           NEW w \in Int, w = u - (IF u = r /\ e = 1 THEN 1 ELSE 2)
    PROVE  /\ n < r
           /\ w > 0 => w < r /\ w = r + e - 2 * (n + 1)
           /\ w <= 0 => w = 0 /\ 2 * (n + 1) = r + e
OBVIOUS

\* The low half ends where the period does.
LEMMA LowHalf ==
    ASSUME NEW k \in Int, NEW e \in 0..1, NEW r \in Nat, r = 2 * k + e, r >= 2,
           NEW n \in Nat, NEW u \in Nat, u > 0,
           (2 * n = r + e /\ u = r) \/ (u < r /\ u = 2 * r - 2 * n),
           NEW w \in Int, w = u - (IF u = r /\ e = 1 THEN 3 ELSE 2)
    PROVE  /\ n < r
           /\ w > 0 => w < r /\ w = 2 * r - 2 * (n + 1)
           /\ w <= 0 => w = 0 /\ n + 1 = r
OBVIOUS

\* The reload value is at least two and halves with a rest.
LEMMA ReloadHalves ==
    ASSUME NEW c \in Counters, Allowed(c), c.mode = 3, Runs(c)
    PROVE  /\ Reload(c) \in 2..TmFull
           /\ c.loadvalue = Reload(c) \/ (c.loadvalue = 0 /\ Reload(c) % 2 = 0)
           /\ \E k \in Int, e \in 0..1 : Reload(c) = 2 * k + e /\ Reload(c) % 2 = e
<1>1. /\ Reload(c) \in 2..TmFull
      /\ c.loadvalue = Reload(c) \/ (c.loadvalue = 0 /\ Reload(c) % 2 = 0)
  BY FullCount DEF Reload, Counters, Allowed
<1> DEFINE r == Reload(c)
<1>2. r \in Int
  BY <1>1, FullCount
<1> HIDE DEF r
<1>3. r \div 2 \in Int /\ r % 2 \in 0..1 /\ r = 2 * (r \div 2) + (r % 2)
  BY <1>2
<1>4. \E k \in Int, e \in 0..1 : r = 2 * k + e /\ r % 2 = e
  <2> USE <1>3
  <2> WITNESS r \div 2 \in Int, r % 2 \in 0..1
  <2> QED
    BY <1>3
<1> QED
  BY <1>1, <1>4 DEF r

\* A clock moves the wave to its next phase, and OUT rises after the period.
LEMMA CountInPhase ==
    ASSUME NEW c \in Counters, NEW n \in Nat, Allowed(c), c.mode = 3, c.enabled, ~c.load,
           c.delay = 0, InPhase(c, n)
    PROVE  /\ n < TmFull
           /\ c.out = 0 /\ Count(c).out = 1 => n + 1 = Reload(c) /\ Count(c).value = Reload(c)
           /\ ~(c.out = 0 /\ Count(c).out = 1) => InPhase(Count(c), n + 1)
           /\ Count(c).enabled /\ ~Count(c).load /\ Count(c).delay = 0
<1> DEFINE r == Reload(c)
           d == Count(c)
           u == c.value
<1>1. /\ r \in 2..TmFull /\ TmFull \in Nat
      /\ c.loadvalue = r \/ (c.loadvalue = 0 /\ r % 2 = 0)
  BY FullCount, ReloadHalves DEF Runs
<1>2. PICK k \in Int, e \in 0..1 : r = 2 * k + e /\ r % 2 = e
  BY ReloadHalves DEF Runs
<1>3. d = Mode3(c)
  BY CountByMode DEF Runs
<1>4. Reload(d) = r
  BY CountKeeps DEF Reload
<1>5. c.out \in 0..1 /\ u \in Nat /\ u > 0
  BY DEF Counters, InPhase
<1> DEFINE w == u - (IF u = r /\ e = 1 THEN (IF c.out = 0 THEN 3 ELSE 1) ELSE 2)
<1>6. /\ d.value = IF w <= 0 THEN w + r ELSE w
      /\ d.out = IF w <= 0 THEN 1 - c.out ELSE c.out
      /\ d.enabled /\ ~d.load /\ d.delay = 0
  <2>1. u = c.loadvalue /\ u % 2 = 1 <=> u = r /\ e = 1
    BY <1>1, <1>2, <1>5
  <2> QED
    BY <1>3, <2>1 DEF Mode3, From, Counters
<1> HIDE DEF d, r, u
<1>7. InPhase(d, n + 1) <=>
         /\ d.value > 0
         /\ IF d.out = 1
            THEN \/ n + 1 = 0 /\ d.value = r
                 \/ d.value < r /\ d.value = r + e - 2 * (n + 1)
            ELSE \/ 2 * (n + 1) = r + e /\ d.value = r
                 \/ d.value < r /\ d.value = 2 * r - 2 * (n + 1)
  BY <1>1, <1>2, <1>4, <1>5, <1>6 DEF InPhase
<1>8. CASE c.out = 1
  <2>1. (n = 0 /\ u = r) \/ (u < r /\ u = r + e - 2 * n)
    BY <1>2, <1>8 DEF InPhase, r, u
  <2>2. w = u - (IF u = r /\ e = 1 THEN 1 ELSE 2) /\ w \in Int
    BY <1>5, <1>8
  <2> HIDE DEF w
  <2>3. /\ n < r
        /\ w > 0 => w < r /\ w = r + e - 2 * (n + 1)
        /\ w <= 0 => w = 0 /\ 2 * (n + 1) = r + e
    BY <1>1, <1>2, <1>5, <2>1, <2>2, HighHalf
  <2>4. InPhase(d, n + 1)
    BY <1>1, <1>6, <1>7, <1>8, <2>2, <2>3
  <2> QED
    BY <1>1, <1>6, <1>8, <2>3, <2>4 DEF d
<1>9. CASE c.out = 0
  <2>1. (2 * n = r + e /\ u = r) \/ (u < r /\ u = 2 * r - 2 * n)
    BY <1>1, <1>2, <1>9 DEF InPhase, r, u
  <2>2. w = u - (IF u = r /\ e = 1 THEN 3 ELSE 2) /\ w \in Int
    BY <1>5, <1>9
  <2> HIDE DEF w
  <2>3. /\ n < r
        /\ w > 0 => w < r /\ w = 2 * r - 2 * (n + 1)
        /\ w <= 0 => w = 0 /\ n + 1 = r
    BY <1>1, <1>2, <1>5, <2>1, <2>2, LowHalf
  <2>4. CASE w <= 0
    <3>1. d.out = 1 /\ d.value = r /\ n + 1 = r
      BY <1>1, <1>6, <1>9, <2>3, <2>4
    <3> QED
      BY <1>1, <1>6, <1>9, <2>3, <3>1 DEF d, r
  <2>5. CASE w > 0
    <3>1. d.out = 0 /\ InPhase(d, n + 1)
      BY <1>1, <1>6, <1>7, <1>9, <2>2, <2>3, <2>5
    <3> QED
      BY <1>1, <1>6, <2>3, <3>1 DEF d
  <2> QED
    BY <2>2, <2>4, <2>5
<1> QED
  BY <1>5, <1>8, <1>9

-----------------------------------------------------------------------------
\* What the port accesses assign makes a counter again.
LEMMA DelayAssigned ==
    ASSUME NEW d \in Counters, NEW y \in Nat
    PROVE  LET e == [d EXCEPT !.delay = y]
           IN  e \in Counters /\ e.mode = d.mode /\ e.value = d.value
BY DEF Counters

\* The latch,
LEMMA LatchAssigned ==
    ASSUME NEW d \in Counters, NEW y \in Nat, NEW l \in Int
    PROVE  LET e == [d EXCEPT !.delay = y, !.latch = l]
           IN  /\ e \in Counters /\ e.latch = l /\ e.value = d.value /\ e.state = d.state
               /\ e.mode = d.mode /\ e.loadvalue = d.loadvalue /\ (Runs(e) <=> Runs(d))
BY DEF Counters, Runs

\* the byte to come,
LEMMA ByteAssigned ==
    ASSUME NEW d \in Counters, NEW l \in 0..(TmBase - 1), NEW t \in 0..1
    PROVE  LET e == [d EXCEPT !.lsb = l, !.state = t]
           IN  e \in Counters /\ e.mode = d.mode /\ e.value = d.value
BY DEF Counters

\* the load value,
LEMMA LoadAssigned ==
    ASSUME NEW d \in Counters, NEW l \in 0..(TmFull - 1), NEW t \in 0..1
    PROVE  LET e == [d EXCEPT !.loadvalue = l, !.state = t, !.load = TRUE]
           IN  e \in Counters /\ e.mode = d.mode /\ e.value = d.value
BY DEF Counters

\* its low byte,
LEMMA LowAssigned ==
    ASSUME NEW d \in Counters, NEW l \in 0..(TmFull - 1)
    PROVE  LET e == [d EXCEPT !.loadvalue = l, !.load = TRUE]
           IN  e \in Counters /\ e.mode = d.mode /\ e.value = d.value
BY DEF Counters

\* its high byte,
LEMMA HighAssigned ==
    ASSUME NEW d \in Counters, NEW l \in 0..(TmFull - 1)
    PROVE  LET e == [d EXCEPT !.loadvalue = l, !.value = l, !.load = TRUE]
           IN  e \in Counters /\ e.mode = d.mode /\ e.value = l
<1>1. l \in Int
  BY FullCount
<1> QED
  BY <1>1 DEF Counters

\* the state of the write,
LEMMA StateAssigned ==
    ASSUME NEW d \in Counters, NEW t \in 0..1
    PROVE  LET e == [d EXCEPT !.state = t]
           IN  e \in Counters /\ e.state = t /\ e.latch = d.latch
BY DEF Counters

\* and the latch given up.
LEMMA UnlatchAssigned ==
    ASSUME NEW d \in Counters, NEW l \in Int, NEW t \in 0..1
    PROVE  LET e == [d EXCEPT !.latch = l, !.state = t]
           IN  e \in Counters /\ e.state = t
BY DEF Counters

-----------------------------------------------------------------------------
\* A control word: the counter stops, at the value that the clock gave it.
LEMMA SetModeMakes ==
    ASSUME NEW c \in Counters, NEW m \in 0..3, NEW access \in 1..3
    PROVE  /\ SetMode(c, m, access) \in Counters
           /\ ~Runs(SetMode(c, m, access)) /\ SetMode(c, m, access).value = Count(c).value
<1> DEFINE d == Count(c)
           o == IF m = 0 THEN 0 ELSE 1
           a == IF m \in {0, 1} THEN TRUE ELSE d.armed
           y == 1
           t == 0
           e == [d EXCEPT !.delay = y, !.mode = m, !.access = access, !.out = o,
                          !.armed = a, !.enabled = FALSE, !.load = FALSE, !.state = t]
<1>1. d \in Counters
  BY CountKeeps
<1>2. SetMode(c, m, access) = e
  BY <1>1 DEF SetMode, Counters
<1>3. a \in BOOLEAN
  <2> HIDE DEF d
  <2> QED
    BY <1>1 DEF Counters
<1>4. o \in 0..1 /\ access \in 0..3 /\ t \in 0..1 /\ y \in Nat
  OBVIOUS
<1> HIDE DEF d, o, a, y, t
<1>5. e \in Counters /\ ~Runs(e) /\ e.value = d.value
  BY <1>1, <1>3, <1>4 DEF Counters, Runs
<1> QED
  BY <1>2, <1>5 DEF d

\* The latch: it takes the value, and the counter goes on.
LEMMA LatchMakes ==
    ASSUME NEW c \in Counters
    PROVE  /\ Latch(c) \in Counters
           /\ Latch(c).latch = Count(c).value /\ Latch(c).value = Count(c).value
           /\ Latch(c).state = c.state /\ Latch(c).mode = c.mode
           /\ Latch(c).loadvalue = c.loadvalue /\ (Runs(Latch(c)) <=> Runs(c))
<1> DEFINE d == Count(c)
<1>1. d \in Counters /\ d.state = c.state /\ d.mode = c.mode /\ d.loadvalue = c.loadvalue
      /\ (Runs(d) <=> Runs(c))
  BY CountKeeps
<1>2. Latch(c) = [d EXCEPT !.delay = 1, !.latch = d.value]
  BY DEF Latch
<1> HIDE DEF d
<1>3. d.value \in Int /\ 1 \in Nat
  BY <1>1 DEF Counters
<1>4. LET e == [d EXCEPT !.delay = 1, !.latch = d.value]
      IN  /\ e \in Counters /\ e.latch = d.value /\ e.value = d.value /\ e.state = d.state
          /\ e.mode = d.mode /\ e.loadvalue = d.loadvalue /\ (Runs(e) <=> Runs(d))
  BY <1>1, <1>3, LatchAssigned
<1> QED
  BY <1>1, <1>2, <1>4 DEF d

\* A byte written: the counter has the value it had, or the high byte.
LEMMA WriteMakes ==
    ASSUME NEW c \in Counters, NEW b \in 0..(TmBase - 1)
    PROVE  /\ WriteValue(c, b) \in Counters /\ WriteValue(c, b).mode = c.mode
           /\ WriteValue(c, b).value = c.value \/ WriteValue(c, b).value \in 0..TmFull
<1> DEFINE d == CASE c.access = 3 /\ c.state = 0 -> [c EXCEPT !.lsb = b, !.state = 1]
                  [] c.access = 3 /\ c.state = 1 ->
                       [c EXCEPT !.loadvalue = b * TmBase + c.lsb, !.state = 0, !.load = TRUE]
                  [] c.access = 1 -> [c EXCEPT !.loadvalue = b, !.load = TRUE]
                  [] c.access = 2 -> [c EXCEPT !.loadvalue = b * TmBase, !.value = b * TmBase,
                                               !.load = TRUE]
                  [] OTHER -> c
<1>1. WriteValue(c, b) = IF d.load /\ (d.mode = 0 \/ ~d.enabled) THEN [d EXCEPT !.delay = 3] ELSE d
  BY DEF WriteValue
<1>2. /\ b \in 0..(TmFull - 1) /\ b * TmBase \in 0..(TmFull - 1)
      /\ b * TmBase + c.lsb \in 0..(TmFull - 1)
  <2>1. 0 \in 0..(TmBase - 1) /\ c.lsb \in 0..(TmBase - 1)
    BY FullCount DEF Counters
  <2>2. 0 * TmBase + b \in 0..(TmFull - 1) /\ b * TmBase + 0 \in 0..(TmFull - 1)
        /\ b * TmBase + c.lsb \in 0..(TmFull - 1)
    BY <2>1, TwoBytes
  <2> QED
    BY <2>2, FullCount
<1>3. c.access \in 0..3 /\ c.state \in 0..1 /\ 0 \in 0..1 /\ 1 \in 0..1
  BY DEF Counters
<1>4. d \in Counters /\ d.mode = c.mode /\ (d.value = c.value \/ d.value \in 0..TmFull)
  <2>1. CASE c.access = 3 /\ c.state = 0
    <3>1. d = [c EXCEPT !.lsb = b, !.state = 1]
      BY <2>1
    <3> HIDE DEF d
    <3>2. LET e == [c EXCEPT !.lsb = b, !.state = 1]
          IN  e \in Counters /\ e.mode = c.mode /\ e.value = c.value
      BY <1>3, ByteAssigned
    <3> QED
      BY <3>1, <3>2
  <2>2. CASE c.access = 3 /\ c.state = 1
    <3>1. d = [c EXCEPT !.loadvalue = b * TmBase + c.lsb, !.state = 0, !.load = TRUE]
      BY <2>2
    <3> DEFINE l == b * TmBase + c.lsb
    <3>2. l \in 0..(TmFull - 1)
      BY <1>2
    <3> HIDE DEF d, l
    <3>3. LET e == [c EXCEPT !.loadvalue = l, !.state = 0, !.load = TRUE]
          IN  e \in Counters /\ e.mode = c.mode /\ e.value = c.value
      BY <1>3, <3>2, LoadAssigned
    <3> QED
      BY <3>1, <3>3 DEF l
  <2>3. CASE c.access = 1
    <3>1. d = [c EXCEPT !.loadvalue = b, !.load = TRUE]
      BY <2>3
    <3> HIDE DEF d
    <3> QED
      BY <1>2, <3>1, LowAssigned
  <2>4. CASE c.access = 2
    <3>1. d = [c EXCEPT !.loadvalue = b * TmBase, !.value = b * TmBase, !.load = TRUE]
      BY <2>4
    <3>2. b * TmBase \in 0..TmFull
      BY <1>2, FullCount
    <3> HIDE DEF d
    <3> QED
      BY <1>2, <3>1, <3>2, HighAssigned
  <2>5. CASE c.access = 0
    BY <2>5
  <2> QED
    BY <1>3, <2>1, <2>2, <2>3, <2>4, <2>5
<1> HIDE DEF d
<1>5. LET e == [d EXCEPT !.delay = 3] IN e \in Counters /\ e.mode = d.mode /\ e.value = d.value
  BY <1>4, DelayAssigned, 3 \in Nat
<1> QED
  BY <1>1, <1>4, <1>5

\* A byte read: the first of a pair leaves the latch, the second ends it.
LEMMA ReadMakes ==
    ASSUME NEW c \in Counters
    PROVE  /\ AfterRead(c) \in Counters
           /\ \A f \in {"mode", "out", "value", "load", "enabled", "delay", "loadvalue"} :
                AfterRead(c)[f] = c[f]
           /\ c.access = 3 => /\ AfterRead(c).state = 1 - c.state
                              /\ c.state = 0 => AfterRead(c).latch = c.latch
<1>1. NoLatch \in Int /\ 0 \in 0..1 /\ 1 \in 0..1 /\ c.access \in 0..3 /\ c.state \in 0..1
  BY DEF NoLatch, Counters
<1>2. \A f \in {"mode", "out", "value", "load", "enabled", "delay", "loadvalue"} :
        AfterRead(c)[f] = c[f]
  BY DEF AfterRead, Counters
<1>3. CASE c.access = 3 /\ c.state = 0
  <2>1. AfterRead(c) = [c EXCEPT !.state = 1]
    BY <1>3 DEF AfterRead
  <2> QED
    <3>1. LET e == [c EXCEPT !.state = 1] IN e \in Counters /\ e.state = 1 /\ e.latch = c.latch
      BY <1>1, StateAssigned
    <3> QED
      BY <1>2, <1>3, <2>1, <3>1
<1>4. CASE c.access = 0
  <2>1. AfterRead(c) = c
    BY <1>4 DEF AfterRead
  <2> QED
    BY <1>4, <2>1
<1>5. CASE c.access # 0 /\ ~(c.access = 3 /\ c.state = 0)
  <2>1. AfterRead(c) = [c EXCEPT !.latch = NoLatch, !.state = 0]
    BY <1>5 DEF AfterRead
  <2> QED
    <3>1. LET e == [c EXCEPT !.latch = NoLatch, !.state = 0] IN e \in Counters /\ e.state = 0
      BY <1>1, UnlatchAssigned
    <3> QED
      BY <1>1, <1>2, <1>5, <2>1, <3>1
<1> QED
  BY <1>3, <1>4, <1>5

-----------------------------------------------------------------------------
\* A new timer measures nothing and has latched nothing.
LEMMA TmInitInv == TmInit => TmInv
<1> SUFFICES ASSUME TmInit PROVE TmInv
  OBVIOUS
<1>1. ct \in Counters
  BY FullCount DEF TmInit, Counters, NoLatch
<1>2. TmTyped
  <2>1. tmBad \in BOOLEAN /\ tmSince \in [n : Nat, known : BOOLEAN, period : Nat]
    BY DEF TmInit
  <2>2. NoLatch \in Int
    BY DEF NoLatch
  <2>3. tmRead \in [latched : Int, lsb : Int, msb : Int]
    BY <2>2 DEF TmInit
  <2> QED
    BY <1>1, <2>1, <2>3 DEF TmTyped
<1>3. TmKeeps /\ TmMeasures /\ Latched(ct, tmRead)
  BY FullCount DEF TmInit, TmKeeps, Allowed, Runs, TmMeasures, SquareWave, Latched, NoLatch
<1> QED
  BY <1>2, <1>3 DEF TmInv

\* After an access that starts no measurement,
LEMMA Unmeasured ==
    ASSUME ct' \in Counters, tmBad' \in BOOLEAN, TmKeeps', tmSince' = NotMeasured
    PROVE  TmMeasures' /\ tmSince' \in [n : Nat, known : BOOLEAN, period : Nat]
BY DEF NotMeasured, TmMeasures, SquareWave

\* and nothing is read of a latch.
LEMMA Unread ==
    ASSUME tmRead' = NotRead
    PROVE  Latched(ct, tmRead)' /\ tmRead' \in [latched : Int, lsb : Int, msb : Int]
BY DEF NotRead, Latched, NoLatch

\* Every clock and every port access keeps the invariant.
LEMMA TmNextInv ==
    ASSUME TmInv, [TmNext]_tmvars
    PROVE  TmInv'
<1> USE DEF TmInv
<1>1. ct \in Counters /\ tmBad \in BOOLEAN
  BY DEF TmTyped
<1>2. CASE TmCount
  <2>1. ct' = Count(ct) /\ UNCHANGED <<tmRead, tmBad>>
    BY <1>2 DEF TmCount
  <2>2. /\ ct' \in Counters /\ ct'.mode = ct.mode /\ ct'.state = ct.state
        /\ ct'.loadvalue = ct.loadvalue /\ ct'.latch = ct.latch
    BY <1>1, <2>1, CountKeeps
  <2>3. TmKeeps'
    BY <1>1, <2>1, CountInRange DEF TmKeeps
  <2>4. Latched(ct, tmRead)'
    BY <2>1, <2>2 DEF Latched
  <2>5. CASE ct.mode # 3
    <3>1. tmSince' = NotMeasured
      BY <1>2, <2>5 DEF TmCount
    <3> QED
      BY <2>1, <2>2, <2>3, <2>4, <3>1, Unmeasured DEF TmTyped
  <2>6. CASE ct.mode = 3 /\ ct.out = 0 /\ ct'.out = 1
    <3>1. tmSince' = [n |-> 0, known |-> ct'.value = Reload(ct'),
                      period |-> IF tmSince.known THEN tmSince.n + 1 ELSE 0]
      BY <1>2, <2>6 DEF TmCount
    <3>2. Reload(ct') = Reload(ct)
      BY <2>2 DEF Reload
    <3>3. tmSince.n \in Nat /\ tmSince.known \in BOOLEAN
      BY DEF TmTyped
    <3>4. TmTyped'
      BY <2>1, <2>2, <3>1, <3>3 DEF TmTyped
    <3>5. tmSince'.n = 0 /\ (tmSince'.known <=> ct'.value = Reload(ct'))
          /\ tmSince'.period = IF tmSince.known THEN tmSince.n + 1 ELSE 0
      BY <3>1
    <3>6. ASSUME tmSince.known, ~tmBad
          PROVE  tmSince.n + 1 = Reload(ct)
      BY <1>1, <2>1, <2>6, <3>3, <3>6, CountInPhase DEF TmKeeps, TmMeasures
    <3>7. SquareWave'
      BY <2>1, <3>2, <3>5, <3>6 DEF SquareWave
    <3>8. ASSUME tmSince'.known, ~tmBad
          PROVE  /\ ct'.mode = 3 /\ ct'.enabled /\ ~ct'.load /\ ct'.delay = 0
                 /\ InPhase(ct', tmSince'.n)
      <4>1. Allowed(ct)
        BY <3>8 DEF TmKeeps
      <4>2. ct.delay = 0 /\ Runs(ct)
        BY <1>1, <2>1, <2>6 DEF Count, Runs, Counters
      <4>3. ct' = Mode3(ct)
        BY <1>1, <2>1, <2>6, <4>2, CountByMode
      <4>4. ct'.enabled /\ ~ct'.load /\ ct'.delay = 0
        BY <1>1, <4>2, <4>3 DEF Mode3, Counters
      <4>5. Reload(ct) \in 2..TmFull
        BY <1>1, <2>6, <4>1, <4>2, ReloadHalves
      <4>6. ct'.value = Reload(ct')
        BY <3>5, <3>8
      <4>7. InPhase(ct', 0)
        BY <2>6, <3>2, <4>5, <4>6, FullCount DEF InPhase
      <4> QED
        BY <2>2, <2>6, <3>5, <4>4, <4>7
    <3>9. TmMeasures'
      BY <2>1, <3>7, <3>8 DEF TmMeasures
    <3> QED
      BY <2>3, <2>4, <3>4, <3>9
  <2>7. CASE ct.mode = 3 /\ ~(ct.out = 0 /\ ct'.out = 1)
    <3>1. tmSince' = [tmSince EXCEPT !.n = IF tmSince.known /\ @ < 2 * TmFull THEN @ + 1 ELSE @]
      BY <1>2, <2>7 DEF TmCount
    <3>2. tmSince \in [n : Nat, known : BOOLEAN, period : Nat]
      BY DEF TmTyped
    <3>3. /\ tmSince'.known = tmSince.known /\ tmSince'.period = tmSince.period
          /\ tmSince'.n = IF tmSince.known /\ tmSince.n < 2 * TmFull THEN tmSince.n + 1 ELSE tmSince.n
          /\ tmSince' \in [n : Nat, known : BOOLEAN, period : Nat]
      BY <3>1, <3>2
    <3>4. TmTyped'
      BY <2>1, <2>2, <3>3 DEF TmTyped
    <3>5. SquareWave'
      BY <2>1, <2>2, <3>3 DEF SquareWave, TmMeasures, Reload
    <3>6. ASSUME tmSince.known, ~tmBad
          PROVE  /\ ct'.enabled /\ ~ct'.load /\ ct'.delay = 0
                 /\ InPhase(ct', tmSince'.n)
      <4>1. /\ tmSince.n < TmFull /\ InPhase(ct', tmSince.n + 1)
            /\ ct'.enabled /\ ~ct'.load /\ ct'.delay = 0
        BY <1>1, <2>1, <2>7, <3>2, <3>6, CountInPhase DEF TmKeeps, TmMeasures
      <4>2. tmSince'.n = tmSince.n + 1
        BY <3>2, <3>3, <3>6, <4>1, FullCount
      <4> QED
        BY <4>1, <4>2
    <3>7. TmMeasures'
      BY <2>1, <2>2, <2>7, <3>3, <3>5, <3>6 DEF TmMeasures
    <3> QED
      BY <2>3, <2>4, <3>4, <3>7
  <2> QED
    BY <2>5, <2>6, <2>7
<1>3. CASE TmControl
  <2>1. PICK m \in 0..3, access \in 1..3 : ct' = SetMode(ct, m, access)
    BY <1>3 DEF TmControl
  <2>2. tmSince' = NotMeasured /\ tmRead' = NotRead /\ UNCHANGED tmBad
    BY <1>3 DEF TmControl
  <2>3. ct' \in Counters /\ ~Runs(ct') /\ ct'.value = Count(ct).value
    BY <1>1, <2>1, SetModeMakes
  <2>4. TmKeeps'
    BY <1>1, <2>2, <2>3, CountInRange DEF TmKeeps, Allowed
  <2> QED
    BY <1>1, <2>2, <2>3, <2>4, Unmeasured, Unread DEF TmTyped
<1>4. CASE TmLatch
  <2>1. ct' = Latch(ct) /\ tmSince' = NotMeasured /\ UNCHANGED tmBad
        /\ tmRead' = IF ct.state = 0 THEN [NotRead EXCEPT !.latched = Count(ct).value] ELSE NotRead
    BY <1>4 DEF TmLatch
  <2>2. /\ ct' \in Counters
        /\ ct'.latch = Count(ct).value /\ ct'.value = Count(ct).value
        /\ ct'.state = ct.state /\ ct'.mode = ct.mode
        /\ ct'.loadvalue = ct.loadvalue /\ (Runs(ct') <=> Runs(ct))
    BY <1>1, <2>1, LatchMakes
  <2>3. TmKeeps'
    <3>1. Allowed(ct) => Count(ct).value \in 0..TmFull
      BY <1>1, CountInRange DEF Allowed
    <3> QED
      BY <2>1, <2>2, <3>1 DEF TmKeeps, Allowed
  <2>4. Count(ct).value \in Int
    BY <1>1, CountKeeps DEF Counters
  <2>5. Latched(ct, tmRead)' /\ tmRead' \in [latched : Int, lsb : Int, msb : Int]
    <3>1. CASE ct.state = 0
      BY <2>1, <2>2, <2>4, <3>1 DEF Latched, NotRead, NoLatch
    <3>2. CASE ct.state # 0
      BY <2>1, <3>2, Unread
    <3> QED
      BY <3>1, <3>2
  <2> QED
    BY <1>1, <2>1, <2>2, <2>3, <2>5, Unmeasured DEF TmTyped
<1>5. CASE TmWrite
  <2>1. PICK b \in 0..(TmBase - 1) : ct' = WriteValue(ct, b)
    BY <1>5 DEF TmWrite
  <2>2. tmSince' = NotMeasured /\ tmRead' = NotRead
        /\ tmBad' = (tmBad \/ (ct'.mode = 3 /\ ct'.loadvalue = 1))
    BY <1>5 DEF TmWrite
  <2>3. ct' \in Counters /\ (ct'.value = ct.value \/ ct'.value \in 0..TmFull)
    BY <1>1, <2>1, WriteMakes
  <2>4. TmKeeps'
    BY <2>2, <2>3 DEF TmKeeps, Allowed
  <2>5. tmBad' \in BOOLEAN
    BY <2>2
  <2> QED
    BY <2>2, <2>3, <2>4, <2>5, Unmeasured, Unread DEF TmTyped
<1>6. CASE TmReadByte
  <2>1. ct' = AfterRead(ct) /\ UNCHANGED <<tmSince, tmBad>>
    BY <1>6 DEF TmReadByte
  <2>2. /\ ct' \in Counters
        /\ ct'.mode = ct.mode /\ ct'.out = ct.out /\ ct'.value = ct.value /\ ct'.load = ct.load
        /\ ct'.enabled = ct.enabled /\ ct'.delay = ct.delay /\ ct'.loadvalue = ct.loadvalue
        /\ ct.access = 3 => /\ ct'.state = 1 - ct.state
                            /\ ct.state = 0 => ct'.latch = ct.latch
    BY <1>1, <2>1, ReadMakes
  <2>3. TmKeeps'
    BY <2>1, <2>2 DEF TmKeeps, Allowed, Runs
  <2>4. TmMeasures'
    BY <2>1, <2>2 DEF TmMeasures, SquareWave, InPhase, Reload
  <2>5. tmRead' \in [latched : Int, lsb : Int, msb : Int] /\ Latched(ct, tmRead)'
    <3>1. tmRead \in [latched : Int, lsb : Int, msb : Int] /\ ct.state \in 0..1 /\ ct.access \in 0..3
          /\ ct.value \in Int /\ ct.latch \in Int
      BY <1>1 DEF TmTyped, Counters
    <3>2. CASE ct.access # 3
      BY <1>6, <3>2, Unread DEF TmReadByte
    <3>3. CASE ct.access = 3 /\ ct.state = 0 /\ tmRead.msb # NoLatch
      BY <1>6, <3>3, Unread DEF TmReadByte
    <3>4. CASE ct.access = 3 /\ ct.state = 0 /\ tmRead.msb = NoLatch
      <4> DEFINE v == IF ct.latch # NoLatch THEN ct.latch ELSE ct.value
      <4>1. tmRead' = [tmRead EXCEPT !.lsb = Low(v)]
        BY <1>6, <3>4 DEF TmReadByte, ReadByte
      <4>2. v \in Int /\ Low(v) \in Int
        BY <3>1, BytePair, FullCount
      <4>3. ct'.state = 1 /\ ct'.latch = ct.latch
        BY <2>2, <3>4
      <4>4. tmRead.latched # NoLatch => ct.latch = tmRead.latched
        BY <3>1, <3>4, BytePair, FullCount DEF Latched, NoLatch
      <4> HIDE DEF v
      <4>5. tmRead' \in [latched : Int, lsb : Int, msb : Int]
            /\ tmRead'.latched = tmRead.latched /\ tmRead'.lsb = Low(v) /\ tmRead'.msb = NoLatch
        BY <3>1, <3>4, <4>1, <4>2
      <4>6. tmRead.latched # NoLatch => v = tmRead.latched
        BY <4>4 DEF v
      <4> QED
        BY <4>3, <4>4, <4>5, <4>6 DEF Latched
    <3>5. CASE ct.access = 3 /\ ct.state = 1
      <4> DEFINE v == IF ct.latch # NoLatch THEN ct.latch ELSE ct.value
      <4>1. tmRead' = [tmRead EXCEPT !.msb = High(v)]
        BY <1>6, <3>5 DEF TmReadByte, ReadByte
      <4>2. v \in Int /\ High(v) \in Int
        BY <3>1, BytePair, FullCount
      <4>3. ct'.state = 0
        BY <2>2, <3>5
      <4>4. tmRead.latched # NoLatch =>
              ct.latch = tmRead.latched /\ tmRead.lsb = Low(tmRead.latched)
        BY <3>5 DEF Latched
      <4> HIDE DEF v
      <4>5. tmRead' \in [latched : Int, lsb : Int, msb : Int]
            /\ tmRead'.latched = tmRead.latched /\ tmRead'.lsb = tmRead.lsb /\ tmRead'.msb = High(v)
        BY <3>1, <4>1, <4>2
      <4>6. tmRead.latched # NoLatch => v = tmRead.latched
        BY <4>4 DEF v
      <4> QED
        BY <4>3, <4>4, <4>5, <4>6 DEF Latched
    <3> QED
      BY <3>1, <3>2, <3>3, <3>4, <3>5
  <2> QED
    BY <2>1, <2>2, <2>3, <2>4, <2>5 DEF TmTyped
<1>7. CASE UNCHANGED tmvars
  BY <1>7 DEF tmvars, TmTyped, TmKeeps, TmMeasures, SquareWave, Latched
<1> QED
  BY <1>2, <1>3, <1>4, <1>5, <1>6, <1>7 DEF TmNext

\* For bytes of any even number of values and any number of port accesses: the
\* counter stays in range, and the square wave has the period that was loaded.
THEOREM TimerKeepsTime == TmSpec => []CounterKeepsTime
<1>1. TmSpec => []TmInv
  BY TmInitInv, TmNextInv, PTL DEF TmSpec
<1>2. TmInv => CounterKeepsTime
  BY DEF TmInv, TmKeeps, TmMeasures, Allowed, CounterKeepsTime, CounterInRange
<1> QED
  BY <1>1, <1>2, PTL

\* Two byte reads after a latch make up the value that was latched.
THEOREM LatchedReadsAreWhole == TmSpec => []LatchedReadWhole
<1>1. TmSpec => []TmInv
  BY TmInitInv, TmNextInv, PTL DEF TmSpec
<1>2. ASSUME TmInv
      PROVE  LatchedReadWhole
  <2> SUFFICES ASSUME tmRead.latched # NoLatch, tmRead.lsb # NoLatch, tmRead.msb # NoLatch
               PROVE  tmRead.msb * TmBase + tmRead.lsb = tmRead.latched % TmFull
    BY DEF LatchedReadWhole
  <2>1. tmRead.latched \in Int
    BY <1>2 DEF TmInv, TmTyped
  <2>2. tmRead.lsb = Low(tmRead.latched) /\ tmRead.msb = High(tmRead.latched)
    BY <1>2 DEF TmInv, Latched
  <2> QED
    BY <2>1, <2>2, BytePair
<1> QED
  BY <1>1, <1>2, PTL

-----------------------------------------------------------------------------
(* PagedMemory: the places of the pages *)

\* The place of a byte.
Place(p, a) == ToBank(p * PgSize + a)
Addresses == 0..(PgSize - 1)
Quarter == Block \div 4

Modes == [stack : BOOLEAN, map : BOOLEAN, pageMap : Pages, pageStack : Pages]
PgTyped ==
    /\ bytes \in [0..(PgTotal - 1) -> Int] /\ store \in [Pages -> [Addresses -> Int]]
    /\ pmode \in Modes
    /\ bootOn \in BOOLEAN /\ pgOps \in Nat
PgInv == PgTyped /\ PagesKept

\* A page is two blocks, and a block four quarters.
LEMMA Blocks ==
    ASSUME PgSize # 0
    PROVE  /\ PgSize \in Nat \ {0} /\ Block \in Nat \ {0} /\ Quarter \in Nat \ {0}
           /\ PgSize = 2 * Block /\ Block = 4 * Quarter
<1>1. PgSize \in Nat \ {0} /\ PgSize % 8 = 0
  BY PagedAssumption
<1>2. Block \in Nat /\ PgSize = 2 * Block
  BY <1>1 DEF Block
<1>3. Quarter \in Nat /\ Block = 4 * Quarter
  BY <1>1, <1>2 DEF Quarter
<1> QED
  BY <1>1, <1>2, <1>3

\* Byte x in quarter y of block b.
Split(a, b, y, x) == a = Block * b + (Quarter * y + x)

\* What tobank() does to the byte at x in quarter y of block b.
LEMMA BankOf ==
    ASSUME PgSize # 0, NEW b \in Nat, NEW y \in 0..3, NEW x \in 0..(Quarter - 1),
           NEW a, Split(a, b, y, x)
    PROVE  ToBank(a) = Block * b + (4 * x + y)
<1> DEFINE r == Quarter * y + x
<1>1. Quarter \in Nat \ {0} /\ Block \in Nat \ {0} /\ Block = 4 * Quarter
  BY Blocks
<1>2. Quarter * y \in 0..(3 * Quarter)
  BY <1>1
<1>3. r \in 0..(Block - 1)
  BY <1>1, <1>2
<1>4. r \div Quarter = y
  <2>1. Divided(r, Quarter, y, x)
    BY DEF Divided
  <2> QED
    BY <1>1, <2>1, Quotient
<1>5. 4 * x \in 0..(Block - 1) /\ 4 * b + y \in Int
  BY <1>1
<1>6. 4 * a = Block * (4 * b + y) + 4 * x
  BY <1>1 DEF Split
<1> HIDE DEF r
<1>7. a \div Block = b /\ a % Block = r
  <2>1. Divided(a, Block, b, r)
    BY DEF r, Split, Divided
  <2> QED
    BY <1>1, <1>3, <2>1, Quotient
<1>8. (4 * a) % Block = 4 * x
  <2> DEFINE f == 4 * a
             g == 4 * b + y
             h == 4 * x
  <2>1. Divided(f, Block, g, h) /\ h \in 0..(Block - 1) /\ g \in Int
    BY <1>5, <1>6 DEF Divided
  <2> HIDE DEF f, g, h
  <2>2. f % Block = h
    BY <1>1, <2>1, Quotient
  <2> QED
    BY <2>2 DEF f, h
<1>9. ToBank(a) = (a \div Block) * Block + ((4 * a) % Block) + ((a % Block) \div Quarter)
  BY DEF ToBank, Quarter
<1>10. ToBank(a) = b * Block + 4 * x + y
  BY ONLY <1>4, <1>7, <1>8, <1>9, Zenon
<1> QED
  BY <1>1, <1>10

\* Every address has a block, a quarter and a place in it.
LEMMA BlockOf ==
    ASSUME NEW a \in Addresses
    PROVE  \E b \in 0..1, y \in 0..3, x \in 0..(Quarter - 1) : Split(a, b, y, x)
<1>1. /\ PgSize # 0 /\ Quarter \in Nat \ {0} /\ Block \in Nat \ {0}
      /\ Block = 4 * Quarter /\ PgSize = 2 * Block /\ a \in Nat
  BY Blocks, PagedAssumption DEF Addresses
<1> DEFINE b == a \div Block
           r == a % Block
           y == r \div Quarter
           x == r % Quarter
<1>2. b \in Int /\ r \in 0..(Block - 1) /\ a = Block * b + r
  <2>1. Block \in Nat \ {0} /\ a \in Int
    BY <1>1
  <2> QED
    BY ONLY <2>1, Division
<1>3. b \in 0..1
  <2> HIDE DEF b, r
  <2>1. CASE b < 0
    <3>1. (b + 1) * Block <= 0 * Block
      BY <1>1, <1>2, <2>1, Products
    <3> QED
      BY <1>1, <1>2, <3>1
  <2>2. CASE b > 1
    <3>1. 2 * Block <= b * Block
      BY <1>1, <1>2, <2>2, Products
    <3> QED
      BY <1>1, <1>2, <3>1 DEF Addresses
  <2> QED
    BY <1>2, <2>1, <2>2
<1> HIDE DEF r
<1>4. y \in Int /\ x \in 0..(Quarter - 1) /\ r = Quarter * y + x
  <2>1. Quarter \in Nat \ {0} /\ r \in Int
    BY <1>1, <1>2
  <2> QED
    BY ONLY <2>1, Division
<1>5. y \in 0..3
  <2> HIDE DEF y, x
  <2>1. CASE y < 0
    <3>1. (y + 1) * Quarter <= 0 * Quarter
      BY <1>1, <1>4, <2>1, Products
    <3> QED
      BY <1>1, <1>2, <1>4, <3>1
  <2>2. CASE y > 3
    <3>1. 4 * Quarter <= y * Quarter
      BY <1>1, <1>4, <2>2, Products
    <3> QED
      BY <1>1, <1>2, <1>4, <3>1
  <2> QED
    BY <1>4, <2>1, <2>2
<1> HIDE DEF b, y, x
<1>6. Split(a, b, y, x)
  BY <1>2, <1>4 DEF Split
<1> QED
  BY <1>3, <1>4, <1>5, <1>6

\* A byte stays in its page, and the places of a page are those of another.
LEMMA PlaceInPage ==
    ASSUME NEW p \in Nat, NEW a \in Addresses
    PROVE  ToBank(a) \in Addresses /\ Place(p, a) = PgSize * p + ToBank(a)
<1>1. /\ PgSize # 0 /\ PgSize \in Nat \ {0} /\ Quarter \in Nat \ {0} /\ Block \in Nat \ {0}
      /\ Block = 4 * Quarter /\ PgSize = 2 * Block
  BY Blocks, PagedAssumption DEF Addresses
<1>2. PICK b \in 0..1, y \in 0..3, x \in 0..(Quarter - 1) : Split(a, b, y, x)
  BY BlockOf
<1>3. ToBank(a) = Block * b + (4 * x + y)
  BY <1>1, <1>2, BankOf
<1>4. ToBank(a) \in Addresses
  BY <1>1, <1>3 DEF Addresses
<1>5. Split(p * PgSize + a, 2 * p + b, y, x)
  BY <1>1, <1>2 DEF Split
<1>6. Place(p, a) = Block * (2 * p + b) + (4 * x + y)
  <2>1. 2 * p + b \in Nat
    OBVIOUS
  <2> QED
    BY <1>1, <1>5, <2>1, BankOf DEF Place
<1>7. Place(p, a) = PgSize * p + ToBank(a)
  BY <1>1, <1>3, <1>6
<1> QED
  BY <1>4, <1>7

\* No two addresses of a page share a place,
LEMMA BankApart ==
    ASSUME NEW a \in Addresses, NEW c \in Addresses, ToBank(a) = ToBank(c)
    PROVE  a = c
<1>1. /\ PgSize # 0 /\ Quarter \in Nat \ {0} /\ Block \in Nat \ {0} /\ Block = 4 * Quarter
  BY Blocks, PagedAssumption DEF Addresses
<1>2. PICK b \in 0..1, y \in 0..3, x \in 0..(Quarter - 1) : Split(a, b, y, x)
  BY BlockOf
<1>3. PICK d \in 0..1, z \in 0..3, w \in 0..(Quarter - 1) : Split(c, d, z, w)
  BY BlockOf
<1>4. ToBank(a) = Block * b + (4 * x + y) /\ ToBank(c) = Block * d + (4 * w + z)
  <2>1. ToBank(a) = Block * b + (4 * x + y)
    BY <1>1, <1>2, BankOf
  <2>2. ToBank(c) = Block * d + (4 * w + z)
    BY <1>1, <1>3, BankOf
  <2> QED
    BY <2>1, <2>2
<1>5. b = d /\ 4 * x + y = 4 * w + z
  <2>1. 4 * x + y \in 0..(Block - 1) /\ 4 * w + z \in 0..(Block - 1)
    BY <1>1
  <2> QED
    <3>1. Divided(ToBank(a), Block, b, 4 * x + y) /\ Divided(ToBank(c), Block, d, 4 * w + z)
      BY <1>4 DEF Divided
    <3>2. ToBank(a) \div Block = b /\ ToBank(a) % Block = 4 * x + y
      BY <1>1, <2>1, <3>1, Quotient
    <3>3. ToBank(c) \div Block = d /\ ToBank(c) % Block = 4 * w + z
      BY <1>1, <2>1, <3>1, Quotient
    <3> QED
      BY <3>2, <3>3
<1>6. x = w /\ y = z
  BY <1>1, <1>5
<1> QED
  BY <1>2, <1>3, <1>5, <1>6 DEF Split

\* and no two pages.
LEMMA PlacesApart ==
    ASSUME NEW p \in Nat, NEW q \in Nat, NEW a \in Addresses, NEW c \in Addresses,
           Place(p, a) = Place(q, c)
    PROVE  p = q /\ a = c
<1>1. PgSize \in Nat \ {0}
  BY PagedAssumption DEF Addresses
<1>2. /\ ToBank(a) \in 0..(PgSize - 1) /\ ToBank(c) \in 0..(PgSize - 1)
      /\ PgSize * p + ToBank(a) = PgSize * q + ToBank(c)
  BY <1>1, PlaceInPage DEF Addresses
<1>3. p = q /\ ToBank(a) = ToBank(c)
  BY <1>1, <1>2, DivisionUnique
<1> QED
  BY <1>3, BankApart

\* A place is one of the bytes, and below PgSize in the main memory alone.
LEMMA PlaceOfPage ==
    ASSUME NEW p \in Pages, NEW a \in Addresses
    PROVE  /\ Place(p, a) \in 0..(PgTotal - 1)
           /\ Place(p, a) < PgSize <=> p = 0
           /\ p = 0 => Place(p, a) = ToBank(a)
<1>1. PgSize \in Nat \ {0} /\ p \in 0..PgPages /\ PgPages \in Nat
  BY PagedAssumption DEF Addresses, Pages
<1>2. ToBank(a) \in 0..(PgSize - 1) /\ Place(p, a) = PgSize * p + ToBank(a)
  BY <1>1, PlaceInPage DEF Addresses
<1>3. PgSize * p \in Nat /\ PgSize * p <= PgSize * PgPages /\ (p # 0 => PgSize <= PgSize * p)
      /\ (p = 0 => PgSize * p = 0)
  <2>1. p * PgSize <= PgPages * PgSize
    BY <1>1, Products
  <2>2. p # 0 => 1 * PgSize <= p * PgSize
    BY <1>1, Products
  <2> QED
    BY <1>1, <2>1, <2>2
<1>4. PgTotal = PgSize * PgPages + PgSize
  BY <1>1 DEF PgTotal
<1> QED
  BY <1>1, <1>2, <1>3, <1>4

\* Every number is an address of some page.
LEMMA PageAndAddress ==
    ASSUME NEW a \in Nat, PgSize \in Nat \ {0}
    PROVE  \E q \in Nat, c \in Addresses : a = q * PgSize + c
<1> DEFINE q == a \div PgSize
           c == a % PgSize
<1>1. q \in Int /\ c \in Addresses /\ a = PgSize * q + c
  BY Division DEF Addresses
<1> HIDE DEF q, c
<1>2. q >= 0
  <2>1. q + 1 <= 0 => (q + 1) * PgSize <= 0 * PgSize
    BY <1>1, Products
  <2> QED
    BY <1>1, <2>1 DEF Addresses
<1>3. q \in Nat /\ a = q * PgSize + c
  BY <1>1, <1>2
<1> QED
  BY <1>1, <1>3

\* The places from the beginning of a page on are those of the addresses.
LEMMA PlaceBeyond ==
    ASSUME NEW p \in Nat, NEW x \in Addresses, NEW k \in Nat
    PROVE  Place(p, x) >= k * PgSize <=> p * PgSize + x >= k * PgSize
<1>1. PgSize \in Nat \ {0}
  BY PagedAssumption DEF Addresses
<1>2. ToBank(x) \in 0..(PgSize - 1) /\ Place(p, x) = PgSize * p + ToBank(x)
  BY PlaceInPage DEF Addresses
<1> DEFINE m == p * PgSize
           n == k * PgSize
<1>3. p >= k => n <= m
  BY <1>1, Products
<1>4. p < k => m + PgSize <= n
  <2>1. p < k => (p + 1) * PgSize <= k * PgSize
    BY <1>1, Products
  <2> QED
    BY <1>1, <2>1
<1>5. m \in Int /\ n \in Int /\ Place(p, x) = m + ToBank(x) /\ x \in 0..(PgSize - 1)
  BY <1>1, <1>2 DEF Addresses
<1> HIDE DEF m, n
<1>6. Place(p, x) >= n <=> m + x >= n
  BY <1>1, <1>2, <1>3, <1>4, <1>5
<1> QED
  BY <1>6 DEF m, n

-----------------------------------------------------------------------------
\* The page of an access, and how far its address reaches.
LEMMA PageSelected ==
    ASSUME PgTyped, NEW a \in Addresses, NEW stackrq \in BOOLEAN
    PROVE  /\ PageOf(a, stackrq) \in Pages
           /\ ToBank(BigRamSelect(a, stackrq)) = Place(PageOf(a, stackrq), a)
           /\ BigRamSelect(a, stackrq) < PgBoot <=> PageOf(a, stackrq) = 0 /\ a < PgBoot
<1> DEFINE p == PageOf(a, stackrq)
<1>1. 0 \in Pages
  BY PagedAssumption DEF Pages
<1>2. p \in Pages
  BY <1>1 DEF PgTyped, Modes, PageOf
<1>3. BigRamSelect(a, stackrq) = p * PgSize + a
  BY DEF BigRamSelect
<1> HIDE DEF p
<1>4. PgSize \in Nat /\ p \in Nat /\ PgBoot \in 0..PgSize /\ a \in Nat
  BY <1>2, PagedAssumption DEF Pages, Addresses
<1>5. p # 0 => 1 * PgSize <= p * PgSize
  BY <1>4, Products
<1>6. p * PgSize + a < PgBoot <=> p = 0 /\ a < PgBoot
  <2>1. CASE p = 0
    BY <1>4, <2>1
  <2>2. CASE p # 0
    BY <1>4, <1>5, <2>2
  <2> QED
    BY <2>1, <2>2
<1> QED
  BY <1>2, <1>3, <1>6 DEF p, Place

\* The memory starts with every page empty and the boot ROM in front.
LEMMA PgInitInv == PgInit => PgInv
<1> SUFFICES ASSUME PgInit PROVE PgInv
  OBVIOUS
<1>1. 0 \in Pages
  BY PagedAssumption DEF Pages
<1>2. PgTyped
  <2>1. pmode \in Modes /\ bootOn \in BOOLEAN /\ pgOps \in Nat
    BY <1>1 DEF PgInit, Modes
  <2>2. bytes \in [0..(PgTotal - 1) -> Int] /\ store \in [Pages -> [Addresses -> Int]]
    BY DEF PgInit, Addresses
  <2> QED
    BY <2>1, <2>2 DEF PgTyped
<1>3. ASSUME NEW p \in Pages, NEW a \in Addresses
      PROVE  bytes[Place(p, a)] = store[p][a]
  BY PlaceOfPage DEF PgInit, Addresses
<1>4. lastRead.got = lastRead.want
  BY DEF PgInit
<1> QED
  BY <1>2, <1>3, <1>4 DEF PgInv, PagesKept, BytesHoldPages, Place, Addresses

\* Every operation keeps the bytes where the pages have them.
LEMMA PgNextInv ==
    ASSUME PgInv, [PgNext]_pgvars
    PROVE  PgInv'
<1> USE DEF PgInv
<1>1. \A p \in Pages, a \in Addresses : bytes[Place(p, a)] = store[p][a]
  BY DEF PagesKept, BytesHoldPages, Place, Addresses
<1>2. SUFFICES /\ PgTyped' /\ lastRead'.got = lastRead'.want
               /\ \A p \in Pages, a \in Addresses : bytes'[Place(p, a)] = store'[p][a]
  BY DEF PagesKept, BytesHoldPages, Place, Addresses
<1>3. lastRead.got = lastRead.want
  BY DEF PagesKept
<1>4. pgOps \in Nat /\ PgAddrs \subseteq Addresses
  BY PagedAssumption DEF PgTyped, Addresses
<1>5. CASE ControlWrite
  <2>1. pmode' \in Modes
    BY <1>5, PagedAssumption DEF ControlWrite, Pages, Modes
  <2> QED
    BY <1>1, <1>3, <1>5, <2>1 DEF ControlWrite, Op, PgTyped
<1>6. CASE MemWrite
  <2>1. PICK a \in PgAddrs, stackrq \in BOOLEAN :
          /\ bytes' = [bytes EXCEPT ![ToBank(BigRamSelect(a, stackrq))] = pgOps + 1]
          /\ store' = [store EXCEPT ![PageOf(a, stackrq)][a] = pgOps + 1]
    BY <1>6 DEF MemWrite
  <2>2. UNCHANGED <<pmode, bootOn, lastRead>> /\ pgOps' = pgOps + 1
    BY <1>6 DEF MemWrite, Op
  <2> DEFINE q == PageOf(a, stackrq)
  <2>3. a \in Addresses
    BY <1>4
  <2>4. q \in Pages /\ bytes' = [bytes EXCEPT ![Place(q, a)] = pgOps + 1]
    BY <2>1, <2>3, PageSelected
  <2>5. store' = [store EXCEPT ![q][a] = pgOps + 1]
    BY <2>1
  <2> HIDE DEF q
  <2>6. PgTyped'
    <3> DEFINE v == pgOps + 1
    <3>1. v \in Int /\ v \in Nat
      BY <1>4
    <3>2. bytes' = [bytes EXCEPT ![Place(q, a)] = v] /\ store' = [store EXCEPT ![q][a] = v]
      BY <2>4, <2>5
    <3> HIDE DEF v
    <3>3. bytes \in [0..(PgTotal - 1) -> Int] /\ store \in [Pages -> [Addresses -> Int]]
      BY DEF PgTyped
    <3>4. bytes' \in [0..(PgTotal - 1) -> Int]
      BY <3>1, <3>2, <3>3
    <3>5. store' \in [Pages -> [Addresses -> Int]]
      BY <2>3, <2>4, <3>1, <3>2, <3>3
    <3> QED
      BY <2>2, <3>1, <3>4, <3>5 DEF PgTyped, v
  <2>7. ASSUME NEW p \in Pages, NEW x \in Addresses
        PROVE  bytes'[Place(p, x)] = store'[p][x]
    <3>1. bytes \in [0..(PgTotal - 1) -> Int] /\ store \in [Pages -> [Addresses -> Int]]
      BY DEF PgTyped
    <3>2. Place(p, x) \in 0..(PgTotal - 1)
      BY PlaceOfPage
    <3>3. CASE p = q /\ x = a
      BY <2>3, <2>4, <2>5, <3>1, <3>2, <3>3
    <3>4. CASE ~(p = q /\ x = a)
      <4>1. Place(p, x) # Place(q, a)
        BY <2>3, <2>4, <3>4, PlacesApart, PagedAssumption DEF Pages
      <4>2. bytes'[Place(p, x)] = bytes[Place(p, x)]
        BY <2>4, <3>1, <3>2, <4>1
      <4>3. store'[p][x] = store[p][x]
        BY <2>3, <2>4, <2>5, <3>1, <3>4
      <4> QED
        BY <1>1, <4>2, <4>3
    <3> QED
      BY <3>3, <3>4
  <2> QED
    BY <1>3, <2>2, <2>6, <2>7
<1>7. CASE MemRead
  <2>1. PICK a \in PgAddrs, stackrq \in BOOLEAN :
          lastRead' = [got |-> ReadValue(a, stackrq),
                       want |-> IF bootOn /\ PageOf(a, stackrq) = 0 /\ a < PgBoot THEN BootByte
                                ELSE store[PageOf(a, stackrq)][a]]
    BY <1>7 DEF MemRead
  <2>2. UNCHANGED <<bytes, pmode, bootOn, store>> /\ pgOps' = pgOps + 1
    BY <1>7 DEF MemRead, Op
  <2>3. a \in Addresses
    BY <1>4
  <2>4. ReadValue(a, stackrq) =
          IF bootOn /\ PageOf(a, stackrq) = 0 /\ a < PgBoot THEN BootByte
          ELSE store[PageOf(a, stackrq)][a]
    BY <1>1, <2>3, PageSelected DEF ReadValue
  <2>5. lastRead'.got = lastRead'.want
    BY <2>1, <2>4
  <2>6. PgTyped'
    BY <1>4, <2>2 DEF PgTyped
  <2> QED
    BY <1>1, <2>2, <2>5, <2>6
<1>8. CASE LoadImage
  <2>1. PICK r \in PgImages :
          /\ bytes' = InitFromVector(r[1], r[2])
          /\ store' = [p \in Pages |-> [x \in 0..(PgSize - 1) |->
                         LET a == p * PgSize + x IN
                         IF a \in r[1]..(r[1] + r[2] - 1) THEN pgOps + 1
                         ELSE IF (r[1] < PgSize /\ p = 0) \/ (r[1] >= PgSize /\ a >= r[1]) THEN 0
                         ELSE store[p][x]]]
          /\ bootOn' = (bootOn /\ r[1] >= PgSize)
    BY <1>8 DEF LoadImage
  <2>2. UNCHANGED <<pmode, lastRead>> /\ pgOps' = pgOps + 1
    BY <1>8 DEF LoadImage, Op
  <2> DEFINE from == r[1]
             to == r[1] + r[2] - 1
             v == pgOps + 1
  <2>3. /\ from \in Nat /\ to \in Int /\ PgSize \in Nat /\ v \in Int
        /\ from < PgSize \/ \E k \in 1..(PgPages + 1) : from = k * PgSize
    BY <1>4, ImagesAssumption, PagedAssumption
  <2>4. bytes' = [i \in 0..(PgTotal - 1) |->
            IF \E a \in from..to : ToBank(a) = i THEN v
            ELSE IF (from < PgSize /\ i < PgSize) \/ (from >= PgSize /\ i >= from) THEN 0
            ELSE bytes[i]]
    BY <2>1 DEF InitFromVector
  <2>5. store' = [p \in Pages |-> [x \in Addresses |->
            IF p * PgSize + x \in from..to THEN v
            ELSE IF (from < PgSize /\ p = 0) \/ (from >= PgSize /\ p * PgSize + x >= from) THEN 0
            ELSE store[p][x]]]
    BY <2>1 DEF Addresses
  <2>6. bootOn' \in BOOLEAN
    BY <2>1, Zenon
  <2>7. v \in Nat /\ pgOps' = v
    BY <1>4, <2>2
  <2> HIDE DEF from, to, v
  <2>8. bytes \in [0..(PgTotal - 1) -> Int] /\ store \in [Pages -> [Addresses -> Int]]
    BY DEF PgTyped
  <2>9. PgTyped'
    <3>1. bytes' \in [0..(PgTotal - 1) -> Int]
      BY <2>3, <2>4, <2>8
    <3>2. store' \in [Pages -> [Addresses -> Int]]
      BY <2>3, <2>5, <2>8
    <3>3. pmode' \in Modes
      BY <2>2, Zenon DEF PgTyped
    <3> QED
      BY <2>6, <2>7, <3>1, <3>2, <3>3 DEF PgTyped
  <2>10. ASSUME NEW p \in Pages, NEW x \in Addresses
         PROVE  bytes'[Place(p, x)] = store'[p][x]
    <3>1. /\ Place(p, x) \in 0..(PgTotal - 1) /\ (Place(p, x) < PgSize <=> p = 0)
          /\ p \in Nat
      BY PlaceOfPage, PagedAssumption DEF Pages
    <3>2. (\E a \in from..to : ToBank(a) = Place(p, x)) <=> p * PgSize + x \in from..to
      <4>1. ASSUME NEW a \in from..to, ToBank(a) = Place(p, x)
            PROVE  a = p * PgSize + x
        <5>1. a \in Nat /\ PgSize \in Nat \ {0}
          BY <2>3 DEF Addresses
        <5>2. PICK q \in Nat, c \in Addresses : a = q * PgSize + c
          BY <5>1, PageAndAddress
        <5>3. Place(q, c) = Place(p, x)
          BY <4>1, <5>2 DEF Place
        <5>4. q = p /\ c = x
          BY <3>1, <5>3, PlacesApart
        <5> QED
          BY <5>2, <5>4
      <4>2. ToBank(p * PgSize + x) = Place(p, x)
        BY DEF Place
      <4> QED
        BY <4>1, <4>2
    <3>3. from >= PgSize => (Place(p, x) >= from <=> p * PgSize + x >= from)
      <4> SUFFICES ASSUME from >= PgSize
                   PROVE  Place(p, x) >= from <=> p * PgSize + x >= from
        OBVIOUS
      <4>1. PICK k \in 1..(PgPages + 1) : from = k * PgSize
        BY <2>3
      <4> QED
        BY <2>3, <3>1, <4>1, PlaceBeyond, PagedAssumption
    <3>4. bytes'[Place(p, x)] =
            IF \E a \in from..to : ToBank(a) = Place(p, x) THEN v
            ELSE IF (from < PgSize /\ Place(p, x) < PgSize) \/ (from >= PgSize /\ Place(p, x) >= from)
              THEN 0
            ELSE bytes[Place(p, x)]
      BY <2>4, <3>1
    <3>5. store'[p][x] =
            IF p * PgSize + x \in from..to THEN v
            ELSE IF (from < PgSize /\ p = 0) \/ (from >= PgSize /\ p * PgSize + x >= from) THEN 0
            ELSE store[p][x]
      BY <2>5
    <3>6. bytes[Place(p, x)] = store[p][x]
      BY <1>1
    <3>7. CASE p * PgSize + x \in from..to
      BY <3>2, <3>4, <3>5, <3>7
    <3>8. CASE p * PgSize + x \notin from..to
      <4>1. bytes'[Place(p, x)] =
              IF (from < PgSize /\ Place(p, x) < PgSize) \/ (from >= PgSize /\ Place(p, x) >= from)
                THEN 0
              ELSE store[p][x]
        BY <3>2, <3>4, <3>6, <3>8
      <4> QED
        BY <3>1, <3>3, <3>5, <3>8, <4>1
    <3> QED
      BY <3>7, <3>8
  <2> QED
    BY <1>3, <2>2, <2>9, <2>10
<1>9. CASE AttachBoot \/ DetachBoot
  <2>1. UNCHANGED <<bytes, pmode, store, lastRead>> /\ pgOps' = pgOps + 1
    BY <1>9 DEF AttachBoot, DetachBoot, Op
  <2>2. bootOn' \in BOOLEAN
    BY <1>9, Zenon DEF AttachBoot, DetachBoot
  <2> QED
    BY <1>1, <1>3, <1>4, <2>1, <2>2 DEF PgTyped
<1>10. CASE UNCHANGED pgvars
  BY <1>1, <1>3, <1>10 DEF pgvars, PgTyped
<1> QED
  BY <1>5, <1>6, <1>7, <1>8, <1>9, <1>10 DEF PgNext

\* For pages of any size, any number of them and any program: a read gives the
\* byte last written to that address of that page, or the boot ROM's.
THEOREM PagesAreKept == PgSpec => []PagesKept
<1>1. PgSpec => []PgInv
  BY PgInitInv, PgNextInv, PTL DEF PgSpec
<1>2. PgInv => PagesKept
  BY DEF PgInv
<1> QED
  BY <1>1, <1>2, PTL

-----------------------------------------------------------------------------
(* FloppyController: sectors and the image file *)

\* The types.
Drives == [pos : Nat, off : Nat, len : Nat, src : {"disk", "buffer"}, sec : Nat, track : Nat,
           side : Nat]
Images == [0..(ImageLen - 1) -> Nat]
Transfers == {"read", "write", "address"}
Moves == {"restore", "seek", "step", "in", "out"}
Drivers == [at : {"idle", "set", "poll", "move", "closed"},
            want : Transfers \cup Moves \cup {"force", "none"},
            moved : Seq(Nat), from : Nat, sel : 0..1, stale : BOOLEAN]
RegTyped ==
    /\ fdSel \in 0..1 /\ fdSide \in 0..1 /\ fdTrack \in Nat /\ fdSector \in Nat /\ fdDir \in {1, -1}
    /\ fdCmd \in Transfers \cup {"none"}
FlagTyped ==
    /\ fdBusy \in BOOLEAN /\ fdDrq \in BOOLEAN /\ fdDirty \in BOOLEAN /\ fdCrash \in BOOLEAN
    /\ fdLost \in BOOLEAN
DiskTyped ==
    /\ dk \in [0..1 -> Drives] /\ \A d \in 0..1 : dk[d].src = "buffer" => dk[d].len = 6
    /\ fdImage \in Images /\ fdData \in Nat
FdTyped == RegTyped /\ FlagTyped /\ DiskTyped /\ drv \in Drivers

\* The driver knows what the controller does: between commands it has set the
\* registers, and in a command it talks to the drive and about the command
\* that it has chosen.
Moving == drv.at \in {"poll", "move"}
Agreed ==
    /\ drv.at = "set" => fdSector >= 1
    /\ Moving => fdSel = drv.sel /\ fdCmd = IF drv.want \in Transfers THEN drv.want ELSE "none"
    /\ drv.at = "move" => fdBusy /\ fdDrq /\ drv.want \in Transfers

\* The first n bytes that the driver has moved are those of the sector.
Moved(n) ==
    \A i \in 1..n : drv.from + i - 1 < ImageLen /\ drv.moved[i] = fdImage[drv.from + i - 1]

\* A sector being read or written from drive 0.
Under(c) == Moving /\ drv.want = c /\ drv.sel = 0
Aimed ==
    Under("read") \/ Under("write") =>
        /\ dk[0].src = "disk" /\ dk[0].len = FdSectorSize /\ dk[0].off <= FdSectorSize
        /\ drv.from = dk[0].pos
Reading ==
    Under("read") /\ ~drv.stale =>
        /\ Moved(Len(drv.moved))
        /\ fdBusy /\ ~fdDrq => dk[0].off = 0 /\ Len(drv.moved) = 0
        /\ fdBusy /\ fdDrq  => /\ dk[0].off = Len(drv.moved) + 1
                               /\ drv.from + Len(drv.moved) < ImageLen
                               /\ fdData = fdImage[drv.from + Len(drv.moved)]
        /\ ~fdBusy => Len(drv.moved) = FdSectorSize
Writing ==
    Under("write") =>
        /\ Moved(dk[0].off)
        /\ dk[0].off = FdSectorSize => fdLost \/ fdFile = fdImage
        /\ fdBusy  => fdDrq /\ Len(drv.moved) = dk[0].off
        /\ ~fdBusy => Len(drv.moved) = FdSectorSize + 1 /\ dk[0].off = FdSectorSize

\* A driver that has seen the end of its command.
Rested ==
    drv.at = "idle" /\ drv.sel = 0 =>
        /\ drv.want = "read" /\ ~drv.stale => Moved(FdSectorSize) /\ Len(drv.moved) = FdSectorSize
        /\ drv.want = "write" => /\ Moved(FdSectorSize) /\ Len(drv.moved) = FdSectorSize + 1
                                 /\ fdLost \/ fdFile = fdImage

\* The file of an image that is not dirty, and of a disk that is closed.
Clean == ~fdDirty /\ ~fdLost => fdFile = fdImage
Closed == Alive /\ drv.at = "closed" => ~fdDirty

FdSound == Agreed /\ Aimed /\ Reading /\ Writing /\ Rested
FdInv == FdTyped /\ TransferAtRegisters /\ Clean /\ Closed /\ (Alive => FdSound)

-----------------------------------------------------------------------------
\* Sizes multiply to sizes.
LEMMA NatProduct ==
    ASSUME NEW x \in Nat, NEW y \in Nat
    PROVE  x * y \in Nat
<1>1. 0 * y <= x * y
  BY Products
<1> QED
  BY <1>1

\* The geometry of the disk.
LEMMA Sizes ==
    /\ FdTracks \in Nat /\ FdSectors \in Nat /\ FdSectorSize \in Nat /\ FdSectorSize >= 1
    /\ ImageLen \in Nat
<1>1. /\ FdTracks \in Nat /\ FdSectors \in Nat /\ FdSectorSize \in Nat /\ FdSectorSize >= 1
  BY FloppyAssumption
<1>2. FdTracks * Heads \in Nat
  BY <1>1, NatProduct DEF Heads
<1>3. FdTracks * Heads * FdSectors \in Nat
  BY <1>1, <1>2, NatProduct
<1>4. FdTracks * Heads * FdSectors * FdSectorSize \in Nat
  BY <1>1, <1>3, NatProduct
<1> QED
  BY <1>1, <1>4 DEF ImageLen

\* The position of a sector.
SectorAt(t, s, side) ==
    (t * FdSectors * Heads + FdSectors * side + (IF s # 0 THEN s - 1 ELSE 0)) * FdSectorSize

\* It is the one that the registers name.
LEMMA SectorPosition ==
    ASSUME NEW t \in Nat, NEW s \in Nat, NEW side \in 0..1
    PROVE  /\ SectorAt(t, s, side) \in Nat
           /\ s >= 1 => SectorAt(t, s, side) =
                          ((t * Heads + side) * FdSectors + s - 1) * FdSectorSize
<1> USE Sizes
<1>1. t * FdSectors \in Nat /\ FdSectors * side \in Nat
  BY NatProduct
<1>2. t * FdSectors * Heads \in Nat
  BY <1>1, NatProduct DEF Heads
<1> DEFINE k == t * FdSectors * Heads + FdSectors * side + (IF s # 0 THEN s - 1 ELSE 0)
<1>3. k \in Nat
  BY <1>1, <1>2
<1>4. k * FdSectorSize \in Nat
  BY <1>3, NatProduct
<1>5. s >= 1 => k = (t * Heads + side) * FdSectors + s - 1
  BY <1>1 DEF Heads
<1> QED
  BY <1>4, <1>5 DEF SectorAt

\* FDisk::seek() moves the head and nothing else.
LEMMA SeekMakes ==
    ASSUME NEW d \in 0..1, dk \in [0..1 -> Drives], NEW t \in Nat, NEW s \in Nat, NEW side \in 0..1
    PROVE  /\ Seek(d, t, s, side) \in Drives
           /\ Seek(d, t, s, side).len = dk[d].len /\ Seek(d, t, s, side).src = dk[d].src
           /\ d = 0 => Seek(d, t, s, side).pos = SectorAt(t, s, side)
<1> DEFINE g == dk[d]
<1>1. g \in Drives
  OBVIOUS
<1>2. CASE ~Ready(d)
  BY <1>1, <1>2 DEF Seek, Ready
<1>3. CASE Ready(d)
  <2> DEFINE p == SectorAt(t, s, side)
             e == [g EXCEPT !.pos = p, !.track = t, !.side = side]
  <2>1. p \in Nat
    BY SectorPosition
  <2>2. t \in Nat /\ side \in Nat
    OBVIOUS
  <2>3. Seek(d, t, s, side) = e
    BY <1>3 DEF Seek, SectorAt
  <2> HIDE DEF p, g
  <2>4. e \in Drives /\ e.pos = p /\ e.len = g.len /\ e.src = g.src
    BY <1>1, <2>1, <2>2 DEF Drives
  <2> QED
    BY <2>3, <2>4 DEF p, g
<1> QED
  BY <1>2, <1>3

\* A transfer starts at the first byte of its sector, whatever went before.
LEMMA TransferMakes ==
    ASSUME NEW d \in 0..1, dk \in [0..1 -> Drives], NEW t \in Nat, NEW s \in Nat, NEW side \in 0..1
    PROVE  LET e == Transfer(d, t, s, side)
           IN  /\ e \in Drives /\ e.len = FdSectorSize /\ e.off = 0 /\ e.src = "disk"
               /\ d = 0 => e.pos = SectorAt(t, s, side)
<1> DEFINE f == Seek(d, t, s, side)
           z == 0
<1>1. f \in Drives /\ (d = 0 => f.pos = SectorAt(t, s, side))
  BY SeekMakes
<1>2. Transfer(d, t, s, side) = [f EXCEPT !.len = FdSectorSize, !.off = z, !.src = "disk", !.sec = s]
  BY DEF Transfer
<1>3. FdSectorSize \in Nat /\ z \in Nat /\ s \in Nat
  BY Sizes
<1> HIDE DEF f, z
<1>4. LET e == [f EXCEPT !.len = FdSectorSize, !.off = z, !.src = "disk", !.sec = s]
      IN  e \in Drives /\ e.pos = f.pos /\ e.off = z /\ e.len = FdSectorSize /\ e.src = "disk"
  BY <1>1, <1>3 DEF Drives
<1> QED
  BY <1>1, <1>2, <1>4 DEF z

-----------------------------------------------------------------------------
\* A byte moved advances the selected drive and nothing else.
LEMMA Advanced ==
    ASSUME RegTyped, DiskTyped, dk' = [dk EXCEPT ![fdSel].off = @ + 1]
    PROVE  /\ dk' \in [0..1 -> Drives] /\ dk'[fdSel].off = dk[fdSel].off + 1
           /\ \A d \in 0..1 : /\ dk'[d].src = dk[d].src /\ dk'[d].len = dk[d].len
                              /\ dk'[d].pos = dk[d].pos
           /\ \A d \in 0..1 : d # fdSel => dk'[d] = dk[d]
<1> DEFINE g == dk[fdSel]
           o == g.off + 1
           e == [g EXCEPT !.off = o]
<1>1. g \in Drives /\ fdSel \in 0..1 /\ dk \in [0..1 -> Drives]
  BY DEF RegTyped, DiskTyped
<1>2. dk' = [dk EXCEPT ![fdSel] = e]
  OBVIOUS
<1>3. o \in Nat
  BY <1>1 DEF Drives
<1> HIDE DEF g, o
<1>4. e \in Drives /\ e.off = o /\ e.src = g.src /\ e.len = g.len /\ e.pos = g.pos
  BY <1>1, <1>3 DEF Drives
<1> HIDE DEF e
<1>5. dk' \in [0..1 -> Drives]
  BY <1>1, <1>2, <1>4
<1>6. dk'[fdSel] = e /\ \A d \in 0..1 : d # fdSel => dk'[d] = dk[d]
  BY <1>1, <1>2
<1> QED
  BY <1>4, <1>5, <1>6 DEF g, o

\* The byte that a read command takes.
LEMMA ByteTyped ==
    ASSUME FdTyped, dk[fdSel].off < dk[fdSel].len,
           ~(dk[fdSel].src = "disk" /\ Ready(fdSel) /\ dk[fdSel].pos + dk[fdSel].off >= ImageLen)
    PROVE  (IF dk[fdSel].src = "buffer" THEN AddressBytes(fdSel)[dk[fdSel].off + 1]
            ELSE IF Ready(fdSel) THEN fdImage[dk[fdSel].pos + dk[fdSel].off] ELSE 0) \in Nat
<1> DEFINE g == dk[fdSel]
<1>1. g \in Drives /\ (g.src = "buffer" => g.len = 6) /\ fdImage \in Images
  BY DEF FdTyped, RegTyped, DiskTyped
<1>2. CASE g.src = "buffer"
  <2>1. AddressBytes(fdSel) = <<g.track, g.side, g.sec, 3, 0, 0>>
    BY DEF AddressBytes
  <2> HIDE DEF g
  <2>2. g.off \in {0, 1, 2, 3, 4, 5} /\ g.track \in Nat /\ g.side \in Nat /\ g.sec \in Nat
    BY <1>1, <1>2 DEF Drives, g
  <2>3. AddressBytes(fdSel)[g.off + 1] \in Nat
    BY <2>1, <2>2
  <2> QED
    BY <1>2, <2>3 DEF g
<1>3. CASE g.src # "buffer"
  <2>1. g.src = "disk" /\ g.pos \in Nat /\ g.off \in Nat
    BY <1>1, <1>3 DEF Drives
  <2>2. Ready(fdSel) => g.pos + g.off \in 0..(ImageLen - 1)
    BY <2>1, Sizes
  <2> QED
    BY <1>1, <1>3, <2>2 DEF Images
<1> QED
  BY <1>2, <1>3

\* flush() keeps the types, and leaves the file as the image or loses it.  Only a
\* crash leaves it dirty.
LEMMA FlushMakes ==
    ASSUME NEW img, NEW dirty \in BOOLEAN, FlagTyped, Flush(img, dirty),
           ~dirty /\ ~fdLost => fdFile = img
    PROVE  /\ fdDirty' \in BOOLEAN /\ fdCrash' \in BOOLEAN /\ fdLost' \in BOOLEAN
           /\ ~fdDirty' /\ ~fdLost' => fdFile' = img
           /\ ~fdCrash' => ~fdDirty'
<1>1. CASE dirty
  <2>1. FlushDirty(img)
    BY <1>1 DEF Flush
  <2>2. CASE fdCrash' = TRUE /\ fdDirty' = TRUE /\ UNCHANGED <<fdFile, fdLost>>
    BY <2>2, Zenon DEF FlagTyped
  <2>3. CASE fdDirty' = FALSE /\ UNCHANGED fdCrash /\ fdFile' = img /\ fdLost' = FALSE
    BY <2>3, Zenon DEF FlagTyped
  <2>4. CASE fdDirty' = FALSE /\ UNCHANGED fdCrash /\ fdLost' = TRUE
    BY <2>4, Zenon DEF FlagTyped
  <2> QED
    BY <2>1, <2>2, <2>3, <2>4, Zenon DEF FlushDirty
<1>2. CASE ~dirty
  <2>1. fdDirty' = FALSE /\ fdFile' = fdFile /\ (fdLost' <=> fdLost) /\ (fdCrash' <=> fdCrash)
        /\ fdLost' = fdLost /\ fdCrash' = fdCrash
    BY <1>2 DEF Flush
  <2> QED
    BY <1>2, <2>1, Zenon DEF FlagTyped
<1> QED
  BY <1>1, <1>2

\* exec() keeps the types, and the command.
LEMMA ExecTyped ==
    ASSUME FdTyped, Clean, NEW drq \in BOOLEAN, NEW data \in Nat, Exec(drq, data)
    PROVE  /\ fdCmd' = fdCmd /\ DiskTyped'
           /\ fdBusy' \in BOOLEAN /\ fdDrq' \in BOOLEAN /\ fdDirty' \in BOOLEAN /\ fdCrash' \in BOOLEAN
           /\ fdLost' \in BOOLEAN
<1> DEFINE g == dk[fdSel]
<1>1. /\ RegTyped /\ FlagTyped /\ DiskTyped /\ fdSel \in 0..1 /\ dk \in [0..1 -> Drives]
      /\ g \in Drives /\ g.pos \in Nat /\ g.off \in Nat
  BY DEF FdTyped, RegTyped, DiskTyped, Drives
<1>2. CASE ExecRead(drq, data)
  <2>1. UNCHANGED <<fdImage, fdFile, fdDirty, fdLost, fdCmd>>
    BY <1>2 DEF ExecRead
  <2>2. CASE drq /\ fdDrq' = drq /\ fdData' = data /\ UNCHANGED <<fdBusy, dk, fdCrash>>
    BY <1>1, <2>1, <2>2 DEF DiskTyped, FlagTyped
  <2>3. CASE fdBusy' = FALSE /\ fdDrq' = FALSE /\ fdData' = data /\ UNCHANGED <<dk, fdCrash>>
    BY <1>1, <2>1, <2>3 DEF DiskTyped, FlagTyped
  <2>4. CASE fdCrash' = TRUE /\ UNCHANGED <<fdBusy, fdDrq, fdData, dk>>
    BY <1>1, <2>1, <2>4 DEF DiskTyped, FlagTyped
  <2>5. CASE /\ g.off < g.len /\ ~(g.src = "disk" /\ Ready(fdSel) /\ g.pos + g.off >= ImageLen)
             /\ fdData' = IF g.src = "buffer" THEN AddressBytes(fdSel)[g.off + 1]
                          ELSE IF Ready(fdSel) THEN fdImage[g.pos + g.off] ELSE 0
             /\ dk' = [dk EXCEPT ![fdSel].off = @ + 1]
             /\ fdDrq' = TRUE
             /\ UNCHANGED <<fdBusy, fdCrash>>
    <3>1. fdData' \in Nat
      BY <2>5, ByteTyped
    <3>2. dk' \in [0..1 -> Drives] /\ \A d \in 0..1 : dk'[d].src = dk[d].src /\ dk'[d].len = dk[d].len
      BY <1>1, <2>5, Advanced
    <3>3. DiskTyped'
      BY <1>1, <2>1, <3>1, <3>2 DEF DiskTyped
    <3> QED
      BY <1>1, <2>1, <2>5, <3>3 DEF FlagTyped
  <2> QED
    BY <1>2, <2>2, <2>3, <2>4, <2>5 DEF ExecRead
<1>3. CASE ExecWrite(drq, data)
  <2> DEFINE at == g.pos + g.off
             img == IF Ready(fdSel) THEN [fdImage EXCEPT ![at] = data] ELSE fdImage
             dirty == fdDirty \/ img # fdImage
  <2>1. fdCmd' = fdCmd /\ fdData' = data
    BY <1>3 DEF ExecWrite
  <2>2. CASE drq /\ fdDrq' = drq /\ UNCHANGED <<fdBusy, dk, fdImage, fdFile, fdDirty, fdLost, fdCrash>>
    BY <1>1, <2>1, <2>2 DEF DiskTyped, FlagTyped
  <2>3. CASE /\ fdBusy' = FALSE /\ fdDrq' = FALSE
             /\ UNCHANGED <<dk, fdImage, fdFile, fdDirty, fdLost, fdCrash>>
    BY <1>1, <2>1, <2>3 DEF DiskTyped, FlagTyped
  <2>4. CASE fdCrash' = TRUE /\ fdDrq' = drq /\ UNCHANGED <<fdBusy, dk, fdImage, fdFile, fdDirty, fdLost>>
    BY <1>1, <2>1, <2>4 DEF DiskTyped, FlagTyped
  <2>5. CASE /\ fdImage' = img
             /\ dk' = [dk EXCEPT ![fdSel].off = @ + 1]
             /\ fdDrq' = TRUE /\ UNCHANGED fdBusy
             /\ IF g.off + 1 = g.len THEN Flush(img, dirty)
                ELSE fdDirty' = dirty /\ UNCHANGED <<fdFile, fdLost, fdCrash>>
    <3>1. img \in Images
      BY <1>1 DEF DiskTyped, Images
    <3>2. dk' \in [0..1 -> Drives] /\ \A d \in 0..1 : dk'[d].src = dk[d].src /\ dk'[d].len = dk[d].len
      BY <1>1, <2>5, Advanced
    <3>3. dirty \in BOOLEAN
      OBVIOUS
    <3>6. ~dirty /\ ~fdLost => fdFile = img
      BY Zenon DEF Clean
    <3> HIDE DEF img, dirty
    <3>4. fdDirty' \in BOOLEAN /\ fdCrash' \in BOOLEAN /\ fdLost' \in BOOLEAN
      <4>1. CASE g.off + 1 = g.len
        BY <1>1, <2>5, <3>3, <3>6, <4>1, FlushMakes
      <4>2. CASE g.off + 1 # g.len
        BY <1>1, <2>5, <3>3, <4>2, Zenon DEF FlagTyped
      <4> QED
        BY <4>1, <4>2
    <3>5. DiskTyped'
      BY <1>1, <2>1, <2>5, <3>1, <3>2, <3>4 DEF DiskTyped
    <3> QED
      BY <1>1, <2>1, <2>5, <3>4, <3>5 DEF FlagTyped
  <2> QED
    BY <1>3, <2>2, <2>3, <2>4, <2>5 DEF ExecWrite
<1>4. CASE ExecOther(drq, data)
  BY <1>1, <1>4 DEF ExecOther, DiskTyped, FlagTyped
<1> QED
  BY <1>2, <1>3, <1>4 DEF Exec

-----------------------------------------------------------------------------
\* An image that is not dirty is the file's, whatever exec() does.
LEMMA ExecClean ==
    ASSUME FdTyped, Clean, NEW drq, NEW data, Exec(drq, data)
    PROVE  Clean'
<1>1. CASE ExecRead(drq, data)
  BY <1>1 DEF ExecRead, Clean
<1>2. CASE ExecOther(drq, data)
  BY <1>2 DEF ExecOther, Clean
<1>3. CASE ExecWrite(drq, data)
  <2> DEFINE g == dk[fdSel]
             img == IF Ready(fdSel) THEN [fdImage EXCEPT ![g.pos + g.off] = data] ELSE fdImage
             dirty == fdDirty \/ img # fdImage
  <2>1. CASE UNCHANGED <<fdImage, fdFile, fdDirty, fdLost>>
    BY <2>1 DEF Clean
  <2>2. CASE /\ fdImage' = img
             /\ IF g.off + 1 = g.len THEN Flush(img, dirty)
                ELSE fdDirty' = dirty /\ UNCHANGED <<fdFile, fdLost, fdCrash>>
    <3>1. (~dirty /\ ~fdLost => fdFile = img) /\ dirty \in BOOLEAN /\ FlagTyped
      BY Zenon DEF Clean, FdTyped
    <3> HIDE DEF dirty, img
    <3>2. CASE g.off + 1 = g.len
      <4>1. ~fdDirty' /\ ~fdLost' => fdFile' = img
        BY <2>2, <3>1, <3>2, FlushMakes
      <4> QED
        BY <2>2, <4>1 DEF Clean
    <3>3. CASE g.off + 1 # g.len
      BY <2>2, <3>1, <3>3, Zenon DEF Clean
    <3> QED
      BY <3>2, <3>3
  <2> QED
    BY <1>3, <2>1, <2>2 DEF ExecWrite
<1> QED
  BY <1>1, <1>2, <1>3 DEF Exec

\* exec() in a read of the disk in drive 0: nothing while DRQ is up, else the end
\* or the next byte.
ReadStep(drq, data) ==
    /\ UNCHANGED <<fdImage, fdFile, fdDirty>>
    /\ \/ drq /\ fdDrq' = drq /\ fdData' = data /\ UNCHANGED <<fdBusy, dk>>
       \/ /\ ~drq /\ dk[0].off >= dk[0].len /\ fdBusy' = FALSE /\ fdDrq' = FALSE
          /\ UNCHANGED dk
       \/ /\ ~drq /\ dk[0].off < dk[0].len /\ ~(dk[0].pos + dk[0].off >= ImageLen)
          /\ fdData' = fdImage[dk[0].pos + dk[0].off]
          /\ dk' = [dk EXCEPT ![fdSel].off = @ + 1] /\ fdDrq' = TRUE /\ UNCHANGED fdBusy

\* exec() in a write to it: the same, and the last byte makes the file the image,
\* or the flush loses it.
WriteStep(drq, data) ==
    \/ drq /\ fdDrq' = drq /\ UNCHANGED <<fdBusy, dk, fdImage, fdFile, fdLost>>
    \/ /\ ~drq /\ dk[0].off >= dk[0].len /\ fdBusy' = FALSE /\ fdDrq' = FALSE
       /\ UNCHANGED <<dk, fdImage, fdFile, fdLost>>
    \/ /\ ~drq /\ dk[0].off < dk[0].len /\ dk[0].pos + dk[0].off < ImageLen
       /\ fdImage' = [fdImage EXCEPT ![dk[0].pos + dk[0].off] = data]
       /\ dk' = [dk EXCEPT ![fdSel].off = @ + 1] /\ fdDrq' = TRUE /\ UNCHANGED fdBusy
       /\ dk[0].off + 1 = dk[0].len => fdLost' \/ fdFile' = fdImage'

\* What exec() does in a read.
LEMMA ExecReads ==
    ASSUME FdTyped, NEW drq, NEW data, Exec(drq, data), ~fdCrash', fdCmd = "read", fdSel = 0,
           dk[0].src = "disk"
    PROVE  ReadStep(drq, data)
<1>1. ExecRead(drq, data)
  BY DEF Exec, ExecWrite, ExecOther
<1> QED
  BY <1>1, Zenon DEF ExecRead, Ready, ReadStep

\* It stays in its sector.
LEMMA ReadAims ==
    ASSUME FdTyped, fdSel = 0, dk[0].len = FdSectorSize, dk[0].off <= FdSectorSize,
           NEW drq, NEW data, ReadStep(drq, data)
    PROVE  /\ dk'[0].src = dk[0].src /\ dk'[0].len = FdSectorSize /\ dk'[0].off <= FdSectorSize
           /\ dk'[0].pos = dk[0].pos
<1>1. CASE UNCHANGED dk
  BY <1>1
<1>2. CASE dk[0].off < dk[0].len /\ dk' = [dk EXCEPT ![fdSel].off = @ + 1]
  <2>1. /\ dk'[0].off = dk[0].off + 1 /\ dk'[0].src = dk[0].src /\ dk'[0].len = dk[0].len
        /\ dk'[0].pos = dk[0].pos
    BY <1>2, Advanced DEF FdTyped
  <2>2. dk[0].off \in Nat /\ FdSectorSize \in Nat
    BY Sizes DEF FdTyped, DiskTyped, Drives
  <2> QED
    BY <1>2, <2>1, <2>2
<1> QED
  BY <1>1, <1>2 DEF ReadStep

\* What exec() does in a write.
LEMMA ExecWrites ==
    ASSUME FdTyped, Clean, NEW drq, NEW data, Exec(drq, data), ~fdCrash', fdCmd = "write", fdSel = 0
    PROVE  WriteStep(drq, data)
<1> DEFINE g == dk[0]
           img == [fdImage EXCEPT ![g.pos + g.off] = data]
           dirty == fdDirty \/ img # fdImage
<1>1. ExecWrite(drq, data)
  BY DEF Exec, ExecRead, ExecOther
<1>2. g.pos + g.off \in Int /\ ImageLen \in Int
  BY Sizes DEF FdTyped, DiskTyped, Drives
<1>3. CASE /\ ~drq /\ g.off < g.len /\ ~(g.pos + g.off >= ImageLen)
           /\ fdImage' = img
           /\ dk' = [dk EXCEPT ![fdSel].off = @ + 1]
           /\ fdDrq' = TRUE /\ UNCHANGED fdBusy
           /\ IF g.off + 1 = g.len THEN Flush(img, dirty)
              ELSE fdDirty' = dirty /\ UNCHANGED <<fdFile, fdLost, fdCrash>>
  <2>1. (~dirty /\ ~fdLost => fdFile = img) /\ dirty \in BOOLEAN /\ FlagTyped
    BY Zenon DEF Clean, FdTyped
  <2>2. g.pos + g.off < ImageLen
    BY <1>2, <1>3
  <2> HIDE DEF img, dirty
  <2>3. g.off + 1 = g.len => fdLost' \/ fdFile' = fdImage'
    <3> SUFFICES ASSUME g.off + 1 = g.len PROVE fdLost' \/ fdFile' = img
      BY <1>3
    <3>1. Flush(img, dirty)
      BY <1>3
    <3>2. (~fdDirty' /\ ~fdLost' => fdFile' = img) /\ ~fdDirty'
      BY <2>1, <3>1, FlushMakes
    <3> QED
      BY <3>2
  <2> QED
    BY <1>3, <2>2, <2>3, Zenon DEF img, WriteStep
<1> QED
  BY <1>1, <1>3, Zenon DEF ExecWrite, Ready, WriteStep

-----------------------------------------------------------------------------
\* A driver without a command.
LEMMA DriverMakes ==
    \A at \in {"idle", "set", "closed"} :
        Driver(at) \in Drivers /\ Driver(at).at = at /\ Driver(at).want = "none"
<1> SUFFICES ASSUME NEW at \in {"idle", "set", "closed"}
             PROVE  Driver(at) \in Drivers /\ Driver(at).at = at /\ Driver(at).want = "none"
  OBVIOUS
<1>1. <<>> \in Seq(Nat)
  OBVIOUS
<1> QED
  BY <1>1 DEF Driver, Drivers, Transfers, Moves

\* A new controller is at rest and its file is the image.
LEMMA FdInitInv == FdInit => FdInv
<1> SUFFICES ASSUME FdInit PROVE FdInv
  OBVIOUS
<1>1. NewImage \in Images
  BY DEF NewImage, Images
<1>2. NoDrive \in Drives /\ NoDrive.src = "disk"
  BY DEF NoDrive, Drives
<1>3. dk \in [0..1 -> Drives] /\ \A d \in 0..1 : dk[d].src = "disk"
  BY <1>2 DEF FdInit
<1>5. drv \in Drivers
  BY DriverMakes DEF FdInit
<1>6. RegTyped /\ FlagTyped /\ DiskTyped
  <2>1. RegTyped
    BY DEF FdInit, RegTyped, Transfers
  <2>2. FlagTyped
    BY DEF FdInit, FlagTyped
  <2>3. fdImage \in Images /\ fdData \in Nat
    BY <1>1 DEF FdInit
  <2> QED
    BY <1>3, <2>1, <2>2, <2>3 DEF DiskTyped
<1>7. drv.at = "idle" /\ drv.want = "none" /\ fdFile = fdImage
  BY DriverMakes DEF FdInit
<1>8. FdSound /\ TransferAtRegisters /\ Clean /\ Closed
  BY <1>7 DEF FdSound, Agreed, Moving, Under, Aimed, Reading, Writing, Rested, Clean, Closed,
              TransferAtRegisters
<1> QED
  BY <1>5, <1>6, <1>8 DEF FdInv, FdTyped

\* The driver sets the registers.
LEMMA SetupInv ==
    ASSUME FdInv, FdSetup
    PROVE  FdInv'
<1> USE DEF FdInv
<1>1. PICK t \in 0..FdTracks, s \in 1..FdSectors, d \in 0..1, side \in 0..1 :
        fdTrack' = t /\ fdSector' = s /\ fdSel' = d /\ fdSide' = side
  BY DEF FdSetup
<1>2. /\ fdDrq' = FALSE /\ drv' = Driver("set") /\ Alive
      /\ UNCHANGED <<fdBusy, fdData, fdDir, fdCmd, dk, fdImage, fdFile, fdDirty, fdCrash, fdLost>>
  BY DEF FdSetup
<1>3. RegTyped' /\ fdSector' >= 1
  BY <1>1, <1>2, Sizes DEF FdTyped, RegTyped
<1>4. FlagTyped' /\ DiskTyped'
  <2>1. FlagTyped'
    BY <1>2, Zenon DEF FdTyped, FlagTyped
  <2>2. DiskTyped'
    BY <1>2 DEF FdTyped, DiskTyped
  <2> QED
    BY <2>1, <2>2
<1>5. drv' \in Drivers /\ drv'.at = "set" /\ drv'.want = "none"
  BY <1>2, DriverMakes
<1>6. FdSound' /\ TransferAtRegisters' /\ Clean' /\ Closed'
  BY <1>2, <1>3, <1>5 DEF FdSound, Agreed, Moving, Under, Aimed, Reading, Writing, Rested, Clean,
              Closed, TransferAtRegisters
<1> QED
  BY <1>3, <1>4, <1>5, <1>6 DEF FdTyped

\* The driver writes the data register between commands, and a transfer that was
\* given up goes on.
LEMMA SetDataInv ==
    ASSUME FdInv, FdSetData
    PROVE  FdInv'
<1> USE DEF FdInv
<1>1. PICK v \in 0..FdTracks : Exec(FALSE, v)
  BY DEF FdSetData
<1>2. /\ Alive /\ drv.at = "set"
      /\ UNCHANGED <<fdSel, fdSide, fdTrack, fdSector, fdDir, drv>>
  BY DEF FdSetData
<1>3. FdTyped /\ RegTyped /\ DiskTyped /\ drv \in Drivers /\ FdSound /\ Clean /\ v \in Nat
  BY <1>2, Sizes DEF FdTyped
<1>4. /\ fdCmd' = fdCmd /\ DiskTyped' /\ fdBusy' \in BOOLEAN /\ fdDrq' \in BOOLEAN
      /\ fdDirty' \in BOOLEAN /\ fdCrash' \in BOOLEAN /\ fdLost' \in BOOLEAN
  BY <1>1, <1>3, ExecTyped, FALSE \in BOOLEAN
<1>5. FdTyped'
  <2>1. RegTyped'
    BY <1>2, <1>3, <1>4 DEF RegTyped
  <2> QED
    BY <1>2, <1>3, <1>4, <2>1 DEF FdTyped, FlagTyped
<1>6. Clean'
  BY <1>1, <1>3, ExecClean
<1>7. FdSound' /\ TransferAtRegisters' /\ Closed'
  BY <1>2, <1>3 DEF FdSound, Agreed, Moving, Under, Aimed, Reading, Writing, Rested,
              Closed, TransferAtRegisters
<1> QED
  BY <1>5, <1>6, <1>7

\* The driver gives up.
LEMMA GiveUpInv ==
    ASSUME FdInv, FdGiveUp
    PROVE  FdInv'
<1> USE DEF FdInv
<1>1. /\ drv' = Driver("idle") /\ Alive
      /\ UNCHANGED <<fdRegs, fdBusy, fdDrq, fdCmd, dk, fdImage, fdFile, fdDirty, fdCrash, fdLost>>
  BY DEF FdGiveUp
<1>2. RegTyped' /\ FlagTyped' /\ DiskTyped'
  BY <1>1 DEF FdTyped, RegTyped, FlagTyped, DiskTyped, fdRegs
<1>3. drv' \in Drivers /\ drv'.at = "idle" /\ drv'.want = "none"
  BY <1>1, DriverMakes
<1>4. FdSound' /\ TransferAtRegisters' /\ Clean' /\ Closed'
  BY <1>1, <1>3 DEF FdSound, Agreed, Moving, Under, Aimed, Reading, Writing, Rested, Clean,
              Closed, TransferAtRegisters
<1> QED
  BY <1>2, <1>3, <1>4 DEF FdTyped

\* The disk is closed, and flushed.
LEMMA CloseInv ==
    ASSUME FdInv, FdClose
    PROVE  FdInv'
<1> USE DEF FdInv
<1>1. /\ drv' = Driver("closed") /\ Alive /\ Flush(fdImage, fdDirty)
      /\ UNCHANGED <<fdRegs, fdBusy, fdDrq, fdCmd, dk, fdImage>>
  BY DEF FdClose
<1>2. FlagTyped /\ fdDirty \in BOOLEAN /\ (~fdDirty /\ ~fdLost => fdFile = fdImage)
  BY DEF FdTyped, FlagTyped, Clean
<1>3. /\ fdDirty' \in BOOLEAN /\ fdCrash' \in BOOLEAN /\ fdLost' \in BOOLEAN
      /\ ~fdDirty' /\ ~fdLost' => fdFile' = fdImage
      /\ ~fdCrash' => ~fdDirty'
  BY <1>1, <1>2, FlushMakes
<1>4. RegTyped' /\ FlagTyped' /\ DiskTyped'
  <2>1. RegTyped' /\ DiskTyped'
    BY <1>1 DEF FdTyped, RegTyped, DiskTyped, fdRegs
  <2>2. FlagTyped'
    BY <1>1, <1>2, <1>3, Zenon DEF FlagTyped
  <2> QED
    BY <2>1, <2>2
<1>5. drv' \in Drivers /\ drv'.at = "closed" /\ drv'.want = "none"
  BY <1>1, DriverMakes
<1>6. FdSound' /\ TransferAtRegisters'
  BY <1>1, <1>5 DEF FdSound, Agreed, Moving, Under, Aimed, Reading, Writing, Rested,
              TransferAtRegisters
<1>7. Clean' /\ Closed'
  BY <1>1, <1>3 DEF Clean, Closed, Alive
<1> QED
  BY <1>4, <1>5, <1>6, <1>7 DEF FdTyped

\* A command: the driver of a command that moves the head has no sector under
\* way, the one of a transfer has an empty one.
LEMMA CommandInv ==
    ASSUME FdInv, FdCommand
    PROVE  FdInv'
<1> USE DEF FdInv
<1>1. PICK c \in FdCommands :
        /\ CommandMove(c) \/ CommandTransfer(c) \/ CommandForce(c)
        /\ drv' = [at |-> "poll", want |-> c, moved |-> <<>>, from |-> dk'[fdSel].pos, sel |-> fdSel,
                   stale |-> fdDrq]
  BY DEF FdCommand
<1>2. /\ Alive /\ drv.at = "set"
      /\ UNCHANGED <<fdSel, fdSide, fdData, fdSector, fdImage, fdFile, fdDirty, fdCrash, fdLost>>
  BY DEF FdCommand
<1>3. /\ RegTyped /\ FlagTyped /\ DiskTyped /\ dk \in [0..1 -> Drives]
      /\ fdSel \in 0..1 /\ fdSide \in 0..1 /\ fdTrack \in Nat /\ fdSector \in Nat /\ fdSector >= 1
      /\ fdData \in Nat /\ fdDrq \in BOOLEAN /\ Clean
  BY <1>2 DEF FdTyped, RegTyped, FlagTyped, DiskTyped, FdSound, Agreed
<1>4. /\ drv'.at = "poll" /\ drv'.want = c /\ drv'.moved = <<>> /\ drv'.from = dk'[fdSel].pos
      /\ drv'.sel = fdSel /\ drv'.stale = fdDrq
  BY <1>1
<1>5. ASSUME dk' \in [0..1 -> Drives], c \in Transfers \cup Moves \cup {"force"}
      PROVE  drv' \in Drivers
  <2>1. dk'[fdSel].pos \in Nat /\ <<>> \in Seq(Nat)
    BY <1>3, <1>5 DEF Drives
  <2> DEFINE f == dk'[fdSel].pos
             q == <<>>
  <2> HIDE DEF f, q
  <2>2. [at |-> "poll", want |-> c, moved |-> q, from |-> f, sel |-> fdSel, stale |-> fdDrq] \in Drivers
    BY <1>3, <1>5, <2>1 DEF Drivers, f, q
  <2> QED
    BY <1>1, <2>2 DEF f, q
<1>6. Clean' /\ Closed'
  BY <1>2, <1>3, <1>4 DEF Clean, Closed
<1>7. CASE CommandMove(c) \/ CommandForce(c)
  <2>1. c \in Moves \cup {"force"} /\ fdCmd' = "none"
    BY <1>7 DEF CommandMove, CommandForce, Moves
  <2>2. fdBusy' \in BOOLEAN /\ fdDrq' \in BOOLEAN
    BY <1>3, <1>7 DEF CommandMove, CommandForce, FlagTyped
  <2>3. fdTrack' \in Nat /\ fdDir' \in {1, -1}
    BY <1>3, <1>7 DEF CommandMove, CommandForce, Floor, RegTyped
  <2>4. dk' \in [0..1 -> Drives] /\ \A d \in 0..1 : dk'[d].src = dk[d].src /\ dk'[d].len = dk[d].len
    <3>1. CASE dk' = [dk EXCEPT ![fdSel] = Seek(fdSel, 0, 1, fdSide)]
      <4> DEFINE e == Seek(fdSel, 0, 1, fdSide)
      <4>1. e \in Drives /\ e.len = dk[fdSel].len /\ e.src = dk[fdSel].src
        BY <1>3, SeekMakes, 0 \in Nat, 1 \in Nat
      <4> HIDE DEF e
      <4> QED
        BY <1>3, <3>1, <4>1 DEF e
    <3>2. CASE dk' = [dk EXCEPT ![fdSel] = Seek(fdSel, fdData, fdSector, fdSide)]
      <4> DEFINE e == Seek(fdSel, fdData, fdSector, fdSide)
      <4>1. e \in Drives /\ e.len = dk[fdSel].len /\ e.src = dk[fdSel].src
        BY <1>3, SeekMakes
      <4> HIDE DEF e
      <4> QED
        BY <1>3, <3>2, <4>1 DEF e
    <3>3. CASE dk' = dk
      BY <1>3, <3>3
    <3> QED
      BY <1>7, <3>1, <3>2, <3>3 DEF CommandMove, CommandForce
  <2>5. RegTyped' /\ FlagTyped' /\ DiskTyped'
    <3>1. RegTyped'
      BY <1>2, <1>3, <2>1, <2>3 DEF RegTyped
    <3>2. FlagTyped'
      BY <1>2, <1>3, <2>2 DEF FlagTyped
    <3>3. DiskTyped'
      BY <1>2, <1>3, <2>4 DEF DiskTyped
    <3> QED
      BY <3>1, <3>2, <3>3
  <2>6. c \notin Transfers
    BY <2>1 DEF Moves, Transfers
  <2>7. FdSound' /\ TransferAtRegisters'
    BY <1>2, <1>4, <1>6, <2>1, <2>6
    DEF FdSound, Agreed, Moving, Under, Aimed, Reading, Writing, Rested, TransferAtRegisters, Transfers
  <2> QED
    BY <1>5, <1>6, <2>1, <2>4, <2>5, <2>7 DEF FdTyped
<1>8. CASE CommandTransfer(c)
  <2>1. /\ c \in Transfers /\ fdCmd' = c /\ fdBusy' = TRUE /\ fdDrq' = (fdDrq \/ c = "write")
        /\ UNCHANGED <<fdTrack, fdDir>>
    BY <1>8 DEF CommandTransfer, Transfers
  <2> DEFINE e == Transfer(fdSel, fdTrack, fdSector, fdSide)
  <2>2. /\ e \in Drives /\ e.len = FdSectorSize /\ e.off = 0 /\ e.src = "disk"
        /\ fdSel = 0 => e.pos = SectorAt(fdTrack, fdSector, fdSide)
    BY <1>3, TransferMakes
  <2>3. c # "address" => dk' = [dk EXCEPT ![fdSel] = e]
    BY <1>8 DEF CommandTransfer
  <2> HIDE DEF e
  <2>4. dk' \in [0..1 -> Drives] /\ \A d \in 0..1 : dk'[d].src = "buffer" => dk'[d].len = 6
    <3>1. CASE c # "address"
      BY <1>3, <2>2, <2>3, <3>1 DEF DiskTyped
    <3>2. CASE c = "address"
      <4> DEFINE g == dk[fdSel]
                 l == 6
                 z == 0
                 f == [g EXCEPT !.len = l, !.off = z, !.src = "buffer"]
      <4>1. dk' = [dk EXCEPT ![fdSel] = f]
        BY <1>8, <3>2 DEF CommandTransfer
      <4>2. g \in Drives /\ l \in Nat /\ z \in Nat
        BY <1>3
      <4> HIDE DEF g, l, z
      <4>3. f \in Drives /\ f.len = l
        BY <4>2 DEF Drives
      <4> HIDE DEF f
      <4> QED
        BY <1>3, <4>1, <4>3 DEF DiskTyped, l
    <3> QED
      BY <3>1, <3>2
  <2>5. RegTyped' /\ FlagTyped' /\ DiskTyped'
    <3>1. RegTyped'
      BY <1>2, <1>3, <2>1 DEF RegTyped
    <3>2. FlagTyped'
      BY <1>2, <1>3, <2>1, Zenon DEF FlagTyped
    <3>3. DiskTyped'
      BY <1>2, <1>3, <2>4 DEF DiskTyped
    <3> QED
      BY <3>1, <3>2, <3>3
  <2>6. Agreed' /\ Rested'
    BY <1>2, <1>4, <2>1 DEF Agreed, Moving, Rested, Transfers
  <2>7. ASSUME fdSel = 0, c # "address"
        PROVE  /\ dk'[0].src = "disk" /\ dk'[0].len = FdSectorSize /\ dk'[0].off = 0
               /\ drv'.from = dk'[0].pos /\ dk'[0].pos = SectorAt(fdTrack, fdSector, fdSide)
    BY <1>3, <1>4, <2>2, <2>3, <2>7
  <2>8. Aimed'
    BY <1>4, <2>7, Sizes DEF Aimed, Under
  <2>9. Len(drv'.moved) = 0 /\ Moved(0)' /\ fdBusy' /\ (fdDrq' <=> fdDrq \/ c = "write")
    <3>1. Len(drv'.moved) = 0 /\ Moved(0)'
      BY <1>4 DEF Moved
    <3>2. fdBusy' /\ (fdDrq' <=> fdDrq \/ c = "write")
      BY <1>3, <2>1, Zenon
    <3> QED
      BY <3>1, <3>2
  <2>10. Reading' /\ Writing'
    <3>1. CASE c = "read" /\ fdSel = 0
      <4>1. (~drv'.stale => ~fdDrq') /\ dk'[0].off = 0 /\ c # "write"
        BY <1>4, <2>7, <2>9, <3>1
      <4> QED
        BY <1>4, <2>9, <4>1 DEF Reading, Writing, Under
    <3>2. CASE c = "write" /\ fdSel = 0
      <4>1. fdDrq' /\ dk'[0].off = 0 /\ c # "read" /\ 0 # FdSectorSize
        BY <2>7, <2>9, <3>2, Sizes
      <4> QED
        BY <1>4, <2>9, <4>1 DEF Reading, Writing, Under
    <3>3. CASE ~(c \in {"read", "write"} /\ fdSel = 0)
      BY <1>4, <3>3 DEF Reading, Writing, Under
    <3> QED
      BY <3>1, <3>2, <3>3
  <2>11. TransferAtRegisters'
    <3>1. SectorAt(fdTrack, fdSector, fdSide) =
            ((fdTrack * Heads + fdSide) * FdSectors + fdSector - 1) * FdSectorSize
      BY <1>3, SectorPosition
    <3> QED
      BY <1>2, <1>4, <2>1, <2>7, <3>1 DEF TransferAtRegisters
  <2>12. FdSound'
    BY <1>6, <2>6, <2>8, <2>10 DEF FdSound
  <2> QED
    BY <1>5, <1>6, <2>1, <2>4, <2>5, <2>11, <2>12 DEF FdTyped
<1> QED
  BY <1>1, <1>7, <1>8

\* What the driver sees changes where it is and nothing else of it.
LEMMA SeeMakes ==
    ASSUME drv \in Drivers, See(fdBusy', fdDrq')
    PROVE  /\ drv' \in Drivers /\ drv'.want = drv.want /\ drv'.moved = drv.moved
           /\ drv'.from = drv.from /\ drv'.sel = drv.sel /\ drv'.stale = drv.stale
           /\ drv'.at \in {"idle", "poll", "move"} /\ (drv'.at = "idle" <=> ~fdBusy')
           /\ drv'.at = "move" => fdDrq' /\ drv.want \in Transfers
<1> DEFINE a == IF ~fdBusy' THEN "idle"
                ELSE IF fdDrq' /\ drv.want \in {"read", "write", "address"} THEN "move"
                ELSE "poll"
<1>1. drv' = [drv EXCEPT !.at = a]
  BY DEF See
<1>2. a \in {"idle", "poll", "move"} /\ (a = "idle" <=> ~fdBusy')
      /\ (a = "move" => fdDrq' /\ drv.want \in Transfers)
  BY DEF Transfers
<1> HIDE DEF a
<1> QED
  BY <1>1, <1>2 DEF Drivers

\* read(0): while the driver polls.
LEMMA StatusInv ==
    ASSUME FdInv, FdStatus
    PROVE  FdInv'
<1> USE DEF FdInv
<1>1. /\ Alive /\ drv.at = "poll" /\ See(fdBusy', fdDrq')
      /\ UNCHANGED <<fdSel, fdSide, fdTrack, fdSector, fdDir>>
  BY DEF FdStatus
<1>2. FdTyped /\ RegTyped /\ FlagTyped /\ DiskTyped /\ drv \in Drivers /\ FdSound /\ Clean
  BY <1>1 DEF FdTyped
<1>3. \/ fdBusy /\ Exec(fdDrq, fdData)
      \/ UNCHANGED <<fdData, fdBusy, fdDrq, fdCmd, dk, fdImage, fdFile, fdDirty, fdLost, fdCrash>>
  BY DEF FdStatus
<1>4. /\ drv' \in Drivers /\ drv'.want = drv.want /\ drv'.moved = drv.moved
      /\ drv'.from = drv.from /\ drv'.sel = drv.sel /\ drv'.stale = drv.stale
      /\ drv'.at \in {"idle", "poll", "move"} /\ (drv'.at = "idle" <=> ~fdBusy')
      /\ drv'.at = "move" => fdDrq' /\ drv.want \in Transfers
  BY <1>1, <1>2, SeeMakes
<1>5. /\ fdCmd' = fdCmd /\ DiskTyped' /\ fdBusy' \in BOOLEAN /\ fdDrq' \in BOOLEAN
      /\ fdDirty' \in BOOLEAN /\ fdCrash' \in BOOLEAN /\ fdLost' \in BOOLEAN
  <2>1. CASE Exec(fdDrq, fdData)
    <3>1. fdDrq \in BOOLEAN /\ fdData \in Nat
      BY <1>2 DEF FlagTyped, DiskTyped
    <3> QED
      BY <1>2, <2>1, <3>1, ExecTyped
  <2>2. CASE UNCHANGED <<fdData, fdBusy, fdDrq, fdCmd, dk, fdImage, fdFile, fdDirty, fdLost, fdCrash>>
    BY <1>2, <2>2 DEF FlagTyped, DiskTyped
  <2> QED
    BY <1>3, <2>1, <2>2
<1>6. FdTyped'
  <2>1. RegTyped'
    BY <1>1, <1>2, <1>5 DEF RegTyped
  <2> QED
    BY <1>4, <1>5, <2>1 DEF FdTyped, FlagTyped
<1>8. TransferAtRegisters' /\ Closed'
  BY <1>1, <1>4 DEF TransferAtRegisters, Closed
<1>9. Clean'
  BY <1>2, <1>3, ExecClean DEF Clean
<1>7. ASSUME Alive'
      PROVE  FdSound'
  <2>1. Agreed'
    BY <1>1, <1>2, <1>4, <1>5 DEF FdSound, Agreed, Moving
  <2>3. CASE drv.want = "read" /\ drv.sel = 0 /\ drv.stale
    <3>1. Under("read") /\ fdSel = 0 /\ fdCmd = "read"
      BY <1>1, <1>2, <2>3 DEF FdSound, Agreed, Under, Moving, Transfers
    <3>2. /\ dk[0].src = "disk" /\ dk[0].len = FdSectorSize /\ dk[0].off <= FdSectorSize
          /\ drv.from = dk[0].pos
      BY <1>2, <3>1 DEF FdSound, Aimed
    <3>3. CASE Exec(fdDrq, fdData)
      <4>1. ReadStep(fdDrq, fdData)
        BY <1>2, <1>7, <3>1, <3>2, <3>3, ExecReads DEF Alive
      <4>2. Aimed'
        BY <1>2, <1>4, <3>1, <3>2, <4>1, ReadAims DEF Aimed
      <4> QED
        BY <1>4, <2>1, <2>3, <4>2 DEF FdSound, Reading, Writing, Rested, Under
    <3>4. CASE UNCHANGED dk
      <4>1. Aimed'
        BY <1>4, <3>2, <3>4 DEF Aimed
      <4> QED
        BY <1>4, <2>1, <2>3, <4>1 DEF FdSound, Reading, Writing, Rested, Under
    <3> QED
      BY <1>3, <3>3, <3>4
  <2>4. CASE drv.want = "read" /\ drv.sel = 0 /\ ~drv.stale
    <3>1. Under("read") /\ fdSel = 0 /\ fdCmd = "read"
      BY <1>1, <1>2, <2>4 DEF FdSound, Agreed, Under, Moving, Transfers
    <3>2. /\ dk[0].src = "disk" /\ dk[0].len = FdSectorSize /\ dk[0].off <= FdSectorSize
          /\ drv.from = dk[0].pos
      BY <1>2, <3>1 DEF FdSound, Aimed
    <3>3. /\ Moved(Len(drv.moved))
          /\ fdBusy /\ ~fdDrq => dk[0].off = 0 /\ Len(drv.moved) = 0
          /\ fdBusy /\ fdDrq  => /\ dk[0].off = Len(drv.moved) + 1
                                 /\ drv.from + Len(drv.moved) < ImageLen
                                 /\ fdData = fdImage[drv.from + Len(drv.moved)]
          /\ ~fdBusy => Len(drv.moved) = FdSectorSize
      BY <1>2, <2>4, <3>1 DEF FdSound, Reading
    <3>4. \/ UNCHANGED <<fdData, fdBusy, fdDrq, dk, fdImage>>
          \/ /\ fdBusy /\ ~fdDrq /\ UNCHANGED <<fdImage, fdBusy>> /\ fdDrq' = TRUE
             /\ ~(dk[0].pos + dk[0].off >= ImageLen)
             /\ fdData' = fdImage[dk[0].pos + dk[0].off]
             /\ dk' = [dk EXCEPT ![fdSel].off = @ + 1]
      <4>1. CASE fdBusy /\ Exec(fdDrq, fdData)
        <5>1. ~fdDrq => dk[0].off < dk[0].len
          BY <3>2, <3>3, <4>1, Sizes
        <5>2. ~(~fdDrq /\ dk[0].off >= dk[0].len)
          BY <3>2, <3>3, <4>1, Sizes
        <5>3. ~fdCrash'
          BY <1>7 DEF Alive
        <5>4. ReadStep(fdDrq, fdData)
          BY <1>2, <3>1, <3>2, <4>1, <5>3, ExecReads
        <5> QED
          BY <4>1, <5>2, <5>4, Zenon DEF ReadStep
      <4>2. CASE UNCHANGED <<fdData, fdBusy, fdDrq, fdCmd, dk, fdImage, fdFile, fdDirty, fdLost, fdCrash>>
        BY <4>2
      <4> QED
        BY <1>3, <4>1, <4>2
    <3>5. CASE UNCHANGED <<fdData, fdBusy, fdDrq, dk, fdImage>>
      <4>1. Moved(Len(drv.moved))' /\ Len(drv'.moved) = Len(drv.moved)
        BY <1>4, <3>3, <3>5 DEF Moved
      <4>2. Aimed' /\ Reading' /\ Writing'
        BY <1>4, <2>4, <3>2, <3>3, <3>5, <4>1 DEF Aimed, Reading, Writing, Under
      <4>3. Rested'
        <5> SUFFICES ASSUME drv'.at = "idle" PROVE Rested'
          BY DEF Rested
        <5>1. ~fdBusy
          BY <1>4, <3>5
        <5>2. Len(drv.moved) = FdSectorSize
          BY <3>3, <5>1
        <5>3. Moved(FdSectorSize)'
          BY <1>4, <3>3, <3>5, <5>2 DEF Moved
        <5> QED
          BY <1>4, <2>4, <4>1, <5>2, <5>3 DEF Rested
      <4> QED
        BY <2>1, <4>2, <4>3 DEF FdSound
    <3>6. CASE /\ fdBusy /\ ~fdDrq /\ UNCHANGED <<fdImage, fdBusy>> /\ fdDrq' = TRUE
               /\ ~(dk[0].pos + dk[0].off >= ImageLen)
               /\ fdData' = fdImage[dk[0].pos + dk[0].off]
               /\ dk' = [dk EXCEPT ![fdSel].off = @ + 1]
      <4>1. /\ dk'[0].off = dk[0].off + 1 /\ dk'[0].src = dk[0].src /\ dk'[0].len = dk[0].len
            /\ dk'[0].pos = dk[0].pos
        BY <1>2, <3>1, <3>6, Advanced
      <4>2. dk[0].off = 0 /\ Len(drv.moved) = 0
        BY <3>3, <3>6
      <4>3. Moved(0)' /\ fdBusy' /\ fdDrq'
        BY <3>6 DEF Moved
      <4>4. Aimed'
        BY <1>4, <3>2, <4>1, <4>2, Sizes DEF Aimed
      <4>5. fdData' = fdImage'[drv'.from + 0] /\ drv'.from + 0 < ImageLen
        <5>1. dk[0].pos \in Nat
          BY <1>2 DEF DiskTyped, Drives
        <5> QED
          BY <1>4, <3>2, <3>6, <4>2, <5>1, Sizes
      <4>6. Reading' /\ Writing' /\ Rested'
        BY <1>4, <2>4, <4>1, <4>2, <4>3, <4>5 DEF Reading, Writing, Rested, Under
      <4> QED
        BY <2>1, <4>4, <4>6 DEF FdSound
    <3> QED
      BY <3>4, <3>5, <3>6
  <2>5. CASE drv.want = "write" /\ drv.sel = 0
    <3>1. Under("write") /\ fdSel = 0 /\ fdCmd = "write"
      BY <1>1, <1>2, <2>5 DEF FdSound, Agreed, Under, Moving, Transfers
    <3>2. Aimed /\ Writing
      BY <1>2 DEF FdSound
    <3>3. fdBusy => fdDrq
      BY <3>1, <3>2 DEF Writing
    <3>4. UNCHANGED <<fdBusy, fdDrq, dk, fdImage, fdFile, fdLost>>
      <4>1. CASE fdBusy /\ Exec(fdDrq, fdData)
        <5>1. WriteStep(fdDrq, fdData)
          BY <1>2, <1>7, <3>1, <3>2, <4>1, ExecWrites DEF Alive
        <5> QED
          BY <3>3, <4>1, <5>1, Zenon DEF WriteStep
      <4> QED
        BY <1>3, <4>1
    <3>5. Aimed' /\ Reading' /\ Writing'
      BY <1>4, <2>5, <3>1, <3>2, <3>4 DEF Aimed, Reading, Writing, Under, Moved
    <3>6. Rested'
      BY <1>4, <2>5, <3>1, <3>2, <3>4 DEF Rested, Writing, Moved
    <3> QED
      BY <2>1, <3>5, <3>6 DEF FdSound
  <2>6. CASE ~(drv.want \in {"read", "write"} /\ drv.sel = 0)
    <3>1. Aimed' /\ Reading' /\ Writing' /\ Rested'
      BY <1>4, <2>6 DEF Aimed, Reading, Writing, Rested, Under
    <3> QED
      BY <2>1, <3>1 DEF FdSound
  <2> QED
    BY <2>3, <2>4, <2>5, <2>6
<1> QED
  BY <1>6, <1>7, <1>8, <1>9

\* A byte moved is the driver's last.
LEMMA MoveMakes ==
    ASSUME drv \in Drivers, NEW v \in Nat, drv' = [drv EXCEPT !.at = "poll", !.moved = Append(@, v)]
    PROVE  /\ drv' \in Drivers /\ drv'.want = drv.want /\ drv'.from = drv.from /\ drv'.sel = drv.sel
           /\ drv'.stale = drv.stale /\ drv'.at = "poll" /\ Len(drv.moved) \in Nat /\ Len(drv'.moved) = Len(drv.moved) + 1
           /\ drv'.moved[Len(drv.moved) + 1] = v
           /\ \A i \in 1..Len(drv.moved) : drv'.moved[i] = drv.moved[i]
<1> DEFINE q == drv.moved
           r == Append(q, v)
<1>1. drv' = [drv EXCEPT !.at = "poll", !.moved = r]
  OBVIOUS
<1>2. q \in Seq(Nat)
  BY DEF Drivers
<1> HIDE DEF q
<1>3. /\ r \in Seq(Nat) /\ Len(q) \in Nat /\ Len(r) = Len(q) + 1 /\ r[Len(q) + 1] = v
      /\ \A i \in 1..Len(q) : r[i] = q[i]
  BY <1>2
<1> HIDE DEF r
<1>4. drv' \in Drivers /\ drv'.want = drv.want /\ drv'.from = drv.from /\ drv'.sel = drv.sel
      /\ drv'.stale = drv.stale /\ drv'.at = "poll" /\ drv'.moved = r
  BY <1>1, <1>3 DEF Drivers
<1> QED
  BY <1>3, <1>4 DEF q

\* read(3): the byte goes to the driver, and the next one to the data register.
LEMMA TakeInv ==
    ASSUME FdInv, FdTake
    PROVE  FdInv'
<1> USE DEF FdInv
<1>1. /\ Alive /\ drv.at = "move" /\ drv.want \in {"read", "address"} /\ Exec(FALSE, fdData)
      /\ drv' = [drv EXCEPT !.at = "poll", !.moved = Append(@, fdData)]
      /\ UNCHANGED <<fdSel, fdSide, fdTrack, fdSector, fdDir>>
  BY DEF FdTake
<1>2. FdTyped /\ RegTyped /\ DiskTyped /\ drv \in Drivers /\ FdSound /\ Clean /\ fdData \in Nat
  BY <1>1 DEF FdTyped, DiskTyped
<1>3. /\ drv' \in Drivers /\ drv'.want = drv.want /\ drv'.from = drv.from /\ drv'.sel = drv.sel
      /\ drv'.stale = drv.stale /\ drv'.at = "poll" /\ Len(drv.moved) \in Nat /\ Len(drv'.moved) = Len(drv.moved) + 1
      /\ drv'.moved[Len(drv.moved) + 1] = fdData
      /\ \A i \in 1..Len(drv.moved) : drv'.moved[i] = drv.moved[i]
  BY <1>1, <1>2, MoveMakes
<1>4. /\ fdCmd' = fdCmd /\ DiskTyped' /\ fdBusy' \in BOOLEAN /\ fdDrq' \in BOOLEAN
      /\ fdDirty' \in BOOLEAN /\ fdCrash' \in BOOLEAN /\ fdLost' \in BOOLEAN
  BY <1>1, <1>2, ExecTyped, FALSE \in BOOLEAN
<1>5. FdTyped'
  <2>1. RegTyped'
    BY <1>1, <1>2, <1>4 DEF RegTyped
  <2> QED
    BY <1>3, <1>4, <2>1 DEF FdTyped, FlagTyped
<1>7. TransferAtRegisters' /\ Closed'
  BY <1>1, <1>3 DEF TransferAtRegisters, Closed
<1>8. Clean'
  BY <1>1, <1>2, ExecClean
<1>6. ASSUME Alive'
      PROVE  FdSound'
  <2>1. Agreed'
    BY <1>1, <1>2, <1>3, <1>4 DEF FdSound, Agreed, Moving
  <2>4. Rested' /\ Writing'
    BY <1>1, <1>3 DEF Rested, Writing, Under
  <2>7. CASE drv.want = "read" /\ drv.sel = 0 /\ drv.stale
    <3>1. Under("read") /\ fdSel = 0 /\ fdCmd = "read"
      BY <1>1, <1>2, <2>7 DEF FdSound, Agreed, Under, Moving, Transfers
    <3>2. /\ dk[0].src = "disk" /\ dk[0].len = FdSectorSize /\ dk[0].off <= FdSectorSize
          /\ drv.from = dk[0].pos
      BY <1>2, <3>1 DEF FdSound, Aimed
    <3>3. ReadStep(FALSE, fdData)
      BY <1>1, <1>2, <1>6, <3>1, <3>2, ExecReads DEF Alive
    <3>4. Aimed'
      BY <1>2, <1>3, <3>1, <3>2, <3>3, ReadAims DEF Aimed
    <3> QED
      BY <1>3, <2>1, <2>4, <2>7, <3>4 DEF FdSound, Reading, Under
  <2>5. CASE drv.want = "read" /\ drv.sel = 0 /\ ~drv.stale
    <3> PICK n \in Nat : n = Len(drv.moved)
      BY <1>3
    <3>1. Under("read") /\ fdSel = 0 /\ fdCmd = "read" /\ fdBusy /\ fdDrq
      BY <1>1, <1>2, <2>5 DEF FdSound, Agreed, Under, Moving, Transfers
    <3>2. /\ dk[0].src = "disk" /\ dk[0].len = FdSectorSize /\ dk[0].off <= FdSectorSize
          /\ drv.from = dk[0].pos
      BY <1>2, <3>1 DEF FdSound, Aimed
    <3>3. /\ Moved(n) /\ dk[0].off = n + 1 /\ fdData = fdImage[drv.from + n]
          /\ drv.from + n < ImageLen
      BY <1>2, <2>5, <3>1 DEF FdSound, Reading
    <3>4. ReadStep(FALSE, fdData)
      BY <1>1, <1>2, <1>6, <3>1, <3>2, ExecReads DEF Alive
    <3>5. drv.from \in Nat /\ FdSectorSize \in Nat /\ ImageLen \in Nat
      BY <1>2, Sizes DEF Drivers
    <3>6. Moved(n + 1)'
      <4>1. fdImage' = fdImage
        BY <3>4 DEF ReadStep
      <4> SUFFICES ASSUME NEW i \in 1..(n + 1)
                   PROVE  /\ drv'.from + i - 1 < ImageLen
                          /\ drv'.moved[i] = fdImage'[drv'.from + i - 1]
        BY DEF Moved
      <4>2. CASE i = n + 1
        <5>1. drv'.from + i - 1 = drv.from + n
          BY <1>3, <3>5, <4>2
        <5> QED
          BY <1>3, <3>3, <4>1, <4>2, <5>1
      <4>3. CASE i # n + 1
        <5>1. i \in 1..n
          BY <1>3, <4>3
        <5> QED
          BY <1>3, <3>3, <4>1, <5>1 DEF Moved
      <4> QED
        BY <4>2, <4>3
    <3>7. CASE /\ dk[0].off >= dk[0].len /\ fdBusy' = FALSE /\ fdDrq' = FALSE /\ UNCHANGED dk
      <4>1. n + 1 = FdSectorSize
        BY <1>3, <3>2, <3>3, <3>5, <3>7
      <4>2. Aimed' /\ Reading'
        BY <1>3, <3>2, <3>6, <3>7, <4>1 DEF Aimed, Reading
      <4> QED
        BY <2>1, <2>4, <4>2 DEF FdSound
    <3>8. CASE /\ dk[0].off < dk[0].len /\ ~(dk[0].pos + dk[0].off >= ImageLen)
               /\ fdData' = fdImage[dk[0].pos + dk[0].off]
               /\ dk' = [dk EXCEPT ![fdSel].off = @ + 1] /\ fdDrq' = TRUE
               /\ UNCHANGED <<fdBusy, fdImage>>
      <4>1. /\ dk'[0].off = dk[0].off + 1 /\ dk'[0].src = dk[0].src /\ dk'[0].len = dk[0].len
            /\ dk'[0].pos = dk[0].pos
        BY <1>2, <3>1, <3>8, Advanced
      <4>2. Aimed'
        BY <1>3, <3>2, <3>3, <3>5, <3>8, <4>1 DEF Aimed
      <4>3. /\ dk'[0].off = Len(drv'.moved) + 1 /\ fdBusy' /\ fdDrq'
            /\ drv'.from + Len(drv'.moved) < ImageLen
            /\ fdData' = fdImage'[drv'.from + Len(drv'.moved)]
        BY <1>3, <3>1, <3>2, <3>3, <3>5, <3>8, <4>1
      <4>4. Reading'
        BY <1>3, <3>6, <4>3 DEF Reading
      <4> QED
        BY <2>1, <2>4, <4>2, <4>4 DEF FdSound
    <3> QED
      BY <3>4, <3>7, <3>8, Zenon DEF ReadStep
  <2>6. CASE ~(drv.want = "read" /\ drv.sel = 0)
    <3>1. Aimed' /\ Reading'
      BY <1>1, <1>3, <2>6 DEF Aimed, Reading, Under
    <3> QED
      BY <2>1, <2>4, <3>1 DEF FdSound
  <2> QED
    BY <2>5, <2>6, <2>7
<1> QED
  BY <1>5, <1>6, <1>7, <1>8

\* write(3): the byte goes to the image.
LEMMA GiveInv ==
    ASSUME FdInv, FdGive
    PROVE  FdInv'
<1> USE DEF FdInv
<1> DEFINE v == ImageLen + Len(drv.moved) + 1
<1>1. /\ Alive /\ drv.at = "move" /\ drv.want = "write" /\ Exec(FALSE, v)
      /\ drv' = [drv EXCEPT !.at = "poll", !.moved = Append(@, v)]
      /\ UNCHANGED <<fdSel, fdSide, fdTrack, fdSector, fdDir>>
  BY DEF FdGive
<1>2. FdTyped /\ RegTyped /\ DiskTyped /\ drv \in Drivers /\ FdSound /\ Clean
  BY <1>1 DEF FdTyped
<1>3. Len(drv.moved) \in Nat /\ v \in Nat
  BY <1>2, Sizes DEF Drivers
<1> HIDE DEF v
<1> PICK n \in Nat : n = Len(drv.moved)
  BY <1>3
<1>4. /\ drv' \in Drivers /\ drv'.want = drv.want /\ drv'.from = drv.from /\ drv'.sel = drv.sel
      /\ drv'.at = "poll" /\ Len(drv'.moved) = n + 1
      /\ drv'.moved[n + 1] = v
      /\ \A i \in 1..n : drv'.moved[i] = drv.moved[i]
  BY <1>1, <1>2, <1>3, MoveMakes
<1>5. /\ fdCmd' = fdCmd /\ DiskTyped' /\ fdBusy' \in BOOLEAN /\ fdDrq' \in BOOLEAN
      /\ fdDirty' \in BOOLEAN /\ fdCrash' \in BOOLEAN /\ fdLost' \in BOOLEAN
  BY <1>1, <1>2, <1>3, ExecTyped, FALSE \in BOOLEAN
<1>6. FdTyped'
  <2>1. RegTyped'
    BY <1>1, <1>2, <1>5 DEF RegTyped
  <2> QED
    BY <1>4, <1>5, <2>1 DEF FdTyped, FlagTyped
<1>8. TransferAtRegisters' /\ Closed'
  BY <1>1, <1>4 DEF TransferAtRegisters, Closed
<1>9. Clean'
  BY <1>1, <1>2, ExecClean
<1>7. ASSUME Alive'
      PROVE  FdSound'
  <2>1. Agreed'
    BY <1>1, <1>2, <1>4, <1>5 DEF FdSound, Agreed, Moving
  <2>4. Rested' /\ Reading'
    BY <1>1, <1>4 DEF Rested, Reading, Under
  <2>5. CASE drv.sel = 0
    <3>1. Under("write") /\ fdSel = 0 /\ fdCmd = "write" /\ fdBusy /\ fdDrq
      BY <1>1, <1>2, <2>5 DEF FdSound, Agreed, Under, Moving, Transfers
    <3>2. /\ dk[0].src = "disk" /\ dk[0].len = FdSectorSize /\ dk[0].off <= FdSectorSize
          /\ drv.from = dk[0].pos
      BY <1>2, <3>1 DEF FdSound, Aimed
    <3>3. Moved(n) /\ dk[0].off = n /\ (n = FdSectorSize => fdLost \/ fdFile = fdImage)
      BY <1>2, <3>1 DEF FdSound, Writing
    <3>4. WriteStep(FALSE, v)
      BY <1>1, <1>2, <1>7, <3>1, ExecWrites DEF Alive, FdSound
    <3>5. drv.from \in Nat /\ FdSectorSize \in Nat /\ ImageLen \in Nat
      BY <1>2, <3>2, Sizes DEF DiskTyped, Drives
    <3>6. CASE /\ dk[0].off >= dk[0].len /\ fdBusy' = FALSE /\ fdDrq' = FALSE
               /\ UNCHANGED <<dk, fdImage, fdFile, fdLost>>
      <4>1. n = FdSectorSize
        BY <1>3, <3>2, <3>3, <3>5, <3>6
      <4>2. Moved(n)'
        BY <1>4, <3>3, <3>6 DEF Moved
      <4>3. Aimed' /\ Writing'
        BY <1>4, <3>2, <3>3, <3>6, <4>1, <4>2 DEF Aimed, Writing
      <4> QED
        BY <2>1, <2>4, <4>3 DEF FdSound
    <3>7. CASE /\ dk[0].off < dk[0].len /\ dk[0].pos + dk[0].off < ImageLen
               /\ fdImage' = [fdImage EXCEPT ![dk[0].pos + dk[0].off] = v]
               /\ dk' = [dk EXCEPT ![fdSel].off = @ + 1] /\ fdDrq' = TRUE /\ UNCHANGED fdBusy
               /\ dk[0].off + 1 = dk[0].len => fdLost' \/ fdFile' = fdImage'
      <4>1. /\ dk'[0].off = dk[0].off + 1 /\ dk'[0].src = dk[0].src /\ dk'[0].len = dk[0].len
            /\ dk'[0].pos = dk[0].pos
        BY <1>2, <3>1, <3>7, Advanced
      <4>2. Aimed'
        BY <1>3, <1>4, <3>2, <3>3, <3>5, <3>7, <4>1 DEF Aimed
      <4>3. fdImage' = [fdImage EXCEPT ![drv.from + n] = v] /\ drv.from + n < ImageLen
        BY <3>2, <3>3, <3>7
      <4>4. fdImage \in [0..(ImageLen - 1) -> Nat]
        BY <1>2 DEF DiskTyped, Images
      <4>5. Moved(n + 1)'
        <5> SUFFICES ASSUME NEW i \in 1..(n + 1)
                     PROVE  /\ drv.from + i - 1 < ImageLen
                            /\ drv'.moved[i] = fdImage'[drv.from + i - 1]
          BY <1>4 DEF Moved
        <5>1. drv.from + i - 1 \in 0..(ImageLen - 1)
          BY <1>3, <3>5, <4>3
        <5>4. drv.from + i - 1 < ImageLen
          BY <3>5, <5>1
        <5>2. CASE i = n + 1
          <6>1. drv.from + i - 1 = drv.from + n
            BY <1>3, <3>5, <5>2
          <6> QED
            BY <1>4, <4>3, <4>4, <5>1, <5>2, <6>1
        <5>3. CASE i # n + 1
          <6>1. i \in 1..n /\ drv.from + i - 1 # drv.from + n
            BY <1>3, <3>5, <5>3
          <6>2. drv.moved[i] = fdImage[drv.from + i - 1]
            BY <3>3, <6>1 DEF Moved
          <6>3. fdImage'[drv.from + i - 1] = fdImage[drv.from + i - 1]
            BY <4>3, <4>4, <5>1, <6>1
          <6>4. drv'.moved[i] = drv.moved[i]
            BY <1>4, <6>1
          <6> QED
            BY <5>4, <6>2, <6>3, <6>4
        <5> QED
          BY <5>2, <5>3
      <4>6. dk'[0].off = n + 1 /\ fdBusy' /\ fdDrq' /\ (n + 1 = FdSectorSize => fdLost' \/ fdFile' = fdImage')
        BY <3>1, <3>2, <3>3, <3>7, <4>1
      <4>7. Writing'
        BY <1>4, <4>5, <4>6 DEF Writing
      <4> QED
        BY <2>1, <2>4, <4>2, <4>7 DEF FdSound
    <3> QED
      BY <3>4, <3>6, <3>7, Zenon DEF WriteStep
  <2>6. CASE drv.sel # 0
    <3>1. Aimed' /\ Writing'
      BY <1>4, <2>6 DEF Aimed, Writing, Under
    <3> QED
      BY <2>1, <2>4, <3>1 DEF FdSound
  <2> QED
    BY <2>5, <2>6
<1> QED
  BY <1>6, <1>7, <1>8, <1>9

-----------------------------------------------------------------------------
\* Every step keeps the invariant.
LEMMA FdNextInv == FdInv /\ [FdNext]_fdvars => FdInv'
<1> SUFFICES ASSUME FdInv, [FdNext]_fdvars PROVE FdInv'
  OBVIOUS
<1>1. CASE UNCHANGED fdvars
  BY <1>1 DEF fdvars, fdRegs, FdInv, FdTyped, RegTyped, FlagTyped, DiskTyped, Alive, FdSound, Agreed,
              Moving, Moved, Under, Aimed, Reading, Writing, Rested, Clean, Closed,
              TransferAtRegisters
<1> QED
  BY <1>1, SetupInv, SetDataInv, CommandInv, StatusInv, TakeInv, GiveInv, GiveUpInv, CloseInv
  DEF FdNext

\* The invariant holds in every behaviour.
LEMMA FdInvariance == FdSpec => []FdInv
BY FdInitInv, FdNextInv, PTL DEF FdSpec

\* A sector that the driver has written until the controller was no longer busy is
\* whole, one that it has read is whole if DRQ was down when it gave the command, and
\* both are at the place that its registers named.
THEOREM SectorsAreWhole == FdSpec => []TransfersWholeSectors
<1>1. FdInv => TransfersWholeSectors
  <2> SUFFICES ASSUME FdInv PROVE TransfersWholeSectors
    OBVIOUS
  <2>1. FdSectorSize \in Nat /\ TransferAtRegisters
    BY Sizes DEF FdInv
  <2>2. ReadsWholeSector
    BY <2>1 DEF ReadsWholeSector, SectorMoved, AtRest, FdInv, FdSound, Rested, Moved
  <2>3. WritesWholeSector
    BY <2>1 DEF WritesWholeSector, SectorMoved, AtRest, FdInv, FdSound, Rested, Moved
  <2> QED
    BY <2>1, <2>2, <2>3 DEF TransfersWholeSectors
<1> QED
  BY <1>1, FdInvariance, PTL

\* What is not dirty is in the file and what is closed is not dirty, unless the last
\* flush failed unnoticed: for every sequence of commands, transfers given up and
\* writes of the data register.
THEOREM FileFollowsImage == FdSpec => []FileKeepsUp
<1>1. FdInv => FileKeepsUp
  BY DEF FdInv, Clean, Closed, FileKeepsUp
<1> QED
  BY <1>1, FdInvariance, PTL

-----------------------------------------------------------------------------
(* GdbServer: stops and their reports *)

\* The board reports to the session that came last, as long as it has the memory of
\* it; and it looks at breakpoints only while that session has not detached.
Sockets == {"none", "open", "detached", "lost"}
GdbTyped ==
    /\ sess \in [Ids -> Sockets] /\ waits \in [Ids -> BOOLEAN] /\ replies \in [Ids -> 0..2]
    /\ freed \in [Ids -> BOOLEAN] /\ onbreak \in 0..GdbSessions
GdbServed ==
    /\ \A s, t \in Ids : t < s /\ sess[s] # "none" => sess[t] # "none"
    /\ \A s \in Ids : Newest(s) => onbreak = s
    /\ onbreak # NoSession => sess[onbreak] # "none"
    /\ debugging => onbreak # NoSession /\ sess[onbreak] # "detached"
    /\ \A s \in Ids : freed[s] => sess[s] \in {"lost", "detached"}
GdbInv == GdbTyped /\ GdbServed /\ StopIsReported

\* An access is caught by a watchpoint that is there.
LEMMA CaughtByWatch ==
    ASSUME NEW space, NEW way, Caught(space, way)
    PROVE  wps # <<>>
BY DEF Caught

\* A report adds replies, one of them to the last session if that is connected.  It
\* is a call into a destroyed session only if that has been lost or has detached.
LEMMA ReportReaches ==
    ASSUME GdbTyped, GdbServed, NEW r \in [Ids -> 0..2], NEW what, Report(r, what)
    PROVE  /\ replies' \in [Ids -> 0..2]
           /\ \A s \in Ids : Newest(s) /\ sess[s] = "open" => replies'[s] > 0
           /\ \A d \in dangled' : d \in dangled \/ (d = <<sess[onbreak], what>> /\ onbreak # NoSession)
<1> USE GdbAssumption
<1>1. CASE onbreak = NoSession
  <2>1. replies' = r /\ dangled' = dangled
    BY <1>1 DEF Report
  <2>2. \A s \in Ids : ~Newest(s)
    BY <1>1 DEF GdbServed, Ids, NoSession
  <2> QED
    BY <2>1, <2>2
<1>2. CASE onbreak # NoSession /\ freed[onbreak]
  <2>1. replies' = r /\ dangled' = dangled \cup {<<sess[onbreak], what>>} /\ onbreak \in Ids
    BY <1>2 DEF Report, GdbTyped, Ids, NoSession
  <2>2. sess[onbreak] # "open"
    BY <1>2, <2>1 DEF GdbServed
  <2>3. \A s \in Ids : ~(Newest(s) /\ sess[s] = "open")
    BY <2>2 DEF GdbServed
  <2> QED
    BY <1>2, <2>1, <2>3
<1>3. CASE onbreak # NoSession /\ ~freed[onbreak]
  <2>1. replies' = [r EXCEPT ![onbreak] = More(@)] /\ dangled' = dangled /\ onbreak \in Ids
    BY <1>3 DEF Report, GdbTyped, Ids, NoSession
  <2>2. replies' \in [Ids -> 0..2] /\ replies'[onbreak] > 0
    BY <2>1 DEF More
  <2>3. \A s \in Ids : Newest(s) => s = onbreak
    BY DEF GdbServed
  <2> QED
    BY <2>1, <2>2, <2>3
<1> QED
  BY <1>1, <1>2, <1>3

\* Steps that leave the sockets and the callback alone leave the last session.
LEMMA ServedStays ==
    ASSUME GdbServed, UNCHANGED <<sess, freed, onbreak, debugging>>
    PROVE  GdbServed' /\ \A s \in Ids : Newest(s)' <=> Newest(s)
BY DEF GdbServed, Newest

\* Before the first session nothing runs and nothing is lost.
LEMMA GdbInitInv == GdbInit => GdbInv
BY GdbAssumption DEF GdbInit, GdbInv, GdbTyped, GdbServed, StopIsReported, Sockets, Ids, NoSession, Newest

\* A session that has lost its connection, or has detached, is still one that came.
LEMMA Leaves ==
    ASSUME GdbTyped, GdbServed, NEW s \in Ids, NEW x \in {"lost", "detached"}, sess[s] = "open",
           sess' = [sess EXCEPT ![s] = x], UNCHANGED <<freed, onbreak>>,
           debugging' => debugging /\ x = "lost"
    PROVE  /\ sess' \in [Ids -> Sockets] /\ GdbServed' /\ sess'[s] = x
           /\ \A t \in Ids : t # s => sess'[t] = sess[t]
           /\ \A t \in Ids : Newest(t)' <=> Newest(t)
<1>1. /\ sess' \in [Ids -> Sockets] /\ sess'[s] = x
      /\ \A t \in Ids : t # s => sess'[t] = sess[t]
  BY DEF GdbTyped, Sockets
<1>2. \A t \in Ids : sess'[t] = "none" <=> sess[t] = "none"
  BY <1>1
<1>3. \A t \in Ids : Newest(t)' <=> Newest(t)
  BY <1>2 DEF Newest
<1>4. onbreak # NoSession => onbreak \in Ids
  BY GdbAssumption DEF GdbTyped, Ids, NoSession
<1>5. GdbServed'
  BY <1>1, <1>2, <1>3, <1>4 DEF GdbServed
<1> QED
  BY <1>1, <1>3, <1>5

\* Every packet and every instruction keeps the invariant.
LEMMA GdbNextInv ==
    ASSUME GdbInv, [GdbNext]_gdbvars
    PROVE  GdbInv'
<1> USE GdbAssumption
<1>0. GdbTyped /\ GdbServed /\ StopIsReported /\ replies \in [Ids -> 0..2]
  BY DEF GdbInv, GdbTyped
<1>1. CASE HitBreakpoint
  <2>1. /\ Report(replies, "breakpoint") /\ debugging
        /\ UNCHANGED <<debugging, wps, onbreak, sess, freed, waits>>
    BY <1>1 DEF HitBreakpoint
  <2>2. /\ replies' \in [Ids -> 0..2]
        /\ \A s \in Ids : Newest(s) /\ sess[s] = "open" => replies'[s] > 0
        /\ \A d \in dangled' : d \in dangled \/ (d = <<sess[onbreak], "breakpoint">> /\ onbreak # NoSession)
    BY <1>0, <2>1, ReportReaches
  <2>3. onbreak \in Ids /\ sess[onbreak] # "detached" /\ sess[onbreak] # "none"
    BY <1>0, <2>1 DEF GdbServed, GdbTyped, Ids, NoSession
  <2>4. GdbServed' /\ \A s \in Ids : Newest(s)' <=> Newest(s)
    BY <1>0, <2>1, ServedStays
  <2>5. <<"detached", "breakpoint">> \notin dangled'
    BY <1>0, <2>2, <2>3 DEF StopIsReported
  <2>6. StopIsReported'
    BY <2>1, <2>2, <2>3, <2>4, <2>5 DEF StopIsReported
  <2> QED
    BY <1>0, <2>1, <2>2, <2>4, <2>6 DEF GdbInv, GdbTyped
<1>2. ASSUME NEW r \in [Ids -> 0..2], NEW space, NEW way,
             IF Caught(space, way) THEN Report(r, "watchpoint") ELSE NoReport(r),
             UNCHANGED <<debugging, wps, onbreak, sess, freed>>,
             waits' \in [Ids -> BOOLEAN],
             \A s \in Ids : waits'[s] => r[s] > 0 \/ (waits[s] /\ r[s] = replies[s])
      PROVE  GdbInv'
  <2>1. GdbServed' /\ \A s \in Ids : Newest(s)' <=> Newest(s)
    BY <1>0, <1>2, ServedStays
  <2>2. CASE Caught(space, way)
    <3>1. /\ replies' \in [Ids -> 0..2]
          /\ \A s \in Ids : Newest(s) /\ sess[s] = "open" => replies'[s] > 0
          /\ \A d \in dangled' : d \in dangled \/ d = <<sess[onbreak], "watchpoint">>
      BY <1>0, <1>2, <2>2, ReportReaches
    <3>2. wps' # <<>>
      BY <1>2, <2>2, CaughtByWatch
    <3>3. <<"detached", "breakpoint">> \notin dangled'
      BY <1>0, <3>1 DEF StopIsReported
    <3>4. StopIsReported'
      BY <1>2, <2>1, <3>1, <3>2, <3>3 DEF StopIsReported
    <3> QED
      BY <1>0, <1>2, <2>1, <3>1, <3>4 DEF GdbInv, GdbTyped
  <2>3. CASE ~Caught(space, way)
    <3>1. replies' = r /\ UNCHANGED <<stopped, stopper, dangled>>
      BY <1>2, <2>3 DEF NoReport, gdbStop
    <3>2. StopIsReported'
      BY <1>0, <1>2, <2>1, <3>1 DEF StopIsReported
    <3> QED
      BY <1>0, <1>2, <2>1, <3>1, <3>2 DEF GdbInv, GdbTyped
  <2> QED
    BY <2>2, <2>3
<1>3. CASE RunInstruction
  <2>1. PICK space \in Spaces, way \in {"write", "read"} :
          IF Caught(space, way) THEN Report(replies, "watchpoint") ELSE NoReport(replies)
    BY <1>3 DEF RunInstruction
  <2>2. UNCHANGED <<debugging, wps, onbreak, sess, freed, waits>>
    BY <1>3 DEF RunInstruction
  <2> QED
    BY <1>0, <1>2, <2>1, <2>2 DEF GdbTyped
<1>4. ASSUME NEW s \in Ids, GdbStep(s)
      PROVE  GdbInv'
  <2> DEFINE r == [replies EXCEPT ![s] = More(@)]
  <2>1. PICK space \in Spaces, way \in {"write", "read"} :
          IF Caught(space, way) THEN Report(r, "watchpoint") ELSE NoReport(r)
    BY <1>4 DEF GdbStep
  <2>2. waits' = [waits EXCEPT ![s] = TRUE] /\ UNCHANGED <<debugging, wps, onbreak, sess, freed>>
    BY <1>4 DEF GdbStep
  <2>3. r \in [Ids -> 0..2] /\ r[s] > 0 /\ \A t \in Ids : t # s => r[t] = replies[t]
    BY <1>0 DEF More
  <2>4. waits' \in [Ids -> BOOLEAN] /\ \A t \in Ids : t # s => waits'[t] = waits[t]
    BY <1>0, <2>2 DEF GdbTyped
  <2> HIDE DEF r
  <2>5. \A t \in Ids : waits'[t] => r[t] > 0 \/ (waits[t] /\ r[t] = replies[t])
    BY <2>3, <2>4
  <2> QED
    BY <1>2, <2>1, <2>2, <2>3, <2>4, <2>5
<1>5. ASSUME NEW s \in Ids, GdbWriteMemory(s)
      PROVE  GdbInv'
  <2>1. /\ IF Caught("memory", "write") THEN Report(replies, "watchpoint") ELSE NoReport(replies)
        /\ UNCHANGED <<debugging, wps, onbreak, sess, freed, waits>>
    BY <1>5 DEF GdbWriteMemory
  <2> QED
    BY <1>0, <1>2, <2>1 DEF GdbTyped
<1>6. ASSUME NEW s \in Ids, Accept(s)
      PROVE  GdbInv'
  <2>1. /\ sess[s] = "none" /\ \A t \in Ids : t < s => sess[t] # "none"
        /\ sess' = [sess EXCEPT ![s] = "open"] /\ debugging' = TRUE /\ stopper' = s /\ onbreak' = s
        /\ UNCHANGED <<freed, waits, replies, dangled>>
    BY <1>6 DEF Accept
  <2>2. /\ sess' \in [Ids -> Sockets] /\ sess'[s] = "open"
        /\ \A t \in Ids : t # s => sess'[t] = sess[t]
    BY <1>0, <2>1 DEF GdbTyped, Sockets
  <2>3. \A t \in Ids : t > s => sess[t] = "none"
    BY <1>0, <2>1 DEF GdbServed
  <2>4. \A t \in Ids : Newest(t)' => t = s
    <3> SUFFICES ASSUME NEW t \in Ids, Newest(t)', t # s PROVE FALSE
      OBVIOUS
    <3>1. CASE t > s
      BY <2>2, <2>3, <3>1 DEF Newest
    <3>2. CASE t < s
      BY <2>2, <3>2 DEF Newest
    <3> QED
      BY <3>1, <3>2 DEF Ids
  <2>5. \A t, u \in Ids : u < t /\ sess'[t] # "none" => sess'[u] # "none"
    <3> SUFFICES ASSUME NEW t \in Ids, NEW u \in Ids, u < t, sess'[t] # "none" PROVE sess'[u] # "none"
      OBVIOUS
    <3>1. CASE t = s
      BY <2>1, <2>2, <3>1
    <3>2. CASE t # s
      BY <1>0, <2>2, <3>2 DEF GdbServed
    <3> QED
      BY <3>1, <3>2
  <2>9. \A t \in Ids : freed'[t] => sess'[t] \in {"lost", "detached"}
    <3>1. ~freed[s]
      BY <1>0, <2>1 DEF GdbServed
    <3> QED
      BY <1>0, <2>1, <2>2, <3>1 DEF GdbServed
  <2>10. onbreak' # NoSession /\ sess'[onbreak'] = "open"
    BY <2>1, <2>2 DEF NoSession, Ids
  <2>6. GdbServed'
    BY <2>1, <2>4, <2>5, <2>9, <2>10 DEF GdbServed
  <2>7. StopIsReported'
    BY <1>0, <2>1, <2>2 DEF StopIsReported, TheBoard, Ids
  <2>8. onbreak' \in 0..GdbSessions
    BY <2>1 DEF Ids
  <2> QED
    BY <1>0, <2>1, <2>2, <2>6, <2>7, <2>8 DEF GdbInv, GdbTyped
<1>7. ASSUME NEW s \in Ids, GdbContinue(s)
      PROVE  GdbInv'
  <2>1. /\ stopped' = FALSE /\ waits' = [waits EXCEPT ![s] = TRUE]
        /\ UNCHANGED <<debugging, onbreak, sess, freed, replies, dangled>>
    BY <1>7 DEF GdbContinue, gdbStop
  <2>2. GdbServed'
    BY <1>0, <2>1, ServedStays
  <2>3. StopIsReported' /\ waits' \in [Ids -> BOOLEAN]
    BY <1>0, <2>1 DEF StopIsReported, GdbTyped
  <2> QED
    BY <1>0, <2>1, <2>2, <2>3 DEF GdbInv, GdbTyped
<1>8. ASSUME NEW s \in Ids, GdbBreak(s)
      PROVE  GdbInv'
  <2>1. /\ sess[s] = "open" /\ stopper' = s /\ replies' = [replies EXCEPT ![s] = More(@)]
        /\ UNCHANGED <<debugging, onbreak, sess, freed, waits, dangled>>
    BY <1>8 DEF GdbBreak
  <2>2. GdbServed'
    BY <1>0, <2>1, ServedStays
  <2>3. StopIsReported' /\ replies' \in [Ids -> 0..2]
    BY <1>0, <2>1 DEF StopIsReported, More, TheBoard, Ids
  <2> QED
    BY <1>0, <2>1, <2>2, <2>3 DEF GdbInv, GdbTyped
<1>9. ASSUME NEW s \in Ids, ReadReply(s)
      PROVE  GdbInv'
  <2>1. /\ replies[s] > 0 /\ replies' = [replies EXCEPT ![s] = @ - 1] /\ waits' = [waits EXCEPT ![s] = FALSE]
        /\ UNCHANGED <<debugging, stopped, wps, onbreak, sess, freed, stopper, dangled>>
    BY <1>9 DEF ReadReply, gdbBoard, gdbStop
  <2>2. GdbServed' /\ \A t \in Ids : Newest(t)' <=> Newest(t)
    BY <1>0, <2>1, ServedStays
  <2>3. /\ replies' \in [Ids -> 0..2] /\ waits' \in [Ids -> BOOLEAN]
        /\ ~waits'[s] /\ \A t \in Ids : t # s => waits'[t] = waits[t] /\ replies'[t] = replies[t]
    BY <1>0, <2>1 DEF GdbTyped
  <2>4. StopIsReported'
    BY <1>0, <2>1, <2>2, <2>3 DEF StopIsReported
  <2> QED
    BY <1>0, <2>1, <2>2, <2>3, <2>4 DEF GdbInv, GdbTyped
<1>10. ASSUME NEW s \in Ids, GdbInsert(s) \/ GdbRemove(s)
       PROVE  GdbInv'
  <2>1. /\ sess[s] = "open"
        /\ UNCHANGED <<debugging, stopped, onbreak, sess, freed, waits, replies, stopper, dangled>>
    BY <1>10 DEF GdbInsert, GdbRemove, Packet, gdbStop
  <2>2. GdbServed' /\ \A t \in Ids : Newest(t)' <=> Newest(t)
    BY <1>0, <2>1, ServedStays
  <2>3. StopIsReported'
    BY <1>0, <2>1, <2>2 DEF StopIsReported
  <2> QED
    BY <1>0, <2>1, <2>2, <2>3 DEF GdbInv, GdbTyped
<1>11. ASSUME NEW s \in Ids, GdbDetach(s)
       PROVE  GdbInv'
  <2>1. /\ sess[s] = "open" /\ sess' = [sess EXCEPT ![s] = "detached"]
        /\ debugging' = FALSE /\ stopped' = FALSE
        /\ UNCHANGED <<onbreak, freed, waits, replies, dangled>>
    BY <1>11 DEF GdbDetach, Packet, gdbStop
  <2>2. sess' \in [Ids -> Sockets] /\ GdbServed'
    BY <1>0, <2>1, Leaves
  <2>3. StopIsReported'
    BY <1>0, <2>1 DEF StopIsReported
  <2> QED
    BY <1>0, <2>1, <2>2, <2>3 DEF GdbInv, GdbTyped
<1>12. ASSUME NEW s \in Ids, GdbLost(s)
       PROVE  GdbInv'
  <2>1. /\ sess[s] = "open" /\ sess' = [sess EXCEPT ![s] = "lost"]
        /\ UNCHANGED <<debugging, stopped, wps, onbreak, freed, waits, replies, stopper, dangled>>
    BY <1>12 DEF GdbLost, gdbBoard, gdbStop
  <2>2. /\ sess' \in [Ids -> Sockets] /\ GdbServed' /\ sess'[s] = "lost"
        /\ \A t \in Ids : t # s => sess'[t] = sess[t]
        /\ \A t \in Ids : Newest(t)' <=> Newest(t)
    BY <1>0, <2>1, Leaves
  <2>3. StopIsReported'
    BY <1>0, <2>1, <2>2 DEF StopIsReported
  <2> QED
    BY <1>0, <2>1, <2>2, <2>3 DEF GdbInv, GdbTyped
<1>13. ASSUME NEW s \in Ids, GdbRelease(s)
       PROVE  GdbInv'
  <2>1. /\ sess[s] \in {"lost", "detached"} /\ freed' = [freed EXCEPT ![s] = TRUE]
        /\ UNCHANGED <<debugging, stopped, wps, onbreak, sess, waits, replies, stopper, dangled>>
    BY <1>13 DEF GdbRelease, gdbBoard, gdbStop
  <2>2. freed' \in [Ids -> BOOLEAN] /\ \A t \in Ids : freed'[t] => sess[t] \in {"lost", "detached"}
    BY <1>0, <2>1 DEF GdbTyped, GdbServed
  <2>3. \A t \in Ids : Newest(t)' <=> Newest(t)
    BY <2>1 DEF Newest
  <2>4. GdbServed'
    BY <1>0, <2>1, <2>2, <2>3 DEF GdbServed
  <2>5. StopIsReported'
    BY <1>0, <2>1, <2>3 DEF StopIsReported
  <2> QED
    BY <1>0, <2>1, <2>2, <2>4, <2>5 DEF GdbInv, GdbTyped
<1>14. CASE UNCHANGED gdbvars
  BY <1>0, <1>14 DEF gdbvars, gdbBoard, gdbStop, GdbInv, GdbTyped, GdbServed, StopIsReported, Newest
<1> QED
  BY <1>1, <1>3, <1>4, <1>5, <1>6, <1>7, <1>8, <1>9, <1>10, <1>11, <1>12, <1>13, <1>14 DEF GdbNext

\* Whatever clients come, go and overlap, for any number of them and of packets: a stop
\* that the board makes is told to the client that connected last, if it waits; a
\* session that has detached is never called for a breakpoint; and when all have
\* detached and left no watchpoint the machine runs.
THEOREM StopsAreReported == GdbSpec => []StopIsReported
<1>1. GdbSpec => []GdbInv
  BY GdbInitInv, GdbNextInv, PTL DEF GdbSpec
<1>2. GdbInv => StopIsReported
  BY DEF GdbInv
<1> QED
  BY <1>1, <1>2, PTL

-----------------------------------------------------------------------------
(* Interrupts: one is taken only when the program has asked for it, and     *)
(* returns behind the HLT it ends.                                          *)

\* The machine between instructions, and within one (EI sets the hold-off to 2).
Machines == [inte : BOOLEAN, irq : BOOLEAN, iff : BOOLEAN, pending : 0..1]
Within   == [inte : BOOLEAN, irq : BOOLEAN, iff : BOOLEAN, pending : 0..2]
OpNames  == {"EI", "DI", "HLT", "NOP", "RST"}
Vsync    == {"none", "hit", "late"}
Since    == {NotAsked, 0, 1, 2}

\* What the pin, the flip-flop and the hold-off say of the instructions since
\* EI: a request needs the pin, pin and flip-flop together need EI and one
\* instruction more, and the hold-off is the instruction after EI.
Sound(m, e) ==
    /\ m.irq => m.inte
    /\ m.inte /\ m.iff => e >= 1
    /\ m.pending = 1 => ~m.iff /\ e = 0

\* How an instruction moves the distance from EI.
Aged(op, e) ==
    IF op = "EI" THEN 0 ELSE IF op = "DI" THEN NotAsked
    ELSE IF e \in 0..1 THEN e + 1 ELSE e

\* The ghost record of the last interrupt.
Records == [asked : Since, skipped : BOOLEAN, halted : BOOLEAN, set : BOOLEAN, any : BOOLEAN]

\* The inductive invariant: the machine is sound; last_opcode knows the HLT
\* unless PC was set, or an interrupt has just been taken, when no other is
\* requested; and the last interrupt was as the properties demand.
CpuInv  == Machine \in Machines /\ ei \in Since /\ Sound(Machine, ei)
BeamInv == irqCarry \in BOOLEAN /\ due \in BOOLEAN
HltInv  == /\ lastHlt \in BOOLEAN /\ atHlt \in BOOLEAN /\ intPcSet \in BOOLEAN
           /\ intPcSet \/ lastHlt = atHlt \/ ~irq
TookInv == took \in Records /\ InterruptAskedFor /\ ReturnsAfterHlt
IntInv  == CpuInv /\ BeamInv /\ HltInv /\ TookInv

-----------------------------------------------------------------------------
\* What the pin does to each part of the machine.
LEMMA PinParts ==
    ASSUME NEW m \in Within, NEW on \in BOOLEAN
    PROVE  /\ Pin(m, on) \in Within
           /\ Pin(m, on).inte = on /\ Pin(m, on).irq = (m.irq /\ on)
           /\ Pin(m, on).iff = m.iff /\ Pin(m, on).pending = m.pending
BY DEF Pin, Within

\* What an assignment to the hold-off changes.
LEMMA SetPending ==
    \A m \in Within, p \in 0..2 :
       /\ [m EXCEPT !.pending = p] \in Within
       /\ [m EXCEPT !.pending = p].pending = p
       /\ [m EXCEPT !.pending = p].inte = m.inte
       /\ [m EXCEPT !.pending = p].iff = m.iff
BY DEF Within

\* What an assignment to the flip-flop changes.
LEMMA SetIff ==
    \A m \in Within, b \in BOOLEAN :
       /\ [m EXCEPT !.iff = b] \in Within
       /\ [m EXCEPT !.iff = b].iff = b
BY DEF Within

\* What an assignment to both changes.
LEMMA SetBoth ==
    \A m \in Within, p \in 0..2, b \in BOOLEAN :
       /\ [m EXCEPT !.pending = p, !.iff = b] \in Within
       /\ [m EXCEPT !.pending = p, !.iff = b].pending = p
       /\ [m EXCEPT !.pending = p, !.iff = b].iff = b
BY DEF Within

\* The values that are assigned.
LEMMA Values == TRUE \in BOOLEAN /\ FALSE \in BOOLEAN /\ 0 \in 0..2 /\ 1 \in 0..2 /\ 2 \in 0..2
OBVIOUS

\* Within an instruction and between two differ in the hold-off only.
LEMMA WithinBetween == \A m \in Within : m.pending = 0 \/ m.pending = 1 => m \in Machines
BY DEF Within, Machines

\* What the end of an instruction does: nothing without a hold-off, and the
\* last instruction of the hold-off raises pin and flip-flop.
LEMMA HoldOffParts ==
    ASSUME NEW m \in Within
    PROVE  /\ HoldOff(m) \in Machines
           /\ m.pending = 0 => HoldOff(m) = m
           /\ m.pending = 2 => /\ HoldOff(m).pending = 1
                              /\ HoldOff(m).inte = m.inte /\ HoldOff(m).iff = m.iff
           /\ m.pending = 1 => HoldOff(m).pending = 0 /\ HoldOff(m).inte = TRUE
<1>1. CASE m.pending = 0
  BY <1>1 DEF HoldOff, Within, Machines
<1>2. CASE m.pending = 2
  <2> DEFINE n == [m EXCEPT !.pending = 1]
  <2>1. HoldOff(m) = n
    BY <1>2 DEF HoldOff, Within
  <2>2. n \in Within /\ n.pending = 1 /\ n.inte = m.inte /\ n.iff = m.iff
    BY Values, SetPending, Zenon
  <2> HIDE DEF n
  <2>3. n \in Machines
    BY <2>2, WithinBetween, Zenon
  <2> QED BY <1>2, <2>1, <2>2, <2>3
<1>3. CASE m.pending = 1
  <2> DEFINE n == [m EXCEPT !.pending = 0, !.iff = TRUE]
  <2>1. HoldOff(m) = Pin(n, TRUE)
    BY <1>3 DEF HoldOff
  <2>2. n \in Within /\ n.pending = 0
    BY Values, SetBoth, Zenon
  <2> HIDE DEF n
  <2>3. Pin(n, TRUE) \in Within /\ Pin(n, TRUE).inte = TRUE /\ Pin(n, TRUE).pending = 0
    BY <2>2, Values, PinParts, Zenon
  <2>4. Pin(n, TRUE) \in Machines
    BY <2>3, WithinBetween, Zenon
  <2> QED BY <1>3, <2>1, <2>3, <2>4, 1 # 0, 1 # 2, Zenon
<1>4. m.pending \in {0, 1, 2}
  BY DEF Within
<1> QED BY <1>1, <1>2, <1>3, <1>4

\* Every instruction keeps pin, flip-flop and hold-off sound.
LEMMA ExecuteSound ==
    ASSUME NEW m \in Machines, NEW e \in Since, NEW op \in OpNames, Sound(m, e)
    PROVE  Execute(m, op) \in Machines /\ Sound(Execute(m, op), Aged(op, e))
<1>0. m \in Within
  BY DEF Machines, Within
<1>1. CASE op = "EI"
  <2> DEFINE n == [m EXCEPT !.iff = FALSE]
             k == [Pin(n, TRUE) EXCEPT !.pending = 2]
  <2>1. Execute(m, op) = HoldOff(k)
    BY <1>1 DEF Execute
  <2>2. n \in Within /\ n.iff = FALSE
    BY <1>0, Values, SetIff, Zenon
  <2>3. Pin(n, TRUE) \in Within /\ Pin(n, TRUE).iff = FALSE /\ Pin(n, TRUE).inte = TRUE
    BY <2>2, Values, PinParts, Zenon
  <2>4. k \in Within /\ k.pending = 2 /\ k.iff = FALSE /\ k.inte = TRUE
    BY <2>3, Values, SetPending, Zenon
  <2> HIDE DEF k
  <2>5. HoldOff(k) \in Machines /\ HoldOff(k).pending = 1 /\ HoldOff(k).iff = FALSE
        /\ HoldOff(k).inte = TRUE
    BY <2>4, HoldOffParts
  <2>6. Aged(op, e) = 0
    BY <1>1 DEF Aged
  <2> QED BY <2>1, <2>5, <2>6 DEF Sound
<1>2. CASE op = "DI"
  <2> DEFINE n == [m EXCEPT !.pending = 0, !.iff = FALSE]
  <2>1. Execute(m, op) = HoldOff(Pin(n, FALSE))
    BY <1>2 DEF Execute
  <2>2. n \in Within /\ n.iff = FALSE /\ n.pending = 0
    BY <1>0, Values, SetBoth, Zenon
  <2> HIDE DEF n
  <2>3. /\ Pin(n, FALSE) \in Within /\ Pin(n, FALSE).iff = FALSE /\ Pin(n, FALSE).inte = FALSE
        /\ Pin(n, FALSE).irq = FALSE /\ Pin(n, FALSE).pending = 0
    BY <2>2, Values, PinParts, Zenon
  <2>4. HoldOff(Pin(n, FALSE)) = Pin(n, FALSE) /\ Pin(n, FALSE) \in Machines
    BY <2>3, HoldOffParts
  <2>5. Sound(Pin(n, FALSE), Aged(op, e))
    BY <2>3, 0 # 1, Zenon DEF Sound
  <2> QED BY <2>1, <2>4, <2>5
<1>3. CASE op \notin {"EI", "DI"}
  <2>1. Execute(m, op) = HoldOff(m)
    BY <1>3 DEF Execute
  <2>2. Aged(op, e) = IF e \in 0..1 THEN e + 1 ELSE e
    BY <1>3 DEF Aged
  <2>3. CASE m.pending = 0
    <3>1. HoldOff(m) = m
      BY <1>0, <2>3, HoldOffParts
    <3> QED BY <2>1, <2>2, <2>3, <3>1 DEF Sound, Since, NotAsked
  <2>4. CASE m.pending = 1
    <3>1. e = 0 /\ Aged(op, e) = 1
      BY <2>2, <2>4 DEF Sound
    <3>2. HoldOff(m) \in Machines /\ HoldOff(m).pending = 0 /\ HoldOff(m).inte = TRUE
      BY <1>0, <2>4, HoldOffParts
    <3> QED BY <2>1, <3>1, <3>2 DEF Sound
  <2> QED BY <2>3, <2>4 DEF Machines
<1> QED BY <1>1, <1>2, <1>3

\* An interrupt is taken only behind EI and one instruction more, and leaves
\* the machine sound for a program that has not asked.
LEMMA AcknowledgeSound ==
    ASSUME NEW m \in Machines, NEW e \in Since, Sound(m, e), Accepts(m)
    PROVE  /\ e >= 1
           /\ CheckInterrupt(m) \in Machines
           /\ Sound(CheckInterrupt(m), NotAsked)
           /\ CheckInterrupt(m).irq = FALSE
<1>1. m.irq /\ m.iff /\ m.inte /\ m.pending = 0 /\ e >= 1 /\ m \in Within
  BY DEF Accepts, Sound, Machines, Within
<1>2. CheckInterrupt(m) = HoldOff(Pin(m, FALSE))
  BY DEF CheckInterrupt, Execute
<1>3. /\ Pin(m, FALSE) \in Within /\ Pin(m, FALSE).pending = 0
      /\ Pin(m, FALSE).inte = FALSE /\ Pin(m, FALSE).irq = FALSE
  BY <1>1, Values, PinParts, Zenon
<1>4. HoldOff(Pin(m, FALSE)) = Pin(m, FALSE) /\ Pin(m, FALSE) \in Machines
  BY <1>3, HoldOffParts
<1> QED BY <1>1, <1>2, <1>3, <1>4 DEF Sound

\* The raster raises a request only with the pin.
LEMMA RasterSound ==
    ASSUME NEW m \in Machines, NEW e \in Since, NEW v \in Vsync, Sound(m, e),
           irqCarry \in BOOLEAN
    PROVE  Raster(m, v) \in Machines /\ Sound(Raster(m, v), e)
<1> DEFINE r == m.irq \/ (m.inte /\ (v = "hit" \/ (v = "none" /\ irqCarry)))
<1>1. Raster(m, v) = [m EXCEPT !.irq = r]
  BY DEF Raster
<1>2. r \in BOOLEAN /\ (r => m.inte)
  BY DEF Sound, Machines
<1> HIDE DEF r
<1>3. /\ Raster(m, v) \in Machines
      /\ Raster(m, v).irq = r /\ Raster(m, v).inte = m.inte
      /\ Raster(m, v).iff = m.iff /\ Raster(m, v).pending = m.pending
  BY <1>1, <1>2 DEF Machines
<1> QED BY <1>2, <1>3 DEF Sound

\* Withdrawing the request keeps the machine sound.
LEMMA Lower ==
    ASSUME NEW m \in Machines, NEW e \in Since, Sound(m, e)
    PROVE  [m EXCEPT !.irq = FALSE] \in Machines /\ Sound([m EXCEPT !.irq = FALSE], e)
<1>1. \A b \in BOOLEAN : /\ [m EXCEPT !.irq = b] \in Machines
                         /\ [m EXCEPT !.irq = b].irq = b
                         /\ [m EXCEPT !.irq = b].inte = m.inte
                         /\ [m EXCEPT !.irq = b].iff = m.iff
                         /\ [m EXCEPT !.irq = b].pending = m.pending
  BY DEF Machines
<1> DEFINE n == [m EXCEPT !.irq = FALSE]
<1>2. n \in Machines /\ n.irq = FALSE /\ n.inte = m.inte /\ n.iff = m.iff /\ n.pending = m.pending
  BY <1>1, Values, Zenon
<1> HIDE DEF n
<1>3. Sound(n, e)
  BY <1>2 DEF Sound
<1> QED BY <1>2, <1>3 DEF n

\* Lowering the pin keeps the machine sound.
LEMMA PinLow ==
    ASSUME NEW m \in Machines, NEW e \in Since, Sound(m, e)
    PROVE  Pin(m, FALSE) \in Machines /\ Sound(Pin(m, FALSE), e)
<1> DEFINE n == Pin(m, FALSE)
<1>1. m \in Within /\ (m.pending = 0 \/ m.pending = 1)
  BY DEF Machines, Within
<1>2. n \in Within /\ n.inte = FALSE /\ n.irq = FALSE /\ n.iff = m.iff /\ n.pending = m.pending
  BY <1>1, Values, PinParts, Zenon
<1> HIDE DEF n
<1>3. n \in Machines
  BY <1>1, <1>2, WithinBetween, Zenon
<1>4. Sound(n, e)
  BY <1>2 DEF Sound
<1> QED BY <1>3, <1>4 DEF n

\* What Take() stores is what Machine reads.
LEMMA TakeStores ==
    ASSUME NEW m \in Machines, Take(m)
    PROVE  Machine' \in Machines /\ \A e \in Since : Sound(m, e) => Sound(Machine', e)
<1>1. /\ Machine'.inte = m.inte /\ Machine'.irq = m.irq
      /\ Machine'.iff = m.iff /\ Machine'.pending = m.pending
      /\ Machine' \in Machines
  BY DEF Take, Machine, Machines
<1> QED BY <1>1 DEF Sound

\* An instruction from a sound machine m leaves a sound machine.
LEMMA InstructionKeeps ==
    ASSUME IntInv, NEW m \in Machines, NEW e \in Since, Sound(m, e),
           NEW stays \in BOOLEAN, Instruction(m, stays),
           (took' = took /\ e = ei) \/ (took' # took /\ e = NotAsked)
    PROVE  CpuInv' /\ BeamInv' /\ HltInv'
<1>1. PICK op \in {"EI", "DI", "HLT", "NOP"}, v \in Vsyncs :
        /\ Take(Raster(Execute(m, op), v))
        /\ irqCarry' = (v = "late" \/ (v = "hit" /\ irqCarry))
        /\ due' = (due /\ v = "none") /\ crossed' = (v # "none")
        /\ lastHlt' = (op = "HLT") /\ atHlt' = (op = "HLT")
        /\ intPcSet' = FALSE
        /\ ei' = EiAfter(op)
  BY DEF Instruction
<1>2. op \in OpNames /\ v \in Vsync
  BY DEF OpNames, Vsync, Vsyncs
<1>3. ei' = Aged(op, e) /\ ei' \in Since
  BY <1>1 DEF EiAfter, Aged, IntInv, CpuInv, Since, NotAsked
<1>4. Execute(m, op) \in Machines /\ Sound(Execute(m, op), ei')
  BY <1>2, <1>3, ExecuteSound
<1>5. Raster(Execute(m, op), v) \in Machines /\ Sound(Raster(Execute(m, op), v), ei')
  BY <1>2, <1>3, <1>4, RasterSound DEF IntInv, BeamInv
<1>6. Machine' \in Machines /\ Sound(Machine', ei')
  BY <1>1, <1>3, <1>5, TakeStores
<1>7. CpuInv'
  BY <1>3, <1>6 DEF CpuInv
<1>8. BeamInv'
  BY <1>1 DEF IntInv, BeamInv
<1>9. HltInv'
  BY <1>1 DEF HltInv
<1> QED BY <1>7, <1>8, <1>9

\* A step that leaves the record of the last interrupt keeps what it says.
LEMMA TookKept ==
    ASSUME IntInv, took' = took
    PROVE  TookInv'
BY DEF IntInv, TookInv, InterruptAskedFor, ReturnsAfterHlt

\* The record of an interrupt that is taken says what the properties demand.
LEMMA TookAcknowledged ==
    ASSUME IntInv, Accepts(Machine), took' = Acknowledged
    PROVE  took' # took /\ TookInv'
<1>1. Machine \in Machines /\ ei \in Since /\ Sound(Machine, ei)
  BY DEF IntInv, CpuInv
<1>2. ei >= 1 /\ irq
  BY <1>1, AcknowledgeSound DEF Accepts, Machine
<1>3. took' = [asked |-> ei, skipped |-> lastHlt, halted |-> atHlt, set |-> intPcSet,
               any |-> ~took.any]
  BY DEF Acknowledged
<1>4. took' # took
  BY <1>3 DEF IntInv, TookInv, Records
<1>5. took' \in Records
  BY <1>1, <1>3 DEF IntInv, HltInv, TookInv, Records
<1>6. InterruptAskedFor'
  BY <1>2, <1>3 DEF InterruptAskedFor
<1>7. ReturnsAfterHlt'
  BY <1>2, <1>3 DEF ReturnsAfterHlt, IntInv, HltInv
<1> QED BY <1>4, <1>5, <1>6, <1>7 DEF TookInv

\* The invariant holds at first.
LEMMA IntInitInv == IntInit => IntInv
<1> SUFFICES ASSUME IntInit PROVE IntInv
  OBVIOUS
<1>0. inte \in BOOLEAN /\ irq \in BOOLEAN /\ iff \in BOOLEAN /\ eiPending \in 0..1
  BY 0 \in 0..1, Values, Zenon DEF IntInit
<1>1. /\ Machine.inte = FALSE /\ Machine.irq = FALSE /\ Machine.pending = 0
      /\ Machine \in Machines
  <2>1. Machine \in Machines
    BY <1>0 DEF Machine, Machines
  <2>2. /\ Machine.inte = inte /\ Machine.irq = irq /\ Machine.pending = eiPending
    BY DEF Machine
  <2> QED BY <2>1, <2>2 DEF IntInit
<1>2. CpuInv
  BY <1>1 DEF IntInit, CpuInv, Sound, Since
<1>3. BeamInv /\ HltInv
  BY DEF IntInit, BeamInv, HltInv
<1>4. NotTaken \in Records
  BY DEF Records, NotTaken, Since
<1>5. ReturnsAfterHlt
  BY DEF IntInit, ReturnsAfterHlt, NotTaken
<1>6. TookInv
  BY <1>4, <1>5 DEF IntInit, TookInv, InterruptAskedFor
<1> QED BY <1>2, <1>3, <1>6 DEF IntInv

\* Every step keeps the invariant.
LEMMA IntNextInv == IntInv /\ [IntNext]_intvars => IntInv'
<1> SUFFICES ASSUME IntInv, [IntNext]_intvars PROVE IntInv'
  OBVIOUS
<1>1. Machine \in Machines /\ ei \in Since /\ Sound(Machine, ei)
  BY DEF IntInv, CpuInv
<1>2. CASE IntFrame
  <2>1. CpuInv'
    BY <1>1, <1>2 DEF IntFrame, CpuInv, Machine, intCpu
  <2>2. BeamInv' /\ HltInv'
    BY <1>2 DEF IntFrame, IntInv, BeamInv, HltInv
  <2> QED BY <1>2, <2>1, <2>2, TookKept DEF IntFrame, IntInv
<1>3. CASE IntStep
  <2>1. Instruction(CheckInterrupt(Machine), atHlt /\ ~Accepts(Machine))
    BY <1>3 DEF IntStep
  <2>2. CASE Accepts(Machine)
    <3>1. CheckInterrupt(Machine) \in Machines /\ Sound(CheckInterrupt(Machine), NotAsked)
      BY <1>1, <2>2, AcknowledgeSound
    <3>2. took' # took /\ TookInv'
      BY <1>3, <2>2, TookAcknowledged DEF IntStep
    <3>3. CpuInv' /\ BeamInv' /\ HltInv'
      BY <2>1, <3>1, <3>2, InstructionKeeps DEF IntInv, HltInv, Since
    <3> QED BY <3>2, <3>3 DEF IntInv
  <2>3. CASE ~Accepts(Machine)
    <3>1. took' = took /\ CheckInterrupt(Machine) = Machine
      BY <1>3, <2>3 DEF IntStep, CheckInterrupt, Acknowledged
    <3>2. (atHlt /\ ~Accepts(Machine)) \in BOOLEAN
      OBVIOUS
    <3>3. CpuInv' /\ BeamInv' /\ HltInv'
      BY <1>1, <2>1, <3>1, <3>2, InstructionKeeps
    <3> QED BY <3>1, <3>3, TookKept DEF IntInv
  <2> QED BY <2>2, <2>3
<1>4. CASE IntBreak
  <2>1. /\ Take(CheckInterrupt(Machine)) /\ took' = Acknowledged
        /\ ei' = (IF Accepts(Machine) THEN NotAsked ELSE ei)
        /\ atHlt' = (atHlt /\ ~Accepts(Machine)) /\ intPcSet' = (intPcSet /\ ~Accepts(Machine))
        /\ UNCHANGED <<irqCarry, lastHlt, due>>
    BY <1>4 DEF IntBreak
  <2>2. CASE Accepts(Machine)
    <3>1. /\ CheckInterrupt(Machine) \in Machines /\ Sound(CheckInterrupt(Machine), NotAsked)
          /\ CheckInterrupt(Machine).irq = FALSE
      BY <1>1, <2>2, AcknowledgeSound
    <3>2. ei' = NotAsked /\ ei' \in Since
      BY <2>1, <2>2 DEF Since
    <3>3. CpuInv'
      BY <2>1, <3>1, <3>2, TakeStores DEF CpuInv
    <3>4. irq' = FALSE
      BY <2>1, <3>1 DEF Take
    <3>5. BeamInv' /\ HltInv'
      BY <2>1, <3>4 DEF IntInv, BeamInv, HltInv
    <3>6. TookInv'
      BY <2>1, <2>2, TookAcknowledged
    <3> QED BY <3>3, <3>5, <3>6 DEF IntInv
  <2>3. CASE ~Accepts(Machine)
    <3>1. took' = took /\ CheckInterrupt(Machine) = Machine /\ ei' = ei
      BY <2>1, <2>3 DEF CheckInterrupt, Acknowledged
    <3>2. CpuInv'
      BY <1>1, <2>1, <3>1, TakeStores DEF CpuInv
    <3>3. irq' = irq
      BY <2>1, <3>1 DEF Take, Machine
    <3>4. BeamInv' /\ HltInv'
      BY <2>1, <2>3, <3>3 DEF IntInv, BeamInv, HltInv
    <3> QED BY <3>1, <3>2, <3>4, TookKept DEF IntInv
  <2> QED BY <2>2, <2>3
<1>5. CASE IntSingleStep
  <2>1. took' = took /\ Instruction(Machine, atHlt) /\ atHlt \in BOOLEAN
    BY <1>5 DEF IntSingleStep, IntInv, HltInv
  <2>2. CpuInv' /\ BeamInv' /\ HltInv'
    BY <1>1, <2>1, InstructionKeeps
  <2> QED BY <2>1, <2>2, TookKept DEF IntInv
<1>6. CASE IntSetPc
  <2>1. CpuInv'
    BY <1>1, <1>6 DEF IntSetPc, CpuInv, Machine, intCpu
  <2>2. BeamInv' /\ HltInv'
    BY <1>6 DEF IntSetPc, IntInv, BeamInv, HltInv
  <2> QED BY <1>6, <2>1, <2>2, TookKept DEF IntSetPc, IntInv
<1>7. CASE IntLoadRom
  <2> DEFINE n == [Machine EXCEPT !.irq = FALSE]
  <2>1. n \in Machines /\ Sound(n, ei)
    BY <1>1, Lower
  <2>2. "DI" \in OpNames /\ Aged("DI", ei) = NotAsked /\ NotAsked \in Since
    BY DEF OpNames, Aged, Since
  <2> HIDE DEF n
  <2>3. Execute(n, "DI") \in Machines /\ Sound(Execute(n, "DI"), NotAsked)
    BY <1>1, <2>1, <2>2, ExecuteSound
  <2>4. Take(Execute(n, "DI"))
    BY <1>7 DEF IntLoadRom, n
  <2>5. CpuInv'
    BY <1>7, <2>2, <2>3, <2>4, TakeStores DEF IntLoadRom, CpuInv
  <2>6. BeamInv' /\ HltInv'
    BY <1>7 DEF IntLoadRom, IntInv, BeamInv, HltInv
  <2> QED BY <1>7, <2>5, <2>6, TookKept DEF IntLoadRom, IntInv
<1>8. CASE IntReset
  <2>1. ASSUME Take(Pin(Machine, FALSE)) PROVE CpuInv'
    <3>1. Pin(Machine, FALSE) \in Machines /\ Sound(Pin(Machine, FALSE), ei)
      BY <1>1, PinLow
    <3> QED BY <1>1, <1>8, <2>1, <3>1, TakeStores DEF IntReset, CpuInv
  <2>2. ASSUME Take([Machine EXCEPT !.irq = FALSE]) PROVE CpuInv'
    <3>1. [Machine EXCEPT !.irq = FALSE] \in Machines /\ Sound([Machine EXCEPT !.irq = FALSE], ei)
      BY <1>1, Lower
    <3> QED BY <1>1, <1>8, <2>2, <3>1, TakeStores DEF IntReset, CpuInv
  <2>3. CpuInv'
    BY <1>8, <2>1, <2>2 DEF IntReset
  <2>4. BeamInv' /\ HltInv'
    BY <1>8 DEF IntReset, IntInv, BeamInv, HltInv
  <2> QED BY <1>8, <2>3, <2>4, TookKept DEF IntReset, IntInv
<1>9. CASE UNCHANGED intvars
  <2>1. CpuInv'
    BY <1>1, <1>9 DEF intvars, CpuInv, Machine, intCpu
  <2>2. BeamInv' /\ HltInv'
    BY <1>9 DEF intvars, IntInv, BeamInv, HltInv
  <2> QED BY <1>9, <2>1, <2>2, TookKept DEF intvars, IntInv
<1> QED BY <1>2, <1>3, <1>4, <1>5, <1>6, <1>7, <1>8, <1>9 DEF IntNext

-----------------------------------------------------------------------------
\* Pin, flip-flop and hold-off follow the program's EI and DI, whatever the
\* debugger does in between.
THEOREM InterruptInv == IntSpec => []IntInv
BY IntInitInv, IntNextInv, PTL DEF IntSpec

\* An interrupt is taken only when the running program has executed EI and one
\* instruction more (Board::check_interrupt, i8080_execute).
THEOREM InterruptsAreAskedFor == IntSpec => []InterruptAskedFor
<1>1. IntInv => InterruptAskedFor
  BY DEF IntInv, TookInv
<1> QED BY <1>1, InterruptInv, PTL

\* An interrupt returns behind the HLT it ends, and skips nothing else.
THEOREM InterruptsReturnAfterHlt == IntSpec => []ReturnsAfterHlt
<1>1. IntInv => ReturnsAfterHlt
  BY DEF IntInv, TookInv
<1> QED BY <1>1, InterruptInv, PTL
=============================================================================
