---------------------------- MODULE PagedMemory -----------------------------
(***************************************************************************)
(* The memory of the machine: 64K, the pages of quasi-disk behind a        *)
(* window or behind the stack, a boot ROM over the bottom, and bytes       *)
(* stored bank by bank for the video.  An address space has PgSize         *)
(* addresses, eight times a power of two; the machine has 10000h.          *)
(***************************************************************************)
EXTENDS Integers

CONSTANTS
    PgSize,    \* addresses of a page
    PgPages,   \* pages of quasi-disk, four in the machine
    PgBoot,    \* bytes of the boot ROM
    PgAddrs,   \* the addresses the program uses
    PgImages,  \* the images that are loaded: <<origin, length>>
    PgMaxOps   \* bound: operations

ASSUME PagedAssumption ==
    /\ PgSize \in Nat /\ PgSize % 8 = 0 /\ PgPages \in Nat \ {0} /\ PgBoot \in 0..PgSize
    /\ PgAddrs \subseteq 0..(PgSize - 1) /\ PgMaxOps \in Nat

\* A ROM has an origin in the main memory.  load_edd() puts the first image of a
\* quasi-disk at its beginning and the second at its end, outside; a third would
\* clear a negative number of bytes, which the code does not guard against.
ASSUME ImagesAssumption ==
    \A r \in PgImages : /\ r[1] \in Nat /\ r[2] \in Nat
                        /\ r[1] < PgSize \/ \E k \in 1..(PgPages + 1) : r[1] = k * PgSize

Pages == 0..PgPages                 \* 0 is the main memory
Block == PgSize \div 2           \* a bank is a quarter of a block
PgTotal == (PgPages + 1) * PgSize
BootByte == -1                   \* what the boot ROM holds

VARIABLES
    bytes,      \* Memory::bytes
    pmode,      \* mode_stack, mode_map and the two pages
    bootOn,     \* bootbytes is not empty
    store,      \* ghost: the bytes by page and address
    lastRead,   \* ghost: a byte that was read, and what it should be
    pgOps       \* against PgMaxOps; the value of the next write

pgvars == <<bytes, pmode, bootOn, store, lastRead, pgOps>>

PgInit ==
    /\ bytes = [i \in 0..(PgTotal - 1) |-> 0]
    /\ pmode = [stack |-> FALSE, map |-> FALSE, pageMap |-> 0, pageStack |-> 0]
    /\ bootOn = FALSE
    /\ store = [p \in Pages |-> [a \in 0..(PgSize - 1) |-> 0]]
    /\ lastRead = [got |-> 0, want |-> 0]
    /\ pgOps = 0

-----------------------------------------------------------------------------
(* Addresses *)

\* The window of the quasi-disk, A000h-DFFFh.
InWindow(a) == a >= 5 * (PgSize \div 8) /\ a < 7 * (PgSize \div 8)

\* bigram_select(): the page of an access.
PageOf(a, stackrq) ==
    CASE pmode.stack /\ stackrq -> pmode.pageStack
      [] ~(pmode.stack /\ stackrq) /\ pmode.map /\ InWindow(a) -> pmode.pageMap
      [] OTHER -> 0

BigRamSelect(a, stackrq) == PageOf(a, stackrq) * PgSize + a

\* tobank(): in each block, the two high bits become the low ones.
ToBank(a) ==
    (a \div Block) * Block + ((4 * a) % Block) + ((a % Block) \div (Block \div 4))

-----------------------------------------------------------------------------
(* Operations *)

Op == pgOps < PgMaxOps /\ pgOps' = pgOps + 1

\* control_write(), port 10h.
ControlWrite ==
    /\ Op
    /\ \E s \in BOOLEAN, m \in BOOLEAN, pm \in 1..PgPages, ps \in 1..PgPages :
         pmode' = [stack |-> s, map |-> m, pageMap |-> pm, pageStack |-> ps]
    /\ UNCHANGED <<bytes, bootOn, store, lastRead>>

\* write(): under the boot ROM too.
MemWrite ==
    /\ Op
    /\ \E a \in PgAddrs, stackrq \in BOOLEAN :
         /\ bytes' = [bytes EXCEPT ![ToBank(BigRamSelect(a, stackrq))] = pgOps + 1]
         /\ store' = [store EXCEPT ![PageOf(a, stackrq)][a] = pgOps + 1]
    /\ UNCHANGED <<pmode, bootOn, lastRead>>

\* Mutant: the boot ROM covers the bottom of every page.
ReadValueBootOver(a, stackrq) ==
    IF bootOn /\ a < PgBoot THEN BootByte ELSE bytes[ToBank(BigRamSelect(a, stackrq))]

\* read() and peek().
ReadValue(a, stackrq) ==
    LET big == BigRamSelect(a, stackrq) IN
    IF bootOn /\ big < PgBoot THEN BootByte ELSE bytes[ToBank(big)]

MemRead ==
    /\ Op
    /\ \E a \in PgAddrs, stackrq \in BOOLEAN :
         lastRead' = [got |-> ReadValue(a, stackrq),
                      want |-> IF bootOn /\ PageOf(a, stackrq) = 0 /\ a < PgBoot THEN BootByte
                               ELSE store[PageOf(a, stackrq)][a]]
    /\ UNCHANGED <<bytes, pmode, bootOn, store>>

\* init_from_vector(): the main memory, or the quasi-disk from the origin on, is
\* cleared, then the image is put there; what reaches beyond is dropped.
InitFromVector(from, n) ==
    [i \in 0..(PgTotal - 1) |->
        IF \E a \in from..(from + n - 1) : ToBank(a) = i THEN pgOps + 1
        ELSE IF (from < PgSize /\ i < PgSize) \/ (from >= PgSize /\ i >= from) THEN 0
        ELSE bytes[i]]

\* A ROM takes the boot ROM away (Board::reset() in loadRom()).
LoadImage ==
    /\ Op
    /\ \E r \in PgImages :
         /\ bytes' = InitFromVector(r[1], r[2])
         /\ store' = [p \in Pages |-> [x \in 0..(PgSize - 1) |->
                        LET a == p * PgSize + x IN
                        IF a \in r[1]..(r[1] + r[2] - 1) THEN pgOps + 1
                        ELSE IF (r[1] < PgSize /\ p = 0) \/ (r[1] >= PgSize /\ a >= r[1]) THEN 0
                        ELSE store[p][x]]]
         /\ bootOn' = (bootOn /\ r[1] >= PgSize)
    /\ UNCHANGED <<pmode, lastRead>>

\* attach_boot() and detach_boot(), by Board::reset().
AttachBoot == Op /\ bootOn' = TRUE  /\ UNCHANGED <<bytes, pmode, store, lastRead>>
DetachBoot == Op /\ bootOn' = FALSE /\ UNCHANGED <<bytes, pmode, store, lastRead>>

PgNext == ControlWrite \/ MemWrite \/ MemRead \/ LoadImage \/ AttachBoot \/ DetachBoot

PgSpec == PgInit /\ [][PgNext]_pgvars

-----------------------------------------------------------------------------
(* Properties *)

\* The banked bytes hold the pages: every byte of every page has a place of its
\* own, which no write to another page or address disturbs; an image, wherever
\* it begins and ends, changes what it covers and what is cleared before it.
BytesHoldPages ==
    \A p \in Pages, a \in 0..(PgSize - 1) : bytes[ToBank(p * PgSize + a)] = store[p][a]

\* A read gives the byte of the page the access selects, the boot ROM covers
\* the bottom of the main memory and of no page of the quasi-disk, and what is
\* not read is kept.
PagesKept == BytesHoldPages /\ lastRead.got = lastRead.want
=============================================================================
