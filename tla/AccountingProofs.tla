-------------------------- MODULE AccountingProofs --------------------------
(***************************************************************************)
(* Proofs about how the debugger tells fetches from data accesses, for     *)
(* every size of the address space, every memory image and every mixture   *)
(* of steps and free running: the accesses are classified, the execute     *)
(* counters are exact and the instruction numbers tell instructions apart. *)
(*                                                                         *)
(* The heart is AccessesFollow: for each of the 256 opcodes that is not    *)
(* Misleading, the accesses of src/i8080.cpp fit the length of             *)
(* debugger/src/opcode_info.h.  The window (fetchBasePc_, fetchRemaining_) *)
(* is then shown to follow the CPU from one access to the next.            *)
(***************************************************************************)
EXTENDS Accounting, SequenceTheorems, TLAPS

-----------------------------------------------------------------------------
(* The accesses of an instruction *)

\* What an access can be.  Data reads leave PC just past the opcode.
Kinds == {"Fetch", "Read", "Write"}
AccessRecords ==
    {r \in [kind : Kinds, at : {-1, 1, 2}, stack : BOOLEAN, pc : {1, 2}] :
        r.kind = "Read" => r.at = Data /\ r.pc = 1}

\* What the CPU has still to do, as the window must see it: writes, then the n
\* operand bytes that the debugger's length announces, then no other fetch.
Expects(q, n) ==
    \E k \in 0..Len(q) :
        /\ k + n <= Len(q)
        /\ \A i \in 1..Len(q) :
              /\ i <= k => q[i].kind = "Write"
              /\ k < i /\ i <= k + n => q[i].kind = "Fetch"
              /\ k + n < i => q[i].kind # "Fetch"

\* The accesses of i8080.cpp are access records.
LEMMA RecordsTyped ==
    /\ Immediate \in AccessRecords
    /\ \A s \in BOOLEAN : Read(s) \in AccessRecords /\ Write(s) \in AccessRecords
    /\ \A s \in BOOLEAN : Word(s) \in Seq(AccessRecords)
BY SMT DEF AccessRecords, Kinds, Immediate, Read, Write, Word, Data

\* q is the sequence s of two accesses followed by the n accesses of t.
Joined(q, s, t, n) ==
    /\ q \in Seq(AccessRecords)
    /\ Len(q) = 2 + n /\ q[1] = s[1] /\ q[2] = s[2]
    /\ \A i \in 3..(2 + n) : q[i] = t[i - 2]

\* Concatenation behind a pair of accesses.
LEMMA Join ==
    ASSUME NEW s \in Seq(AccessRecords), NEW t \in Seq(AccessRecords), NEW n \in Nat,
           Len(s) = 2, Len(t) = n
    PROVE  Joined(s \o t, s, t, n)
<1>1. /\ s \o t \in Seq(AccessRecords)
      /\ Len(s \o t) = Len(s) + Len(t)
      /\ \A i \in 1 .. Len(s) + Len(t) : (s \o t)[i] =
             IF i <= Len(s) THEN s[i] ELSE t[i - Len(s)]
  BY ConcatProperties, Zenon
<1>2. PICK q : q = s \o t
  OBVIOUS
<1>3. /\ q \in Seq(AccessRecords) /\ Len(q) = 2 + n
      /\ \A i \in 1..(2 + n) : q[i] = IF i <= 2 THEN s[i] ELSE t[i - 2]
  BY <1>1, <1>2, Zenon
<1>4. q[1] = s[1] /\ q[2] = s[2] /\ \A i \in 3..(2 + n) : q[i] = t[i - 2]
  BY <1>3, SMT
<1> QED BY <1>2, <1>3, <1>4, Zenon DEF Joined

\* No operand byte is read.
NoFetch(q) == \A i \in 1..Len(q) : q[i].kind # "Fetch"

\* An instruction with one access.
LEMMA OneAccess ==
    ASSUME NEW a \in AccessRecords
    PROVE  /\ <<a>> \in Seq(AccessRecords)
           /\ a.kind # "Fetch" => NoFetch(<<a>>)
           /\ a.kind = "Fetch" => Expects(<<a>>, 1)
<1>1. PICK q : q = <<a>>
  OBVIOUS
<1>2. q \in Seq(AccessRecords) /\ Len(q) = 1 /\ q[1] = a
  BY <1>1
<1>3. a.kind # "Fetch" => NoFetch(q)
  BY <1>2 DEF NoFetch
<1>4. a.kind = "Fetch" => Expects(q, 1)
  BY <1>2 DEF Expects
<1> QED BY <1>1, <1>2, <1>3, <1>4, Zenon

\* An instruction with two accesses.
LEMMA TwoAccesses ==
    ASSUME NEW a \in AccessRecords, NEW b \in AccessRecords
    PROVE  /\ <<a, b>> \in Seq(AccessRecords)
           /\ Len(<<a, b>>) = 2 /\ <<a, b>>[1] = a /\ <<a, b>>[2] = b
           /\ a.kind # "Fetch" /\ b.kind # "Fetch" => NoFetch(<<a, b>>)
<1>1. PICK q : q = <<a, b>>
  OBVIOUS
<1>2. q \in Seq(AccessRecords) /\ Len(q) = 2 /\ q[1] = a /\ q[2] = b
  BY <1>1
<1>3. a.kind # "Fetch" /\ b.kind # "Fetch" => NoFetch(q)
  BY <1>2 DEF NoFetch
<1> QED BY <1>1, <1>2, <1>3, Zenon

\* An instruction with three accesses.
LEMMA ThreeAccesses ==
    ASSUME NEW a \in AccessRecords, NEW b \in AccessRecords, NEW c \in AccessRecords
    PROVE  /\ <<a, b, c>> \in Seq(AccessRecords)
           /\ a.kind # "Fetch" /\ b.kind # "Fetch" /\ c.kind # "Fetch"
                 => NoFetch(<<a, b, c>>)
<1>1. PICK q : q = <<a, b, c>>
  OBVIOUS
<1>2. /\ q \in Seq(AccessRecords) /\ Len(q) = 3
      /\ q[1] = a /\ q[2] = b /\ q[3] = c
  BY <1>1
<1>3. a.kind # "Fetch" /\ b.kind # "Fetch" /\ c.kind # "Fetch" => NoFetch(q)
  BY <1>2 DEF NoFetch
<1> QED BY <1>1, <1>2, <1>3, Zenon

\* Without operand bytes, nothing but data is expected.
LEMMA NoFetchExpected ==
    ASSUME NEW q \in Seq(AccessRecords), NoFetch(q)
    PROVE  Expects(q, 1 - 1)
<1>1. PICK n \in Nat : n = Len(q)
  OBVIOUS
<1>2. /\ 0 \in 0..n /\ 0 + 0 <= n
      /\ \A i \in 1..n : ~(i <= 0) /\ ~(0 < i /\ i <= 0 + 0) /\ q[i].kind # "Fetch"
  BY <1>1 DEF NoFetch
<1>3. Expects(q, 0)
  BY <1>1, <1>2, Zenon DEF Expects
<1> QED BY <1>3

\* No access at all, as in NOP and in the register operations.
LEMMA EmptyShape == <<>> \in Seq(AccessRecords) /\ Expects(<<>>, 1 - 1)
BY DEF Expects

\* MOV r,M, MOV M,r, INR M and DCR M have no operand byte.
LEMMA DataShape ==
    /\ <<Read(FALSE)>> \in Seq(AccessRecords) /\ Expects(<<Read(FALSE)>>, 1 - 1)
    /\ <<Write(FALSE)>> \in Seq(AccessRecords) /\ Expects(<<Write(FALSE)>>, 1 - 1)
    /\ <<Read(FALSE), Write(FALSE)>> \in Seq(AccessRecords)
    /\ Expects(<<Read(FALSE), Write(FALSE)>>, 1 - 1)
    /\ <<Read(FALSE), Read(FALSE), Write(FALSE)>> \in Seq(AccessRecords)
    /\ Expects(<<Read(FALSE), Read(FALSE), Write(FALSE)>>, 1 - 1)
<1>1. PICK r \in AccessRecords : r = Read(FALSE) /\ r.kind = "Read"
  BY RecordsTyped DEF Read
<1>2. PICK w \in AccessRecords : w = Write(FALSE) /\ w.kind = "Write"
  BY RecordsTyped DEF Write
<1>3. r.kind # "Fetch" /\ w.kind # "Fetch"
  BY <1>1, <1>2
<1>4. /\ NoFetch(<<r>>) /\ NoFetch(<<w>>) /\ NoFetch(<<r, w>>)
      /\ NoFetch(<<r, r, w>>)
  BY <1>3, OneAccess, TwoAccesses, ThreeAccesses, Zenon
<1>5. /\ <<r>> \in Seq(AccessRecords) /\ <<w>> \in Seq(AccessRecords)
      /\ <<r, w>> \in Seq(AccessRecords) /\ <<r, r, w>> \in Seq(AccessRecords)
  BY OneAccess, TwoAccesses, ThreeAccesses, Zenon
<1> QED BY <1>1, <1>2, <1>4, <1>5, NoFetchExpected, Zenon

\* An immediate operand is one byte; MVI M,d8 only has the right type.
LEMMA ByteShape ==
    /\ <<Immediate>> \in Seq(AccessRecords) /\ Expects(<<Immediate>>, 2 - 1)
    /\ <<Read(FALSE), Immediate, Write(FALSE)>> \in Seq(AccessRecords)
<1>1. PICK f \in AccessRecords : f = Immediate /\ f.kind = "Fetch"
  BY RecordsTyped DEF Immediate
<1>2. <<f>> \in Seq(AccessRecords) /\ Expects(<<f>>, 1)
  BY <1>1, OneAccess, Zenon
<1>3. <<Read(FALSE), f, Write(FALSE)>> \in Seq(AccessRecords)
  BY RecordsTyped, ThreeAccesses
<1>4. 2 - 1 = 1
  OBVIOUS
<1> QED BY <1>1, <1>2, <1>3, <1>4, Zenon

\* PUSH, POP, RST, RET and XTHL have no operand byte.
LEMMA StackShape ==
    /\ Pop \in Seq(AccessRecords) /\ Expects(Pop, 1 - 1)
    /\ Push \in Seq(AccessRecords) /\ Expects(Push, 1 - 1)
    /\ Pop \o Push \in Seq(AccessRecords) /\ Expects(Pop \o Push, 1 - 1)
<1>1. PICK r \in AccessRecords : r = Read(TRUE) /\ r.kind = "Read"
  BY RecordsTyped DEF Read
<1>2. PICK w \in AccessRecords : w = Write(TRUE) /\ w.kind = "Write"
  BY RecordsTyped DEF Write
<1>3. Pop \in Seq(AccessRecords) /\ Len(Pop) = 2 /\ NoFetch(Pop)
  <2>1. r.kind # "Fetch"
    BY <1>1
  <2> QED BY <1>1, <2>1, TwoAccesses, Zenon DEF Pop
<1>4. Push \in Seq(AccessRecords) /\ Len(Push) = 2 /\ NoFetch(Push)
  <2>1. w.kind # "Fetch"
    BY <1>2
  <2> QED BY <1>2, <2>1, TwoAccesses, Zenon DEF Push
<1>5. PICK q : q = Pop \o Push
  OBVIOUS
<1>6. Joined(q, Pop, Push, 2)
  BY <1>3, <1>4, <1>5, Join, 2 \in Nat
<1>7. NoFetch(q)
  BY <1>3, <1>4, <1>6, SMT DEF NoFetch, Joined
<1> QED BY <1>3, <1>4, <1>5, <1>7, <1>6, NoFetchExpected, Zenon DEF Joined

\* LXI, JMP and a taken Jcc read two operand bytes and nothing else.
LEMMA WordShape ==
    ASSUME NEW s \in BOOLEAN
    PROVE  /\ Word(s) \in Seq(AccessRecords) /\ Expects(Word(s), 3 - 1)
           /\ Len(Word(s)) = 2 /\ Word(s)[1].kind = "Fetch" /\ Word(s)[2].kind = "Fetch"
<1>1. /\ Word(s) \in Seq(AccessRecords)
      /\ Len(Word(s)) = 2 /\ Word(s)[1].kind = "Fetch" /\ Word(s)[2].kind = "Fetch"
  BY RecordsTyped DEF Word
<1>2. Expects(Word(s), 2)
  BY <1>1 DEF Expects
<1> QED BY <1>1, <1>2

\* CALL pushes the return address before it reads its operand.
LEMMA CallShape ==
    /\ Push \o Word(TRUE) \in Seq(AccessRecords)
    /\ Expects(Push \o Word(TRUE), 3 - 1)
<1>1. PICK w \in AccessRecords : w = Write(TRUE) /\ w.kind = "Write"
  BY RecordsTyped DEF Write
<1>2. /\ Push \in Seq(AccessRecords) /\ Len(Push) = 2
      /\ Push[1].kind = "Write" /\ Push[2].kind = "Write"
  BY <1>1, TwoAccesses, Zenon DEF Push
<1>3. PICK t \in Seq(AccessRecords) :
        t = Word(TRUE) /\ Len(t) = 2 /\ t[1].kind = "Fetch" /\ t[2].kind = "Fetch"
  BY WordShape
<1>4. PICK q : q = Push \o t
  OBVIOUS
<1>5. Joined(q, Push, t, 2)
  BY <1>2, <1>3, <1>4, Join, 2 \in Nat
<1>6. /\ Len(q) = 4 /\ q[1].kind = "Write" /\ q[2].kind = "Write"
      /\ q[3].kind = "Fetch" /\ q[4].kind = "Fetch"
  <2>1. \A i \in 3..4 : q[i] = t[i - 2]
    BY <1>5 DEF Joined
  <2>2. q[3] = t[1] /\ q[4] = t[2]
    BY <2>1
  <2>3. Len(q) = 4 /\ q[1] = Push[1] /\ q[2] = Push[2]
    BY <1>5 DEF Joined
  <2> QED BY <1>2, <1>3, <2>2, <2>3, Zenon
<1>7. Expects(q, 3 - 1)
  BY <1>6 DEF Expects
<1> QED BY <1>3, <1>4, <1>7, <1>5, Zenon DEF Joined

\* A word operand that is followed by data accesses.
LEMMA OperandThenData ==
    ASSUME NEW t \in Seq(AccessRecords), NoFetch(t)
    PROVE  /\ Word(FALSE) \o t \in Seq(AccessRecords)
           /\ Expects(Word(FALSE) \o t, 3 - 1)
<1>1. PICK s \in Seq(AccessRecords) :
        s = Word(FALSE) /\ Len(s) = 2 /\ s[1].kind = "Fetch" /\ s[2].kind = "Fetch"
  BY WordShape
<1>2. PICK n \in Nat : n = Len(t)
  OBVIOUS
<1>3. PICK q : q = s \o t
  OBVIOUS
<1>4. Joined(q, s, t, n)
  BY <1>1, <1>2, <1>3, Join
<1>5. \A i \in 3..(2 + n) : q[i].kind # "Fetch"
  BY <1>2, <1>4 DEF NoFetch, Joined
<1>6. /\ 0 \in 0..(2 + n) /\ 0 + 2 <= 2 + n
      /\ \A i \in 1..(2 + n) :
            /\ ~(i <= 0)
            /\ 0 < i /\ i <= 0 + 2 => q[i].kind = "Fetch"
            /\ 0 + 2 < i => q[i].kind # "Fetch"
  <2>1. \A i \in 1..(2 + n) : i = 1 \/ i = 2 \/ i \in 3..(2 + n)
    OBVIOUS
  <2>2. q[1].kind = "Fetch" /\ q[2].kind = "Fetch"
    BY <1>1, <1>4, Zenon DEF Joined
  <2> QED BY <1>5, <2>1, <2>2, SMT
<1>7. Expects(q, 2)
  BY <1>6, <1>4, Zenon DEF Expects, Joined
<1>8. 3 - 1 = 2
  OBVIOUS
<1> QED BY <1>1, <1>3, <1>7, <1>8, <1>4, Zenon DEF Joined

\* SHLD, LHLD, STA and LDA read two operand bytes before the data.
LEMMA DirectShape ==
    /\ Word(FALSE) \o <<Write(FALSE), Write(FALSE)>> \in Seq(AccessRecords)
    /\ Expects(Word(FALSE) \o <<Write(FALSE), Write(FALSE)>>, 3 - 1)
    /\ Word(FALSE) \o <<Read(FALSE), Read(FALSE)>> \in Seq(AccessRecords)
    /\ Expects(Word(FALSE) \o <<Read(FALSE), Read(FALSE)>>, 3 - 1)
    /\ Word(FALSE) \o <<Write(FALSE)>> \in Seq(AccessRecords)
    /\ Expects(Word(FALSE) \o <<Write(FALSE)>>, 3 - 1)
    /\ Word(FALSE) \o <<Read(FALSE)>> \in Seq(AccessRecords)
    /\ Expects(Word(FALSE) \o <<Read(FALSE)>>, 3 - 1)
<1>1. PICK r \in AccessRecords : r = Read(FALSE) /\ r.kind = "Read"
  BY RecordsTyped DEF Read
<1>2. PICK w \in AccessRecords : w = Write(FALSE) /\ w.kind = "Write"
  BY RecordsTyped DEF Write
<1>3. r.kind # "Fetch" /\ w.kind # "Fetch"
  BY <1>1, <1>2
<1>4. NoFetch(<<w, w>>) /\ NoFetch(<<r, r>>) /\ NoFetch(<<w>>) /\ NoFetch(<<r>>)
  BY <1>3, OneAccess, TwoAccesses, Zenon
<1>5. /\ <<w, w>> \in Seq(AccessRecords) /\ <<r, r>> \in Seq(AccessRecords)
      /\ <<w>> \in Seq(AccessRecords) /\ <<r>> \in Seq(AccessRecords)
  BY OneAccess, TwoAccesses, Zenon
<1> QED BY <1>1, <1>2, <1>4, <1>5, OperandThenData, Zenon

\* What i8080_execute() reads fits opcode_info::get_length(), for every opcode
\* whose operand the CPU reads where the debugger looks for it.
LEMMA AccessesFollow ==
    ASSUME NEW op \in 0..255, NEW taken \in BOOLEAN
    PROVE  /\ Accesses(op, taken) \in Seq(AccessRecords)
           /\ ~Misleading(op, taken) => Expects(Accesses(op, taken), Length(op) - 1)
<1> DEFINE q == Accesses(op, taken)
<1>1. CASE op \in LXI \cup {JMP} \cup UndocJMP
  <2>1. /\ op \notin Jcc \cup {CALL} \cup UndocCALL \cup Ccc
                    \cup {RET} \cup UndocRET \cup PopR \cup Rcc
                    \cup RST \cup PushR \cup {XTHL}
                    \cup MVI \cup AluI \cup InOut \cup {MVIM} \cup {SHLD}
                    \cup {LHLD} \cup {STA} \cup {LDA} \cup ReadM
                    \cup StoreM \cup {INRM} \cup {DCRM}
        /\ ~Misleading(op, taken) => Length(op) = 3
    BY <1>1 DEF Misleading, Length,
       LXI, MVI, MVIM, AluI, InOut, SHLD, LHLD, STA, LDA, Jcc, Ccc, Rcc, JMP,
       CALL, RET, RST, PopR, PushR, XTHL, HLT, StoreM, ReadM, INRM, DCRM,
       UndocJMP, UndocCALL, UndocRET, Column
  <2>2. q = Word(FALSE) /\ (~Misleading(op, taken) => Length(op) = 3)
    BY <1>1, <2>1 DEF Accesses
  <2> QED BY <2>2, WordShape
<1>2. CASE op \in Jcc
  <2>1. /\ op \notin LXI \cup {JMP} \cup UndocJMP \cup {CALL} \cup UndocCALL
                    \cup Ccc \cup {RET} \cup UndocRET \cup PopR \cup Rcc
                    \cup RST \cup PushR \cup {XTHL}
                    \cup MVI \cup AluI \cup InOut \cup {MVIM} \cup {SHLD}
                    \cup {LHLD} \cup {STA} \cup {LDA} \cup ReadM
                    \cup StoreM \cup {INRM} \cup {DCRM}
        /\ Length(op) = 3
    BY <1>2 DEF Length,
       LXI, MVI, MVIM, AluI, InOut, SHLD, LHLD, STA, LDA, Jcc, Ccc, Rcc, JMP,
       CALL, RET, RST, PopR, PushR, XTHL, HLT, StoreM, ReadM, INRM, DCRM,
       UndocJMP, UndocCALL, UndocRET, Column
  <2>2. q = (IF taken THEN Word(FALSE) ELSE <<>>) /\ Length(op) = 3
    BY <1>2, <2>1 DEF Accesses
  <2>3. ~Misleading(op, taken) => taken = TRUE
    BY <1>2 DEF Misleading
  <2> QED BY <2>2, <2>3, WordShape, EmptyShape
<1>3. CASE op \in {CALL} \cup UndocCALL
  <2>1. /\ op \notin LXI \cup {JMP} \cup UndocJMP \cup Jcc \cup Ccc
                    \cup {RET} \cup UndocRET \cup PopR \cup Rcc
                    \cup RST \cup PushR \cup {XTHL}
                    \cup MVI \cup AluI \cup InOut \cup {MVIM} \cup {SHLD}
                    \cup {LHLD} \cup {STA} \cup {LDA} \cup ReadM
                    \cup StoreM \cup {INRM} \cup {DCRM}
        /\ ~Misleading(op, taken) => Length(op) = 3
    BY <1>3 DEF Misleading, Length,
       LXI, MVI, MVIM, AluI, InOut, SHLD, LHLD, STA, LDA, Jcc, Ccc, Rcc, JMP,
       CALL, RET, RST, PopR, PushR, XTHL, HLT, StoreM, ReadM, INRM, DCRM,
       UndocJMP, UndocCALL, UndocRET, Column
  <2>2. q = Push \o Word(TRUE) /\ (~Misleading(op, taken) => Length(op) = 3)
    BY <1>3, <2>1 DEF Accesses
  <2> QED BY <2>2, CallShape
<1>4. CASE op \in Ccc
  <2>1. /\ op \notin LXI \cup {JMP} \cup UndocJMP \cup Jcc
                    \cup {CALL} \cup UndocCALL
                    \cup {RET} \cup UndocRET \cup PopR \cup Rcc
                    \cup RST \cup PushR \cup {XTHL}
                    \cup MVI \cup AluI \cup InOut \cup {MVIM} \cup {SHLD}
                    \cup {LHLD} \cup {STA} \cup {LDA} \cup ReadM
                    \cup StoreM \cup {INRM} \cup {DCRM}
        /\ Length(op) = 3
    BY <1>4 DEF Length,
       LXI, MVI, MVIM, AluI, InOut, SHLD, LHLD, STA, LDA, Jcc, Ccc, Rcc, JMP,
       CALL, RET, RST, PopR, PushR, XTHL, HLT, StoreM, ReadM, INRM, DCRM,
       UndocJMP, UndocCALL, UndocRET, Column
  <2>2. q = (IF taken THEN Push \o Word(TRUE) ELSE <<>>) /\ Length(op) = 3
    BY <1>4, <2>1 DEF Accesses
  <2>3. ~Misleading(op, taken) => taken = TRUE
    BY <1>4 DEF Misleading
  <2> QED BY <2>2, <2>3, CallShape, EmptyShape
<1>5. CASE op \in {RET} \cup UndocRET \cup PopR
  <2>1. /\ op \notin LXI \cup {JMP} \cup UndocJMP \cup Jcc
                    \cup {CALL} \cup UndocCALL \cup Ccc \cup Rcc
                    \cup RST \cup PushR \cup {XTHL}
                    \cup MVI \cup AluI \cup InOut \cup {MVIM} \cup {SHLD}
                    \cup {LHLD} \cup {STA} \cup {LDA} \cup ReadM
                    \cup StoreM \cup {INRM} \cup {DCRM}
        /\ Length(op) = 1
    BY <1>5 DEF Length,
       LXI, MVI, MVIM, AluI, InOut, SHLD, LHLD, STA, LDA, Jcc, Ccc, Rcc, JMP,
       CALL, RET, RST, PopR, PushR, XTHL, HLT, StoreM, ReadM, INRM, DCRM,
       UndocJMP, UndocCALL, UndocRET, Column
  <2>2. q = Pop /\ Length(op) = 1
    BY <1>5, <2>1 DEF Accesses
  <2> QED BY <2>2, StackShape
<1>6. CASE op \in Rcc
  <2>1. /\ op \notin LXI \cup {JMP} \cup UndocJMP \cup Jcc
                    \cup {CALL} \cup UndocCALL \cup Ccc
                    \cup {RET} \cup UndocRET \cup PopR \cup RST \cup PushR
                    \cup {XTHL} \cup MVI \cup AluI \cup InOut \cup {MVIM}
                    \cup {SHLD} \cup {LHLD} \cup {STA} \cup {LDA}
                    \cup ReadM \cup StoreM \cup {INRM} \cup {DCRM}
        /\ Length(op) = 1
    BY <1>6 DEF Length,
       LXI, MVI, MVIM, AluI, InOut, SHLD, LHLD, STA, LDA, Jcc, Ccc, Rcc, JMP,
       CALL, RET, RST, PopR, PushR, XTHL, HLT, StoreM, ReadM, INRM, DCRM,
       UndocJMP, UndocCALL, UndocRET, Column
  <2>2. q = (IF taken THEN Pop ELSE <<>>) /\ Length(op) = 1
    BY <1>6, <2>1 DEF Accesses
  <2> QED BY <2>2, StackShape, EmptyShape
<1>7. CASE op \in RST \cup PushR
  <2>1. /\ op \notin LXI \cup {JMP} \cup UndocJMP \cup Jcc
                    \cup {CALL} \cup UndocCALL \cup Ccc
                    \cup {RET} \cup UndocRET \cup PopR \cup Rcc
                    \cup {XTHL} \cup MVI \cup AluI \cup InOut \cup {MVIM}
                    \cup {SHLD} \cup {LHLD} \cup {STA} \cup {LDA}
                    \cup ReadM \cup StoreM \cup {INRM} \cup {DCRM}
        /\ Length(op) = 1
    BY <1>7 DEF Length,
       LXI, MVI, MVIM, AluI, InOut, SHLD, LHLD, STA, LDA, Jcc, Ccc, Rcc, JMP,
       CALL, RET, RST, PopR, PushR, XTHL, HLT, StoreM, ReadM, INRM, DCRM,
       UndocJMP, UndocCALL, UndocRET, Column
  <2>2. q = Push /\ Length(op) = 1
    BY <1>7, <2>1 DEF Accesses
  <2> QED BY <2>2, StackShape
<1>8. CASE op = XTHL
  <2>1. /\ op \notin LXI \cup {JMP} \cup UndocJMP \cup Jcc
                    \cup {CALL} \cup UndocCALL \cup Ccc
                    \cup {RET} \cup UndocRET \cup PopR \cup Rcc
                    \cup RST \cup PushR \cup MVI \cup AluI \cup InOut
                    \cup {MVIM} \cup {SHLD} \cup {LHLD} \cup {STA}
                    \cup {LDA} \cup ReadM \cup StoreM \cup {INRM}
                    \cup {DCRM}
        /\ Length(op) = 1
    BY <1>8 DEF Length,
       LXI, MVI, MVIM, AluI, InOut, SHLD, LHLD, STA, LDA, Jcc, Ccc, Rcc, JMP,
       CALL, RET, RST, PopR, PushR, XTHL, HLT, StoreM, ReadM, INRM, DCRM,
       UndocJMP, UndocCALL, UndocRET, Column
  <2>2. q = Pop \o Push /\ Length(op) = 1
    BY <1>8, <2>1 DEF Accesses
  <2> QED BY <2>2, StackShape
<1>9. CASE op \in MVI \cup AluI \cup InOut
  <2>1. /\ op \notin LXI \cup {JMP} \cup UndocJMP \cup Jcc
                    \cup {CALL} \cup UndocCALL \cup Ccc
                    \cup {RET} \cup UndocRET \cup PopR \cup Rcc
                    \cup RST \cup PushR \cup {XTHL} \cup {MVIM}
                    \cup {SHLD} \cup {LHLD} \cup {STA} \cup {LDA}
                    \cup ReadM \cup StoreM \cup {INRM} \cup {DCRM}
        /\ Length(op) = 2
    BY <1>9 DEF Length,
       LXI, MVI, MVIM, AluI, InOut, SHLD, LHLD, STA, LDA, Jcc, Ccc, Rcc, JMP,
       CALL, RET, RST, PopR, PushR, XTHL, HLT, StoreM, ReadM, INRM, DCRM,
       UndocJMP, UndocCALL, UndocRET, Column
  <2>2. q = <<Immediate>> /\ Length(op) = 2
    BY <1>9, <2>1 DEF Accesses
  <2> QED BY <2>2, ByteShape
<1>10. CASE op = MVIM
  <2>1. /\ op \notin LXI \cup {JMP} \cup UndocJMP \cup Jcc
                    \cup {CALL} \cup UndocCALL \cup Ccc
                    \cup {RET} \cup UndocRET \cup PopR \cup Rcc
                    \cup RST \cup PushR \cup {XTHL}
                    \cup MVI \cup AluI \cup InOut \cup {SHLD} \cup {LHLD}
                    \cup {STA} \cup {LDA} \cup ReadM \cup StoreM
                    \cup {INRM} \cup {DCRM}
        /\ Length(op) = 2
    BY <1>10 DEF Length,
       LXI, MVI, MVIM, AluI, InOut, SHLD, LHLD, STA, LDA, Jcc, Ccc, Rcc, JMP,
       CALL, RET, RST, PopR, PushR, XTHL, HLT, StoreM, ReadM, INRM, DCRM,
       UndocJMP, UndocCALL, UndocRET, Column
  <2>2. q = <<Read(FALSE), Immediate, Write(FALSE)>> /\ Length(op) = 2
    BY <1>10, <2>1 DEF Accesses
  <2>3. Misleading(op, taken)
    BY <1>10 DEF Misleading
  <2> QED BY <2>2, <2>3, ByteShape
<1>11. CASE op = SHLD
  <2>1. /\ op \notin LXI \cup {JMP} \cup UndocJMP \cup Jcc
                    \cup {CALL} \cup UndocCALL \cup Ccc
                    \cup {RET} \cup UndocRET \cup PopR \cup Rcc
                    \cup RST \cup PushR \cup {XTHL}
                    \cup MVI \cup AluI \cup InOut \cup {MVIM} \cup {LHLD}
                    \cup {STA} \cup {LDA} \cup ReadM \cup StoreM
                    \cup {INRM} \cup {DCRM}
        /\ Length(op) = 3
    BY <1>11 DEF Length,
       LXI, MVI, MVIM, AluI, InOut, SHLD, LHLD, STA, LDA, Jcc, Ccc, Rcc, JMP,
       CALL, RET, RST, PopR, PushR, XTHL, HLT, StoreM, ReadM, INRM, DCRM,
       UndocJMP, UndocCALL, UndocRET, Column
  <2>2. q = Word(FALSE) \o <<Write(FALSE), Write(FALSE)>> /\ Length(op) = 3
    BY <1>11, <2>1 DEF Accesses
  <2> QED BY <2>2, DirectShape
<1>12. CASE op = LHLD
  <2>1. /\ op \notin LXI \cup {JMP} \cup UndocJMP \cup Jcc
                    \cup {CALL} \cup UndocCALL \cup Ccc
                    \cup {RET} \cup UndocRET \cup PopR \cup Rcc
                    \cup RST \cup PushR \cup {XTHL}
                    \cup MVI \cup AluI \cup InOut \cup {MVIM} \cup {SHLD}
                    \cup {STA} \cup {LDA} \cup ReadM \cup StoreM
                    \cup {INRM} \cup {DCRM}
        /\ Length(op) = 3
    BY <1>12 DEF Length,
       LXI, MVI, MVIM, AluI, InOut, SHLD, LHLD, STA, LDA, Jcc, Ccc, Rcc, JMP,
       CALL, RET, RST, PopR, PushR, XTHL, HLT, StoreM, ReadM, INRM, DCRM,
       UndocJMP, UndocCALL, UndocRET, Column
  <2>2. q = Word(FALSE) \o <<Read(FALSE), Read(FALSE)>> /\ Length(op) = 3
    BY <1>12, <2>1 DEF Accesses
  <2> QED BY <2>2, DirectShape
<1>13. CASE op = STA
  <2>1. /\ op \notin LXI \cup {JMP} \cup UndocJMP \cup Jcc
                    \cup {CALL} \cup UndocCALL \cup Ccc
                    \cup {RET} \cup UndocRET \cup PopR \cup Rcc
                    \cup RST \cup PushR \cup {XTHL}
                    \cup MVI \cup AluI \cup InOut \cup {MVIM} \cup {SHLD}
                    \cup {LHLD} \cup {LDA} \cup ReadM \cup StoreM
                    \cup {INRM} \cup {DCRM}
        /\ Length(op) = 3
    BY <1>13 DEF Length,
       LXI, MVI, MVIM, AluI, InOut, SHLD, LHLD, STA, LDA, Jcc, Ccc, Rcc, JMP,
       CALL, RET, RST, PopR, PushR, XTHL, HLT, StoreM, ReadM, INRM, DCRM,
       UndocJMP, UndocCALL, UndocRET, Column
  <2>2. q = Word(FALSE) \o <<Write(FALSE)>> /\ Length(op) = 3
    BY <1>13, <2>1 DEF Accesses
  <2> QED BY <2>2, DirectShape
<1>14. CASE op = LDA
  <2>1. /\ op \notin LXI \cup {JMP} \cup UndocJMP \cup Jcc
                    \cup {CALL} \cup UndocCALL \cup Ccc
                    \cup {RET} \cup UndocRET \cup PopR \cup Rcc
                    \cup RST \cup PushR \cup {XTHL}
                    \cup MVI \cup AluI \cup InOut \cup {MVIM} \cup {SHLD}
                    \cup {LHLD} \cup {STA} \cup ReadM \cup StoreM
                    \cup {INRM} \cup {DCRM}
        /\ Length(op) = 3
    BY <1>14 DEF Length,
       LXI, MVI, MVIM, AluI, InOut, SHLD, LHLD, STA, LDA, Jcc, Ccc, Rcc, JMP,
       CALL, RET, RST, PopR, PushR, XTHL, HLT, StoreM, ReadM, INRM, DCRM,
       UndocJMP, UndocCALL, UndocRET, Column
  <2>2. q = Word(FALSE) \o <<Read(FALSE)>> /\ Length(op) = 3
    BY <1>14, <2>1 DEF Accesses
  <2> QED BY <2>2, DirectShape
<1>15. CASE op \in ReadM
  <2>1. /\ op \notin LXI \cup {JMP} \cup UndocJMP \cup Jcc
                    \cup {CALL} \cup UndocCALL \cup Ccc
                    \cup {RET} \cup UndocRET \cup PopR \cup Rcc
                    \cup RST \cup PushR \cup {XTHL}
                    \cup MVI \cup AluI \cup InOut \cup {MVIM} \cup {SHLD}
                    \cup {LHLD} \cup {STA} \cup {LDA} \cup StoreM
                    \cup {INRM} \cup {DCRM}
        /\ Length(op) = 1
    BY <1>15 DEF Length,
       LXI, MVI, MVIM, AluI, InOut, SHLD, LHLD, STA, LDA, Jcc, Ccc, Rcc, JMP,
       CALL, RET, RST, PopR, PushR, XTHL, HLT, StoreM, ReadM, INRM, DCRM,
       UndocJMP, UndocCALL, UndocRET, Column
  <2>2. q = <<Read(FALSE)>> /\ Length(op) = 1
    BY <1>15, <2>1 DEF Accesses
  <2> QED BY <2>2, DataShape
<1>16. CASE op \in StoreM
  <2>1. /\ op \notin LXI \cup {JMP} \cup UndocJMP \cup Jcc
                    \cup {CALL} \cup UndocCALL \cup Ccc
                    \cup {RET} \cup UndocRET \cup PopR \cup Rcc
                    \cup RST \cup PushR \cup {XTHL}
                    \cup MVI \cup AluI \cup InOut \cup {MVIM} \cup {SHLD}
                    \cup {LHLD} \cup {STA} \cup {LDA} \cup ReadM
                    \cup {INRM} \cup {DCRM}
        /\ Length(op) = 1
    BY <1>16 DEF Length,
       LXI, MVI, MVIM, AluI, InOut, SHLD, LHLD, STA, LDA, Jcc, Ccc, Rcc, JMP,
       CALL, RET, RST, PopR, PushR, XTHL, HLT, StoreM, ReadM, INRM, DCRM,
       UndocJMP, UndocCALL, UndocRET, Column
  <2>2. q = <<Write(FALSE)>> /\ Length(op) = 1
    BY <1>16, <2>1 DEF Accesses
  <2> QED BY <2>2, DataShape
<1>17. CASE op = INRM
  <2>1. /\ op \notin LXI \cup {JMP} \cup UndocJMP \cup Jcc
                    \cup {CALL} \cup UndocCALL \cup Ccc
                    \cup {RET} \cup UndocRET \cup PopR \cup Rcc
                    \cup RST \cup PushR \cup {XTHL}
                    \cup MVI \cup AluI \cup InOut \cup {MVIM} \cup {SHLD}
                    \cup {LHLD} \cup {STA} \cup {LDA} \cup ReadM
                    \cup StoreM \cup {DCRM}
        /\ Length(op) = 1
    BY <1>17 DEF Length,
       LXI, MVI, MVIM, AluI, InOut, SHLD, LHLD, STA, LDA, Jcc, Ccc, Rcc, JMP,
       CALL, RET, RST, PopR, PushR, XTHL, HLT, StoreM, ReadM, INRM, DCRM,
       UndocJMP, UndocCALL, UndocRET, Column
  <2>2. q = <<Read(FALSE), Write(FALSE)>> /\ Length(op) = 1
    BY <1>17, <2>1 DEF Accesses
  <2> QED BY <2>2, DataShape
<1>18. CASE op = DCRM
  <2>1. /\ op \notin LXI \cup {JMP} \cup UndocJMP \cup Jcc
                    \cup {CALL} \cup UndocCALL \cup Ccc
                    \cup {RET} \cup UndocRET \cup PopR \cup Rcc
                    \cup RST \cup PushR \cup {XTHL}
                    \cup MVI \cup AluI \cup InOut \cup {MVIM} \cup {SHLD}
                    \cup {LHLD} \cup {STA} \cup {LDA} \cup ReadM
                    \cup StoreM \cup {INRM}
        /\ Length(op) = 1
    BY <1>18 DEF Length,
       LXI, MVI, MVIM, AluI, InOut, SHLD, LHLD, STA, LDA, Jcc, Ccc, Rcc, JMP,
       CALL, RET, RST, PopR, PushR, XTHL, HLT, StoreM, ReadM, INRM, DCRM,
       UndocJMP, UndocCALL, UndocRET, Column
  <2>2. q = <<Read(FALSE), Read(FALSE), Write(FALSE)>> /\ Length(op) = 1
    BY <1>18, <2>1 DEF Accesses
  <2> QED BY <2>2, DataShape
<1>19. CASE op \notin LXI \cup {JMP} \cup UndocJMP \cup Jcc
                 \cup {CALL} \cup UndocCALL \cup Ccc
                 \cup {RET} \cup UndocRET \cup PopR \cup Rcc
                 \cup RST \cup PushR \cup {XTHL}
                 \cup MVI \cup AluI \cup InOut \cup {MVIM} \cup {SHLD}
                 \cup {LHLD} \cup {STA} \cup {LDA} \cup ReadM
                 \cup StoreM \cup {INRM} \cup {DCRM}
  <2>1. q = <<>>
    BY <1>19 DEF Accesses
  <2>2. Length(op) = 1
    BY <1>19 DEF Length,
       LXI, MVI, MVIM, AluI, InOut, SHLD, LHLD, STA, LDA, Jcc, Ccc, Rcc, JMP,
       CALL, RET, RST, PopR, PushR, XTHL, HLT, StoreM, ReadM, INRM, DCRM,
       UndocJMP, UndocCALL, UndocRET, Column
  <2> QED BY <2>1, <2>2, EmptyShape
<1> QED
  BY <1>1, <1>2, <1>3, <1>4, <1>5, <1>6, <1>7, <1>8, <1>9, <1>10,
     <1>11, <1>12, <1>13, <1>14, <1>15, <1>16, <1>17, <1>18, <1>19

-----------------------------------------------------------------------------
(* The window and the addresses *)

\* What is left after the first access.
LEMMA TailFacts ==
    ASSUME NEW q \in Seq(AccessRecords), q # <<>>
    PROVE  \E m \in Nat :
             /\ m + 1 = Len(q) /\ Len(Tail(q)) = m /\ Tail(q) \in Seq(AccessRecords)
             /\ \A i \in 1..m : Tail(q)[i] = q[i + 1]
             /\ Head(q) = q[1] /\ Head(q) \in AccessRecords
<1>1. PICK m \in Nat : m + 1 = Len(q)
  <2>1. Len(q) \in Nat /\ Len(q) # 0
    OBVIOUS
  <2> QED BY <2>1
<1>2. Len(Tail(q)) = m /\ Tail(q) \in Seq(AccessRecords)
  BY <1>1
<1>3. \A i \in 1..m : Tail(q)[i] = q[i + 1]
  BY <1>1
<1>4. Head(q) = q[1] /\ Head(q) \in AccessRecords
  BY <1>1
<1> QED BY <1>1, <1>2, <1>3, <1>4

\* What an access that is expected tells of the window, and what is expected
\* after it.
LEMMA ExpectsNext ==
    ASSUME NEW q \in Seq(AccessRecords), q # <<>>, NEW n \in 0..3, Expects(q, n)
    PROVE  /\ Head(q).kind = "Fetch" => n > 0 /\ Expects(Tail(q), n - 1)
           /\ Head(q).kind = "Read" => n = 0 /\ Expects(Tail(q), 0)
           /\ Head(q).kind = "Write" => Expects(Tail(q), n)
<1>1. PICK m \in Nat :
        /\ m + 1 = Len(q) /\ Len(Tail(q)) = m /\ Tail(q) \in Seq(AccessRecords)
        /\ \A i \in 1..m : Tail(q)[i] = q[i + 1]
        /\ Head(q) = q[1] /\ Head(q) \in AccessRecords
  BY TailFacts
<1>2. PICK k \in 0..(m + 1) :
        /\ k + n <= m + 1
        /\ \A i \in 1..(m + 1) :
              /\ i <= k => q[i].kind = "Write"
              /\ k < i /\ i <= k + n => q[i].kind = "Fetch"
              /\ k + n < i => q[i].kind # "Fetch"
  BY <1>1, Zenon DEF Expects
<1> DEFINE Shape(j, l) ==
        /\ j + l <= m
        /\ \A i \in 1..m :
              /\ i <= j => q[i + 1].kind = "Write"
              /\ j < i /\ i <= j + l => q[i + 1].kind = "Fetch"
              /\ j + l < i => q[i + 1].kind # "Fetch"
<1>3. \A j \in 0..m, l \in 0..3 : Shape(j, l) => Expects(Tail(q), l)
  <2> SUFFICES ASSUME NEW j \in 0..m, NEW l \in 0..3, Shape(j, l)
               PROVE  Expects(Tail(q), l)
    OBVIOUS
  <2>1. PICK t : t = Tail(q)
    OBVIOUS
  <2>2. /\ j \in 0..Len(t) /\ j + l <= Len(t)
        /\ \A i \in 1..Len(t) :
              /\ i <= j => t[i].kind = "Write"
              /\ j < i /\ i <= j + l => t[i].kind = "Fetch"
              /\ j + l < i => t[i].kind # "Fetch"
    BY <1>1, <2>1, Zenon
  <2> QED BY <2>1, <2>2, Zenon DEF Expects
<1> DEFINE h == q[1].kind
<1>4. /\ 1 <= k => h = "Write"
      /\ k < 1 /\ 1 <= k + n => h = "Fetch"
      /\ k + n < 1 => h # "Fetch"
  BY <1>2
<1>5. "Write" # "Fetch" /\ "Read" # "Fetch" /\ "Read" # "Write"
  OBVIOUS
<1> HIDE DEF h
<1>6. ASSUME h = "Fetch" PROVE n > 0 /\ Expects(Tail(q), n - 1)
  <2>1. k = 0 /\ n >= 1
    BY <1>4, <1>5, <1>6
  <2>2. n - 1 \in 0..3 /\ 0 \in 0..m
    BY <2>1
  <2>3. Shape(0, n - 1)
    BY <1>2, <2>1
  <2>4. n > 0
    BY <2>1
  <2> HIDE DEF Shape
  <2> QED BY <1>3, <2>2, <2>3, <2>4, Zenon
<1>7. ASSUME h = "Read" PROVE n = 0 /\ Expects(Tail(q), 0)
  <2>1. k = 0 /\ n = 0
    BY <1>4, <1>5, <1>7
  <2>2. 0 \in 0..3 /\ 0 \in 0..m
    OBVIOUS
  <2>3. Shape(0, 0)
    BY <1>2, <2>1
  <2> QED BY <1>3, <2>1, <2>2, <2>3
<1>8. ASSUME h = "Write" PROVE Expects(Tail(q), n)
  <2>1. CASE k >= 1
    <3>1. k - 1 \in 0..m
      BY <2>1
    <3>2. Shape(k - 1, n)
      BY <1>2, <2>1
    <3> QED BY <1>3, <3>1, <3>2
  <2>2. CASE k = 0
    <3>1. n = 0
      BY <1>4, <1>5, <1>8, <2>2
    <3>2. Shape(0, 0)
      BY <1>2, <2>2, <3>1
    <3> QED BY <1>3, <3>1, <3>2
  <2> QED BY <2>1, <2>2
<1> QED BY <1>1, <1>6, <1>7, <1>8, Zenon DEF h

\* Addresses are told apart by their successors, the last one included.
LEMMA WrapInjective ==
    ASSUME NEW a \in Addr, NEW b \in Addr, Wrap(a + 1) = Wrap(b + 1)
    PROVE  a = b
<1>1. Top \in Nat \ {0}
  BY AccountingAssumption
<1>2. \A x \in Addr : Wrap(x + 1) = IF x + 1 = Top THEN 0 ELSE x + 1
  BY <1>1, SMT DEF Addr, Wrap
<1> QED BY <1>1, <1>2 DEF Addr

\* Addresses wrap.
LEMMA WrapTyped ==
    ASSUME NEW a \in Int PROVE Wrap(a) \in Addr
BY AccountingAssumption, SMT DEF Wrap, Addr

-----------------------------------------------------------------------------
(* The inductive invariant *)

\* The values of the variables.
AcTyped ==
    /\ mem \in Programs
    /\ pc \in Addr /\ cur \in Addr /\ base \in Addr /\ remaining \in 0..3
    /\ seq \in Nat /\ todo \in Seq(AccessRecords)
    /\ phase \in {"between", "armed", "inside"}
    /\ stepping \in BOOLEAN /\ started \in BOOLEAN /\ misled \in BOOLEAN /\ off \in BOOLEAN
    /\ execs \in [Addr -> Nat] /\ truth \in [Addr -> Nat]
    /\ last.num \in Nat /\ last.step \in BOOLEAN

\* The window: closed between instructions, as long as the instruction when a
\* step begins, and inside one as long as the operand bytes that are left.
Window ==
    /\ phase = "between" => ~stepping /\ (~misled => remaining = 0)
    /\ phase = "armed" => stepping /\ base = pc /\ remaining = Length(mem[pc]) /\ ~misled
    /\ phase = "inside" /\ ~misled => base = cur /\ Expects(todo, remaining)

\* The counters: a step counts its instruction when it ends.
Counted ==
    /\ misled /\ ~stepping => off
    /\ ~off => execs = IF phase = "inside" /\ stepping
                       THEN [truth EXCEPT ![cur] = @ - 1] ELSE truth
    /\ phase = "inside" => truth[cur] > 0

\* The numbers.
Numbered ==
    /\ last.num <= seq
    /\ phase # "inside" /\ last.step => last.num < seq
    /\ phase = "inside" => last.num = seq /\ last.step = stepping

AcInv == AcTyped /\ Window /\ AccessesClassified /\ Counted /\ Numbered

\* onMemoryRead() as the rest of the proof sees it: the byte starts an
\* instruction, continues one, or is data.
ReadOutcome(virt, stack, pcNow, kind, who) ==
    /\ last'.kind = kind /\ last'.by = who /\ last'.step = stepping
    /\ last'.base = base' /\ last'.num = seq'
    /\ seq' \in Nat /\ seq <= seq' /\ started' \in BOOLEAN
    /\ execs' \in [Addr -> Nat] /\ base' \in Addr /\ remaining' \in 0..3
    /\ StartsInstruction(virt, stack, pcNow) =>
          /\ base' = virt /\ remaining' = Length(mem[virt]) - 1
          /\ last'.type = "Fetch" /\ execs' = [execs EXCEPT ![virt] = @ + 1]
          /\ started => seq' = seq + 1
    /\ ~StartsInstruction(virt, stack, pcNow) =>
          /\ base' = base /\ execs' = execs /\ seq' = seq
          /\ remaining > 0 => remaining' = remaining - 1 /\ last'.type = "Fetch"
          /\ remaining = 0 => remaining' = 0 /\ last'.type = "Read"

\* A byte of memory is an opcode, with a length.
LEMMA Bytes ==
    ASSUME AcTyped, NEW a \in Addr
    PROVE  mem[a] \in 0..255 /\ Length(mem[a]) \in 1..3
<1>1. mem \in [Addr -> 0..255]
  BY AccountingAssumption, Zenon DEF AcTyped, Addr
<1>2. mem[a] \in 0..255
  BY <1>1
<1>3. \A op \in 0..255 : Length(op) \in 1..3
  BY DEF Length
<1> QED BY <1>2, <1>3

\* onMemoryRead() has that outcome.
LEMMA ReadHook ==
    ASSUME AcTyped, NEW virt \in Addr, NEW stack, NEW pcNow, NEW kind, NEW who,
           OnMemoryRead(virt, stack, pcNow, kind, who)
    PROVE  ReadOutcome(virt, stack, pcNow, kind, who)
<1> DEFINE start == StartsInstruction(virt, stack, pcNow)
<1>1. Length(mem[virt]) \in 1..3
  BY Bytes, Zenon DEF AcTyped
<1>2. /\ last'.kind = kind /\ last'.by = who /\ last'.step = stepping
      /\ last'.base = base' /\ last'.num = seq'
  BY DEF OnMemoryRead, Event
<1>3. CASE start
  <2>1. /\ base' = virt /\ execs' = [execs EXCEPT ![virt] = @ + 1]
        /\ seq' = (IF started THEN seq + 1 ELSE seq) /\ started' = TRUE
    BY <1>3 DEF OnMemoryRead
  <2>2. remaining' = Length(mem[virt]) - 1 /\ last'.type = "Fetch"
    BY <1>1, <1>3 DEF OnMemoryRead, Event
  <2>3. /\ execs' \in [Addr -> Nat] /\ seq' \in Nat /\ seq <= seq'
        /\ started => seq' = seq + 1
    BY <2>1 DEF AcTyped
  <2>4. remaining' \in 0..3
    BY <1>1, <2>2
  <2> QED BY <1>2, <1>3, <2>1, <2>2, <2>3, <2>4, Zenon DEF ReadOutcome
<1>4. CASE ~start
  <2>1. base' = base /\ execs' = execs /\ seq' = seq /\ started' \in BOOLEAN
    BY <1>4 DEF OnMemoryRead, AcTyped
  <2>2. /\ remaining > 0 => remaining' = remaining - 1 /\ last'.type = "Fetch"
        /\ remaining = 0 => remaining' = 0 /\ last'.type = "Read"
    BY <1>4 DEF OnMemoryRead, Event, AcTyped
  <2>3. remaining' \in 0..3 /\ seq <= seq'
    BY <2>1, <2>2 DEF AcTyped
  <2> QED BY <1>2, <1>4, <2>1, <2>2, <2>3, Zenon DEF ReadOutcome, AcTyped
<1> QED BY <1>3, <1>4

-----------------------------------------------------------------------------
(* Every step keeps the invariant *)

\* Fetch opens the window of the instruction, or finds it open in a step.
LEMMA FetchKeeps ==
    ASSUME AcInv, Fetch PROVE AcInv'
<1> USE DEF AcInv
<1>1. PICK taken \in BOOLEAN :
        /\ todo' = Accesses(mem[pc], taken)
        /\ misled' = (misled \/ Misleading(mem[pc], taken))
        /\ off' = (off \/ (~stepping /\ misled'))
        /\ pc' \in IF Jumps(mem[pc], taken) THEN Targets
                   ELSE {Wrap(pc + Advance(mem[pc]))}
  BY Zenon DEF Fetch
<1>2. /\ cur' = pc /\ phase' = "inside" /\ mem' = mem /\ stepping' = stepping
      /\ phase \in {"between", "armed"} /\ truth' = [truth EXCEPT ![pc] = @ + 1]
      /\ OnMemoryRead(pc, FALSE, Wrap(pc + 1), "Fetch", pc)
  BY Zenon DEF Fetch
<1>3. ReadOutcome(pc, FALSE, Wrap(pc + 1), "Fetch", pc)
  BY <1>2, ReadHook, Zenon DEF AcTyped
<1>4. mem[pc] \in 0..255 /\ Length(mem[pc]) \in 1..3
  BY Bytes, Zenon DEF AcTyped
<1>5. /\ todo' \in Seq(AccessRecords)
      /\ ~Misleading(mem[pc], taken) => Expects(todo', Length(mem[pc]) - 1)
  BY <1>1, <1>4, AccessesFollow, Zenon
<1>6. pc' \in Addr
  <2>1. Advance(mem[pc]) \in 0..3
    BY DEF Advance
  <2>2. Wrap(pc + Advance(mem[pc])) \in Addr
    <3>1. pc + Advance(mem[pc]) \in Int
      BY <2>1 DEF AcTyped, Addr
    <3> QED BY <3>1, WrapTyped, Zenon
  <2>3. Targets \subseteq Addr
    BY AccountingAssumption DEF Addr
  <2> QED BY <1>1, <2>2, <2>3
<1>7. ~misled' => ~misled /\ ~Misleading(mem[pc], taken)
  BY <1>1
<1>8. misled' \in BOOLEAN /\ off' \in BOOLEAN
  BY <1>1 DEF AcTyped, Misleading
<1>9. AcTyped'
  <2>1. truth' \in [Addr -> Nat]
    BY <1>2 DEF AcTyped
  <2>2. last'.num \in Nat /\ last'.step \in BOOLEAN
    BY <1>3 DEF ReadOutcome, AcTyped
  <2>3. /\ seq' \in Nat /\ started' \in BOOLEAN /\ execs' \in [Addr -> Nat]
        /\ base' \in Addr /\ remaining' \in 0..3
    BY <1>3, Zenon DEF ReadOutcome
  <2>4. /\ mem' \in Programs /\ cur' \in Addr
        /\ phase' \in {"between", "armed", "inside"} /\ stepping' \in BOOLEAN
    BY <1>2 DEF AcTyped
  <2> QED BY <1>5, <1>6, <1>8, <2>1, <2>2, <2>3, <2>4, Zenon DEF AcTyped
<1>10. ~misled' => /\ base' = pc /\ remaining' = Length(mem[pc]) - 1
                   /\ last'.type = "Fetch"
  <2> SUFFICES ASSUME ~misled' PROVE /\ base' = pc /\ remaining' = Length(mem[pc]) - 1
                                     /\ last'.type = "Fetch"
    OBVIOUS
  <2>1. CASE phase = "between"
    <3>1. StartsInstruction(pc, FALSE, Wrap(pc + 1))
      BY <1>7, <2>1 DEF Window, StartsInstruction
    <3> QED BY <1>3, <3>1, Zenon DEF ReadOutcome
  <2>2. CASE phase = "armed"
    <3>1. ~StartsInstruction(pc, FALSE, Wrap(pc + 1)) /\ base = pc
          /\ remaining = Length(mem[pc])
      BY <2>2 DEF Window, StartsInstruction
    <3>2. remaining > 0
      BY <1>4, <3>1
    <3> QED BY <1>3, <3>1, <3>2, Zenon DEF ReadOutcome
  <2> QED BY <1>2, <2>1, <2>2
<1>11. Window'
  <2>1. ~misled' => base' = cur' /\ Expects(todo', remaining')
    BY <1>2, <1>5, <1>7, <1>10
  <2>2. Expects(todo, remaining)' <=> Expects(todo', remaining')
    BY DEF Expects
  <2>3. phase' # "between" /\ phase' # "armed"
    BY <1>2
  <2> QED BY <2>1, <2>2, <2>3, Zenon DEF Window
<1>12. AccessesClassified'
  <2>1. last'.kind = "Fetch" /\ last'.by = pc /\ last'.base = base'
    BY <1>3, Zenon DEF ReadOutcome
  <2> QED BY <1>10, <2>1, Zenon DEF AccessesClassified
<1>13. Counted'
  <2>1. misled' /\ ~stepping' => off'
    BY <1>1, <1>2, Zenon
  <2>2. truth'[cur'] > 0
    BY <1>2 DEF AcTyped
  <2>3. ASSUME ~off'
        PROVE  execs' = IF stepping' THEN [truth' EXCEPT ![cur'] = @ - 1] ELSE truth'
    <3>1. ~off /\ (~stepping => ~misled')
      BY <1>1, <2>3, Zenon
    <3>2. execs = truth
      BY <1>2, <3>1 DEF Counted
    <3>3. CASE stepping
      <4>1. ~StartsInstruction(pc, FALSE, Wrap(pc + 1))
        BY <3>3, Zenon DEF StartsInstruction
      <4>2. execs' = execs
        BY <1>3, <4>1, Zenon DEF ReadOutcome
      <4>3. [truth' EXCEPT ![pc] = @ - 1] = truth
        <5>1. PICK f \in [Addr -> Nat] : f = truth
          BY DEF AcTyped
        <5>2. pc \in Addr
          BY DEF AcTyped
        <5>3. [[f EXCEPT ![pc] = @ + 1] EXCEPT ![pc] = @ - 1] = f
          <6> DEFINE g == [f EXCEPT ![pc] = @ + 1]
          <6>1. /\ g \in [Addr -> Nat] /\ g[pc] = f[pc] + 1
                /\ \A x \in Addr : x # pc => g[x] = f[x]
            BY <5>1, <5>2
          <6> HIDE DEF g
          <6>2. \A x \in Addr : [g EXCEPT ![pc] = @ - 1][x] = f[x]
            BY <5>1, <5>2, <6>1
          <6>3. [g EXCEPT ![pc] = @ - 1] = f
            BY <5>1, <6>1, <6>2
          <6> QED BY <6>3 DEF g
        <5> QED BY <1>2, <5>1, <5>3, Zenon
      <4> QED BY <1>2, <3>2, <3>3, <4>2, <4>3, Zenon
    <3>4. CASE ~stepping
      <4>1. phase = "between" /\ ~misled
        BY <1>2, <1>7, <3>1, <3>4, Zenon DEF Window
      <4>2. StartsInstruction(pc, FALSE, Wrap(pc + 1))
        BY <3>4, <4>1 DEF StartsInstruction, Window
      <4>3. execs' = [execs EXCEPT ![pc] = @ + 1]
        BY <1>3, <4>2, Zenon DEF ReadOutcome
      <4> QED BY <1>2, <3>2, <3>4, <4>3, Zenon
    <3> QED BY <3>3, <3>4
  <2> QED BY <1>2, <2>1, <2>2, <2>3, Zenon DEF Counted
<1>14. Numbered'
  <2>1. last'.num = seq' /\ last'.step = stepping' /\ seq' \in Nat
    BY <1>2, <1>3, Zenon DEF ReadOutcome
  <2>2. last'.num <= seq'
    BY <2>1
  <2> QED BY <1>2, <2>1, <2>2, Zenon DEF Numbered
<1> QED BY <1>9, <1>11, <1>12, <1>13, <1>14, Zenon DEF AcInv

\* What the window does in an access of an instruction it has not lost.
LEMMA AccessInWindow ==
    ASSUME AcInv, Access, ~misled'
    PROVE  /\ ~misled /\ base' = base /\ execs' = execs /\ seq' = seq
           /\ last'.type = last'.kind /\ last'.base = cur /\ last'.by = cur
           /\ Expects(Tail(todo), remaining')
<1> USE DEF AcInv
<1>1. PICK a : a = Head(todo)
  OBVIOUS
<1>2. PICK virt \in IF a.at = Data THEN DataAddrs ELSE {Wrap(cur + a.at)} :
        IF a.kind = "Write"
          THEN OnMemoryWrite(virt, cur) /\ UNCHANGED <<misled, off>>
          ELSE /\ OnMemoryRead(virt, a.stack, Wrap(cur + a.pc), a.kind, cur)
               /\ misled' = (misled \/ (a.kind = "Read" /\ ~a.stack /\ virt = cur /\ ~stepping))
               /\ off' = (off \/ (~stepping /\ misled'))
  BY <1>1, Zenon DEF Access
<1>3. ~misled
  BY <1>2
<1>4. /\ todo \in Seq(AccessRecords) /\ todo # <<>> /\ phase = "inside"
      /\ base = cur /\ Expects(todo, remaining) /\ remaining \in 0..3
  BY <1>3, Zenon DEF Access, Window, AcTyped
<1>5. a \in AccessRecords
  BY <1>1, <1>4, TailFacts, Zenon
<1>6. /\ a.kind = "Fetch" => remaining > 0 /\ Expects(Tail(todo), remaining - 1)
      /\ a.kind = "Read" => remaining = 0 /\ Expects(Tail(todo), 0)
      /\ a.kind = "Write" => Expects(Tail(todo), remaining)
  BY <1>1, <1>4, ExpectsNext, Zenon
<1>7. virt \in Addr
  <2>1. cur + a.at \in Int
    BY <1>5 DEF AccessRecords, AcTyped, Addr
  <2>2. Wrap(cur + a.at) \in Addr
    BY <2>1, WrapTyped, Zenon
  <2>3. DataAddrs \subseteq Addr
    BY AccountingAssumption DEF Addr
  <2> QED BY <1>2, <2>2, <2>3
<1>8. CASE a.kind = "Write"
  <2>1. OnMemoryWrite(virt, cur)
    BY <1>2, <1>8, Zenon
  <2>2. /\ last'.type = "Write" /\ last'.kind = "Write"
        /\ last'.base = base /\ last'.by = cur
        /\ base' = base /\ execs' = execs /\ seq' = seq /\ remaining' = remaining
    BY <2>1 DEF OnMemoryWrite, Event
  <2> QED BY <1>3, <1>4, <1>6, <1>8, <2>2
<1>9. CASE a.kind \in {"Fetch", "Read"}
  <2>1. /\ OnMemoryRead(virt, a.stack, Wrap(cur + a.pc), a.kind, cur)
        /\ ~(a.kind = "Read" /\ ~a.stack /\ virt = cur /\ ~stepping)
    BY <1>2, <1>9
  <2>2. ReadOutcome(virt, a.stack, Wrap(cur + a.pc), a.kind, cur)
    BY <1>7, <2>1, ReadHook, Zenon
  <2>3. ~StartsInstruction(virt, a.stack, Wrap(cur + a.pc))
    <3>1. CASE a.kind = "Fetch"
      <4>1. remaining # 0
        BY <1>4, <1>6, <3>1
      <4> QED BY <4>1, Zenon DEF StartsInstruction
    <3>2. CASE a.kind = "Read"
      <4>1. a.pc = 1
        BY <1>5, <3>2 DEF AccessRecords
      <4>2. SUFFICES ASSUME StartsInstruction(virt, a.stack, Wrap(cur + 1)) PROVE FALSE
        BY <4>1
      <4>3. ~stepping /\ ~a.stack /\ Wrap(virt + 1) = Wrap(cur + 1)
        BY <4>2, Zenon DEF StartsInstruction
      <4>4. cur \in Addr
        BY DEF AcTyped
      <4>5. virt = cur
        BY <1>7, <4>3, <4>4, WrapInjective, Zenon
      <4> QED BY <2>1, <3>2, <4>3, <4>5, Zenon
    <3> QED BY <1>9, <3>1, <3>2
  <2>4. /\ base' = base /\ execs' = execs /\ seq' = seq
        /\ last'.kind = a.kind /\ last'.by = cur /\ last'.base = base'
        /\ remaining > 0 => remaining' = remaining - 1 /\ last'.type = "Fetch"
        /\ remaining = 0 => remaining' = 0 /\ last'.type = "Read"
    BY <2>2, <2>3, Zenon DEF ReadOutcome
  <2> QED BY <1>3, <1>4, <1>6, <1>9, <2>4
<1>10. a.kind \in {"Fetch", "Read", "Write"}
  BY <1>5 DEF AccessRecords, Kinds
<1> QED BY <1>8, <1>9, <1>10

\* Access: whatever becomes of the window, a lost one is remembered.
LEMMA AccessKeeps ==
    ASSUME AcInv, Access PROVE AcInv'
<1> USE DEF AcInv
<1>1. PICK a : a = Head(todo)
  OBVIOUS
<1>2. PICK virt \in IF a.at = Data THEN DataAddrs ELSE {Wrap(cur + a.at)} :
        IF a.kind = "Write"
          THEN OnMemoryWrite(virt, cur) /\ UNCHANGED <<misled, off>>
          ELSE /\ OnMemoryRead(virt, a.stack, Wrap(cur + a.pc), a.kind, cur)
               /\ misled' = (misled \/ (a.kind = "Read" /\ ~a.stack /\ virt = cur /\ ~stepping))
               /\ off' = (off \/ (~stepping /\ misled'))
  BY <1>1, Zenon DEF Access
<1>3. /\ todo \in Seq(AccessRecords) /\ todo # <<>> /\ phase = "inside"
      /\ todo' = Tail(todo) /\ mem' = mem /\ pc' = pc /\ cur' = cur /\ phase' = phase
      /\ stepping' = stepping /\ truth' = truth
  BY Zenon DEF Access, AcTyped
<1>4. a \in AccessRecords /\ Tail(todo) \in Seq(AccessRecords)
  BY <1>1, <1>3, TailFacts, Zenon
<1>5. virt \in Addr
  <2>1. cur + a.at \in Int
    BY <1>4 DEF AccessRecords, AcTyped, Addr
  <2>2. Wrap(cur + a.at) \in Addr
    BY <2>1, WrapTyped, Zenon
  <2>3. DataAddrs \subseteq Addr
    BY AccountingAssumption DEF Addr
  <2> QED BY <1>2, <2>2, <2>3
<1>6. /\ base' \in Addr /\ remaining' \in 0..3 /\ seq' \in Nat /\ started' \in BOOLEAN
      /\ execs' \in [Addr -> Nat] /\ last'.num = seq' /\ last'.step = stepping
      /\ misled' \in BOOLEAN /\ off' \in BOOLEAN
      /\ misled' /\ ~stepping => off'
      /\ ~off' => ~off /\ execs' = execs
  <2>1. CASE a.kind = "Write"
    <3>1. OnMemoryWrite(virt, cur) /\ misled' = misled /\ off' = off
      BY <1>2, <2>1, Zenon
    <3>2. last'.num = seq /\ last'.step = stepping
      BY <3>1 DEF OnMemoryWrite, Event
    <3>3. /\ base' = base /\ remaining' = remaining /\ seq' = seq /\ started' = started
          /\ execs' = execs
      BY <3>1, Zenon DEF OnMemoryWrite
    <3> QED BY <3>1, <3>2, <3>3, Zenon DEF AcTyped, Counted
  <2>2. CASE a.kind # "Write"
    <3>1. /\ OnMemoryRead(virt, a.stack, Wrap(cur + a.pc), a.kind, cur)
          /\ misled' = (misled \/ (a.kind = "Read" /\ ~a.stack /\ virt = cur /\ ~stepping))
          /\ off' = (off \/ (~stepping /\ misled'))
      BY <1>2, <2>2, Zenon
    <3>2. ReadOutcome(virt, a.stack, Wrap(cur + a.pc), a.kind, cur)
      BY <1>5, <3>1, ReadHook, Zenon
    <3>3. misled' \in BOOLEAN /\ off' \in BOOLEAN /\ (misled' /\ ~stepping => off')
      BY <3>1 DEF AcTyped
    <3>4. ASSUME ~off' PROVE ~off /\ execs' = execs
      <4>1. ~off /\ (~stepping => ~misled')
        BY <3>1, <3>4, Zenon
      <4>2. CASE stepping
        <5>1. ~StartsInstruction(virt, a.stack, Wrap(cur + a.pc))
          BY <4>2, Zenon DEF StartsInstruction
        <5> QED BY <3>2, <4>1, <5>1, Zenon DEF ReadOutcome
      <4>3. CASE ~stepping
        BY <4>1, <4>3, AccessInWindow, Zenon
      <4> QED BY <4>2, <4>3
    <3> QED BY <3>2, <3>3, <3>4, Zenon DEF ReadOutcome
  <2> QED BY <2>1, <2>2
<1>7. AcTyped'
  <2>1. last'.num \in Nat /\ last'.step \in BOOLEAN
    BY <1>6 DEF AcTyped
  <2>2. todo' \in Seq(AccessRecords)
    BY <1>3, <1>4, Zenon
  <2> QED BY <1>3, <1>6, <2>1, <2>2, Zenon DEF AcTyped
<1>8. Window'
  <2>1. ~misled' => base' = cur' /\ Expects(todo', remaining')
    <3>1. ~misled' => /\ ~misled /\ base' = base /\ Expects(Tail(todo), remaining')
      BY AccessInWindow, Zenon
    <3>2. ~misled => base = cur
      BY <1>3 DEF Window
    <3> QED BY <1>3, <3>1, <3>2, Zenon
  <2>2. Expects(todo, remaining)' <=> Expects(todo', remaining')
    BY DEF Expects
  <2>3. phase' # "between" /\ phase' # "armed"
    BY <1>3
  <2> QED BY <2>1, <2>2, <2>3, Zenon DEF Window
<1>9. AccessesClassified'
  BY AccessInWindow, Zenon DEF AccessesClassified
<1>10. Counted'
  BY <1>3, <1>6, Zenon DEF Counted
<1>11. Numbered'
  <2>1. last'.num <= seq'
    BY <1>6
  <2> QED BY <1>3, <1>6, <2>1, Zenon DEF Numbered
<1> QED BY <1>7, <1>8, <1>9, <1>10, <1>11, Zenon DEF AcInv

\* NextInstruction: with no access left the window is closed.
LEMMA NextInstructionKeeps ==
    ASSUME AcInv, NextInstruction PROVE AcInv'
<1> USE DEF AcInv, NextInstruction
<1>1. AcTyped'
  BY DEF AcTyped
<1>2. Window'
  <2>1. ~misled => remaining = 0
    <3>1. ~misled => Expects(todo, remaining) /\ todo = <<>>
      BY DEF Window
    <3>2. Expects(<<>>, remaining) => remaining = 0
      BY DEF Expects, AcTyped
    <3> QED BY <3>1, <3>2
  <2> QED BY <2>1 DEF Window
<1>3. AccessesClassified'
  BY DEF AccessesClassified
<1>4. Counted'
  BY DEF Counted
<1>5. Numbered'
  BY DEF Numbered, AcTyped
<1> QED BY <1>1, <1>2, <1>3, <1>4, <1>5

\* Interrupt leaves the window alone.
LEMMA InterruptKeeps ==
    ASSUME AcInv, Interrupt PROVE AcInv'
<1> USE DEF AcInv, Interrupt
<1>1. last'.num = seq /\ last'.step = stepping /\ ~stepping
  BY DEF Event, Window
<1>2. AcTyped'
  BY <1>1, AccountingAssumption DEF AcTyped, Addr
<1>3. Window'
  BY DEF Window
<1>4. AccessesClassified'
  BY DEF AccessesClassified
<1>5. Counted'
  BY DEF Counted
<1>6. Numbered'
  BY <1>1 DEF Numbered, AcTyped
<1> QED BY <1>2, <1>3, <1>4, <1>5, <1>6

\* StepBegin opens the window over the whole instruction.
LEMMA StepBeginKeeps ==
    ASSUME AcInv, StepBegin PROVE AcInv'
<1> USE DEF AcInv, StepBegin
<1>1. Length(mem[pc]) \in 1..3
  BY Bytes, Zenon DEF AcTyped
<1>2. AcTyped'
  <2>1. /\ base' \in Addr /\ remaining' \in 0..3
        /\ phase' \in {"between", "armed", "inside"}
    BY <1>1 DEF AcTyped
  <2> QED BY <2>1, Zenon DEF AcTyped
<1>3. Window'
  BY DEF Window
<1>4. AccessesClassified'
  BY DEF AccessesClassified
<1>5. Counted'
  BY DEF Counted
<1>6. Numbered'
  BY DEF Numbered
<1> QED BY <1>2, <1>3, <1>4, <1>5, <1>6

\* StepEnd counts the instruction that the step has executed.
LEMMA StepEndKeeps ==
    ASSUME AcInv, StepEnd PROVE AcInv'
<1> USE DEF AcInv, StepEnd
<1>1. AcTyped'
  <2>1. /\ remaining' \in 0..3 /\ phase' \in {"between", "armed", "inside"}
        /\ seq' \in Nat /\ execs' \in [Addr -> Nat]
    BY DEF AcTyped
  <2> QED BY <2>1, Zenon DEF AcTyped
<1>2. Window'
  BY DEF Window
<1>3. AccessesClassified'
  BY DEF AccessesClassified
<1>4. Counted'
  <2>1. ~off => execs = [truth EXCEPT ![cur] = @ - 1]
    BY DEF Counted
  <2>2. ~off => execs' = truth'
    BY <2>1 DEF AcTyped
  <2> QED BY <2>2 DEF Counted
<1>5. Numbered'
  BY DEF Numbered, AcTyped
<1> QED BY <1>1, <1>2, <1>3, <1>4, <1>5

\* Reset clears numbers and counters together.
LEMMA ResetKeeps ==
    ASSUME AcInv, Reset PROVE AcInv'
<1> USE DEF AcInv, Reset
<1>1. last'.num = 0 /\ last'.step = FALSE
  BY DEF NoEvent
<1>2. AcTyped'
  <2>1. /\ pc' \in Addr /\ seq' \in Nat
        /\ execs' \in [Addr -> Nat] /\ truth' \in [Addr -> Nat]
    BY AccountingAssumption DEF Addr
  <2>2. 0 \in Nat
    OBVIOUS
  <2>3. last'.num \in Nat /\ last'.step \in BOOLEAN
    BY <1>1, <2>2, Zenon
  <2> QED BY <2>1, <2>3, Zenon DEF AcTyped
<1>3. Window'
  BY DEF Window
<1>4. AccessesClassified'
  BY DEF AccessesClassified
<1>5. Counted'
  BY DEF Counted
<1>6. Numbered'
  BY <1>1 DEF Numbered
<1> QED BY <1>2, <1>3, <1>4, <1>5, <1>6

-----------------------------------------------------------------------------
(* Theorems *)

\* The window of onMemoryRead() follows the CPU until it is misled, the
\* counters and the numbers follow the window, for every program.
THEOREM AccountingInv == Spec => []AcInv
<1>1. Init => AcInv
  <2> SUFFICES ASSUME Init PROVE AcInv
    OBVIOUS
  <2>1. last.num = 0 /\ last.step = FALSE
    BY DEF Init, NoEvent
  <2>2. AcTyped
    <3>1. 0 \in Addr /\ 0 \in 0..3 /\ 0 \in Nat /\ [a \in Addr |-> 0] \in [Addr -> Nat]
      BY AccountingAssumption DEF Addr
    <3>2. <<>> \in Seq(AccessRecords) /\ "between" \in {"between", "armed", "inside"}
      OBVIOUS
    <3> QED BY <2>1, <3>1, <3>2, Zenon DEF Init, AcTyped
  <2>3. Window /\ AccessesClassified /\ Counted
    BY DEF Init, Window, AccessesClassified, Counted
  <2>4. Numbered
    BY <2>1 DEF Init, Numbered
  <2> QED BY <2>2, <2>3, <2>4 DEF AcInv
<1>2. AcInv /\ [Next]_vars => AcInv'
  <2> SUFFICES ASSUME AcInv, [Next]_vars PROVE AcInv'
    OBVIOUS
  <2>1. CASE UNCHANGED vars
    BY <2>1 DEF vars, AcInv, AcTyped, Window, AccessesClassified, Counted, Numbered, Expects
  <2>2. CASE Next
    BY <2>2, FetchKeeps, AccessKeeps, NextInstructionKeeps, InterruptKeeps,
       StepBeginKeeps, StepEndKeeps, ResetKeeps DEF Next
  <2> QED BY <2>1, <2>2
<1> QED BY <1>1, <1>2, PTL DEF Spec

\* onMemoryRead() and onMemoryWrite() record each access as what the CPU does
\* and against the instruction that does it, as long as no instruction has misled
\* the window, for every program and every mixture of steps and free running.
THEOREM AccessesAreClassified == Spec => []AccessesClassified
<1>1. AcInv => AccessesClassified
  BY DEF AcInv
<1> QED BY <1>1, AccountingInv, PTL

\* executeCount_ is the number of executions of each instruction, whether
\* onMemoryRead() or stepInstructionDetailed() counted them.
THEOREM CountsAreExact == Spec => []CountsExact
<1>1. AcInv => CountsExact
  BY DEF AcInv, Counted, CountsExact
<1> QED BY <1>1, AccountingInv, PTL

\* What a step must do to the numbers.
Told ==
    /\ phase' = "inside" /\ phase # "inside" /\ started
         /\ last.step = last'.step /\ ~misled' /\ ~off' => last'.num # last.num
    /\ phase = "inside" /\ phase' = "inside" /\ ~misled' => last'.num = last.num

\* A new instruction gets a new number, by onMemoryRead() or by the step
\* before it.
LEMMA FetchTells ==
    ASSUME AcInv, Fetch PROVE Told
<1> USE DEF AcInv
<1>1. /\ phase \in {"between", "armed"} /\ phase # "inside"
      /\ OnMemoryRead(pc, FALSE, Wrap(pc + 1), "Fetch", pc)
      /\ misled \in BOOLEAN /\ (~misled' => ~misled)
  BY DEF Fetch, AcTyped
<1>2. ReadOutcome(pc, FALSE, Wrap(pc + 1), "Fetch", pc)
  BY <1>1, ReadHook, Zenon DEF AcTyped
<1>3. last'.num = seq' /\ seq <= seq' /\ last'.step = stepping /\ seq' \in Nat
  BY <1>2, Zenon DEF ReadOutcome
<1>4. last.num <= seq /\ (last.step => last.num < seq) /\ seq \in Nat /\ last.num \in Nat
  BY <1>1 DEF Numbered, AcTyped
<1>5. ASSUME started, last.step = last'.step, ~misled' PROVE last'.num # last.num
  <2>1. CASE stepping
    BY <1>3, <1>4, <1>5, <2>1
  <2>2. CASE ~stepping
    <3>1. phase = "between" /\ ~misled
      BY <1>1, <1>5, <2>2 DEF Window
    <3>2. StartsInstruction(pc, FALSE, Wrap(pc + 1))
      BY <2>2, <3>1 DEF StartsInstruction, Window
    <3>3. seq' = seq + 1
      BY <1>2, <1>5, <3>2, Zenon DEF ReadOutcome
    <3> QED BY <1>3, <1>4, <3>3
  <2> QED BY <2>1, <2>2
<1> QED BY <1>1, <1>5, Zenon DEF Told

\* The accesses of one instruction share its number.
LEMMA AccessTells ==
    ASSUME AcInv, Access PROVE Told
<1>1. phase = "inside"
  BY DEF Access
<1>2. ASSUME ~misled' PROVE last'.num = last.num
  <2>1. seq' = seq
    BY <1>2, AccessInWindow, Zenon
  <2>2. AcInv' /\ phase' = "inside"
    BY AccessKeeps DEF Access
  <2>3. last'.num = seq' /\ last.num = seq
    BY <1>1, <2>2 DEF AcInv, Numbered
  <2> QED BY <2>1, <2>3
<1> QED BY <1>1, <1>2, Zenon DEF Told

\* instructionSequence_ separates instructions executed one after the other in
\* the same mode, and holds the accesses of one instruction together.
THEOREM NumbersTell == Spec => NumbersTellInstructionsApart
<1>1. AcInv /\ [Next]_vars => [Told]_vars
  <2> SUFFICES ASSUME AcInv, Next PROVE Told
    BY Zenon DEF Told
  <2>1. CASE NextInstruction \/ Interrupt \/ StepBegin \/ StepEnd \/ Reset
    BY <2>1 DEF NextInstruction, Interrupt, StepBegin, StepEnd, Reset, Told
  <2> QED BY <2>1, FetchTells, AccessTells DEF Next
<1> QED BY <1>1, AccountingInv, PTL DEF Spec, NumbersTellInstructionsApart, Told
=============================================================================
