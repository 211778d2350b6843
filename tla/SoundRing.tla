----------------------------- MODULE SoundRing ------------------------------
(***************************************************************************)
(* The ring of sample buffers of Soundnik.  sample(), on the emulation     *)
(* thread, and callback(), on the audio thread, exclude each other by the  *)
(* lock of the audio device; pause() takes no lock.  The ring has no       *)
(* overrun check: a full ring looks empty.  Every sample carries a serial  *)
(* number, so that what is heard can be compared with what was produced.   *)
(***************************************************************************)
EXTENDS Integers, Sequences

CONSTANTS
    NBuffers,   \* NBUFFERS
    FrameSize   \* samples in a buffer

ASSUME SoundRingAssumption == NBuffers \in Nat \ {0} /\ FrameSize \in Nat \ {0}

VARIABLES
    buffer,   \* the samples, by their serial numbers
    wrbuf,    \* the buffer being written
    rdbuf,    \* the buffer to be played next
    wrptr,    \* samples in buffer[wrbuf]
    serial,   \* ghost: number of the next sample
    heard,    \* ghost: the newest sample played before the last callback
    played,   \* ghost: what the last callback played
    starves,  \* ghost: callbacks that found no complete buffer
    overrun,  \* ghost: the writer has caught up with the reader
    raced     \* ghost: a callback ran in the middle of pause()

ring == <<buffer, wrbuf, rdbuf, wrptr, serial, heard, played, starves, overrun, raced>>

RingInit ==
    /\ buffer = [b \in 0..(NBuffers - 1) |-> [i \in 1..FrameSize |-> 0]]
    /\ wrbuf = 0 /\ rdbuf = 0 /\ wrptr = 0
    /\ serial = 1 /\ heard = 0 /\ played = <<>>
    /\ starves = 0 /\ overrun = FALSE /\ raced = FALSE

\* sample().
Sample ==
    LET full == wrptr + 1 >= FrameSize IN
    /\ buffer' = [buffer EXCEPT ![wrbuf][wrptr + 1] = serial]
    /\ serial' = serial + 1
    /\ wrptr' = IF full THEN 0 ELSE wrptr + 1
    /\ wrbuf' = IF full THEN (wrbuf + 1) % NBuffers ELSE wrbuf
    /\ overrun' = (overrun \/ (full /\ wrbuf' = rdbuf))
    /\ UNCHANGED <<rdbuf, heard, played, starves, raced>>

\* Mutant: the samples that are played because nothing better is there are
\* played again with the rest of their buffer.
StarveKeeps ==
    /\ rdbuf = wrbuf
    /\ played' = SubSeq(buffer[rdbuf], 1, wrptr)
    /\ starves' = starves + 1
    /\ UNCHANGED <<rdbuf, wrptr>>

\* callback() that finds nothing complete: it plays what there is of the
\* buffer being written, which begins anew.
Starve ==
    /\ rdbuf = wrbuf
    /\ played' = SubSeq(buffer[rdbuf], 1, wrptr)
    /\ starves' = starves + 1
    /\ wrptr' = 0
    /\ UNCHANGED rdbuf

\* callback() that plays a buffer.
Play ==
    /\ rdbuf # wrbuf
    /\ played' = buffer[rdbuf]
    /\ rdbuf' = (rdbuf + 1) % NBuffers
    /\ UNCHANGED <<starves, wrptr>>

Callback(resetting) ==
    /\ Starve \/ Play
    /\ heard' = IF played = <<>> THEN heard ELSE played[Len(played)]
    /\ raced' = (raced \/ resetting)
    /\ UNCHANGED <<buffer, wrbuf, serial, overrun>>

\* The three assignments of pause(), one after the other.
PauseReset(step) ==
    /\ wrptr' = IF step = 1 THEN 0 ELSE wrptr
    /\ rdbuf' = IF step = 2 THEN 0 ELSE rdbuf
    /\ wrbuf' = IF step = 3 THEN 0 ELSE wrbuf
    /\ UNCHANGED <<buffer, serial, heard, played, starves, overrun, raced>>

-----------------------------------------------------------------------------
\* As long as the writer has not lapped the reader, and no callback ran inside
\* pause(), what is heard is what was produced: in order, nothing twice,
\* nothing older after something newer.
InOrder ==
    ~overrun /\ ~raced =>
        /\ \A i \in 1..Len(played) : played[i] > heard
        /\ \A i \in 1..(Len(played) - 1) : played[i] < played[i + 1]
=============================================================================
