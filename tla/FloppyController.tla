-------------------------- MODULE FloppyController --------------------------
(***************************************************************************)
(* The floppy controller FD1793, its drives (FDisk) and the image file     *)
(* behind a drive (FileDiskImage), as the ports 18h-1Ch reach them.  The   *)
(* controller has no time of its own: it advances when the program polls   *)
(* the status or moves a data byte.  The guest is a driver that polls the  *)
(* status and moves a byte when it sees DRQ, until it sees the controller  *)
(* no longer busy; it may give up at any point and start another command.  *)
(* The program may end, or another disk be attached, at any point too.     *)
(***************************************************************************)
EXTENDS Integers, Sequences

CONSTANTS
    FdTracks,      \* tracks on the disk
    FdSectors,     \* sectorsPerTrack
    FdSectorSize,  \* sectorSize
    FdCommands,    \* the commands the driver gives
    FdShort,       \* bound: the lengths at which a short fwrite stops
    FdMaxCommands  \* bound: commands

Heads    == 2
ImageLen == FdTracks * Heads * FdSectors * FdSectorSize
LingerAfter == 2   \* LINGER_AFTER; LINGER_BEFORE is 0, as every global is

ASSUME FloppyAssumption ==
    /\ {FdTracks, FdSectors, FdSectorSize} \subseteq Nat \ {0}
    /\ FdShort \subseteq 0..(ImageLen - 1) /\ FdMaxCommands \in Nat

VARIABLES
    fdSel,      \* _dsksel: drive 0 has a disk, drive 1 has none
    fdSide,     \* _side
    fdBusy,     \* ST_BUSY
    fdDrq,      \* ST_DRQ
    fdSeekErr,  \* ST_SEEKERR
    fdData,     \* _data
    fdTrack,    \* _track
    fdSector,   \* _sector
    fdDir,      \* _stepdir
    fdLinger,   \* _lingertime
    fdCmd,      \* _commandtr
    dk,         \* the drives' position, offset, length and source
    fdImage,    \* FileDiskImage::_data
    fdFile,     \* the image file
    fdDirty,    \* FileDiskImage::dirty
    fdCrash,    \* an exception or a crash has ended the program
    fdLost,     \* history: the last flush lost its bytes without notice
    drv,        \* the driver: what it believes and has moved
    fdCount     \* against FdMaxCommands

fdRegs == <<fdSel, fdSide, fdData, fdTrack, fdSector, fdDir>>
fdvars == <<fdRegs, fdBusy, fdDrq, fdSeekErr, fdLinger, fdCmd, dk, fdImage, fdFile,
            fdDirty, fdCrash, fdLost, drv, fdCount>>

\* Byte i of a new disk is i; the n-th byte the driver writes is ImageLen + n.
NewImage == [i \in 0..(ImageLen - 1) |-> i]

NoDrive == [pos |-> 0, off |-> 0, len |-> 0, src |-> "disk", sec |-> 0, track |-> 0, side |-> 0]

\* A driver that has given no command.
Driver(at) == [at |-> at, want |-> "none", moved |-> <<>>, from |-> 0, sel |-> 0, stale |-> FALSE]

FdInit ==
    /\ fdSel = 0 /\ fdSide = 0 /\ fdBusy = FALSE /\ fdDrq = FALSE /\ fdSeekErr = FALSE
    /\ fdData = 0 /\ fdTrack = 0 /\ fdSector = 0 /\ fdDir = 1 /\ fdLinger = 3
    /\ fdCmd = "none"
    /\ dk = [d \in 0..1 |-> NoDrive]
    /\ fdImage = NewImage /\ fdFile = NewImage /\ fdDirty = FALSE /\ fdCrash = FALSE
    /\ fdLost = FALSE
    /\ drv = Driver("idle")
    /\ fdCount = 0

Ready(d) == d = 0

-----------------------------------------------------------------------------
(* FDisk *)

\* seek(): the position of a sector, as bytes into the image; an empty drive
\* keeps its position.
Seek(d, t, s, side) ==
    IF ~Ready(d) THEN dk[d]
    ELSE [dk[d] EXCEPT !.pos = (t * FdSectors * Heads + FdSectors * side
                                 + (IF s # 0 THEN s - 1 ELSE 0)) * FdSectorSize,
                       !.track = t, !.side = side]

\* Mutant: the offset of the previous transfer is kept.
TransferNoRewind(d, t, s, side) ==
    [Seek(d, t, s, side) EXCEPT !.len = FdSectorSize, !.src = "disk", !.sec = s]

\* readSector(), writeSector() after the seek of the command.
Transfer(d, t, s, side) ==
    [Seek(d, t, s, side) EXCEPT !.len = FdSectorSize, !.off = 0, !.src = "disk", !.sec = s]

\* readAddress(): six bytes from a buffer.
AddressBytes(d) == <<dk[d].track, dk[d].side, dk[d].sec, 3, 0, 0>>

\* The first n bytes of an image: all that a short fwrite leaves in the file.
Beginning(img, n) == [i \in 0..(n - 1) |-> img[i]]

\* FileDiskImage::flush() of a dirty image, to a temporary file that is renamed.
\* tmpname(), or a temporary file that cannot be opened, makes it call
\* fclose(nullptr), which ends the program or does nothing.  Neither the length
\* that fwrite returns nor the result of rename is looked at.
FlushDirty(img) ==
    \/ fdCrash' = TRUE /\ fdDirty' = TRUE /\ UNCHANGED <<fdFile, fdLost>>
    \/ /\ fdDirty' = FALSE /\ UNCHANGED fdCrash
       /\ \/ fdFile' = img /\ fdLost' = FALSE
          \/ \E n \in FdShort : fdFile' = Beginning(img, n) /\ fdLost' = TRUE
          \/ UNCHANGED fdFile /\ fdLost' = TRUE

Flush(img, dirty) ==
    \/ dirty /\ FlushDirty(img)
    \/ ~dirty /\ fdDirty' = FALSE /\ UNCHANGED <<fdFile, fdLost, fdCrash>>

-----------------------------------------------------------------------------
(* FD1793::exec() *)

\* A read command: the next byte, the end, or an access outside the image.
ExecRead(drq, data) ==
    LET d == dk[fdSel] IN
    /\ fdCmd \in {"read", "address"}
    /\ UNCHANGED <<fdImage, fdFile, fdDirty, fdLost, fdCmd>>
    /\ \/ /\ drq
          /\ fdDrq' = drq /\ fdData' = data
          /\ UNCHANGED <<fdBusy, dk, fdCrash>>
       \/ /\ ~drq /\ d.off >= d.len
          /\ fdBusy' = FALSE /\ fdDrq' = FALSE /\ fdData' = data
          /\ UNCHANGED <<dk, fdCrash>>
       \/ /\ ~drq /\ d.off < d.len
          /\ IF d.src = "disk" /\ Ready(fdSel) /\ d.pos + d.off >= ImageLen
               THEN fdCrash' = TRUE /\ UNCHANGED <<fdBusy, fdDrq, fdData, dk>>
               ELSE /\ fdData' = IF d.src = "buffer" THEN AddressBytes(fdSel)[d.off + 1]
                                 ELSE IF Ready(fdSel) THEN fdImage[d.pos + d.off] ELSE 0
                    /\ dk' = [dk EXCEPT ![fdSel].off = @ + 1]
                    /\ fdDrq' = TRUE
                    /\ UNCHANGED <<fdBusy, fdCrash>>

\* A write command: the byte goes to the image, the last one flushes it.  The
\* command ends with the byte after the last, which goes nowhere.
ExecWrite(drq, data) ==
    LET d == dk[fdSel]
        at == d.pos + d.off
        img == IF Ready(fdSel) THEN [fdImage EXCEPT ![at] = data] ELSE fdImage
        dirty == fdDirty \/ img # fdImage
    IN
    /\ fdCmd = "write"
    /\ UNCHANGED fdCmd
    /\ fdData' = data
    /\ \/ drq /\ fdDrq' = drq /\ UNCHANGED <<fdBusy, dk, fdImage, fdFile, fdDirty, fdLost, fdCrash>>
       \/ /\ ~drq /\ d.off >= d.len
          /\ fdBusy' = FALSE /\ fdDrq' = FALSE
          /\ UNCHANGED <<dk, fdImage, fdFile, fdDirty, fdLost, fdCrash>>
       \/ /\ ~drq /\ d.off < d.len
          /\ IF Ready(fdSel) /\ at >= ImageLen
               THEN fdCrash' = TRUE /\ fdDrq' = drq
                    /\ UNCHANGED <<fdBusy, dk, fdImage, fdFile, fdDirty, fdLost>>
               ELSE /\ fdImage' = img
                    /\ dk' = [dk EXCEPT ![fdSel].off = @ + 1]
                    /\ fdDrq' = TRUE /\ UNCHANGED fdBusy
                    /\ IF d.off + 1 = d.len THEN Flush(img, dirty)
                       ELSE fdDirty' = dirty /\ UNCHANGED <<fdFile, fdLost, fdCrash>>

\* No transfer: the end of the lingering.
ExecOther(drq, data) ==
    /\ fdCmd = "none"
    /\ fdBusy' = FALSE
    /\ fdData' = data
    /\ fdDrq' = drq
    /\ UNCHANGED <<dk, fdImage, fdFile, fdDirty, fdLost, fdCrash, fdCmd>>

Exec(drq, data) == ExecRead(drq, data) \/ ExecWrite(drq, data) \/ ExecOther(drq, data)

-----------------------------------------------------------------------------
(* Ports, and the driver that uses them *)

Alive == ~fdCrash

\* write(1), write(2) and write(4): the driver sets track, sector, drive and side
\* between commands.  Track and sector clear DRQ.
FdSetup ==
    /\ Alive /\ drv.at \in {"idle", "set"} /\ fdCount < FdMaxCommands
    /\ \E t \in 0..FdTracks, s \in 1..FdSectors, d \in 0..1, side \in 0..1 :
         fdTrack' = t /\ fdSector' = s /\ fdSel' = d /\ fdSide' = side
    /\ fdDrq' = FALSE
    /\ drv' = Driver("set")
    /\ UNCHANGED <<fdBusy, fdSeekErr, fdData, fdDir, fdLinger, fdCmd, dk, fdImage, fdFile, fdDirty,
                   fdCrash, fdLost, fdCount>>

\* write(3) between commands, for a seek.  It executes as well: a transfer that was
\* given up goes on with it, by a byte of the disk that takes the place of the
\* value, or by the value that goes to the disk.
FdSetData ==
    /\ Alive /\ drv.at = "set"
    /\ \E v \in 0..FdTracks : Exec(FALSE, v)
    /\ UNCHANGED <<fdSel, fdSide, fdTrack, fdSector, fdDir, fdSeekErr, fdLinger, fdCount, drv>>

Floor(t) == IF t < 0 THEN 0 ELSE t

\* command(), type I: restore, seek and the steps.
CommandMove(c) ==
    /\ c \in {"restore", "seek", "step", "in", "out"}
    /\ fdCmd' = "none"
    /\ fdDir' = IF c = "in" THEN 1 ELSE IF c = "out" THEN -1 ELSE fdDir
    /\ fdTrack' = IF c = "restore" THEN (IF Ready(fdSel) THEN 0 ELSE fdTrack)
                  ELSE IF c = "seek" THEN fdData
                  ELSE Floor(fdTrack + fdDir')
    /\ fdSeekErr' = (fdSeekErr \/ (c = "restore" /\ ~Ready(fdSel)))
    /\ dk' = IF c = "restore" THEN [dk EXCEPT ![fdSel] = Seek(fdSel, 0, 1, fdSide)]
             ELSE IF c = "seek" THEN [dk EXCEPT ![fdSel] = Seek(fdSel, fdData, fdSector, fdSide)]
             ELSE dk
    /\ IF c = "restore" THEN UNCHANGED <<fdBusy, fdLinger>>
       ELSE fdBusy' = TRUE /\ fdLinger' = 0
    /\ UNCHANGED fdDrq

\* command(): read sector, write sector, read address.
CommandTransfer(c) ==
    /\ c \in {"read", "write", "address"}
    /\ fdCmd' = c
    /\ fdBusy' = TRUE /\ fdLinger' = 0
    /\ fdDrq' = (fdDrq \/ c = "write")
    /\ dk' = [dk EXCEPT ![fdSel] =
                IF c = "address" THEN [@ EXCEPT !.len = 6, !.off = 0, !.src = "buffer"]
                ELSE Transfer(fdSel, fdTrack, fdSector, fdSide)]
    /\ UNCHANGED <<fdTrack, fdDir, fdSeekErr>>

\* command(): force interrupt and the two that are not implemented.
CommandForce(c) ==
    /\ c = "force"
    /\ fdCmd' = "none"
    /\ UNCHANGED <<fdBusy, fdLinger, fdDrq, dk, fdTrack, fdDir, fdSeekErr>>

FdCommand ==
    /\ Alive /\ drv.at = "set" /\ fdCount < FdMaxCommands
    /\ fdCount' = fdCount + 1
    /\ \E c \in FdCommands :
         /\ CommandMove(c) \/ CommandTransfer(c) \/ CommandForce(c)
         /\ drv' = [at |-> "poll", want |-> c, moved |-> <<>>, from |-> dk'[fdSel].pos, sel |-> fdSel,
                   stale |-> fdDrq]
    /\ UNCHANGED <<fdSel, fdSide, fdData, fdSector, fdImage, fdFile, fdDirty, fdCrash, fdLost>>

\* What the driver does after it has seen the status.
See(busy, drq) ==
    drv' = [drv EXCEPT !.at = IF ~busy THEN "idle"
                              ELSE IF drq /\ drv.want \in {"read", "write", "address"} THEN "move"
                              ELSE "poll"]

\* Mutant: the controller lingers for ever.
FdStatusNever ==
    /\ Alive /\ drv.at = "poll"
    /\ UNCHANGED <<fdLinger, fdData, fdBusy, fdDrq, fdCmd, dk, fdImage, fdFile, fdDirty, fdLost, fdCrash>>
    /\ See(fdBusy, fdDrq)
    /\ UNCHANGED <<fdSel, fdSide, fdTrack, fdSector, fdDir, fdSeekErr, fdCount>>

\* read(0), the status: it lingers twice, then executes once.
FdStatus ==
    /\ Alive /\ drv.at = "poll"
    /\ IF fdBusy /\ fdLinger = LingerAfter
         THEN Exec(fdDrq, fdData) /\ fdLinger' = fdLinger + 1
         ELSE /\ fdLinger' = IF fdBusy /\ fdLinger < LingerAfter THEN fdLinger + 1 ELSE fdLinger
              /\ UNCHANGED <<fdData, fdBusy, fdDrq, fdCmd, dk, fdImage, fdFile, fdDirty, fdLost, fdCrash>>
    /\ See(fdBusy', fdDrq')
    /\ UNCHANGED <<fdSel, fdSide, fdTrack, fdSector, fdDir, fdSeekErr, fdCount>>

\* read(3): the driver takes a byte.
FdTake ==
    /\ Alive /\ drv.at = "move" /\ drv.want \in {"read", "address"}
    /\ drv' = [drv EXCEPT !.at = "poll", !.moved = Append(@, fdData)]
    /\ Exec(FALSE, fdData)
    /\ UNCHANGED <<fdSel, fdSide, fdTrack, fdSector, fdDir, fdSeekErr, fdLinger, fdCount>>

\* write(3): the driver gives one.
FdGive ==
    /\ Alive /\ drv.at = "move" /\ drv.want = "write"
    /\ LET v == ImageLen + Len(drv.moved) + 1 IN
         /\ drv' = [drv EXCEPT !.at = "poll", !.moved = Append(@, v)]
         /\ Exec(FALSE, v)
    /\ UNCHANGED <<fdSel, fdSide, fdTrack, fdSector, fdDir, fdSeekErr, fdLinger, fdCount>>

\* The driver gives up.
FdGiveUp ==
    /\ Alive /\ drv.at \in {"poll", "move"} /\ fdCount < FdMaxCommands
    /\ drv' = Driver("idle")
    /\ UNCHANGED <<fdRegs, fdBusy, fdDrq, fdSeekErr, fdLinger, fdCmd, dk, fdImage, fdFile,
                   fdDirty, fdCrash, fdLost, fdCount>>

\* Mutant: what is dirty is dropped.
FdCloseDrops ==
    /\ Alive /\ drv.at # "closed"
    /\ drv' = Driver("closed")
    /\ UNCHANGED <<fdRegs, fdBusy, fdDrq, fdSeekErr, fdLinger, fdCmd, dk, fdImage, fdFile,
                   fdDirty, fdCrash, fdLost, fdCount>>

\* ~FileDiskImage(): the program ends or attach() puts in another disk.
FdClose ==
    /\ Alive /\ drv.at # "closed"
    /\ Flush(fdImage, fdDirty)
    /\ drv' = Driver("closed")
    /\ UNCHANGED <<fdRegs, fdBusy, fdDrq, fdSeekErr, fdLinger, fdCmd, dk, fdImage, fdCount>>

FdNext ==
    \/ FdSetup \/ FdSetData \/ FdCommand \/ FdStatus \/ FdTake \/ FdGive \/ FdGiveUp
    \/ FdClose

FdSpec == FdInit /\ [][FdNext]_fdvars

-----------------------------------------------------------------------------
(* Properties *)

\* The bytes the driver has moved begin with the sector, as the image has it.
SectorMoved ==
    \A i \in 1..FdSectorSize :
        /\ i <= Len(drv.moved) /\ drv.from + i - 1 < ImageLen
        /\ drv.moved[i] = fdImage[drv.from + i - 1]
AtRest(c) == Alive /\ drv.at = "idle" /\ drv.want = c /\ drv.sel = 0 /\ ~fdBusy

\* A driver that reads a sector until the controller is no longer busy has
\* every byte of the sector, once and in order, if DRQ was down when it gave the
\* command.  A command does not clear a DRQ that an earlier transfer left up: the
\* driver then takes one byte of that transfer first.
ReadsWholeSector ==
    AtRest("read") /\ ~drv.stale => SectorMoved /\ Len(drv.moved) = FdSectorSize

\* A driver that writes a sector has its bytes in the image; and the file is the
\* image unless the flush failed unnoticed.
WritesWholeSector ==
    AtRest("write") => SectorMoved /\ (fdLost \/ fdFile = fdImage)

\* The sector the driver moves is the one its track, side and sector registers
\* name at the moment of the command.
TransferAtRegisters ==
    drv.at \in {"poll", "move"} /\ drv.want \in {"read", "write"} /\ drv.sel = 0 =>
        drv.from = ((fdTrack * Heads + fdSide) * FdSectors + fdSector - 1) * FdSectorSize

\* A sector is transferred as a whole, to or from the place that the registers
\* name, whatever command was given up or left half done before and whatever was
\* written to the data register in between.
TransfersWholeSectors == ReadsWholeSector /\ WritesWholeSector /\ TransferAtRegisters

\* An image that is not dirty is what the file holds, unless the last flush failed
\* unnoticed.  So a disk that is closed leaves everything in its file: whole
\* sectors, the bytes of a transfer that was given up, and those that the data
\* register added to it.
FileKeepsUp ==
    /\ ~fdDirty /\ ~fdLost => fdFile = fdImage
    /\ Alive /\ drv.at = "closed" => ~fdDirty

\* A driver that goes on polling is not left waiting.  (After a transfer that
\* was given up, restore and force interrupt leave the controller busy.)
DriverFinishes ==
    drv.at \in {"poll", "move"} /\ drv.want \notin {"force", "restore"}
        ~> drv.at \in {"idle", "closed"} \/ fdCrash
=============================================================================
