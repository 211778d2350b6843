---------------------------- MODULE RomDatabase -----------------------------
(***************************************************************************)
(* The ROM database (RdbController), the symbol database beside it and the *)
(* .rdb files.  loadRom() loads both for a ROM, the commands of the        *)
(* emulation thread edit both, the MCP and GUI threads edit and save the   *)
(* ROM database directly.  The controller has no lock; save() is several   *)
(* steps (serialise and open the temporary file, write and close, rename,  *)
(* mark clean), each of which may fail or be the last before a crash.      *)
(***************************************************************************)
EXTENDS Naturals

CONSTANTS
    Roms,        \* ROM files; each has its own .rdb path
    Addrs,       \* addresses that objects and symbols may have
    Names,       \* names of objects
    Notes,       \* comments, the empty one among them
    Normal(_),   \* normalizeRdbText()
    Maps,        \* [Roms -> set of objects by address, or NoMap]
    Files,       \* what a .rdb file may hold before the program starts
    Absent, Corrupt, NoPath, NoObject, NoSymbol, NoMap,
    Concurrent,  \* may another thread edit while one saves?
    MaxEdits     \* bound: edits, loads, crashes and foreign writes

Objects  == [name : Names, note : Notes]
Contents == [Addrs -> Objects \cup {NoObject}]
Symbols  == [name : Names, note : Notes, fromMap : BOOLEAN]
Empty    == [a \in Addrs |-> NoObject]

ASSUME RomDatabaseAssumption ==
    /\ Roms # {} /\ MaxEdits \in Nat /\ Concurrent \in BOOLEAN
    /\ "" \in Notes /\ Normal("") = ""
    /\ \A n \in Notes : Normal(n) \in Notes /\ Normal(Normal(n)) = Normal(n)
    /\ Maps \in [Roms -> Contents \cup {NoMap}]
    /\ \A r \in Roms, a \in Addrs :
         Maps[r] # NoMap /\ Maps[r][a] # NoObject
            => Normal(Maps[r][a].note) = Maps[r][a].note
    /\ Files \subseteq Contents \cup {Absent, Corrupt}
    /\ Absent \notin Contents /\ Corrupt \notin Contents /\ Absent # Corrupt
    /\ NoPath \notin Roms /\ NoObject \notin Objects /\ NoSymbol \notin Symbols
    /\ NoMap \notin Contents

VARIABLES
    rom,       \* ghost: the ROM whose load finished last
    path,      \* impl_->path
    dirty,     \* impl_->dirty
    exists,    \* impl_->fileExistsOnDisk
    objects,   \* impl_->objects
    symbols,   \* symbols_
    disk,      \* the .rdb files
    tmp,       \* the .rdb.tmp files
    spc,       \* where the saving thread is
    snap,      \* what it serialised
    into,      \* the path it saves to
    saved,     \* result of the last save() to return
    foreign,   \* ghost: something else has written the file since
    edits      \* against MaxEdits

vars == <<rom, path, dirty, exists, objects, symbols, disk, tmp, spc, snap,
          into, saved, foreign, edits>>

save == <<spc, snap, into>>

\* loadRom() starts the session; nothing is loaded before.
Fresh ==
    /\ rom' = NoPath /\ path' = NoPath /\ dirty' = FALSE /\ exists' = FALSE
    /\ objects' = Empty
    /\ symbols' = [a \in Addrs |-> NoSymbol]
    /\ spc' = "idle" /\ snap' = Empty /\ into' = NoPath /\ saved' = "none"
    /\ foreign' = FALSE

Init ==
    /\ rom = NoPath /\ path = NoPath /\ dirty = FALSE /\ exists = FALSE
    /\ objects = Empty
    /\ symbols = [a \in Addrs |-> NoSymbol]
    /\ disk \in [Roms -> Files]
    /\ tmp = [r \in Roms |-> "none"]
    /\ spc = "idle" /\ snap = Empty /\ into = NoPath /\ saved = "none"
    /\ foreign = FALSE /\ edits = 0

Budget == edits < MaxEdits /\ edits' = edits + 1

\* Other threads run beside a save only in a concurrent instance.
MayEdit == (Concurrent \/ spc = "idle") /\ Budget

-----------------------------------------------------------------------------
(* Loading *)

\* objectFromJson(): comments of legacy files are normalised on the way in.
FromFile(content) ==
    [a \in Addrs |-> IF content[a] = NoObject THEN NoObject
                     ELSE [content[a] EXCEPT !.note = Normal(@)]]

\* Mutant: old symbols of the map stay.
ClearMapSymbolsNone(s) == s

\* clearMapSymbols(): the user's own symbols stay.
ClearMapSymbols(s) ==
    [a \in Addrs |-> IF s[a] # NoSymbol /\ s[a].fromMap THEN NoSymbol ELSE s[a]]

\* syncRdbToSymbolDatabase().
SyncRdbToSymbolDatabase(objs, s) ==
    [a \in Addrs |-> IF s[a] = NoSymbol /\ objs[a] # NoObject
                     THEN [name |-> objs[a].name, note |-> objs[a].note, fromMap |-> TRUE]
                     ELSE s[a]]

\* What loadRdb(r) leaves in the controller: close(), then load() of a file
\* that is there or initialize().
LoadedObjects(r) == IF disk[r] \in Contents THEN FromFile(disk[r]) ELSE Empty

\* Mutant: loadRdb() does not close the previous database.
LoadedPathStale(r) == IF disk[r] = Corrupt THEN path ELSE r

LoadedPath(r) == IF disk[r] = Corrupt THEN NoPath ELSE r

\* importMapToRdb() when the database is empty and the ROM has a map.
ImportMap(r, objs) == IF objs = Empty /\ Maps[r] # NoMap THEN Maps[r] ELSE objs

\* The tail of loadRom(): the databases of ROM r.
LoadRom(r) ==
    /\ MayEdit
    /\ objects' = ImportMap(r, LoadedObjects(r))
    /\ path' = LoadedPath(r)
    /\ exists' = (disk[r] \in Contents)
    /\ dirty' = (objects' # LoadedObjects(r))
    /\ symbols' = SyncRdbToSymbolDatabase(objects', ClearMapSymbols(symbols))
    /\ rom' = r
    /\ foreign' = FALSE
    /\ UNCHANGED <<disk, tmp, save, saved>>

\* reload(): a file that does not open changes nothing, one that does not
\* parse clears the objects and nothing else.  The symbols are not synced.
Reload ==
    /\ MayEdit
    /\ path # NoPath
    /\ disk[path] # Absent
    /\ objects' = LoadedObjects(path)
    /\ IF disk[path] = Corrupt THEN UNCHANGED <<dirty, exists, foreign>>
       ELSE dirty' = FALSE /\ exists' = TRUE /\ foreign' = FALSE
    /\ UNCHANGED <<rom, path, symbols, disk, tmp, save, saved>>

-----------------------------------------------------------------------------
(* Editing *)

others == <<rom, path, exists, disk, tmp, save, saved, foreign>>

\* addObject(), which refuses an address that is taken.
AddObject(a, o) ==
    IF objects[a] # NoObject THEN UNCHANGED <<objects, dirty>>
    ELSE /\ objects' = [objects EXCEPT ![a] = [o EXCEPT !.note = Normal(@)]]
         /\ dirty' = TRUE

\* Mutant: an update does not mark the database.
PutObjectClean(a, o) ==
    LET stored == [o EXCEPT !.note = Normal(@)] IN
    /\ objects[a] # NoObject
    /\ objects' = [objects EXCEPT ![a] = stored]
    /\ UNCHANGED dirty

\* updateObject(), setComment(), setProperty(), addLink(), setLinks(): dirty
\* only if something changes.
PutObject(a, o) ==
    LET stored == [o EXCEPT !.note = Normal(@)] IN
    /\ objects[a] # NoObject
    /\ objects' = [objects EXCEPT ![a] = stored]
    /\ dirty' = (dirty \/ objects[a] # stored)

\* AgentApi::addRdbObject() and the "Add" dialog.
AddRdbObject(a, n) ==
    /\ MayEdit
    /\ AddObject(a, [name |-> n, note |-> ""])
    /\ UNCHANGED <<symbols, others>>

\* AgentApi::updateRdbObject(), setRdbComment(), setRdbProperty(), the links.
UpdateRdbObject(a, o) ==
    /\ MayEdit
    /\ PutObject(a, o)
    /\ UNCHANGED <<symbols, others>>

\* removeObject().
RemoveRdbObject(a) ==
    /\ MayEdit
    /\ objects[a] # NoObject
    /\ objects' = [objects EXCEPT ![a] = NoObject]
    /\ dirty' = TRUE
    /\ UNCHANGED <<symbols, others>>

\* The commands CreateFunction and AddLabel.
CreateFunction(a, n) ==
    /\ MayEdit
    /\ symbols[a] = NoSymbol
    /\ symbols' = [symbols EXCEPT ![a] = [name |-> n, note |-> "", fromMap |-> FALSE]]
    /\ AddObject(a, [name |-> n, note |-> ""])
    /\ UNCHANGED others

\* The command RenameSymbol; the object follows if there is one.
RenameSymbol(a, n) ==
    /\ MayEdit
    /\ symbols[a] # NoSymbol
    /\ symbols' = [symbols EXCEPT ![a].name = n]
    /\ IF objects[a] = NoObject THEN UNCHANGED <<objects, dirty>>
       ELSE PutObject(a, [objects[a] EXCEPT !.name = n])
    /\ UNCHANGED others

\* The command SetComment.
SetComment(a, c) ==
    /\ MayEdit
    /\ symbols[a] # NoSymbol
    /\ symbols' = [symbols EXCEPT ![a].note = Normal(c)]
    /\ IF objects[a] = NoObject THEN UNCHANGED <<objects, dirty>>
       ELSE PutObject(a, [objects[a] EXCEPT !.note = c])
    /\ UNCHANGED others

\* The command RemoveSymbol leaves the object where it is.
RemoveSymbol(a) ==
    /\ MayEdit
    /\ symbols[a] # NoSymbol
    /\ symbols' = [symbols EXCEPT ![a] = NoSymbol]
    /\ UNCHANGED <<objects, dirty, others>>

-----------------------------------------------------------------------------
(* Saving *)

memory == <<rom, objects, symbols, edits>>

\* save() that has nothing to write, or nowhere to write it.
SaveNothing ==
    /\ spc = "idle"
    /\ ~dirty \/ path = NoPath
    /\ saved' = "ok"
    /\ UNCHANGED <<memory, path, dirty, exists, disk, tmp, save, foreign>>

\* saveAs(): serialise, then open the temporary file.
SaveOpen ==
    /\ spc = "idle"
    /\ dirty /\ path # NoPath
    /\ \/ /\ tmp' = [tmp EXCEPT ![path] = "partial"]
          /\ spc' = "write" /\ snap' = objects /\ into' = path
          /\ UNCHANGED saved
       \/ saved' = "failed" /\ UNCHANGED <<tmp, save>>
    /\ UNCHANGED <<memory, path, dirty, exists, disk, foreign>>

\* Write and close.
SaveWrite ==
    /\ spc = "write"
    /\ \/ /\ tmp' = [tmp EXCEPT ![into] = "whole"]
          /\ spc' = "rename"
          /\ UNCHANGED saved
       \/ /\ tmp' = [tmp EXCEPT ![into] = "none"]
          /\ spc' = "idle"
          /\ saved' = "failed"
    /\ UNCHANGED <<memory, path, dirty, exists, disk, snap, into, foreign>>

\* Mutant: the file is renamed before it is written.
SaveRenameFirst ==
    /\ spc \in {"write", "rename"}
    /\ \/ /\ disk' = [disk EXCEPT ![into] = IF tmp[into] = "whole" THEN snap ELSE Corrupt]
          /\ spc' = IF spc = "write" THEN "write" ELSE "mark"
          /\ UNCHANGED <<saved, tmp>>
       \/ /\ spc' = "idle"
          /\ saved' = "failed"
          /\ UNCHANGED <<disk, tmp>>
    /\ UNCHANGED <<memory, path, dirty, exists, snap, into, foreign>>

\* Rename over the .rdb file.
SaveRename ==
    /\ spc = "rename"
    /\ tmp' = [tmp EXCEPT ![into] = "none"]
    /\ \/ /\ disk' = [disk EXCEPT ![into] = snap]
          /\ spc' = "mark"
          /\ UNCHANGED saved
       \/ /\ spc' = "idle"
          /\ saved' = "failed"
          /\ UNCHANGED disk
    /\ UNCHANGED <<memory, path, dirty, exists, snap, into, foreign>>

\* The assignments after the rename.
SaveMark ==
    /\ spc = "mark"
    /\ path' = into
    /\ dirty' = FALSE
    /\ exists' = TRUE
    /\ foreign' = FALSE
    /\ spc' = "idle"
    /\ saved' = "ok"
    /\ UNCHANGED <<memory, disk, tmp, snap, into>>

-----------------------------------------------------------------------------
(* The environment *)

\* The program ends or crashes, and is started again.
Restart ==
    /\ Budget
    /\ Fresh
    /\ UNCHANGED <<disk, tmp>>

\* Another program writes the file of the ROM that is loaded.
ForeignWrite ==
    /\ Budget
    /\ path # NoPath /\ spc = "idle"
    /\ \E c \in Files : disk' = [disk EXCEPT ![path] = c]
    /\ foreign' = TRUE
    /\ UNCHANGED <<rom, path, dirty, exists, objects, symbols, tmp, save, saved>>

Next ==
    \/ \E r \in Roms : LoadRom(r)
    \/ Reload
    \/ \E a \in Addrs :
         \/ \E n \in Names : AddRdbObject(a, n) \/ CreateFunction(a, n) \/ RenameSymbol(a, n)
         \/ \E o \in Objects : UpdateRdbObject(a, o)
         \/ \E c \in Notes : SetComment(a, c)
         \/ RemoveRdbObject(a) \/ RemoveSymbol(a)
    \/ SaveNothing \/ SaveOpen \/ SaveWrite \/ SaveRename \/ SaveMark
    \/ Restart \/ ForeignWrite

Spec == Init /\ [][Next]_vars

-----------------------------------------------------------------------------
(* Properties *)

\* A database that says it is unmodified holds what its file holds, after any
\* mixture of loads, edits, failed saves and restarts: no accepted edit is
\* ever taken for saved when it is not.
CleanIsSaved ==
    /\ ~dirty /\ exists /\ ~foreign /\ path # NoPath
         => disk[path] \in Contents /\ objects = FromFile(disk[path])
    /\ ~dirty /\ ~exists /\ path # NoPath /\ ~foreign => objects = Empty

\* The objects in memory are saved to the file of the ROM that is loaded, or
\* nowhere; never to the file of another ROM.
SavesToOwnFile == path \in {rom, NoPath} /\ (spc # "idle" => into = rom)

\* Whatever step of a save fails or is the last before a crash, the file holds
\* a complete database again; and a file that did not parse when its ROM was
\* loaded is left for the user to repair.
FilesStayWhole ==
    [][\A r \in Roms : disk'[r] # disk[r] /\ ~foreign /\ ~foreign' =>
          disk[r] # Corrupt /\ disk'[r] \in Contents /\ disk'[r] = FromFile(disk'[r])]_vars

\* After loadRom() every symbol that came from a map or a database is an
\* object of the new ROM: nothing of the previous ROM is shown.
PreviousRomForgotten ==
    [][rom' # rom => \A a \in Addrs :
          symbols'[a] # NoSymbol /\ symbols'[a].fromMap =>
             objects'[a] # NoObject /\ symbols'[a].name = objects'[a].name]_vars

\* A save of a loaded ROM's database that reports success leaves nothing
\* unsaved (docs/Pipeline/Stage_6.11, sections 4 and 15).
SaveMeansSaved == [][rom # NoPath /\ saved # "ok" /\ saved' = "ok" => ~dirty']_vars
=============================================================================
