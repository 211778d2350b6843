------------------------- MODULE RomDatabaseProofs --------------------------
(***************************************************************************)
(* For any ROMs, addresses, names, comments and maps, and any number of    *)
(* edits, loads, failures and restarts: as long as no other thread edits   *)
(* while one saves, a clean database is a saved one, and a save reaches    *)
(* the file of its own ROM only and leaves a whole file behind.            *)
(***************************************************************************)
EXTENDS RomDatabase, TLAPS

\* Comments are kept normalised, so that a file reads back as it was written.
Tidy(objs) == \A a \in Addrs : objs[a] # NoObject => Normal(objs[a].note) = objs[a].note

\* The types the argument needs.
DbTypes ==
    /\ dirty \in BOOLEAN /\ exists \in BOOLEAN /\ foreign \in BOOLEAN
    /\ objects \in Contents /\ Tidy(objects)
    /\ disk \in [Roms -> Contents \cup {Absent, Corrupt}]
    /\ rom \in Roms \cup {NoPath} /\ path \in Roms \cup {NoPath}

\* A save in progress: the database is marked, is what was serialised, and
\* after the rename is what the file holds.
Saving ==
    /\ spc \in {"idle", "write", "rename", "mark"}
    /\ spc # "idle" => into \in Roms /\ path = into /\ dirty /\ snap = objects
    /\ spc = "mark" => disk[into] = snap

\* The file of the loaded ROM parsed when it was loaded.
Readable == path # NoPath /\ ~foreign => disk[path] # Corrupt

\* The inductive invariant.
DbInv == DbTypes /\ Saving /\ Readable /\ SavesToOwnFile /\ CleanIsSaved

-----------------------------------------------------------------------------
\* Reading a file gives tidy objects, and tidy objects read back unchanged.
LEMMA FromFileTidy ==
    ASSUME NEW c \in Contents
    PROVE  /\ FromFile(c) \in Contents /\ Tidy(FromFile(c))
           /\ Tidy(c) => FromFile(c) = c
<1>1. \A o \in Objects : /\ [o EXCEPT !.note = Normal(@)] \in Objects
                         /\ [o EXCEPT !.note = Normal(@)].note = Normal(o.note)
                         /\ Normal(Normal(o.note)) = Normal(o.note)
                         /\ Normal(o.note) = o.note => [o EXCEPT !.note = Normal(@)] = o
  BY RomDatabaseAssumption DEF Objects
<1>2. NoObject \notin Objects
  BY RomDatabaseAssumption
<1>3. \A a \in Addrs : c[a] \in Objects \/ c[a] = NoObject
  BY DEF Contents
<1>4. \A a \in Addrs :
        FromFile(c)[a] = IF c[a] = NoObject THEN NoObject ELSE [c[a] EXCEPT !.note = Normal(@)]
  BY DEF FromFile
<1>5. FromFile(c) \in Contents
  BY <1>1, <1>3 DEF FromFile, Contents
<1>6. Tidy(FromFile(c))
  <2>1. ASSUME NEW a \in Addrs, FromFile(c)[a] # NoObject
        PROVE  Normal(FromFile(c)[a].note) = FromFile(c)[a].note
    <3>1. c[a] \in Objects /\ FromFile(c)[a] = [c[a] EXCEPT !.note = Normal(@)]
      BY <1>3, <1>4, <2>1
    <3>2. FromFile(c)[a].note = Normal(c[a].note) /\ Normal(Normal(c[a].note)) = Normal(c[a].note)
      BY <1>1, <3>1
    <3> QED BY <3>2
  <2> QED BY <2>1 DEF Tidy
<1>7. ASSUME Tidy(c) PROVE FromFile(c) = c
  <2>1. \A a \in Addrs : FromFile(c)[a] = c[a]
    BY <1>1, <1>3, <1>4, <1>7 DEF Tidy
  <2> QED BY <1>5, <2>1 DEF Contents
<1> QED BY <1>5, <1>6, <1>7

\* An object that is stored is normalised first.
LEMMA StoredTidy ==
    ASSUME NEW c \in Contents, Tidy(c), NEW a \in Addrs, NEW o \in Objects
    PROVE  /\ [o EXCEPT !.note = Normal(@)] \in Objects
           /\ [c EXCEPT ![a] = [o EXCEPT !.note = Normal(@)]] \in Contents
           /\ Tidy([c EXCEPT ![a] = [o EXCEPT !.note = Normal(@)]])
<1> DEFINE s == [o EXCEPT !.note = Normal(@)]
<1>1. s \in Objects /\ Normal(s.note) = s.note
  BY RomDatabaseAssumption DEF Objects
<1> HIDE DEF s
<1>2. [c EXCEPT ![a] = s] \in Contents /\ Tidy([c EXCEPT ![a] = s])
  BY <1>1 DEF Contents, Tidy
<1> QED BY <1>1, <1>2 DEF s

\* The empty database is tidy.
LEMMA EmptyTidy == Empty \in Contents /\ Tidy(Empty)
BY DEF Empty, Contents, Tidy

\* An edit keeps the invariant: it leaves tidy objects, and marks the database
\* unless it changes nothing.
LEMMA EditKeeps ==
    ASSUME DbInv, spc = "idle", UNCHANGED others,
           objects' \in Contents, Tidy(objects'), dirty' \in BOOLEAN,
           ~dirty' => ~dirty /\ objects' = objects
    PROVE  DbInv'
<1> USE DEF others, save
<1>1. DbTypes'
  BY DEF DbInv, DbTypes, Tidy
<1>2. Saving' /\ Readable' /\ SavesToOwnFile'
  BY DEF DbInv, Saving, Readable, SavesToOwnFile
<1>3. CASE dirty'
  BY <1>1, <1>2, <1>3 DEF DbInv, CleanIsSaved
<1>4. CASE ~dirty'
  <2>1. CleanIsSaved'
    BY <1>4 DEF DbInv, CleanIsSaved, FromFile, Empty
  <2> QED BY <1>1, <1>2, <2>1 DEF DbInv
<1> QED BY <1>3, <1>4

\* addObject() is such an edit.
LEMMA AddObjectEdits ==
    ASSUME DbInv, NEW a \in Addrs, NEW o \in Objects, AddObject(a, o)
    PROVE  /\ objects' \in Contents /\ Tidy(objects') /\ dirty' \in BOOLEAN
           /\ ~dirty' => ~dirty /\ objects' = objects
<1>1. CASE objects[a] # NoObject
  BY <1>1 DEF AddObject, DbInv, DbTypes
<1>2. CASE objects[a] = NoObject
  <2>1. objects' = [objects EXCEPT ![a] = [o EXCEPT !.note = Normal(@)]] /\ dirty' = TRUE
    BY <1>2 DEF AddObject
  <2>2. objects' \in Contents /\ Tidy(objects')
    BY <2>1, StoredTidy DEF DbInv, DbTypes
  <2> QED BY <2>1, <2>2
<1> QED BY <1>1, <1>2

\* So is updateObject().
LEMMA PutObjectEdits ==
    ASSUME DbInv, NEW a \in Addrs, NEW o \in Objects, PutObject(a, o)
    PROVE  /\ objects' \in Contents /\ Tidy(objects') /\ dirty' \in BOOLEAN
           /\ ~dirty' => ~dirty /\ objects' = objects
<1> DEFINE s == [o EXCEPT !.note = Normal(@)]
<1>1. objects' = [objects EXCEPT ![a] = s] /\ dirty' = (dirty \/ objects[a] # s)
  BY DEF PutObject
<1>2. objects' \in Contents /\ Tidy(objects')
  BY <1>1, StoredTidy DEF DbInv, DbTypes
<1> HIDE DEF s
<1>3. dirty' \in BOOLEAN
  BY <1>1
<1>4. ASSUME ~dirty' PROVE ~dirty /\ objects' = objects
  <2>1. ~dirty /\ objects[a] = s
    BY <1>1, <1>4
  <2> QED BY <1>1, <2>1 DEF DbInv, DbTypes, Contents
<1> QED BY <1>2, <1>3, <1>4

\* The invariant holds at first.
LEMMA DbInitInv == Init => DbInv
<1> SUFFICES ASSUME Init PROVE DbInv
  OBVIOUS
<1>1. DbTypes
  BY EmptyTidy, RomDatabaseAssumption DEF Init, DbTypes
<1>2. Saving /\ Readable /\ SavesToOwnFile /\ CleanIsSaved
  BY DEF Init, Saving, Readable, SavesToOwnFile, CleanIsSaved
<1> QED BY <1>1, <1>2 DEF DbInv

\* What a load leaves is tidy, and the map's objects are.
LEMMA LoadedTidy ==
    ASSUME DbInv, NEW r \in Roms
    PROVE  /\ LoadedObjects(r) \in Contents /\ Tidy(LoadedObjects(r))
           /\ ImportMap(r, LoadedObjects(r)) \in Contents
           /\ Tidy(ImportMap(r, LoadedObjects(r)))
<1>1. LoadedObjects(r) \in Contents /\ Tidy(LoadedObjects(r))
  BY FromFileTidy, EmptyTidy DEF LoadedObjects
<1>2. Maps[r] # NoMap => Maps[r] \in Contents /\ Tidy(Maps[r])
  BY RomDatabaseAssumption DEF Tidy
<1> QED BY <1>1, <1>2 DEF ImportMap

\* Every step keeps the invariant.
LEMMA DbNextInv ==
    ASSUME ~Concurrent, DbInv, [Next]_vars
    PROVE  DbInv'
<1> USE DEF save, memory
<1>1. ASSUME NEW r \in Roms, LoadRom(r) PROVE DbInv'
  <2>1. spc = "idle" /\ spc' = "idle" /\ UNCHANGED <<disk, into, snap>>
    BY <1>1 DEF LoadRom, MayEdit
  <2>2. /\ objects' = ImportMap(r, LoadedObjects(r)) /\ path' = LoadedPath(r)
        /\ exists' = (disk[r] \in Contents) /\ dirty' = (objects' # LoadedObjects(r))
        /\ rom' = r /\ foreign' = FALSE
    BY <1>1 DEF LoadRom
  <2>3. DbTypes'
    <3>1. dirty' \in BOOLEAN /\ exists' \in BOOLEAN /\ foreign' \in BOOLEAN
      <4>1. dirty' \in BOOLEAN
        BY <2>2
      <4>2. exists' \in BOOLEAN
        BY <2>2
      <4>3. foreign' \in BOOLEAN
        BY <2>2
      <4> QED BY <4>1, <4>2, <4>3
    <3>2. objects' \in Contents /\ Tidy(objects')
      BY <2>2, LoadedTidy
    <3>3. path' \in Roms \cup {NoPath} /\ rom' \in Roms \cup {NoPath}
      BY <2>2 DEF LoadedPath
    <3> QED BY <2>1, <3>1, <3>2, <3>3 DEF DbInv, DbTypes, Tidy
  <2>4. Saving' /\ SavesToOwnFile'
    BY <2>1, <2>2 DEF Saving, SavesToOwnFile, LoadedPath
  <2>5. Readable'
    BY <2>1, <2>2 DEF Readable, LoadedPath
  <2>6. CleanIsSaved'
    <3>1. ASSUME ~dirty', path' # NoPath
          PROVE  path' = r /\ objects' = LoadedObjects(r)
      BY <2>2, <3>1 DEF LoadedPath
    <3>2. disk[r] \in Contents => LoadedObjects(r) = FromFile(disk[r])
      BY DEF LoadedObjects
    <3>3. disk[r] \notin Contents => LoadedObjects(r) = Empty
      BY DEF LoadedObjects
    <3>4. ASSUME ~dirty', exists', path' # NoPath
          PROVE  disk'[path'] \in Contents /\ objects' = FromFile(disk'[path'])
      BY <2>1, <2>2, <3>1, <3>2, <3>4
    <3>5. ASSUME ~dirty', ~exists', path' # NoPath
          PROVE  objects' = Empty
      BY <2>2, <3>1, <3>3, <3>5
    <3> QED BY <3>4, <3>5 DEF CleanIsSaved, FromFile, Empty
  <2> QED BY <2>3, <2>4, <2>5, <2>6 DEF DbInv
<1>2. CASE Reload
  <2>1. /\ spc = "idle" /\ UNCHANGED <<rom, path, disk, spc, snap, into>>
        /\ path # NoPath /\ disk[path] # Absent /\ objects' = LoadedObjects(path)
    BY <1>2 DEF Reload, MayEdit
  <2>2. path \in Roms
    BY <2>1 DEF DbInv, DbTypes
  <2>3. objects' \in Contents /\ Tidy(objects')
    BY <2>1, <2>2, LoadedTidy
  <2>4. CASE disk[path] = Corrupt
    <3>1. foreign /\ UNCHANGED <<dirty, exists, foreign>>
      BY <1>2, <2>1, <2>4 DEF Reload, DbInv, Readable, DbTypes
    <3> QED BY <2>1, <2>3, <3>1
         DEF DbInv, DbTypes, Tidy, Saving, Readable, SavesToOwnFile, CleanIsSaved
  <2>5. CASE disk[path] # Corrupt
    <3>1. disk[path] \in Contents /\ objects' = FromFile(disk[path])
      BY <2>1, <2>2, <2>5 DEF DbInv, DbTypes, LoadedObjects
    <3>2. dirty' = FALSE /\ exists' = TRUE /\ foreign' = FALSE
      BY <1>2, <2>5 DEF Reload
    <3>3. DbTypes'
      BY <2>1, <2>3, <3>2 DEF DbInv, DbTypes, Tidy
    <3>4. Saving' /\ Readable' /\ SavesToOwnFile'
      BY <2>1, <2>5, <3>2 DEF DbInv, Saving, Readable, SavesToOwnFile
    <3>5. CleanIsSaved'
      BY <2>1, <3>1, <3>2 DEF CleanIsSaved, FromFile
    <3> QED BY <3>3, <3>4, <3>5 DEF DbInv
  <2> QED BY <2>4, <2>5
<1>3. ASSUME NEW a \in Addrs, NEW n \in Names, AddRdbObject(a, n) PROVE DbInv'
  <2>1. [name |-> n, note |-> ""] \in Objects
    BY RomDatabaseAssumption DEF Objects
  <2>2. spc = "idle" /\ AddObject(a, [name |-> n, note |-> ""]) /\ UNCHANGED others
    BY <1>3 DEF AddRdbObject, MayEdit, others
  <2> QED BY <2>1, <2>2, AddObjectEdits, EditKeeps
<1>4. ASSUME NEW a \in Addrs, NEW n \in Names, CreateFunction(a, n) PROVE DbInv'
  <2>1. [name |-> n, note |-> ""] \in Objects
    BY RomDatabaseAssumption DEF Objects
  <2>2. spc = "idle" /\ AddObject(a, [name |-> n, note |-> ""]) /\ UNCHANGED others
    BY <1>4 DEF CreateFunction, MayEdit, others
  <2> QED BY <2>1, <2>2, AddObjectEdits, EditKeeps
<1>5. ASSUME NEW a \in Addrs, NEW n \in Names, RenameSymbol(a, n) PROVE DbInv'
  <2>1. spc = "idle" /\ UNCHANGED others
    BY <1>5 DEF RenameSymbol, MayEdit
  <2>2. CASE objects[a] = NoObject
    BY <1>5, <2>1, <2>2, EditKeeps DEF RenameSymbol, DbInv, DbTypes
  <2>3. CASE objects[a] # NoObject
    <3>1. [objects[a] EXCEPT !.name = n] \in Objects
      BY <2>3 DEF DbInv, DbTypes, Contents, Objects
    <3>2. PutObject(a, [objects[a] EXCEPT !.name = n])
      BY <1>5, <2>3 DEF RenameSymbol
    <3> QED BY <2>1, <3>1, <3>2, PutObjectEdits, EditKeeps
  <2> QED BY <2>2, <2>3
<1>6. ASSUME NEW a \in Addrs, NEW o \in Objects, UpdateRdbObject(a, o) PROVE DbInv'
  BY <1>6, PutObjectEdits, EditKeeps DEF UpdateRdbObject, MayEdit, others
<1>7. ASSUME NEW a \in Addrs, NEW c \in Notes, SetComment(a, c) PROVE DbInv'
  <2>1. spc = "idle" /\ UNCHANGED others
    BY <1>7 DEF SetComment, MayEdit
  <2>2. CASE objects[a] = NoObject
    BY <1>7, <2>1, <2>2, EditKeeps DEF SetComment, DbInv, DbTypes
  <2>3. CASE objects[a] # NoObject
    <3>1. [objects[a] EXCEPT !.note = c] \in Objects
      BY <2>3 DEF DbInv, DbTypes, Contents, Objects
    <3>2. PutObject(a, [objects[a] EXCEPT !.note = c])
      BY <1>7, <2>3 DEF SetComment
    <3> QED BY <2>1, <3>1, <3>2, PutObjectEdits, EditKeeps
  <2> QED BY <2>2, <2>3
<1>8. ASSUME NEW a \in Addrs, RemoveRdbObject(a) PROVE DbInv'
  <2>1. /\ spc = "idle" /\ UNCHANGED others
        /\ objects' = [objects EXCEPT ![a] = NoObject] /\ dirty' = TRUE
    BY <1>8 DEF RemoveRdbObject, MayEdit, others
  <2>2. objects' \in Contents /\ Tidy(objects')
    BY <2>1 DEF DbInv, DbTypes, Contents, Tidy
  <2> QED BY <2>1, <2>2, EditKeeps
<1>9. ASSUME NEW a \in Addrs, RemoveSymbol(a) PROVE DbInv'
  BY <1>9, EditKeeps DEF RemoveSymbol, MayEdit, others, DbInv, DbTypes
<1>10. CASE SaveNothing
  BY <1>10 DEF SaveNothing, DbInv, DbTypes, Tidy, Saving, Readable, SavesToOwnFile,
       CleanIsSaved, FromFile, Empty
<1>11. CASE SaveOpen
  BY <1>11 DEF SaveOpen, DbInv, DbTypes, Tidy, Saving, Readable, SavesToOwnFile,
       CleanIsSaved, FromFile, Empty
<1>12. CASE SaveWrite
  BY <1>12 DEF SaveWrite, DbInv, DbTypes, Tidy, Saving, Readable, SavesToOwnFile,
       CleanIsSaved, FromFile, Empty
<1>13. CASE SaveRename
  <2>1. /\ spc = "rename" /\ into \in Roms /\ path = into /\ dirty /\ snap = objects
        /\ UNCHANGED <<rom, objects, path, dirty, exists, snap, into, foreign>>
    BY <1>13 DEF SaveRename, DbInv, Saving
  <2>2. CASE disk' = [disk EXCEPT ![into] = snap] /\ spc' = "mark"
    <3>1. disk'[into] = snap /\ snap \in Contents
      BY <2>1, <2>2 DEF DbInv, DbTypes
    <3>2. DbTypes'
      BY <2>1, <2>2, <3>1 DEF DbInv, DbTypes, Tidy
    <3> QED BY <2>1, <2>2, <3>1, <3>2, RomDatabaseAssumption
         DEF DbInv, Saving, Readable, SavesToOwnFile, CleanIsSaved
  <2>3. CASE disk' = disk /\ spc' = "idle"
    BY <2>1, <2>3 DEF DbInv, DbTypes, Tidy, Saving, Readable, SavesToOwnFile, CleanIsSaved
  <2> QED BY <1>13, <2>2, <2>3 DEF SaveRename
<1>14. CASE SaveMark
  <2>1. /\ into \in Roms /\ path = into /\ snap = objects /\ disk[into] = objects
        /\ UNCHANGED <<rom, objects, disk, snap, into>>
        /\ path' = into /\ dirty' = FALSE /\ exists' = TRUE /\ foreign' = FALSE /\ spc' = "idle"
    BY <1>14 DEF SaveMark, DbInv, Saving
  <2>2. FromFile(objects) = objects /\ objects \in Contents
    BY FromFileTidy DEF DbInv, DbTypes
  <2>3. DbTypes'
    BY <2>1 DEF DbInv, DbTypes, Tidy
  <2>4. Saving' /\ SavesToOwnFile'
    BY <2>1 DEF DbInv, Saving, SavesToOwnFile
  <2>5. Readable'
    BY <2>1, <2>2, RomDatabaseAssumption DEF Readable
  <2>6. CleanIsSaved'
    BY <2>1, <2>2 DEF CleanIsSaved, FromFile
  <2> QED BY <2>3, <2>4, <2>5, <2>6 DEF DbInv
<1>15. CASE Restart
  <2>1. DbTypes'
    BY <1>15, EmptyTidy DEF Restart, Fresh, DbInv, DbTypes
  <2>2. Saving' /\ Readable' /\ SavesToOwnFile' /\ CleanIsSaved'
    BY <1>15 DEF Restart, Fresh, Saving, Readable, SavesToOwnFile, CleanIsSaved
  <2> QED BY <2>1, <2>2 DEF DbInv
<1>16. CASE ForeignWrite
  <2>1. /\ spc = "idle" /\ foreign' = TRUE /\ path \in Roms
        /\ UNCHANGED <<rom, path, dirty, exists, objects, spc, snap, into>>
    BY <1>16 DEF ForeignWrite, DbInv, DbTypes
  <2>2. disk' \in [Roms -> Contents \cup {Absent, Corrupt}]
    BY <1>16, <2>1, RomDatabaseAssumption DEF ForeignWrite, DbInv, DbTypes
  <2> QED BY <2>1, <2>2 DEF DbInv, DbTypes, Tidy, Saving, Readable, SavesToOwnFile, CleanIsSaved
<1>17. CASE UNCHANGED vars
  BY <1>17 DEF vars, DbInv, DbTypes, Tidy, Saving, Readable, SavesToOwnFile, CleanIsSaved,
       FromFile, Empty
<1> QED BY <1>1, <1>2, <1>3, <1>4, <1>5, <1>6, <1>7, <1>8, <1>9, <1>10, <1>11, <1>12,
       <1>13, <1>14, <1>15, <1>16, <1>17 DEF Next

\* The only step that changes a file between two states nothing else has
\* written is the rename, which puts the whole database there.
LEMMA FilesStep ==
    ASSUME DbInv, [Next]_vars, NEW r \in Roms, disk'[r] # disk[r], ~foreign, ~foreign'
    PROVE  disk[r] # Corrupt /\ disk'[r] \in Contents /\ disk'[r] = FromFile(disk'[r])
<1> USE DEF save, memory
<1>1. CASE SaveRename
  <2>1. /\ into \in Roms /\ path = into /\ snap = objects
        /\ disk' = disk \/ disk' = [disk EXCEPT ![into] = snap]
    BY <1>1 DEF SaveRename, DbInv, Saving
  <2>2. r = into /\ disk'[r] = objects
    BY <2>1 DEF DbInv, DbTypes
  <2>3. objects \in Contents /\ FromFile(objects) = objects
    BY FromFileTidy DEF DbInv, DbTypes
  <2>4. disk[r] # Corrupt
    BY <2>1, <2>2, RomDatabaseAssumption DEF DbInv, Readable
  <2> QED BY <2>2, <2>3, <2>4
<1>2. CASE ForeignWrite
  BY <1>2 DEF ForeignWrite
<1>3. CASE ~SaveRename /\ ~ForeignWrite
  <2>1. disk' = disk
    BY <1>3 DEF Next, vars, LoadRom, Reload, AddRdbObject, CreateFunction, RenameSymbol,
         UpdateRdbObject, SetComment, RemoveRdbObject, RemoveSymbol, SaveNothing, SaveOpen,
         SaveWrite, SaveMark, Restart, others
  <2> QED BY <2>1
<1> QED BY <1>1, <1>2, <1>3

-----------------------------------------------------------------------------
\* The invariant of the controller and its files, as long as an edit and a
\* save do not overlap.
THEOREM DatabaseInv == ASSUME ~Concurrent PROVE Spec => []DbInv
<1>1. DbInv /\ [Next]_vars => DbInv'
  BY DbNextInv
<1> QED BY <1>1, DbInitInv, PTL DEF Spec

\* A database that says it is unmodified is the one in its file
\* (RdbController::isDirty, saveAs, load).
THEOREM CleanMeansSaved == ASSUME ~Concurrent PROVE Spec => []CleanIsSaved
<1>1. DbInv => CleanIsSaved
  BY DEF DbInv
<1> QED BY <1>1, DatabaseInv, PTL

\* A database is saved to the file of its own ROM or nowhere
\* (DebugBackend::loadRdb closes the previous one first).
THEOREM SavedToOwnFile == ASSUME ~Concurrent PROVE Spec => []SavesToOwnFile
<1>1. DbInv => SavesToOwnFile
  BY DEF DbInv
<1> QED BY <1>1, DatabaseInv, PTL

\* A save puts a whole database in place of a whole one, wherever it fails and
\* wherever the program ends (the temporary file and the rename of saveAs).
THEOREM FilesRemainWhole == ASSUME ~Concurrent PROVE Spec => FilesStayWhole
<1>1. DbInv /\ [Next]_vars =>
        [\A r \in Roms : disk'[r] # disk[r] /\ ~foreign /\ ~foreign' =>
           disk[r] # Corrupt /\ disk'[r] \in Contents /\ disk'[r] = FromFile(disk'[r])]_vars
  BY FilesStep
<1> QED BY <1>1, DatabaseInv, PTL DEF Spec, FilesStayWhole

\* A ROM load leaves no symbol of a map or a database behind that the new ROM
\* does not define (clearMapSymbols, then syncRdbToSymbolDatabase), with other
\* threads editing or not.
THEOREM PreviousRomIsForgotten == Spec => PreviousRomForgotten
<1>1. ASSUME Next, rom' # rom, NEW a \in Addrs,
             symbols'[a] # NoSymbol, symbols'[a].fromMap
      PROVE  objects'[a] # NoObject /\ symbols'[a].name = objects'[a].name
  <2>1. Restart \/ \E r \in Roms : LoadRom(r)
    BY <1>1 DEF Next, Reload, AddRdbObject, CreateFunction, RenameSymbol, UpdateRdbObject,
         SetComment, RemoveRdbObject, RemoveSymbol, SaveNothing, SaveOpen, SaveWrite,
         SaveRename, SaveMark, ForeignWrite, others, memory
  <2>2. ~Restart
    BY <1>1 DEF Restart, Fresh
  <2>3. symbols' = SyncRdbToSymbolDatabase(objects', ClearMapSymbols(symbols))
    BY <2>1, <2>2 DEF LoadRom
  <2> DEFINE kept == ClearMapSymbols(symbols)[a]
  <2>4. kept # NoSymbol => ~kept.fromMap
    BY DEF ClearMapSymbols
  <2>5. symbols'[a] = IF kept = NoSymbol /\ objects'[a] # NoObject
                      THEN [name |-> objects'[a].name, note |-> objects'[a].note, fromMap |-> TRUE]
                      ELSE kept
    BY <2>3 DEF SyncRdbToSymbolDatabase
  <2> QED BY <1>1, <2>4, <2>5
<1>2. [Next]_vars =>
        [rom' # rom => \A a \in Addrs :
           symbols'[a] # NoSymbol /\ symbols'[a].fromMap =>
              objects'[a] # NoObject /\ symbols'[a].name = objects'[a].name]_vars
  BY <1>1
<1> QED BY <1>2, PTL DEF Spec, PreviousRomForgotten
=============================================================================
