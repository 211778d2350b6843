SPECIFICATION Spec
CONSTANTS
  a1 = a1
  a2 = a2
  n1 = n1
  n2 = n2
  r1 = r1
  r2 = r2
  Roms = {r1, r2}
  Addrs = {a1, a2}
  Names = {n1, n2}
  Notes <- ThreeNotes
  Normal <- OneLine
  Maps <- MapOfFirst
  Files <- FilesBefore
  Absent = Absent
  Corrupt = Corrupt
  NoPath = NoPath
  NoObject = NoObject
  NoSymbol = NoSymbol
  NoMap = NoMap
  Concurrent = FALSE
  MaxEdits = 5
INVARIANTS
  CleanIsSaved
  SavesToOwnFile
PROPERTIES
  FilesStayWhole
  PreviousRomForgotten
CHECK_DEADLOCK FALSE
