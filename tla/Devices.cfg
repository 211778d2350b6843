SPECIFICATION Spec
CONSTANTS
  FdTracks = 1
  FdSectors = 2
  FdSectorSize = 2
  FdCommands = {"restore", "seek", "out", "read", "write", "address", "force"}
  FdShort = {3}
  FdMaxCommands = 2
  TmBase = 2
  TmMaxOps = 7
  FrameLen = 3
  IntMaxUser = 3
  PgSize = 16
  PgPages = 2
  PgBoot = 2
  PgAddrs = {0, 3, 10}
  PgImages <- Images
  PgMaxOps = 3
  GdbSessions = 2
  GdbMaxOps = 3
INVARIANTS
  TransfersWholeSectors
  FileKeepsUp
  CounterKeepsTime
  LatchedReadWhole
  InterruptAskedFor
  ReturnsAfterHlt
  PagesKept
  StopIsReported
PROPERTIES
  DriverFinishes
  HltWakes
CHECK_DEADLOCK FALSE
