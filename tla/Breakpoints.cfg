SPECIFICATION Spec
CONSTANTS
  Addrs <- MCAddrs
  Succ <- MCSucc
  Fall <- MCFall
  Start = 0
  Vector = 2
  MaxCalls = 6
  NoAddr = NoAddr
INVARIANTS
  ListsAgree
  NoMissedBreakpoint
PROPERTIES
  RunMakesProgress
  SkipKeepsEnabled
