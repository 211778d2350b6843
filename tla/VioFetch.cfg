SPECIFICATION Spec
CONSTANTS
  Top = 8
  First <- Conditional
  Second <- Tail3
  Programs <- Images
  DataAddrs = {0, 5}
  Targets = {3, 7}
  MaxInstr = 3
INVARIANT
  FetchesStayInside
CHECK_DEADLOCK FALSE
