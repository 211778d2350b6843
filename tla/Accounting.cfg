SPECIFICATION Spec
CONSTANTS
  Top = 8
  First <- AllOpcodes
  Second <- Tail3
  Programs <- Images
  DataAddrs = {0, 5}
  Targets = {3, 7}
  MaxInstr = 3
INVARIANTS
  AccessesClassified
  CountsExact
PROPERTIES
  NumbersTellInstructionsApart
CHECK_DEADLOCK FALSE
