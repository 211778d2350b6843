SPECIFICATION Spec
CONSTANTS
  b1 = b1
  b2 = b2
  NoEntry = NoEntry
  Blocks = {b1, b2}
  Capacity = 4
  MaxSeq = 3
SYMMETRY BlockSymmetry
INVARIANTS
  LogRestartsTwice
  MapMissesOne
PROPERTIES
  ImplementsLog
