SPECIFICATION Spec
CONSTANTS
  p1 = p1
  p2 = p2
  c1 = c1
  c2 = c2
  None = None
  Clients = {p1, p2}
  Commands = {c1, c2}
  Ops = {"RunFuture", "Trace", "Quit"}
  MaxTrace = 2
  FreedReads = {"Completed"}
SYMMETRY Symmetry
INVARIANTS
  FuturesKept
CHECK_DEADLOCK FALSE
