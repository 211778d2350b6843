SPECIFICATION Spec
CONSTANTS
  p1 = p1
  p2 = p2
  c1 = c1
  c2 = c2
  c3 = c3
  None = None
  Clients = {p1, p2}
  Commands = {c1, c2, c3}
  Ops = {"RunFuture", "Write", "Trace", "Quit", "Reset", "Pause"}
  MaxTrace = 1
  FreedReads = {"Completed"}
SYMMETRY Symmetry
INVARIANTS
  Ownership
  TimeoutMeansNotExecuted
  ExitAnswersAll
  NoPromiseForgotten
PROPERTIES
  PromiseSetOnce
  ImplementsService
  FulfilledMeansPaused
CHECK_DEADLOCK FALSE
