SPECIFICATION FairSpec
CONSTANTS
  p1 = p1
  c1 = c1
  c2 = c2
  None = None
  Clients = {p1}
  Commands = {c1, c2}
  Ops = {"Run", "Step", "Reset", "LoadRom", "LoadWav", "Edit", "Trace", "Pause", "Quit", "AgentStep"}
  MaxTrace = 1
  FreedReads = {"Completed"}
INVARIANTS
  TypeOK
  FlagsAgree
  OverlapOnlyInStoppedFrame
PROPERTIES
  CallsReturn
  QuitTerminates
  PauseHonoured
