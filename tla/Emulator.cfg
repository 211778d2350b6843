SPECIFICATION Spec
CONSTANTS
  NBuffers = 2
  FrameSize = 2
  MaxFrame = 2
  MaxQueue = 2
  MaxCallbacks = 4
  MaxInput <- Inputs
  MaxPackets <- Packets
INVARIANTS
  HeardInOrder
PROPERTIES
  EndsInOrder
  Continues
CHECK_DEADLOCK FALSE
