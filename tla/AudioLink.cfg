SPECIFICATION FairSpec
CONSTANTS
  Capacity = 4
  Quantum = 2
  MaxItems = 3
  MaxFrames = 8
  StallWaits = 2
  Kinds <- AllKinds
  NoFrame = NoFrame
INVARIANTS FramesAccounted
PROPERTIES NeverWedged ProcessorEnds
CHECK_DEADLOCK FALSE
