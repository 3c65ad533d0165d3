SPECIFICATION Spec
CONSTANTS
  Depth = 2
  Pairs = 2
  Capacity = 6
  MaxCommands = 3
  MaxAttempts = 2
  MaxSamples = 6
INVARIANTS StreamAccounted AckedIsApplied TransmitterOff
PROPERTY LastCommandApplied
CHECK_DEADLOCK FALSE
