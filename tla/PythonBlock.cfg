SPECIFICATION FairSpec
CONSTANTS
  b1 = b1
  b2 = b2
  Block = {b1, b2}
  Forecasts = {b1}
  Callback = {c1, c2}
  Tunable <- MCTunable
  MaxCalls <- MCMaxCalls
  MaxSets = 2
  None = None
INVARIANTS RanInOrder WorkAnswers NoUpdateLost
PROPERTY ThreadsEnd
CHECK_DEADLOCK FALSE
