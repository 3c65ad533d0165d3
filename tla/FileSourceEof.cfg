SPECIFICATION Spec
CONSTANTS
  Capacity = 4
  Length = 4
  ItemSize = 2
  MaxChunk = 3
  MaxOutput = 3
  MaxRetries = 2
  MaxPasses = 1
  Kinds <- Once
  TagPlan <- EndsTagged
  NoItem = NoItem
INVARIANT ReadToItsEnd
