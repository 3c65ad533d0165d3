SPECIFICATION FairSpec
CONSTANTS
  Capacity = 4
  Length = 4
  ItemSize = 2
  MaxChunk = 3
  MaxOutput = 3
  MaxRetries = 2
  MaxPasses = 3
  Kinds <- OnceOrRepeated
  TagPlan <- EndsTagged
  NoItem = NoItem
INVARIANTS OutputIsSelection TagsOnTheirSamples OnlyDeadLinksGiveUp EofMeansPublished
PROPERTIES StopCompletes PassEnds RingSpec
