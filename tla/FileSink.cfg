SPECIFICATION FairSpec
CONSTANTS
  Capacity = 4
  Total = 6
  MaxInput = 3
  MaxChunk = 2
  Kinds <- DiskOrMemory
  MaxDownload = 4
  None = None
INVARIANTS FileInOrder ClosedIsComplete MetaMatchesData SilenceMeansSaved
PROPERTIES StopCompletes OpenWriterAnswers RingSpec
CHECK_DEADLOCK FALSE
