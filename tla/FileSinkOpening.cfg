SPECIFICATION FairSpec
CONSTANTS
  Capacity = 4
  Total = 1
  MaxInput = 3
  MaxChunk = 2
  Kinds <- PatientDisk
  MaxDownload = 4
  None = None
PROPERTY WriterAnswers
CHECK_DEADLOCK FALSE
