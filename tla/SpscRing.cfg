SPECIFICATION FairSpec
CONSTANTS
  Capacity = 5
  Total = 9
  Stream <- Numbered
  NoItem = NoItem
INVARIANTS
  ItemsInOrder
  NoSharedSlot
PROPERTIES
  FifoSpec
  EverythingArrives
