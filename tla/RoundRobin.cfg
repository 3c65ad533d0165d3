SPECIFICATION Spec
CONSTANTS
  First = 0
  Last = 3
  Final = 4
  Publisher <- MCPublisher
  Chunk = 2
  BufferItems = 3
  Budget = 3
  Total = 5
  MaxPosts = 3
INVARIANTS ExactCount MessagesHeard SleepsOnlyWhenIdle
PROPERTY RunEnds
CHECK_DEADLOCK FALSE
