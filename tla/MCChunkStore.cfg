SPECIFICATION Spec
CONSTANTS
  Thread = {t1}
  ChunkBunchCount = 2
  BitmaskSize = 2
  Address = {1, 2, 3, 4, 5}
INVARIANTS
  TableConsistent
PROPERTIES
  OutOfMemoryMeansFull
CHECK_DEADLOCK FALSE
