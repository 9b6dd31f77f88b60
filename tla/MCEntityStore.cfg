SPECIFICATION FairSpec
CONSTANTS
  Thread = {t1, t2}
  BlockCount = 2
  EntitiesInBlock = 2
  MaxRequest = 2
  MaxCalls = 4
INVARIANTS
  BlockLock
  CountMatchesBitmap
  NoInternalError
  HandlesUnique
  LiveHandleInPlace
PROPERTIES
  StaleForever
  AllocationEnds
CHECK_DEADLOCK FALSE
