SPECIFICATION FairSpec
CONSTANTS
  Worker = {w1, w2}
  MaxJobs = 2
  MaxBatches = 2
  Dependencies = {0, 1}
PROPERTIES
  RoundEnds
CHECK_DEADLOCK FALSE
