SPECIFICATION CDMSpec
CONSTANTS
  Worker = {w1, w2}
  MaxJobs = 3
  MaxBatches = 2
  Dependencies = {0}
  MaximumReadJobHandle = 2
  Query <- MCQuery
SYMMETRY Symmetry
INVARIANTS
  ConflictsSerialised
CHECK_DEADLOCK FALSE
