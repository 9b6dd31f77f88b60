SPECIFICATION EngineFairSpec
CONSTANTS
  Worker = {w1, w2}
  MaxJobs = 2
  MaxBatches = 2
  Dependencies = {0}
  MaximumReadJobHandle = 2
  Query <- MCQuery
  FixedPlans <- NoPlans
  RenderPlans <- NoPlans
  MayThrow = FALSE
PROPERTIES
  RenderAnswered
CHECK_DEADLOCK FALSE
