SPECIFICATION EngineFairSpec
CONSTANTS
  Worker = {w1, w2}
  MaxJobs = 2
  MaxBatches = 2
  Dependencies = {0}
  MaximumReadJobHandle = 2
  Query <- MCQuery
  FixedPlans <- MCPlans
  RenderPlans <- NoPlans
  MayThrow = TRUE
INVARIANTS
  BatchOnce
  NoJobSkipped
  RoundComplete
  WriteFenceIsLastWriter
  SystemsAlone
  RequestsKept
  RoomForRound
PROPERTIES
  ImplementsJobPool
  ExitServed
  ShutdownCompletes
CHECK_DEADLOCK FALSE
