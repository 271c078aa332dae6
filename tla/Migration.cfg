SPECIFICATION FairSpec
CONSTANTS
  InitialIndices <- AnyIndex
  ModelMigrations = TRUE
  FirstWriteOpen = FALSE
  StopSteps <- NotAfterSwap
  MaxPosition = 4
  MaxTarget = 3
  MaxStops = 2
INVARIANTS TypeOk KeyframesFaithful EventsHaveTheirIndex ModelsMatchEventsOnline
  LockTablesFresh UniformIndexOnline ModelMigrationsOnce
PROPERTIES BackUnlessIndicesDiffer
CHECK_DEADLOCK FALSE
