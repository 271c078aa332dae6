SPECIFICATION Spec
CONSTANTS
  InitialIndices <- FirstIndex
  ModelMigrations = FALSE
  FirstWriteOpen = TRUE
  StopSteps <- AllSteps
  MaxPosition = 2
  MaxTarget = 2
  MaxStops = 1
INVARIANTS EventsHaveTheirIndex
CHECK_DEADLOCK FALSE
