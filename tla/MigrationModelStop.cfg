SPECIFICATION FairSpec
CONSTANTS
  InitialIndices <- FirstIndex
  ModelMigrations = TRUE
  FirstWriteOpen = FALSE
  StopSteps <- ModelSteps
  MaxPosition = 2
  MaxTarget = 2
  MaxStops = 1
PROPERTIES BackOnline
CHECK_DEADLOCK FALSE
