SPECIFICATION OccSpec
CONSTANTS
  None = None
  x = x
  y = y
  Scalars = {x, y}
  Elements = {x, y}
  WriteRequestLists <- OtherWrites
  EventlessUpdates = {}
  EventlessDeletes = {}
  EventlessCollections = {"w"}
  ReserveAmounts = {}
  AllowTruncate = FALSE
  MaxPosition = 4
  MaxMessages = 4
  MaxReservations = 0
  Modes = {"fqid", "fqfield", "aggregate", "filter", "scope"}
  Target <- A1
  TargetFields = {"f", "g"}
  FieldsPerClient = 2
  Collection = "a"
  Filter <- FEqualsX
  ClientEvents <- SetA2
PROPERTIES OccSoundUnfiltered LockerSound ReadAgainIsNewer
CHECK_DEADLOCK FALSE
