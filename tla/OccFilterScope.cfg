SPECIFICATION OccSpec
CONSTANTS
  None = None
  x = x
  y = y
  Scalars = {x, y}
  Elements = {x, y}
  WriteRequestLists <- OtherWrites
  EventlessUpdates = {}
  EventlessDeletes = {}
  EventlessCollections = {"w"}
  ReserveAmounts = {}
  AllowTruncate = FALSE
  MaxPosition = 4
  MaxMessages = 4
  MaxReservations = 0
  Modes = {"scope"}
  Target <- A1
  TargetFields = {"f", "g"}
  FieldsPerClient = 1
  Collection = "a"
  Filter <- FEqualsX
  ClientEvents <- SetA2
PROPERTIES OccSound
CHECK_DEADLOCK FALSE
