SPECIFICATION Spec
CONSTANTS
  None = None
  x = x
  X = X
  y = y
  z = z
  o = o
  Scalars = {x, y, o}
  Elements = {x, y}
  Strings = {x, X}
  Numbers = {y, z}
  LowerCase <- Lower
  Below <- Order
  WriteRequestLists <- ModelWrites
  EventlessUpdates = {}
  EventlessDeletes = {}
  EventlessCollections = {"w"}
  ReserveAmounts = {}
  AllowTruncate = FALSE
  ReadRequests <- ModelReads
  FilterRequests <- ModelFilters
  EventMigrations <- ModelEventMigrations
  ModelMigrations <- ModelModelMigrations
  MaxPosition = 4
  MaxMessages = 4
  MaxReservations = 0
INVARIANTS TypeOk HistoryFaithful ReadsAtPositionsAgree LockTablesComplete
  ReadersAgreeOnLiveModels MigratedAlike
PROPERTIES BusAnnouncesChanges
CHECK_DEADLOCK FALSE
