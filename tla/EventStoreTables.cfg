SPECIFICATION Spec
CONSTANTS
  None = None
  x = x
  X = X
  y = y
  z = z
  o = o
  Scalars = {x, y, o}
  Elements = {x, y}
  Strings = {x, X}
  Numbers = {y, z}
  LowerCase <- Lower
  Below <- Order
  WriteRequestLists <- TableWrites
  EventlessUpdates <- WorkerWrites
  EventlessDeletes <- WorkerDeletes
  EventlessCollections = {"w"}
  ReserveAmounts <- Reserve
  AllowTruncate = TRUE
  ReadRequests = {}
  FilterRequests = {}
  EventMigrations <- NoMigrations
  ModelMigrations <- NoMigrations
  MaxPosition = 3
  MaxMessages = 2
  MaxReservations = 2
INVARIANTS UniformMigrationIndex ReservationsDisjoint ImportRestores
PROPERTIES ReservedIdsAreFree
CHECK_DEADLOCK FALSE
