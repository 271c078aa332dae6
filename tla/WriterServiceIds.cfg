SPECIFICATION Spec
CONSTANTS
  w1 = w1
  w2 = w2
  r1 = r1
  r2 = r2
  Writers = {w2}
  Reservers = {r1, r2}
  NoThread = NoThread
  RequestsOf <- Requests
  CreateId <- Ids
  Amount <- Amounts
  MaxRetries = 2
  MaxCrashes = 1
INVARIANTS IdInv ReservedOnce
PROPERTIES ReservedAreFree
CHECK_DEADLOCK FALSE
