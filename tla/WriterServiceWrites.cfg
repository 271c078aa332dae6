SPECIFICATION FairSpec
CONSTANTS
  w1 = w1
  w2 = w2
  r1 = r1
  r2 = r2
  Writers = {w1, w2}
  Reservers = {r1}
  NoThread = NoThread
  RequestsOf <- Requests
  CreateId <- Ids
  Amount <- Amounts
  MaxRetries = 2
  MaxCrashes = 1
INVARIANTS TypeOk WriteInv AtMostOnce AllOrNothing AnswersAreTrue
PROPERTIES ImplementsSerialWrites PositionsVisibleInOrder MessagesInOrder EveryCallAnswered
CHECK_DEADLOCK FALSE
