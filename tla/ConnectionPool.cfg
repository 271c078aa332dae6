SPECIFICATION FairSpec
CONSTANTS
  t1 = t1
  t2 = t2
  t3 = t3
  Threads <- ThreeThreads
  MinConn = 1
  MaxConn = 2
  MaxCalls = 2
  MaxOutages = 1
  MaxCommitFailures = 1
  MaxConnectFailures = 1
  MaxFailovers = 1
INVARIANTS TypeOk OneOwner NoLeak NoLostWakeup
PROPERTIES CallsEnd
CHECK_DEADLOCK FALSE
