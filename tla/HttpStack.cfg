CONSTANTS
  Requests = {r1}
  Sockets = {s1}
  MaxServers = 2
  MaxStarts = 2
SPECIFICATION FairSpec
CHECK_DEADLOCK FALSE
INVARIANTS
  InstalledRuns
  ServedUnderOwnConfig
  NoOrphan
PROPERTIES
  OperationReturns
