CONSTANTS
  NoFamilies = NoFamilies
  NoDone = NoDone
  LabelOrder <- MCLabelOrder
  OwnFamilies <- MCOwnFamilies
  Requests <- MCPushes
  Callers = {c1, c2}
  Times = {1}
  Checked = TRUE
  writeQueueCapacity = 1
  Persistent = TRUE
  DiskFaults = FALSE
  MayShutdown = TRUE
  MaxRequests = 3
  MaxRestarts = 0
SPECIFICATION FairSpec
INVARIANTS
  LagAtMostOne
PROPERTIES
  EveryWaiterAnswered
  ShutdownTerminates
  AllButTheLastPersisted
CHECK_DEADLOCK FALSE
