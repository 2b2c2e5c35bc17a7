CONSTANTS
  NoFamilies = NoFamilies
  NoDone = NoDone
  LabelOrder <- MCLabelOrder
  OwnFamilies <- MCOwnFamilies
  Requests <- MCOneGroup
  HttpRequests <- MCPushes
  Endings = {"quit"}
  Callers = {c1, c2}
  Times <- MCTimes
  Checked = TRUE
  writeQueueCapacity = 1
  Persistent = FALSE
  DiskFaults = FALSE
  MayShutdown = TRUE
  MaxRequests = 9
  MaxRestarts = 0
  MaxArrivals = 3
SPECIFICATION GatewayFairSpec
PROPERTIES
  WipeRemovesSnapshot
  EveryHandlerEnds
  QuitEndsProcess
CHECK_DEADLOCK FALSE
