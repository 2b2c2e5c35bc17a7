CONSTANTS
  NoFamilies = NoFamilies
  NoDone = NoDone
  LabelOrder <- MCLabelOrder
  OwnFamilies <- MCOwnFamilies
  Requests <- MCTwoGroups
  HttpRequests <- MCTwoGroups
  Endings = {"quit", "signal", "failure"}
  Callers = {c1, c2}
  Times <- MCTimes
  Checked = TRUE
  writeQueueCapacity = 1
  Persistent = FALSE
  DiskFaults = FALSE
  MayShutdown = TRUE
  MaxRequests = 9
  MaxRestarts = 0
  MaxArrivals = 3
SPECIFICATION GatewaySpec
INVARIANTS
  GatewayTypeOK
  AnswersAgreeWithMetrics
CHECK_DEADLOCK FALSE
