CONSTANTS
  NoFamilies = NoFamilies
  NoDone = NoDone
  LabelOrder <- MCLabelOrder
  OwnFamilies <- MCOwnFamilies
  Requests <- MCOneRequest
  Callers = {c1}
  Times = {1}
  Checked = TRUE
  writeQueueCapacity = 1
  Persistent = FALSE
  DiskFaults = FALSE
  MayShutdown = TRUE
  MaxRequests = 1
  MaxRestarts = 0
SPECIFICATION FairSpec
PROPERTIES
  DoneAlwaysClosed
CHECK_DEADLOCK FALSE
