CONSTANTS
  NoFamilies = NoFamilies
  NoDone = NoDone
  LabelOrder <- MCLabelOrder
  OwnFamilies <- MCOwnFamilies
  Requests <- MCOneRequest
  Callers = {c1}
  Times = {1}
  Checked = TRUE
  writeQueueCapacity = 1
  Persistent = TRUE
  DiskFaults = FALSE
  MayShutdown = FALSE
  MaxRequests = 2
  MaxRestarts = 0
SPECIFICATION FairSpec
PROPERTIES
  EveryWritePersisted
CHECK_DEADLOCK FALSE
