CONSTANTS
  NoFamilies = NoFamilies
  NoDone = NoDone
  LabelOrder <- MCLabelOrder
  OwnFamilies <- MCOwnFamilies
  Requests <- MCOneRequest
  Callers = {c1}
  Times = {1, 2}
  Checked = TRUE
  writeQueueCapacity = 1
  Persistent = TRUE
  DiskFaults = FALSE
  MayShutdown = TRUE
  MaxRequests = 2
  MaxRestarts = 0
SPECIFICATION Spec
INVARIANTS
  ShutdownPersists
CHECK_DEADLOCK FALSE
