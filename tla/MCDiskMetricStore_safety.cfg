CONSTANTS
  NoFamilies = NoFamilies
  NoDone = NoDone
  LabelOrder <- MCLabelOrder
  OwnFamilies <- MCOwnFamilies
  Requests <- MCRequests
  Callers = {c1, c2}
  Times = {1}
  Checked = TRUE
  writeQueueCapacity = 1
  Persistent = TRUE
  DiskFaults = TRUE
  MayShutdown = TRUE
  MaxRequests = 3
  MaxRestarts = 1
SPECIFICATION Spec
INVARIANTS
  TypeOK
  DrainedToDisk
  NoWaiterForgotten
PROPERTIES
  KeepsPromises
  OnePersistAtATime
CHECK_DEADLOCK FALSE
