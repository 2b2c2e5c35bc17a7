CONSTANTS
  NoFamilies = NoFamilies
  NoDone = NoDone
  LabelOrder <- MCLabelOrder
  OwnFamilies <- MCOwnFamilies
  Requests <- MCRequests
  Callers = {c1}
  Times = {1, 2, 3}
  Checked = TRUE
  MaxRequests = 3
  MaxRestarts = 0
SPECIFICATION Spec
INVARIANTS
  PushMetricsAreOwn
CHECK_DEADLOCK FALSE
