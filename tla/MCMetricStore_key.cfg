CONSTANTS
  NoFamilies = NoFamilies
  NoDone = NoDone
  LabelOrder <- MCLabelOrder
  OwnFamilies <- MCOwnFamilies
  Requests <- MCKeys
  Callers = {c1}
  Times = {1, 2, 3}
  Checked = TRUE
  MaxRequests = 3
  MaxRestarts = 0
SPECIFICATION Spec
INVARIANTS
  KeysAreUnique
CHECK_DEADLOCK FALSE
