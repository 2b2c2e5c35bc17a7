SPECIFICATION Spec
CONSTANTS
  k1 = k1
  k2 = k2
  r1 = r1
  Keys = {k1, k2}
  Names <- MCNames
  predefinedHelp = {"m"}
  Pushes <- MCPushes
  Readers = {r1}
  Check = Check
  MaxPushes = 3
  MaxReads = 1
SYMMETRY MCSymmetry
INVARIANTS
  TypeOK
  StoredUnchanged
  GatheredFaithful
  SnapshotStable
PROPERTIES
  CheckIsDry
CHECK_DEADLOCK FALSE
