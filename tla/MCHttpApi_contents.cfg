CONSTANTS
  NoFamilies = NoFamilies
  NoDone = NoDone
  NoMeaning = NoMeaning
  LabelOrder <- MCLabelOrder
  OwnFamilies <- MCOwnFamilies
  Requests <- MCMeant
  HttpRequests <- MCHttpRequests
  RawURLEncoding <- MCRawURLEncoding
  UTF8Names = TRUE
  EscapedNames <- MCEscapedNames
  LegacyNames = {"instance", "job", "x", "y"}
  ReservedTexts <- MCReservedTexts
  Callers = {c1}
  Times = {1, 2, 3}
  Checked = TRUE
  MaxRequests = 3
  MaxRestarts = 0
SPECIFICATION HttpSpec
INVARIANTS
  TypeOK
  GroupsWellFormed
  BucketsCountObservations
PROPERTIES
  AcceptedPushesGather
  OtherGroupsUntouched
  RejectedPushLosesNothing
  FailureTimeRetained
  LastPushReported
  ServesDictionary
CHECK_DEADLOCK FALSE
