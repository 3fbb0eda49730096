SPECIFICATION Spec
CONSTANTS
  k1 = k1
  k2 = k2
  Connections <- MCConnections
  Requests <- MCRequests
  Logins = 2
  HalfSize = 4
  None = None
INVARIANTS
  OwnPortIsNoConflict
CHECK_DEADLOCK FALSE
