SPECIFICATION FairSpec
CONSTANTS
  k1 = k1
  k2 = k2
  Connections <- MCConnections
  Requests <- MCRequests
  Logins = 2
  HalfSize = 4
  None = None
INVARIANTS
  TypeOK
  TokenIsWhole
  AbortsOnlyWhenPortTaken
  PageMeansToken
PROPERTIES
  OutcomeReachesCaller
CHECK_DEADLOCK FALSE
