SPECIFICATION FairSpec
CONSTANTS
  ImportTries = 5
  TunnelTries = 5
  IntrospectTries = 20
  ReadyTries = 20
  WaitPasses = 3
  Dispatchers = {"self", "gtk"}
  Wordings = {"silent", "Capitalised", "UPPERCASE"}
INVARIANTS
  TypeOK
  
  RetriesAreSafe
  AcceptedAttemptIsCleanedUp
  NoMissedOutcome
PROPERTIES
  ConnectEnds
  StepsAreBounded
  ImplementsPhaseTwo
