SPECIFICATION FairSpec
CONSTANTS
  Profiles = {a}
  MaxClicks = 2
  MaxEvents = 1
  MaxSignals = 1
  MaxQuotes = 1
  Quotable = {"up"}
  None = None
INVARIANTS
  TypeOK
  OwnClientIsLive
  OnlyConnectLosesAClient
  ShownConnectedIsReal
PROPERTIES
  ServiceReturns
  FailureIsShown
