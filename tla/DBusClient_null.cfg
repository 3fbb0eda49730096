SPECIFICATION Spec
CONSTANTS
  ImportTries = 5
  TunnelTries = 5
  IntrospectTries = 20
  ReadyTries = 20
  WaitPasses = 3
  Dispatchers = {"self"}
  Wordings = {"Capitalised"}
INVARIANTS
  PollsTheNewSession
