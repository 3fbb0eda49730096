SPECIFICATION FairSpec
CONSTANTS
  Profiles = {a}
  MaxClicks = 2
  MaxEvents = 1
  MaxSignals = 1
  MaxQuotes = 0
  Quotable = {}
  None = None
INVARIANT
  FreedIsUnused
