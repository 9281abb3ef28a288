CONSTANTS
  FirstId = 2
  MaxId = 6
  MaxTrades = 2
  MaxStale = 2
SPECIFICATION FairSpec
INVARIANTS TypeOK GapFree NothingHeldBack TradesContiguous
PROPERTIES StreamStartsUnlessStale
