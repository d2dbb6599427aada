CONSTANTS
  Pids <- MCPids
  MaxFreezes = 2
  MaxWatches = 2
  MaxResults = 1
  Positions = {0, 200}
  LogMax = 1
SPECIFICATION FairLogSpec
INVARIANTS LogTypeOK WatchesAreListed FreezesAreKnown FactorIsShown ActiveIsSet
PROPERTIES CountCatchesUp LogCatchesUp
