CONSTANTS
  Pids <- MCPids
  MaxFreezes = 1
  MaxWatches = 0
  MaxResults = 1
  Positions = {200}
  LogMax = 1
SPECIFICATION LogSpec
INVARIANTS StatusIsTrue
