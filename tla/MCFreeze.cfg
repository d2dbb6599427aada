CONSTANTS
  Callers = {c1, c2}
  MaxId = 2
  Intervals = {1, 2}
  Timeout = 4
  Lag = 1
SPECIFICATION FairSpec
INVARIANTS TypeOK SingleOwner NoUseAfterFree ListedIsRunning IInv
PROPERTIES KeepsPromise StoppedWorkersEnd KeepsWriting
