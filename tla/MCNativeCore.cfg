CONSTANTS
  Callers = {c1, c2}
  Last = 1
  Half = 2
  Xored <- MCXor
  Typed <- MCTyped
  Values = {0, 2}
  FirstQueries <- MCFirst
  RefineQueries <- MCRefine
  Offsets = {1}
  SizeSpan = 16
  MaxWatches = 2
SPECIFICATION FairCoreSpec
INVARIANTS CoreTypeOK WritesGoToListed  ReadsOwnWatch
PROPERTIES RefineOnlyFilters KeepsExactly LockIsReleased
