CONSTANTS
  Maps <- MCMaps
  Chunk = 8
  Page = 4
  Size = 2
  Align = 2
  Half = 2
  Xored <- MCXor
  Typed = {0}
  Content <- MCContent
  MaxKeys = 2
SPECIFICATION FairSpec
CHECK_DEADLOCK FALSE
INVARIANTS TypeOK EachOnce InsideRegions NothingLost BestKeyFindsMost
PROPERTIES Terminates
