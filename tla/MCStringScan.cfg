CONSTANTS
  Bytes = {"a", "A", "b"}
  Lower <- MCLower
  Needles <- MCNeedles
  Start = 4
  End = 10
  Chunk = 4
  Page = 2
  Faults = TRUE
SPECIFICATION FairSpec
CHECK_DEADLOCK FALSE
INVARIANTS TypeOK BufferIsSound InsideRegion FirstOfChunkFound
PROPERTIES Terminates
