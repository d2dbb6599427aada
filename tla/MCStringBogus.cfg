\* One whole chunk: no boundary and no failed read is involved.
CONSTANTS
  Bytes = {"a", "A", "b"}
  Lower <- MCLower
  Needles <- MCNeedles
  Start = 4
  End = 8
  Chunk = 4
  Page = 2
  Faults = FALSE
SPECIFICATION Spec
CHECK_DEADLOCK FALSE
INVARIANTS ReportsAreOccurrences
