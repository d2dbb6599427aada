\* Two whole chunks, every read succeeds in full.
CONSTANTS
  Bytes = {"a", "A", "b"}
  Lower <- MCLower
  Needles <- MCNeedles
  Start = 4
  End = 10
  Chunk = 4
  Page = 2
  Faults = FALSE
SPECIFICATION Spec
CHECK_DEADLOCK FALSE
INVARIANTS CutOccurrencesFound
