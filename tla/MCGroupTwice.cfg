CONSTANTS
  Bytes = {0, 1}
  ItemLists <- MCItems
  Gap = 2
  Margin = 0
  Chunk = 4
  Page = 2
  Start = 4
  End = 14
SPECIFICATION Spec
CHECK_DEADLOCK FALSE
INVARIANTS EachGroupOnce
