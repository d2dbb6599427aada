CONSTANTS
  Bytes = {0, 1}
  ItemLists <- MCItems
  Gap = 2
  Margin = 1
  Chunk = 4
  Page = 2
  Start = 4
  End = 14
SPECIFICATION FairSpec
CHECK_DEADLOCK FALSE
INVARIANTS TypeOK FitsBuffer GroupsAreReal GroupsFound
PROPERTIES Terminates
