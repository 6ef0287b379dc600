SPECIFICATION SortSpec
CONSTANTS
  Events <- MCEvents
  Priority <- MCPriority
  TimeStamp <- MCTimeStamp
  MaxLength = 5
  LastInstant = 2
INVARIANTS SortSound InOrderUnlessConflict
