SPECIFICATION FairPlayerSpec
CONSTANTS
  i1 = i1 i2 = i2 t1 = t1 t2 = t2 p1 = p1 p2 = p2
  Nil = Nil
  Null = Null
  Ids <- MCIds
  Tracks <- MCTwoTracks
  PCMs <- MCPCMs
  Length <- MCLength
  Iterations <- MCForever
  Formats <- MCFormats
INVARIANTS
  BufferFits
  ExactPlays
  RoomFilled
PROPERTY TickReturns
CHECK_DEADLOCK FALSE
