SPECIFICATION ClockSpec
CONSTANTS
  Second = 60
  LongWait = 7
  Rates = {0, 12, 20}
  FrameTime <- MCFrameTime
  FirstRate = 20
  VSync = FALSE
  Deltas = {4, 10}
  MaxNow = 64
INVARIANTS
  RateLimited
  NeverEarly
  NoBurst
CHECK_DEADLOCK FALSE
