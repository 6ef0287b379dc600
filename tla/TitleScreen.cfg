SPECIFICATION FairSpec
CONSTANTS
  a1 = a1 a2 = a2
  None = None
  Animations <- MCAnimations
  Durations <- MCDurations
  FrameTimes <- MCFrameTimes
  Longest = 2
  Fade = 6
  Exposure = 3
  MaxFrames = 3
  MaxLag = 2
  BuffersMax = 3
  MaxFailures = 1
INVARIANTS
  InRange
  WriteFindsRoom
PROPERTIES
  NoFlash
  GivesWay
  SoundGoesOn
CHECK_DEADLOCK FALSE
