SPECIFICATION FairSpec
CONSTANTS
  f1 = f1 f2 = f2 f3 = f3
  None = None
  Features <- MCThree
  Codes <- MCCode
  MaxRuns = 2
INVARIANTS
  FeaturesInTurn
  WalkSafe
PROPERTY QuitEnds
CHECK_DEADLOCK FALSE
