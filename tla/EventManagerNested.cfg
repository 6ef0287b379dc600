SPECIFICATION Spec
CONSTANTS
  l1 = l1 l2 = l2 a = a b = b e1 = e1 e2 = e2 e3 = e3
  None = None
  NullListener = NullListener
  NullType = NullType
  Listeners <- MCListenersNull
  Types <- MCTypes
  QuitType = b
  Events <- MCTwoEvents
  TypeOf <- MCTwoTypeOf
  Priority <- MCTwoPriority
  TimeStamp <- MCTwoTimeStamp
  MaxTime = 1
  MaxDepth = 2
INVARIANTS
  OwnedOnce
  FreesWhatItDispatched
PROPERTY KeepsBatches
CHECK_DEADLOCK FALSE
