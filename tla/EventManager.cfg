SPECIFICATION FairSpec
CONSTANTS
  l1 = l1 l2 = l2 a = a b = b e1 = e1 e2 = e2 e3 = e3
  None = None
  NullListener = NullListener
  NullType = NullType
  Listeners <- MCThreeNull
  Types <- MCOneType
  QuitType = b
  Events <- MCTwoEvents
  TypeOf <- MCOneTypeOf
  Priority <- MCTwoPriority
  TimeStamp <- MCTwoTimeStamp
  MaxTime = 1
  MaxDepth = 1
INVARIANTS
  IteratorValid
  EveryListenerOnce
PROPERTY EventuallyLeaves
