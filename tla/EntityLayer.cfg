SPECIFICATION FairSpec
CONSTANTS
  e1 = e1 e2 = e2 k1 = k1 k2 = k2 g1 = g1
  None = None
  Entities <- MCEntities
  Components <- MCComponents
  Colliders <- MCColliders
  OwnerOf <- MCOwnerOf
  Parts <- MCParts
  Moving <- MCEntities
INVARIANTS
  NoDangling
  UpdatedInTurn
  CollidersAlive
PROPERTIES
  ZombiesLeave
  KeepsRounds
CHECK_DEADLOCK FALSE
