SPECIFICATION Spec
CONSTANTS
  s1 = s1 s2 = s2 a = a b = b c = c black = black white = white
  None = None
  Black = black
  Scenes <- MCScenes
  Layers <- MCLayers
  SceneOf <- MCOnOneScene
  UpdateBlock <- MCUpdateBlock
  RenderBlock <- MCRenderBlock
  Colors <- MCColors
  MaxStack = 1
INVARIANTS
  TopSceneShown
  NoDangling
  WalkedAll
  ZombiesBuried
  DrawnBackToFront
PROPERTY KeepsRounds
CHECK_DEADLOCK FALSE
