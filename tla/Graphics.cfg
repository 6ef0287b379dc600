SPECIFICATION Spec
CONSTANTS
  t1 = t1 t2 = t2 b1 = b1 b2 = b2 n1 = n1 n2 = n2 m1 = m1 m2 = m2
  None = None
  Textures <- MCTextures
  Buffers <- MCBuffers
  TextureNames <- MCTextureNames
  BufferNames <- MCBufferNames
  EGL = FALSE
  MaxSession = 3
SYMMETRY MCSymmetry
INVARIANTS
  OnlyColormapsLeft
  OwnNames
  BoundIsLast
  ActiveComplete
CHECK_DEADLOCK FALSE
