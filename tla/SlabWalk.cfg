CONSTANTS
  t = t
  u = u
  NULL = NULL
  Task = {t, u}
  NPages = 2
  o_num = 2
  Stride = 3
SPECIFICATION Spec
SYMMETRY TaskSymmetry
INVARIANT
  ChunkIsSomewhere
