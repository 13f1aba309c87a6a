CONSTANTS
  t = t
  u = u
  NULL = NULL
  Task = {t, u}
  NPages = 2
  o_num = 3
  Stride = 4
SPECIFICATION Spec
SYMMETRY TaskSymmetry
INVARIANTS
  TypeOK
  ListsMatch
  ObjectsOnce
  UsedPagesKept

