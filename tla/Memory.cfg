CONSTANTS
  t1 = t1  t2 = t2  one = one
  NULL = NULL
  Task = {t1, t2}
  NPages = 5
  NCtx = 3
  PageSize = 2
  NrPte = 2
  MaxVa = 7
  FileSize = 3
  Progs <- Programs
  ForkFlags <- Shared
  MaxPid = 2
  MaxCount = 2
SPECIFICATION MCSpec
SYMMETRY Either
INVARIANTS
  OnePagePerOffset  NoFreePageMapped  NoBug
