CONSTANTS
  idle = idle
  a = a
  b = b
  c = c
  d = d
  e = e
  NULL = NULL
  Task = {idle, a, b, c, d, e}
  Idle = idle
  InitTask = a
  MayExit = {a, b, c, d, e}
SPECIFICATION Spec
SYMMETRY FreePageSymmetry
INVARIANTS
  TypeOK
  QueuesMatchStates
  CurrentIsHead
  PagesemExcludes
  PagesConserved
  ControlInv
  NoLostWakeup
PROPERTY
  ImplementsAbsSched
