CONSTANTS
  idle = idle
  a = a
  b = b
  c = c
  d = d
  NULL = NULL
  Task = {idle, a, b, c, d}
  Idle = idle
  InitTask = a
  MayExit = {a, b, c, d}
SPECIFICATION Spec
SYMMETRY FreePageSymmetry
INVARIANT
  IdleNeverSleeps
