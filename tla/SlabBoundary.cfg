CONSTANTS
  t = t
  NULL = NULL
  Task = {t}
  NPages = 2
  o_num = 2
  Stride = 2
SPECIFICATION Spec
INVARIANT
  FreesWhatWasAllocated
