CONSTANTS
  t1 = t1  t2 = t2
  NULL = NULL
  Lines = {0, 6, 9}
  OffLines = {6}
  Syscalls = TRUE
  Exceptions = {0, 13, 14}
  MaxRaise = 1
  MaxSwitch = 3
  MaxNest = 3
SPECIFICATION MCSpec

  
PROPERTIES
  EveryCallReturns  RaisedIsHandled
