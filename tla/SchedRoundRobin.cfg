CONSTANTS
  idle = idle
  a = a
  b = b
  c = c
  NULL = NULL
  Task = {idle, a, b, c}
  Idle = idle
  InitTask = a
  MayExit = {a, b, c}
SPECIFICATION FairSpec
PROPERTIES
  ReadyTaskRuns
  SleeperWokenIfNoneExits
