CONSTANTS
  t1 = t1  t2 = t2
  v1 = v1  v2 = v2
  NULL = NULL
  Tasks = {t1, t2}
  Idle = idle
  MaxWork = 1
  MaxExec = 2
SPECIFICATION MCSpec
INVARIANTS
  FloppyReadIsRight AtaReadIsRight FunctionsFound SavedRegisters 
