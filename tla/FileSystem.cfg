CONSTANTS
  t1 = t1  t2 = t2  sq = sq
  n1 = n1  n2 = n2  n3 = n3
  NULL = NULL
SPECIFICATION Spec
INVARIANTS
   UsedIsCached OneInodePerNumber CountIsHolders 
