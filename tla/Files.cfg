SPECIFICATION Spec
CONSTANTS
  p1 = p1
  p2 = p2
  d1 = d1
  n1 = n1
  n2 = n2
  None = None
CHECK_DEADLOCK FALSE

INVARIANTS NobodyStuck RnodesExact DirectoriesExact CrashSafe CloseFlushed
 
