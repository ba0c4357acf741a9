SPECIFICATION Spec
CONSTANTS
  p1 = p1
  p2 = p2
  s1 = s1
  None = None
  Procs <- TwoProcs
  Nfsds <- OneNfsd
  Calls = 1
  Mounts <- AllMounts
CHECK_DEADLOCK FALSE

INVARIANTS AnswersAreTrue NoFalseError
PROPERTY CallReturns
