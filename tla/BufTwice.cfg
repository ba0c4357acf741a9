SPECIFICATION Spec
CONSTANTS
  p1 = p1
  p2 = p2
  b1 = b1
  b2 = b2
  b3 = b3
  None = None
  Procs <- TwoProcs
  Loads <- CrowdedLoad
SYMMETRY Symmetry
INVARIANT OneBuffer
