SPECIFICATION Spec
CONSTANTS
  h1 = h1
  h2 = h2
  h3 = h3
  k1 = k1
  k2 = k2
  None = None
  Foreign = Foreign
SYMMETRY Symmetry
CHECK_DEADLOCK FALSE

INVARIANTS OneMaster RoundSound
