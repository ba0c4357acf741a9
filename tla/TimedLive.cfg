SPECIFICATION LiveSpec
CONSTANTS
  h1 = h1
  h2 = h2
  h3 = h3
  k1 = k1
  k2 = k2
  None = None
  Foreign = Foreign
CHECK_DEADLOCK FALSE

INVARIANT OutliersIgnored
PROPERTIES EveryoneJoins MastersResolved
