SPECIFICATION Spec
CONSTANTS
  p1 = p1
  p2 = p2
  Nobody = Nobody
SYMMETRY Symmetry
CHECK_DEADLOCK FALSE

INVARIANTS SpaceAccounted FreeSpaceInOrder NobodySleepsOnSpace
PROPERTY AllocatorsKeepPromises
