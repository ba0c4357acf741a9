SPECIFICATION Spec
CONSTANTS
  p1 = p1
  p2 = p2
  p3 = p3
  s1 = s1
  None = None
  Procs <- ThreeProcs
  Socks <- OneSock
SYMMETRY Symmetry

INVARIANTS NobodySleepsOnReady TimeoutsExact
