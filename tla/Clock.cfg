SPECIFICATION ClockSpec
CONSTANTS
  p1 = p1
  p2 = p2
  s1 = s1
  f1 = f1
  f2 = f2
  f3 = f3
  None = None
  Funcs <- ThreeFuncs
  Repeated <- OneFunc
  Delays <- SomeDelays
  NCallout = 3
  MaxNow = 4
  Tickadj = 2
  Bigadj = 42
  Deltas <- Corrections
CHECK_DEADLOCK FALSE

INVARIANT TimeKept
PROPERTIES KeepsPromises DueIsCalled CorrectionEnds TimedSelectReturns
