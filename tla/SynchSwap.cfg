SPECIFICATION RaceFree
CONSTANTS
  init = init
  sh = sh
  job = job
  proc0 = proc0
  chInit = chInit
  chSh = chSh
  chJob = chJob
  chDev = chDev
  none = none
  Procs <- MCProcs
  Swapper = proc0
  InitProc = init
  Parent <- MCParent
  Chan <- MCChan
  NoChan = none
  ChanOf <- MCChanOf
  Hash <- MCHash
  IntrChan <- MCIntrChan
  SleepsOn <- MCJobSleeps
  UserPri <- TwoPri
  Waits <- InitWaits
  Forks <- NoOne
  Caught <- NoSigs
  Ignored <- NoSigs
  Held <- NoSigs
  Posted <- SendsNone
  IntrSigs <- Terminal
  Deadwood <- TheJob
  Big <- Both
  VmWakes = TRUE
  SwapFull <- Both
  PagesOut <- TheJob

INVARIANTS RunQueueExact SwapperNotStuck ContinueNotLost
