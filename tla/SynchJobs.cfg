SPECIFICATION RaceFree
CONSTANTS
  init = init
  sh = sh
  job = job
  proc0 = proc0
  chInit = chInit
  chSh = chSh
  chJob = chJob
  chDev = chDev
  none = none
  Procs <- MCProcs
  Swapper = proc0
  InitProc = init
  Parent <- MCParent
  Chan <- MCChan
  NoChan = none
  ChanOf <- MCChanOf
  Hash <- MCHash
  IntrChan <- MCIntrChan
  SleepsOn <- MCSleepsOn
  UserPri <- TwoPri
  Waits <- MCWaits
  Forks <- TheSh
  Caught <- ShCatches
  Ignored <- NoSigs
  Held <- NoSigs
  Posted <- ShJobs
  IntrSigs <- Keyboard
  Deadwood <- NoOne
  Big <- NoOne
  VmWakes = FALSE
  SwapFull <- NoOne
  PagesOut <- NoOne

INVARIANTS NoPanic QueueMatchesPri SleepQueueExact StopSignalsNeverKill WaitSeesChildren InitChildrenRun
