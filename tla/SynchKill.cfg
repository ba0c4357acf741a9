SPECIFICATION FairRaceFree
CONSTANTS
  init = init
  sh = sh
  job = job
  proc0 = proc0
  chInit = chInit
  chSh = chSh
  chJob = chJob
  chDev = chDev
  none = none
  Procs <- MCProcs
  Swapper = proc0
  InitProc = init
  Parent <- MCParent
  Chan <- MCChan
  NoChan = none
  ChanOf <- MCChanOf
  Hash <- MCHash
  IntrChan <- MCIntrChan
  SleepsOn <- MCSleepsOn
  UserPri <- OnePri
  Waits <- MCWaits
  Forks <- NoOne
  Caught <- ShCatches
  Ignored <- NoSigs
  Held <- NoSigs
  Posted <- JobKilled
  IntrSigs <- SendsNone
  Deadwood <- NoOne
  Big <- NoOne
  VmWakes = FALSE
  SwapFull <- NoOne
  PagesOut <- NoOne
PROPERTIES KillTakesEffect
