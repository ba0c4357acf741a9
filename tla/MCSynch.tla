------------------------------- MODULE MCSynch -------------------------------
(***************************************************************************)
(* Instances of Synch: init, a shell that waits for its child, and a job   *)
(* that sleeps on a device.  Three sleep queues: one for the swapper's     *)
(* channels, one for the device, and one that the three proc slots share.  *)
(***************************************************************************)
EXTENDS Synch, TLC

CONSTANTS init, sh, job, proc0, chInit, chSh, chJob, chDev, none

MCProcs  == {init, sh, job}
MCParent == (init :> proc0) @@ (sh :> init) @@ (job :> sh)
MCChan   == {chInit, chSh, chJob, chDev}
MCChanOf == (proc0 :> chDev) @@ (init :> chInit) @@ (sh :> chSh)
            @@ (job :> chJob)
MCHash   == [c \in AllChan |-> IF c \in SwapChan THEN 0
                               ELSE IF c = chDev THEN 1 ELSE 2]

MCSleepsOn    == (init :> {}) @@ (sh :> {})
                 @@ (job :> {<<chDev, PZERO>>, <<chDev, PWAIT>>})

\* The job waits for the terminal.
MCJobSleeps   == (init :> {}) @@ (sh :> {}) @@ (job :> {<<chDev, PWAIT>>})

MCWaits    == {init, sh}
InitWaits  == {init}
MCIntrChan == {chDev}
TwoPri     == {PUSER, PLOW}
OnePri     == {PUSER}

NoOne  == {}
TheSh  == {sh}
TheJob == {job}
Both   == {sh, job}

Signals(shSigs, jobSigs) ==
  (proc0 :> {}) @@ (init :> {}) @@ (sh :> shSigs) @@ (job :> jobSigs)
Sends(shSigs, jobSigs) ==
  (init :> {}) @@ (sh :> shSigs) @@ (job :> jobSigs)

NoSigs    == Signals({}, {})
ShCatches == Signals({SIGCHLD}, {})

SendsNone    == Sends({}, {})
JobStops     == Sends({}, {SIGSTOP, SIGCONT})
JobKilled    == Sends({}, {SIGSTOP, SIGCONT, SIGKILL})
Keyboard     == Sends({}, {SIGTSTP})
ShJobs       == Sends({SIGKILL}, {SIGCONT, SIGINT})
Terminal     == Sends({}, {SIGTSTP, SIGCONT})

\* The behaviours in which none of the three races comes about: Next with
\* ~Race at the actions that can be one.  Where interrupts send neither SIGCONT
\* nor SIGKILL, nothing is deadwood and the swap device has room, it is Next.
CalmNext ==
  \/ \E p \in Procs : Proc(p)
  \/ Swtch
  \/ SchedLoop \/ SchedScan \/ SchedIdle \/ SchedIn
  \/ Swapin \/ SchedHard \/ SwapoutStart \/ SwapoutEnd
  \/ kern.p_stat[victim] # "SRUN" /\ SchedDeadwood
  \/ kern.p_stat[victim] # "SRUN" /\ SwapoutFails
  \/ IntrSignal /\ ~ContinuedTooSoon
  \/ IntrWakeup \/ Schedcpu \/ SchedcpuWakeup \/ Vmmeter

RaceFree == Init /\ [][CalmNext]_vars
FairRaceFree == RaceFree /\ Fairness
=============================================================================
