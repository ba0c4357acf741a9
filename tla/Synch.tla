-------------------------------- MODULE Synch --------------------------------
(***************************************************************************)
(* Sleeping, waking, signalling, waiting and swapping in the 4.3BSD+NFS    *)
(* kernel: sleep, wakeup, unsleep, setrun and schedcpu of                  *)
(* sys/sys/kern_synch.c, the run queues and the switch of                  *)
(* sys/vax/locore.s, psignal, issig, stop and psig of sys/sys/kern_sig.c,  *)
(* newproc, exit and wait1 of sys/sys/kern_fork.c and kern_exit.c, the     *)
(* trap exit of sys/vax/trap.c and the swapper of sys/sys/vm_sched.c and   *)
(* sys/sys/vm_swap.c.                                                      *)
(*                                                                         *)
(* One processor runs one process at a time and is never preempted inside  *)
(* the kernel: only interrupt handlers come between two statements of the  *)
(* running process, and only where it has not raised the processor         *)
(* priority.  A step of this module is a stretch of code in which nothing  *)
(* can come in between.                                                    *)
(***************************************************************************)
EXTENDS Naturals, FiniteSets

CONSTANTS
  Procs,      \* the slots of the proc table, without proc[0]
  Swapper,    \* proc[0], which runs sched()
  InitProc,   \* proc[1]
  Parent,     \* p_pptr to begin with
  Chan,       \* the addresses processes sleep on, besides the swapper's
  NoChan,     \* p_wchan = 0
  ChanOf,     \* the address of a proc slot, which wait1() sleeps on
  Hash,       \* HASH(chan): the sleep queue of a channel
  IntrChan,   \* the channels interrupt handlers call wakeup() with
  SleepsOn,   \* the (chan, pri) pairs each process calls sleep() with
  UserPri,    \* the priorities p_usrpri takes
  Waits,      \* the processes that call wait3(WUNTRACED)
  Forks,      \* the processes that call fork()
  Caught,     \* p_sigcatch
  Ignored,    \* p_sigignore
  Held,       \* p_sigmask
  Posted,     \* signals that processes send to each process with kill()
  IntrSigs,   \* signals that interrupt handlers send to each process
  Deadwood,   \* processes sched() may find asleep for longer than maxslp
  Big,        \* processes sched() may pick for a hard swap
  VmWakes,    \* whether vmmeter() finds memory low or proc[0] long asleep
  SwapFull,   \* processes for which vgetswu() may find no room on the swap device
  PagesOut    \* processes sched() may find with pageouts in progress, of
              \* their own (p_poip) or of their text (x_poip)

All == Procs \cup {Swapper}

(***************************************************************************)
(* The channels the swapper sleeps on.                                     *)
(***************************************************************************)
RUNOUT == "runout"
RUNIN  == "runin"
LBOLT  == "lbolt"
SWAPIO == "swapio"
SwapChan == {RUNOUT, RUNIN, LBOLT, SWAPIO}
AllChan == Chan \cup SwapChan

(***************************************************************************)
(* Signals, one per behaviour: SIGINT stands for every signal that         *)
(* terminates by default, SIGCHLD for those discarded by default (SIGIO,   *)
(* SIGURG, SIGWINCH), SIGTTIN for SIGTTOU too.  ffs() in issig() takes the *)
(* lowest number first.                                                    *)
(***************************************************************************)
SIGINT  == 2
SIGKILL == 9
SIGSTOP == 17
SIGTSTP == 18
SIGCONT == 19
SIGCHLD == 20
SIGTTIN == 21
NoSig   == 0
Sig     == {SIGINT, SIGKILL, SIGSTOP, SIGTSTP, SIGCONT, SIGCHLD, SIGTTIN}
StopSig == {SIGSTOP, SIGTSTP, SIGTTIN}
FatalSig == {SIGINT, SIGKILL}

(***************************************************************************)
(* Priorities, one per run queue that matters: a sleep a signal cannot     *)
(* disturb (pri <= PZERO), one it can, and two user priorities.            *)
(***************************************************************************)
PZERO == 1
PWAIT == 2
PUSER == 3
PLOW  == 4
Pri     == {PZERO, PWAIT, PUSER, PLOW}
NoQ     == 0

Stat == {"SRUN", "SSLEEP", "SSTOP", "SZOMB", "SIDL", "free"}

ASSUME ProcsAssumption ==
  /\ Swapper \notin Procs
  /\ InitProc \in Procs
  /\ Parent \in [Procs -> All]
  /\ \A p \in Procs : Parent[p] # p
  /\ Parent[InitProc] = Swapper
  /\ Procs # {InitProc}
  /\ Waits \subseteq Procs
  /\ Forks \subseteq Procs

ASSUME ChanAssumption ==
  /\ Chan \cap SwapChan = {}
  /\ NoChan \notin AllChan
  /\ ChanOf \in [All -> Chan]
  /\ DOMAIN Hash = AllChan
  /\ IntrChan \subseteq Chan
  /\ SleepsOn \in [Procs -> SUBSET (Chan \X {PZERO, PWAIT})]
  /\ PUSER \in UserPri /\ UserPri \subseteq {PUSER, PLOW}

ASSUME SignalAssumption ==
  /\ Caught \in [All -> SUBSET (Sig \ {SIGKILL, SIGSTOP})]
  /\ Ignored \in [All -> SUBSET (Sig \ {SIGKILL, SIGSTOP, SIGCONT})]
  /\ Held \in [All -> SUBSET (Sig \ {SIGKILL, SIGSTOP, SIGCONT})]
  /\ \A p \in All : Caught[p] \cap Ignored[p] = {}
  /\ Posted \in [Procs -> SUBSET Sig]
  /\ IntrSigs \in [Procs -> SUBSET Sig]

ASSUME SwapAssumption ==
  /\ Deadwood \subseteq Procs
  /\ Big \subseteq Procs
  /\ SwapFull \subseteq Procs
  /\ PagesOut \subseteq Procs
  /\ VmWakes \in BOOLEAN

VARIABLES
  kern,       \* the proc table, the run queues and the swapper's flags
  pc,         \* where in the kernel each process is
  ctx,        \* who called issig(), or who called swapout()
  ret,        \* where sleep() returns to
  cur,        \* u.u_procp
  noproc,     \* noproc: the processor is in swtch(), looking for work
  todo,       \* sched(): the processes its scan has still to look at
  inp,        \* sched(): the process to bring in, Swapper for none
  victim,     \* sched(): the process swapout() works on
  skipped     \* history: those its scan has passed over for their pageouts

vars == <<kern, pc, ctx, ret, cur, noproc, todo, inp, victim, skipped>>

(***************************************************************************)
(* A kernel primitive is an operator from a state of these data to the     *)
(* state it leaves: a handler that calls several of them composes them.    *)
(* A process is on slpque[HASH(chan)] iff p_wchan is not 0, and on the run *)
(* queue p_rlink names; whichqs has a bit for each queue swtch() may look  *)
(* at.  SLOAD and SWTED are kept as the sets of processes that have them.  *)
(***************************************************************************)
Kern == [p_stat   : [All -> Stat],
         p_wchan  : [All -> AllChan \cup {NoChan}],
         p_pri    : [All -> Pri],
         p_rlink  : [All -> Pri \cup {NoQ}],
         p_sig    : [All -> SUBSET Sig],
         p_cursig : [All -> Sig \cup {NoSig}],
         p_pptr   : [Procs -> All],
         sload    : SUBSET All,
         swted    : SUBSET All,
         whichqs  : SUBSET Pri,
         runout   : BOOLEAN,
         wantin   : BOOLEAN,
         panicstr : {"", "sleep", "wakeup", "setrun", "setrq", "remrq",
                     "swtch", "psig", "psig action", "swapout",
                     "init died"}]

PC == {"run", "procdup", "wait", "waitsleep", "woken", "issig", "chld",
       "stop", "swtch", "trap", "psig", "rest", "exit", "exit1", "zombie",
       "loop", "scan", "dead", "out", "outio", "hard", "inio"}
Ctx == {"sleep1", "sleep2", "trap", "scan", "hard"}

(***************************************************************************)
(* The type invariant.                                                     *)
(***************************************************************************)
TypeOK ==
  /\ kern \in Kern
  /\ pc \in [All -> PC]
  /\ ctx \in [All -> Ctx]
  /\ ret \in [All -> {"run", "wait"}]
  /\ cur \in All
  /\ noproc \in BOOLEAN
  /\ todo \in SUBSET Procs
  /\ inp \in All
  /\ victim \in All
  /\ skipped \in SUBSET Procs

-----------------------------------------------------------------------------
(***************************************************************************)
(* Kernel primitives.                                                      *)
(***************************************************************************)

\* The kernel stops at the first panic.
Panic(k, why) ==
  IF k.panicstr = "" THEN [k EXCEPT !.panicstr = why] ELSE k

OnQueue(k, b) == {p \in All : k.p_rlink[p] = b}

Setrq(k, p) ==
  IF k.p_rlink[p] # NoQ
  THEN Panic(k, "setrq")
  ELSE [k EXCEPT !.p_rlink[p] = k.p_pri[p],
                 !.whichqs = @ \cup {k.p_pri[p]}]

\* Only the bit of the queue p_pri names is tested and cleared; the process
\* leaves the queue it is really on, and the bit is set again when others
\* are left on that one.
Remrq(k, p) ==
  IF k.p_pri[p] \notin k.whichqs
  THEN Panic(k, "remrq")
  ELSE [k EXCEPT !.p_rlink[p] = NoQ,
                 !.whichqs = IF OnQueue(k, k.p_rlink[p]) \subseteq {p}
                             THEN @ \ {k.p_pri[p]}
                             ELSE @]

Unsleep(k, p) == [k EXCEPT !.p_wchan[p] = NoChan]

Sleepers(k, chan) == {p \in All : k.p_wchan[p] = chan}

SleepQueue(k, chan) ==
  {p \in All : k.p_wchan[p] # NoChan /\ Hash[k.p_wchan[p]] = Hash[chan]}

\* wakeup() as far as the run queues: every process on the sleep queue is
\* looked at, those waiting for chan are taken off it, and those of them
\* that are not stopped become runnable.
WakeSleepers(k, chan) ==
  LET up    == {p \in Sleepers(k, chan) : k.p_stat[p] = "SSLEEP"}
      ready == up \cap k.sload
  IN  IF \E p \in SleepQueue(k, chan) :
            k.p_rlink[p] # NoQ \/ k.p_stat[p] \notin {"SSLEEP", "SSTOP"}
      THEN Panic(k, "wakeup")
      ELSE [k EXCEPT
             !.p_wchan = [p \in All |-> IF k.p_wchan[p] = chan
                                        THEN NoChan ELSE k.p_wchan[p]],
             !.p_stat  = [p \in All |-> IF p \in up THEN "SRUN"
                                        ELSE k.p_stat[p]],
             !.p_rlink = [p \in All |-> IF p \in ready THEN k.p_pri[p]
                                        ELSE k.p_rlink[p]],
             !.whichqs = @ \cup {k.p_pri[p] : p \in ready}]

\* A process that is not in core has become runnable: if the swapper is
\* waiting for someone to bring in, it is woken.
WantIn(k) ==
  LET k1 == IF k.runout
            THEN WakeSleepers([k EXCEPT !.runout = FALSE], RUNOUT)
            ELSE k
  IN  [k1 EXCEPT !.wantin = TRUE]

Wakeup(k, chan) ==
  LET k1 == WakeSleepers(k, chan)
  IN  IF \E p \in Sleepers(k, chan) :
            k.p_stat[p] = "SSLEEP" /\ p \notin k.sload
      THEN WantIn(k1)
      ELSE k1

\* Mutant: setrun() leaves the process on its sleep queue.
SetrunNoUnsleep(k, p) ==
  LET k1 == [k EXCEPT !.p_stat[p] = "SRUN"]
  IN  IF k.p_stat[p] \notin {"SSLEEP", "SSTOP", "SIDL"}
      THEN Panic(k, "setrun")
      ELSE IF p \in k.sload THEN Setrq(k1, p) ELSE WantIn(k1)

Setrun(k, p) ==
  LET k1 == [Unsleep(k, p) EXCEPT !.p_stat[p] = "SRUN"]
  IN  IF k.p_stat[p] \notin {"SSLEEP", "SSTOP", "SIDL"}
      THEN Panic(k, "setrun")
      ELSE IF p \in k.sload THEN Setrq(k1, p) ELSE WantIn(k1)

\* Mutant: stop() does not wake the parent.
StopNoWakeup(k, p) ==
  [k EXCEPT !.p_stat[p] = "SSTOP", !.swted = @ \ {p}]

\* A stopped process is one its parent has not been told of yet.
Stop(k, p) ==
  Wakeup([k EXCEPT !.p_stat[p] = "SSTOP", !.swted = @ \ {p}],
         ChanOf[k.p_pptr[p]])

-----------------------------------------------------------------------------
(***************************************************************************)
(* Signals.  Traced processes (STRC) and children in vfork() (SVFORK) are  *)
(* left out.                                                               *)
(***************************************************************************)

\* exit() ignores every signal.
Ignores(k, p, sig) == sig \in Ignored[p] \/ k.p_stat[p] = "SZOMB"

\* What ISSIG() tests, and issig() takes its signals from.
SigBits(k, p) == k.p_sig[p] \ (Ignored[p] \cup Held[p])

\* Mutant: a stop signal does not cancel a pending SIGCONT.
PostNoCancel(k, p, sig) ==
  [k EXCEPT !.p_sig[p] =
     IF sig = SIGCONT THEN (@ \ StopSig) \cup {SIGCONT} ELSE @ \cup {sig}]

Post(k, p, sig) ==
  [k EXCEPT !.p_sig[p] =
     CASE sig = SIGCONT    -> (@ \ StopSig) \cup {SIGCONT}
       [] sig \in StopSig  -> (@ \ {SIGCONT}) \cup {sig}
       [] OTHER            -> @ \cup {sig}]

Forget(k, p, sig) == [k EXCEPT !.p_sig[p] = @ \ {sig}]

\* psignal() at its label run: raise the priority to at least PUSER.
SignalRun(k, p) ==
  Setrun([k EXCEPT !.p_pri[p] = IF @ > PUSER THEN PUSER ELSE @], p)

\* The SSLEEP case of psignal(), for signals that do not stop.
SignalAsleep(k, p, sig) ==
  IF k.p_pri[p] <= PZERO THEN k
  ELSE IF sig = SIGCHLD /\ sig \notin Caught[p] THEN Forget(k, p, sig)
  ELSE SignalRun(k, p)

\* Mutant: SIGKILL does not set a stopped process running.
SignalStoppedNoKill(k, p, sig) ==
  CASE sig = SIGCONT ->
         IF sig \in Caught[p] \/ k.p_wchan[p] = NoChan
         THEN SignalRun(k, p)
         ELSE [k EXCEPT !.p_stat[p] = "SSLEEP"]
    [] sig \in StopSig -> Forget(k, p, sig)
    [] OTHER ->
         IF k.p_wchan[p] # NoChan /\ k.p_pri[p] > PZERO
         THEN Unsleep(k, p) ELSE k

\* The SSTOP case of psignal().
SignalStopped(k, p, sig) ==
  CASE sig = SIGKILL -> SignalRun(k, p)
    [] sig = SIGCONT ->
         IF sig \in Caught[p] \/ k.p_wchan[p] = NoChan
         THEN SignalRun(k, p)
         ELSE [k EXCEPT !.p_stat[p] = "SSLEEP"]
    [] sig \in StopSig -> Forget(k, p, sig)
    [] OTHER ->
         IF k.p_wchan[p] # NoChan /\ k.p_pri[p] > PZERO
         THEN Unsleep(k, p) ELSE k

\* psignal() of a signal that does not stop.
PsignalPlain(k, p, sig) ==
  LET k1 == Post(k, p, sig)
  IN  IF Ignores(k, p, sig) THEN k
      ELSE IF sig \in Held[p] THEN k1
      ELSE IF k.p_stat[p] = "SSLEEP" THEN SignalAsleep(k1, p, sig)
      ELSE IF k.p_stat[p] = "SSTOP" THEN SignalStopped(k1, p, sig)
      ELSE k1

\* The SSLEEP case of psignal() for a signal that stops: the sleeper is
\* stopped where it sleeps, unless it is a child of init stopped from the
\* keyboard.
StopAsleep(k, p, sig) ==
  IF k.p_pri[p] <= PZERO THEN k
  ELSE IF sig \in Caught[p] THEN SignalRun(k, p)
  ELSE IF sig # SIGSTOP /\ k.p_pptr[p] = InitProc
  THEN Forget(PsignalPlain(k, p, SIGKILL), p, sig)
  ELSE Stop(PsignalPlain([Forget(k, p, sig) EXCEPT !.p_cursig[p] = sig],
                         k.p_pptr[p], SIGCHLD), p)

Psignal(k, p, sig) ==
  LET k1 == Post(k, p, sig)
  IN  IF sig \notin StopSig THEN PsignalPlain(k, p, sig)
      ELSE IF Ignores(k, p, sig) THEN k
      ELSE IF sig \in Held[p] THEN k1
      ELSE IF k.p_stat[p] = "SSLEEP" THEN StopAsleep(k1, p, sig)
      ELSE IF k.p_stat[p] = "SSTOP" THEN SignalStopped(k1, p, sig)
      ELSE k1

-----------------------------------------------------------------------------
(***************************************************************************)
(* Processes.  Running(p) is the process whose code the processor          *)
(* executes; the handlers below are its steps.                             *)
(***************************************************************************)
Running(p) == ~noproc /\ cur = p

\* No panic(): the assertions of sleep, wakeup, setrun, setrq, remrq, swtch,
\* psig and swapout hold, in whatever order handlers and interrupts call them.
NoPanic == kern.panicstr = ""

\* Nothing is modelled after a panic.
At(p, label) == NoPanic /\ Running(p) /\ pc[p] = label

Goto(p, label) == pc' = [pc EXCEPT ![p] = label]

swapvars == <<todo, inp, victim, skipped>>

\* sleep() puts the process on its sleep queue, at splhigh.
EnterSleep(k, p, chan, pri) ==
  IF k.p_stat[p] # "SRUN" \/ k.p_rlink[p] # NoQ
  THEN Panic(k, "sleep")
  ELSE [k EXCEPT !.p_wchan[p] = chan, !.p_pri[p] = pri]

\* Mutant: sleep() does not look for signals before it gives up the processor.
SleepCallNoIssig(p, chan, pri, back) ==
  /\ kern' = [EnterSleep(kern, p, chan, pri) EXCEPT !.p_stat[p] = "SSLEEP"]
  /\ Goto(p, IF pri > PZERO THEN "woken" ELSE back)
  /\ ret' = [ret EXCEPT ![p] = back]
  /\ noproc' = TRUE
  /\ UNCHANGED <<ctx, cur, swapvars>>

\* The call sleep(chan, pri), to return to label back.  With a signal
\* pending, issig() is called before the process gives up the processor,
\* with p_stat still SRUN.
SleepCall(p, chan, pri, back) ==
  LET k == EnterSleep(kern, p, chan, pri)
  IN  /\ ret' = [ret EXCEPT ![p] = back]
      /\ IF pri > PZERO /\ SigBits(kern, p) # {}
         THEN /\ kern' = k
              /\ Goto(p, "issig")
              /\ ctx' = [ctx EXCEPT ![p] = "sleep1"]
              /\ UNCHANGED noproc
         ELSE /\ kern' = [k EXCEPT !.p_stat[p] = "SSLEEP"]
              /\ Goto(p, IF pri > PZERO THEN "woken" ELSE back)
              /\ noproc' = TRUE
              /\ UNCHANGED ctx
      /\ UNCHANGED <<cur, swapvars>>

Sleep(p) ==
  /\ At(p, "run")
  /\ \E arg \in SleepsOn[p] : SleepCall(p, arg[1], arg[2], "run")

\* sleep() after its swtch(), at spl0.
Woken(p) ==
  /\ At(p, "woken")
  /\ IF SigBits(kern, p) # {}
     THEN Goto(p, "issig") /\ ctx' = [ctx EXCEPT ![p] = "sleep2"]
     ELSE Goto(p, ret[p]) /\ UNCHANGED ctx
  /\ UNCHANGED <<kern, ret, cur, noproc, swapvars>>

\* Mutant: sleep() does not look whether a wakeup came during issig().
IssigNoneNoRecheck(p) ==
  /\ At(p, "issig")
  /\ SigBits(kern, p) = {}
  /\ LET k == [kern EXCEPT !.p_cursig[p] = NoSig]
     IN  IF ctx[p] = "sleep1"
         THEN /\ kern' = [k EXCEPT !.p_stat[p] = "SSLEEP"]
              /\ Goto(p, "woken")
              /\ noproc' = TRUE
         ELSE /\ kern' = k
              /\ Goto(p, IF ctx[p] = "trap" THEN "rest" ELSE ret[p])
              /\ UNCHANGED noproc
  /\ UNCHANGED <<ctx, ret, cur, swapvars>>

\* Mutant: issig() leaves the signal it has discarded in p_cursig.
IssigNoneKeepsCursig(p) ==
  /\ At(p, "issig")
  /\ SigBits(kern, p) = {}
  /\ IF ctx[p] = "sleep1" /\ kern.p_wchan[p] # NoChan
     THEN /\ kern' = [kern EXCEPT !.p_stat[p] = "SSLEEP"]
          /\ Goto(p, "woken")
          /\ noproc' = TRUE
     ELSE /\ Goto(p, IF ctx[p] = "trap" THEN "rest" ELSE ret[p])
          /\ UNCHANGED <<kern, noproc>>
  /\ UNCHANGED <<ctx, ret, cur, swapvars>>

\* issig() finds no signal and returns 0 to its caller.
IssigNone(p) ==
  /\ At(p, "issig")
  /\ SigBits(kern, p) = {}
  /\ LET k == [kern EXCEPT !.p_cursig[p] = NoSig]
     IN  IF ctx[p] = "sleep1" /\ kern.p_wchan[p] # NoChan
         THEN /\ kern' = [k EXCEPT !.p_stat[p] = "SSLEEP"]
              /\ Goto(p, "woken")
              /\ noproc' = TRUE
         ELSE /\ kern' = k
              /\ Goto(p, IF ctx[p] = "trap" THEN "rest" ELSE ret[p])
              /\ UNCHANGED noproc
  /\ UNCHANGED <<ctx, ret, cur, swapvars>>

\* The signal issig() takes: ffs().
NextSig(k, p) ==
  CHOOSE sig \in SigBits(k, p) : \A other \in SigBits(k, p) : sig <= other

Take(k, p) ==
  [Forget(k, p, NextSig(k, p)) EXCEPT !.p_cursig[p] = NextSig(k, p)]

\* What issig() does with the signal it has taken.  A default action is
\* never taken on a system process (p_ppid = 0).
Disposition(k, p) ==
  LET sig == NextSig(k, p)
  IN  CASE sig \in Caught[p] -> "send"
        [] sig \notin Caught[p] /\ k.p_pptr[p] = Swapper -> "continue"
        [] OTHER ->
             IF sig \in StopSig
             THEN IF sig # SIGSTOP /\ k.p_pptr[p] = InitProc
                  THEN "kill" ELSE "stop"
             ELSE IF sig \in FatalSig THEN "send" ELSE "continue"

\* issig() returns the signal: sleep() aborts the system call through
\* u_qsave, the trap exit calls psig().
IssigSend(p) ==
  /\ At(p, "issig")
  /\ SigBits(kern, p) # {}
  /\ Disposition(kern, p) = "send"
  /\ kern' = IF ctx[p] = "sleep1"
             THEN [Unsleep(Take(kern, p), p) EXCEPT !.p_stat[p] = "SRUN"]
             ELSE Take(kern, p)
  /\ Goto(p, IF ctx[p] = "trap" THEN "psig" ELSE "trap")
  /\ UNCHANGED <<ctx, ret, cur, noproc, swapvars>>

IssigContinue(p) ==
  /\ At(p, "issig")
  /\ SigBits(kern, p) # {}
  /\ Disposition(kern, p) = "continue"
  /\ kern' = Take(kern, p)
  /\ UNCHANGED <<pc, ctx, ret, cur, noproc, swapvars>>

\* Children of init are not allowed to stop from the keyboard.
IssigKill(p) ==
  /\ At(p, "issig")
  /\ SigBits(kern, p) # {}
  /\ Disposition(kern, p) = "kill"
  /\ kern' = PsignalPlain(Take(kern, p), p, SIGKILL)
  /\ UNCHANGED <<pc, ctx, ret, cur, noproc, swapvars>>

IssigStop(p) ==
  /\ At(p, "issig")
  /\ SigBits(kern, p) # {}
  /\ Disposition(kern, p) = "stop"
  /\ kern' = Take(kern, p)
  /\ Goto(p, "chld")
  /\ UNCHANGED <<ctx, ret, cur, noproc, swapvars>>

\* psignal(p->p_pptr, SIGCHLD); stop(p); swtch(): three statements, at the
\* processor priority of issig()'s caller.
TellParent(p) ==
  /\ At(p, "chld")
  /\ kern' = PsignalPlain(kern, kern.p_pptr[p], SIGCHLD)
  /\ Goto(p, "stop")
  /\ UNCHANGED <<ctx, ret, cur, noproc, swapvars>>

StopSelf(p) ==
  /\ At(p, "stop")
  /\ kern' = Stop(kern, p)
  /\ Goto(p, "swtch")
  /\ UNCHANGED <<ctx, ret, cur, noproc, swapvars>>

SwtchStopped(p) ==
  /\ At(p, "swtch")
  /\ noproc' = TRUE
  /\ Goto(p, "issig")
  /\ UNCHANGED <<kern, ctx, ret, cur, swapvars>>

\* trap() and syscall() on their way out.
TrapExit(p) ==
  /\ At(p, "run") \/ At(p, "trap")
  /\ IF kern.p_cursig[p] # NoSig
     THEN Goto(p, "psig") /\ UNCHANGED ctx
     ELSE IF SigBits(kern, p) # {}
     THEN Goto(p, "issig") /\ ctx' = [ctx EXCEPT ![p] = "trap"]
     ELSE Goto(p, "rest") /\ UNCHANGED ctx
  /\ UNCHANGED <<kern, ret, cur, noproc, swapvars>>

Psig(p) ==
  /\ At(p, "psig")
  /\ LET sig == kern.p_cursig[p]
     IN  IF sig = NoSig
         THEN kern' = Panic(kern, "psig") /\ UNCHANGED pc
         ELSE IF sig \in Ignored[p] \/ (sig \in Caught[p] /\ sig \in Held[p])
         THEN kern' = Panic(kern, "psig action") /\ UNCHANGED pc
         ELSE IF sig \in Caught[p]
         THEN kern' = [kern EXCEPT !.p_cursig[p] = NoSig] /\ Goto(p, "rest")
         ELSE UNCHANGED kern /\ Goto(p, "exit")
  /\ UNCHANGED <<ctx, ret, cur, noproc, swapvars>>

\* p_pri = p_usrpri; then, if runrun, the process queues itself and
\* switches at splclock.
Rest(p) ==
  /\ At(p, "rest")
  /\ \E usrpri \in UserPri :
       LET k == [kern EXCEPT !.p_pri[p] = usrpri]
       IN  \/ kern' = k /\ UNCHANGED noproc
           \/ kern' = Setrq(k, p) /\ noproc' = TRUE
  /\ Goto(p, "run")
  /\ UNCHANGED <<ctx, ret, cur, swapvars>>

\* swtch(): the processor takes a process from the best queue.
BestQueue == CHOOSE b \in kern.whichqs : \A c \in kern.whichqs : b <= c

Switched(k, p, b) ==
  LET k1 == [k EXCEPT !.p_rlink[p] = NoQ,
                      !.whichqs = IF OnQueue(k, b) = {p} THEN @ \ {b} ELSE @]
  IN  IF k.p_wchan[p] # NoChan \/ k.p_stat[p] # "SRUN"
      THEN Panic(k1, "swtch") ELSE k1

Swtch ==
  /\ NoPanic /\ noproc
  /\ kern.whichqs # {}
  /\ IF OnQueue(kern, BestQueue) = {}
     THEN kern' = Panic(kern, "swtch") /\ UNCHANGED <<cur, noproc>>
     ELSE \E p \in OnQueue(kern, BestQueue) :
            /\ kern' = Switched(kern, p, BestQueue)
            /\ cur' = p
            /\ noproc' = FALSE
  /\ UNCHANGED <<pc, ctx, ret, swapvars>>

-----------------------------------------------------------------------------
(***************************************************************************)
(* fork, exit and wait.                                                    *)
(***************************************************************************)
Children(k, p) == {q \in Procs : k.p_pptr[q] = p /\ k.p_stat[q] # "free"}

\* newproc() as far as procdup(): the child has a slot and is not runnable.
Fork(p) ==
  /\ At(p, "run")
  /\ p \in Forks
  /\ \E q \in Procs :
       /\ kern.p_stat[q] = "free"
       /\ kern' = [kern EXCEPT !.p_stat[q] = "SIDL", !.p_pptr[q] = p,
                               !.p_wchan[q] = NoChan,
                               !.sload = @ \cup {q}, !.swted = @ \ {q}]
       /\ pc' = [pc EXCEPT ![p] = "procdup", ![q] = "run"]
  /\ UNCHANGED <<ctx, ret, cur, noproc, swapvars>>

\* The rest of newproc(): the child joins the run queue at the priority
\* its slot was left with.
Procdup(p) ==
  /\ At(p, "procdup")
  /\ \E q \in Procs :
       /\ kern.p_stat[q] = "SIDL" /\ kern.p_pptr[q] = p
       /\ kern' = Setrq([kern EXCEPT !.p_stat[q] = "SRUN"], q)
  /\ Goto(p, "run")
  /\ UNCHANGED <<ctx, ret, cur, noproc, swapvars>>

\* psig() ends in exit(): the process is a zombie, and init is woken if it
\* inherits children.  noproc is set by the code here already, which no one
\* can tell: the tests of it are for processes that are SRUN.
Exit(p) ==
  /\ At(p, "exit")
  /\ LET k  == [kern EXCEPT !.p_stat[p] = "SZOMB"]
         k1 == IF Children(k, p) = {} THEN k ELSE Wakeup(k, ChanOf[InitProc])
     IN  kern' = IF p = InitProc THEN Panic(k, "init died") ELSE k1
  /\ Goto(p, "exit1")
  /\ UNCHANGED <<ctx, ret, cur, noproc, swapvars>>

\* spgrp() visits q and its descendants and takes their pending keyboard
\* stops away.
Family(k, q) ==
  {r \in Procs : \A S \in SUBSET Procs :
     q \in S /\ (\A s \in S : Children(k, s) \subseteq S) => r \in S}

Spgrp(k, q) ==
  [k EXCEPT !.p_sig = [r \in All |-> IF r \in Family(k, q)
                                     THEN @[r] \ {SIGTSTP, SIGTTIN}
                                     ELSE @[r]]]

\* Mutant: stopped children are inherited as they are.
ExitChildNoContinue(p) ==
  /\ At(p, "exit1")
  /\ \E q \in Children(kern, p) :
       kern' = Spgrp([kern EXCEPT !.p_pptr[q] = InitProc], q)
  /\ UNCHANGED <<pc, ctx, ret, cur, noproc, swapvars>>

\* exit() gives one of its children to init; a stopped one is sent a hangup
\* (here SIGINT) and a continue.
ExitChild(p) ==
  /\ At(p, "exit1")
  /\ \E q \in Children(kern, p) :
       LET k  == [kern EXCEPT !.p_pptr[q] = InitProc]
           k1 == IF k.p_stat[q] = "SSTOP"
                 THEN PsignalPlain(PsignalPlain(k, q, SIGINT), q, SIGCONT)
                 ELSE k
       IN  kern' = Spgrp(k1, q)
  /\ UNCHANGED <<pc, ctx, ret, cur, noproc, swapvars>>

\* The end of exit(): the parent is told, and the processor given up.
ExitSwtch(p) ==
  /\ At(p, "exit1")
  /\ Children(kern, p) = {}
  /\ LET parent == kern.p_pptr[p]
     IN  kern' = Wakeup(PsignalPlain(kern, parent, SIGCHLD), ChanOf[parent])
  /\ noproc' = TRUE
  /\ Goto(p, "zombie")
  /\ UNCHANGED <<ctx, ret, cur, swapvars>>

Unreported(k, p) ==
  {q \in Children(k, p) : k.p_stat[q] = "SSTOP" /\ q \notin k.swted}

\* wait1() looks through the children: a zombie is reaped and its slot
\* freed, a stopped child is reported once, and with nothing to report the
\* process is about to sleep.
WaitReap(p) ==
  /\ At(p, "wait")
  /\ \E q \in Children(kern, p) :
       /\ kern.p_stat[q] = "SZOMB"
       /\ kern' = [kern EXCEPT !.p_stat[q] = "free", !.p_pptr[q] = Swapper,
                               !.p_sig[q] = {}, !.p_cursig[q] = NoSig,
                               !.p_wchan[q] = NoChan,
                               !.sload = @ \ {q}, !.swted = @ \ {q}]
  /\ Goto(p, "run")
  /\ UNCHANGED <<ctx, ret, cur, noproc, swapvars>>

WaitStopped(p) ==
  /\ At(p, "wait")
  /\ \E q \in Unreported(kern, p) :
       kern' = [kern EXCEPT !.swted = @ \cup {q}]
  /\ Goto(p, "run")
  /\ UNCHANGED <<ctx, ret, cur, noproc, swapvars>>

WaitNone(p) ==
  /\ At(p, "wait")
  /\ \A q \in Children(kern, p) : kern.p_stat[q] # "SZOMB"
  /\ Unreported(kern, p) = {}
  /\ Goto(p, IF Children(kern, p) = {} THEN "run" ELSE "waitsleep")
  /\ UNCHANGED <<kern, ctx, ret, cur, noproc, swapvars>>

\* wait3() is called, and its sleep.
Wait(p) ==
  /\ At(p, "run")
  /\ p \in Waits
  /\ Goto(p, "wait")
  /\ UNCHANGED <<kern, ctx, ret, cur, noproc, swapvars>>

WaitSleep(p) ==
  /\ At(p, "waitsleep")
  /\ SleepCall(p, ChanOf[p], PWAIT, "wait")

\* kill().
Kill(p) ==
  /\ At(p, "run")
  /\ \E q \in Procs : \E sig \in Posted[q] :
       /\ kern.p_stat[q] \notin {"free", "SZOMB"}
       /\ kern' = Psignal(kern, q, sig)
  /\ UNCHANGED <<pc, ctx, ret, cur, noproc, swapvars>>

-----------------------------------------------------------------------------
(***************************************************************************)
(* Interrupts.  issig() called by sleep() before its switch runs at        *)
(* splhigh; everywhere else an interrupt may come in.                      *)
(***************************************************************************)
IntrEnabled ==
  /\ NoPanic
  /\ \/ noproc
     \/ ctx[cur] # "sleep1"
     \/ pc[cur] \notin {"issig", "chld", "stop", "swtch"}

IntrWakeup ==
  /\ IntrEnabled
  /\ \E chan \in IntrChan \cup {SWAPIO} :
       /\ Sleepers(kern, chan) # {}
       /\ kern' = Wakeup(kern, chan)
  /\ UNCHANGED <<pc, ctx, ret, cur, noproc, swapvars>>

IntrSend(q, sig) ==
  /\ IntrEnabled
  /\ kern.p_stat[q] \notin {"free", "SZOMB"}
  /\ kern' = Psignal(kern, q, sig)
  /\ UNCHANGED <<pc, ctx, ret, cur, noproc, swapvars>>

IntrSignal == \E q \in Procs : \E sig \in IntrSigs[q] : IntrSend(q, sig)

\* Mutant: the priority of a queued process is changed in place.
ReprioritizeInPlace(k, p, usrpri) ==
  IF k.p_pri[p] < PUSER THEN k ELSE [k EXCEPT !.p_pri[p] = usrpri]

\* Mutant: the nice value is added once more.
ReprioritizeNicer(k, p, usrpri) ==
  IF k.p_pri[p] < PUSER THEN k
  ELSE IF ~Running(p) /\ k.p_stat[p] = "SRUN" /\ p \in k.sload
  THEN Setrq([Remrq(k, p) EXCEPT !.p_pri[p] = usrpri + 1], p)
  ELSE [k EXCEPT !.p_pri[p] = usrpri + 1]

\* Mutant: the running process is taken for one on a run queue.
ReprioritizeRunning(k, p, usrpri) ==
  IF k.p_pri[p] < PUSER THEN k
  ELSE IF k.p_stat[p] = "SRUN" /\ p \in k.sload /\ k.p_pri[p] # usrpri
  THEN Setrq([Remrq(k, p) EXCEPT !.p_pri[p] = usrpri], p)
  ELSE [k EXCEPT !.p_pri[p] = usrpri]

\* schedcpu() gives a process the user priority it has computed; one that
\* is on another run queue is moved.  Its loop raises the priority to splhigh
\* for one process at a time, and device interrupts come between: a step is
\* one process of the loop.  Which processes have slept for too long to be
\* looked at is left open.
Reprioritize(k, p, usrpri) ==
  LET k1 == [k EXCEPT !.p_pri[p] = usrpri]
  IN  IF k.p_pri[p] < PUSER THEN k
      ELSE IF /\ ~Running(p)
              /\ k.p_stat[p] = "SRUN"
              /\ p \in k.sload
              /\ k.p_pri[p] # usrpri
      THEN Setrq([Remrq(k, p) EXCEPT !.p_pri[p] = usrpri], p)
      ELSE k1

Schedcpu ==
  /\ IntrEnabled
  /\ \E p \in Procs : \E usrpri \in UserPri :
       /\ kern.p_stat[p] \notin {"free", "SZOMB"}
       /\ kern' = Reprioritize(kern, p, usrpri)
  /\ UNCHANGED <<pc, ctx, ret, cur, noproc, swapvars>>

\* schedcpu() also wakes, every second, what sleeps on lbolt and runin.
SchedcpuWakeup ==
  /\ IntrEnabled
  /\ kern' = Wakeup(Wakeup(kern, LBOLT), RUNIN)
  /\ UNCHANGED <<pc, ctx, ret, cur, noproc, swapvars>>

\* vmmeter(), called by schedcpu(): memory is low, or the swapper has slept
\* for long.
Vmmeter ==
  /\ IntrEnabled
  /\ VmWakes
  /\ kern' = Wakeup(Wakeup([kern EXCEPT !.runout = FALSE], RUNIN), RUNOUT)
  /\ UNCHANGED <<pc, ctx, ret, cur, noproc, swapvars>>

-----------------------------------------------------------------------------
(***************************************************************************)
(* The swapper: sched(), swapin() and swapout().  Sizes, ages and the      *)
(* deficit are left out: they decide which of the choices below is taken.  *)
(***************************************************************************)
SwapSleep(k, chan, back) ==
  /\ kern' = [EnterSleep(k, Swapper, chan, PZERO)
                EXCEPT !.p_stat[Swapper] = "SSLEEP"]
  /\ Goto(Swapper, back)
  /\ noproc' = TRUE
  /\ UNCHANGED <<ctx, ret, cur>>

SchedLoop ==
  /\ At(Swapper, "loop")
  /\ kern' = [kern EXCEPT !.wantin = FALSE]
  /\ inp' = Swapper
  /\ skipped' = {}
  /\ \/ Goto(Swapper, "scan") /\ todo' = Procs
     \/ Goto(Swapper, "hard") /\ UNCHANGED todo
  /\ UNCHANGED <<ctx, ret, cur, noproc, victim>>

Asleep(k, q) == k.p_stat[q] \in {"SSLEEP", "SSTOP"}
WantsIn(k, q) == k.p_stat[q] = "SRUN" /\ q \notin k.sload

\* One process of the scan: a candidate to bring in, one that cannot be
\* brought in before its pageouts are done, deadwood to kick out, or none of
\* these.
SchedScan ==
  /\ At(Swapper, "scan")
  /\ \E q \in todo :
       /\ todo' = todo \ {q}
       /\ \/ /\ WantsIn(kern, q)
             /\ inp' = q
             /\ UNCHANGED <<pc, victim, skipped>>
          \/ /\ WantsIn(kern, q) /\ q \in PagesOut
             /\ skipped' = skipped \cup {q}
             /\ UNCHANGED <<pc, inp, victim>>
          \/ /\ ~WantsIn(kern, q) \/ inp # Swapper
             /\ UNCHANGED <<pc, inp, victim, skipped>>
          \/ /\ Asleep(kern, q) /\ q \in kern.sload /\ q \in Deadwood
             /\ victim' = q
             /\ Goto(Swapper, "dead")
             /\ UNCHANGED <<inp, skipped>>
  /\ UNCHANGED <<kern, ctx, ret, cur, noproc>>

SchedDeadwood ==
  /\ At(Swapper, "dead")
  /\ kern' = [kern EXCEPT !.sload = @ \ {victim}]
  /\ Goto(Swapper, "out")
  /\ ctx' = [ctx EXCEPT ![Swapper] = "scan"]
  /\ UNCHANGED <<ret, cur, noproc, swapvars>>

\* Mutant: wantin is not looked at again.
SchedIdleNoWantin ==
  /\ At(Swapper, "scan")
  /\ todo = {} /\ inp = Swapper
  /\ SwapSleep([kern EXCEPT !.runout = TRUE], RUNOUT, "loop")
  /\ UNCHANGED swapvars

\* No one wants in, so nothing to do; tested and slept on at splhigh.
SchedIdle ==
  /\ At(Swapper, "scan")
  /\ todo = {} /\ inp = Swapper
  /\ IF kern.wantin
     THEN SwapSleep([kern EXCEPT !.wantin = FALSE], LBOLT, "loop")
     ELSE SwapSleep([kern EXCEPT !.runout = TRUE], RUNOUT, "loop")
  /\ UNCHANGED swapvars

\* Someone wants in: there is memory for him and swapin() reads him, or
\* swapin() or the estimate says there is none.
SchedIn ==
  /\ At(Swapper, "scan")
  /\ todo = {} /\ inp # Swapper
  /\ \/ SwapSleep(kern, SWAPIO, "inio")
     \/ Goto(Swapper, "hard") /\ UNCHANGED <<kern, ctx, ret, cur, noproc>>
  /\ UNCHANGED swapvars

\* Mutant: a process that became runnable while it was read in is not queued.
SwapinNoSetrq ==
  /\ At(Swapper, "inio")
  /\ kern' = [kern EXCEPT !.sload = @ \cup {inp}]
  /\ Goto(Swapper, "loop")
  /\ UNCHANGED <<ctx, ret, cur, noproc, swapvars>>

\* The end of swapin(), at splclock.
Swapin ==
  /\ At(Swapper, "inio")
  /\ LET k == IF kern.p_stat[inp] = "SRUN" THEN Setrq(kern, inp) ELSE kern
     IN  kern' = [k EXCEPT !.sload = @ \cup {inp}]
  /\ Goto(Swapper, "loop")
  /\ UNCHANGED <<ctx, ret, cur, noproc, swapvars>>

\* hardswap: kick someone out, at splhigh, or wait on runin.
SchedHard ==
  /\ At(Swapper, "hard")
  /\ \/ \E q \in Big :
          /\ q \in kern.sload /\ q # inp
          /\ Asleep(kern, q) \/ kern.p_stat[q] = "SRUN"
          /\ LET k == [kern EXCEPT !.sload = @ \ {q}]
             IN  kern' = IF k.p_stat[q] = "SRUN" THEN Remrq(k, q) ELSE k
          /\ victim' = q
          /\ Goto(Swapper, "out")
          /\ ctx' = [ctx EXCEPT ![Swapper] = "hard"]
          /\ UNCHANGED <<ret, cur, noproc, todo, inp, skipped>>
     \/ SwapSleep(kern, RUNIN, "loop") /\ UNCHANGED swapvars

\* swapout() finds no room on the swap device and returns 0.
SwapoutFails ==
  /\ At(Swapper, "out")
  /\ victim \in SwapFull
  /\ LET k == [kern EXCEPT !.sload = @ \cup {victim}]
     IN  IF ctx[Swapper] = "scan"
         THEN kern' = k /\ Goto(Swapper, "scan")
              /\ UNCHANGED <<ctx, ret, cur, noproc>>
         ELSE SwapSleep(k, RUNIN, "loop")
  /\ UNCHANGED swapvars

\* swapout() writes the process, then gives up its memory.
SwapoutStart ==
  /\ At(Swapper, "out")
  /\ SwapSleep(kern, SWAPIO, "outio")
  /\ UNCHANGED swapvars

SwapoutEnd ==
  /\ At(Swapper, "outio")
  /\ LET k  == [kern EXCEPT !.sload = @ \ {victim}]
         k1 == IF k.runout THEN Wakeup([k EXCEPT !.runout = FALSE], RUNOUT)
               ELSE k
     IN  kern' = IF victim \in kern.sload THEN Panic(kern, "swapout") ELSE k1
  /\ Goto(Swapper, IF ctx[Swapper] = "scan" THEN "scan" ELSE "loop")
  /\ UNCHANGED <<ctx, ret, cur, noproc, swapvars>>

Sched ==
  \/ SchedLoop \/ SchedScan \/ SchedDeadwood \/ SchedIdle \/ SchedIn
  \/ Swapin \/ SchedHard \/ SwapoutFails \/ SwapoutStart \/ SwapoutEnd

-----------------------------------------------------------------------------
(***************************************************************************)
(* The system after some time: init waits for its children, the swapper    *)
(* for someone to bring in, and the other processes are on a run queue.    *)
(***************************************************************************)
Init ==
  /\ kern = [p_stat   |-> [p \in All |-> IF p \in {InitProc, Swapper}
                                         THEN "SSLEEP" ELSE "SRUN"],
             p_wchan  |-> [p \in All |-> IF p = InitProc THEN ChanOf[p]
                                         ELSE IF p = Swapper THEN RUNOUT
                                         ELSE NoChan],
             p_pri    |-> [p \in All |-> IF p = InitProc THEN PWAIT
                                         ELSE IF p = Swapper THEN PZERO
                                         ELSE PUSER],
             p_rlink  |-> [p \in All |-> IF p \in {InitProc, Swapper}
                                         THEN NoQ ELSE PUSER],
             p_sig    |-> [p \in All |-> {}],
             p_cursig |-> [p \in All |-> NoSig],
             p_pptr   |-> Parent,
             sload    |-> All,
             swted    |-> {},
             whichqs  |-> {PUSER},
             runout   |-> TRUE,
             wantin   |-> FALSE,
             panicstr |-> ""]
  /\ pc = [p \in All |-> IF p = Swapper THEN "loop"
                         ELSE IF p = InitProc THEN "woken" ELSE "run"]
  /\ ctx = [p \in All |-> "trap"]
  /\ ret = [p \in All |-> IF p = InitProc THEN "wait" ELSE "run"]
  /\ cur = Swapper
  /\ noproc = TRUE
  /\ todo = {} /\ inp = Swapper /\ victim = Swapper /\ skipped = {}

Proc(p) ==
  \/ Sleep(p) \/ Woken(p) \/ IssigNone(p) \/ IssigSend(p)
  \/ IssigContinue(p) \/ IssigKill(p) \/ IssigStop(p) \/ TellParent(p)
  \/ StopSelf(p) \/ SwtchStopped(p) \/ TrapExit(p) \/ Psig(p) \/ Rest(p)
  \/ Fork(p) \/ Procdup(p) \/ Exit(p) \/ ExitChild(p) \/ ExitSwtch(p)
  \/ Wait(p) \/ WaitReap(p) \/ WaitStopped(p) \/ WaitNone(p)
  \/ WaitSleep(p) \/ Kill(p)

Intr == IntrWakeup \/ IntrSignal \/ Schedcpu \/ SchedcpuWakeup \/ Vmmeter

Next == (\E p \in Procs : Proc(p)) \/ Swtch \/ Sched \/ Intr

Spec == Init /\ [][Next]_vars

-----------------------------------------------------------------------------
(***************************************************************************)
(* Properties.                                                             *)
(***************************************************************************)

\* The run queues hold exactly the processes that can be run: runnable, in
\* core, and not the running one ("The running process is on no queue, other
\* processes are on a queue", locore.s).  A process missing from them never
\* runs again; one on them that is not in core, or that is running, is
\* resumed on a stack it has not got.
RunQueueExact ==
  \A p \in All :
    kern.p_rlink[p] # NoQ <=>
      kern.p_stat[p] = "SRUN" /\ p \in kern.sload /\ ~Running(p)

\* A queued process is on the queue its p_pri names and whichqs has a bit
\* for exactly the queues that are not empty, although schedcpu(), psignal()
\* and the trap exit change p_pri of processes in every state: remrq() and
\* swtch() find a process by these alone.
QueueMatchesPri ==
  /\ \A p \in All : kern.p_rlink[p] \in {NoQ, kern.p_pri[p]}
  /\ kern.whichqs = {b \in Pri : OnQueue(kern, b) # {}}

\* A sleeping process is on a sleep queue, so that a wakeup() can find it,
\* and a process on a sleep queue is asleep or stopped, or still inside
\* sleep(), where no wakeup() comes before it has looked for signals.
SleepQueueExact ==
  \A p \in All :
    /\ kern.p_stat[p] = "SSLEEP" => kern.p_wchan[p] # NoChan
    /\ kern.p_wchan[p] # NoChan =>
         \/ kern.p_stat[p] \in {"SSLEEP", "SSTOP"}
         \/ /\ Running(p) /\ ctx[p] = "sleep1"
            /\ pc[p] \in {"issig", "chld", "stop"}

\* psig() never terminates a process for a signal whose default is to stop
\* it or to be discarded, however the p_cursig of an earlier stop survives.
\* (A stopped child that init inherits is sent a hangup on top of it.)
StopSignalsNeverKill ==
  \A p \in Procs : pc[p] = "exit" /\ kern.p_pptr[p] # InitProc =>
                     kern.p_cursig[p] \in FatalSig

\* A SIGCONT is never left pending for a stopped process: it would stay
\* stopped, the signal that was to continue it being already spent.
ContinueNotLost ==
  \A p \in Procs : kern.p_stat[p] = "SSTOP" => SIGCONT \notin kern.p_sig[p]

\* While sched() sleeps on runout, where nothing but a change will wake it,
\* no process is runnable and out of core but those its last scan has passed
\* over for their pageouts: whoever became runnable during the scan has been
\* noticed through wantin, and whoever becomes runnable later wakes it.
SwapperNotStuck ==
  kern.p_wchan[Swapper] = RUNOUT =>
    \A q \in Procs : WantsIn(kern, q) => q \in skipped

\* "No one wants in, so nothing to do" (vm_sched.c): sched() goes to sleep on
\* runout when no process is runnable and out of core.
NoOneWantsIn ==
  kern.p_wchan[Swapper] = RUNOUT => \A q \in Procs : ~WantsIn(kern, q)

\* A process asleep in wait1().
InWait(p) ==
  kern.p_stat[p] = "SSLEEP" /\ kern.p_wchan[p] = ChanOf[p] /\ ret[p] = "wait"

\* No process sleeps in wait1() with something to report: a child that has
\* exited, or one that has stopped and was not reported yet.
WaitSeesChildren ==
  \A p \in Procs : InWait(p) =>
    \A q \in Children(kern, p) :
      pc[q] # "zombie" /\ q \notin Unreported(kern, p)

\* "Children of init aren't allowed to stop on signals from the keyboard"
\* (kern_sig.c), neither those that stop after their parent's exit() nor
\* those that were stopped before it and are inherited.
InitChildrenRun ==
  \A p \in Procs :
    kern.p_pptr[p] = InitProc /\ kern.p_stat[p] = "SSTOP" =>
      kern.p_cursig[p] = SIGSTOP

-----------------------------------------------------------------------------
(***************************************************************************)
(* The three races that break the run queues.                              *)
(***************************************************************************)

\* An interrupt sets a process running that issig() has decided to stop and
\* that has not called swtch() yet.
ContinuedTooSoon ==
  \E q \in Procs : \E sig \in {SIGKILL, SIGCONT} :
    pc[q] \in {"chld", "stop", "swtch"} /\ IntrSend(q, sig)

\* A process becomes runnable after sched() has taken it for deadwood, or
\* before swapout() gives up for want of room on the swap device.
VictimRunnable ==
  (SchedDeadwood \/ SwapoutFails) /\ kern.p_stat[victim] = "SRUN"

Race == ContinuedTooSoon \/ VictimRunnable

-----------------------------------------------------------------------------
(***************************************************************************)
(* Fairness.  The processor executes; every system call ends (TrapExit);   *)
(* roundrobin() sets runrun ten times a second, so a process that keeps    *)
(* coming back through the trap exit gives the processor up again and      *)
(* again; swtch() takes the head of a queue, so it takes everyone there in *)
(* turn; and a device answers.  Nothing is assumed of schedcpu(): a        *)
(* process may starve behind one of better priority.                       *)
(***************************************************************************)
SwtchTo(p) == Swtch /\ cur' = p
RestSwtch(p) == Rest(p) /\ noproc'

Fairness ==
  /\ WF_vars(Swtch)
  /\ WF_vars(Sched)
  /\ WF_vars(IntrWakeup)
  /\ WF_vars(SchedcpuWakeup)
  /\ \A p \in Procs :
       /\ WF_vars(Proc(p))
       /\ SF_vars(TrapExit(p))
       /\ SF_vars(RestSwtch(p))
       /\ SF_vars(SwtchTo(p))

FairSpec == Spec /\ Fairness

\* SIGKILL takes effect: "kill (cannot be caught or ignored)" (signal.h).
\* Whatever the process is doing when it is sent, running, asleep at any
\* priority, stopped, or on its way between two of these, it exits.
KillTakesEffect ==
  \A p \in Procs \ {InitProc} :
    SIGKILL \in kern.p_sig[p] ~> kern.p_stat[p] \in {"SZOMB", "free"}

=============================================================================
