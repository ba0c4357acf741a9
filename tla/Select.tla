------------------------------- MODULE Select -------------------------------
(***************************************************************************)
(* select() of sys/sys/sys_generic.c over objects that become ready at     *)
(* interrupt level: soo_select(), sbselqueue() and sbwakeup() of sockets;  *)
(* ttselect() and ttwakeup() have the same shape.                          *)
(*                                                                         *)
(* A process in the kernel keeps the processor until it sleeps or returns; *)
(* only interrupts come in between: a socket becoming ready, unselect()    *)
(* from the clock, signals.                                                *)
(***************************************************************************)
EXTENDS Integers, FiniteSets

CONSTANTS
  Procs,
  Socks,
  None

ASSUME SelectAssumption == None \notin Procs

VARIABLES
  pc,         \* "user", "scan", "check" or "sleep"
  cur,        \* the process in the kernel and not asleep, or None
  want,       \* the descriptors asked about
  tv,         \* whether the call has a timeout
  expired,    \* whether time has passed atv
  todo,       \* descriptors that selscan() has yet to ask
  n,          \* whether it found one ready
  SSEL,       \* the flag in p_flag
  ncollOld,   \* whether nselcoll has changed since the process read it
  wchan,      \* the process is asleep on selwait
  SSTOP,      \* it is stopped
  sig,        \* it has a signal to handle
  callout,    \* unselect(p) is in the timeout queue
  ready,      \* the sockets that are readable
  sb_sel,     \* the process recorded with each socket
  SB_COLL     \* its collision flag

procVars == <<pc, want, tv, todo, n, SSEL, ncollOld>>
vars == <<pc, cur, want, tv, expired, todo, n, SSEL, ncollOld, wchan, SSTOP, sig,
          callout, ready, sb_sel, SB_COLL>>

TypeOK ==
  /\ pc \in [Procs -> {"user", "scan", "check", "sleep"}]
  /\ cur \in Procs \cup {None}
  /\ want \in [Procs -> SUBSET Socks] /\ todo \in [Procs -> SUBSET Socks]
  /\ tv \in [Procs -> BOOLEAN] /\ expired \in [Procs -> BOOLEAN]
  /\ n \in [Procs -> BOOLEAN] /\ SSEL \in [Procs -> BOOLEAN]
  /\ ncollOld \in [Procs -> BOOLEAN] /\ wchan \in [Procs -> BOOLEAN]
  /\ SSTOP \in [Procs -> BOOLEAN] /\ sig \in [Procs -> BOOLEAN]
  /\ callout \in [Procs -> BOOLEAN] /\ ready \subseteq Socks
  /\ sb_sel \in [Socks -> Procs \cup {None}] /\ SB_COLL \in [Socks -> BOOLEAN]
  /\ \A p \in Procs : pc[p] \in {"scan", "check"} <=> cur = p

AllFalse == [p \in Procs |-> FALSE]

Init ==
  /\ pc = [p \in Procs |-> "user"] /\ cur = None
  /\ want = [p \in Procs |-> {}] /\ todo = [p \in Procs |-> {}]
  /\ tv = AllFalse /\ expired = AllFalse /\ n = AllFalse /\ SSEL = AllFalse
  /\ ncollOld = AllFalse /\ wchan = AllFalse /\ SSTOP = AllFalse
  /\ sig = AllFalse /\ callout = AllFalse /\ ready = {}
  /\ sb_sel = [s \in Socks |-> None] /\ SB_COLL = [s \in Socks |-> FALSE]

-----------------------------------------------------------------------------
\* The label retry: read nselcoll, set SSEL and scan everything.
Retry(p, fds) ==
  /\ pc' = [pc EXCEPT ![p] = "scan"] /\ cur' = p
  /\ todo' = [todo EXCEPT ![p] = fds] /\ n' = [n EXCEPT ![p] = FALSE]
  /\ SSEL' = [SSEL EXCEPT ![p] = TRUE]
  /\ ncollOld' = [ncollOld EXCEPT ![p] = FALSE]

\* The label done; what a call leaves behind is no longer looked at.
Return(p) ==
  /\ pc' = [pc EXCEPT ![p] = "user"] /\ cur' = None
  /\ want' = [want EXCEPT ![p] = {}] /\ tv' = [tv EXCEPT ![p] = FALSE]
  /\ expired' = [expired EXCEPT ![p] = FALSE] /\ todo' = [todo EXCEPT ![p] = {}]
  /\ n' = [n EXCEPT ![p] = FALSE]

SelectCall(p, fds, timed) ==
  /\ cur = None /\ pc[p] = "user" /\ ~SSTOP[p]
  /\ Retry(p, fds)
  /\ want' = [want EXCEPT ![p] = fds] /\ tv' = [tv EXCEPT ![p] = timed]
  /\ UNCHANGED <<expired, wchan, SSTOP, sig, callout, ready, sb_sel, SB_COLL>>

\* An sbselqueue() that forgets who is waiting already.
MutantSbselqueue(p, s) ==
  /\ sb_sel' = [sb_sel EXCEPT ![s] = p] /\ UNCHANGED SB_COLL

\* sbselqueue(): the process is recorded, or a collision with one asleep.
Sbselqueue(p, s) ==
  IF sb_sel[s] # None /\ wchan[sb_sel[s]]
  THEN SB_COLL' = [SB_COLL EXCEPT ![s] = TRUE] /\ UNCHANGED sb_sel
  ELSE sb_sel' = [sb_sel EXCEPT ![s] = p] /\ UNCHANGED SB_COLL

\* selscan() of one descriptor: soo_select() at splnet.
Scan(p, s) ==
  /\ pc[p] = "scan" /\ s \in todo[p]
  /\ todo' = [todo EXCEPT ![p] = @ \ {s}]
  /\ IF s \in ready
     THEN n' = [n EXCEPT ![p] = TRUE] /\ UNCHANGED <<sb_sel, SB_COLL>>
     ELSE Sbselqueue(p, s) /\ UNCHANGED n
  /\ UNCHANGED <<pc, cur, want, tv, expired, SSEL, ncollOld, wchan, SSTOP, sig,
                 callout, ready>>

\* The scan is over; an interrupt may still come before splhigh().
ScanEnd(p) ==
  /\ pc[p] = "scan" /\ todo[p] = {}
  /\ pc' = [pc EXCEPT ![p] = "check"]
  /\ UNCHANGED <<cur, want, tv, expired, todo, n, SSEL, ncollOld, wchan, SSTOP,
                 sig, callout, ready, sb_sel, SB_COLL>>

\* Something is ready, or time has passed.
CheckDone(p) ==
  /\ pc[p] = "check"
  /\ n[p] \/ (tv[p] /\ expired[p])
  /\ Return(p)
  /\ UNCHANGED <<SSEL, ncollOld, wchan, SSTOP, sig, callout, ready, sb_sel,
                 SB_COLL>>

\* An event came in since the scan began.
CheckRetry(p) ==
  /\ pc[p] = "check" /\ ~n[p] /\ ~(tv[p] /\ expired[p])
  /\ ~SSEL[p] \/ ncollOld[p]
  /\ Retry(p, want[p])
  /\ UNCHANGED <<want, tv, expired, wchan, SSTOP, sig, callout, ready, sb_sel,
                 SB_COLL>>

\* A check that looks at SSEL alone.
MutantCheckSleep(p) ==
  /\ pc[p] = "check" /\ ~n[p] /\ ~(tv[p] /\ expired[p])
  /\ SSEL[p] /\ ~sig[p]
  /\ SSEL' = [SSEL EXCEPT ![p] = FALSE]
  /\ callout' = [callout EXCEPT ![p] = tv[p]]
  /\ wchan' = [wchan EXCEPT ![p] = TRUE]
  /\ pc' = [pc EXCEPT ![p] = "sleep"] /\ cur' = None
  /\ UNCHANGED <<want, tv, expired, todo, n, ncollOld, SSTOP, sig, ready, sb_sel,
                 SB_COLL>>

\* A select() that goes to sleep again without a new timeout.
MutantCheckSleepOnce(p) ==
  /\ pc[p] = "check" /\ ~n[p] /\ ~(tv[p] /\ expired[p])
  /\ SSEL[p] /\ ~ncollOld[p] /\ ~sig[p]
  /\ SSEL' = [SSEL EXCEPT ![p] = FALSE]
  /\ callout' = callout
  /\ wchan' = [wchan EXCEPT ![p] = TRUE]
  /\ pc' = [pc EXCEPT ![p] = "sleep"] /\ cur' = None
  /\ UNCHANGED <<want, tv, expired, todo, n, ncollOld, SSTOP, sig, ready, sb_sel,
                 SB_COLL>>

\* timeout() and sleep(), all at splhigh.
CheckSleep(p) ==
  /\ pc[p] = "check" /\ ~n[p] /\ ~(tv[p] /\ expired[p])
  /\ SSEL[p] /\ ~ncollOld[p] /\ ~sig[p]
  /\ SSEL' = [SSEL EXCEPT ![p] = FALSE]
  /\ callout' = [callout EXCEPT ![p] = tv[p]]
  /\ wchan' = [wchan EXCEPT ![p] = TRUE]
  /\ pc' = [pc EXCEPT ![p] = "sleep"] /\ cur' = None
  /\ UNCHANGED <<want, tv, expired, todo, n, ncollOld, SSTOP, sig, ready, sb_sel,
                 SB_COLL>>

\* sleep() finds a signal: back through u_qsave, which takes the timeout
\* back; without a timeout to the one of syscall().
CheckSignal(p) ==
  /\ pc[p] = "check" /\ ~n[p] /\ ~(tv[p] /\ expired[p])
  /\ SSEL[p] /\ ~ncollOld[p] /\ sig[p]
  /\ SSEL' = [SSEL EXCEPT ![p] = FALSE]
  /\ sig' = [sig EXCEPT ![p] = FALSE]
  /\ Return(p)
  /\ UNCHANGED <<ncollOld, wchan, SSTOP, callout, ready, sb_sel, SB_COLL>>

\* A select() that keeps its timeout when a signal ends the sleep.
MutantAwakeSignal(p) ==
  /\ cur = None /\ pc[p] = "sleep" /\ ~wchan[p] /\ ~SSTOP[p] /\ sig[p]
  /\ sig' = [sig EXCEPT ![p] = FALSE]
  /\ Return(p)
  /\ UNCHANGED <<SSEL, ncollOld, wchan, SSTOP, callout, ready, sb_sel, SB_COLL>>

\* The process runs again, with a signal: longjmp(), EINTR.
AwakeSignal(p) ==
  /\ cur = None /\ pc[p] = "sleep" /\ ~wchan[p] /\ ~SSTOP[p] /\ sig[p]
  /\ sig' = [sig EXCEPT ![p] = FALSE]
  /\ callout' = [callout EXCEPT ![p] = FALSE]
  /\ Return(p)
  /\ UNCHANGED <<SSEL, ncollOld, wchan, SSTOP, ready, sb_sel, SB_COLL>>

\* A process that takes the processor from another inside the kernel.
MutantAwake(p) ==
  /\ pc[p] = "sleep" /\ ~wchan[p] /\ ~SSTOP[p] /\ ~sig[p]
  /\ callout' = [callout EXCEPT ![p] = FALSE]
  /\ Retry(p, want[p])
  /\ UNCHANGED <<want, tv, expired, wchan, SSTOP, sig, ready, sb_sel, SB_COLL>>

\* The process runs again: untimeout() and retry.
Awake(p) ==
  /\ cur = None /\ pc[p] = "sleep" /\ ~wchan[p] /\ ~SSTOP[p] /\ ~sig[p]
  /\ callout' = [callout EXCEPT ![p] = FALSE]
  /\ Retry(p, want[p])
  /\ UNCHANGED <<want, tv, expired, wchan, SSTOP, sig, ready, sb_sel, SB_COLL>>

-----------------------------------------------------------------------------
(***************************************************************************)
(* Interrupts, and what other system calls do.                             *)
(***************************************************************************)

\* Data arrives: sbwakeup() with selwakeup() of the process recorded, or of
\* everyone after a collision.
Sbwakeup(s) ==
  LET p    == sb_sel[s]
      coll == p # None /\ SB_COLL[s]
  IN  /\ ready' = ready \cup {s}
      /\ sb_sel' = [sb_sel EXCEPT ![s] = None]
      /\ SB_COLL' = [SB_COLL EXCEPT ![s] = IF p = None THEN @ ELSE FALSE]
      /\ ncollOld' = IF coll THEN [q \in Procs |-> TRUE] ELSE ncollOld
      /\ wchan' = [q \in Procs |-> wchan[q] /\ ~coll /\ q # p]
      /\ SSEL' = IF p # None /\ (coll \/ ~wchan[p])
                 THEN [SSEL EXCEPT ![p] = FALSE] ELSE SSEL
      /\ UNCHANGED <<pc, cur, want, tv, expired, todo, n, SSTOP, sig, callout>>

\* A process reads what is there.
Read(p, s) ==
  /\ cur = None /\ pc[p] = "user" /\ ~SSTOP[p] /\ s \in ready
  /\ ready' = ready \ {s}
  /\ UNCHANGED <<pc, cur, want, tv, expired, todo, n, SSEL, ncollOld, wchan,
                 SSTOP, sig, callout, sb_sel, SB_COLL>>

\* Time passes atv.
Expire(p) ==
  /\ tv[p] /\ ~expired[p]
  /\ expired' = [expired EXCEPT ![p] = TRUE]
  /\ UNCHANGED <<pc, cur, want, tv, todo, n, SSEL, ncollOld, wchan, SSTOP, sig,
                 callout, ready, sb_sel, SB_COLL>>

\* An unselect() that leaves a stopped process on its sleep queue.
MutantUnselect(p) ==
  /\ callout[p]
  /\ callout' = [callout EXCEPT ![p] = FALSE]
  /\ wchan' = [wchan EXCEPT ![p] = @ /\ SSTOP[p]]
  /\ UNCHANGED <<pc, cur, want, tv, expired, todo, n, SSEL, ncollOld, SSTOP, sig,
                 ready, sb_sel, SB_COLL>>

\* unselect() from softclock().  hzto() rounds down: it may be before atv.
Unselect(p) ==
  /\ callout[p]
  /\ callout' = [callout EXCEPT ![p] = FALSE]
  /\ wchan' = [wchan EXCEPT ![p] = FALSE]
  /\ UNCHANGED <<pc, cur, want, tv, expired, todo, n, SSEL, ncollOld, SSTOP, sig,
                 ready, sb_sel, SB_COLL>>

\* psignal() of a signal that is caught; it ends the sleep of a stopped
\* process too.
Psignal(p) ==
  /\ pc[p] # "user" /\ ~sig[p]
  /\ sig' = [sig EXCEPT ![p] = TRUE]
  /\ wchan' = [wchan EXCEPT ![p] = FALSE]
  /\ UNCHANGED <<pc, cur, want, tv, expired, todo, n, SSEL, ncollOld, SSTOP,
                 callout, ready, sb_sel, SB_COLL>>

\* psignal() of a stop signal to a process asleep; it stays on its queue.
Stop(p) ==
  /\ pc[p] = "sleep" /\ wchan[p] /\ ~SSTOP[p]
  /\ SSTOP' = [SSTOP EXCEPT ![p] = TRUE]
  /\ UNCHANGED <<procVars, cur, expired, wchan, sig, callout, ready, sb_sel,
                 SB_COLL>>

\* SIGCONT: back to sleep, or run if it was woken.
Cont(p) ==
  /\ SSTOP[p]
  /\ SSTOP' = [SSTOP EXCEPT ![p] = FALSE]
  /\ UNCHANGED <<procVars, cur, expired, wchan, sig, callout, ready, sb_sel, SB_COLL>>

Kernel(p) ==
  \/ \E s \in Socks : Scan(p, s)
  \/ ScanEnd(p)
  \/ CheckDone(p)
  \/ CheckRetry(p)
  \/ CheckSleep(p)
  \/ CheckSignal(p)

Resume(p) == Awake(p) \/ AwakeSignal(p)

Next ==
  \/ \E p \in Procs :
       \/ \E fds \in SUBSET Socks, timed \in BOOLEAN : SelectCall(p, fds, timed)
       \/ Kernel(p)
       \/ Resume(p)
       \/ \E s \in Socks : Read(p, s)
       \/ Expire(p)
       \/ Unselect(p)
       \/ Psignal(p)
       \/ Stop(p)
       \/ Cont(p)
  \/ \E s \in Socks : Sbwakeup(s)

\* The process with the processor goes on, the scheduler is fair to those it
\* has to choose from, and time passes.
Fairness ==
  \A p \in Procs :
    /\ WF_vars(Kernel(p)) /\ SF_vars(Resume(p))
    /\ WF_vars(Expire(p)) /\ WF_vars(Unselect(p))

Spec == Init /\ [][Next]_vars /\ Fairness

-----------------------------------------------------------------------------
(***************************************************************************)
(* Properties                                                              *)
(***************************************************************************)

(***************************************************************************)
(* No process sleeps in select() while a descriptor it asked about is      *)
(* ready: an event between the scan and the sleep clears SSEL, one that    *)
(* finds several processes waiting changes nselcoll, and collisions are    *)
(* noticed although only one process is recorded with a socket.            *)
(***************************************************************************)
NobodySleepsOnReady ==
  \A p \in Procs : wchan[p] => want[p] \cap ready = {}

(***************************************************************************)
(* unselect(p) is in the timeout queue only while p is in this sleep:      *)
(* setrun() of a process that sleeps elsewhere would end that sleep.       *)
(***************************************************************************)
NoStaleUnselect ==
  \A p \in Procs : callout[p] => pc[p] = "sleep"

\* A select() with a timeout that sleeps will be woken by it.
TimedSleepersHaveTimeout ==
  \A p \in Procs : wchan[p] /\ tv[p] => callout[p]

\* The timeout of a select() is there as long as it sleeps, and no longer.
TimeoutsExact == TypeOK /\ NoStaleUnselect /\ TimedSleepersHaveTimeout

\* A select() with a timeout returns, unless the process stays stopped.
TimedSelectReturns ==
  \A p \in Procs :
    (pc[p] # "user" /\ tv[p]) ~> (pc[p] = "user" \/ SSTOP[p])
=============================================================================
