---------------------------- MODULE SelectProofs ----------------------------
(***************************************************************************)
(* select() loses no event and keeps its timeouts exact, for any number of *)
(* processes and sockets: the inductive invariant IInv, a lemma for each   *)
(* action of Select, and the theorems about the invariants the run checks. *)
(***************************************************************************)
EXTENDS Select, TLAPS

\* Whoever makes s ready will find out that p waits for it: p is recorded
\* with the socket, or a collision is.
Watched(p, s) ==
  /\ s \notin ready
  /\ sb_sel[s] # None
  /\ sb_sel[s] = p \/ SB_COLL[s]

\* Every socket a sleeper asked about is watched.
SleepersWatched ==
  \A p \in Procs :
    wchan[p] => pc[p] = "sleep" /\ \A s \in want[p] : Watched(p, s)

\* What the process in the kernel has scanned is watched, or it will not sleep:
\* it found a socket ready, or an event since has left it a sign.
ScannerWatched ==
  \A p \in Procs : pc[p] \in {"scan", "check"} =>
    /\ pc[p] = "check" => todo[p] = {}
    /\ \/ n[p]
       \/ ~SSEL[p]
       \/ ncollOld[p]
       \/ \A s \in want[p] \ todo[p] : Watched(p, s)

\* The inductive invariant.
IInv ==
  /\ TypeOK
  /\ SleepersWatched
  /\ ScannerWatched
  /\ NoStaleUnselect
  /\ TimedSleepersHaveTimeout

-----------------------------------------------------------------------------
\* The invariant holds to begin with: nobody is in select().
LEMMA InitIInv == Init => IInv
BY SelectAssumption
DEF Init, IInv, TypeOK, SleepersWatched, ScannerWatched, NoStaleUnselect,
    TimedSleepersHaveTimeout, AllFalse

\* A call begins with everything still to scan.
LEMMA SelectCallIInv ==
  ASSUME IInv, NEW p \in Procs, NEW fds \in SUBSET Socks, NEW timed \in BOOLEAN,
         SelectCall(p, fds, timed)
  PROVE  IInv'
<1> USE SelectAssumption DEF SelectCall, Retry
<1>1. TypeOK'
  BY DEF IInv, TypeOK, SleepersWatched
<1>2. SleepersWatched'
  BY DEF IInv, TypeOK, SleepersWatched, Watched
<1>3. ScannerWatched'
  BY DEF IInv, TypeOK, ScannerWatched, Watched
<1>4. NoStaleUnselect' /\ TimedSleepersHaveTimeout'
  BY DEF IInv, TypeOK, SleepersWatched, NoStaleUnselect, TimedSleepersHaveTimeout
<1>5. QED BY <1>1, <1>2, <1>3, <1>4 DEF IInv

\* A socket that is scanned is watched from then on, or found ready.
LEMMA ScanIInv ==
  ASSUME IInv, NEW p \in Procs, NEW s \in Socks, Scan(p, s)
  PROVE  IInv'
<1> USE SelectAssumption DEF Scan, Sbselqueue
<1>1. TypeOK'
  <2>1. sb_sel' \in [Socks -> Procs \cup {None}] /\ SB_COLL' \in [Socks -> BOOLEAN]
    BY DEF IInv, TypeOK
  <2>2. n' \in [Procs -> BOOLEAN] /\ todo' \in [Procs -> SUBSET Socks]
    BY DEF IInv, TypeOK
  <2>3. QED BY <2>1, <2>2 DEF IInv, TypeOK
<1>2. SleepersWatched'
  BY DEF IInv, TypeOK, SleepersWatched, ScannerWatched, Watched
<1>3. ScannerWatched'
  BY DEF IInv, TypeOK, SleepersWatched, ScannerWatched, Watched
<1>4. NoStaleUnselect' /\ TimedSleepersHaveTimeout'
  BY DEF IInv, TypeOK, SleepersWatched, NoStaleUnselect, TimedSleepersHaveTimeout
<1>5. QED BY <1>1, <1>2, <1>3, <1>4 DEF IInv

\* The scan ends with nothing left to do.
LEMMA ScanEndIInv ==
  ASSUME IInv, NEW p \in Procs, ScanEnd(p)
  PROVE  IInv'
<1> USE SelectAssumption DEF ScanEnd
<1>1. TypeOK'
  BY DEF IInv, TypeOK, SleepersWatched
<1>2. SleepersWatched'
  BY DEF IInv, TypeOK, SleepersWatched, ScannerWatched, Watched
<1>3. ScannerWatched'
  BY DEF IInv, TypeOK, SleepersWatched, ScannerWatched, Watched
<1>4. NoStaleUnselect' /\ TimedSleepersHaveTimeout'
  BY DEF IInv, TypeOK, SleepersWatched, NoStaleUnselect, TimedSleepersHaveTimeout
<1>5. QED BY <1>1, <1>2, <1>3, <1>4 DEF IInv

\* A return leaves nobody asleep and nobody scanning.
LEMMA CheckDoneIInv ==
  ASSUME IInv, NEW p \in Procs, CheckDone(p)
  PROVE  IInv'
<1> USE SelectAssumption DEF CheckDone, Return
<1>1. TypeOK'
  BY DEF IInv, TypeOK, SleepersWatched
<1>2. SleepersWatched'
  BY DEF IInv, TypeOK, SleepersWatched, ScannerWatched, Watched
<1>3. ScannerWatched'
  BY DEF IInv, TypeOK, SleepersWatched, ScannerWatched, Watched
<1>4. NoStaleUnselect' /\ TimedSleepersHaveTimeout'
  BY DEF IInv, TypeOK, SleepersWatched, NoStaleUnselect, TimedSleepersHaveTimeout
<1>5. QED BY <1>1, <1>2, <1>3, <1>4 DEF IInv

\* A retry scans everything again.
LEMMA CheckRetryIInv ==
  ASSUME IInv, NEW p \in Procs, CheckRetry(p)
  PROVE  IInv'
<1> USE SelectAssumption DEF CheckRetry, Retry
<1>1. TypeOK'
  BY DEF IInv, TypeOK, SleepersWatched
<1>2. SleepersWatched'
  BY DEF IInv, TypeOK, SleepersWatched, ScannerWatched, Watched
<1>3. ScannerWatched'
  BY DEF IInv, TypeOK, SleepersWatched, ScannerWatched, Watched
<1>4. NoStaleUnselect' /\ TimedSleepersHaveTimeout'
  BY DEF IInv, TypeOK, SleepersWatched, NoStaleUnselect, TimedSleepersHaveTimeout
<1>5. QED BY <1>1, <1>2, <1>3, <1>4 DEF IInv

\* A process goes to sleep with everything it asked about watched, and with
\* its timeout.
LEMMA CheckSleepIInv ==
  ASSUME IInv, NEW p \in Procs, CheckSleep(p)
  PROVE  IInv'
<1> USE SelectAssumption DEF CheckSleep
<1>1. TypeOK'
  BY DEF IInv, TypeOK, SleepersWatched
<1>2. SleepersWatched'
  BY DEF IInv, TypeOK, SleepersWatched, ScannerWatched, Watched
<1>3. ScannerWatched'
  BY DEF IInv, TypeOK, SleepersWatched, ScannerWatched, Watched
<1>4. NoStaleUnselect' /\ TimedSleepersHaveTimeout'
  BY DEF IInv, TypeOK, SleepersWatched, NoStaleUnselect, TimedSleepersHaveTimeout
<1>5. QED BY <1>1, <1>2, <1>3, <1>4 DEF IInv

\* A signal found by sleep() ends the call.
LEMMA CheckSignalIInv ==
  ASSUME IInv, NEW p \in Procs, CheckSignal(p)
  PROVE  IInv'
<1> USE SelectAssumption DEF CheckSignal, Return
<1>1. TypeOK'
  BY DEF IInv, TypeOK, SleepersWatched
<1>2. SleepersWatched'
  BY DEF IInv, TypeOK, SleepersWatched, ScannerWatched, Watched
<1>3. ScannerWatched'
  BY DEF IInv, TypeOK, SleepersWatched, ScannerWatched, Watched
<1>4. NoStaleUnselect' /\ TimedSleepersHaveTimeout'
  BY DEF IInv, TypeOK, SleepersWatched, NoStaleUnselect, TimedSleepersHaveTimeout
<1>5. QED BY <1>1, <1>2, <1>3, <1>4 DEF IInv

\* A signal that ended the sleep ends the call, and takes the timeout back.
LEMMA AwakeSignalIInv ==
  ASSUME IInv, NEW p \in Procs, AwakeSignal(p)
  PROVE  IInv'
<1> USE SelectAssumption DEF AwakeSignal, Return
<1>1. TypeOK'
  BY DEF IInv, TypeOK, SleepersWatched
<1>2. SleepersWatched'
  BY DEF IInv, TypeOK, SleepersWatched, ScannerWatched, Watched
<1>3. ScannerWatched'
  BY DEF IInv, TypeOK, SleepersWatched, ScannerWatched, Watched
<1>4. NoStaleUnselect' /\ TimedSleepersHaveTimeout'
  BY DEF IInv, TypeOK, SleepersWatched, NoStaleUnselect, TimedSleepersHaveTimeout
<1>5. QED BY <1>1, <1>2, <1>3, <1>4 DEF IInv

\* The process runs again, takes the timeout back and scans everything.
LEMMA AwakeIInv ==
  ASSUME IInv, NEW p \in Procs, Awake(p)
  PROVE  IInv'
<1> USE SelectAssumption DEF Awake, Retry
<1>1. TypeOK'
  BY DEF IInv, TypeOK, SleepersWatched
<1>2. SleepersWatched'
  BY DEF IInv, TypeOK, SleepersWatched, ScannerWatched, Watched
<1>3. ScannerWatched'
  BY DEF IInv, TypeOK, SleepersWatched, ScannerWatched, Watched
<1>4. NoStaleUnselect' /\ TimedSleepersHaveTimeout'
  BY DEF IInv, TypeOK, SleepersWatched, NoStaleUnselect, TimedSleepersHaveTimeout
<1>5. QED BY <1>1, <1>2, <1>3, <1>4 DEF IInv

\* Reading makes nothing ready.
LEMMA ReadIInv ==
  ASSUME IInv, NEW p \in Procs, NEW s \in Socks, Read(p, s)
  PROVE  IInv'
<1> USE SelectAssumption DEF Read
<1>1. TypeOK'
  BY DEF IInv, TypeOK, SleepersWatched
<1>2. SleepersWatched'
  BY DEF IInv, TypeOK, SleepersWatched, ScannerWatched, Watched
<1>3. ScannerWatched'
  BY DEF IInv, TypeOK, SleepersWatched, ScannerWatched, Watched
<1>4. NoStaleUnselect' /\ TimedSleepersHaveTimeout'
  BY DEF IInv, TypeOK, SleepersWatched, NoStaleUnselect, TimedSleepersHaveTimeout
<1>5. QED BY <1>1, <1>2, <1>3, <1>4 DEF IInv

\* Time passes.
LEMMA ExpireIInv ==
  ASSUME IInv, NEW p \in Procs, Expire(p)
  PROVE  IInv'
<1> USE SelectAssumption DEF Expire
<1>1. TypeOK'
  BY DEF IInv, TypeOK, SleepersWatched
<1>2. SleepersWatched'
  BY DEF IInv, TypeOK, SleepersWatched, ScannerWatched, Watched
<1>3. ScannerWatched'
  BY DEF IInv, TypeOK, SleepersWatched, ScannerWatched, Watched
<1>4. NoStaleUnselect' /\ TimedSleepersHaveTimeout'
  BY DEF IInv, TypeOK, SleepersWatched, NoStaleUnselect, TimedSleepersHaveTimeout
<1>5. QED BY <1>1, <1>2, <1>3, <1>4 DEF IInv

\* unselect() ends the sleep whose timeout it was.
LEMMA UnselectIInv ==
  ASSUME IInv, NEW p \in Procs, Unselect(p)
  PROVE  IInv'
<1> USE SelectAssumption DEF Unselect
<1>1. TypeOK'
  BY DEF IInv, TypeOK, SleepersWatched
<1>2. SleepersWatched'
  BY DEF IInv, TypeOK, SleepersWatched, ScannerWatched, Watched
<1>3. ScannerWatched'
  BY DEF IInv, TypeOK, SleepersWatched, ScannerWatched, Watched
<1>4. NoStaleUnselect' /\ TimedSleepersHaveTimeout'
  BY DEF IInv, TypeOK, SleepersWatched, NoStaleUnselect, TimedSleepersHaveTimeout
<1>5. QED BY <1>1, <1>2, <1>3, <1>4 DEF IInv

\* A signal ends the sleep.
LEMMA PsignalIInv ==
  ASSUME IInv, NEW p \in Procs, Psignal(p)
  PROVE  IInv'
<1> USE SelectAssumption DEF Psignal
<1>1. TypeOK'
  BY DEF IInv, TypeOK, SleepersWatched
<1>2. SleepersWatched'
  BY DEF IInv, TypeOK, SleepersWatched, ScannerWatched, Watched
<1>3. ScannerWatched'
  BY DEF IInv, TypeOK, SleepersWatched, ScannerWatched, Watched
<1>4. NoStaleUnselect' /\ TimedSleepersHaveTimeout'
  BY DEF IInv, TypeOK, SleepersWatched, NoStaleUnselect, TimedSleepersHaveTimeout
<1>5. QED BY <1>1, <1>2, <1>3, <1>4 DEF IInv

\* A stop leaves the process on its sleep queue.
LEMMA StopIInv ==
  ASSUME IInv, NEW p \in Procs, Stop(p)
  PROVE  IInv'
<1> USE SelectAssumption DEF Stop, procVars
<1>1. TypeOK'
  BY DEF IInv, TypeOK, SleepersWatched
<1>2. SleepersWatched'
  BY DEF IInv, TypeOK, SleepersWatched, ScannerWatched, Watched
<1>3. ScannerWatched'
  BY DEF IInv, TypeOK, SleepersWatched, ScannerWatched, Watched
<1>4. NoStaleUnselect' /\ TimedSleepersHaveTimeout'
  BY DEF IInv, TypeOK, SleepersWatched, NoStaleUnselect, TimedSleepersHaveTimeout
<1>5. QED BY <1>1, <1>2, <1>3, <1>4 DEF IInv

\* So does SIGCONT.
LEMMA ContIInv ==
  ASSUME IInv, NEW p \in Procs, Cont(p)
  PROVE  IInv'
<1> USE SelectAssumption DEF Cont, procVars
<1>1. TypeOK'
  BY DEF IInv, TypeOK, SleepersWatched
<1>2. SleepersWatched'
  BY DEF IInv, TypeOK, SleepersWatched, ScannerWatched, Watched
<1>3. ScannerWatched'
  BY DEF IInv, TypeOK, SleepersWatched, ScannerWatched, Watched
<1>4. NoStaleUnselect' /\ TimedSleepersHaveTimeout'
  BY DEF IInv, TypeOK, SleepersWatched, NoStaleUnselect, TimedSleepersHaveTimeout
<1>5. QED BY <1>1, <1>2, <1>3, <1>4 DEF IInv

\* A socket that becomes ready wakes every sleeper that asked about it, and
\* leaves a sign to a process that has scanned it and is not asleep yet.
LEMMA SbwakeupIInv ==
  ASSUME IInv, NEW s \in Socks, Sbwakeup(s)
  PROVE  IInv'
<1> USE SelectAssumption DEF Sbwakeup
<1>1. TypeOK'
  <2>1. SB_COLL' \in [Socks -> BOOLEAN]
    BY DEF IInv, TypeOK
  <2>2. SSEL' \in [Procs -> BOOLEAN]
    BY DEF IInv, TypeOK
  <2>3. sb_sel' \in [Socks -> Procs \cup {None}] /\ ready' \subseteq Socks
    BY DEF IInv, TypeOK
  <2>4. ncollOld' \in [Procs -> BOOLEAN] /\ wchan' \in [Procs -> BOOLEAN]
    BY DEF IInv, TypeOK
  <2>5. QED BY <2>1, <2>2, <2>3, <2>4 DEF IInv, TypeOK
<1>2. SleepersWatched'
  <2> SUFFICES ASSUME NEW q \in Procs, wchan'[q]
               PROVE  pc'[q] = "sleep" /\ \A x \in want'[q] : Watched(q, x)'
    BY DEF SleepersWatched
  <2>1. wchan[q] /\ q # sb_sel[s] /\ ~(sb_sel[s] # None /\ SB_COLL[s])
    BY DEF IInv, TypeOK
  <2>2. pc[q] = "sleep" /\ \A x \in want[q] : Watched(q, x)
    BY <2>1 DEF IInv, SleepersWatched
  <2>3. s \notin want[q]
    BY <2>1, <2>2 DEF Watched
  <2>4. \A x \in Socks \ {s} : Watched(q, x) => Watched(q, x)'
    BY DEF IInv, TypeOK, Watched
  <2>5. want[q] \subseteq Socks /\ want' = want /\ pc' = pc
    BY DEF IInv, TypeOK
  <2>6. QED BY <2>2, <2>3, <2>4, <2>5
<1>3. ScannerWatched'
  BY DEF IInv, TypeOK, SleepersWatched, ScannerWatched, Watched
<1>4. NoStaleUnselect' /\ TimedSleepersHaveTimeout'
  BY DEF IInv, TypeOK, SleepersWatched, NoStaleUnselect, TimedSleepersHaveTimeout
<1>5. QED BY <1>1, <1>2, <1>3, <1>4 DEF IInv
-----------------------------------------------------------------------------
\* Every step preserves the invariant.
LEMMA NextIInv == IInv /\ [Next]_vars => IInv'
<1> SUFFICES ASSUME IInv, [Next]_vars PROVE IInv'
  OBVIOUS
<1>1. CASE UNCHANGED vars
  BY <1>1 DEF vars, IInv, TypeOK, SleepersWatched, ScannerWatched, Watched,
      NoStaleUnselect, TimedSleepersHaveTimeout
<1>2. ASSUME NEW p \in Procs,
             \E fds \in SUBSET Socks, timed \in BOOLEAN : SelectCall(p, fds, timed)
      PROVE  IInv'
  BY <1>2, SelectCallIInv
<1>3. ASSUME NEW p \in Procs, Kernel(p) PROVE IInv'
  BY <1>3, ScanIInv, ScanEndIInv, CheckDoneIInv, CheckRetryIInv, CheckSleepIInv,
     CheckSignalIInv DEF Kernel
<1>4. ASSUME NEW p \in Procs, Resume(p) PROVE IInv'
  BY <1>4, AwakeIInv, AwakeSignalIInv DEF Resume
<1>5. ASSUME NEW p \in Procs, \E s \in Socks : Read(p, s) PROVE IInv'
  BY <1>5, ReadIInv
<1>6. ASSUME NEW p \in Procs, Expire(p) \/ Unselect(p) \/ Psignal(p) \/ Stop(p) \/ Cont(p)
      PROVE  IInv'
  BY <1>6, ExpireIInv, UnselectIInv, PsignalIInv, StopIInv, ContIInv
<1>7. ASSUME NEW s \in Socks, Sbwakeup(s) PROVE IInv'
  BY <1>7, SbwakeupIInv
<1>8. QED BY <1>1, <1>2, <1>3, <1>4, <1>5, <1>6, <1>7 DEF Next

\* The inductive invariant holds in every state of select().
THEOREM SelectInvariance == Spec => []IInv
BY InitIInv, NextIInv, PTL DEF Spec

(***************************************************************************)
(* No process sleeps in select() on a socket that is ready, however many   *)
(* processes wait for however many sockets: sbselqueue() records one of    *)
(* them and a collision, and what sbwakeup() clears or counts reaches a    *)
(* process between its scan and its sleep.                                 *)
(***************************************************************************)
THEOREM SelectLosesNoEvent == Spec => []NobodySleepsOnReady
<1>1. IInv => NobodySleepsOnReady
  BY DEF IInv, SleepersWatched, Watched, NobodySleepsOnReady
<1>2. QED BY <1>1, SelectInvariance, PTL

(***************************************************************************)
(* unselect() is queued for a process exactly while it sleeps in a         *)
(* select() with a timeout (or was woken and has not run yet), whatever    *)
(* events, signals and stops come in between.                              *)
(***************************************************************************)
THEOREM SelectTimeoutsExact == Spec => []TimeoutsExact
<1>1. IInv => TimeoutsExact
  BY DEF IInv, TimeoutsExact
<1>2. QED BY <1>1, SelectInvariance, PTL
=============================================================================
