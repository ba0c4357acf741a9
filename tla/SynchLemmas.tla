----------------------------- MODULE SynchLemmas -----------------------------
(***************************************************************************)
(* What the kernel primitives of Synch keep of the run queues and the      *)
(* sleep queues, for every proc table: each lemma takes data k that are    *)
(* Good, with r the running process unless the processor is idle (np),     *)
(* and says that what the primitive returns is Good and how it Evolves.    *)
(* The steps of SynchProofs compose them as the handlers compose calls.    *)
(***************************************************************************)
EXTENDS Synch, TLAPS

\* The run queues of the kernel data k hold exactly the runnable processes
\* in core, process r apart unless the processor is idle (np).
Queued(k, np, r) ==
  \A p \in All :
    k.p_rlink[p] # NoQ <=>
      k.p_stat[p] = "SRUN" /\ p \in k.sload /\ ~(~np /\ p = r)

\* Each queued process is on the queue p_pri names, and whichqs has a bit for
\* exactly the queues that are not empty.
Bits(k) ==
  /\ \A p \in All : k.p_rlink[p] \in {NoQ, k.p_pri[p]}
  /\ \A b \in Pri : b \in k.whichqs <=> \E p \in All : k.p_rlink[p] = b

\* Sleepers are on a sleep queue, and those on one are asleep, stopped, or,
\* when h holds, the process r inside sleep().
Asleeps(k, np, r, h) ==
  \A p \in All :
    /\ k.p_stat[p] = "SSLEEP" => k.p_wchan[p] # NoChan
    /\ k.p_wchan[p] # NoChan =>
         k.p_stat[p] \in {"SSLEEP", "SSTOP"} \/ (h /\ ~np /\ p = r)

\* What the primitives keep of the data they are applied to.
Good(k, np, r, h) ==
  /\ k \in Kern
  /\ Queued(k, np, r)
  /\ Bits(k)
  /\ Asleeps(k, np, r, h)
  /\ ~np => k.p_stat[r] # "SSLEEP"
  /\ \A p \in Procs : k.p_wchan[p] \notin SwapChan

\* What a primitive called on behalf of others may change: it makes sleeping
\* and stopped processes runnable, asleep or stopped, takes processes off
\* sleep queues, and leaves SLOAD, the parents and the running process alone.
Evolves(k, k2, np, r) ==
  /\ k2.sload = k.sload
  /\ k2.p_pptr = k.p_pptr
  /\ ~np => k2.p_stat[r] = k.p_stat[r]
  /\ \A p \in All :
       /\ k2.p_wchan[p] \in {k.p_wchan[p], NoChan}
       /\ k.p_stat[p] \notin {"SSLEEP", "SSTOP"} =>
            k2.p_stat[p] = k.p_stat[p]
       /\ k.p_stat[p] \in {"SSLEEP", "SSTOP"} =>
            k2.p_stat[p] \in {"SRUN", "SSLEEP", "SSTOP"}

\* k2 differs from k in signals and flags at most.
Same(k, k2) ==
  /\ k2.p_stat = k.p_stat
  /\ k2.p_wchan = k.p_wchan
  /\ k2.p_pri = k.p_pri
  /\ k2.p_rlink = k.p_rlink
  /\ k2.p_pptr = k.p_pptr
  /\ k2.sload = k.sload
  /\ k2.whichqs = k.whichqs

\* No process but p has changed state.
Others(k, k2, p) == \A x \in Procs \ {p} : k2.p_stat[x] = k.p_stat[x]

\* Data that differ in signals and flags only are good when the others are.
LEMMA SameGood ==
  ASSUME NEW k, NEW k2 \in Kern, NEW np \in BOOLEAN, NEW r \in All,
         NEW h \in BOOLEAN, Same(k, k2), Good(k, np, r, h)
  PROVE  Good(k2, np, r, h) /\ Evolves(k, k2, np, r)
BY DEF Good, Queued, Bits, Asleeps, Evolves, Same

\* What panic() is called with.
Why == {"", "sleep", "wakeup", "setrun", "setrq", "remrq", "swtch", "psig",
        "psig action", "swapout", "init died"}

\* panic() changes none of the queues.
LEMMA PanicSame ==
  ASSUME NEW k \in Kern, NEW why \in Why
  PROVE  Panic(k, why) \in Kern /\ Same(k, Panic(k, why))
BY DEF Panic, Kern, Same, Why

\* panic() leaves good data good.
LEMMA PanicGood ==
  ASSUME NEW k, NEW np \in BOOLEAN, NEW r \in All, NEW h \in BOOLEAN,
         NEW why \in Why, Good(k, np, r, h)
  PROVE  Good(Panic(k, why), np, r, h) /\ Evolves(k, Panic(k, why), np, r)
BY PanicSame, SameGood DEF Good

\* The types of the fields of the kernel data, one by one.
LEMMA KernTypes ==
  ASSUME NEW k \in Kern
  PROVE  /\ k.p_stat \in [All -> Stat]
         /\ k.p_wchan \in [All -> AllChan \cup {NoChan}]
         /\ k.p_pri \in [All -> Pri]
         /\ k.p_rlink \in [All -> Pri \cup {NoQ}]
         /\ k.p_sig \in [All -> SUBSET Sig]
         /\ k.p_cursig \in [All -> Sig \cup {NoSig}]
         /\ k.p_pptr \in [Procs -> All]
         /\ k.sload \in SUBSET All
         /\ k.swted \in SUBSET All
         /\ k.whichqs \in SUBSET Pri
BY DEF Kern

\* p_rlink = 0 is no run queue.
LEMMA NoQPri == NoQ \notin Pri
BY DEF NoQ, Pri, PZERO, PWAIT, PUSER, PLOW

\* wakeup(), as far as the run queues: those it takes off the sleep queue are
\* queued when they are in core, and the other queues stay as they are.
LEMMA WakeSleepersGood ==
  ASSUME NEW k, NEW np \in BOOLEAN, NEW r \in All, NEW h \in BOOLEAN,
         NEW chan \in AllChan, Good(k, np, r, h)
  PROVE  /\ Good(WakeSleepers(k, chan), np, r, h)
         /\ Evolves(k, WakeSleepers(k, chan), np, r)
<1> DEFINE up == {p \in Sleepers(k, chan) : k.p_stat[p] = "SSLEEP"}
           ready == up \cap k.sload
           w == [p \in All |-> IF k.p_wchan[p] = chan
                               THEN NoChan ELSE k.p_wchan[p]]
           s == [p \in All |-> IF p \in up THEN "SRUN" ELSE k.p_stat[p]]
           l == [p \in All |-> IF p \in ready THEN k.p_pri[p]
                               ELSE k.p_rlink[p]]
           q == k.whichqs \cup {k.p_pri[p] : p \in ready}
           k2 == [k EXCEPT !.p_wchan = w, !.p_stat = s, !.p_rlink = l,
                           !.whichqs = q]
<1>k. k \in Kern
  BY DEF Good
<1>w. w \in [All -> AllChan \cup {NoChan}]
  BY <1>k, KernTypes
<1>s. s \in [All -> Stat]
  BY <1>k, KernTypes DEF Stat
<1>l. l \in [All -> Pri \cup {NoQ}]
  BY <1>k, KernTypes
<1>q. q \in SUBSET Pri
  <2>1. \A p \in ready : p \in All
    BY DEF Sleepers
  <2> QED BY <1>k, <2>1, KernTypes
<1>r. \A p \in All : p \in ready <=>
        k.p_wchan[p] = chan /\ k.p_stat[p] = "SSLEEP" /\ p \in k.sload
  BY DEF Sleepers
<1>u. \A p \in All : p \in up <=>
        k.p_wchan[p] = chan /\ k.p_stat[p] = "SSLEEP"
  BY DEF Sleepers
<1>b. \A b \in Pri : b \in q <=>
        b \in k.whichqs \/ \E p \in All : p \in ready /\ k.p_pri[p] = b
  <2>1. \A p \in ready : p \in All
    BY DEF Sleepers
  <2> QED BY <2>1
<1>6. WakeSleepers(k, chan) \in {Panic(k, "wakeup"), k2}
  BY DEF WakeSleepers
<1> HIDE DEF up, ready, q
<1>1. k2 \in Kern
  BY <1>k, <1>w, <1>s, <1>l, <1>q DEF Kern
<1>f. /\ k2.p_wchan = w /\ k2.p_stat = s /\ k2.p_rlink = l /\ k2.whichqs = q
      /\ k2.p_pri = k.p_pri /\ k2.sload = k.sload /\ k2.p_pptr = k.p_pptr
  BY <1>k DEF Kern
<1> HIDE DEF k2
<1>2. Queued(k2, np, r)
  BY <1>k, <1>f, <1>r, <1>u, KernTypes, NoQPri DEF Good, Queued
<1>3. Bits(k2)
  <2>1. \A p \in All : p \in ready => k.p_rlink[p] = NoQ
    BY <1>r DEF Good, Queued
  <2>2. \A p \in All : l[p] = IF p \in ready THEN k.p_pri[p] ELSE k.p_rlink[p]
    OBVIOUS
  <2> HIDE DEF l
  <2>3. \A b \in Pri : b \in q <=> \E p \in All : l[p] = b
    BY <1>k, <1>b, <2>1, <2>2, KernTypes, NoQPri DEF Good, Bits
  <2> QED BY <1>f, <1>k, <2>2, <2>3 DEF Good, Bits
<1>4. Asleeps(k2, np, r, h)
  BY <1>k, <1>f, <1>u DEF Good, Asleeps
<1>5. Evolves(k, k2, np, r)
  BY <1>k, <1>f, <1>u DEF Good, Evolves
<1>7. Good(k2, np, r, h)
  <2>1. \A p \in Procs : k2.p_wchan[p] \notin SwapChan
    BY <1>f, ChanAssumption DEF Good, All, AllChan
  <2> QED BY <1>1, <1>2, <1>3, <1>4, <1>5, <2>1 DEF Good, Evolves
<1> QED
  BY <1>5, <1>6, <1>7, PanicGood DEF Why

\* Two primitives called one after the other change no more than one may.
LEMMA EvolvesTrans ==
  ASSUME NEW k, NEW k1, NEW k2, NEW np \in BOOLEAN, NEW r \in All,
         Evolves(k, k1, np, r), Evolves(k1, k2, np, r)
  PROVE  Evolves(k, k2, np, r)
BY DEF Evolves

\* A primitive that returns early changes nothing.
LEMMA EvolvesRefl ==
  ASSUME NEW k, NEW np \in BOOLEAN, NEW r \in All, k \in Kern
  PROVE  Evolves(k, k, np, r)
BY KernTypes DEF Evolves, Stat

\* runout and wantin are flags that no queue depends on.
LEMMA FlagSame ==
  ASSUME NEW k \in Kern, NEW b \in BOOLEAN
  PROVE  /\ [k EXCEPT !.runout = b] \in Kern
         /\ Same(k, [k EXCEPT !.runout = b])
         /\ [k EXCEPT !.wantin = b] \in Kern
         /\ Same(k, [k EXCEPT !.wantin = b])
BY DEF Kern, Same

\* p_sig and p_cursig are in no queue.
LEMMA SigSame ==
  ASSUME NEW k \in Kern, NEW p \in All, NEW S \in SUBSET Sig,
         NEW sig \in Sig \cup {NoSig}
  PROVE  /\ [k EXCEPT !.p_sig[p] = S] \in Kern
         /\ Same(k, [k EXCEPT !.p_sig[p] = S])
         /\ [k EXCEPT !.p_cursig[p] = sig] \in Kern
         /\ Same(k, [k EXCEPT !.p_cursig[p] = sig])
<1> [k.p_sig EXCEPT ![p] = S] \in [All -> SUBSET Sig]
  BY KernTypes
<1> QED BY DEF Kern, Same

\* Only the swapper sleeps on its channels: wakeup(&runout) changes the
\* state of no other process.
LEMMA WakeRunout ==
  ASSUME NEW k \in Kern, \A p \in Procs : k.p_wchan[p] \notin SwapChan
  PROVE  \A p \in Procs : WakeSleepers(k, RUNOUT).p_stat[p] = k.p_stat[p]
BY DEF WakeSleepers, Panic, Kern, Sleepers, SwapChan, All

\* Telling the swapper that someone wants in keeps the queues exact.
LEMMA WantInGood ==
  ASSUME NEW k, NEW np \in BOOLEAN, NEW r \in All, NEW h \in BOOLEAN,
         Good(k, np, r, h)
  PROVE  /\ Good(WantIn(k), np, r, h)
         /\ Evolves(k, WantIn(k), np, r)
         /\ \A p \in Procs : WantIn(k).p_stat[p] = k.p_stat[p]
<1> DEFINE k0 == [k EXCEPT !.runout = FALSE]
           k1 == IF k.runout THEN WakeSleepers(k0, RUNOUT) ELSE k
           k2 == [k1 EXCEPT !.wantin = TRUE]
<1>k. k \in Kern
  BY DEF Good
<1>0. k0 \in Kern /\ Same(k, k0)
  BY <1>k, FlagSame
<1>1. Good(k0, np, r, h) /\ Evolves(k, k0, np, r)
  BY <1>0, SameGood
<1>2. RUNOUT \in AllChan
  BY DEF AllChan, SwapChan
<1> HIDE DEF k0
<1>3. Good(k1, np, r, h) /\ Evolves(k, k1, np, r)
  BY <1>k, <1>1, <1>2, WakeSleepersGood, EvolvesTrans, EvolvesRefl
<1>4. \A p \in Procs : k1.p_stat[p] = k.p_stat[p]
  BY <1>0, <1>1, WakeRunout DEF Good, Same
<1>5. WantIn(k) = k2
  BY DEF WantIn, k0
<1> HIDE DEF k1
<1>6. k1 \in Kern
  BY <1>3 DEF Good
<1>7. k2 \in Kern /\ Same(k1, k2)
  BY <1>6, FlagSame
<1> HIDE DEF k2
<1>8. Good(k2, np, r, h) /\ Evolves(k1, k2, np, r)
  BY <1>3, <1>7, SameGood
<1> QED
  BY <1>3, <1>4, <1>5, <1>7, <1>8, EvolvesTrans DEF Same

\* wakeup() keeps the queues exact, whoever it finds out of core included.
LEMMA WakeupGood ==
  ASSUME NEW k, NEW np \in BOOLEAN, NEW r \in All, NEW h \in BOOLEAN,
         NEW chan \in AllChan, Good(k, np, r, h)
  PROVE  /\ Good(Wakeup(k, chan), np, r, h)
         /\ Evolves(k, Wakeup(k, chan), np, r)
<1> DEFINE k1 == WakeSleepers(k, chan)
<1>1. Good(k1, np, r, h) /\ Evolves(k, k1, np, r)
  BY WakeSleepersGood
<1>2. Wakeup(k, chan) \in {k1, WantIn(k1)}
  BY DEF Wakeup
<1> HIDE DEF k1
<1>3. Good(WantIn(k1), np, r, h) /\ Evolves(k1, WantIn(k1), np, r)
  BY <1>1, WantInGood
<1> QED
  BY <1>1, <1>2, <1>3, EvolvesTrans

\* setrun() of a process that is neither running nor being made keeps the
\* queues exact: asleep or stopped, it leaves its sleep queue, and joins a
\* run queue if in core.
LEMMA SetrunGood ==
  ASSUME NEW k, NEW np \in BOOLEAN, NEW r \in All, NEW h \in BOOLEAN,
         NEW p \in All, Good(k, np, r, h), np \/ p # r,
         k.p_stat[p] # "SIDL"
  PROVE  /\ Good(Setrun(k, p), np, r, h)
         /\ Evolves(k, Setrun(k, p), np, r)
         /\ Others(k, Setrun(k, p), p)
<1>k. k \in Kern
  BY DEF Good
<1>p. CASE k.p_stat[p] \notin {"SSLEEP", "SSTOP"}
  <2>1. Setrun(k, p) = Panic(k, "setrun")
    BY <1>p DEF Setrun
  <2>2. "setrun" \in Why
    BY DEF Why
  <2>3. Same(k, Panic(k, "setrun"))
    BY <1>k, <2>2, PanicSame
  <2> QED BY <2>1, <2>2, <2>3, PanicGood DEF Same, Others
<1>s. CASE k.p_stat[p] \in {"SSLEEP", "SSTOP"}
  <2> DEFINE k1 == [Unsleep(k, p) EXCEPT !.p_stat[p] = "SRUN"]
  <2>0. Unsleep(k, p) \in Kern /\ "SRUN" \in Stat
    BY <1>k DEF Kern, Unsleep, Stat
  <2>1. k1 \in Kern
    BY <2>0 DEF Kern
  <2>2. /\ k1.p_stat = [k.p_stat EXCEPT ![p] = "SRUN"]
        /\ k1.p_wchan = [k.p_wchan EXCEPT ![p] = NoChan]
        /\ k1.p_pri = k.p_pri /\ k1.p_rlink = k.p_rlink
        /\ k1.p_pptr = k.p_pptr
        /\ k1.sload = k.sload /\ k1.whichqs = k.whichqs
    BY <1>k DEF Kern, Unsleep
  <2>3. k.p_rlink[p] = NoQ
    BY <1>s DEF Good, Queued
  <2>4. Setrun(k, p) = IF p \in k.sload THEN Setrq(k1, p) ELSE WantIn(k1)
    BY <1>s DEF Setrun
  <2> HIDE DEF k1
  <2>5. /\ Asleeps(k1, np, r, h)
        /\ \A x \in Procs : k1.p_wchan[x] \notin SwapChan
        /\ ~np => k1.p_stat[r] # "SSLEEP"
    BY <1>k, <2>2, ChanAssumption, KernTypes DEF Good, Asleeps, All, AllChan
  <2>6. Evolves(k, k1, np, r)
    BY <1>k, <1>s, <2>2, KernTypes DEF Evolves
  <2>7. Others(k, k1, p)
    BY <1>k, <2>2, KernTypes DEF All, Others
  <2>8. CASE p \notin k.sload
    <3>1. Good(k1, np, r, h)
      BY <1>k, <2>1, <2>2, <2>3, <2>5, <2>8, KernTypes
      DEF Good, Queued, Bits
    <3>2. Others(k, WantIn(k1), p)
      BY <2>7, <3>1, WantInGood DEF Others
    <3> QED
      BY <2>4, <2>6, <2>8, <3>1, <3>2, WantInGood, EvolvesTrans
  <2>9. CASE p \in k.sload
    <3> DEFINE q == k1.whichqs \cup {k1.p_pri[p]}
               k2 == [k1 EXCEPT !.p_rlink[p] = k1.p_pri[p], !.whichqs = q]
    <3>1. Setrun(k, p) = k2
      BY <2>2, <2>3, <2>4, <2>9 DEF Setrq
    <3>2. q \in SUBSET Pri /\ k1.p_pri[p] \in Pri
      BY <2>1, KernTypes
    <3>3. \A b \in Pri : b \in q <=> b \in k1.whichqs \/ b = k1.p_pri[p]
      OBVIOUS
    <3> HIDE DEF q
    <3>4. k2 \in Kern
      BY <2>1, <3>2 DEF Kern
    <3>5. /\ k2.p_stat = k1.p_stat /\ k2.p_wchan = k1.p_wchan
          /\ k2.p_pri = k1.p_pri /\ k2.p_pptr = k1.p_pptr
          /\ k2.sload = k1.sload /\ k2.whichqs = q
          /\ k2.p_rlink = [k1.p_rlink EXCEPT ![p] = k1.p_pri[p]]
      BY <2>1 DEF Kern
    <3> HIDE DEF k2
    <3>6. Queued(k2, np, r)
      BY <1>k, <2>2, <2>9, <3>2, <3>5, KernTypes, NoQPri DEF Good, Queued
    <3>7. Bits(k2)
      BY <1>k, <2>1, <2>2, <2>3, <3>2, <3>3, <3>5, KernTypes, NoQPri
      DEF Good, Bits
    <3>8. Good(k2, np, r, h)
      BY <2>5, <3>4, <3>5, <3>6, <3>7 DEF Good, Asleeps
    <3> QED
      BY <2>6, <2>7, <3>1, <3>5, <3>8 DEF Evolves, Others
  <2> QED BY <2>8, <2>9
<1> QED BY <1>p, <1>s

\* The priority of a process that is not queued may be changed.
LEMMA PriGood ==
  ASSUME NEW k, NEW np \in BOOLEAN, NEW r \in All, NEW h \in BOOLEAN,
         NEW p \in All, NEW b \in Pri, Good(k, np, r, h), k.p_rlink[p] = NoQ
  PROVE  /\ Good([k EXCEPT !.p_pri[p] = b], np, r, h)
         /\ Evolves(k, [k EXCEPT !.p_pri[p] = b], np, r)
         /\ [k EXCEPT !.p_pri[p] = b].p_stat = k.p_stat
<1> DEFINE k1 == [k EXCEPT !.p_pri[p] = b]
<1>k. k \in Kern
  BY DEF Good
<1>1. k1 \in Kern
  BY <1>k DEF Kern
<1>2. /\ k1.p_stat = k.p_stat /\ k1.p_wchan = k.p_wchan
      /\ k1.p_pri = [k.p_pri EXCEPT ![p] = b] /\ k1.p_rlink = k.p_rlink
      /\ k1.p_pptr = k.p_pptr
      /\ k1.sload = k.sload /\ k1.whichqs = k.whichqs
  BY <1>k DEF Kern
<1> HIDE DEF k1
<1>3. Good(k1, np, r, h)
  BY <1>k, <1>1, <1>2, KernTypes DEF Good, Queued, Bits, Asleeps
<1>4. Evolves(k, k1, np, r)
  BY <1>k, <1>2, KernTypes DEF Evolves, Stat
<1> QED BY <1>2, <1>3, <1>4 DEF k1

\* psignal() at its label run keeps the queues exact.
LEMMA SignalRunGood ==
  ASSUME NEW k, NEW np \in BOOLEAN, NEW r \in All, NEW h \in BOOLEAN,
         NEW p \in All, Good(k, np, r, h), np \/ p # r,
         k.p_stat[p] \in {"SSLEEP", "SSTOP"}
  PROVE  /\ Good(SignalRun(k, p), np, r, h)
         /\ Evolves(k, SignalRun(k, p), np, r)
         /\ Others(k, SignalRun(k, p), p)
<1> DEFINE b == IF k.p_pri[p] > PUSER THEN PUSER ELSE k.p_pri[p]
           k1 == [k EXCEPT !.p_pri[p] = b]
<1>1. b \in Pri
  BY KernTypes DEF Good, Pri
<1>2. k.p_rlink[p] = NoQ
  BY DEF Good, Queued
<1>3. SignalRun(k, p) = Setrun(k1, p)
  BY DEF SignalRun
<1> HIDE DEF b
<1>4. /\ Good(k1, np, r, h) /\ Evolves(k, k1, np, r)
      /\ k1.p_stat = k.p_stat
  BY <1>1, <1>2, PriGood
<1> HIDE DEF k1
<1>5. /\ Good(Setrun(k1, p), np, r, h)
      /\ Evolves(k1, Setrun(k1, p), np, r)
      /\ Others(k1, Setrun(k1, p), p)
  BY <1>4, SetrunGood
<1>6. Evolves(k, Setrun(k1, p), np, r)
  BY <1>4, <1>5, EvolvesTrans
<1>7. Others(k, Setrun(k1, p), p)
  BY <1>4, <1>5 DEF Others
<1> QED BY <1>3, <1>5, <1>6, <1>7

\* unsleep() of a stopped process keeps the queues exact.
LEMMA UnsleepGood ==
  ASSUME NEW k, NEW np \in BOOLEAN, NEW r \in All, NEW h \in BOOLEAN,
         NEW p \in All, Good(k, np, r, h), k.p_stat[p] = "SSTOP"
  PROVE  /\ Good(Unsleep(k, p), np, r, h)
         /\ Evolves(k, Unsleep(k, p), np, r)
         /\ Unsleep(k, p).p_stat = k.p_stat
<1> DEFINE k1 == [k EXCEPT !.p_wchan[p] = NoChan]
<1>k. k \in Kern
  BY DEF Good
<1>1. k1 \in Kern
  BY <1>k DEF Kern
<1>2. /\ k1.p_stat = k.p_stat /\ k1.p_pri = k.p_pri
      /\ k1.p_wchan = [k.p_wchan EXCEPT ![p] = NoChan]
      /\ k1.p_rlink = k.p_rlink /\ k1.p_pptr = k.p_pptr
      /\ k1.sload = k.sload /\ k1.whichqs = k.whichqs
  BY <1>k DEF Kern
<1>3. Unsleep(k, p) = k1
  BY DEF Unsleep
<1> HIDE DEF k1
<1>4. Good(k1, np, r, h)
  BY <1>k, <1>1, <1>2, KernTypes, ChanAssumption
  DEF Good, Queued, Bits, Asleeps, AllChan, All
<1>5. Evolves(k, k1, np, r)
  BY <1>k, <1>2, KernTypes DEF Evolves, Stat
<1> QED BY <1>2, <1>3, <1>4, <1>5

\* A process that is not running is stopped or put back to sleep.
LEMMA StatGood ==
  ASSUME NEW k, NEW np \in BOOLEAN, NEW r \in All, NEW h \in BOOLEAN,
         NEW p \in All, NEW st \in {"SSLEEP", "SSTOP"},
         Good(k, np, r, h), np \/ p # r,
         k.p_stat[p] \in {"SSLEEP", "SSTOP"}, k.p_wchan[p] # NoChan
  PROVE  /\ Good([k EXCEPT !.p_stat[p] = st], np, r, h)
         /\ Evolves(k, [k EXCEPT !.p_stat[p] = st], np, r)
         /\ Others(k, [k EXCEPT !.p_stat[p] = st], p)
<1> DEFINE k1 == [k EXCEPT !.p_stat[p] = st]
<1>k. k \in Kern /\ st \in Stat
  BY DEF Good, Stat
<1>1. k1 \in Kern
  BY <1>k DEF Kern
<1>2. /\ k1.p_stat = [k.p_stat EXCEPT ![p] = st]
      /\ k1.p_wchan = k.p_wchan /\ k1.p_pri = k.p_pri
      /\ k1.p_rlink = k.p_rlink /\ k1.p_pptr = k.p_pptr
      /\ k1.sload = k.sload /\ k1.whichqs = k.whichqs
  BY <1>k DEF Kern
<1> HIDE DEF k1
<1>3. Good(k1, np, r, h)
  BY <1>k, <1>1, <1>2, KernTypes DEF Good, Queued, Bits, Asleeps
<1>4. Evolves(k, k1, np, r)
  BY <1>k, <1>2, KernTypes DEF Evolves, Stat
<1>5. Others(k, k1, p)
  BY <1>k, <1>2, KernTypes DEF All, Others
<1> QED BY <1>3, <1>4, <1>5 DEF k1

\* Posting a signal changes p_sig only.
LEMMA PostSame ==
  ASSUME NEW k \in Kern, NEW p \in All, NEW sig \in Sig
  PROVE  /\ Post(k, p, sig) \in Kern /\ Same(k, Post(k, p, sig))
         /\ Forget(k, p, sig) \in Kern /\ Same(k, Forget(k, p, sig))
<1> DEFINE S == CASE sig = SIGCONT   -> (k.p_sig[p] \ StopSig) \cup {SIGCONT}
                  [] sig \in StopSig -> (k.p_sig[p] \ {SIGCONT}) \cup {sig}
                  [] OTHER           -> k.p_sig[p] \cup {sig}
           T == k.p_sig[p] \ {sig}
<1>1. Post(k, p, sig) = [k EXCEPT !.p_sig[p] = S]
  BY DEF Post
<1>2. Forget(k, p, sig) = [k EXCEPT !.p_sig[p] = T]
  BY DEF Forget
<1>3. k.p_sig[p] \in SUBSET Sig
  BY KernTypes
<1>4. S \in SUBSET Sig
  <2>1. CASE sig = SIGCONT
    BY <1>3, <2>1 DEF StopSig, SIGCONT, SIGSTOP, SIGTSTP, SIGTTIN
  <2>2. CASE sig # SIGCONT /\ sig \in StopSig
    BY <1>3, <2>2
  <2>3. CASE sig # SIGCONT /\ sig \notin StopSig
    BY <1>3, <2>3
  <2> QED BY <2>1, <2>2, <2>3
<1>5. T \in SUBSET Sig /\ sig \in Sig \cup {NoSig}
  BY <1>3
<1> HIDE DEF S, T
<1>6. /\ [k EXCEPT !.p_sig[p] = S] \in Kern
      /\ Same(k, [k EXCEPT !.p_sig[p] = S])
  BY <1>4, <1>5, SigSame
<1>7. /\ [k EXCEPT !.p_sig[p] = T] \in Kern
      /\ Same(k, [k EXCEPT !.p_sig[p] = T])
  BY <1>5, SigSame
<1> QED BY <1>1, <1>2, <1>6, <1>7

\* Posting a signal leaves good data good.
LEMMA PostGood ==
  ASSUME NEW k, NEW np \in BOOLEAN, NEW r \in All, NEW h \in BOOLEAN,
         NEW p \in All, NEW sig \in Sig, Good(k, np, r, h)
  PROVE  /\ Good(Post(k, p, sig), np, r, h)
         /\ Evolves(k, Post(k, p, sig), np, r)
         /\ Same(k, Post(k, p, sig))
         /\ Good(Forget(k, p, sig), np, r, h)
         /\ Evolves(k, Forget(k, p, sig), np, r)
         /\ Same(k, Forget(k, p, sig))
<1>1. k \in Kern
  BY DEF Good
<1> QED BY <1>1, PostSame, SameGood

\* psignal() of a sleeper, for a signal that does not stop it.
LEMMA SignalAsleepGood ==
  ASSUME NEW k, NEW np \in BOOLEAN, NEW r \in All, NEW h \in BOOLEAN,
         NEW p \in All, NEW sig \in Sig, Good(k, np, r, h),
         k.p_stat[p] = "SSLEEP"
  PROVE  /\ Good(SignalAsleep(k, p, sig), np, r, h)
         /\ Evolves(k, SignalAsleep(k, p, sig), np, r)
         /\ Others(k, SignalAsleep(k, p, sig), p)
<1>1. np \/ p # r
  BY DEF Good
<1>2. SignalAsleep(k, p, sig) \in {k, Forget(k, p, sig), SignalRun(k, p)}
  BY DEF SignalAsleep
<1>3. Evolves(k, k, np, r) /\ Others(k, k, p)
  BY EvolvesRefl DEF Good, Others
<1>4. /\ Good(Forget(k, p, sig), np, r, h)
      /\ Evolves(k, Forget(k, p, sig), np, r)
      /\ Others(k, Forget(k, p, sig), p)
  BY PostGood DEF Same, Others
<1>5. /\ Good(SignalRun(k, p), np, r, h)
      /\ Evolves(k, SignalRun(k, p), np, r)
      /\ Others(k, SignalRun(k, p), p)
  <2>1. k.p_stat[p] \in {"SSLEEP", "SSTOP"}
    OBVIOUS
  <2> QED BY <1>1, <2>1, SignalRunGood
<1> QED BY <1>2, <1>3, <1>4, <1>5

\* psignal() of a stopped process.
LEMMA SignalStoppedGood ==
  ASSUME NEW k, NEW np \in BOOLEAN, NEW r \in All, NEW h \in BOOLEAN,
         NEW p \in All, NEW sig \in Sig, Good(k, np, r, h),
         k.p_stat[p] = "SSTOP",
         np \/ p # r \/ sig \notin {SIGKILL, SIGCONT}
  PROVE  /\ Good(SignalStopped(k, p, sig), np, r, h)
         /\ Evolves(k, SignalStopped(k, p, sig), np, r)
         /\ Others(k, SignalStopped(k, p, sig), p)
<1> DEFINE Ok(k2) == /\ Good(k2, np, r, h) /\ Evolves(k, k2, np, r)
                     /\ Others(k, k2, p)
<1>1. Ok(k)
  BY EvolvesRefl DEF Good, Others
<1>2. Ok(Forget(k, p, sig))
  BY PostGood DEF Same, Others
<1>3. Ok(Unsleep(k, p))
  BY UnsleepGood DEF Others
<1>4. CASE sig \in {SIGKILL, SIGCONT}
  <2>1. np \/ p # r
    BY <1>4
  <2>2. Ok(SignalRun(k, p))
    <3>1. k.p_stat[p] \in {"SSLEEP", "SSTOP"}
      OBVIOUS
    <3> QED BY <2>1, <3>1, SignalRunGood
  <2>3. ASSUME k.p_wchan[p] # NoChan
        PROVE  Ok([k EXCEPT !.p_stat[p] = "SSLEEP"])
    <3> DEFINE st == "SSLEEP"
    <3>1. k.p_stat[p] \in {"SSLEEP", "SSTOP"} /\ st \in {"SSLEEP", "SSTOP"}
      OBVIOUS
    <3> HIDE DEF st
    <3>2. Ok([k EXCEPT !.p_stat[p] = st])
      BY <2>1, <2>3, <3>1, StatGood
    <3> QED BY <3>2 DEF st
  <2>4. \/ SignalStopped(k, p, sig) = SignalRun(k, p)
        \/ /\ k.p_wchan[p] # NoChan
           /\ SignalStopped(k, p, sig) = [k EXCEPT !.p_stat[p] = "SSLEEP"]
    BY <1>4 DEF SignalStopped, SIGKILL, SIGCONT, StopSig, SIGSTOP, SIGTSTP,
                SIGTTIN
  <2> QED BY <2>2, <2>3, <2>4
<1>5. CASE sig \notin {SIGKILL, SIGCONT}
  <2>1. SignalStopped(k, p, sig) \in {k, Forget(k, p, sig), Unsleep(k, p)}
    BY <1>5 DEF SignalStopped
  <2> QED BY <1>1, <1>2, <1>3, <2>1
<1> QED BY <1>4, <1>5

\* psignal() of a signal that does not stop keeps the queues exact, whatever
\* the state of the process it is sent to.
LEMMA PsignalPlainGood ==
  ASSUME NEW k, NEW np \in BOOLEAN, NEW r \in All, NEW h \in BOOLEAN,
         NEW p \in All, NEW sig \in Sig, Good(k, np, r, h),
         np \/ p # r \/ sig \notin {SIGKILL, SIGCONT}
            \/ k.p_stat[p] # "SSTOP"
  PROVE  /\ Good(PsignalPlain(k, p, sig), np, r, h)
         /\ Evolves(k, PsignalPlain(k, p, sig), np, r)
         /\ Others(k, PsignalPlain(k, p, sig), p)
<1> DEFINE k1 == Post(k, p, sig)
<1>1. /\ Good(k1, np, r, h) /\ Evolves(k, k1, np, r) /\ Same(k, k1)
  BY PostGood
<1>2. PsignalPlain(k, p, sig) =
        IF Ignores(k, p, sig) THEN k
        ELSE IF sig \in Held[p] THEN k1
        ELSE IF k.p_stat[p] = "SSLEEP" THEN SignalAsleep(k1, p, sig)
        ELSE IF k.p_stat[p] = "SSTOP" THEN SignalStopped(k1, p, sig)
        ELSE k1
  BY DEF PsignalPlain
<1> HIDE DEF k1
<1>3. k1.p_stat = k.p_stat
  BY <1>1 DEF Same
<1>4. Evolves(k, k, np, r) /\ Others(k, k, p) /\ Others(k, k1, p)
  BY <1>3, EvolvesRefl DEF Good, Others
<1>5. CASE PsignalPlain(k, p, sig) \in {k, k1}
  BY <1>1, <1>4, <1>5
<1>6. CASE k.p_stat[p] = "SSLEEP" /\
           PsignalPlain(k, p, sig) = SignalAsleep(k1, p, sig)
  <2> DEFINE k2 == SignalAsleep(k1, p, sig)
  <2>1. Good(k2, np, r, h) /\ Evolves(k1, k2, np, r) /\ Others(k1, k2, p)
    BY <1>1, <1>3, <1>6, SignalAsleepGood
  <2> HIDE DEF k2
  <2>2. Evolves(k, k2, np, r) /\ Others(k, k2, p)
    BY <1>1, <1>3, <2>1, EvolvesTrans DEF Others
  <2> QED BY <1>6, <2>1, <2>2 DEF k2
<1>7. CASE k.p_stat[p] = "SSTOP" /\
           PsignalPlain(k, p, sig) = SignalStopped(k1, p, sig)
  <2> DEFINE k2 == SignalStopped(k1, p, sig)
  <2>1. Good(k2, np, r, h) /\ Evolves(k1, k2, np, r) /\ Others(k1, k2, p)
    BY <1>1, <1>3, <1>7, SignalStoppedGood
  <2> HIDE DEF k2
  <2>2. Evolves(k, k2, np, r) /\ Others(k, k2, p)
    BY <1>1, <1>3, <2>1, EvolvesTrans DEF Others
  <2> QED BY <1>7, <2>1, <2>2 DEF k2
<1> QED BY <1>2, <1>5, <1>6, <1>7

\* stop() of a sleeper leaves it on its sleep queue and wakes its parent.
LEMMA StopSleeperGood ==
  ASSUME NEW k, NEW np \in BOOLEAN, NEW r \in All, NEW h \in BOOLEAN,
         NEW p \in Procs, Good(k, np, r, h), k.p_stat[p] = "SSLEEP"
  PROVE  Good(Stop(k, p), np, r, h) /\ Evolves(k, Stop(k, p), np, r)
<1> DEFINE st == "SSTOP"
           k1 == [k EXCEPT !.p_stat[p] = st]
           k2 == [k EXCEPT !.p_stat[p] = "SSTOP", !.swted = @ \ {p}]
           chan == ChanOf[k.p_pptr[p]]
<1>k. k \in Kern /\ p \in All
  BY DEF Good, All
<1>1. Stop(k, p) = Wakeup(k2, chan)
  BY DEF Stop
<1>2. k2 = [k1 EXCEPT !.swted = k1.swted \ {p}]
  BY <1>k DEF Kern
<1>3. /\ np \/ p # r
      /\ k.p_stat[p] \in {"SSLEEP", "SSTOP"} /\ st \in {"SSLEEP", "SSTOP"}
      /\ k.p_wchan[p] # NoChan
  BY <1>k DEF Good, Asleeps
<1>4. chan \in AllChan
  BY <1>k, KernTypes, ChanAssumption DEF AllChan
<1> HIDE DEF st, k2, chan
<1>5. Good(k1, np, r, h) /\ Evolves(k, k1, np, r)
  <2>1. p \in All
    BY <1>k
  <2>2. /\ Good([k EXCEPT !.p_stat[p] = st], np, r, h)
        /\ Evolves(k, [k EXCEPT !.p_stat[p] = st], np, r)
        /\ Others(k, [k EXCEPT !.p_stat[p] = st], p)
    BY <2>1, <1>3, StatGood
  <2> QED BY <2>2
<1> HIDE DEF k1
<1>6. k1 \in Kern
  BY <1>5 DEF Good
<1>7. k2 \in Kern /\ Same(k1, k2)
  <2>1. k1.swted \ {p} \in SUBSET All
    BY <1>6, KernTypes
  <2> QED BY <1>2, <1>6, <2>1 DEF Kern, Same
<1>8. Good(k2, np, r, h) /\ Evolves(k1, k2, np, r)
  BY <1>5, <1>7, SameGood
<1>9. /\ Good(Wakeup(k2, chan), np, r, h)
      /\ Evolves(k2, Wakeup(k2, chan), np, r)
  BY <1>4, <1>8, WakeupGood
<1>10. Evolves(k, k2, np, r)
  BY <1>5, <1>8, EvolvesTrans
<1> QED BY <1>1, <1>9, <1>10, EvolvesTrans

\* psignal() of a stop signal to a sleeper, the nested psignal() of the
\* parent included.
LEMMA StopAsleepGood ==
  ASSUME NEW k, NEW np \in BOOLEAN, NEW r \in All, NEW h \in BOOLEAN,
         NEW p \in Procs, NEW sig \in Sig, Good(k, np, r, h),
         k.p_stat[p] = "SSLEEP", k.p_pptr[p] # p
  PROVE  /\ Good(StopAsleep(k, p, sig), np, r, h)
         /\ Evolves(k, StopAsleep(k, p, sig), np, r)
<1> DEFINE parent == k.p_pptr[p]
           kill == PsignalPlain(k, p, SIGKILL)
           k1 == Forget(k, p, sig)
           k2 == [k1 EXCEPT !.p_cursig[p] = sig]
           k3 == PsignalPlain(k2, parent, SIGCHLD)
<1>k. k \in Kern /\ p \in All /\ parent \in All
  BY KernTypes DEF Good, All
<1>p. np \/ p # r
  BY DEF Good
<1>s. {SIGKILL, SIGCHLD} \subseteq Sig /\ SIGCHLD \notin {SIGKILL, SIGCONT}
  BY DEF Sig, SIGKILL, SIGCHLD, SIGCONT
<1>0. StopAsleep(k, p, sig) \in
        {k, SignalRun(k, p), Forget(kill, p, sig), Stop(k3, p)}
  BY DEF StopAsleep
<1>1. Evolves(k, k, np, r)
  BY <1>k, EvolvesRefl
<1>2. Good(SignalRun(k, p), np, r, h) /\ Evolves(k, SignalRun(k, p), np, r)
  <2>1. k.p_stat[p] \in {"SSLEEP", "SSTOP"}
    OBVIOUS
  <2> QED BY <1>k, <1>p, <2>1, SignalRunGood
<1>3. /\ Good(Forget(kill, p, sig), np, r, h)
      /\ Evolves(k, Forget(kill, p, sig), np, r)
  <2>1. Good(kill, np, r, h) /\ Evolves(k, kill, np, r)
    BY <1>k, <1>p, <1>s, PsignalPlainGood
  <2> HIDE DEF kill
  <2> QED BY <1>k, <2>1, PostGood, EvolvesTrans
<1>4. Good(Stop(k3, p), np, r, h) /\ Evolves(k, Stop(k3, p), np, r)
  <2>1. Good(k1, np, r, h) /\ Evolves(k, k1, np, r) /\ Same(k, k1)
    BY <1>k, PostGood
  <2>2. k1 \in Kern
    BY <2>1 DEF Good
  <2> HIDE DEF k1
  <2>3. k2 \in Kern /\ Same(k1, k2)
    BY <1>k, <2>2 DEF Kern, Same
  <2> HIDE DEF k2
  <2>4. Good(k2, np, r, h) /\ Evolves(k1, k2, np, r)
    BY <2>1, <2>3, SameGood
  <2>5. /\ Good(k3, np, r, h) /\ Evolves(k2, k3, np, r)
        /\ Others(k2, k3, parent)
    BY <1>k, <1>s, <2>4, PsignalPlainGood
  <2>6. k3.p_stat[p] = "SSLEEP"
    BY <2>1, <2>3, <2>5 DEF Others, Same
  <2> HIDE DEF k3
  <2>7. Good(Stop(k3, p), np, r, h) /\ Evolves(k3, Stop(k3, p), np, r)
    BY <2>5, <2>6, StopSleeperGood
  <2>8. Evolves(k, k2, np, r)
    BY <2>1, <2>4, EvolvesTrans
  <2>9. Evolves(k, k3, np, r)
    BY <2>5, <2>8, EvolvesTrans
  <2> QED BY <2>7, <2>9, EvolvesTrans
<1> HIDE DEF k3, kill
<1> QED BY <1>0, <1>1, <1>2, <1>3, <1>4

\* psignal() keeps the queues exact for every signal and every receiver.
LEMMA PsignalGood ==
  ASSUME NEW k, NEW np \in BOOLEAN, NEW r \in All, NEW h \in BOOLEAN,
         NEW p \in Procs, NEW sig \in Sig, Good(k, np, r, h),
         k.p_pptr[p] # p,
         np \/ p # r \/ sig \notin {SIGKILL, SIGCONT}
            \/ k.p_stat[p] # "SSTOP"
  PROVE  /\ Good(Psignal(k, p, sig), np, r, h)
         /\ Evolves(k, Psignal(k, p, sig), np, r)
<1> DEFINE k1 == Post(k, p, sig)
<1>a. p \in All
  BY DEF All
<1>1. /\ Good(k1, np, r, h) /\ Evolves(k, k1, np, r) /\ Same(k, k1)
  BY <1>a, PostGood
<1>2. CASE sig \notin StopSig
  BY <1>2, <1>a, PsignalPlainGood DEF Psignal
<1>3. CASE sig \in StopSig
  <2>1. Psignal(k, p, sig) =
          IF Ignores(k, p, sig) THEN k
          ELSE IF sig \in Held[p] THEN k1
          ELSE IF k.p_stat[p] = "SSLEEP" THEN StopAsleep(k1, p, sig)
          ELSE IF k.p_stat[p] = "SSTOP" THEN SignalStopped(k1, p, sig)
          ELSE k1
    BY <1>3 DEF Psignal
  <2> HIDE DEF k1
  <2>2. k1.p_stat = k.p_stat /\ k1.p_pptr = k.p_pptr
    BY <1>1 DEF Same
  <2>3. Evolves(k, k, np, r)
    BY EvolvesRefl DEF Good
  <2>4. CASE Psignal(k, p, sig) \in {k, k1}
    BY <1>1, <2>3, <2>4
  <2>5. CASE k.p_stat[p] = "SSLEEP" /\
             Psignal(k, p, sig) = StopAsleep(k1, p, sig)
    BY <1>1, <2>2, <2>5, StopAsleepGood, EvolvesTrans
  <2>6. CASE k.p_stat[p] = "SSTOP" /\
             Psignal(k, p, sig) = SignalStopped(k1, p, sig)
    BY <1>1, <1>a, <2>2, <2>6, SignalStoppedGood, EvolvesTrans
  <2> QED BY <2>1, <2>4, <2>5, <2>6
<1> QED BY <1>2, <1>3

\* What setrq() does to a process on no queue.
LEMMA SetrqFacts ==
  ASSUME NEW k \in Kern, NEW p \in All, k.p_rlink[p] = NoQ, Bits(k)
  PROVE  /\ Setrq(k, p) \in Kern
         /\ Bits(Setrq(k, p))
         /\ Setrq(k, p).p_stat = k.p_stat
         /\ Setrq(k, p).p_wchan = k.p_wchan
         /\ Setrq(k, p).p_pri = k.p_pri
         /\ Setrq(k, p).p_pptr = k.p_pptr
         /\ Setrq(k, p).sload = k.sload
         /\ Setrq(k, p).p_rlink[p] # NoQ
         /\ \A x \in All \ {p} : Setrq(k, p).p_rlink[x] = k.p_rlink[x]
<1> DEFINE q == k.whichqs \cup {k.p_pri[p]}
           k2 == [k EXCEPT !.p_rlink[p] = k.p_pri[p], !.whichqs = q]
<1>1. Setrq(k, p) = k2
  BY DEF Setrq
<1>2. q \in SUBSET Pri /\ k.p_pri[p] \in Pri
  BY KernTypes
<1>3. \A b \in Pri : b \in q <=> b \in k.whichqs \/ b = k.p_pri[p]
  OBVIOUS
<1> HIDE DEF q
<1>4. k2 \in Kern
  BY <1>2 DEF Kern
<1>5. /\ k2.p_stat = k.p_stat /\ k2.p_wchan = k.p_wchan
      /\ k2.p_pri = k.p_pri /\ k2.p_pptr = k.p_pptr
      /\ k2.sload = k.sload /\ k2.whichqs = q
      /\ k2.p_rlink = [k.p_rlink EXCEPT ![p] = k.p_pri[p]]
  BY DEF Kern
<1> HIDE DEF k2
<1>6. Bits(k2)
  BY <1>2, <1>3, <1>5, KernTypes, NoQPri DEF Bits
<1>7. k2.p_rlink[p] # NoQ /\ \A x \in All \ {p} : k2.p_rlink[x] = k.p_rlink[x]
  BY <1>2, <1>5, KernTypes, NoQPri
<1> QED BY <1>1, <1>4, <1>5, <1>6, <1>7

\* What remrq() does to a process that is on the queue p_pri names: the bit it
\* clears is the bit of that queue.
LEMMA RemrqFacts ==
  ASSUME NEW k \in Kern, NEW p \in All, k.p_rlink[p] # NoQ, Bits(k)
  PROVE  /\ Remrq(k, p) \in Kern
         /\ Bits(Remrq(k, p))
         /\ Remrq(k, p).p_stat = k.p_stat
         /\ Remrq(k, p).p_wchan = k.p_wchan
         /\ Remrq(k, p).p_pri = k.p_pri
         /\ Remrq(k, p).p_pptr = k.p_pptr
         /\ Remrq(k, p).sload = k.sload
         /\ Remrq(k, p).p_rlink[p] = NoQ
         /\ \A x \in All \ {p} : Remrq(k, p).p_rlink[x] = k.p_rlink[x]
<1> DEFINE b == k.p_pri[p]
           q == IF OnQueue(k, k.p_rlink[p]) \subseteq {p}
                THEN k.whichqs \ {b} ELSE k.whichqs
           k2 == [k EXCEPT !.p_rlink[p] = NoQ, !.whichqs = q]
<1>0. b \in Pri /\ k.p_rlink[p] = b /\ b \in k.whichqs
  BY KernTypes DEF Bits
<1>1. Remrq(k, p) = k2
  BY <1>0 DEF Remrq
<1>2. q \in SUBSET Pri
  BY KernTypes
<1>3. \A c \in Pri : c \in q <=>
        \E x \in All \ {p} : k.p_rlink[x] = c
  <2>1. OnQueue(k, b) \subseteq {p} <=>
          ~\E x \in All \ {p} : k.p_rlink[x] = b
    BY DEF OnQueue
  <2>2. \A c \in Pri : c \in k.whichqs <=> \E x \in All : k.p_rlink[x] = c
    BY DEF Bits
  <2>3. \A c \in Pri \ {b} :
          (\E x \in All : k.p_rlink[x] = c) <=>
          (\E x \in All \ {p} : k.p_rlink[x] = c)
    BY <1>0
  <2> QED BY <1>0, <2>1, <2>2, <2>3
<1> HIDE DEF q
<1>4. k2 \in Kern
  BY <1>2 DEF Kern
<1>5. /\ k2.p_stat = k.p_stat /\ k2.p_wchan = k.p_wchan
      /\ k2.p_pri = k.p_pri /\ k2.p_pptr = k.p_pptr
      /\ k2.sload = k.sload /\ k2.whichqs = q
      /\ k2.p_rlink = [k.p_rlink EXCEPT ![p] = NoQ]
  BY DEF Kern
<1> HIDE DEF k2
<1>6. Bits(k2)
  BY <1>3, <1>5, KernTypes, NoQPri DEF Bits
<1>7. k2.p_rlink[p] = NoQ /\ \A x \in All \ {p} : k2.p_rlink[x] = k.p_rlink[x]
  BY <1>5, KernTypes
<1> QED BY <1>1, <1>4, <1>5, <1>6, <1>7

\* What swtch() does to the process it takes from a queue.
LEMMA SwitchedFacts ==
  ASSUME NEW k \in Kern, NEW p \in All, NEW b \in Pri, k.p_rlink[p] = b,
         Bits(k), k.p_wchan[p] = NoChan, k.p_stat[p] = "SRUN"
  PROVE  /\ Switched(k, p, b) \in Kern
         /\ Bits(Switched(k, p, b))
         /\ Switched(k, p, b).p_stat = k.p_stat
         /\ Switched(k, p, b).p_wchan = k.p_wchan
         /\ Switched(k, p, b).p_pri = k.p_pri
         /\ Switched(k, p, b).p_pptr = k.p_pptr
         /\ Switched(k, p, b).sload = k.sload
         /\ Switched(k, p, b).p_rlink[p] = NoQ
         /\ \A x \in All \ {p} : Switched(k, p, b).p_rlink[x] = k.p_rlink[x]
<1> DEFINE q == IF OnQueue(k, b) = {p} THEN k.whichqs \ {b} ELSE k.whichqs
           k2 == [k EXCEPT !.p_rlink[p] = NoQ, !.whichqs = q]
<1>1. Switched(k, p, b) = k2
  BY DEF Switched
<1>2. q \in SUBSET Pri
  BY KernTypes
<1>3. \A c \in Pri : c \in q <=>
        \E x \in All \ {p} : k.p_rlink[x] = c
  <2>1. OnQueue(k, b) = {p} <=>
          ~\E x \in All \ {p} : k.p_rlink[x] = b
    BY DEF OnQueue
  <2>2. \A c \in Pri : c \in k.whichqs <=> \E x \in All : k.p_rlink[x] = c
    BY DEF Bits
  <2>3. \A c \in Pri \ {b} :
          (\E x \in All : k.p_rlink[x] = c) <=>
          (\E x \in All \ {p} : k.p_rlink[x] = c)
    OBVIOUS
  <2> QED BY <2>1, <2>2, <2>3
<1> HIDE DEF q
<1>4. k2 \in Kern
  BY <1>2 DEF Kern
<1>5. /\ k2.p_stat = k.p_stat /\ k2.p_wchan = k.p_wchan
      /\ k2.p_pri = k.p_pri /\ k2.p_pptr = k.p_pptr
      /\ k2.sload = k.sload /\ k2.whichqs = q
      /\ k2.p_rlink = [k.p_rlink EXCEPT ![p] = NoQ]
  BY DEF Kern
<1> HIDE DEF k2
<1>6. Bits(k2)
  BY <1>3, <1>5, KernTypes, NoQPri DEF Bits
<1>7. k2.p_rlink[p] = NoQ /\ \A x \in All \ {p} : k2.p_rlink[x] = k.p_rlink[x]
  BY <1>5, KernTypes
<1> QED BY <1>1, <1>4, <1>5, <1>6, <1>7

-----------------------------------------------------------------------------
(***************************************************************************)
(* What the primitives leave of pending signals, and what they tell the    *)
(* swapper.                                                                *)
(***************************************************************************)

\* k2 is data in which the signals of k are as they were, and no process has
\* stopped since.
Mute(k, k2) ==
  /\ k2 \in Kern
  /\ k2.p_sig = k.p_sig /\ k2.p_cursig = k.p_cursig /\ k2.p_pptr = k.p_pptr
  /\ \A x \in All : k2.p_stat[x] = "SSTOP" => k.p_stat[x] = "SSTOP"

\* sched() sleeps on runout only with the flag runout set.
RunoutSet(k) == k.p_wchan[Swapper] = RUNOUT => k.runout

\* Between k and k2, unless the kernel has panicked, the swapper has not gone
\* to sleep on runout, and has been told of each process that has begun to
\* want in: through wantin, and by a wakeup() if it slept.
Heed(k, k2) ==
  k2.panicstr = "" =>
    /\ k.panicstr = ""
    /\ RunoutSet(k) => RunoutSet(k2)
    /\ k2.p_wchan[Swapper] = RUNOUT => k.p_wchan[Swapper] = RUNOUT
    /\ k.wantin => k2.wantin
    /\ \A q \in Procs : WantsIn(k2, q) /\ ~WantsIn(k, q) =>
         k2.wantin /\ (RunoutSet(k) => k2.p_wchan[Swapper] # RUNOUT)

\* The two together, as most primitives keep both.
Bland(k, k2) == Mute(k, k2) /\ Heed(k, k2)

\* A primitive that returns early is bland.
LEMMA BlandRefl ==
  ASSUME NEW k \in Kern
  PROVE  Bland(k, k)
BY DEF Bland, Mute, Heed

\* Bland primitives compose.
LEMMA BlandTrans ==
  ASSUME NEW k, NEW k1, NEW k2, Bland(k, k1), Bland(k1, k2)
  PROVE  Bland(k, k2)
<1>1. Mute(k, k2)
  BY DEF Bland, Mute
<1>2. Heed(k, k2)
  BY DEF Bland, Heed
<1> QED BY <1>1, <1>2 DEF Bland

\* What tells the swapper composes.
LEMMA HeedTrans ==
  ASSUME NEW k, NEW k1, NEW k2, Heed(k, k1), Heed(k1, k2)
  PROVE  Heed(k, k2)
BY DEF Heed

\* Flags apart, data that differ in what no one waits for are bland.
LEMMA BlandSame ==
  ASSUME NEW k \in Kern, NEW k2 \in Kern,
         k2.p_sig = k.p_sig, k2.p_cursig = k.p_cursig,
         k2.p_pptr = k.p_pptr, k2.p_stat = k.p_stat,
         k2.p_wchan[Swapper] = RUNOUT => k.p_wchan[Swapper] = RUNOUT,
         k.sload \subseteq k2.sload, k2.runout = k.runout, k.wantin => k2.wantin,
         k2.panicstr = "" => k.panicstr = ""
  PROVE  Bland(k, k2)
BY DEF Bland, Mute, Heed, RunoutSet, WantsIn

\* A panic is bland: the swapper is not looked at any more.
LEMMA PanicBland ==
  ASSUME NEW k \in Kern, NEW why \in Why \ {""}
  PROVE  Bland(k, Panic(k, why)) /\ Panic(k, why).panicstr # ""
<1>1. Panic(k, why) \in Kern
  BY PanicSame DEF Why
<1>2. Panic(k, why).panicstr # ""
  BY DEF Panic, Kern, Why
<1>3. Mute(k, Panic(k, why))
  BY <1>1 DEF Mute, Panic, Kern
<1> QED BY <1>2, <1>3 DEF Bland, Heed

\* setrq() is bland.
LEMMA SetrqBland ==
  ASSUME NEW k \in Kern, NEW p \in All
  PROVE  Bland(k, Setrq(k, p))
<1>1. CASE k.p_rlink[p] # NoQ
  BY <1>1, PanicBland DEF Setrq, Why
<1>2. CASE k.p_rlink[p] = NoQ
  <2> DEFINE k2 == [k EXCEPT !.p_rlink[p] = k.p_pri[p],
                             !.whichqs = @ \cup {k.p_pri[p]}]
  <2>1. k.p_pri[p] \in Pri
    BY KernTypes
  <2>2. k2 \in Kern
    BY <2>1 DEF Kern
  <2>3. Bland(k, k2)
    BY <2>2, BlandSame DEF Kern
  <2> QED BY <1>2, <2>3 DEF Setrq
<1> QED BY <1>1, <1>2

\* unsleep() is bland: it may only take the swapper off runout.
LEMMA UnsleepBland ==
  ASSUME NEW k \in Kern, NEW p \in All
  PROVE  Bland(k, Unsleep(k, p)) /\ Unsleep(k, p).p_stat = k.p_stat
         /\ Unsleep(k, p).sload = k.sload
<1>1. Unsleep(k, p) \in Kern
  BY DEF Kern, Unsleep
<1>3. Swapper \in All
  BY DEF All
<1>4. Unsleep(k, p).p_wchan[Swapper] \in {k.p_wchan[Swapper], NoChan}
  BY <1>3, KernTypes DEF Unsleep, Kern
<1>5. RUNOUT # NoChan
  BY ChanAssumption DEF AllChan, SwapChan
<1> DEFINE k2 == Unsleep(k, p)
<1>6. /\ k2.p_sig = k.p_sig /\ k2.p_cursig = k.p_cursig
      /\ k2.p_pptr = k.p_pptr /\ k2.p_stat = k.p_stat
      /\ k2.sload = k.sload /\ k2.runout = k.runout
      /\ k2.wantin = k.wantin /\ k2.panicstr = k.panicstr
  BY DEF Unsleep, Kern
<1>7. k2.p_wchan[Swapper] = RUNOUT => k.p_wchan[Swapper] = RUNOUT
  BY <1>4, <1>5
<1> HIDE DEF k2
<1>2. Bland(k, k2)
  BY <1>1, <1>6, <1>7, BlandSame DEF k2
<1> QED BY <1>2, <1>6 DEF k2

\* k2 is what wakeup(chan) leaves of k, as far as the run queues.
Woke(k, k2, chan) ==
  /\ Mute(k, k2)
  /\ k2.sload = k.sload
  /\ k2.panicstr = "" =>
       /\ k.panicstr = ""
       /\ k2.runout = k.runout /\ k2.wantin = k.wantin
       /\ \A x \in All : k2.p_wchan[x] =
            IF k.p_wchan[x] = chan THEN NoChan ELSE k.p_wchan[x]
  /\ \A q \in All : k2.p_stat[q] # k.p_stat[q] =>
       /\ k2.p_stat[q] = "SRUN"
       /\ q \in Sleepers(k, chan) /\ k.p_stat[q] = "SSLEEP"

\* The swapper has been told: k2 is what that leaves of k.
Told(k, k2) ==
  /\ Mute(k, k2)
  /\ k2.sload = k.sload
  /\ k2.panicstr = "" =>
       /\ k.panicstr = "" /\ k2.wantin
       /\ RunoutSet(k) => k2.p_wchan[Swapper] # RUNOUT
       /\ k2.p_wchan[Swapper] = RUNOUT => k.p_wchan[Swapper] = RUNOUT
  /\ \A q \in All : k2.p_stat[q] # k.p_stat[q] => k2.p_stat[q] = "SRUN"

\* wakeup(), as far as the run queues: signals are left alone, sleepers of
\* its channel are on the sleep queue no more, and only sleepers of it begin
\* to want in.
LEMMA WakeSleepersMute ==
  ASSUME NEW k \in Kern, NEW chan \in AllChan, NEW k2,
         k2 = WakeSleepers(k, chan)
  PROVE  Woke(k, k2, chan)
<1>1. CASE k2 = Panic(k, "wakeup")
  <2>1. Bland(k, k2) /\ k2.panicstr # ""
    BY <1>1, PanicBland DEF Why
  <2>2. k2.sload = k.sload /\ k2.p_stat = k.p_stat
    BY <1>1 DEF Panic, Kern
  <2> QED BY <2>1, <2>2 DEF Bland, Woke
<1>2. CASE k2 # Panic(k, "wakeup")
  <2> DEFINE up == {p \in Sleepers(k, chan) : k.p_stat[p] = "SSLEEP"}
             ready == up \cap k.sload
             w == [p \in All |-> IF k.p_wchan[p] = chan
                                 THEN NoChan ELSE k.p_wchan[p]]
             s == [p \in All |-> IF p \in up THEN "SRUN" ELSE k.p_stat[p]]
             l == [p \in All |-> IF p \in ready THEN k.p_pri[p]
                                 ELSE k.p_rlink[p]]
             q == k.whichqs \cup {k.p_pri[p] : p \in ready}
             k3 == [k EXCEPT !.p_wchan = w, !.p_stat = s, !.p_rlink = l,
                             !.whichqs = q]
  <2>0. k2 = k3
    BY <1>2 DEF WakeSleepers
  <2>w. w \in [All -> AllChan \cup {NoChan}]
    BY KernTypes
  <2>s. s \in [All -> Stat]
    BY KernTypes DEF Stat
  <2>l. l \in [All -> Pri \cup {NoQ}]
    BY KernTypes
  <2>q. q \in SUBSET Pri
    <3>1. \A p \in ready : p \in All
      BY DEF Sleepers
    <3> QED BY <3>1, KernTypes
  <2>1. \A x \in All : w[x] = IF k.p_wchan[x] = chan THEN NoChan
                              ELSE k.p_wchan[x]
    OBVIOUS
  <2>2. \A x \in All : s[x] = IF x \in up THEN "SRUN" ELSE k.p_stat[x]
    OBVIOUS
  <2>3. \A x \in All : x \in up <=>
          x \in Sleepers(k, chan) /\ k.p_stat[x] = "SSLEEP"
    BY DEF Sleepers
  <2> HIDE DEF w, s, l, q, up
  <2>4. k3 \in Kern /\ k3.p_wchan = w /\ k3.p_stat = s
        /\ k3.p_sig = k.p_sig /\ k3.p_cursig = k.p_cursig
        /\ k3.p_pptr = k.p_pptr /\ k3.sload = k.sload
        /\ k3.runout = k.runout /\ k3.wantin = k.wantin
        /\ k3.panicstr = k.panicstr
    BY <2>w, <2>s, <2>l, <2>q DEF Kern
  <2> HIDE DEF k3
  <2> QED BY <2>0, <2>1, <2>2, <2>3, <2>4 DEF Mute, Woke
<1> QED BY <1>1, <1>2

\* setrun() and wakeup() tell the swapper of a process that is not in core.
LEMMA WantInMute ==
  ASSUME NEW k \in Kern, NEW k3, k3 = WantIn(k)
  PROVE  Told(k, k3)
<1> DEFINE k0 == [k EXCEPT !.runout = FALSE]
           k1 == IF k.runout THEN WakeSleepers(k0, RUNOUT) ELSE k
           k2 == [k1 EXCEPT !.wantin = TRUE]
<1>1. RUNOUT \in AllChan /\ RUNOUT # NoChan /\ Swapper \in All
  BY ChanAssumption DEF AllChan, SwapChan, All
<1>2. k0 \in Kern /\ k0.p_sig = k.p_sig /\ k0.p_cursig = k.p_cursig
      /\ k0.p_pptr = k.p_pptr /\ k0.p_stat = k.p_stat
      /\ k0.p_wchan = k.p_wchan /\ k0.sload = k.sload
      /\ k0.panicstr = k.panicstr
  BY DEF Kern
<1>3. k3 = k2
  BY DEF WantIn
<1> HIDE DEF k0
<1>4. /\ Mute(k, k1) /\ k1.sload = k.sload
      /\ k1.panicstr = "" =>
           /\ k.panicstr = ""
           /\ RunoutSet(k) => k1.p_wchan[Swapper] # RUNOUT
           /\ k1.p_wchan[Swapper] = RUNOUT => k.p_wchan[Swapper] = RUNOUT
      /\ \A q \in All : k1.p_stat[q] # k.p_stat[q] => k1.p_stat[q] = "SRUN"
  <2>1. CASE k.runout
    <3> DEFINE k4 == WakeSleepers(k0, RUNOUT)
    <3> HIDE DEF k4
    <3>1. Woke(k0, k4, RUNOUT)
      BY <1>1, <1>2, WakeSleepersMute DEF k4
    <3>2. k1 = k4
      BY <2>1 DEF k4
    <3> HIDE DEF k1
    <3>3. Mute(k, k4)
      BY <1>2, <3>1 DEF Mute, Woke
    <3> QED BY <1>1, <1>2, <3>1, <3>2, <3>3 DEF Woke
  <2>2. CASE ~k.runout
    <3>1. k1 = k
      BY <2>2
    <3> HIDE DEF k1
    <3> QED BY <2>2, <3>1 DEF Mute, RunoutSet
  <2> QED BY <2>1, <2>2
<1> HIDE DEF k1
<1>5. k1 \in Kern
  BY <1>4 DEF Mute
<1>6. k2 \in Kern /\ k2.p_sig = k1.p_sig /\ k2.p_cursig = k1.p_cursig
      /\ k2.p_pptr = k1.p_pptr /\ k2.p_stat = k1.p_stat
      /\ k2.p_wchan = k1.p_wchan /\ k2.sload = k1.sload
      /\ k2.panicstr = k1.panicstr /\ k2.wantin
  BY <1>5 DEF Kern
<1> HIDE DEF k2
<1>7. Mute(k, k2)
  BY <1>4, <1>6 DEF Mute
<1> QED BY <1>3, <1>4, <1>6, <1>7 DEF Told

\* wakeup() is bland.
LEMMA WakeupBland ==
  ASSUME NEW k \in Kern, NEW chan \in AllChan, NEW k2, k2 = Wakeup(k, chan)
  PROVE  /\ Bland(k, k2) /\ k2.sload = k.sload
         /\ chan = RUNOUT /\ k2.panicstr = "" => k2.p_wchan[Swapper] # RUNOUT
         /\ \A q \in All : k2.p_stat[q] # k.p_stat[q] => k2.p_stat[q] = "SRUN"
<1> DEFINE k1 == WakeSleepers(k, chan)
           out == \E p \in Sleepers(k, chan) :
                    k.p_stat[p] = "SSLEEP" /\ p \notin k.sload
<1>1. Woke(k, k1, chan)
  BY WakeSleepersMute
<1>2. k2 = IF out THEN WantIn(k1) ELSE k1
  BY DEF Wakeup
<1> DEFINE k3 == WantIn(k1)
<1> HIDE DEF k1, out
<1>3. k1 \in Kern
  BY <1>1 DEF Mute, Woke
<1>4. Told(k1, k3)
  BY <1>3, WantInMute
<1> HIDE DEF k3
<1>c. chan # NoChan /\ Swapper \in All /\ RUNOUT # NoChan
  BY ChanAssumption DEF AllChan, SwapChan, All
<1>5. CASE out
  <2>1. k2 = k3
    BY <1>2, <1>5 DEF k3
  <2>2. Mute(k, k2)
    BY <1>1, <1>4, <2>1 DEF Mute, Woke, Told
  <2>3. k2.panicstr = "" =>
          /\ RunoutSet(k) => k2.p_wchan[Swapper] # RUNOUT
          /\ k2.p_wchan[Swapper] = RUNOUT => k.p_wchan[Swapper] = RUNOUT
    BY <1>1, <1>4, <1>c, <2>1 DEF RunoutSet, Woke, Told
  <2>4. Heed(k, k2)
    BY <1>1, <1>4, <2>1, <2>3 DEF Heed, RunoutSet, Woke, Told
  <2> QED BY <1>1, <1>4, <1>c, <2>1, <2>2, <2>4 DEF Bland, Woke, Told
<1>6. CASE ~out
  <2>1. k2 = k1
    BY <1>2, <1>6
  <2>2. \A q \in Procs : WantsIn(k1, q) => WantsIn(k, q)
    BY <1>1, <1>6 DEF WantsIn, All, out, Woke
  <2>3. Heed(k, k1)
    BY <1>1, <1>c, <2>2 DEF Heed, RunoutSet, Woke
  <2> QED BY <1>1, <1>c, <2>1, <2>3 DEF Bland, Woke
<1> QED BY <1>5, <1>6

\* setrun() is bland, and the process it is called for is then runnable.
LEMMA SetrunBland ==
  ASSUME NEW k \in Kern, NEW p \in All, NEW k2, k2 = Setrun(k, p)
  PROVE  /\ Bland(k, k2)
         /\ k.p_stat[p] \in {"SSLEEP", "SSTOP"} => k2.p_stat[p] = "SRUN"
         /\ \A x \in All : k2.p_stat[x] # k.p_stat[x] => k2.p_stat[x] = "SRUN"
<1> DEFINE k1 == [Unsleep(k, p) EXCEPT !.p_stat[p] = "SRUN"]
<1>1. CASE k.p_stat[p] \notin {"SSLEEP", "SSTOP", "SIDL"}
  <2>1. k2 = Panic(k, "setrun")
    BY <1>1 DEF Setrun
  <2>2. k2.p_stat = k.p_stat
    BY <2>1 DEF Panic, Kern
  <2>3. Bland(k, k2)
    BY <2>1, PanicBland DEF Why
  <2> QED BY <1>1, <2>2, <2>3
<1>2. CASE k.p_stat[p] \in {"SSLEEP", "SSTOP", "SIDL"}
  <2> DEFINE ku == Unsleep(k, p)
  <2>1. Bland(k, ku) /\ ku.p_stat = k.p_stat /\ ku.sload = k.sload
    BY UnsleepBland
  <2>2. k2 = IF p \in k.sload THEN Setrq(k1, p) ELSE WantIn(k1)
    BY <1>2 DEF Setrun
  <2> HIDE DEF ku
  <2>3. ku \in Kern
    BY <2>1 DEF Bland, Mute
  <2>4. /\ k1 \in Kern /\ k1.p_sig = ku.p_sig /\ k1.p_cursig = ku.p_cursig
        /\ k1.p_pptr = ku.p_pptr /\ k1.p_wchan = ku.p_wchan
        /\ k1.sload = ku.sload /\ k1.panicstr = ku.panicstr
        /\ k1.runout = ku.runout /\ k1.wantin = ku.wantin
        /\ k1.p_stat = [ku.p_stat EXCEPT ![p] = "SRUN"]
    <3>1. k1 = [ku EXCEPT !.p_stat[p] = "SRUN"]
      BY DEF ku
    <3> HIDE DEF k1
    <3> QED BY <2>3, <3>1 DEF Kern, Stat
  <2> HIDE DEF k1
  <2>5. \A x \in All : k1.p_stat[x] = IF x = p THEN "SRUN" ELSE k.p_stat[x]
    BY <2>1, <2>3, <2>4, KernTypes
  <2>6. Mute(k, k1)
    BY <2>1, <2>4, <2>5 DEF Bland, Mute
  <2>7. CASE p \in k.sload
    <3>1. Heed(ku, k1)
      BY <2>1, <2>4, <2>5, <2>7 DEF Heed, WantsIn, RunoutSet, All
    <3>2. Bland(k, k1)
      BY <2>1, <2>6, <3>1, HeedTrans DEF Bland
    <3>3. Bland(k1, k2) /\ k2.p_stat = k1.p_stat
      <4>1. k2 = Setrq(k1, p)
        BY <2>2, <2>7
      <4>2. Setrq(k1, p).p_stat = k1.p_stat
        BY <2>4 DEF Setrq, Panic, Kern
      <4> QED BY <2>4, <4>1, <4>2, SetrqBland
    <3> QED BY <2>5, <3>2, <3>3, BlandTrans
  <2>8. CASE p \notin k.sload
    <3>1. k2 = WantIn(k1)
      BY <2>2, <2>8
    <3>2. Told(k1, k2)
      BY <2>4, <3>1, WantInMute
    <3>3. Mute(k, k2)
      BY <2>6, <3>2 DEF Mute, Told
    <3>4. Heed(ku, k2)
      <4>1. RunoutSet(ku) <=> RunoutSet(k1)
        BY <2>4 DEF RunoutSet
      <4> QED BY <2>4, <3>2, <4>1 DEF Heed, RunoutSet, Told
    <3>5. Heed(k, k2)
      BY <2>1, <3>4, HeedTrans DEF Bland
    <3> QED BY <2>5, <3>2, <3>3, <3>5 DEF Bland, Told
  <2> QED BY <2>7, <2>8
<1> QED BY <1>1, <1>2

\* psignal() at its label run is bland, and the process is then runnable.
LEMMA SignalRunBland ==
  ASSUME NEW k \in Kern, NEW p \in All, NEW k2, k2 = SignalRun(k, p)
  PROVE  /\ Bland(k, k2)
         /\ k.p_stat[p] \in {"SSLEEP", "SSTOP"} => k2.p_stat[p] = "SRUN"
<1> DEFINE pri == IF k.p_pri[p] > PUSER THEN PUSER ELSE k.p_pri[p]
           k1 == [k EXCEPT !.p_pri[p] = pri]
<1>1. pri \in Pri
  BY KernTypes DEF Pri
<1>2. k2 = Setrun(k1, p)
  BY DEF SignalRun
<1> HIDE DEF pri
<1>3. /\ k1 \in Kern /\ k1.p_stat = k.p_stat
      /\ k1.p_sig = k.p_sig /\ k1.p_cursig = k.p_cursig
      /\ k1.p_pptr = k.p_pptr /\ k1.p_wchan = k.p_wchan
      /\ k1.sload = k.sload /\ k1.panicstr = k.panicstr
      /\ k1.runout = k.runout /\ k1.wantin = k.wantin
  BY <1>1 DEF Kern
<1> HIDE DEF k1
<1>4. Bland(k, k1)
  BY <1>3, BlandSame
<1>5. /\ Bland(k1, k2)
      /\ k1.p_stat[p] \in {"SSLEEP", "SSTOP"} => k2.p_stat[p] = "SRUN"
  BY <1>2, <1>3, SetrunBland
<1> QED BY <1>3, <1>4, <1>5, BlandTrans

\* A pending SIGCONT excludes a pending stop signal, and is not pending for a
\* stopped process; a pending stop signal is one that kill() or an interrupt
\* sends to the process.
SigAt(k, x) ==
  /\ SIGCONT \in k.p_sig[x] =>
       k.p_sig[x] \cap StopSig = {} /\ k.p_stat[x] # "SSTOP"
  /\ x \in Procs => k.p_sig[x] \cap StopSig \subseteq Posted[x] \cup IntrSigs[x]

\* A child of init is stopped by SIGSTOP only.
InitAt(k, x) ==
  k.p_pptr[x] = InitProc /\ k.p_stat[x] = "SSTOP" => k.p_cursig[x] = SIGSTOP

\* What the primitives that send no stop signal keep of the two.
Hush(k, k2) ==
  /\ k2 \in Kern
  /\ k2.p_cursig = k.p_cursig /\ k2.p_pptr = k.p_pptr
  /\ \A x \in All :
       /\ k2.p_stat[x] = "SSTOP" => k.p_stat[x] = "SSTOP"
       /\ SigAt(k, x) => SigAt(k2, x)

\* A primitive that leaves the signals alone sends no stop signal.
LEMMA MuteHush ==
  ASSUME NEW k, NEW k2, Mute(k, k2)
  PROVE  Hush(k, k2)
BY DEF Mute, Hush, SigAt

\* Such primitives compose.
LEMMA HushTrans ==
  ASSUME NEW k, NEW k1, NEW k2, Hush(k, k1), Hush(k1, k2)
  PROVE  Hush(k, k2)
BY DEF Hush

\* What posting and forgetting a signal change.
LEMMA PostFacts ==
  ASSUME NEW k \in Kern, NEW p \in All, NEW sig \in Sig, NEW k2,
         k2 = Post(k, p, sig)
  PROVE  /\ k2 \in Kern /\ k2.p_stat = k.p_stat
         /\ k2.p_cursig = k.p_cursig
         /\ k2.p_pptr = k.p_pptr /\ k2.p_wchan = k.p_wchan
         /\ k2.sload = k.sload /\ k2.panicstr = k.panicstr
         /\ k2.runout = k.runout /\ k2.wantin = k.wantin
         /\ \A x \in All \ {p} : k2.p_sig[x] = k.p_sig[x]
         /\ sig = SIGCONT =>
              k2.p_sig[p] = (k.p_sig[p] \ StopSig) \cup {SIGCONT}
         /\ sig \in StopSig =>
              k2.p_sig[p] = (k.p_sig[p] \ {SIGCONT}) \cup {sig}
         /\ sig \notin StopSig /\ sig # SIGCONT =>
              k2.p_sig[p] = k.p_sig[p] \cup {sig}
<1> DEFINE S == CASE sig = SIGCONT   -> (k.p_sig[p] \ StopSig) \cup {SIGCONT}
                  [] sig \in StopSig -> (k.p_sig[p] \ {SIGCONT}) \cup {sig}
                  [] OTHER           -> k.p_sig[p] \cup {sig}
<1>1. k2 = [k EXCEPT !.p_sig[p] = S]
  BY DEF Post
<1>2. SIGCONT \notin StopSig
  BY DEF StopSig, SIGCONT, SIGSTOP, SIGTSTP, SIGTTIN
<1>3. /\ sig = SIGCONT => S = (k.p_sig[p] \ StopSig) \cup {SIGCONT}
      /\ sig \in StopSig => S = (k.p_sig[p] \ {SIGCONT}) \cup {sig}
      /\ sig \notin StopSig /\ sig # SIGCONT => S = k.p_sig[p] \cup {sig}
  BY <1>2
<1> HIDE DEF S
<1>4. k2 \in Kern
  BY PostSame
<1>5. k.p_sig \in [All -> SUBSET Sig]
  BY KernTypes
<1>6. k2.p_sig = [k.p_sig EXCEPT ![p] = S]
  BY <1>1 DEF Kern
<1>7. k2.p_sig[p] = S /\ \A x \in All \ {p} : k2.p_sig[x] = k.p_sig[x]
  BY <1>5, <1>6
<1>8. /\ k2.p_stat = k.p_stat
      /\ k2.p_cursig = k.p_cursig
      /\ k2.p_pptr = k.p_pptr /\ k2.p_wchan = k.p_wchan
      /\ k2.sload = k.sload /\ k2.panicstr = k.panicstr
      /\ k2.runout = k.runout /\ k2.wantin = k.wantin
  BY <1>1 DEF Kern
<1> QED BY <1>3, <1>4, <1>7, <1>8

\* What forgetting a signal leaves.
LEMMA ForgetFacts ==
  ASSUME NEW k \in Kern, NEW p \in All, NEW sig \in Sig, NEW k2,
         k2 = Forget(k, p, sig)
  PROVE  /\ k2 \in Kern /\ k2.p_stat = k.p_stat
         /\ k2.p_cursig = k.p_cursig
         /\ k2.p_pptr = k.p_pptr /\ k2.p_wchan = k.p_wchan
         /\ k2.sload = k.sload /\ k2.panicstr = k.panicstr
         /\ k2.runout = k.runout /\ k2.wantin = k.wantin
         /\ \A x \in All \ {p} : k2.p_sig[x] = k.p_sig[x]
         /\ k2.p_sig[p] = k.p_sig[p] \ {sig}
         /\ \A x \in All : k2.p_sig[x] \subseteq k.p_sig[x]
         /\ Hush(k, k2) /\ Heed(k, k2)
<1>1. k2 = [k EXCEPT !.p_sig[p] = k.p_sig[p] \ {sig}]
  BY DEF Forget
<1>4. k2 \in Kern
  BY PostSame
<1>5. k.p_sig \in [All -> SUBSET Sig]
  BY KernTypes
<1>6. k2.p_sig = [k.p_sig EXCEPT ![p] = k.p_sig[p] \ {sig}]
  BY <1>1 DEF Kern
<1>7. /\ k2.p_sig[p] = k.p_sig[p] \ {sig}
      /\ \A x \in All \ {p} : k2.p_sig[x] = k.p_sig[x]
  BY <1>5, <1>6
<1>8. /\ k2.p_stat = k.p_stat
      /\ k2.p_cursig = k.p_cursig
      /\ k2.p_pptr = k.p_pptr /\ k2.p_wchan = k.p_wchan
      /\ k2.sload = k.sload /\ k2.panicstr = k.panicstr
      /\ k2.runout = k.runout /\ k2.wantin = k.wantin
  BY <1>1 DEF Kern
<1>9. \A x \in All : k2.p_sig[x] \subseteq k.p_sig[x]
  BY <1>7
<1>10. Hush(k, k2)
  BY <1>4, <1>8, <1>9 DEF Hush, SigAt
<1>11. Heed(k, k2)
  BY <1>8 DEF Heed, RunoutSet, WantsIn
<1> QED BY <1>4, <1>7, <1>8, <1>9, <1>10, <1>11

\* What sending process p a signal that does not stop leaves of k: SIGCONT
\* becomes pending for p at most, and p, sent one, is not stopped any more.
Sent(k, k2, p, sig) ==
  /\ Hush(k, k2) /\ Heed(k, k2)
  /\ \A x \in All :
       SIGCONT \in k2.p_sig[x] =>
         SIGCONT \in k.p_sig[x] \/ (x = p /\ sig = SIGCONT)
  /\ sig = SIGCONT /\ k.p_stat[p] = "SSTOP" => k2.p_stat[p] # "SSTOP"

\* A bland primitive after psignal() has posted its signal.
LEMMA BlandSent ==
  ASSUME NEW k, NEW k2, NEW k3, NEW p \in All, NEW sig, Sent(k, k2, p, sig),
         Bland(k2, k3)
  PROVE  Sent(k, k3, p, sig)
<1>1. Hush(k2, k3)
  BY MuteHush DEF Bland
<1>2. Hush(k, k3) /\ Heed(k, k3)
  BY <1>1, HushTrans, HeedTrans DEF Sent, Bland
<1>3. k3.p_sig = k2.p_sig
      /\ \A x \in All : k3.p_stat[x] = "SSTOP" => k2.p_stat[x] = "SSTOP"
  BY DEF Bland, Mute
<1> QED BY <1>2, <1>3 DEF Sent

\* psignal() of a signal that does not stop.
LEMMA PsignalPlainSent ==
  ASSUME NEW k \in Kern, NEW p \in All, NEW sig \in Sig \ StopSig, NEW k2,
         k2 = PsignalPlain(k, p, sig)
  PROVE  Sent(k, k2, p, sig)
<1> DEFINE k1 == Post(k, p, sig)
<1>1. k2 = IF Ignores(k, p, sig) THEN k
           ELSE IF sig \in Held[p] THEN k1
           ELSE IF k.p_stat[p] = "SSLEEP" THEN SignalAsleep(k1, p, sig)
           ELSE IF k.p_stat[p] = "SSTOP" THEN SignalStopped(k1, p, sig)
           ELSE k1
  BY DEF PsignalPlain
<1> HIDE DEF k1
<1>2. /\ k1 \in Kern /\ k1.p_stat = k.p_stat
      /\ k1.p_cursig = k.p_cursig
      /\ k1.p_pptr = k.p_pptr /\ k1.p_wchan = k.p_wchan
      /\ k1.sload = k.sload /\ k1.panicstr = k.panicstr
      /\ k1.runout = k.runout /\ k1.wantin = k.wantin
      /\ \A x \in All \ {p} : k1.p_sig[x] = k.p_sig[x]
      /\ sig = SIGCONT =>
           k1.p_sig[p] = (k.p_sig[p] \ StopSig) \cup {SIGCONT}
      /\ sig # SIGCONT => k1.p_sig[p] = k.p_sig[p] \cup {sig}
  BY PostFacts DEF k1
<1>3. SIGCONT \notin StopSig /\ SIGCONT \notin Ignored[p] /\ SIGCONT \notin Held[p]
      /\ SIGCONT # SIGKILL /\ SIGCONT # SIGCHLD
  BY SignalAssumption DEF StopSig, SIGCONT, SIGSTOP, SIGTSTP, SIGTTIN, SIGKILL,
     SIGCHLD
<1>4. Heed(k, k1)
  BY <1>2 DEF Heed, RunoutSet, WantsIn
<1>5. \A x \in All : SIGCONT \in k1.p_sig[x] =>
        SIGCONT \in k.p_sig[x] \/ (x = p /\ sig = SIGCONT)
  BY <1>2
<1>6. ASSUME sig = SIGCONT => k.p_stat[p] # "SSTOP"
      PROVE  Sent(k, k1, p, sig)
  <2>1. \A x \in All : SigAt(k, x) => SigAt(k1, x)
    BY <1>2, <1>3, <1>6 DEF SigAt
  <2>2. Hush(k, k1)
    BY <1>2, <2>1 DEF Hush
  <2> QED BY <1>4, <1>5, <1>6, <2>2 DEF Sent
<1>7. CASE k2 = k /\ Ignores(k, p, sig)
  <2>1. ~(sig = SIGCONT /\ k.p_stat[p] = "SSTOP")
    BY <1>3, <1>7 DEF Ignores
  <2>2. Hush(k, k) /\ Heed(k, k)
    BY DEF Hush, Heed
  <2> QED BY <1>7, <2>1, <2>2 DEF Sent
<1>8. CASE k2 = k1 /\ (sig \in Held[p] \/ k.p_stat[p] # "SSTOP")
  BY <1>3, <1>6, <1>8
<1>9. CASE k2 = SignalAsleep(k1, p, sig) /\ k.p_stat[p] = "SSLEEP"
  <2>1. Sent(k, k1, p, sig)
    BY <1>6, <1>9
  <2>2. CASE k2 = k1
    BY <2>1, <2>2
  <2>3. CASE k2 = Forget(k1, p, sig) /\ sig # SIGCONT
    <3>1. /\ k2.p_sig[p] = k1.p_sig[p] \ {sig}
          /\ \A x \in All \ {p} : k2.p_sig[x] = k1.p_sig[x]
          /\ Hush(k1, k2) /\ Heed(k1, k2)
      BY <1>2, <2>3, ForgetFacts
    <3>2. Hush(k, k2) /\ Heed(k, k2)
      BY <2>1, <3>1, HushTrans, HeedTrans DEF Sent
    <3> QED BY <1>5, <2>3, <3>1, <3>2 DEF Sent
  <2>4. CASE k2 = SignalRun(k1, p)
    BY <1>2, <2>1, <2>4, SignalRunBland, BlandSent
  <2> QED BY <1>3, <1>9, <2>2, <2>3, <2>4 DEF SignalAsleep
<1>10. CASE /\ k2 = SignalStopped(k1, p, sig)
            /\ k.p_stat[p] = "SSTOP" /\ sig # SIGCONT
  <2>1. Sent(k, k1, p, sig)
    BY <1>6, <1>10
  <2>2. k2 \in {k1, SignalRun(k1, p), Unsleep(k1, p)}
    BY <1>10 DEF SignalStopped
  <2>3. Bland(k1, k1) /\ Bland(k1, SignalRun(k1, p)) /\ Bland(k1, Unsleep(k1, p))
    BY <1>2, SignalRunBland, UnsleepBland, BlandRefl
  <2> QED BY <2>1, <2>2, <2>3, BlandSent
<1>11. CASE /\ k2 = SignalStopped(k1, p, sig)
            /\ k.p_stat[p] = "SSTOP" /\ sig = SIGCONT
  <2> DEFINE k3 == [k1 EXCEPT !.p_stat[p] = "SSLEEP"]
  <2>1. k2 \in {SignalRun(k1, p), k3}
    BY <1>3, <1>11 DEF SignalStopped
  <2>2. /\ k3 \in Kern /\ k3.p_sig = k1.p_sig /\ k3.p_cursig = k1.p_cursig
        /\ k3.p_pptr = k1.p_pptr /\ k3.p_wchan = k1.p_wchan
        /\ k3.sload = k1.sload /\ k3.panicstr = k1.panicstr
        /\ k3.runout = k1.runout /\ k3.wantin = k1.wantin
        /\ k3.p_stat = [k1.p_stat EXCEPT ![p] = "SSLEEP"]
    BY <1>2 DEF Kern, Stat
  <2> HIDE DEF k3
  <2>3. \A x \in All : k3.p_stat[x] = IF x = p THEN "SSLEEP" ELSE k1.p_stat[x]
    BY <1>2, <2>2, KernTypes
  <2>4. Bland(k1, k3)
    <3>1. Mute(k1, k3)
      BY <2>2, <2>3 DEF Mute
    <3>2. Heed(k1, k3)
      BY <2>2, <2>3 DEF Heed, RunoutSet, WantsIn, All
    <3> QED BY <3>1, <3>2 DEF Bland
  <2>5. k1.p_stat[p] \in {"SSLEEP", "SSTOP"}
    BY <1>2, <1>11
  <2>6. Bland(k1, k2) /\ k2.p_stat[p] \in {"SRUN", "SSLEEP"}
    BY <1>2, <2>1, <2>3, <2>4, <2>5, SignalRunBland
  <2>7. Heed(k, k2)
    BY <1>4, <2>6, HeedTrans DEF Bland
  <2>8. \A x \in All : SigAt(k, x) => SigAt(k2, x)
    BY <1>2, <1>3, <1>11, <2>6 DEF Bland, Mute, SigAt
  <2>9. Hush(k, k2)
    BY <1>2, <2>6, <2>8 DEF Hush, Bland, Mute
  <2> QED BY <1>5, <1>11, <2>6, <2>7, <2>9 DEF Sent, Bland, Mute
<1> QED BY <1>1, <1>7, <1>8, <1>9, <1>10, <1>11

\* No process has SIGCONT pending with a stop signal, or stopped, or a stop
\* signal nobody sends it, and init's children are stopped by SIGSTOP only.
Tidy(k) ==
  /\ \A x \in All : SigAt(k, x)
  /\ \A x \in Procs : InitAt(k, x)

\* Primitives that send no stop signal keep the data tidy.
LEMMA HushTidy ==
  ASSUME NEW k, NEW k2, Hush(k, k2), Tidy(k)
  PROVE  Tidy(k2)
BY DEF Hush, Tidy, InitAt, All

\* stop() of a process that has no SIGCONT pending.
LEMMA StopTidy ==
  ASSUME NEW k \in Kern, NEW p \in Procs, NEW k2, k2 = Stop(k, p)
  PROVE  /\ k2 \in Kern /\ Heed(k, k2)
         /\ k2.p_sig = k.p_sig /\ k2.p_cursig = k.p_cursig
         /\ k2.p_pptr = k.p_pptr
         /\ /\ Tidy(k) /\ SIGCONT \notin k.p_sig[p]
            /\ k.p_pptr[p] = InitProc => k.p_cursig[p] = SIGSTOP
            => Tidy(k2)
<1> DEFINE k1 == [k EXCEPT !.p_stat[p] = "SSTOP", !.swted = @ \ {p}]
           chan == ChanOf[k.p_pptr[p]]
<1>1. k2 = Wakeup(k1, chan)
  BY DEF Stop
<1>2. chan \in AllChan /\ p \in All
  BY KernTypes, ChanAssumption DEF AllChan, All
<1> HIDE DEF chan
<1>3. /\ k1 \in Kern /\ k1.p_sig = k.p_sig /\ k1.p_cursig = k.p_cursig
      /\ k1.p_pptr = k.p_pptr /\ k1.p_wchan = k.p_wchan
      /\ k1.sload = k.sload /\ k1.panicstr = k.panicstr
      /\ k1.runout = k.runout /\ k1.wantin = k.wantin
      /\ k1.p_stat = [k.p_stat EXCEPT ![p] = "SSTOP"]
  BY DEF Kern, Stat
<1> HIDE DEF k1
<1>4. \A x \in All : k1.p_stat[x] = IF x = p THEN "SSTOP" ELSE k.p_stat[x]
  BY <1>3, KernTypes
<1>5. Heed(k, k1)
  BY <1>3, <1>4 DEF Heed, RunoutSet, WantsIn, All
<1>6. Bland(k1, k2)
  BY <1>1, <1>2, <1>3, WakeupBland
<1>7. Heed(k, k2)
  BY <1>5, <1>6, HeedTrans DEF Bland
<1>8. ASSUME Tidy(k), SIGCONT \notin k.p_sig[p],
             k.p_pptr[p] = InitProc => k.p_cursig[p] = SIGSTOP
      PROVE  Tidy(k2)
  <2>1. Tidy(k1)
    BY <1>3, <1>4, <1>8 DEF Tidy, SigAt, InitAt, All
  <2> QED BY <1>6, <2>1, MuteHush, HushTidy DEF Bland
<1> QED BY <1>3, <1>6, <1>7, <1>8 DEF Bland, Mute

\* What psignal() leaves of k for the signals of everyone else.
Struck(k, k2) ==
  /\ k2 \in Kern /\ Heed(k, k2) /\ k2.p_pptr = k.p_pptr
  /\ Tidy(k) => Tidy(k2)
  /\ \A r \in All : k.p_stat[r] \notin {"SSLEEP", "SSTOP"} =>
       k2.p_cursig[r] = k.p_cursig[r]

\* No SIGCONT becomes pending between k and k2.
NoCont(k, k2) ==
  \A r \in All : SIGCONT \in k2.p_sig[r] => SIGCONT \in k.p_sig[r]

\* psignal() may be such a primitive.
LEMMA HushStruck ==
  ASSUME NEW k, NEW k2, Hush(k, k2), Heed(k, k2)
  PROVE  Struck(k, k2)
BY HushTidy DEF Struck, Hush

\* A bland primitive strikes no one.
LEMMA BlandStruck ==
  ASSUME NEW k, NEW k2, Bland(k, k2)
  PROVE  Struck(k, k2) /\ NoCont(k, k2)
BY MuteHush, HushStruck DEF Bland, NoCont, Mute

\* psignal() of a stop signal to a sleeper: it stops with the signal in
\* p_cursig and no SIGCONT pending, unless its parent is init.
LEMMA StopAsleepStruck ==
  ASSUME NEW k \in Kern, NEW p \in Procs, NEW sig \in StopSig, NEW k2,
         k2 = StopAsleep(k, p, sig), k.p_stat[p] = "SSLEEP",
         SIGCONT \notin k.p_sig[p]
  PROVE  Struck(k, k2) /\ NoCont(k, k2)
<1> DEFINE parent == k.p_pptr[p]
           kill == PsignalPlain(k, p, SIGKILL)
           k1 == Forget(k, p, sig)
           k3 == [k1 EXCEPT !.p_cursig[p] = sig]
           k4 == PsignalPlain(k3, parent, SIGCHLD)
<1>a. /\ p \in All /\ parent \in All /\ sig \in Sig
      /\ SIGKILL \in Sig \ StopSig /\ SIGCHLD \in Sig \ StopSig
      /\ SIGCONT # SIGKILL /\ SIGCONT # SIGCHLD
  BY KernTypes DEF All, Sig, StopSig, SIGKILL, SIGCHLD, SIGCONT, SIGSTOP,
     SIGTSTP, SIGTTIN
<1>0. \/ k2 = k \/ k2 = SignalRun(k, p)
      \/ k2 = Forget(kill, p, sig)
      \/ /\ k2 = Stop(k4, p)
         /\ parent = InitProc => sig = SIGSTOP
  BY DEF StopAsleep
<1>1. CASE k2 = k \/ k2 = SignalRun(k, p)
  BY <1>1, <1>a, BlandRefl, SignalRunBland, BlandStruck
<1>2. CASE k2 = Forget(kill, p, sig)
  <2>1. Sent(k, kill, p, SIGKILL)
    BY <1>a, PsignalPlainSent
  <2> HIDE DEF kill
  <2>2. kill \in Kern
    BY <2>1 DEF Sent, Hush
  <2>3. /\ Hush(kill, k2) /\ Heed(kill, k2)
        /\ \A x \in All : k2.p_sig[x] \subseteq kill.p_sig[x]
    <3>1. p \in All /\ sig \in Sig
      BY <1>a
    <3> QED BY <1>2, <2>2, <3>1, ForgetFacts
  <2>4. Hush(k, k2) /\ Heed(k, k2)
    BY <2>1, <2>3, HushTrans, HeedTrans DEF Sent
  <2>5. NoCont(k, k2)
    BY <1>a, <2>1, <2>3 DEF Sent, NoCont
  <2> QED BY <2>4, <2>5, HushStruck
<1>3. CASE k2 = Stop(k4, p) /\ (parent = InitProc => sig = SIGSTOP)
  <2>1. /\ k1 \in Kern /\ k1.p_stat = k.p_stat
        /\ k1.p_cursig = k.p_cursig
        /\ k1.p_pptr = k.p_pptr /\ Hush(k, k1) /\ Heed(k, k1)
        /\ \A x \in All : k1.p_sig[x] \subseteq k.p_sig[x]
    BY <1>a, ForgetFacts
  <2> HIDE DEF k1, parent
  <2>2. /\ k3 \in Kern /\ k3.p_stat = k1.p_stat /\ k3.p_sig = k1.p_sig
        /\ k3.p_pptr = k1.p_pptr /\ k3.p_wchan = k1.p_wchan
        /\ k3.sload = k1.sload /\ k3.panicstr = k1.panicstr
        /\ k3.runout = k1.runout /\ k3.wantin = k1.wantin
        /\ k3.p_cursig = [k1.p_cursig EXCEPT ![p] = sig]
    BY <1>a, <2>1 DEF Kern
  <2> HIDE DEF k3
  <2>3. \A x \in All : k3.p_cursig[x] = IF x = p THEN sig ELSE k1.p_cursig[x]
    BY <2>1, <2>2, KernTypes
  <2>4. Heed(k1, k3)
    BY <2>2 DEF Heed, RunoutSet, WantsIn
  <2>5. Sent(k3, k4, parent, SIGCHLD)
    BY <1>a, <2>2, PsignalPlainSent
  <2> HIDE DEF k4
  <2>6. k4 \in Kern /\ k4.p_cursig = k3.p_cursig /\ k4.p_pptr = k3.p_pptr
    BY <2>5 DEF Sent, Hush
  <2>7. /\ k2 \in Kern /\ Heed(k4, k2)
        /\ k2.p_sig = k4.p_sig /\ k2.p_cursig = k4.p_cursig
        /\ k2.p_pptr = k4.p_pptr
        /\ /\ Tidy(k4) /\ SIGCONT \notin k4.p_sig[p]
           /\ k4.p_pptr[p] = InitProc => k4.p_cursig[p] = SIGSTOP
           => Tidy(k2)
    BY <1>3, <2>6, StopTidy
  <2>8. Heed(k, k2)
    BY <2>1, <2>4, <2>5, <2>7, HeedTrans DEF Sent
  <2>9. NoCont(k, k2)
    BY <1>a, <2>1, <2>2, <2>5, <2>7 DEF Sent, NoCont
  <2>10. SIGCONT \notin k4.p_sig[p]
    BY <1>a, <2>7, <2>9 DEF NoCont
  <2>11. k4.p_pptr[p] = InitProc => k4.p_cursig[p] = SIGSTOP
    BY <1>3, <1>a, <2>1, <2>2, <2>3, <2>6 DEF parent
  <2>12. ASSUME Tidy(k) PROVE Tidy(k2)
    <3>1. Tidy(k1)
      BY <2>1, <2>12, HushTidy
    <3>2. k3.p_stat[p] = "SSLEEP"
      BY <2>1, <2>2
    <3>3. Tidy(k3)
      BY <2>2, <2>3, <3>1, <3>2 DEF Tidy, SigAt, InitAt, All
    <3>4. Tidy(k4)
      BY <2>5, <3>3, HushTidy DEF Sent
    <3> QED BY <2>7, <2>10, <2>11, <3>4
  <2>13. \A r \in All : k.p_stat[r] \notin {"SSLEEP", "SSTOP"} =>
           k2.p_cursig[r] = k.p_cursig[r]
    BY <2>1, <2>3, <2>6, <2>7
  <2> QED BY <2>1, <2>2, <2>6, <2>7, <2>8, <2>9, <2>12, <2>13 DEF Struck
<1> QED BY <1>0, <1>1, <1>2, <1>3

\* psignal(), whatever the signal and the state of the process it goes to.
LEMMA PsignalStruck ==
  ASSUME NEW k \in Kern, NEW p \in Procs, NEW sig \in Sig, NEW k2,
         k2 = Psignal(k, p, sig), sig \in Posted[p] \cup IntrSigs[p]
  PROVE  /\ Struck(k, k2)
         /\ \A x \in All : SIGCONT \in k2.p_sig[x] =>
              SIGCONT \in k.p_sig[x] \/ (x = p /\ sig = SIGCONT)
<1> DEFINE k1 == Post(k, p, sig)
<1>a. p \in All /\ SIGCONT \notin StopSig
  BY DEF All, StopSig, SIGCONT, SIGSTOP, SIGTSTP, SIGTTIN
<1>1. CASE sig \notin StopSig
  <2>1. k2 = PsignalPlain(k, p, sig)
    BY <1>1 DEF Psignal
  <2>2. Sent(k, k2, p, sig)
    BY <1>1, <1>a, <2>1, PsignalPlainSent
  <2> QED BY <2>2, HushStruck DEF Sent
<1>2. CASE sig \in StopSig
  <2> SUFFICES Struck(k, k2) /\ NoCont(k, k2)
    BY DEF NoCont
  <2>1. k2 = IF Ignores(k, p, sig) THEN k
             ELSE IF sig \in Held[p] THEN k1
             ELSE IF k.p_stat[p] = "SSLEEP" THEN StopAsleep(k1, p, sig)
             ELSE IF k.p_stat[p] = "SSTOP" THEN SignalStopped(k1, p, sig)
             ELSE k1
    BY <1>2 DEF Psignal
  <2> HIDE DEF k1
  <2>2. /\ k1 \in Kern /\ k1.p_stat = k.p_stat
        /\ k1.p_cursig = k.p_cursig
        /\ k1.p_pptr = k.p_pptr /\ k1.p_wchan = k.p_wchan
        /\ k1.sload = k.sload /\ k1.panicstr = k.panicstr
        /\ k1.runout = k.runout /\ k1.wantin = k.wantin
        /\ \A x \in All \ {p} : k1.p_sig[x] = k.p_sig[x]
        /\ k1.p_sig[p] = (k.p_sig[p] \ {SIGCONT}) \cup {sig}
    BY <1>2, <1>a, PostFacts DEF k1
  <2>3. /\ Hush(k, k1) /\ Heed(k, k1) /\ NoCont(k, k1)
        /\ SIGCONT \notin k1.p_sig[p]
    <3>1. SIGCONT \notin k1.p_sig[p]
      BY <1>2, <1>a, <2>2
    <3>2. \A x \in All : SigAt(k, x) => SigAt(k1, x)
      BY <2>2, <3>1 DEF SigAt
    <3>3. Hush(k, k1)
      BY <2>2, <3>2 DEF Hush
    <3>4. Heed(k, k1)
      BY <2>2 DEF Heed, RunoutSet, WantsIn
    <3>5. NoCont(k, k1)
      BY <2>2, <3>1 DEF NoCont
    <3> QED BY <3>1, <3>3, <3>4, <3>5
  <2>4. Struck(k, k1)
    BY <2>3, HushStruck
  <2>5. ASSUME Struck(k1, k2), NoCont(k1, k2)
        PROVE  Struck(k, k2) /\ NoCont(k, k2)
    <3>1. Heed(k, k2)
      BY <2>3, <2>5, HeedTrans DEF Struck
    <3> QED BY <2>2, <2>3, <2>4, <2>5, <3>1 DEF Struck, NoCont
  <2>6. CASE k2 = k
    BY <2>6, BlandRefl, BlandStruck
  <2>7. CASE k2 = k1
    BY <2>3, <2>4, <2>7
  <2>8. CASE k2 = StopAsleep(k1, p, sig) /\ k.p_stat[p] = "SSLEEP"
    BY <1>2, <2>2, <2>3, <2>5, <2>8, StopAsleepStruck
  <2>9. CASE k2 = SignalStopped(k1, p, sig) /\ k.p_stat[p] = "SSTOP"
    <3>1. k2 = Forget(k1, p, sig)
      BY <1>2, <1>a, <2>9
      DEF SignalStopped, StopSig, SIGSTOP, SIGTSTP, SIGTTIN, SIGKILL, SIGCONT
    <3>2. /\ Hush(k1, k2) /\ Heed(k1, k2)
          /\ \A x \in All : k2.p_sig[x] \subseteq k1.p_sig[x]
      BY <1>a, <2>2, <3>1, ForgetFacts
    <3> QED BY <2>5, <3>2, HushStruck DEF NoCont
  <2> QED BY <2>1, <2>6, <2>7, <2>8, <2>9
<1> QED BY <1>1, <1>2

-----------------------------------------------------------------------------
(***************************************************************************)
(* Why the primitives do not panic.                                        *)
(***************************************************************************)

\* No channel shares its sleep queue with &runout: setrun() and wakeup() walk
\* that queue whenever a process that is not in core becomes runnable, also
\* when the running process has put itself on a sleep queue and is still SRUN.
HashApart == \A c \in Chan : Hash[c] # Hash[RUNOUT]

\* Between k and k2 there is no panic.
Calm(k, k2) == k2.panicstr = k.panicstr

\* wakeup() finds sleeping and stopped processes that are on no run queue,
\* unless the running process is itself on the sleep queue.
LEMMA WakeSleepersCalm ==
  ASSUME NEW k, NEW np \in BOOLEAN, NEW r \in All, NEW h \in BOOLEAN,
         NEW chan \in AllChan, Good(k, np, r, h),
         np \/ ~h \/ (chan = RUNOUT /\ r \in Procs /\ HashApart)
  PROVE  Calm(k, WakeSleepers(k, chan))
<1>1. ASSUME NEW p \in SleepQueue(k, chan)
      PROVE  k.p_rlink[p] = NoQ /\ k.p_stat[p] \in {"SSLEEP", "SSTOP"}
  <2>1. /\ p \in All /\ k.p_wchan[p] # NoChan
        /\ Hash[k.p_wchan[p]] = Hash[chan]
    BY DEF SleepQueue
  <2>2. k.p_stat[p] \in {"SSLEEP", "SSTOP"} \/ (h /\ ~np /\ p = r)
    BY <2>1 DEF Good, Asleeps
  <2>3. ASSUME h, ~np, p = r
        PROVE  FALSE
    <3>1. k.p_wchan[p] \in Chan
      BY <1>1, <2>1, <2>3, KernTypes DEF Good, AllChan
    <3> QED BY <2>1, <2>3, <3>1 DEF HashApart
  <2>4. k.p_stat[p] \in {"SSLEEP", "SSTOP"}
    BY <2>2, <2>3
  <2> QED BY <2>1, <2>4 DEF Good, Queued
<1>2. k \in Kern
  BY DEF Good
<1> QED BY <1>1, <1>2 DEF WakeSleepers, Calm, Kern

\* Nor does telling the swapper.
LEMMA WantInCalm ==
  ASSUME NEW k, NEW np \in BOOLEAN, NEW r \in All, NEW h \in BOOLEAN,
         Good(k, np, r, h), np \/ ~h \/ (r \in Procs /\ HashApart)
  PROVE  Calm(k, WantIn(k))
<1> DEFINE k0 == [k EXCEPT !.runout = FALSE]
           k1 == IF k.runout THEN WakeSleepers(k0, RUNOUT) ELSE k
           k2 == [k1 EXCEPT !.wantin = TRUE]
<1>1. k \in Kern
  BY DEF Good
<1>2. k0 \in Kern /\ Same(k, k0) /\ Calm(k, k0)
  BY <1>1, FlagSame DEF Kern, Calm
<1>3. Good(k0, np, r, h)
  BY <1>2, SameGood
<1>4. RUNOUT \in AllChan
  BY DEF AllChan, SwapChan
<1>5. WantIn(k) = k2
  BY DEF WantIn
<1> HIDE DEF k0
<1>6. Calm(k0, WakeSleepers(k0, RUNOUT)) /\ WakeSleepers(k0, RUNOUT) \in Kern
  BY <1>3, <1>4, WakeSleepersCalm, WakeSleepersGood DEF Good
<1>7. k1 \in Kern /\ Calm(k, k1)
  BY <1>1, <1>2, <1>6 DEF Calm
<1> HIDE DEF k1
<1> QED BY <1>5, <1>7 DEF Calm, Kern

\* Nor does wakeup(), if the running process is on no sleep queue.
LEMMA WakeupCalm ==
  ASSUME NEW k, NEW np \in BOOLEAN, NEW r \in All, NEW h \in BOOLEAN,
         NEW chan \in AllChan, Good(k, np, r, h), np \/ ~h
  PROVE  Calm(k, Wakeup(k, chan))
<1> DEFINE k1 == WakeSleepers(k, chan)
<1>1. Good(k1, np, r, h) /\ Calm(k, k1)
  BY WakeSleepersGood, WakeSleepersCalm
<1>2. Wakeup(k, chan) \in {k1, WantIn(k1)}
  BY DEF Wakeup
<1> HIDE DEF k1
<1>3. Calm(k1, WantIn(k1))
  BY <1>1, WantInCalm
<1> QED BY <1>1, <1>2, <1>3 DEF Calm

\* setrq() of a process that is on no run queue.
LEMMA SetrqCalm ==
  ASSUME NEW k \in Kern, NEW p \in All, k.p_rlink[p] = NoQ
  PROVE  Calm(k, Setrq(k, p))
BY DEF Setrq, Calm, Kern

\* setrun() of a process that is asleep or stopped.
LEMMA SetrunCalm ==
  ASSUME NEW k, NEW np \in BOOLEAN, NEW r \in All, NEW h \in BOOLEAN,
         NEW p \in All, Good(k, np, r, h), np \/ p # r,
         k.p_stat[p] \in {"SSLEEP", "SSTOP"},
         np \/ ~h \/ (r \in Procs /\ HashApart)
  PROVE  Calm(k, Setrun(k, p))
<1> DEFINE k1 == [Unsleep(k, p) EXCEPT !.p_stat[p] = "SRUN"]
<1>k. k \in Kern
  BY DEF Good
<1>0. Unsleep(k, p) \in Kern /\ "SRUN" \in Stat
  BY <1>k DEF Kern, Unsleep, Stat
<1>1. k1 \in Kern
  BY <1>0 DEF Kern
<1>2. /\ k1.p_stat = [k.p_stat EXCEPT ![p] = "SRUN"]
      /\ k1.p_wchan = [k.p_wchan EXCEPT ![p] = NoChan]
      /\ k1.p_pri = k.p_pri /\ k1.p_rlink = k.p_rlink
      /\ k1.p_pptr = k.p_pptr /\ Calm(k, k1)
      /\ k1.sload = k.sload /\ k1.whichqs = k.whichqs
  BY <1>k DEF Kern, Unsleep, Calm
<1>3. k.p_rlink[p] = NoQ
  BY DEF Good, Queued
<1>4. Setrun(k, p) = IF p \in k.sload THEN Setrq(k1, p) ELSE WantIn(k1)
  BY DEF Setrun
<1> HIDE DEF k1
<1>5. CASE p \in k.sload
  BY <1>1, <1>2, <1>3, <1>4, <1>5, SetrqCalm DEF Calm
<1>6. CASE p \notin k.sload
  <2>1. /\ Asleeps(k1, np, r, h)
        /\ \A x \in Procs : k1.p_wchan[x] \notin SwapChan
        /\ ~np => k1.p_stat[r] # "SSLEEP"
    BY <1>k, <1>2, ChanAssumption, KernTypes DEF Good, Asleeps, All, AllChan
  <2>2. Good(k1, np, r, h)
    BY <1>k, <1>1, <1>2, <1>3, <1>6, <2>1, KernTypes DEF Good, Queued, Bits
  <2>3. Calm(k1, WantIn(k1))
    BY <2>2, WantInCalm
  <2> QED BY <1>2, <1>4, <1>6, <2>3 DEF Calm
<1> QED BY <1>5, <1>6

\* psignal() at its label run.
LEMMA SignalRunCalm ==
  ASSUME NEW k, NEW np \in BOOLEAN, NEW r \in All, NEW h \in BOOLEAN,
         NEW p \in All, Good(k, np, r, h), np \/ p # r,
         k.p_stat[p] \in {"SSLEEP", "SSTOP"},
         np \/ ~h \/ (r \in Procs /\ HashApart)
  PROVE  Calm(k, SignalRun(k, p))
<1> DEFINE b == IF k.p_pri[p] > PUSER THEN PUSER ELSE k.p_pri[p]
           k1 == [k EXCEPT !.p_pri[p] = b]
<1>1. b \in Pri /\ k \in Kern
  BY KernTypes DEF Good, Pri
<1>2. k.p_rlink[p] = NoQ
  BY DEF Good, Queued
<1>3. SignalRun(k, p) = Setrun(k1, p)
  BY DEF SignalRun
<1> HIDE DEF b
<1>4. Good(k1, np, r, h) /\ k1.p_stat = k.p_stat
  BY <1>1, <1>2, PriGood
<1>5. Calm(k, k1)
  BY <1>1 DEF Calm, Kern
<1> HIDE DEF k1
<1>6. Calm(k1, Setrun(k1, p))
  <2>1. k1.p_stat[p] \in {"SSLEEP", "SSTOP"}
    BY <1>4
  <2> QED BY <1>4, <2>1, SetrunCalm
<1> QED BY <1>3, <1>5, <1>6 DEF Calm

\* Posting and forgetting a signal.
LEMMA PostCalm ==
  ASSUME NEW k \in Kern, NEW p \in All, NEW sig \in Sig
  PROVE  Calm(k, Post(k, p, sig)) /\ Calm(k, Forget(k, p, sig))
BY DEF Post, Forget, Calm, Kern

\* psignal() of a signal that does not stop, to whomever.
LEMMA PsignalPlainCalm ==
  ASSUME NEW k, NEW np \in BOOLEAN, NEW r \in All, NEW h \in BOOLEAN,
         NEW p \in All, NEW sig \in Sig, Good(k, np, r, h),
         np \/ p # r \/ sig \notin {SIGKILL, SIGCONT}
            \/ k.p_stat[p] # "SSTOP",
         np \/ ~h \/ (r \in Procs /\ HashApart)
  PROVE  Calm(k, PsignalPlain(k, p, sig))
<1> DEFINE k1 == Post(k, p, sig)
<1>1. Good(k1, np, r, h) /\ Same(k, k1)
  BY PostGood
<1>2. k \in Kern /\ Calm(k, k1)
  BY PostCalm DEF Good
<1>3. PsignalPlain(k, p, sig) =
        IF Ignores(k, p, sig) THEN k
        ELSE IF sig \in Held[p] THEN k1
        ELSE IF k.p_stat[p] = "SSLEEP" THEN SignalAsleep(k1, p, sig)
        ELSE IF k.p_stat[p] = "SSTOP" THEN SignalStopped(k1, p, sig)
        ELSE k1
  BY DEF PsignalPlain
<1> HIDE DEF k1
<1>4. k1 \in Kern /\ k1.p_stat = k.p_stat
  BY <1>1 DEF Good, Same
<1>5. CASE PsignalPlain(k, p, sig) \in {k, k1}
  BY <1>2, <1>5 DEF Calm
<1>6. Calm(k1, Forget(k1, p, sig)) /\ Calm(k1, k1)
  BY <1>4, PostCalm DEF Calm
<1>7. ASSUME k.p_stat[p] \in {"SSLEEP", "SSTOP"}, np \/ p # r
      PROVE  Calm(k1, SignalRun(k1, p))
  BY <1>1, <1>4, <1>7, SignalRunCalm
<1>8. CASE k.p_stat[p] = "SSLEEP" /\
           PsignalPlain(k, p, sig) = SignalAsleep(k1, p, sig)
  <2>1. SignalAsleep(k1, p, sig) \in {k1, Forget(k1, p, sig), SignalRun(k1, p)}
    BY DEF SignalAsleep
  <2>2. np \/ p # r
    BY <1>8 DEF Good
  <2> QED BY <1>2, <1>6, <1>7, <1>8, <2>1, <2>2 DEF Calm
<1>9. CASE k.p_stat[p] = "SSTOP" /\
           PsignalPlain(k, p, sig) = SignalStopped(k1, p, sig)
  <2>1. Calm(k1, Unsleep(k1, p))
    BY <1>4 DEF Calm, Unsleep, Kern
  <2>2. Calm(k1, [k1 EXCEPT !.p_stat[p] = "SSLEEP"])
    BY <1>4 DEF Calm, Kern
  <2>3. CASE sig \in {SIGKILL, SIGCONT}
    <3>1. SignalStopped(k1, p, sig) \in
            {SignalRun(k1, p), [k1 EXCEPT !.p_stat[p] = "SSLEEP"]}
      BY <2>3 DEF SignalStopped, SIGKILL, SIGCONT, StopSig, SIGSTOP, SIGTSTP,
                  SIGTTIN
    <3>2. np \/ p # r
      BY <1>9, <2>3
    <3> QED BY <1>2, <1>7, <1>9, <2>2, <3>1, <3>2 DEF Calm
  <2>4. CASE sig \notin {SIGKILL, SIGCONT}
    <3>1. SignalStopped(k1, p, sig) \in
            {k1, Forget(k1, p, sig), Unsleep(k1, p)}
      BY <2>4 DEF SignalStopped
    <3> QED BY <1>2, <1>6, <1>9, <2>1, <3>1 DEF Calm
  <2> QED BY <2>3, <2>4
<1> QED BY <1>3, <1>5, <1>8, <1>9

\* stop() of a sleeper.
LEMMA StopSleeperCalm ==
  ASSUME NEW k, NEW np \in BOOLEAN, NEW r \in All, NEW h \in BOOLEAN,
         NEW p \in Procs, Good(k, np, r, h), k.p_stat[p] = "SSLEEP",
         np \/ ~h
  PROVE  Calm(k, Stop(k, p))
<1> DEFINE st == "SSTOP"
           k1 == [k EXCEPT !.p_stat[p] = st]
           k2 == [k EXCEPT !.p_stat[p] = "SSTOP", !.swted = @ \ {p}]
           chan == ChanOf[k.p_pptr[p]]
<1>k. k \in Kern /\ p \in All
  BY DEF Good, All
<1>1. Stop(k, p) = Wakeup(k2, chan)
  BY DEF Stop
<1>2. k2 = [k1 EXCEPT !.swted = k1.swted \ {p}]
  BY <1>k DEF Kern
<1>3. /\ np \/ p # r
      /\ k.p_stat[p] \in {"SSLEEP", "SSTOP"} /\ st \in {"SSLEEP", "SSTOP"}
      /\ k.p_wchan[p] # NoChan
  BY <1>k DEF Good, Asleeps
<1>4. chan \in AllChan
  BY <1>k, KernTypes, ChanAssumption DEF AllChan
<1>5. Calm(k, k2)
  BY <1>k DEF Calm, Kern
<1> HIDE DEF st, k2, chan
<1>6. Good(k1, np, r, h)
  <2>1. p \in All
    BY <1>k
  <2>2. /\ Good([k EXCEPT !.p_stat[p] = st], np, r, h)
        /\ Evolves(k, [k EXCEPT !.p_stat[p] = st], np, r)
        /\ Others(k, [k EXCEPT !.p_stat[p] = st], p)
    BY <2>1, <1>3, StatGood
  <2> QED BY <2>2
<1> HIDE DEF k1
<1>7. k1 \in Kern
  BY <1>6 DEF Good
<1>8. k2 \in Kern /\ Same(k1, k2)
  <2>1. k1.swted \ {p} \in SUBSET All
    BY <1>7, KernTypes
  <2> QED BY <1>2, <1>7, <2>1 DEF Kern, Same
<1>9. Good(k2, np, r, h)
  BY <1>6, <1>8, SameGood
<1>10. Calm(k2, Wakeup(k2, chan))
  BY <1>4, <1>9, WakeupCalm
<1> QED BY <1>1, <1>5, <1>10 DEF Calm

\* psignal() of a stop signal to a sleeper, the psignal() of the parent
\* included.
LEMMA StopAsleepCalm ==
  ASSUME NEW k, NEW np \in BOOLEAN, NEW r \in All, NEW h \in BOOLEAN,
         NEW p \in Procs, NEW sig \in Sig, Good(k, np, r, h),
         k.p_stat[p] = "SSLEEP", k.p_pptr[p] # p, np \/ ~h
  PROVE  Calm(k, StopAsleep(k, p, sig))
<1> DEFINE parent == k.p_pptr[p]
           kill == PsignalPlain(k, p, SIGKILL)
           k1 == Forget(k, p, sig)
           k2 == [k1 EXCEPT !.p_cursig[p] = sig]
           k3 == PsignalPlain(k2, parent, SIGCHLD)
<1>k. k \in Kern /\ p \in All /\ parent \in All
  BY KernTypes DEF Good, All
<1>p. np \/ p # r
  BY DEF Good
<1>s. /\ SIGKILL \in Sig /\ SIGCHLD \in Sig
      /\ SIGCHLD \notin {SIGKILL, SIGCONT}
  BY DEF Sig, SIGKILL, SIGCHLD, SIGCONT
<1>0. StopAsleep(k, p, sig) \in
        {k, SignalRun(k, p), Forget(kill, p, sig), Stop(k3, p)}
  BY DEF StopAsleep
<1>1. Calm(k, k)
  BY DEF Calm
<1>2. Calm(k, SignalRun(k, p))
  <2>1. k.p_stat[p] \in {"SSLEEP", "SSTOP"}
    OBVIOUS
  <2> QED BY <1>k, <1>p, <2>1, SignalRunCalm
<1>3. Calm(k, Forget(kill, p, sig))
  <2>1. Good(kill, np, r, h) /\ Calm(k, kill)
    BY <1>k, <1>p, <1>s, PsignalPlainGood, PsignalPlainCalm
  <2> HIDE DEF kill
  <2>2. Calm(kill, Forget(kill, p, sig))
    BY <1>k, <2>1, PostCalm DEF Good
  <2> QED BY <2>1, <2>2 DEF Calm
<1>4. Calm(k, Stop(k3, p))
  <2>1. Good(k1, np, r, h) /\ Same(k, k1)
    BY <1>k, PostGood
  <2>a. Calm(k, k1)
    BY <1>k, PostCalm
  <2>2. k1 \in Kern
    BY <2>1 DEF Good
  <2> HIDE DEF k1
  <2>3. k2 \in Kern /\ Same(k1, k2) /\ Calm(k1, k2)
    BY <1>k, <2>2 DEF Kern, Same, Calm
  <2> HIDE DEF k2
  <2>4. Good(k2, np, r, h)
    BY <2>1, <2>3, SameGood
  <2>5. Good(k3, np, r, h) /\ Others(k2, k3, parent)
    BY <1>k, <1>s, <2>4, PsignalPlainGood
  <2>b. Calm(k2, k3)
    BY <1>k, <1>s, <2>4, PsignalPlainCalm
  <2>6. k3.p_stat[p] = "SSLEEP"
    BY <2>1, <2>3, <2>5 DEF Others, Same
  <2> HIDE DEF k3
  <2>7. Calm(k3, Stop(k3, p))
    BY <2>5, <2>6, StopSleeperCalm
  <2> QED BY <2>3, <2>7, <2>a, <2>b DEF Calm
<1> HIDE DEF k3, kill
<1> QED BY <1>0, <1>1, <1>2, <1>3, <1>4

\* psignal(), except where sleep() has called issig().
LEMMA PsignalCalm ==
  ASSUME NEW k, NEW np \in BOOLEAN, NEW r \in All, NEW h \in BOOLEAN,
         NEW p \in Procs, NEW sig \in Sig, Good(k, np, r, h),
         k.p_pptr[p] # p,
         np \/ p # r \/ sig \notin {SIGKILL, SIGCONT}
            \/ k.p_stat[p] # "SSTOP",
         np \/ ~h
  PROVE  Calm(k, Psignal(k, p, sig))
<1> DEFINE k1 == Post(k, p, sig)
<1>a. p \in All /\ k \in Kern
  BY DEF All, Good
<1>1. Good(k1, np, r, h) /\ Same(k, k1) /\ Calm(k, k1)
  BY <1>a, PostGood, PostCalm
<1>2. CASE sig \notin StopSig
  BY <1>2, <1>a, PsignalPlainCalm DEF Psignal
<1>3. CASE sig \in StopSig
  <2>1. Psignal(k, p, sig) =
          IF Ignores(k, p, sig) THEN k
          ELSE IF sig \in Held[p] THEN k1
          ELSE IF k.p_stat[p] = "SSLEEP" THEN StopAsleep(k1, p, sig)
          ELSE IF k.p_stat[p] = "SSTOP" THEN SignalStopped(k1, p, sig)
          ELSE k1
    BY <1>3 DEF Psignal
  <2> HIDE DEF k1
  <2>2. k1 \in Kern /\ k1.p_stat = k.p_stat /\ k1.p_pptr = k.p_pptr
    BY <1>1 DEF Same, Good
  <2>3. CASE Psignal(k, p, sig) \in {k, k1}
    BY <1>1, <2>3 DEF Calm
  <2>4. CASE k.p_stat[p] = "SSLEEP" /\
             Psignal(k, p, sig) = StopAsleep(k1, p, sig)
    <3>1. Calm(k1, StopAsleep(k1, p, sig))
      BY <1>1, <2>2, <2>4, StopAsleepCalm
    <3> QED BY <1>1, <2>4, <3>1 DEF Calm
  <2>5. CASE Psignal(k, p, sig) = SignalStopped(k1, p, sig)
    <3>1. SignalStopped(k1, p, sig) = Forget(k1, p, sig)
      BY <1>3 DEF SignalStopped, SIGKILL, SIGCONT, StopSig, SIGSTOP, SIGTSTP,
                  SIGTTIN
    <3>2. Calm(k1, Forget(k1, p, sig))
      BY <1>a, <2>2, PostCalm
    <3> QED BY <1>1, <2>5, <3>1, <3>2 DEF Calm
  <2> QED BY <2>1, <2>3, <2>4, <2>5
<1> QED BY <1>2, <1>3

\* remrq() of a process that is on the queue p_pri names.
LEMMA RemrqCalm ==
  ASSUME NEW k \in Kern, NEW p \in All, k.p_rlink[p] # NoQ, Bits(k)
  PROVE  Calm(k, Remrq(k, p))
<1>1. k.p_pri[p] \in k.whichqs
  BY KernTypes DEF Bits
<1> QED BY <1>1 DEF Remrq, Calm, Kern

-----------------------------------------------------------------------------
(***************************************************************************)
(* What the primitives leave of what wait1() reports.                      *)
(***************************************************************************)

\* Stopped, and not reported since: what wait1() looks for in a child.
Halted(k, x) == k.p_stat[x] = "SSTOP" /\ x \notin k.swted

\* Between k and k2 processes are made runnable or put to sleep and taken off
\* sleep queues at most: nobody stops, exits, is reaped or changes parents.
Rouses(k, k2) ==
  /\ k2 \in Kern
  /\ k2.p_pptr = k.p_pptr /\ k.swted \subseteq k2.swted
  /\ k2.panicstr = "" => k.panicstr = ""
  /\ \A x \in Procs :
       /\ k2.p_wchan[x] \in {k.p_wchan[x], NoChan}
       /\ \/ k2.p_stat[x] = k.p_stat[x]
          \/ /\ k2.p_stat[x] \in {"SRUN", "SSLEEP"}
             /\ k.p_stat[x] \notin {"free", "SZOMB"}

\* The parent of x does not sleep on its own address, where wait1() sleeps.
Up(k, x) == k.p_wchan[k.p_pptr[x]] # ChanOf[k.p_pptr[x]]

\* Between k and k2 processes may also stop, but then, unless the kernel has
\* panicked, their parents are not asleep in wait1().
Notifies(k, k2) ==
  /\ k2 \in Kern
  /\ k2.p_pptr = k.p_pptr
  /\ k2.panicstr = "" => k.panicstr = ""
  /\ \A x \in Procs :
       /\ k2.p_wchan[x] \in {k.p_wchan[x], NoChan}
       /\ \A st \in {"free", "SZOMB"} : k2.p_stat[x] = st <=> k.p_stat[x] = st
       /\ k2.panicstr = "" /\ Halted(k2, x) /\ k.p_pptr[x] \in Procs =>
            Halted(k, x) \/ Up(k2, x)

\* A primitive that does nothing.
LEMMA RousesRefl ==
  ASSUME NEW k \in Kern
  PROVE  Rouses(k, k)
BY DEF Rouses

\* Such primitives compose.
LEMMA RousesTrans ==
  ASSUME NEW k, NEW k1, NEW k2, Rouses(k, k1), Rouses(k1, k2)
  PROVE  Rouses(k, k2)
BY DEF Rouses

\* Whoever was not stopped, or was reported, stays so.
LEMMA RousesNotifies ==
  ASSUME NEW k, NEW k2, Rouses(k, k2)
  PROVE  /\ Notifies(k, k2)
         /\ \A x \in Procs : Halted(k2, x) => Halted(k, x)
BY DEF Rouses, Notifies, Halted

\* A parent that is off its queue stays off it.
LEMMA NotifiesTrans ==
  ASSUME NEW k, NEW k1, NEW k2, Notifies(k, k1), Notifies(k1, k2)
  PROVE  Notifies(k, k2)
<1>1. \A p \in Procs : ChanOf[p] # NoChan
  BY ChanAssumption DEF All, AllChan
<1>2. ASSUME NEW x \in Procs, k2.panicstr = "", Halted(k2, x),
             k.p_pptr[x] \in Procs, ~Halted(k, x)
      PROVE  Up(k2, x)
  <2>1. CASE Halted(k1, x)
    <3>1. Up(k1, x)
      BY <1>2, <2>1 DEF Notifies
    <3> QED BY <1>1, <1>2, <3>1 DEF Notifies, Up
  <2>2. CASE ~Halted(k1, x)
    BY <1>2, <2>2 DEF Notifies
  <2> QED BY <2>1, <2>2
<1> QED BY <1>2 DEF Notifies

\* Data that agree in what the two predicates look at.
LEMMA RousesSame ==
  ASSUME NEW k \in Kern, NEW k2 \in Kern,
         k2.p_pptr = k.p_pptr, k2.p_stat = k.p_stat,
         k2.p_wchan = k.p_wchan, k2.swted = k.swted,
         k2.panicstr = "" => k.panicstr = ""
  PROVE  Rouses(k, k2)
BY DEF Rouses

\* A panic.
LEMMA PanicRouses ==
  ASSUME NEW k \in Kern, NEW why \in Why \ {""}
  PROVE  Rouses(k, Panic(k, why))
<1>1. Panic(k, why) \in Kern
  BY PanicSame DEF Why
<1>2. Panic(k, why).panicstr # ""
  BY PanicBland
<1> QED BY <1>1, <1>2 DEF Rouses, Panic, Kern

\* setrq().
LEMMA SetrqRouses ==
  ASSUME NEW k \in Kern, NEW p \in All
  PROVE  Rouses(k, Setrq(k, p))
<1>1. CASE k.p_rlink[p] # NoQ
  BY <1>1, PanicRouses DEF Setrq, Why
<1>2. CASE k.p_rlink[p] = NoQ
  <2> DEFINE k2 == Setrq(k, p)
  <2>1. k2 \in Kern
    BY SetrqBland DEF Bland, Mute
  <2>2. /\ k2.p_pptr = k.p_pptr /\ k2.p_stat = k.p_stat
        /\ k2.p_wchan = k.p_wchan /\ k2.swted = k.swted
        /\ k2.panicstr = k.panicstr
    BY <1>2 DEF Setrq, Kern
  <2> HIDE DEF k2
  <2>3. Rouses(k, k2)
    BY <2>1, <2>2, RousesSame
  <2> QED BY <2>3 DEF k2
<1> QED BY <1>1, <1>2

\* remrq().
LEMMA RemrqRouses ==
  ASSUME NEW k \in Kern, NEW p \in All
  PROVE  Rouses(k, Remrq(k, p))
<1> DEFINE q == IF OnQueue(k, k.p_rlink[p]) \subseteq {p}
                THEN k.whichqs \ {k.p_pri[p]} ELSE k.whichqs
           k2 == [k EXCEPT !.p_rlink[p] = NoQ, !.whichqs = q]
<1>1. Remrq(k, p) = Panic(k, "remrq") \/ Remrq(k, p) = k2
  BY DEF Remrq
<1>2. q \in SUBSET Pri
  BY KernTypes
<1> HIDE DEF q
<1>3. /\ k2 \in Kern /\ k2.p_pptr = k.p_pptr /\ k2.p_stat = k.p_stat
      /\ k2.p_wchan = k.p_wchan /\ k2.swted = k.swted
      /\ k2.panicstr = k.panicstr
  BY <1>2 DEF Kern
<1> HIDE DEF k2
<1> QED BY <1>1, <1>3, RousesSame, PanicRouses DEF Why

\* unsleep().
LEMMA UnsleepRouses ==
  ASSUME NEW k \in Kern, NEW p \in All
  PROVE  Rouses(k, Unsleep(k, p))
<1> DEFINE k2 == Unsleep(k, p)
<1>1. k2 \in Kern
  BY UnsleepBland DEF Bland, Mute
<1>2. /\ k2.p_pptr = k.p_pptr /\ k2.p_stat = k.p_stat
      /\ k2.swted = k.swted /\ k2.panicstr = k.panicstr
      /\ k2.p_wchan = [k.p_wchan EXCEPT ![p] = NoChan]
  BY DEF Unsleep, Kern
<1> HIDE DEF k2
<1>3. \A x \in All : k2.p_wchan[x] = IF x = p THEN NoChan ELSE k.p_wchan[x]
  BY <1>2, KernTypes
<1> QED BY <1>1, <1>2, <1>3 DEF Rouses, All, k2

\* A process that is neither a zombie nor a free slot runs or sleeps.
LEMMA StatRouses ==
  ASSUME NEW k \in Kern, NEW p \in All, NEW st \in {"SRUN", "SSLEEP"},
         k.p_stat[p] \notin {"free", "SZOMB"},
         NEW k2, k2 = [k EXCEPT !.p_stat[p] = st]
  PROVE  Rouses(k, k2)
<1>1. /\ k2 \in Kern /\ k2.p_pptr = k.p_pptr /\ k2.p_wchan = k.p_wchan
      /\ k2.swted = k.swted /\ k2.panicstr = k.panicstr
      /\ k2.p_stat = [k.p_stat EXCEPT ![p] = st]
  BY DEF Kern, Stat
<1>2. \A x \in All : k2.p_stat[x] = IF x = p THEN st ELSE k.p_stat[x]
  BY <1>1, KernTypes
<1> QED BY <1>1, <1>2 DEF Rouses, All

\* The sleepers of a channel are taken off it.
LEMMA WakeSleepersRouses ==
  ASSUME NEW k \in Kern, NEW chan \in AllChan, NEW k2,
         k2 = WakeSleepers(k, chan)
  PROVE  /\ Rouses(k, k2)
         /\ k2.panicstr = "" => \A x \in All : k2.p_wchan[x] # chan
<1>1. Woke(k, k2, chan)
  BY WakeSleepersMute
<1>2. CASE k2 = Panic(k, "wakeup")
  BY <1>2, PanicRouses, PanicBland DEF Why
<1>3. CASE k2 # Panic(k, "wakeup")
  <2> DEFINE w == [p \in All |-> IF k.p_wchan[p] = chan
                                 THEN NoChan ELSE k.p_wchan[p]]
             s == [p \in All |-> IF p \in {q \in Sleepers(k, chan) :
                                             k.p_stat[q] = "SSLEEP"}
                                 THEN "SRUN" ELSE k.p_stat[p]]
             l == [p \in All |-> IF p \in {q \in Sleepers(k, chan) :
                                    k.p_stat[q] = "SSLEEP"} \cap k.sload
                                 THEN k.p_pri[p] ELSE k.p_rlink[p]]
             q == k.whichqs \cup {k.p_pri[p] : p \in
                    {r \in Sleepers(k, chan) : k.p_stat[r] = "SSLEEP"}
                    \cap k.sload}
  <2>1. k2 = [k EXCEPT !.p_wchan = w, !.p_stat = s, !.p_rlink = l,
                       !.whichqs = q]
    BY <1>3 DEF WakeSleepers
  <2>2. \A x \in All : w[x] = IF k.p_wchan[x] = chan THEN NoChan
                              ELSE k.p_wchan[x]
    OBVIOUS
  <2> HIDE DEF w, s, l, q
  <2>3. k2.p_wchan = w /\ k2.swted = k.swted /\ k2.panicstr = k.panicstr
    BY <2>1 DEF Kern
  <2>4. chan # NoChan
    BY ChanAssumption
  <2>5. Rouses(k, k2)
    BY <1>1, <2>2, <2>3 DEF Rouses, Woke, Mute, All
  <2> QED BY <2>2, <2>3, <2>4, <2>5
<1> QED BY <1>2, <1>3

\* The swapper is woken.
LEMMA WantInRouses ==
  ASSUME NEW k \in Kern, NEW k2, k2 = WantIn(k)
  PROVE  Rouses(k, k2)
<1> DEFINE k0 == [k EXCEPT !.runout = FALSE]
           kw == WakeSleepers(k0, RUNOUT)
           k1 == IF k.runout THEN kw ELSE k
<1>1. RUNOUT \in AllChan
  BY DEF AllChan, SwapChan
<1>2. k2 = [k1 EXCEPT !.wantin = TRUE]
  BY DEF WantIn
<1>3. k0 \in Kern /\ Rouses(k, k0)
  <2>1. k0 \in Kern /\ k0.p_pptr = k.p_pptr /\ k0.p_stat = k.p_stat
        /\ k0.p_wchan = k.p_wchan /\ k0.swted = k.swted
        /\ k0.panicstr = k.panicstr
    BY DEF Kern
  <2> HIDE DEF k0
  <2> QED BY <2>1, RousesSame
<1> HIDE DEF k0
<1>4. Rouses(k0, kw)
  BY <1>1, <1>3, WakeSleepersRouses
<1> HIDE DEF kw
<1>5. Rouses(k, k1)
  BY <1>3, <1>4, RousesTrans, RousesRefl
<1> HIDE DEF k1
<1>6. k1 \in Kern
  BY <1>5 DEF Rouses
<1>7. k2 \in Kern /\ k2.p_pptr = k1.p_pptr /\ k2.p_stat = k1.p_stat
      /\ k2.p_wchan = k1.p_wchan /\ k2.swted = k1.swted
      /\ k2.panicstr = k1.panicstr
  BY <1>2, <1>6 DEF Kern
<1>8. Rouses(k1, k2)
  BY <1>6, <1>7, RousesSame
<1> QED BY <1>5, <1>8, RousesTrans

\* After wakeup(chan) nobody sleeps on chan.
LEMMA WakeupRouses ==
  ASSUME NEW k \in Kern, NEW chan \in AllChan, NEW k2, k2 = Wakeup(k, chan)
  PROVE  /\ Rouses(k, k2)
         /\ k2.panicstr = "" => \A x \in Procs : k2.p_wchan[x] # chan
<1> DEFINE k1 == WakeSleepers(k, chan)
           k3 == WantIn(k1)
<1>1. /\ Rouses(k, k1)
      /\ k1.panicstr = "" => \A x \in All : k1.p_wchan[x] # chan
  BY WakeSleepersRouses
<1>2. k2 = k1 \/ k2 = k3
  BY DEF Wakeup
<1> HIDE DEF k1
<1>0. k1 \in Kern
  BY <1>1 DEF Rouses
<1>3. Rouses(k1, k3)
  BY <1>0, WantInRouses
<1> HIDE DEF k3
<1>4. chan # NoChan
  BY ChanAssumption
<1>5. CASE k2 = k1
  BY <1>1, <1>5 DEF All
<1>6. CASE k2 = k3
  <2>1. Rouses(k, k2)
    BY <1>1, <1>3, <1>6, RousesTrans
  <2> QED BY <1>1, <1>3, <1>4, <1>6, <2>1 DEF Rouses, All
<1> QED BY <1>2, <1>5, <1>6

\* setrun().
LEMMA SetrunRouses ==
  ASSUME NEW k \in Kern, NEW p \in All, NEW k2, k2 = Setrun(k, p)
  PROVE  Rouses(k, k2)
<1> DEFINE ku == Unsleep(k, p)
           k1 == [ku EXCEPT !.p_stat[p] = "SRUN"]
<1>1. CASE k.p_stat[p] \notin {"SSLEEP", "SSTOP", "SIDL"}
  BY <1>1, PanicRouses DEF Setrun, Why
<1>2. CASE k.p_stat[p] \in {"SSLEEP", "SSTOP", "SIDL"}
  <2>1. k2 = Setrq(k1, p) \/ k2 = WantIn(k1)
    BY <1>2 DEF Setrun
  <2>2. Rouses(k, ku) /\ ku.p_stat = k.p_stat
    BY UnsleepRouses, UnsleepBland
  <2> HIDE DEF ku
  <2>3. ku \in Kern /\ ku.p_stat[p] \notin {"free", "SZOMB"}
    BY <1>2, <2>2 DEF Rouses
  <2>4. Rouses(ku, k1)
    BY <2>3, StatRouses
  <2> HIDE DEF k1
  <2>5. k1 \in Kern
    BY <2>4 DEF Rouses
  <2>a. Rouses(k1, Setrq(k1, p))
    BY <2>5, SetrqRouses
  <2>b. Rouses(k1, WantIn(k1))
    BY <2>5, WantInRouses
  <2>6. Rouses(k1, k2)
    BY <2>1, <2>a, <2>b
  <2>7. Rouses(k, k1)
    BY <2>2, <2>4, RousesTrans
  <2> QED BY <2>6, <2>7, RousesTrans
<1> QED BY <1>1, <1>2

\* A change of priority.
LEMMA PriRouses ==
  ASSUME NEW k \in Kern, NEW p \in All, NEW pri \in Pri, NEW k2,
         k2 = [k EXCEPT !.p_pri[p] = pri]
  PROVE  Rouses(k, k2)
<1>1. /\ k2 \in Kern /\ k2.p_pptr = k.p_pptr /\ k2.p_stat = k.p_stat
      /\ k2.p_wchan = k.p_wchan /\ k2.swted = k.swted
      /\ k2.panicstr = k.panicstr
  BY DEF Kern
<1> QED BY <1>1, RousesSame

\* psignal() at its label run.
LEMMA SignalRunRouses ==
  ASSUME NEW k \in Kern, NEW p \in All, NEW k2, k2 = SignalRun(k, p)
  PROVE  Rouses(k, k2)
<1> DEFINE pri == IF k.p_pri[p] > PUSER THEN PUSER ELSE k.p_pri[p]
           k1 == [k EXCEPT !.p_pri[p] = pri]
<1>1. pri \in Pri
  BY KernTypes DEF Pri
<1>2. k2 = Setrun(k1, p)
  BY DEF SignalRun
<1> HIDE DEF pri
<1>3. Rouses(k, k1)
  BY <1>1, PriRouses
<1> HIDE DEF k1
<1>a. k1 \in Kern
  BY <1>3 DEF Rouses
<1>4. Rouses(k1, k2)
  BY <1>2, <1>a, SetrunRouses
<1> QED BY <1>3, <1>4, RousesTrans

\* Signals posted and forgotten.
LEMMA SigRouses ==
  ASSUME NEW k \in Kern, NEW p \in All, NEW sig \in Sig, NEW k2,
         k2 = Post(k, p, sig) \/ k2 = Forget(k, p, sig)
  PROVE  Rouses(k, k2) /\ k2.p_stat = k.p_stat
<1>1. k2 \in Kern
  BY PostFacts, ForgetFacts
<1>2. k2.swted = k.swted /\ k2.p_pptr = k.p_pptr /\ k2.p_stat = k.p_stat
      /\ k2.p_wchan = k.p_wchan /\ k2.panicstr = k.panicstr
  BY DEF Post, Forget, Kern
<1> QED BY <1>1, <1>2, RousesSame

\* The SSTOP case of psignal().
LEMMA SignalStoppedRouses ==
  ASSUME NEW k \in Kern, NEW p \in All, NEW sig \in Sig,
         k.p_stat[p] = "SSTOP", NEW k2, k2 = SignalStopped(k, p, sig)
  PROVE  Rouses(k, k2)
<1> DEFINE k1 == [k EXCEPT !.p_stat[p] = "SSLEEP"]
<1>1. k2 \in {k, k1, SignalRun(k, p), Forget(k, p, sig), Unsleep(k, p)}
  BY DEF SignalStopped
<1>2. Rouses(k, k1)
  BY StatRouses
<1> HIDE DEF k1
<1> QED BY <1>1, <1>2, RousesRefl, SignalRunRouses, SigRouses, UnsleepRouses

\* psignal() of a signal that does not stop.
LEMMA PsignalPlainRouses ==
  ASSUME NEW k \in Kern, NEW p \in All, NEW sig \in Sig, NEW k2,
         k2 = PsignalPlain(k, p, sig)
  PROVE  Rouses(k, k2)
<1> DEFINE k1 == Post(k, p, sig)
<1>1. Rouses(k, k1) /\ k1.p_stat = k.p_stat
  BY SigRouses
<1>2. \/ k2 = k \/ k2 = k1
      \/ k2 = SignalAsleep(k1, p, sig)
      \/ k.p_stat[p] = "SSTOP" /\ k2 = SignalStopped(k1, p, sig)
  BY DEF PsignalPlain
<1> HIDE DEF k1
<1>3. k1 \in Kern
  BY <1>1 DEF Rouses
<1>4. CASE k2 = k
  BY <1>4, RousesRefl
<1>5. CASE k2 = k1
  BY <1>1, <1>5
<1>6. CASE k2 = SignalAsleep(k1, p, sig)
  <2>1. k2 \in {k1, Forget(k1, p, sig), SignalRun(k1, p)}
    BY <1>6 DEF SignalAsleep
  <2>2. Rouses(k1, k2)
    BY <1>3, <2>1, RousesRefl, SigRouses, SignalRunRouses
  <2> QED BY <1>1, <2>2, RousesTrans
<1>7. CASE k.p_stat[p] = "SSTOP" /\ k2 = SignalStopped(k1, p, sig)
  <2>1. k1.p_stat[p] = "SSTOP"
    BY <1>1, <1>7
  <2>2. Rouses(k1, k2)
    BY <1>3, <1>7, <2>1, SignalStoppedRouses
  <2> QED BY <1>1, <2>2, RousesTrans
<1> QED BY <1>2, <1>4, <1>5, <1>6, <1>7

\* stop() notifies the parent.
LEMMA StopNotifies ==
  ASSUME NEW k \in Kern, NEW p \in Procs, k.p_stat[p] \notin {"free", "SZOMB"},
         NEW k2, k2 = Stop(k, p)
  PROVE  Notifies(k, k2)
<1> DEFINE k1 == [k EXCEPT !.p_stat[p] = "SSTOP", !.swted = @ \ {p}]
           chan == ChanOf[k.p_pptr[p]]
<1>1. k2 = Wakeup(k1, chan)
  BY DEF Stop
<1>2. p \in All /\ k.p_pptr[p] \in All /\ chan \in AllChan
  BY KernTypes, ChanAssumption DEF All, AllChan
<1>3. /\ k1 \in Kern /\ k1.p_pptr = k.p_pptr /\ k1.p_wchan = k.p_wchan
      /\ k1.swted = k.swted \ {p} /\ k1.panicstr = k.panicstr
      /\ k1.p_stat = [k.p_stat EXCEPT ![p] = "SSTOP"]
  BY <1>2 DEF Kern, Stat
<1>4. \A x \in All : k1.p_stat[x] = IF x = p THEN "SSTOP" ELSE k.p_stat[x]
  BY <1>3, KernTypes
<1> HIDE DEF k1
<1>b. chan \in AllChan
  BY <1>2
<1> HIDE DEF chan
<1>c. k1 \in Kern
  BY <1>3
<1>5. /\ Rouses(k1, k2)
      /\ k2.panicstr = "" => \A x \in Procs : k2.p_wchan[x] # chan
  BY <1>1, <1>b, <1>c, WakeupRouses
<1>6. ASSUME NEW x \in Procs, k2.panicstr = "", Halted(k2, x),
             k.p_pptr[x] \in Procs, ~Halted(k, x)
      PROVE  Up(k2, x)
  <2>1. Halted(k1, x)
    BY <1>5, <1>6, RousesNotifies
  <2>2. x = p
    BY <1>3, <1>4, <1>6, <2>1 DEF Halted, All
  <2>3. k2.p_pptr = k.p_pptr
    BY <1>3, <1>5 DEF Rouses
  <2> QED BY <1>5, <1>6, <2>2, <2>3 DEF Up, chan
<1> QED BY <1>3, <1>4, <1>5, <1>6 DEF Notifies, Rouses, All

\* psignal() of a stop signal to a sleeper.
LEMMA StopAsleepNotifies ==
  ASSUME NEW k \in Kern, NEW p \in Procs, NEW sig \in StopSig,
         k.p_stat[p] = "SSLEEP", k.p_pptr[p] # p,
         NEW k2, k2 = StopAsleep(k, p, sig)
  PROVE  Notifies(k, k2)
<1> DEFINE parent == k.p_pptr[p]
           kill == PsignalPlain(k, p, SIGKILL)
           k1 == Forget(k, p, sig)
           k3 == [k1 EXCEPT !.p_cursig[p] = sig]
           k4 == PsignalPlain(k3, parent, SIGCHLD)
<1>a. /\ p \in All /\ parent \in All /\ sig \in Sig
      /\ SIGKILL \in Sig /\ SIGCHLD \in Sig
  BY KernTypes DEF All, Sig, StopSig, SIGKILL, SIGCHLD, SIGSTOP,
     SIGTSTP, SIGTTIN
<1>0. \/ k2 = k \/ k2 = SignalRun(k, p)
      \/ k2 = Forget(kill, p, sig)
      \/ k2 = Stop(k4, p)
  BY DEF StopAsleep
<1>1. CASE k2 = k \/ k2 = SignalRun(k, p)
  <2>1. Rouses(k, k2)
    BY <1>1, <1>a, RousesRefl, SignalRunRouses
  <2> QED BY <2>1, RousesNotifies
<1>2. CASE k2 = Forget(kill, p, sig)
  <2>1. Rouses(k, kill)
    BY <1>a, PsignalPlainRouses
  <2> HIDE DEF kill
  <2>a. kill \in Kern
    BY <2>1 DEF Rouses
  <2>2. Rouses(kill, k2)
    BY <1>2, <1>a, <2>a, SigRouses
  <2>3. Rouses(k, k2)
    BY <2>1, <2>2, RousesTrans
  <2> QED BY <2>3, RousesNotifies
<1>3. CASE k2 = Stop(k4, p)
  <2>1. Rouses(k, k1) /\ k1.p_stat = k.p_stat
    BY <1>a, SigRouses
  <2> HIDE DEF k1, parent
  <2>2. k1 \in Kern
    BY <2>1 DEF Rouses
  <2>3. /\ k3 \in Kern /\ k3.p_pptr = k1.p_pptr /\ k3.p_stat = k1.p_stat
        /\ k3.p_wchan = k1.p_wchan /\ k3.swted = k1.swted
        /\ k3.panicstr = k1.panicstr
    BY <1>a, <2>2 DEF Kern
  <2> HIDE DEF k3
  <2>4. Rouses(k1, k3)
    BY <2>2, <2>3, RousesSame
  <2>5. Rouses(k3, k4)
    BY <1>a, <2>3, PsignalPlainRouses
  <2> HIDE DEF k4
  <2>6. Rouses(k, k3)
    BY <2>1, <2>4, RousesTrans
  <2>7. Rouses(k, k4)
    BY <2>5, <2>6, RousesTrans
  <2>8. k4 \in Kern /\ k4.p_stat[p] \notin {"free", "SZOMB"}
    BY <2>7 DEF Rouses
  <2>9. Notifies(k4, k2)
    BY <1>3, <2>8, StopNotifies
  <2> QED BY <2>7, <2>9, RousesNotifies, NotifiesTrans
<1> QED BY <1>0, <1>1, <1>2, <1>3

\* psignal() of any signal to a process; of one that does not stop.
LEMMA PsignalNotifies ==
  ASSUME NEW k \in Kern, NEW p \in Procs, NEW sig \in Sig,
         k.p_pptr[p] # p, NEW k2, k2 = Psignal(k, p, sig)
  PROVE  /\ Notifies(k, k2)
         /\ sig \notin StopSig => Rouses(k, k2)
<1> DEFINE k1 == Post(k, p, sig)
<1>a. p \in All
  BY DEF All
<1>1. CASE sig \notin StopSig
  <2>1. k2 = PsignalPlain(k, p, sig)
    BY <1>1 DEF Psignal
  <2>2. Rouses(k, k2)
    BY <1>a, <2>1, PsignalPlainRouses
  <2> QED BY <2>2, RousesNotifies
<1>2. CASE sig \in StopSig
  <2>1. \/ k2 = k \/ k2 = k1
        \/ k.p_stat[p] = "SSLEEP" /\ k2 = StopAsleep(k1, p, sig)
        \/ k.p_stat[p] = "SSTOP" /\ k2 = SignalStopped(k1, p, sig)
    BY <1>2 DEF Psignal
  <2>2. Rouses(k, k1) /\ k1.p_stat = k.p_stat
    BY <1>a, SigRouses
  <2> HIDE DEF k1
  <2>3. k1 \in Kern /\ k1.p_pptr[p] # p /\ Notifies(k, k1)
    BY <2>2, RousesNotifies DEF Rouses
  <2>4. CASE k2 = k
    BY <2>4, RousesRefl, RousesNotifies, <1>2
  <2>5. CASE k2 = k1
    BY <1>2, <2>3, <2>5
  <2>6. CASE k.p_stat[p] = "SSLEEP" /\ k2 = StopAsleep(k1, p, sig)
    <3>1. k1.p_stat[p] = "SSLEEP"
      BY <2>2, <2>6
    <3>2. Notifies(k1, k2)
      BY <1>2, <2>3, <2>6, <3>1, StopAsleepNotifies
    <3> QED BY <1>2, <2>3, <3>2, NotifiesTrans
  <2>7. CASE k.p_stat[p] = "SSTOP" /\ k2 = SignalStopped(k1, p, sig)
    <3>1. k1.p_stat[p] = "SSTOP"
      BY <2>2, <2>7
    <3>2. Rouses(k1, k2)
      BY <1>a, <2>3, <2>7, <3>1, SignalStoppedRouses
    <3>3. Notifies(k1, k2)
      BY <3>2, RousesNotifies
    <3> QED BY <1>2, <2>3, <3>3, NotifiesTrans
  <2> QED BY <2>1, <2>4, <2>5, <2>6, <2>7
<1> QED BY <1>1, <1>2

\* Between k and k2, a process that runs keeps its SIGCHLD, and unless none of
\* its children stops it is not init and gets one, if it does not ignore them.
Tells(k, k2) ==
  \A x \in Procs : k.p_stat[x] = "SRUN" =>
    /\ SIGCHLD \in k.p_sig[x] => SIGCHLD \in k2.p_sig[x]
    /\ \/ \A y \in Procs : k.p_pptr[y] = x /\ Halted(k2, y) => Halted(k, y)
       \/ x # InitProc /\ (SIGCHLD \notin Ignored[x] => SIGCHLD \in k2.p_sig[x])

\* What makes processes run at most, and leaves their SIGCHLD.
LEMMA RousesTells ==
  ASSUME NEW k, NEW k2, Rouses(k, k2),
         \A x \in Procs : k.p_stat[x] = "SRUN" /\ SIGCHLD \in k.p_sig[x] =>
                            SIGCHLD \in k2.p_sig[x]
  PROVE  Tells(k, k2)
BY RousesNotifies DEF Tells

\* A primitive that leaves the signals alone.
LEMMA BlandTells ==
  ASSUME NEW k, NEW k2, Rouses(k, k2), Bland(k, k2)
  PROVE  Tells(k, k2)
BY RousesTells DEF Bland, Mute

\* psignal() of a signal that does not stop concerns one process, and reaches
\* it if it runs.
LEMMA PsignalPlainReaches ==
  ASSUME NEW k \in Kern, NEW p \in All, NEW sig \in Sig \ StopSig, NEW k2,
         k2 = PsignalPlain(k, p, sig)
  PROVE  /\ \A x \in All \ {p} : k2.p_sig[x] = k.p_sig[x]
         /\ k.p_stat[p] = "SRUN" =>
              /\ SIGCHLD \in k.p_sig[p] => SIGCHLD \in k2.p_sig[p]
              /\ sig \notin Ignored[p] => sig \in k2.p_sig[p]
<1> DEFINE k1 == Post(k, p, sig)
           k3 == [k1 EXCEPT !.p_stat[p] = "SSLEEP"]
<1>1. /\ k1 \in Kern /\ \A x \in All \ {p} : k1.p_sig[x] = k.p_sig[x]
      /\ sig = SIGCONT =>
           k1.p_sig[p] = (k.p_sig[p] \ StopSig) \cup {SIGCONT}
      /\ sig # SIGCONT => k1.p_sig[p] = k.p_sig[p] \cup {sig}
  BY PostFacts
<1>2. SIGCHLD \notin StopSig
  BY DEF StopSig, SIGCHLD, SIGSTOP, SIGTSTP, SIGTTIN
<1>3. k.p_stat[p] = "SRUN" => k2 = IF sig \in Ignored[p] THEN k ELSE k1
  BY DEF PsignalPlain, Ignores
<1>4. k2 \in {k, k1, Forget(k1, p, sig), SignalRun(k1, p), k3, Unsleep(k1, p)}
  BY DEF PsignalPlain, SignalAsleep, SignalStopped
<1> HIDE DEF k1
<1>5. k3.p_sig = k1.p_sig
  BY <1>1 DEF Kern
<1> HIDE DEF k3
<1>6. /\ \A x \in All \ {p} : Forget(k1, p, sig).p_sig[x] = k1.p_sig[x]
      /\ Unsleep(k1, p).p_sig = k1.p_sig /\ SignalRun(k1, p).p_sig = k1.p_sig
  BY <1>1, ForgetFacts, UnsleepBland, SignalRunBland DEF Bland, Mute
<1>7. \A x \in All \ {p} : k2.p_sig[x] = k.p_sig[x]
  BY <1>1, <1>4, <1>5, <1>6
<1> QED BY <1>1, <1>2, <1>3, <1>7

\* stop() stops nobody else, and sends nothing itself.
LEMMA StopHalts ==
  ASSUME NEW k \in Kern, NEW p \in Procs, NEW k2, k2 = Stop(k, p)
  PROVE  /\ k2.p_sig = k.p_sig
         /\ \A x \in Procs \ {p} : Halted(k2, x) => Halted(k, x)
<1> DEFINE k1 == [k EXCEPT !.p_stat[p] = "SSTOP", !.swted = @ \ {p}]
           chan == ChanOf[k.p_pptr[p]]
<1>1. k2 = Wakeup(k1, chan)
  BY DEF Stop
<1>2. p \in All /\ k.p_pptr[p] \in All /\ chan \in AllChan
  BY KernTypes, ChanAssumption DEF All, AllChan
<1>3. /\ k1 \in Kern /\ k1.swted = k.swted \ {p}
      /\ k1.p_stat = [k.p_stat EXCEPT ![p] = "SSTOP"]
  BY <1>2 DEF Kern, Stat
<1>4. \A x \in All \ {p} : k1.p_stat[x] = k.p_stat[x]
  BY <1>3, KernTypes
<1> HIDE DEF k1
<1>b. chan \in AllChan
  BY <1>2
<1> HIDE DEF chan
<1>5. Rouses(k1, k2)
  BY <1>1, <1>3, <1>b, WakeupRouses
<1>6. k2.p_sig = k.p_sig
  BY StopTidy
<1>7. ASSUME NEW x \in Procs \ {p}, Halted(k2, x)
      PROVE  Halted(k, x)
  <2>1. Halted(k1, x)
    BY <1>5, <1>7, RousesNotifies
  <2> QED BY <1>3, <1>4, <2>1 DEF Halted, All
<1> QED BY <1>6, <1>7

\* psignal() of a stop signal from the keyboard to a sleeper, whose parent is
\* told if it stops, and is not init then.
LEMMA StopAsleepTells ==
  ASSUME NEW k \in Kern, NEW p \in Procs, NEW sig \in StopSig,
         sig # SIGSTOP, k.p_stat[p] = "SSLEEP",
         NEW k2, k2 = StopAsleep(k, p, sig)
  PROVE  Tells(k, k2)
<1> DEFINE parent == k.p_pptr[p]
           kill == PsignalPlain(k, p, SIGKILL)
           k1 == Forget(k, p, sig)
           k3 == [k1 EXCEPT !.p_cursig[p] = sig]
           k4 == PsignalPlain(k3, parent, SIGCHLD)
<1>a. /\ p \in All /\ parent \in All /\ sig \in Sig
      /\ SIGKILL \in Sig \ StopSig /\ SIGCHLD \in Sig \ StopSig
  BY KernTypes DEF All, Sig, StopSig, SIGKILL, SIGCHLD, SIGSTOP,
     SIGTSTP, SIGTTIN
<1>0. \/ k2 = k \/ k2 = SignalRun(k, p)
      \/ k2 = Forget(kill, p, sig)
      \/ k2 = Stop(k4, p) /\ parent # InitProc
  BY DEF StopAsleep
<1>1. CASE k2 = k \/ k2 = SignalRun(k, p)
  <2>1. Rouses(k, k2) /\ Bland(k, k2)
    BY <1>1, <1>a, RousesRefl, SignalRunRouses, BlandRefl, SignalRunBland
  <2> QED BY <2>1, BlandTells
<1>2. CASE k2 = Forget(kill, p, sig)
  <2>1. Rouses(k, kill) /\ \A x \in All \ {p} : kill.p_sig[x] = k.p_sig[x]
    BY <1>a, PsignalPlainRouses, PsignalPlainReaches
  <2> HIDE DEF kill
  <2>2. kill \in Kern
    BY <2>1 DEF Rouses
  <2>3. Rouses(kill, k2)
    BY <1>2, <1>a, <2>2, SigRouses
  <2>4. \A x \in All \ {p} : k2.p_sig[x] = kill.p_sig[x]
    <3>1. p \in All /\ sig \in Sig
      BY <1>a
    <3> QED BY <1>2, <2>2, <3>1, ForgetFacts
  <2>5. Rouses(k, k2)
    BY <2>1, <2>3, RousesTrans
  <2> QED BY <2>1, <2>4, <2>5, RousesTells DEF All
<1>3. CASE k2 = Stop(k4, p) /\ parent # InitProc
  <2>1. /\ Rouses(k, k1) /\ k1.p_stat = k.p_stat
        /\ \A x \in All \ {p} : k1.p_sig[x] = k.p_sig[x]
    BY <1>a, SigRouses, ForgetFacts
  <2>b. parent = k.p_pptr[p]
    OBVIOUS
  <2> HIDE DEF k1, parent
  <2>2. k1 \in Kern
    BY <2>1 DEF Rouses
  <2>3. /\ k3 \in Kern /\ k3.p_pptr = k1.p_pptr /\ k3.p_stat = k1.p_stat
        /\ k3.p_wchan = k1.p_wchan /\ k3.swted = k1.swted
        /\ k3.panicstr = k1.panicstr /\ k3.p_sig = k1.p_sig
    BY <1>a, <2>2 DEF Kern
  <2> HIDE DEF k3
  <2>4. Rouses(k1, k3)
    BY <2>2, <2>3, RousesSame
  <2>5. /\ Rouses(k3, k4)
        /\ \A x \in All \ {parent} : k4.p_sig[x] = k3.p_sig[x]
        /\ k3.p_stat[parent] = "SRUN" =>
             /\ SIGCHLD \in k3.p_sig[parent] => SIGCHLD \in k4.p_sig[parent]
             /\ SIGCHLD \notin Ignored[parent] => SIGCHLD \in k4.p_sig[parent]
    BY <1>a, <2>3, PsignalPlainRouses, PsignalPlainReaches
  <2> HIDE DEF k4
  <2>6. Rouses(k, k3)
    BY <2>1, <2>4, RousesTrans
  <2>7. Rouses(k, k4)
    BY <2>5, <2>6, RousesTrans
  <2>8. k4 \in Kern
    BY <2>7 DEF Rouses
  <2>9. /\ k2.p_sig = k4.p_sig
        /\ \A x \in Procs \ {p} : Halted(k2, x) => Halted(k4, x)
    BY <1>3, <2>8, StopHalts
  <2>10. \A x \in Procs \ {p} : Halted(k2, x) => Halted(k, x)
    BY <2>7, <2>9, RousesNotifies
  <2>11. ASSUME NEW x \in Procs, k.p_stat[x] = "SRUN"
         PROVE  /\ SIGCHLD \in k.p_sig[x] => SIGCHLD \in k2.p_sig[x]
                /\ \/ \A y \in Procs :
                        k.p_pptr[y] = x /\ Halted(k2, y) => Halted(k, y)
                   \/ /\ x # InitProc
                      /\ SIGCHLD \notin Ignored[x] => SIGCHLD \in k2.p_sig[x]
    <3>1. x \in All \ {p} /\ k3.p_stat[x] = "SRUN" /\ k3.p_sig[x] = k.p_sig[x]
      BY <2>1, <2>3, <2>11 DEF All
    <3>2. CASE x = parent
      BY <1>3, <2>5, <2>9, <3>1, <3>2
    <3>3. CASE x # parent
      BY <2>5, <2>9, <2>10, <2>b, <3>1, <3>3
    <3> QED BY <3>2, <3>3
  <2> QED BY <2>11 DEF Tells
<1> QED BY <1>0, <1>1, <1>2, <1>3

\* psignal() of any signal but SIGSTOP.
LEMMA PsignalTells ==
  ASSUME NEW k \in Kern, NEW p \in Procs, NEW sig \in Sig \ {SIGSTOP}, NEW k2,
         k2 = Psignal(k, p, sig)
  PROVE  Tells(k, k2)
<1> DEFINE k1 == Post(k, p, sig)
<1>a. p \in All /\ SIGCHLD \notin StopSig /\ SIGCHLD # SIGCONT
  BY DEF All, StopSig, SIGCHLD, SIGCONT, SIGSTOP, SIGTSTP, SIGTTIN
<1>1. CASE sig \notin StopSig
  <2>1. k2 = PsignalPlain(k, p, sig)
    BY <1>1 DEF Psignal
  <2>2. /\ Rouses(k, k2)
        /\ \A x \in All \ {p} : k2.p_sig[x] = k.p_sig[x]
        /\ k.p_stat[p] = "SRUN" /\ SIGCHLD \in k.p_sig[p] =>
             SIGCHLD \in k2.p_sig[p]
    BY <1>1, <1>a, <2>1, PsignalPlainRouses, PsignalPlainReaches
  <2> QED BY <2>2, RousesTells DEF All
<1>2. CASE sig \in StopSig
  <2>1. \/ k2 = k \/ k2 = k1
        \/ k.p_stat[p] = "SSLEEP" /\ k2 = StopAsleep(k1, p, sig)
        \/ k.p_stat[p] = "SSTOP" /\ k2 = SignalStopped(k1, p, sig)
    BY <1>2 DEF Psignal
  <2>2. /\ Rouses(k, k1) /\ k1.p_stat = k.p_stat
        /\ \A x \in All \ {p} : k1.p_sig[x] = k.p_sig[x]
        /\ SIGCHLD \in k.p_sig[p] => SIGCHLD \in k1.p_sig[p]
    <3>1. /\ \A x \in All \ {p} : k1.p_sig[x] = k.p_sig[x]
          /\ k1.p_sig[p] = (k.p_sig[p] \ {SIGCONT}) \cup {sig}
      BY <1>2, <1>a, PostFacts
    <3> QED BY <1>a, <3>1, SigRouses
  <2> HIDE DEF k1
  <2>3. k1 \in Kern /\ Tells(k, k1)
    <3>1. \A x \in Procs : SIGCHLD \in k.p_sig[x] => SIGCHLD \in k1.p_sig[x]
      BY <2>2 DEF All
    <3> QED BY <2>2, <3>1, RousesTells DEF Rouses
  <2>4. CASE k2 = k
    BY <2>4, RousesRefl, RousesTells
  <2>5. CASE k2 = k1
    BY <2>3, <2>5
  <2>b. /\ k1.p_pptr = k.p_pptr
        /\ \A x \in Procs : Halted(k1, x) => Halted(k, x)
    BY <2>2, RousesNotifies DEF Rouses
  <2>6. CASE k.p_stat[p] = "SSLEEP" /\ k2 = StopAsleep(k1, p, sig)
    <3>1. k1.p_stat[p] = "SSLEEP"
      BY <2>2, <2>6
    <3>2. Tells(k1, k2)
      BY <1>2, <2>3, <2>6, <3>1, StopAsleepTells
    <3> QED BY <2>2, <2>b, <3>2 DEF Tells, All
  <2>7. CASE k.p_stat[p] = "SSTOP" /\ k2 = SignalStopped(k1, p, sig)
    <3>1. k1.p_stat[p] = "SSTOP"
      BY <2>2, <2>7
    <3>2. Rouses(k1, k2)
      BY <1>a, <2>3, <2>7, <3>1, SignalStoppedRouses
    <3>3. k2 = Forget(k1, p, sig)
      BY <1>2, <2>7
      DEF SignalStopped, StopSig, SIGSTOP, SIGTSTP, SIGTTIN, SIGKILL, SIGCONT
    <3>4. \A x \in All \ {p} : k2.p_sig[x] = k1.p_sig[x]
      BY <1>a, <2>3, <3>3, ForgetFacts
    <3>5. Rouses(k, k2)
      BY <2>2, <3>2, RousesTrans
    <3>6. \A x \in Procs : k.p_stat[x] = "SRUN" /\ SIGCHLD \in k.p_sig[x] =>
                             SIGCHLD \in k2.p_sig[x]
      BY <2>2, <2>7, <3>4 DEF All
    <3> QED BY <3>5, <3>6, RousesTells
  <2> QED BY <2>1, <2>4, <2>5, <2>6, <2>7
<1> QED BY <1>1, <1>2

-----------------------------------------------------------------------------
(***************************************************************************)
(* What the primitives leave of p_cursig.                                  *)
(***************************************************************************)

\* Signals that set a stopped x running, and those that stop it: one of the
\* former is pending when x is continued, and only the latter cancel it.
Wakers(x) == {SIGKILL, SIGCONT} \cup (StopSig \ Ignored[x])

\* One of them is pending.
Bound(k, x) == k.p_sig[x] \cap Wakers(x) # {}

\* psignal() may stop x where it is, or has.
Stoppable(k, x) ==
  k.p_stat[x] = "SSTOP" \/ (k.p_stat[x] = "SSLEEP" /\ k.p_pri[x] > PZERO)

\* x does not come out of its sleep with a signal of an earlier stop in
\* p_cursig: it is stopped, or will go through issig() first.
Cleared(k, x) == k.p_stat[x] = "SSTOP" \/ Bound(k, x)

\* What happens to x between k and k2: p_cursig is set where x stops, and
\* what will clear it stays.
SparesAt(k, k2, x) ==
  /\ k2.p_stat[x] = "free" => k.p_stat[x] = "free"
  /\ Stoppable(k2, x) => Stoppable(k, x)
  /\ Cleared(k, x) => Cleared(k2, x)
  /\ \/ k2.p_cursig[x] = k.p_cursig[x]
     \/ Stoppable(k, x) /\ Cleared(k2, x)

\* To every process.
Spares(k, k2) ==
  /\ k2 \in Kern /\ k2.p_pptr = k.p_pptr
  /\ \A x \in Procs : SparesAt(k, k2, x)

\* Between k and k2 nothing happens to the signals, and processes that sleep
\* are woken at most.
Nudges(k, k2) ==
  /\ k2 \in Kern /\ k2.p_pptr = k.p_pptr
  /\ k2.p_sig = k.p_sig /\ k2.p_cursig = k.p_cursig
  /\ \A x \in All :
       /\ k2.p_pri[x] > PZERO => k.p_pri[x] > PZERO
       /\ \/ k2.p_stat[x] = k.p_stat[x]
          \/ k2.p_stat[x] = "SRUN" /\ k.p_stat[x] \notin {"SSTOP", "free"}

\* Such a step spares everybody, and stops and continues nobody.
LEMMA NudgesSpares ==
  ASSUME NEW k, NEW k2, Nudges(k, k2)
  PROVE  Spares(k, k2)
BY DEF Nudges, Spares, SparesAt, Stoppable, Cleared, Bound, All

\* They compose.
LEMMA NudgesTrans ==
  ASSUME NEW k, NEW k1, NEW k2, Nudges(k, k1), Nudges(k1, k2)
  PROVE  Nudges(k, k2)
BY DEF Nudges

\* For one process.
LEMMA SparesAtTrans ==
  ASSUME NEW k, NEW k1, NEW k2, NEW x, SparesAt(k, k1, x), SparesAt(k1, k2, x)
  PROVE  SparesAt(k, k2, x)
BY DEF SparesAt

\* For all.
LEMMA SparesTrans ==
  ASSUME NEW k, NEW k1, NEW k2, Spares(k, k1), Spares(k1, k2)
  PROVE  Spares(k, k2)
BY SparesAtTrans DEF Spares

\* A primitive that does nothing.
LEMMA NudgesRefl ==
  ASSUME NEW k \in Kern
  PROVE  Nudges(k, k)
BY DEF Nudges

\* Data that agree in what the predicates look at.
LEMMA NudgesSame ==
  ASSUME NEW k, NEW k2 \in Kern, k2.p_pptr = k.p_pptr, k2.p_sig = k.p_sig,
         k2.p_cursig = k.p_cursig, k2.p_pri = k.p_pri, k2.p_stat = k.p_stat
  PROVE  Nudges(k, k2)
BY DEF Nudges

\* A panic.
LEMMA PanicNudges ==
  ASSUME NEW k \in Kern, NEW why \in Why \ {""}
  PROVE  Nudges(k, Panic(k, why))
<1> DEFINE k2 == Panic(k, why)
<1>1. k2 \in Kern
  BY PanicSame DEF Why
<1>2. /\ k2.p_pptr = k.p_pptr /\ k2.p_sig = k.p_sig
      /\ k2.p_cursig = k.p_cursig /\ k2.p_pri = k.p_pri
      /\ k2.p_stat = k.p_stat
  BY DEF Panic, Kern
<1> HIDE DEF k2
<1>3. Nudges(k, k2)
  BY <1>1, <1>2, NudgesSame
<1> QED BY <1>3 DEF k2

\* setrq() and remrq().
LEMMA SetrqNudges ==
  ASSUME NEW k \in Kern, NEW p \in All, NEW k2,
         k2 = Setrq(k, p) \/ k2 = Remrq(k, p)
  PROVE  Nudges(k, k2)
<1>1. CASE k2 \in {Panic(k, "setrq"), Panic(k, "remrq")}
  BY <1>1, PanicNudges DEF Why
<1>2. CASE k2 \notin {Panic(k, "setrq"), Panic(k, "remrq")}
  <2> DEFINE r == [k.p_rlink EXCEPT ![p] = k.p_pri[p]]
             q == k.whichqs \cup {k.p_pri[p]}
             r2 == [k.p_rlink EXCEPT ![p] = NoQ]
             q2 == IF OnQueue(k, k.p_rlink[p]) \subseteq {p}
                   THEN k.whichqs \ {k.p_pri[p]} ELSE k.whichqs
  <2>1. \/ k2 = [k EXCEPT !.p_rlink = r, !.whichqs = q]
        \/ k2 = [k EXCEPT !.p_rlink = r2, !.whichqs = q2]
    BY <1>2 DEF Setrq, Remrq
  <2>2. /\ k.p_pri[p] \in Pri /\ k.p_rlink \in [All -> Pri \cup {NoQ}]
        /\ k.whichqs \in SUBSET Pri
    BY KernTypes
  <2>3. /\ r \in [All -> Pri \cup {NoQ}] /\ r2 \in [All -> Pri \cup {NoQ}]
        /\ q \in SUBSET Pri /\ q2 \in SUBSET Pri
    BY <2>2
  <2> HIDE DEF r, q, r2, q2
  <2>4. /\ k2 \in Kern /\ k2.p_pptr = k.p_pptr /\ k2.p_sig = k.p_sig
        /\ k2.p_cursig = k.p_cursig /\ k2.p_pri = k.p_pri
        /\ k2.p_stat = k.p_stat
    BY <2>1, <2>3 DEF Kern
  <2> QED BY <2>4, NudgesSame
<1> QED BY <1>1, <1>2

\* unsleep(), the flags, and the bits SLOAD and SWTED.
LEMMA FlagNudges ==
  ASSUME NEW k \in Kern, NEW p \in All, NEW b \in BOOLEAN,
         NEW S \in SUBSET All, NEW k2,
         k2 \in {Unsleep(k, p), [k EXCEPT !.runout = b],
                 [k EXCEPT !.wantin = b], [k EXCEPT !.sload = S],
                 [k EXCEPT !.swted = S]}
  PROVE  Nudges(k, k2)
<1> DEFINE w == [k.p_wchan EXCEPT ![p] = NoChan]
<1>1. k.p_wchan \in [All -> AllChan \cup {NoChan}]
  BY KernTypes
<1>2. w \in [All -> AllChan \cup {NoChan}]
  BY <1>1
<1>3. Unsleep(k, p) = [k EXCEPT !.p_wchan = w]
  BY DEF Unsleep
<1> HIDE DEF w
<1>4. k2 \in Kern
  <2>1. CASE k2 = Unsleep(k, p)
    BY <1>2, <1>3, <2>1 DEF Kern
  <2>2. CASE k2 = [k EXCEPT !.runout = b]
    BY <2>2 DEF Kern
  <2>3. CASE k2 = [k EXCEPT !.wantin = b]
    BY <2>3 DEF Kern
  <2>4. CASE k2 = [k EXCEPT !.sload = S]
    BY <2>4 DEF Kern
  <2>5. CASE k2 = [k EXCEPT !.swted = S]
    BY <2>5 DEF Kern
  <2> QED BY <2>1, <2>2, <2>3, <2>4, <2>5
<1>5. /\ k2.p_pptr = k.p_pptr /\ k2.p_sig = k.p_sig
      /\ k2.p_cursig = k.p_cursig /\ k2.p_pri = k.p_pri
      /\ k2.p_stat = k.p_stat
  BY <1>3 DEF Kern
<1> QED BY <1>4, <1>5, NudgesSame

\* p_pri changes, and not from that of a sleep signals do not disturb.
LEMMA PriNudges ==
  ASSUME NEW k \in Kern, NEW p \in All, NEW pri \in Pri, NEW k2,
         k2 = [k EXCEPT !.p_pri[p] = pri],
         pri > PZERO => k.p_pri[p] > PZERO
  PROVE  Nudges(k, k2)
<1>1. /\ k2 \in Kern /\ k2.p_pptr = k.p_pptr /\ k2.p_sig = k.p_sig
      /\ k2.p_cursig = k.p_cursig /\ k2.p_stat = k.p_stat
      /\ k2.p_pri = [k.p_pri EXCEPT ![p] = pri]
  BY DEF Kern
<1>2. \A x \in All : k2.p_pri[x] = IF x = p THEN pri ELSE k.p_pri[x]
  BY <1>1, KernTypes
<1> QED BY <1>1, <1>2 DEF Nudges

\* wakeup() as far as the run queues.
LEMMA WakeSleepersNudges ==
  ASSUME NEW k \in Kern, NEW chan \in AllChan, NEW k2,
         k2 = WakeSleepers(k, chan)
  PROVE  Nudges(k, k2)
<1>1. CASE k2 = Panic(k, "wakeup")
  BY <1>1, PanicNudges DEF Why
<1>2. CASE k2 # Panic(k, "wakeup")
  <2> DEFINE up == {q \in Sleepers(k, chan) : k.p_stat[q] = "SSLEEP"}
             w == [p \in All |-> IF k.p_wchan[p] = chan
                                 THEN NoChan ELSE k.p_wchan[p]]
             s == [p \in All |-> IF p \in up THEN "SRUN" ELSE k.p_stat[p]]
             l == [p \in All |-> IF p \in up \cap k.sload
                                 THEN k.p_pri[p] ELSE k.p_rlink[p]]
             q == k.whichqs \cup {k.p_pri[p] : p \in up \cap k.sload}
  <2>1. k2 = [k EXCEPT !.p_wchan = w, !.p_stat = s, !.p_rlink = l,
                       !.whichqs = q]
    BY <1>2 DEF WakeSleepers
  <2>2. \A x \in All : s[x] = k.p_stat[x] \/
                         (s[x] = "SRUN" /\ k.p_stat[x] = "SSLEEP")
    OBVIOUS
  <2>3. k2 \in Kern
    BY WakeSleepersMute DEF Woke, Mute
  <2> HIDE DEF w, s, l, q
  <2>4. /\ k2.p_pptr = k.p_pptr /\ k2.p_sig = k.p_sig
        /\ k2.p_cursig = k.p_cursig /\ k2.p_pri = k.p_pri
        /\ k2.p_stat = s
    BY <2>1 DEF Kern
  <2> QED BY <2>2, <2>3, <2>4 DEF Nudges
<1> QED BY <1>1, <1>2

\* The swapper is woken.
LEMMA WantInNudges ==
  ASSUME NEW k \in Kern, NEW k2, k2 = WantIn(k)
  PROVE  Nudges(k, k2)
<1> DEFINE k0 == [k EXCEPT !.runout = FALSE]
           kw == WakeSleepers(k0, RUNOUT)
           k1 == IF k.runout THEN kw ELSE k
<1>1. RUNOUT \in AllChan /\ Swapper \in All
  BY DEF AllChan, SwapChan, All
<1>2. k2 = [k1 EXCEPT !.wantin = TRUE]
  BY DEF WantIn
<1>3. Nudges(k, k0)
  BY <1>1, FlagNudges
<1> HIDE DEF k0
<1>4. k0 \in Kern
  BY <1>3 DEF Nudges
<1>5. Nudges(k0, kw)
  BY <1>1, <1>4, WakeSleepersNudges
<1> HIDE DEF kw
<1>6. Nudges(k, k1)
  BY <1>3, <1>5, NudgesTrans, NudgesRefl
<1> HIDE DEF k1
<1>7. k1 \in Kern
  BY <1>6 DEF Nudges
<1>8. Nudges(k1, k2)
  BY <1>1, <1>2, <1>7, FlagNudges
<1> QED BY <1>6, <1>8, NudgesTrans

\* wakeup().
LEMMA WakeupNudges ==
  ASSUME NEW k \in Kern, NEW chan \in AllChan, NEW k2, k2 = Wakeup(k, chan)
  PROVE  Nudges(k, k2)
<1> DEFINE k1 == WakeSleepers(k, chan)
<1>1. Nudges(k, k1)
  BY WakeSleepersNudges
<1>2. k2 = k1 \/ k2 = WantIn(k1)
  BY DEF Wakeup
<1> HIDE DEF k1
<1>3. k1 \in Kern
  BY <1>1 DEF Nudges
<1>4. k2 = WantIn(k1) => Nudges(k1, k2)
  BY <1>3, WantInNudges
<1> QED BY <1>1, <1>2, <1>4, NudgesTrans

\* setrun(): a stopped process has what issig() will take pending.
LEMMA SetrunSpares ==
  ASSUME NEW k \in Kern, NEW p \in All, NEW k2, k2 = Setrun(k, p),
         k.p_stat[p] = "SSTOP" => Bound(k, p)
  PROVE  Spares(k, k2)
<1> DEFINE ku == Unsleep(k, p)
           k1 == [ku EXCEPT !.p_stat[p] = "SRUN"]
<1>1. CASE k2 = Panic(k, "setrun")
  BY <1>1, PanicNudges, NudgesSpares DEF Why
<1>2. CASE k2 # Panic(k, "setrun")
  <2>1. /\ k.p_stat[p] \in {"SSLEEP", "SSTOP", "SIDL"}
        /\ k2 \in {Setrq(k1, p), WantIn(k1)}
    BY <1>2 DEF Setrun
  <2>2. ku \in Kern /\ Nudges(k, ku) /\ ku.p_stat = k.p_stat
    <3>1. Nudges(k, ku)
      <4>1. TRUE \in BOOLEAN /\ All \in SUBSET All
        OBVIOUS
      <4> QED BY <4>1, FlagNudges
    <3> QED BY <3>1, UnsleepBland DEF Nudges
  <2> HIDE DEF ku
  <2>3. /\ k1 \in Kern /\ k1.p_pptr = ku.p_pptr /\ k1.p_sig = ku.p_sig
        /\ k1.p_cursig = ku.p_cursig /\ k1.p_pri = ku.p_pri
        /\ k1.p_stat = [ku.p_stat EXCEPT ![p] = "SRUN"]
    BY <2>2 DEF Kern, Stat
  <2>4. \A x \in All : k1.p_stat[x] = IF x = p THEN "SRUN" ELSE ku.p_stat[x]
    BY <2>2, <2>3, KernTypes
  <2> HIDE DEF k1
  <2>5. k.p_stat[p] = "SSTOP" => Bound(ku, p)
    BY <2>2 DEF Nudges, Bound
  <2>6. Spares(ku, k1)
    BY <2>1, <2>2, <2>3, <2>4, <2>5
    DEF Spares, SparesAt, Stoppable, Cleared, Bound, All
  <2>7. Nudges(k1, k2)
    BY <2>1, <2>3, SetrqNudges, WantInNudges
  <2> QED BY <2>2, <2>6, <2>7, NudgesSpares, SparesTrans
<1> QED BY <1>1, <1>2

\* psignal() at its label run.
LEMMA SignalRunSpares ==
  ASSUME NEW k \in Kern, NEW p \in All, NEW k2, k2 = SignalRun(k, p),
         k.p_stat[p] = "SSTOP" => Bound(k, p)
  PROVE  Spares(k, k2)
<1> DEFINE pri == IF k.p_pri[p] > PUSER THEN PUSER ELSE k.p_pri[p]
           k1 == [k EXCEPT !.p_pri[p] = pri]
<1>1. k2 = Setrun(k1, p)
  BY DEF SignalRun
<1>2. k.p_pri[p] \in Pri
  BY KernTypes
<1>3. pri \in Pri /\ (pri > PZERO => k.p_pri[p] > PZERO)
  BY <1>2 DEF Pri, PZERO, PWAIT, PUSER, PLOW
<1> HIDE DEF pri
<1>4. Nudges(k, k1) /\ k1.p_stat = k.p_stat
  <2>1. Nudges(k, k1)
    BY <1>3, PriNudges
  <2>2. k1.p_stat = k.p_stat
    BY DEF Kern
  <2> QED BY <2>1, <2>2
<1> HIDE DEF k1
<1>5. k1 \in Kern /\ (k1.p_stat[p] = "SSTOP" => Bound(k1, p))
  BY <1>4 DEF Nudges, Bound
<1>6. Spares(k1, k2)
  BY <1>1, <1>5, SetrunSpares
<1> QED BY <1>4, <1>6, NudgesSpares, SparesTrans

\* A signal becomes pending.
LEMMA PostSpares ==
  ASSUME NEW k \in Kern, NEW p \in All, NEW sig \in Sig, NEW k2,
         k2 = Post(k, p, sig), sig \notin Ignored[p]
  PROVE  /\ Spares(k, k2) /\ k2.p_stat = k.p_stat /\ k2.p_pri = k.p_pri
         /\ sig \in Wakers(p) => Bound(k2, p)
<1>1. /\ k2 \in Kern /\ k2.p_stat = k.p_stat
      /\ k2.p_cursig = k.p_cursig /\ k2.p_pptr = k.p_pptr
      /\ \A x \in All \ {p} : k2.p_sig[x] = k.p_sig[x]
      /\ sig = SIGCONT =>
           k2.p_sig[p] = (k.p_sig[p] \ StopSig) \cup {SIGCONT}
      /\ sig \in StopSig =>
           k2.p_sig[p] = (k.p_sig[p] \ {SIGCONT}) \cup {sig}
      /\ sig \notin StopSig /\ sig # SIGCONT =>
           k2.p_sig[p] = k.p_sig[p] \cup {sig}
  BY PostFacts
<1>2. k2.p_pri = k.p_pri
  BY DEF Post, Kern
<1>3. sig \in StopSig \cup {SIGCONT} => sig \in Wakers(p)
  BY DEF Wakers
<1>4. sig \in Wakers(p) => Bound(k2, p)
  BY <1>1 DEF Bound
<1>5. Bound(k, p) => Bound(k2, p)
  <2>1. CASE sig \in StopSig \cup {SIGCONT}
    BY <1>3, <1>4, <2>1
  <2>2. CASE sig \notin StopSig \cup {SIGCONT}
    BY <1>1, <2>2 DEF Bound
  <2> QED BY <2>1, <2>2
<1>6. \A x \in All : Bound(k, x) => Bound(k2, x)
  BY <1>1, <1>5 DEF Bound
<1> QED BY <1>1, <1>2, <1>4, <1>6
        DEF Spares, SparesAt, Stoppable, Cleared, All

\* One that neither stops nor continues, or of a stopped process, is
\* forgotten.
LEMMA ForgetSpares ==
  ASSUME NEW k \in Kern, NEW p \in All, NEW sig \in Sig, NEW k2,
         k2 = Forget(k, p, sig),
         sig \notin Wakers(p) \/ k.p_stat[p] = "SSTOP"
  PROVE  Spares(k, k2)
<1>1. /\ k2 \in Kern /\ k2.p_stat = k.p_stat
      /\ k2.p_cursig = k.p_cursig /\ k2.p_pptr = k.p_pptr
      /\ \A x \in All \ {p} : k2.p_sig[x] = k.p_sig[x]
      /\ k2.p_sig[p] = k.p_sig[p] \ {sig}
  BY ForgetFacts
<1>2. k2.p_pri = k.p_pri
  BY DEF Forget, Kern
<1> QED BY <1>1, <1>2 DEF Spares, SparesAt, Stoppable, Cleared, Bound, All

\* The SSTOP case of psignal(), with the signal pending.
LEMMA SignalStoppedSpares ==
  ASSUME NEW k \in Kern, NEW p \in All, NEW sig \in Sig,
         k.p_stat[p] = "SSTOP", sig \in Wakers(p) => Bound(k, p),
         NEW k2, k2 = SignalStopped(k, p, sig)
  PROVE  Spares(k, k2)
<1> DEFINE k1 == [k EXCEPT !.p_stat[p] = "SSLEEP"]
<1>1. CASE sig \in {SIGKILL, SIGCONT} /\ k2 = SignalRun(k, p)
  BY <1>1, SignalRunSpares DEF Wakers
<1>2. CASE sig = SIGCONT /\ k2 = k1
  <2>1. /\ k1 \in Kern /\ k1.p_pptr = k.p_pptr /\ k1.p_sig = k.p_sig
        /\ k1.p_cursig = k.p_cursig /\ k1.p_pri = k.p_pri
        /\ k1.p_stat = [k.p_stat EXCEPT ![p] = "SSLEEP"]
    BY DEF Kern, Stat
  <2>2. \A x \in All : k1.p_stat[x] = IF x = p THEN "SSLEEP" ELSE k.p_stat[x]
    BY <2>1, KernTypes
  <2> HIDE DEF k1
  <2>3. Bound(k, p)
    BY <1>2 DEF Wakers
  <2> QED BY <1>2, <2>1, <2>2, <2>3
          DEF Spares, SparesAt, Stoppable, Cleared, Bound, All
<1>3. CASE k2 = Forget(k, p, sig)
  BY <1>3, ForgetSpares
<1>4. CASE k2 \in {Unsleep(k, p), k}
  <2>1. TRUE \in BOOLEAN /\ All \in SUBSET All
    OBVIOUS
  <2>2. Nudges(k, Unsleep(k, p))
    BY <2>1, FlagNudges
  <2> QED BY <1>4, <2>2, NudgesRefl, NudgesSpares
<1> QED BY <1>1, <1>2, <1>3, <1>4 DEF SignalStopped

\* psignal() of a signal that does not stop.
LEMMA PsignalPlainSpares ==
  ASSUME NEW k \in Kern, NEW p \in All, NEW sig \in Sig \ StopSig, NEW k2,
         k2 = PsignalPlain(k, p, sig)
  PROVE  Spares(k, k2)
<1> DEFINE k1 == Post(k, p, sig)
<1>1. CASE k2 = k
  BY <1>1, NudgesRefl, NudgesSpares
<1>2. CASE k2 # k
  <2>1. ~Ignores(k, p, sig)
    BY <1>2 DEF PsignalPlain
  <2>2. sig \notin Ignored[p]
    BY <2>1 DEF Ignores
  <2>3. /\ Spares(k, k1) /\ k1.p_stat = k.p_stat
        /\ sig \in Wakers(p) => Bound(k1, p)
    BY <2>2, PostSpares
  <2>4. \/ k2 = k1
        \/ k.p_stat[p] = "SSLEEP" /\ k2 = SignalAsleep(k1, p, sig)
        \/ k.p_stat[p] = "SSTOP" /\ k2 = SignalStopped(k1, p, sig)
    BY <1>2 DEF PsignalPlain
  <2> HIDE DEF k1
  <2>5. k1 \in Kern
    BY <2>3 DEF Spares
  <2>6. CASE k2 = k1
    BY <2>3, <2>6
  <2>7. CASE k.p_stat[p] = "SSLEEP" /\ k2 = SignalAsleep(k1, p, sig)
    <3>1. \/ k2 = k1 \/ k2 = SignalRun(k1, p)
          \/ sig = SIGCHLD /\ k2 = Forget(k1, p, sig)
      BY <2>7 DEF SignalAsleep
    <3>2. SIGCHLD \notin Wakers(p)
      BY DEF Wakers, StopSig, SIGCHLD, SIGKILL, SIGCONT, SIGSTOP, SIGTSTP,
             SIGTTIN
    <3>3. k1.p_stat[p] # "SSTOP"
      BY <2>3, <2>7
    <3>4. k2 = k1 \/ Spares(k1, k2)
      BY <2>5, <3>1, <3>2, <3>3, SignalRunSpares, ForgetSpares
    <3> QED BY <2>3, <3>4, SparesTrans
  <2>8. CASE k.p_stat[p] = "SSTOP" /\ k2 = SignalStopped(k1, p, sig)
    <3>1. k1.p_stat[p] = "SSTOP"
      BY <2>3, <2>8
    <3>2. Spares(k1, k2)
      BY <2>3, <2>5, <2>8, <3>1, SignalStoppedSpares
    <3> QED BY <2>3, <3>2, SparesTrans
  <2> QED BY <2>4, <2>6, <2>7, <2>8
<1> QED BY <1>1, <1>2

\* stop() of a process that may be stopped, or is the running one: what it
\* does to the others, and what becomes of p.
LEMMA StopSpares ==
  ASSUME NEW k \in Kern, NEW p \in Procs, NEW k2, k2 = Stop(k, p)
  PROVE  /\ k2 \in Kern /\ k2.p_pptr = k.p_pptr
         /\ k2.p_stat[p] = "SSTOP" /\ k2.p_cursig = k.p_cursig
         /\ \A x \in Procs \ {p} : SparesAt(k, k2, x)
<1> DEFINE k1 == [k EXCEPT !.p_stat[p] = "SSTOP", !.swted = @ \ {p}]
           chan == ChanOf[k.p_pptr[p]]
<1>1. k2 = Wakeup(k1, chan)
  BY DEF Stop
<1>2. p \in All /\ k.p_pptr[p] \in All /\ chan \in AllChan
  BY KernTypes, ChanAssumption DEF All, AllChan
<1>3. /\ k1 \in Kern /\ k1.p_pptr = k.p_pptr /\ k1.p_sig = k.p_sig
      /\ k1.p_cursig = k.p_cursig /\ k1.p_pri = k.p_pri
      /\ k1.p_stat = [k.p_stat EXCEPT ![p] = "SSTOP"]
  BY <1>2 DEF Kern, Stat
<1>4. \A x \in All : k1.p_stat[x] = IF x = p THEN "SSTOP" ELSE k.p_stat[x]
  BY <1>3, KernTypes
<1> HIDE DEF k1
<1>b. chan \in AllChan
  BY <1>2
<1> HIDE DEF chan
<1>c. k1 \in Kern
  BY <1>3
<1>5. Nudges(k1, k2)
  BY <1>1, <1>b, <1>c, WakeupNudges
<1>6. Spares(k1, k2)
  BY <1>5, NudgesSpares
<1>7. \A x \in Procs \ {p} : SparesAt(k, k1, x)
  BY <1>3, <1>4 DEF SparesAt, Stoppable, Cleared, Bound, All
<1>8. \A x \in Procs \ {p} : SparesAt(k, k2, x)
  BY <1>6, <1>7, SparesAtTrans DEF Spares
<1>9. k2.p_stat[p] = "SSTOP"
  BY <1>2, <1>4, <1>5 DEF Nudges
<1> QED BY <1>3, <1>5, <1>8, <1>9 DEF Nudges

\* psignal() of a stop signal, posted, to a sleeper.
LEMMA StopAsleepSpares ==
  ASSUME NEW k \in Kern, NEW p \in Procs, NEW sig \in StopSig,
         k.p_stat[p] = "SSLEEP",
         NEW k2, k2 = StopAsleep(k, p, sig)
  PROVE  Spares(k, k2)
<1> DEFINE kf == Forget(k, p, sig)
           k1 == [kf EXCEPT !.p_cursig[p] = sig]
           parent == k.p_pptr[p]
           k3 == PsignalPlain(k1, parent, SIGCHLD)
           kk == PsignalPlain(k, p, SIGKILL)
<1>1. /\ p \in All /\ parent \in All /\ sig \in Sig
      /\ SIGCHLD \in Sig \ StopSig /\ SIGKILL \in Sig \ StopSig
  BY KernTypes DEF All, Sig, StopSig, SIGCHLD, SIGKILL, SIGSTOP, SIGTSTP,
                   SIGTTIN
<1>2. CASE k.p_pri[p] <= PZERO
  BY <1>2, NudgesRefl, NudgesSpares DEF StopAsleep
<1>3. CASE k2 = SignalRun(k, p)
  BY <1>1, <1>3, SignalRunSpares
<1>4. CASE k2 = Forget(kk, p, sig)
  <2>1. Spares(k, kk)
    BY <1>1, PsignalPlainSpares
  <2>2. SIGKILL \in kk.p_sig[p] /\ kk \in Kern
    <3> DEFINE kp == Post(k, p, SIGKILL)
    <3>1. /\ kp \in Kern /\ kp.p_stat = k.p_stat /\ SIGKILL \in kp.p_sig[p]
      <4>1. SIGKILL # SIGCONT
        BY DEF SIGKILL, SIGCONT
      <4>2. kp = Post(k, p, SIGKILL)
        OBVIOUS
      <4>4. SIGKILL \in Sig /\ SIGKILL \notin StopSig /\ p \in All
        BY <1>1
      <4> HIDE DEF kp
      <4>5. /\ kp \in Kern /\ kp.p_stat = k.p_stat
            /\ SIGKILL \notin StopSig /\ SIGKILL # SIGCONT =>
                 kp.p_sig[p] = k.p_sig[p] \cup {SIGKILL}
        BY <4>2, <4>4, PostFacts
      <4>3. /\ kp \in Kern /\ kp.p_stat = k.p_stat
            /\ kp.p_sig[p] = k.p_sig[p] \cup {SIGKILL}
        BY <4>1, <4>4, <4>5
      <4> QED BY <4>3
    <3>2. SIGKILL \notin Ignored[p] \cup Held[p] /\ SIGKILL # SIGCHLD
      BY <1>1, SignalAssumption DEF SIGKILL, SIGCHLD
    <3>3. kk \in {kp, SignalRun(kp, p)}
      BY <3>2 DEF PsignalPlain, SignalAsleep, Ignores
    <3> HIDE DEF kp
    <3>4. SignalRun(kp, p).p_sig = kp.p_sig
      BY <1>1, <3>1, SignalRunBland DEF Bland, Mute
    <3> QED BY <2>1, <3>1, <3>3, <3>4 DEF Spares
  <2> HIDE DEF kk
  <2>3. /\ k2 \in Kern /\ k2.p_stat = kk.p_stat /\ k2.p_pri = kk.p_pri
        /\ k2.p_cursig = kk.p_cursig /\ k2.p_pptr = kk.p_pptr
        /\ \A x \in All \ {p} : k2.p_sig[x] = kk.p_sig[x]
        /\ k2.p_sig[p] = kk.p_sig[p] \ {sig}
    <3>1. k2.p_pri = kk.p_pri
      BY <1>4, <2>2 DEF Forget, Kern
    <3>2. p \in All /\ sig \in Sig /\ kk \in Kern /\ k2 = Forget(kk, p, sig)
      BY <1>1, <1>4, <2>2
    <3> QED BY <3>1, <3>2, ForgetFacts
  <2>4. Bound(k2, p)
    BY <2>2, <2>3
    DEF Bound, Wakers, StopSig, SIGKILL, SIGSTOP, SIGTSTP, SIGTTIN
  <2>5. Spares(kk, k2)
    BY <2>3, <2>4 DEF Spares, SparesAt, Stoppable, Cleared, Bound, All
  <2> QED BY <2>1, <2>5, SparesTrans
<1>5. CASE k.p_pri[p] > PZERO /\ k2 = Stop(k3, p)
  <2>1. /\ kf \in Kern /\ kf.p_stat = k.p_stat /\ kf.p_cursig = k.p_cursig
        /\ kf.p_pptr = k.p_pptr
        /\ \A x \in All \ {p} : kf.p_sig[x] = k.p_sig[x]
    BY <1>1, ForgetFacts
  <2>2. kf.p_pri = k.p_pri
    BY DEF Forget, Kern
  <2> HIDE DEF kf
  <2>3. /\ k1 \in Kern /\ k1.p_stat = kf.p_stat /\ k1.p_pri = kf.p_pri
        /\ k1.p_pptr = kf.p_pptr /\ k1.p_sig = kf.p_sig
        /\ k1.p_cursig = [kf.p_cursig EXCEPT ![p] = sig]
    BY <1>1, <2>1 DEF Kern
  <2>4. \A x \in All \ {p} : k1.p_cursig[x] = kf.p_cursig[x]
    BY <2>1, <2>3, KernTypes
  <2>5. \A x \in Procs \ {p} : SparesAt(k, k1, x)
    BY <2>1, <2>2, <2>3, <2>4 DEF SparesAt, Stoppable, Cleared, Bound, All
  <2> HIDE DEF k1, parent
  <2>6. Spares(k1, k3)
    BY <1>1, <2>3, PsignalPlainSpares
  <2> HIDE DEF k3
  <2>7. /\ k3 \in Kern /\ k3.p_pptr = k.p_pptr
        /\ \A x \in Procs : SparesAt(k1, k3, x)
    BY <2>1, <2>3, <2>6 DEF Spares
  <2>8. /\ k2 \in Kern /\ k2.p_pptr = k3.p_pptr /\ k2.p_stat[p] = "SSTOP"
        /\ \A x \in Procs \ {p} : SparesAt(k3, k2, x)
    BY <1>5, <2>7, StopSpares
  <2>9. \A x \in Procs \ {p} : SparesAt(k, k2, x)
    BY <2>5, <2>7, <2>8, SparesAtTrans
  <2>10. SparesAt(k, k2, p)
    BY <1>5, <2>8 DEF SparesAt, Stoppable, Cleared
  <2> QED BY <2>7, <2>8, <2>9, <2>10 DEF Spares
<1>6. k.p_pri[p] > PZERO \/ k.p_pri[p] <= PZERO
  BY <1>1, KernTypes DEF Pri, PZERO, PWAIT, PUSER, PLOW
<1> QED BY <1>2, <1>3, <1>4, <1>5, <1>6 DEF StopAsleep

\* psignal(), of whatever signal to whomever.
LEMMA PsignalSpares ==
  ASSUME NEW k \in Kern, NEW p \in Procs, NEW sig \in Sig,
         NEW k2, k2 = Psignal(k, p, sig)
  PROVE  Spares(k, k2)
<1> DEFINE k1 == Post(k, p, sig)
<1>0. p \in All
  BY DEF All
<1>1. CASE sig \notin StopSig
  BY <1>0, <1>1, PsignalPlainSpares DEF Psignal
<1>2. CASE k2 = k
  BY <1>2, NudgesRefl, NudgesSpares
<1>3. CASE sig \in StopSig /\ k2 # k
  <2>1. ~Ignores(k, p, sig)
    BY <1>3 DEF Psignal
  <2>2. sig \notin Ignored[p]
    BY <2>1 DEF Ignores
  <2>3. /\ Spares(k, k1) /\ k1.p_stat = k.p_stat
        /\ sig \in Wakers(p) => Bound(k1, p)
    BY <1>0, <2>2, PostSpares
  <2>4. \/ k2 = k1
        \/ k.p_stat[p] = "SSLEEP" /\ k2 = StopAsleep(k1, p, sig)
        \/ k.p_stat[p] = "SSTOP" /\ k2 = SignalStopped(k1, p, sig)
    BY <1>3 DEF Psignal
  <2> HIDE DEF k1
  <2>5. k1 \in Kern
    BY <2>3 DEF Spares
  <2>6. k1.p_stat[p] = "SSLEEP" /\ k2 = StopAsleep(k1, p, sig) => Spares(k1, k2)
    BY <1>3, <2>5, StopAsleepSpares
  <2>7. k1.p_stat[p] = "SSTOP" /\ k2 = SignalStopped(k1, p, sig) =>
          Spares(k1, k2)
    BY <1>0, <2>3, <2>5, SignalStoppedSpares
  <2> QED BY <2>3, <2>4, <2>6, <2>7, SparesTrans
<1> QED BY <1>1, <1>2, <1>3

\* Nothing is done.
LEMMA SparesRefl ==
  ASSUME NEW k \in Kern
  PROVE  Spares(k, k)
BY NudgesRefl, NudgesSpares

\* Flags and p_flag bits.
LEMMA FlagSpares ==
  ASSUME NEW k \in Kern, NEW b \in BOOLEAN, NEW S \in SUBSET All
  PROVE  /\ Spares(k, [k EXCEPT !.runout = b])
         /\ Spares(k, [k EXCEPT !.wantin = b])
         /\ Spares(k, [k EXCEPT !.sload = S])
<1>1. ASSUME NEW k2 \in {[k EXCEPT !.runout = b], [k EXCEPT !.wantin = b],
                         [k EXCEPT !.sload = S]}
      PROVE  Spares(k, k2)
  <2>1. /\ k2 \in Kern /\ k2.p_pptr = k.p_pptr /\ k2.p_stat = k.p_stat
        /\ k2.p_sig = k.p_sig /\ k2.p_cursig = k.p_cursig
        /\ k2.p_pri = k.p_pri
    BY <1>1 DEF Kern
  <2> QED BY <2>1, NudgesSame, NudgesSpares
<1> QED BY <1>1

\* The primitives of the run queues and sleep queues.
LEMMA QueueSpares ==
  ASSUME NEW k \in Kern
  PROVE  /\ \A p \in All : Spares(k, Setrq(k, p)) /\ Spares(k, Remrq(k, p))
         /\ \A chan \in AllChan : Spares(k, Wakeup(k, chan))
         /\ \A why \in Why \ {""} : Spares(k, Panic(k, why))
<1>1. ASSUME NEW p \in All
      PROVE  Spares(k, Setrq(k, p)) /\ Spares(k, Remrq(k, p))
  BY SetrqNudges, NudgesSpares
<1>2. ASSUME NEW chan \in AllChan
      PROVE  Spares(k, Wakeup(k, chan))
  BY WakeupNudges, NudgesSpares
<1>3. ASSUME NEW why \in Why \ {""}
      PROVE  Spares(k, Panic(k, why))
  BY PanicNudges, NudgesSpares
<1> QED BY <1>1, <1>2, <1>3

\* The priority of a process that is not asleep, or asleep where a signal may
\* disturb it.
LEMMA PriSpares ==
  ASSUME NEW k \in Kern, NEW p \in All, NEW pri \in Pri, NEW k2,
         k2 = [k EXCEPT !.p_pri[p] = pri],
         k.p_stat[p] # "SSLEEP" \/ k.p_pri[p] > PZERO
  PROVE  Spares(k, k2)
<1>1. k.p_pri \in [All -> Pri]
  BY KernTypes
<1>2. [k.p_pri EXCEPT ![p] = pri] \in [All -> Pri]
  BY <1>1
<1>3. /\ k2 \in Kern /\ k2.p_pptr = k.p_pptr /\ k2.p_stat = k.p_stat
      /\ k2.p_sig = k.p_sig /\ k2.p_cursig = k.p_cursig
      /\ k2.p_pri = [k.p_pri EXCEPT ![p] = pri]
  BY <1>2 DEF Kern
<1>4. \A x \in All \ {p} : k2.p_pri[x] = k.p_pri[x]
  BY <1>1, <1>3
<1> QED BY <1>3, <1>4 DEF Spares, SparesAt, Stoppable, Cleared, Bound, All

=============================================================================
