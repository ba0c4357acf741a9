----------------------------- MODULE SynchProofs -----------------------------
(***************************************************************************)
(* Synch keeps its queues exact in every behaviour without one of the      *)
(* three races of Race: the inductive invariant IInv, a lemma for each     *)
(* action of Synch, and the theorems about the invariants the runs check.  *)
(***************************************************************************)
EXTENDS SynchLemmas

-----------------------------------------------------------------------------
(***************************************************************************)
(* The inductive invariant.                                                *)
(***************************************************************************)

\* The running process is inside sleep(), on its queue, at splhigh.
Dozing == ctx[cur] = "sleep1" /\ pc[cur] \in {"issig", "chld", "stop"}

\* The running process is in core and so is one being made; parents.
KernCtl(k, np, r) ==
  /\ ~np => r \in k.sload
  /\ \A p \in All : k.p_stat[p] = "SIDL" => p \in k.sload
  /\ \A p \in Procs : k.p_pptr[p] # p
  /\ k.p_pptr[InitProc] = Swapper
  /\ k.p_stat[InitProc] # "free"

\* Where a process is and its p_stat.
PcCtl(k, at, np, r) ==
  /\ \A p \in All :
       /\ at[p] = "swtch" => ~np /\ p = r /\ k.p_stat[p] = "SSTOP"
       /\ at[p] = "exit1" => ~np /\ p = r /\ k.p_stat[p] = "SZOMB"
       /\ k.p_stat[p] = "SZOMB" => at[p] \in {"exit1", "zombie"}
  /\ ~np /\ at[r] \notin {"swtch", "exit1"} => k.p_stat[r] = "SRUN"
  /\ at[Swapper] = "dead" => ~np /\ r = Swapper

\* The labels of sched().
SwapLabel == {"loop", "scan", "dead", "hard", "out", "outio", "inio"}

\* The process sched() brings in and the one swapout() writes.
SwapCtl(k, at, in, out) ==
  /\ at[Swapper] \in SwapLabel
  /\ at[Swapper] # "loop" /\ in # Swapper => WantsIn(k, in)
  /\ at[Swapper] = "inio" => in # Swapper
  /\ at[Swapper] \in {"dead", "out", "outio"} =>
       k.p_stat[out] \in {"SRUN", "SSLEEP", "SSTOP"}
  /\ at[Swapper] = "dead" => out \in Procs
  /\ at[Swapper] \in {"out", "outio"} => out \notin k.sload

\* The control part of the inductive invariant.
Ctl(k, at, np, r, in, out) ==
  KernCtl(k, np, r) /\ PcCtl(k, at, np, r) /\ SwapCtl(k, at, in, out)

\* The inductive invariant.
IInv ==
  /\ TypeOK
  /\ Good(kern, noproc, cur, Dozing)
  /\ Ctl(kern, pc, noproc, cur, inp, victim)

-----------------------------------------------------------------------------
(***************************************************************************)
(* What a step leaves of the control state.                                *)
(***************************************************************************)

\* What a step of process p leaves of the other processes.
Keeps(k, k2, p) ==
  /\ k2.sload = k.sload
  /\ k2.p_pptr = k.p_pptr
  /\ \A x \in All \ {p} :
       /\ k.p_stat[x] \notin {"SSLEEP", "SSTOP"} =>
            k2.p_stat[x] = k.p_stat[x]
       /\ k.p_stat[x] \in {"SSLEEP", "SSTOP"} =>
            k2.p_stat[x] \in {"SRUN", "SSLEEP", "SSTOP"}

\* Where a process may be left with which p_stat.
Lands(st, label, np) ==
  /\ st \in {"SRUN", "SSLEEP", "SSTOP", "SZOMB"}
  /\ label = "swtch" => ~np /\ st = "SSTOP"
  /\ label = "exit1" => ~np /\ st = "SZOMB"
  /\ st = "SZOMB" => label \in {"exit1", "zombie"}
  /\ ~np /\ label \notin {"swtch", "exit1"} => st = "SRUN"

\* What a primitive may change for others is what a step of p may.
LEMMA EvolvesKeeps ==
  ASSUME NEW k, NEW k2, NEW np \in BOOLEAN, NEW r \in All, NEW p \in All,
         Evolves(k, k2, np, r)
  PROVE  Keeps(k, k2, p)
BY DEF Evolves, Keeps

\* Signals and flags changed first make no difference to a step.
LEMMA SameKeeps ==
  ASSUME NEW k, NEW k2, NEW k3, NEW p \in All, Same(k, k2), Keeps(k2, k3, p)
  PROVE  Keeps(k, k3, p)
BY DEF Same, Keeps

\* The control part survives a primitive called for other processes.
LEMMA CtlEvolves ==
  ASSUME NEW k \in Kern, NEW k2 \in Kern, NEW np \in BOOLEAN, NEW r \in All,
         NEW at \in [All -> PC], NEW in \in All, NEW out \in All,
         Evolves(k, k2, np, r), Ctl(k, at, np, r, in, out)
  PROVE  Ctl(k2, at, np, r, in, out)
<1>1. InitProc \in All /\ Swapper \in All
  BY ProcsAssumption DEF All
<1>2. KernCtl(k2, np, r)
  BY <1>1 DEF Ctl, KernCtl, Evolves
<1>3. PcCtl(k2, at, np, r)
  BY DEF Ctl, PcCtl, Evolves
<1>4. SwapCtl(k2, at, in, out)
  BY DEF Ctl, SwapCtl, Evolves, WantsIn
<1> QED BY <1>2, <1>3, <1>4 DEF Ctl

\* The control part survives a step that leaves p at a label that fits its
\* p_stat.
LEMMA CtlKeeps ==
  ASSUME NEW k \in Kern, NEW k2 \in Kern, NEW np \in BOOLEAN, NEW p \in Procs,
         NEW at \in [All -> PC], NEW in \in All, NEW out \in All,
         NEW label \in PC, Keeps(k, k2, p),
         Lands(k2.p_stat[p], label, np), Ctl(k, at, FALSE, p, in, out)
  PROVE  Ctl(k2, [at EXCEPT ![p] = label], np, p, in, out)
<1> DEFINE at2 == [at EXCEPT ![p] = label]
<1>0. \A x \in All : at2[x] = IF x = p THEN label ELSE at[x]
  OBVIOUS
<1>1. InitProc \in All /\ Swapper \in All /\ p \in All /\ p # Swapper
  BY ProcsAssumption DEF All
<1> HIDE DEF at2
<1>2. KernCtl(k2, np, p)
  BY <1>1 DEF Ctl, KernCtl, Keeps, Lands
<1>3. PcCtl(k2, at2, np, p)
  BY <1>0, <1>1 DEF Ctl, PcCtl, Keeps, Lands
<1>4. SwapCtl(k2, at2, in, out)
  BY <1>0, <1>1 DEF Ctl, KernCtl, PcCtl, SwapCtl, Keeps, WantsIn
<1> QED BY <1>2, <1>3, <1>4 DEF Ctl, at2

\* The exception for the process inside sleep() is dropped once it has left
\* its sleep queue, is asleep or is stopped.
LEMMA GoodWeaken ==
  ASSUME NEW k, NEW np \in BOOLEAN, NEW r, NEW h \in BOOLEAN,
         NEW h2 \in BOOLEAN, Good(k, np, r, h),
         h => np \/ h2 \/ k.p_wchan[r] = NoChan
                \/ k.p_stat[r] \in {"SSLEEP", "SSTOP"}
  PROVE  Good(k, np, r, h2)
BY DEF Good, Asleeps

\* A step of the running process p, which leaves it at label.
LEMMA ProcStep ==
  ASSUME IInv, NEW p \in Procs, ~noproc, cur = p, NEW label \in PC,
         NEW h \in BOOLEAN,
         pc' = [pc EXCEPT ![p] = label], UNCHANGED <<cur, swapvars>>,
         noproc' \in BOOLEAN, ctx' \in [All -> Ctx],
         ret' \in [All -> {"run", "wait"}],
         Good(kern', noproc', p, h),
         h => noproc' \/ kern'.p_wchan[p] = NoChan \/ kern'.p_stat[p] = "SSTOP"
                \/ (ctx'[p] = "sleep1" /\ label \in {"issig", "chld", "stop"}),
         Keeps(kern, kern', p), Lands(kern'.p_stat[p], label, noproc')
  PROVE  IInv'
<1>1. /\ kern \in Kern /\ kern' \in Kern /\ pc \in [All -> PC]
      /\ inp \in All /\ victim \in All /\ todo \in SUBSET Procs
      /\ skipped \in SUBSET Procs /\ p \in All /\ noproc = FALSE
  BY DEF IInv, TypeOK, Good, All
<1>2. TypeOK'
  BY <1>1 DEF TypeOK, swapvars
<1>3. Good(kern', noproc', cur', Dozing')
  <2>1. Dozing' \in BOOLEAN
    BY DEF Dozing
  <2>2. pc'[p] = label /\ cur' = p
    BY <1>1
  <2>3. h => noproc' \/ Dozing' \/ kern'.p_wchan[p] = NoChan
               \/ kern'.p_stat[p] \in {"SSLEEP", "SSTOP"}
    BY <2>2 DEF Dozing
  <2> QED BY <2>1, <2>2, <2>3, GoodWeaken
<1>4. Ctl(kern', pc', noproc', cur', inp', victim')
  <2>1. Ctl(kern, pc, FALSE, p, inp, victim)
    BY <1>1 DEF IInv
  <2>2. Ctl(kern', [pc EXCEPT ![p] = label], noproc', p, inp, victim)
    BY <1>1, <2>1, CtlKeeps
  <2> QED BY <2>2 DEF swapvars
<1> QED BY <1>2, <1>3, <1>4 DEF IInv

\* A step that is an interrupt, or only calls primitives.
LEMMA EvolveStep ==
  ASSUME IInv, UNCHANGED <<pc, ctx, ret, cur, noproc, swapvars>>,
         Good(kern', noproc, cur, Dozing), Evolves(kern, kern', noproc, cur)
  PROVE  IInv'
<1>1. /\ kern \in Kern /\ kern' \in Kern /\ pc \in [All -> PC]
      /\ inp \in All /\ victim \in All
      /\ noproc \in BOOLEAN /\ cur \in All
  BY DEF IInv, TypeOK, Good
<1>2. TypeOK'
  BY <1>1 DEF TypeOK, swapvars, IInv
<1>3. Good(kern', noproc', cur', Dozing')
  <2>1. Dozing' = Dozing
    BY DEF Dozing
  <2> QED BY <2>1
<1>4. Ctl(kern', pc', noproc', cur', inp', victim')
  <2>1. Ctl(kern', pc, noproc, cur, inp, victim)
    BY <1>1, CtlEvolves DEF IInv
  <2> QED BY <2>1 DEF swapvars
<1> QED BY <1>2, <1>3, <1>4 DEF IInv

\* What the inductive invariant says of the running process at a label.
LEMMA AtFacts ==
  ASSUME IInv, NEW p \in Procs, NEW label, At(p, label)
  PROVE  /\ ~noproc /\ noproc = FALSE /\ cur = p /\ pc[p] = label
         /\ p \in All /\ p # Swapper /\ kern \in Kern
         /\ Good(kern, FALSE, p, Dozing) /\ Dozing \in BOOLEAN
         /\ p \in kern.sload /\ kern.p_rlink[p] = NoQ
         /\ label \notin {"swtch", "exit1"} => kern.p_stat[p] = "SRUN"
         /\ label = "swtch" => kern.p_stat[p] = "SSTOP"
         /\ label = "exit1" => kern.p_stat[p] = "SZOMB"
         /\ label \notin {"issig", "chld", "stop"} =>
              ~Dozing /\ (kern.p_stat[p] = "SRUN" => kern.p_wchan[p] = NoChan)
         /\ ctx \in [All -> Ctx] /\ ret \in [All -> {"run", "wait"}]
         /\ pc \in [All -> PC]
<1>1. ~noproc /\ noproc = FALSE /\ cur = p /\ pc[p] = label
  BY DEF At, Running, IInv, TypeOK
<1>2. /\ p \in All /\ p # Swapper /\ kern \in Kern
      /\ ctx \in [All -> Ctx] /\ ret \in [All -> {"run", "wait"}]
      /\ pc \in [All -> PC]
  BY ProcsAssumption DEF All, IInv, TypeOK
<1>3. Good(kern, FALSE, p, Dozing)
  BY <1>1 DEF IInv
<1>4. Dozing \in BOOLEAN
  BY DEF Dozing
<1>5. p \in kern.sload /\ kern.p_rlink[p] = NoQ
  BY <1>1, <1>2 DEF IInv, Ctl, KernCtl, Good, Queued
<1>6. /\ label \notin {"swtch", "exit1"} => kern.p_stat[p] = "SRUN"
      /\ label = "swtch" => kern.p_stat[p] = "SSTOP"
      /\ label = "exit1" => kern.p_stat[p] = "SZOMB"
  BY <1>1, <1>2 DEF IInv, Ctl, PcCtl
<1>7. label \notin {"issig", "chld", "stop"} =>
        ~Dozing /\ (kern.p_stat[p] = "SRUN" => kern.p_wchan[p] = NoChan)
  <2>1. label \notin {"issig", "chld", "stop"} => ~Dozing
    BY <1>1 DEF Dozing
  <2>2. Asleeps(kern, FALSE, p, Dozing)
    BY <1>3 DEF Good
  <2>3. ~Dozing => (kern.p_stat[p] = "SRUN" => kern.p_wchan[p] = NoChan)
    BY <1>2, <2>2 DEF Asleeps
  <2> QED BY <2>1, <2>3
<1> QED BY <1>1, <1>2, <1>3, <1>4, <1>5, <1>6, <1>7

\* A step of the running process p that leaves the queues alone.
LEMMA SameStep ==
  ASSUME IInv, NEW p \in Procs, NEW from, At(p, from), NEW label \in PC,
         kern' \in Kern, Same(kern, kern'),
         pc' = [pc EXCEPT ![p] = label], UNCHANGED <<cur, noproc, swapvars>>,
         ctx' \in [All -> Ctx], ret' \in [All -> {"run", "wait"}],
         from \notin {"swtch", "exit1"}, label \notin {"swtch", "exit1"},
         \/ from \notin {"issig", "chld", "stop"}
         \/ kern.p_wchan[p] = NoChan
         \/ ctx[p] # "sleep1"
         \/ ctx'[p] = "sleep1" /\ label \in {"issig", "chld", "stop"}
  PROVE  IInv'
<1>1. /\ ~noproc /\ noproc = FALSE /\ cur = p /\ pc[p] = from
      /\ Good(kern, FALSE, p, Dozing) /\ Dozing \in BOOLEAN
      /\ kern.p_stat[p] = "SRUN" /\ p \in All /\ kern \in Kern
  BY AtFacts
<1>2. Good(kern', noproc', p, Dozing) /\ Evolves(kern, kern', FALSE, p)
  BY <1>1, SameGood
<1>3. Keeps(kern, kern', p)
  BY <1>1, <1>2, EvolvesKeeps
<1>4. kern'.p_stat[p] = "SRUN" /\ kern'.p_wchan[p] = kern.p_wchan[p]
  BY <1>1 DEF Same
<1>5. Lands(kern'.p_stat[p], label, noproc')
  BY <1>1, <1>4 DEF Lands
<1>6. Dozing => kern'.p_wchan[p] = NoChan
        \/ (ctx'[p] = "sleep1" /\ label \in {"issig", "chld", "stop"})
  BY <1>1, <1>4 DEF Dozing
<1>7. noproc' \in BOOLEAN /\ UNCHANGED <<cur, swapvars>>
  BY <1>1
<1> QED BY <1>1, <1>2, <1>3, <1>5, <1>6, <1>7, ProcStep

\* A step may leave the data alone.
LEMMA SameRefl ==
  ASSUME NEW k
  PROVE  Same(k, k)
BY DEF Same

\* sleep() after its swtch() keeps the inductive invariant.
LEMMA WokenStep ==
  ASSUME IInv, NEW p \in Procs, Woken(p)
  PROVE  IInv'
<1>1. At(p, "woken") /\ UNCHANGED <<kern, ret, cur, noproc, swapvars>>
  BY DEF Woken
<1>2. /\ p \in All /\ kern \in Kern /\ ctx \in [All -> Ctx]
      /\ ret \in [All -> {"run", "wait"}]
  BY <1>1, AtFacts
<1>3. kern' \in Kern /\ Same(kern, kern') /\ ret' \in [All -> {"run", "wait"}]
  BY <1>1, <1>2, SameRefl
<1>4. PICK label \in {"issig", "run", "wait"} :
        pc' = [pc EXCEPT ![p] = label] /\ ctx' \in [All -> Ctx]
  BY <1>2 DEF Woken, Goto, Ctx
<1>5. /\ label \in PC /\ label \notin {"swtch", "exit1"}
      /\ "woken" \notin {"swtch", "exit1"}
      /\ "woken" \notin {"issig", "chld", "stop"}
  BY DEF PC
<1> QED BY <1>1, <1>3, <1>4, <1>5, SameStep

\* The trap exit keeps the inductive invariant.
LEMMA TrapExitStep ==
  ASSUME IInv, NEW p \in Procs, TrapExit(p)
  PROVE  IInv'
<1>1. PICK from \in {"run", "trap"} : At(p, from)
  BY DEF TrapExit
<1>2. UNCHANGED <<kern, ret, cur, noproc, swapvars>>
  BY DEF TrapExit
<1>3. /\ p \in All /\ kern \in Kern /\ ctx \in [All -> Ctx]
      /\ ret \in [All -> {"run", "wait"}]
  BY <1>1, AtFacts
<1>4. kern' \in Kern /\ Same(kern, kern') /\ ret' \in [All -> {"run", "wait"}]
  BY <1>2, <1>3, SameRefl
<1>5. PICK label \in {"psig", "issig", "rest"} :
        pc' = [pc EXCEPT ![p] = label] /\ ctx' \in [All -> Ctx]
  BY <1>3 DEF TrapExit, Goto, Ctx
<1>6. /\ label \in PC /\ label \notin {"swtch", "exit1"}
      /\ from \notin {"swtch", "exit1"} /\ from \notin {"issig", "chld", "stop"}
  BY DEF PC
<1> QED BY <1>1, <1>2, <1>4, <1>5, <1>6, SameStep

\* wait1(), as long as it only looks or reports a stopped child, keeps the
\* inductive invariant.
LEMMA WaitStep ==
  ASSUME IInv, NEW p \in Procs, Wait(p) \/ WaitNone(p) \/ WaitStopped(p)
  PROVE  IInv'
<1>1. PICK from \in {"run", "wait"} : At(p, from)
  BY DEF Wait, WaitNone, WaitStopped
<1>2. UNCHANGED <<ctx, ret, cur, noproc, swapvars>>
  BY DEF Wait, WaitNone, WaitStopped
<1>3. /\ p \in All /\ kern \in Kern /\ ctx \in [All -> Ctx]
      /\ ret \in [All -> {"run", "wait"}]
  BY <1>1, AtFacts
<1>4. ret' \in [All -> {"run", "wait"}] /\ ctx' \in [All -> Ctx]
  BY <1>2, <1>3
<1>5. PICK label \in {"run", "wait", "waitsleep"} :
        pc' = [pc EXCEPT ![p] = label]
  BY DEF Wait, WaitNone, WaitStopped, Goto
<1>6. /\ label \in PC /\ label \notin {"swtch", "exit1"}
      /\ from \notin {"swtch", "exit1"} /\ from \notin {"issig", "chld", "stop"}
  BY DEF PC
<1>7. kern' \in Kern /\ Same(kern, kern')
  <2>1. CASE kern' = kern
    BY <1>3, <2>1, SameRefl
  <2>2. CASE WaitStopped(p)
    <3>1. PICK q \in Unreported(kern, p) :
            kern' = [kern EXCEPT !.swted = @ \cup {q}]
      BY <2>2 DEF WaitStopped
    <3>2. kern.swted \cup {q} \in SUBSET All
      BY <1>3, <3>1, KernTypes DEF Unreported, Children, All
    <3> QED BY <1>3, <3>1, <3>2 DEF Kern, Same
  <2> QED BY <2>1, <2>2 DEF Wait, WaitNone
<1> QED BY <1>1, <1>2, <1>4, <1>5, <1>6, <1>7, SameStep

\* The swtch() of a process that has stopped itself keeps the invariant:
\* with no SIGCONT from an interrupt, it is still stopped.
LEMMA SwtchStoppedStep ==
  ASSUME IInv, NEW p \in Procs, SwtchStopped(p)
  PROVE  IInv'
<1>1. /\ At(p, "swtch") /\ UNCHANGED <<kern, ctx, ret, cur, swapvars>>
      /\ noproc' = TRUE /\ pc' = [pc EXCEPT ![p] = "issig"]
  BY DEF SwtchStopped, Goto
<1>2. /\ ~noproc /\ noproc = FALSE /\ cur = p /\ p \in All /\ kern \in Kern
      /\ Good(kern, FALSE, p, Dozing) /\ Dozing \in BOOLEAN
      /\ kern.p_stat[p] = "SSTOP" /\ ctx \in [All -> Ctx]
      /\ ret \in [All -> {"run", "wait"}]
  BY <1>1, AtFacts
<1>3. Good(kern', noproc', p, Dozing)
  BY <1>1, <1>2 DEF Good, Queued, Asleeps
<1>4. Keeps(kern, kern', p)
  BY <1>1, <1>2, EvolvesRefl, EvolvesKeeps
<1>5. Lands(kern'.p_stat[p], "issig", noproc') /\ "issig" \in PC
  BY <1>1, <1>2 DEF Lands, PC
<1> QED BY <1>1, <1>2, <1>3, <1>4, <1>5, ProcStep

-----------------------------------------------------------------------------
(***************************************************************************)
(* What the running process does to itself.                                *)
(***************************************************************************)

\* Once p_stat is SSLEEP the processor may be given up.
LEMMA SleepGood ==
  ASSUME NEW k, NEW p \in All, NEW h \in BOOLEAN, Good(k, FALSE, p, h),
         k.p_stat[p] = "SRUN", k.p_wchan[p] # NoChan
  PROVE  /\ Good([k EXCEPT !.p_stat[p] = "SSLEEP"], TRUE, p, FALSE)
         /\ Keeps(k, [k EXCEPT !.p_stat[p] = "SSLEEP"], p)
         /\ [k EXCEPT !.p_stat[p] = "SSLEEP"].p_stat[p] = "SSLEEP"
<1> DEFINE k2 == [k EXCEPT !.p_stat[p] = "SSLEEP"]
<1>1. k \in Kern /\ "SSLEEP" \in Stat
  BY DEF Good, Stat
<1>2. k2 \in Kern
  BY <1>1 DEF Kern
<1>3. /\ k2.p_stat = [k.p_stat EXCEPT ![p] = "SSLEEP"]
      /\ k2.p_wchan = k.p_wchan /\ k2.p_pri = k.p_pri
      /\ k2.p_rlink = k.p_rlink /\ k2.p_pptr = k.p_pptr
      /\ k2.sload = k.sload /\ k2.whichqs = k.whichqs
  BY <1>1 DEF Kern
<1> HIDE DEF k2
<1>4. Good(k2, TRUE, p, FALSE)
  BY <1>1, <1>2, <1>3, KernTypes DEF Good, Queued, Bits, Asleeps
<1>5. Keeps(k, k2, p) /\ k2.p_stat[p] = "SSLEEP"
  BY <1>1, <1>3, KernTypes DEF Keeps, Stat
<1> QED BY <1>4, <1>5 DEF k2

\* The head of sleep(): the running process joins a sleep queue.
LEMMA EnterSleepGood ==
  ASSUME NEW k, NEW p \in All, NEW h \in BOOLEAN, NEW chan \in AllChan,
         NEW pri \in Pri, Good(k, FALSE, p, h), k.p_stat[p] = "SRUN",
         p \in Procs => chan \notin SwapChan
  PROVE  /\ Good(EnterSleep(k, p, chan, pri), FALSE, p, TRUE)
         /\ Keeps(k, EnterSleep(k, p, chan, pri), p)
         /\ EnterSleep(k, p, chan, pri).p_stat = k.p_stat
         /\ EnterSleep(k, p, chan, pri).p_wchan[p] # NoChan
<1> DEFINE k2 == [k EXCEPT !.p_wchan[p] = chan, !.p_pri[p] = pri]
<1>1. k \in Kern /\ k.p_rlink[p] = NoQ
  BY DEF Good, Queued
<1>2. EnterSleep(k, p, chan, pri) = k2
  BY <1>1 DEF EnterSleep
<1>3. k2 \in Kern
  BY <1>1 DEF Kern
<1>4. /\ k2.p_stat = k.p_stat
      /\ k2.p_wchan = [k.p_wchan EXCEPT ![p] = chan]
      /\ k2.p_pri = [k.p_pri EXCEPT ![p] = pri]
      /\ k2.p_rlink = k.p_rlink /\ k2.p_pptr = k.p_pptr
      /\ k2.sload = k.sload /\ k2.whichqs = k.whichqs
  BY <1>1 DEF Kern
<1> HIDE DEF k2
<1>5. Queued(k2, FALSE, p) /\ Bits(k2)
  BY <1>1, <1>4, KernTypes DEF Good, Queued, Bits
<1>6. Asleeps(k2, FALSE, p, TRUE)
  BY <1>1, <1>4, KernTypes DEF Good, Asleeps
<1>7. \A x \in Procs : k2.p_wchan[x] \notin SwapChan
  BY <1>1, <1>4, KernTypes DEF Good, All
<1>8. Good(k2, FALSE, p, TRUE)
  BY <1>3, <1>4, <1>5, <1>6, <1>7 DEF Good
<1>9. Keeps(k, k2, p) /\ k2.p_wchan[p] # NoChan
  BY <1>1, <1>4, KernTypes, ChanAssumption DEF Keeps, Stat
<1> QED BY <1>2, <1>4, <1>8, <1>9

\* sleep() aborted by a signal: off the sleep queue, and running.
LEMMA AwakeGood ==
  ASSUME NEW k, NEW p \in All, NEW h \in BOOLEAN, Good(k, FALSE, p, h),
         k.p_stat[p] = "SRUN"
  PROVE  /\ Good([Unsleep(k, p) EXCEPT !.p_stat[p] = "SRUN"], FALSE, p, FALSE)
         /\ Keeps(k, [Unsleep(k, p) EXCEPT !.p_stat[p] = "SRUN"], p)
         /\ [Unsleep(k, p) EXCEPT !.p_stat[p] = "SRUN"].p_stat[p] = "SRUN"
<1> DEFINE k2 == [Unsleep(k, p) EXCEPT !.p_stat[p] = "SRUN"]
<1>1. k \in Kern
  BY DEF Good
<1>2. Unsleep(k, p) \in Kern /\ "SRUN" \in Stat
  BY <1>1 DEF Kern, Unsleep, Stat
<1>3. k2 \in Kern
  BY <1>2 DEF Kern
<1>4. /\ k2.p_stat = k.p_stat
      /\ k2.p_wchan = [k.p_wchan EXCEPT ![p] = NoChan]
      /\ k2.p_pri = k.p_pri
      /\ k2.p_rlink = k.p_rlink /\ k2.p_pptr = k.p_pptr
      /\ k2.sload = k.sload /\ k2.whichqs = k.whichqs
  BY <1>1 DEF Kern, Unsleep
<1> HIDE DEF k2
<1>5. Queued(k2, FALSE, p) /\ Bits(k2)
  BY <1>1, <1>4, KernTypes DEF Good, Queued, Bits
<1>6. Asleeps(k2, FALSE, p, FALSE)
  BY <1>1, <1>4, KernTypes DEF Good, Asleeps
<1>7. \A x \in Procs : k2.p_wchan[x] \notin SwapChan
  BY <1>1, <1>4, KernTypes, ChanAssumption DEF Good, All, AllChan
<1>8. Good(k2, FALSE, p, FALSE)
  BY <1>3, <1>4, <1>5, <1>6, <1>7 DEF Good
<1>9. Keeps(k, k2, p) /\ k2.p_stat[p] = "SRUN"
  BY <1>1, <1>4, KernTypes DEF Keeps, Stat
<1> QED BY <1>8, <1>9 DEF k2

\* stop() of the running process, inside sleep() or not.
LEMMA StopSelfGood ==
  ASSUME NEW k, NEW p \in Procs, NEW h \in BOOLEAN, Good(k, FALSE, p, h)
  PROVE  /\ Good(Stop(k, p), FALSE, p, FALSE)
         /\ Keeps(k, Stop(k, p), p)
         /\ Stop(k, p).p_stat[p] = "SSTOP"
<1> DEFINE s == k.swted \ {p}
           k2 == [k EXCEPT !.p_stat[p] = "SSTOP", !.swted = s]
           chan == ChanOf[k.p_pptr[p]]
<1>1. k \in Kern /\ "SSTOP" \in Stat /\ p \in All
  BY DEF Good, Stat, All
<1>2. Stop(k, p) = Wakeup(k2, chan)
  BY DEF Stop
<1>3. s \in SUBSET All
  BY <1>1, KernTypes
<1>4. chan \in AllChan
  BY <1>1, KernTypes, ChanAssumption DEF AllChan
<1> HIDE DEF s, chan
<1>5. k2 \in Kern
  BY <1>1, <1>3 DEF Kern
<1>6. /\ k2.p_stat = [k.p_stat EXCEPT ![p] = "SSTOP"]
      /\ k2.p_wchan = k.p_wchan /\ k2.p_pri = k.p_pri
      /\ k2.p_rlink = k.p_rlink /\ k2.p_pptr = k.p_pptr
      /\ k2.sload = k.sload /\ k2.whichqs = k.whichqs
  BY <1>1 DEF Kern
<1> HIDE DEF k2
<1>7. Good(k2, FALSE, p, FALSE)
  BY <1>1, <1>5, <1>6, KernTypes DEF Good, Queued, Bits, Asleeps
<1>8. Keeps(k, k2, p) /\ k2.p_stat[p] = "SSTOP"
  BY <1>1, <1>6, KernTypes DEF Keeps, Stat
<1>9. /\ Good(Wakeup(k2, chan), FALSE, p, FALSE)
      /\ Evolves(k2, Wakeup(k2, chan), FALSE, p)
  BY <1>1, <1>4, <1>7, WakeupGood
<1>10. Keeps(k, Wakeup(k2, chan), p) /\ Wakeup(k2, chan).p_stat[p] = "SSTOP"
  BY <1>8, <1>9 DEF Keeps, Evolves
<1> QED BY <1>2, <1>9, <1>10

\* The running process queues itself before it gives up the processor.
LEMMA SetrqSelfGood ==
  ASSUME NEW k, NEW p \in All, NEW h \in BOOLEAN, Good(k, FALSE, p, h),
         k.p_stat[p] = "SRUN", p \in k.sload, k.p_wchan[p] = NoChan
  PROVE  /\ Good(Setrq(k, p), TRUE, p, FALSE)
         /\ Keeps(k, Setrq(k, p), p)
         /\ Setrq(k, p).p_stat[p] = "SRUN"
<1>1. k \in Kern /\ k.p_rlink[p] = NoQ /\ Bits(k)
  BY DEF Good, Queued
<1> DEFINE k2 == Setrq(k, p)
<1>2. /\ k2 \in Kern /\ Bits(k2)
      /\ k2.p_stat = k.p_stat /\ k2.p_wchan = k.p_wchan
      /\ k2.p_pptr = k.p_pptr /\ k2.sload = k.sload
      /\ k2.p_rlink[p] # NoQ
      /\ \A x \in All \ {p} : k2.p_rlink[x] = k.p_rlink[x]
  BY <1>1, SetrqFacts
<1> HIDE DEF k2
<1>3. Good(k2, TRUE, p, FALSE)
  BY <1>1, <1>2 DEF Good, Queued, Asleeps
<1>4. Keeps(k, k2, p) /\ k2.p_stat[p] = "SRUN"
  BY <1>1, <1>2, KernTypes DEF Keeps, Stat
<1> QED BY <1>3, <1>4 DEF k2

\* issig() takes a signal that is pending.
LEMMA NextSigSig ==
  ASSUME NEW k \in Kern, NEW p \in All, SigBits(k, p) # {}
  PROVE  NextSig(k, p) \in SigBits(k, p) /\ NextSig(k, p) \in Sig
<1> DEFINE S == SigBits(k, p)
<1>1. S \in SUBSET Sig
  BY KernTypes DEF SigBits
<1>2. \E sig \in S : \A other \in S : sig <= other
  <2>1. S # {}
    OBVIOUS
  <2> HIDE DEF S
  <2>2. \A sig \in S : sig \in {2, 9, 17, 18, 19, 20, 21}
    BY <1>1 DEF Sig, SIGINT, SIGKILL, SIGSTOP, SIGTSTP, SIGCONT, SIGCHLD,
                SIGTTIN
  <2>3. CASE 2 \in S
    BY <2>2, <2>3
  <2>4. CASE 2 \notin S /\ 9 \in S
    BY <2>2, <2>4
  <2>5. CASE {2, 9} \cap S = {} /\ 17 \in S
    BY <2>2, <2>5
  <2>6. CASE {2, 9, 17} \cap S = {} /\ 18 \in S
    BY <2>2, <2>6
  <2>7. CASE {2, 9, 17, 18} \cap S = {} /\ 19 \in S
    BY <2>2, <2>7
  <2>8. CASE {2, 9, 17, 18, 19} \cap S = {} /\ 20 \in S
    BY <2>2, <2>8
  <2>9. CASE {2, 9, 17, 18, 19, 20} \cap S = {} /\ 21 \in S
    BY <2>2, <2>9
  <2> QED BY <2>1, <2>2, <2>3, <2>4, <2>5, <2>6, <2>7, <2>8, <2>9
<1>3. NextSig(k, p) \in S
  BY <1>2 DEF NextSig
<1> QED BY <1>1, <1>3

\* Taking a signal changes p_sig and p_cursig only.
LEMMA TakeSame ==
  ASSUME NEW k \in Kern, NEW p \in All, SigBits(k, p) # {}
  PROVE  Take(k, p) \in Kern /\ Same(k, Take(k, p))
<1> DEFINE sig == NextSig(k, p)
           k1 == Forget(k, p, sig)
           k2 == [k1 EXCEPT !.p_cursig[p] = sig]
<1>1. Take(k, p) = k2
  BY DEF Take
<1>2. sig \in Sig
  BY NextSigSig
<1> HIDE DEF sig
<1>3. k1 \in Kern /\ Same(k, k1)
  BY <1>2, PostSame
<1> HIDE DEF k1
<1>4. k2 \in Kern /\ Same(k1, k2)
  BY <1>2, <1>3 DEF Kern, Same
<1> QED BY <1>1, <1>3, <1>4 DEF Same

\* psig() keeps the inductive invariant.
LEMMA PsigStep ==
  ASSUME IInv, NEW p \in Procs, Psig(p)
  PROVE  IInv'
<1>1. At(p, "psig") /\ UNCHANGED <<ctx, ret, cur, noproc, swapvars>>
  BY DEF Psig
<1>2. /\ p \in All /\ kern \in Kern /\ ctx' \in [All -> Ctx]
      /\ ret' \in [All -> {"run", "wait"}] /\ pc[p] = "psig"
      /\ pc \in [All -> PC]
  BY <1>1, AtFacts
<1>3. kern' \in Kern /\ Same(kern, kern')
  <2>1. CASE kern' = Panic(kern, "psig")
    BY <1>2, <2>1, PanicSame DEF Why
  <2>2. CASE kern' = Panic(kern, "psig action")
    BY <1>2, <2>2, PanicSame DEF Why
  <2>3. CASE kern' = [kern EXCEPT !.p_cursig[p] = NoSig]
    BY <1>2, <2>3 DEF Kern, Same
  <2>4. CASE kern' = kern
    BY <1>2, <2>4, SameRefl
  <2> QED BY <2>1, <2>2, <2>3, <2>4 DEF Psig
<1>4. PICK label \in {"psig", "rest", "exit"} : pc' = [pc EXCEPT ![p] = label]
  <2>1. CASE pc' = pc
    <3>1. pc' = [pc EXCEPT ![p] = "psig"]
      BY <1>2, <2>1
    <3> QED BY <3>1
  <2>2. pc' = pc \/ Goto(p, "rest") \/ Goto(p, "exit")
    BY DEF Psig
  <2> QED BY <2>1, <2>2 DEF Goto
<1>5. /\ label \in PC /\ label \notin {"swtch", "exit1"}
      /\ "psig" \notin {"swtch", "exit1"}
      /\ "psig" \notin {"issig", "chld", "stop"}
  BY DEF PC
<1> QED BY <1>1, <1>2, <1>3, <1>4, <1>5, SameStep

\* issig() that finds no signal, back in sleep() or in the trap exit, keeps
\* the inductive invariant: sleep() goes to sleep only if still queued.
LEMMA IssigNoneStep ==
  ASSUME IInv, NEW p \in Procs, IssigNone(p)
  PROVE  IInv'
<1> DEFINE k == [kern EXCEPT !.p_cursig[p] = NoSig]
<1>1. At(p, "issig") /\ UNCHANGED <<ctx, ret, cur, swapvars>>
  BY DEF IssigNone
<1>2. /\ p \in All /\ kern \in Kern /\ ctx' \in [All -> Ctx] /\ cur = p
      /\ ret' \in [All -> {"run", "wait"}] /\ pc[p] = "issig" /\ ~noproc
      /\ Good(kern, FALSE, p, Dozing) /\ Dozing \in BOOLEAN
      /\ kern.p_stat[p] = "SRUN"
  <2>1. "issig" \notin {"swtch", "exit1"}
    OBVIOUS
  <2> QED BY <1>1, <2>1, AtFacts
<1>3. k \in Kern /\ Same(kern, k)
  BY <1>2 DEF Kern, Same
<1>4. CASE ctx[p] = "sleep1" /\ kern.p_wchan[p] # NoChan
  <2>1. /\ kern' = [k EXCEPT !.p_stat[p] = "SSLEEP"] /\ noproc' = TRUE
        /\ pc' = [pc EXCEPT ![p] = "woken"]
    BY <1>4 DEF IssigNone, Goto
  <2> HIDE DEF k
  <2>2. Good(k, FALSE, p, Dozing)
    BY <1>2, <1>3, SameGood
  <2>3. k.p_stat[p] = "SRUN" /\ k.p_wchan[p] # NoChan
    BY <1>2, <1>3, <1>4 DEF Same
  <2>4. /\ Good(kern', noproc', p, FALSE) /\ Keeps(k, kern', p)
        /\ kern'.p_stat[p] = "SSLEEP"
    BY <1>2, <2>1, <2>2, <2>3, SleepGood
  <2>5. Keeps(kern, kern', p)
    BY <1>2, <1>3, <2>4, SameKeeps
  <2>6. Lands(kern'.p_stat[p], "woken", noproc') /\ "woken" \in PC
    BY <2>1, <2>4 DEF Lands, PC
  <2> QED BY <1>1, <1>2, <2>1, <2>4, <2>5, <2>6, ProcStep
<1>5. CASE ~(ctx[p] = "sleep1" /\ kern.p_wchan[p] # NoChan)
  <2>1. /\ kern' = k /\ UNCHANGED noproc
        /\ pc' = [pc EXCEPT ![p] = IF ctx[p] = "trap" THEN "rest" ELSE ret[p]]
    BY <1>5 DEF IssigNone, Goto
  <2>2. PICK label \in {"rest", "run", "wait"} : pc' = [pc EXCEPT ![p] = label]
    BY <1>1, <1>2, <2>1
  <2>3. /\ label \in PC /\ label \notin {"swtch", "exit1"}
        /\ "issig" \notin {"swtch", "exit1"}
    BY DEF PC
  <2> HIDE DEF k
  <2> QED BY <1>1, <1>2, <1>3, <1>5, <2>1, <2>2, <2>3, SameStep
<1> QED BY <1>4, <1>5

\* issig() that returns a signal keeps the inductive invariant.
LEMMA IssigSendStep ==
  ASSUME IInv, NEW p \in Procs, IssigSend(p)
  PROVE  IInv'
<1> DEFINE k == Take(kern, p)
<1>1. /\ At(p, "issig") /\ UNCHANGED <<ctx, ret, cur, noproc, swapvars>>
      /\ SigBits(kern, p) # {}
  BY DEF IssigSend
<1>2. /\ p \in All /\ kern \in Kern /\ ctx' \in [All -> Ctx] /\ cur = p
      /\ ret' \in [All -> {"run", "wait"}] /\ ~noproc /\ noproc = FALSE
      /\ Good(kern, FALSE, p, Dozing) /\ Dozing \in BOOLEAN
      /\ kern.p_stat[p] = "SRUN"
  <2>1. "issig" \notin {"swtch", "exit1"}
    OBVIOUS
  <2> QED BY <1>1, <2>1, AtFacts
<1>3. k \in Kern /\ Same(kern, k)
  BY <1>1, <1>2, TakeSame
<1>4. PICK label \in {"psig", "trap"} : pc' = [pc EXCEPT ![p] = label]
  BY DEF IssigSend, Goto
<1>5. /\ label \in PC /\ label \notin {"swtch", "exit1"}
      /\ "issig" \notin {"swtch", "exit1"}
  BY DEF PC
<1>6. CASE ctx[p] = "sleep1"
  <2>1. kern' = [Unsleep(k, p) EXCEPT !.p_stat[p] = "SRUN"]
    BY <1>6 DEF IssigSend
  <2> HIDE DEF k
  <2>2. Good(k, FALSE, p, Dozing)
    BY <1>2, <1>3, SameGood
  <2>3. k.p_stat[p] = "SRUN"
    BY <1>2, <1>3 DEF Same
  <2>4. /\ Good(kern', FALSE, p, FALSE) /\ Keeps(k, kern', p)
        /\ kern'.p_stat[p] = "SRUN"
    BY <1>2, <2>1, <2>2, <2>3, AwakeGood
  <2>5. Keeps(kern, kern', p)
    BY <1>2, <1>3, <2>4, SameKeeps
  <2>6. Lands(kern'.p_stat[p], label, noproc') /\ noproc' \in BOOLEAN
    BY <1>1, <1>2, <1>5, <2>4 DEF Lands
  <2>7. Good(kern', noproc', p, FALSE)
    BY <1>1, <1>2, <2>4
  <2> QED BY <1>1, <1>2, <1>4, <1>5, <2>5, <2>6, <2>7, ProcStep
<1>7. CASE ctx[p] # "sleep1"
  <2>1. kern' = k
    BY <1>7 DEF IssigSend
  <2> HIDE DEF k
  <2> QED BY <1>1, <1>2, <1>3, <1>4, <1>5, <1>7, <2>1, SameStep
<1> QED BY <1>6, <1>7

\* issig() that discards a signal, or is about to stop, keeps it.
LEMMA IssigTakeStep ==
  ASSUME IInv, NEW p \in Procs, IssigContinue(p) \/ IssigStop(p)
  PROVE  IInv'
<1>1. /\ At(p, "issig") /\ UNCHANGED <<ctx, ret, cur, noproc, swapvars>>
      /\ SigBits(kern, p) # {} /\ kern' = Take(kern, p)
  BY DEF IssigContinue, IssigStop
<1>2. /\ p \in All /\ kern \in Kern /\ ctx' \in [All -> Ctx] /\ cur = p
      /\ ret' \in [All -> {"run", "wait"}] /\ pc[p] = "issig"
      /\ pc \in [All -> PC]
  BY <1>1, AtFacts
<1>3. kern' \in Kern /\ Same(kern, kern')
  BY <1>1, <1>2, TakeSame
<1>4. PICK label \in {"issig", "chld"} : pc' = [pc EXCEPT ![p] = label]
  <2>1. CASE pc' = pc
    <3>1. pc' = [pc EXCEPT ![p] = "issig"]
      BY <1>2, <2>1
    <3> QED BY <3>1
  <2> QED BY <2>1 DEF IssigContinue, IssigStop, Goto
<1>5. /\ label \in PC /\ label \notin {"swtch", "exit1"}
      /\ "issig" \notin {"swtch", "exit1"}
      /\ label \in {"issig", "chld", "stop"}
  BY DEF PC
<1>6. ctx[p] # "sleep1" \/ ctx'[p] = "sleep1"
  BY <1>1
<1> QED BY <1>1, <1>2, <1>3, <1>4, <1>5, <1>6, SameStep

\* issig() that kills a child of init instead of stopping it keeps it.
LEMMA IssigKillStep ==
  ASSUME IInv, NEW p \in Procs, IssigKill(p)
  PROVE  IInv'
<1> DEFINE k == Take(kern, p)
<1>1. /\ At(p, "issig") /\ UNCHANGED <<pc, ctx, ret, cur, noproc, swapvars>>
      /\ SigBits(kern, p) # {} /\ kern' = PsignalPlain(k, p, SIGKILL)
  BY DEF IssigKill
<1>2. /\ p \in All /\ kern \in Kern /\ cur = p /\ noproc = FALSE
      /\ Good(kern, FALSE, p, Dozing) /\ Dozing \in BOOLEAN
      /\ kern.p_stat[p] = "SRUN"
  <2>1. "issig" \notin {"swtch", "exit1"}
    OBVIOUS
  <2> QED BY <1>1, <2>1, AtFacts
<1>3. k \in Kern /\ Same(kern, k)
  BY <1>1, <1>2, TakeSame
<1> HIDE DEF k
<1>4. Good(k, FALSE, p, Dozing) /\ Evolves(kern, k, FALSE, p)
  BY <1>2, <1>3, SameGood
<1>5. k.p_stat[p] # "SSTOP" /\ SIGKILL \in Sig
  BY <1>2, <1>3 DEF Same, Sig
<1>6. Good(kern', FALSE, p, Dozing) /\ Evolves(k, kern', FALSE, p)
  BY <1>1, <1>2, <1>4, <1>5, PsignalPlainGood
<1>7. Evolves(kern, kern', FALSE, p)
  BY <1>2, <1>4, <1>6, EvolvesTrans
<1>8. Good(kern', noproc, cur, Dozing) /\ Evolves(kern, kern', noproc, cur)
  BY <1>2, <1>6, <1>7
<1> QED BY <1>1, <1>8, EvolveStep

\* psignal(p->p_pptr, SIGCHLD) in issig() keeps the inductive invariant.
LEMMA TellParentStep ==
  ASSUME IInv, NEW p \in Procs, TellParent(p)
  PROVE  IInv'
<1> DEFINE parent == kern.p_pptr[p]
<1>1. /\ At(p, "chld") /\ UNCHANGED <<ctx, ret, cur, noproc, swapvars>>
      /\ kern' = PsignalPlain(kern, parent, SIGCHLD)
      /\ pc' = [pc EXCEPT ![p] = "stop"]
  BY DEF TellParent, Goto
<1>2. /\ p \in All /\ kern \in Kern /\ cur = p /\ noproc = FALSE /\ ~noproc
      /\ Good(kern, FALSE, p, Dozing) /\ Dozing \in BOOLEAN
      /\ kern.p_stat[p] = "SRUN" /\ ctx' \in [All -> Ctx]
      /\ ret' \in [All -> {"run", "wait"}]
  <2>1. "chld" \notin {"swtch", "exit1"}
    OBVIOUS
  <2> QED BY <1>1, <2>1, AtFacts
<1>3. parent \in All /\ SIGCHLD \in Sig /\ SIGCHLD \notin {SIGKILL, SIGCONT}
  BY <1>2, KernTypes DEF Sig, SIGCHLD, SIGKILL, SIGCONT
<1> HIDE DEF parent
<1>4. Good(kern', FALSE, p, Dozing) /\ Evolves(kern, kern', FALSE, p)
  BY <1>1, <1>2, <1>3, PsignalPlainGood
<1>5. Keeps(kern, kern', p)
  BY <1>2, <1>4, EvolvesKeeps
<1>6. Lands(kern'.p_stat[p], "stop", noproc') /\ "stop" \in PC
  BY <1>1, <1>2, <1>4 DEF Lands, Evolves, PC
<1>7. Dozing => ctx'[p] = "sleep1" /\ "stop" \in {"issig", "chld", "stop"}
  BY <1>1, <1>2 DEF Dozing
<1>8. Good(kern', noproc', p, Dozing) /\ noproc' \in BOOLEAN
  BY <1>1, <1>2, <1>4
<1> QED BY <1>1, <1>2, <1>5, <1>6, <1>7, <1>8, ProcStep

\* stop(p) in issig() keeps the inductive invariant.
LEMMA StopSelfStep ==
  ASSUME IInv, NEW p \in Procs, StopSelf(p)
  PROVE  IInv'
<1>1. /\ At(p, "stop") /\ UNCHANGED <<ctx, ret, cur, noproc, swapvars>>
      /\ kern' = Stop(kern, p) /\ pc' = [pc EXCEPT ![p] = "swtch"]
  BY DEF StopSelf, Goto
<1>2. /\ p \in All /\ kern \in Kern /\ cur = p /\ noproc = FALSE /\ ~noproc
      /\ Good(kern, FALSE, p, Dozing) /\ Dozing \in BOOLEAN
      /\ ctx' \in [All -> Ctx] /\ ret' \in [All -> {"run", "wait"}]
  BY <1>1, AtFacts
<1>3. /\ Good(kern', FALSE, p, FALSE) /\ Keeps(kern, kern', p)
      /\ kern'.p_stat[p] = "SSTOP"
  BY <1>1, <1>2, StopSelfGood
<1>4. Lands(kern'.p_stat[p], "swtch", noproc') /\ "swtch" \in PC
  BY <1>1, <1>2, <1>3 DEF Lands, PC
<1>5. Good(kern', noproc', p, FALSE) /\ noproc' \in BOOLEAN
  BY <1>1, <1>2, <1>3
<1> QED BY <1>1, <1>2, <1>3, <1>4, <1>5, ProcStep

\* The end of the trap exit, with or without the switch runrun asks for.
LEMMA RestStep ==
  ASSUME IInv, NEW p \in Procs, Rest(p)
  PROVE  IInv'
<1>1. /\ At(p, "rest") /\ UNCHANGED <<ctx, ret, cur, swapvars>>
      /\ pc' = [pc EXCEPT ![p] = "run"]
  BY DEF Rest, Goto
<1>2. /\ p \in All /\ kern \in Kern /\ cur = p /\ noproc = FALSE /\ ~noproc
      /\ Good(kern, FALSE, p, Dozing) /\ Dozing \in BOOLEAN /\ ~Dozing
      /\ kern.p_stat[p] = "SRUN" /\ kern.p_wchan[p] = NoChan
      /\ kern.p_rlink[p] = NoQ /\ p \in kern.sload
      /\ ctx' \in [All -> Ctx] /\ ret' \in [All -> {"run", "wait"}]
  <2>1. "rest" \notin {"swtch", "exit1"} /\ "rest" \notin {"issig", "chld", "stop"}
    OBVIOUS
  <2> QED BY <1>1, <2>1, AtFacts
<1>3. PICK usrpri \in UserPri :
        \/ kern' = [kern EXCEPT !.p_pri[p] = usrpri] /\ UNCHANGED noproc
        \/ /\ kern' = Setrq([kern EXCEPT !.p_pri[p] = usrpri], p)
           /\ noproc' = TRUE
  BY DEF Rest
<1> DEFINE k == [kern EXCEPT !.p_pri[p] = usrpri]
<1>4. usrpri \in Pri
  BY ChanAssumption DEF Pri
<1>5. /\ Good(k, FALSE, p, Dozing) /\ Evolves(kern, k, FALSE, p)
      /\ k.p_stat = kern.p_stat
  <2>1. Good(kern, FALSE, p, Dozing) /\ Dozing \in BOOLEAN
    BY <1>2
  <2>2. p \in All /\ kern.p_rlink[p] = NoQ
    BY <1>2
  <2> DEFINE np == FALSE
  <2>3. np \in BOOLEAN /\ Good(kern, np, p, Dozing)
    BY <2>1
  <2> HIDE DEF np
  <2>4. /\ Good([kern EXCEPT !.p_pri[p] = usrpri], np, p, Dozing)
        /\ Evolves(kern, [kern EXCEPT !.p_pri[p] = usrpri], np, p)
        /\ [kern EXCEPT !.p_pri[p] = usrpri].p_stat = kern.p_stat
    BY <1>4, <2>1, <2>2, <2>3, PriGood
  <2> QED BY <2>4 DEF np
<1>6. k.p_wchan = kern.p_wchan /\ k.sload = kern.sload
  BY <1>2 DEF Kern
<1> HIDE DEF k
<1>7. "run" \in PC
  BY DEF PC
<1>8. CASE kern' = k /\ UNCHANGED noproc
  <2>1. Good(kern', noproc', p, Dozing) /\ noproc' \in BOOLEAN
    BY <1>2, <1>5, <1>8
  <2>2. Keeps(kern, kern', p)
    BY <1>2, <1>5, <1>8, EvolvesKeeps
  <2>3. Lands(kern'.p_stat[p], "run", noproc')
    BY <1>2, <1>5, <1>8 DEF Lands
  <2> QED BY <1>1, <1>2, <1>7, <2>1, <2>2, <2>3, ProcStep
<1>9. CASE kern' = Setrq(k, p) /\ noproc' = TRUE
  <2>1. /\ Good(kern', TRUE, p, FALSE) /\ Keeps(k, kern', p)
        /\ kern'.p_stat[p] = "SRUN"
    BY <1>2, <1>5, <1>6, <1>9, SetrqSelfGood
  <2>2. Keeps(kern, kern', p)
    BY <1>5, <2>1 DEF Keeps, Evolves
  <2>3. Lands(kern'.p_stat[p], "run", noproc')
    BY <1>9, <2>1 DEF Lands
  <2>4. Good(kern', noproc', p, FALSE)
    BY <1>9, <2>1
  <2> QED BY <1>1, <1>2, <1>7, <1>9, <2>2, <2>3, <2>4, ProcStep
<1> QED BY <1>3, <1>8, <1>9 DEF k

\* A call of sleep() keeps the inductive invariant, whether it looks for
\* signals first or not.
LEMMA SleepCallStep ==
  ASSUME IInv, NEW p \in Procs, NEW from \in {"run", "waitsleep"},
         At(p, from), NEW chan \in Chan, NEW pri \in {PZERO, PWAIT},
         NEW back \in {"run", "wait"}, SleepCall(p, chan, pri, back)
  PROVE  IInv'
<1> DEFINE k == EnterSleep(kern, p, chan, pri)
<1>1. /\ UNCHANGED <<cur, swapvars>> /\ ret' = [ret EXCEPT ![p] = back]
      /\ \/ /\ kern' = k /\ pc' = [pc EXCEPT ![p] = "issig"]
            /\ ctx' = [ctx EXCEPT ![p] = "sleep1"] /\ UNCHANGED noproc
         \/ /\ kern' = [k EXCEPT !.p_stat[p] = "SSLEEP"] /\ UNCHANGED ctx
            /\ pc' = [pc EXCEPT ![p] = IF pri > PZERO THEN "woken" ELSE back]
            /\ noproc' = TRUE
  BY DEF SleepCall, Goto
<1>2. /\ p \in All /\ kern \in Kern /\ cur = p /\ noproc = FALSE /\ ~noproc
      /\ Good(kern, FALSE, p, Dozing) /\ Dozing \in BOOLEAN
      /\ kern.p_stat[p] = "SRUN"
      /\ ctx \in [All -> Ctx] /\ ret \in [All -> {"run", "wait"}]
  <2>1. from \notin {"swtch", "exit1"}
    OBVIOUS
  <2> QED BY <2>1, AtFacts
<1>3. chan \in AllChan /\ chan \notin SwapChan /\ pri \in Pri
  BY ChanAssumption DEF AllChan, Pri
<1>4. /\ Good(k, FALSE, p, TRUE) /\ Keeps(kern, k, p)
      /\ k.p_stat = kern.p_stat /\ k.p_wchan[p] # NoChan
  <2>1. Good(kern, FALSE, p, Dozing) /\ Dozing \in BOOLEAN
    BY <1>2
  <2>2. p \in All /\ kern.p_stat[p] = "SRUN"
    BY <1>2
  <2> QED BY <1>3, <2>1, <2>2, EnterSleepGood
<1>5. ret' \in [All -> {"run", "wait"}]
  BY <1>1, <1>2
<1> HIDE DEF k
<1>6. CASE /\ kern' = k /\ pc' = [pc EXCEPT ![p] = "issig"]
           /\ ctx' = [ctx EXCEPT ![p] = "sleep1"] /\ UNCHANGED noproc
  <2>1. /\ ctx' \in [All -> Ctx] /\ ctx'[p] = "sleep1"
        /\ "issig" \in {"issig", "chld", "stop"}
    BY <1>2, <1>6 DEF Ctx
  <2>2. Lands(kern'.p_stat[p], "issig", noproc') /\ "issig" \in PC
    BY <1>2, <1>4, <1>6 DEF Lands, PC
  <2>3. Good(kern', noproc', p, TRUE) /\ noproc' \in BOOLEAN
    BY <1>2, <1>4, <1>6
  <2> QED BY <1>1, <1>2, <1>4, <1>5, <1>6, <2>1, <2>2, <2>3, ProcStep
<1>7. CASE /\ kern' = [k EXCEPT !.p_stat[p] = "SSLEEP"] /\ UNCHANGED ctx
           /\ pc' = [pc EXCEPT ![p] = IF pri > PZERO THEN "woken" ELSE back]
           /\ noproc' = TRUE
  <2>1. PICK label \in {"woken", "run", "wait"} :
          pc' = [pc EXCEPT ![p] = label]
    BY <1>7
  <2>2. k.p_stat[p] = "SRUN"
    BY <1>2, <1>4
  <2>3. /\ Good(kern', TRUE, p, FALSE) /\ Keeps(k, kern', p)
        /\ kern'.p_stat[p] = "SSLEEP"
    BY <1>2, <1>4, <1>7, <2>2, SleepGood
  <2>4. Keeps(kern, kern', p)
    BY <1>4, <2>3 DEF Keeps
  <2>5. Lands(kern'.p_stat[p], label, noproc') /\ label \in PC
    BY <1>7, <2>3 DEF Lands, PC
  <2>6. Good(kern', noproc', p, FALSE) /\ ctx' \in [All -> Ctx]
    BY <1>2, <1>7, <2>3
  <2> QED BY <1>1, <1>2, <1>5, <1>7, <2>1, <2>4, <2>5, <2>6, ProcStep
<1> QED BY <1>1, <1>6, <1>7

\* sleep() on a device or another channel keeps the inductive invariant.
LEMMA SleepStep ==
  ASSUME IInv, NEW p \in Procs, Sleep(p) \/ WaitSleep(p)
  PROVE  IInv'
<1>1. CASE Sleep(p)
  <2>1. At(p, "run")
    BY <1>1 DEF Sleep
  <2>2. PICK arg \in SleepsOn[p] : SleepCall(p, arg[1], arg[2], "run")
    BY <1>1 DEF Sleep
  <2>3. SleepsOn[p] \in SUBSET (Chan \X {PZERO, PWAIT})
    BY ChanAssumption
  <2>4. arg[1] \in Chan /\ arg[2] \in {PZERO, PWAIT}
    BY <2>2, <2>3
  <2> QED BY <2>1, <2>2, <2>4, SleepCallStep
<1>2. CASE WaitSleep(p)
  <2>1. At(p, "waitsleep") /\ SleepCall(p, ChanOf[p], PWAIT, "wait")
    BY <1>2 DEF WaitSleep
  <2>2. ChanOf[p] \in Chan
    BY ChanAssumption DEF All
  <2> QED BY <2>1, <2>2, SleepCallStep
<1> QED BY <1>1, <1>2

-----------------------------------------------------------------------------
(***************************************************************************)
(* Signals and wakeups, from processes and from interrupts.                *)
(***************************************************************************)

\* What every step may use of the inductive invariant.
LEMMA IInvFacts ==
  ASSUME IInv
  PROVE  /\ kern \in Kern /\ noproc \in BOOLEAN /\ cur \in All
         /\ Dozing \in BOOLEAN /\ Good(kern, noproc, cur, Dozing)
<1>1. Dozing \in BOOLEAN
  BY DEF Dozing
<1> QED BY <1>1 DEF IInv, TypeOK

\* A step that is a psignal() keeps the inductive invariant, if it cannot set
\* the process running that has just stopped itself.
LEMMA PsignalStep ==
  ASSUME IInv, NEW q \in Procs, NEW sig \in Sig,
         noproc \/ q # cur \/ sig \notin {SIGKILL, SIGCONT}
           \/ kern.p_stat[q] # "SSTOP",
         kern' = Psignal(kern, q, sig),
         UNCHANGED <<pc, ctx, ret, cur, noproc, swapvars>>
  PROVE  IInv'
<1>1. kern.p_pptr[q] # q
  BY DEF IInv, Ctl, KernCtl
<1>2. Good(kern', noproc, cur, Dozing) /\ Evolves(kern, kern', noproc, cur)
  BY <1>1, IInvFacts, PsignalGood
<1> QED BY <1>2, EvolveStep

\* kill() keeps the inductive invariant.
LEMMA KillStep ==
  ASSUME IInv, NEW p \in Procs, Kill(p)
  PROVE  IInv'
<1>1. At(p, "run") /\ UNCHANGED <<pc, ctx, ret, cur, noproc, swapvars>>
  BY DEF Kill
<1>2. PICK q \in Procs : \E sig \in Posted[q] : kern' = Psignal(kern, q, sig)
  BY DEF Kill
<1>3. PICK sig \in Posted[q] : kern' = Psignal(kern, q, sig)
  BY <1>2
<1>4. sig \in Sig
  BY SignalAssumption
<1>5. cur = p /\ kern.p_stat[p] = "SRUN"
  <2>1. "run" \notin {"swtch", "exit1"}
    OBVIOUS
  <2> QED BY <1>1, <2>1, AtFacts
<1>6. q # cur \/ kern.p_stat[q] # "SSTOP"
  BY <1>5
<1> QED BY <1>1, <1>3, <1>4, <1>6, PsignalStep

\* A signal from an interrupt handler keeps it, if it does not set a process
\* running before that has called swtch().
LEMMA IntrSignalStep ==
  ASSUME IInv, IntrSignal, ~ContinuedTooSoon
  PROVE  IInv'
<1>1. PICK q \in Procs : \E sig \in IntrSigs[q] : IntrSend(q, sig)
  BY DEF IntrSignal
<1>2. PICK sig \in IntrSigs[q] : IntrSend(q, sig)
  BY <1>1
<1>3. /\ kern' = Psignal(kern, q, sig)
      /\ UNCHANGED <<pc, ctx, ret, cur, noproc, swapvars>>
  BY <1>2 DEF IntrSend
<1>4. sig \in Sig
  BY SignalAssumption
<1>5. sig \in {SIGKILL, SIGCONT} => pc[q] # "swtch"
  BY <1>2 DEF ContinuedTooSoon
<1>6. noproc \/ q # cur \/ pc[q] = "swtch" \/ kern.p_stat[q] # "SSTOP"
  <2>1. q \in All
    BY DEF All
  <2> QED BY <2>1 DEF IInv, Ctl, PcCtl
<1> QED BY <1>3, <1>4, <1>5, <1>6, PsignalStep

\* A wakeup() from an interrupt handler keeps it.
LEMMA IntrWakeupStep ==
  ASSUME IInv, IntrWakeup
  PROVE  IInv'
<1>1. UNCHANGED <<pc, ctx, ret, cur, noproc, swapvars>>
  BY DEF IntrWakeup
<1>2. PICK chan \in IntrChan \cup {SWAPIO} : kern' = Wakeup(kern, chan)
  BY DEF IntrWakeup
<1>3. chan \in AllChan
  BY ChanAssumption DEF AllChan, SwapChan
<1>4. Good(kern', noproc, cur, Dozing) /\ Evolves(kern, kern', noproc, cur)
  BY <1>2, <1>3, IInvFacts, WakeupGood
<1> QED BY <1>1, <1>4, EvolveStep

\* Two wakeups in a row, as schedcpu() and vmmeter() make them.
LEMMA TwoWakeups ==
  ASSUME NEW k, NEW np \in BOOLEAN, NEW r \in All, NEW h \in BOOLEAN,
         NEW c \in AllChan, NEW d \in AllChan, Good(k, np, r, h)
  PROVE  /\ Good(Wakeup(Wakeup(k, c), d), np, r, h)
         /\ Evolves(k, Wakeup(Wakeup(k, c), d), np, r)
<1> DEFINE k1 == Wakeup(k, c)
<1>1. Good(k1, np, r, h) /\ Evolves(k, k1, np, r)
  BY WakeupGood
<1> HIDE DEF k1
<1>2. Good(Wakeup(k1, d), np, r, h) /\ Evolves(k1, Wakeup(k1, d), np, r)
  BY <1>1, WakeupGood
<1>3. Evolves(k, Wakeup(k1, d), np, r)
  BY <1>1, <1>2, EvolvesTrans
<1> QED BY <1>2, <1>3 DEF k1

\* The wakeups of schedcpu() and vmmeter() keep it.
LEMMA ClockStep ==
  ASSUME IInv, SchedcpuWakeup \/ Vmmeter
  PROVE  IInv'
<1>1. UNCHANGED <<pc, ctx, ret, cur, noproc, swapvars>>
  BY DEF SchedcpuWakeup, Vmmeter
<1>2. {LBOLT, RUNIN, RUNOUT} \subseteq AllChan
  BY DEF AllChan, SwapChan
<1>3. Good(kern', noproc, cur, Dozing) /\ Evolves(kern, kern', noproc, cur)
  <2>1. CASE SchedcpuWakeup
    BY <1>2, <2>1, IInvFacts, TwoWakeups DEF SchedcpuWakeup
  <2>2. CASE Vmmeter
    <3> DEFINE k == [kern EXCEPT !.runout = FALSE]
    <3>1. kern' = Wakeup(Wakeup(k, RUNIN), RUNOUT)
      BY <2>2 DEF Vmmeter
    <3>2. k \in Kern /\ Same(kern, k)
      BY IInvFacts, FlagSame
    <3> HIDE DEF k
    <3>3. Good(k, noproc, cur, Dozing) /\ Evolves(kern, k, noproc, cur)
      BY <3>2, IInvFacts, SameGood
    <3>4. Good(kern', noproc, cur, Dozing) /\ Evolves(k, kern', noproc, cur)
      BY <1>2, <3>1, <3>3, IInvFacts, TwoWakeups
    <3> QED BY <3>3, <3>4, IInvFacts, EvolvesTrans
  <2> QED BY <2>1, <2>2
<1> QED BY <1>1, <1>3, EvolveStep

\* schedcpu() moves a queued process: remrq(), new p_pri, setrq().
LEMMA RequeueGood ==
  ASSUME NEW k, NEW np \in BOOLEAN, NEW r \in All, NEW h \in BOOLEAN,
         NEW p \in All, NEW b \in Pri, Good(k, np, r, h), k.p_rlink[p] # NoQ
  PROVE  /\ Good(Setrq([Remrq(k, p) EXCEPT !.p_pri[p] = b], p), np, r, h)
         /\ Evolves(k, Setrq([Remrq(k, p) EXCEPT !.p_pri[p] = b], p), np, r)
<1> DEFINE k1 == Remrq(k, p)
           k2 == [k1 EXCEPT !.p_pri[p] = b]
           k3 == Setrq(k2, p)
<1>1. k \in Kern /\ Bits(k)
  BY DEF Good
<1>2. /\ k1 \in Kern /\ Bits(k1)
      /\ k1.p_stat = k.p_stat /\ k1.p_wchan = k.p_wchan
      /\ k1.p_pptr = k.p_pptr /\ k1.sload = k.sload
      /\ k1.p_rlink[p] = NoQ
      /\ \A x \in All \ {p} : k1.p_rlink[x] = k.p_rlink[x]
  BY <1>1, RemrqFacts
<1> HIDE DEF k1
<1>3. k2 \in Kern
  BY <1>2 DEF Kern
<1>4. /\ k2.p_stat = k1.p_stat /\ k2.p_wchan = k1.p_wchan
      /\ k2.p_pri = [k1.p_pri EXCEPT ![p] = b] /\ k2.p_rlink = k1.p_rlink
      /\ k2.p_pptr = k1.p_pptr
      /\ k2.sload = k1.sload /\ k2.whichqs = k1.whichqs
  BY <1>2 DEF Kern
<1> HIDE DEF k2
<1>5. Bits(k2) /\ k2.p_rlink[p] = NoQ
  BY <1>2, <1>4, KernTypes DEF Bits
<1>6. /\ k3 \in Kern /\ Bits(k3)
      /\ k3.p_stat = k2.p_stat /\ k3.p_wchan = k2.p_wchan
      /\ k3.p_pptr = k2.p_pptr /\ k3.sload = k2.sload
      /\ k3.p_rlink[p] # NoQ
      /\ \A x \in All \ {p} : k3.p_rlink[x] = k2.p_rlink[x]
  BY <1>3, <1>5, SetrqFacts
<1> HIDE DEF k3
<1>7. Good(k3, np, r, h)
  BY <1>1, <1>2, <1>4, <1>6 DEF Good, Queued, Asleeps
<1>8. Evolves(k, k3, np, r)
  BY <1>1, <1>2, <1>4, <1>6, KernTypes DEF Evolves, Stat
<1> QED BY <1>7, <1>8 DEF k1, k2, k3

\* The new priorities schedcpu() gives keep it, for processes in any state.
LEMMA SchedcpuStep ==
  ASSUME IInv, Schedcpu
  PROVE  IInv'
<1>1. UNCHANGED <<pc, ctx, ret, cur, noproc, swapvars>>
  BY DEF Schedcpu
<1>2. PICK p \in Procs, usrpri \in UserPri :
        kern' = Reprioritize(kern, p, usrpri)
  BY DEF Schedcpu
<1>3. p \in All /\ usrpri \in Pri
  BY ChanAssumption DEF All, Pri
<1>4. Good(kern', noproc, cur, Dozing) /\ Evolves(kern, kern', noproc, cur)
  <2>1. CASE kern' = kern
    BY <2>1, IInvFacts, EvolvesRefl
  <2>2. CASE /\ ~(~noproc /\ cur = p) /\ kern.p_stat[p] = "SRUN"
             /\ p \in kern.sload
             /\ kern' = Setrq([Remrq(kern, p) EXCEPT !.p_pri[p] = usrpri], p)
    <3>1. kern.p_rlink[p] # NoQ
      BY <1>3, <2>2 DEF IInv, Good, Queued
    <3>2. kern' = Setrq([Remrq(kern, p) EXCEPT !.p_pri[p] = usrpri], p)
      BY <2>2
    <3> QED BY <1>3, <3>1, <3>2, IInvFacts, RequeueGood
  <2>3. CASE /\ kern.p_rlink[p] = NoQ
             /\ kern' = [kern EXCEPT !.p_pri[p] = usrpri]
    <3>1. /\ Good([kern EXCEPT !.p_pri[p] = usrpri], noproc, cur, Dozing)
          /\ Evolves(kern, [kern EXCEPT !.p_pri[p] = usrpri], noproc, cur)
          /\ [kern EXCEPT !.p_pri[p] = usrpri].p_stat = kern.p_stat
      BY <1>3, <2>3, IInvFacts, PriGood
    <3> QED BY <2>3, <3>1
  <2>4. CASE /\ kern.p_pri[p] = usrpri
             /\ kern' = [kern EXCEPT !.p_pri[p] = usrpri]
    <3>1. kern' \in Kern /\ Same(kern, kern')
      BY <1>3, <2>4, IInvFacts DEF Kern, Same
    <3> QED BY <3>1, IInvFacts, SameGood
  <2>5. Queued(kern, noproc, cur)
    BY DEF IInv, Good
  <2>6. kern.p_rlink[p] # NoQ =>
          kern.p_stat[p] = "SRUN" /\ p \in kern.sload /\ ~(~noproc /\ cur = p)
    BY <1>3, <2>5 DEF Queued
  <2> QED BY <1>2, <2>1, <2>2, <2>3, <2>4, <2>6 DEF Reprioritize, Running
<1> QED BY <1>1, <1>4, EvolveStep

-----------------------------------------------------------------------------
(***************************************************************************)
(* fork, exit, wait and swtch.                                             *)
(***************************************************************************)

\* exit(), as far as the wakeup of init, keeps the inductive invariant.
LEMMA ExitStep ==
  ASSUME IInv, NEW p \in Procs, Exit(p)
  PROVE  IInv'
<1> DEFINE k == [kern EXCEPT !.p_stat[p] = "SZOMB"]
           chan == ChanOf[InitProc]
<1>1. /\ At(p, "exit") /\ UNCHANGED <<ctx, ret, cur, noproc, swapvars>>
      /\ pc' = [pc EXCEPT ![p] = "exit1"]
      /\ kern' \in {k, Wakeup(k, chan), Panic(k, "init died")}
  BY DEF Exit, Goto
<1>2. /\ p \in All /\ kern \in Kern /\ cur = p /\ noproc = FALSE /\ ~noproc
      /\ Good(kern, FALSE, p, Dozing) /\ Dozing \in BOOLEAN /\ ~Dozing
      /\ kern.p_stat[p] = "SRUN" /\ kern.p_wchan[p] = NoChan
      /\ ctx' \in [All -> Ctx] /\ ret' \in [All -> {"run", "wait"}]
  <2>1. "exit" \notin {"swtch", "exit1"} /\ "exit" \notin {"issig", "chld", "stop"}
    OBVIOUS
  <2> QED BY <1>1, <2>1, AtFacts
<1>3. k \in Kern
  BY <1>2 DEF Kern, Stat
<1>4. /\ k.p_stat = [kern.p_stat EXCEPT ![p] = "SZOMB"]
      /\ k.p_wchan = kern.p_wchan /\ k.p_pri = kern.p_pri
      /\ k.p_rlink = kern.p_rlink /\ k.p_pptr = kern.p_pptr
      /\ k.sload = kern.sload /\ k.whichqs = kern.whichqs
  BY <1>2 DEF Kern
<1>5. chan \in AllChan
  BY ProcsAssumption, ChanAssumption DEF AllChan, All
<1> HIDE DEF k, chan
<1>6. Good(k, FALSE, p, FALSE)
  BY <1>2, <1>3, <1>4, KernTypes DEF Good, Queued, Bits, Asleeps
<1>7. Keeps(kern, k, p) /\ k.p_stat[p] = "SZOMB"
  BY <1>2, <1>4, KernTypes DEF Keeps, Stat
<1>8. Good(kern', FALSE, p, FALSE) /\ Evolves(k, kern', FALSE, p)
  <2>1. CASE kern' = k
    BY <1>2, <1>3, <1>6, <2>1, EvolvesRefl
  <2>2. CASE kern' = Wakeup(k, chan)
    BY <1>2, <1>5, <1>6, <2>2, WakeupGood
  <2>3. CASE kern' = Panic(k, "init died")
    <3>1. "init died" \in Why
      BY DEF Why
    <3> QED BY <1>2, <1>6, <2>3, <3>1, PanicGood
  <2> QED BY <1>1, <2>1, <2>2, <2>3
<1>9. Keeps(kern, kern', p) /\ kern'.p_stat[p] = "SZOMB"
  BY <1>7, <1>8 DEF Keeps, Evolves
<1>10. Lands(kern'.p_stat[p], "exit1", noproc') /\ "exit1" \in PC
  BY <1>1, <1>2, <1>9 DEF Lands, PC
<1>11. Good(kern', noproc', p, FALSE) /\ noproc' \in BOOLEAN
  BY <1>1, <1>2, <1>8
<1> QED BY <1>1, <1>2, <1>9, <1>10, <1>11, ProcStep

\* The end of exit() keeps it: a zombie is on no queue.
LEMMA ExitSwtchStep ==
  ASSUME IInv, NEW p \in Procs, ExitSwtch(p)
  PROVE  IInv'
<1> DEFINE parent == kern.p_pptr[p]
           k == PsignalPlain(kern, parent, SIGCHLD)
           chan == ChanOf[parent]
<1>1. /\ At(p, "exit1") /\ UNCHANGED <<ctx, ret, cur, swapvars>>
      /\ pc' = [pc EXCEPT ![p] = "zombie"] /\ noproc' = TRUE
      /\ kern' = Wakeup(k, chan)
  BY DEF ExitSwtch, Goto
<1>2. /\ p \in All /\ kern \in Kern /\ cur = p /\ noproc = FALSE /\ ~noproc
      /\ Good(kern, FALSE, p, Dozing) /\ Dozing \in BOOLEAN /\ ~Dozing
      /\ kern.p_stat[p] = "SZOMB"
      /\ ctx' \in [All -> Ctx] /\ ret' \in [All -> {"run", "wait"}]
  <2>1. "exit1" \notin {"issig", "chld", "stop"}
    OBVIOUS
  <2> QED BY <1>1, <2>1, AtFacts
<1>3. /\ parent \in All /\ SIGCHLD \in Sig
      /\ SIGCHLD \notin {SIGKILL, SIGCONT} /\ chan \in AllChan
  BY <1>2, KernTypes, ChanAssumption
  DEF Sig, SIGCHLD, SIGKILL, SIGCONT, AllChan
<1> HIDE DEF parent, chan
<1>4. Good(k, FALSE, p, Dozing) /\ Evolves(kern, k, FALSE, p)
  BY <1>2, <1>3, PsignalPlainGood
<1> HIDE DEF k
<1>5. Good(kern', FALSE, p, Dozing) /\ Evolves(k, kern', FALSE, p)
  BY <1>1, <1>2, <1>3, <1>4, WakeupGood
<1>6. Evolves(kern, kern', FALSE, p)
  BY <1>2, <1>4, <1>5, EvolvesTrans
<1>7. Keeps(kern, kern', p)
  BY <1>2, <1>6, EvolvesKeeps
<1>8. kern'.p_stat[p] = "SZOMB"
  BY <1>2, <1>6 DEF Evolves
<1>9. Good(kern', noproc', p, FALSE)
  BY <1>1, <1>2, <1>5, <1>8 DEF Good, Queued, Asleeps
<1>10. Lands(kern'.p_stat[p], "zombie", noproc') /\ "zombie" \in PC
  BY <1>1, <1>8 DEF Lands, PC
<1> QED BY <1>1, <1>2, <1>7, <1>9, <1>10, ProcStep

\* spgrp() changes p_sig only.
LEMMA SpgrpSame ==
  ASSUME NEW k \in Kern, NEW q \in Procs
  PROVE  Spgrp(k, q) \in Kern /\ Same(k, Spgrp(k, q))
<1> DEFINE f == [r \in All |-> IF r \in Family(k, q)
                               THEN k.p_sig[r] \ {SIGTSTP, SIGTTIN}
                               ELSE k.p_sig[r]]
<1>1. Spgrp(k, q) = [k EXCEPT !.p_sig = f]
  BY DEF Spgrp
<1>2. f \in [All -> SUBSET Sig]
  BY KernTypes
<1> HIDE DEF f
<1> QED BY <1>1, <1>2 DEF Kern, Same

\* Giving a child to init keeps it, the signals to a stopped child included.
LEMMA ExitChildStep ==
  ASSUME IInv, NEW p \in Procs, ExitChild(p)
  PROVE  IInv'
<1>1. At(p, "exit1") /\ UNCHANGED <<pc, ctx, ret, cur, noproc, swapvars>>
  BY DEF ExitChild
<1>2. PICK q \in Children(kern, p) :
        LET k  == [kern EXCEPT !.p_pptr[q] = InitProc]
            k1 == IF k.p_stat[q] = "SSTOP"
                  THEN PsignalPlain(PsignalPlain(k, q, SIGINT), q, SIGCONT)
                  ELSE k
        IN  kern' = Spgrp(k1, q)
  BY DEF ExitChild
<1> DEFINE k == [kern EXCEPT !.p_pptr[q] = InitProc]
           ka == PsignalPlain(k, q, SIGINT)
           kb == PsignalPlain(ka, q, SIGCONT)
           k1 == IF k.p_stat[q] = "SSTOP" THEN kb ELSE k
<1>3. kern' = Spgrp(k1, q)
  BY <1>2
<1>4. /\ kern \in Kern /\ cur = p /\ noproc = FALSE /\ p \in All
      /\ Good(kern, FALSE, p, Dozing) /\ Dozing \in BOOLEAN
  BY <1>1, AtFacts
<1>5. q \in Procs /\ kern.p_pptr[q] = p /\ q \in All
  BY DEF Children, All
<1>6. q # p /\ q # InitProc
  BY <1>5, ProcsAssumption DEF IInv, Ctl, KernCtl
<1>7. k \in Kern
  BY <1>4, <1>5, ProcsAssumption DEF Kern, All
<1>8. /\ k.p_stat = kern.p_stat /\ k.p_wchan = kern.p_wchan
      /\ k.p_pri = kern.p_pri /\ k.p_rlink = kern.p_rlink
      /\ k.p_pptr = [kern.p_pptr EXCEPT ![q] = InitProc]
      /\ k.sload = kern.sload /\ k.whichqs = kern.whichqs
  BY <1>4 DEF Kern
<1> HIDE DEF k
<1>9. Good(k, FALSE, p, Dozing)
  BY <1>4, <1>7, <1>8 DEF Good, Queued, Bits, Asleeps
<1>10. Ctl(k, pc, FALSE, p, inp, victim)
  <2>1. Ctl(kern, pc, FALSE, p, inp, victim)
    BY <1>4 DEF IInv
  <2>2. KernCtl(k, FALSE, p)
    BY <1>4, <1>6, <1>8, <2>1, KernTypes, ProcsAssumption DEF Ctl, KernCtl
  <2>3. PcCtl(k, pc, FALSE, p)
    BY <1>8, <2>1 DEF Ctl, PcCtl
  <2>4. SwapCtl(k, pc, inp, victim)
    BY <1>8, <2>1 DEF Ctl, SwapCtl, WantsIn
  <2> QED BY <2>2, <2>3, <2>4 DEF Ctl
<1>11. SIGINT \in Sig /\ SIGCONT \in Sig
  BY DEF Sig
<1>12. Good(ka, FALSE, p, Dozing) /\ Evolves(k, ka, FALSE, p)
  BY <1>4, <1>5, <1>6, <1>9, <1>11, PsignalPlainGood
<1> HIDE DEF ka
<1>13. Good(kb, FALSE, p, Dozing) /\ Evolves(ka, kb, FALSE, p)
  BY <1>4, <1>5, <1>6, <1>11, <1>12, PsignalPlainGood
<1> HIDE DEF kb
<1>14. Evolves(k, kb, FALSE, p)
  BY <1>4, <1>12, <1>13, EvolvesTrans
<1>15. Evolves(k, k, FALSE, p)
  BY <1>4, <1>7, EvolvesRefl
<1>16. Good(k1, FALSE, p, Dozing) /\ Evolves(k, k1, FALSE, p)
  BY <1>9, <1>13, <1>14, <1>15
<1> HIDE DEF k1
<1>17. k1 \in Kern
  BY <1>16 DEF Good
<1>18. kern' \in Kern /\ Same(k1, kern')
  BY <1>3, <1>5, <1>17, SpgrpSame
<1>19. Good(kern', FALSE, p, Dozing) /\ Evolves(k1, kern', FALSE, p)
  BY <1>4, <1>16, <1>18, SameGood
<1>20. Evolves(k, kern', FALSE, p)
  BY <1>4, <1>16, <1>19, EvolvesTrans
<1>21. /\ pc \in [All -> PC] /\ inp \in All /\ victim \in All
  BY DEF IInv, TypeOK
<1>22. Ctl(kern', pc, FALSE, p, inp, victim)
  BY <1>4, <1>7, <1>10, <1>18, <1>20, <1>21, CtlEvolves
<1>23. TypeOK'
  BY <1>1, <1>18 DEF IInv, TypeOK, swapvars
<1>24. Dozing' = Dozing
  BY <1>1 DEF Dozing
<1>25. Good(kern', noproc', cur', Dozing')
  BY <1>1, <1>4, <1>19, <1>24
<1>26. Ctl(kern', pc', noproc', cur', inp', victim')
  BY <1>1, <1>4, <1>22 DEF swapvars
<1> QED BY <1>23, <1>25, <1>26 DEF IInv

\* newproc() up to procdup() keeps it: the child is in core, on no queue.
LEMMA ForkStep ==
  ASSUME IInv, NEW p \in Procs, Fork(p)
  PROVE  IInv'
<1>1. At(p, "run") /\ UNCHANGED <<ctx, ret, cur, noproc, swapvars>>
  BY DEF Fork
<1>2. PICK q \in Procs :
        /\ kern.p_stat[q] = "free"
        /\ kern' = [kern EXCEPT !.p_stat[q] = "SIDL", !.p_pptr[q] = p,
                                !.p_wchan[q] = NoChan,
                                !.sload = @ \cup {q}, !.swted = @ \ {q}]
        /\ pc' = [pc EXCEPT ![p] = "procdup", ![q] = "run"]
  BY DEF Fork
<1>3. /\ p \in All /\ kern \in Kern /\ cur = p /\ noproc = FALSE /\ p # Swapper
      /\ Good(kern, FALSE, p, Dozing) /\ Dozing \in BOOLEAN /\ ~Dozing
      /\ kern.p_stat[p] = "SRUN" /\ pc \in [All -> PC]
  <2>1. "run" \notin {"swtch", "exit1"} /\ "run" \notin {"issig", "chld", "stop"}
    OBVIOUS
  <2> QED BY <1>1, <2>1, AtFacts
<1>4. Ctl(kern, pc, FALSE, p, inp, victim)
  BY <1>3 DEF IInv
<1>5. q # p /\ q # InitProc /\ q \in All /\ q # Swapper /\ Swapper \in All
  BY <1>2, <1>3, <1>4, ProcsAssumption DEF Ctl, KernCtl, All
<1> DEFINE s == kern.sload \cup {q}
           t == kern.swted \ {q}
           k == [kern EXCEPT !.p_stat[q] = "SIDL", !.p_pptr[q] = p,
                             !.p_wchan[q] = NoChan, !.sload = s, !.swted = t]
<1>6. kern' = k
  BY <1>2
<1>7. s \in SUBSET All /\ t \in SUBSET All
  BY <1>3, <1>5, KernTypes
<1>8. \A x \in All : x \in s <=> x \in kern.sload \/ x = q
  OBVIOUS
<1> HIDE DEF s, t
<1>9. k \in Kern
  BY <1>3, <1>7 DEF Kern, Stat
<1>10. /\ k.p_stat = [kern.p_stat EXCEPT ![q] = "SIDL"]
       /\ k.p_pptr = [kern.p_pptr EXCEPT ![q] = p]
       /\ k.p_wchan = [kern.p_wchan EXCEPT ![q] = NoChan]
       /\ k.p_pri = kern.p_pri /\ k.p_rlink = kern.p_rlink
       /\ k.sload = s /\ k.whichqs = kern.whichqs
  BY <1>3 DEF Kern
<1> HIDE DEF k
<1>11. Good(k, FALSE, p, FALSE)
  <2>1. Queued(k, FALSE, p) /\ Bits(k)
    BY <1>2, <1>3, <1>5, <1>8, <1>10, KernTypes DEF Good, Queued, Bits
  <2>2. Asleeps(k, FALSE, p, FALSE)
    BY <1>3, <1>5, <1>10, KernTypes DEF Good, Asleeps
  <2>3. \A x \in Procs : k.p_wchan[x] \notin SwapChan
    BY <1>3, <1>5, <1>10, KernTypes, ChanAssumption DEF Good, All, AllChan
  <2>4. k.p_stat[p] # "SSLEEP"
    BY <1>3, <1>5, <1>10, KernTypes
  <2> QED BY <1>9, <2>1, <2>2, <2>3, <2>4 DEF Good
<1> DEFINE at == [pc EXCEPT ![p] = "procdup", ![q] = "run"]
<1>12. /\ \A x \in All : at[x] = IF x = q THEN "run" ELSE
                                 IF x = p THEN "procdup" ELSE pc[x]
       /\ at \in [All -> PC]
  BY <1>3, <1>5 DEF PC
<1> HIDE DEF at
<1>13. Ctl(k, at, FALSE, p, inp, victim)
  <2>1. KernCtl(k, FALSE, p)
    BY <1>3, <1>4, <1>5, <1>8, <1>10, KernTypes, ProcsAssumption
    DEF Ctl, KernCtl, All
  <2>2. PcCtl(k, at, FALSE, p)
    BY <1>3, <1>4, <1>5, <1>10, <1>12, KernTypes DEF Ctl, PcCtl
  <2>3. SwapCtl(k, at, inp, victim)
    <3>1. inp \in All /\ victim \in All /\ at[Swapper] = pc[Swapper]
      BY <1>3, <1>5, <1>12 DEF IInv, TypeOK
    <3> QED
      BY <1>2, <1>3, <1>4, <1>8, <1>10, <3>1, KernTypes
      DEF Ctl, SwapCtl, WantsIn
  <2> QED BY <2>1, <2>2, <2>3 DEF Ctl
<1>14. TypeOK'
  BY <1>1, <1>2, <1>6, <1>9, <1>12 DEF IInv, TypeOK, swapvars, at
<1>15. Good(kern', noproc', cur', Dozing')
  <2>1. Dozing' \in BOOLEAN
    BY DEF Dozing
  <2>2. Good(k, FALSE, p, Dozing')
    BY <1>3, <1>11, <2>1, GoodWeaken
  <2> QED BY <1>1, <1>3, <1>6, <2>2
<1>16. Ctl(kern', pc', noproc', cur', inp', victim')
  BY <1>1, <1>2, <1>3, <1>6, <1>13 DEF swapvars, at
<1> QED BY <1>14, <1>15, <1>16 DEF IInv

\* The rest of newproc() keeps it: the child joins a run queue.
LEMMA ProcdupStep ==
  ASSUME IInv, NEW p \in Procs, Procdup(p)
  PROVE  IInv'
<1>1. /\ At(p, "procdup") /\ UNCHANGED <<ctx, ret, cur, noproc, swapvars>>
      /\ pc' = [pc EXCEPT ![p] = "run"]
  BY DEF Procdup, Goto
<1>2. PICK q \in Procs :
        /\ kern.p_stat[q] = "SIDL"
        /\ kern' = Setrq([kern EXCEPT !.p_stat[q] = "SRUN"], q)
  BY DEF Procdup
<1>3. /\ p \in All /\ kern \in Kern /\ cur = p /\ noproc = FALSE /\ p # Swapper
      /\ Good(kern, FALSE, p, Dozing) /\ Dozing \in BOOLEAN /\ ~Dozing
      /\ kern.p_stat[p] = "SRUN" /\ pc \in [All -> PC]
  <2>1. /\ "procdup" \notin {"swtch", "exit1"}
        /\ "procdup" \notin {"issig", "chld", "stop"}
    OBVIOUS
  <2> QED BY <1>1, <2>1, AtFacts
<1>4. Ctl(kern, pc, FALSE, p, inp, victim)
  BY <1>3 DEF IInv
<1>5. q # p /\ q \in All /\ q # Swapper /\ Swapper \in All /\ q \in kern.sload
  BY <1>2, <1>3, <1>4, ProcsAssumption DEF Ctl, KernCtl, All
<1> DEFINE k == [kern EXCEPT !.p_stat[q] = "SRUN"]
           k2 == Setrq(k, q)
<1>6. k \in Kern
  BY <1>3 DEF Kern, Stat
<1>7. /\ k.p_stat = [kern.p_stat EXCEPT ![q] = "SRUN"]
      /\ k.p_pptr = kern.p_pptr /\ k.p_wchan = kern.p_wchan
      /\ k.p_pri = kern.p_pri /\ k.p_rlink = kern.p_rlink
      /\ k.sload = kern.sload /\ k.whichqs = kern.whichqs
  BY <1>3 DEF Kern
<1> HIDE DEF k
<1>8. Bits(k) /\ k.p_rlink[q] = NoQ
  BY <1>2, <1>3, <1>5, <1>7 DEF Good, Queued, Bits
<1>9. /\ k2 \in Kern /\ Bits(k2)
      /\ k2.p_stat = k.p_stat /\ k2.p_wchan = k.p_wchan
      /\ k2.p_pptr = k.p_pptr /\ k2.sload = k.sload
      /\ k2.p_rlink[q] # NoQ
      /\ \A x \in All \ {q} : k2.p_rlink[x] = k.p_rlink[x]
  BY <1>5, <1>6, <1>8, SetrqFacts
<1>10. kern' = k2
  BY <1>2 DEF k
<1> HIDE DEF k2
<1>11. Good(k2, FALSE, p, FALSE)
  <2>1. Queued(k2, FALSE, p)
    BY <1>3, <1>5, <1>7, <1>9, KernTypes DEF Good, Queued
  <2>2. Asleeps(k2, FALSE, p, FALSE)
    BY <1>2, <1>3, <1>5, <1>7, <1>9, KernTypes DEF Good, Asleeps
  <2>3. k2.p_stat[p] # "SSLEEP"
    BY <1>3, <1>5, <1>7, <1>9, KernTypes
  <2> QED BY <1>3, <1>7, <1>9, <2>1, <2>2, <2>3 DEF Good
<1> DEFINE at == [pc EXCEPT ![p] = "run"]
<1>12. /\ \A x \in All : at[x] = IF x = p THEN "run" ELSE pc[x]
       /\ at \in [All -> PC]
  BY <1>3 DEF PC
<1> HIDE DEF at
<1>13. Ctl(k2, at, FALSE, p, inp, victim)
  <2>1. KernCtl(k2, FALSE, p)
    BY <1>3, <1>4, <1>5, <1>7, <1>9, KernTypes, ProcsAssumption
    DEF Ctl, KernCtl, All
  <2>2. PcCtl(k2, at, FALSE, p)
    BY <1>2, <1>3, <1>4, <1>5, <1>7, <1>9, <1>12, KernTypes DEF Ctl, PcCtl
  <2>3. SwapCtl(k2, at, inp, victim)
    <3>1. inp \in All /\ victim \in All /\ at[Swapper] = pc[Swapper]
      BY <1>3, <1>5, <1>12 DEF IInv, TypeOK
    <3> QED
      BY <1>2, <1>3, <1>4, <1>5, <1>7, <1>9, <3>1, KernTypes
      DEF Ctl, SwapCtl, WantsIn
  <2> QED BY <2>1, <2>2, <2>3 DEF Ctl
<1>14. TypeOK'
  BY <1>1, <1>9, <1>10, <1>12 DEF IInv, TypeOK, swapvars, at
<1>15. Good(kern', noproc', cur', Dozing')
  <2>1. Dozing' \in BOOLEAN
    BY DEF Dozing
  <2>2. Good(k2, FALSE, p, Dozing')
    BY <1>3, <1>11, <2>1, GoodWeaken
  <2> QED BY <1>1, <1>3, <1>10, <2>2
<1>16. Ctl(kern', pc', noproc', cur', inp', victim')
  BY <1>1, <1>3, <1>10, <1>13 DEF swapvars, at
<1> QED BY <1>14, <1>15, <1>16 DEF IInv

\* Reaping a zombie in wait1() keeps the inductive invariant.
LEMMA WaitReapStep ==
  ASSUME IInv, NEW p \in Procs, WaitReap(p)
  PROVE  IInv'
<1>1. /\ At(p, "wait") /\ UNCHANGED <<ctx, ret, cur, noproc, swapvars>>
      /\ pc' = [pc EXCEPT ![p] = "run"]
  BY DEF WaitReap, Goto
<1>2. PICK q \in Children(kern, p) :
        /\ kern.p_stat[q] = "SZOMB"
        /\ kern' = [kern EXCEPT !.p_stat[q] = "free", !.p_pptr[q] = Swapper,
                                !.p_sig[q] = {}, !.p_cursig[q] = NoSig,
                                !.p_wchan[q] = NoChan,
                                !.sload = @ \ {q}, !.swted = @ \ {q}]
  BY DEF WaitReap
<1>3. /\ p \in All /\ kern \in Kern /\ cur = p /\ noproc = FALSE /\ p # Swapper
      /\ Good(kern, FALSE, p, Dozing) /\ Dozing \in BOOLEAN /\ ~Dozing
      /\ kern.p_stat[p] = "SRUN" /\ pc \in [All -> PC]
  <2>1. /\ "wait" \notin {"swtch", "exit1"}
        /\ "wait" \notin {"issig", "chld", "stop"}
    OBVIOUS
  <2> QED BY <1>1, <2>1, AtFacts
<1>4. Ctl(kern, pc, FALSE, p, inp, victim)
  BY <1>3 DEF IInv
<1>5. /\ q \in Procs /\ q # p /\ q # InitProc /\ q \in All /\ q # Swapper
      /\ Swapper \in All
  BY <1>2, <1>3, <1>4, ProcsAssumption DEF Ctl, KernCtl, All, Children
<1> DEFINE s == kern.sload \ {q}
           t == kern.swted \ {q}
           k == [kern EXCEPT !.p_stat[q] = "free", !.p_pptr[q] = Swapper,
                             !.p_sig[q] = {}, !.p_cursig[q] = NoSig,
                             !.p_wchan[q] = NoChan, !.sload = s, !.swted = t]
<1>6. kern' = k
  BY <1>2
<1>7. s \in SUBSET All /\ t \in SUBSET All
  BY <1>3, KernTypes
<1>8. \A x \in All : x \in s <=> x \in kern.sload /\ x # q
  OBVIOUS
<1> HIDE DEF s, t
<1>9. k \in Kern
  <2>1. [kern.p_sig EXCEPT ![q] = {}] \in [All -> SUBSET Sig]
    BY <1>3, KernTypes
  <2> QED BY <1>3, <1>5, <1>7, <2>1 DEF Kern, Stat
<1>10. /\ k.p_stat = [kern.p_stat EXCEPT ![q] = "free"]
       /\ k.p_pptr = [kern.p_pptr EXCEPT ![q] = Swapper]
       /\ k.p_wchan = [kern.p_wchan EXCEPT ![q] = NoChan]
       /\ k.p_pri = kern.p_pri /\ k.p_rlink = kern.p_rlink
       /\ k.sload = s /\ k.whichqs = kern.whichqs
  BY <1>3 DEF Kern
<1> HIDE DEF k
<1>11. Good(k, FALSE, p, FALSE)
  <2>1. Queued(k, FALSE, p) /\ Bits(k)
    BY <1>2, <1>3, <1>5, <1>8, <1>10, KernTypes DEF Good, Queued, Bits
  <2>2. Asleeps(k, FALSE, p, FALSE)
    BY <1>3, <1>5, <1>10, KernTypes DEF Good, Asleeps
  <2>3. \A x \in Procs : k.p_wchan[x] \notin SwapChan
    BY <1>3, <1>5, <1>10, KernTypes, ChanAssumption DEF Good, All, AllChan
  <2>4. k.p_stat[p] # "SSLEEP"
    BY <1>3, <1>5, <1>10, KernTypes
  <2> QED BY <1>9, <2>1, <2>2, <2>3, <2>4 DEF Good
<1> DEFINE at == [pc EXCEPT ![p] = "run"]
<1>12. /\ \A x \in All : at[x] = IF x = p THEN "run" ELSE pc[x]
       /\ at \in [All -> PC]
  BY <1>3 DEF PC
<1> HIDE DEF at
<1>13. Ctl(k, at, FALSE, p, inp, victim)
  <2>1. KernCtl(k, FALSE, p)
    BY <1>3, <1>4, <1>5, <1>8, <1>10, KernTypes, ProcsAssumption
    DEF Ctl, KernCtl, All
  <2>2. PcCtl(k, at, FALSE, p)
    BY <1>3, <1>4, <1>5, <1>10, <1>12, KernTypes DEF Ctl, PcCtl
  <2>3. SwapCtl(k, at, inp, victim)
    <3>1. inp \in All /\ victim \in All /\ at[Swapper] = pc[Swapper]
      BY <1>3, <1>5, <1>12 DEF IInv, TypeOK
    <3> QED
      BY <1>2, <1>3, <1>4, <1>8, <1>10, <3>1, KernTypes
      DEF Ctl, SwapCtl, WantsIn
  <2> QED BY <2>1, <2>2, <2>3 DEF Ctl
<1>14. TypeOK'
  BY <1>1, <1>6, <1>9, <1>12 DEF IInv, TypeOK, swapvars, at
<1>15. Good(kern', noproc', cur', Dozing')
  <2>1. Dozing' \in BOOLEAN
    BY DEF Dozing
  <2>2. Good(k, FALSE, p, Dozing')
    BY <1>3, <1>11, <2>1, GoodWeaken
  <2> QED BY <1>1, <1>3, <1>6, <2>2
<1>16. Ctl(kern', pc', noproc', cur', inp', victim')
  BY <1>1, <1>3, <1>6, <1>13 DEF swapvars, at
<1> QED BY <1>14, <1>15, <1>16 DEF IInv

\* The queue swtch() looks at has its bit in whichqs.
LEMMA BestQueueBit ==
  ASSUME kern \in Kern, kern.whichqs # {}
  PROVE  BestQueue \in kern.whichqs /\ BestQueue \in Pri
<1> DEFINE S == kern.whichqs
<1>1. S \in SUBSET Pri
  BY KernTypes
<1>2. \E b \in S : \A c \in S : b <= c
  <2>1. S # {}
    OBVIOUS
  <2> HIDE DEF S
  <2>2. \A b \in S : b \in {1, 2, 3, 4}
    BY <1>1 DEF Pri, PZERO, PWAIT, PUSER, PLOW
  <2>3. CASE 1 \in S
    BY <2>2, <2>3
  <2>4. CASE 1 \notin S /\ 2 \in S
    BY <2>2, <2>4
  <2>5. CASE {1, 2} \cap S = {} /\ 3 \in S
    BY <2>2, <2>5
  <2>6. CASE {1, 2, 3} \cap S = {} /\ 4 \in S
    BY <2>2, <2>6
  <2> QED BY <2>1, <2>2, <2>3, <2>4, <2>5, <2>6
<1>3. BestQueue \in S
  BY <1>2 DEF BestQueue
<1> QED BY <1>1, <1>3

\* swtch() keeps the inductive invariant.
LEMMA SwtchStep ==
  ASSUME IInv, Swtch
  PROVE  IInv'
<1>1. /\ noproc = TRUE /\ kern.whichqs # {} /\ kern \in Kern
      /\ UNCHANGED <<pc, ctx, ret, swapvars>>
  BY DEF Swtch, IInv, TypeOK
<1>2. CASE OnQueue(kern, BestQueue) = {}
  <2>1. kern' = Panic(kern, "swtch") /\ UNCHANGED <<cur, noproc>>
    BY <1>2 DEF Swtch
  <2>2. "swtch" \in Why
    BY DEF Why
  <2>3. Good(kern', noproc, cur, Dozing) /\ Evolves(kern, kern', noproc, cur)
    BY <2>1, <2>2, IInvFacts, PanicGood
  <2> QED BY <1>1, <2>1, <2>3, EvolveStep
<1>3. CASE OnQueue(kern, BestQueue) # {}
  <2>1. PICK p \in OnQueue(kern, BestQueue) :
          /\ kern' = Switched(kern, p, BestQueue)
          /\ cur' = p /\ noproc' = FALSE
    BY <1>3 DEF Swtch
  <2> DEFINE b == BestQueue
  <2>2. b \in Pri /\ p \in All /\ kern.p_rlink[p] = b
    BY <1>1, BestQueueBit DEF OnQueue
  <2>3. Good(kern, TRUE, cur, Dozing)
    BY <1>1 DEF IInv
  <2>4. /\ kern.p_stat[p] = "SRUN" /\ p \in kern.sload
        /\ kern.p_wchan[p] = NoChan /\ Bits(kern)
    BY <2>2, <2>3, NoQPri DEF Good, Queued, Asleeps
  <2> HIDE DEF b
  <2> DEFINE k == Switched(kern, p, b)
  <2>5. /\ k \in Kern /\ Bits(k)
        /\ k.p_stat = kern.p_stat /\ k.p_wchan = kern.p_wchan
        /\ k.p_pptr = kern.p_pptr /\ k.sload = kern.sload
        /\ k.p_rlink[p] = NoQ
        /\ \A x \in All \ {p} : k.p_rlink[x] = kern.p_rlink[x]
    BY <1>1, <2>2, <2>4, SwitchedFacts
  <2>6. kern' = k
    BY <2>1 DEF b
  <2> HIDE DEF k
  <2>7. Good(k, FALSE, p, FALSE)
    BY <2>3, <2>4, <2>5 DEF Good, Queued, Asleeps
  <2>8. Ctl(k, pc, FALSE, p, inp, victim)
    <3>1. Ctl(kern, pc, TRUE, cur, inp, victim)
      BY <1>1 DEF IInv
    <3>2. KernCtl(k, FALSE, p)
      BY <2>4, <2>5, <3>1 DEF Ctl, KernCtl
    <3>3. PcCtl(k, pc, FALSE, p)
      BY <2>2, <2>4, <2>5, <3>1 DEF Ctl, PcCtl
    <3>4. SwapCtl(k, pc, inp, victim)
      BY <2>5, <3>1 DEF Ctl, SwapCtl, WantsIn
    <3> QED BY <3>2, <3>3, <3>4 DEF Ctl
  <2>9. TypeOK'
    BY <1>1, <2>1, <2>2, <2>5, <2>6 DEF IInv, TypeOK, swapvars
  <2>10. Good(kern', noproc', cur', Dozing')
    <3>1. Dozing' \in BOOLEAN
      BY DEF Dozing
    <3>2. Good(k, FALSE, p, Dozing')
      BY <2>2, <2>7, <3>1, GoodWeaken
    <3> QED BY <2>1, <2>6, <3>2
  <2>11. Ctl(kern', pc', noproc', cur', inp', victim')
    BY <1>1, <2>1, <2>6, <2>8 DEF swapvars
  <2> QED BY <2>9, <2>10, <2>11 DEF IInv
<1> QED BY <1>2, <1>3

-----------------------------------------------------------------------------
(***************************************************************************)
(* The swapper.                                                            *)
(***************************************************************************)

\* What the inductive invariant says of the swapper.
LEMMA SwapperFacts ==
  ASSUME IInv, NEW label, At(Swapper, label)
  PROVE  /\ noproc = FALSE /\ cur = Swapper /\ pc[Swapper] = label
         /\ Swapper \in All /\ kern \in Kern /\ pc \in [All -> PC]
         /\ Good(kern, FALSE, Swapper, FALSE)
         /\ kern.p_stat[Swapper] = "SRUN" /\ Swapper \in kern.sload
         /\ label \in SwapLabel
         /\ label # "loop" /\ inp # Swapper => WantsIn(kern, inp)
         /\ label = "inio" => inp # Swapper
         /\ label \in {"dead", "out", "outio"} =>
              kern.p_stat[victim] \in {"SRUN", "SSLEEP", "SSTOP"}
         /\ label = "dead" => victim \in Procs
         /\ label \in {"out", "outio"} => victim \notin kern.sload
         /\ ctx \in [All -> Ctx] /\ ret \in [All -> {"run", "wait"}]
         /\ todo \in SUBSET Procs /\ inp \in All /\ victim \in All
         /\ skipped \in SUBSET Procs
<1>1. /\ noproc = FALSE /\ cur = Swapper /\ pc[Swapper] = label
      /\ Swapper \in All /\ kern \in Kern /\ pc \in [All -> PC]
      /\ ctx \in [All -> Ctx] /\ ret \in [All -> {"run", "wait"}]
      /\ todo \in SUBSET Procs /\ inp \in All /\ victim \in All
      /\ skipped \in SUBSET Procs
  BY DEF At, Running, IInv, TypeOK, All
<1>2. Ctl(kern, pc, FALSE, Swapper, inp, victim)
  BY <1>1 DEF IInv
<1>3. /\ label \in SwapLabel
      /\ label # "loop" /\ inp # Swapper => WantsIn(kern, inp)
      /\ label = "inio" => inp # Swapper
      /\ label \in {"dead", "out", "outio"} =>
           kern.p_stat[victim] \in {"SRUN", "SSLEEP", "SSTOP"}
      /\ label = "dead" => victim \in Procs
      /\ label \in {"out", "outio"} => victim \notin kern.sload
  BY <1>1, <1>2 DEF Ctl, SwapCtl
<1>4. kern.p_stat[Swapper] = "SRUN" /\ Swapper \in kern.sload
  BY <1>1, <1>2, <1>3 DEF Ctl, PcCtl, KernCtl, SwapLabel
<1>5. Dozing = FALSE
  BY <1>1, <1>3 DEF Dozing, SwapLabel
<1>6. Good(kern, FALSE, Swapper, FALSE)
  BY <1>1, <1>5 DEF IInv
<1> QED BY <1>1, <1>3, <1>4, <1>6

\* A step of the swapper that leaves SLOAD as it is.
LEMMA SwapStep ==
  ASSUME IInv, NEW from, At(Swapper, from), NEW label,
         label \in SwapLabel,
         pc' = [pc EXCEPT ![Swapper] = label], UNCHANGED <<ret, cur>>,
         noproc' \in BOOLEAN, ctx' \in [All -> Ctx],
         todo' \in SUBSET Procs, inp' \in All, victim' \in All,
         skipped' \in SUBSET Procs,
         Good(kern', noproc', Swapper, FALSE), Keeps(kern, kern', Swapper),
         kern'.p_stat[Swapper] = IF noproc' THEN "SSLEEP" ELSE "SRUN",
         label # "loop" /\ inp' # Swapper => WantsIn(kern, inp'),
         label = "inio" => inp' # Swapper,
         label \in {"dead", "out", "outio"} =>
           kern.p_stat[victim'] \in {"SRUN", "SSLEEP", "SSTOP"},
         label = "dead" => ~noproc' /\ victim' \in Procs,
         label \in {"out", "outio"} => victim' \notin kern.sload
  PROVE  IInv'
<1>1. /\ noproc = FALSE /\ cur = Swapper /\ Swapper \in All
      /\ kern \in Kern /\ pc \in [All -> PC] /\ Swapper \in kern.sload
      /\ ret \in [All -> {"run", "wait"}] /\ kern' \in Kern
      /\ kern.p_stat[Swapper] = "SRUN"
  BY SwapperFacts DEF Good
<1>2. /\ \A x \in All : pc'[x] = IF x = Swapper THEN label ELSE pc[x]
      /\ pc' \in [All -> PC]
  BY <1>1 DEF PC, SwapLabel
<1>3. TypeOK'
  BY <1>1, <1>2 DEF TypeOK
<1>4. Good(kern', noproc', cur', Dozing')
  <2>1. Dozing' \in BOOLEAN
    BY DEF Dozing
  <2>2. Good(kern', noproc', Swapper, Dozing')
    BY <2>1, GoodWeaken
  <2> QED BY <1>1, <2>2
<1>5. Ctl(kern, pc, FALSE, Swapper, inp, victim)
  BY <1>1 DEF IInv
<1>6. KernCtl(kern', noproc', cur')
  BY <1>1, <1>5, ProcsAssumption DEF Ctl, KernCtl, Keeps, All
<1>7. PcCtl(kern', pc', noproc', cur')
  BY <1>1, <1>2, <1>5 DEF Ctl, PcCtl, Keeps, SwapLabel
<1>8. SwapCtl(kern', pc', inp', victim')
  <2>1. label # "loop" /\ inp' # Swapper => WantsIn(kern', inp')
    BY <1>1 DEF Keeps, WantsIn
  <2>2. /\ label \in {"dead", "out", "outio"} =>
             kern'.p_stat[victim'] \in {"SRUN", "SSLEEP", "SSTOP"}
        /\ label \in {"out", "outio"} => victim' \notin kern'.sload
    BY <1>1 DEF Keeps
  <2> QED BY <1>1, <1>2, <2>1, <2>2 DEF SwapCtl
<1> QED BY <1>3, <1>4, <1>6, <1>7, <1>8 DEF IInv, Ctl

\* What a sleep() of the swapper does to the kernel data.
LEMMA SwapSleepGood ==
  ASSUME NEW k, Good(k, FALSE, Swapper, FALSE),
         k.p_stat[Swapper] = "SRUN", ctx \in [All -> Ctx],
         NEW chan \in SwapChan, NEW back, SwapSleep(k, chan, back)
  PROVE  /\ Good(kern', noproc', Swapper, FALSE)
         /\ Keeps(k, kern', Swapper)
         /\ \A x \in Procs : kern'.p_stat[x] = k.p_stat[x]
         /\ kern'.p_stat[Swapper] = IF noproc' THEN "SSLEEP" ELSE "SRUN"
         /\ noproc' = TRUE /\ noproc' \in BOOLEAN
         /\ pc' = [pc EXCEPT ![Swapper] = back] /\ UNCHANGED <<ret, cur>>
         /\ ctx' \in [All -> Ctx]
<1> DEFINE k1 == EnterSleep(k, Swapper, chan, PZERO)
<1>1. /\ kern' = [k1 EXCEPT !.p_stat[Swapper] = "SSLEEP"] /\ noproc' = TRUE
      /\ pc' = [pc EXCEPT ![Swapper] = back] /\ UNCHANGED <<ctx, ret, cur>>
  BY DEF SwapSleep, Goto
<1>2. /\ chan \in AllChan /\ PZERO \in Pri /\ k \in Kern
      /\ Swapper \notin Procs /\ Swapper \in All
  BY ProcsAssumption DEF AllChan, Pri, All, Good
<1>3. /\ Good(k1, FALSE, Swapper, TRUE) /\ Keeps(k, k1, Swapper)
      /\ k1.p_stat = k.p_stat /\ k1.p_wchan[Swapper] # NoChan
  BY <1>2, EnterSleepGood
<1> HIDE DEF k1
<1>4. k1.p_stat[Swapper] = "SRUN" /\ k1 \in Kern
  BY <1>3 DEF Good
<1>5. /\ Good(kern', TRUE, Swapper, FALSE) /\ Keeps(k1, kern', Swapper)
      /\ kern'.p_stat[Swapper] = "SSLEEP"
  BY <1>1, <1>2, <1>3, <1>4, SleepGood
<1>6. Keeps(k, kern', Swapper)
  BY <1>3, <1>5 DEF Keeps
<1>7. kern'.p_stat = [k.p_stat EXCEPT ![Swapper] = "SSLEEP"]
  BY <1>1, <1>3, <1>4 DEF Kern
<1>8. \A x \in Procs : kern'.p_stat[x] = k.p_stat[x]
  BY <1>2, <1>7, KernTypes DEF All
<1> QED BY <1>1, <1>5, <1>6, <1>8

\* A sleep() of the swapper.
LEMMA SwapSleepFacts ==
  ASSUME IInv, NEW from, At(Swapper, from), NEW k \in Kern, Same(kern, k),
         NEW chan \in SwapChan, NEW back, SwapSleep(k, chan, back)
  PROVE  /\ Good(kern', noproc', Swapper, FALSE)
         /\ Keeps(kern, kern', Swapper)
         /\ kern'.p_stat[Swapper] = IF noproc' THEN "SSLEEP" ELSE "SRUN"
         /\ noproc' = TRUE /\ noproc' \in BOOLEAN
         /\ pc' = [pc EXCEPT ![Swapper] = back] /\ UNCHANGED <<ret, cur>>
         /\ ctx' \in [All -> Ctx]
<1>1. /\ Swapper \in All /\ kern \in Kern /\ Good(kern, FALSE, Swapper, FALSE)
      /\ kern.p_stat[Swapper] = "SRUN" /\ ctx \in [All -> Ctx]
  BY SwapperFacts
<1>2. Good(k, FALSE, Swapper, FALSE)
  BY <1>1, SameGood
<1>3. k.p_stat[Swapper] = "SRUN"
  BY <1>1 DEF Same
<1>4. /\ Good(kern', noproc', Swapper, FALSE) /\ Keeps(k, kern', Swapper)
      /\ kern'.p_stat[Swapper] = IF noproc' THEN "SSLEEP" ELSE "SRUN"
      /\ noproc' = TRUE /\ noproc' \in BOOLEAN
      /\ pc' = [pc EXCEPT ![Swapper] = back] /\ UNCHANGED <<ret, cur>>
      /\ ctx' \in [All -> Ctx]
  BY <1>1, <1>2, <1>3, SwapSleepGood
<1>5. Keeps(kern, kern', Swapper)
  BY <1>1, <1>4, SameKeeps
<1> QED BY <1>4, <1>5

\* The flags only.
LEMMA SwapFlagFacts ==
  ASSUME IInv, NEW from, At(Swapper, from), kern' \in Kern,
         Same(kern, kern'), UNCHANGED noproc
  PROVE  /\ Good(kern', noproc', Swapper, FALSE)
         /\ Keeps(kern, kern', Swapper) /\ noproc' \in BOOLEAN
         /\ kern'.p_stat[Swapper] = IF noproc' THEN "SSLEEP" ELSE "SRUN"
<1>1. /\ Swapper \in All /\ kern \in Kern /\ Good(kern, FALSE, Swapper, FALSE)
      /\ kern.p_stat[Swapper] = "SRUN" /\ noproc = FALSE
  BY SwapperFacts
<1>2. /\ Good(kern', FALSE, Swapper, FALSE)
      /\ Evolves(kern, kern', FALSE, Swapper)
  BY <1>1, SameGood
<1>3. Keeps(kern, kern', Swapper)
  BY <1>1, <1>2, EvolvesKeeps
<1>4. kern'.p_stat[Swapper] = "SRUN" /\ noproc' = FALSE
  BY <1>1 DEF Same
<1>5. Good(kern', noproc', Swapper, FALSE)
  BY <1>2, <1>4
<1> QED BY <1>3, <1>4, <1>5

\* The head of the loop in sched() keeps the inductive invariant.
LEMMA SchedLoopStep ==
  ASSUME IInv, SchedLoop
  PROVE  IInv'
<1>1. /\ At(Swapper, "loop") /\ kern' = [kern EXCEPT !.wantin = FALSE]
      /\ inp' = Swapper /\ skipped' = {}
      /\ UNCHANGED <<ctx, ret, cur, noproc, victim>>
  BY DEF SchedLoop
<1>2. /\ kern \in Kern /\ ctx \in [All -> Ctx] /\ victim \in All
      /\ todo \in SUBSET Procs /\ Swapper \in All
  BY <1>1, SwapperFacts
<1>3. PICK label \in {"scan", "hard"} :
        pc' = [pc EXCEPT ![Swapper] = label] /\ todo' \in SUBSET Procs
  BY <1>2 DEF SchedLoop, Goto
<1>4. kern' \in Kern /\ Same(kern, kern')
  BY <1>1, <1>2, FlagSame
<1>5. /\ Good(kern', noproc', Swapper, FALSE)
      /\ Keeps(kern, kern', Swapper) /\ noproc' \in BOOLEAN
      /\ kern'.p_stat[Swapper] = IF noproc' THEN "SSLEEP" ELSE "SRUN"
  BY <1>1, <1>4, SwapFlagFacts
<1>6. /\ label \in SwapLabel
      /\ label # "inio" /\ label \notin {"dead", "out", "outio"}
  BY DEF SwapLabel
<1>7. /\ ctx' \in [All -> Ctx] /\ victim' \in All /\ inp' \in All
      /\ skipped' \in SUBSET Procs
  BY <1>1, <1>2
<1> QED BY <1>1, <1>3, <1>5, <1>6, <1>7, SwapStep

\* The scan of sched() keeps it: a candidate stays runnable and out of core.
LEMMA SchedScanStep ==
  ASSUME IInv, SchedScan
  PROVE  IInv'
<1>1. At(Swapper, "scan") /\ UNCHANGED <<kern, ctx, ret, cur, noproc>>
  BY DEF SchedScan
<1>2. /\ kern \in Kern /\ ctx \in [All -> Ctx] /\ victim \in All
      /\ todo \in SUBSET Procs /\ Swapper \in All /\ inp \in All
      /\ skipped \in SUBSET Procs /\ noproc = FALSE
      /\ pc \in [All -> PC] /\ pc[Swapper] = "scan"
      /\ inp # Swapper => WantsIn(kern, inp)
  <2>1. "scan" # "loop"
    OBVIOUS
  <2> QED BY <1>1, <2>1, SwapperFacts
<1>3. PICK q \in todo :
        /\ todo' = todo \ {q} /\ skipped' \in {skipped, skipped \cup {q}}
        /\ (WantsIn(kern, q) /\ inp' = q) \/ inp' = inp
        /\ \/ UNCHANGED <<pc, victim>>
           \/ /\ Asleep(kern, q) /\ victim' = q
              /\ pc' = [pc EXCEPT ![Swapper] = "dead"]
  BY DEF SchedScan, Goto
<1>4. kern' \in Kern /\ Same(kern, kern')
  BY <1>1, <1>2, SameRefl
<1>5. /\ Good(kern', noproc', Swapper, FALSE)
      /\ Keeps(kern, kern', Swapper) /\ noproc' \in BOOLEAN
      /\ kern'.p_stat[Swapper] = IF noproc' THEN "SSLEEP" ELSE "SRUN"
  BY <1>1, <1>4, SwapFlagFacts
<1>6. /\ "scan" \in SwapLabel /\ "scan" # "inio"
      /\ "scan" \notin {"dead", "out", "outio"}
      /\ "dead" \in SwapLabel /\ "dead" # "inio"
      /\ "dead" \notin {"out", "outio"}
  BY DEF SwapLabel
<1>7. /\ ctx' \in [All -> Ctx] /\ victim' \in All /\ inp' \in All
      /\ todo' \in SUBSET Procs /\ skipped' \in SUBSET Procs
  BY <1>1, <1>2, <1>3 DEF All
<1>8. inp' # Swapper => WantsIn(kern, inp')
  BY <1>2, <1>3
<1>9. CASE UNCHANGED <<pc, victim>>
  <2>1. pc' = [pc EXCEPT ![Swapper] = "scan"]
    BY <1>2, <1>9
  <2> QED BY <1>1, <1>5, <1>6, <1>7, <1>8, <2>1, SwapStep
<1>10. CASE /\ Asleep(kern, q) /\ victim' = q
            /\ pc' = [pc EXCEPT ![Swapper] = "dead"]
  <2>1. /\ kern.p_stat[victim'] \in {"SRUN", "SSLEEP", "SSTOP"}
        /\ ~noproc' /\ victim' \in Procs
    BY <1>1, <1>2, <1>10 DEF Asleep
  <2> QED BY <1>1, <1>5, <1>6, <1>7, <1>8, <1>10, <2>1, SwapStep
<1> QED BY <1>3, <1>9, <1>10

\* sched() with no one to bring in keeps it.
LEMMA SchedIdleStep ==
  ASSUME IInv, SchedIdle
  PROVE  IInv'
<1>1. At(Swapper, "scan") /\ UNCHANGED swapvars
  BY DEF SchedIdle
<1>2. /\ kern \in Kern /\ victim' \in All /\ inp' \in All
      /\ todo' \in SUBSET Procs /\ skipped' \in SUBSET Procs
  BY <1>1, SwapperFacts DEF swapvars
<1>3. PICK k \in Kern, chan \in SwapChan :
        Same(kern, k) /\ SwapSleep(k, chan, "loop")
  <2>1. CASE SwapSleep([kern EXCEPT !.wantin = FALSE], LBOLT, "loop")
    <3>1. /\ [kern EXCEPT !.wantin = FALSE] \in Kern /\ LBOLT \in SwapChan
          /\ Same(kern, [kern EXCEPT !.wantin = FALSE])
      BY <1>2, FlagSame DEF SwapChan
    <3> QED BY <2>1, <3>1
  <2>2. CASE SwapSleep([kern EXCEPT !.runout = TRUE], RUNOUT, "loop")
    <3>1. /\ [kern EXCEPT !.runout = TRUE] \in Kern /\ RUNOUT \in SwapChan
          /\ Same(kern, [kern EXCEPT !.runout = TRUE])
      BY <1>2, FlagSame DEF SwapChan
    <3> QED BY <2>2, <3>1
  <2> QED BY <2>1, <2>2 DEF SchedIdle
<1>4. /\ Good(kern', noproc', Swapper, FALSE)
      /\ Keeps(kern, kern', Swapper) /\ noproc' \in BOOLEAN
      /\ kern'.p_stat[Swapper] = IF noproc' THEN "SSLEEP" ELSE "SRUN"
      /\ pc' = [pc EXCEPT ![Swapper] = "loop"] /\ UNCHANGED <<ret, cur>>
      /\ ctx' \in [All -> Ctx]
  BY <1>1, <1>3, SwapSleepFacts
<1>5. /\ "loop" \in SwapLabel
      /\ "loop" # "inio" /\ "loop" \notin {"dead", "out", "outio"}
  BY DEF SwapLabel
<1> QED BY <1>1, <1>2, <1>4, <1>5, SwapStep

\* sched() with someone to bring in keeps it.
LEMMA SchedInStep ==
  ASSUME IInv, SchedIn
  PROVE  IInv'
<1>1. /\ At(Swapper, "scan") /\ UNCHANGED swapvars /\ inp # Swapper
      /\ \/ SwapSleep(kern, SWAPIO, "inio")
         \/ /\ pc' = [pc EXCEPT ![Swapper] = "hard"]
            /\ UNCHANGED <<kern, ctx, ret, cur, noproc>>
  BY DEF SchedIn, Goto
<1>2. /\ kern \in Kern /\ victim' \in All /\ inp' \in All
      /\ todo' \in SUBSET Procs
      /\ skipped' \in SUBSET Procs /\ ctx \in [All -> Ctx]
      /\ WantsIn(kern, inp) /\ inp' = inp
  <2>1. "scan" # "loop"
    OBVIOUS
  <2> QED BY <1>1, <2>1, SwapperFacts DEF swapvars
<1>3. Same(kern, kern) /\ SWAPIO \in SwapChan
  BY SameRefl DEF SwapChan
<1>4. CASE SwapSleep(kern, SWAPIO, "inio")
  <2>1. /\ Good(kern', noproc', Swapper, FALSE)
        /\ Keeps(kern, kern', Swapper) /\ noproc' \in BOOLEAN
        /\ kern'.p_stat[Swapper] = IF noproc' THEN "SSLEEP" ELSE "SRUN"
        /\ pc' = [pc EXCEPT ![Swapper] = "inio"] /\ UNCHANGED <<ret, cur>>
        /\ ctx' \in [All -> Ctx]
    BY <1>1, <1>2, <1>3, <1>4, SwapSleepFacts
  <2>2. /\ "inio" \in SwapLabel
        /\ "inio" \notin {"dead", "out", "outio"}
    BY DEF SwapLabel
  <2> QED BY <1>1, <1>2, <2>1, <2>2, SwapStep
<1>5. CASE /\ pc' = [pc EXCEPT ![Swapper] = "hard"]
           /\ UNCHANGED <<kern, ctx, ret, cur, noproc>>
  <2>1. /\ Good(kern', noproc', Swapper, FALSE)
        /\ Keeps(kern, kern', Swapper) /\ noproc' \in BOOLEAN
        /\ kern'.p_stat[Swapper] = IF noproc' THEN "SSLEEP" ELSE "SRUN"
    BY <1>1, <1>2, <1>3, <1>5, SwapFlagFacts
  <2>2. /\ "hard" \in SwapLabel
        /\ "hard" # "inio" /\ "hard" \notin {"dead", "out", "outio"}
    BY DEF SwapLabel
  <2>3. ctx' \in [All -> Ctx]
    BY <1>2, <1>5
  <2> QED BY <1>1, <1>2, <1>5, <2>1, <2>2, <2>3, SwapStep
<1> QED BY <1>1, <1>4, <1>5

\* swapout() that waits for its writes keeps it.
LEMMA SwapoutStartStep ==
  ASSUME IInv, SwapoutStart
  PROVE  IInv'
<1>1. /\ At(Swapper, "out") /\ UNCHANGED swapvars
      /\ SwapSleep(kern, SWAPIO, "outio")
  BY DEF SwapoutStart
<1>2. /\ kern \in Kern /\ victim' \in All /\ inp' \in All
      /\ todo' \in SUBSET Procs /\ skipped' \in SUBSET Procs
      /\ victim' \notin kern.sload
      /\ kern.p_stat[victim'] \in {"SRUN", "SSLEEP", "SSTOP"}
      /\ inp' # Swapper => WantsIn(kern, inp')
  <2>1. "out" # "loop" /\ "out" \in {"out", "outio"}
    OBVIOUS
  <2> QED BY <1>1, <2>1, SwapperFacts DEF swapvars
<1>3. Same(kern, kern) /\ SWAPIO \in SwapChan
  BY SameRefl DEF SwapChan
<1>4. /\ Good(kern', noproc', Swapper, FALSE)
      /\ Keeps(kern, kern', Swapper) /\ noproc' \in BOOLEAN
      /\ kern'.p_stat[Swapper] = IF noproc' THEN "SSLEEP" ELSE "SRUN"
      /\ pc' = [pc EXCEPT ![Swapper] = "outio"] /\ UNCHANGED <<ret, cur>>
      /\ ctx' \in [All -> Ctx]
  BY <1>1, <1>2, <1>3, SwapSleepFacts
<1>5. /\ "outio" \in SwapLabel
      /\ "outio" # "inio" /\ "outio" # "dead"
  BY DEF SwapLabel
<1> QED BY <1>1, <1>2, <1>4, <1>5, SwapStep

\* The end of swapout() keeps it.
LEMMA SwapoutEndStep ==
  ASSUME IInv, SwapoutEnd
  PROVE  IInv'
<1> DEFINE k == [kern EXCEPT !.sload = @ \ {victim}]
           k0 == [k EXCEPT !.runout = FALSE]
           k1 == IF k.runout THEN Wakeup(k0, RUNOUT) ELSE k
<1>1. /\ At(Swapper, "outio") /\ UNCHANGED <<ctx, ret, cur, noproc, swapvars>>
      /\ kern' = IF victim \in kern.sload THEN Panic(kern, "swapout") ELSE k1
  BY DEF SwapoutEnd
<1>2. PICK label \in {"scan", "loop"} : pc' = [pc EXCEPT ![Swapper] = label]
  BY DEF SwapoutEnd, Goto
<1>3. /\ kern \in Kern /\ victim' \in All /\ inp' \in All /\ Swapper \in All
      /\ todo' \in SUBSET Procs
      /\ skipped' \in SUBSET Procs /\ victim \notin kern.sload
      /\ inp' # Swapper => WantsIn(kern, inp')
      /\ ctx' \in [All -> Ctx] /\ noproc = FALSE
      /\ Good(kern, FALSE, Swapper, FALSE) /\ kern.p_stat[Swapper] = "SRUN"
  <2>1. "outio" # "loop" /\ "outio" \in {"out", "outio"}
    OBVIOUS
  <2>2. At(Swapper, "outio") /\ UNCHANGED <<ctx, todo, inp, victim, skipped>>
    BY <1>1 DEF swapvars
  <2>3. /\ kern \in Kern /\ victim \in All /\ inp \in All /\ Swapper \in All
        /\ todo \in SUBSET Procs
        /\ skipped \in SUBSET Procs /\ ctx \in [All -> Ctx] /\ noproc = FALSE
        /\ Good(kern, FALSE, Swapper, FALSE) /\ kern.p_stat[Swapper] = "SRUN"
    BY <2>2, SwapperFacts
  <2>4. victim \notin kern.sload
    BY <2>1, <2>2, SwapperFacts
  <2>5. inp # Swapper => WantsIn(kern, inp)
    BY <2>1, <2>2, SwapperFacts
  <2> QED BY <2>2, <2>3, <2>4, <2>5
<1>4. kern' = k1
  BY <1>1, <1>3
<1>5. k \in Kern /\ Same(kern, k)
  <2>1. kern.sload \ {victim} = kern.sload
    BY <1>3
  <2> QED BY <1>3, <2>1, KernTypes DEF Kern, Same
<1> HIDE DEF k
<1>6. /\ Good(k, FALSE, Swapper, FALSE) /\ Evolves(kern, k, FALSE, Swapper)
  BY <1>3, <1>5, SameGood
<1>7. k0 \in Kern /\ Same(k, k0)
  BY <1>5, FlagSame
<1> HIDE DEF k0
<1>8. /\ Good(k0, FALSE, Swapper, FALSE) /\ Evolves(k, k0, FALSE, Swapper)
  BY <1>3, <1>6, <1>7, SameGood
<1>9. RUNOUT \in AllChan
  BY DEF AllChan, SwapChan
<1> DEFINE kw == Wakeup(k0, RUNOUT)
<1>10. Good(kw, FALSE, Swapper, FALSE) /\ Evolves(k0, kw, FALSE, Swapper)
  BY <1>3, <1>8, <1>9, WakeupGood
<1>11. kern' \in {k, kw}
  BY <1>4
<1> HIDE DEF kw, k1
<1>12. Evolves(kern, k0, FALSE, Swapper)
  BY <1>3, <1>6, <1>8, EvolvesTrans
<1>13. Evolves(kern, kw, FALSE, Swapper)
  BY <1>3, <1>10, <1>12, EvolvesTrans
<1>14. Good(kern', FALSE, Swapper, FALSE) /\ Evolves(kern, kern', FALSE, Swapper)
  BY <1>6, <1>10, <1>11, <1>13
<1>15. Keeps(kern, kern', Swapper)
  BY <1>3, <1>14, EvolvesKeeps
<1>16. /\ noproc' = FALSE /\ noproc' \in BOOLEAN
       /\ kern'.p_stat[Swapper] = IF noproc' THEN "SSLEEP" ELSE "SRUN"
  BY <1>1, <1>3, <1>14 DEF Evolves
<1>17. Good(kern', noproc', Swapper, FALSE)
  BY <1>14, <1>16
<1>18. /\ label \in SwapLabel
       /\ label # "inio" /\ label \notin {"dead", "out", "outio"}
  BY DEF SwapLabel
<1> QED BY <1>1, <1>2, <1>3, <1>15, <1>16, <1>17, <1>18, SwapStep

\* A step of the swapper that changes SLOAD of one process.
LEMMA SwapLoadStep ==
  ASSUME IInv, NEW from, At(Swapper, from),
         NEW label \in {"loop", "scan", "out"},
         NEW q \in Procs, kern.p_stat[q] \in {"SRUN", "SSLEEP", "SSTOP"},
         pc' = [pc EXCEPT ![Swapper] = label], noproc' \in BOOLEAN,
         UNCHANGED <<ret, cur, inp>>, skipped' \in SUBSET Procs,
         ctx' \in [All -> Ctx], todo' \in SUBSET Procs, victim' \in All,
         \A x \in Procs : kern'.p_stat[x] = kern.p_stat[x],
         kern'.p_stat[Swapper] = IF noproc' THEN "SSLEEP" ELSE "SRUN",
         kern'.p_pptr = kern.p_pptr,
         \A x \in All \ {q} : x \in kern'.sload <=> x \in kern.sload,
         Good(kern', noproc', Swapper, FALSE),
         label = "scan" => from # "loop" /\ q # inp,
         label = "out" => /\ from # "loop" /\ q # inp /\ victim' = q
                          /\ q \notin kern'.sload
  PROVE  IInv'
<1>1. /\ noproc = FALSE /\ cur = Swapper /\ Swapper \in All
      /\ kern \in Kern /\ pc \in [All -> PC] /\ Swapper \in kern.sload
      /\ ret \in [All -> {"run", "wait"}] /\ kern' \in Kern /\ inp \in All
      /\ kern.p_stat[Swapper] = "SRUN" /\ q \in All /\ q # Swapper
      /\ from # "loop" /\ inp # Swapper => WantsIn(kern, inp)
  BY SwapperFacts, ProcsAssumption DEF Good, All
<1>2. /\ \A x \in All : pc'[x] = IF x = Swapper THEN label ELSE pc[x]
      /\ pc' \in [All -> PC]
  BY <1>1 DEF PC
<1>3. TypeOK'
  BY <1>1, <1>2 DEF TypeOK
<1>4. Good(kern', noproc', cur', Dozing')
  <2>1. Dozing' \in BOOLEAN
    BY DEF Dozing
  <2>2. Good(kern', noproc', Swapper, Dozing')
    BY <2>1, GoodWeaken
  <2> QED BY <1>1, <2>2
<1>5. Ctl(kern, pc, FALSE, Swapper, inp, victim)
  BY <1>1 DEF IInv
<1>6. \A x \in All : kern'.p_stat[x] = IF x = Swapper
                                      THEN IF noproc' THEN "SSLEEP" ELSE "SRUN"
                                      ELSE kern.p_stat[x]
  BY DEF All
<1>7. KernCtl(kern', noproc', cur')
  BY <1>1, <1>5, <1>6, ProcsAssumption DEF Ctl, KernCtl, All
<1>8. PcCtl(kern', pc', noproc', cur')
  BY <1>1, <1>2, <1>5, <1>6 DEF Ctl, PcCtl
<1>9. SwapCtl(kern', pc', inp', victim')
  BY <1>1, <1>2, <1>6 DEF SwapCtl, SwapLabel, WantsIn
<1> QED BY <1>3, <1>4, <1>7, <1>8, <1>9 DEF IInv, Ctl

\* swapout() begins on a process that sched() has found asleep.
LEMMA SchedDeadwoodStep ==
  ASSUME IInv, SchedDeadwood, ~VictimRunnable
  PROVE  IInv'
<1> DEFINE s == kern.sload \ {victim}
           k == [kern EXCEPT !.sload = s]
<1>1. /\ At(Swapper, "dead") /\ kern' = k
      /\ pc' = [pc EXCEPT ![Swapper] = "out"]
      /\ ctx' = [ctx EXCEPT ![Swapper] = "scan"]
      /\ UNCHANGED <<ret, cur, noproc, swapvars>>
  BY DEF SchedDeadwood, Goto
<1>2. /\ kern \in Kern /\ inp \in All /\ Swapper \in All
      /\ Good(kern, FALSE, Swapper, FALSE) /\ kern.p_stat[Swapper] = "SRUN"
      /\ ctx \in [All -> Ctx] /\ todo \in SUBSET Procs /\ noproc = FALSE
      /\ skipped \in SUBSET Procs
      /\ kern.p_stat[victim] \in {"SRUN", "SSLEEP", "SSTOP"}
      /\ victim \in Procs /\ (inp # Swapper => WantsIn(kern, inp))
  <2>1. "dead" # "loop" /\ "dead" \in {"dead", "out", "outio"}
    OBVIOUS
  <2> QED BY <1>1, <2>1, SwapperFacts
<1>3. /\ kern.p_stat[victim] \in {"SSLEEP", "SSTOP"} /\ victim # inp
      /\ victim \in All /\ victim # Swapper
  BY <1>2, ProcsAssumption DEF VictimRunnable, WantsIn, All
<1>4. s \in SUBSET All /\ \A x \in All : x \in s <=> x \in kern.sload /\ x # victim
  BY <1>2, KernTypes
<1> HIDE DEF s
<1>5. k \in Kern
  BY <1>2, <1>4 DEF Kern
<1>6. /\ k.p_stat = kern.p_stat /\ k.p_wchan = kern.p_wchan
      /\ k.p_pri = kern.p_pri /\ k.p_rlink = kern.p_rlink
      /\ k.p_pptr = kern.p_pptr
      /\ k.sload = s /\ k.whichqs = kern.whichqs
  BY <1>2 DEF Kern
<1> HIDE DEF k
<1>7. Good(k, FALSE, Swapper, FALSE)
  BY <1>2, <1>3, <1>4, <1>5, <1>6 DEF Good, Bits, Queued, Asleeps
<1>8. /\ "out" \in {"loop", "scan", "out"} /\ "dead" # "loop" /\ "out" # "scan"
      /\ ctx' \in [All -> Ctx] /\ todo' \in SUBSET Procs /\ victim' \in All
      /\ skipped' \in SUBSET Procs
      /\ UNCHANGED <<ret, cur, inp>> /\ noproc' = FALSE /\ noproc' \in BOOLEAN
      /\ victim' = victim
  BY <1>1, <1>2, <1>3 DEF Ctx, swapvars
<1>9. /\ \A x \in Procs : kern'.p_stat[x] = kern.p_stat[x]
      /\ kern'.p_stat[Swapper] = IF noproc' THEN "SSLEEP" ELSE "SRUN"
      /\ kern'.p_pptr = kern.p_pptr /\ victim \notin kern'.sload
      /\ \A x \in All \ {victim} : x \in kern'.sload <=> x \in kern.sload
      /\ Good(kern', noproc', Swapper, FALSE)
  BY <1>1, <1>2, <1>3, <1>4, <1>6, <1>7, <1>8
<1> QED BY <1>1, <1>2, <1>3, <1>8, <1>9, SwapLoadStep

\* swapout() that finds no room for a process that is not runnable keeps it.
LEMMA SwapoutFailsStep ==
  ASSUME IInv, SwapoutFails, ~VictimRunnable
  PROVE  IInv'
<1> DEFINE s == kern.sload \cup {victim}
           k == [kern EXCEPT !.sload = s]
<1>1. /\ At(Swapper, "out") /\ victim \in SwapFull /\ UNCHANGED swapvars
      /\ IF ctx[Swapper] = "scan"
         THEN /\ kern' = k /\ pc' = [pc EXCEPT ![Swapper] = "scan"]
              /\ UNCHANGED <<ctx, ret, cur, noproc>>
         ELSE SwapSleep(k, RUNIN, "loop")
  BY DEF SwapoutFails, Goto
<1>2. /\ kern \in Kern /\ inp \in All /\ Swapper \in All
      /\ Good(kern, FALSE, Swapper, FALSE) /\ kern.p_stat[Swapper] = "SRUN"
      /\ ctx \in [All -> Ctx] /\ todo \in SUBSET Procs /\ noproc = FALSE
      /\ skipped \in SUBSET Procs /\ pc \in [All -> PC]
      /\ kern.p_stat[victim] \in {"SRUN", "SSLEEP", "SSTOP"}
      /\ (inp # Swapper => WantsIn(kern, inp))
  <2>1. "out" # "loop" /\ "out" \in {"dead", "out", "outio"}
    OBVIOUS
  <2> QED BY <1>1, <2>1, SwapperFacts
<1>3. /\ kern.p_stat[victim] \in {"SSLEEP", "SSTOP"} /\ victim # inp
      /\ victim \in Procs /\ victim \in All /\ victim # Swapper
  BY <1>1, <1>2, ProcsAssumption, SwapAssumption DEF VictimRunnable, WantsIn, All
<1>4. s \in SUBSET All /\ \A x \in All : x \in s <=> x \in kern.sload \/ x = victim
  BY <1>2, <1>3, KernTypes
<1> HIDE DEF s
<1>5. k \in Kern
  BY <1>2, <1>4 DEF Kern
<1>6. /\ k.p_stat = kern.p_stat /\ k.p_wchan = kern.p_wchan
      /\ k.p_pri = kern.p_pri /\ k.p_rlink = kern.p_rlink
      /\ k.p_pptr = kern.p_pptr
      /\ k.sload = s /\ k.whichqs = kern.whichqs
  BY <1>2 DEF Kern
<1> HIDE DEF k
<1>7. Good(k, FALSE, Swapper, FALSE)
  BY <1>2, <1>3, <1>4, <1>5, <1>6 DEF Good, Bits, Queued, Asleeps
<1>8. /\ "scan" \in {"loop", "scan", "out"} /\ "loop" \in {"loop", "scan", "out"}
      /\ "out" # "loop" /\ "out" # "scan" /\ "scan" # "loop"
      /\ todo' \in SUBSET Procs /\ victim' \in All /\ skipped' \in SUBSET Procs
      /\ UNCHANGED inp
  BY <1>1, <1>2, <1>3 DEF swapvars
<1>9. CASE ctx[Swapper] = "scan"
  <2>1. /\ kern' = k /\ pc' = [pc EXCEPT ![Swapper] = "scan"]
        /\ UNCHANGED <<ret, cur>> /\ noproc' = FALSE /\ noproc' \in BOOLEAN
        /\ ctx' \in [All -> Ctx]
    BY <1>1, <1>2, <1>9
  <2>2. /\ \A x \in Procs : kern'.p_stat[x] = kern.p_stat[x]
        /\ kern'.p_stat[Swapper] = IF noproc' THEN "SSLEEP" ELSE "SRUN"
        /\ kern'.p_pptr = kern.p_pptr
        /\ \A x \in All \ {victim} : x \in kern'.sload <=> x \in kern.sload
        /\ Good(kern', noproc', Swapper, FALSE)
    BY <1>2, <1>4, <1>6, <1>7, <2>1
  <2> QED BY <1>1, <1>2, <1>3, <1>8, <2>1, <2>2, SwapLoadStep
<1>10. CASE ctx[Swapper] # "scan"
  <2>1. /\ SwapSleep(k, RUNIN, "loop") /\ RUNIN \in SwapChan
        /\ k.p_stat[Swapper] = "SRUN" /\ ctx \in [All -> Ctx]
    BY <1>1, <1>2, <1>6, <1>10 DEF SwapChan
  <2>2. /\ Good(kern', noproc', Swapper, FALSE) /\ Keeps(k, kern', Swapper)
        /\ kern'.p_stat[Swapper] = IF noproc' THEN "SSLEEP" ELSE "SRUN"
        /\ noproc' = TRUE /\ noproc' \in BOOLEAN
        /\ pc' = [pc EXCEPT ![Swapper] = "loop"] /\ UNCHANGED <<ret, cur>>
        /\ ctx' \in [All -> Ctx]
        /\ \A x \in Procs : kern'.p_stat[x] = k.p_stat[x]
    BY <1>7, <2>1, SwapSleepGood
  <2>3. /\ \A x \in Procs : kern'.p_stat[x] = kern.p_stat[x]
        /\ kern'.p_pptr = kern.p_pptr
        /\ \A x \in All \ {victim} : x \in kern'.sload <=> x \in kern.sload
    BY <1>4, <1>6, <2>2 DEF Keeps
  <2> QED BY <1>1, <1>2, <1>3, <1>8, <2>2, <2>3, SwapLoadStep
<1> QED BY <1>9, <1>10

\* The end of swapin() keeps it: the process brought in is queued.
LEMMA SwapinStep ==
  ASSUME IInv, Swapin
  PROVE  IInv'
<1>1. /\ At(Swapper, "inio") /\ UNCHANGED <<ctx, ret, cur, noproc, swapvars>>
      /\ pc' = [pc EXCEPT ![Swapper] = "loop"]
      /\ LET k == IF kern.p_stat[inp] = "SRUN" THEN Setrq(kern, inp) ELSE kern
         IN  kern' = [k EXCEPT !.sload = @ \cup {inp}]
  BY DEF Swapin, Goto
<1>2. /\ kern \in Kern /\ inp \in All /\ Swapper \in All
      /\ inp # Swapper /\ WantsIn(kern, inp)
      /\ Good(kern, FALSE, Swapper, FALSE) /\ kern.p_stat[Swapper] = "SRUN"
      /\ ctx' \in [All -> Ctx] /\ todo' \in SUBSET Procs
      /\ skipped' \in SUBSET Procs /\ victim' \in All
  <2>1. "inio" # "loop"
    OBVIOUS
  <2>2. At(Swapper, "inio") /\ UNCHANGED <<ctx, todo, inp, victim, skipped>>
    BY <1>1 DEF swapvars
  <2>3. /\ kern \in Kern /\ inp \in All /\ Swapper \in All
        /\ Good(kern, FALSE, Swapper, FALSE) /\ kern.p_stat[Swapper] = "SRUN"
        /\ ctx \in [All -> Ctx] /\ todo \in SUBSET Procs
        /\ skipped \in SUBSET Procs /\ victim \in All
    BY <2>2, SwapperFacts
  <2>4. inp # Swapper
    BY <2>2, SwapperFacts
  <2>5. WantsIn(kern, inp)
    BY <2>1, <2>2, <2>4, SwapperFacts
  <2> QED BY <2>2, <2>3, <2>4, <2>5
<1>3. /\ inp \in Procs /\ inp \notin kern.sload /\ kern.p_stat[inp] = "SRUN"
      /\ kern.p_rlink[inp] = NoQ /\ Bits(kern)
  BY <1>2 DEF All, WantsIn, Good, Queued
<1> DEFINE k == Setrq(kern, inp)
           s == k.sload \cup {inp}
           k2 == [k EXCEPT !.sload = s]
<1>4. kern' = k2
  BY <1>1, <1>3
<1>5. /\ k \in Kern /\ Bits(k)
      /\ k.p_stat = kern.p_stat /\ k.p_wchan = kern.p_wchan
      /\ k.p_pptr = kern.p_pptr /\ k.sload = kern.sload
      /\ k.p_rlink[inp] # NoQ
      /\ \A x \in All \ {inp} : k.p_rlink[x] = kern.p_rlink[x]
  BY <1>2, <1>3, SetrqFacts
<1> HIDE DEF k
<1>6. s \in SUBSET All /\ \A x \in All : x \in s <=> x \in kern.sload \/ x = inp
  BY <1>2, <1>5, KernTypes
<1> HIDE DEF s
<1>7. k2 \in Kern
  BY <1>5, <1>6 DEF Kern
<1>8. /\ k2.p_stat = k.p_stat /\ k2.p_wchan = k.p_wchan
      /\ k2.p_pri = k.p_pri /\ k2.p_rlink = k.p_rlink
      /\ k2.p_pptr = k.p_pptr
      /\ k2.sload = s /\ k2.whichqs = k.whichqs
  BY <1>5 DEF Kern
<1> HIDE DEF k2
<1>9. Good(k2, FALSE, Swapper, FALSE)
  <2>1. Queued(k2, FALSE, Swapper)
    BY <1>2, <1>3, <1>5, <1>6, <1>8 DEF Good, Queued
  <2>2. Bits(k2) /\ Asleeps(k2, FALSE, Swapper, FALSE)
    BY <1>2, <1>5, <1>8 DEF Good, Bits, Asleeps
  <2> QED BY <1>2, <1>5, <1>7, <1>8, <2>1, <2>2 DEF Good
<1>10. /\ kern.p_stat[inp] \in {"SRUN", "SSLEEP", "SSTOP"}
       /\ "loop" \in {"loop", "scan", "out"}
       /\ "loop" # "out" /\ "loop" # "scan"
  BY <1>3
<1>11. noproc' = FALSE /\ noproc' \in BOOLEAN /\ UNCHANGED <<ret, cur, inp>>
  BY <1>1, SwapperFacts DEF swapvars
<1>12. /\ kern'.p_stat = kern.p_stat /\ kern'.p_pptr = kern.p_pptr
       /\ kern'.p_stat[Swapper] = IF noproc' THEN "SSLEEP" ELSE "SRUN"
       /\ \A x \in All \ {inp} : x \in kern'.sload <=> x \in kern.sload
       /\ Good(kern', noproc', Swapper, FALSE)
  BY <1>2, <1>4, <1>5, <1>6, <1>8, <1>9, <1>11
<1> QED BY <1>1, <1>2, <1>3, <1>10, <1>11, <1>12, SwapLoadStep

\* A hard swap keeps it: a runnable victim leaves its run queue with SLOAD.
LEMMA SchedHardStep ==
  ASSUME IInv, SchedHard
  PROVE  IInv'
<1>1. At(Swapper, "hard")
  BY DEF SchedHard
<1>2. /\ kern \in Kern /\ inp \in All /\ Swapper \in All /\ victim \in All
      /\ Good(kern, FALSE, Swapper, FALSE) /\ kern.p_stat[Swapper] = "SRUN"
      /\ ctx \in [All -> Ctx] /\ todo \in SUBSET Procs
      /\ skipped \in SUBSET Procs
  BY <1>1, SwapperFacts
<1>3. CASE SwapSleep(kern, RUNIN, "loop") /\ UNCHANGED swapvars
  <2>1. Same(kern, kern) /\ RUNIN \in SwapChan
    BY SameRefl DEF SwapChan
  <2>2. /\ Good(kern', noproc', Swapper, FALSE)
        /\ Keeps(kern, kern', Swapper) /\ noproc' \in BOOLEAN
        /\ kern'.p_stat[Swapper] = IF noproc' THEN "SSLEEP" ELSE "SRUN"
        /\ pc' = [pc EXCEPT ![Swapper] = "loop"] /\ UNCHANGED <<ret, cur>>
        /\ ctx' \in [All -> Ctx]
    BY <1>1, <1>2, <1>3, <2>1, SwapSleepFacts
  <2>3. /\ "loop" \in SwapLabel
        /\ "loop" # "inio" /\ "loop" \notin {"dead", "out", "outio"}
    BY DEF SwapLabel
  <2>4. victim' \in All /\ inp' \in All /\ todo' \in SUBSET Procs
        /\ skipped' \in SUBSET Procs
    BY <1>2, <1>3 DEF swapvars
  <2> QED BY <1>1, <2>2, <2>3, <2>4, SwapStep
<1>4. ASSUME NEW q \in Big,
             q \in kern.sload, q # inp,
             Asleep(kern, q) \/ kern.p_stat[q] = "SRUN",
             LET k == [kern EXCEPT !.sload = @ \ {q}]
             IN  kern' = IF k.p_stat[q] = "SRUN" THEN Remrq(k, q) ELSE k,
             victim' = q, pc' = [pc EXCEPT ![Swapper] = "out"],
             ctx' = [ctx EXCEPT ![Swapper] = "hard"],
             UNCHANGED <<ret, cur, noproc, todo, inp, skipped>>
      PROVE  IInv'
  <2> DEFINE s == kern.sload \ {q}
             k == [kern EXCEPT !.sload = s]
  <2>1. /\ q \in Procs /\ q \in All /\ q # Swapper
        /\ kern.p_stat[q] \in {"SRUN", "SSLEEP", "SSTOP"}
    BY <1>4, SwapAssumption, ProcsAssumption DEF All, Asleep
  <2>2. kern' = IF k.p_stat[q] = "SRUN" THEN Remrq(k, q) ELSE k
    BY <1>4
  <2>3. s \in SUBSET All /\ \A x \in All : x \in s <=> x \in kern.sload /\ x # q
    BY <1>2, KernTypes
  <2> HIDE DEF s
  <2>4. k \in Kern
    BY <1>2, <2>3 DEF Kern
  <2>5. /\ k.p_stat = kern.p_stat /\ k.p_wchan = kern.p_wchan
        /\ k.p_pri = kern.p_pri /\ k.p_rlink = kern.p_rlink
        /\ k.p_pptr = kern.p_pptr
        /\ k.sload = s /\ k.whichqs = kern.whichqs
    BY <1>2 DEF Kern
  <2> HIDE DEF k
  <2>6. Bits(k)
    BY <1>2, <2>5 DEF Good, Bits
  <2>7. /\ Good(kern', FALSE, Swapper, FALSE) /\ kern'.p_stat = kern.p_stat
        /\ kern'.p_pptr = kern.p_pptr /\ kern'.sload = s
    <3>1. CASE kern.p_stat[q] = "SRUN"
      <4>1. kern' = Remrq(k, q)
        BY <2>2, <2>5, <3>1
      <4>2. k.p_rlink[q] # NoQ
        BY <1>2, <1>4, <2>1, <2>5, <3>1 DEF Good, Queued
      <4>3. /\ kern' \in Kern /\ Bits(kern')
            /\ kern'.p_stat = k.p_stat /\ kern'.p_wchan = k.p_wchan
            /\ kern'.p_pptr = k.p_pptr /\ kern'.sload = k.sload
            /\ kern'.p_rlink[q] = NoQ
            /\ \A x \in All \ {q} : kern'.p_rlink[x] = k.p_rlink[x]
        BY <2>1, <2>4, <2>6, <4>1, <4>2, RemrqFacts
      <4>4. Good(kern', FALSE, Swapper, FALSE)
        BY <1>2, <2>1, <2>3, <2>5, <4>3 DEF Good, Queued, Asleeps
      <4> QED BY <2>5, <4>3, <4>4
    <3>2. CASE kern.p_stat[q] # "SRUN"
      <4>1. kern' = k
        BY <2>2, <2>5, <3>2
      <4>2. Good(k, FALSE, Swapper, FALSE)
        BY <1>2, <2>1, <2>3, <2>4, <2>5, <2>6, <3>2 DEF Good, Queued, Asleeps
      <4> QED BY <2>5, <4>1, <4>2
    <3> QED BY <3>1, <3>2
  <2>8. /\ \A x \in All \ {q} : x \in kern'.sload <=> x \in kern.sload
        /\ q \notin kern'.sload
    BY <2>1, <2>3, <2>7
  <2>9. /\ "out" \in {"loop", "scan", "out"} /\ "hard" # "loop"
        /\ "out" # "scan"
        /\ ctx' \in [All -> Ctx] /\ todo' \in SUBSET Procs
        /\ skipped' \in SUBSET Procs /\ victim' \in All
        /\ UNCHANGED <<ret, cur, inp>> /\ noproc' = FALSE
        /\ noproc' \in BOOLEAN
    BY <1>1, <1>2, <1>4, <2>1, SwapperFacts DEF Ctx
  <2>10. /\ kern'.p_stat[Swapper] = IF noproc' THEN "SSLEEP" ELSE "SRUN"
         /\ Good(kern', noproc', Swapper, FALSE)
    BY <1>2, <2>7, <2>9
  <2> QED BY <2>10,  <1>1, <1>4, <2>1, <2>7, <2>8, <2>9, SwapLoadStep
<1> QED BY <1>3, <1>4 DEF SchedHard, Goto

-----------------------------------------------------------------------------
(***************************************************************************)
(* The theorems.                                                           *)
(***************************************************************************)

\* The initial states satisfy the inductive invariant.
LEMMA InitIInv ==
  ASSUME Init
  PROVE  IInv
<1>1. InitProc \in All /\ Swapper \in All /\ InitProc # Swapper
  BY ProcsAssumption DEF All
<1>2. ChanOf[InitProc] \in Chan /\ ChanOf[InitProc] \in AllChan
  BY <1>1, ChanAssumption DEF AllChan
<1>3. /\ PWAIT \in Pri /\ PZERO \in Pri /\ PUSER \in Pri
      /\ RUNOUT \in SwapChan /\ RUNOUT \in AllChan
  BY DEF Pri, AllChan, SwapChan
<1> DEFINE st == [p \in All |-> IF p \in {InitProc, Swapper}
                                THEN "SSLEEP" ELSE "SRUN"]
           wc == [p \in All |-> IF p = InitProc THEN ChanOf[p]
                                ELSE IF p = Swapper THEN RUNOUT ELSE NoChan]
           pr == [p \in All |-> IF p = InitProc THEN PWAIT
                                ELSE IF p = Swapper THEN PZERO ELSE PUSER]
           rl == [p \in All |-> IF p \in {InitProc, Swapper}
                                THEN NoQ ELSE PUSER]
           sg == [p \in All |-> {}]
           cs == [p \in All |-> NoSig]
<1>4. kern = [p_stat |-> st, p_wchan |-> wc, p_pri |-> pr, p_rlink |-> rl,
              p_sig |-> sg, p_cursig |-> cs, p_pptr |-> Parent,
              sload |-> All, swted |-> {}, whichqs |-> {PUSER},
              runout |-> TRUE, wantin |-> FALSE, panicstr |-> ""]
  BY DEF Init
<1>5. /\ st \in [All -> Stat] /\ wc \in [All -> AllChan \cup {NoChan}]
      /\ pr \in [All -> Pri] /\ rl \in [All -> Pri \cup {NoQ}]
      /\ sg \in [All -> SUBSET Sig] /\ cs \in [All -> Sig \cup {NoSig}]
  <2>1. st \in [All -> Stat]
    BY DEF Stat
  <2>2. wc \in [All -> AllChan \cup {NoChan}]
    BY <1>2, <1>3
  <2>3. pr \in [All -> Pri] /\ rl \in [All -> Pri \cup {NoQ}]
    BY <1>3
  <2>4. sg \in [All -> SUBSET Sig] /\ cs \in [All -> Sig \cup {NoSig}]
    OBVIOUS
  <2> QED BY <2>1, <2>2, <2>3, <2>4
<1>6. /\ \A p \in All : st[p] = IF p \in {InitProc, Swapper}
                                THEN "SSLEEP" ELSE "SRUN"
      /\ \A p \in All : wc[p] = IF p = InitProc THEN ChanOf[p]
                                ELSE IF p = Swapper THEN RUNOUT ELSE NoChan
      /\ \A p \in All : pr[p] = IF p = InitProc THEN PWAIT
                                ELSE IF p = Swapper THEN PZERO ELSE PUSER
      /\ \A p \in All : rl[p] = IF p \in {InitProc, Swapper}
                                THEN NoQ ELSE PUSER
  OBVIOUS
<1> HIDE DEF st, wc, pr, rl, sg, cs
<1>7. kern \in Kern
  <2>1. Parent \in [Procs -> All] /\ All \in SUBSET All
        /\ {PUSER} \in SUBSET Pri /\ {} \in SUBSET All
    BY <1>3, ProcsAssumption
  <2> QED BY <1>4, <1>5, <2>1 DEF Kern
<1>8. /\ kern.p_stat = st /\ kern.p_wchan = wc /\ kern.p_pri = pr
      /\ kern.p_rlink = rl /\ kern.p_pptr = Parent
      /\ kern.sload = All /\ kern.whichqs = {PUSER}
  BY <1>4
<1>9. /\ cur = Swapper /\ noproc = TRUE /\ inp = Swapper /\ victim = Swapper
      /\ todo = {} /\ skipped = {}
      /\ pc = [p \in All |-> IF p = Swapper THEN "loop"
                             ELSE IF p = InitProc THEN "woken" ELSE "run"]
      /\ ctx = [p \in All |-> "trap"]
      /\ ret = [p \in All |-> IF p = InitProc THEN "wait" ELSE "run"]
  BY DEF Init
<1>10. TypeOK
  <2>1. pc \in [All -> PC]
    BY <1>9 DEF PC
  <2>2. ctx \in [All -> Ctx] /\ ret \in [All -> {"run", "wait"}]
    BY <1>9 DEF Ctx
  <2> QED BY <1>1, <1>7, <1>9, <2>1, <2>2 DEF TypeOK
<1>11. Good(kern, noproc, cur, Dozing)
  <2>1. Queued(kern, noproc, cur)
    BY <1>3, <1>6, <1>8, <1>9, NoQPri DEF Queued
  <2>2. Bits(kern)
    <3>1. PICK p \in All : p \notin {InitProc, Swapper}
      BY ProcsAssumption DEF All
    <3>2. kern.p_rlink[p] = PUSER
      BY <1>6, <1>8, <3>1
    <3>3. \A x \in All : kern.p_rlink[x] \in {NoQ, PUSER}
      BY <1>6, <1>8
    <3>4. \A x \in All : kern.p_rlink[x] \in {NoQ, kern.p_pri[x]}
      BY <1>6, <1>8
    <3> QED BY <1>8, <3>2, <3>3, <3>4, NoQPri DEF Bits
  <2>3. Asleeps(kern, noproc, cur, Dozing)
    BY <1>2, <1>3, <1>6, <1>8, ChanAssumption DEF Asleeps
  <2>4. \A p \in Procs : kern.p_wchan[p] \notin SwapChan
    BY <1>2, <1>6, <1>8, ProcsAssumption, ChanAssumption DEF All, AllChan
  <2> QED BY <1>7, <1>9, <2>1, <2>2, <2>3, <2>4 DEF Good
<1>12. Ctl(kern, pc, noproc, cur, inp, victim)
  <2>1. KernCtl(kern, noproc, cur)
    BY <1>1, <1>6, <1>8, <1>9, ProcsAssumption DEF KernCtl
  <2>2. PcCtl(kern, pc, noproc, cur)
    BY <1>1, <1>6, <1>8, <1>9 DEF PcCtl
  <2>3. SwapCtl(kern, pc, inp, victim)
    BY <1>1, <1>9 DEF SwapCtl, SwapLabel
  <2> QED BY <2>1, <2>2, <2>3 DEF Ctl
<1> QED BY <1>10, <1>11, <1>12 DEF IInv

\* Every step preserves the inductive invariant.
LEMMA NextIInv ==
  ASSUME IInv, [Next]_vars, [~Race]_vars
  PROVE  IInv'
<1>1. CASE UNCHANGED vars
  BY <1>1 DEF vars, IInv, TypeOK, Dozing
<1>2. ASSUME NEW p \in Procs, Proc(p)
      PROVE  IInv'
  <2>1. CASE \/ Sleep(p) \/ WaitSleep(p)
    BY <2>1, SleepStep
  <2>2. CASE Woken(p)
    BY <2>2, WokenStep
  <2>3. CASE IssigNone(p)
    BY <2>3, IssigNoneStep
  <2>4. CASE IssigSend(p)
    BY <2>4, IssigSendStep
  <2>5. CASE IssigContinue(p) \/ IssigStop(p)
    BY <2>5, IssigTakeStep
  <2>6. CASE IssigKill(p)
    BY <2>6, IssigKillStep
  <2>7. CASE TellParent(p)
    BY <2>7, TellParentStep
  <2>8. CASE StopSelf(p)
    BY <2>8, StopSelfStep
  <2>9. CASE SwtchStopped(p)
    BY <2>9, SwtchStoppedStep
  <2>10. CASE TrapExit(p)
    BY <2>10, TrapExitStep
  <2>11. CASE Psig(p)
    BY <2>11, PsigStep
  <2>12. CASE Rest(p)
    BY <2>12, RestStep
  <2>13. CASE Fork(p)
    BY <2>13, ForkStep
  <2>14. CASE Procdup(p)
    BY <2>14, ProcdupStep
  <2>15. CASE Exit(p)
    BY <2>15, ExitStep
  <2>16. CASE ExitChild(p)
    BY <2>16, ExitChildStep
  <2>17. CASE ExitSwtch(p)
    BY <2>17, ExitSwtchStep
  <2>18. CASE Wait(p) \/ WaitNone(p) \/ WaitStopped(p)
    BY <2>18, WaitStep
  <2>19. CASE WaitReap(p)
    BY <2>19, WaitReapStep
  <2>20. CASE Kill(p)
    BY <2>20, KillStep
  <2> QED
    BY <1>2, <2>1, <2>2, <2>3, <2>4, <2>5, <2>6, <2>7, <2>8, <2>9, <2>10,
       <2>11, <2>12, <2>13, <2>14, <2>15, <2>16, <2>17, <2>18, <2>19, <2>20
    DEF Proc
<1>3. CASE Swtch
  BY <1>3, SwtchStep
<1>4. CASE Sched /\ ~Race
  BY <1>4, SchedLoopStep, SchedScanStep, SchedDeadwoodStep, SchedIdleStep,
     SchedInStep, SwapinStep, SchedHardStep, SwapoutFailsStep,
     SwapoutStartStep, SwapoutEndStep
  DEF Sched, Race
<1>5. CASE Intr /\ ~Race
  BY <1>5, IntrWakeupStep, IntrSignalStep, SchedcpuStep, ClockStep
  DEF Intr, Race
<1> QED BY <1>1, <1>2, <1>3, <1>4, <1>5 DEF Next

\* The inductive invariant implies the invariants the runs check.
LEMMA IInvImplies ==
  ASSUME IInv
  PROVE  TypeOK /\ RunQueueExact /\ QueueMatchesPri /\ SleepQueueExact
<1>1. RunQueueExact
  BY DEF IInv, Good, Queued, RunQueueExact, Running
<1>2. QueueMatchesPri
  <2>1. Bits(kern) /\ kern.whichqs \in SUBSET Pri
    BY KernTypes DEF IInv, Good
  <2>2. \A b \in Pri : b \in kern.whichqs <=> OnQueue(kern, b) # {}
    BY <2>1 DEF Bits, OnQueue
  <2>3. kern.whichqs = {b \in Pri : OnQueue(kern, b) # {}}
    BY <2>1, <2>2
  <2> QED BY <2>1, <2>3 DEF Bits, QueueMatchesPri
<1>3. SleepQueueExact
  BY DEF IInv, Good, Asleeps, Dozing, SleepQueueExact, Running
<1> QED BY <1>1, <1>2, <1>3 DEF IInv

\* Throughout every run in which none of the three races comes about, of any
\* number of processes, channels and priorities, with whatever signals from
\* interrupts, deadwood and room on the swap device, the inductive invariant
\* holds.
THEOREM Invariance == Spec /\ [][~Race]_vars => []IInv
<1>1. Init => IInv
  BY InitIInv
<1>2. IInv /\ [Next]_vars /\ [~Race]_vars => IInv'
  BY NextIInv
<1> QED BY <1>1, <1>2, PTL DEF Spec

\* The kernel data keep their types: no handler leaves a priority, a state
\* or a panic string that is not one of the declared ones.
THEOREM TypesHold == Spec /\ [][~Race]_vars => []TypeOK
<1>1. IInv => TypeOK
  BY IInvImplies
<1> QED BY <1>1, Invariance, PTL

\* The run queues hold exactly the runnable processes in core that are not
\* running, whatever setrun(), wakeup(), swtch(), schedcpu(), swapin() and
\* swapout() do and whichever interrupts come between, until one of the
\* three races comes about: they are the only ways in which the queues break.
THEOREM RunQueuesHold == Spec /\ [][~Race]_vars => []RunQueueExact
<1>1. IInv => RunQueueExact
  BY IInvImplies
<1> QED BY <1>1, Invariance, PTL

\* Each queued process is on the queue its p_pri names, and whichqs has the
\* bits of the queues that are not empty.
THEOREM QueuesMatchPri == Spec /\ [][~Race]_vars => []QueueMatchesPri
<1>1. IInv => QueueMatchesPri
  BY IInvImplies
<1> QED BY <1>1, Invariance, PTL

\* Sleepers are on a sleep queue and only processes asleep, stopped or
\* inside sleep() are on one.
THEOREM SleepQueuesHold == Spec /\ [][~Race]_vars => []SleepQueueExact
<1>1. IInv => SleepQueueExact
  BY IInvImplies
<1> QED BY <1>1, Invariance, PTL

-----------------------------------------------------------------------------
(***************************************************************************)
(* SIGCONT, init's children and the sleeping swapper.                      *)
(***************************************************************************)

\* What the steps of everyone but the swapper keep of the data.
Kept(k, k2) ==
  /\ k2 \in Kern /\ Heed(k, k2)
  /\ Tidy(k) => Tidy(k2)

\* Steps compose of what keeps the data.
LEMMA KeptTrans ==
  ASSUME NEW k, NEW k1, NEW k2, Kept(k, k1), Kept(k1, k2)
  PROVE  Kept(k, k2)
BY HeedTrans DEF Kept

\* Bland primitives keep the data.
LEMMA BlandKept ==
  ASSUME NEW k, NEW k2, Bland(k, k2)
  PROVE  Kept(k, k2)
<1>1. Hush(k, k2) /\ Heed(k, k2) /\ k2 \in Kern
  BY MuteHush DEF Bland, Mute
<1> QED BY <1>1, HushTidy DEF Kept

\* psignal() of a signal that does not stop keeps the data.
LEMMA SentKept ==
  ASSUME NEW k, NEW k2, NEW p, NEW sig, Sent(k, k2, p, sig)
  PROVE  Kept(k, k2)
BY HushTidy DEF Kept, Sent, Hush

\* A change of state is bland if nobody stops or begins to want in by it.
LEMMA StatBland ==
  ASSUME NEW k \in Kern, NEW p \in All, NEW st \in Stat \ {"SSTOP"},
         st = "SRUN" => p \in k.sload, NEW k2, k2 = [k EXCEPT !.p_stat[p] = st]
  PROVE  Bland(k, k2)
<1>1. /\ k2 \in Kern /\ k2.p_sig = k.p_sig /\ k2.p_cursig = k.p_cursig
      /\ k2.p_pptr = k.p_pptr /\ k2.p_wchan = k.p_wchan
      /\ k2.sload = k.sload /\ k2.panicstr = k.panicstr
      /\ k2.runout = k.runout /\ k2.wantin = k.wantin
      /\ k2.p_stat = [k.p_stat EXCEPT ![p] = st]
  BY DEF Kern
<1>2. \A x \in All : k2.p_stat[x] = IF x = p THEN st ELSE k.p_stat[x]
  BY <1>1, KernTypes
<1>3. Mute(k, k2)
  BY <1>1, <1>2 DEF Mute
<1>4. Heed(k, k2)
  BY <1>1, <1>2 DEF Heed, RunoutSet, WantsIn, All
<1> QED BY <1>3, <1>4 DEF Bland

\* A change of priority is bland.
LEMMA PriBland ==
  ASSUME NEW k \in Kern, NEW p \in All, NEW pri \in Pri, NEW k2,
         k2 = [k EXCEPT !.p_pri[p] = pri]
  PROVE  Bland(k, k2)
<1>1. k2 \in Kern
  BY DEF Kern
<1> QED BY <1>1, BlandSame DEF Kern

\* k2 is k with p_cursig of p changed.
Marked(k, k2, p, sig) ==
  /\ Kept(k, k2) /\ k2.p_stat = k.p_stat /\ k2.p_wchan = k.p_wchan
  /\ k2.sload = k.sload /\ k2.p_sig = k.p_sig /\ k2.p_pptr = k.p_pptr
  /\ k2.p_cursig[p] = sig

\* p_cursig of a process that is not stopped may change.
LEMMA CursigKept ==
  ASSUME NEW k \in Kern, NEW p \in All, NEW sig \in Sig \cup {NoSig},
         k.p_stat[p] # "SSTOP", NEW k2, k2 = [k EXCEPT !.p_cursig[p] = sig]
  PROVE  Marked(k, k2, p, sig)
<1>1. /\ k2 \in Kern /\ k2.p_sig = k.p_sig /\ k2.p_stat = k.p_stat
      /\ k2.p_pptr = k.p_pptr /\ k2.p_wchan = k.p_wchan
      /\ k2.sload = k.sload /\ k2.panicstr = k.panicstr
      /\ k2.runout = k.runout /\ k2.wantin = k.wantin
      /\ k2.p_cursig = [k.p_cursig EXCEPT ![p] = sig]
  BY DEF Kern
<1>2. \A x \in All : k2.p_cursig[x] = IF x = p THEN sig ELSE k.p_cursig[x]
  BY <1>1, KernTypes
<1>3. Heed(k, k2)
  BY <1>1 DEF Heed, RunoutSet, WantsIn
<1>4. Tidy(k) => Tidy(k2)
  BY <1>1, <1>2 DEF Tidy, SigAt, InitAt, All
<1> QED BY <1>1, <1>2, <1>3, <1>4 DEF Kept, Marked

\* issig() takes the signal it has chosen.
LEMMA TakeKept ==
  ASSUME NEW k \in Kern, NEW p \in All, SigBits(k, p) # {},
         k.p_stat[p] # "SSTOP", NEW k2, k2 = Take(k, p)
  PROVE  /\ Kept(k, k2) /\ k2.p_stat = k.p_stat /\ k2.sload = k.sload
         /\ k2.p_sig[p] \subseteq k.p_sig[p] /\ k2.p_pptr = k.p_pptr
         /\ k2.p_cursig[p] = NextSig(k, p)
<1> DEFINE sig == NextSig(k, p)
           k1 == Forget(k, p, sig)
<1>1. sig \in Sig
  BY NextSigSig
<1>2. k2 = [k1 EXCEPT !.p_cursig[p] = sig]
  BY DEF Take
<1> HIDE DEF sig
<1>3. /\ k1 \in Kern /\ k1.p_stat = k.p_stat
      /\ k1.p_cursig = k.p_cursig
      /\ k1.p_pptr = k.p_pptr /\ k1.p_wchan = k.p_wchan
      /\ k1.sload = k.sload
      /\ k1.p_sig[p] = k.p_sig[p] \ {sig}
      /\ Hush(k, k1) /\ Heed(k, k1)
  BY <1>1, ForgetFacts
<1> HIDE DEF k1
<1>4. Kept(k, k1)
  BY <1>3, HushTidy DEF Kept
<1>7. k1.p_stat[p] # "SSTOP"
  BY <1>3
<1>5. Marked(k1, k2, p, sig)
  <2>1. sig \in Sig \cup {NoSig} /\ k1 \in Kern
    BY <1>1, <1>3
  <2> QED BY <1>2, <1>7, <2>1, CursigKept
<1>6. Kept(k, k2)
  BY <1>4, <1>5, KeptTrans DEF Marked
<1> QED BY <1>3, <1>5, <1>6 DEF sig, Marked

\* A process enters its sleep queue.
LEMMA EnterSleepBland ==
  ASSUME NEW k \in Kern, NEW p \in Procs, NEW chan \in Chan, NEW pri \in Pri,
         NEW k2, k2 = EnterSleep(k, p, chan, pri)
  PROVE  Bland(k, k2)
<1>1. CASE k2 = Panic(k, "sleep")
  BY <1>1, PanicBland DEF Why
<1>2. CASE k2 = [k EXCEPT !.p_wchan[p] = chan, !.p_pri[p] = pri]
  <2>1. p \in All /\ p # Swapper /\ chan \in AllChan \cup {NoChan}
    BY ProcsAssumption DEF All, AllChan
  <2>2. k2 \in Kern
    <3>1. [k.p_wchan EXCEPT ![p] = chan] \in [All -> AllChan \cup {NoChan}]
      BY <2>1, KernTypes
    <3>2. [k.p_pri EXCEPT ![p] = pri] \in [All -> Pri]
      BY <2>1, KernTypes
    <3> QED BY <1>2, <3>1, <3>2 DEF Kern
  <2>3. k2.p_wchan[Swapper] = k.p_wchan[Swapper]
    <3>1. k2.p_wchan = [k.p_wchan EXCEPT ![p] = chan]
      BY <1>2 DEF Kern
    <3> QED BY <2>1, <3>1, KernTypes DEF All
  <2>4. /\ k2.p_sig = k.p_sig /\ k2.p_cursig = k.p_cursig
        /\ k2.p_pptr = k.p_pptr /\ k2.p_stat = k.p_stat
        /\ k2.sload = k.sload /\ k2.runout = k.runout
        /\ k2.wantin = k.wantin /\ k2.panicstr = k.panicstr
    BY <1>2 DEF Kern
  <2> QED BY <2>2, <2>3, <2>4, BlandSame
<1> QED BY <1>1, <1>2 DEF EnterSleep

\* A step that leaves the kernel data alone keeps them.
LEMMA IdleKept ==
  ASSUME IInv, kern' = kern
  PROVE  Kept(kern, kern')
<1>1. kern \in Kern
  BY DEF IInv, TypeOK
<1> QED BY <1>1, BlandRefl, BlandKept

\* sleep() up to its switch.
LEMMA SleepCallKept ==
  ASSUME IInv, NEW p \in Procs, NEW chan \in Chan, NEW pri \in Pri, NEW back,
         SleepCall(p, chan, pri, back)
  PROVE  Kept(kern, kern')
<1> DEFINE k == EnterSleep(kern, p, chan, pri)
           k2 == [k EXCEPT !.p_stat[p] = "SSLEEP"]
<1>1. kern' \in {k, k2}
  BY DEF SleepCall
<1>2. kern \in Kern /\ p \in All
  BY DEF IInv, TypeOK, All
<1>3. Bland(kern, k)
  BY <1>2, EnterSleepBland
<1> HIDE DEF k
<1>4. k \in Kern
  BY <1>3 DEF Bland, Mute
<1>5. Bland(k, k2)
  BY <1>2, <1>4, StatBland DEF Stat
<1> QED BY <1>1, <1>3, <1>5, BlandTrans, BlandKept

\* The two callers of sleep().
LEMMA SleepKept ==
  ASSUME IInv, NEW p \in Procs, Sleep(p) \/ WaitSleep(p)
  PROVE  Kept(kern, kern')
<1>1. PZERO \in Pri /\ PWAIT \in Pri
  BY DEF Pri
<1>2. CASE Sleep(p)
  <2>1. PICK arg \in SleepsOn[p] : SleepCall(p, arg[1], arg[2], "run")
    BY <1>2 DEF Sleep
  <2>2. SleepsOn[p] \in SUBSET (Chan \X {PZERO, PWAIT})
    BY ChanAssumption
  <2>3. arg[1] \in Chan /\ arg[2] \in Pri
    BY <1>1, <2>2
  <2> QED BY <2>1, <2>3, SleepCallKept
<1>3. CASE WaitSleep(p)
  <2>1. SleepCall(p, ChanOf[p], PWAIT, "wait")
    BY <1>3 DEF WaitSleep
  <2>2. ChanOf[p] \in Chan
    BY ChanAssumption DEF All
  <2> QED BY <1>1, <2>1, <2>2, SleepCallKept
<1> QED BY <1>2, <1>3

\* issig() finds no signal.
LEMMA IssigNoneKept ==
  ASSUME IInv, NEW p \in Procs, IssigNone(p)
  PROVE  Kept(kern, kern')
<1> DEFINE k == [kern EXCEPT !.p_cursig[p] = NoSig]
           k2 == [k EXCEPT !.p_stat[p] = "SSLEEP"]
<1>1. At(p, "issig") /\ kern' \in {k, k2}
  BY DEF IssigNone
<1>2. p \in All /\ kern \in Kern /\ kern.p_stat[p] = "SRUN"
  <2>1. "issig" \notin {"swtch", "exit1"}
    OBVIOUS
  <2> QED BY <1>1, <2>1, AtFacts
<1>3. Marked(kern, k, p, NoSig)
  BY <1>2, CursigKept
<1> HIDE DEF k
<1>4. k \in Kern
  BY <1>3 DEF Marked, Kept
<1>5. Bland(k, k2)
  BY <1>2, <1>4, StatBland DEF Stat
<1>6. Kept(k, k2) /\ Kept(kern, k)
  BY <1>3, <1>5, BlandKept DEF Marked
<1>7. Kept(kern, k2)
  BY <1>6, KeptTrans
<1> QED BY <1>1, <1>6, <1>7

\* issig() takes a signal, whatever it does with it.
LEMMA IssigTakeKept ==
  ASSUME IInv, NEW p \in Procs,
         \/ IssigSend(p) \/ IssigContinue(p) \/ IssigStop(p) \/ IssigKill(p)
  PROVE  Kept(kern, kern')
<1> DEFINE k == Take(kern, p)
           k1 == Unsleep(k, p)
           k2 == [k1 EXCEPT !.p_stat[p] = "SRUN"]
           k3 == PsignalPlain(k, p, SIGKILL)
<1>1. At(p, "issig") /\ SigBits(kern, p) # {} /\ kern' \in {k, k2, k3}
  BY DEF IssigSend, IssigContinue, IssigStop, IssigKill
<1>2. /\ p \in All /\ kern \in Kern /\ kern.p_stat[p] = "SRUN"
      /\ p \in kern.sload
  BY <1>1, AtFacts
<1>3. /\ Kept(kern, k) /\ k.p_stat = kern.p_stat /\ k.sload = kern.sload
  BY <1>1, <1>2, TakeKept
<1> HIDE DEF k
<1>4. k \in Kern
  BY <1>3 DEF Kept
<1>5. Bland(k, k1) /\ k1.sload = k.sload
  BY <1>2, <1>4, UnsleepBland
<1>6. Kept(k, k3)
  <2>1. SIGKILL \in Sig \ StopSig
    BY DEF Sig, StopSig, SIGKILL, SIGSTOP, SIGTSTP, SIGTTIN
  <2> QED BY <1>2, <1>4, <2>1, PsignalPlainSent, SentKept
<1> HIDE DEF k1, k3
<1>7. Bland(k1, k2)
  <2>1. k1 \in Kern /\ p \in k1.sload
    BY <1>2, <1>3, <1>5 DEF Bland, Mute
  <2> QED BY <1>2, <2>1, StatBland DEF Stat
<1>8. Kept(k, k2)
  BY <1>5, <1>7, BlandTrans, BlandKept
<1>9. Kept(kern, k2) /\ Kept(kern, k3)
  BY <1>3, <1>6, <1>8, KeptTrans
<1> QED BY <1>1, <1>3, <1>9

\* issig() tells the parent: the process itself is sent nothing.
LEMMA TellParentKept ==
  ASSUME IInv, NEW p \in Procs, TellParent(p)
  PROVE  /\ Kept(kern, kern') /\ kern'.p_cursig = kern.p_cursig
         /\ kern'.p_pptr = kern.p_pptr
         /\ SIGCONT \in kern'.p_sig[p] => SIGCONT \in kern.p_sig[p]
<1>1. kern' = PsignalPlain(kern, kern.p_pptr[p], SIGCHLD)
  BY DEF TellParent
<1>2. kern \in Kern /\ p \in All
  BY DEF IInv, TypeOK, All
<1>3. /\ kern.p_pptr[p] \in All /\ SIGCHLD \in Sig \ StopSig
      /\ SIGCHLD # SIGCONT
  BY <1>2, KernTypes
  DEF Sig, StopSig, SIGCHLD, SIGCONT, SIGSTOP, SIGTSTP, SIGTTIN
<1>4. Sent(kern, kern', kern.p_pptr[p], SIGCHLD)
  BY <1>1, <1>2, <1>3, PsignalPlainSent
<1> QED BY <1>2, <1>3, <1>4, SentKept DEF Sent, Hush

\* psig() clears p_cursig or panics.
LEMMA PsigKept ==
  ASSUME IInv, NEW p \in Procs, Psig(p)
  PROVE  Kept(kern, kern')
<1> DEFINE k == [kern EXCEPT !.p_cursig[p] = NoSig]
<1>1. /\ At(p, "psig")
      /\ kern' \in {Panic(kern, "psig"), Panic(kern, "psig action"), k, kern}
  BY DEF Psig
<1>2. p \in All /\ kern \in Kern /\ kern.p_stat[p] = "SRUN"
  <2>1. "psig" \notin {"swtch", "exit1"}
    OBVIOUS
  <2> QED BY <1>1, <2>1, AtFacts
<1>3. Marked(kern, k, p, NoSig)
  BY <1>2, CursigKept
<1>4. /\ Bland(kern, Panic(kern, "psig"))
      /\ Bland(kern, Panic(kern, "psig action"))
  BY <1>2, PanicBland DEF Why
<1> HIDE DEF k
<1> QED BY <1>1, <1>2, <1>3, <1>4, BlandKept, BlandRefl DEF Marked

\* The end of the trap exit.
LEMMA RestKept ==
  ASSUME IInv, NEW p \in Procs, Rest(p)
  PROVE  Kept(kern, kern')
<1>1. PICK usrpri \in UserPri :
        kern' \in {[kern EXCEPT !.p_pri[p] = usrpri],
                   Setrq([kern EXCEPT !.p_pri[p] = usrpri], p)}
  BY DEF Rest
<1> DEFINE k == [kern EXCEPT !.p_pri[p] = usrpri]
<1>2. kern \in Kern /\ p \in All /\ usrpri \in Pri
  BY ChanAssumption DEF IInv, TypeOK, All, Pri
<1>3. Bland(kern, k)
  BY <1>2, PriBland
<1>4. kern' \in {k, Setrq(k, p)}
  BY <1>1
<1> HIDE DEF k
<1>5. Bland(k, Setrq(k, p))
  BY <1>2, <1>3, SetrqBland DEF Bland, Mute
<1> QED BY <1>3, <1>4, <1>5, BlandTrans, BlandKept

\* newproc() takes a free slot, which is in core.
LEMMA ForkKept ==
  ASSUME IInv, NEW p \in Procs, Fork(p)
  PROVE  Kept(kern, kern')
<1>1. PICK q \in Procs :
        /\ kern.p_stat[q] = "free"
        /\ kern' = [kern EXCEPT !.p_stat[q] = "SIDL", !.p_pptr[q] = p,
                                !.p_wchan[q] = NoChan,
                                !.sload = @ \cup {q}, !.swted = @ \ {q}]
  BY DEF Fork
<1>2. kern \in Kern /\ p \in All /\ q \in All /\ q # Swapper /\ Swapper \in All
  BY ProcsAssumption DEF IInv, TypeOK, All
<1>3. /\ kern'.p_sig = kern.p_sig /\ kern'.p_cursig = kern.p_cursig
      /\ kern'.p_pptr = [kern.p_pptr EXCEPT ![q] = p]
      /\ kern'.p_stat = [kern.p_stat EXCEPT ![q] = "SIDL"]
      /\ kern'.p_wchan = [kern.p_wchan EXCEPT ![q] = NoChan]
      /\ kern'.sload = kern.sload \cup {q}
      /\ kern'.panicstr = kern.panicstr
      /\ kern'.runout = kern.runout /\ kern'.wantin = kern.wantin
  BY <1>1, <1>2 DEF Kern
<1>4. /\ \A x \in All : kern'.p_stat[x] =
           IF x = q THEN "SIDL" ELSE kern.p_stat[x]
      /\ \A x \in Procs \ {q} : kern'.p_pptr[x] = kern.p_pptr[x]
      /\ kern'.p_wchan[Swapper] = kern.p_wchan[Swapper]
  BY <1>2, <1>3, KernTypes
<1>5. kern' \in Kern
  <2>1. IInv'
    BY ForkStep
  <2> QED BY <2>1 DEF IInv, TypeOK
<1>6. Heed(kern, kern')
  BY <1>2, <1>3, <1>4 DEF Heed, RunoutSet, WantsIn, All
<1>7. Tidy(kern) => Tidy(kern')
  BY <1>2, <1>3, <1>4 DEF Tidy, SigAt, InitAt, All
<1> QED BY <1>5, <1>6, <1>7 DEF Kept

\* The child joins its run queue.
LEMMA ProcdupKept ==
  ASSUME IInv, NEW p \in Procs, Procdup(p)
  PROVE  Kept(kern, kern')
<1>1. PICK q \in Procs :
        /\ kern.p_stat[q] = "SIDL"
        /\ kern' = Setrq([kern EXCEPT !.p_stat[q] = "SRUN"], q)
  BY DEF Procdup
<1> DEFINE k == [kern EXCEPT !.p_stat[q] = "SRUN"]
<1>2. kern \in Kern /\ q \in All /\ q \in kern.sload
  BY <1>1 DEF IInv, TypeOK, All, Ctl, KernCtl
<1>3. Bland(kern, k)
  BY <1>2, StatBland DEF Stat
<1>4. kern' = Setrq(k, q)
  BY <1>1
<1> HIDE DEF k
<1>5. Bland(k, kern')
  BY <1>2, <1>3, <1>4, SetrqBland DEF Bland, Mute
<1> QED BY <1>3, <1>5, BlandTrans, BlandKept

\* exit() as far as its zombie.
LEMMA ExitKept ==
  ASSUME IInv, NEW p \in Procs, Exit(p)
  PROVE  Kept(kern, kern')
<1> DEFINE k == [kern EXCEPT !.p_stat[p] = "SZOMB"]
           chan == ChanOf[InitProc]
           k2 == Wakeup(k, chan)
<1>1. \/ kern' = Panic(k, "init died") \/ kern' = k \/ kern' = k2
  BY DEF Exit
<1>2. kern \in Kern /\ p \in All /\ chan \in AllChan
  BY ProcsAssumption, ChanAssumption DEF IInv, TypeOK, All, AllChan
<1> HIDE DEF chan
<1>3. Bland(kern, k)
  BY <1>2, StatBland DEF Stat
<1> HIDE DEF k
<1>4. Bland(k, k2)
  <2>1. k \in Kern
    BY <1>3 DEF Bland, Mute
  <2> QED BY <1>2, <2>1, WakeupBland
<1> HIDE DEF k2
<1>5. Bland(k, Panic(k, "init died"))
  BY <1>3, PanicBland DEF Why, Bland, Mute
<1> QED BY <1>1, <1>3, <1>4, <1>5, BlandTrans, BlandKept

\* The end of exit().
LEMMA ExitSwtchKept ==
  ASSUME IInv, NEW p \in Procs, ExitSwtch(p)
  PROVE  Kept(kern, kern')
<1> DEFINE parent == kern.p_pptr[p]
           k == PsignalPlain(kern, parent, SIGCHLD)
           chan == ChanOf[parent]
<1>1. kern' = Wakeup(k, chan)
  BY DEF ExitSwtch
<1>2. kern \in Kern
  BY DEF IInv, TypeOK
<1>3. parent \in All /\ SIGCHLD \in Sig \ StopSig /\ chan \in AllChan
  BY <1>2, KernTypes, ChanAssumption
  DEF AllChan, Sig, StopSig, SIGCHLD, SIGSTOP, SIGTSTP, SIGTTIN
<1> HIDE DEF parent, chan
<1>4. Sent(kern, k, parent, SIGCHLD)
  BY <1>2, <1>3, PsignalPlainSent
<1> HIDE DEF k
<1>5. Kept(kern, k) /\ k \in Kern
  BY <1>4, SentKept DEF Kept
<1>6. Kept(k, kern')
  BY <1>1, <1>3, <1>5, WakeupBland, BlandKept
<1> QED BY <1>5, <1>6, KeptTrans

\* wait1() frees a slot and clears its signals.
LEMMA WaitReapKept ==
  ASSUME IInv, NEW p \in Procs, WaitReap(p)
  PROVE  Kept(kern, kern')
<1>1. PICK q \in Procs :
        /\ kern.p_stat[q] = "SZOMB"
        /\ kern' = [kern EXCEPT !.p_stat[q] = "free", !.p_pptr[q] = Swapper,
                                !.p_sig[q] = {}, !.p_cursig[q] = NoSig,
                                !.p_wchan[q] = NoChan,
                                !.sload = @ \ {q}, !.swted = @ \ {q}]
  BY DEF WaitReap, Children
<1>2. kern \in Kern /\ q \in All /\ q # Swapper /\ Swapper \in All
  BY ProcsAssumption DEF IInv, TypeOK, All
<1>3. /\ kern'.p_sig = [kern.p_sig EXCEPT ![q] = {}]
      /\ kern'.p_cursig = [kern.p_cursig EXCEPT ![q] = NoSig]
      /\ kern'.p_pptr = [kern.p_pptr EXCEPT ![q] = Swapper]
      /\ kern'.p_stat = [kern.p_stat EXCEPT ![q] = "free"]
      /\ kern'.p_wchan = [kern.p_wchan EXCEPT ![q] = NoChan]
      /\ kern'.sload = kern.sload \ {q}
      /\ kern'.panicstr = kern.panicstr
      /\ kern'.runout = kern.runout /\ kern'.wantin = kern.wantin
  BY <1>1, <1>2 DEF Kern
<1>4. /\ \A x \in All : kern'.p_stat[x] =
           IF x = q THEN "free" ELSE kern.p_stat[x]
      /\ \A x \in Procs \ {q} : kern'.p_pptr[x] = kern.p_pptr[x]
      /\ \A x \in All \ {q} : kern'.p_cursig[x] = kern.p_cursig[x]
      /\ \A x \in All : kern'.p_sig[x] = IF x = q THEN {} ELSE kern.p_sig[x]
      /\ kern'.p_wchan[Swapper] = kern.p_wchan[Swapper]
  BY <1>2, <1>3, KernTypes
<1>5. kern' \in Kern
  <2>1. IInv'
    BY WaitReapStep
  <2> QED BY <2>1 DEF IInv, TypeOK
<1>6. Heed(kern, kern')
  BY <1>2, <1>3, <1>4 DEF Heed, RunoutSet, WantsIn, All
<1>7. Tidy(kern) => Tidy(kern')
  BY <1>2, <1>3, <1>4 DEF Tidy, SigAt, InitAt, All
<1> QED BY <1>5, <1>6, <1>7 DEF Kept

\* wait1() reports a stopped child.
LEMMA WaitStoppedKept ==
  ASSUME IInv, NEW p \in Procs, WaitStopped(p)
  PROVE  Kept(kern, kern')
<1>1. PICK q \in Procs : kern' = [kern EXCEPT !.swted = @ \cup {q}]
  BY DEF WaitStopped, Unreported, Children
<1>2. kern \in Kern /\ q \in All
  BY DEF IInv, TypeOK, All
<1>3. kern' \in Kern
  BY <1>1, <1>2 DEF Kern
<1>4. Bland(kern, kern')
  BY <1>1, <1>2, <1>3, BlandSame DEF Kern
<1> QED BY <1>4, BlandKept

\* What psignal() leaves keeps the data, whoever sends the signal.
LEMMA StruckKept ==
  ASSUME NEW k, NEW k2, Struck(k, k2)
  PROVE  Kept(k, k2)
BY DEF Struck, Kept

\* kill().
LEMMA KillKept ==
  ASSUME IInv, NEW p \in Procs, Kill(p)
  PROVE  Kept(kern, kern')
<1>0. PICK q \in Procs : \E sig \in Posted[q] : kern' = Psignal(kern, q, sig)
  BY DEF Kill
<1>1. PICK sig \in Posted[q] : kern' = Psignal(kern, q, sig)
  BY <1>0
<1>2. kern \in Kern /\ sig \in Sig
  BY SignalAssumption DEF IInv, TypeOK
<1> QED BY <1>1, <1>2, PsignalStruck, StruckKept

\* spgrp() takes signals away and changes nothing else.
LEMMA SpgrpHush ==
  ASSUME NEW k \in Kern, NEW q \in Procs, NEW k2, k2 = Spgrp(k, q)
  PROVE  Hush(k, k2) /\ Heed(k, k2) /\ k2.p_stat = k.p_stat
<1> DEFINE S == [r \in All |-> IF r \in Family(k, q)
                               THEN k.p_sig[r] \ {SIGTSTP, SIGTTIN}
                               ELSE k.p_sig[r]]
<1>1. k2 = [k EXCEPT !.p_sig = S]
  BY DEF Spgrp
<1>2. S \in [All -> SUBSET Sig] /\ \A x \in All : S[x] \subseteq k.p_sig[x]
  BY KernTypes
<1> HIDE DEF S
<1>3. /\ k2 \in Kern /\ k2.p_sig = S /\ k2.p_cursig = k.p_cursig
      /\ k2.p_pptr = k.p_pptr /\ k2.p_wchan = k.p_wchan
      /\ k2.sload = k.sload /\ k2.panicstr = k.panicstr
      /\ k2.runout = k.runout /\ k2.wantin = k.wantin
      /\ k2.p_stat = k.p_stat
  BY <1>1, <1>2 DEF Kern
<1>4. Hush(k, k2)
  BY <1>2, <1>3 DEF Hush, SigAt
<1>5. Heed(k, k2)
  BY <1>3 DEF Heed, RunoutSet, WantsIn
<1> QED BY <1>3, <1>4, <1>5

\* A stopped child that exit() gives to init is sent SIGCONT and is not
\* stopped any more.
LEMMA ExitChildKept ==
  ASSUME IInv, NEW p \in Procs, ExitChild(p)
  PROVE  Kept(kern, kern')
<1>1. PICK q \in Children(kern, p) :
        LET k  == [kern EXCEPT !.p_pptr[q] = InitProc]
            k1 == IF k.p_stat[q] = "SSTOP"
                  THEN PsignalPlain(PsignalPlain(k, q, SIGINT), q, SIGCONT)
                  ELSE k
        IN  kern' = Spgrp(k1, q)
  BY DEF ExitChild
<1> DEFINE k == [kern EXCEPT !.p_pptr[q] = InitProc]
           kint == PsignalPlain(k, q, SIGINT)
           kcont == PsignalPlain(kint, q, SIGCONT)
           k1 == IF k.p_stat[q] = "SSTOP" THEN kcont ELSE k
<1>2. kern' = Spgrp(k1, q)
  BY <1>1
<1>3. kern \in Kern /\ q \in Procs /\ q \in All /\ InitProc \in All
  BY ProcsAssumption DEF IInv, TypeOK, All, Children
<1>4. SIGINT \in Sig \ StopSig /\ SIGCONT \in Sig \ StopSig /\ SIGINT # SIGCONT
  BY DEF Sig, StopSig, SIGINT, SIGCONT, SIGSTOP, SIGTSTP, SIGTTIN
<1>5. /\ k \in Kern /\ k.p_sig = kern.p_sig /\ k.p_cursig = kern.p_cursig
      /\ k.p_wchan = kern.p_wchan /\ k.p_stat = kern.p_stat
      /\ k.sload = kern.sload /\ k.panicstr = kern.panicstr
      /\ k.runout = kern.runout /\ k.wantin = kern.wantin
      /\ \A x \in Procs \ {q} : k.p_pptr[x] = kern.p_pptr[x]
  <2>1. [kern.p_pptr EXCEPT ![q] = InitProc] \in [Procs -> All]
    BY <1>3, KernTypes
  <2>2. k.p_pptr = [kern.p_pptr EXCEPT ![q] = InitProc] /\ k \in Kern
    BY <1>3, <2>1 DEF Kern
  <2> QED BY <1>3, <2>2, KernTypes DEF Kern
<1> HIDE DEF k
<1>6. Sent(k, kint, q, SIGINT)
  BY <1>3, <1>4, <1>5, PsignalPlainSent
<1> HIDE DEF kint
<1>7. Sent(kint, kcont, q, SIGCONT)
  <2>1. kint \in Kern
    BY <1>6 DEF Sent, Hush
  <2> QED BY <1>3, <1>4, <2>1, PsignalPlainSent
<1> HIDE DEF kcont
<1>8. /\ Hush(k, k1) /\ Heed(k, k1) /\ k1.p_stat[q] # "SSTOP"
  <2>1. CASE k.p_stat[q] = "SSTOP"
    <3>1. k1 = kcont
      BY <2>1
    <3>2. Hush(k, kcont) /\ Heed(k, kcont)
      BY <1>6, <1>7, HushTrans, HeedTrans DEF Sent
    <3>3. kcont.p_stat[q] # "SSTOP"
      BY <1>3, <1>7 DEF Sent, Hush
    <3> QED BY <3>1, <3>2, <3>3
  <2>2. CASE k.p_stat[q] # "SSTOP"
    <3>1. k1 = k
      BY <2>2
    <3> QED BY <1>5, <2>2, <3>1 DEF Hush, Heed
  <2> QED BY <2>1, <2>2
<1> HIDE DEF k1
<1>9. Hush(k1, kern') /\ Heed(k1, kern') /\ kern'.p_stat = k1.p_stat
  BY <1>2, <1>3, <1>8, SpgrpHush DEF Hush
<1>10. Hush(k, kern') /\ kern'.p_stat[q] # "SSTOP"
  BY <1>8, <1>9, HushTrans
<1>11. Heed(kern, kern')
  <2>1. Heed(kern, k)
    BY <1>5 DEF Heed, RunoutSet, WantsIn
  <2> QED BY <1>8, <1>9, <2>1, HeedTrans
<1>12. Tidy(kern) => Tidy(kern')
  <2>1. ASSUME Tidy(kern), NEW x \in All PROVE SigAt(kern', x)
    <3>1. SigAt(k, x)
      BY <1>5, <2>1 DEF Tidy, SigAt
    <3> QED BY <1>10, <3>1 DEF Hush
  <2>2. ASSUME Tidy(kern), NEW x \in Procs PROVE InitAt(kern', x)
    <3>1. CASE x = q
      BY <1>10, <3>1 DEF InitAt
    <3>2. CASE x # q
      <4>1. InitAt(k, x)
        BY <1>5, <2>2, <3>2 DEF Tidy, InitAt
      <4> QED BY <1>10, <4>1 DEF Hush, InitAt, All
    <3> QED BY <3>1, <3>2
  <2> QED BY <2>1, <2>2 DEF Tidy
<1> QED BY <1>10, <1>11, <1>12 DEF Kept, Hush

\* swtch() changes the run queues only.
LEMMA SwtchKept ==
  ASSUME IInv, Swtch
  PROVE  Kept(kern, kern')
<1>1. kern \in Kern
  BY DEF IInv, TypeOK
<1>2. CASE kern' = Panic(kern, "swtch")
  BY <1>1, <1>2, PanicBland, BlandKept DEF Why
<1>3. CASE \E p \in OnQueue(kern, BestQueue) :
             kern' = Switched(kern, p, BestQueue)
  <2>1. PICK p \in All : kern' = Switched(kern, p, BestQueue)
    BY <1>3 DEF OnQueue
  <2> DEFINE k1 == [kern EXCEPT
                      !.p_rlink[p] = NoQ,
                      !.whichqs = IF OnQueue(kern, BestQueue) = {p}
                                  THEN @ \ {BestQueue} ELSE @]
  <2>2. k1 \in Kern
    BY <1>1, <2>1 DEF Kern
  <2>3. Bland(kern, k1)
    <3>1. /\ k1.p_sig = kern.p_sig /\ k1.p_cursig = kern.p_cursig
          /\ k1.p_pptr = kern.p_pptr /\ k1.p_stat = kern.p_stat
          /\ k1.p_wchan = kern.p_wchan /\ k1.sload = kern.sload
          /\ k1.runout = kern.runout /\ k1.wantin = kern.wantin
          /\ k1.panicstr = kern.panicstr
      BY <1>1 DEF Kern
    <3> HIDE DEF k1
    <3> QED BY <1>1, <2>2, <3>1, BlandSame
  <2>4. kern' = Panic(k1, "swtch") \/ kern' = k1
    BY <2>1 DEF Switched
  <2> HIDE DEF k1
  <2>5. Bland(k1, Panic(k1, "swtch"))
    BY <2>2, PanicBland DEF Why
  <2> QED BY <2>3, <2>4, <2>5, BlandTrans, BlandKept
<1> QED BY <1>2, <1>3 DEF Swtch

\* remrq() is bland.
LEMMA RemrqBland ==
  ASSUME NEW k \in Kern, NEW p \in All
  PROVE  Bland(k, Remrq(k, p))
<1> DEFINE q == IF OnQueue(k, k.p_rlink[p]) \subseteq {p}
                THEN k.whichqs \ {k.p_pri[p]} ELSE k.whichqs
           k2 == [k EXCEPT !.p_rlink[p] = NoQ, !.whichqs = q]
<1>1. Remrq(k, p) = Panic(k, "remrq") \/ Remrq(k, p) = k2
  BY DEF Remrq
<1>2. q \in SUBSET Pri
  BY KernTypes
<1> HIDE DEF q
<1>3. /\ k2 \in Kern /\ k2.p_sig = k.p_sig /\ k2.p_cursig = k.p_cursig
      /\ k2.p_pptr = k.p_pptr /\ k2.p_stat = k.p_stat
      /\ k2.p_wchan = k.p_wchan /\ k2.sload = k.sload
      /\ k2.runout = k.runout /\ k2.wantin = k.wantin
      /\ k2.panicstr = k.panicstr
  BY <1>2 DEF Kern
<1> HIDE DEF k2
<1>4. Bland(k, k2)
  BY <1>3, BlandSame
<1>5. Bland(k, Panic(k, "remrq"))
  BY PanicBland DEF Why
<1> QED BY <1>1, <1>4, <1>5

\* Interrupts strike nobody who runs, and make no SIGCONT pending for a
\* process between issig()'s decision and its stop().
LEMMA IntrStruck ==
  ASSUME IInv, ~ContinuedTooSoon,
         IntrWakeup \/ IntrSignal \/ Schedcpu \/ SchedcpuWakeup
  PROVE  /\ Struck(kern, kern')
         /\ \A r \in Procs :
              pc[r] \in {"chld", "stop"} /\ SIGCONT \in kern'.p_sig[r] =>
                SIGCONT \in kern.p_sig[r]
<1>1. kern \in Kern
  BY DEF IInv, TypeOK
<1>2. CASE IntrWakeup
  <2>1. PICK chan \in IntrChan \cup {SWAPIO} : kern' = Wakeup(kern, chan)
    BY <1>2 DEF IntrWakeup
  <2>2. chan \in AllChan
    BY ChanAssumption DEF AllChan, SwapChan
  <2> QED BY <1>1, <2>1, <2>2, WakeupBland, BlandStruck DEF NoCont, All
<1>3. CASE IntrSignal
  <2>1. PICK q \in Procs : \E sig \in IntrSigs[q] : IntrSend(q, sig)
    BY <1>3 DEF IntrSignal
  <2>2. PICK sig \in IntrSigs[q] : IntrSend(q, sig)
    BY <2>1
  <2>3. kern' = Psignal(kern, q, sig) /\ sig \in Sig
    BY <2>2, SignalAssumption DEF IntrSend
  <2>4. sig = SIGCONT => pc[q] \notin {"chld", "stop"}
    BY <2>2 DEF ContinuedTooSoon
  <2>5. /\ Struck(kern, kern')
        /\ \A x \in All : SIGCONT \in kern'.p_sig[x] =>
             SIGCONT \in kern.p_sig[x] \/ (x = q /\ sig = SIGCONT)
    BY <1>1, <2>3, PsignalStruck
  <2> QED BY <2>4, <2>5 DEF All
<1>4. CASE Schedcpu
  <2>1. PICK p \in Procs : \E usrpri \in UserPri :
          kern' = Reprioritize(kern, p, usrpri)
    BY <1>4 DEF Schedcpu
  <2>2. PICK usrpri \in UserPri : kern' = Reprioritize(kern, p, usrpri)
    BY <2>1
  <2> DEFINE k1 == [kern EXCEPT !.p_pri[p] = usrpri]
             k2 == Remrq(kern, p)
             k3 == [k2 EXCEPT !.p_pri[p] = usrpri]
  <2>3. kern' = kern \/ kern' = k1 \/ kern' = Setrq(k3, p)
    BY <2>2 DEF Reprioritize
  <2>4. p \in All /\ usrpri \in Pri
    BY ChanAssumption DEF All, Pri
  <2>5. Bland(kern, kern) /\ Bland(kern, k1)
    BY <1>1, <2>4, PriBland, BlandRefl
  <2>6. Bland(kern, k2)
    BY <1>1, <2>4, RemrqBland
  <2> HIDE DEF k1, k2
  <2>7. Bland(k2, k3)
    <3>1. k2 \in Kern
      BY <2>6 DEF Bland, Mute
    <3> QED BY <2>4, <3>1, PriBland
  <2> HIDE DEF k3
  <2>8. Bland(k3, Setrq(k3, p))
    <3>1. k3 \in Kern
      BY <2>7 DEF Bland, Mute
    <3> QED BY <2>4, <3>1, SetrqBland
  <2>9. Bland(kern, Setrq(k3, p))
    <3>1. Bland(kern, k3)
      BY <2>6, <2>7, BlandTrans
    <3> QED BY <2>8, <3>1, BlandTrans
  <2>10. Bland(kern, kern')
    BY <2>3, <2>5, <2>9
  <2> QED BY <2>10, BlandStruck DEF NoCont, All
<1>5. CASE SchedcpuWakeup
  <2> DEFINE k == Wakeup(kern, LBOLT)
  <2>1. kern' = Wakeup(k, RUNIN)
    BY <1>5 DEF SchedcpuWakeup
  <2>2. LBOLT \in AllChan /\ RUNIN \in AllChan
    BY DEF AllChan, SwapChan
  <2>3. Bland(kern, k)
    BY <1>1, <2>2, WakeupBland
  <2> HIDE DEF k
  <2>4. Bland(k, kern')
    <3>1. k \in Kern
      BY <2>3 DEF Bland, Mute
    <3> QED BY <2>1, <2>2, <3>1, WakeupBland
  <2>5. Bland(kern, kern')
    BY <2>3, <2>4, BlandTrans
  <2> QED BY <2>5, BlandStruck DEF NoCont, All
<1> QED BY <1>2, <1>3, <1>4, <1>5

\* vmmeter() wakes the swapper: it does not sleep on runout after it.
LEMMA VmmeterMute ==
  ASSUME IInv, Vmmeter
  PROVE  /\ Mute(kern, kern')
         /\ kern'.panicstr = "" =>
              /\ kern'.p_wchan[Swapper] # RUNOUT
              /\ kern.wantin => kern'.wantin
              /\ \A q \in Procs : WantsIn(kern', q) /\ ~WantsIn(kern, q) =>
                   kern'.wantin
<1> DEFINE k0 == [kern EXCEPT !.runout = FALSE]
           k == Wakeup(k0, RUNIN)
<1>1. kern \in Kern
  BY DEF IInv, TypeOK
<1>2. kern' = Wakeup(k, RUNOUT)
  BY DEF Vmmeter
<1>3. /\ k0 \in Kern /\ k0.p_sig = kern.p_sig /\ k0.p_cursig = kern.p_cursig
      /\ k0.p_pptr = kern.p_pptr /\ k0.p_stat = kern.p_stat
      /\ k0.p_wchan = kern.p_wchan /\ k0.sload = kern.sload
      /\ k0.wantin = kern.wantin /\ k0.panicstr = kern.panicstr
  BY <1>1 DEF Kern
<1> HIDE DEF k0
<1>4. RUNOUT \in AllChan /\ RUNIN \in AllChan
  BY DEF AllChan, SwapChan
<1>5. Bland(k0, k)
  BY <1>3, <1>4, WakeupBland
<1> HIDE DEF k
<1>6. k \in Kern
  BY <1>5 DEF Bland, Mute
<1>7. Bland(k, kern') /\ (kern'.panicstr = "" => kern'.p_wchan[Swapper] # RUNOUT)
  BY <1>2, <1>4, <1>6, WakeupBland
<1>8. Bland(k0, kern')
  BY <1>5, <1>7, BlandTrans
<1>9. Mute(kern, kern')
  BY <1>3, <1>8 DEF Bland, Mute
<1>10. kern'.panicstr = "" =>
         /\ kern.wantin => kern'.wantin
         /\ \A q \in Procs : WantsIn(kern', q) /\ ~WantsIn(kern, q) =>
              kern'.wantin
  BY <1>3, <1>8 DEF Bland, Heed, WantsIn
<1> QED BY <1>7, <1>9, <1>10

\* sched() is in its scan, or in a swapout() called from it.
Scanning ==
  \/ pc[Swapper] \in {"scan", "dead"}
  \/ pc[Swapper] \in {"out", "outio"} /\ ctx[Swapper] = "scan"

\* The swapper is not stuck: the flag runout is set while it sleeps on it, no
\* one wants in then but those it has passed over for their pageouts, and no
\* one else it has looked at in its scan wants in unless it has found someone
\* or has been told through wantin.
Watch ==
  NoPanic =>
    /\ RunoutSet(kern)
    /\ kern.p_wchan[Swapper] = RUNOUT =>
         \A q \in Procs : WantsIn(kern, q) => q \in skipped
    /\ Scanning /\ inp = Swapper /\ ~kern.wantin =>
         \A q \in Procs \ todo : WantsIn(kern, q) => q \in skipped

\* A step that tells the swapper of everyone leaves it not stuck.
LEMMA HeedWatch ==
  ASSUME Watch, Heed(kern, kern'), UNCHANGED swapvars,
         pc'[Swapper] = pc[Swapper], ctx'[Swapper] = ctx[Swapper]
  PROVE  Watch'
BY DEF Watch, Heed, NoPanic, swapvars, RunoutSet, Scanning

\* vmmeter() wakes the swapper.
LEMMA VmmeterWatch ==
  ASSUME IInv, Watch, Vmmeter
  PROVE  Watch'
<1>1. UNCHANGED <<pc, ctx, swapvars>> /\ NoPanic
  BY DEF Vmmeter, IntrEnabled
<1> QED BY <1>1, VmmeterMute DEF Watch, NoPanic, swapvars, RunoutSet, Scanning

\* A step of the swapper that neither scans nor sleeps on runout.
LEMMA SwapWatch ==
  ASSUME kern'.panicstr = "" => kern'.p_wchan[Swapper] # RUNOUT, ~Scanning'
  PROVE  Watch'
BY DEF Watch, NoPanic, RunoutSet

\* What a sleep() of the swapper does to the data.
LEMMA SwapSleepMute ==
  ASSUME NEW k \in Kern, NEW chan \in SwapChan, NEW back,
         SwapSleep(k, chan, back), pc \in [All -> PC]
  PROVE  /\ Mute(k, kern') /\ pc'[Swapper] = back /\ ctx' = ctx
         /\ kern'.runout = k.runout /\ kern'.sload = k.sload
         /\ kern'.wantin = k.wantin
         /\ kern'.panicstr = "" =>
              kern'.p_wchan[Swapper] = chan /\ k.panicstr = ""
         /\ \A q \in Procs : kern'.p_stat[q] = k.p_stat[q]
<1> DEFINE k1 == EnterSleep(k, Swapper, chan, PZERO)
           k2 == [k EXCEPT !.p_wchan[Swapper] = chan, !.p_pri[Swapper] = PZERO]
<1>1. Swapper \in All /\ Swapper \notin Procs /\ chan \in AllChan \cup {NoChan}
      /\ PZERO \in Pri
  BY ProcsAssumption DEF All, AllChan, Pri
<1>2. k1 = Panic(k, "sleep") \/ k1 = k2
  BY DEF EnterSleep
<1>4. /\ kern' = [k1 EXCEPT !.p_stat[Swapper] = "SSLEEP"] /\ ctx' = ctx
      /\ pc' = [pc EXCEPT ![Swapper] = back]
  BY DEF SwapSleep, Goto
<1> HIDE DEF k1
<1>3. /\ k1 \in Kern /\ k1.p_sig = k.p_sig /\ k1.p_cursig = k.p_cursig
      /\ k1.p_pptr = k.p_pptr /\ k1.p_stat = k.p_stat
      /\ k1.sload = k.sload /\ k1.runout = k.runout /\ k1.wantin = k.wantin
      /\ k1.panicstr = "" =>
           k1.p_wchan[Swapper] = chan /\ k.panicstr = ""
  <2>1. CASE k1 = Panic(k, "sleep")
    <3>1. Bland(k, k1) /\ k1.panicstr # "" /\ k1 \in Kern
      BY <2>1, PanicBland DEF Why, Bland, Mute
    <3>2. /\ k1.p_stat = k.p_stat /\ k1.sload = k.sload
          /\ k1.runout = k.runout /\ k1.wantin = k.wantin
      BY <2>1 DEF Panic, Kern
    <3> QED BY <3>1, <3>2 DEF Bland, Mute
  <2>2. CASE k1 = k2
    <3>1. [k.p_wchan EXCEPT ![Swapper] = chan] \in [All -> AllChan \cup {NoChan}]
      BY <1>1, KernTypes
    <3>2. [k.p_pri EXCEPT ![Swapper] = PZERO] \in [All -> Pri]
      BY <1>1, KernTypes
    <3>3. /\ k2 \in Kern /\ k2.p_sig = k.p_sig /\ k2.p_cursig = k.p_cursig
          /\ k2.p_pptr = k.p_pptr /\ k2.p_stat = k.p_stat
          /\ k2.sload = k.sload /\ k2.runout = k.runout
          /\ k2.wantin = k.wantin
          /\ k2.panicstr = k.panicstr
          /\ k2.p_wchan = [k.p_wchan EXCEPT ![Swapper] = chan]
      BY <3>1, <3>2 DEF Kern
    <3>4. k2.p_wchan[Swapper] = chan
      BY <1>1, <3>3, KernTypes
    <3> HIDE DEF k2
    <3> QED BY <2>2, <3>3, <3>4
  <2> QED BY <1>2, <2>1, <2>2
<1> HIDE DEF k2
<1>5. /\ kern' \in Kern /\ kern'.p_sig = k1.p_sig
      /\ kern'.p_cursig = k1.p_cursig
      /\ kern'.p_pptr = k1.p_pptr /\ kern'.p_wchan = k1.p_wchan
      /\ kern'.sload = k1.sload /\ kern'.runout = k1.runout
      /\ kern'.wantin = k1.wantin
      /\ kern'.panicstr = k1.panicstr
      /\ kern'.p_stat = [k1.p_stat EXCEPT ![Swapper] = "SSLEEP"]
  BY <1>3, <1>4 DEF Kern, Stat
<1>6. \A x \in All : kern'.p_stat[x] =
        IF x = Swapper THEN "SSLEEP" ELSE k.p_stat[x]
  <2>1. k1.p_stat \in [All -> Stat] /\ k1.p_stat = k.p_stat
    BY <1>3, KernTypes
  <2> QED BY <1>5, <2>1
<1>7. Mute(k, kern')
  BY <1>3, <1>5, <1>6 DEF Mute
<1>8. pc'[Swapper] = back
  BY <1>1, <1>4
<1> QED BY <1>1, <1>3, <1>4, <1>5, <1>6, <1>7, <1>8 DEF All

\* While it runs, the swapper is on no sleep queue.
LEMMA SwapperAwake ==
  ASSUME IInv, NEW label, At(Swapper, label)
  PROVE  /\ kern \in Kern /\ Swapper \in All /\ Swapper \notin Procs
         /\ pc \in [All -> PC] /\ pc[Swapper] = label /\ ctx \in [All -> Ctx]
         /\ kern.p_wchan[Swapper] # RUNOUT /\ kern.panicstr = ""
<1>1. /\ kern \in Kern /\ Swapper \in All /\ pc \in [All -> PC]
      /\ Good(kern, FALSE, Swapper, FALSE) /\ kern.p_stat[Swapper] = "SRUN"
      /\ pc[Swapper] = label /\ ctx \in [All -> Ctx]
  BY SwapperFacts
<1>2. kern.p_wchan[Swapper] = NoChan
  BY <1>1 DEF Good, Asleeps
<1>3. RUNOUT # NoChan /\ Swapper \notin Procs
  BY ChanAssumption, ProcsAssumption DEF AllChan, SwapChan
<1> QED BY <1>1, <1>2, <1>3 DEF At, NoPanic

\* The top of sched(): the scan starts with everyone to look at.
LEMMA SchedLoopWatch ==
  ASSUME IInv, SchedLoop
  PROVE  Mute(kern, kern') /\ Watch'
<1>1. /\ At(Swapper, "loop") /\ kern' = [kern EXCEPT !.wantin = FALSE]
      /\ UNCHANGED ctx
      /\ \/ pc' = [pc EXCEPT ![Swapper] = "scan"] /\ todo' = Procs
         \/ pc' = [pc EXCEPT ![Swapper] = "hard"]
  BY DEF SchedLoop, Goto
<1>2. /\ kern \in Kern /\ Swapper \in All /\ pc \in [All -> PC]
      /\ kern.p_wchan[Swapper] # RUNOUT
  BY <1>1, SwapperAwake
<1>3. /\ kern' \in Kern /\ kern'.p_sig = kern.p_sig
      /\ kern'.p_cursig = kern.p_cursig /\ kern'.p_pptr = kern.p_pptr
      /\ kern'.p_stat = kern.p_stat /\ kern'.p_wchan = kern.p_wchan
  BY <1>1, <1>2 DEF Kern
<1>4. \/ pc'[Swapper] = "scan" /\ todo' = Procs
      \/ pc'[Swapper] = "hard"
  BY <1>1, <1>2
<1>5. Mute(kern, kern')
  BY <1>3 DEF Mute
<1>6. Watch'
  BY <1>2, <1>3, <1>4 DEF Watch, RunoutSet, Scanning
<1> QED BY <1>5, <1>6

\* One process of the scan: it does not want in, or is to be brought in.
LEMMA SchedScanWatch ==
  ASSUME IInv, Watch, SchedScan
  PROVE  Mute(kern, kern') /\ Watch'
<1>1. At(Swapper, "scan") /\ UNCHANGED <<kern, ctx>>
  BY DEF SchedScan
<1>2. /\ kern \in Kern /\ pc[Swapper] = "scan"
      /\ kern.p_wchan[Swapper] # RUNOUT /\ NoPanic
  BY <1>1, SwapperAwake DEF At
<1>3. PICK q \in todo :
        /\ todo' = todo \ {q}
        /\ \/ inp' = q
           \/ skipped' = skipped \cup {q} /\ UNCHANGED inp
           \/ /\ ~WantsIn(kern, q) \/ inp # Swapper
              /\ UNCHANGED <<inp, skipped>>
  BY DEF SchedScan, Asleep, WantsIn
<1>4. q \in Procs /\ Swapper \notin Procs
  BY ProcsAssumption DEF IInv, TypeOK
<1>5. Mute(kern, kern')
  BY <1>1, <1>2 DEF Mute
<1>6. Scanning
  BY <1>2 DEF Scanning
<1>7. Watch'
  BY <1>1, <1>2, <1>3, <1>4, <1>6 DEF Watch, RunoutSet, NoPanic, WantsIn
<1> QED BY <1>5, <1>7

\* Deadwood is not runnable when sched() takes it out of core, so that no one
\* begins to want in.
LEMMA SchedDeadwoodWatch ==
  ASSUME IInv, Watch, SchedDeadwood, ~VictimRunnable
  PROVE  Mute(kern, kern') /\ Watch'
<1>1. /\ At(Swapper, "dead") /\ kern' = [kern EXCEPT !.sload = @ \ {victim}]
      /\ pc' = [pc EXCEPT ![Swapper] = "out"]
      /\ ctx' = [ctx EXCEPT ![Swapper] = "scan"]
      /\ UNCHANGED <<todo, inp, skipped>> /\ kern.p_stat[victim] # "SRUN"
  BY DEF SchedDeadwood, Goto, VictimRunnable, swapvars
<1>2. /\ kern \in Kern /\ pc[Swapper] = "dead" /\ pc \in [All -> PC]
      /\ kern.p_wchan[Swapper] # RUNOUT /\ NoPanic /\ ctx \in [All -> Ctx]
      /\ Swapper \in All
  BY <1>1, SwapperAwake DEF At
<1>3. /\ kern' \in Kern /\ kern'.p_sig = kern.p_sig
      /\ kern'.p_cursig = kern.p_cursig /\ kern'.p_pptr = kern.p_pptr
      /\ kern'.p_stat = kern.p_stat /\ kern'.p_wchan = kern.p_wchan
      /\ kern'.sload = kern.sload \ {victim} /\ kern'.wantin = kern.wantin
  BY <1>1, <1>2 DEF Kern
<1>4. Scanning
  BY <1>2 DEF Scanning
<1>5. \A q \in Procs : WantsIn(kern', q) => WantsIn(kern, q)
  BY <1>1, <1>3 DEF WantsIn
<1>6. Watch'
  BY <1>1, <1>2, <1>3, <1>4, <1>5 DEF Watch, RunoutSet, NoPanic
<1> QED BY <1>3, <1>6 DEF Mute

\* Before it sleeps on runout, sched() has set the flag, and found no one in
\* its scan who wants in.
LEMMA SchedIdleWatch ==
  ASSUME IInv, Watch, SchedIdle
  PROVE  Mute(kern, kern') /\ Watch'
<1> DEFINE k0 == [kern EXCEPT !.wantin = FALSE]
           k1 == [kern EXCEPT !.runout = TRUE]
<1>1. /\ At(Swapper, "scan") /\ todo = {} /\ inp = Swapper
      /\ \/ kern.wantin /\ SwapSleep(k0, LBOLT, "loop")
         \/ ~kern.wantin /\ SwapSleep(k1, RUNOUT, "loop")
      /\ skipped' = skipped
  BY DEF SchedIdle, swapvars
<1>2. /\ kern \in Kern /\ Swapper \in All /\ pc \in [All -> PC]
      /\ pc[Swapper] = "scan" /\ NoPanic
  BY <1>1, SwapperAwake DEF At
<1>3. /\ k0 \in Kern /\ k0.p_sig = kern.p_sig /\ k0.p_cursig = kern.p_cursig
      /\ k0.p_pptr = kern.p_pptr /\ k0.p_stat = kern.p_stat
  BY <1>2 DEF Kern
<1>4. /\ k1 \in Kern /\ k1.p_sig = kern.p_sig /\ k1.p_cursig = kern.p_cursig
      /\ k1.p_pptr = kern.p_pptr /\ k1.p_stat = kern.p_stat
      /\ k1.sload = kern.sload /\ k1.runout
  BY <1>2 DEF Kern
<1>5. Mute(kern, k0) /\ Mute(kern, k1)
  BY <1>3, <1>4 DEF Mute
<1> HIDE DEF k0, k1
<1>6. LBOLT \in SwapChan /\ RUNOUT \in SwapChan /\ LBOLT # RUNOUT
  BY DEF SwapChan, LBOLT, RUNOUT
<1>7. CASE kern.wantin /\ SwapSleep(k0, LBOLT, "loop")
  <2>1. /\ Mute(k0, kern') /\ pc'[Swapper] = "loop"
        /\ kern'.panicstr = "" => kern'.p_wchan[Swapper] = LBOLT
    BY <1>2, <1>3, <1>6, <1>7, SwapSleepMute
  <2>2. Watch'
    BY <1>6, <2>1, SwapWatch DEF Scanning
  <2> QED BY <1>5, <2>1, <2>2 DEF Mute
<1>8. CASE ~kern.wantin /\ SwapSleep(k1, RUNOUT, "loop")
  <2>1. /\ Mute(k1, kern') /\ pc'[Swapper] = "loop"
        /\ kern'.runout = k1.runout /\ kern'.sload = k1.sload
        /\ \A q \in Procs : kern'.p_stat[q] = k1.p_stat[q]
    BY <1>2, <1>4, <1>6, <1>8, SwapSleepMute
  <2>2. \A q \in Procs : WantsIn(kern', q) => q \in skipped
    BY <1>1, <1>2, <1>4, <1>8, <2>1 DEF Watch, WantsIn, Scanning
  <2>3. Watch'
    BY <1>1, <1>4, <2>1, <2>2 DEF Watch, RunoutSet, Scanning
  <2> QED BY <1>5, <2>1, <2>3 DEF Mute
<1> QED BY <1>1, <1>7, <1>8

\* The end of a scan that has found someone.
LEMMA SchedInWatch ==
  ASSUME IInv, SchedIn
  PROVE  Mute(kern, kern') /\ Watch'
<1>1. /\ At(Swapper, "scan")
      /\ \/ SwapSleep(kern, SWAPIO, "inio")
         \/ pc' = [pc EXCEPT ![Swapper] = "hard"] /\ kern' = kern
  BY DEF SchedIn, Goto
<1>2. /\ kern \in Kern /\ Swapper \in All /\ pc \in [All -> PC]
      /\ kern.p_wchan[Swapper] # RUNOUT
  BY <1>1, SwapperAwake
<1>3. CASE SwapSleep(kern, SWAPIO, "inio")
  <2>1. SWAPIO \in SwapChan /\ SWAPIO # RUNOUT
    BY DEF SwapChan, SWAPIO, RUNOUT
  <2>2. /\ Mute(kern, kern') /\ pc'[Swapper] = "inio"
        /\ kern'.panicstr = "" => kern'.p_wchan[Swapper] = SWAPIO
    BY <1>2, <1>3, <2>1, SwapSleepMute
  <2> QED BY <2>1, <2>2, SwapWatch DEF Scanning
<1>4. CASE pc' = [pc EXCEPT ![Swapper] = "hard"] /\ kern' = kern
  <2>1. pc'[Swapper] = "hard"
    BY <1>2, <1>4
  <2>2. Watch'
    BY <1>2, <1>4, <2>1, SwapWatch DEF Scanning
  <2> QED BY <1>2, <1>4, <2>2 DEF Mute
<1> QED BY <1>1, <1>3, <1>4

\* The end of swapin().
LEMMA SwapinWatch ==
  ASSUME IInv, Swapin
  PROVE  Mute(kern, kern') /\ Watch'
<1> DEFINE k == IF kern.p_stat[inp] = "SRUN" THEN Setrq(kern, inp) ELSE kern
<1>1. /\ At(Swapper, "inio") /\ kern' = [k EXCEPT !.sload = @ \cup {inp}]
      /\ pc' = [pc EXCEPT ![Swapper] = "loop"]
  BY DEF Swapin, Goto
<1>2. /\ kern \in Kern /\ Swapper \in All /\ pc \in [All -> PC]
      /\ kern.p_wchan[Swapper] # RUNOUT /\ inp \in All
  BY <1>1, SwapperAwake DEF IInv, TypeOK
<1>3. Bland(kern, k)
  BY <1>2, SetrqBland, BlandRefl
<1> HIDE DEF k
<1>4. k \in Kern
  BY <1>3 DEF Bland, Mute
<1>5. /\ kern' \in Kern /\ kern'.p_sig = k.p_sig
      /\ kern'.p_cursig = k.p_cursig /\ kern'.p_pptr = k.p_pptr
      /\ kern'.p_stat = k.p_stat /\ kern'.p_wchan = k.p_wchan
      /\ kern'.panicstr = k.panicstr
  BY <1>1, <1>2, <1>4 DEF Kern
<1>6. pc'[Swapper] = "loop"
  BY <1>1, <1>2
<1>7. kern'.panicstr = "" => kern'.p_wchan[Swapper] # RUNOUT
  BY <1>2, <1>3, <1>5 DEF Bland, Heed
<1>8. Watch'
  BY <1>6, <1>7, SwapWatch DEF Scanning
<1>9. Mute(kern, kern')
  BY <1>3, <1>5 DEF Bland, Mute
<1> QED BY <1>8, <1>9

\* A hard swap, or a sleep on runin.
LEMMA SchedHardWatch ==
  ASSUME IInv, SchedHard
  PROVE  Mute(kern, kern') /\ Watch'
<1>1. At(Swapper, "hard")
  BY DEF SchedHard
<1>2. /\ kern \in Kern /\ Swapper \in All /\ pc \in [All -> PC]
      /\ kern.p_wchan[Swapper] # RUNOUT /\ ctx \in [All -> Ctx]
  BY <1>1, SwapperAwake
<1>3. CASE SwapSleep(kern, RUNIN, "loop")
  <2>1. RUNIN \in SwapChan /\ RUNIN # RUNOUT
    BY DEF SwapChan, RUNIN, RUNOUT
  <2>2. /\ Mute(kern, kern') /\ pc'[Swapper] = "loop"
        /\ kern'.panicstr = "" => kern'.p_wchan[Swapper] = RUNIN
    BY <1>2, <1>3, <2>1, SwapSleepMute
  <2> QED BY <2>1, <2>2, SwapWatch DEF Scanning
<1>4. CASE ~SwapSleep(kern, RUNIN, "loop")
  <2>1. PICK q \in Big :
          /\ LET k == [kern EXCEPT !.sload = @ \ {q}]
             IN  kern' = IF k.p_stat[q] = "SRUN" THEN Remrq(k, q) ELSE k
          /\ pc' = [pc EXCEPT ![Swapper] = "out"]
          /\ ctx' = [ctx EXCEPT ![Swapper] = "hard"]
    BY <1>4 DEF SchedHard, Goto
  <2> DEFINE k == [kern EXCEPT !.sload = @ \ {q}]
  <2>2. kern' = Remrq(k, q) \/ kern' = k
    BY <2>1
  <2>3. q \in All
    BY SwapAssumption DEF All
  <2>4. /\ k \in Kern /\ k.p_sig = kern.p_sig /\ k.p_cursig = kern.p_cursig
        /\ k.p_pptr = kern.p_pptr /\ k.p_stat = kern.p_stat
        /\ k.p_wchan = kern.p_wchan
    BY <1>2 DEF Kern
  <2> HIDE DEF k
  <2>5. Bland(k, kern')
    BY <2>2, <2>3, <2>4, RemrqBland, BlandRefl
  <2>6. Mute(kern, kern')
    BY <2>4, <2>5 DEF Bland, Mute
  <2>7. kern'.panicstr = "" => kern'.p_wchan[Swapper] # RUNOUT
    BY <1>2, <2>4, <2>5 DEF Bland, Heed
  <2>8. pc'[Swapper] = "out" /\ ctx'[Swapper] = "hard"
    BY <1>2, <2>1
  <2> QED BY <2>6, <2>7, <2>8, SwapWatch DEF Scanning
<1> QED BY <1>3, <1>4

\* swapout() finds no room, for a process that is not runnable.
LEMMA SwapoutFailsWatch ==
  ASSUME IInv, Watch, SwapoutFails, ~VictimRunnable
  PROVE  Mute(kern, kern') /\ Watch'
<1> DEFINE k == [kern EXCEPT !.sload = @ \cup {victim}]
<1>1. /\ At(Swapper, "out") /\ UNCHANGED <<todo, inp, skipped>>
      /\ IF ctx[Swapper] = "scan"
         THEN /\ kern' = k /\ pc' = [pc EXCEPT ![Swapper] = "scan"]
              /\ UNCHANGED ctx
         ELSE SwapSleep(k, RUNIN, "loop")
      /\ kern.p_stat[victim] # "SRUN" /\ victim \in SwapFull
  BY DEF SwapoutFails, Goto, VictimRunnable, swapvars
<1>2. /\ kern \in Kern /\ pc[Swapper] = "out" /\ pc \in [All -> PC]
      /\ kern.p_wchan[Swapper] # RUNOUT /\ NoPanic /\ ctx \in [All -> Ctx]
      /\ Swapper \in All
  BY <1>1, SwapperAwake DEF At
<1>3. kern.sload \cup {victim} \in SUBSET All
  BY <1>1, <1>2, KernTypes, SwapAssumption DEF All
<1>4. /\ k \in Kern /\ k.p_sig = kern.p_sig
      /\ k.p_cursig = kern.p_cursig /\ k.p_pptr = kern.p_pptr
      /\ k.p_stat = kern.p_stat /\ k.p_wchan = kern.p_wchan
      /\ k.sload = kern.sload \cup {victim} /\ k.wantin = kern.wantin
  BY <1>2, <1>3 DEF Kern
<1> HIDE DEF k
<1>5. \A q \in Procs : WantsIn(k, q) => WantsIn(kern, q)
  BY <1>1, <1>4 DEF WantsIn
<1>6. CASE ctx[Swapper] = "scan"
  <2>1. Scanning
    BY <1>2, <1>6 DEF Scanning
  <2>2. Watch'
    BY <1>1, <1>2, <1>4, <1>5, <1>6, <2>1 DEF Watch, RunoutSet, NoPanic
  <2> QED BY <1>1, <1>4, <1>6, <2>2 DEF Mute
<1>7. CASE ctx[Swapper] # "scan"
  <2>1. /\ RUNIN \in SwapChan /\ RUNIN # RUNOUT
        /\ SwapSleep(k, RUNIN, "loop") /\ k \in Kern /\ pc \in [All -> PC]
    BY <1>1, <1>2, <1>4, <1>7 DEF SwapChan, RUNIN, RUNOUT
  <2>2. /\ Mute(k, kern') /\ pc'[Swapper] = "loop"
        /\ kern'.panicstr = "" => kern'.p_wchan[Swapper] = RUNIN
    BY <2>1, SwapSleepMute
  <2>3. Watch'
    BY <2>1, <2>2, SwapWatch DEF Scanning
  <2> QED BY <1>4, <2>2, <2>3 DEF Mute
<1> QED BY <1>6, <1>7

\* swapout() sleeps for its i/o.
LEMMA SwapoutStartWatch ==
  ASSUME IInv, Watch, SwapoutStart
  PROVE  Mute(kern, kern') /\ Watch'
<1>1. /\ At(Swapper, "out") /\ SwapSleep(kern, SWAPIO, "outio")
      /\ UNCHANGED <<todo, inp, skipped>>
  BY DEF SwapoutStart, swapvars
<1>2. /\ kern \in Kern /\ pc \in [All -> PC] /\ pc[Swapper] = "out" /\ NoPanic
  BY <1>1, SwapperAwake DEF At
<1>3. SWAPIO \in SwapChan /\ SWAPIO # RUNOUT
  BY DEF SwapChan, SWAPIO, RUNOUT
<1>4. /\ Mute(kern, kern') /\ pc'[Swapper] = "outio" /\ ctx' = ctx
      /\ kern'.panicstr = "" => kern'.p_wchan[Swapper] = SWAPIO
      /\ kern'.sload = kern.sload /\ kern'.wantin = kern.wantin
      /\ \A q \in Procs : kern'.p_stat[q] = kern.p_stat[q]
  BY <1>1, <1>2, <1>3, SwapSleepMute
<1>5. CASE ctx[Swapper] = "scan"
  <2>1. Scanning
    BY <1>2, <1>5 DEF Scanning
  <2>2. Watch'
    BY <1>1, <1>2, <1>3, <1>4, <2>1 DEF Watch, RunoutSet, NoPanic, WantsIn
  <2> QED BY <1>4, <2>2
<1>6. CASE ctx[Swapper] # "scan"
  <2>1. ~Scanning'
    BY <1>4, <1>6 DEF Scanning
  <2> QED BY <1>3, <1>4, <2>1, SwapWatch
<1> QED BY <1>5, <1>6

\* The end of swapout(), which wakes whoever sleeps on runout.
LEMMA SwapoutEndWatch ==
  ASSUME IInv, Watch, SwapoutEnd
  PROVE  Mute(kern, kern') /\ Watch'
<1> DEFINE k == [kern EXCEPT !.sload = @ \ {victim}]
           k0 == [k EXCEPT !.runout = FALSE]
<1>1. /\ At(Swapper, "outio") /\ UNCHANGED <<ctx, todo, inp, skipped>>
      /\ \/ kern' = Panic(kern, "swapout") \/ kern' = k
         \/ kern' = Wakeup(k0, RUNOUT)
      /\ pc' = [pc EXCEPT ![Swapper] =
                  IF ctx[Swapper] = "scan" THEN "scan" ELSE "loop"]
  BY DEF SwapoutEnd, Goto, swapvars
<1>2. /\ kern \in Kern /\ Swapper \in All /\ pc \in [All -> PC] /\ NoPanic
      /\ pc[Swapper] = "outio" /\ kern.p_wchan[Swapper] # RUNOUT
  BY <1>1, SwapperAwake DEF At
<1>3. /\ pc'[Swapper] = IF ctx[Swapper] = "scan" THEN "scan" ELSE "loop"
      /\ victim \notin kern.sload
  <2>1. "outio" \in {"out", "outio"}
    OBVIOUS
  <2> QED BY <1>1, <1>2, <2>1, SwapperFacts
<1>4. /\ k \in Kern /\ k.p_sig = kern.p_sig /\ k.p_cursig = kern.p_cursig
      /\ k.p_pptr = kern.p_pptr /\ k.p_stat = kern.p_stat
      /\ k.p_wchan = kern.p_wchan /\ k.wantin = kern.wantin
      /\ k.panicstr = kern.panicstr /\ k.sload = kern.sload
  <2>1. kern.sload \ {victim} = kern.sload
    BY <1>3
  <2> QED BY <1>2, <2>1 DEF Kern
<1> HIDE DEF k
<1>5. /\ k0 \in Kern /\ k0.p_sig = k.p_sig /\ k0.p_cursig = k.p_cursig
      /\ k0.p_pptr = k.p_pptr /\ k0.p_stat = k.p_stat
      /\ k0.p_wchan = k.p_wchan /\ k0.wantin = k.wantin /\ k0.sload = k.sload
  BY <1>4 DEF Kern
<1> HIDE DEF k0
<1>6. RUNOUT \in AllChan
  BY DEF AllChan, SwapChan
<1>7. /\ Mute(kern, kern')
      /\ kern'.panicstr = "" =>
           /\ kern'.p_wchan[Swapper] # RUNOUT
           /\ kern.wantin => kern'.wantin
           /\ \A q \in Procs : WantsIn(kern', q) /\ ~WantsIn(kern, q) =>
                kern'.wantin
  <2>1. CASE kern' = Panic(kern, "swapout")
    BY <1>2, <2>1, PanicBland DEF Why, Bland
  <2>2. CASE kern' = k
    BY <1>2, <1>4, <2>2 DEF Mute, WantsIn
  <2>3. CASE kern' = Wakeup(k0, RUNOUT)
    <3>1. /\ Bland(k0, kern')
          /\ kern'.panicstr = "" => kern'.p_wchan[Swapper] # RUNOUT
      BY <1>5, <1>6, <2>3, WakeupBland
    <3>2. Mute(kern, kern')
      BY <1>4, <1>5, <3>1 DEF Bland, Mute
    <3>3. kern'.panicstr = "" =>
            /\ kern.wantin => kern'.wantin
            /\ \A q \in Procs : WantsIn(kern', q) /\ ~WantsIn(kern, q) =>
                 kern'.wantin
      BY <1>4, <1>5, <3>1 DEF Bland, Heed, WantsIn
    <3> QED BY <3>1, <3>2, <3>3
  <2> QED BY <1>1, <2>1, <2>2, <2>3
<1>8. CASE ctx[Swapper] = "scan"
  <2>1. Scanning
    BY <1>2, <1>8 DEF Scanning
  <2>2. Watch'
    BY <1>1, <1>2, <1>7, <2>1 DEF Watch, RunoutSet, NoPanic
  <2> QED BY <1>7, <2>2
<1>9. CASE ctx[Swapper] # "scan"
  BY <1>3, <1>7, <1>9, SwapWatch DEF Scanning
<1> QED BY <1>8, <1>9

\* Every step of the swapper leaves the signals alone, and leaves it not
\* stuck.
LEMMA SchedWatch ==
  ASSUME IInv, Watch, Sched, ~VictimRunnable
  PROVE  Mute(kern, kern') /\ Watch'
BY SchedLoopWatch, SchedScanWatch, SchedDeadwoodWatch, SchedIdleWatch,
   SchedInWatch, SwapinWatch, SchedHardWatch, SwapoutFailsWatch,
   SwapoutStartWatch, SwapoutEndWatch
DEF Sched

-----------------------------------------------------------------------------
(***************************************************************************)
(* A process that is about to stop itself.                                 *)
(***************************************************************************)

\* Between issig()'s decision and its stop(), the process keeps the
\* processor, has no SIGCONT pending, and stops for SIGSTOP if its parent is
\* init.
PcSig ==
  \A p \in Procs : pc[p] \in {"chld", "stop"} =>
    /\ ~noproc /\ cur = p
    /\ SIGCONT \notin kern.p_sig[p]
    /\ kern.p_pptr[p] = InitProc => kern.p_cursig[p] = SIGSTOP

\* A step of p moves only p, and a child it makes.
Walks(p) ==
  /\ UNCHANGED swapvars
  /\ \A x \in All \ {p} :
       /\ ctx'[x] = ctx[x]
       /\ pc'[x] = pc[x] \/ (x # Swapper /\ pc'[x] = "run")

\* Only issig() takes a process to its stop().
LEMMA ProcWalks ==
  ASSUME IInv, NEW p \in Procs, Proc(p)
  PROVE  /\ Walks(p)
         /\ \/ IssigStop(p) \/ TellParent(p)
            \/ pc'[p] \notin {"chld", "stop"}
<1>1. /\ p \in All /\ p # Swapper /\ pc \in [All -> PC]
      /\ ctx \in [All -> Ctx] /\ ret[p] \in {"run", "wait"}
  BY ProcsAssumption DEF IInv, TypeOK, All
<1>2. CASE Sleep(p)
  BY <1>1, <1>2 DEF Sleep, SleepCall, Goto, Walks
<1>3. CASE WaitSleep(p)
  BY <1>1, <1>3 DEF WaitSleep, SleepCall, Goto, Walks
<1>4. CASE Woken(p)
  BY <1>1, <1>4 DEF Woken, Goto, Walks
<1>5. CASE IssigNone(p)
  BY <1>1, <1>5 DEF IssigNone, Goto, Walks
<1>6. CASE IssigSend(p)
  BY <1>1, <1>6 DEF IssigSend, Goto, Walks
<1>7. CASE IssigContinue(p) \/ IssigKill(p)
  BY <1>1, <1>7 DEF IssigContinue, IssigKill, Walks, At
<1>8. CASE IssigStop(p)
  BY <1>1, <1>8 DEF IssigStop, Goto, Walks
<1>9. CASE TellParent(p)
  BY <1>1, <1>9 DEF TellParent, Goto, Walks
<1>10. CASE StopSelf(p)
  BY <1>1, <1>10 DEF StopSelf, Goto, Walks
<1>11. CASE SwtchStopped(p)
  BY <1>1, <1>11 DEF SwtchStopped, Goto, Walks
<1>12. CASE TrapExit(p)
  BY <1>1, <1>12 DEF TrapExit, Goto, Walks
<1>13. CASE Psig(p)
  BY <1>1, <1>13 DEF Psig, Goto, Walks, At
<1>14. CASE Rest(p)
  BY <1>1, <1>14 DEF Rest, Goto, Walks
<1>15. CASE Fork(p)
  <2>1. PICK q \in Procs : pc' = [pc EXCEPT ![p] = "procdup", ![q] = "run"]
    BY <1>15 DEF Fork
  <2>2. UNCHANGED <<ctx, swapvars>> /\ q # Swapper
    BY <1>15, ProcsAssumption DEF Fork
  <2>3. q \in All /\ pc'[p] \in {"procdup", "run"}
    BY <1>1, <2>1 DEF All
  <2> QED BY <1>1, <2>1, <2>2, <2>3 DEF Walks
<1>16. CASE Procdup(p)
  BY <1>1, <1>16 DEF Procdup, Goto, Walks
<1>17. CASE Exit(p)
  BY <1>1, <1>17 DEF Exit, Goto, Walks
<1>18. CASE ExitChild(p)
  BY <1>1, <1>18 DEF ExitChild, Walks, At
<1>19. CASE ExitSwtch(p)
  BY <1>1, <1>19 DEF ExitSwtch, Goto, Walks
<1>20. CASE Wait(p) \/ WaitNone(p)
  BY <1>1, <1>20 DEF Wait, WaitNone, Goto, Walks
<1>21. CASE WaitReap(p) \/ WaitStopped(p)
  BY <1>1, <1>21 DEF WaitReap, WaitStopped, Goto, Walks
<1>22. CASE Kill(p)
  BY <1>1, <1>22 DEF Kill, Walks, At
<1> QED
  BY <1>2, <1>3, <1>4, <1>5, <1>6, <1>7, <1>8, <1>9, <1>10, <1>11, <1>12,
     <1>13, <1>14, <1>15, <1>16, <1>17, <1>18, <1>19, <1>20, <1>21, <1>22
  DEF Proc

\* stop() of the running process.
LEMMA StopSelfKept ==
  ASSUME IInv, PcSig, NEW p \in Procs, StopSelf(p)
  PROVE  Kept(kern, kern')
<1>1. At(p, "stop") /\ kern' = Stop(kern, p)
  BY DEF StopSelf
<1>2. kern \in Kern
  BY DEF IInv, TypeOK
<1>3. /\ SIGCONT \notin kern.p_sig[p]
      /\ kern.p_pptr[p] = InitProc => kern.p_cursig[p] = SIGSTOP
  BY <1>1 DEF At, PcSig
<1> QED BY <1>1, <1>2, <1>3, StopTidy DEF Kept

\* The steps of processes.
LEMMA ProcKept ==
  ASSUME IInv, PcSig, NEW p \in Procs, Proc(p)
  PROVE  Kept(kern, kern')
<1>1. CASE \/ Woken(p) \/ SwtchStopped(p) \/ TrapExit(p) \/ Wait(p)
           \/ WaitNone(p)
  <2>1. kern' = kern
    BY <1>1 DEF Woken, SwtchStopped, TrapExit, Wait, WaitNone
  <2> QED BY <2>1, IdleKept
<1>2. CASE TellParent(p)
  BY <1>2, TellParentKept
<1>3. CASE ~TellParent(p)
  BY <1>1, <1>3, SleepKept, IssigNoneKept, IssigTakeKept, StopSelfKept,
     PsigKept, RestKept, ForkKept, ProcdupKept, ExitKept, ExitChildKept,
     ExitSwtchKept, WaitReapKept, WaitStoppedKept, KillKept
  DEF Proc
<1> QED BY <1>2, <1>3

\* issig() stops for a signal only when SIGCONT is not pending, and for
\* SIGSTOP only if the parent is init.
LEMMA IssigStopSig ==
  ASSUME IInv, Tidy(kern), NEW p \in Procs, IssigStop(p)
  PROVE  /\ SIGCONT \notin kern'.p_sig[p]
         /\ kern'.p_pptr[p] = InitProc => kern'.p_cursig[p] = SIGSTOP
<1> DEFINE sig == NextSig(kern, p)
<1>1. /\ At(p, "issig") /\ SigBits(kern, p) # {}
      /\ Disposition(kern, p) = "stop" /\ kern' = Take(kern, p)
  BY DEF IssigStop
<1>2. "issig" \notin {"swtch", "exit1"}
  OBVIOUS
<1>3. p \in All /\ kern \in Kern /\ kern.p_stat[p] # "SSTOP"
  BY <1>1, <1>2, AtFacts
<1>4. sig \in SigBits(kern, p) /\ sig \in Sig
  BY <1>1, <1>3, NextSigSig
<1>5. /\ sig \in StopSig
      /\ sig # SIGSTOP => kern.p_pptr[p] # InitProc
  BY <1>1 DEF Disposition
<1>6. /\ kern'.p_sig[p] \subseteq kern.p_sig[p]
      /\ kern'.p_pptr = kern.p_pptr /\ kern'.p_cursig[p] = sig
  BY <1>1, <1>3, TakeKept
<1>7. sig \in kern.p_sig[p]
  BY <1>4 DEF SigBits
<1> HIDE DEF sig
<1>8. SIGCONT \notin kern.p_sig[p]
  BY <1>3, <1>5, <1>7 DEF Tidy, SigAt
<1> QED BY <1>5, <1>6, <1>8

\* The steps of processes keep it.
LEMMA ProcPcSig ==
  ASSUME IInv, Tidy(kern), PcSig, NEW p \in Procs, Proc(p)
  PROVE  PcSig'
<1>1. PICK label : At(p, label)
  BY DEF Proc, Sleep, Woken, IssigNone, IssigSend, IssigContinue, IssigKill,
         IssigStop, TellParent, StopSelf, SwtchStopped, TrapExit, Psig, Rest,
         Fork, Procdup, Exit, ExitChild, ExitSwtch, Wait, WaitReap,
         WaitStopped, WaitNone, WaitSleep, Kill
<1>2. p \in All /\ cur = p /\ ~noproc /\ pc \in [All -> PC]
  BY <1>1, AtFacts
<1>3. \A q \in Procs \ {p} : pc'[q] \notin {"chld", "stop"}
  <2>1. \A q \in Procs \ {p} : pc[q] \notin {"chld", "stop"}
    BY <1>2 DEF PcSig
  <2>2. Walks(p)
    BY ProcWalks
  <2> QED BY <2>1, <2>2 DEF Walks, All
<1>4. CASE pc'[p] \notin {"chld", "stop"}
  BY <1>3, <1>4 DEF PcSig
<1>5. CASE IssigStop(p)
  <2>1. cur' = cur /\ noproc' = noproc
    BY <1>5 DEF IssigStop
  <2>2. /\ SIGCONT \notin kern'.p_sig[p]
        /\ kern'.p_pptr[p] = InitProc => kern'.p_cursig[p] = SIGSTOP
    BY <1>5, IssigStopSig
  <2> QED BY <1>2, <1>3, <2>1, <2>2 DEF PcSig
<1>6. CASE TellParent(p)
  <2>1. /\ cur' = cur /\ noproc' = noproc /\ pc[p] = "chld"
    BY <1>6 DEF TellParent, At
  <2>2. /\ SIGCONT \notin kern.p_sig[p]
        /\ kern.p_pptr[p] = InitProc => kern.p_cursig[p] = SIGSTOP
    BY <2>1 DEF PcSig
  <2>3. /\ SIGCONT \notin kern'.p_sig[p]
        /\ kern'.p_pptr[p] = InitProc => kern'.p_cursig[p] = SIGSTOP
    BY <1>6, <2>2, TellParentKept
  <2> QED BY <1>2, <1>3, <2>1, <2>3 DEF PcSig
<1> QED BY <1>4, <1>5, <1>6, ProcWalks

\* swtch() is called by no one who is about to stop.
LEMMA SwtchPcSig ==
  ASSUME PcSig, Swtch
  PROVE  PcSig'
<1>1. noproc /\ pc' = pc
  BY DEF Swtch
<1> QED BY <1>1 DEF PcSig

\* Nor does the swapper run while someone is.
LEMMA SchedPcSig ==
  ASSUME IInv, PcSig, Sched
  PROVE  PcSig'
<1>1. \E label : At(Swapper, label)
  BY DEF Sched, SchedLoop, SchedScan, SchedDeadwood, SchedIdle, SchedIn,
         Swapin, SchedHard, SwapoutFails, SwapoutStart, SwapoutEnd
<1>2. cur = Swapper /\ Swapper \notin Procs
  BY <1>1, ProcsAssumption DEF At, Running
<1>3. pc' = pc \/ \E to : pc' = [pc EXCEPT ![Swapper] = to]
  BY DEF Sched, SchedLoop, SchedScan, SchedDeadwood, SchedIdle, SchedIn,
         Swapin, SchedHard, SwapoutFails, SwapoutStart, SwapoutEnd,
         SwapSleep, Goto
<1>4. \A q \in Procs : pc[q] \notin {"chld", "stop"}
  BY <1>2 DEF PcSig
<1>5. \A q \in Procs : pc'[q] = pc[q]
  BY <1>2, <1>3 DEF IInv, TypeOK, All
<1> QED BY <1>4, <1>5 DEF PcSig

\* Interrupts post no SIGCONT then, and the running process keeps its signal.
LEMMA IntrPcSig ==
  ASSUME IInv, PcSig, Intr, ~ContinuedTooSoon
  PROVE  PcSig'
<1>1. UNCHANGED <<pc, cur, noproc>>
  BY DEF Intr, IntrWakeup, IntrSignal, IntrSend, Schedcpu, SchedcpuWakeup,
         Vmmeter
<1>2. CASE Vmmeter
  <2>1. Mute(kern, kern')
    BY <1>2, VmmeterMute
  <2> QED BY <1>1, <2>1 DEF PcSig, Mute
<1>3. CASE ~Vmmeter
  <2>1. /\ Struck(kern, kern')
        /\ \A r \in Procs :
             pc[r] \in {"chld", "stop"} /\ SIGCONT \in kern'.p_sig[r] =>
               SIGCONT \in kern.p_sig[r]
    BY <1>3, IntrStruck DEF Intr
  <2>2. SUFFICES ASSUME NEW p \in Procs, pc'[p] \in {"chld", "stop"}
        PROVE  /\ ~noproc' /\ cur' = p
               /\ SIGCONT \notin kern'.p_sig[p]
               /\ kern'.p_pptr[p] = InitProc => kern'.p_cursig[p] = SIGSTOP
    BY DEF PcSig
  <2>3. /\ ~noproc /\ cur = p /\ SIGCONT \notin kern.p_sig[p]
        /\ kern.p_pptr[p] = InitProc => kern.p_cursig[p] = SIGSTOP
    BY <1>1, <2>2 DEF PcSig
  <2>4. p \in All /\ kern.p_stat[p] = "SRUN"
    BY <1>1, <2>2, <2>3 DEF IInv, Ctl, PcCtl, All
  <2> QED BY <1>1, <2>1, <2>2, <2>3, <2>4 DEF Struck
<1> QED BY <1>2, <1>3

-----------------------------------------------------------------------------
\* The inductive invariant of the three.
SInv == IInv /\ Tidy(kern) /\ PcSig /\ Watch

\* It holds to begin with.
LEMMA InitSInv ==
  ASSUME Init
  PROVE  SInv
<1>1. IInv
  BY InitIInv
<1>2. /\ \A p \in All : kern.p_sig[p] = {} /\ p \in kern.sload
      /\ \A p \in All : kern.p_stat[p] \in {"SSLEEP", "SRUN"}
      /\ kern.runout = TRUE
      /\ \A p \in Procs : pc[p] \in {"woken", "run"}
      /\ pc[Swapper] = "loop" /\ Swapper \in All
  BY ProcsAssumption DEF Init, All
<1>3. Tidy(kern)
  BY <1>2 DEF Tidy, SigAt, InitAt, All
<1>4. PcSig
  BY <1>2 DEF PcSig
<1>5. Watch
  BY <1>2 DEF Watch, RunoutSet, WantsIn, All, Scanning
<1> QED BY <1>1, <1>3, <1>4, <1>5 DEF SInv

\* Every step keeps it.
LEMMA NextSInv ==
  ASSUME SInv, [Next]_vars, [~Race]_vars
  PROVE  SInv'
<1>1. IInv'
  BY NextIInv DEF SInv
<1>2. IInv /\ Tidy(kern) /\ PcSig /\ Watch
  BY DEF SInv
<1>3. CASE UNCHANGED vars
  <2>1. /\ kern' = kern /\ pc' = pc /\ ctx' = ctx /\ cur' = cur
        /\ noproc' = noproc /\ todo' = todo /\ inp' = inp
        /\ skipped' = skipped
    BY <1>3 DEF vars
  <2> QED BY <1>1, <1>2, <2>1 DEF SInv, PcSig, Watch, NoPanic, Scanning
<1>4. ASSUME NEW p \in Procs, Proc(p)
      PROVE  SInv'
  <2>1. Kept(kern, kern') /\ PcSig'
    BY <1>2, <1>4, ProcKept, ProcPcSig
  <2>2. /\ UNCHANGED swapvars /\ ctx'[Swapper] = ctx[Swapper]
        /\ pc'[Swapper] = pc[Swapper]
    <3>1. Swapper \in All \ {p}
      BY ProcsAssumption DEF All
    <3>2. Walks(p)
      BY <1>2, <1>4, ProcWalks
    <3> QED BY <3>1, <3>2 DEF Walks
  <2> QED BY <1>1, <1>2, <2>1, <2>2, HeedWatch DEF SInv, Kept
<1>5. CASE Swtch
  <2>1. Kept(kern, kern') /\ PcSig'
    BY <1>2, <1>5, SwtchKept, SwtchPcSig
  <2>2. UNCHANGED <<pc, ctx, swapvars>>
    BY <1>5 DEF Swtch
  <2> QED BY <1>1, <1>2, <2>1, <2>2, HeedWatch DEF SInv, Kept
<1>6. CASE Sched /\ ~Race
  <2>1. Mute(kern, kern') /\ Watch' /\ PcSig'
    BY <1>2, <1>6, SchedWatch, SchedPcSig DEF Race
  <2>2. Tidy(kern')
    BY <1>2, <2>1, MuteHush, HushTidy
  <2> QED BY <1>1, <2>1, <2>2 DEF SInv
<1>7. CASE Vmmeter /\ ~Race
  <2>1. Mute(kern, kern') /\ Watch' /\ PcSig'
    BY <1>2, <1>7, VmmeterMute, VmmeterWatch, IntrPcSig DEF Intr, Race
  <2>2. Tidy(kern')
    BY <1>2, <2>1, MuteHush, HushTidy
  <2> QED BY <1>1, <2>1, <2>2 DEF SInv
<1>8. CASE (IntrWakeup \/ IntrSignal \/ Schedcpu \/ SchedcpuWakeup) /\ ~Race
  <2>1. Struck(kern, kern') /\ PcSig'
    BY <1>2, <1>8, IntrStruck, IntrPcSig DEF Intr, Race
  <2>2. UNCHANGED <<pc, ctx, swapvars>>
    BY <1>8 DEF IntrWakeup, IntrSignal, IntrSend, Schedcpu, SchedcpuWakeup
  <2> QED BY <1>1, <1>2, <2>1, <2>2, HeedWatch DEF SInv, Struck
<1> QED BY <1>3, <1>4, <1>5, <1>6, <1>7, <1>8 DEF Next, Intr

\* Throughout every run without one of the three races, pending signals and
\* the swapper are as SInv says.
THEOREM SignalsInOrder == Spec /\ [][~Race]_vars => []SInv
<1>1. Init => SInv
  BY InitSInv
<1>2. SInv /\ [Next]_vars /\ [~Race]_vars => SInv'
  BY NextSInv
<1> QED BY <1>1, <1>2, PTL DEF Spec

\* No SIGCONT is left pending for a stopped process, whoever sends what from
\* processes and from interrupts, as long as no interrupt sends SIGCONT
\* between issig()'s decision to stop and the stop itself: that is the one
\* way in which a SIGCONT is lost.
THEOREM ContinueReaches == Spec /\ [][~Race]_vars => []ContinueNotLost
<1>1. SInv => ContinueNotLost
  BY DEF SInv, Tidy, SigAt, ContinueNotLost, All
<1> QED BY <1>1, SignalsInOrder, PTL

\* A child of init is stopped for SIGSTOP only, whether it stops itself, is
\* stopped by psignal() where it sleeps, or is inherited stopped.
THEOREM InitsChildrenRun == Spec /\ [][~Race]_vars => []InitChildrenRun
<1>1. SInv => InitChildrenRun
  BY DEF SInv, Tidy, InitAt, InitChildrenRun
<1> QED BY <1>1, SignalsInOrder, PTL

\* Until the kernel panics, sched() never sleeps on runout with a process
\* runnable out of core but those its last scan has passed over for their
\* pageouts: every wakeup(), setrun() and psignal() that makes another one
\* runnable during its scan, or during a swapout() of its scan, is noticed.
THEOREM SwapperIsTold ==
  Spec /\ [][~Race]_vars => [](NoPanic => SwapperNotStuck)
<1>1. SInv => (NoPanic => SwapperNotStuck)
  BY DEF SInv, Watch, SwapperNotStuck
<1> QED BY <1>1, SignalsInOrder, PTL

-----------------------------------------------------------------------------
(***************************************************************************)
(* No step panics.                                                         *)
(***************************************************************************)

\* Calm steps compose.
LEMMA CalmTrans ==
  ASSUME NEW k, NEW k1, NEW k2, Calm(k, k1), Calm(k1, k2)
  PROVE  Calm(k, k2)
BY DEF Calm

\* sleep() is called by a runnable process that is on no run queue.
LEMMA EnterSleepCalm ==
  ASSUME NEW k \in Kern, NEW p \in All, NEW chan, NEW pri,
         k.p_stat[p] = "SRUN", k.p_rlink[p] = NoQ
  PROVE  /\ Calm(k, EnterSleep(k, p, chan, pri))
         /\ Calm(k, [EnterSleep(k, p, chan, pri) EXCEPT
                       !.p_stat[p] = "SSLEEP"])
BY DEF EnterSleep, Calm, Kern

\* The two callers of sleep() do not panic.
LEMMA SleepCalm ==
  ASSUME IInv, NEW p \in Procs, Sleep(p) \/ WaitSleep(p)
  PROVE  Calm(kern, kern')
<1>1. PICK label \in {"run", "waitsleep"} : At(p, label)
  BY DEF Sleep, WaitSleep
<1>2. label \notin {"swtch", "exit1"}
  OBVIOUS
<1>3. /\ kern \in Kern /\ p \in All /\ kern.p_stat[p] = "SRUN"
      /\ kern.p_rlink[p] = NoQ
  BY <1>1, <1>2, AtFacts
<1>4. \E chan, pri, back : SleepCall(p, chan, pri, back)
  BY DEF Sleep, WaitSleep
<1>5. PICK chan, pri, back : SleepCall(p, chan, pri, back)
  BY <1>4
<1>6. kern' \in {EnterSleep(kern, p, chan, pri),
                 [EnterSleep(kern, p, chan, pri) EXCEPT
                    !.p_stat[p] = "SSLEEP"]}
  BY <1>5 DEF SleepCall
<1>7. /\ Calm(kern, EnterSleep(kern, p, chan, pri))
      /\ Calm(kern, [EnterSleep(kern, p, chan, pri) EXCEPT
                       !.p_stat[p] = "SSLEEP"])
  BY <1>3, EnterSleepCalm
<1> QED BY <1>6, <1>7

\* Nor does issig(), when it finds no signal or takes one.
LEMMA IssigCalm ==
  ASSUME HashApart, IInv, NEW p \in Procs,
         \/ IssigNone(p) \/ IssigSend(p) \/ IssigContinue(p)
         \/ IssigStop(p) \/ IssigKill(p)
  PROVE  Calm(kern, kern')
<1> DEFINE k0 == [kern EXCEPT !.p_cursig[p] = NoSig]
           k1 == [k0 EXCEPT !.p_stat[p] = "SSLEEP"]
           k == Take(kern, p)
           k2 == [Unsleep(k, p) EXCEPT !.p_stat[p] = "SRUN"]
           k3 == PsignalPlain(k, p, SIGKILL)
<1>1. At(p, "issig")
  BY DEF IssigNone, IssigSend, IssigContinue, IssigStop, IssigKill
<1>2. /\ p \in All /\ kern \in Kern /\ kern.p_stat[p] = "SRUN"
      /\ Good(kern, FALSE, p, Dozing) /\ Dozing \in BOOLEAN
  <2>1. "issig" \notin {"swtch", "exit1"}
    OBVIOUS
  <2> QED BY <1>1, <2>1, AtFacts
<1>3. CASE IssigNone(p)
  <2>1. kern' \in {k0, k1}
    BY <1>3 DEF IssigNone
  <2>2. Calm(kern, k0) /\ Calm(kern, k1)
    BY <1>2 DEF Calm, Kern
  <2> QED BY <2>1, <2>2
<1>4. CASE \/ IssigSend(p) \/ IssigContinue(p) \/ IssigStop(p) \/ IssigKill(p)
  <2>1. SigBits(kern, p) # {} /\ kern' \in {k, k2, k3}
    BY <1>4 DEF IssigSend, IssigContinue, IssigStop, IssigKill
  <2>2. k \in Kern /\ Same(kern, k)
    BY <1>2, <2>1, TakeSame
  <2>3. Calm(kern, k)
    <3> DEFINE f == Forget(kern, p, NextSig(kern, p))
    <3>1. Calm(kern, f) /\ f \in Kern
      BY <1>2, <2>1, NextSigSig, PostCalm, PostSame
    <3>2. k = [f EXCEPT !.p_cursig[p] = NextSig(kern, p)]
      BY DEF Take
    <3> HIDE DEF f
    <3> QED BY <3>1, <3>2 DEF Calm, Kern
  <2> HIDE DEF k
  <2>4. Calm(k, k2)
    BY <2>2 DEF Calm, Unsleep, Kern
  <2>5. Calm(k, k3)
    <3>1. Good(k, FALSE, p, Dozing)
      BY <1>2, <2>2, SameGood
    <3>2. k.p_stat[p] # "SSTOP" /\ SIGKILL \in Sig
      BY <1>2, <2>2 DEF Same, Sig
    <3> QED BY <1>2, <3>1, <3>2, PsignalPlainCalm
  <2> QED BY <2>1, <2>3, <2>4, <2>5, CalmTrans
<1> QED BY <1>3, <1>4

\* Nor when it tells the parent, at splhigh or not.
LEMMA TellParentCalm ==
  ASSUME HashApart, IInv, NEW p \in Procs, TellParent(p)
  PROVE  Calm(kern, kern')
<1>1. At(p, "chld") /\ kern' = PsignalPlain(kern, kern.p_pptr[p], SIGCHLD)
  BY DEF TellParent
<1>2. /\ p \in All /\ kern \in Kern
      /\ Good(kern, FALSE, p, Dozing) /\ Dozing \in BOOLEAN
  BY <1>1, AtFacts
<1>3. kern.p_pptr[p] \in All /\ SIGCHLD \in Sig /\ SIGCHLD \notin {SIGKILL, SIGCONT}
  BY <1>2, KernTypes DEF Sig, SIGCHLD, SIGKILL, SIGCONT
<1> QED BY <1>1, <1>2, <1>3, PsignalPlainCalm

\* stop() of the running process: it is SSTOP before wakeup() looks at the
\* sleep queues.
LEMMA StopSelfCalm ==
  ASSUME IInv, NEW p \in Procs, StopSelf(p)
  PROVE  Calm(kern, kern')
<1> DEFINE s == kern.swted \ {p}
           k2 == [kern EXCEPT !.p_stat[p] = "SSTOP", !.swted = s]
           chan == ChanOf[kern.p_pptr[p]]
<1>1. At(p, "stop") /\ kern' = Wakeup(k2, chan)
  BY DEF StopSelf, Stop
<1>2. /\ p \in All /\ kern \in Kern /\ Good(kern, FALSE, p, Dozing)
      /\ "SSTOP" \in Stat
  BY <1>1, AtFacts DEF Stat
<1>3. s \in SUBSET All
  BY <1>2, KernTypes
<1>4. chan \in AllChan
  BY <1>2, KernTypes, ChanAssumption DEF AllChan
<1> HIDE DEF s, chan
<1>5. k2 \in Kern
  BY <1>2, <1>3 DEF Kern
<1>6. /\ k2.p_stat = [kern.p_stat EXCEPT ![p] = "SSTOP"]
      /\ k2.p_wchan = kern.p_wchan /\ k2.p_pri = kern.p_pri
      /\ k2.p_rlink = kern.p_rlink /\ k2.p_pptr = kern.p_pptr
      /\ k2.sload = kern.sload /\ k2.whichqs = kern.whichqs
      /\ Calm(kern, k2)
  BY <1>2 DEF Kern, Calm
<1> HIDE DEF k2
<1>7. Good(k2, FALSE, p, FALSE)
  BY <1>2, <1>5, <1>6, KernTypes DEF Good, Queued, Bits, Asleeps
<1>8. Calm(k2, Wakeup(k2, chan))
  BY <1>2, <1>4, <1>7, WakeupCalm
<1> QED BY <1>1, <1>6, <1>8, CalmTrans

\* The trap exit queues a process that is on no queue.
LEMMA RestCalm ==
  ASSUME IInv, NEW p \in Procs, Rest(p)
  PROVE  Calm(kern, kern')
<1>1. PICK usrpri \in UserPri :
        kern' \in {[kern EXCEPT !.p_pri[p] = usrpri],
                   Setrq([kern EXCEPT !.p_pri[p] = usrpri], p)}
  BY DEF Rest
<1> DEFINE k == [kern EXCEPT !.p_pri[p] = usrpri]
<1>2. At(p, "rest")
  BY DEF Rest
<1>3. /\ kern \in Kern /\ p \in All /\ usrpri \in Pri
      /\ kern.p_rlink[p] = NoQ
  BY <1>2, AtFacts, ChanAssumption DEF Pri
<1>4. k \in Kern /\ Calm(kern, k) /\ k.p_rlink[p] = NoQ
  BY <1>3 DEF Kern, Calm
<1>5. kern' \in {k, Setrq(k, p)}
  BY <1>1
<1> HIDE DEF k
<1> QED BY <1>3, <1>4, <1>5, SetrqCalm, CalmTrans

\* Nor does newproc(): the new process is on no queue.
LEMMA ProcdupCalm ==
  ASSUME IInv, NEW p \in Procs, Procdup(p)
  PROVE  Calm(kern, kern')
<1>1. PICK q \in Procs :
        /\ kern.p_stat[q] = "SIDL"
        /\ kern' = Setrq([kern EXCEPT !.p_stat[q] = "SRUN"], q)
  BY DEF Procdup
<1> DEFINE k == [kern EXCEPT !.p_stat[q] = "SRUN"]
<1>2. kern \in Kern /\ q \in All
  BY DEF IInv, TypeOK, All
<1>3. kern.p_rlink[q] = NoQ
  BY <1>1, <1>2 DEF IInv, Good, Queued
<1>4. k \in Kern /\ Calm(kern, k) /\ k.p_rlink[q] = NoQ
  BY <1>2, <1>3 DEF Kern, Stat, Calm
<1>5. kern' = Setrq(k, q)
  BY <1>1
<1> HIDE DEF k
<1> QED BY <1>2, <1>4, <1>5, SetrqCalm, CalmTrans

\* fork() and wait() call no primitive.
LEMMA PlainCalm ==
  ASSUME IInv, NEW p \in Procs,
         \/ Woken(p) \/ SwtchStopped(p) \/ TrapExit(p) \/ Wait(p) \/ WaitNone(p)
         \/ Fork(p) \/ WaitReap(p) \/ WaitStopped(p)
  PROVE  Calm(kern, kern')
<1>1. kern \in Kern
  BY DEF IInv, TypeOK
<1>2. CASE Fork(p)
  BY <1>1, <1>2 DEF Fork, Calm, Kern
<1>3. CASE WaitReap(p) \/ WaitStopped(p)
  BY <1>1, <1>3 DEF WaitReap, WaitStopped, Calm, Kern
<1>4. CASE \/ Woken(p) \/ SwtchStopped(p) \/ TrapExit(p) \/ Wait(p)
           \/ WaitNone(p)
  BY <1>4 DEF Woken, SwtchStopped, TrapExit, Wait, WaitNone, Calm
<1> QED BY <1>2, <1>3, <1>4

\* exit() of a process other than init.
LEMMA ExitCalm ==
  ASSUME IInv, NEW p \in Procs, Exit(p), p # InitProc
  PROVE  Calm(kern, kern')
<1> DEFINE k == [kern EXCEPT !.p_stat[p] = "SZOMB"]
           chan == ChanOf[InitProc]
<1>1. kern' = k \/ kern' = Wakeup(k, chan)
  BY DEF Exit
<1>2. At(p, "exit")
  BY DEF Exit
<1>3. /\ p \in All /\ kern \in Kern /\ Good(kern, FALSE, p, Dozing)
      /\ kern.p_wchan[p] = NoChan /\ ~Dozing
  <2>1. /\ "exit" \notin {"swtch", "exit1"}
        /\ "exit" \notin {"issig", "chld", "stop"}
    OBVIOUS
  <2> QED BY <1>2, <2>1, AtFacts
<1>4. chan \in AllChan
  BY ProcsAssumption, ChanAssumption DEF All, AllChan
<1> HIDE DEF chan
<1>5. k \in Kern
  BY <1>3 DEF Kern, Stat
<1>6. /\ k.p_stat = [kern.p_stat EXCEPT ![p] = "SZOMB"]
      /\ k.p_wchan = kern.p_wchan /\ k.p_pri = kern.p_pri
      /\ k.p_rlink = kern.p_rlink /\ k.p_pptr = kern.p_pptr
      /\ k.sload = kern.sload /\ k.whichqs = kern.whichqs
      /\ Calm(kern, k)
  BY <1>3 DEF Kern, Calm
<1> HIDE DEF k
<1>7. Good(k, FALSE, p, FALSE)
  BY <1>3, <1>5, <1>6, KernTypes DEF Good, Queued, Bits, Asleeps
<1>8. Calm(k, Wakeup(k, chan))
  BY <1>3, <1>4, <1>7, WakeupCalm
<1> QED BY <1>1, <1>6, <1>8, CalmTrans

\* The end of exit().
LEMMA ExitSwtchCalm ==
  ASSUME IInv, NEW p \in Procs, ExitSwtch(p)
  PROVE  Calm(kern, kern')
<1> DEFINE parent == kern.p_pptr[p]
           k == PsignalPlain(kern, parent, SIGCHLD)
           chan == ChanOf[parent]
<1>1. At(p, "exit1") /\ kern' = Wakeup(k, chan)
  BY DEF ExitSwtch
<1>2. /\ p \in All /\ kern \in Kern /\ Good(kern, FALSE, p, Dozing)
      /\ ~Dozing /\ Dozing \in BOOLEAN
  <2>1. "exit1" \notin {"issig", "chld", "stop"}
    OBVIOUS
  <2> QED BY <1>1, <2>1, AtFacts
<1>3. /\ parent \in All /\ SIGCHLD \in Sig /\ chan \in AllChan
      /\ SIGCHLD \notin {SIGKILL, SIGCONT}
  BY <1>2, KernTypes, ChanAssumption
  DEF AllChan, Sig, SIGCHLD, SIGKILL, SIGCONT
<1> HIDE DEF parent, chan
<1>4. Good(k, FALSE, p, Dozing) /\ Calm(kern, k)
  BY <1>2, <1>3, PsignalPlainGood, PsignalPlainCalm
<1> HIDE DEF k
<1>5. Calm(k, kern')
  BY <1>1, <1>2, <1>3, <1>4, WakeupCalm
<1> QED BY <1>4, <1>5, CalmTrans

\* Giving a child to init, the signals to a stopped one included.
LEMMA ExitChildCalm ==
  ASSUME IInv, NEW p \in Procs, ExitChild(p)
  PROVE  Calm(kern, kern')
<1>1. At(p, "exit1")
  BY DEF ExitChild
<1>2. PICK q \in Children(kern, p) :
        LET k  == [kern EXCEPT !.p_pptr[q] = InitProc]
            k1 == IF k.p_stat[q] = "SSTOP"
                  THEN PsignalPlain(PsignalPlain(k, q, SIGINT), q, SIGCONT)
                  ELSE k
        IN  kern' = Spgrp(k1, q)
  BY DEF ExitChild
<1> DEFINE k == [kern EXCEPT !.p_pptr[q] = InitProc]
           ka == PsignalPlain(k, q, SIGINT)
           kb == PsignalPlain(ka, q, SIGCONT)
<1>3. kern' = Spgrp(k, q) \/ kern' = Spgrp(kb, q)
  BY <1>2
<1>4. /\ kern \in Kern /\ cur = p /\ noproc = FALSE /\ p \in All
      /\ Good(kern, FALSE, p, Dozing) /\ Dozing \in BOOLEAN /\ ~Dozing
  <2>1. "exit1" \notin {"issig", "chld", "stop"}
    OBVIOUS
  <2> QED BY <1>1, <2>1, AtFacts
<1>5. q \in Procs /\ kern.p_pptr[q] = p /\ q \in All
  BY DEF Children, All
<1>6. q # p
  BY <1>5 DEF IInv, Ctl, KernCtl
<1>7. k \in Kern
  BY <1>4, <1>5, ProcsAssumption DEF Kern, All
<1>8. /\ k.p_stat = kern.p_stat /\ k.p_wchan = kern.p_wchan
      /\ k.p_pri = kern.p_pri /\ k.p_rlink = kern.p_rlink
      /\ k.sload = kern.sload /\ k.whichqs = kern.whichqs
      /\ Calm(kern, k)
  BY <1>4 DEF Kern, Calm
<1> HIDE DEF k
<1>9. Good(k, FALSE, p, Dozing)
  BY <1>4, <1>7, <1>8 DEF Good, Queued, Bits, Asleeps
<1>10. SIGINT \in Sig /\ SIGCONT \in Sig
  BY DEF Sig
<1>11. Good(ka, FALSE, p, Dozing) /\ Calm(k, ka)
  BY <1>4, <1>5, <1>6, <1>9, <1>10, PsignalPlainGood, PsignalPlainCalm
<1> HIDE DEF ka
<1>12. Good(kb, FALSE, p, Dozing) /\ Calm(ka, kb)
  BY <1>4, <1>5, <1>6, <1>10, <1>11, PsignalPlainGood, PsignalPlainCalm
<1> HIDE DEF kb
<1>13. ASSUME NEW k1 \in Kern
       PROVE  Calm(k1, Spgrp(k1, q))
  BY DEF Spgrp, Calm, Kern
<1>14. Calm(k, Spgrp(k, q)) /\ Calm(kb, Spgrp(kb, q))
  BY <1>7, <1>12, <1>13 DEF Good
<1> QED BY <1>3, <1>8, <1>11, <1>12, <1>14 DEF Calm

\* kill().
LEMMA KillCalm ==
  ASSUME IInv, NEW p \in Procs, Kill(p)
  PROVE  Calm(kern, kern')
<1>1. At(p, "run")
  BY DEF Kill
<1>2. PICK q \in Procs : \E sig \in Posted[q] : kern' = Psignal(kern, q, sig)
  BY DEF Kill
<1>3. PICK sig \in Posted[q] : kern' = Psignal(kern, q, sig)
  BY <1>2
<1>4. sig \in Sig /\ kern.p_pptr[q] # q
  BY SignalAssumption DEF IInv, Ctl, KernCtl
<1>5. /\ Good(kern, FALSE, p, Dozing) /\ ~Dozing /\ Dozing \in BOOLEAN
      /\ p \in All /\ kern.p_stat[p] = "SRUN"
  <2>1. /\ "run" \notin {"swtch", "exit1"}
        /\ "run" \notin {"issig", "chld", "stop"}
    OBVIOUS
  <2> QED BY <1>1, <2>1, AtFacts
<1>6. p # q \/ kern.p_stat[q] # "SSTOP"
  BY <1>5
<1> QED BY <1>3, <1>4, <1>5, <1>6, PsignalCalm

\* swtch() finds on the queue whichqs names a runnable process that is on no
\* sleep queue.
LEMMA SwtchCalm ==
  ASSUME IInv, Swtch
  PROVE  Calm(kern, kern')
<1> DEFINE b == BestQueue
<1>1. noproc = TRUE /\ kern.whichqs # {} /\ kern \in Kern
  BY DEF Swtch, IInv, TypeOK
<1>2. b \in kern.whichqs /\ b \in Pri
  BY <1>1, BestQueueBit
<1>3. Good(kern, TRUE, cur, Dozing)
  BY <1>1 DEF IInv
<1>4. OnQueue(kern, b) # {}
  <2>1. Bits(kern)
    BY <1>3 DEF Good
  <2> HIDE DEF b
  <2> QED BY <1>2, <2>1 DEF Bits, OnQueue
<1>5. PICK p \in OnQueue(kern, b) : kern' = Switched(kern, p, b)
  BY <1>4 DEF Swtch
<1>6. p \in All /\ kern.p_rlink[p] = b
  BY DEF OnQueue
<1> HIDE DEF b
<1>7. kern.p_stat[p] = "SRUN" /\ kern.p_wchan[p] = NoChan
  BY <1>2, <1>3, <1>6, NoQPri DEF Good, Queued, Asleeps
<1> QED BY <1>1, <1>5, <1>7 DEF Switched, Calm, Kern

\* The swapper calls sleep() runnable and on no run queue.
LEMMA SwapSleepCalm ==
  ASSUME IInv, NEW from, At(Swapper, from), NEW k \in Kern,
         k.p_stat = kern.p_stat, k.p_rlink = kern.p_rlink,
         NEW chan, NEW back, SwapSleep(k, chan, back)
  PROVE  Calm(k, kern')
<1>1. kern' = [EnterSleep(k, Swapper, chan, PZERO)
                 EXCEPT !.p_stat[Swapper] = "SSLEEP"]
  BY DEF SwapSleep
<1>2. /\ Swapper \in All /\ Good(kern, FALSE, Swapper, FALSE)
      /\ kern.p_stat[Swapper] = "SRUN"
  BY SwapperFacts
<1>3. k.p_stat[Swapper] = "SRUN" /\ k.p_rlink[Swapper] = NoQ
  BY <1>2 DEF Good, Queued
<1> QED BY <1>1, <1>2, <1>3, EnterSleepCalm

\* sched() as far as its calls of swapin() and swapout().
LEMMA SchedScanCalm ==
  ASSUME IInv,
         \/ SchedLoop \/ SchedScan \/ SchedDeadwood \/ SchedIdle \/ SchedIn
         \/ SwapoutFails \/ SwapoutStart
  PROVE  Calm(kern, kern')
<1>1. kern \in Kern
  BY DEF IInv, TypeOK
<1>3. CASE SchedLoop
  BY <1>1, <1>3 DEF SchedLoop, Calm, Kern
<1>4. CASE SchedScan
  BY <1>4 DEF SchedScan, Calm
<1>5. CASE SchedDeadwood
  BY <1>1, <1>5 DEF SchedDeadwood, Calm, Kern
<1>6. CASE SchedIdle
  <2> DEFINE k1 == [kern EXCEPT !.wantin = FALSE]
             k2 == [kern EXCEPT !.runout = TRUE]
  <2>1. /\ At(Swapper, "scan")
        /\ SwapSleep(k1, LBOLT, "loop") \/ SwapSleep(k2, RUNOUT, "loop")
    BY <1>6 DEF SchedIdle
  <2>2. /\ k1 \in Kern /\ Calm(kern, k1) /\ k1.p_stat = kern.p_stat
        /\ k1.p_rlink = kern.p_rlink
        /\ k2 \in Kern /\ Calm(kern, k2) /\ k2.p_stat = kern.p_stat
        /\ k2.p_rlink = kern.p_rlink
    BY <1>1 DEF Kern, Calm
  <2> HIDE DEF k1, k2
  <2>3. Calm(k1, kern') \/ Calm(k2, kern')
    BY <2>1, <2>2, SwapSleepCalm
  <2> QED BY <2>2, <2>3 DEF Calm
<1>7. CASE SchedIn
  <2>1. /\ At(Swapper, "scan")
        /\ SwapSleep(kern, SWAPIO, "inio") \/ kern' = kern
    BY <1>7 DEF SchedIn
  <2>2. CASE SwapSleep(kern, SWAPIO, "inio")
    BY <1>1, <2>1, <2>2, SwapSleepCalm
  <2> QED BY <2>1, <2>2 DEF Calm
<1>8. CASE SwapoutFails
  <2> DEFINE s == kern.sload \cup {victim}
             k == [kern EXCEPT !.sload = s]
  <2>1. At(Swapper, "out") /\ (kern' = k \/ SwapSleep(k, RUNIN, "loop"))
    BY <1>8 DEF SwapoutFails
  <2>2. s \in SUBSET All
    BY <1>1, KernTypes DEF IInv, TypeOK
  <2> HIDE DEF s
  <2>3. /\ k \in Kern /\ Calm(kern, k) /\ k.p_stat = kern.p_stat
        /\ k.p_rlink = kern.p_rlink
    BY <1>1, <2>2 DEF Kern, Calm
  <2> HIDE DEF k
  <2>4. SwapSleep(k, RUNIN, "loop") => Calm(k, kern')
    BY <2>1, <2>3, SwapSleepCalm
  <2> QED BY <2>1, <2>3, <2>4 DEF Calm
<1>9. CASE SwapoutStart
  <2>1. At(Swapper, "out") /\ SwapSleep(kern, SWAPIO, "outio")
    BY <1>9 DEF SwapoutStart
  <2> QED BY <1>1, <2>1, SwapSleepCalm
<1> QED BY <1>3, <1>4, <1>5, <1>6, <1>7, <1>8, <1>9

\* The end of swapin(): the process has been off the run queues since sched()
\* chose it.
LEMMA SwapinCalm ==
  ASSUME IInv, Swapin
  PROVE  Calm(kern, kern')
<1>1. At(Swapper, "inio")
  BY DEF Swapin
<1>2. kern' \in {[kern EXCEPT !.sload = @ \cup {inp}],
                 [Setrq(kern, inp) EXCEPT !.sload = @ \cup {inp}]}
  BY DEF Swapin
<1>3. /\ kern \in Kern /\ inp \in All /\ WantsIn(kern, inp)
      /\ Good(kern, FALSE, Swapper, FALSE)
  <2>1. "inio" # "loop"
    OBVIOUS
  <2>2. /\ kern \in Kern /\ inp \in All /\ Good(kern, FALSE, Swapper, FALSE)
        /\ inp # Swapper
    BY <1>1, SwapperFacts
  <2>3. WantsIn(kern, inp)
    BY <1>1, <2>1, <2>2, SwapperFacts
  <2> QED BY <2>2, <2>3
<1>4. kern.p_rlink[inp] = NoQ
  BY <1>3 DEF WantsIn, Good, Queued
<1> DEFINE k == Setrq(kern, inp)
<1>5. Calm(kern, k) /\ k \in Kern
  <2>1. Bits(kern)
    BY <1>3 DEF Good
  <2> QED BY <1>3, <1>4, <2>1, SetrqCalm, SetrqFacts
<1> HIDE DEF k
<1>6. /\ Calm(kern, [kern EXCEPT !.sload = @ \cup {inp}])
      /\ Calm(k, [k EXCEPT !.sload = @ \cup {inp}])
  BY <1>3, <1>5 DEF Calm, Kern
<1> QED BY <1>2, <1>5, <1>6 DEF Calm, k

\* A hard swap: a runnable victim is on the queue its p_pri names.
LEMMA SchedHardCalm ==
  ASSUME IInv, SchedHard
  PROVE  Calm(kern, kern')
<1>1. At(Swapper, "hard")
  BY DEF SchedHard
<1>2. /\ kern \in Kern /\ Good(kern, FALSE, Swapper, FALSE)
  BY <1>1, SwapperFacts
<1>3. CASE SwapSleep(kern, RUNIN, "loop")
  BY <1>1, <1>2, <1>3, SwapSleepCalm
<1>4. ASSUME NEW q \in Big, q \in kern.sload,
             LET k == [kern EXCEPT !.sload = @ \ {q}]
             IN  kern' = IF k.p_stat[q] = "SRUN" THEN Remrq(k, q) ELSE k
      PROVE  Calm(kern, kern')
  <2> DEFINE s == kern.sload \ {q}
             k == [kern EXCEPT !.sload = s]
  <2>1. q \in All /\ q # Swapper
    BY SwapAssumption, ProcsAssumption DEF All
  <2>2. kern' = IF k.p_stat[q] = "SRUN" THEN Remrq(k, q) ELSE k
    BY <1>4
  <2>3. s \in SUBSET All
    BY <1>2, KernTypes
  <2> HIDE DEF s
  <2>4. k \in Kern
    BY <1>2, <2>3 DEF Kern
  <2>5. /\ k.p_stat = kern.p_stat /\ k.p_pri = kern.p_pri
        /\ k.p_rlink = kern.p_rlink /\ k.whichqs = kern.whichqs
        /\ Calm(kern, k)
    BY <1>2 DEF Kern, Calm
  <2> HIDE DEF k
  <2>6. Bits(k)
    BY <1>2, <2>5 DEF Good, Bits
  <2>7. CASE kern.p_stat[q] = "SRUN"
    <3>1. kern' = Remrq(k, q)
      BY <2>2, <2>5, <2>7
    <3>2. k.p_rlink[q] # NoQ
      BY <1>2, <1>4, <2>1, <2>5, <2>7 DEF Good, Queued
    <3> QED BY <2>1, <2>4, <2>5, <2>6, <3>1, <3>2, RemrqCalm DEF Calm
  <2>8. CASE kern.p_stat[q] # "SRUN"
    BY <2>2, <2>5, <2>8 DEF Calm
  <2> QED BY <2>7, <2>8
<1> QED BY <1>3, <1>4 DEF SchedHard

\* The end of swapout(): nobody has brought the victim in meanwhile.
LEMMA SwapoutEndCalm ==
  ASSUME IInv, SwapoutEnd
  PROVE  Calm(kern, kern')
<1> DEFINE k == [kern EXCEPT !.sload = @ \ {victim}]
           k0 == [k EXCEPT !.runout = FALSE]
           k1 == IF k.runout THEN Wakeup(k0, RUNOUT) ELSE k
<1>1. /\ At(Swapper, "outio")
      /\ kern' = IF victim \in kern.sload THEN Panic(kern, "swapout") ELSE k1
  BY DEF SwapoutEnd
<1>2. /\ kern \in Kern /\ victim \notin kern.sload /\ Swapper \in All
      /\ Good(kern, FALSE, Swapper, FALSE)
  <2>1. "outio" \in {"out", "outio"}
    OBVIOUS
  <2> QED BY <1>1, <2>1, SwapperFacts
<1>3. kern' \in {k, Wakeup(k0, RUNOUT)}
  BY <1>1, <1>2
<1>4. k \in Kern /\ Same(kern, k) /\ Calm(kern, k)
  <2>1. kern.sload \ {victim} = kern.sload
    BY <1>2
  <2> QED BY <1>2, <2>1, KernTypes DEF Kern, Same, Calm
<1> HIDE DEF k
<1>5. k0 \in Kern /\ Same(k, k0) /\ Calm(k, k0)
  BY <1>4, FlagSame DEF Calm, Kern
<1> HIDE DEF k0
<1>6. Good(k0, FALSE, Swapper, FALSE)
  <2>1. Good(k, FALSE, Swapper, FALSE)
    BY <1>2, <1>4, SameGood
  <2> QED BY <1>2, <1>5, <2>1, SameGood
<1>7. RUNOUT \in AllChan
  BY DEF AllChan, SwapChan
<1>8. Calm(k0, Wakeup(k0, RUNOUT))
  BY <1>2, <1>6, <1>7, WakeupCalm
<1> QED BY <1>3, <1>4, <1>5, <1>8 DEF Calm

\* The steps of the swapper.
LEMMA SchedCalm ==
  ASSUME IInv, Sched
  PROVE  Calm(kern, kern')
BY SchedScanCalm, SwapinCalm, SchedHardCalm, SwapoutEndCalm DEF Sched

\* Two wakeups in a row.
LEMMA TwoWakeupsCalm ==
  ASSUME NEW k, NEW np \in BOOLEAN, NEW r \in All, NEW h \in BOOLEAN,
         NEW c \in AllChan, NEW d \in AllChan, Good(k, np, r, h), np \/ ~h
  PROVE  Calm(k, Wakeup(Wakeup(k, c), d))
<1> DEFINE k1 == Wakeup(k, c)
<1>1. Good(k1, np, r, h) /\ Calm(k, k1)
  BY WakeupGood, WakeupCalm
<1> HIDE DEF k1
<1>2. Calm(k1, Wakeup(k1, d))
  BY <1>1, WakeupCalm
<1> QED BY <1>1, <1>2 DEF Calm, k1

\* Interrupts do not panic: none comes while the running process is on a sleep
\* queue, or sets it running between its stop() and its swtch().
LEMMA IntrCalm ==
  ASSUME IInv, Intr, ~ContinuedTooSoon
  PROVE  Calm(kern, kern')
<1>1. /\ kern \in Kern /\ noproc \in BOOLEAN /\ cur \in All
      /\ Dozing \in BOOLEAN /\ Good(kern, noproc, cur, Dozing)
  BY IInvFacts
<1>2. noproc \/ ~Dozing
  BY DEF Intr, IntrWakeup, IntrSignal, IntrSend, Schedcpu, SchedcpuWakeup,
         Vmmeter, IntrEnabled, Dozing
<1>3. {LBOLT, RUNIN, RUNOUT, SWAPIO} \subseteq AllChan
  BY DEF AllChan, SwapChan
<1>4. CASE IntrWakeup
  <2>1. PICK chan \in IntrChan \cup {SWAPIO} : kern' = Wakeup(kern, chan)
    BY <1>4 DEF IntrWakeup
  <2>2. chan \in AllChan
    BY <1>3, ChanAssumption DEF AllChan
  <2> QED BY <1>1, <1>2, <2>1, <2>2, WakeupCalm
<1>5. CASE IntrSignal
  <2>1. PICK q \in Procs : \E sig \in IntrSigs[q] : IntrSend(q, sig)
    BY <1>5 DEF IntrSignal
  <2>2. PICK sig \in IntrSigs[q] : IntrSend(q, sig)
    BY <2>1
  <2>3. kern' = Psignal(kern, q, sig)
    BY <2>2 DEF IntrSend
  <2>4. sig \in Sig /\ kern.p_pptr[q] # q
    BY SignalAssumption DEF IInv, Ctl, KernCtl
  <2>5. sig \in {SIGKILL, SIGCONT} => pc[q] # "swtch"
    BY <2>2 DEF ContinuedTooSoon
  <2>6. noproc \/ q # cur \/ pc[q] = "swtch" \/ kern.p_stat[q] # "SSTOP"
    <3>1. q \in All
      BY DEF All
    <3> QED BY <3>1 DEF IInv, Ctl, PcCtl
  <2>7. \/ noproc \/ q # cur \/ sig \notin {SIGKILL, SIGCONT}
        \/ kern.p_stat[q] # "SSTOP"
    BY <2>5, <2>6
  <2> QED BY <1>1, <1>2, <2>3, <2>4, <2>7, PsignalCalm
<1>6. CASE Schedcpu
  <2>1. PICK p \in Procs : \E usrpri \in UserPri :
          kern' = Reprioritize(kern, p, usrpri)
    BY <1>6 DEF Schedcpu
  <2>2. PICK usrpri \in UserPri : kern' = Reprioritize(kern, p, usrpri)
    BY <2>1
  <2> DEFINE k1 == [kern EXCEPT !.p_pri[p] = usrpri]
             k2 == Remrq(kern, p)
             k3 == [k2 EXCEPT !.p_pri[p] = usrpri]
  <2>3. \/ kern' = kern \/ kern' = k1
        \/ /\ kern' = Setrq(k3, p) /\ ~Running(p)
           /\ kern.p_stat[p] = "SRUN" /\ p \in kern.sload
    BY <2>2 DEF Reprioritize
  <2>4. p \in All /\ usrpri \in Pri
    BY ChanAssumption DEF All, Pri
  <2>5. Calm(kern, kern) /\ Calm(kern, k1)
    BY <1>1 DEF Calm, Kern
  <2>6. ASSUME ~Running(p), kern.p_stat[p] = "SRUN", p \in kern.sload
        PROVE  Calm(kern, Setrq(k3, p))
    <3>1. kern.p_rlink[p] # NoQ /\ Bits(kern)
      BY <1>1, <2>4, <2>6 DEF Good, Queued, Running
    <3>2. Calm(kern, k2) /\ k2 \in Kern /\ k2.p_rlink[p] = NoQ
      BY <1>1, <2>4, <3>1, RemrqCalm, RemrqFacts
    <3> HIDE DEF k2
    <3>3. k3 \in Kern /\ Calm(k2, k3) /\ k3.p_rlink[p] = NoQ
      BY <2>4, <3>2 DEF Kern, Calm
    <3> HIDE DEF k3
    <3>4. Calm(k3, Setrq(k3, p))
      BY <2>4, <3>3, SetrqCalm
    <3> QED BY <3>2, <3>3, <3>4 DEF Calm
  <2> QED BY <2>3, <2>5, <2>6
<1>7. CASE SchedcpuWakeup
  BY <1>1, <1>2, <1>3, <1>7, TwoWakeupsCalm DEF SchedcpuWakeup
<1>8. CASE Vmmeter
  <2> DEFINE k == [kern EXCEPT !.runout = FALSE]
  <2>1. kern' = Wakeup(Wakeup(k, RUNIN), RUNOUT)
    BY <1>8 DEF Vmmeter
  <2>2. k \in Kern /\ Same(kern, k) /\ Calm(kern, k)
    BY <1>1, FlagSame DEF Calm, Kern
  <2> HIDE DEF k
  <2>3. Good(k, noproc, cur, Dozing)
    BY <1>1, <2>2, SameGood
  <2>4. Calm(k, kern')
    BY <1>1, <1>2, <1>3, <2>1, <2>3, TwoWakeupsCalm
  <2> QED BY <2>2, <2>4, CalmTrans
<1> QED BY <1>4, <1>5, <1>6, <1>7, <1>8 DEF Intr

-----------------------------------------------------------------------------
(***************************************************************************)
(* What psig() finds in p_cursig.                                          *)
(***************************************************************************)

\* The environment in which nothing panics: no channel shares its sleep
\* queue with &runout, and init is sent no stop signal that it does not
\* catch, ignore or hold (/etc/init catches or ignores all but SIGSTOP).
QuietEnv ==
  /\ HashApart
  /\ (Posted[InitProc] \cup IntrSigs[InitProc]) \cap StopSig \subseteq
       Caught[InitProc] \cup Ignored[InitProc] \cup Held[InitProc]

\* p_cursig is a signal the process neither ignores nor holds, it is one when
\* the process comes to psig(), and init takes only signals it catches, so
\* that it does not come to exit().
CursigIn(k, at) ==
  /\ \A x \in All : k.p_cursig[x] \notin Ignored[x] \cup Held[x]
  /\ \A x \in Procs : at[x] = "psig" => k.p_cursig[x] # NoSig
  /\ at[InitProc] # "exit"
  /\ at[InitProc] # "issig" =>
       k.p_cursig[InitProc] \in Caught[InitProc] \cup {NoSig}

\* Between k and k2, p_cursig has changed for processes other than init at
\* most, and to a stop signal they neither ignore nor hold.
Stamps(k, k2) ==
  \A x \in All :
    \/ k2.p_cursig[x] = k.p_cursig[x]
    \/ x # InitProc /\ k2.p_cursig[x] \in StopSig \ (Ignored[x] \cup Held[x])

\* No process comes to psig() or exit() by a step, and init does not leave
\* issig().
Moves ==
  /\ \A x \in Procs : pc'[x] = pc[x] \/ pc'[x] \notin {"psig", "exit"}
  /\ pc[InitProc] = "issig" => pc'[InitProc] = "issig"

\* Such a step keeps p_cursig in order.
LEMMA StampStep ==
  ASSUME CursigIn(kern, pc), Stamps(kern, kern'), Moves
  PROVE  CursigIn(kern', pc')
<1>1. InitProc \in Procs /\ InitProc \in All
  BY ProcsAssumption DEF All
<1>2. NoSig \notin StopSig
  BY DEF NoSig, StopSig, SIGSTOP, SIGTSTP, SIGTTIN
<1>3. \A x \in All : kern'.p_cursig[x] \notin Ignored[x] \cup Held[x]
  BY DEF CursigIn, Stamps
<1>4. \A x \in Procs : pc'[x] = "psig" => kern'.p_cursig[x] # NoSig
  BY <1>2 DEF CursigIn, Stamps, Moves, All
<1>5. pc'[InitProc] # "exit"
  BY <1>1 DEF CursigIn, Moves
<1>6. pc'[InitProc] # "issig" =>
        kern'.p_cursig[InitProc] \in Caught[InitProc] \cup {NoSig}
  BY <1>1 DEF CursigIn, Stamps, Moves
<1> QED BY <1>3, <1>4, <1>5, <1>6 DEF CursigIn

\* Bland primitives leave p_cursig alone, and so do those that send signals
\* that do not stop.
LEMMA HushStamps ==
  ASSUME NEW k, NEW k2, Hush(k, k2) \/ Mute(k, k2) \/ Bland(k, k2)
  PROVE  Stamps(k, k2) /\ k2.p_cursig = k.p_cursig
BY DEF Hush, Mute, Bland, Stamps

\* psignal() of a stop signal to a sleeper puts it in p_cursig or leaves
\* p_cursig alone.
LEMMA StopAsleepCursig ==
  ASSUME NEW k \in Kern, NEW p \in Procs, NEW sig \in StopSig, NEW k2,
         k2 = StopAsleep(k, p, sig), sig \notin Ignored[p] \cup Held[p],
         p = InitProc => sig \in Caught[p]
  PROVE  Stamps(k, k2)
<1> DEFINE parent == k.p_pptr[p]
           kill == PsignalPlain(k, p, SIGKILL)
           k1 == Forget(k, p, sig)
           k3 == [k1 EXCEPT !.p_cursig[p] = sig]
           k4 == PsignalPlain(k3, parent, SIGCHLD)
<1>a. /\ p \in All /\ parent \in All /\ sig \in Sig
      /\ SIGKILL \in Sig \ StopSig /\ SIGCHLD \in Sig \ StopSig
  BY KernTypes DEF All, Sig, StopSig, SIGKILL, SIGCHLD, SIGSTOP,
     SIGTSTP, SIGTTIN
<1>0. \/ k2 = k \/ k2 = SignalRun(k, p)
      \/ k2 = Forget(kill, p, sig)
      \/ k2 = Stop(k4, p) /\ sig \notin Caught[p]
  BY DEF StopAsleep
<1>1. CASE k2 = k \/ k2 = SignalRun(k, p)
  <2>1. Bland(k, k) /\ Bland(k, SignalRun(k, p))
    BY <1>a, BlandRefl, SignalRunBland
  <2> QED BY <1>1, <2>1, HushStamps
<1>2. CASE k2 = Forget(kill, p, sig)
  <2>1. Sent(k, kill, p, SIGKILL)
    BY <1>a, PsignalPlainSent
  <2> HIDE DEF kill
  <2>2. kill \in Kern /\ p \in All /\ sig \in Sig
    BY <1>a, <2>1 DEF Sent, Hush
  <2>3. Hush(kill, k2)
    BY <1>2, <2>2, ForgetFacts
  <2>4. Hush(k, k2)
    BY <2>1, <2>3, HushTrans DEF Sent
  <2> QED BY <2>4, HushStamps
<1>3. CASE k2 = Stop(k4, p) /\ sig \notin Caught[p]
  <2>1. k1 \in Kern /\ k1.p_cursig = k.p_cursig
    BY <1>a, ForgetFacts
  <2> HIDE DEF k1, parent
  <2>2. k3 \in Kern /\ k3.p_cursig = [k1.p_cursig EXCEPT ![p] = sig]
    BY <1>a, <2>1 DEF Kern
  <2> HIDE DEF k3
  <2>3. \A x \in All : k3.p_cursig[x] = IF x = p THEN sig ELSE k.p_cursig[x]
    BY <2>1, <2>2, KernTypes
  <2>4. Sent(k3, k4, parent, SIGCHLD)
    BY <1>a, <2>2, PsignalPlainSent
  <2> HIDE DEF k4
  <2>5. k4 \in Kern /\ k4.p_cursig = k3.p_cursig
    BY <2>4 DEF Sent, Hush
  <2>6. k2.p_cursig = k4.p_cursig
    BY <1>3, <2>5, StopTidy
  <2> QED BY <1>3, <2>3, <2>5, <2>6 DEF Stamps
<1> QED BY <1>0, <1>1, <1>2, <1>3

\* psignal(), whatever the signal and the process.
LEMMA PsignalCursig ==
  ASSUME NEW k \in Kern, NEW p \in Procs, NEW sig \in Sig, NEW k2,
         k2 = Psignal(k, p, sig),
         p = InitProc /\ sig \in StopSig =>
           sig \in Caught[p] \cup Ignored[p] \cup Held[p]
  PROVE  Stamps(k, k2)
<1> DEFINE k1 == Post(k, p, sig)
<1>a. p \in All
  BY DEF All
<1>1. CASE sig \notin StopSig
  <2>1. k2 = PsignalPlain(k, p, sig)
    BY <1>1 DEF Psignal
  <2>2. Sent(k, k2, p, sig)
    BY <1>1, <1>a, <2>1, PsignalPlainSent
  <2> QED BY <2>2, HushStamps DEF Sent
<1>2. CASE sig \in StopSig
  <2>1. k2 = IF Ignores(k, p, sig) THEN k
             ELSE IF sig \in Held[p] THEN k1
             ELSE IF k.p_stat[p] = "SSLEEP" THEN StopAsleep(k1, p, sig)
             ELSE IF k.p_stat[p] = "SSTOP" THEN SignalStopped(k1, p, sig)
             ELSE k1
    BY <1>2 DEF Psignal
  <2>2. k1 \in Kern /\ k1.p_cursig = k.p_cursig
    BY <1>a, PostFacts
  <2> HIDE DEF k1
  <2>3. CASE k2 = k \/ k2 = k1
    BY <2>2, <2>3 DEF Stamps
  <2>4. CASE k2 = StopAsleep(k1, p, sig) /\ ~Ignores(k, p, sig)
             /\ sig \notin Held[p]
    <3>1. sig \notin Ignored[p] \cup Held[p]
      BY <2>4 DEF Ignores
    <3>2. Stamps(k1, k2)
      BY <1>2, <2>2, <2>4, <3>1, StopAsleepCursig
    <3> QED BY <2>2, <3>2 DEF Stamps
  <2>5. CASE k2 = SignalStopped(k1, p, sig)
    <3>1. k2 = Forget(k1, p, sig)
      BY <1>2, <2>5
      DEF SignalStopped, StopSig, SIGSTOP, SIGTSTP, SIGTTIN, SIGKILL, SIGCONT
    <3>2. k2.p_cursig = k1.p_cursig
      BY <1>a, <2>2, <3>1, ForgetFacts
    <3> QED BY <2>2, <3>2 DEF Stamps
  <2> QED BY <2>1, <2>3, <2>4, <2>5
<1> QED BY <1>1, <1>2

\* issig() puts into p_cursig a signal that is pending, neither ignored nor
\* held, and for init, whose parent is the system process 0, one it catches
\* if anything is done with it.
LEMMA IssigTakeCursig ==
  ASSUME IInv, CursigIn(kern, pc), NEW p \in Procs,
         \/ IssigSend(p) \/ IssigContinue(p) \/ IssigStop(p) \/ IssigKill(p)
  PROVE  CursigIn(kern', pc')
<1> DEFINE sig == NextSig(kern, p)
           f == Forget(kern, p, sig)
           k == Take(kern, p)
           k1 == Unsleep(k, p)
           k2 == [k1 EXCEPT !.p_stat[p] = "SRUN"]
           k3 == PsignalPlain(k, p, SIGKILL)
<1>1. At(p, "issig") /\ SigBits(kern, p) # {} /\ kern' \in {k, k2, k3}
  BY DEF IssigSend, IssigContinue, IssigStop, IssigKill
<1>2. p \in All /\ kern \in Kern /\ pc \in [All -> PC] /\ pc[p] = "issig"
  BY <1>1, AtFacts
<1>3. sig \in Sig /\ sig \in SigBits(kern, p)
  BY <1>1, <1>2, NextSigSig
<1>4. sig \notin Ignored[p] \cup Held[p] /\ sig # NoSig
  BY <1>3 DEF SigBits, Sig, NoSig, SIGINT, SIGKILL, SIGSTOP, SIGTSTP, SIGCONT,
              SIGCHLD, SIGTTIN
<1>5. PICK label \in {"issig", "psig", "trap", "chld"} :
        /\ pc' = [pc EXCEPT ![p] = label]
        /\ label # "issig" => Disposition(kern, p) \in {"send", "stop"}
  BY <1>2 DEF IssigSend, IssigContinue, IssigStop, IssigKill, Goto
<1>6. p = InitProc /\ label # "issig" => sig \in Caught[p]
  <2>1. kern.p_pptr[InitProc] = Swapper
    BY DEF IInv, Ctl, KernCtl
  <2> QED BY <1>5, <2>1 DEF Disposition
<1>7. k = [f EXCEPT !.p_cursig[p] = sig]
  BY DEF Take
<1> HIDE DEF sig
<1>8. f \in Kern /\ f.p_cursig = kern.p_cursig
  BY <1>2, <1>3, ForgetFacts
<1> HIDE DEF f
<1> HIDE DEF k
<1>9. k \in Kern /\ k.p_cursig = [kern.p_cursig EXCEPT ![p] = sig]
  <2>1. f.p_cursig \in [All -> Sig \cup {NoSig}]
    BY <1>8, KernTypes
  <2>2. [f.p_cursig EXCEPT ![p] = sig] \in [All -> Sig \cup {NoSig}]
    BY <1>3, <2>1
  <2>3. k = [f EXCEPT !.p_cursig = [f.p_cursig EXCEPT ![p] = sig]]
    BY <1>7, <1>8 DEF Kern
  <2> DEFINE g == [f.p_cursig EXCEPT ![p] = sig]
  <2>4. k = [f EXCEPT !.p_cursig = g] /\ g \in [All -> Sig \cup {NoSig}]
    BY <2>2, <2>3
  <2>5. g = [kern.p_cursig EXCEPT ![p] = sig]
    BY <1>8
  <2> HIDE DEF g
  <2>6. k \in Kern /\ k.p_cursig = g
    BY <1>8, <2>4 DEF Kern
  <2> QED BY <2>5, <2>6
<1>10. kern'.p_cursig = k.p_cursig
  <2>1. k1 \in Kern /\ k1.p_cursig = k.p_cursig
    BY <1>2, <1>9, UnsleepBland DEF Bland, Mute
  <2>2. SIGKILL \in Sig \ StopSig
    BY DEF Sig, StopSig, SIGKILL, SIGSTOP, SIGTSTP, SIGTTIN
  <2>3. k3.p_cursig = k.p_cursig
    BY <1>2, <1>9, <2>2, PsignalPlainSent DEF Sent, Hush
  <2> HIDE DEF k1, k3
  <2>4. k2.p_cursig = k1.p_cursig
    BY <2>1 DEF Kern
  <2> QED BY <1>1, <2>1, <2>3, <2>4
<1>11. \A x \in All : kern'.p_cursig[x] = IF x = p THEN sig ELSE kern.p_cursig[x]
  BY <1>2, <1>3, <1>9, <1>10, KernTypes
<1>12. \A x \in All : pc'[x] = IF x = p THEN label ELSE pc[x]
  BY <1>2, <1>5
<1>13. InitProc \in All /\ InitProc \in Procs
  BY ProcsAssumption DEF All
<1> QED BY <1>4, <1>5, <1>6, <1>11, <1>12, <1>13 DEF CursigIn, All

\* issig() clears p_cursig when it finds no signal.
LEMMA IssigNoneCursig ==
  ASSUME IInv, CursigIn(kern, pc), NEW p \in Procs, IssigNone(p)
  PROVE  CursigIn(kern', pc')
<1> DEFINE k == [kern EXCEPT !.p_cursig[p] = NoSig]
           k2 == [k EXCEPT !.p_stat[p] = "SSLEEP"]
<1>1. At(p, "issig") /\ kern' \in {k, k2}
  BY DEF IssigNone
<1>2. /\ p \in All /\ kern \in Kern /\ pc \in [All -> PC] /\ pc[p] = "issig"
      /\ ret[p] \in {"run", "wait"}
  BY <1>1, AtFacts
<1>3. PICK label \in {"woken", "rest", "run", "wait"} :
        pc' = [pc EXCEPT ![p] = label]
  BY <1>2 DEF IssigNone, Goto
<1>4. kern'.p_cursig = [kern.p_cursig EXCEPT ![p] = NoSig]
  BY <1>1, <1>2 DEF Kern
<1>5. \A x \in All : kern'.p_cursig[x] = IF x = p THEN NoSig ELSE kern.p_cursig[x]
  BY <1>2, <1>4, KernTypes
<1>6. \A x \in All : pc'[x] = IF x = p THEN label ELSE pc[x]
  BY <1>2, <1>3
<1>7. NoSig \notin Ignored[p] \cup Held[p]
  <2>1. NoSig \notin Sig
    BY DEF Sig, NoSig, SIGINT, SIGKILL, SIGSTOP, SIGTSTP, SIGCONT, SIGCHLD,
           SIGTTIN
  <2>2. Ignored[p] \subseteq Sig /\ Held[p] \subseteq Sig
    BY <1>2, SignalAssumption
  <2> QED BY <2>1, <2>2
<1>8. InitProc \in All /\ InitProc \in Procs
  BY ProcsAssumption DEF All
<1> QED BY <1>3, <1>5, <1>6, <1>7, <1>8 DEF CursigIn, All

\* psig() takes its signal from p_cursig and does not panic.
LEMMA PsigCursig ==
  ASSUME IInv, CursigIn(kern, pc), NEW p \in Procs, Psig(p)
  PROVE  Calm(kern, kern') /\ CursigIn(kern', pc')
<1> DEFINE sig == kern.p_cursig[p]
           k == [kern EXCEPT !.p_cursig[p] = NoSig]
<1>1. At(p, "psig")
  BY DEF Psig
<1>2. p \in All /\ kern \in Kern /\ pc \in [All -> PC] /\ pc[p] = "psig"
  BY <1>1, AtFacts
<1>3. sig # NoSig /\ sig \notin Ignored[p] \cup Held[p]
  BY <1>2 DEF CursigIn
<1>4. \/ kern' = k /\ pc' = [pc EXCEPT ![p] = "rest"]
      \/ /\ sig \notin Caught[p] /\ kern' = kern
         /\ pc' = [pc EXCEPT ![p] = "exit"]
  BY <1>3 DEF Psig, Goto
<1>5. Calm(kern, kern')
  BY <1>2, <1>4 DEF Calm, Kern
<1>6. InitProc \in All /\ InitProc \in Procs
  BY ProcsAssumption DEF All
<1>7. p = InitProc => sig \in Caught[p]
  BY <1>2, <1>3 DEF CursigIn
<1>8. CASE kern' = k /\ pc' = [pc EXCEPT ![p] = "rest"]
  <2>1. kern'.p_cursig = [kern.p_cursig EXCEPT ![p] = NoSig]
    BY <1>2, <1>8 DEF Kern
  <2>2. \A x \in All : kern'.p_cursig[x] = IF x = p THEN NoSig ELSE kern.p_cursig[x]
    BY <1>2, <2>1, KernTypes
  <2>3. \A x \in All : pc'[x] = IF x = p THEN "rest" ELSE pc[x]
    BY <1>2, <1>8
  <2>4. NoSig \notin Ignored[p] \cup Held[p]
    <3>1. NoSig \notin Sig
      BY DEF Sig, NoSig, SIGINT, SIGKILL, SIGSTOP, SIGTSTP, SIGCONT, SIGCHLD,
             SIGTTIN
    <3>2. Ignored[p] \subseteq Sig /\ Held[p] \subseteq Sig
      BY <1>2, SignalAssumption
    <3> QED BY <3>1, <3>2
  <2>5. CursigIn(kern', pc')
    BY <1>6, <2>2, <2>3, <2>4 DEF CursigIn, All
  <2> QED BY <1>5, <2>5
<1>9. CASE /\ sig \notin Caught[p] /\ kern' = kern
           /\ pc' = [pc EXCEPT ![p] = "exit"]
  <2>1. p # InitProc
    BY <1>7, <1>9
  <2>2. \A x \in All : pc'[x] = IF x = p THEN "exit" ELSE pc[x]
    BY <1>2, <1>9
  <2>3. CursigIn(kern', pc')
    BY <1>6, <1>9, <2>1, <2>2 DEF CursigIn, All
  <2> QED BY <1>5, <2>3
<1> QED BY <1>4, <1>8, <1>9

\* The trap exit calls psig() only with a signal in p_cursig.
LEMMA TrapExitCursig ==
  ASSUME IInv, CursigIn(kern, pc), NEW p \in Procs, TrapExit(p)
  PROVE  CursigIn(kern', pc')
<1>1. PICK from \in {"run", "trap"} : At(p, from)
  BY DEF TrapExit
<1>2. p \in All /\ pc \in [All -> PC] /\ pc[p] = from /\ kern' = kern
  BY <1>1, AtFacts DEF TrapExit
<1>3. PICK label \in {"psig", "issig", "rest"} :
        /\ pc' = [pc EXCEPT ![p] = label]
        /\ label = "psig" => kern.p_cursig[p] # NoSig
  BY DEF TrapExit, Goto
<1>4. \A x \in All : pc'[x] = IF x = p THEN label ELSE pc[x]
  BY <1>2, <1>3
<1>5. InitProc \in All /\ InitProc \in Procs
  BY ProcsAssumption DEF All
<1> QED BY <1>2, <1>3, <1>4, <1>5 DEF CursigIn, All

\* A slot that is freed has no p_cursig.
LEMMA WaitReapCursig ==
  ASSUME IInv, CursigIn(kern, pc), NEW p \in Procs, WaitReap(p)
  PROVE  CursigIn(kern', pc')
<1>1. PICK q \in Procs :
        /\ kern.p_stat[q] = "SZOMB"
        /\ kern' = [kern EXCEPT !.p_stat[q] = "free", !.p_pptr[q] = Swapper,
                                !.p_sig[q] = {}, !.p_cursig[q] = NoSig,
                                !.p_wchan[q] = NoChan,
                                !.sload = @ \ {q}, !.swted = @ \ {q}]
  BY DEF WaitReap, Children
<1>2. At(p, "wait") /\ pc' = [pc EXCEPT ![p] = "run"]
  BY DEF WaitReap, Goto
<1>3. p \in All /\ pc \in [All -> PC] /\ pc[p] = "wait" /\ kern \in Kern
  BY <1>2, AtFacts
<1>4. q \in All /\ pc[q] \in {"exit1", "zombie"}
  <2>1. q \in All
    BY DEF All
  <2> QED BY <1>1, <2>1 DEF IInv, Ctl, PcCtl
<1>5. \A x \in All : kern'.p_cursig[x] = IF x = q THEN NoSig ELSE kern.p_cursig[x]
  <2>1. kern'.p_cursig = [kern.p_cursig EXCEPT ![q] = NoSig]
    BY <1>1, <1>3 DEF Kern
  <2> QED BY <1>3, <1>4, <2>1, KernTypes
<1>6. \A x \in All : pc'[x] = IF x = p THEN "run" ELSE pc[x]
  BY <1>2, <1>3
<1>7. NoSig \notin Ignored[q] \cup Held[q]
  <2>1. NoSig \notin Sig
    BY DEF Sig, NoSig, SIGINT, SIGKILL, SIGSTOP, SIGTSTP, SIGCONT, SIGCHLD,
           SIGTTIN
  <2>2. Ignored[q] \subseteq Sig /\ Held[q] \subseteq Sig
    BY <1>4, SignalAssumption
  <2> QED BY <2>1, <2>2
<1>8. InitProc \in All /\ InitProc \in Procs
  BY ProcsAssumption DEF All
<1>9. \A x \in All : kern'.p_cursig[x] \notin Ignored[x] \cup Held[x]
  BY <1>5, <1>7 DEF CursigIn
<1>10. \A x \in Procs : pc'[x] = "psig" => kern'.p_cursig[x] # NoSig
  BY <1>4, <1>5, <1>6 DEF CursigIn, All
<1>11. /\ pc'[InitProc] # "exit"
       /\ pc'[InitProc] # "issig" =>
            kern'.p_cursig[InitProc] \in Caught[InitProc] \cup {NoSig}
  BY <1>3, <1>5, <1>6, <1>8 DEF CursigIn
<1> QED BY <1>9, <1>10, <1>11 DEF CursigIn

\* A step of a process that is not in issig(), to a label other than those of
\* psig() and exit().
LEMMA StepMoves ==
  ASSUME IInv, NEW p \in Procs, pc[p] # "issig", NEW to,
         to \notin {"psig", "exit"}, pc' = [pc EXCEPT ![p] = to]
  PROVE  Moves
<1>1. InitProc \in All /\ p \in All /\ pc \in [All -> PC]
  BY ProcsAssumption DEF IInv, TypeOK, All
<1>2. \A x \in All : pc'[x] = IF x = p THEN to ELSE pc[x]
  BY <1>1
<1> QED BY <1>1, <1>2 DEF Moves, All

\* A step that leaves every process where it is.
LEMMA StayMoves ==
  ASSUME pc' = pc
  PROVE  Moves
BY DEF Moves

\* Such a step leaves p_cursig in order if it leaves it alone.
LEMMA MutePlain ==
  ASSUME CursigIn(kern, pc), kern'.p_cursig = kern.p_cursig, Moves
  PROVE  CursigIn(kern', pc')
<1>1. Stamps(kern, kern')
  BY DEF Stamps
<1> QED BY <1>1, StampStep

\* sleep() up to its switch: the process goes to issig() or to sleep.
LEMMA SleepCursig ==
  ASSUME IInv, CursigIn(kern, pc), NEW p \in Procs, Sleep(p) \/ WaitSleep(p)
  PROVE  CursigIn(kern', pc')
<1>0. \E chan : \E pri : \E back \in {"run", "wait"} :
        SleepCall(p, chan, pri, back)
  BY DEF Sleep, WaitSleep
<1>a. PICK chan : \E pri : \E back \in {"run", "wait"} :
        SleepCall(p, chan, pri, back)
  BY <1>0
<1>b. PICK pri : \E back \in {"run", "wait"} : SleepCall(p, chan, pri, back)
  BY <1>a
<1>1. PICK back \in {"run", "wait"} : SleepCall(p, chan, pri, back)
  BY <1>b
<1>2. PICK from \in {"run", "waitsleep"} : At(p, from)
  BY DEF Sleep, WaitSleep
<1>3. kern \in Kern /\ pc[p] # "issig"
  BY <1>2, AtFacts
<1> DEFINE k == EnterSleep(kern, p, chan, pri)
           k2 == [k EXCEPT !.p_stat[p] = "SSLEEP"]
<1>4. kern' \in {k, k2}
  BY <1>1 DEF SleepCall
<1>5. k.p_cursig = kern.p_cursig /\ k2.p_cursig = k.p_cursig
  BY <1>3 DEF EnterSleep, Panic, Kern
<1> HIDE DEF k, k2
<1>6. kern'.p_cursig = kern.p_cursig
  BY <1>4, <1>5
<1>7. PICK to \in {"issig", "woken", "run", "wait"} : pc' = [pc EXCEPT ![p] = to]
  BY <1>1 DEF SleepCall, Goto
<1>8. to \notin {"psig", "exit"}
  BY <1>7
<1>9. Moves
  BY <1>3, <1>7, <1>8, StepMoves
<1> QED BY <1>6, <1>9, MutePlain

\* The steps that only move on.
LEMMA IdleCursig ==
  ASSUME IInv, CursigIn(kern, pc), NEW p \in Procs,
         Woken(p) \/ SwtchStopped(p) \/ Wait(p) \/ WaitNone(p)
  PROVE  CursigIn(kern', pc')
<1>1. PICK from \in {"woken", "swtch", "run", "wait"} : At(p, from)
  BY DEF Woken, SwtchStopped, Wait, WaitNone
<1>2. pc[p] # "issig" /\ ret[p] \in {"run", "wait"} /\ kern' = kern
  BY <1>1, AtFacts DEF Woken, SwtchStopped, Wait, WaitNone
<1>3. PICK to \in {"issig", "run", "wait", "waitsleep"} :
        pc' = [pc EXCEPT ![p] = to]
  BY <1>2 DEF Woken, SwtchStopped, Wait, WaitNone, Goto
<1>4. to \notin {"psig", "exit"}
  BY <1>3
<1>5. Moves
  BY <1>2, <1>3, <1>4, StepMoves
<1> QED BY <1>2, <1>5, MutePlain

\* The two statements with which issig() stops the process.
LEMMA StopCursig ==
  ASSUME IInv, CursigIn(kern, pc), NEW p \in Procs, TellParent(p) \/ StopSelf(p)
  PROVE  CursigIn(kern', pc')
<1>1. CASE TellParent(p)
  <2>1. pc[p] # "issig" /\ pc' = [pc EXCEPT ![p] = "stop"]
    BY <1>1 DEF TellParent, At, Goto
  <2>2. Moves
    BY <2>1, StepMoves
  <2>3. kern'.p_cursig = kern.p_cursig
    BY <1>1, TellParentKept
  <2> QED BY <2>2, <2>3, MutePlain
<1>2. CASE StopSelf(p)
  <2>1. pc[p] # "issig" /\ pc' = [pc EXCEPT ![p] = "swtch"]
    BY <1>2 DEF StopSelf, At, Goto
  <2>2. Moves
    BY <2>1, StepMoves
  <2>3. kern \in Kern /\ kern' = Stop(kern, p)
    BY <1>2 DEF IInv, TypeOK, StopSelf
  <2>4. kern'.p_cursig = kern.p_cursig
    BY <2>3, StopTidy
  <2> QED BY <2>2, <2>4, MutePlain
<1> QED BY <1>1, <1>2

\* The end of the trap exit.
LEMMA RestCursig ==
  ASSUME IInv, CursigIn(kern, pc), NEW p \in Procs, Rest(p)
  PROVE  CursigIn(kern', pc')
<1>1. PICK usrpri \in UserPri :
        kern' \in {[kern EXCEPT !.p_pri[p] = usrpri],
                   Setrq([kern EXCEPT !.p_pri[p] = usrpri], p)}
  BY DEF Rest
<1> DEFINE k == [kern EXCEPT !.p_pri[p] = usrpri]
<1>2. kern \in Kern /\ p \in All /\ usrpri \in Pri
  BY ChanAssumption DEF IInv, TypeOK, All, Pri
<1>3. Bland(kern, k)
  BY <1>2, PriBland
<1>4. kern' \in {k, Setrq(k, p)}
  BY <1>1
<1> HIDE DEF k
<1>5. Bland(k, Setrq(k, p))
  BY <1>2, <1>3, SetrqBland DEF Bland, Mute
<1>6. kern'.p_cursig = kern.p_cursig
  BY <1>3, <1>4, <1>5 DEF Bland, Mute
<1>7. pc[p] # "issig" /\ pc' = [pc EXCEPT ![p] = "run"]
  BY DEF Rest, At, Goto
<1>8. Moves
  BY <1>7, StepMoves
<1> QED BY <1>6, <1>8, MutePlain

\* newproc() takes a slot that is free, which is not init's.
LEMMA ForkCursig ==
  ASSUME IInv, CursigIn(kern, pc), NEW p \in Procs, Fork(p)
  PROVE  CursigIn(kern', pc')
<1>1. PICK q \in Procs :
        /\ kern.p_stat[q] = "free"
        /\ kern' = [kern EXCEPT !.p_stat[q] = "SIDL", !.p_pptr[q] = p,
                                !.p_wchan[q] = NoChan,
                                !.sload = @ \cup {q}, !.swted = @ \ {q}]
        /\ pc' = [pc EXCEPT ![p] = "procdup", ![q] = "run"]
  BY DEF Fork
<1>2. kern \in Kern /\ p \in All /\ q \in All /\ pc \in [All -> PC]
  BY DEF IInv, TypeOK, All
<1>3. kern'.p_cursig = kern.p_cursig
  BY <1>1, <1>2 DEF Kern
<1>4. pc[p] = "run" /\ q # InitProc
  BY <1>1, <1>2 DEF Fork, At, IInv, Ctl, KernCtl
<1>5. \A x \in All : pc'[x] = IF x = q THEN "run"
                              ELSE IF x = p THEN "procdup" ELSE pc[x]
  BY <1>1, <1>2
<1>6. InitProc \in All
  BY ProcsAssumption DEF All
<1>7. Moves
  BY <1>4, <1>5, <1>6 DEF Moves, All
<1> QED BY <1>3, <1>7, MutePlain

\* The child joins its run queue.
LEMMA ProcdupCursig ==
  ASSUME IInv, CursigIn(kern, pc), NEW p \in Procs, Procdup(p)
  PROVE  CursigIn(kern', pc')
<1>1. PICK q \in Procs :
        /\ kern.p_stat[q] = "SIDL"
        /\ kern' = Setrq([kern EXCEPT !.p_stat[q] = "SRUN"], q)
  BY DEF Procdup
<1> DEFINE k == [kern EXCEPT !.p_stat[q] = "SRUN"]
<1>2. kern \in Kern /\ q \in All /\ q \in kern.sload
  BY <1>1 DEF IInv, TypeOK, All, Ctl, KernCtl
<1>3. Bland(kern, k)
  BY <1>2, StatBland DEF Stat
<1>4. kern' = Setrq(k, q)
  BY <1>1
<1> HIDE DEF k
<1>5. Bland(k, kern')
  BY <1>2, <1>3, <1>4, SetrqBland DEF Bland, Mute
<1>6. kern'.p_cursig = kern.p_cursig
  BY <1>3, <1>5 DEF Bland, Mute
<1>7. pc[p] # "issig" /\ pc' = [pc EXCEPT ![p] = "run"]
  BY DEF Procdup, At, Goto
<1>8. Moves
  BY <1>7, StepMoves
<1> QED BY <1>6, <1>8, MutePlain

\* exit() as far as its zombie.
LEMMA ExitCursig ==
  ASSUME IInv, CursigIn(kern, pc), NEW p \in Procs, Exit(p)
  PROVE  CursigIn(kern', pc')
<1> DEFINE k == [kern EXCEPT !.p_stat[p] = "SZOMB"]
           chan == ChanOf[InitProc]
           k2 == Wakeup(k, chan)
<1>1. \/ kern' = Panic(k, "init died") \/ kern' = k \/ kern' = k2
  BY DEF Exit
<1>2. kern \in Kern /\ p \in All /\ chan \in AllChan
  BY ProcsAssumption, ChanAssumption DEF IInv, TypeOK, All, AllChan
<1> HIDE DEF chan
<1>3. Bland(kern, k)
  BY <1>2, StatBland DEF Stat
<1> HIDE DEF k
<1>4. Bland(k, k2)
  <2>1. k \in Kern
    BY <1>3 DEF Bland, Mute
  <2> QED BY <1>2, <2>1, WakeupBland
<1> HIDE DEF k2
<1>5. Bland(k, Panic(k, "init died"))
  BY <1>3, PanicBland DEF Why, Bland, Mute
<1>6. kern'.p_cursig = kern.p_cursig
  BY <1>1, <1>3, <1>4, <1>5 DEF Bland, Mute
<1>7. pc[p] # "issig" /\ pc' = [pc EXCEPT ![p] = "exit1"]
  BY DEF Exit, At, Goto
<1>8. Moves
  BY <1>7, StepMoves
<1> QED BY <1>6, <1>8, MutePlain

\* The end of exit().
LEMMA ExitSwtchCursig ==
  ASSUME IInv, CursigIn(kern, pc), NEW p \in Procs, ExitSwtch(p)
  PROVE  CursigIn(kern', pc')
<1> DEFINE parent == kern.p_pptr[p]
           k == PsignalPlain(kern, parent, SIGCHLD)
           chan == ChanOf[parent]
<1>1. kern' = Wakeup(k, chan)
  BY DEF ExitSwtch
<1>2. kern \in Kern
  BY DEF IInv, TypeOK
<1>3. parent \in All /\ SIGCHLD \in Sig \ StopSig /\ chan \in AllChan
  BY <1>2, KernTypes, ChanAssumption
  DEF AllChan, Sig, StopSig, SIGCHLD, SIGSTOP, SIGTSTP, SIGTTIN
<1> HIDE DEF parent, chan
<1>4. Sent(kern, k, parent, SIGCHLD)
  BY <1>2, <1>3, PsignalPlainSent
<1> HIDE DEF k
<1>5. Bland(k, kern')
  BY <1>1, <1>3, <1>4, WakeupBland DEF Sent, Hush
<1>6. kern'.p_cursig = kern.p_cursig
  BY <1>4, <1>5 DEF Bland, Mute, Sent, Hush
<1>7. pc[p] # "issig" /\ pc' = [pc EXCEPT ![p] = "zombie"]
  BY DEF ExitSwtch, At, Goto
<1>8. Moves
  BY <1>7, StepMoves
<1> QED BY <1>6, <1>8, MutePlain

\* A child is given to init.
LEMMA ExitChildCursig ==
  ASSUME IInv, CursigIn(kern, pc), NEW p \in Procs, ExitChild(p)
  PROVE  CursigIn(kern', pc')
<1>1. PICK q \in Children(kern, p) :
        LET k  == [kern EXCEPT !.p_pptr[q] = InitProc]
            k1 == IF k.p_stat[q] = "SSTOP"
                  THEN PsignalPlain(PsignalPlain(k, q, SIGINT), q, SIGCONT)
                  ELSE k
        IN  kern' = Spgrp(k1, q)
  BY DEF ExitChild
<1> DEFINE k == [kern EXCEPT !.p_pptr[q] = InitProc]
           kint == PsignalPlain(k, q, SIGINT)
           kcont == PsignalPlain(kint, q, SIGCONT)
           k1 == IF k.p_stat[q] = "SSTOP" THEN kcont ELSE k
<1>2. kern' = Spgrp(k1, q)
  BY <1>1
<1>3. kern \in Kern /\ q \in Procs /\ q \in All /\ InitProc \in All
  BY ProcsAssumption DEF IInv, TypeOK, All, Children
<1>4. SIGINT \in Sig \ StopSig /\ SIGCONT \in Sig \ StopSig
  BY DEF Sig, StopSig, SIGINT, SIGCONT, SIGSTOP, SIGTSTP, SIGTTIN
<1>5. k \in Kern /\ k.p_cursig = kern.p_cursig
  <2>1. [kern.p_pptr EXCEPT ![q] = InitProc] \in [Procs -> All]
    BY <1>3, KernTypes
  <2> QED BY <1>3, <2>1 DEF Kern
<1> HIDE DEF k
<1>6. kint \in Kern /\ kint.p_cursig = k.p_cursig
  BY <1>3, <1>4, <1>5, PsignalPlainSent DEF Sent, Hush
<1> HIDE DEF kint
<1>7. kcont \in Kern /\ kcont.p_cursig = kint.p_cursig
  BY <1>3, <1>4, <1>6, PsignalPlainSent DEF Sent, Hush
<1> HIDE DEF kcont
<1>8. k1 \in Kern /\ k1.p_cursig = k.p_cursig
  BY <1>5, <1>6, <1>7
<1> HIDE DEF k1
<1>9. kern'.p_cursig = k1.p_cursig
  BY <1>2, <1>3, <1>8, SpgrpHush DEF Hush
<1>10. Moves
  BY StayMoves DEF ExitChild
<1> QED BY <1>5, <1>8, <1>9, <1>10, MutePlain

\* wait1() reports a stopped child.
LEMMA WaitStoppedCursig ==
  ASSUME IInv, CursigIn(kern, pc), NEW p \in Procs, WaitStopped(p)
  PROVE  CursigIn(kern', pc')
<1>1. PICK q \in Procs : kern' = [kern EXCEPT !.swted = @ \cup {q}]
  BY DEF WaitStopped, Unreported, Children
<1>2. kern'.p_cursig = kern.p_cursig
  BY <1>1 DEF IInv, TypeOK, Kern
<1>3. pc[p] # "issig" /\ pc' = [pc EXCEPT ![p] = "run"]
  BY DEF WaitStopped, At, Goto
<1>4. Moves
  BY <1>3, StepMoves
<1> QED BY <1>2, <1>4, MutePlain

\* kill() sends init no stop signal it would stop for.
LEMMA KillCursig ==
  ASSUME QuietEnv, IInv, CursigIn(kern, pc), NEW p \in Procs, Kill(p)
  PROVE  CursigIn(kern', pc')
<1>0. PICK q \in Procs : \E sig \in Posted[q] : kern' = Psignal(kern, q, sig)
  BY DEF Kill
<1>1. PICK sig \in Posted[q] : kern' = Psignal(kern, q, sig)
  BY <1>0
<1>2. kern \in Kern /\ sig \in Sig
  BY SignalAssumption DEF IInv, TypeOK
<1>3. q = InitProc /\ sig \in StopSig =>
        sig \in Caught[q] \cup Ignored[q] \cup Held[q]
  BY <1>1 DEF QuietEnv
<1>4. Stamps(kern, kern')
  BY <1>1, <1>2, <1>3, PsignalCursig
<1>5. Moves
  BY StayMoves DEF Kill
<1> QED BY <1>4, <1>5, StampStep

\* The steps of processes panic nowhere and leave p_cursig in order.
LEMMA ProcCursig ==
  ASSUME QuietEnv, SInv, CursigIn(kern, pc), NEW p \in Procs, Proc(p)
  PROVE  NoPanic' /\ CursigIn(kern', pc')
<1>0. IInv /\ PcSig /\ HashApart
  BY DEF SInv, QuietEnv
<1>1. CursigIn(kern', pc')
  BY <1>0, SleepCursig, IdleCursig, IssigNoneCursig, IssigTakeCursig,
     StopCursig, TrapExitCursig, PsigCursig, RestCursig, ForkCursig,
     ProcdupCursig, ExitCursig, ExitChildCursig, ExitSwtchCursig,
     WaitReapCursig, WaitStoppedCursig, KillCursig DEF Proc
<1>2. PICK label : At(p, label)
  BY DEF Proc, Sleep, Woken, IssigNone, IssigSend, IssigContinue, IssigKill,
         IssigStop, TellParent, StopSelf, SwtchStopped, TrapExit, Psig, Rest,
         Fork, Procdup, Exit, ExitChild, ExitSwtch, Wait, WaitReap,
         WaitStopped, WaitNone, WaitSleep, Kill
<1>3. NoPanic
  BY <1>2 DEF At
<1>4. Calm(kern, kern')
  <2>1. CASE Exit(p)
    <3>1. p # InitProc
      BY <2>1 DEF CursigIn, Exit, At
    <3> QED BY <1>0, <2>1, <3>1, ExitCalm
  <2>2. CASE Psig(p)
    BY <1>0, <2>2, PsigCursig
  <2>3. CASE ~Exit(p) /\ ~Psig(p)
    BY <1>0, <2>3, SleepCalm, IssigCalm, TellParentCalm, StopSelfCalm,
       RestCalm, ProcdupCalm, PlainCalm, ExitSwtchCalm, ExitChildCalm,
       KillCalm DEF Proc
  <2> QED BY <2>1, <2>2, <2>3
<1> QED BY <1>1, <1>3, <1>4 DEF NoPanic, Calm

\* swtch() leaves p_cursig and the places of all processes alone.
LEMMA SwtchCursig ==
  ASSUME IInv, CursigIn(kern, pc), Swtch
  PROVE  CursigIn(kern', pc')
<1>1. kern \in Kern
  BY DEF IInv, TypeOK
<1>2. \/ kern' = Panic(kern, "swtch")
      \/ \E p \in OnQueue(kern, BestQueue) :
           kern' = Switched(kern, p, BestQueue)
  BY DEF Swtch
<1>3. kern'.p_cursig = kern.p_cursig
  BY <1>1, <1>2 DEF Switched, Panic, Kern
<1>4. Moves
  BY StayMoves DEF Swtch
<1> QED BY <1>3, <1>4, MutePlain

\* So does the swapper, but for its own place.
LEMMA SchedCursig ==
  ASSUME IInv, Watch, CursigIn(kern, pc), Sched, ~VictimRunnable
  PROVE  CursigIn(kern', pc')
<1>1. Mute(kern, kern')
  BY SchedWatch
<1>2. pc' = pc \/ \E to : pc' = [pc EXCEPT ![Swapper] = to]
  BY DEF Sched, SchedLoop, SchedScan, SchedDeadwood, SchedIdle, SchedIn,
         Swapin, SchedHard, SwapoutFails, SwapoutStart, SwapoutEnd,
         SwapSleep, Goto
<1>3. \A q \in Procs : pc'[q] = pc[q]
  BY <1>2, ProcsAssumption DEF IInv, TypeOK, All
<1>4. Moves
  BY <1>3, ProcsAssumption DEF Moves
<1> QED BY <1>1, <1>4, MutePlain DEF Mute

\* The interrupts that send no signal are bland.
LEMMA IntrBland ==
  ASSUME IInv, IntrWakeup \/ Schedcpu \/ SchedcpuWakeup
  PROVE  Bland(kern, kern')
<1>1. kern \in Kern
  BY DEF IInv, TypeOK
<1>2. CASE IntrWakeup
  <2>1. PICK chan \in IntrChan \cup {SWAPIO} : kern' = Wakeup(kern, chan)
    BY <1>2 DEF IntrWakeup
  <2>2. chan \in AllChan
    BY ChanAssumption DEF AllChan, SwapChan
  <2> QED BY <1>1, <2>1, <2>2, WakeupBland
<1>4. CASE Schedcpu
  <2>1. PICK p \in Procs : \E usrpri \in UserPri :
          kern' = Reprioritize(kern, p, usrpri)
    BY <1>4 DEF Schedcpu
  <2>2. PICK usrpri \in UserPri : kern' = Reprioritize(kern, p, usrpri)
    BY <2>1
  <2> DEFINE k1 == [kern EXCEPT !.p_pri[p] = usrpri]
             k2 == Remrq(kern, p)
             k3 == [k2 EXCEPT !.p_pri[p] = usrpri]
  <2>3. kern' = kern \/ kern' = k1 \/ kern' = Setrq(k3, p)
    BY <2>2 DEF Reprioritize
  <2>4. p \in All /\ usrpri \in Pri
    BY ChanAssumption DEF All, Pri
  <2>5. Bland(kern, kern) /\ Bland(kern, k1)
    BY <1>1, <2>4, PriBland, BlandRefl
  <2>6. Bland(kern, k2)
    BY <1>1, <2>4, RemrqBland
  <2> HIDE DEF k1, k2
  <2>7. Bland(k2, k3)
    <3>1. k2 \in Kern
      BY <2>6 DEF Bland, Mute
    <3> QED BY <2>4, <3>1, PriBland
  <2> HIDE DEF k3
  <2>8. Bland(k3, Setrq(k3, p))
    <3>1. k3 \in Kern
      BY <2>7 DEF Bland, Mute
    <3> QED BY <2>4, <3>1, SetrqBland
  <2>9. Bland(kern, Setrq(k3, p))
    <3>1. Bland(kern, k3)
      BY <2>6, <2>7, BlandTrans
    <3> QED BY <2>8, <3>1, BlandTrans
  <2> QED BY <2>3, <2>5, <2>9
<1>5. CASE SchedcpuWakeup
  <2> DEFINE k == Wakeup(kern, LBOLT)
  <2>1. kern' = Wakeup(k, RUNIN)
    BY <1>5 DEF SchedcpuWakeup
  <2>2. LBOLT \in AllChan /\ RUNIN \in AllChan
    BY DEF AllChan, SwapChan
  <2>3. Bland(kern, k)
    BY <1>1, <2>2, WakeupBland
  <2> HIDE DEF k
  <2>4. Bland(k, kern')
    <3>1. k \in Kern
      BY <2>3 DEF Bland, Mute
    <3> QED BY <2>1, <2>2, <3>1, WakeupBland
  <2> QED BY <2>3, <2>4, BlandTrans
<1> QED BY <1>2, <1>4, <1>5

\* Interrupts put a stop signal into p_cursig at most, and not into init's.
LEMMA IntrCursig ==
  ASSUME QuietEnv, IInv, CursigIn(kern, pc), Intr
  PROVE  CursigIn(kern', pc')
<1>1. Moves
  BY StayMoves DEF Intr, IntrWakeup, IntrSignal, IntrSend, Schedcpu,
     SchedcpuWakeup, Vmmeter
<1>2. kern \in Kern
  BY DEF IInv, TypeOK
<1>3. CASE IntrSignal
  <2>1. PICK q \in Procs : \E sig \in IntrSigs[q] : kern' = Psignal(kern, q, sig)
    BY <1>3 DEF IntrSignal, IntrSend
  <2>2. PICK sig \in IntrSigs[q] : kern' = Psignal(kern, q, sig)
    BY <2>1
  <2>3. sig \in Sig
    BY SignalAssumption
  <2>4. q = InitProc /\ sig \in StopSig =>
          sig \in Caught[q] \cup Ignored[q] \cup Held[q]
    BY <2>2 DEF QuietEnv
  <2>5. Stamps(kern, kern')
    BY <1>2, <2>2, <2>3, <2>4, PsignalCursig
  <2> QED BY <1>1, <2>5, StampStep
<1>4. CASE Vmmeter
  <2>1. Mute(kern, kern')
    BY <1>4, VmmeterMute
  <2> QED BY <1>1, <2>1, MutePlain DEF Mute
<1>5. CASE IntrWakeup \/ Schedcpu \/ SchedcpuWakeup
  <2>1. Bland(kern, kern')
    BY <1>5, IntrBland
  <2> QED BY <1>1, <2>1, MutePlain DEF Bland, Mute
<1> QED BY <1>3, <1>4, <1>5 DEF Intr

-----------------------------------------------------------------------------
\* The inductive invariant of NoPanic.
NInv == SInv /\ NoPanic /\ CursigIn(kern, pc)

\* It holds to begin with.
LEMMA InitNInv ==
  ASSUME Init
  PROVE  NInv
<1>1. SInv
  BY InitSInv
<1>2. /\ kern.panicstr = ""
      /\ \A x \in All : kern.p_cursig[x] = NoSig
      /\ \A x \in All : pc[x] \in {"loop", "woken", "run"}
      /\ InitProc \in All /\ Procs \subseteq All
  BY ProcsAssumption DEF Init, All
<1>3. \A x \in All : NoSig \notin Ignored[x] \cup Held[x]
  <2>1. NoSig \notin Sig
    BY DEF Sig, NoSig, SIGINT, SIGKILL, SIGSTOP, SIGTSTP, SIGCONT, SIGCHLD,
           SIGTTIN
  <2>2. \A x \in All : Ignored[x] \subseteq Sig /\ Held[x] \subseteq Sig
    BY SignalAssumption
  <2> QED BY <2>1, <2>2
<1>4. CursigIn(kern, pc)
  BY <1>2, <1>3 DEF CursigIn
<1> QED BY <1>1, <1>2, <1>4 DEF NInv, NoPanic

\* Every step keeps it.
LEMMA NextNInv ==
  ASSUME QuietEnv, NInv, [Next]_vars, [~Race]_vars
  PROVE  NInv'
<1>1. HashApart /\ SInv /\ IInv /\ Watch /\ NoPanic /\ CursigIn(kern, pc)
  BY DEF QuietEnv, NInv, SInv
<1>2. SInv'
  BY <1>1, NextSInv
<1>3. CASE UNCHANGED vars
  <2>1. kern' = kern /\ pc' = pc
    BY <1>3 DEF vars
  <2> QED BY <1>1, <1>2, <2>1 DEF NInv, NoPanic, CursigIn
<1>4. ASSUME NEW p \in Procs, Proc(p)
      PROVE  NInv'
  BY <1>1, <1>2, <1>4, ProcCursig DEF NInv, CursigIn
<1>5. CASE Swtch
  <2>1. Calm(kern, kern') /\ CursigIn(kern', pc')
    BY <1>1, <1>5, SwtchCalm, SwtchCursig
  <2> QED BY <1>1, <1>2, <2>1 DEF NInv, NoPanic, Calm, CursigIn
<1>6. CASE Sched /\ ~Race
  <2>1. Calm(kern, kern') /\ CursigIn(kern', pc')
    BY <1>1, <1>6, SchedCalm, SchedCursig DEF Race
  <2> QED BY <1>1, <1>2, <2>1 DEF NInv, NoPanic, Calm, CursigIn
<1>7. CASE Intr /\ ~Race
  <2>1. Calm(kern, kern') /\ CursigIn(kern', pc')
    BY <1>1, <1>7, IntrCalm, IntrCursig DEF Race
  <2> QED BY <1>1, <1>2, <2>1 DEF NInv, NoPanic, Calm, CursigIn
<1> QED BY <1>3, <1>4, <1>5, <1>6, <1>7 DEF Next

\* No assertion of sleep, wakeup, setrun, setrq, remrq, swtch, psig, exit or
\* swapout fails, in whatever order processes, the swapper and interrupt
\* handlers call them, throughout every run without one of the three races,
\* as long as no channel shares its sleep queue with &runout and init is sent
\* no signal that would stop it.
THEOREM NeverPanics ==
  ASSUME QuietEnv
  PROVE  Spec /\ [][~Race]_vars => []NoPanic
<1>1. Init => NInv
  BY InitNInv
<1>2. NInv /\ [Next]_vars /\ [~Race]_vars => NInv'
  BY NextNInv
<1>3. NInv => NoPanic
  BY DEF NInv
<1> QED BY <1>1, <1>2, <1>3, PTL DEF Spec

\* In that environment sched() never sleeps on runout with a process runnable
\* out of core but those passed over for their pageouts, without the proviso
\* that the kernel has not panicked.
THEOREM SwapperNeverStuck ==
  ASSUME QuietEnv
  PROVE  Spec /\ [][~Race]_vars => []SwapperNotStuck
<1> QED BY SwapperIsTold, NeverPanics, PTL

-----------------------------------------------------------------------------
(***************************************************************************)
(* What wait1() finds.                                                     *)
(***************************************************************************)

\* A process that catches SIGCHLD, and is sent no stop signal that it does not
\* catch, ignore or hold.
Steady(x) ==
  /\ SIGCHLD \in Caught[x] \ (Ignored[x] \cup Held[x])
  /\ (Posted[x] \cup IntrSigs[x]) \cap StopSig \subseteq
       Caught[x] \cup Ignored[x] \cup Held[x]

\* No interrupt sends a signal that stops.
NoKeyboard == \A p \in Procs : IntrSigs[p] \cap StopSig = {}

\* Interrupts send those of the keyboard, and who calls wait3(), init apart, is
\* prepared for them.
Keyboard ==
  /\ \A p \in Procs : SIGSTOP \notin IntrSigs[p]
  /\ \A x \in Waits \ {InitProc} : Steady(x)

\* The environment in which wait1() misses nothing.
PlainEnv == NoKeyboard \/ Keyboard

\* A prepared process has a SIGCHLD pending.
ChildNews(k, x) == Steady(x) /\ SIGCHLD \in k.p_sig[x]

\* It is inside sleep(), on its queue, and will find the signal.
Alerted(x) ==
  Running(x) /\ pc[x] = "issig" /\ ctx[x] = "sleep1" /\ ChildNews(kern, x)

\* p is on the queue of its own address, where wait1() sleeps.
Waiting(k, r, p) == k.p_wchan[p] = ChanOf[p] /\ r[p] = "wait"

\* No child of p has anything to report.
Nothing(k, at, p) ==
  \A q \in Children(k, p) : at[q] # "zombie" /\ ~Halted(k, q)

\* A process at the end of its exit() is a zombie, or its slot is free.
Corpses ==
  \A x \in Procs : pc[x] = "zombie" => kern.p_stat[x] \in {"SZOMB", "free"}

\* Nobody waits with something to report.
Seen == \A x \in Procs : Waiting(kern, ret, x) => Nothing(kern, pc, x)

\* Nobody waits, or is about to, with something to report unless told of it,
\* and while a process gives its children to init, init does not wait.
Looked ==
  /\ \A x \in Procs : Waiting(kern, ret, x) =>
                        Nothing(kern, pc, x) \/ Alerted(x)
  /\ \A x \in Procs : pc[x] = "waitsleep" =>
                        Running(x) /\ (Nothing(kern, pc, x) \/ ChildNews(kern, x))
  /\ \A x \in Procs : pc[x] = "exit1" /\ Children(kern, x) # {} =>
                        ~Waiting(kern, ret, InitProc)

\* The two together, until a panic.
WInv == Corpses /\ (NoPanic => Looked)

\* Only processes that call wait3(), and init, wait.
Waiters ==
  \A x \in Procs :
    pc[x] \in {"wait", "waitsleep"} \/ ret[x] = "wait" =>
      x \in Waits \cup {InitProc}

\* A step that notifies the parents of those it stops, and by which no process
\* exits or comes to its wait.
LEMMA TellStep ==
  ASSUME kern \in Kern, WInv, Notifies(kern, kern'), ret' = ret,
         \A x \in Procs : \/ pc'[x] = pc[x]
                          \/ pc'[x] \notin {"zombie", "exit1", "waitsleep"},
         NoPanic => \A x \in Procs : Waiting(kern, ret, x) =>
                      \/ Nothing(kern, pc, x)
                      \/ Waiting(kern', ret', x) => Alerted(x)',
         NoPanic' => \A x \in Procs : pc'[x] = "waitsleep" =>
                       Running(x)' /\ (Nothing(kern', pc', x) \/ ChildNews(kern', x))
  PROVE  WInv'
<1>0. InitProc \in Procs /\ \A x \in Procs : ChanOf[x] # NoChan
  BY ProcsAssumption, ChanAssumption DEF All, AllChan
<1>1. Corpses'
  BY DEF WInv, Corpses, Notifies
<1>2. \A x \in Procs : Waiting(kern', ret', x) => Waiting(kern, ret, x)
  BY <1>0 DEF Waiting, Notifies
<1>3. \A x \in Procs : Children(kern', x) = Children(kern, x)
  BY DEF Children, Notifies
<1>4. ASSUME NoPanic'
      PROVE  Looked'
  <2>1. Looked /\ kern'.panicstr = "" /\ NoPanic
    BY <1>4 DEF WInv, NoPanic, Notifies
  <2>2. ASSUME NEW x \in Procs, Waiting(kern', ret', x), ~Alerted(x)'
        PROVE  Nothing(kern', pc', x)
    <3>0. Nothing(kern, pc, x)
      BY <1>2, <2>1, <2>2
    <3>1. SUFFICES ASSUME NEW q \in Children(kern', x)
                   PROVE  pc'[q] # "zombie" /\ ~Halted(kern', q)
      BY DEF Nothing
    <3>2. q \in Procs /\ kern.p_pptr[q] = x /\ kern'.p_pptr[q] = x
      BY <1>3 DEF Children, Notifies
    <3>3. pc[q] # "zombie" /\ ~Halted(kern, q)
      BY <1>3, <3>0 DEF Nothing
    <3>4. ~Up(kern', q)
      BY <2>2, <3>2 DEF Up, Waiting
    <3> QED BY <2>1, <3>2, <3>3, <3>4 DEF Notifies
  <2>4. ASSUME NEW x \in Procs, pc'[x] = "exit1", Children(kern', x) # {}
        PROVE  ~Waiting(kern', ret', InitProc)
    <3>1. pc[x] = "exit1"
      BY <2>4
    <3> QED BY <1>0, <1>2, <1>3, <2>1, <2>4, <3>1 DEF Looked
  <2> QED BY <1>4, <2>2, <2>4 DEF Looked
<1> QED BY <1>1, <1>4 DEF WInv

\* Only the running process is about to wait or exits.
LEMMA OnlyRunning ==
  ASSUME IInv, WInv, NEW p \in All, NEW label, At(p, label),
         NEW x \in Procs, x # p
  PROVE  pc[x] \notin {"waitsleep", "exit1"}
BY DEF IInv, Ctl, PcCtl, WInv, Looked, At, Running, All

\* Nor does anybody else wait with a signal to find, or when there is none.
LEMMA AllSeen ==
  ASSUME IInv, WInv, NoPanic,
         \/ noproc
         \/ cur \notin Procs
         \/ ctx[cur] # "sleep1"
         \/ pc[cur] # "issig"
  PROVE  Seen
BY DEF WInv, Looked, Seen, Alerted, Running

\* So the running process is the only one who may, and inside issig().
LEMMA AtSeen ==
  ASSUME IInv, WInv, NEW p \in All, NEW label, At(p, label), label # "issig"
  PROVE  Seen
BY AllSeen DEF At, Running

\* A step of p that notifies, after which p neither exits nor comes to its
\* wait; who else waits has nothing to report.
LEMMA TellProc ==
  ASSUME IInv, WInv, Seen, NEW p \in Procs, NEW from, At(p, from),
         Notifies(kern, kern'), ret' = ret,
         \A x \in Procs \ {p} : pc'[x] = pc[x],
         pc'[p] \notin {"zombie", "exit1", "waitsleep"}
  PROVE  WInv'
<1>1. \A x \in Procs : \/ pc'[x] = pc[x]
                       \/ pc'[x] \notin {"zombie", "exit1", "waitsleep"}
  OBVIOUS
<1>2. \A x \in Procs : pc'[x] # "waitsleep"
  BY OnlyRunning DEF All
<1>3. kern \in Kern
  BY DEF IInv, TypeOK
<1> QED BY <1>1, <1>2, <1>3, TellStep DEF Seen

\* A step that leaves the kernel's data alone, or makes processes run.
LEMMA RouseProc ==
  ASSUME IInv, WInv, Seen, NEW p \in Procs, NEW from, At(p, from),
         Rouses(kern, kern'), ret' = ret,
         \A x \in Procs \ {p} : pc'[x] = pc[x],
         pc'[p] \notin {"zombie", "exit1", "waitsleep"}
  PROVE  WInv'
BY RousesNotifies, TellProc

\* The steps that only move the process.
LEMMA WalkLooked ==
  ASSUME IInv, WInv, NEW p \in Procs,
         Woken(p) \/ SwtchStopped(p) \/ TrapExit(p) \/ Wait(p)
  PROVE  WInv'
<1>1. kern' = kern /\ kern \in Kern /\ ret' = ret /\ pc \in [All -> PC]
      /\ ret[p] \in {"run", "wait"} /\ p \in All
  BY DEF Woken, SwtchStopped, TrapExit, Wait, IInv, TypeOK, All
<1>2. Rouses(kern, kern')
  BY <1>1, RousesRefl
<1>3. \A x \in Procs \ {p} : pc'[x] = pc[x]
  BY <1>1 DEF Woken, SwtchStopped, TrapExit, Wait, Goto, All
<1>4. pc'[p] \notin {"zombie", "exit1", "waitsleep"}
  BY <1>1 DEF Woken, SwtchStopped, TrapExit, Wait, Goto
<1>5. \/ At(p, "woken") \/ At(p, "swtch") \/ At(p, "run") \/ At(p, "trap")
  BY DEF Woken, SwtchStopped, TrapExit, Wait
<1>6. Seen
  BY <1>1, <1>5, AtSeen
<1> QED BY <1>1, <1>2, <1>3, <1>4, <1>5, <1>6, RouseProc

\* p_cursig of a process changes.
LEMMA CursigRouses ==
  ASSUME NEW k \in Kern, NEW p \in All, NEW sig \in Sig \cup {NoSig},
         NEW k2, k2 = [k EXCEPT !.p_cursig[p] = sig]
  PROVE  Rouses(k, k2) /\ k2.p_stat = k.p_stat /\ k2.p_wchan = k.p_wchan
<1>1. /\ k2 \in Kern /\ k2.p_pptr = k.p_pptr /\ k2.p_stat = k.p_stat
      /\ k2.p_wchan = k.p_wchan /\ k2.swted = k.swted
      /\ k2.panicstr = k.panicstr
  BY DEF Kern
<1> QED BY <1>1, RousesSame

\* issig() takes a signal.
LEMMA TakeRouses ==
  ASSUME NEW k \in Kern, NEW p \in All, SigBits(k, p) # {}, NEW k2,
         k2 = Take(k, p)
  PROVE  Rouses(k, k2) /\ k2.p_stat = k.p_stat
<1> DEFINE sig == NextSig(k, p)
           k1 == Forget(k, p, sig)
<1>1. sig \in Sig /\ sig \in Sig \cup {NoSig}
  BY NextSigSig
<1>2. k2 = [k1 EXCEPT !.p_cursig[p] = sig]
  BY DEF Take
<1> HIDE DEF sig
<1>3. Rouses(k, k1) /\ k1.p_stat = k.p_stat
  BY <1>1, SigRouses
<1> HIDE DEF k1
<1>4. k1 \in Kern
  BY <1>3 DEF Rouses
<1>5. Rouses(k1, k2) /\ k2.p_stat = k1.p_stat
  BY <1>1, <1>2, <1>4, CursigRouses
<1> QED BY <1>3, <1>5, RousesTrans

\* issig() finds no signal.
LEMMA IssigNoneLooked ==
  ASSUME IInv, WInv, NEW p \in Procs, IssigNone(p)
  PROVE  WInv'
<1> DEFINE k == [kern EXCEPT !.p_cursig[p] = NoSig]
           k2 == [k EXCEPT !.p_stat[p] = "SSLEEP"]
<1>1. At(p, "issig") /\ ret' = ret /\ kern' \in {k, k2}
  BY DEF IssigNone
<1>a. "issig" \notin {"swtch", "exit1"}
  OBVIOUS
<1>2. /\ kern \in Kern /\ p \in All /\ kern.p_stat[p] = "SRUN"
      /\ pc \in [All -> PC] /\ ret[p] \in {"run", "wait"}
  BY <1>1, <1>a, AtFacts
<1>3. Rouses(kern, k) /\ k.p_stat = kern.p_stat
  BY <1>2, CursigRouses
<1> HIDE DEF k
<1>4. k \in Kern /\ k.p_stat[p] \notin {"free", "SZOMB"}
  BY <1>2, <1>3 DEF Rouses
<1>5. Rouses(k, k2)
  BY <1>2, <1>4, StatRouses
<1>6. Rouses(kern, kern')
  BY <1>1, <1>3, <1>5, RousesTrans
<1>7. \A x \in Procs \ {p} : pc'[x] = pc[x]
  BY <1>2 DEF IssigNone, Goto, All
<1>8. pc'[p] \notin {"zombie", "exit1", "waitsleep"}
  BY <1>2 DEF IssigNone, Goto
<1>9. Seen
  <2>1. ~ChildNews(kern, p)
    BY DEF IssigNone, SigBits, ChildNews, Steady
  <2>2. \A x \in Procs : Running(x) => x = p
    BY <1>1 DEF At, Running
  <2> QED BY <1>1, <2>1, <2>2 DEF Seen, Alerted, WInv, Looked, At
<1> QED BY <1>1, <1>6, <1>7, <1>8, <1>9, RouseProc

\* A process with a SIGCHLD to find finds it in issig(), or a signal to discard.
LEMMA IssigTold ==
  ASSUME IInv, Tidy(kern), NEW p \in Procs, ChildNews(kern, p), ctx[p] = "sleep1",
         IssigSend(p) \/ IssigContinue(p) \/ IssigKill(p) \/ IssigStop(p)
  PROVE  Waiting(kern', ret', p) => Alerted(p)'
<1> DEFINE sig == NextSig(kern, p)
           k == Take(kern, p)
           ku == Unsleep(k, p)
<1>1. /\ At(p, "issig") /\ SigBits(kern, p) # {}
      /\ UNCHANGED <<ctx, ret, cur, noproc>>
  BY DEF IssigSend, IssigContinue, IssigKill, IssigStop
<1>2. kern \in Kern /\ p \in All
  BY DEF IInv, TypeOK, All
<1>3. sig \in Sig /\ sig \in SigBits(kern, p)
  BY <1>1, <1>2, NextSigSig
<1>4. /\ k \in Kern /\ k.p_sig[p] = kern.p_sig[p] \ {sig}
  <2> DEFINE f == Forget(kern, p, sig)
  <2>1. f \in Kern /\ f.p_sig[p] = kern.p_sig[p] \ {sig}
    BY <1>2, <1>3, ForgetFacts
  <2>2. k = [f EXCEPT !.p_cursig[p] = sig]
    BY DEF Take
  <2> HIDE DEF f, sig
  <2>3. sig \in Sig \cup {NoSig}
    BY <1>3
  <2> HIDE DEF k
  <2>4. Rouses(f, k) /\ k.p_sig = f.p_sig
    <3>1. Rouses(f, k)
      BY <1>2, <2>1, <2>2, <2>3, CursigRouses
    <3>2. k.p_sig = f.p_sig
      BY <2>1, <2>2 DEF Kern
    <3> QED BY <3>1, <3>2
  <2> QED BY <2>1, <2>4 DEF Rouses
<1>5. sig \in Caught[p] \/ sig \notin StopSig
  <2>1. kern.p_sig[p] \cap StopSig \subseteq Posted[p] \cup IntrSigs[p]
    BY <1>2 DEF Tidy, SigAt
  <2> QED BY <1>3, <2>1 DEF ChildNews, Steady, SigBits
<1>6. SIGCHLD \in Caught[p]
  BY DEF ChildNews, Steady
<1> HIDE DEF k
<1>7. CASE IssigSend(p)
  <2>1. kern' = [ku EXCEPT !.p_stat[p] = "SRUN"]
    BY <1>7 DEF IssigSend, k
  <2>2. ku = [k EXCEPT !.p_wchan[p] = NoChan] /\ ku \in Kern
    BY <1>2, <1>4, UnsleepRouses DEF Unsleep, Rouses
  <2>3. kern'.p_wchan = [k.p_wchan EXCEPT ![p] = NoChan]
    BY <1>4, <2>1, <2>2 DEF Kern
  <2>4. kern'.p_wchan[p] = NoChan
    BY <1>2, <1>4, <2>3, KernTypes
  <2>5. ChanOf[p] # NoChan
    BY <1>2, ChanAssumption DEF AllChan
  <2> QED BY <2>4, <2>5 DEF Waiting
<1>8. CASE IssigContinue(p)
  <2>1. kern' = k /\ pc' = pc /\ sig # SIGCHLD
    BY <1>6, <1>8 DEF IssigContinue, Disposition, k
  <2> QED BY <1>1, <1>4, <2>1 DEF Alerted, ChildNews, At, Running
<1>9. ~IssigKill(p) /\ ~IssigStop(p)
  BY <1>5 DEF IssigKill, IssigStop, Disposition
<1> QED BY <1>7, <1>8, <1>9

\* issig() takes a signal and returns it, discards it, decides to stop, or
\* kills a child of init.
LEMMA IssigTakeLooked ==
  ASSUME IInv, Tidy(kern), WInv, NEW p \in Procs,
         IssigSend(p) \/ IssigContinue(p) \/ IssigKill(p) \/ IssigStop(p)
  PROVE  WInv'
<1> DEFINE k == Take(kern, p)
           ku == Unsleep(k, p)
           kr == [ku EXCEPT !.p_stat[p] = "SRUN"]
           kk == PsignalPlain(k, p, SIGKILL)
<1>1. /\ At(p, "issig") /\ SigBits(kern, p) # {} /\ ret' = ret
      /\ kern' \in {k, kr, kk}
  BY DEF IssigSend, IssigContinue, IssigKill, IssigStop
<1>a. "issig" \notin {"swtch", "exit1"}
  OBVIOUS
<1>2. /\ kern \in Kern /\ p \in All /\ kern.p_stat[p] = "SRUN"
      /\ pc \in [All -> PC] /\ pc[p] = "issig"
  BY <1>1, <1>a, AtFacts
<1>3. Rouses(kern, k) /\ k.p_stat = kern.p_stat
  BY <1>1, <1>2, TakeRouses
<1> HIDE DEF k
<1>4. k \in Kern /\ SIGKILL \in Sig
  BY <1>3 DEF Rouses, Sig
<1>5. Rouses(k, ku) /\ ku.p_stat = k.p_stat
  BY <1>2, <1>4, UnsleepRouses, UnsleepBland
<1>6. Rouses(k, kk)
  BY <1>2, <1>4, PsignalPlainRouses
<1> HIDE DEF ku, kk
<1>7. ku \in Kern /\ ku.p_stat[p] \notin {"free", "SZOMB"}
  BY <1>2, <1>3, <1>5 DEF Rouses
<1>8. Rouses(ku, kr)
  BY <1>2, <1>7, StatRouses
<1> HIDE DEF kr
<1>9. Rouses(k, kr)
  BY <1>5, <1>8, RousesTrans
<1>10. Rouses(kern, kern')
  BY <1>1, <1>3, <1>6, <1>9, RousesTrans
<1>11. \A x \in Procs \ {p} : pc'[x] = pc[x]
  BY <1>2 DEF IssigSend, IssigContinue, IssigKill, IssigStop, Goto, All
<1>12. pc'[p] \notin {"zombie", "exit1", "waitsleep"}
  BY <1>2 DEF IssigSend, IssigContinue, IssigKill, IssigStop, Goto
<1>13. CASE Seen
  BY <1>1, <1>10, <1>11, <1>12, <1>13, RouseProc
<1>14. CASE ChildNews(kern, p) /\ ctx[p] = "sleep1"
  <2>1. Waiting(kern', ret', p) => Alerted(p)'
    BY <1>14, IssigTold
  <2>2. \A x \in Procs : Running(x) => x = p
    BY <1>1 DEF At, Running
  <2>3. NoPanic => \A x \in Procs : Waiting(kern, ret, x) =>
                     \/ Nothing(kern, pc, x)
                     \/ Waiting(kern', ret', x) => Alerted(x)'
    BY <2>1, <2>2 DEF WInv, Looked, Alerted
  <2>4. \A x \in Procs : pc'[x] # "waitsleep"
    BY <1>1, <1>2, <1>11, <1>12, OnlyRunning
  <2>5. Notifies(kern, kern')
    BY <1>10, RousesNotifies
  <2>6. \A x \in Procs : \/ pc'[x] = pc[x]
                         \/ pc'[x] \notin {"zombie", "exit1", "waitsleep"}
    BY <1>11, <1>12
  <2> QED BY <1>1, <1>2, <2>3, <2>4, <2>5, <2>6, TellStep
<1>15. Seen \/ (ChildNews(kern, p) /\ ctx[p] = "sleep1")
  BY <1>1 DEF Seen, WInv, Looked, Alerted, At, Running
<1> QED BY <1>13, <1>14, <1>15

\* issig() tells the parent, and stops.
LEMMA StopSelfLooked ==
  ASSUME IInv, WInv, NEW p \in Procs, TellParent(p) \/ StopSelf(p)
  PROVE  WInv'
<1>1. kern \in Kern /\ pc \in [All -> PC] /\ p \in All
  BY DEF IInv, TypeOK, All
<1>2. CASE TellParent(p)
  <2>1. At(p, "chld") /\ kern' = PsignalPlain(kern, kern.p_pptr[p], SIGCHLD)
        /\ pc' = [pc EXCEPT ![p] = "stop"] /\ ret' = ret
    BY <1>2 DEF TellParent, Goto
  <2>2. kern.p_pptr[p] \in All /\ SIGCHLD \in Sig
    BY <1>1, KernTypes DEF Sig
  <2>3. Rouses(kern, kern')
    BY <1>1, <2>1, <2>2, PsignalPlainRouses
  <2>4. pc'[p] = "stop" /\ \A x \in Procs \ {p} : pc'[x] = pc[x]
    BY <1>1, <2>1 DEF All
  <2>5. Seen
    BY <1>1, <2>1, AtSeen
  <2> QED BY <2>1, <2>3, <2>4, <2>5, RouseProc
<1>3. CASE StopSelf(p)
  <2>1. At(p, "stop") /\ kern' = Stop(kern, p)
        /\ pc' = [pc EXCEPT ![p] = "swtch"] /\ ret' = ret
    BY <1>3 DEF StopSelf, Goto
  <2>a. "stop" \notin {"swtch", "exit1"}
    OBVIOUS
  <2>2. kern.p_stat[p] = "SRUN"
    BY <2>1, <2>a, AtFacts
  <2>3. Notifies(kern, kern')
    BY <1>1, <2>1, <2>2, StopNotifies
  <2>4. pc'[p] = "swtch" /\ \A x \in Procs \ {p} : pc'[x] = pc[x]
    BY <1>1, <2>1 DEF All
  <2>5. Seen
    BY <1>1, <2>1, AtSeen
  <2> QED BY <2>1, <2>3, <2>4, <2>5, TellProc
<1> QED BY <1>2, <1>3

\* psig().
LEMMA PsigLooked ==
  ASSUME IInv, WInv, NEW p \in Procs, Psig(p)
  PROVE  WInv'
<1> DEFINE k == [kern EXCEPT !.p_cursig[p] = NoSig]
<1>1. /\ At(p, "psig") /\ ret' = ret
      /\ kern' \in {Panic(kern, "psig"), Panic(kern, "psig action"), k, kern}
  BY DEF Psig
<1>2. kern \in Kern /\ pc \in [All -> PC] /\ p \in All /\ pc[p] = "psig"
  BY <1>1 DEF IInv, TypeOK, All, At
<1>3. Rouses(kern, k) /\ Rouses(kern, kern)
  BY <1>2, CursigRouses, RousesRefl
<1> HIDE DEF k
<1>4. /\ Rouses(kern, Panic(kern, "psig"))
      /\ Rouses(kern, Panic(kern, "psig action"))
  BY <1>2, PanicRouses DEF Why
<1>5. Rouses(kern, kern')
  BY <1>1, <1>3, <1>4
<1>6. \A x \in Procs \ {p} : pc'[x] = pc[x]
  BY <1>2 DEF Psig, Goto, All
<1>7. pc'[p] \notin {"zombie", "exit1", "waitsleep"}
  BY <1>2 DEF Psig, Goto
<1>8. Seen
  BY <1>1, <1>2, AtSeen
<1> QED BY <1>1, <1>5, <1>6, <1>7, <1>8, RouseProc

\* The trap exit.
LEMMA RestLooked ==
  ASSUME IInv, WInv, NEW p \in Procs, Rest(p)
  PROVE  WInv'
<1>1. PICK usrpri \in UserPri :
        kern' \in {[kern EXCEPT !.p_pri[p] = usrpri],
                   Setrq([kern EXCEPT !.p_pri[p] = usrpri], p)}
  BY DEF Rest
<1> DEFINE k == [kern EXCEPT !.p_pri[p] = usrpri]
<1>2. /\ kern \in Kern /\ pc \in [All -> PC] /\ p \in All
      /\ usrpri \in Pri
  BY ChanAssumption DEF IInv, TypeOK, All, Pri
<1>3. Rouses(kern, k) /\ kern' \in {k, Setrq(k, p)}
  BY <1>1, <1>2, PriRouses
<1> HIDE DEF k
<1>4. k \in Kern
  BY <1>3 DEF Rouses
<1>5. Rouses(k, Setrq(k, p))
  BY <1>2, <1>4, SetrqRouses
<1>6. Rouses(kern, kern')
  BY <1>3, <1>5, RousesTrans
<1>7. At(p, "rest") /\ pc' = [pc EXCEPT ![p] = "run"] /\ ret' = ret
  BY DEF Rest, Goto
<1>8. pc'[p] = "run" /\ \A x \in Procs \ {p} : pc'[x] = pc[x]
  BY <1>2, <1>7 DEF All
<1>9. Seen
  BY <1>2, <1>7, AtSeen
<1> QED BY <1>6, <1>7, <1>8, <1>9, RouseProc

\* The child joins its run queue.
LEMMA ProcdupLooked ==
  ASSUME IInv, WInv, NEW p \in Procs, Procdup(p)
  PROVE  WInv'
<1>1. PICK q \in Procs :
        /\ kern.p_stat[q] = "SIDL"
        /\ kern' = Setrq([kern EXCEPT !.p_stat[q] = "SRUN"], q)
  BY DEF Procdup
<1> DEFINE k == [kern EXCEPT !.p_stat[q] = "SRUN"]
<1>2. kern \in Kern /\ pc \in [All -> PC] /\ p \in All /\ q \in All
  BY DEF IInv, TypeOK, All
<1>3. Rouses(kern, k) /\ kern' = Setrq(k, q)
  BY <1>1, <1>2, StatRouses
<1> HIDE DEF k
<1>4. k \in Kern
  BY <1>3 DEF Rouses
<1>5. Rouses(k, kern')
  BY <1>2, <1>3, <1>4, SetrqRouses
<1>6. Rouses(kern, kern')
  BY <1>3, <1>5, RousesTrans
<1>7. At(p, "procdup") /\ pc' = [pc EXCEPT ![p] = "run"] /\ ret' = ret
  BY DEF Procdup, Goto
<1>8. pc'[p] = "run" /\ \A x \in Procs \ {p} : pc'[x] = pc[x]
  BY <1>2, <1>7 DEF All
<1>9. Seen
  BY <1>2, <1>7, AtSeen
<1> QED BY <1>6, <1>7, <1>8, <1>9, RouseProc

\* wait1() reports a stopped child.
LEMMA WaitStoppedLooked ==
  ASSUME IInv, WInv, NEW p \in Procs, WaitStopped(p)
  PROVE  WInv'
<1>1. PICK q \in Procs : kern' = [kern EXCEPT !.swted = @ \cup {q}]
  BY DEF WaitStopped, Unreported, Children
<1>2. kern \in Kern /\ pc \in [All -> PC] /\ p \in All /\ q \in All
  BY DEF IInv, TypeOK, All
<1>3. /\ kern' \in Kern /\ kern'.p_pptr = kern.p_pptr
      /\ kern'.p_stat = kern.p_stat /\ kern'.p_wchan = kern.p_wchan
      /\ kern'.swted = kern.swted \cup {q} /\ kern'.panicstr = kern.panicstr
  BY <1>1, <1>2 DEF Kern
<1>4. Rouses(kern, kern')
  BY <1>3 DEF Rouses
<1>5. At(p, "wait") /\ pc' = [pc EXCEPT ![p] = "run"] /\ ret' = ret
  BY DEF WaitStopped, Goto
<1>6. pc'[p] = "run" /\ \A x \in Procs \ {p} : pc'[x] = pc[x]
  BY <1>2, <1>5 DEF All
<1>7. Seen
  BY <1>2, <1>5, AtSeen
<1> QED BY <1>4, <1>5, <1>6, <1>7, RouseProc

\* kill().
LEMMA KillLooked ==
  ASSUME IInv, WInv, NEW p \in Procs, Kill(p)
  PROVE  WInv'
<1>1. PICK q \in Procs : \E sig \in Posted[q] : kern' = Psignal(kern, q, sig)
  BY DEF Kill
<1>2. PICK sig \in Posted[q] : kern' = Psignal(kern, q, sig)
  BY <1>1
<1>3. sig \in Sig /\ kern \in Kern /\ kern.p_pptr[q] # q
  BY SignalAssumption DEF IInv, TypeOK, Ctl, KernCtl
<1>4. Notifies(kern, kern')
  BY <1>2, <1>3, PsignalNotifies
<1>5. At(p, "run") /\ pc' = pc /\ ret' = ret
  BY DEF Kill
<1>6. pc'[p] = "run"
  BY <1>5 DEF At
<1>7. Seen
  BY <1>5, AtSeen DEF All
<1> QED BY <1>4, <1>5, <1>6, <1>7, TellProc

\* A step of p, after which it neither exits nor comes to its wait: what is to
\* be shown is that those who wait have nothing to wait for, or are told.
LEMMA QuietProc ==
  ASSUME IInv, WInv, NEW p \in Procs, NEW from, At(p, from),
         \A x \in Procs \ {p} : pc'[x] \in {pc[x], "run"},
         pc'[p] \notin {"exit1", "waitsleep"}, Corpses',
         NoPanic' => \A x \in Procs : Waiting(kern', ret', x) =>
                                        Nothing(kern', pc', x) \/ Alerted(x)'
  PROVE  WInv'
<1>1. \A x \in Procs : pc'[x] \notin {"exit1", "waitsleep"}
  BY OnlyRunning DEF All
<1>2. NoPanic' => Looked'
  BY <1>1 DEF Looked
<1> QED BY <1>2 DEF WInv

\* sleep() up to its switch.
LEMMA SleepCallLooked ==
  ASSUME IInv, WInv, NEW p \in Procs, NEW from \in {"run", "waitsleep"},
         At(p, from), NEW chan \in Chan, NEW pri \in Pri,
         NEW back \in {"run", "wait"}, SleepCall(p, chan, pri, back),
         back = "wait" =>
           Nothing(kern, pc, p) \/ (ChildNews(kern, p) /\ pri > PZERO)
  PROVE  WInv'
<1> DEFINE k == EnterSleep(kern, p, chan, pri)
           ke == [kern EXCEPT !.p_wchan[p] = chan, !.p_pri[p] = pri]
           k2 == [k EXCEPT !.p_stat[p] = "SSLEEP"]
<1>a. from \notin {"swtch", "exit1"}
  OBVIOUS
<1>1. /\ kern \in Kern /\ p \in All /\ kern.p_stat[p] = "SRUN"
      /\ pc \in [All -> PC] /\ ret \in [All -> {"run", "wait"}]
  BY <1>a, AtFacts
<1>2. kern' \in {k, k2} /\ ret' = [ret EXCEPT ![p] = back]
  BY DEF SleepCall
<1>3. /\ \A x \in Procs \ {p} : pc'[x] = pc[x]
      /\ pc'[p] \in {"issig", "woken", "run", "wait"}
  BY <1>1 DEF SleepCall, Goto, All
<1>4. k = Panic(kern, "sleep") \/ k = ke
  BY DEF EnterSleep
<1>5. /\ k.p_pptr = kern.p_pptr /\ k.p_stat = kern.p_stat
      /\ k.swted = kern.swted
      /\ k.panicstr = "" =>
           /\ kern.panicstr = ""
           /\ k.p_wchan = [kern.p_wchan EXCEPT ![p] = chan]
  <2>1. CASE k = Panic(kern, "sleep")
    <3>1. k.panicstr # ""
      BY <1>1, <2>1, PanicBland DEF Why
    <3>2. k.p_pptr = kern.p_pptr /\ k.p_stat = kern.p_stat
          /\ k.swted = kern.swted
      BY <2>1, <1>1 DEF Panic, Kern
    <3> QED BY <3>1, <3>2
  <2>2. CASE k = ke
    BY <2>2, <1>1 DEF Kern
  <2> QED BY <1>4, <2>1, <2>2
<1>b. k \in Kern
  <2>1. Bland(kern, k)
    BY <1>1, EnterSleepBland
  <2> QED BY <2>1 DEF Bland, Mute
<1> HIDE DEF k, ke
<1>6. /\ k2.p_pptr = k.p_pptr /\ k2.p_wchan = k.p_wchan
      /\ k2.swted = k.swted /\ k2.panicstr = k.panicstr
      /\ k2.p_stat = [k.p_stat EXCEPT ![p] = "SSLEEP"]
  BY <1>b DEF Kern
<1> HIDE DEF k2
<1>7. /\ kern'.p_pptr = kern.p_pptr /\ kern'.swted = kern.swted
      /\ kern'.p_stat[p] \in {"SRUN", "SSLEEP"}
      /\ \A x \in Procs \ {p} : kern'.p_stat[x] = kern.p_stat[x]
  <2>1. k2.p_stat[p] = "SSLEEP"
        /\ \A x \in Procs \ {p} : k2.p_stat[x] = kern.p_stat[x]
    BY <1>1, <1>5, <1>6, KernTypes DEF All
  <2> QED BY <1>1, <1>2, <1>5, <1>6, <2>1
<1>8. NoPanic' =>
        /\ NoPanic
        /\ \A x \in Procs \ {p} : kern'.p_wchan[x] = kern.p_wchan[x]
  <2>1. kern'.panicstr = k.panicstr /\ kern'.p_wchan = k.p_wchan
    BY <1>2, <1>6
  <2> QED BY <1>1, <1>5, <2>1, KernTypes DEF NoPanic, All
<1>9. ret'[p] = back /\ \A x \in Procs \ {p} : ret'[x] = ret[x]
  BY <1>1, <1>2 DEF All
<1>10. Corpses'
  BY <1>3, <1>7 DEF WInv, Corpses
<1>12. Seen
  BY <1>1, AtSeen
<1>13. CASE back = "wait" /\ ChildNews(kern, p) /\ pri > PZERO
  <2>1. SigBits(kern, p) # {}
    BY <1>13 DEF ChildNews, Steady, SigBits
  <2>2. /\ kern' = k /\ pc'[p] = "issig" /\ ctx'[p] = "sleep1"
        /\ cur' = cur /\ noproc' = noproc
    BY <1>1, <1>13, <2>1 DEF SleepCall, Goto, k, IInv, TypeOK
  <2>3. k.p_sig = kern.p_sig
    BY <1>1, EnterSleepBland DEF Bland, Mute, k
  <2>4. Alerted(p)'
    BY <1>13, <2>2, <2>3 DEF Alerted, ChildNews, At, Running
  <2>5. ASSUME NoPanic', NEW x \in Procs \ {p}, Waiting(kern', ret', x)
        PROVE  Nothing(kern', pc', x)
    <3>1. Nothing(kern, pc, x)
      BY <1>8, <1>9, <1>12, <2>5 DEF Waiting, Seen
    <3>2. \A q \in Children(kern', x) :
            pc'[q] # "zombie" /\ ~Halted(kern', q)
      BY <1>1, <1>3, <1>7, <3>1 DEF Nothing, Children, Halted
    <3> QED BY <3>2 DEF Nothing
  <2>6. NoPanic' => \A x \in Procs : Waiting(kern', ret', x) =>
                                       Nothing(kern', pc', x) \/ Alerted(x)'
    BY <2>4, <2>5
  <2>7. \A x \in Procs \ {p} : pc'[x] \in {pc[x], "run"}
    BY <1>3
  <2>8. pc'[p] \notin {"exit1", "waitsleep"}
    BY <1>3
  <2> QED BY <1>10, <2>6, <2>7, <2>8, QuietProc
<1>11. ASSUME back = "wait" => Nothing(kern, pc, p), NoPanic',
              NEW x \in Procs, Waiting(kern', ret', x)
       PROVE  Nothing(kern', pc', x)
  <2>1. Nothing(kern, pc, x)
    <3>1. CASE x = p
      BY <1>9, <1>11, <3>1 DEF Waiting
    <3>2. CASE x # p
      BY <1>8, <1>9, <1>11, <1>12, <3>2 DEF Waiting, Seen
    <3> QED BY <3>1, <3>2
  <2>2. SUFFICES ASSUME NEW q \in Children(kern', x)
                 PROVE  pc'[q] # "zombie" /\ ~Halted(kern', q)
    BY DEF Nothing
  <2>3. q \in Children(kern, x) /\ q \in Procs
    BY <1>1, <1>7 DEF Children
  <2>4. CASE q = p
    BY <1>3, <1>7, <2>4 DEF Halted
  <2>5. CASE q # p
    BY <1>3, <1>7, <2>1, <2>3, <2>5 DEF Halted, Nothing
  <2> QED BY <2>4, <2>5
<1>14. CASE back = "wait" => Nothing(kern, pc, p)
  <2>1. \A x \in Procs \ {p} : pc'[x] \in {pc[x], "run"}
    BY <1>3
  <2>2. pc'[p] \notin {"exit1", "waitsleep"}
    BY <1>3
  <2>3. NoPanic' => \A x \in Procs : Waiting(kern', ret', x) =>
                                       Nothing(kern', pc', x) \/ Alerted(x)'
    BY <1>11, <1>14
  <2> QED BY <1>10, <2>1, <2>2, <2>3, QuietProc
<1> QED BY <1>13, <1>14

\* The two callers of sleep().
LEMMA SleepLooked ==
  ASSUME IInv, WInv, NEW p \in Procs, Sleep(p) \/ WaitSleep(p)
  PROVE  WInv'
<1>1. PZERO \in Pri /\ PWAIT \in Pri
  BY DEF Pri
<1>2. CASE Sleep(p)
  <2>1. PICK arg \in SleepsOn[p] : SleepCall(p, arg[1], arg[2], "run")
    BY <1>2 DEF Sleep
  <2>2. SleepsOn[p] \in SUBSET (Chan \X {PZERO, PWAIT})
    BY ChanAssumption
  <2>3. arg[1] \in Chan /\ arg[2] \in Pri /\ At(p, "run")
    BY <1>1, <1>2, <2>2 DEF Sleep
  <2> QED BY <2>1, <2>3, SleepCallLooked
<1>3. CASE WaitSleep(p)
  <2>1. SleepCall(p, ChanOf[p], PWAIT, "wait") /\ At(p, "waitsleep")
    BY <1>3 DEF WaitSleep
  <2>2. ChanOf[p] \in Chan
    BY ChanAssumption DEF All
  <2>3. Nothing(kern, pc, p) \/ (ChildNews(kern, p) /\ PWAIT > PZERO)
    BY <2>1 DEF WInv, Looked, At, PWAIT, PZERO
  <2> QED BY <1>1, <2>1, <2>2, <2>3, SleepCallLooked
<1> QED BY <1>2, <1>3

\* wait1() finds nothing.
LEMMA WaitNoneLooked ==
  ASSUME IInv, WInv, NEW p \in Procs, WaitNone(p)
  PROVE  WInv'
<1>1. /\ At(p, "wait") /\ kern' = kern /\ ret' = ret
      /\ cur' = cur /\ noproc' = noproc
      /\ \A q \in Children(kern, p) : kern.p_stat[q] # "SZOMB"
      /\ Unreported(kern, p) = {}
  BY DEF WaitNone
<1>2. p \in All /\ pc \in [All -> PC] /\ Running(p) /\ pc[p] = "wait"
      /\ kern \in Kern /\ NoPanic
  BY <1>1 DEF IInv, TypeOK, All, At
<1>3. /\ \A x \in Procs \ {p} : pc'[x] = pc[x]
      /\ pc'[p] \in {"run", "waitsleep"}
  BY <1>2 DEF WaitNone, Goto, All
<1>4. Nothing(kern, pc, p)
  <2>1. SUFFICES ASSUME NEW q \in Children(kern, p)
                 PROVE  pc[q] # "zombie" /\ ~Halted(kern, q)
    BY DEF Nothing
  <2>2. q \in Procs /\ kern.p_stat[q] \notin {"free", "SZOMB"}
    BY <1>1 DEF Children
  <2>3. pc[q] # "zombie"
    BY <2>2 DEF WInv, Corpses
  <2>4. ~Halted(kern, q)
    BY <1>1 DEF Unreported, Halted
  <2> QED BY <2>3, <2>4
<1>5. \A x \in Procs : Nothing(kern, pc, x) => Nothing(kern', pc', x)
  BY <1>1, <1>3 DEF Nothing, Children
<1>6. Corpses'
  BY <1>1, <1>3 DEF WInv, Corpses
<1>7. \A x \in Procs \ {p} : pc'[x] \notin {"waitsleep", "exit1"}
  BY <1>1, <1>3, OnlyRunning DEF All
<1>11. Seen
  BY <1>1, <1>2, AtSeen
<1>8. \A x \in Procs : Waiting(kern', ret', x) => Nothing(kern', pc', x)
  BY <1>1, <1>5, <1>11 DEF Seen
<1>9. Running(p)' /\ Nothing(kern', pc', p)
  BY <1>1, <1>2, <1>4, <1>5 DEF Running
<1>10. Looked'
  BY <1>3, <1>7, <1>8, <1>9 DEF Looked
<1> QED BY <1>6, <1>10 DEF WInv

\* exit() as far as its zombie: init is woken if it is to inherit.
LEMMA ExitLooked ==
  ASSUME IInv, WInv, NEW p \in Procs, Exit(p)
  PROVE  WInv'
<1> DEFINE k == [kern EXCEPT !.p_stat[p] = "SZOMB"]
           chan == ChanOf[InitProc]
           k2 == Wakeup(k, chan)
<1>1. /\ At(p, "exit") /\ ret' = ret
      /\ \/ kern' = Panic(k, "init died")
         \/ Children(k, p) = {} /\ kern' = k
         \/ kern' = k2
  BY DEF Exit
<1>a. "exit" \notin {"swtch", "exit1"}
  OBVIOUS
<1>2. /\ kern \in Kern /\ p \in All /\ kern.p_stat[p] = "SRUN"
      /\ pc \in [All -> PC]
  BY <1>1, <1>a, AtFacts
<1>3. chan \in AllChan /\ InitProc \in Procs
      /\ \A x \in Procs : ChanOf[x] # NoChan
  BY ProcsAssumption, ChanAssumption DEF All, AllChan
<1>4. pc'[p] = "exit1" /\ \A x \in Procs \ {p} : pc'[x] = pc[x]
  BY <1>2 DEF Exit, Goto, All
<1>5. /\ k \in Kern /\ k.p_pptr = kern.p_pptr /\ k.p_wchan = kern.p_wchan
      /\ k.swted = kern.swted /\ k.panicstr = kern.panicstr
      /\ k.p_stat = [kern.p_stat EXCEPT ![p] = "SZOMB"]
  BY <1>2 DEF Kern, Stat
<1>6. \A x \in All : k.p_stat[x] = IF x = p THEN "SZOMB" ELSE kern.p_stat[x]
  BY <1>2, <1>5, KernTypes
<1> HIDE DEF k
<1>b. chan = ChanOf[InitProc]
  OBVIOUS
<1> HIDE DEF chan
<1>c. k \in Kern /\ chan \in AllChan
  BY <1>3, <1>5
<1>7. /\ Rouses(k, k2)
      /\ k2.panicstr = "" => \A x \in Procs : k2.p_wchan[x] # chan
  BY <1>c, WakeupRouses
<1> HIDE DEF k2
<1>8. Rouses(k, Panic(k, "init died")) /\ Panic(k, "init died").panicstr # ""
  BY <1>5, PanicRouses, PanicBland DEF Why
<1>9. Rouses(k, kern')
  BY <1>1, <1>5, <1>7, <1>8, RousesRefl
<1>10. Corpses'
  BY <1>4, <1>6, <1>9 DEF WInv, Corpses, Rouses, All
<1>11. ASSUME NoPanic'
       PROVE  Looked'
  <2>1. Seen /\ kern'.panicstr = ""
    BY <1>1, <1>2, <1>5, <1>9, <1>11, AtSeen DEF NoPanic, Rouses
  <2>2. \A x \in Procs : Waiting(kern', ret', x) => Waiting(kern, ret, x)
    BY <1>1, <1>3, <1>5, <1>9 DEF Waiting, Rouses
  <2>3. ASSUME NEW x \in Procs, Waiting(kern', ret', x)
        PROVE  Nothing(kern', pc', x)
    <3>1. SUFFICES ASSUME NEW q \in Children(kern', x)
                   PROVE  pc'[q] # "zombie" /\ ~Halted(kern', q)
      BY DEF Nothing
    <3>2. q \in Procs /\ q \in Children(kern, x)
      BY <1>2, <1>5, <1>6, <1>9 DEF Children, Rouses, All
    <3>3. pc[q] # "zombie" /\ ~Halted(kern, q)
      BY <2>1, <2>2, <2>3, <3>2 DEF Seen, Nothing
    <3>4. ~Halted(k, q)
      BY <1>5, <1>6, <3>2, <3>3 DEF Halted, All
    <3>5. ~Halted(kern', q)
      BY <1>9, <3>2, <3>4, RousesNotifies
    <3> QED BY <1>4, <3>2, <3>3, <3>5
  <2>4. \A x \in Procs : pc'[x] # "waitsleep"
    BY <1>1, <1>2, <1>4, OnlyRunning
  <2>5. ASSUME NEW x \in Procs, pc'[x] = "exit1", Children(kern', x) # {}
        PROVE  ~Waiting(kern', ret', InitProc)
    <3>1. x = p
      BY <1>1, <1>2, <1>4, <2>5, OnlyRunning
    <3>5. /\ kern'.p_pptr = k.p_pptr
          /\ \A y \in Procs : kern'.p_stat[y] # "free" => k.p_stat[y] # "free"
      BY <1>9 DEF Rouses
    <3>6. Children(kern', p) # {}
      BY <2>5, <3>1
    <3>2. Children(k, p) # {}
      <4> HIDE DEF Children
      <4>1. Children(kern', p) \subseteq Children(k, p)
        BY <3>5 DEF Children
      <4> QED BY <3>6, <4>1
    <3>3. kern' = k2
      BY <1>1, <1>8, <2>1, <3>2
    <3>4. kern'.p_wchan[InitProc] # chan
      BY <1>3, <1>7, <2>1, <3>3
    <3> QED BY <1>b, <3>4 DEF Waiting
  <2> QED BY <2>3, <2>4, <2>5 DEF Looked
<1> QED BY <1>10, <1>11 DEF WInv

\* The end of exit(): the parent is not asleep in wait1() after it.
LEMMA ExitSwtchLooked ==
  ASSUME IInv, WInv, NEW p \in Procs, ExitSwtch(p)
  PROVE  WInv'
<1> DEFINE parent == kern.p_pptr[p]
           k == PsignalPlain(kern, parent, SIGCHLD)
           chan == ChanOf[parent]
<1>1. At(p, "exit1") /\ ret' = ret /\ kern' = Wakeup(k, chan)
  BY DEF ExitSwtch
<1>2. /\ kern \in Kern /\ p \in All /\ kern.p_stat[p] = "SZOMB"
      /\ pc \in [All -> PC] /\ NoPanic
  BY <1>1, AtFacts DEF At
<1>3. /\ parent \in All /\ chan \in AllChan /\ SIGCHLD \in Sig
      /\ \A x \in Procs : ChanOf[x] # NoChan
  BY <1>2, KernTypes, ChanAssumption DEF All, AllChan, Sig
<1>4. pc'[p] = "zombie" /\ \A x \in Procs \ {p} : pc'[x] = pc[x]
  BY <1>2 DEF ExitSwtch, Goto, All
<1>b. chan = ChanOf[parent] /\ parent = kern.p_pptr[p]
  OBVIOUS
<1> HIDE DEF chan, parent
<1>5. Rouses(kern, k)
  BY <1>2, <1>3, PsignalPlainRouses
<1> HIDE DEF k
<1>6. k \in Kern
  BY <1>5 DEF Rouses
<1>7. /\ Rouses(k, kern')
      /\ kern'.panicstr = "" => \A x \in Procs : kern'.p_wchan[x] # chan
  BY <1>1, <1>3, <1>6, WakeupRouses
<1>8. Rouses(kern, kern')
  BY <1>5, <1>7, RousesTrans
<1>9. Corpses'
  BY <1>2, <1>4, <1>8 DEF WInv, Corpses, Rouses
<1>10. ASSUME NoPanic', NEW x \in Procs, Waiting(kern', ret', x)
       PROVE  Nothing(kern', pc', x)
  <2>1. SUFFICES ASSUME NEW q \in Children(kern', x)
                 PROVE  pc'[q] # "zombie" /\ ~Halted(kern', q)
    BY DEF Nothing
  <2>2. Waiting(kern, ret, x)
    BY <1>1, <1>3, <1>8, <1>10 DEF Waiting, Rouses
  <2>3. q \in Procs /\ q \in Children(kern, x) /\ kern.p_pptr[q] = x
    BY <1>8 DEF Children, Rouses
  <2>a. Seen
    BY <1>1, <1>2, AtSeen
  <2>4. pc[q] # "zombie" /\ ~Halted(kern, q)
    BY <2>2, <2>3, <2>a DEF Seen, Nothing
  <2>5. ~Halted(kern', q)
    BY <1>8, <2>3, <2>4, RousesNotifies
  <2>6. q # p
    BY <1>7, <1>10, <1>b, <2>3 DEF Waiting, NoPanic
  <2> QED BY <1>4, <2>3, <2>4, <2>5, <2>6
<1>11. \A x \in Procs \ {p} : pc'[x] \in {pc[x], "run"}
  BY <1>4
<1>12. pc'[p] \notin {"exit1", "waitsleep"}
  BY <1>4
<1> QED BY <1>1, <1>9, <1>10, <1>11, <1>12, QuietProc

\* fork(): a child being made has nothing to report.
LEMMA ForkLooked ==
  ASSUME IInv, WInv, NEW p \in Procs, Fork(p)
  PROVE  WInv'
<1>1. PICK q \in Procs :
        /\ kern.p_stat[q] = "free"
        /\ kern' = [kern EXCEPT !.p_stat[q] = "SIDL", !.p_pptr[q] = p,
                                !.p_wchan[q] = NoChan,
                                !.sload = @ \cup {q}, !.swted = @ \ {q}]
        /\ pc' = [pc EXCEPT ![p] = "procdup", ![q] = "run"]
  BY DEF Fork
<1>2. At(p, "run") /\ ret' = ret
  BY DEF Fork
<1>a. "run" \notin {"swtch", "exit1"}
  OBVIOUS
<1>3. /\ kern \in Kern /\ p \in All /\ kern.p_stat[p] = "SRUN"
      /\ pc \in [All -> PC] /\ q \in All
  BY <1>2, <1>a, AtFacts DEF All
<1>4. /\ kern'.p_pptr = [kern.p_pptr EXCEPT ![q] = p]
      /\ kern'.p_stat = [kern.p_stat EXCEPT ![q] = "SIDL"]
      /\ kern'.p_wchan = [kern.p_wchan EXCEPT ![q] = NoChan]
      /\ kern'.swted = kern.swted \ {q} /\ kern'.panicstr = kern.panicstr
  BY <1>1, <1>3 DEF Kern
<1>5. /\ kern'.p_stat[q] = "SIDL" /\ kern'.p_wchan[q] = NoChan
      /\ \A x \in Procs \ {q} :
           /\ kern'.p_stat[x] = kern.p_stat[x]
           /\ kern'.p_wchan[x] = kern.p_wchan[x]
           /\ kern'.p_pptr[x] = kern.p_pptr[x]
  BY <1>3, <1>4, KernTypes DEF All
<1>6. /\ p # q /\ pc'[p] = "procdup" /\ pc'[q] = "run"
      /\ \A x \in Procs \ {p, q} : pc'[x] = pc[x]
  BY <1>1, <1>3 DEF All
<1>7. Corpses'
  BY <1>5, <1>6 DEF WInv, Corpses
<1>8. ASSUME NoPanic', NEW x \in Procs, Waiting(kern', ret', x)
      PROVE  Nothing(kern', pc', x)
  <2>1. SUFFICES ASSUME NEW c \in Children(kern', x)
                 PROVE  pc'[c] # "zombie" /\ ~Halted(kern', c)
    BY DEF Nothing
  <2>2. ChanOf[x] # NoChan /\ c \in Procs
    BY ChanAssumption DEF All, AllChan, Children
  <2>3. Waiting(kern, ret, x)
    BY <1>2, <1>5, <1>8, <2>2 DEF Waiting
  <2>4. CASE c = q
    BY <1>5, <1>6, <2>4 DEF Halted
  <2>5. CASE c # q
    <3>1. c \in Children(kern, x)
      BY <1>5, <2>2, <2>5 DEF Children
    <3>a. Seen
      BY <1>2, <1>3, AtSeen
    <3>2. pc[c] # "zombie" /\ ~Halted(kern, c)
      BY <2>3, <3>1, <3>a DEF Seen, Nothing
    <3> QED BY <1>4, <1>5, <1>6, <2>2, <2>5, <3>2 DEF Halted
  <2> QED BY <2>4, <2>5
<1>9. \A x \in Procs \ {p} : pc'[x] \in {pc[x], "run"}
  BY <1>6
<1>10. pc'[p] \notin {"exit1", "waitsleep"}
  BY <1>6
<1> QED BY <1>2, <1>7, <1>8, <1>9, <1>10, QuietProc

\* wait1() frees the slot of a zombie.
LEMMA WaitReapLooked ==
  ASSUME IInv, WInv, NEW p \in Procs, WaitReap(p)
  PROVE  WInv'
<1>1. PICK q \in Procs :
        /\ kern.p_stat[q] = "SZOMB"
        /\ kern' = [kern EXCEPT !.p_stat[q] = "free", !.p_pptr[q] = Swapper,
                                !.p_sig[q] = {}, !.p_cursig[q] = NoSig,
                                !.p_wchan[q] = NoChan,
                                !.sload = @ \ {q}, !.swted = @ \ {q}]
  BY DEF WaitReap, Children
<1>2. At(p, "wait") /\ ret' = ret /\ pc' = [pc EXCEPT ![p] = "run"]
  BY DEF WaitReap, Goto
<1>a. "wait" \notin {"swtch", "exit1"}
  OBVIOUS
<1>3. /\ kern \in Kern /\ p \in All /\ kern.p_stat[p] = "SRUN"
      /\ pc \in [All -> PC] /\ q \in All
  BY <1>2, <1>a, AtFacts DEF All
<1>4. /\ kern'.p_pptr = [kern.p_pptr EXCEPT ![q] = Swapper]
      /\ kern'.p_stat = [kern.p_stat EXCEPT ![q] = "free"]
      /\ kern'.p_wchan = [kern.p_wchan EXCEPT ![q] = NoChan]
      /\ kern'.swted = kern.swted \ {q} /\ kern'.panicstr = kern.panicstr
  BY <1>1, <1>3 DEF Kern
<1>5. /\ kern'.p_stat[q] = "free" /\ kern'.p_wchan[q] = NoChan
      /\ \A x \in Procs \ {q} :
           /\ kern'.p_stat[x] = kern.p_stat[x]
           /\ kern'.p_wchan[x] = kern.p_wchan[x]
           /\ kern'.p_pptr[x] = kern.p_pptr[x]
  BY <1>3, <1>4, KernTypes DEF All
<1>6. pc'[p] = "run" /\ \A x \in Procs \ {p} : pc'[x] = pc[x]
  BY <1>2, <1>3 DEF All
<1>7. Corpses'
  BY <1>5, <1>6 DEF WInv, Corpses
<1>8. ASSUME NoPanic', NEW x \in Procs, Waiting(kern', ret', x)
      PROVE  Nothing(kern', pc', x)
  <2>1. SUFFICES ASSUME NEW c \in Children(kern', x)
                 PROVE  pc'[c] # "zombie" /\ ~Halted(kern', c)
    BY DEF Nothing
  <2>2. ChanOf[x] # NoChan /\ c \in Procs
    BY ChanAssumption DEF All, AllChan, Children
  <2>3. Waiting(kern, ret, x)
    BY <1>2, <1>5, <1>8, <2>2 DEF Waiting
  <2>4. c # q /\ c \in Children(kern, x)
    BY <1>5, <2>2 DEF Children
  <2>a. Seen
    BY <1>2, <1>3, AtSeen
  <2>5. pc[c] # "zombie" /\ ~Halted(kern, c)
    BY <2>3, <2>4, <2>a DEF Seen, Nothing
  <2> QED BY <1>4, <1>5, <1>6, <2>2, <2>4, <2>5 DEF Halted
<1>9. \A x \in Procs \ {p} : pc'[x] \in {pc[x], "run"}
  BY <1>6
<1>10. pc'[p] \notin {"exit1", "waitsleep"}
  BY <1>6
<1> QED BY <1>2, <1>7, <1>8, <1>9, <1>10, QuietProc

\* spgrp().
LEMMA SpgrpRouses ==
  ASSUME NEW k \in Kern, NEW q \in Procs, NEW k2, k2 = Spgrp(k, q)
  PROVE  Rouses(k, k2)
<1> DEFINE S == [r \in All |-> IF r \in Family(k, q)
                               THEN k.p_sig[r] \ {SIGTSTP, SIGTTIN}
                               ELSE k.p_sig[r]]
<1>1. k2 = [k EXCEPT !.p_sig = S]
  BY DEF Spgrp
<1>2. k2 \in Kern
  BY SpgrpHush DEF Hush
<1> HIDE DEF S
<1>3. /\ k2.p_pptr = k.p_pptr /\ k2.p_wchan = k.p_wchan
      /\ k2.p_stat = k.p_stat /\ k2.swted = k.swted
      /\ k2.panicstr = k.panicstr
  BY <1>1 DEF Kern
<1> QED BY <1>2, <1>3, RousesSame

\* exit() gives a child to init, which does not wait then.
LEMMA ExitChildLooked ==
  ASSUME IInv, WInv, NEW p \in Procs, ExitChild(p)
  PROVE  WInv'
<1>1. PICK q \in Children(kern, p) :
        LET k  == [kern EXCEPT !.p_pptr[q] = InitProc]
            k1 == IF k.p_stat[q] = "SSTOP"
                  THEN PsignalPlain(PsignalPlain(k, q, SIGINT), q, SIGCONT)
                  ELSE k
        IN  kern' = Spgrp(k1, q)
  BY DEF ExitChild
<1> DEFINE k == [kern EXCEPT !.p_pptr[q] = InitProc]
           kint == PsignalPlain(k, q, SIGINT)
           kcont == PsignalPlain(kint, q, SIGCONT)
           k1 == IF k.p_stat[q] = "SSTOP" THEN kcont ELSE k
<1>2. kern' = Spgrp(k1, q)
  BY <1>1
<1>3. At(p, "exit1") /\ pc' = pc /\ ret' = ret
  BY DEF ExitChild
<1>4. /\ kern \in Kern /\ q \in Procs /\ q \in All /\ InitProc \in Procs
      /\ InitProc \in All /\ SIGINT \in Sig /\ SIGCONT \in Sig
      /\ NoPanic /\ p \in All /\ pc[p] = "exit1"
      /\ \A x \in Procs : ChanOf[x] # NoChan
  BY <1>3, ProcsAssumption, ChanAssumption
  DEF IInv, TypeOK, All, Children, Sig, At, AllChan
<1>5. /\ k \in Kern /\ k.p_wchan = kern.p_wchan /\ k.p_stat = kern.p_stat
      /\ k.swted = kern.swted /\ k.panicstr = kern.panicstr
      /\ k.p_pptr[q] = InitProc
      /\ \A x \in Procs \ {q} : k.p_pptr[x] = kern.p_pptr[x]
  <2>1. [kern.p_pptr EXCEPT ![q] = InitProc] \in [Procs -> All]
    BY <1>4, KernTypes
  <2>2. k.p_pptr = [kern.p_pptr EXCEPT ![q] = InitProc] /\ k \in Kern
    BY <1>4, <2>1 DEF Kern
  <2> QED BY <1>4, <2>2, KernTypes DEF Kern
<1> HIDE DEF k
<1>6. Rouses(k, kint)
  BY <1>4, <1>5, PsignalPlainRouses
<1> HIDE DEF kint
<1>7. Rouses(kint, kcont)
  <2>1. kint \in Kern
    BY <1>6 DEF Rouses
  <2> QED BY <1>4, <2>1, PsignalPlainRouses
<1> HIDE DEF kcont
<1>8. Rouses(k, k1) /\ k1 \in Kern
  <2>1. Rouses(k, kcont) /\ Rouses(k, k)
    BY <1>5, <1>6, <1>7, RousesTrans, RousesRefl
  <2> QED BY <2>1 DEF Rouses
<1> HIDE DEF k1
<1>9. Rouses(k, kern')
  <2>1. Rouses(k1, kern')
    BY <1>2, <1>4, <1>8, SpgrpRouses
  <2> QED BY <1>8, <2>1, RousesTrans
<1>10. Corpses'
  BY <1>3, <1>5, <1>9 DEF WInv, Corpses, Rouses
<1>11. ~Waiting(kern, ret, InitProc)
  BY <1>4 DEF WInv, Looked
<1>12. \A x \in Procs : Waiting(kern', ret', x) => Waiting(kern, ret, x)
  BY <1>3, <1>4, <1>5, <1>9 DEF Waiting, Rouses
<1>13. ASSUME NEW x \in Procs, Waiting(kern', ret', x)
       PROVE  Nothing(kern', pc', x)
  <2>1. SUFFICES ASSUME NEW c \in Children(kern', x)
                 PROVE  pc'[c] # "zombie" /\ ~Halted(kern', c)
    BY DEF Nothing
  <2>2. c \in Procs /\ k.p_pptr[c] = x /\ kern.p_stat[c] # "free"
    BY <1>5, <1>9 DEF Children, Rouses
  <2>3. x # InitProc
    BY <1>11, <1>12, <1>13
  <2>4. c \in Children(kern, x)
    BY <1>5, <2>2, <2>3 DEF Children
  <2>a. Seen
    BY <1>3, <1>4, AtSeen
  <2>5. pc[c] # "zombie" /\ ~Halted(kern, c)
    BY <1>12, <1>13, <2>4, <2>a DEF Seen, Nothing
  <2>6. ~Halted(k, c)
    BY <1>5, <2>5 DEF Halted
  <2> QED BY <1>3, <1>9, <2>2, <2>5, <2>6, RousesNotifies
<1>14. \A x \in Procs : pc'[x] # "waitsleep"
  BY <1>3, <1>4, OnlyRunning
<1>15. Looked'
  BY <1>4, <1>11, <1>12, <1>13, <1>14 DEF Looked
<1> QED BY <1>10, <1>15 DEF WInv

\* The steps of processes.
LEMMA ProcLooked ==
  ASSUME IInv, Tidy(kern), WInv, NEW p \in Procs, Proc(p)
  PROVE  WInv'
BY WalkLooked, IssigNoneLooked, IssigTakeLooked, StopSelfLooked, PsigLooked,
   RestLooked, ProcdupLooked, WaitStoppedLooked, KillLooked, SleepLooked,
   WaitNoneLooked, ExitLooked, ExitSwtchLooked, ForkLooked, WaitReapLooked,
   ExitChildLooked
DEF Proc

\* swtch() changes the run queues only, and nobody is about to wait while it
\* looks for work.
LEMMA SwtchLooked ==
  ASSUME IInv, WInv, Swtch
  PROVE  WInv'
<1>1. kern \in Kern /\ NoPanic /\ noproc /\ pc' = pc /\ ret' = ret
  BY DEF IInv, TypeOK, Swtch
<1>2. \A x \in Procs : pc'[x] # "waitsleep"
  BY <1>1 DEF WInv, Looked, Running
<1>3. Rouses(kern, kern')
  <2>1. CASE kern' = Panic(kern, "swtch")
    BY <1>1, <2>1, PanicRouses DEF Why
  <2>2. CASE \E p \in OnQueue(kern, BestQueue) :
               kern' = Switched(kern, p, BestQueue)
    <3>1. PICK p \in All : kern' = Switched(kern, p, BestQueue)
      BY <2>2 DEF OnQueue
    <3> DEFINE k1 == [kern EXCEPT
                        !.p_rlink[p] = NoQ,
                        !.whichqs = IF OnQueue(kern, BestQueue) = {p}
                                    THEN @ \ {BestQueue} ELSE @]
    <3>2. /\ k1 \in Kern /\ k1.p_pptr = kern.p_pptr
          /\ k1.p_stat = kern.p_stat /\ k1.p_wchan = kern.p_wchan
          /\ k1.swted = kern.swted /\ k1.panicstr = kern.panicstr
      BY <1>1 DEF Kern
    <3>3. kern' = Panic(k1, "swtch") \/ kern' = k1
      BY <3>1 DEF Switched
    <3> HIDE DEF k1
    <3>4. Rouses(kern, k1)
      BY <1>1, <3>2, RousesSame
    <3>5. Rouses(k1, Panic(k1, "swtch"))
      BY <3>2, PanicRouses DEF Why
    <3> QED BY <3>3, <3>4, <3>5, RousesTrans
  <2> QED BY <2>1, <2>2 DEF Swtch
<1>4. Notifies(kern, kern')
  BY <1>3, RousesNotifies
<1>5. Seen
  BY <1>1, AllSeen
<1> QED BY <1>1, <1>2, <1>4, <1>5, TellStep DEF Seen

\* A sleep() of the swapper.
LEMMA SwapSleepRouses ==
  ASSUME NEW k \in Kern, NEW chan \in SwapChan, NEW back,
         SwapSleep(k, chan, back), pc \in [All -> PC]
  PROVE  Rouses(k, kern') /\ ret' = ret
<1> DEFINE k1 == EnterSleep(k, Swapper, chan, PZERO)
           k2 == [k EXCEPT !.p_wchan[Swapper] = chan, !.p_pri[Swapper] = PZERO]
<1>1. /\ kern' = [k1 EXCEPT !.p_stat[Swapper] = "SSLEEP"] /\ ret' = ret
      /\ k1 = Panic(k, "sleep") \/ k1 = k2
  BY DEF SwapSleep, EnterSleep
<1>2. Swapper \in All /\ Swapper \notin Procs /\ Procs \subseteq All
      /\ chan \in AllChan
  BY ProcsAssumption DEF All, AllChan
<1> HIDE DEF k1
<1>3. /\ k1 \in Kern /\ k1.p_pptr = k.p_pptr /\ k1.p_stat = k.p_stat
      /\ k1.swted = k.swted
      /\ k1.panicstr = "" => k.panicstr = ""
      /\ \A x \in Procs : k1.p_wchan[x] = k.p_wchan[x]
  <2>1. CASE k1 = Panic(k, "sleep")
    <3>1. k1 \in Kern /\ k1.panicstr # ""
      BY <2>1, PanicBland DEF Why, Bland, Mute
    <3>2. k1.p_pptr = k.p_pptr /\ k1.p_stat = k.p_stat
          /\ k1.swted = k.swted /\ k1.p_wchan = k.p_wchan
      BY <2>1 DEF Panic, Kern
    <3> QED BY <3>1, <3>2
  <2>2. CASE k1 = k2
    <3>1. [k.p_wchan EXCEPT ![Swapper] = chan]
            \in [All -> AllChan \cup {NoChan}]
      BY <1>2, KernTypes
    <3>2. [k.p_pri EXCEPT ![Swapper] = PZERO] \in [All -> Pri]
      BY <1>2, KernTypes DEF Pri
    <3>3. /\ k2 \in Kern /\ k2.p_pptr = k.p_pptr /\ k2.p_stat = k.p_stat
          /\ k2.swted = k.swted /\ k2.panicstr = k.panicstr
          /\ k2.p_wchan = [k.p_wchan EXCEPT ![Swapper] = chan]
      BY <3>1, <3>2 DEF Kern
    <3>4. \A x \in Procs : k2.p_wchan[x] = k.p_wchan[x]
      BY <1>2, <3>3, KernTypes
    <3> HIDE DEF k2
    <3> QED BY <2>2, <3>3, <3>4
  <2> QED BY <1>1, <2>1, <2>2
<1> HIDE DEF k2
<1>4. /\ kern' \in Kern /\ kern'.p_pptr = k1.p_pptr
      /\ kern'.p_wchan = k1.p_wchan /\ kern'.swted = k1.swted
      /\ kern'.panicstr = k1.panicstr
      /\ kern'.p_stat = [k1.p_stat EXCEPT ![Swapper] = "SSLEEP"]
  BY <1>1, <1>3 DEF Kern, Stat
<1>5. \A x \in Procs : kern'.p_stat[x] = k.p_stat[x]
  BY <1>2, <1>3, <1>4, KernTypes
<1> QED BY <1>1, <1>3, <1>4, <1>5 DEF Rouses

\* Flags and p_flag bits make no difference.
LEMMA FlagRouses ==
  ASSUME NEW k \in Kern, NEW b \in BOOLEAN, NEW s \in SUBSET All
  PROVE  /\ Rouses(k, [k EXCEPT !.runout = b])
         /\ Rouses(k, [k EXCEPT !.wantin = b])
         /\ Rouses(k, [k EXCEPT !.sload = s])
<1>1. ASSUME NEW k2 \in {[k EXCEPT !.runout = b], [k EXCEPT !.wantin = b],
                         [k EXCEPT !.sload = s]}
      PROVE  Rouses(k, k2)
  <2>1. /\ k2 \in Kern /\ k2.p_pptr = k.p_pptr /\ k2.p_stat = k.p_stat
        /\ k2.p_wchan = k.p_wchan /\ k2.swted = k.swted
        /\ k2.panicstr = k.panicstr
    BY <1>1 DEF Kern
  <2> QED BY <2>1, RousesSame
<1> QED BY <1>1

\* sched() up to its calls of swapin() and swapout().
LEMMA SchedScanRouses ==
  ASSUME IInv, \/ SchedLoop \/ SchedScan \/ SchedDeadwood \/ SchedIdle
               \/ SchedIn \/ SwapoutStart
  PROVE  Rouses(kern, kern') /\ ret' = ret
<1>1. /\ kern \in Kern /\ pc \in [All -> PC]
      /\ kern.sload \ {victim} \in SUBSET All
      /\ Rouses(kern, kern)
      /\ {RUNOUT, LBOLT, SWAPIO} \subseteq SwapChan
  BY RousesRefl, KernTypes DEF IInv, TypeOK, SwapChan
<1>2. CASE SchedLoop
  BY <1>1, <1>2, FlagRouses DEF SchedLoop
<1>3. CASE SchedScan
  BY <1>1, <1>3 DEF SchedScan
<1>4. CASE SchedDeadwood
  BY <1>1, <1>4, FlagRouses DEF SchedDeadwood
<1>5. CASE SchedIdle
  <2> DEFINE k1 == [kern EXCEPT !.wantin = FALSE]
             k2 == [kern EXCEPT !.runout = TRUE]
  <2>1. SwapSleep(k1, LBOLT, "loop") \/ SwapSleep(k2, RUNOUT, "loop")
    BY <1>5 DEF SchedIdle
  <2>2. Rouses(kern, k1) /\ Rouses(kern, k2)
    BY <1>1, FlagRouses
  <2> HIDE DEF k1, k2
  <2>3. k1 \in Kern /\ k2 \in Kern
    BY <2>2 DEF Rouses
  <2>4. (Rouses(k1, kern') \/ Rouses(k2, kern')) /\ ret' = ret
    BY <1>1, <2>1, <2>3, SwapSleepRouses
  <2> QED BY <2>2, <2>4, RousesTrans
<1>6. CASE SchedIn \/ SwapoutStart
  <2>1. \/ SwapSleep(kern, SWAPIO, "inio") \/ SwapSleep(kern, SWAPIO, "outio")
        \/ kern' = kern /\ ret' = ret
    BY <1>6 DEF SchedIn, SwapoutStart
  <2> QED BY <1>1, <2>1, SwapSleepRouses
<1> QED BY <1>2, <1>3, <1>4, <1>5, <1>6

\* The end of swapin().
LEMMA SwapinRouses ==
  ASSUME IInv, Swapin
  PROVE  Rouses(kern, kern') /\ ret' = ret
<1>1. kern \in Kern /\ inp \in All
  BY DEF IInv, TypeOK
<1> DEFINE k == IF kern.p_stat[inp] = "SRUN" THEN Setrq(kern, inp) ELSE kern
           s == k.sload \cup {inp}
<1>2. kern' = [k EXCEPT !.sload = s] /\ ret' = ret
  BY DEF Swapin
<1>3. Rouses(kern, k)
  BY <1>1, SetrqRouses, RousesRefl
<1> HIDE DEF k
<1>4. k \in Kern
  BY <1>3 DEF Rouses
<1>5. s \in SUBSET All
  BY <1>1, <1>4, KernTypes
<1> HIDE DEF s
<1>6. Rouses(k, kern')
  BY <1>2, <1>4, <1>5, FlagRouses
<1> QED BY <1>2, <1>3, <1>6, RousesTrans

\* A hard swap.
LEMMA SchedHardRouses ==
  ASSUME IInv, SchedHard
  PROVE  Rouses(kern, kern') /\ ret' = ret
<1>1. kern \in Kern /\ pc \in [All -> PC] /\ RUNIN \in SwapChan
  BY DEF IInv, TypeOK, SwapChan
<1>2. CASE SwapSleep(kern, RUNIN, "loop")
  BY <1>1, <1>2, SwapSleepRouses
<1>3. ASSUME NEW q \in Big, ret' = ret,
             LET k == [kern EXCEPT !.sload = @ \ {q}]
             IN  kern' = IF k.p_stat[q] = "SRUN" THEN Remrq(k, q) ELSE k
      PROVE  Rouses(kern, kern')
  <2> DEFINE s == kern.sload \ {q}
             k == [kern EXCEPT !.sload = s]
  <2>1. q \in All
    BY SwapAssumption DEF All
  <2>2. kern' = Remrq(k, q) \/ kern' = k
    BY <1>3
  <2>3. s \in SUBSET All
    BY <1>1, KernTypes
  <2> HIDE DEF s
  <2>4. Rouses(kern, k)
    BY <1>1, <2>3, FlagRouses
  <2> HIDE DEF k
  <2>5. k \in Kern
    BY <2>4 DEF Rouses
  <2>6. Rouses(k, Remrq(k, q))
    BY <2>1, <2>5, RemrqRouses
  <2> QED BY <2>2, <2>4, <2>6, RousesTrans
<1> QED BY <1>2, <1>3 DEF SchedHard

\* swapout() finds no room, or has written the process.
LEMMA SwapoutRouses ==
  ASSUME IInv, SwapoutFails \/ SwapoutEnd
  PROVE  Rouses(kern, kern') /\ ret' = ret
<1>1. /\ kern \in Kern /\ pc \in [All -> PC] /\ victim \in All
      /\ RUNIN \in SwapChan /\ RUNOUT \in AllChan
  BY DEF IInv, TypeOK, SwapChan, AllChan
<1>2. CASE SwapoutFails
  <2> DEFINE s == kern.sload \cup {victim}
             k == [kern EXCEPT !.sload = s]
  <2>1. (kern' = k /\ ret' = ret) \/ SwapSleep(k, RUNIN, "loop")
    BY <1>2 DEF SwapoutFails
  <2>2. s \in SUBSET All
    BY <1>1, KernTypes
  <2> HIDE DEF s
  <2>3. Rouses(kern, k)
    BY <1>1, <2>2, FlagRouses
  <2> HIDE DEF k
  <2>4. k \in Kern
    BY <2>3 DEF Rouses
  <2>5. SwapSleep(k, RUNIN, "loop") => Rouses(k, kern') /\ ret' = ret
    BY <1>1, <2>4, SwapSleepRouses
  <2> QED BY <2>1, <2>3, <2>5, RousesTrans
<1>3. CASE SwapoutEnd
  <2> DEFINE s == kern.sload \ {victim}
             k == [kern EXCEPT !.sload = s]
             k0 == [k EXCEPT !.runout = FALSE]
             k1 == Wakeup(k0, RUNOUT)
  <2>1. kern' \in {Panic(kern, "swapout"), k, k1} /\ ret' = ret
    BY <1>3 DEF SwapoutEnd
  <2>2. s \in SUBSET All
    BY <1>1, KernTypes
  <2> HIDE DEF s
  <2>3. Rouses(kern, k)
    BY <1>1, <2>2, FlagRouses
  <2> HIDE DEF k
  <2>4. k \in Kern
    BY <2>3 DEF Rouses
  <2>5. Rouses(k, k0)
    BY <2>4, <2>2, FlagRouses
  <2> HIDE DEF k0
  <2>6. k0 \in Kern
    BY <2>5 DEF Rouses
  <2>7. Rouses(k0, k1)
    BY <1>1, <2>6, WakeupRouses
  <2> HIDE DEF k1
  <2>8. Rouses(kern, Panic(kern, "swapout"))
    BY <1>1, PanicRouses DEF Why
  <2>9. Rouses(k, k1)
    BY <2>5, <2>7, RousesTrans
  <2>10. Rouses(kern, k1)
    BY <2>3, <2>9, RousesTrans
  <2> QED BY <2>1, <2>3, <2>8, <2>10
<1> QED BY <1>2, <1>3

\* The swapper exits and stops nobody, and nobody is about to wait while it
\* runs.
LEMMA SchedLooked ==
  ASSUME IInv, WInv, Sched
  PROVE  WInv'
<1>1. Rouses(kern, kern') /\ ret' = ret
  BY SchedScanRouses, SwapinRouses, SchedHardRouses, SwapoutRouses DEF Sched
<1>2. PICK label \in PC : At(Swapper, label)
  BY DEF Sched, SchedLoop, SchedScan, SchedDeadwood, SchedIdle, SchedIn,
     Swapin, SchedHard, SwapoutFails, SwapoutStart, SwapoutEnd, PC
<1>3. kern \in Kern /\ pc \in [All -> PC] /\ Swapper \in All
      /\ Swapper \notin Procs /\ Procs \subseteq All
  BY ProcsAssumption DEF IInv, TypeOK, All
<1>4. \A x \in Procs : pc'[x] = pc[x]
  BY <1>3 DEF Sched, SchedLoop, SchedScan, SchedDeadwood, SchedIdle, SchedIn,
     Swapin, SchedHard, SwapoutFails, SwapoutStart, SwapoutEnd, SwapSleep, Goto
<1>5. \A x \in Procs : pc'[x] # "waitsleep"
  BY <1>2, <1>3, <1>4, OnlyRunning
<1>6. Notifies(kern, kern')
  BY <1>1, RousesNotifies
<1>7. Seen
  <2>1. cur = Swapper /\ NoPanic
    BY <1>2 DEF At, Running
  <2> QED BY <1>3, <2>1, AllSeen
<1> QED BY <1>1, <1>3, <1>4, <1>5, <1>6, <1>7, TellStep DEF Seen

\* Interrupts that send no signal stop nobody.
LEMMA IntrRouses ==
  ASSUME IInv, IntrWakeup \/ Schedcpu \/ SchedcpuWakeup \/ Vmmeter
  PROVE  Rouses(kern, kern')
<1>1. kern \in Kern /\ {LBOLT, RUNIN, RUNOUT, SWAPIO} \subseteq AllChan
  BY DEF IInv, TypeOK, AllChan, SwapChan
<1>2. CASE IntrWakeup
  <2>1. PICK chan \in IntrChan \cup {SWAPIO} : kern' = Wakeup(kern, chan)
    BY <1>2 DEF IntrWakeup
  <2>2. chan \in AllChan
    BY <1>1, ChanAssumption DEF AllChan
  <2> QED BY <1>1, <2>1, <2>2, WakeupRouses
<1>4. CASE Schedcpu
  <2>1. PICK p \in Procs : \E usrpri \in UserPri :
          kern' = Reprioritize(kern, p, usrpri)
    BY <1>4 DEF Schedcpu
  <2>2. PICK usrpri \in UserPri : kern' = Reprioritize(kern, p, usrpri)
    BY <2>1
  <2> DEFINE k1 == [kern EXCEPT !.p_pri[p] = usrpri]
             k2 == Remrq(kern, p)
             k3 == [k2 EXCEPT !.p_pri[p] = usrpri]
             k4 == Setrq(k3, p)
  <2>3. kern' \in {kern, k1, k4}
    BY <2>2 DEF Reprioritize
  <2>4. p \in All /\ usrpri \in Pri
    BY ChanAssumption DEF All, Pri
  <2>5. Rouses(kern, kern) /\ Rouses(kern, k1) /\ Rouses(kern, k2)
    BY <1>1, <2>4, RousesRefl, PriRouses, RemrqRouses
  <2> HIDE DEF k1, k2
  <2>6. k2 \in Kern
    BY <2>5 DEF Rouses
  <2>7. Rouses(k2, k3)
    BY <2>4, <2>6, PriRouses
  <2> HIDE DEF k3
  <2>8. k3 \in Kern
    BY <2>7 DEF Rouses
  <2>9. Rouses(k3, k4)
    BY <2>4, <2>8, SetrqRouses
  <2> HIDE DEF k4
  <2>10. Rouses(kern, k3)
    BY <2>5, <2>7, RousesTrans
  <2>11. Rouses(kern, k4)
    BY <2>9, <2>10, RousesTrans
  <2> QED BY <2>3, <2>5, <2>11
<1>5. ASSUME NEW k \in Kern, NEW c \in AllChan, NEW d \in AllChan
      PROVE  Rouses(k, Wakeup(Wakeup(k, c), d))
  <2> DEFINE k1 == Wakeup(k, c)
             k2 == Wakeup(k1, d)
  <2>1. Rouses(k, k1)
    BY WakeupRouses
  <2> HIDE DEF k1
  <2>2. k1 \in Kern
    BY <2>1 DEF Rouses
  <2>3. Rouses(k1, k2)
    BY <2>2, WakeupRouses
  <2> HIDE DEF k2
  <2>4. Rouses(k, k2)
    BY <2>1, <2>3, RousesTrans
  <2> QED BY <2>4 DEF k1, k2
<1>6. CASE SchedcpuWakeup
  BY <1>1, <1>5, <1>6 DEF SchedcpuWakeup
<1>7. CASE Vmmeter
  <2> DEFINE k == [kern EXCEPT !.runout = FALSE]
  <2>1. kern' = Wakeup(Wakeup(k, RUNIN), RUNOUT)
    BY <1>7 DEF Vmmeter
  <2>2. Rouses(kern, k)
    <3>1. kern.sload \in SUBSET All
      BY <1>1, KernTypes
    <3> QED BY <1>1, <3>1, FlagRouses
  <2> HIDE DEF k
  <2>3. k \in Kern
    BY <2>2 DEF Rouses
  <2>4. Rouses(k, kern')
    BY <1>1, <1>5, <2>1, <2>3
  <2> QED BY <2>2, <2>4, RousesTrans
<1> QED BY <1>2, <1>4, <1>6, <1>7

\* No interrupt stops a child of a running process without telling it, and the
\* keyboard stops no child of init.
LEMMA IntrTells ==
  ASSUME PlainEnv, IInv, Intr
  PROVE  /\ Notifies(kern, kern') /\ Tells(kern, kern')
         /\ NoKeyboard => \A x \in Procs : Halted(kern', x) => Halted(kern, x)
<1>1. kern \in Kern
  BY DEF IInv, TypeOK
<1>2. CASE IntrSignal
  <2>1. PICK q \in Procs : \E sig \in IntrSigs[q] : kern' = Psignal(kern, q, sig)
    BY <1>2 DEF IntrSignal, IntrSend
  <2>2. PICK sig \in IntrSigs[q] : kern' = Psignal(kern, q, sig)
    BY <2>1
  <2>3. sig \in Sig \ {SIGSTOP} /\ kern.p_pptr[q] # q
    BY SignalAssumption
    DEF PlainEnv, NoKeyboard, Keyboard, StopSig, IInv, Ctl, KernCtl
  <2>4. Notifies(kern, kern') /\ (sig \notin StopSig => Rouses(kern, kern'))
    BY <1>1, <2>2, <2>3, PsignalNotifies
  <2>5. Tells(kern, kern')
    BY <1>1, <2>2, <2>3, PsignalTells
  <2>6. NoKeyboard => sig \notin StopSig
    BY DEF NoKeyboard
  <2> QED BY <2>4, <2>5, <2>6, RousesNotifies
<1>3. CASE IntrWakeup \/ Schedcpu \/ SchedcpuWakeup \/ Vmmeter
  <2>1. Rouses(kern, kern')
    BY <1>3, IntrRouses
  <2>2. kern'.p_sig = kern.p_sig
    BY <1>3, IntrBland, VmmeterMute DEF Bland, Mute
  <2> QED BY <2>1, <2>2, RousesTells, RousesNotifies
<1> QED BY <1>2, <1>3 DEF Intr

\* They come between wait1()'s look at the children and its sleep(): what
\* happens to the children is then in the parent's signals.
LEMMA IntrLooked ==
  ASSUME PlainEnv, IInv, Waiters, WInv, Intr
  PROVE  WInv'
<1>1. Notifies(kern, kern') /\ Tells(kern, kern')
  BY IntrTells
<1>2. /\ kern \in Kern /\ pc' = pc /\ ret' = ret /\ cur' = cur
      /\ noproc' = noproc
  BY DEF IInv, TypeOK, Intr, IntrWakeup, IntrSignal, IntrSend, Schedcpu,
         SchedcpuWakeup, Vmmeter
<1>3. NoPanic /\ Seen
  <2>1. IntrEnabled
    BY DEF Intr, IntrWakeup, IntrSignal, IntrSend, Schedcpu, SchedcpuWakeup,
           Vmmeter
  <2> QED BY <2>1, AllSeen DEF IntrEnabled
<1>4. ASSUME NEW x \in Procs, pc'[x] = "waitsleep"
      PROVE  Running(x)' /\ (Nothing(kern', pc', x) \/ ChildNews(kern', x))
  <2>1. Running(x) /\ (Nothing(kern, pc, x) \/ ChildNews(kern, x))
    BY <1>2, <1>3, <1>4 DEF WInv, Looked
  <2>2. kern.p_stat[x] = "SRUN" /\ Running(x)'
    <3>1. At(x, "waitsleep") /\ x \in All
      BY <1>2, <1>3, <1>4, <2>1 DEF At, All
    <3>2. "waitsleep" \notin {"swtch", "exit1"}
      OBVIOUS
    <3>3. kern.p_stat[x] = "SRUN"
      BY <3>1, <3>2, AtFacts
    <3> QED BY <1>2, <2>1, <3>3 DEF Running
  <2>3. CASE ChildNews(kern, x)
    BY <1>1, <2>2, <2>3 DEF ChildNews, Tells
  <2>4. ASSUME Nothing(kern, pc, x),
               \A y \in Procs : kern.p_pptr[y] = x /\ Halted(kern', y) =>
                                   Halted(kern, y)
        PROVE  Nothing(kern', pc', x)
    <3>1. Children(kern', x) = Children(kern, x)
      BY <1>1 DEF Children, Notifies
    <3> QED BY <1>2, <2>4, <3>1 DEF Nothing, Children
  <2>5. CASE Nothing(kern, pc, x) /\ NoKeyboard
    BY <2>2, <2>4, <2>5, IntrTells
  <2>6. CASE Nothing(kern, pc, x) /\ Keyboard
    <3>1. x \in Waits \cup {InitProc}
      BY <1>2, <1>4 DEF Waiters
    <3>2. CASE x # InitProc /\ SIGCHLD \in kern'.p_sig[x]
      BY <2>2, <2>6, <3>1, <3>2 DEF Keyboard, ChildNews
    <3>3. CASE \A y \in Procs : kern.p_pptr[y] = x /\ Halted(kern', y) =>
                                    Halted(kern, y)
      BY <2>2, <2>4, <2>6, <3>3
    <3>4. x # InitProc => SIGCHLD \notin Ignored[x]
      BY <2>6, <3>1 DEF Keyboard, Steady
    <3> QED BY <1>1, <2>2, <3>2, <3>3, <3>4 DEF Tells
  <2> QED BY <2>1, <2>2, <2>3, <2>5, <2>6 DEF PlainEnv
<1> QED BY <1>1, <1>2, <1>3, <1>4, TellStep DEF Seen

-----------------------------------------------------------------------------
\* A step of p in which it comes to no wait but its own.
Strolls(p) ==
  /\ \A x \in Procs \ {p} : pc'[x] \in {pc[x], "run"} /\ ret'[x] = ret[x]
  /\ pc'[p] \in {"wait", "waitsleep"} =>
       p \in Waits \/ pc[p] \in {"wait", "waitsleep"} \/ ret[p] = "wait"
  /\ ret'[p] = "wait" => pc[p] \in {"wait", "waitsleep"} \/ ret[p] = "wait"

\* So are the steps of processes.
LEMMA ProcStrolls ==
  ASSUME IInv, NEW p \in Procs, Proc(p)
  PROVE  Strolls(p)
<1>1. /\ p \in All /\ pc \in [All -> PC] /\ Procs \subseteq All
      /\ ret \in [All -> {"run", "wait"}]
  BY DEF IInv, TypeOK, All
<1>2. CASE Sleep(p)
  BY <1>1, <1>2 DEF Sleep, SleepCall, Goto, Strolls
<1>3. CASE WaitSleep(p)
  BY <1>1, <1>3 DEF WaitSleep, SleepCall, Goto, Strolls, At
<1>4. CASE Woken(p)
  BY <1>1, <1>4 DEF Woken, Goto, Strolls
<1>5. CASE IssigNone(p)
  BY <1>1, <1>5 DEF IssigNone, Goto, Strolls
<1>6. CASE IssigSend(p)
  BY <1>1, <1>6 DEF IssigSend, Goto, Strolls
<1>7. CASE IssigContinue(p) \/ IssigKill(p)
  BY <1>1, <1>7 DEF IssigContinue, IssigKill, Strolls
<1>8. CASE IssigStop(p) \/ TellParent(p) \/ StopSelf(p) \/ SwtchStopped(p)
  BY <1>1, <1>8 DEF IssigStop, TellParent, StopSelf, SwtchStopped, Goto, Strolls
<1>12. CASE TrapExit(p)
  BY <1>1, <1>12 DEF TrapExit, Goto, Strolls
<1>13. CASE Psig(p)
  BY <1>1, <1>13 DEF Psig, Goto, Strolls
<1>14. CASE Rest(p)
  BY <1>1, <1>14 DEF Rest, Goto, Strolls
<1>15. CASE Fork(p)
  <2>1. PICK q \in Procs : pc' = [pc EXCEPT ![p] = "procdup", ![q] = "run"]
    BY <1>15 DEF Fork
  <2>2. ret' = ret
    BY <1>15 DEF Fork
  <2>3. /\ pc'[p] \in {"procdup", "run"}
        /\ \A x \in Procs \ {p} : pc'[x] \in {pc[x], "run"}
    BY <1>1, <2>1
  <2> QED BY <2>2, <2>3 DEF Strolls
<1>16. CASE Procdup(p)
  BY <1>1, <1>16 DEF Procdup, Goto, Strolls
<1>17. CASE Exit(p)
  BY <1>1, <1>17 DEF Exit, Goto, Strolls
<1>18. CASE ExitChild(p) \/ Kill(p)
  BY <1>1, <1>18 DEF ExitChild, Kill, Strolls
<1>19. CASE ExitSwtch(p)
  BY <1>1, <1>19 DEF ExitSwtch, Goto, Strolls
<1>20. CASE Wait(p)
  BY <1>1, <1>20 DEF Wait, Goto, Strolls
<1>21. CASE WaitNone(p)
  BY <1>1, <1>21 DEF WaitNone, Goto, Strolls, At
<1>22. CASE WaitReap(p) \/ WaitStopped(p)
  BY <1>1, <1>22 DEF WaitReap, WaitStopped, Goto, Strolls
<1> QED
  BY <1>2, <1>3, <1>4, <1>5, <1>6, <1>7, <1>8, <1>12, <1>13, <1>14, <1>15,
     <1>16, <1>17, <1>18, <1>19, <1>20, <1>21, <1>22
  DEF Proc

\* The others leave processes where they are.
LEMMA NextWaiters ==
  ASSUME IInv, Waiters, [Next]_vars
  PROVE  Waiters'
<1>1. CASE \E p \in Procs : Proc(p)
  <2>1. PICK p \in Procs : Proc(p)
    BY <1>1
  <2>2. Strolls(p)
    BY <2>1, ProcStrolls
  <2> QED BY <2>2 DEF Strolls, Waiters
<1>2. CASE UNCHANGED vars \/ Swtch \/ Intr
  <2>1. pc' = pc /\ ret' = ret
    BY <1>2 DEF vars, Swtch, Intr, IntrWakeup, IntrSignal, IntrSend,
                Schedcpu, SchedcpuWakeup, Vmmeter
  <2> QED BY <2>1 DEF Waiters
<1>3. CASE Sched
  <2>1. pc \in [All -> PC] /\ Swapper \notin Procs /\ Procs \subseteq All
    BY ProcsAssumption DEF IInv, TypeOK, All
  <2>2. ret' = ret /\ \A x \in Procs : pc'[x] = pc[x]
    BY <1>3, <2>1
    DEF Sched, SchedLoop, SchedScan, SchedDeadwood, SchedIdle, SchedIn,
        Swapin, SchedHard, SwapoutFails, SwapoutStart, SwapoutEnd, SwapSleep,
        Goto
  <2> QED BY <2>2 DEF Waiters
<1> QED BY <1>1, <1>2, <1>3 DEF Next

\* To begin with, init waits for children none of which has exited or stopped.
LEMMA InitWInv ==
  ASSUME Init
  PROVE  Waiters /\ WInv
<1>1. /\ \A x \in Procs : pc[x] \in {"woken", "run"}
      /\ \A x \in Procs : kern.p_stat[x] \in {"SSLEEP", "SRUN"}
      /\ \A x \in Procs : ret[x] = "wait" => x = InitProc
  BY ProcsAssumption DEF Init, All
<1>2. \A x \in Procs : Nothing(kern, pc, x)
  BY <1>1 DEF Nothing, Children, Halted
<1> QED BY <1>1, <1>2 DEF WInv, Corpses, Looked, Waiters

\* Every step keeps it.
LEMMA NextWInv ==
  ASSUME PlainEnv, SInv /\ Waiters /\ WInv, [Next]_vars, [~Race]_vars
  PROVE  (SInv /\ Waiters /\ WInv)'
<1>1. IInv /\ Tidy(kern)
  BY DEF SInv
<1>2. SInv' /\ Waiters'
  BY <1>1, NextSInv, NextWaiters
<1>3. CASE UNCHANGED vars
  <2>1. /\ kern' = kern /\ pc' = pc /\ ret' = ret /\ cur' = cur
        /\ noproc' = noproc /\ ctx' = ctx
    BY <1>3 DEF vars
  <2> QED BY <1>2, <2>1
          DEF WInv, Corpses, Looked, NoPanic, Alerted, ChildNews, Running
<1>4. ASSUME NEW p \in Procs, Proc(p)
      PROVE  WInv'
  BY <1>1, <1>4, ProcLooked
<1>5. CASE Swtch
  BY <1>1, <1>2, <1>5, SwtchLooked
<1>6. CASE Sched
  BY <1>1, <1>2, <1>6, SchedLooked
<1>7. CASE Intr
  BY <1>1, <1>2, <1>7, IntrLooked
<1> QED BY <1>2, <1>3, <1>4, <1>5, <1>6, <1>7 DEF Next

\* Until the kernel panics, no process sleeps in wait1() with a child that has
\* exited or has stopped unreported: exit(), stop() and the exit() that leaves
\* init the children wake it or leave it a SIGCHLD, and what comes between its
\* look at the children and its swtch() is found by issig() in sleep().
THEOREM WaitMissesNothing ==
  ASSUME PlainEnv
  PROVE  Spec /\ [][~Race]_vars => [](NoPanic => WaitSeesChildren)
<1>1. Init => SInv /\ Waiters /\ WInv
  BY InitSInv, InitWInv
<1>2. (SInv /\ Waiters /\ WInv) /\ [Next]_vars /\ [~Race]_vars
        => (SInv /\ Waiters /\ WInv)'
  BY NextWInv
<1>3. SInv /\ WInv => (NoPanic => WaitSeesChildren)
  <2>1. SUFFICES ASSUME SInv, WInv, NoPanic, NEW x \in Procs, InWait(x)
                 PROVE  Nothing(kern, pc, x)
    BY DEF WaitSeesChildren, Nothing, Unreported, Halted
  <2>2. "issig" \notin {"swtch", "exit1"}
    OBVIOUS
  <2>3. Running(x) /\ pc[x] = "issig" => kern.p_stat[x] = "SRUN"
    BY <2>1, <2>2, AtFacts DEF At, SInv
  <2> QED BY <2>1, <2>3 DEF WInv, Looked, InWait, Waiting, Alerted
<1> QED BY <1>1, <1>2, <1>3, PTL DEF Spec

\* In an environment that is quiet too, never.
THEOREM WaitNeverMisses ==
  ASSUME PlainEnv, QuietEnv
  PROVE  Spec /\ [][~Race]_vars => []WaitSeesChildren
<1> QED BY WaitMissesNothing, NeverPanics, PTL

-----------------------------------------------------------------------------
(***************************************************************************)
(* What psig() kills for.                                                  *)
(***************************************************************************)

\* The environment in which a stop never kills.  Nobody holds a stop signal:
\* sleep() would not go through issig() for one that has cancelled the
\* SIGCONT, and the old one would still be in p_cursig.  And exit() takes no
\* keyboard stop away from a grandchild that needs it in the same way: either
\* none is sent to a process that does not ignore it, or no process has a
\* grandparent that exits, because one process at most forks and the others
\* are its children or init's.
NoTerminal ==
  \A p \in Procs :
    (Posted[p] \cup IntrSigs[p]) \cap {SIGTSTP, SIGTTIN} \subseteq Ignored[p]

OneForks(top) ==
  /\ Forks \subseteq {top}
  /\ \A p \in Procs : Parent[p] \in {Swapper, InitProc, top}

Shallow == \E top \in Procs : OneForks(top)

FreeStops ==
  /\ \A p \in Procs : Held[p] \cap StopSig = {}
  /\ NoTerminal \/ Shallow

\* The process that forks.
Top == CHOOSE top \in Procs : OneForks(top)

\* What is in p_cursig of a process x at the given place in the kernel: none
\* where it is not looking for signals, unless it will go through issig()
\* before it gets there, and one to act on where it is acted on.
SoundAt(k, label, x) ==
  /\ label = "woken" => k.p_cursig[x] = NoSig \/ Cleared(k, x)
  /\ label \in {"run", "procdup", "wait", "waitsleep", "rest"} =>
       k.p_cursig[x] = NoSig
  /\ label \in {"trap", "psig"} => k.p_cursig[x] \in Caught[x] \cup FatalSig
  /\ label = "exit" => k.p_cursig[x] \in FatalSig

\* Moreover a process that may be stopped is inside sleep() or issig().
SureAt(k, label, x) ==
  /\ Stoppable(k, x) => label \in {"woken", "issig", "swtch"}
  /\ k.p_stat[x] = "free" => k.p_cursig[x] = NoSig
  /\ k.p_pptr[x] # InitProc => SoundAt(k, label, x)

\* The parents, when only one process forks.
Flat(k) ==
  ~NoTerminal => \A x \in Procs : k.p_pptr[x] \in {Swapper, InitProc, Top}

\* The inductive invariant, beside SInv.
Sure(k, at) == Flat(k) /\ \A x \in Procs : SureAt(k, at[x], x)

\* init has not come to its exit() alive.
Alive == pc[InitProc] = "exit1" => ~NoPanic

\* The one that forks.
LEMMA TopForks ==
  ASSUME FreeStops, ~NoTerminal
  PROVE  Top \in Procs /\ OneForks(Top)
BY DEF FreeStops, Shallow, Top

\* A process that is spared is as sure as it was.
LEMMA SparesSureAt ==
  ASSUME NEW k, NEW k2, NEW x, NEW label, SureAt(k, label, x),
         SparesAt(k, k2, x), k2.p_pptr[x] = k.p_pptr[x]
  PROVE  SureAt(k2, label, x)
<1>1. Stoppable(k, x) => k.p_stat[x] # "free"
  BY DEF Stoppable
<1> QED BY <1>1 DEF SureAt, SoundAt, SparesAt

\* A step in which no process moves.
LEMMA SparesSure ==
  ASSUME Sure(kern, pc), Spares(kern, kern'),
         \A x \in Procs : pc'[x] = pc[x]
  PROVE  Sure(kern', pc')
BY SparesSureAt DEF Sure, Spares, Flat

\* A step of p, which goes to label.
LEMMA StepSure ==
  ASSUME Sure(kern, pc), NEW p \in Procs, NEW label, pc \in [All -> PC],
         kern'.p_pptr = kern.p_pptr, pc' = [pc EXCEPT ![p] = label],
         \A x \in Procs \ {p} : SparesAt(kern, kern', x),
         SureAt(kern', label, p)
  PROVE  Sure(kern', pc')
<1>1. \A x \in Procs : pc'[x] = IF x = p THEN label ELSE pc[x]
  BY DEF All
<1> QED BY <1>1, SparesSureAt DEF Sure, Flat

\* The same when the running process is spared as well: p_cursig is its own.
LEMMA RunSure ==
  ASSUME Sure(kern, pc), NEW p \in Procs, NEW label, pc \in [All -> PC],
         kern.p_stat[p] = "SRUN", Spares(kern, kern'),
         pc' = [pc EXCEPT ![p] = label],
         kern'.p_cursig[p] = kern.p_cursig[p] /\ kern.p_pptr[p] # InitProc =>
           SoundAt(kern', label, p)
  PROVE  Sure(kern', pc')
<1>1. ~Stoppable(kern, p)
  BY DEF Stoppable
<1>2. /\ ~Stoppable(kern', p) /\ kern'.p_cursig[p] = kern.p_cursig[p]
      /\ kern'.p_stat[p] # "free" /\ kern'.p_pptr = kern.p_pptr
  BY <1>1 DEF Spares, SparesAt
<1>3. SureAt(kern', label, p)
  BY <1>2 DEF SureAt
<1>4. \A x \in Procs \ {p} : SparesAt(kern, kern', x)
  BY DEF Spares
<1> QED BY <1>2, <1>3, <1>4, StepSure

\* p itself, where it runs.
LEMMA MineSound ==
  ASSUME Sure(kern, pc), NEW p \in Procs, NEW label, pc[p] = label,
         kern.p_pptr[p] # InitProc
  PROVE  SoundAt(kern, label, p)
BY DEF Sure, SureAt

-----------------------------------------------------------------------------
(***************************************************************************)
(* The steps of a process.                                                 *)
(***************************************************************************)

\* Steps that change no more than where the process is, outside issig().
LEMMA IdleSure ==
  ASSUME Sure(kern, pc), IInv, NEW p \in Procs, Wait(p) \/ WaitNone(p)
  PROVE  Sure(kern', pc')
<1>1. PICK from \in {"run", "wait"} :
        At(p, from) /\ kern' = kern
        /\ \E to \in {"run", "wait", "waitsleep"} : pc' = [pc EXCEPT ![p] = to]
  BY DEF Wait, WaitNone, Goto
<1>2. PICK to \in {"run", "wait", "waitsleep"} : pc' = [pc EXCEPT ![p] = to]
  BY <1>1
<1>a. from \notin {"swtch", "exit1"}
  OBVIOUS
<1>3. /\ kern \in Kern /\ pc \in [All -> PC] /\ kern.p_stat[p] = "SRUN"
      /\ pc[p] = from
  BY <1>1, <1>a, AtFacts
<1>4. Spares(kern, kern')
  BY <1>1, <1>3, NudgesRefl, NudgesSpares
<1>5. kern.p_pptr[p] # InitProc => SoundAt(kern', to, p)
  BY <1>1, <1>3, MineSound DEF SoundAt
<1> QED BY <1>2, <1>3, <1>4, <1>5, RunSure

\* The trap exit goes to psig() for what is in p_cursig, and that is nothing
\* unless issig() has put it there.
LEMMA TrapExitSure ==
  ASSUME Sure(kern, pc), IInv, NEW p \in Procs, TrapExit(p)
  PROVE  Sure(kern', pc')
<1>1. PICK from \in {"run", "trap"} : At(p, from)
  BY DEF TrapExit
<1>2. PICK to \in {"psig", "issig", "rest"} :
        /\ pc' = [pc EXCEPT ![p] = to] /\ kern' = kern
        /\ to = "psig" <=> kern.p_cursig[p] # NoSig
  BY DEF TrapExit, Goto
<1>a. from \notin {"swtch", "exit1"}
  OBVIOUS
<1>3. /\ kern \in Kern /\ pc \in [All -> PC] /\ kern.p_stat[p] = "SRUN"
      /\ pc[p] = from
  BY <1>1, <1>a, AtFacts
<1>4. Spares(kern, kern')
  BY <1>2, <1>3, NudgesRefl, NudgesSpares
<1>5. kern.p_pptr[p] # InitProc => SoundAt(kern', to, p)
  BY <1>2, <1>3, MineSound DEF SoundAt
<1> QED BY <1>2, <1>3, <1>4, <1>5, RunSure

\* sleep() after its swtch(): what is left in p_cursig of the stop that was
\* ended by a signal still pending goes through issig().
LEMMA WokenSure ==
  ASSUME FreeStops, Sure(kern, pc), IInv, NEW p \in Procs, Woken(p)
  PROVE  Sure(kern', pc')
<1>1. At(p, "woken") /\ kern' = kern
  BY DEF Woken
<1>a. "woken" \notin {"swtch", "exit1"}
  OBVIOUS
<1>2. /\ kern \in Kern /\ pc \in [All -> PC] /\ kern.p_stat[p] = "SRUN"
      /\ pc[p] = "woken" /\ ret[p] \in {"run", "wait"} /\ p \in All
  BY <1>1, <1>a, AtFacts
<1>3. PICK to \in {"issig", "run", "wait"} :
        /\ pc' = [pc EXCEPT ![p] = to]
        /\ to # "issig" => SigBits(kern, p) = {}
  BY <1>2 DEF Woken, Goto
<1>4. Spares(kern, kern')
  BY <1>1, <1>2, NudgesRefl, NudgesSpares
<1>5. Bound(kern, p) => SigBits(kern, p) # {}
  <2>1. /\ SIGKILL \notin Ignored[p] \cup Held[p]
        /\ SIGCONT \notin Ignored[p] \cup Held[p]
    BY <1>2, SignalAssumption
  <2>2. Held[p] \cap StopSig = {}
    BY DEF FreeStops
  <2> QED BY <2>1, <2>2 DEF Bound, Wakers, SigBits
<1>6. kern.p_pptr[p] # InitProc => SoundAt(kern', to, p)
  BY <1>1, <1>2, <1>3, <1>5, MineSound DEF SoundAt, Cleared
<1> QED BY <1>2, <1>3, <1>4, <1>6, RunSure

\* psig() of a signal that is not caught comes to exit(): it is a fatal one.
LEMMA PsigSure ==
  ASSUME Sure(kern, pc), IInv, NEW p \in Procs, Psig(p)
  PROVE  Sure(kern', pc')
<1> DEFINE sig == kern.p_cursig[p]
           k == [kern EXCEPT !.p_cursig[p] = NoSig]
<1>1. At(p, "psig")
  BY DEF Psig
<1>a. "psig" \notin {"swtch", "exit1"}
  OBVIOUS
<1>2. /\ kern \in Kern /\ pc \in [All -> PC] /\ kern.p_stat[p] = "SRUN"
      /\ pc[p] = "psig" /\ p \in All
  BY <1>1, <1>a, AtFacts
<1>3. \/ pc' = pc /\ \E why \in Why \ {""} : kern' = Panic(kern, why)
      \/ pc' = [pc EXCEPT ![p] = "rest"] /\ kern' = k
      \/ /\ pc' = [pc EXCEPT ![p] = "exit"] /\ kern' = kern
         /\ sig \notin Caught[p]
  BY DEF Psig, Goto, Why
<1>4. CASE pc' = pc /\ \E why \in Why \ {""} : kern' = Panic(kern, why)
  BY <1>2, <1>4, PanicNudges, NudgesSpares, SparesSure
<1>5. CASE pc' = [pc EXCEPT ![p] = "rest"] /\ kern' = k
  <2>1. /\ k.p_pptr = kern.p_pptr /\ k.p_stat = kern.p_stat
        /\ k.p_sig = kern.p_sig /\ k.p_pri = kern.p_pri
        /\ k.p_cursig = [kern.p_cursig EXCEPT ![p] = NoSig]
    BY <1>2 DEF Kern
  <2>2. \A x \in All : k.p_cursig[x] = IF x = p THEN NoSig
                                       ELSE kern.p_cursig[x]
    BY <1>2, <2>1, KernTypes
  <2> HIDE DEF k
  <2>3. \A x \in Procs \ {p} : SparesAt(kern, k, x)
    BY <2>1, <2>2 DEF SparesAt, Stoppable, Cleared, Bound, All
  <2>4. SureAt(k, "rest", p)
    BY <1>2, <2>1, <2>2 DEF SureAt, SoundAt, Stoppable
  <2> QED BY <1>2, <1>5, <2>1, <2>3, <2>4, StepSure
<1>6. CASE /\ pc' = [pc EXCEPT ![p] = "exit"] /\ kern' = kern
           /\ sig \notin Caught[p]
  <2>1. Spares(kern, kern')
    BY <1>2, <1>6, NudgesRefl, NudgesSpares
  <2>2. kern.p_pptr[p] # InitProc => SoundAt(kern', "exit", p)
    BY <1>2, <1>6, MineSound DEF SoundAt
  <2> QED BY <1>2, <1>6, <2>1, <2>2, RunSure
<1> QED BY <1>3, <1>4, <1>5, <1>6

\* rest: the priority of the running process, and its way onto a run queue.
LEMMA RestSure ==
  ASSUME Sure(kern, pc), IInv, NEW p \in Procs, Rest(p)
  PROVE  Sure(kern', pc')
<1>1. PICK usrpri \in UserPri :
        \/ kern' = [kern EXCEPT !.p_pri[p] = usrpri]
        \/ kern' = Setrq([kern EXCEPT !.p_pri[p] = usrpri], p)
  BY DEF Rest
<1> DEFINE k == [kern EXCEPT !.p_pri[p] = usrpri]
<1>2. At(p, "rest") /\ pc' = [pc EXCEPT ![p] = "run"]
  BY DEF Rest, Goto
<1>a. "rest" \notin {"swtch", "exit1"}
  OBVIOUS
<1>3. /\ kern \in Kern /\ pc \in [All -> PC] /\ kern.p_stat[p] = "SRUN"
      /\ pc[p] = "rest" /\ p \in All
  BY <1>2, <1>a, AtFacts
<1>4. /\ usrpri \in Pri
      /\ kern.p_pri \in [All -> Pri]
  BY <1>3, KernTypes, ChanAssumption DEF Pri
<1>5. /\ k \in Kern /\ k.p_pptr = kern.p_pptr /\ k.p_stat = kern.p_stat
      /\ k.p_sig = kern.p_sig /\ k.p_cursig = kern.p_cursig
      /\ k.p_pri = [kern.p_pri EXCEPT ![p] = usrpri]
  BY <1>3, <1>4 DEF Kern
<1>6. \A x \in All \ {p} : k.p_pri[x] = kern.p_pri[x]
  BY <1>4, <1>5
<1>b. kern' = k \/ kern' = Setrq(k, p)
  BY <1>1
<1> HIDE DEF k
<1>7. Spares(kern, k)
  BY <1>3, <1>5, <1>6 DEF Spares, SparesAt, Stoppable, Cleared, Bound, All
<1>8. Spares(k, kern')
  <2>1. Nudges(k, k) /\ Nudges(k, Setrq(k, p))
    BY <1>3, <1>5, NudgesRefl, SetrqNudges
  <2> QED BY <1>b, <2>1, NudgesSpares
<1>9. Spares(kern, kern')
  BY <1>7, <1>8, SparesTrans
<1>10. kern'.p_cursig[p] = kern.p_cursig[p] /\ kern.p_pptr[p] # InitProc =>
         SoundAt(kern', "run", p)
  BY <1>3, MineSound DEF SoundAt
<1> QED BY <1>2, <1>3, <1>9, <1>10, RunSure

\* The call of sleep(): to issig(), or to sleep with p_cursig empty.
LEMMA SleepCallSure ==
  ASSUME Sure(kern, pc), IInv, NEW p \in Procs, NEW from, NEW back,
         <<from, back>> \in {<<"run", "run">>, <<"waitsleep", "wait">>},
         At(p, from), NEW chan \in AllChan, NEW pri \in {PZERO, PWAIT},
         back = "wait" => pri = PWAIT,
         SleepCall(p, chan, pri, back)
  PROVE  Sure(kern', pc')
<1> DEFINE k == EnterSleep(kern, p, chan, pri)
           k2 == [k EXCEPT !.p_stat[p] = "SSLEEP"]
<1>a. from \notin {"swtch", "exit1"} /\ from \in {"run", "waitsleep"}
      /\ back \in {"run", "wait"}
  OBVIOUS
<1>1. /\ kern \in Kern /\ pc \in [All -> PC] /\ kern.p_stat[p] = "SRUN"
      /\ pc[p] = from /\ p \in All /\ kern.p_rlink[p] = NoQ
  BY <1>a, AtFacts
<1>2. /\ kern.p_pri \in [All -> Pri] /\ pri \in Pri
      /\ kern.p_wchan \in [All -> AllChan \cup {NoChan}]
  BY <1>1, KernTypes DEF Pri
<1>3. k = [kern EXCEPT !.p_wchan[p] = chan, !.p_pri[p] = pri]
  BY <1>1 DEF EnterSleep
<1>4. /\ k \in Kern /\ k.p_pptr = kern.p_pptr /\ k.p_stat = kern.p_stat
      /\ k.p_sig = kern.p_sig /\ k.p_cursig = kern.p_cursig
      /\ k.p_pri = [kern.p_pri EXCEPT ![p] = pri]
  <2> DEFINE w == [kern.p_wchan EXCEPT ![p] = chan]
             r == [kern.p_pri EXCEPT ![p] = pri]
  <2>1. w \in [All -> AllChan \cup {NoChan}] /\ r \in [All -> Pri]
    BY <1>2
  <2>2. k = [kern EXCEPT !.p_wchan = w, !.p_pri = r]
    BY <1>1, <1>3 DEF Kern
  <2>3. r = [kern.p_pri EXCEPT ![p] = pri]
    OBVIOUS
  <2> HIDE DEF w, r, k
  <2>4. /\ k \in Kern /\ k.p_pptr = kern.p_pptr /\ k.p_stat = kern.p_stat
        /\ k.p_sig = kern.p_sig /\ k.p_cursig = kern.p_cursig
        /\ k.p_pri = r
    BY <1>1, <2>1, <2>2 DEF Kern
  <2> QED BY <2>3, <2>4
<1>5. \A x \in All : k.p_pri[x] = IF x = p THEN pri ELSE kern.p_pri[x]
  BY <1>1, <1>2, <1>4
<1>b. /\ pri > PZERO /\ kern' = k /\ pc' = [pc EXCEPT ![p] = "issig"]
      \/ /\ kern' = k2
         /\ pc' = [pc EXCEPT ![p] = IF pri > PZERO THEN "woken" ELSE back]
  BY DEF SleepCall, Goto
<1>c. kern.p_pptr[p] # InitProc => kern.p_cursig[p] = NoSig
  BY <1>1, <1>a, MineSound DEF SoundAt
<1> HIDE DEF k
<1>6. CASE kern' = k /\ pc' = [pc EXCEPT ![p] = "issig"]
  <2>1. Spares(kern, k)
    BY <1>1, <1>4, <1>5 DEF Spares, SparesAt, Stoppable, Cleared, Bound, All
  <2>2. SoundAt(k, "issig", p)
    BY DEF SoundAt
  <2> QED BY <1>1, <1>6, <2>1, <2>2, RunSure
<1>7. CASE /\ kern' = k2
           /\ pc' = [pc EXCEPT ![p] = IF pri > PZERO THEN "woken" ELSE back]
  <2>1. /\ k2 \in Kern /\ k2.p_pptr = k.p_pptr /\ k2.p_pri = k.p_pri
        /\ k2.p_sig = k.p_sig /\ k2.p_cursig = k.p_cursig
        /\ k2.p_stat = [k.p_stat EXCEPT ![p] = "SSLEEP"]
    BY <1>4 DEF Kern, Stat
  <2>2. \A x \in All : k2.p_stat[x] = IF x = p THEN "SSLEEP"
                                      ELSE kern.p_stat[x]
    BY <1>1, <1>4, <2>1, KernTypes
  <2> HIDE DEF k2
  <2>3. \A x \in Procs \ {p} : SparesAt(kern, k2, x)
    BY <1>4, <1>5, <2>1, <2>2 DEF SparesAt, Stoppable, Cleared, Bound, All
  <2>4. CASE pri = PZERO
    <3>a. ~(pri > PZERO) /\ pri # PWAIT
      BY <2>4 DEF PZERO, PWAIT
    <3>b. back = "run"
      BY <1>a, <3>a
    <3>1. back = "run" /\ pc' = [pc EXCEPT ![p] = "run"]
      BY <1>7, <3>a, <3>b
    <3>2. SureAt(k2, "run", p)
      BY <1>1, <1>4, <1>5, <1>c, <2>1, <2>2, <2>4
      DEF SureAt, SoundAt, Stoppable, PZERO
    <3> QED BY <1>1, <1>4, <1>7, <2>1, <2>3, <3>1, <3>2, StepSure
  <2>5. CASE pri = PWAIT
    <3>1. pc' = [pc EXCEPT ![p] = "woken"]
      BY <1>7, <2>5 DEF PZERO, PWAIT
    <3>2. SureAt(k2, "woken", p)
      BY <1>1, <1>4, <1>c, <2>1, <2>2 DEF SureAt, SoundAt
    <3> QED BY <1>1, <1>4, <1>7, <2>1, <2>3, <3>1, <3>2, StepSure
  <2> QED BY <2>4, <2>5
<1> QED BY <1>b, <1>6, <1>7

\* sleep() by a system call, and the one of wait1().
LEMMA SleepSure ==
  ASSUME Sure(kern, pc), IInv, NEW p \in Procs, Sleep(p) \/ WaitSleep(p)
  PROVE  Sure(kern', pc')
<1>1. CASE Sleep(p)
  <2>1. PICK arg \in SleepsOn[p] : SleepCall(p, arg[1], arg[2], "run")
    BY <1>1 DEF Sleep
  <2>2. arg \in Chan \X {PZERO, PWAIT}
    BY <2>1, ChanAssumption
  <2>3. arg[1] \in AllChan /\ arg[2] \in {PZERO, PWAIT}
    BY <2>2 DEF AllChan
  <2>4. At(p, "run")
    BY <1>1 DEF Sleep
  <2> QED BY <2>1, <2>3, <2>4, SleepCallSure
<1>2. CASE WaitSleep(p)
  <2>1. At(p, "waitsleep") /\ SleepCall(p, ChanOf[p], PWAIT, "wait")
    BY <1>2 DEF WaitSleep
  <2>2. ChanOf[p] \in AllChan
    BY ChanAssumption DEF All, AllChan
  <2> QED BY <2>1, <2>2, SleepCallSure
<1> QED BY <1>1, <1>2

\* The end of fork(): the child is made runnable.
LEMMA ProcdupSure ==
  ASSUME Sure(kern, pc), IInv, NEW p \in Procs, Procdup(p)
  PROVE  Sure(kern', pc')
<1>1. PICK q \in Procs :
        /\ kern.p_stat[q] = "SIDL"
        /\ kern' = Setrq([kern EXCEPT !.p_stat[q] = "SRUN"], q)
  BY DEF Procdup
<1> DEFINE k == [kern EXCEPT !.p_stat[q] = "SRUN"]
<1>2. At(p, "procdup") /\ pc' = [pc EXCEPT ![p] = "run"]
  BY DEF Procdup, Goto
<1>a. "procdup" \notin {"swtch", "exit1"}
  OBVIOUS
<1>3. /\ kern \in Kern /\ pc \in [All -> PC] /\ kern.p_stat[p] = "SRUN"
      /\ pc[p] = "procdup" /\ p \in All
  BY <1>2, <1>a, AtFacts
<1>4. q \in All
  BY DEF All
<1>5. /\ k \in Kern /\ k.p_pptr = kern.p_pptr /\ k.p_pri = kern.p_pri
      /\ k.p_sig = kern.p_sig /\ k.p_cursig = kern.p_cursig
      /\ k.p_stat = [kern.p_stat EXCEPT ![q] = "SRUN"]
  BY <1>3, <1>4 DEF Kern, Stat
<1>6. \A x \in All : k.p_stat[x] = IF x = q THEN "SRUN" ELSE kern.p_stat[x]
  BY <1>3, <1>4, <1>5, KernTypes
<1>b. kern' = Setrq(k, q)
  BY <1>1
<1> HIDE DEF k
<1>7. Spares(kern, k)
  BY <1>1, <1>5, <1>6 DEF Spares, SparesAt, Stoppable, Cleared, Bound, All
<1>8. Nudges(k, kern')
  BY <1>4, <1>5, <1>b, SetrqNudges
<1>9. Spares(kern, kern')
  BY <1>7, <1>8, NudgesSpares, SparesTrans
<1>10. kern'.p_cursig[p] = kern.p_cursig[p] /\ kern.p_pptr[p] # InitProc =>
         SoundAt(kern', "run", p)
  BY <1>3, MineSound DEF SoundAt
<1> QED BY <1>2, <1>3, <1>9, <1>10, RunSure

\* fork(): the slot comes without a signal in p_cursig.
LEMMA ForkSure ==
  ASSUME FreeStops, Sure(kern, pc), IInv, NEW p \in Procs, Fork(p)
  PROVE  Sure(kern', pc')
<1>1. PICK q \in Procs :
        /\ kern.p_stat[q] = "free"
        /\ kern' = [kern EXCEPT !.p_stat[q] = "SIDL", !.p_pptr[q] = p,
                                !.p_wchan[q] = NoChan,
                                !.sload = @ \cup {q}, !.swted = @ \ {q}]
        /\ pc' = [pc EXCEPT ![p] = "procdup", ![q] = "run"]
  BY DEF Fork
<1>2. At(p, "run") /\ p \in Forks
  BY DEF Fork
<1>a. "run" \notin {"swtch", "exit1"}
  OBVIOUS
<1>3. /\ kern \in Kern /\ pc \in [All -> PC] /\ kern.p_stat[p] = "SRUN"
      /\ pc[p] = "run" /\ p \in All /\ q \in All
  BY <1>2, <1>a, AtFacts DEF All
<1>4. q # p
  BY <1>1, <1>3
<1>5. /\ kern'.p_sig = kern.p_sig /\ kern'.p_cursig = kern.p_cursig
      /\ kern'.p_pri = kern.p_pri
      /\ kern'.p_pptr = [kern.p_pptr EXCEPT ![q] = p]
      /\ kern'.p_stat = [kern.p_stat EXCEPT ![q] = "SIDL"]
  BY <1>1, <1>3 DEF Kern
<1>6. \A x \in All :
        kern'.p_stat[x] = IF x = q THEN "SIDL" ELSE kern.p_stat[x]
  BY <1>3, <1>5, KernTypes
<1>7. \A x \in Procs :
        kern'.p_pptr[x] = IF x = q THEN p ELSE kern.p_pptr[x]
  BY <1>3, <1>5, KernTypes
<1>8. \A x \in Procs : pc'[x] = IF x = q THEN "run"
                                ELSE IF x = p THEN "procdup" ELSE pc[x]
  BY <1>1, <1>3, <1>4 DEF All
<1>9. Flat(kern')
  BY <1>2, <1>7, TopForks DEF Sure, Flat, OneForks
<1>10. SureAt(kern', "run", q)
  BY <1>1, <1>3, <1>5, <1>6 DEF Sure, SureAt, SoundAt, Stoppable
<1>11. SureAt(kern', "procdup", p)
  BY <1>3, <1>4, <1>5, <1>6, <1>7 DEF Sure, SureAt, SoundAt, Stoppable
<1>12. ASSUME NEW x \in Procs \ {p, q}
       PROVE  SureAt(kern', pc[x], x)
  <2>1. SureAt(kern, pc[x], x)
    BY DEF Sure
  <2>2. SparesAt(kern, kern', x) /\ kern'.p_pptr[x] = kern.p_pptr[x]
    BY <1>5, <1>6, <1>7 DEF SparesAt, Stoppable, Cleared, Bound, All
  <2> QED BY <2>1, <2>2, SparesSureAt
<1> QED BY <1>8, <1>9, <1>10, <1>11, <1>12 DEF Sure

\* wait1() frees a slot: nothing is left in its p_cursig.
LEMMA WaitReapSure ==
  ASSUME Sure(kern, pc), IInv, NEW p \in Procs, WaitReap(p)
  PROVE  Sure(kern', pc')
<1>1. PICK q \in Procs :
        /\ kern.p_stat[q] = "SZOMB"
        /\ kern' = [kern EXCEPT !.p_stat[q] = "free", !.p_pptr[q] = Swapper,
                                !.p_sig[q] = {}, !.p_cursig[q] = NoSig,
                                !.p_wchan[q] = NoChan,
                                !.sload = @ \ {q}, !.swted = @ \ {q}]
  BY DEF WaitReap, Children
<1>2. At(p, "wait") /\ pc' = [pc EXCEPT ![p] = "run"]
  BY DEF WaitReap, Goto
<1>a. "wait" \notin {"swtch", "exit1"}
  OBVIOUS
<1>3. /\ kern \in Kern /\ pc \in [All -> PC] /\ kern.p_stat[p] = "SRUN"
      /\ pc[p] = "wait" /\ p \in All /\ q \in All
  BY <1>2, <1>a, AtFacts DEF All
<1>4. q # p /\ pc[q] \in {"exit1", "zombie"}
  BY <1>1, <1>3 DEF IInv, Ctl, PcCtl
<1>5. /\ kern'.p_pri = kern.p_pri
      /\ kern'.p_sig = [kern.p_sig EXCEPT ![q] = {}]
      /\ kern'.p_cursig = [kern.p_cursig EXCEPT ![q] = NoSig]
      /\ kern'.p_pptr = [kern.p_pptr EXCEPT ![q] = Swapper]
      /\ kern'.p_stat = [kern.p_stat EXCEPT ![q] = "free"]
  BY <1>1, <1>3 DEF Kern
<1>6. \A x \in All :
        /\ kern'.p_stat[x] = IF x = q THEN "free" ELSE kern.p_stat[x]
        /\ kern'.p_cursig[x] = IF x = q THEN NoSig ELSE kern.p_cursig[x]
        /\ x # q => kern'.p_sig[x] = kern.p_sig[x]
  BY <1>3, <1>5, KernTypes
<1>7. \A x \in Procs :
        kern'.p_pptr[x] = IF x = q THEN Swapper ELSE kern.p_pptr[x]
  BY <1>3, <1>5, KernTypes
<1>8. \A x \in Procs : pc'[x] = IF x = p THEN "run" ELSE pc[x]
  BY <1>2, <1>3 DEF All
<1>9. Flat(kern')
  BY <1>7 DEF Sure, Flat
<1>10. SureAt(kern', pc[q], q)
  BY <1>3, <1>4, <1>6 DEF SureAt, SoundAt, Stoppable
<1>11. SureAt(kern', "run", p)
  BY <1>3, <1>4, <1>6, <1>7 DEF Sure, SureAt, SoundAt, Stoppable
<1>12. ASSUME NEW x \in Procs \ {p, q}
       PROVE  SureAt(kern', pc[x], x)
  <2>1. SureAt(kern, pc[x], x)
    BY DEF Sure
  <2>2. SparesAt(kern, kern', x) /\ kern'.p_pptr[x] = kern.p_pptr[x]
    BY <1>5, <1>6, <1>7 DEF SparesAt, Stoppable, Cleared, Bound, All
  <2> QED BY <2>1, <2>2, SparesSureAt
<1> QED BY <1>4, <1>8, <1>9, <1>10, <1>11, <1>12 DEF Sure

\* A stopped child is reported.
LEMMA WaitStoppedSure ==
  ASSUME Sure(kern, pc), IInv, NEW p \in Procs, WaitStopped(p)
  PROVE  Sure(kern', pc')
<1>1. PICK q \in Procs : kern' = [kern EXCEPT !.swted = @ \cup {q}]
  BY DEF WaitStopped, Unreported, Children
<1>2. At(p, "wait") /\ pc' = [pc EXCEPT ![p] = "run"]
  BY DEF WaitStopped, Goto
<1>a. "wait" \notin {"swtch", "exit1"}
  OBVIOUS
<1>3. /\ kern \in Kern /\ pc \in [All -> PC] /\ kern.p_stat[p] = "SRUN"
      /\ pc[p] = "wait" /\ p \in All /\ q \in All
  BY <1>2, <1>a, AtFacts DEF All
<1> DEFINE S == kern.swted \cup {q}
<1>4. S \in SUBSET All /\ kern' = [kern EXCEPT !.swted = S]
  BY <1>1, <1>3, KernTypes
<1> HIDE DEF S
<1>5. /\ kern' \in Kern /\ kern'.p_pptr = kern.p_pptr
      /\ kern'.p_sig = kern.p_sig /\ kern'.p_cursig = kern.p_cursig
      /\ kern'.p_pri = kern.p_pri /\ kern'.p_stat = kern.p_stat
  BY <1>3, <1>4 DEF Kern
<1>6. Spares(kern, kern')
  BY <1>5, NudgesSame, NudgesSpares
<1>7. kern.p_pptr[p] # InitProc => SoundAt(kern', "run", p)
  BY <1>3, <1>5, MineSound DEF SoundAt
<1> QED BY <1>2, <1>3, <1>6, <1>7, RunSure

\* issig() takes a signal: it is in p_cursig then.
LEMMA TakeSpares ==
  ASSUME NEW k \in Kern, NEW p \in Procs, SigBits(k, p) # {},
         k.p_stat[p] = "SRUN", NEW k2, k2 = Take(k, p)
  PROVE  /\ k2 \in Kern /\ k2.p_pptr = k.p_pptr /\ k2.p_stat = k.p_stat
         /\ k2.p_cursig[p] = NextSig(k, p)
         /\ \A x \in Procs \ {p} : SparesAt(k, k2, x)
<1> DEFINE sig == NextSig(k, p)
           f == Forget(k, p, sig)
<1>1. p \in All /\ sig \in Sig
  BY NextSigSig DEF All
<1>2. k2 = [f EXCEPT !.p_cursig[p] = sig]
  BY DEF Take
<1> HIDE DEF sig
<1>3. /\ f \in Kern /\ f.p_cursig = k.p_cursig /\ f.p_pptr = k.p_pptr
      /\ f.p_stat = k.p_stat /\ \A x \in All \ {p} : f.p_sig[x] = k.p_sig[x]
  BY <1>1, ForgetFacts
<1>4. f.p_pri = k.p_pri
  BY DEF Forget, Kern
<1> HIDE DEF f
<1>5. /\ k2 \in Kern /\ k2.p_pptr = f.p_pptr /\ k2.p_stat = f.p_stat
      /\ k2.p_sig = f.p_sig /\ k2.p_pri = f.p_pri
      /\ k2.p_cursig = [f.p_cursig EXCEPT ![p] = sig]
  <2> DEFINE c == [f.p_cursig EXCEPT ![p] = sig]
  <2>1. f.p_cursig \in [All -> Sig \cup {NoSig}]
    BY <1>3, KernTypes
  <2>2. c \in [All -> Sig \cup {NoSig}]
    BY <1>1, <2>1
  <2>3. k2 = [f EXCEPT !.p_cursig = c]
    BY <1>2, <1>3 DEF Kern
  <2> HIDE DEF c
  <2>4. /\ k2 \in Kern /\ k2.p_pptr = f.p_pptr /\ k2.p_stat = f.p_stat
        /\ k2.p_sig = f.p_sig /\ k2.p_pri = f.p_pri /\ k2.p_cursig = c
    BY <1>3, <2>2, <2>3 DEF Kern
  <2> QED BY <2>4 DEF c
<1>6. \A x \in All : k2.p_cursig[x] = IF x = p THEN sig ELSE k.p_cursig[x]
  BY <1>1, <1>3, <1>5, KernTypes
<1>7. \A x \in Procs \ {p} : SparesAt(k, k2, x)
  BY <1>3, <1>4, <1>5, <1>6 DEF SparesAt, Stoppable, Cleared, Bound, All
<1> QED BY <1>1, <1>3, <1>5, <1>6, <1>7 DEF sig

\* issig() with a signal: what it returns is caught or fatal.
LEMMA IssigTakeSure ==
  ASSUME Sure(kern, pc), IInv, NEW p \in Procs,
         \/ IssigSend(p) \/ IssigContinue(p) \/ IssigStop(p) \/ IssigKill(p)
  PROVE  Sure(kern', pc')
<1> DEFINE sig == NextSig(kern, p)
           k == Take(kern, p)
           k1 == Unsleep(k, p)
           k2 == [k1 EXCEPT !.p_stat[p] = "SRUN"]
           k3 == PsignalPlain(k, p, SIGKILL)
<1>1. At(p, "issig") /\ SigBits(kern, p) # {}
  BY DEF IssigSend, IssigContinue, IssigStop, IssigKill
<1>a. "issig" \notin {"swtch", "exit1"}
  OBVIOUS
<1>2. /\ kern \in Kern /\ pc \in [All -> PC] /\ kern.p_stat[p] = "SRUN"
      /\ pc[p] = "issig" /\ p \in All
  BY <1>1, <1>a, AtFacts
<1>3. PICK label \in {"issig", "psig", "trap", "chld"} :
        /\ pc' = [pc EXCEPT ![p] = label]
        /\ kern' \in {k, k2} \/ (label = "issig" /\ kern' = k3)
        /\ label \in {"psig", "trap"} => Disposition(kern, p) = "send"
  BY <1>2 DEF IssigSend, IssigContinue, IssigStop, IssigKill, Goto
<1>4. label \in {"psig", "trap"} => sig \in Caught[p] \cup FatalSig
  BY <1>3 DEF Disposition
<1>5. /\ k \in Kern /\ k.p_pptr = kern.p_pptr /\ k.p_stat = kern.p_stat
      /\ k.p_cursig[p] = sig
      /\ \A x \in Procs \ {p} : SparesAt(kern, k, x)
  BY <1>1, <1>2, TakeSpares
<1> HIDE DEF k, sig
<1>6. Spares(k, kern')
  <2>1. Nudges(k, k) /\ Nudges(k, k1)
    <3>1. Unsleep(k, p) \in {Unsleep(k, p), [k EXCEPT !.runout = TRUE],
                 [k EXCEPT !.wantin = TRUE], [k EXCEPT !.sload = {}],
                 [k EXCEPT !.swted = {}]}
      OBVIOUS
    <3> QED BY <1>2, <1>5, <3>1, NudgesRefl, FlagNudges
  <2>2. k1 \in Kern /\ k1.p_stat[p] = "SRUN" /\ k1.p_stat \in [All -> Stat]
    <3>1. k1 \in Kern
      BY <2>1 DEF Nudges
    <3>2. k1.p_stat = k.p_stat
      BY <1>5 DEF Unsleep, Kern
    <3> HIDE DEF k1
    <3> QED BY <1>2, <1>5, <3>1, <3>2, KernTypes
  <2> HIDE DEF k1
  <2>3. k2 \in Kern /\ k2.p_stat = k1.p_stat /\ k2.p_pptr = k1.p_pptr
        /\ k2.p_pri = k1.p_pri /\ k2.p_sig = k1.p_sig
        /\ k2.p_cursig = k1.p_cursig
    BY <1>2, <2>2 DEF Kern
  <2> HIDE DEF k2
  <2>4. Nudges(k1, k2)
    BY <2>3, NudgesSame
  <2>5. Spares(k, k) /\ Spares(k, k2)
    BY <2>1, <2>4, NudgesTrans, NudgesSpares
  <2>6. SIGKILL \in Sig \ StopSig
    BY DEF Sig, StopSig, SIGKILL, SIGSTOP, SIGTSTP, SIGTTIN
  <2>7. Spares(k, k3)
    BY <1>2, <1>5, <2>6, PsignalPlainSpares
  <2> QED BY <1>3, <2>5, <2>7
<1>7. /\ kern'.p_pptr = kern.p_pptr
      /\ \A x \in Procs \ {p} : SparesAt(kern, kern', x)
  BY <1>5, <1>6, SparesAtTrans DEF Spares
<1>8. SureAt(kern', label, p)
  <2>1. ~Stoppable(k, p) /\ k.p_stat[p] # "free"
    BY <1>2, <1>5 DEF Stoppable
  <2>2. /\ ~Stoppable(kern', p) /\ kern'.p_stat[p] # "free"
        /\ kern'.p_cursig[p] = sig
    BY <1>5, <1>6, <2>1 DEF Spares, SparesAt
  <2> QED BY <1>3, <1>4, <2>2 DEF SureAt, SoundAt
<1> QED BY <1>2, <1>3, <1>7, <1>8, StepSure

\* issig() without one clears p_cursig.
LEMMA IssigNoneSure ==
  ASSUME Sure(kern, pc), IInv, NEW p \in Procs, IssigNone(p)
  PROVE  Sure(kern', pc')
<1> DEFINE k == [kern EXCEPT !.p_cursig[p] = NoSig]
           k2 == [k EXCEPT !.p_stat[p] = "SSLEEP"]
<1>1. At(p, "issig")
  BY DEF IssigNone
<1>a. "issig" \notin {"swtch", "exit1"}
  OBVIOUS
<1>2. /\ kern \in Kern /\ pc \in [All -> PC] /\ kern.p_stat[p] = "SRUN"
      /\ pc[p] = "issig" /\ p \in All /\ ret[p] \in {"run", "wait"}
  BY <1>1, <1>a, AtFacts
<1>3. PICK label \in {"woken", "rest", "run", "wait"} :
        /\ pc' = [pc EXCEPT ![p] = label]
        /\ kern' = k \/ (kern' = k2 /\ label = "woken")
  BY <1>2 DEF IssigNone, Goto
<1>4. /\ k \in Kern /\ k.p_pptr = kern.p_pptr /\ k.p_stat = kern.p_stat
      /\ k.p_sig = kern.p_sig /\ k.p_pri = kern.p_pri
      /\ k.p_cursig = [kern.p_cursig EXCEPT ![p] = NoSig]
  BY <1>2 DEF Kern
<1>5. \A x \in All : k.p_cursig[x] = IF x = p THEN NoSig ELSE kern.p_cursig[x]
  BY <1>2, <1>4, KernTypes
<1> HIDE DEF k
<1>6. /\ k2 \in Kern /\ k2.p_pptr = k.p_pptr /\ k2.p_cursig = k.p_cursig
      /\ k2.p_sig = k.p_sig /\ k2.p_pri = k.p_pri
      /\ k2.p_stat = [k.p_stat EXCEPT ![p] = "SSLEEP"]
  BY <1>4 DEF Kern, Stat
<1>7. \A x \in All : k2.p_stat[x] = IF x = p THEN "SSLEEP" ELSE kern.p_stat[x]
  BY <1>2, <1>4, <1>6, KernTypes
<1> HIDE DEF k2
<1>8. /\ kern'.p_pptr = kern.p_pptr
      /\ \A x \in Procs \ {p} : SparesAt(kern, kern', x)
  <2>1. CASE kern' = k
    BY <1>4, <1>5, <2>1 DEF SparesAt, Stoppable, Cleared, Bound, All
  <2>2. CASE kern' = k2
    BY <1>4, <1>5, <1>6, <1>7, <2>2
    DEF SparesAt, Stoppable, Cleared, Bound, All
  <2> QED BY <1>3, <2>1, <2>2
<1>9. SureAt(kern', label, p)
  BY <1>2, <1>3, <1>4, <1>5, <1>6, <1>7 DEF SureAt, SoundAt, Stoppable
<1> QED BY <1>2, <1>3, <1>8, <1>9, StepSure

\* The three statements of a stop in issig().
LEMMA TellParentSure ==
  ASSUME Sure(kern, pc), IInv, NEW p \in Procs, TellParent(p)
  PROVE  Sure(kern', pc')
<1> DEFINE parent == kern.p_pptr[p]
<1>1. /\ At(p, "chld") /\ pc' = [pc EXCEPT ![p] = "stop"]
      /\ kern' = PsignalPlain(kern, parent, SIGCHLD)
  BY DEF TellParent, Goto
<1>a. "chld" \notin {"swtch", "exit1"}
  OBVIOUS
<1>2. /\ kern \in Kern /\ pc \in [All -> PC] /\ kern.p_stat[p] = "SRUN"
  BY <1>1, <1>a, AtFacts
<1>3. parent \in All /\ SIGCHLD \in Sig \ StopSig
  BY <1>2, KernTypes DEF Sig, StopSig, SIGCHLD, SIGSTOP, SIGTSTP, SIGTTIN
<1> HIDE DEF parent
<1>4. Spares(kern, kern')
  BY <1>1, <1>2, <1>3, PsignalPlainSpares
<1>5. SoundAt(kern', "stop", p)
  BY DEF SoundAt
<1> QED BY <1>1, <1>2, <1>4, <1>5, RunSure

\* stop() of the process itself.
LEMMA StopSelfSure ==
  ASSUME Sure(kern, pc), IInv, NEW p \in Procs, StopSelf(p)
  PROVE  Sure(kern', pc')
<1>1. /\ At(p, "stop") /\ pc' = [pc EXCEPT ![p] = "swtch"]
      /\ kern' = Stop(kern, p)
  BY DEF StopSelf, Goto
<1>2. kern \in Kern /\ pc \in [All -> PC]
  BY <1>1, AtFacts
<1>3. /\ kern'.p_pptr = kern.p_pptr /\ kern'.p_stat[p] = "SSTOP"
      /\ \A x \in Procs \ {p} : SparesAt(kern, kern', x)
  BY <1>1, <1>2, StopSpares
<1>4. SureAt(kern', "swtch", p)
  BY <1>3 DEF SureAt, SoundAt
<1> QED BY <1>1, <1>2, <1>3, <1>4, StepSure

\* It gives up the processor, and will go on in issig().
LEMMA SwtchStoppedSure ==
  ASSUME Sure(kern, pc), IInv, NEW p \in Procs, SwtchStopped(p)
  PROVE  Sure(kern', pc')
<1>1. At(p, "swtch") /\ pc' = [pc EXCEPT ![p] = "issig"] /\ kern' = kern
  BY DEF SwtchStopped, Goto
<1>2. kern \in Kern /\ pc \in [All -> PC] /\ kern.p_stat[p] = "SSTOP"
  BY <1>1, AtFacts
<1>3. Spares(kern, kern')
  BY <1>1, <1>2, NudgesRefl, NudgesSpares
<1>4. SureAt(kern', "issig", p)
  BY <1>1, <1>2 DEF SureAt, SoundAt
<1>5. /\ kern'.p_pptr = kern.p_pptr
      /\ \A x \in Procs \ {p} : SparesAt(kern, kern', x)
  BY <1>3 DEF Spares
<1> QED BY <1>1, <1>2, <1>4, <1>5, StepSure

\* kill().
LEMMA KillSure ==
  ASSUME Sure(kern, pc), IInv, NEW p \in Procs, Kill(p)
  PROVE  Sure(kern', pc')
<1>q. PICK q \in Procs : \E sig \in Posted[q] : kern' = Psignal(kern, q, sig)
  BY DEF Kill
<1>1. PICK sig \in Posted[q] : kern' = Psignal(kern, q, sig)
  BY <1>q
<1>2. sig \in Sig /\ kern \in Kern /\ pc' = pc
  BY SignalAssumption DEF Kill, IInv, TypeOK
<1>3. Spares(kern, kern')
  BY <1>1, <1>2, PsignalSpares
<1> QED BY <1>2, <1>3, SparesSure

-----------------------------------------------------------------------------
(***************************************************************************)
(* exit(), for the others.                                                 *)
(***************************************************************************)

\* The process is a zombie, and init is woken.
LEMMA ExitSure ==
  ASSUME Sure(kern, pc), IInv, NEW p \in Procs, Exit(p)
  PROVE  Sure(kern', pc')
<1> DEFINE k == [kern EXCEPT !.p_stat[p] = "SZOMB"]
<1>1. /\ At(p, "exit") /\ pc' = [pc EXCEPT ![p] = "exit1"]
      /\ kern' \in {Panic(k, "init died"), k, Wakeup(k, ChanOf[InitProc])}
  BY DEF Exit, Goto
<1>2. kern \in Kern /\ pc \in [All -> PC] /\ p \in All
  BY <1>1, AtFacts
<1>3. /\ k \in Kern /\ k.p_pptr = kern.p_pptr /\ k.p_pri = kern.p_pri
      /\ k.p_sig = kern.p_sig /\ k.p_cursig = kern.p_cursig
      /\ k.p_stat = [kern.p_stat EXCEPT ![p] = "SZOMB"]
  BY <1>2 DEF Kern, Stat
<1>4. \A x \in All : k.p_stat[x] = IF x = p THEN "SZOMB" ELSE kern.p_stat[x]
  BY <1>2, <1>3, KernTypes
<1> HIDE DEF k
<1>5. Spares(k, kern')
  <2>1. ChanOf[InitProc] \in AllChan
    BY ProcsAssumption, ChanAssumption DEF All, AllChan
  <2> QED BY <1>1, <1>3, <2>1, SparesRefl, QueueSpares DEF Why
<1>6. \A x \in Procs \ {p} : SparesAt(kern, k, x)
  BY <1>3, <1>4 DEF SparesAt, Stoppable, Cleared, Bound, All
<1>7. /\ kern'.p_pptr = kern.p_pptr
      /\ \A x \in Procs \ {p} : SparesAt(kern, kern', x)
  BY <1>3, <1>5, <1>6, SparesAtTrans DEF Spares
<1>8. SureAt(kern', "exit1", p)
  BY <1>2, <1>4, <1>5 DEF SureAt, SoundAt, Spares, SparesAt, Stoppable
<1> QED BY <1>1, <1>2, <1>7, <1>8, StepSure

\* The parent is told.
LEMMA ExitSwtchSure ==
  ASSUME Sure(kern, pc), IInv, NEW p \in Procs, ExitSwtch(p)
  PROVE  Sure(kern', pc')
<1> DEFINE parent == kern.p_pptr[p]
           chan == ChanOf[parent]
           k == PsignalPlain(kern, parent, SIGCHLD)
<1>1. /\ At(p, "exit1") /\ pc' = [pc EXCEPT ![p] = "zombie"]
      /\ kern' = Wakeup(k, chan)
  BY DEF ExitSwtch, Goto
<1>2. /\ kern \in Kern /\ pc \in [All -> PC] /\ p \in All
      /\ kern.p_stat[p] = "SZOMB"
  BY <1>1, AtFacts
<1>3. /\ parent \in All /\ chan \in AllChan
      /\ SIGCHLD \in Sig \ StopSig
  BY <1>2, KernTypes, ChanAssumption
  DEF AllChan, Sig, StopSig, SIGCHLD, SIGSTOP, SIGTSTP, SIGTTIN
<1> HIDE DEF chan, parent
<1>4. Spares(kern, k)
  BY <1>2, <1>3, PsignalPlainSpares
<1> HIDE DEF k
<1>5. k \in Kern
  BY <1>4 DEF Spares
<1>6. Spares(k, kern')
  BY <1>1, <1>3, <1>5, QueueSpares
<1>7. Spares(kern, kern')
  BY <1>4, <1>6, SparesTrans
<1>8. SureAt(kern', "zombie", p)
  BY <1>2, <1>7 DEF SureAt, SoundAt, Spares, SparesAt, Stoppable
<1>9. /\ kern'.p_pptr = kern.p_pptr
      /\ \A x \in Procs \ {p} : SparesAt(kern, kern', x)
  BY <1>7 DEF Spares
<1> QED BY <1>1, <1>2, <1>8, <1>9, StepSure

\* spgrp() takes no signal away that another process needs: nobody is below
\* the process it begins with, or the signals are ones that nobody sends.
LEMMA SpgrpSpares ==
  ASSUME FreeStops, NEW k \in Kern, NEW q \in Procs, NEW k2,
         k2 = Spgrp(k, q), Flat(k), \A x \in All : SigAt(k, x),
         ~NoTerminal => q # Top /\ q # InitProc
  PROVE  /\ k2 \in Kern /\ k2.p_pptr = k.p_pptr /\ k2.p_stat = k.p_stat
         /\ k2.p_pri = k.p_pri /\ k2.p_cursig = k.p_cursig
         /\ \A x \in Procs \ {q} : SparesAt(k, k2, x)
<1> DEFINE S == [r \in All |-> IF r \in Family(k, q)
                               THEN k.p_sig[r] \ {SIGTSTP, SIGTTIN}
                               ELSE k.p_sig[r]]
<1>1. k2 = [k EXCEPT !.p_sig = S]
  BY DEF Spgrp
<1>2. /\ S \in [All -> SUBSET Sig]
      /\ \A x \in All : /\ k.p_sig[x] \ {SIGTSTP, SIGTTIN} \subseteq S[x]
                        /\ x \notin Family(k, q) => S[x] = k.p_sig[x]
  BY KernTypes
<1> HIDE DEF S
<1>3. /\ k2 \in Kern /\ k2.p_sig = S /\ k2.p_cursig = k.p_cursig
      /\ k2.p_pptr = k.p_pptr /\ k2.p_pri = k.p_pri /\ k2.p_stat = k.p_stat
  BY <1>1, <1>2 DEF Kern
<1>4. ASSUME NEW x \in Procs \ {q}, Bound(k, x)
      PROVE  Bound(k2, x)
  <2>0. x \in All
    BY DEF All
  <2>1. CASE NoTerminal
    <3>1. k.p_sig[x] \cap StopSig \subseteq Posted[x] \cup IntrSigs[x]
      BY <2>0 DEF SigAt
    <3>2. \A sig \in k.p_sig[x] \cap {SIGTSTP, SIGTTIN} :
            sig \in StopSig /\ sig \notin Wakers(x)
      BY <2>1, <3>1 DEF NoTerminal, Wakers, StopSig, SIGKILL, SIGCONT, SIGSTOP,
                        SIGTSTP, SIGTTIN
    <3>3. k.p_sig[x] \cap Wakers(x) \subseteq S[x]
      BY <1>2, <2>0, <3>2
    <3> QED BY <1>3, <1>4, <3>3 DEF Bound
  <2>2. CASE ~NoTerminal
    <3>1. Children(k, q) = {}
      <4>1. \A c \in Procs : k.p_pptr[c] # q
        BY <2>2, ProcsAssumption DEF Flat
      <4> QED BY <4>1 DEF Children
    <3>2. Family(k, q) \subseteq {q}
      <4>1. /\ {q} \in SUBSET Procs /\ q \in {q}
            /\ \A s \in {q} : Children(k, s) \subseteq {q}
        BY <3>1
      <4> QED BY <4>1 DEF Family
    <3>3. S[x] = k.p_sig[x]
      BY <1>2, <2>0, <3>2
    <3> QED BY <1>3, <1>4, <3>3 DEF Bound
  <2> QED BY <2>1, <2>2
<1>5. \A x \in Procs \ {q} : SparesAt(k, k2, x)
  BY <1>3, <1>4 DEF SparesAt, Stoppable, Cleared
<1> QED BY <1>3, <1>5

\* A child is given to init.
LEMMA ExitChildSure ==
  ASSUME FreeStops, Sure(kern, pc), IInv, Tidy(kern), Alive,
         NEW p \in Procs, ExitChild(p)
  PROVE  Sure(kern', pc')
<1>1. PICK q \in Children(kern, p) :
        LET k  == [kern EXCEPT !.p_pptr[q] = InitProc]
            k1 == IF k.p_stat[q] = "SSTOP"
                  THEN PsignalPlain(PsignalPlain(k, q, SIGINT), q, SIGCONT)
                  ELSE k
        IN  kern' = Spgrp(k1, q)
  BY DEF ExitChild
<1> DEFINE k == [kern EXCEPT !.p_pptr[q] = InitProc]
           kint == PsignalPlain(k, q, SIGINT)
           kcont == PsignalPlain(kint, q, SIGCONT)
           k1 == IF k.p_stat[q] = "SSTOP" THEN kcont ELSE k
<1>2. kern' = Spgrp(k1, q) /\ At(p, "exit1") /\ pc' = pc
  BY <1>1 DEF ExitChild
<1>3. /\ kern \in Kern /\ q \in Procs /\ q \in All /\ InitProc \in All
      /\ kern.p_pptr[q] = p
  BY ProcsAssumption DEF IInv, TypeOK, All, Children
<1>4. SIGINT \in Sig \ StopSig /\ SIGCONT \in Sig \ StopSig
  BY DEF Sig, StopSig, SIGINT, SIGCONT, SIGSTOP, SIGTSTP, SIGTTIN
<1>5. p # InitProc
  BY <1>2 DEF Alive, At
<1>6. ~NoTerminal => q # Top /\ q # InitProc
  <2>1. /\ kern.p_pptr[InitProc] = Swapper /\ kern.p_pptr[q] # q
        /\ Swapper \notin Procs
    BY <1>3, ProcsAssumption DEF IInv, Ctl, KernCtl
  <2>2. ~NoTerminal => kern.p_pptr[q] \in {Swapper, InitProc, Top}
    BY <1>3 DEF Sure, Flat
  <2> QED BY <1>3, <1>5, <2>1, <2>2
<1>7. /\ k \in Kern /\ k.p_sig = kern.p_sig /\ k.p_cursig = kern.p_cursig
      /\ k.p_pri = kern.p_pri /\ k.p_stat = kern.p_stat
      /\ \A x \in Procs :
           k.p_pptr[x] = IF x = q THEN InitProc ELSE kern.p_pptr[x]
  <2>1. [kern.p_pptr EXCEPT ![q] = InitProc] \in [Procs -> All]
    BY <1>3, KernTypes
  <2>2. k.p_pptr = [kern.p_pptr EXCEPT ![q] = InitProc] /\ k \in Kern
    BY <1>3, <2>1 DEF Kern
  <2> QED BY <1>3, <2>2, KernTypes DEF Kern
<1>8. \A x \in Procs : SparesAt(kern, k, x)
  BY <1>7 DEF SparesAt, Stoppable, Cleared, Bound
<1> HIDE DEF k
<1>9. /\ Spares(k, k1) /\ Hush(k, k1)
  <2>a. k \in Kern
    BY <1>7
  <2>1. Spares(k, kint) /\ Sent(k, kint, q, SIGINT)
    BY <1>3, <1>4, <2>a, PsignalPlainSpares, PsignalPlainSent
  <2> HIDE DEF kint
  <2>2. kint \in Kern
    BY <2>1 DEF Spares
  <2>3. Spares(kint, kcont) /\ Sent(kint, kcont, q, SIGCONT)
    BY <1>3, <1>4, <2>2, PsignalPlainSpares, PsignalPlainSent
  <2> HIDE DEF kcont
  <2>4. Spares(k, kcont) /\ Hush(k, kcont)
    BY <2>1, <2>3, SparesTrans, HushTrans DEF Sent
  <2>5. Spares(k, k) /\ Hush(k, k)
    BY <2>a, SparesRefl DEF Hush
  <2> QED BY <2>4, <2>5
<1> HIDE DEF k1
<1>10. /\ k1 \in Kern /\ k1.p_pptr = k.p_pptr
       /\ \A x \in Procs : SparesAt(k, k1, x)
  BY <1>9 DEF Spares
<1>11. \A x \in All : SigAt(k1, x)
  <2>1. \A x \in All : SigAt(kern, x)
    BY DEF Tidy
  <2>2. \A x \in All : SigAt(k, x)
    BY <1>7, <2>1 DEF SigAt
  <2> QED BY <1>9, <2>2 DEF Hush
<1>12. Flat(k1)
  BY <1>7, <1>10 DEF Sure, Flat
<1>13. /\ kern'.p_pptr = k1.p_pptr /\ kern'.p_stat = k1.p_stat
       /\ kern'.p_pri = k1.p_pri /\ kern'.p_cursig = k1.p_cursig
       /\ \A x \in Procs \ {q} : SparesAt(k1, kern', x)
  BY <1>2, <1>3, <1>6, <1>10, <1>11, <1>12, SpgrpSpares
<1>14. \A x \in Procs \ {q} : SparesAt(kern, kern', x)
  BY <1>8, <1>10, <1>13, SparesAtTrans
<1>15. ASSUME NEW x \in Procs \ {q}
       PROVE  SureAt(kern', pc[x], x)
  <2>1. SureAt(kern, pc[x], x)
    BY DEF Sure
  <2>2. SparesAt(kern, kern', x) /\ kern'.p_pptr[x] = kern.p_pptr[x]
    BY <1>7, <1>10, <1>13, <1>14
  <2> QED BY <2>1, <2>2, SparesSureAt
<1>16. SureAt(kern', pc[q], q)
  <2>1. SparesAt(kern, k1, q)
    BY <1>3, <1>8, <1>10, SparesAtTrans
  <2>2. SureAt(kern, pc[q], q)
    BY <1>3 DEF Sure
  <2>3. kern'.p_pptr[q] = InitProc
    BY <1>3, <1>7, <1>10, <1>13
  <2>4. /\ Stoppable(k1, q) => pc[q] \in {"woken", "issig", "swtch"}
        /\ k1.p_stat[q] = "free" => k1.p_cursig[q] = NoSig
    BY <2>1, <2>2 DEF SparesAt, SureAt, Stoppable
  <2> QED BY <1>13, <2>3, <2>4 DEF SureAt, Stoppable
<1>17. Flat(kern')
  BY <1>12, <1>13 DEF Flat
<1> QED BY <1>2, <1>15, <1>16, <1>17 DEF Sure

-----------------------------------------------------------------------------
(***************************************************************************)
(* The swapper, interrupts and swtch().                                    *)
(***************************************************************************)

\* A sleep() of the swapper.
LEMMA SwapSleepSpares ==
  ASSUME NEW k \in Kern, NEW chan \in SwapChan, NEW back,
         SwapSleep(k, chan, back)
  PROVE  Spares(k, kern')
<1> DEFINE k1 == EnterSleep(k, Swapper, chan, PZERO)
           k2 == [k EXCEPT !.p_wchan[Swapper] = chan, !.p_pri[Swapper] = PZERO]
<1>1. /\ kern' = [k1 EXCEPT !.p_stat[Swapper] = "SSLEEP"]
      /\ k1 = Panic(k, "sleep") \/ k1 = k2
  BY DEF SwapSleep, EnterSleep
<1>2. Swapper \in All /\ Swapper \notin Procs /\ Procs \subseteq All
      /\ chan \in AllChan
  BY ProcsAssumption DEF All, AllChan
<1> HIDE DEF k1
<1>3. /\ k1 \in Kern /\ k1.p_pptr = k.p_pptr /\ k1.p_stat = k.p_stat
      /\ k1.p_sig = k.p_sig /\ k1.p_cursig = k.p_cursig
      /\ \A x \in Procs : k1.p_pri[x] = k.p_pri[x]
  <2>1. CASE k1 = Panic(k, "sleep")
    <3>1. k1 \in Kern
      BY <2>1, PanicBland DEF Why, Bland, Mute
    <3>2. k1.p_pptr = k.p_pptr /\ k1.p_stat = k.p_stat
          /\ k1.p_sig = k.p_sig /\ k1.p_cursig = k.p_cursig
          /\ k1.p_pri = k.p_pri
      BY <2>1 DEF Panic, Kern
    <3> QED BY <3>1, <3>2
  <2>2. CASE k1 = k2
    <3>1. [k.p_wchan EXCEPT ![Swapper] = chan]
            \in [All -> AllChan \cup {NoChan}]
      BY <1>2, KernTypes
    <3>2. [k.p_pri EXCEPT ![Swapper] = PZERO] \in [All -> Pri]
      BY <1>2, KernTypes DEF Pri
    <3>3. /\ k2 \in Kern /\ k2.p_pptr = k.p_pptr /\ k2.p_stat = k.p_stat
          /\ k2.p_sig = k.p_sig /\ k2.p_cursig = k.p_cursig
          /\ k2.p_pri = [k.p_pri EXCEPT ![Swapper] = PZERO]
      BY <3>1, <3>2 DEF Kern
    <3>4. \A x \in Procs : k2.p_pri[x] = k.p_pri[x]
      BY <1>2, <3>3, KernTypes
    <3> HIDE DEF k2
    <3> QED BY <2>2, <3>3, <3>4
  <2> QED BY <1>1, <2>1, <2>2
<1> HIDE DEF k2
<1>4. /\ kern' \in Kern /\ kern'.p_pptr = k1.p_pptr
      /\ kern'.p_sig = k1.p_sig /\ kern'.p_cursig = k1.p_cursig
      /\ kern'.p_pri = k1.p_pri
      /\ kern'.p_stat = [k1.p_stat EXCEPT ![Swapper] = "SSLEEP"]
  BY <1>1, <1>3 DEF Kern, Stat
<1>5. \A x \in Procs : kern'.p_stat[x] = k.p_stat[x]
  BY <1>2, <1>3, <1>4, KernTypes
<1> QED BY <1>3, <1>4, <1>5 DEF Spares, SparesAt, Stoppable, Cleared, Bound

\* sched() up to its calls of swapin() and swapout().
LEMMA SchedScanSpares ==
  ASSUME IInv, \/ SchedLoop \/ SchedScan \/ SchedDeadwood \/ SchedIdle
               \/ SchedIn \/ SwapoutStart
  PROVE  Spares(kern, kern')
<1>1. /\ kern \in Kern /\ pc \in [All -> PC]
      /\ kern.sload \ {victim} \in SUBSET All
      /\ Spares(kern, kern)
      /\ {RUNOUT, LBOLT, SWAPIO} \subseteq SwapChan
  BY SparesRefl, KernTypes DEF IInv, TypeOK, SwapChan
<1>2. CASE SchedLoop
  BY <1>1, <1>2, FlagSpares DEF SchedLoop
<1>3. CASE SchedScan
  BY <1>1, <1>3 DEF SchedScan
<1>4. CASE SchedDeadwood
  BY <1>1, <1>4, FlagSpares DEF SchedDeadwood
<1>5. CASE SchedIdle
  <2> DEFINE k1 == [kern EXCEPT !.wantin = FALSE]
             k2 == [kern EXCEPT !.runout = TRUE]
  <2>1. SwapSleep(k1, LBOLT, "loop") \/ SwapSleep(k2, RUNOUT, "loop")
    BY <1>5 DEF SchedIdle
  <2>2. Spares(kern, k1) /\ Spares(kern, k2)
    BY <1>1, FlagSpares
  <2> HIDE DEF k1, k2
  <2>3. k1 \in Kern /\ k2 \in Kern
    BY <2>2 DEF Spares
  <2>4. Spares(k1, kern') \/ Spares(k2, kern')
    BY <1>1, <2>1, <2>3, SwapSleepSpares
  <2> QED BY <2>2, <2>4, SparesTrans
<1>6. CASE SchedIn \/ SwapoutStart
  <2>1. \/ SwapSleep(kern, SWAPIO, "inio") \/ SwapSleep(kern, SWAPIO, "outio")
        \/ kern' = kern
    BY <1>6 DEF SchedIn, SwapoutStart
  <2> QED BY <1>1, <2>1, SwapSleepSpares
<1> QED BY <1>2, <1>3, <1>4, <1>5, <1>6

\* The end of swapin().
LEMMA SwapinSpares ==
  ASSUME IInv, Swapin
  PROVE  Spares(kern, kern')
<1>1. kern \in Kern /\ inp \in All
  BY DEF IInv, TypeOK
<1> DEFINE k == IF kern.p_stat[inp] = "SRUN" THEN Setrq(kern, inp) ELSE kern
           s == k.sload \cup {inp}
<1>2. kern' = [k EXCEPT !.sload = s]
  BY DEF Swapin
<1>3. Spares(kern, k)
  BY <1>1, QueueSpares, SparesRefl
<1> HIDE DEF k
<1>4. k \in Kern
  BY <1>3 DEF Spares
<1>5. s \in SUBSET All
  BY <1>1, <1>4, KernTypes
<1> HIDE DEF s
<1>6. Spares(k, kern')
  BY <1>2, <1>4, <1>5, FlagSpares
<1> QED BY <1>2, <1>3, <1>6, SparesTrans

\* A hard swap.
LEMMA SchedHardSpares ==
  ASSUME IInv, SchedHard
  PROVE  Spares(kern, kern')
<1>1. kern \in Kern /\ pc \in [All -> PC] /\ RUNIN \in SwapChan
  BY DEF IInv, TypeOK, SwapChan
<1>2. CASE SwapSleep(kern, RUNIN, "loop")
  BY <1>1, <1>2, SwapSleepSpares
<1>3. ASSUME NEW q \in Big,
             LET k == [kern EXCEPT !.sload = @ \ {q}]
             IN  kern' = IF k.p_stat[q] = "SRUN" THEN Remrq(k, q) ELSE k
      PROVE  Spares(kern, kern')
  <2> DEFINE s == kern.sload \ {q}
             k == [kern EXCEPT !.sload = s]
  <2>1. q \in All
    BY SwapAssumption DEF All
  <2>2. kern' = Remrq(k, q) \/ kern' = k
    BY <1>3
  <2>3. s \in SUBSET All
    BY <1>1, KernTypes
  <2> HIDE DEF s
  <2>4. Spares(kern, k)
    BY <1>1, <2>3, FlagSpares
  <2> HIDE DEF k
  <2>5. k \in Kern
    BY <2>4 DEF Spares
  <2>6. Spares(k, Remrq(k, q))
    BY <2>1, <2>5, QueueSpares
  <2> QED BY <2>2, <2>4, <2>6, SparesTrans
<1> QED BY <1>2, <1>3 DEF SchedHard

\* swapout() finds no room, or has written the process.
LEMMA SwapoutSpares ==
  ASSUME IInv, SwapoutFails \/ SwapoutEnd
  PROVE  Spares(kern, kern')
<1>1. /\ kern \in Kern /\ pc \in [All -> PC] /\ victim \in All
      /\ RUNIN \in SwapChan /\ RUNOUT \in AllChan
  BY DEF IInv, TypeOK, SwapChan, AllChan
<1>2. CASE SwapoutFails
  <2> DEFINE s == kern.sload \cup {victim}
             k == [kern EXCEPT !.sload = s]
  <2>1. (kern' = k) \/ SwapSleep(k, RUNIN, "loop")
    BY <1>2 DEF SwapoutFails
  <2>2. s \in SUBSET All
    BY <1>1, KernTypes
  <2> HIDE DEF s
  <2>3. Spares(kern, k)
    BY <1>1, <2>2, FlagSpares
  <2> HIDE DEF k
  <2>4. k \in Kern
    BY <2>3 DEF Spares
  <2>5. SwapSleep(k, RUNIN, "loop") => Spares(k, kern')
    BY <1>1, <2>4, SwapSleepSpares
  <2> QED BY <2>1, <2>3, <2>5, SparesTrans
<1>3. CASE SwapoutEnd
  <2> DEFINE s == kern.sload \ {victim}
             k == [kern EXCEPT !.sload = s]
             k0 == [k EXCEPT !.runout = FALSE]
             k1 == Wakeup(k0, RUNOUT)
  <2>1. kern' \in {Panic(kern, "swapout"), k, k1}
    BY <1>3 DEF SwapoutEnd
  <2>2. s \in SUBSET All
    BY <1>1, KernTypes
  <2> HIDE DEF s
  <2>3. Spares(kern, k)
    BY <1>1, <2>2, FlagSpares
  <2> HIDE DEF k
  <2>4. k \in Kern
    BY <2>3 DEF Spares
  <2>5. Spares(k, k0)
    BY <2>4, <2>2, FlagSpares
  <2> HIDE DEF k0
  <2>6. k0 \in Kern
    BY <2>5 DEF Spares
  <2>7. Spares(k0, k1)
    BY <1>1, <2>6, QueueSpares
  <2> HIDE DEF k1
  <2>8. Spares(kern, Panic(kern, "swapout"))
    BY <1>1, QueueSpares DEF Why
  <2>9. Spares(k, k1)
    BY <2>5, <2>7, SparesTrans
  <2>10. Spares(kern, k1)
    BY <2>3, <2>9, SparesTrans
  <2> QED BY <2>1, <2>3, <2>8, <2>10
<1> QED BY <1>2, <1>3

\* sched().
LEMMA SchedSure ==
  ASSUME Sure(kern, pc), IInv, Sched
  PROVE  Sure(kern', pc')
<1>1. Spares(kern, kern')
  BY SchedScanSpares, SwapinSpares, SchedHardSpares, SwapoutSpares DEF Sched
<1>2. pc \in [All -> PC] /\ Swapper \notin Procs /\ Procs \subseteq All
  BY ProcsAssumption DEF IInv, TypeOK, All
<1>3. \A x \in Procs : pc'[x] = pc[x]
  BY <1>2 DEF Sched, SchedLoop, SchedScan, SchedDeadwood, SchedIdle, SchedIn,
     Swapin, SchedHard, SwapoutFails, SwapoutStart, SwapoutEnd, SwapSleep, Goto
<1> QED BY <1>1, <1>3, SparesSure

\* Interrupts that send no signal.
LEMMA IntrSpares ==
  ASSUME IInv, IntrWakeup \/ Schedcpu \/ SchedcpuWakeup \/ Vmmeter
  PROVE  Spares(kern, kern')
<1>1. kern \in Kern /\ {LBOLT, RUNIN, RUNOUT, SWAPIO} \subseteq AllChan
  BY DEF IInv, TypeOK, AllChan, SwapChan
<1>2. CASE IntrWakeup
  <2>1. PICK chan \in IntrChan \cup {SWAPIO} : kern' = Wakeup(kern, chan)
    BY <1>2 DEF IntrWakeup
  <2>2. chan \in AllChan
    BY <1>1, ChanAssumption DEF AllChan
  <2> QED BY <1>1, <2>1, <2>2, QueueSpares
<1>4. CASE Schedcpu
  <2>1. PICK p \in Procs : \E usrpri \in UserPri :
          kern' = Reprioritize(kern, p, usrpri)
    BY <1>4 DEF Schedcpu
  <2>2. PICK usrpri \in UserPri : kern' = Reprioritize(kern, p, usrpri)
    BY <2>1
  <2> DEFINE k1 == [kern EXCEPT !.p_pri[p] = usrpri]
             k2 == Remrq(kern, p)
             k3 == [k2 EXCEPT !.p_pri[p] = usrpri]
             k4 == Setrq(k3, p)
  <2>3. \/ kern' = kern
        \/ kern' = k1 /\ kern.p_pri[p] >= PUSER
        \/ kern' = k4 /\ kern.p_stat[p] = "SRUN"
    <3>1. kern.p_pri[p] \in Pri
      BY <1>1, KernTypes DEF All
    <3>2. kern.p_pri[p] < PUSER \/ kern.p_pri[p] >= PUSER
      BY <3>1 DEF Pri, PZERO, PWAIT, PUSER, PLOW
    <3> QED BY <2>2, <3>2 DEF Reprioritize
  <2>4. p \in All /\ usrpri \in Pri
    BY ChanAssumption DEF All, Pri
  <2>5. /\ Spares(kern, kern) /\ Spares(kern, k2)
        /\ kern.p_pri[p] >= PUSER => Spares(kern, k1)
    <3>1. kern.p_pri[p] \in Pri
      BY <1>1, KernTypes DEF All
    <3>2. kern.p_pri[p] >= PUSER => kern.p_pri[p] > PZERO
      BY <3>1 DEF Pri, PZERO, PWAIT, PUSER, PLOW
    <3>3. kern.p_pri[p] > PZERO => Spares(kern, k1)
      BY <1>1, <2>4, PriSpares
    <3> QED BY <1>1, <2>4, <3>2, <3>3, SparesRefl, QueueSpares
  <2>a. Nudges(kern, k2)
    BY <1>1, <2>4, SetrqNudges
  <2> HIDE DEF k1, k2
  <2>6. k2 \in Kern /\ (kern.p_stat[p] = "SRUN" => k2.p_stat[p] # "SSLEEP")
    BY <2>4, <2>a DEF Nudges
  <2>b. k2 \in Kern
    BY <2>6
  <2>7. kern.p_stat[p] = "SRUN" => Spares(k2, k3)
    BY <2>4, <2>6, <2>b, PriSpares
  <2>c. k3 \in Kern
    <3>1. [k2.p_pri EXCEPT ![p] = usrpri] \in [All -> Pri]
      BY <2>4, <2>b, KernTypes
    <3> QED BY <2>b, <3>1 DEF Kern
  <2> HIDE DEF k3
  <2>8. k3 \in Kern
    BY <2>c
  <2>9. Spares(k3, k4)
    BY <2>4, <2>8, QueueSpares
  <2> HIDE DEF k4
  <2>10. kern.p_stat[p] = "SRUN" => Spares(kern, k3)
    BY <2>5, <2>7, SparesTrans
  <2>11. kern.p_stat[p] = "SRUN" => Spares(kern, k4)
    BY <2>9, <2>10, SparesTrans
  <2> QED BY <2>3, <2>5, <2>11
<1>5. ASSUME NEW k \in Kern, NEW c \in AllChan, NEW d \in AllChan
      PROVE  Spares(k, Wakeup(Wakeup(k, c), d))
  <2> DEFINE k1 == Wakeup(k, c)
             k2 == Wakeup(k1, d)
  <2>1. Spares(k, k1)
    BY QueueSpares
  <2> HIDE DEF k1
  <2>2. k1 \in Kern
    BY <2>1 DEF Spares
  <2>3. Spares(k1, k2)
    BY <2>2, QueueSpares
  <2> HIDE DEF k2
  <2>4. Spares(k, k2)
    BY <2>1, <2>3, SparesTrans
  <2> QED BY <2>4 DEF k1, k2
<1>6. CASE SchedcpuWakeup
  BY <1>1, <1>5, <1>6 DEF SchedcpuWakeup
<1>7. CASE Vmmeter
  <2> DEFINE k == [kern EXCEPT !.runout = FALSE]
  <2>1. kern' = Wakeup(Wakeup(k, RUNIN), RUNOUT)
    BY <1>7 DEF Vmmeter
  <2>2. Spares(kern, k)
    <3>1. kern.sload \in SUBSET All
      BY <1>1, KernTypes
    <3> QED BY <1>1, <3>1, FlagSpares
  <2> HIDE DEF k
  <2>3. k \in Kern
    BY <2>2 DEF Spares
  <2>4. Spares(k, kern')
    BY <1>1, <1>5, <2>1, <2>3
  <2> QED BY <2>2, <2>4, SparesTrans
<1> QED BY <1>2, <1>4, <1>6, <1>7

\* Interrupts.
LEMMA IntrSure ==
  ASSUME Sure(kern, pc), IInv, Intr
  PROVE  Sure(kern', pc')
<1>1. CASE IntrSignal
  <2>1. PICK q \in Procs : \E sig \in IntrSigs[q] :
          kern' = Psignal(kern, q, sig)
    BY <1>1 DEF IntrSignal, IntrSend
  <2>2. PICK sig \in IntrSigs[q] : kern' = Psignal(kern, q, sig)
    BY <2>1
  <2>3. sig \in Sig /\ kern \in Kern /\ pc' = pc
    BY <1>1, SignalAssumption DEF IntrSignal, IntrSend, IInv, TypeOK
  <2>4. Spares(kern, kern')
    BY <2>2, <2>3, PsignalSpares
  <2> QED BY <2>3, <2>4, SparesSure
<1>2. CASE IntrWakeup \/ Schedcpu \/ SchedcpuWakeup \/ Vmmeter
  <2>1. pc' = pc
    BY <1>2 DEF IntrWakeup, Schedcpu, SchedcpuWakeup, Vmmeter
  <2> QED BY <1>2, <2>1, IntrSpares, SparesSure
<1> QED BY <1>1, <1>2 DEF Intr

\* swtch().
LEMMA SwtchSure ==
  ASSUME Sure(kern, pc), IInv, IInv', Swtch
  PROVE  Sure(kern', pc')
<1>1. pc' = pc /\ kern \in Kern /\ kern' \in Kern
  BY DEF Swtch, IInv, TypeOK
<1>2. \/ kern' = Panic(kern, "swtch")
      \/ \E p \in OnQueue(kern, BestQueue) :
           kern' = Switched(kern, p, BestQueue)
  BY DEF Swtch
<1>3. /\ kern'.p_pptr = kern.p_pptr /\ kern'.p_sig = kern.p_sig
      /\ kern'.p_cursig = kern.p_cursig /\ kern'.p_pri = kern.p_pri
      /\ kern'.p_stat = kern.p_stat
  <2>1. CASE kern' = Panic(kern, "swtch")
    BY <1>1, <2>1 DEF Panic, Kern
  <2>2. ASSUME NEW p \in OnQueue(kern, BestQueue),
               kern' = Switched(kern, p, BestQueue)
        PROVE  /\ kern'.p_pptr = kern.p_pptr /\ kern'.p_sig = kern.p_sig
               /\ kern'.p_cursig = kern.p_cursig /\ kern'.p_pri = kern.p_pri
               /\ kern'.p_stat = kern.p_stat
    BY <1>1, <2>2 DEF Switched, Panic, Kern
  <2> QED BY <1>2, <2>1, <2>2
<1>4. Spares(kern, kern')
  BY <1>1, <1>3, NudgesSame, NudgesSpares
<1> QED BY <1>1, <1>4, SparesSure

\* Only exit() takes a process to the loop over its children.
LEMMA ProcExits ==
  ASSUME IInv, NEW p \in Procs, Proc(p), pc'[p] = "exit1"
  PROVE  Exit(p) \/ pc[p] = "exit1"
<1>1. p \in All /\ pc \in [All -> PC] /\ ret[p] \in {"run", "wait"}
  BY DEF IInv, TypeOK, All
<1>2. ~Sleep(p) /\ ~WaitSleep(p)
  BY <1>1 DEF Sleep, WaitSleep, SleepCall, Goto
<1>3. ~Woken(p) /\ ~IssigNone(p)
  BY <1>1 DEF Woken, IssigNone, Goto
<1>4. ~IssigSend(p) /\ ~IssigStop(p)
  BY <1>1 DEF IssigSend, IssigStop, Goto
<1>5. ~TellParent(p) /\ ~StopSelf(p) /\ ~SwtchStopped(p)
  BY <1>1 DEF TellParent, StopSelf, SwtchStopped, Goto
<1>6. ~TrapExit(p) /\ ~Rest(p) /\ ~Procdup(p)
  BY <1>1 DEF TrapExit, Rest, Procdup, Goto
<1>7. ~Fork(p)
  BY <1>1 DEF Fork, All
<1>8. ~ExitSwtch(p) /\ ~Wait(p) /\ ~WaitNone(p)
  BY <1>1 DEF ExitSwtch, Wait, WaitNone, Goto
<1>9. ~WaitReap(p) /\ ~WaitStopped(p)
  BY <1>1 DEF WaitReap, WaitStopped, Goto
<1>10. CASE Psig(p)
  BY <1>1, <1>10 DEF Psig, Goto
<1>11. CASE IssigContinue(p) \/ IssigKill(p) \/ ExitChild(p) \/ Kill(p)
  BY <1>11 DEF IssigContinue, IssigKill, ExitChild, Kill
<1> QED
  BY <1>2, <1>3, <1>4, <1>5, <1>6, <1>7, <1>8, <1>9, <1>10, <1>11 DEF Proc

\* Nothing happens after a panic.
LEMMA NextLives ==
  ASSUME Next
  PROVE  NoPanic
<1>1. ASSUME NEW p \in Procs, Proc(p)
      PROVE  NoPanic
  BY <1>1 DEF Proc, Sleep, Woken, IssigNone, IssigSend, IssigContinue,
     IssigKill, IssigStop, TellParent, StopSelf, SwtchStopped, TrapExit, Psig,
     Rest, Fork, Procdup, Exit, ExitChild, ExitSwtch, Wait, WaitReap,
     WaitStopped, WaitNone, WaitSleep, Kill, At
<1>2. CASE Swtch
  BY <1>2 DEF Swtch
<1>3. CASE Sched
  BY <1>3 DEF Sched, SchedLoop, SchedScan, SchedDeadwood, SchedIdle, SchedIn,
     Swapin, SchedHard, SwapoutFails, SwapoutStart, SwapoutEnd, At
<1>4. CASE Intr
  BY <1>4 DEF Intr, IntrWakeup, IntrSignal, IntrSend, Schedcpu,
     SchedcpuWakeup, Vmmeter, IntrEnabled
<1> QED BY <1>1, <1>2, <1>3, <1>4 DEF Next

\* exit() of init panics.
LEMMA NextAlive ==
  ASSUME IInv, IInv', Alive, [Next]_vars
  PROVE  Alive'
<1>1. CASE UNCHANGED vars
  BY <1>1 DEF vars, Alive, NoPanic
<1>2. ASSUME Next, pc[InitProc] # "exit1", pc'[InitProc] = "exit1"
      PROVE  ~NoPanic'
  <2>1. InitProc \in Procs /\ InitProc \in All /\ Swapper # InitProc
    BY ProcsAssumption DEF All
  <2>2. ASSUME NEW p \in Procs, Proc(p)
        PROVE  p = InitProc /\ Exit(p)
    <3>1. p = InitProc
      BY <1>2, <2>1, <2>2, ProcWalks DEF Walks
    <3> QED BY <1>2, <2>2, <3>1, ProcExits
  <2>3. ~Swtch /\ ~Intr
    BY <1>2 DEF Swtch, Intr, IntrWakeup, IntrSignal, IntrSend, Schedcpu,
       SchedcpuWakeup, Vmmeter
  <2>4. ~Sched
    <3>1. pc \in [All -> PC]
      BY DEF IInv, TypeOK
    <3> QED
      BY <1>2, <2>1, <3>1 DEF Sched, SchedLoop, SchedScan, SchedDeadwood,
         SchedIdle, SchedIn, Swapin, SchedHard, SwapoutFails, SwapoutStart,
         SwapoutEnd, SwapSleep, Goto
  <2>5. Exit(InitProc)
    BY <1>2, <2>2, <2>3, <2>4 DEF Next
  <2> DEFINE k == [kern EXCEPT !.p_stat[InitProc] = "SZOMB"]
  <2>6. kern' = Panic(k, "init died") /\ kern' \in Kern
    BY <2>5 DEF Exit, IInv, TypeOK
  <2>7. kern.panicstr = "" /\ kern \in Kern
    BY <2>5 DEF Exit, At, NoPanic, IInv, TypeOK
  <2>8. kern'.panicstr = "init died"
    BY <2>6, <2>7 DEF Panic, Kern
  <2> QED BY <2>8 DEF NoPanic
<1>3. CASE Next
  BY <1>2, <1>3, NextLives DEF Alive
<1> QED BY <1>1, <1>3

-----------------------------------------------------------------------------
(***************************************************************************)
(* The theorem.                                                            *)
(***************************************************************************)

\* What is kept for it.
KInv == SInv /\ Alive /\ Sure(kern, pc)

\* It holds to begin with.
LEMMA InitKInv ==
  ASSUME FreeStops, Init
  PROVE  KInv
<1>1. SInv
  BY InitSInv
<1>2. Swapper # InitProc /\ Swapper \notin Procs /\ InitProc \in All
  BY ProcsAssumption DEF All
<1>3. Alive
  BY <1>2 DEF Init, Alive
<1>4. \A x \in Procs :
        /\ kern.p_cursig[x] = NoSig /\ kern.p_pptr[x] = Parent[x]
        /\ \/ kern.p_stat[x] = "SRUN" /\ pc[x] = "run"
           \/ kern.p_stat[x] = "SSLEEP" /\ pc[x] = "woken"
  BY <1>2 DEF Init, All
<1>5. Flat(kern)
  BY <1>4, TopForks DEF Flat, OneForks
<1>6. \A x \in Procs : SureAt(kern, pc[x], x)
  BY <1>4 DEF SureAt, SoundAt, Stoppable
<1> QED BY <1>1, <1>3, <1>5, <1>6 DEF KInv, Sure

\* Every step of a process keeps it.
LEMMA ProcSure ==
  ASSUME FreeStops, KInv, NEW p \in Procs, Proc(p)
  PROVE  Sure(kern', pc')
<1>1. Sure(kern, pc) /\ IInv /\ Tidy(kern) /\ Alive
  BY DEF KInv, SInv
<1>2. CASE Sleep(p) \/ WaitSleep(p)
  BY <1>1, <1>2, SleepSure
<1>3. CASE Wait(p) \/ WaitNone(p)
  BY <1>1, <1>3, IdleSure
<1>4. CASE Woken(p) \/ TrapExit(p) \/ Psig(p) \/ Rest(p)
  BY <1>1, <1>4, WokenSure, TrapExitSure, PsigSure, RestSure
<1>5. CASE \/ IssigSend(p) \/ IssigContinue(p) \/ IssigStop(p)
           \/ IssigKill(p)
  BY <1>1, <1>5, IssigTakeSure
<1>6. CASE \/ IssigNone(p) \/ TellParent(p) \/ StopSelf(p)
           \/ SwtchStopped(p)
  BY <1>1, <1>6, IssigNoneSure, TellParentSure, StopSelfSure, SwtchStoppedSure
<1>7. CASE Fork(p) \/ Procdup(p) \/ WaitReap(p) \/ WaitStopped(p) \/ Kill(p)
  BY <1>1, <1>7, ForkSure, ProcdupSure, WaitReapSure, WaitStoppedSure, KillSure
<1>8. CASE Exit(p) \/ ExitChild(p) \/ ExitSwtch(p)
  BY <1>1, <1>8, ExitSure, ExitChildSure, ExitSwtchSure
<1> QED BY <1>2, <1>3, <1>4, <1>5, <1>6, <1>7, <1>8 DEF Proc

\* Every step keeps it.
LEMMA NextKInv ==
  ASSUME FreeStops, KInv, [Next]_vars, [~Race]_vars
  PROVE  KInv'
<1>1. IInv /\ Sure(kern, pc) /\ Alive /\ SInv
  BY DEF KInv, SInv
<1>2. SInv'
  BY <1>1, NextSInv
<1>3. IInv'
  BY <1>2 DEF SInv
<1>4. Alive'
  BY <1>1, <1>3, NextAlive
<1>5. CASE UNCHANGED vars
  <2>1. kern' = kern /\ pc' = pc
    BY <1>5 DEF vars
  <2>2. Sure(kern', pc')
    BY <1>1, <2>1
  <2> QED BY <1>2, <1>4, <2>2 DEF KInv
<1>6. CASE Next
  <2>1. Sure(kern', pc')
    BY <1>1, <1>3, <1>6, ProcSure, SwtchSure, SchedSure, IntrSure DEF Next
  <2> QED BY <1>2, <1>4, <2>1 DEF KInv
<1> QED BY <1>5, <1>6

\* psig() never terminates a process for a signal that is to stop it or to
\* be discarded, although psignal() leaves the signal in p_cursig when it
\* stops a process where it sleeps.
THEOREM StopsDoNotKill ==
  ASSUME FreeStops
  PROVE  Spec /\ [][~Race]_vars => []StopSignalsNeverKill
<1>1. Init => KInv
  BY InitKInv
<1>2. KInv /\ [Next]_vars /\ [~Race]_vars => KInv'
  BY NextKInv
<1>3. KInv => StopSignalsNeverKill
  BY DEF KInv, Sure, SureAt, SoundAt, StopSignalsNeverKill
<1> QED BY <1>1, <1>2, <1>3, PTL DEF Spec

=============================================================================
