---------------------------- MODULE CalloutQueue ----------------------------
(***************************************************************************)
(* The timeout queue of sys/sys/kern_clock.c as operators on the list      *)
(* calltodo.  An entry is a record of what is to be called (c_func with    *)
(* its c_arg) and c_time.  The entries that are due come first and have    *)
(* c_time <= 0, the ticks since they fell due; each of the others has the  *)
(* ticks from the entry before it.                                         *)
(***************************************************************************)
EXTENDS Integers, Sequences

Positive(t) == IF t > 0 THEN t ELSE 0

\* The ticks until the first i entries are all due.
Ahead(q, i) ==
  LET sum[j \in 0 .. Len(q)] ==
        IF j = 0 THEN 0 ELSE sum[j - 1] + Positive(q[j].c_time)
  IN  sum[i]

\* The tick at which entry i falls or fell due.
DueAt(q, i, now) ==
  now + (IF Ahead(q, i) = 0 THEN q[i].c_time ELSE Ahead(q, i))

-----------------------------------------------------------------------------
\* A hardclock() that stops at the first entry that is due.
MutantHardclockQueue(q) ==
  [i \in DOMAIN q |-> [q[i] EXCEPT !.c_time = @ - (IF i = 1 THEN 1 ELSE 0)]]

\* hardclock() counts down every entry that is due and the first that is not.
HardclockQueue(q) ==
  [i \in DOMAIN q |->
     [q[i] EXCEPT !.c_time = IF \A j \in 1 .. i - 1 : q[j].c_time <= 0
                             THEN @ - 1 ELSE @]]

\* needsoft: some entry was counted down to zero or below.
NeedSoft(q) == q # <<>> /\ q[1].c_time <= 1

\* A timeout() that leaves the delta of the next entry as it was.
MutantTimeoutQueue(q, f, t0) ==
  LET t == IF t0 <= 0 THEN 1 ELSE t0
      n == CHOOSE i \in 0 .. Len(q) :
             /\ i < Len(q) => q[i + 1].c_time >= t - Ahead(q, i)
             /\ \A j \in 1 .. i : q[j].c_time < t - Ahead(q, j - 1)
  IN  SubSeq(q, 1, n) \o <<[c_func |-> f, c_time |-> t - Ahead(q, n)]>>
        \o SubSeq(q, n + 1, Len(q))

\* timeout(): behind the n entries that fall due before t ticks from now, the
\* entry that follows being counted from this one.
TimeoutQueue(q, f, t0) ==
  LET t    == IF t0 <= 0 THEN 1 ELSE t0
      n    == CHOOSE i \in 0 .. Len(q) :
                /\ i < Len(q) => q[i + 1].c_time >= t - Ahead(q, i)
                /\ \A j \in 1 .. i : q[j].c_time < t - Ahead(q, j - 1)
      left == t - Ahead(q, n)
      rest == [i \in 1 .. Len(q) - n |->
                 [q[n + i] EXCEPT !.c_time = IF i = 1 THEN @ - left ELSE @]]
  IN  SubSeq(q, 1, n) \o <<[c_func |-> f, c_time |-> left]>> \o rest

\* An untimeout() that drops the ticks of the entry it removes.
MutantUntimeoutQueue(q, f) ==
  IF \A i \in DOMAIN q : q[i].c_func # f THEN q
  ELSE LET k == CHOOSE i \in DOMAIN q :
                  q[i].c_func = f /\ \A j \in 1 .. i - 1 : q[j].c_func # f
       IN  [i \in 1 .. Len(q) - 1 |-> IF i < k THEN q[i] ELSE q[i + 1]]

\* untimeout(): the first entry for f, whose ticks go to the next entry.
UntimeoutQueue(q, f) ==
  IF \A i \in DOMAIN q : q[i].c_func # f THEN q
  ELSE LET k == CHOOSE i \in DOMAIN q :
                  q[i].c_func = f /\ \A j \in 1 .. i - 1 : q[j].c_func # f
       IN  [i \in 1 .. Len(q) - 1 |->
              IF i < k THEN q[i]
              ELSE IF i > k THEN q[i + 1]
              ELSE [q[i + 1] EXCEPT !.c_time = @ + Positive(q[k].c_time)]]

\* Some entry is due: softclock() has something to call.
SomeDue(q) == q # <<>> /\ Head(q).c_time <= 0
Pending(q, f) == \E i \in DOMAIN q : q[i].c_func = f
=============================================================================
