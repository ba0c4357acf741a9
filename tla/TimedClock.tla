------------------------------ MODULE TimedClock ------------------------------
(***************************************************************************)
(* A round of synch() of the time daemon's master (etc/timed/master.c):    *)
(* measure() asks every slave for its time with ICMP timestamps            *)
(* (measure.c), networkdelta() picks the time of the network (TimedDelta), *)
(* correct() sends every machine its correction (correct.c), and those     *)
(* that did not answer leave the host table.  Times are milliseconds.      *)
(***************************************************************************)
EXTENDS TimedDelta, Sequences

CONSTANTS
  Offsets,     \* how far a slave's clock is ahead of the master's
  Foreign,     \* a clock that does not count milliseconds since midnight
  Delays,      \* of a message in one direction
  Starts,      \* times of day of the master's clock
  Modulo,      \* MODULO: a day
  Processing,  \* PROCESSING_TIME
  Trials,      \* TRIALS
  Msgs         \* MSGS

MaxDelay == Max(Delays)

ClockAssumption ==
  /\ Delays \subseteq Nat /\ Trials \in Nat \ {0} /\ Msgs \in Nat \ {0}
  /\ Modulo % 2 = 0 /\ Starts \subseteq 0 .. Modulo - 1
  /\ Foreign \notin Int /\ \A o \in Offsets : 2 * (o + MaxDelay) < Modulo /\ 2 * (MaxDelay - o) < Modulo

VARIABLES
  tod,    \* the master's time of day
  off,    \* how far the slaves' clocks are ahead
  clock,  \* the clocks, against the master's before the round
  m,      \* measure()'s variables and the host it is at
  hp      \* the host table

vars == <<deltaVars, tod, off, clock, m, hp>>

Slaves == 1 .. N - 1
Measuring(h) == [h |-> h, trials |-> 0, msgcount |-> 0, min1 |-> HostDown, min2 |-> HostDown,
                 status |-> "down", over |-> FALSE]

ClockInit ==
  /\ tod \in Starts /\ off \in [Slaves -> Offsets \cup {Foreign}]
  /\ clock = [h \in Index |-> IF h = 0 \/ off[h] = Foreign THEN 0 ELSE off[h]]
  /\ m = Measuring(1) /\ hp = [h \in Slaves |-> h]
  /\ delta = [h \in Index |-> 0] /\ machup = 1
  /\ x = delta /\ i = 0 /\ j = 1 /\ minind = 0 /\ maxind = 1
  /\ average = 0 /\ pc = "measure"

-----------------------------------------------------------------------------
\* differences of times of day are not reduced
MutantWrapped(d) == d

(***************************************************************************)
(* A difference of two times of day, reduced to half a day.                *)
(***************************************************************************)
Wrapped(d) ==
  IF d < -(Modulo \div 2) THEN d + Modulo
  ELSE IF d > (Modulo \div 2) - 1 THEN d - Modulo ELSE d

Trying == pc = "measure" /\ ~m.over /\ m.trials < Trials /\ m.msgcount < Msgs

NoAnswer ==
  /\ Trying
  /\ m' = [m EXCEPT !.trials = @ + 1]
  /\ UNCHANGED <<deltaVars, tod, off, clock, hp>>

(***************************************************************************)
(* A reply.  The time of day of the host is that of the arrival of the     *)
(* request; a reply that comes after midnight of a request that was sent   *)
(* before is not used.                                                     *)
(***************************************************************************)
Reply(d1, d2) ==
  LET recv == (tod + d1 + d2) % Modulo
      his == (tod + d1 + off[m.h]) % Modulo
      delta1 == Wrapped(his - tod)
      delta2 == Wrapped(recv - his)
      quick == recv - tod < RANGE
      Least(a, b) == IF quick \/ a < b THEN a ELSE b
  IN  /\ Trying
      /\ tod' = recv
      /\ m' = IF recv < tod THEN [m EXCEPT !.trials = @ + 1]
              ELSE IF off[m.h] = Foreign
              THEN [m EXCEPT !.status = "nonstd", !.over = TRUE]
              ELSE [m EXCEPT !.trials = @ + 1, !.msgcount = @ + 1, !.status = "good",
                      !.min1 = Least(delta1, @), !.min2 = Least(delta2, @), !.over = quick]
      /\ UNCHANGED <<deltaVars, off, clock, hp>>

Measured ==
  /\ pc = "measure" /\ (m.over \/ m.trials = Trials \/ m.msgcount = Msgs)
  /\ delta' = [delta EXCEPT ![m.h] =
       IF m.status = "good" THEN Quotient(m.min1 - m.min2, 2) + Processing ELSE HostDown]
  /\ machup' = IF m.status = "good" THEN machup + 1 ELSE machup
  /\ IF m.h < N - 1
     THEN m' = Measuring(m.h + 1) /\ UNCHANGED pc
     ELSE m' = [m EXCEPT !.h = 1] /\ pc' = IF machup' > 1 THEN "sort" ELSE "remove"
  /\ UNCHANGED <<x, i, j, minind, maxind, average, tod, off, clock, hp>>

NetworkDelta == DeltaNext /\ UNCHANGED <<tod, off, clock, m, hp>>

-----------------------------------------------------------------------------
\* C's remainder
Remainder(a, b) == a - b * Quotient(a, b)

(***************************************************************************)
(* mstotvround(): to a multiple of five, as seconds and microseconds; and  *)
(* what adjclock() makes of that, at once or with adjtime().               *)
(***************************************************************************)
Rounded(c) ==
  LET temp == Remainder(c, 5)
  IN  IF temp >= 3 THEN c - temp + 5 ELSE IF temp <= -3 THEN c - temp - 5 ELSE c - temp

Tv(c) ==
  LET sec == Quotient(c, 1000)
      usec == (c - sec * 1000) * 1000
  IN  IF usec < 0 THEN [sec |-> sec - 1, usec |-> usec + 1000000]
      ELSE [sec |-> sec, usec |-> usec]

AdjClock(c, tv) == c + tv.sec * 1000 + Quotient(tv.usec, 1000)

(***************************************************************************)
(* correct(): the master's own clock first, then ADJTIME to those that are *)
(* up.  A slave may get it or not; when no acknowledgement comes it counts *)
(* as down.                                                                *)
(***************************************************************************)
CorrectOwn ==
  /\ pc = "done"
  /\ clock' = [clock EXCEPT ![0] = AdjClock(@, Tv(Rounded(average - delta[0])))]
  /\ pc' = "correct"
  /\ UNCHANGED <<delta, machup, x, i, j, minind, maxind, average, tod, off, m, hp>>

\* correct() that forgets that each machine has its own difference
MutantCorrection(h) == Tv(Rounded(average))

Correction(h) == Tv(Rounded(average - delta[h]))

Correct ==
  /\ pc = "correct"
  /\ \/ /\ delta[m.h] = HostDown
        /\ UNCHANGED <<clock, delta>>
     \/ /\ delta[m.h] # HostDown
        /\ clock' = [clock EXCEPT ![m.h] = AdjClock(@, Correction(m.h))]
        /\ delta' \in {delta, [delta EXCEPT ![m.h] = HostDown]}
     \/ /\ delta[m.h] # HostDown
        /\ delta' = [delta EXCEPT ![m.h] = HostDown]
        /\ UNCHANGED clock
  /\ m' = [m EXCEPT !.h = IF @ < N - 1 THEN @ + 1 ELSE 1]
  /\ pc' = IF m.h < N - 1 THEN "correct" ELSE "remove"
  /\ UNCHANGED <<machup, x, i, j, minind, maxind, average, tod, off, hp>>

\* rmmach() that loses an entry
MutantRmmach(ind) == [k \in 1 .. Len(hp) - 1 |-> IF k < ind THEN hp[k] ELSE hp[Len(hp)]]

(***************************************************************************)
(* The loop over the host table with rmmach(): the last entry takes the    *)
(* place of the one that is removed, and is not looked at in this round.   *)
(***************************************************************************)
Rmmach(ind) == [k \in 1 .. Len(hp) - 1 |-> IF k = ind THEN hp[Len(hp)] ELSE hp[k]]

Remove ==
  /\ pc = "remove" /\ m.h <= Len(hp)
  /\ hp' = IF delta[hp[m.h]] = HostDown THEN Rmmach(m.h) ELSE hp
  /\ m' = [m EXCEPT !.h = @ + 1]
  /\ UNCHANGED <<deltaVars, tod, off, clock>>

ClockNext ==
  \/ NoAnswer \/ \E d1, d2 \in Delays : Reply(d1, d2)
  \/ Measured \/ NetworkDelta \/ CorrectOwn \/ Correct \/ Remove

ClockSpec == ClockInit /\ [][ClockNext]_vars

-----------------------------------------------------------------------------
Over == pc = "remove" /\ m.h > Len(hp)
Distance(a, b) == IF a > b THEN a - b ELSE b - a

(***************************************************************************)
(* What measure() finds is the difference of the clocks, up to half of the *)
(* delay of a message in one direction, at any time of day: around         *)
(* midnight small differences do not appear enormous.                      *)
(***************************************************************************)
Accurate ==
  pc = "sort" =>
    \A h \in Slaves : delta[h] # HostDown =>
      off[h] # Foreign /\ 2 * Distance(delta[h] - Processing, off[h]) <= MaxDelay + 2

(***************************************************************************)
(* After a round the clocks of the machines that acknowledged agree with   *)
(* the master's, whatever the network's time: they differ by no more than  *)
(* the error of the measurement and of rounding.                           *)
(***************************************************************************)
Agree ==
  Over => \A h \in Slaves : delta[h] # HostDown =>
            2 * Distance(clock[h], clock[0]) <= MaxDelay + 2 * Processing + 10

(***************************************************************************)
(* The master still has every machine that answered, once; what is left of *)
(* those that did not are entries that had been moved.                     *)
(***************************************************************************)
TableKept ==
  Over => /\ \A h \in Slaves : delta[h] # HostDown => \E k \in 1 .. Len(hp) : hp[k] = h
          /\ \A k, l \in 1 .. Len(hp) : hp[k] = hp[l] => k = l
          /\ 2 * Cardinality({k \in 1 .. Len(hp) : delta[hp[k]] = HostDown}) <=
             Cardinality({h \in Slaves : delta[h] = HostDown})
=============================================================================
