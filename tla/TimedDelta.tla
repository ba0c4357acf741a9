------------------------------ MODULE TimedDelta ------------------------------
(***************************************************************************)
(* networkdelta() of the time daemon, etc/timed/networkdelta.c: the master *)
(* has the differences between its clock and those of its slaves and looks *)
(* for the largest set of them within RANGE; their average is the time     *)
(* the network is set to.  One step per turn of the loop.                  *)
(***************************************************************************)
EXTENDS Integers, FiniteSets, FiniteSetsExt

CONSTANTS
  N,         \* slvcount: the master and its slaves
  Deltas,    \* the differences that are measured
  RANGE,     \* the largest difference of differences that are averaged
  HostDown   \* HOSTDOWN, larger than any difference

DeltaAssumption ==
  /\ N \in Nat \ {0, 1} /\ Deltas \subseteq Int /\ 0 \in Deltas /\ RANGE \in Nat
  /\ HostDown \in Int /\ \A d \in Deltas : d < HostDown

VARIABLES
  delta,     \* hp[].delta
  machup,    \* the machines that have answered
  x,         \* the differences, sorted
  i, j,      \* the window that is looked at
  minind,    \* the best window so far
  maxind,
  average,
  pc

deltaVars == <<delta, machup, x, i, j, minind, maxind, average, pc>>

Index == 0 .. N - 1
Up == {h \in Index : delta[h] # HostDown}

Init ==
  /\ delta \in {d \in [Index -> Deltas \cup {HostDown}] : d[0] = 0}
  /\ machup = Cardinality(Up) /\ machup > 1
  /\ x = delta /\ i = 0 /\ j = 1 /\ minind = 0 /\ maxind = 1
  /\ average = 0 /\ pc = "sort"

(***************************************************************************)
(* The k-th of the differences in ascending order.                         *)
(***************************************************************************)
Ranked(k) ==
  CHOOSE v \in {delta[h] : h \in Index} :
    /\ Cardinality({h \in Index : delta[h] < v}) <= k
    /\ k < Cardinality({h \in Index : delta[h] <= v})

Sort ==
  /\ pc = "sort"
  /\ x' = [k \in Index |-> Ranked(k)]
  /\ i' = 0 /\ j' = 1 /\ minind' = 0 /\ maxind' = 1
  /\ pc' = IF machup = 2 THEN "compute" ELSE "loop"
  /\ UNCHANGED <<delta, machup, average>>

Better(lo, hi) == x[hi] - x[lo] <= RANGE /\ hi - lo >= maxind - minind

\* the loop goes on until all machines have been looked at
MutantAgain == pc' = IF j' < N THEN "loop" ELSE "last"

Again == pc' = IF j' < machup THEN "loop" ELSE "last"

\* the window grows although it is too wide already
MutantGrow ==
  /\ pc = "loop" /\ x[j] - x[j - 1] <= RANGE
  /\ j' = j + 1 /\ Again
  /\ UNCHANGED <<delta, machup, x, i, minind, maxind, average>>

Grow ==
  /\ pc = "loop" /\ x[j] - x[i] <= RANGE
  /\ j' = j + 1 /\ Again
  /\ UNCHANGED <<delta, machup, x, i, minind, maxind, average>>

Top == IF j > i + 1 THEN j - 1 ELSE j

\* the window is closed and i++ is forgotten
MutantClose ==
  /\ pc = "loop" /\ x[j] - x[i] > RANGE
  /\ IF Better(i, Top) THEN minind' = i /\ maxind' = Top ELSE UNCHANGED <<minind, maxind>>
  /\ j' = Top /\ Again
  /\ UNCHANGED <<delta, machup, x, i, average>>

(***************************************************************************)
(* The window is closed.  "if(i = j) j++" is an assignment: the next       *)
(* window starts at the last element of this one.                          *)
(***************************************************************************)
Close ==
  /\ pc = "loop" /\ x[j] - x[i] > RANGE
  /\ IF Better(i, Top) THEN minind' = i /\ maxind' = Top ELSE UNCHANGED <<minind, maxind>>
  /\ i' = Top
  /\ j' = Top + 1
  /\ Again
  /\ UNCHANGED <<delta, machup, x, average>>

Last ==
  /\ pc = "last"
  /\ IF Better(i, machup - 1)
     THEN minind' = i /\ maxind' = machup - 1
     ELSE UNCHANGED <<minind, maxind>>
  /\ pc' = "compute"
  /\ UNCHANGED <<delta, machup, x, i, j, average>>

\* C's division
Quotient(a, b) == IF a >= 0 THEN a \div b ELSE -((-a) \div b)

SumOf(lo, hi) == MapThenSumSet(LAMBDA k : x[k], lo .. hi)

Compute ==
  /\ pc = "compute"
  /\ average' = Quotient(SumOf(minind, maxind), maxind - minind + 1)
  /\ pc' = "done"
  /\ UNCHANGED <<delta, machup, x, i, j, minind, maxind>>

DeltaNext == Sort \/ Grow \/ Close \/ Last \/ Compute
Spec == Init /\ [][DeltaNext]_deltaVars
Fairness == WF_deltaVars(DeltaNext)

-----------------------------------------------------------------------------
(***************************************************************************)
(* The windows stay among the machines that have answered: the difference  *)
(* of one that is down is never part of the average.                       *)
(***************************************************************************)
OnlyAnswers ==
  /\ pc = "loop" => 0 <= i /\ i < j /\ j < machup
  /\ pc \in {"compute", "done"} =>
       0 <= minind /\ minind < maxind /\ maxind < machup /\ x[maxind] # HostDown

(***************************************************************************)
(* When two of the clocks agree within RANGE, what is averaged lies within *)
(* RANGE: clocks that are far off, however many, do not move the network's *)
(* time away from those that agree.                                        *)
(***************************************************************************)
OutliersIgnored ==
  /\ pc = "done" /\ machup > 2
  /\ \E k \in 1 .. machup - 1 : x[k] - x[k - 1] <= RANGE
  => x[maxind] - x[minind] <= RANGE

(***************************************************************************)
(* networkdelta() returns: no sequence of windows goes round for ever.     *)
(***************************************************************************)
Returns == <>(pc = "done")

(***************************************************************************)
(* networkdelta() "selects the largest set of deltas that fall within the  *)
(* interval RANGE": no window within RANGE has more of them.               *)
(***************************************************************************)
Largest ==
  pc = "done" /\ machup > 2 =>
    \A lo, hi \in 0 .. machup - 1 :
      lo < hi /\ x[hi] - x[lo] <= RANGE => hi - lo <= maxind - minind
=============================================================================
