------------------------------- MODULE MCClock -------------------------------
(***************************************************************************)
(* Instances of what must come to an end because the clock ticks: the      *)
(* timeout queue of Callout, the correction of the time of Adjtime, and    *)
(* select() with a timeout, of two processes on one socket.  They share no *)
(* state, so a behaviour is about one of them and leaves the others alone. *)
(***************************************************************************)
EXTENDS Callout, TLC

CONSTANTS p1, p2, s1, f1, f2, f3, Deltas, Tickadj, Bigadj

ASSUME AdjtimeAssumption ==
  Deltas \subseteq Int /\ Tickadj \in Nat \ {0} /\ Bigadj \in Nat /\ None \notin Int

VARIABLES
  duty,       \* which of them this behaviour is about
  timedelta, tickdelta, ndelta, asked, applied,                   \* Adjtime
  pc, cur, want, tv, expired, todo, n, SSEL, ncollOld, wchan,     \* Select
  SSTOP, sig, callout, ready, sb_sel, SB_COLL

adjvars == <<timedelta, tickdelta, ndelta, asked, applied>>

selvars == <<pc, cur, want, tv, expired, todo, n, SSEL, ncollOld, wchan, SSTOP,
             sig, callout, ready, sb_sel, SB_COLL>>

Adj == INSTANCE Adjtime
Sel == INSTANCE Select WITH Procs <- {p1, p2}, Socks <- {s1}

ThreeFuncs == {f1, f2, f3}
OneFunc    == {f1}
SomeDelays == {0, 1, 2}
\* The standard correction is two units a tick, that of what is above 42 ten
\* times as much: multiples of 20 and others, of both signs.
Corrections ==
  (-23 .. 23) \cup {-75, -60, -45, 41, 42, 43, 44, 50, 60, 75}

ClockInit ==
  /\ Init /\ Adj!Init /\ Sel!Init
  /\ duty \in {"callouts", "correction", "select"}

ClockNext ==
  \/ duty = "callouts" /\ Next /\ UNCHANGED <<duty, adjvars, selvars>>
  \/ duty = "correction" /\ Adj!Next /\ UNCHANGED <<duty, vars, selvars>>
  \/ duty = "select" /\ Sel!Next /\ UNCHANGED <<duty, vars, adjvars>>

ClockSpec ==
  /\ ClockInit /\ [][ClockNext]_<<duty, vars, adjvars, selvars>>
  /\ Fairness /\ Adj!Fairness /\ Sel!Fairness

\* While an entry is due, softclock() runs or is asked for; the correction that
\* was asked for is what has been applied and what is left.
TimeKept == TypeOK /\ DueIsNoticed /\ Adj!CorrectionConserved

\* A correction comes to its end, unless another one replaces it, large ones as
\* far as they can.
CorrectionEnds == Adj!CorrectionEnds

\* A select() with a timeout returns, unless the process stays stopped.
TimedSelectReturns == Sel!TimedSelectReturns
=============================================================================
