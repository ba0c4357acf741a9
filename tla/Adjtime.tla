------------------------------- MODULE Adjtime -------------------------------
(***************************************************************************)
(* adjtime() of sys/sys/kern_time.c and the part of hardclock() that       *)
(* applies the correction.  Times are in microseconds scaled down.         *)
(***************************************************************************)
EXTENDS Integers

CONSTANTS
  Deltas,     \* the corrections asked for
  Tickadj,    \* tickadj, the standard correction per tick
  Bigadj,     \* bigadj, above which it is ten times that
  None

VARIABLES
  timedelta,  \* the correction that is left
  tickdelta,  \* the correction per tick
  ndelta,     \* what the adjtime() under way will set, or None
  asked,      \* the last correction asked for, as it was rounded
  applied     \* what of it has been applied

vars == <<timedelta, tickdelta, ndelta, asked, applied>>

\* Division and remainder of C.
Quo(a, b) == IF a >= 0 THEN a \div b ELSE -((-a) \div b)
Rem(a, b) == a - b * Quo(a, b)

Init ==
  /\ timedelta = 0 /\ tickdelta = 0 /\ ndelta = None
  /\ asked = 0 /\ applied = 0

\* An adjtime() that does not round.
MutantAdjtimeRound(d) ==
  /\ ndelta = None
  /\ tickdelta' = IF timedelta # 0 THEN tickdelta
                  ELSE IF d > Bigadj THEN 10 * Tickadj ELSE Tickadj
  /\ ndelta' = d
  /\ UNCHANGED <<timedelta, asked, applied>>

\* adjtime() up to splclock(): the rate and the rounding.
AdjtimeRound(d) ==
  LET rate == IF timedelta # 0 THEN tickdelta
              ELSE IF d > Bigadj THEN 10 * Tickadj ELSE Tickadj
  IN  /\ ndelta = None
      /\ tickdelta' = rate
      /\ ndelta' = IF Rem(d, rate) # 0 THEN Quo(d, Tickadj) * Tickadj ELSE d
      /\ UNCHANGED <<timedelta, asked, applied>>

AdjtimeSet ==
  /\ ndelta # None
  /\ timedelta' = ndelta /\ asked' = ndelta
  /\ applied' = 0 /\ ndelta' = None
  /\ UNCHANGED tickdelta

\* A hardclock() that forgets the sign in what is left.
MutantHardclockSign ==
  /\ timedelta # 0
  /\ timedelta' = timedelta - tickdelta
  /\ applied' = applied + (IF timedelta < 0 THEN -tickdelta ELSE tickdelta)
  /\ UNCHANGED <<tickdelta, ndelta, asked>>

\* hardclock() with a correction left.
Hardclock ==
  /\ timedelta # 0
  /\ IF timedelta < 0
     THEN timedelta' = timedelta + tickdelta /\ applied' = applied - tickdelta
     ELSE timedelta' = timedelta - tickdelta /\ applied' = applied + tickdelta
  /\ UNCHANGED <<tickdelta, ndelta, asked>>

Next == (\E d \in Deltas : AdjtimeRound(d)) \/ AdjtimeSet \/ Hardclock

\* The clock ticks, and a call of adjtime() ends.
Fairness == WF_vars(Hardclock) /\ WF_vars(AdjtimeSet)

Spec == Init /\ [][Next]_vars /\ Fairness

-----------------------------------------------------------------------------
\* What was asked for is what has been applied and what is left: no tick
\* between the rounding and the setting is counted for the wrong correction.
CorrectionConserved == asked = applied + timedelta

\* A correction is settled: none is left.  One at ten times the standard rate
\* that is no multiple of this rate, since adjtime() rounds to tickadj and not
\* to tickdelta, is never used up: hardclock() goes past zero and back again.
Settled ==
  IF tickdelta > Tickadj /\ Rem(asked, tickdelta) # 0
  THEN timedelta < tickdelta /\ -timedelta < tickdelta
  ELSE timedelta = 0

(***************************************************************************)
(* A correction comes to its end, unless another one replaces it: every    *)
(* one at the standard rate and every multiple of the higher rate reaches  *)
(* zero, where hardclock() goes back to plain ticks, and any other large   *)
(* one comes within one tick of it.                                        *)
(***************************************************************************)
CorrectionEnds == (timedelta # 0) ~> (Settled \/ ndelta # None)
=============================================================================
