----------------------------- MODULE CalloutSpec -----------------------------
(***************************************************************************)
(* What timeout() and untimeout() promise: a call asked for t ticks from   *)
(* now is made once, not before its tick, in the order of the ticks, and   *)
(* not at all if it is taken back before it is made.                       *)
(***************************************************************************)
EXTENDS Integers, Bags

CONSTANTS Funcs, Delays, None

VARIABLES
  now,        \* ticks so far
  pending,    \* the calls to be made: a bag of <<function, tick>>
  calling     \* the call being made, with the ticks it is late, or None

vars == <<now, pending, calling>>

\* The promises start with no call asked for.
Init == now = 0 /\ pending = EmptyBag /\ calling = None

\* The entries that fall due no later than any other for the same function.
FirstOf(f) ==
  {e \in BagToSet(pending) :
     e[1] = f /\ \A x \in BagToSet(pending) : x[1] = f => e[2] <= x[2]}

Tick == now' = now + 1 /\ UNCHANGED <<pending, calling>>

Timeout(f, t) ==
  /\ pending' = pending (+) SetToBag({<<f, now + (IF t <= 0 THEN 1 ELSE t)>>})
  /\ UNCHANGED <<now, calling>>

Untimeout(f) ==
  \E e \in FirstOf(f) : /\ pending' = pending (-) SetToBag({e})
                        /\ UNCHANGED <<now, calling>>

Call ==
  \E e \in BagToSet(pending) :
    /\ calling = None
    /\ e[2] <= now
    /\ \A x \in BagToSet(pending) : e[2] <= x[2]
    /\ pending' = pending (-) SetToBag({e})
    /\ calling' = <<e[1], now - e[2]>>
    /\ UNCHANGED now

Return == calling # None /\ calling' = None /\ UNCHANGED <<now, pending>>

Next ==
  \/ Tick
  \/ \E f \in Funcs, t \in Delays : Timeout(f, t)
  \/ \E f \in Funcs : Untimeout(f)
  \/ Call
  \/ Return

Spec == Init /\ [][Next]_vars
=============================================================================
