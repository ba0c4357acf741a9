------------------------------ MODULE RmapSpec ------------------------------
(***************************************************************************)
(* What a resource map promises: units are handed out to one user at a     *)
(* time, and come back.  A map whose table is too small may lose units it  *)
(* gets back, never a unit someone has.                                    *)
(***************************************************************************)
EXTENDS Integers

CONSTANT Pieces      \* pairs of an address and a size

VARIABLES
  free,       \* the units that can be had
  used        \* the pieces in use

vars == <<free, used>>

Units(e) == e[1] .. e[1] + e[2] - 1

\* Some pieces are in use from the start: swap devices not yet opened.
Init == /\ used \subseteq Pieces
        /\ free \cap UNION {Units(e) : e \in used} = {}
        /\ \A d, e \in used : d # e => Units(d) \cap Units(e) = {}

Take(e) == /\ Units(e) \subseteq free
           /\ used' = used \cup {e}
           /\ free' \subseteq free \ Units(e)

Give(e) == /\ e \in used
           /\ used' = used \ {e}
           /\ free' \subseteq free \cup Units(e)

Next == \E e \in Pieces : Take(e) \/ Give(e)

Spec == Init /\ [][Next]_vars
=============================================================================
