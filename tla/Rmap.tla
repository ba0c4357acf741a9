-------------------------------- MODULE Rmap --------------------------------
(***************************************************************************)
(* A resource map (RmapTable) and those who use it: kernelmap with its     *)
(* waiters, swapmap with its devices.                                      *)
(***************************************************************************)
EXTENDS RmapTable

CONSTANTS
  Procs,      \* who may wait for space
  Sizes,      \* the sizes asked for
  Top,        \* units are 1 .. Top: 0 is not an address
  Boot,       \* the segment of rminit(), <<addr, size>>
  Later,      \* pieces freed later that were never allocated (swfree())
  IsKernelmap,\* whether this is kernelmap
  Nobody      \* no request

Unit == 1 .. Top
Pieces == {e \in Unit \X Unit : Units(e) \subseteq Unit}

\* A piece that does not cross a multiple of dmmax.
OneDevice(e) == e[1] \div Dmmax = (e[1] + e[2] - 1) \div Dmmax

\* What the users of a map rely on: swap space is asked for, and freed at
\* boot, in clusters and never across devices.
RmapAssumption ==
  /\ RmapTableAssumption
  /\ Top \in Nat /\ Sizes \subseteq Unit
  /\ IsSwapmap =>
       /\ \A n \in Sizes : n <= Dmmax /\ n % Clsize = 0
       /\ Dmmax % Clsize = 0
       /\ \A e \in Later \cup {Boot} : e[1] % Clsize = 0
       /\ Nswdev > 1 => \A e \in Later : OneDevice(e)
  /\ Boot \in Pieces /\ Later \subseteq Pieces /\ Boot \notin Later
  /\ \A d, e \in Later \cup {Boot} : d # e => Units(d) \cap Units(e) = {}
  /\ Nobody \notin Sizes /\ IsKernelmap \in BOOLEAN /\ ~(IsKernelmap /\ IsSwapmap)

VARIABLES
  map,        \* the segments
  used,       \* the pieces that are allocated, or not yet freed at all
  lost,       \* units dropped with "rmap ovflo"
  kmapwnt,
  asleep,     \* the size each sleeper on kernelmap waits for
  panicked

vars == <<map, used, lost, kmapwnt, asleep, panicked>>

Segment == [m_addr : Unit, m_size : Unit]

TypeOK ==
  /\ map \in Seq(Segment) /\ Len(map) <= MaxSegs
  /\ used \subseteq Pieces /\ lost \subseteq Unit
  /\ kmapwnt \in BOOLEAN /\ asleep \in [Procs -> Sizes \cup {Nobody}]
  /\ panicked \in BOOLEAN

-----------------------------------------------------------------------------
(***************************************************************************)
(* The users.  Nothing here sleeps between looking at a map and changing   *)
(* it, and interrupts that use the same map are kept out.                  *)
(***************************************************************************)

Init ==
  /\ map = <<Seg(Boot[1], Boot[2])>> /\ used = Later /\ lost = {}
  /\ kmapwnt = FALSE /\ asleep = [p \in Procs |-> Nobody] /\ panicked = FALSE

\* Someone who does not wait: wmemall(), vsexpand(), UBA_CANTWAIT.
Rmalloc(size) ==
  LET r == RmallocMap(map, size)
  IN  /\ ~panicked
      /\ r.addr # 0 \/ r.bad
      /\ map' = r.map /\ lost' = lost \cup r.lost
      /\ used' = used \cup {<<r.addr, size>>}
      /\ panicked' = r.bad
      /\ UNCHANGED <<kmapwnt, asleep>>

\* Someone who waits: getpages(), procdup(), nfs_strategy().
RmallocWait(p, size) ==
  LET r == RmallocMap(map, size)
  IN  /\ ~panicked /\ IsKernelmap /\ asleep[p] = Nobody
      /\ r.addr = 0
      /\ kmapwnt' = TRUE
      /\ asleep' = [asleep EXCEPT ![p] = size]
      /\ UNCHANGED <<map, used, lost, panicked>>

Rmget(size, addr) ==
  LET r == RmgetMap(map, size, addr)
  IN  /\ ~panicked
      /\ r.addr # 0
      /\ map' = r.map
      /\ used' = used \cup {<<addr, size>>}
      /\ UNCHANGED <<lost, kmapwnt, asleep, panicked>>

\* An rmfree() that returns without the wakeup when it combined segments.
MutantRmfree(e) ==
  LET r == RmfreeMap(map, e[2], e[1])
      w == IsKernelmap /\ kmapwnt /\ Len(r.map) > Len(map)
  IN  /\ ~panicked /\ e \in used
      /\ map' = r.map /\ lost' = lost \cup r.lost
      /\ used' = used \ {e}
      /\ kmapwnt' = IF w THEN FALSE ELSE kmapwnt
      /\ asleep' = IF w THEN [p \in Procs |-> Nobody] ELSE asleep
      /\ panicked' = r.bad

\* rmfree() of a piece, with the wakeup of those who wait for kernelmap.
Rmfree(e) ==
  LET r == RmfreeMap(map, e[2], e[1])
      w == IsKernelmap /\ kmapwnt
  IN  /\ ~panicked /\ e \in used
      /\ map' = r.map /\ lost' = lost \cup r.lost
      /\ used' = used \ {e}
      /\ kmapwnt' = IF w THEN FALSE ELSE kmapwnt
      /\ asleep' = IF w THEN [p \in Procs |-> Nobody] ELSE asleep
      /\ panicked' = r.bad

Next ==
  \/ \E n \in Sizes : Rmalloc(n)
  \/ \E p \in Procs, n \in Sizes : RmallocWait(p, n)
  \/ \E n \in Sizes, a \in Unit : Rmget(n, a)
  \/ \E e \in Pieces : Rmfree(e)

Spec == Init /\ [][Next]_vars

-----------------------------------------------------------------------------
(***************************************************************************)
(* Properties                                                              *)
(***************************************************************************)

Abstract == INSTANCE RmapSpec WITH free <- Free(map)

(***************************************************************************)
(* rmalloc(), rmget() and rmfree() keep the promises of RmapSpec: whatever *)
(* splitting, combining, first fit, interleaving and overflow do to the    *)
(* table, no unit is handed out while someone has it.                      *)
(***************************************************************************)
KeepsPromises == Abstract!Spec

(***************************************************************************)
(* The segments are in address order and no two of them abut: rmfree()     *)
(* always combines, as its searches and the size of the table rely on.     *)
(***************************************************************************)
SortedAndCombined ==
  \A i \in 1 .. Len(map) - 1 : End(map[i]) < map[i + 1].m_addr

\* A unit is free, in use or lost, and only one of them.
EveryUnitAccounted ==
  LET given == UNION {Units(e) : e \in Later \cup {Boot}}
      inuse == UNION {Units(e) : e \in used}
  IN  /\ Free(map) \cup inuse \cup lost = given
      /\ Free(map) \cap inuse = {} /\ lost \cap (Free(map) \cup inuse) = {}

\* "bad rmfree" and "rmalloc swapmap" are not reached by users who give back
\* what they were given.
NoPanic == ~panicked

\* Units are lost only by a step that finds the table full.
LossOnlyWhenFull == [][lost' # lost => Len(map) = MaxSegs]_vars

(***************************************************************************)
(* With several swap devices a piece of swapmap lies within one of them:   *)
(* no allocation crosses a multiple of dmmax.                              *)
(***************************************************************************)
WithinOneDevice ==
  IsSwapmap /\ Nswdev > 1 =>
    \A e \in used : OneDevice(e)

(***************************************************************************)
(* Nobody sleeps on kernelmap while a segment is large enough: every       *)
(* rmfree() wakes all, also one that only makes a segment larger.          *)
(***************************************************************************)
NobodySleepsOnSpace ==
  \A p \in Procs : asleep[p] # Nobody =>
    kmapwnt /\ \A k \in DOMAIN map : ~Fits(map[k], asleep[p])
=============================================================================
