-------------------------------- MODULE Drum --------------------------------
(***************************************************************************)
(* Swap space of processes: sys/sys/vm_drum.c over swapmap, and the calls  *)
(* of it in fork(), exec(), exit(), obreak() and grow().                   *)
(*                                                                         *)
(* A segment has blocks of dmmin, 2*dmmin, ... up to dmmax units.  u_dsize *)
(* and u_ssize are the dm_size of the segments: every change of either     *)
(* goes through swpexpand().  swpexpand() does not sleep.                  *)
(***************************************************************************)
EXTENDS RmapTable, FiniteSets

CONSTANTS
  Procs,
  Dmmin,      \* the size of the first block of a segment
  MaxSize,    \* the largest size asked for
  Swap        \* swapmap to begin with

VARIABLES
  map,        \* swapmap
  lost,       \* units dropped with "rmap ovflo"
  dm,         \* the dmaps of each process: u_dmap, u_smap, u_cdmap, u_csmap
  state,      \* "none", "run", "exec" (releasing the old image) of each
  refused,    \* whether the last swpexpand() returned 0
  panicked

vars == <<map, lost, dm, state, refused, panicked>>

Which == {"d", "s", "cd", "cs"}
Dmap == [size : 0 .. MaxSize, blocks : Seq(Nat)]
zdmap == [size |-> 0, blocks |-> <<>>]

\* What vm_drum.c relies on.
DrumAssumption ==
  /\ RmapTableAssumption
  /\ IsSwapmap /\ Dmmin \in 1 .. Dmmax /\ MaxSize \in Nat
  /\ \A i \in DOMAIN Swap : Swap[i].m_addr > 0 /\ Swap[i].m_size > 0

\* The size of block i of a segment, and the offset it starts at.
Blk(i) == IF Dmmin * 2^(i - 1) > Dmmax THEN Dmmax ELSE Dmmin * 2^(i - 1)
Base(i) ==
  LET sum[j \in 1 .. i] == IF j = 1 THEN 0 ELSE sum[j - 1] + Blk(j - 1)
  IN  sum[i]
\* dm_alloc.
Alloc(d) == Base(Len(d.blocks) + 1)

TypeOK ==
  /\ map \in Seq([m_addr : Nat, m_size : Nat]) /\ Len(map) <= MaxSegs
  /\ dm \in [Procs -> [Which -> Dmap]]
  /\ state \in [Procs -> {"none", "run", "exec"}]
  /\ refused \in BOOLEAN /\ panicked \in BOOLEAN

-----------------------------------------------------------------------------
(***************************************************************************)
(* vsexpand() and swpexpand().  x is the map, what it lost, the dmap under *)
(* way and whether a panic or a refusal came of it.                        *)
(***************************************************************************)

\* A block too few when the size ends in the middle of one.
MutantBlocks(vssize) == CHOOSE n \in 0 .. MaxSize :
                          Base(n + 1) <= vssize /\ Base(n + 2) > vssize

\* The last block a segment of this size needs.
Blocks(vssize) == CHOOSE n \in 0 .. MaxSize :
                    Base(n + 1) >= vssize /\ (n > 0 => Base(n) < vssize)

\* x with the map that an rmalloc() or rmfree() leaves.
Merged(x, r) ==
  [x EXCEPT !.map = r.map, !.lost = @ \cup r.lost, !.bad = @ \/ r.bad]

\* rmfree() of block i.
FreeBlock(x, i) == Merged(x, RmfreeMap(x.map, Blk(i), x.d.blocks[i]))

\* The blocks beyond the first k are freed.
Trim(x, k, vssize) ==
  [FoldLeft(FreeBlock, x, [i \in 1 .. Len(x.d.blocks) - k |-> k + i])
     EXCEPT !.d = [size |-> vssize, blocks |-> SubSeq(x.d.blocks, 1, k)]]

\* The loop of vsexpand() over the blocks that are there: those beyond the
\* size are freed, if that is all of them or the caller allows it.
Shrink(x, vssize, canshrink) ==
  Trim(x, IF vssize = 0 THEN 0
          ELSE IF canshrink /\ Blocks(vssize) < Len(x.d.blocks) THEN Blocks(vssize)
          ELSE Len(x.d.blocks), vssize)

\* rmalloc() of block i, unless an earlier one failed.
GotBlock(x, r) ==
  IF r.addr = 0 THEN [x EXCEPT !.ok = FALSE]
  ELSE [Merged(x, r) EXCEPT !.d.blocks = Append(@, r.addr)]
AllocBlock(x, i) == IF x.ok THEN GotBlock(x, RmallocMap(x.map, Blk(i))) ELSE x

\* A vsexpand() that keeps the blocks it got.
MutantGrown(y, vssize, oldsize) == IF y.ok THEN [y EXCEPT !.d.size = vssize] ELSE y

\* When a block cannot be had, back to the old size.
Grown(y, vssize, oldsize) ==
  IF y.ok THEN [y EXCEPT !.d.size = vssize] ELSE Shrink(y, oldsize, TRUE)

Vsexpand(x, vssize, canshrink) ==
  LET n == Len(x.d.blocks)
  IN  IF Blocks(vssize) <= n THEN Shrink(x, vssize, canshrink)
      ELSE Grown(FoldLeft(AllocBlock, x, [i \in 1 .. Blocks(vssize) - n |-> n + i]),
                 vssize, x.d.size)

Start(m, d) == [map |-> m, lost |-> {}, bad |-> FALSE, ok |-> TRUE, d |-> d]

\* x with both segments.
Both(x, d1, d2, yes) ==
  [map |-> x.map, lost |-> x.lost, bad |-> x.bad, ok |-> yes, d |-> d1, s |-> d2]

\* A swpexpand() that does not take back the first segment.
MutantSecondDone(a, b, oldsize) == Both(b, a.d, b.d, b.ok)

\* The first segment goes back when there is no space for the second.
TakenBack(c, d2) == Both(c, c.d, d2, FALSE)
SecondDone(a, b, oldsize) ==
  IF b.ok THEN Both(b, a.d, b.d, TRUE)
  ELSE TakenBack(Vsexpand([b EXCEPT !.d = a.d, !.ok = TRUE], oldsize, TRUE), b.d)
FirstDone(a, oldsize, two, n2) ==
  IF ~a.ok THEN Both(a, a.d, two, FALSE)
  ELSE SecondDone(a, Vsexpand([a EXCEPT !.d = two], n2, FALSE), oldsize)
InOrder(m, one, n1, two, n2) ==
  FirstDone(Vsexpand(Start(m, one), n1, FALSE), one.size, two, n2)

\* swpexpand(): both segments or neither, one that is not growing last.
Swapped(r) == [r EXCEPT !.d = r.s, !.s = r.d]
Swpexpand(m, dmp, ds, smp, ss) ==
  IF Alloc(dmp) > ds THEN Swapped(InOrder(m, smp, ss, dmp, ds))
  ELSE InOrder(m, dmp, ds, smp, ss)

\* vsexpand(0) of two segments.
Release(m, d1, d2) ==
  Vsexpand([Vsexpand(Start(m, d1), 0, TRUE) EXCEPT !.d = d2], 0, TRUE)

-----------------------------------------------------------------------------
(***************************************************************************)
(* The system calls.                                                       *)
(***************************************************************************)

Init ==
  /\ map = Swap /\ lost = {} /\ refused = FALSE /\ panicked = FALSE
  /\ dm = [p \in Procs |-> [w \in Which |-> zdmap]]
  /\ \E p \in Procs : state = [q \in Procs |-> IF q = p THEN "run" ELSE "none"]

Put(r) ==
  /\ map' = r.map /\ lost' = lost \cup r.lost /\ panicked' = r.bad

\* obreak() and grow().
Resized(p, r) ==
  /\ Put(r) /\ refused' = ~r.ok
  /\ dm' = [dm EXCEPT ![p]["d"] = r.d, ![p]["s"] = r.s]
  /\ UNCHANGED state
Resize(p, ds, ss) ==
  /\ ~panicked /\ state[p] = "run"
  /\ Resized(p, Swpexpand(map, dm[p]["d"], ds, dm[p]["s"], ss))

Obreak(p, n) == Resize(p, n, dm[p]["s"].size)
Grow(p, n) == n > dm[p]["s"].size /\ Resize(p, dm[p]["d"].size, n)

\* fork(): space for the child, given back when there is no slot for it.
GivenBack(r, g) == [g EXCEPT !.lost = @ \cup r.lost, !.bad = @ \/ r.bad]
Forked(r) ==
  /\ refused' = ~r.ok
  /\ \/ ~r.ok /\ Put(r) /\ UNCHANGED <<dm, state>>
     \/ /\ r.ok /\ Put(r)
        /\ \E q \in Procs :
             /\ state[q] = "none"
             /\ dm' = [dm EXCEPT ![q]["d"] = r.d, ![q]["s"] = r.s]
             /\ state' = [state EXCEPT ![q] = "run"]
     \/ /\ r.ok /\ Put(GivenBack(r, Release(r.map, r.d, r.s)))
        /\ UNCHANGED <<dm, state>>
Fork(p) ==
  /\ ~panicked /\ state[p] = "run"
  /\ Forked(Swpexpand(map, zdmap, dm[p]["d"].size, zdmap, dm[p]["s"].size))

\* getxfile() up to the commitment to the new image.
NewImage(p, r) ==
  /\ refused' = ~r.ok /\ Put(r)
  /\ IF r.ok THEN /\ dm' = [dm EXCEPT ![p]["cd"] = r.d, ![p]["cs"] = r.s]
                  /\ state' = [state EXCEPT ![p] = "exec"]
     ELSE UNCHANGED <<dm, state>>
Exec(p, ds, ss) ==
  /\ ~panicked /\ state[p] = "run"
  /\ NewImage(p, Swpexpand(map, zdmap, ds, zdmap, ss))

\* An exec() that keeps the maps it released.
MutantExecDone(p) ==
  /\ ~panicked /\ state[p] = "exec" /\ Put(Release(map, dm[p]["d"], dm[p]["s"]))
  /\ dm' = [dm EXCEPT ![p]["cd"] = zdmap, ![p]["cs"] = zdmap]
  /\ state' = [state EXCEPT ![p] = "run"]
  /\ refused' = FALSE

\* vrelvm(), which may have slept for pageouts, and the new maps.
ExecDone(p) ==
  /\ ~panicked /\ state[p] = "exec" /\ Put(Release(map, dm[p]["d"], dm[p]["s"]))
  /\ dm' = [dm EXCEPT ![p] = [d |-> @["cd"], s |-> @["cs"],
                              cd |-> zdmap, cs |-> zdmap]]
  /\ state' = [state EXCEPT ![p] = "run"]
  /\ refused' = FALSE

\* exit() and its vrelvm().
Exit(p) ==
  /\ ~panicked /\ state[p] = "run" /\ Put(Release(map, dm[p]["d"], dm[p]["s"]))
  /\ \E q \in Procs \ {p} : state[q] # "none"
  /\ dm' = [dm EXCEPT ![p] = [w \in Which |-> zdmap]]
  /\ state' = [state EXCEPT ![p] = "none"]
  /\ refused' = FALSE

Size == 0 .. MaxSize

Next ==
  \E p \in Procs :
    \/ \E n \in Size : Obreak(p, n)
    \/ \E n \in Size : Grow(p, n)
    \/ Fork(p)
    \/ \E ds, ss \in Size : Exec(p, ds, ss)
    \/ ExecDone(p)
    \/ Exit(p)

Spec == Init /\ [][Next]_vars

-----------------------------------------------------------------------------
(***************************************************************************)
(* Properties                                                              *)
(***************************************************************************)

Held == {<<p, w, i>> \in Procs \X Which \X (1 .. MaxSize) :
           i <= Len(dm[p][w].blocks)}
UnitsOf(h) == Units(<<dm[h[1]][h[2]].blocks[h[3]], Blk(h[3])>>)

(***************************************************************************)
(* Every unit of swap space is free, lost to an overflow of swapmap, or in *)
(* exactly one block of one segment of one process: no refusal halfway     *)
(* through, fork() without a slot, exec() or exit() leaks or shares any.   *)
(***************************************************************************)
SwapSpaceAccounted ==
  LET held == UNION {UnitsOf(h) : h \in Held}
  IN  /\ Free(map) \cup held \cup lost = Free(Swap)
      /\ Free(map) \cap held = {} /\ lost \cap (Free(map) \cup held) = {}
      /\ \A g, h \in Held : g # h => UnitsOf(g) \cap UnitsOf(h) = {}

\* "If space is not available for both, retract and return 0": a refused
\* swpexpand() leaves the sizes of all segments, and no segment has grown.
Retracts ==
  refused' => \A p \in Procs, w \in Which :
                /\ dm'[p][w].size = dm[p][w].size
                /\ Len(dm'[p][w].blocks) <= Len(dm[p][w].blocks)
RefusalRetracts == [][Retracts]_vars

\* A segment has blocks for all of its size.
BlocksForSize ==
  \A p \in Procs, w \in Which : Alloc(dm[p][w]) >= dm[p][w].size

\* Neither "bad rmfree", "rmalloc swapmap" nor "vsexpand" is reached.
NoPanic == ~panicked

(***************************************************************************)
(* vm_drum.c:69: blocks a segment had before are released only when it     *)
(* shrinks to zero, because pageouts to them may be in progress.           *)
(***************************************************************************)
ReleasedOnlyAtZero ==
  [][\A p \in Procs, w \in {"d", "s"} :
       dm'[p][w].size > 0 /\ state[p] = "run" =>
         Len(dm'[p][w].blocks) >= Len(dm[p][w].blocks)]_vars
=============================================================================
