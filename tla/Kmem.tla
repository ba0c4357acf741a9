-------------------------------- MODULE Kmem ---------------------------------
(***************************************************************************)
(* The kernel's memory allocator, sys/sys/heap_kmem.c: free blocks in a    *)
(* Cartesian tree, ordered by address from left to right and by size from  *)
(* the root down, and blocks freed at interrupt level in lists until the   *)
(* next allocation.  A tree is a record with its two subtrees; what the    *)
(* code does by rewriting links along a path is a recursion on that path.  *)
(* Headers of free blocks come from a list that is never empty here.       *)
(***************************************************************************)
EXTENDS Integers, Sequences, FiniteSets

CONSTANTS
  Align,       \* ALIGN
  PageBytes,   \* CLBYTES
  NPages,      \* pages of kernelmap
  Sizes,       \* the sizes that are asked for
  Partial,     \* ends of blocks are freed, too
  Interrupts,  \* blocks are freed at interrupt level, too
  NtfBytes,    \* sizeof (struct need_to_free)
  NtfSize      \* NEED_TO_FREE_SIZE

\* What the allocator relies on.
KmemAssumption ==
  /\ Align \in Nat \ {0} /\ PageBytes % Align = 0 /\ NPages \in Nat
  /\ Sizes \subseteq Nat \ {0} /\ NtfBytes > Align /\ NtfSize \in Nat
  /\ Partial \in BOOLEAN /\ Interrupts \in BOOLEAN

VARIABLES
  tree,      \* free_root
  alloc,     \* the blocks that are allocated
  map,       \* the pages that are left in kernelmap
  ntflist,   \* need_to_free_list, which is kept in the blocks themselves
  ntf,       \* the entries of need_to_free[] in use, by index
  panic

vars == <<tree, alloc, map, ntflist, ntf, panic>>

Pages == 0 .. NPages - 1
Nil == [size |-> 0]
Weight(t) == t.size
Node(b, size, l, r) == [b |-> b, size |-> size, l |-> l, r |-> r]
AlignMore(b) == Align - (b % Align)
Unaligned(t) == t.b % Align # 0 /\ t.size > AlignMore(t.b)

(***************************************************************************)
(* mweight(): what can be allocated on a word boundary.                    *)
(***************************************************************************)
MWeight(t) ==
  IF t = Nil THEN 0 ELSE IF Unaligned(t) THEN t.size - AlignMore(t.b) ELSE t.size

Init ==
  /\ tree = Nil /\ alloc = {} /\ map = Pages
  /\ ntflist = <<>> /\ ntf = [i \in 1 .. NtfSize |-> <<>>] /\ panic = FALSE

-----------------------------------------------------------------------------
(***************************************************************************)
(* insert(): down to the first node that is smaller; the new node takes    *)
(* its place, with what was there divided at its address.                  *)
(***************************************************************************)
RECURSIVE Below(_, _), Above(_, _)
Below(t, p) ==
  IF t = Nil THEN Nil
  ELSE IF t.b < p THEN [t EXCEPT !.r = Below(t.r, p)] ELSE Below(t.l, p)
Above(t, p) ==
  IF t = Nil THEN Nil
  ELSE IF t.b < p THEN Above(t.r, p) ELSE [t EXCEPT !.l = Above(t.l, p)]

RECURSIVE Insert(_, _, _)
Insert(t, p, len) ==
  IF Weight(t) >= len
  THEN IF p < t.b THEN [t EXCEPT !.l = Insert(t.l, p, len)]
       ELSE [t EXCEPT !.r = Insert(t.r, p, len)]
  ELSE Node(p, len, Below(t, p), Above(t, p))

(***************************************************************************)
(* delete() merges the subtrees of the node; demote() does so until the    *)
(* node fits.                                                              *)
(***************************************************************************)
RECURSIVE Merge(_, _)
Merge(l, r) ==
  IF l = r THEN Nil
  ELSE IF Weight(l) >= Weight(r) THEN [l EXCEPT !.r = Merge(l.r, r)]
  ELSE [r EXCEPT !.l = Merge(l, r.l)]

Delete(t) == Merge(t.l, t.r)

RECURSIVE Demoted(_, _, _)
Demoted(x, l, r) ==
  IF Weight(l) > Weight(x) \/ Weight(r) > Weight(x)
  THEN IF Weight(l) >= Weight(r) THEN [l EXCEPT !.r = Demoted(x, l.r, r)]
       ELSE [r EXCEPT !.l = Demoted(x, l, r.l)]
  ELSE [x EXCEPT !.l = l, !.r = r]

\* demote() that looks at the left branch only
MutantDemote(x) == IF Weight(x.l) > Weight(x) THEN Demoted(x, x.l, x.r) ELSE x

Demote(x) == Demoted(x, x.l, x.r)

(***************************************************************************)
(* kmem_free(): on the way to its place the block absorbs its neighbours;  *)
(* a block that is free already is a panic.  The result is the tree        *)
(* without the neighbours and the block with them.                         *)
(***************************************************************************)
\* kmem_free() that stops when it has absorbed a neighbour
RECURSIVE MutantAbsorb(_, _, _)
MutantAbsorb(t, p, n) ==
  IF t = Nil THEN [t |-> Nil, p |-> p, n |-> n, bad |-> FALSE]
  ELSE IF p + n = t.b THEN [t |-> Delete(t), p |-> p, n |-> n + t.size, bad |-> FALSE]
  ELSE IF t.b + t.size = p
       THEN [t |-> Delete(t), p |-> t.b, n |-> n + t.size, bad |-> FALSE]
  ELSE IF p < t.b
       THEN LET a == MutantAbsorb(t.l, p, n) IN [a EXCEPT !.t = [t EXCEPT !.l = a.t]]
  ELSE LET a == MutantAbsorb(t.r, p, n) IN [a EXCEPT !.t = [t EXCEPT !.r = a.t]]

RECURSIVE Absorb(_, _, _)
Absorb(t, p, n) ==
  LET Left == Absorb(t.l, p, n)
      Right == Absorb(t.r, p, n)
  IN  CASE t = Nil -> [t |-> Nil, p |-> p, n |-> n, bad |-> FALSE]
        [] t # Nil /\ p + n = t.b -> Absorb(Delete(t), p, n + t.size)
        [] t # Nil /\ t.b + t.size = p -> Absorb(Delete(t), t.b, n + t.size)
        [] t # Nil /\ p + n < t.b -> [Left EXCEPT !.t = [t EXCEPT !.l = Left.t]]
        [] t # Nil /\ t.b + t.size < p -> [Right EXCEPT !.t = [t EXCEPT !.r = Right.t]]
        [] OTHER -> [t |-> t, p |-> p, n |-> n, bad |-> TRUE]

KmemFree(s, p, n) ==
  LET a == Absorb(s.tree, p, n)
  IN  [s EXCEPT !.tree = IF a.bad THEN @ ELSE Insert(a.t, a.p, a.n),
                !.panic = @ \/ a.bad]

(***************************************************************************)
(* kmem_alloc() takes the better fitting child as long as there is one     *)
(* that is large enough.  The result is the tree, the address, and the     *)
(* rest of an unaligned block, which is then freed.                        *)
(***************************************************************************)
\* an unaligned block is split, and what is behind the new block is forgotten
MutantCut(t, n) ==
  LET more == AlignMore(t.b)
  IN  IF t.size = n THEN [t |-> Delete(t), b |-> t.b, rest |-> 0]
      ELSE IF Unaligned(t)
      THEN [t |-> Demote(Node(t.b, more, t.l, t.r)), b |-> t.b + more, rest |-> 0]
      ELSE [t |-> Demote(Node(t.b + n, t.size - n, t.l, t.r)), b |-> t.b, rest |-> 0]

Cut(t, n) ==
  LET more == AlignMore(t.b)
  IN  IF t.size = n THEN [t |-> Delete(t), b |-> t.b, rest |-> 0]
      ELSE IF Unaligned(t)
      THEN [t |-> Demote(Node(t.b, more, t.l, t.r)), b |-> t.b + more,
            rest |-> IF t.size > n + more THEN t.size - n - more ELSE 0]
      ELSE [t |-> Demote(Node(t.b + n, t.size - n, t.l, t.r)), b |-> t.b, rest |-> 0]

RECURSIVE Take(_, _)
Take(t, n) ==
  LET lw == MWeight(t.l)
      rw == MWeight(t.r)
      left == IF lw <= rw THEN lw >= n ELSE rw < n
      Left == Take(t.l, n)
      Right == Take(t.r, n)
  IN  IF lw < n /\ rw < n THEN Cut(t, n)
      ELSE IF left THEN [Left EXCEPT !.t = [t EXCEPT !.l = Left.t]]
      ELSE [Right EXCEPT !.t = [t EXCEPT !.r = Right.t]]

(***************************************************************************)
(* check_need_to_free(): the list first, then the array.                   *)
(***************************************************************************)
RECURSIVE FreeAll(_, _)
FreeAll(s, q) ==
  IF q = <<>> THEN s ELSE FreeAll(KmemFree(s, Head(q).b, Head(q).n), Tail(q))

RECURSIVE Slots(_)
Slots(i) == IF i > NtfSize THEN <<>> ELSE ntf[i] \o Slots(i + 1)

CheckNeedToFree == FreeAll([tree |-> tree, panic |-> panic], ntflist \o Slots(1))

(***************************************************************************)
(* morecore() and getpages(): some run of pages that rmalloc() finds.      *)
(* Nobody returns pages to the map here: a caller that finds none has      *)
(* freed what was waiting and sleeps.                                      *)
(***************************************************************************)
Runs(n) == {i \in Pages : \A j \in 0 .. ((n - 1) \div PageBytes) : i + j \in map}
RunPages(i, n) == {i + j : j \in 0 .. ((n - 1) \div PageBytes)}
Roundup(n) == ((n + PageBytes - 1) \div PageBytes) * PageBytes

Allocate(s, n) ==
  LET a == Take(s.tree, n)
      t == [s EXCEPT !.tree = a.t]
      e == IF a.rest = 0 THEN t ELSE KmemFree(t, a.b + n, a.rest)
  IN  /\ tree' = e.tree /\ panic' = e.panic
      /\ alloc' = alloc \cup {[b |-> a.b, n |-> n]}
      /\ ntflist' = <<>> /\ ntf' = [i \in 1 .. NtfSize |-> <<>>]

KmemAlloc(n) ==
  LET s == CheckNeedToFree
  IN  /\ ~panic
      /\ \/ MWeight(s.tree) >= n /\ Allocate(s, n) /\ UNCHANGED map
         \/ /\ MWeight(s.tree) < n
            /\ \E i \in Runs(n) :
                 /\ map' = map \ RunPages(i, n)
                 /\ Allocate(KmemFree(s, i * PageBytes, Roundup(n)), n)
         \/ /\ MWeight(s.tree) < n /\ Runs(n) = {}
            /\ tree' = s.tree /\ panic' = s.panic
            /\ ntflist' = <<>> /\ ntf' = [i \in 1 .. NtfSize |-> <<>>]
            /\ UNCHANGED <<alloc, map>>

(***************************************************************************)
(* The caller keeps the first k bytes of a block.                          *)
(***************************************************************************)
Keep(x, k) == (alloc \ {x}) \cup (IF k = 0 THEN {} ELSE {[b |-> x.b, n |-> k]})

Free(x, k) ==
  LET s == KmemFree([tree |-> tree, panic |-> panic], x.b + k, x.n - k)
  IN  /\ ~panic /\ x \in alloc
      /\ alloc' = Keep(x, k)
      /\ tree' = s.tree /\ panic' = s.panic
      /\ UNCHANGED <<map, ntflist, ntf>>

(***************************************************************************)
(* kmem_free_intr(): a block that can hold the link goes to the list, its  *)
(* unaligned beginning and small blocks to the array, and a block that     *)
(* finds no place in the array is a panic.                                 *)
(***************************************************************************)
FreeSlots == {i \in 1 .. NtfSize : ntf[i] = <<>>}
First(I) == CHOOSE i \in I : \A j \in I : i <= j
Block(b, n) == [b |-> b, n |-> n]

More(b) == IF b % Align = 0 THEN 0 ELSE AlignMore(b)
ForList(b, n) == IF n - More(b) < NtfBytes THEN <<>> ELSE <<Block(b + More(b), n - More(b))>>

\* the unaligned beginning of a block is not freed
MutantForArray(b, n) ==
  IF ForList(b, n) = <<>> THEN <<Block(b, n)>> ELSE <<>>

ForArray(b, n) ==
  IF n < NtfBytes THEN <<Block(b, n)>>
  ELSE IF More(b) = 0 THEN <<>>
  ELSE <<Block(b, More(b))>>
       \o (IF ForList(b, n) = <<>> THEN <<Block(b + More(b), n - More(b))>> ELSE <<>>)

RECURSIVE Fill(_, _)
Fill(I, q) ==
  IF q = <<>> THEN ntf
  ELSE [Fill(I \ {First(I)}, Tail(q)) EXCEPT ![First(I)] = <<Head(q)>>]

KmemFreeIntr(x, k) ==
  LET small == ForArray(x.b + k, x.n - k)
  IN  /\ ~panic /\ x \in alloc
      /\ \/ /\ Len(small) <= Cardinality(FreeSlots)
            /\ alloc' = Keep(x, k)
            /\ ntf' = Fill(FreeSlots, small)
            /\ ntflist' = ForList(x.b + k, x.n - k) \o ntflist
            /\ UNCHANGED panic
         \/ /\ Len(small) > Cardinality(FreeSlots)
            /\ panic' = TRUE
            /\ UNCHANGED <<alloc, ntf, ntflist>>
      /\ UNCHANGED <<tree, map>>

Parts(x) == IF Partial THEN 0 .. x.n - 1 ELSE {0}

Next ==
  \/ \E n \in Sizes : KmemAlloc(n)
  \/ \E x \in alloc : \E k \in Parts(x) :
       Free(x, k) \/ (Interrupts /\ KmemFreeIntr(x, k))

Spec == Init /\ [][Next]_vars

-----------------------------------------------------------------------------
RECURSIVE Nodes(_)
Nodes(t) == IF t = Nil THEN {} ELSE {t} \cup Nodes(t.l) \cup Nodes(t.r)
FreeBlocks == {[b |-> t.b, n |-> t.size] : t \in Nodes(tree)}
RECURSIVE PendingIn(_)
PendingIn(q) == IF q = <<>> THEN {} ELSE {Head(q)} \cup PendingIn(Tail(q))
Pending == PendingIn(ntflist \o Slots(1))
Bytes(x) == x.b .. x.b + x.n - 1

(***************************************************************************)
(* The tree is Cartesian: descendants to the left are at lower addresses,  *)
(* descendants to the right at higher ones, and none is larger.  insert(), *)
(* delete() and demote() keep both orders.                                 *)
(***************************************************************************)
Cartesian ==
  \A t \in Nodes(tree) :
    /\ \A s \in Nodes(t.l) : s.b < t.b /\ s.size <= t.size
    /\ \A s \in Nodes(t.r) : t.b < s.b /\ s.size <= t.size

(***************************************************************************)
(* No two free blocks of the tree touch: kmem_free() finds both            *)
(* neighbours on one path from the root.                                   *)
(***************************************************************************)
Coalesced == \A x, y \in FreeBlocks : x.b + x.n # y.b

(***************************************************************************)
(* kmem_free() never finds that a block has been freed before, or overlaps *)
(* a free block, when its callers free only what they have allocated.      *)
(***************************************************************************)
NoPanic == ~panic

(***************************************************************************)
(* Every block that kmem_alloc() returns is on a word boundary; the end of *)
(* a block may have been freed, its beginning is where it was.             *)
(***************************************************************************)
Aligned == \A x \in alloc : x.b % Align = 0

(***************************************************************************)
(* An allocated block shares no byte with another block or with a free     *)
(* block: kmem_alloc() makes sure that it has a block that is large        *)
(* enough.                                                                 *)
(***************************************************************************)
NoOverlap ==
  \A x \in alloc : \A y \in (alloc \cup FreeBlocks) \ {x} : Bytes(x) \cap Bytes(y) = {}

(***************************************************************************)
(* The allocator does what KmemSpec says, with everything in the tree or   *)
(* waiting to be freed as the free bytes: no byte is lost, handed out      *)
(* twice or handed out unasked.                                            *)
(***************************************************************************)
FreeBytes == UNION {Bytes(x) : x \in FreeBlocks \cup Pending}
Promised == INSTANCE KmemSpec WITH free <- FreeBytes
KeepsPromises == Promised!Spec
=============================================================================
