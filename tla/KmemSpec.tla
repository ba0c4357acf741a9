------------------------------ MODULE KmemSpec ------------------------------
(***************************************************************************)
(* What kmem_alloc() and kmem_free() promise: memory is got in pages; an   *)
(* allocated block is made of free bytes only and starts on a word; what   *)
(* is freed, a whole block or the end of one, is free again.               *)
(***************************************************************************)
EXTENDS Integers

CONSTANTS
  Align,      \* ALIGN
  PageBytes,  \* CLBYTES
  NPages      \* pages of kernelmap

VARIABLES
  free,       \* the bytes that are free
  alloc       \* the blocks that are allocated

Bytes(b, n) == b .. b + n - 1
Pages == 0 .. NPages - 1
Taken == free \cup UNION {Bytes(x.b, x.n) : x \in alloc}

Init == free = {} /\ alloc = {}

Get(P) == UNION {Bytes(i * PageBytes, PageBytes) : i \in P}

Alloc ==
  \E x \in alloc', P \in SUBSET Pages :
    /\ Get(P) \cap Taken = {}
    /\ x \notin alloc /\ alloc' = alloc \cup {x}
    /\ x.b % Align = 0
    /\ Bytes(x.b, x.n) \subseteq free \cup Get(P)
    /\ free' = (free \cup Get(P)) \ Bytes(x.b, x.n)

Free ==
  \E x \in alloc :
    \E k \in 0 .. x.n - 1 :
      /\ alloc' = (alloc \ {x}) \cup (IF k = 0 THEN {} ELSE {[b |-> x.b, n |-> k]})
      /\ free' = free \cup Bytes(x.b + k, x.n - k)

Next == Alloc \/ Free

Spec == Init /\ [][Next]_<<free, alloc>>
=============================================================================
