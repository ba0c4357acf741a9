------------------------------ MODULE MCBufCache ------------------------------
(***************************************************************************)
(* Instances of BufCache: two processes, three buffers, two fragments.     *)
(***************************************************************************)
EXTENDS BufCache

CONSTANTS p1, p2, b1, b2, b3

TwoProcs  == {p1, p2}
ThreeBufs == <<b1, b2, b3>>
TwoBufs   == <<b1, b2>>
Each(bufs, n) == [b \in {bufs[i] : i \in DOMAIN bufs} |-> n]
Uneven    == [b \in {b1, b2, b3} |-> IF b = b1 THEN 2 ELSE 1]

Do(op, blk, size, to) == [op |-> op, blk |-> blk, size |-> size, to |-> to]

\* Blocks of one size, more of them than buffers.
SameSize == {Do("write", 0, 1, 0), Do("update", 1, 1, 0), Do("write", 2, 1, 0),
             Do("blkflush", 0, 2, 0), Do("binvalfree", 0, 1, 0)}
\* As many blocks as buffers: what is free is flushed and invalidated.
Flushed  == {Do("write", 0, 1, 0), Do("update", 1, 1, 0),
             Do("blkflush", 0, 2, 0), Do("binvalfree", 0, 1, 0)}
\* Read-ahead in both directions: each reads ahead what the other reads.
Ahead    == {Do("breada", 0, 1, 1), Do("breada", 1, 1, 0),
             Do("write", 0, 1, 0), Do("read", 2, 1, 0),
             Do("bflush", 0, 1, 0)}
\* Blocks and fragments: written whole, read and updated by fragment, and
\* extended in place.
Sizes    == {Do("write", 0, 2, 0), Do("read", 1, 1, 0),
             Do("update", 0, 1, 0), Do("extend", 0, 1, 2)}
\* Delayed writes elsewhere on the disk keep the free lists empty.
Crowded  == {Do("write", 0, 2, 0), Do("read", 1, 1, 0),
             Do("update", 2, 1, 0), Do("update", 3, 1, 0)}
\* A block extended, which takes memory from other buffers.
Growing  == {Do("write", 0, 2, 0), Do("read", 1, 1, 0), Do("extend", 0, 1, 2)}
Rewriting == {Do("write", 0, 2, 0), Do("extend", 0, 1, 2)}
Failing  == {Do("write", 0, 2, 0), Do("read", 1, 1, 0)}
Symmetry == Permutations(Procs)

Load(bufs, frags, space, calls, errors, lastref) ==
  [bufs |-> bufs, frags |-> frags, space |-> space, calls |-> calls, errors |-> errors,
   lastref |-> lastref]

AllLoads ==
  <<Load(TwoBufs, 3, Each(TwoBufs, 1), SameSize, {}, FALSE),
    Load(TwoBufs, 3, Each(TwoBufs, 1), Flushed, {"read"}, FALSE),
    Load(ThreeBufs, 3, Each(ThreeBufs, 1), Ahead, {}, FALSE),
    Load(ThreeBufs, 2, Each(ThreeBufs, 2), Sizes, {}, FALSE),
    Load(ThreeBufs, 2, Uneven, Growing, {"read"}, FALSE),
    Load(ThreeBufs, 2, Uneven, Rewriting, {"read", "write"}, FALSE),
    Load(ThreeBufs, 2, Each(ThreeBufs, 2), Failing, {"write"}, TRUE)>>

CrowdedLoad == <<Load(ThreeBufs, 4, Each(ThreeBufs, 1), Crowded, {}, FALSE)>>
=============================================================================
