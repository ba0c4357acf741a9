------------------------------- MODULE BufCache -------------------------------
(***************************************************************************)
(* The buffer cache of sys/sys/vfs_bio.c with allocbuf() of                *)
(* sys/vax/ufs_machdep.c, over one vnode and its disk.                     *)
(*                                                                         *)
(* The kernel is not preempted: a process runs until it sleeps, and only   *)
(* biodone() comes in between, at disk interrupt level or in a biod.  A    *)
(* buffer that a process holds stays B_BUSY while the process sleeps       *)
(* elsewhere (a page fault in uiomove(), another buffer).                  *)
(*                                                                         *)
(* Blocks are addressed in fragments.  Contents are abstracted to whether  *)
(* a copy of a fragment is the last one written: fresh[b] are the          *)
(* fragments of which buffer b has that copy, c.disk those the disk has.   *)
(***************************************************************************)
EXTENDS Integers, FiniteSets, SequencesExt

CONSTANTS
  Procs,
  Loads,      \* the machines and workloads that are looked at
  None

VARIABLES
  c,          \* the buffers, the free lists, the disk and who sleeps; c.load is
              \* the one of Loads that this behaviour is about
  pc,         \* where each process is
  loc,        \* its arguments and registers
  cur         \* the process on the processor, if it is inside the kernel

vars == <<c, pc, loc, cur>>

(***************************************************************************)
(* A workload: buf[0..nbuf-1] in the order of binit(), the number of       *)
(* fragments on the disk, b_bufsize of each buffer to begin with, in       *)
(* fragments, the calls processes make, which transfers may fail, and      *)
(* whether brelvp() of a failed buffer may release a vnode.                *)
(***************************************************************************)
Frags == Loads[c.load].frags
Space == Loads[c.load].space
Calls == Loads[c.load].calls
Errors == Loads[c.load].errors
LastRef == Loads[c.load].lastref

Frag == 0 .. Frags - 1
Buf == DOMAIN c.flags
FREELIST == "bfreelist"
Lists == {"LRU", "AGE", "EMPTY"}
Flag == {"BUSY", "WANTED", "DONE", "DELWRI", "ASYNC", "INVAL", "READ", "AGE",
         "ERROR"}

Op == {"read", "breada", "update", "write", "extend", "bflush", "blkflush",
       "binvalfree"}

ASSUME BufAssumption ==
  \A i \in DOMAIN Loads :
    LET l == Loads[i]
        names == Range(l.bufs)
    IN  /\ l.bufs \in Seq(names) /\ IsInjective(l.bufs) /\ l.bufs # <<>>
        /\ l.frags \in Nat /\ l.space \in [names -> 1 .. l.frags]
        /\ l.calls \subseteq [op : Op, blk : Nat, size : Nat, to : Nat]
        /\ \A k \in l.calls :
             /\ k.blk \in 0 .. l.frags - 1 /\ k.size \in 1 .. l.frags - k.blk
             /\ k.op = "breada" => k.to \in 0 .. l.frags - k.size /\ k.to # k.blk
             /\ k.op = "extend" => k.to \in k.size + 1 .. l.frags - k.blk
        /\ l.errors \subseteq {"read", "write"} /\ l.lastref \in BOOLEAN
        /\ {None, FREELIST} \cap (names \cup Procs) = {} /\ None # FREELIST
        /\ None \notin Nat

(***************************************************************************)
(* b_blkno is None for a buffer without a vnode (brelvp() leaves b_blkno,  *)
(* but a search compares b_vp).  free is av_forw from each list head.      *)
(* LOCKED buffers, B_NOCACHE and B_CALL do not occur: nothing in the       *)
(* kernel sets them on a buffer of the cache.                              *)
(***************************************************************************)
BreadOf(k) == [k EXCEPT !.op = "read"]

NoLoc == [call |-> None, blk |-> None, size |-> 0, bp |-> None, ep |-> None,
          first |-> None, ret |-> "idle"]

Fragments(blk, size) == blk .. blk + size - 1
Covers(d, b) == IF d.b_blkno[b] = None THEN {}
                ELSE Fragments(d.b_blkno[b], d.b_bcount[b])
Valid(d, b) == d.b_blkno[b] # None /\ "INVAL" \notin d.flags[b]

SetF(d, b, on, off) ==
  [d EXCEPT !.flags[b] = (@ \cup on) \ off]

-----------------------------------------------------------------------------
(***************************************************************************)
(* Primitives, from cache to cache.                                        *)
(***************************************************************************)

\* sleep() of a process.
SleepOn(d, p, chan) == [d EXCEPT !.slp[p] = chan]

\* wakeup().
Wakeup(d, chan) ==
  [d EXCEPT !.slp = [p \in Procs |-> IF @[p] = chan THEN None ELSE @[p]]]

\* bremfree() and B_BUSY.
Notavail(d, b) ==
  [d EXCEPT !.free = [l \in Lists |-> RemoveFirst(@[l], b)],
            !.flags[b] = @ \cup {"BUSY"}]

\* brelvp(): the buffer no longer belongs to the vnode.
Brelvp(d, b) == [d EXCEPT !.b_blkno[b] = None]

\* The first half of brelse(): wake who wants this buffer or any.
BrelseWake(d, b) ==
  LET d1 == IF "WANTED" \in d.flags[b] THEN Wakeup(d, b) ELSE d
  IN  IF d1.wanted THEN Wakeup([d1 EXCEPT !.wanted = FALSE], FREELIST) ELSE d1

\* The second half: the free list the buffer goes to, and which end.
BrelseFree(d, b) ==
  LET fl   == d.flags[b]
      list == IF d.b_bufsize[b] = 0 THEN "EMPTY"
              ELSE IF fl \cap {"ERROR", "INVAL", "AGE"} # {} THEN "AGE"
              ELSE "LRU"
      head == d.b_bufsize[b] = 0 \/ fl \cap {"ERROR", "INVAL"} # {}
  IN  SetF([d EXCEPT !.free[list] = IF head THEN <<b>> \o @ ELSE Append(@, b)],
           b, {}, {"WANTED", "BUSY", "ASYNC", "AGE"})

Brelse(d, b) ==
  LET d1 == BrelseWake(d, b)
  IN  BrelseFree(IF "ERROR" \in d.flags[b] THEN Brelvp(d1, b) ELSE d1, b)

\* VOP_STRATEGY(): the transfer is under way.
Strategy(d, b) == [d EXCEPT !.io = @ \cup {b}]

\* bwrite() up to the strategy call.
StartWrite(d, b) ==
  Strategy(SetF(d, b, {}, {"READ", "DONE", "ERROR", "DELWRI"}), b)

\* bread() up to the strategy call.
StartRead(d, b, on) == Strategy(SetF(d, b, {"READ"} \cup on, {}), b)

\* The buffers whose blocks overlap those asked for.
Overlapping(d, blk, size) ==
  {e \in Buf : /\ Valid(d, e)
               /\ Covers(d, e) \cap Fragments(blk, size) # {}}

\* The free buffer getnewbuf() takes: AGE before LRU.
Oldest(d) ==
  IF d.free["AGE"] # <<>> THEN Head(d.free["AGE"])
  ELSE IF d.free["LRU"] # <<>> THEN Head(d.free["LRU"]) ELSE None

\* What getnewbuf() makes of the buffer it takes: no block, no flags.
Reassigned(d, b) ==
  [Brelvp(Notavail(d, b), b) EXCEPT !.flags[b] = {"BUSY"}, !.fresh[b] = {}]

-----------------------------------------------------------------------------
Binit(i) ==
  LET names == Range(Loads[i].bufs) IN
  [load     |-> i,
   flags    |-> [b \in names |-> {"INVAL"}],
   b_blkno  |-> [b \in names |-> None],
   b_bcount |-> [b \in names |-> 0],
   b_bufsize |-> Loads[i].space,
   fresh    |-> [b \in names |-> {}],
   free     |-> [l \in Lists |-> IF l = "AGE" THEN Reverse(Loads[i].bufs) ELSE <<>>],
   wanted   |-> FALSE,
   io       |-> {},
   relvp    |-> {},
   disk     |-> 0 .. Loads[i].frags - 1,
   slp      |-> [p \in Procs |-> None]]

Init ==
  /\ c \in {Binit(i) : i \in DOMAIN Loads}
  /\ pc = [p \in Procs |-> "idle"]
  /\ loc = [p \in Procs |-> NoLoc]
  /\ cur = None

\* Process p may run: it is awake and no other process is in the kernel.
At(p, label) ==
  /\ pc[p] = label
  /\ c.slp[p] = None
  /\ cur \in {p, None}

(***************************************************************************)
(* Process p leaves cache d and goes on at label with registers r.  It     *)
(* gives up the processor when it sleeps, returns to the user, or holds a  *)
(* buffer, where what it does next may sleep.                              *)
(***************************************************************************)
Goto(p, d, label, r) ==
  /\ c' = d
  /\ pc' = [pc EXCEPT ![p] = label]
  /\ loc' = [loc EXCEPT ![p] = r]
  /\ cur' = IF d.slp[p] # None \/ label \in {"idle", "hold"} THEN None ELSE p

Return(p, d) == Goto(p, d, "idle", NoLoc)

\* bwrite() of b, asked for by a caller that goes on at ret: a synchronous
\* write waits, an asynchronous one marks a formerly delayed buffer B_AGE.
Bwrite(p, d, b, ret, r) ==
  Goto(p, StartWrite(d, b),
       IF "ASYNC" \notin d.flags[b] THEN "written"
       ELSE IF "DELWRI" \in d.flags[b] THEN "age" ELSE ret,
       [r EXCEPT !.ep = b, !.ret = ret])

\* The last statement of bwrite(): the write may be over by now.
BwriteAge(p) ==
  LET r == loc[p] IN
  /\ At(p, "age")
  /\ Goto(p, SetF(c, r.ep, {"AGE"}, {}), r.ret, [r EXCEPT !.ep = None])

\* biowait() and brelse() of a synchronous bwrite().
BwriteWait(p) ==
  LET r == loc[p] IN
  /\ At(p, "written")
  /\ IF "DONE" \in c.flags[r.ep]
     THEN Goto(p, Brelse(c, r.ep), r.ret,
               IF r.ret = "idle" THEN NoLoc ELSE [r EXCEPT !.ep = None])
     ELSE Goto(p, SleepOn(c, p, r.ep), "written", r)

-----------------------------------------------------------------------------
(***************************************************************************)
(* Calls from the file system.                                             *)
(***************************************************************************)
Call(p) ==
  /\ At(p, "idle")
  /\ \E k \in Calls :
       LET r == [NoLoc EXCEPT !.call = k, !.blk = k.blk, !.size = k.size]
           incore == \E b \in Buf : Valid(c, b) /\ c.b_blkno[b] = k.blk
       IN  CASE k.op \in {"bflush", "blkflush", "binvalfree"} ->
                  Goto(p, c, k.op, r)
             [] k.op = "breada" /\ incore -> Goto(p, c, "readahead", r)
             [] OTHER -> Goto(p, c, "getblk", r)

\* getblk(): look the block up.
GetblkBusy(p) ==
  LET r == loc[p] IN
  /\ At(p, "getblk")
  /\ \E b \in Buf :
       /\ Valid(c, b) /\ c.b_blkno[b] = r.blk
       /\ "BUSY" \in c.flags[b]
       /\ Goto(p, SleepOn(SetF(c, b, {"WANTED"}, {}), p, b), "getblk", r)

GetblkHit(p) ==
  LET r == loc[p] IN
  /\ At(p, "getblk")
  /\ \E b \in Buf :
       /\ Valid(c, b) /\ c.b_blkno[b] = r.blk
       /\ "BUSY" \notin c.flags[b]
       /\ Goto(p, Notavail(c, b), "brealloc", [r EXCEPT !.bp = b])

GetblkMiss(p) ==
  /\ At(p, "getblk")
  /\ ~ \E b \in Buf : Valid(c, b) /\ c.b_blkno[b] = loc[p].blk
  /\ Goto(p, c, "getnewbuf", [loc[p] EXCEPT !.bp = None])

\* getnewbuf(), called by getblk() (bp is None) and by allocbuf().
GetnewbufSleep(p) ==
  /\ At(p, "getnewbuf")
  /\ Oldest(c) = None
  /\ Goto(p, SleepOn([c EXCEPT !.wanted = TRUE], p, FREELIST), "getnewbuf",
          loc[p])

GetnewbufWrite(p) ==
  LET b == Oldest(c) IN
  /\ At(p, "getnewbuf")
  /\ b # None /\ "DELWRI" \in c.flags[b]
  /\ Bwrite(p, SetF(Notavail(c, b), b, {"ASYNC"}, {}), b, "getnewbuf", loc[p])

\* The buffer loses its old block; getblk() gives it the new one.
Getnewbuf(p) ==
  LET b == Oldest(c)
      r == loc[p]
      d == Reassigned(c, b)
  IN
  /\ At(p, "getnewbuf")
  /\ b # None /\ "DELWRI" \notin c.flags[b]
  /\ r.bp = None
  /\ Goto(p, [d EXCEPT !.b_bcount[b] = 0, !.b_blkno[b] = r.blk], "brealloc",
          [r EXCEPT !.bp = b])

\* allocbuf(): take space from another buffer, whose header is left empty
\* when nothing remains.
AllocbufTake(p) ==
  LET b    == Oldest(c)
      r    == loc[p]
      d    == Reassigned(c, b)
      need == r.size - c.b_bufsize[r.bp]
      take == IF need >= c.b_bufsize[b] THEN c.b_bufsize[b] ELSE need
      left == c.b_bufsize[b] - take
  IN
  /\ At(p, "getnewbuf")
  /\ b # None /\ "DELWRI" \notin c.flags[b]
  /\ r.bp # None
  /\ Goto(p, Brelse(SetF([d EXCEPT
                !.b_bufsize[r.bp] = @ + take, !.b_bufsize[b] = left,
                !.b_bcount[b] = IF @ > left THEN left ELSE @],
                b, IF left = 0 THEN {"INVAL"} ELSE {}, {}), b),
          "allocbuf", r)

-----------------------------------------------------------------------------
(***************************************************************************)
(* brealloc() and allocbuf().                                              *)
(***************************************************************************)

Brealloc(p) ==
  LET r == loc[p] IN
  /\ At(p, "brealloc")
  /\ CASE r.size = c.b_bcount[r.bp] -> Goto(p, c, "got", r)
       [] r.size < c.b_bcount[r.bp] ->
            IF "DELWRI" \in c.flags[r.bp]
            THEN Bwrite(p, c, r.bp, "getblk", r)
            ELSE Goto(p, c, "allocbuf", r)
       [] OTHER -> Goto(p, SetF(c, r.bp, {}, {"DONE"}), "overlap", r)

\* A brealloc() that throws delayed writes away.
MutantBreallocOverlap(p) ==
  LET r == loc[p] IN
  /\ At(p, "overlap")
  /\ \E e \in Overlapping(c, r.blk, r.size) \ {r.bp} :
       IF "BUSY" \in c.flags[e]
       THEN Goto(p, SleepOn(SetF(c, e, {"WANTED"}, {}), p, e), "overlap", r)
       ELSE Goto(p, Brelse(SetF(Notavail(c, e), e, {"INVAL"}, {}), e),
                 "overlap", r)

\* A buffer in the way: wait for it, write it out, or throw it away.
BreallocOverlap(p) ==
  LET r == loc[p] IN
  /\ At(p, "overlap")
  /\ \E e \in Overlapping(c, r.blk, r.size) \ {r.bp} :
       IF "BUSY" \in c.flags[e]
       THEN Goto(p, SleepOn(SetF(c, e, {"WANTED"}, {}), p, e), "overlap", r)
       ELSE IF "DELWRI" \in c.flags[e]
       THEN Bwrite(p, Notavail(c, e), e, "overlap", r)
       ELSE Goto(p, Brelse(SetF(Notavail(c, e), e, {"INVAL"}, {}), e),
                 "overlap", r)

\* A brealloc() that does not look for overlapping buffers.
MutantBreallocAlone(p) ==
  /\ At(p, "overlap")
  /\ Goto(p, c, "allocbuf", loc[p])

BreallocAlone(p) ==
  LET r == loc[p] IN
  /\ At(p, "overlap")
  /\ Overlapping(c, r.blk, r.size) \subseteq {r.bp}
  /\ Goto(p, c, "allocbuf", r)

\* An allocbuf() that gives the excess away and keeps it.
MutantShrink(d, b, size) ==
  LET e == Head(d.free["EMPTY"])
  IN  IF size >= d.b_bufsize[b] \/ d.free["EMPTY"] = <<>> THEN d
      ELSE Brelse(SetF([Notavail(d, e) EXCEPT
                     !.b_bufsize = [@ EXCEPT ![e] = d.b_bufsize[b] - size],
                     !.b_bcount[e] = 0], e, {"INVAL"}, {}), e)

\* An allocbuf() that does not take the empty header off its list.
MutantShrinkListed(d, b, size) ==
  LET e == Head(d.free["EMPTY"])
  IN  IF size >= d.b_bufsize[b] \/ d.free["EMPTY"] = <<>> THEN d
      ELSE Brelse(SetF([d EXCEPT
                     !.b_bufsize = [@ EXCEPT ![e] = d.b_bufsize[b] - size,
                                             ![b] = size],
                     !.b_bcount[e] = 0], e, {"INVAL"}, {}), e)

\* allocbuf(): shrink into an empty header, or get more space.
Shrink(d, b, size) ==
  LET e == Head(d.free["EMPTY"])
  IN  IF size >= d.b_bufsize[b] \/ d.free["EMPTY"] = <<>> THEN d
      ELSE Brelse(SetF([Notavail(d, e) EXCEPT
                     !.b_bufsize = [@ EXCEPT ![e] = d.b_bufsize[b] - size,
                                             ![b] = size],
                     !.b_bcount[e] = 0], e, {"INVAL"}, {}), e)

Allocbuf(p) ==
  LET r == loc[p] IN
  /\ At(p, "allocbuf")
  /\ IF r.size > c.b_bufsize[r.bp]
     THEN Goto(p, c, "getnewbuf", r)
     ELSE Goto(p, [Shrink(c, r.bp, r.size) EXCEPT !.b_bcount[r.bp] = r.size],
               "got", r)

-----------------------------------------------------------------------------
(***************************************************************************)
(* What the caller of getblk() does with the buffer.                       *)
(***************************************************************************)

\* bread(): start the read unless the block is here.
GotRead(p) ==
  LET r == loc[p] IN
  /\ At(p, "got")
  /\ r.call.op \in {"read", "update"} \/ (r.call.op = "extend"
                                          /\ r.size = r.call.size)
  /\ IF "DONE" \in c.flags[r.bp] THEN Goto(p, c, "hold", r)
     ELSE Goto(p, StartRead(c, r.bp, {}), "biowait", r)

\* A write of the whole block needs no read.
GotWrite(p) ==
  /\ At(p, "got")
  /\ loc[p].call.op = "write"
  /\ Goto(p, c, "hold", loc[p])

\* realloccg() has extended the block: the new part is cleared.
GotExtended(p) ==
  LET r == loc[p] IN
  /\ At(p, "got")
  /\ r.call.op = "extend" /\ r.size = r.call.to
  /\ Goto(p, SetF(c, r.bp, {"DONE"}, {}), "hold", r)

\* breada(): the block itself first, ...
GotFirst(p) ==
  LET r == loc[p] IN
  /\ At(p, "got")
  /\ r.call.op = "breada" /\ r.blk = r.call.blk
  /\ Goto(p, IF "DONE" \in c.flags[r.bp] THEN c ELSE StartRead(c, r.bp, {}),
          "readahead", [r EXCEPT !.first = r.bp, !.bp = None])

\* The end of breada(): wait for the read started above, or bread().
BreadaEnd(p, d, r) ==
  IF r.first = None
  THEN Goto(p, d, "getblk", [r EXCEPT !.call = BreadOf(@), !.blk = r.call.blk])
  ELSE Goto(p, d, "biowait", [r EXCEPT !.blk = r.call.blk, !.bp = r.first])

\* ... then the read-ahead block, if it is not in core, ...
Readahead(p) ==
  LET r == loc[p]
      incore == \E b \in Buf : Valid(c, b) /\ c.b_blkno[b] = r.call.to
  IN
  /\ At(p, "readahead")
  /\ IF incore THEN BreadaEnd(p, c, r)
     ELSE Goto(p, c, "getblk", [r EXCEPT !.blk = r.call.to])

\* ... which is read without waiting.
GotAhead(p) ==
  LET r == loc[p] IN
  /\ At(p, "got")
  /\ r.call.op = "breada" /\ r.blk # r.call.blk
  /\ BreadaEnd(p, IF "DONE" \in c.flags[r.bp] THEN Brelse(c, r.bp)
                  ELSE StartRead(c, r.bp, {"ASYNC"}), r)

Biowait(p) ==
  LET r == loc[p] IN
  /\ At(p, "biowait")
  /\ IF "DONE" \in c.flags[r.bp] THEN Goto(p, c, "hold", r)
     ELSE Goto(p, SleepOn(c, p, r.bp), "biowait", r)

-----------------------------------------------------------------------------
(***************************************************************************)
(* The holder of a buffer releases it.                                     *)
(***************************************************************************)
Holds(p) == At(p, "hold")

\* brelse() after a read, or after an error.
Release(p) ==
  /\ Holds(p)
  /\ loc[p].call.op \in {"read", "breada"} \/ "ERROR" \in c.flags[loc[p].bp]
  /\ Return(p, Brelse(c, loc[p].bp))

\* realloccg() has read the old size and asks for the new one.
Extend(p) ==
  LET r == loc[p] IN
  /\ Holds(p)
  /\ r.call.op = "extend" /\ r.size = r.call.size
  /\ "ERROR" \notin c.flags[r.bp]
  /\ Goto(p, c, "brealloc", [r EXCEPT !.size = r.call.to])

\* The holder has changed the buffer: it has the last copy now.
Modified(d, b) ==
  LET fs == Covers(d, b) IN
  [d EXCEPT !.fresh = [e \in Buf |-> IF e = b THEN @[e] \cup fs
                                     ELSE @[e] \ fs],
            !.disk = @ \ fs]

MayWrite(p) ==
  LET r == loc[p] IN
  /\ Holds(p)
  /\ \/ r.call.op \in {"update", "write"}
     \/ r.call.op = "extend" /\ r.size = r.call.to
  /\ "ERROR" \notin c.flags[r.bp]

\* A bdwrite() that leaves B_DONE alone.
MutantBdwrite(p) ==
  LET b == loc[p].bp IN
  /\ MayWrite(p)
  /\ Return(p, Brelse(SetF(Modified(c, b), b, {"DELWRI"}, {}), b))

Bdwrite(p) ==
  LET b == loc[p].bp IN
  /\ MayWrite(p)
  /\ Return(p, Brelse(SetF(Modified(c, b), b, {"DELWRI", "DONE"}, {}), b))

BwriteCall(p) ==
  LET b == loc[p].bp IN
  /\ MayWrite(p)
  /\ Bwrite(p, Modified(c, b), b, "idle", loc[p])

Bawrite(p) ==
  LET b == loc[p].bp
      d == SetF(Modified(c, b), b, {"ASYNC"}, {})
  IN
  /\ MayWrite(p)
  /\ IF "DELWRI" \in d.flags[b] THEN Bwrite(p, d, b, "idle", NoLoc)
     ELSE Return(p, StartWrite(d, b))

-----------------------------------------------------------------------------
(***************************************************************************)
(* Flushing.                                                               *)
(***************************************************************************)

\* blkflush(): no delayed or current write of these blocks is left behind.
Blkflush(p) ==
  LET r == loc[p]
      over == Overlapping(c, r.blk, r.size)
      busy == {e \in over : "BUSY" \in c.flags[e]}
      late == {e \in over : "DELWRI" \in c.flags[e]} \ busy
  IN
  /\ At(p, "blkflush")
  /\ \/ \E e \in busy :
          Goto(p, SleepOn(SetF(c, e, {"WANTED"}, {}), p, e), "blkflush", r)
     \/ \E e \in late : Bwrite(p, Notavail(c, e), e, "blkflush", r)
     \/ busy = {} /\ late = {} /\ Return(p, c)

\* The buffers that are free and not empty, in the order bflush() looks at
\* them, and where the delayed writes are among them.
Order(d) == d.free["LRU"] \o d.free["AGE"]
Delayed(d) == {i \in DOMAIN Order(d) : "DELWRI" \in d.flags[Order(d)[i]]}

\* bflush(): start all the delayed writes.
Bflush(p) ==
  LET b == Order(c)[Min(Delayed(c))] IN
  /\ At(p, "bflush")
  /\ IF Delayed(c) = {} THEN Return(p, c)
     ELSE Bwrite(p, Notavail(SetF(c, b, {"ASYNC"}, {}), b), b, "bflush", loc[p])

\* binvalfree(): start the delayed writes, invalidate what is free.
Binvalfree(p) ==
  LET b == Order(c)[Min(Delayed(c))]
      seen == IF Delayed(c) = {} THEN DOMAIN Order(c) ELSE 1 .. Min(Delayed(c)) - 1
      gone == {x \in Buf : c.b_blkno[x] # None /\ \E i \in seen : Order(c)[i] = x}
      d    == [c EXCEPT
                 !.b_blkno = [x \in Buf |-> IF x \in gone THEN None ELSE @[x]],
                 !.flags = [x \in Buf |-> IF x \in gone THEN @[x] \cup {"INVAL"}
                                          ELSE @[x]]]
  IN
  /\ At(p, "binvalfree")
  /\ IF Delayed(c) = {} THEN Return(p, d)
     ELSE Bwrite(p, Notavail(SetF(d, b, {"ASYNC"}, {}), b), b, "binvalfree",
                 loc[p])

-----------------------------------------------------------------------------
(***************************************************************************)
(* The device.                                                             *)
(***************************************************************************)

\* What the transfer has done when it ends.
Transferred(d, b) ==
  LET fs == Covers(d, b) IN
  IF "READ" \in d.flags[b]
  THEN [d EXCEPT !.fresh[b] = (@ \ fs) \cup (fs \cap d.disk)]
  ELSE [d EXCEPT !.disk = (@ \ fs) \cup (fs \cap d.fresh[b])]

\* A biodone() that wakes nobody.
MutantBiodoneCache(d, b) ==
  IF "ASYNC" \in d.flags[b] THEN Brelse(SetF(d, b, {"DONE"}, {}), b)
  ELSE SetF(d, b, {"DONE"}, {"WANTED"})

\* biodone().
BiodoneCache(d, b) ==
  IF "ASYNC" \in d.flags[b] THEN Brelse(SetF(d, b, {"DONE"}, {}), b)
  ELSE Wakeup(SetF(d, b, {"DONE"}, {"WANTED"}), b)

Biodone(b) ==
  /\ b \in c.io
  /\ c' = BiodoneCache([Transferred(c, b) EXCEPT !.io = @ \ {b}], b)
  /\ UNCHANGED <<pc, loc, cur>>

\* The transfer fails.  In the brelse() of an asynchronous one, brelvp()
\* may give up the last reference to a vnode and sleep in its inactive
\* routine before the buffer is on a free list.
BiodoneError(b) ==
  /\ b \in c.io
  /\ (IF "READ" \in c.flags[b] THEN "read" ELSE "write") \in Errors
  /\ LET d == SetF([c EXCEPT !.io = @ \ {b}], b, {"ERROR"}, {}) IN
     IF LastRef /\ "ASYNC" \in c.flags[b]
     THEN c' = [BrelseWake(SetF(d, b, {"DONE"}, {}), b)
                  EXCEPT !.relvp = @ \cup {b}]
     ELSE c' = BiodoneCache(d, b)
  /\ UNCHANGED <<pc, loc, cur>>

RelvpReturns(b) ==
  /\ b \in c.relvp
  /\ c' = BrelseFree(Brelvp([c EXCEPT !.relvp = @ \ {b}], b), b)
  /\ UNCHANGED <<pc, loc, cur>>

Step(p) ==
  \/ Call(p) \/ GetblkBusy(p) \/ GetblkHit(p) \/ GetblkMiss(p)
  \/ GetnewbufSleep(p) \/ GetnewbufWrite(p) \/ Getnewbuf(p) \/ AllocbufTake(p)
  \/ Brealloc(p) \/ BreallocOverlap(p) \/ BreallocAlone(p) \/ Allocbuf(p)
  \/ GotRead(p) \/ GotWrite(p) \/ GotExtended(p) \/ GotFirst(p)
  \/ Readahead(p) \/ GotAhead(p) \/ Biowait(p)
  \/ Release(p) \/ Extend(p) \/ Bdwrite(p) \/ BwriteCall(p) \/ Bawrite(p)
  \/ BwriteAge(p) \/ BwriteWait(p) \/ Blkflush(p) \/ Bflush(p) \/ Binvalfree(p)

Next ==
  \/ \E p \in Procs : Step(p)
  \/ \E b \in Buf : Biodone(b) \/ BiodoneError(b) \/ RelvpReturns(b)

Spec == Init /\ [][Next]_vars

-----------------------------------------------------------------------------
(***************************************************************************)
(* Properties.                                                             *)
(***************************************************************************)

\* The cache, the registers and the processor have their types.
TypeOK ==
  /\ c.load \in DOMAIN Loads /\ c.wanted \in BOOLEAN
  /\ c.io \cup c.relvp \subseteq Buf /\ c.disk \subseteq Frag
  /\ UNION {c.flags[b] : b \in Buf} \subseteq Flag
  /\ \A b \in Buf : Covers(c, b) \cup c.fresh[b] \subseteq Frag
  /\ {c.slp[p] : p \in Procs} \subseteq Buf \cup {FREELIST, None}
  /\ UNION {{loc[p].bp, loc[p].ep, loc[p].first} : p \in Procs} \subseteq Buf \cup {None}
  /\ cur \in Procs \cup {None}

\* A buffer is on a free list exactly while it is not B_BUSY, and then on
\* one list and once; on BQ_EMPTY exactly when it has no memory.  notavail()
\* and brelse() must alternate on every path, the error and the interrupt
\* paths included.
FreeListExact ==
  LET all == c.free["LRU"] \o c.free["AGE"] \o c.free["EMPTY"] IN
  /\ IsInjective(all)
  /\ ToSet(all) = {b \in Buf : "BUSY" \notin c.flags[b]}
  /\ \A b \in ToSet(all) :
       b \in ToSet(c.free["EMPTY"]) <=> c.b_bufsize[b] = 0

\* "A disk block must be mapped by at most one buffer at any point in time"
\* (the comment in brealloc()).
OneBuffer ==
  \A b, e \in Buf :
    b # e /\ Valid(c, b) /\ Valid(c, e) => Covers(c, b) \cap Covers(c, e) = {}

\* Who has read a block sees the last thing written to it, whether that is
\* on the disk, in a delayed write or was on its way to the disk, as long as
\* no write fails.
Coherent ==
  "write" \notin Errors => \A p \in Procs :
    LET r == loc[p] IN
    pc[p] = "hold" /\ "ERROR" \notin c.flags[r.bp] /\ r.call.op # "write"
      => Fragments(r.blk, r.call.size) \subseteq c.fresh[r.bp]

\* What bdwrite(), bawrite() and bwrite() were given is on the disk, or in a
\* valid buffer that is marked delayed or is being written ("if it is
\* grabbed for another purpose it will be written out before being given
\* up"), as long as no write fails.
DirtyNotLost ==
  "write" \notin Errors => \A f \in Frag \ c.disk :
    \E b \in Buf : /\ Valid(c, b)
                  /\ f \in Covers(c, b) \cap c.fresh[b]
                  /\ \/ "DELWRI" \in c.flags[b]
                     \/ b \in c.io /\ "READ" \notin c.flags[b]

\* Nobody sleeps for something that has happened: who wants a buffer sleeps
\* while it is busy and marked wanted, who waits for a transfer sleeps while
\* it is under way, who wants any buffer sleeps while none is free and the
\* free list is marked.  (Except when brelvp() sleeps inside brelse(): the
\* wakeup is then before the buffer is free.)
SleepersWillWake ==
  ~LastRef => \A p \in Procs :
    LET b == c.slp[p] IN
    \/ b = None
    \/ b = FREELIST /\ c.wanted /\ Oldest(c) = None
    \/ b \in Buf /\ pc[p] \in {"biowait", "written"}
       /\ b \in c.io /\ "ASYNC" \notin c.flags[b]
    \/ b \in Buf /\ pc[p] \notin {"biowait", "written"}
       /\ {"BUSY", "WANTED"} \subseteq c.flags[b]

\* pagemove() neither loses nor duplicates memory, and a buffer never claims
\* more bytes than it has (the panics of bread() and bwrite()).
BufferSpace ==
  /\ FoldFunction(+, 0, c.b_bufsize) = FoldFunction(+, 0, Space)
  /\ \A b \in Buf : c.b_bcount[b] <= c.b_bufsize[b]

\* Buffers are on the list they belong to, and their memory is all there.
BuffersExact == TypeOK /\ FreeListExact /\ BufferSpace
=============================================================================
