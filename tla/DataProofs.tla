------------------------------ MODULE DataProofs ------------------------------
(***************************************************************************)
(* What the buffers of the cache hold, for any processes, buffers and      *)
(* loads: as long as a getblk() need not take memory from another buffer,  *)
(* a fragment of the disk is in one buffer at most, no delayed write is    *)
(* lost, and who reads a block sees the last thing written to it.          *)
(***************************************************************************)
EXTENDS BufProofs

\* The calls that ask getblk() for a buffer.
Getblk == {"read", "breada", "update", "write", "extend"}

\* In this behaviour's load every buffer has memory for whatever getblk() is
\* asked for, so that allocbuf() never sleeps.  Without it OneBuffer is
\* false: see the run BufTwice.
Roomy ==
  \A b \in Buf, k \in Calls :
    k.op \in Getblk => k.size <= Space[b] /\ (k.op = "extend" => k.to <= Space[b])

\* What a call reads of a block, and the size it leaves a block with.
Writes(k) == k.op \in {"update", "write", "extend"}
Final(k) == IF k.op = "extend" THEN k.to ELSE k.size
ReadsAt(k, blk) ==
  \/ k.op \in Getblk \ {"write"} /\ k.blk = blk
  \/ k.op = "breada" /\ k.to = blk

\* Nobody reads more of a block than whoever writes it has written: the size
\* comes from the inode, which a call that extends the block brings up to
\* date.  Otherwise brealloc() clears B_DONE of a delayed write and bread()
\* reads over it.
SizesAgree ==
  \A k, m \in Calls : Writes(m) /\ ReadsAt(k, m.blk) => k.size <= Final(m)

-----------------------------------------------------------------------------
(***************************************************************************)
(* The invariants.                                                         *)
(***************************************************************************)

\* A process at l with registers r wants a buffer from getblk() or has one.
Getting(l, r) ==
  \/ l \in {"getblk", "readahead", "getnewbuf", "brealloc", "overlap", "allocbuf",
            "got", "hold", "biowait"}
  \/ l = "written" /\ r.ret \in {"getblk", "overlap"}
  \/ l = "age" /\ r.ret = "getnewbuf"

\* It is inside brealloc(), waiting for buffers in the way.
Clearing(l, r) == l = "overlap" \/ (l = "written" /\ r.ret = "overlap")

\* realloccg() is asking for the new size.
Extended(r) == r.call.op = "extend" /\ r.size = r.call.to

\* Its registers come from its call.
Asked(d, l, r) ==
  /\ \E m \in Loads[d.load].calls :
       /\ m.op \in Getblk
       /\ r.call = m \/ (m.op = "breada" /\ r.call = BreadOf(m))
  /\ r.blk = r.call.blk \/ (r.call.op = "breada" /\ r.blk = r.call.to)
  /\ r.size = r.call.size \/ Extended(r)
  /\ Extended(r) => HasBp(l, r) /\ l # "biowait"
  /\ l = "readahead" => r.call.op = "breada"

\* The buffer in hand is of the block, and as large as it is to be.
Place(d, l, r) ==
  /\ HasBp(l, r) => Valid(d, r.bp) /\ d.b_blkno[r.bp] = r.blk
  /\ r.first # None => /\ Valid(d, r.first) /\ d.b_blkno[r.first] = r.call.blk
                       /\ d.b_bcount[r.first] = r.size
  /\ l \in {"got", "hold", "biowait"} => d.b_bcount[r.bp] = r.size
  /\ l \in {"hold", "biowait"} => r.blk = r.call.blk
  /\ l = "brealloc" /\ Extended(r) => d.b_bcount[r.bp] = r.call.size
  /\ HasBp(l, r) /\ Extended(r) => d.b_bcount[r.bp] >= r.call.size
  /\ Clearing(l, r) => d.b_bcount[r.bp] < r.size
  /\ l = "allocbuf" => \/ r.size < d.b_bcount[r.bp]
                       \/ /\ d.b_bcount[r.bp] < r.size
                          /\ Overlapping(d, r.blk, r.size) \subseteq {r.bp}
  /\ (l = "getnewbuf" \/ (l = "age" /\ r.ret = "getnewbuf")) => r.bp = None

Size(d, l, r) == Getting(l, r) => Asked(d, l, r) /\ Place(d, l, r)

\* A fragment is in one buffer at most.
Single(d) ==
  \A b, e \in Buf :
    b # e /\ Valid(d, b) /\ Valid(d, e) => Covers(d, b) \cap Covers(d, e) = {}

\* Who has found no other buffer in the way is not interrupted before the
\* buffer has its size.
SInv ==
  /\ c.b_bufsize = Space /\ Single(c)
  /\ \A p \in Procs : Size(c, pc[p], loc[p])
  /\ \A p \in Procs : pc[p] = "allocbuf" => cur = p

\* The whole of the buffer will be written by the process that has it.
Writer(r) == r.call.op = "write" \/ Extended(r)
Filling(l, r) == l \in {"got", "hold"} /\ Writer(r)
Filled(b) == \E p \in Procs : Filling(pc[p], loc[p]) /\ loc[p].bp = b

\* The buffer has the last copy of the fragments of the disk in it; it has
\* something that the disk will have.
FragOf(d) == 0 .. Loads[d.load].frags - 1
Whole(d, b) == Covers(d, b) \cap FragOf(d) \subseteq d.fresh[b]
Dirty(d, b) == "DELWRI" \in d.flags[b] \/ (b \in d.io /\ "READ" \notin d.flags[b])

\* A delayed write; what B_DONE means; y: it is about to be written whole.
BufOK(d, b, y) ==
  /\ "DELWRI" \in d.flags[b] =>
       /\ {"ERROR", "ASYNC"} \cap d.flags[b] = {} /\ b \notin d.io
       /\ \E m \in Loads[d.load].calls :
            Writes(m) /\ m.blk = d.b_blkno[b] /\ d.b_bcount[b] = Final(m)
       /\ "BUSY" \in d.flags[b] \/ "DONE" \in d.flags[b]
  /\ Dirty(d, b) => Valid(d, b) /\ (y \/ Whole(d, b))
  /\ Valid(d, b) /\ "DONE" \in d.flags[b] /\ "ERROR" \notin d.flags[b] =>
       y \/ Whole(d, b)

\* What the disk does not have is in a buffer that will be written.
Safe(d, f) ==
  \E b \in Buf : Valid(d, b) /\ Dirty(d, b) /\ f \in Covers(d, b) /\ f \in d.fresh[b]
NoLoss(d) == \A f \in FragOf(d) : f \in d.disk \/ Safe(d, f)

\* Who reads does not read over a delayed write, and holds what it has read.
State(d, l, r) ==
  Getting(l, r) =>
    /\ ~Writer(r) =>
         /\ Clearing(l, r) => "DELWRI" \notin d.flags[r.bp]
         /\ l \in {"brealloc", "got"} =>
              "DELWRI" \notin d.flags[r.bp] \/ "DONE" \in d.flags[r.bp]
         /\ l = "allocbuf" => "DELWRI" \notin d.flags[r.bp]
         /\ l = "hold" => "DONE" \in d.flags[r.bp]
    /\ Clearing(l, r) => "DONE" \notin d.flags[r.bp]
    /\ l = "allocbuf" => IF r.size < d.b_bcount[r.bp] THEN "DELWRI" \notin d.flags[r.bp]
                         ELSE "DONE" \notin d.flags[r.bp]
    /\ HasBp(l, r) /\ Extended(r) =>
         \/ "ERROR" \in d.flags[r.bp]
         \/ Fragments(r.call.blk, r.call.size) \cap FragOf(d) \subseteq d.fresh[r.bp]

CInv ==
  "write" \notin Errors =>
    /\ \A b \in Buf : BufOK(c, b, Filled(b))
    /\ NoLoss(c)
    /\ \A p \in Procs : State(c, pc[p], loc[p])

-----------------------------------------------------------------------------
(***************************************************************************)
(* What the primitives leave as it was.                                    *)
(***************************************************************************)

Marks == {"BUSY", "DONE", "DELWRI", "INVAL", "READ", "ERROR", "ASYNC"}

\* Buffer x is as it was, but for B_WANTED, B_AGE and the free lists.
Like(d, e, x) ==
  /\ e.b_blkno[x] = d.b_blkno[x] /\ e.b_bcount[x] = d.b_bcount[x]
  /\ e.fresh[x] = d.fresh[x] /\ (x \in e.io <=> x \in d.io)
  /\ \A f \in Marks : f \in e.flags[x] <=> f \in d.flags[x]

\* So are all buffers but those of T, and the disk.
Moved(d, e, T) ==
  /\ e.load = d.load /\ e.b_bufsize = d.b_bufsize /\ e.disk = d.disk
  /\ \A x \in Buf \ T : Like(d, e, x)

\* All that a buffer holds is as it was.
Stays(d, e, x) ==
  e.b_blkno[x] = d.b_blkno[x] /\ e.b_bcount[x] = d.b_bcount[x] /\ e.fresh[x] = d.fresh[x]

\* Flags set and cleared.
Marked(d, e, b, on, off) ==
  \A f \in Marks : f \in e.flags[b] <=> (f \in d.flags[b] \/ f \in on) /\ f \notin off

\* One change after another.
LEMMA MovedTwice ==
  ASSUME NEW d, NEW e, NEW h, NEW T, Moved(d, e, T), Moved(e, h, T)
  PROVE  Moved(d, h, T)
BY DEF Moved, Like

\* sleep() and wakeup() are only about processes.
LEMMA SleepOnData ==
  ASSUME NEW d \in Caches(Buf), NEW p \in Procs, NEW ch \in Buf \cup {FREELIST, None},
         NEW e, e = SleepOn(d, p, ch)
  PROVE  e \in Caches(Buf) /\ Moved(d, e, {}) /\ e.slp[p] = ch /\ e.flags = d.flags
         /\ e.load = d.load
<1> DEFINE sl == [d.slp EXCEPT ![p] = ch]
<1>1. sl \in [Procs -> Buf \cup {FREELIST, None}] /\ sl[p] = ch
  BY Fields
<1>2. e = [d EXCEPT !.slp = sl]
  BY DEF SleepOn
<1> HIDE DEF sl
<1>3. /\ e \in Caches(Buf) /\ e.flags = d.flags /\ e.slp = sl
      /\ e.load = d.load /\ e.b_blkno = d.b_blkno /\ e.b_bcount = d.b_bcount
      /\ e.b_bufsize = d.b_bufsize /\ e.fresh = d.fresh /\ e.io = d.io
      /\ e.disk = d.disk
  BY <1>1, <1>2 DEF Caches
<1>4. QED BY <1>1, <1>3 DEF Moved, Like

\* e is d with the flags of buffer b set and cleared.
FlagsSet(d, b, on, off, e) ==
  /\ e \in Caches(Buf) /\ Moved(d, e, {b}) /\ Stays(d, e, b) /\ e.io = d.io
  /\ Marked(d, e, b, on, off) /\ e.free = d.free /\ e.slp = d.slp

LEMMA SetsFlags ==
  ASSUME NEW d \in Caches(Buf), NEW b \in Buf, NEW on \in SUBSET Flag, NEW off
  PROVE  FlagsSet(d, b, on, off, SetF(d, b, on, off))
<1> DEFINE fl == [d.flags EXCEPT ![b] = (@ \cup on) \ off]
           e == SetF(d, b, on, off)
<1>1. fl \in [Buf -> SUBSET Flag] /\ fl[b] = (d.flags[b] \cup on) \ off
      /\ \A x \in Buf \ {b} : fl[x] = d.flags[x]
  BY Fields
<1>2. e = [d EXCEPT !.flags = fl]
  BY DEF SetF
<1> HIDE DEF fl, e
<1>3. /\ e \in Caches(Buf) /\ e.flags = fl /\ e.free = d.free /\ e.slp = d.slp
      /\ e.load = d.load /\ e.b_blkno = d.b_blkno /\ e.b_bcount = d.b_bcount
      /\ e.b_bufsize = d.b_bufsize /\ e.fresh = d.fresh /\ e.io = d.io
      /\ e.disk = d.disk
  BY <1>1, <1>2 DEF Caches
<1>4. Marked(d, e, b, on, off)
  BY <1>1, <1>3 DEF Marked
<1>5. Moved(d, e, {b}) /\ Stays(d, e, b)
  BY <1>1, <1>3 DEF Moved, Like, Stays
<1>6. FlagsSet(d, b, on, off, e)
  BY <1>3, <1>4, <1>5 DEF FlagsSet
<1>7. QED BY <1>6 DEF e

LEMMA SetFData ==
  ASSUME NEW d \in Caches(Buf), NEW b \in Buf, NEW on \in SUBSET Flag, NEW off,
         NEW e, e = SetF(d, b, on, off)
  PROVE  /\ e \in Caches(Buf) /\ Moved(d, e, {b}) /\ Stays(d, e, b) /\ e.io = d.io
         /\ Marked(d, e, b, on, off) /\ e.free = d.free /\ e.slp = d.slp
<1>1. FlagsSet(d, b, on, off, e)
  BY SetsFlags
<1>2. QED BY <1>1 DEF FlagsSet

\* A buffer off the free lists.
LEMMA NotavailData ==
  ASSUME NEW d \in Caches(Buf), NEW b \in Buf, FreeOK(d), NEW e, e = Notavail(d, b)
  PROVE  /\ e \in Caches(Buf) /\ Moved(d, e, {b}) /\ Stays(d, e, b) /\ e.io = d.io
         /\ Marked(d, e, b, {"BUSY"}, {}) /\ e.slp = d.slp
<1> DEFINE fl == [d.flags EXCEPT ![b] = @ \cup {"BUSY"}]
           fr == [l \in Lists |-> RemoveFirst(d.free[l], b)]
<1>1. e \in Caches(Buf)
  BY NotavailIs DEF FreeOK
<1>2. /\ \A x \in Buf \ {b} : fl[x] = d.flags[x]
      /\ fl[b] = d.flags[b] \cup {"BUSY"}
  BY Fields
<1>3. e = [d EXCEPT !.free = fr, !.flags = fl]
  BY DEF Notavail
<1> HIDE DEF fl, fr
<1>4. /\ e.flags = fl /\ e.slp = d.slp
      /\ e.load = d.load /\ e.b_blkno = d.b_blkno /\ e.b_bcount = d.b_bcount
      /\ e.b_bufsize = d.b_bufsize /\ e.fresh = d.fresh /\ e.io = d.io
      /\ e.disk = d.disk
  BY <1>3 DEF Caches
<1>5. Marked(d, e, b, {"BUSY"}, {})
  BY <1>2, <1>4 DEF Marked
<1>6. QED BY <1>1, <1>2, <1>4, <1>5 DEF Moved, Like, Stays

\* A transfer started.
LEMMA StrategyData ==
  ASSUME NEW d \in Caches(Buf), NEW b \in Buf, NEW e, e = Strategy(d, b)
  PROVE  /\ e \in Caches(Buf) /\ Moved(d, e, {b}) /\ Stays(d, e, b)
         /\ e.io = d.io \cup {b} /\ Marked(d, e, b, {}, {}) /\ e.slp = d.slp
<1> DEFINE io == d.io \cup {b}
<1>1. e = [d EXCEPT !.io = io] /\ io \in SUBSET Buf
      /\ \A x \in Buf \ {b} : x \in io <=> x \in d.io
  BY Fields DEF Strategy
<1> HIDE DEF io
<1>2. /\ e \in Caches(Buf) /\ e.flags = d.flags /\ e.free = d.free /\ e.slp = d.slp
      /\ e.load = d.load /\ e.b_blkno = d.b_blkno /\ e.b_bcount = d.b_bcount
      /\ e.b_bufsize = d.b_bufsize /\ e.fresh = d.fresh /\ e.io = io
      /\ e.disk = d.disk
  BY <1>1 DEF Caches
<1>3. QED BY <1>1, <1>2 DEF Moved, Like, Stays, Marked, io

\* One mark after another.
LEMMA MarkedTwice ==
  ASSUME NEW d, NEW e, NEW h, NEW b, NEW on, NEW off,
         Marked(d, e, b, on, off), Marked(e, h, b, {}, {})
  PROVE  Marked(d, h, b, on, off)
BY DEF Marked

\* A write started.
LEMMA StartWriteData ==
  ASSUME NEW d \in Caches(Buf), NEW b \in Buf, NEW e, e = StartWrite(d, b)
  PROVE  /\ e \in Caches(Buf) /\ Moved(d, e, {b}) /\ Stays(d, e, b)
         /\ e.io = d.io \cup {b} /\ e.slp = d.slp
         /\ Marked(d, e, b, {}, {"READ", "DONE", "ERROR", "DELWRI"})
<1> DEFINE gone == {"READ", "DONE", "ERROR", "DELWRI"}
           none == {}
           h == SetF(d, b, none, gone)
<1>1. e = Strategy(h, b) /\ h = SetF(d, b, none, gone) /\ none \in SUBSET Flag
  BY DEF StartWrite
<1> HIDE DEF h, none, gone
<1>2. /\ h \in Caches(Buf) /\ Moved(d, h, {b}) /\ Stays(d, h, b) /\ h.io = d.io
      /\ Marked(d, h, b, none, gone) /\ h.slp = d.slp
  BY <1>1, SetFData, SMTT(30)
<1>3. /\ e \in Caches(Buf) /\ Moved(h, e, {b}) /\ Stays(h, e, b)
      /\ e.io = h.io \cup {b} /\ Marked(h, e, b, {}, {}) /\ e.slp = h.slp
  BY <1>1, <1>2, StrategyData
<1>4. Moved(d, e, {b}) /\ Marked(d, e, b, none, gone)
  BY <1>2, <1>3, MovedTwice, MarkedTwice
<1>5. QED BY <1>2, <1>3, <1>4 DEF Stays, none, gone

\* e is d with a read into buffer b started.
ReadSet(d, b, on, e) ==
  /\ e \in Caches(Buf) /\ Moved(d, e, {b}) /\ Stays(d, e, b)
  /\ e.io = d.io \cup {b} /\ e.slp = d.slp
  /\ Marked(d, e, b, {"READ"} \cup on, {})

LEMMA StartsRead ==
  ASSUME NEW d \in Caches(Buf), NEW b \in Buf, NEW on \in SUBSET Flag
  PROVE  ReadSet(d, b, on, StartRead(d, b, on))
<1> DEFINE e == StartRead(d, b, on)
           set == {"READ"} \cup on
           h == SetF(d, b, set, {})
<1>1. set \in SUBSET Flag /\ h = SetF(d, b, set, {})
  BY DEF Flag
<1>2. e = Strategy(h, b)
  BY DEF StartRead
<1> HIDE DEF h, set, e
<1>3. /\ h \in Caches(Buf) /\ Moved(d, h, {b}) /\ Stays(d, h, b) /\ h.io = d.io
      /\ Marked(d, h, b, set, {}) /\ h.slp = d.slp
  BY <1>1, SetFData
<1>4. /\ e \in Caches(Buf) /\ Moved(h, e, {b}) /\ Stays(h, e, b)
      /\ e.io = h.io \cup {b} /\ Marked(h, e, b, {}, {}) /\ e.slp = h.slp
  BY <1>2, <1>3, StrategyData
<1>5. Moved(d, e, {b}) /\ Marked(d, e, b, set, {})
  BY <1>3, <1>4, MovedTwice, MarkedTwice
<1>6. QED BY <1>3, <1>4, <1>5 DEF Stays, set, ReadSet, e

\* Sleepers woken.
LEMMA WakeupData ==
  ASSUME NEW d \in Caches(Buf), NEW ch, NEW e, e = Wakeup(d, ch)
  PROVE  /\ e \in Caches(Buf) /\ Moved(d, e, {}) /\ e.io = d.io
         /\ e.flags = d.flags /\ e.load = d.load
<1> DEFINE sl == [q \in Procs |-> IF d.slp[q] = ch THEN None ELSE d.slp[q]]
<1>1. e \in Caches(Buf)
  BY WakeupIs
<1>2. e = [d EXCEPT !.slp = sl]
  BY DEF Wakeup
<1> HIDE DEF sl
<1>3. /\ e.flags = d.flags
      /\ e.load = d.load /\ e.b_blkno = d.b_blkno /\ e.b_bcount = d.b_bcount
      /\ e.b_bufsize = d.b_bufsize /\ e.fresh = d.fresh /\ e.io = d.io
      /\ e.disk = d.disk
  BY <1>2 DEF Caches
<1>4. QED BY <1>1, <1>3 DEF Moved, Like

\* The first half of brelse() only wakes.
LEMMA BrelseWakeData ==
  ASSUME NEW d \in Caches(Buf), NEW b \in Buf, NEW e, e = BrelseWake(d, b)
  PROVE  /\ e \in Caches(Buf) /\ Moved(d, e, {}) /\ e.io = d.io
         /\ e.flags = d.flags /\ e.load = d.load
<1> DEFINE d1 == IF "WANTED" \in d.flags[b] THEN Wakeup(d, b) ELSE d
           d2 == [d1 EXCEPT !.wanted = FALSE]
           d3 == Wakeup(d2, FREELIST)
<1>1. /\ d1 \in Caches(Buf) /\ Moved(d, d1, {}) /\ d1.io = d.io
      /\ d1.flags = d.flags /\ d1.load = d.load
  <2>1. CASE "WANTED" \in d.flags[b]
    <3>1. d1 = Wakeup(d, b)
      BY <2>1
    <3> HIDE DEF d1
    <3>2. QED BY <3>1, WakeupData
  <2>2. CASE "WANTED" \notin d.flags[b]
    BY <2>2 DEF Moved, Like
  <2>3. QED BY <2>1, <2>2
<1>2. e = IF d1.wanted THEN d3 ELSE d1
  BY DEF BrelseWake
<1> HIDE DEF d1
<1>3. /\ d2 \in Caches(Buf) /\ Moved(d1, d2, {}) /\ d2.io = d1.io
      /\ d2.flags = d1.flags /\ d2.load = d1.load
  BY <1>1 DEF Caches, Moved, Like
<1> HIDE DEF d2
<1>4. /\ d3 \in Caches(Buf) /\ Moved(d2, d3, {}) /\ d3.io = d2.io
      /\ d3.flags = d2.flags /\ d3.load = d2.load
  BY <1>3, WakeupData
<1> HIDE DEF d3
<1>5. Moved(d, d3, {})
  BY <1>1, <1>3, <1>4, MovedTwice
<1>6. QED BY <1>1, <1>2, <1>3, <1>4, <1>5

\* The buffer loses its block.
LEMMA BrelvpData ==
  ASSUME NEW d \in Caches(Buf), NEW b \in Buf, NEW e, e = Brelvp(d, b)
  PROVE  /\ e \in Caches(Buf) /\ Moved(d, e, {b}) /\ e.b_blkno[b] = None
         /\ e.b_bcount = d.b_bcount /\ e.fresh = d.fresh /\ e.b_bufsize = d.b_bufsize
         /\ e.io = d.io /\ e.flags = d.flags /\ e.slp = d.slp /\ e.free = d.free
<1> DEFINE bl == [d.b_blkno EXCEPT ![b] = None]
<1>1. /\ bl \in [Buf -> Nat \cup {None}] /\ bl[b] = None
      /\ \A x \in Buf \ {b} : bl[x] = d.b_blkno[x]
  BY Fields
<1>2. e = [d EXCEPT !.b_blkno = bl]
  BY DEF Brelvp
<1> HIDE DEF bl
<1>3. /\ e \in Caches(Buf) /\ e.flags = d.flags /\ e.free = d.free /\ e.slp = d.slp
      /\ e.load = d.load /\ e.b_blkno = bl /\ e.b_bcount = d.b_bcount
      /\ e.b_bufsize = d.b_bufsize /\ e.fresh = d.fresh /\ e.io = d.io
      /\ e.disk = d.disk
  BY <1>1, <1>2 DEF Caches
<1>4. QED BY <1>1, <1>3 DEF Moved, Like

\* The second half of brelse(): flags and lists.
LEMMA BrelseFreeData ==
  ASSUME NEW d \in Caches(Buf), NEW b \in Buf, NEW e, e = BrelseFree(d, b)
  PROVE  /\ e \in Caches(Buf) /\ Moved(d, e, {b}) /\ Stays(d, e, b) /\ e.io = d.io
         /\ Marked(d, e, b, {}, {"WANTED", "BUSY", "ASYNC", "AGE"}) /\ e.slp = d.slp
<1> DEFINE fl == d.flags[b]
           list == IF d.b_bufsize[b] = 0 THEN "EMPTY"
                   ELSE IF fl \cap {"ERROR", "INVAL", "AGE"} # {} THEN "AGE" ELSE "LRU"
           head == d.b_bufsize[b] = 0 \/ fl \cap {"ERROR", "INVAL"} # {}
           new == IF head THEN <<b>> \o d.free[list] ELSE Append(d.free[list], b)
           d1 == [d EXCEPT !.free[list] = new]
           off == {"WANTED", "BUSY", "ASYNC", "AGE"}
<1>1. list \in Lists /\ {} \in SUBSET Flag
  BY DEF Lists
<1>2. d.free[list] \in Seq(Buf)
  BY <1>1, Fields
<1>3. new \in Seq(Buf)
  BY <1>2
<1>4. e = SetF(d1, b, {}, off)
  BY DEF BrelseFree
<1> HIDE DEF list, new, head, off
<1>5. /\ d1 \in Caches(Buf) /\ d1.load = d.load /\ d1.io = d.io
      /\ d1.slp = d.slp /\ d1.b_bufsize = d.b_bufsize
      /\ d1.flags = d.flags /\ d1.b_blkno = d.b_blkno /\ d1.b_bcount = d.b_bcount
      /\ d1.fresh = d.fresh /\ d1.disk = d.disk
  BY <1>1, <1>3, Fields DEF Caches
<1> HIDE DEF d1
<1>6. /\ e \in Caches(Buf) /\ Moved(d1, e, {b}) /\ Stays(d1, e, b) /\ e.io = d1.io
      /\ Marked(d1, e, b, {}, off) /\ e.slp = d1.slp
  BY <1>1, <1>4, <1>5, SetFData
<1>7. QED BY <1>5, <1>6 DEF Moved, Like, Stays, Marked, off

\* e is d with buffer b released.
Released(d, b, e) ==
  /\ Moved(d, e, {b}) /\ Marked(d, e, b, {}, {"WANTED", "BUSY", "ASYNC", "AGE"})
  /\ e.b_blkno[b] = IF "ERROR" \in d.flags[b] THEN None ELSE d.b_blkno[b]
  /\ e.b_bcount[b] = d.b_bcount[b] /\ e.fresh[b] = d.fresh[b] /\ e.io = d.io

\* brelse().
LEMMA BrelseData ==
  ASSUME NEW d \in Caches(Buf), NEW b \in Buf, NEW e, e = Brelse(d, b)
  PROVE  e \in Caches(Buf) /\ Released(d, b, e)
<1> DEFINE d1 == BrelseWake(d, b)
           d2 == IF "ERROR" \in d.flags[b] THEN Brelvp(d1, b) ELSE d1
<1>1. e = BrelseFree(d2, b)
  BY DEF Brelse
<1>2. /\ d1 \in Caches(Buf) /\ Moved(d, d1, {}) /\ d1.io = d.io /\ d1.flags = d.flags
  BY BrelseWakeData
<1> HIDE DEF d1
<1>3. /\ d2 \in Caches(Buf) /\ Moved(d1, d2, {b}) /\ d2.io = d1.io
      /\ d2.flags = d1.flags /\ d2.b_bcount[b] = d1.b_bcount[b]
      /\ d2.fresh[b] = d1.fresh[b]
      /\ d2.b_blkno[b] = IF "ERROR" \in d.flags[b] THEN None ELSE d1.b_blkno[b]
  <2>1. CASE "ERROR" \in d.flags[b]
    <3>1. d2 = Brelvp(d1, b)
      BY <2>1
    <3> HIDE DEF d2
    <3>2. /\ d2 \in Caches(Buf) /\ Moved(d1, d2, {b}) /\ d2.b_blkno[b] = None
          /\ d2.b_bcount = d1.b_bcount /\ d2.fresh = d1.fresh
          /\ d2.io = d1.io /\ d2.flags = d1.flags
      BY <1>2, <3>1, BrelvpData
    <3>3. QED BY <2>1, <3>2
  <2>2. CASE "ERROR" \notin d.flags[b]
    BY <1>2, <2>2 DEF Moved, Like
  <2>3. QED BY <2>1, <2>2
<1> HIDE DEF d2
<1>4. /\ e \in Caches(Buf) /\ Moved(d2, e, {b}) /\ Stays(d2, e, b) /\ e.io = d2.io
      /\ Marked(d2, e, b, {}, {"WANTED", "BUSY", "ASYNC", "AGE"})
  BY <1>1, <1>3, BrelseFreeData
<1>5. Moved(d, e, {b})
  BY <1>2, <1>3, <1>4 DEF Moved, Like
<1>6. d1.b_blkno[b] = d.b_blkno[b] /\ d1.b_bcount[b] = d.b_bcount[b]
      /\ d1.fresh[b] = d.fresh[b]
  BY <1>2 DEF Moved, Like
<1>7. Marked(d, e, b, {}, {"WANTED", "BUSY", "ASYNC", "AGE"})
  BY <1>2, <1>3, <1>4 DEF Marked
<1>8. QED BY <1>2, <1>3, <1>4, <1>5, <1>6, <1>7 DEF Released, Stays

\* What getnewbuf() makes of a buffer.
LEMMA ReassignedData ==
  ASSUME NEW d \in Caches(Buf), NEW b \in Buf, FreeOK(d), NEW e, e = Reassigned(d, b)
  PROVE  /\ e \in Caches(Buf) /\ Moved(d, e, {b}) /\ e.flags[b] = {"BUSY"}
         /\ e.b_blkno[b] = None /\ e.fresh[b] = {} /\ e.io = d.io
<1> DEFINE d1 == Notavail(d, b)
           d2 == Brelvp(d1, b)
           fl == [d2.flags EXCEPT ![b] = {"BUSY"}]
           fr == [d2.fresh EXCEPT ![b] = {}]
<1>1. /\ d1 \in Caches(Buf) /\ Moved(d, d1, {b}) /\ d1.io = d.io
  BY NotavailData
<1> HIDE DEF d1
<1>2. /\ d2 \in Caches(Buf) /\ Moved(d1, d2, {b}) /\ d2.b_blkno[b] = None /\ d2.io = d1.io
  BY <1>1, BrelvpData
<1>3. e = [d2 EXCEPT !.flags = fl, !.fresh = fr]
  BY DEF Reassigned, d1
<1> HIDE DEF d2
<1>4. /\ fl \in [Buf -> SUBSET Flag] /\ fl[b] = {"BUSY"}
      /\ \A x \in Buf \ {b} : fl[x] = d2.flags[x]
  BY <1>2, Fields DEF Flag
<1>5. /\ fr \in [Buf -> SUBSET Int] /\ fr[b] = {}
      /\ \A x \in Buf \ {b} : fr[x] = d2.fresh[x]
  BY <1>2, Fields
<1> HIDE DEF fl, fr
<1>6. /\ e \in Caches(Buf) /\ e.flags = fl /\ e.fresh = fr
      /\ e.load = d2.load /\ e.b_blkno = d2.b_blkno /\ e.b_bcount = d2.b_bcount
      /\ e.b_bufsize = d2.b_bufsize /\ e.io = d2.io /\ e.disk = d2.disk
  BY <1>2, <1>3, <1>4, <1>5 DEF Caches
<1>7. Moved(d2, e, {b})
  BY <1>4, <1>5, <1>6 DEF Moved, Like
<1>8. Moved(d, e, {b})
  BY <1>1, <1>2, <1>7, MovedTwice
<1>9. QED BY <1>1, <1>2, <1>4, <1>5, <1>6, <1>8

-----------------------------------------------------------------------------
(***************************************************************************)
(* What a step of one process leaves of the invariants.                    *)
(***************************************************************************)

\* A buffer that is as it was covers what it covered.
LEMMA LikeCovers ==
  ASSUME NEW d, NEW e, NEW x, Like(d, e, x)
  PROVE  Covers(e, x) = Covers(d, x) /\ (Valid(e, x) <=> Valid(d, x))
BY DEF Like, Covers, Valid, Marks

\* What a process answers for is not of interest to another one.
LEMMA NotHeld ==
  ASSUME IInv, NEW p \in Procs, NEW q \in Procs \ {p}, NEW x \in Buf,
         x \in Held(pc[p], loc[p]) \/ "BUSY" \notin c.flags[x]
  PROVE  x \notin Held(pc[q], loc[q])
BY DEF IInv, Apart, Local, Owned

\* The buffers in hand and their places.
LEMMA HeldIs ==
  ASSUME NEW l, NEW r
  PROVE  /\ HasBp(l, r) => r.bp \in Held(l, r)
         /\ l = "written" => r.ep \in Held(l, r)
         /\ r.first # None => r.first \in Held(l, r)
         /\ l \in {"brealloc", "overlap", "allocbuf", "got", "hold", "biowait"} => HasBp(l, r)
         /\ Clearing(l, r) => HasBp(l, r)
BY DEF Held, HasBp, Clearing

\* Sizes and places of buffers that keep their block.
LEMMA SizeKept ==
  ASSUME NEW d, NEW e, NEW l, NEW r, Size(d, l, r), e.load = d.load,
         \A x \in Held(l, r) :
           /\ e.b_blkno[x] = d.b_blkno[x] /\ e.b_bcount[x] = d.b_bcount[x]
           /\ Valid(d, x) => Valid(e, x),
         \/ l # "allocbuf"
         \/ \A x \in Buf : Valid(e, x) => Valid(d, x) /\ Covers(e, x) \subseteq Covers(d, x)
  PROVE  Size(e, l, r)
<1> SUFFICES ASSUME Getting(l, r) PROVE Asked(e, l, r) /\ Place(e, l, r)
  BY DEF Size
<1>1. Asked(d, l, r) /\ Place(d, l, r)
  BY DEF Size
<1>2. Asked(e, l, r)
  BY <1>1 DEF Asked
<1>3. l = "allocbuf" => Overlapping(e, r.blk, r.size) \subseteq Overlapping(d, r.blk, r.size)
  BY DEF Overlapping
<1>4. Place(e, l, r)
  BY <1>1, <1>3, HeldIs DEF Place
<1>5. QED BY <1>2, <1>4

\* No fragment gets into a second buffer unless a buffer grows.
LEMMA SingleKept ==
  ASSUME NEW d, NEW e, Single(d),
         \A x \in Buf : Valid(e, x) =>
           \/ Covers(e, x) = {}
           \/ Valid(d, x) /\ Covers(e, x) \subseteq Covers(d, x)
  PROVE  Single(e)
BY DEF Single

\* Buffer x still has what it had of its block; so have all but those of T.
Near(d, e, x) ==
  /\ e.b_blkno[x] = d.b_blkno[x] /\ e.b_bcount[x] = d.b_bcount[x]
  /\ (x \in e.io <=> x \in d.io)
  /\ \A f \in Marks : f \in e.flags[x] <=> f \in d.flags[x]
  /\ Valid(d, x) => Covers(d, x) \cap d.fresh[x] \subseteq e.fresh[x]

Changed(d, e, T) ==
  /\ e.load = d.load /\ e.b_bufsize = d.b_bufsize
  /\ \A x \in Buf \ T : Near(d, e, x)

LEMMA MovedIsChanged ==
  ASSUME NEW d, NEW e, NEW T, Moved(d, e, T)
  PROVE  Changed(d, e, T)
BY DEF Moved, Changed, Like, Near

LEMMA NearCovers ==
  ASSUME NEW d, NEW e, NEW x, Near(d, e, x)
  PROVE  Covers(e, x) = Covers(d, x) /\ (Valid(e, x) <=> Valid(d, x))
BY DEF Near, Covers, Valid, Marks

\* A step of process p that changes the buffers of T, which are its own or
\* free.
Turn(p, d, l, r, T) ==
  /\ Goto(p, d, l, r) /\ cur \in {p, None} /\ T \subseteq Buf /\ Changed(c, d, T)
  /\ \A t \in T : t \in Held(pc[p], loc[p]) \/ "BUSY" \notin c.flags[t]

\* What is where after a step.
LEMMA TurnIs ==
  ASSUME IInv, NEW p \in Procs, NEW d, NEW l, NEW r, NEW T, Turn(p, d, l, r, T)
  PROVE  /\ c' = d /\ pc'[p] = l /\ loc'[p] = r /\ d.load = c.load
         /\ \A q \in Procs \ {p} : pc'[q] = pc[q] /\ loc'[q] = loc[q]
         /\ cur' = IF d.slp[p] # None \/ l \in {"idle", "hold"} THEN None ELSE p
BY DEF IInv, Turn, Goto, Changed

LEMMA SStep ==
  ASSUME IInv, IInv', SInv, NEW p \in Procs, NEW d, NEW l, NEW r, NEW T,
         Turn(p, d, l, r, T), Single(d), Size(d, l, r),
         l = "allocbuf" => d.slp[p] = None
  PROVE  SInv'
<1>1. /\ c' = d /\ pc'[p] = l /\ loc'[p] = r /\ d.load = c.load
      /\ \A q \in Procs \ {p} : pc'[q] = pc[q] /\ loc'[q] = loc[q]
      /\ cur' = IF d.slp[p] # None \/ l \in {"idle", "hold"} THEN None ELSE p
  BY TurnIs
<1>2. Buf' = Buf
  BY <1>1 DEF IInv
<1>3. d.b_bufsize = Loads[d.load].space
  BY <1>1 DEF Turn, Changed, SInv, Space
<1>4. ASSUME NEW q \in Procs \ {p}
      PROVE  pc[q] # "allocbuf" /\ Size(d, pc[q], loc[q])
  <2>1. pc[q] # "allocbuf"
    BY Names DEF SInv, Turn
  <2>2. ASSUME NEW x \in Held(pc[q], loc[q]) PROVE Near(c, d, x)
    <3>1. x \in Buf
      <4>1. loc[q] \in Regs(Buf) /\ Shape(pc[q], loc[q])
        BY DEF IInv, Local
      <4>2. QED BY <4>1 DEF Regs, Held, Shape
    <3>2. x \notin T
      BY <3>1, NotHeld DEF Turn
    <3>3. QED BY <3>1, <3>2 DEF Turn, Changed
  <2>3. Size(c, pc[q], loc[q])
    BY DEF SInv
  <2>4. \A x \in Held(pc[q], loc[q]) :
          /\ d.b_blkno[x] = c.b_blkno[x] /\ d.b_bcount[x] = c.b_bcount[x]
          /\ Valid(c, x) => Valid(d, x)
    BY <2>2, NearCovers DEF Near
  <2>5. QED BY <2>1, <2>3, <2>4, <1>1, SizeKept
<1>5. Single(c)'
  BY <1>1, <1>2 DEF Single, Valid, Covers
<1>6. (c.b_bufsize = Space)'
  BY <1>1, <1>3 DEF Space
<1>7. ASSUME NEW q \in Procs PROVE Size(c, pc[q], loc[q])'
  <2>1. Size(d, pc'[q], loc'[q])
    BY <1>1, <1>4
  <2>2. QED BY <1>1, <1>2, <2>1 DEF Size, Asked, Place, Overlapping, Valid, Covers
<1>8. \A q \in Procs : pc'[q] = "allocbuf" => cur' = q
  BY <1>1, <1>4
<1>9. QED BY <1>5, <1>6, <1>7, <1>8 DEF SInv

\* What a process relies on is not disturbed.
LEMMA StateKept ==
  ASSUME NEW d, NEW e, NEW l, NEW r, State(d, l, r), e.load = d.load,
         HasBp(l, r) =>
           /\ e.b_bcount[r.bp] = d.b_bcount[r.bp]
           /\ \A f \in Marks : f \in e.flags[r.bp] <=> f \in d.flags[r.bp]
           /\ Covers(d, r.bp) \cap d.fresh[r.bp] \subseteq e.fresh[r.bp],
         HasBp(l, r) /\ Extended(r) /\ Getting(l, r) =>
           Fragments(r.call.blk, r.call.size) \subseteq Covers(d, r.bp)
  PROVE  State(e, l, r)
<1> SUFFICES ASSUME Getting(l, r) PROVE State(e, l, r)
  BY DEF State
<1>1. FragOf(e) = FragOf(d)
  BY DEF FragOf
<1>2. {"DONE", "DELWRI", "READ", "ERROR"} \subseteq Marks
  BY DEF Marks
<1>3. HasBp(l, r) /\ Extended(r) =>
        \/ "ERROR" \in e.flags[r.bp]
        \/ Fragments(r.call.blk, r.call.size) \cap FragOf(e) \subseteq e.fresh[r.bp]
  BY <1>1, <1>2 DEF State
<1>4. QED BY <1>2, <1>3, HeldIs DEF State

\* A buffer that is as it was.
LEMMA BufNear ==
  ASSUME NEW d, NEW e, NEW x, NEW y \in BOOLEAN, NEW z \in BOOLEAN, y => z,
         Near(d, e, x), e.load = d.load, BufOK(d, x, y)
  PROVE  BufOK(e, x, z)
<1>1. Covers(e, x) = Covers(d, x) /\ (Valid(e, x) <=> Valid(d, x))
  BY NearCovers
<1>2. (Valid(d, x) /\ Whole(d, x) => Whole(e, x)) /\ (Dirty(d, x) <=> Dirty(e, x))
  BY <1>1 DEF Whole, Dirty, Near, FragOf, Marks
<1>3. {"DONE", "DELWRI", "BUSY", "ERROR", "ASYNC"} \subseteq Marks
  BY DEF Marks
<1>4. QED BY <1>1, <1>2, <1>3 DEF BufOK, Near

\* What a buffer holds for the disk it still holds.
Keeping(d, e, t) ==
  Valid(d, t) /\ Dirty(d, t) =>
    /\ Valid(e, t) /\ Dirty(e, t)
    /\ Covers(d, t) \cap d.fresh[t] \subseteq Covers(e, t) \cap e.fresh[t]

LEMMA LossKept ==
  ASSUME NEW d, NEW e, NoLoss(d), e.load = d.load, d.disk \subseteq e.disk,
         \A t \in Buf : Keeping(d, e, t)
  PROVE  NoLoss(e)
BY DEF NoLoss, Safe, FragOf, Keeping

\* A buffer that is as it was keeps what it holds.
LEMMA LikeKeeping ==
  ASSUME NEW d, NEW e, NEW t, Like(d, e, t)
  PROVE  Keeping(d, e, t)
BY LikeCovers DEF Keeping, Like, Dirty, Marks

LEMMA LossMoved ==
  ASSUME NEW d, NEW e, NEW T, NoLoss(d), Moved(d, e, T), \A t \in T : Keeping(d, e, t)
  PROVE  NoLoss(e)
<1>1. e.load = d.load /\ d.disk \subseteq e.disk
  BY DEF Moved
<1>2. \A t \in Buf : Keeping(d, e, t)
  BY LikeKeeping DEF Moved
<1>3. QED BY <1>1, <1>2, LossKept

\* The block that realloccg() extends is in the buffer.
LEMMA ExtendedCovers ==
  ASSUME NEW d \in Caches(Buf), NEW l, NEW r \in Regs(Buf), Size(d, l, r),
         Getting(l, r), HasBp(l, r), Extended(r), r.bp \in Buf
  PROVE  Fragments(r.call.blk, r.call.size) \subseteq Covers(d, r.bp)
<1>1. Asked(d, l, r) /\ Place(d, l, r)
  BY DEF Size
<1>2. /\ Valid(d, r.bp) /\ d.b_blkno[r.bp] = r.blk /\ d.b_bcount[r.bp] >= r.call.size
      /\ r.blk = r.call.blk
  BY <1>1 DEF Asked, Place, Extended
<1>3. r.call.blk \in Nat /\ r.call.size \in Nat
  <2>1. PICK m \in Loads[d.load].calls : r.call = m \/ (m.op = "breada" /\ r.call = BreadOf(m))
    BY <1>1 DEF Asked
  <2>2. m \in [op : Op, blk : Nat, size : Nat, to : Nat]
    BY BufAssumption, Fields
  <2>3. QED BY <2>1, <2>2 DEF BreadOf
<1>4. d.b_bcount[r.bp] \in Int
  BY Fields
<1>5. QED BY <1>2, <1>3, <1>4 DEF Covers, Fragments, Valid

\* A step may end the write of the buffer in hand, or begin one, only if the
\* buffer is among those it changes.
LEMMA CStep ==
  ASSUME IInv, IInv', SInv, CInv, NEW p \in Procs, NEW d, NEW l, NEW r, NEW T,
         Turn(p, d, l, r, T), "write" \notin Errors,
         \A t \in T : BufOK(d, t, Filling(l, r) /\ r.bp = t), NoLoss(d),
         Filling(pc[p], loc[p]) =>
           loc[p].bp \in T \/ (Filling(l, r) /\ r.bp = loc[p].bp),
         State(d, l, r)
  PROVE  CInv'
<1>1. /\ c' = d /\ pc'[p] = l /\ loc'[p] = r /\ d.load = c.load
      /\ \A q \in Procs \ {p} : pc'[q] = pc[q] /\ loc'[q] = loc[q]
  BY TurnIs
<1>2. Buf' = Buf
  BY <1>1 DEF IInv
<1>3. /\ \A b \in Buf : BufOK(c, b, Filled(b))
      /\ NoLoss(c)
      /\ \A q \in Procs : State(c, pc[q], loc[q])
  BY DEF CInv
<1>4. \A b \in Buf : BufOK(d, b, Filled(b)')
  <2>1. ASSUME NEW t \in T PROVE BufOK(d, t, Filled(t)')
    <3>1. BufOK(d, t, Filling(l, r) /\ r.bp = t)
      OBVIOUS
    <3>2. Filling(l, r) /\ r.bp = t => Filled(t)'
      BY <1>1 DEF Filled
    <3>3. QED BY <3>1, <3>2 DEF BufOK
  <2>2. ASSUME NEW x \in Buf \ T PROVE BufOK(d, x, Filled(x)')
    <3>1. Filled(x) => Filled(x)'
      BY <1>1 DEF Filled
    <3>2. Near(c, d, x) /\ BufOK(c, x, Filled(x))
      BY <1>3 DEF Turn, Changed
    <3>3. QED BY <1>1, <3>1, <3>2, BufNear DEF Filled
  <2>3. QED BY <2>1, <2>2
<1>6. ASSUME NEW q \in Procs \ {p} PROVE State(d, pc[q], loc[q])
  <2>1. ASSUME NEW x \in Held(pc[q], loc[q]) PROVE Near(c, d, x)
    <3>1. x \in Buf
      <4>1. loc[q] \in Regs(Buf) /\ Shape(pc[q], loc[q])
        BY DEF IInv, Local
      <4>2. QED BY <4>1 DEF Regs, Held, Shape
    <3>2. x \notin T
      BY <3>1, NotHeld DEF Turn
    <3>3. QED BY <3>1, <3>2 DEF Turn, Changed
  <2>2. Getting(pc[q], loc[q]) /\ HasBp(pc[q], loc[q]) =>
           LET x == loc[q].bp IN
           /\ d.b_bcount[x] = c.b_bcount[x]
           /\ \A f \in Marks : f \in d.flags[x] <=> f \in c.flags[x]
           /\ Covers(c, x) \cap c.fresh[x] \subseteq d.fresh[x]
    BY <2>1, HeldIs DEF Near, SInv, Size, Place
  <2>3. HasBp(pc[q], loc[q]) /\ Extended(loc[q]) /\ Getting(pc[q], loc[q]) =>
          Fragments(loc[q].call.blk, loc[q].call.size) \subseteq Covers(c, loc[q].bp)
    <3>1. /\ c \in Caches(Buf) /\ loc[q] \in Regs(Buf) /\ Shape(pc[q], loc[q])
          /\ Size(c, pc[q], loc[q])
      BY DEF IInv, Local, SInv
    <3>2. HasBp(pc[q], loc[q]) => loc[q].bp \in Buf
      BY <3>1 DEF Regs, Shape
    <3>3. QED BY <3>1, <3>2, ExtendedCovers
  <2>4. QED BY <1>1, <1>3, <2>2, <2>3, StateKept DEF State
<1>7. (\A b \in Buf : BufOK(c, b, Filled(b)))'
  BY <1>1, <1>2, <1>4
<1>8. NoLoss(c)'
  BY <1>1, <1>2 DEF NoLoss, Safe
<1>9. \A q \in Procs : State(c, pc[q], loc[q])'
  BY <1>1, <1>3, <1>6
<1>10. QED BY <1>7, <1>8, <1>9 DEF CInv

\* What the second invariant asks of a step.
Told(p, d, l, r, T) ==
  /\ \A t \in T : BufOK(d, t, Filling(l, r) /\ r.bp = t)
  /\ NoLoss(d)
  /\ Filling(pc[p], loc[p]) =>
       loc[p].bp \in T \/ (Filling(l, r) /\ r.bp = loc[p].bp)
  /\ State(d, l, r)

\* The premises under which the second invariant is kept.
Trusted == SizesAgree /\ CInv /\ "write" \notin Errors

\* The end of a step, for both invariants.
LEMMA Ends ==
  ASSUME IInv, IInv', SInv, NEW p \in Procs, NEW d, NEW l, NEW r, NEW T,
         Turn(p, d, l, r, T), Single(d), Size(d, l, r),
         l = "allocbuf" => d.slp[p] = None,
         Trusted => Told(p, d, l, r, T)
  PROVE  SInv' /\ (SizesAgree /\ CInv => CInv')
<1>1. SInv'
  BY SStep
<1>2. ASSUME SizesAgree, CInv, "write" \notin Errors PROVE CInv'
  BY <1>2, CStep DEF Told, Trusted
<1>3. ASSUME "write" \in Errors PROVE CInv'
  <2>1. c'.load = c.load
    BY TurnIs
  <2>2. Errors' = Errors
    BY <2>1 DEF Errors
  <2>3. QED BY <1>3, <2>2 DEF CInv
<1>4. QED BY <1>1, <1>2, <1>3

\* What is known of a process at a step.
LEMMA Here ==
  ASSUME IInv, SInv, NEW p \in Procs
  PROVE  /\ c \in Caches(Buf) /\ loc[p] \in Regs(Buf) /\ Shape(pc[p], loc[p])
         /\ Size(c, pc[p], loc[p]) /\ FreeOK(c) /\ None \notin Buf
         /\ c.load \in DOMAIN Loads /\ Buf = Range(Loads[c.load].bufs)
         /\ \A x \in Held(pc[p], loc[p]) : x \in Buf /\ Owned(c, x)
         /\ Local(c, pc[p], loc[p]) /\ Single(c) /\ c.b_bufsize = Space
         /\ Trusted => State(c, pc[p], loc[p]) /\ NoLoss(c)
                       /\ \A b \in Buf : BufOK(c, b, Filled(b))
<1>1. /\ c \in Caches(Buf) /\ loc[p] \in Regs(Buf) /\ Local(c, pc[p], loc[p]) /\ FreeOK(c)
      /\ Buf = Range(Loads[c.load].bufs)
  BY DEF IInv
<1>2. Shape(pc[p], loc[p]) /\ \A x \in Held(pc[p], loc[p]) : Owned(c, x)
  BY <1>1 DEF Local
<1>3. \A x \in Held(pc[p], loc[p]) : x \in Buf
  BY <1>1, <1>2 DEF Regs, Held, Shape
<1>4. None \notin Buf /\ c.load \in DOMAIN Loads
  BY <1>1, Names, Fields
<1>5. QED BY <1>1, <1>2, <1>3, <1>4 DEF SInv, CInv, Trusted

\* The call a process is in.
LEMMA CallIs ==
  ASSUME NEW d, d.load \in DOMAIN Loads, NEW l, NEW r, Asked(d, l, r)
  PROVE  /\ r.call \in CallRec /\ r.call.op \in Getblk /\ r.size \in Nat /\ r.size > 0
         /\ r.call.size \in Nat /\ r.call.size > 0 /\ r.call.blk \in Nat
         /\ r.call.op = "extend" => r.call.size < r.call.to /\ r.call.to \in Nat
         /\ r.call.op = "breada" => r.call.to # r.call.blk
         /\ Roomy /\ d.load = c.load => \A b \in Buf : r.size <= Space[b]
<1>1. PICK m \in Loads[d.load].calls :
        m.op \in Getblk /\ (r.call = m \/ (m.op = "breada" /\ r.call = BreadOf(m)))
  BY DEF Asked
<1>2. m \in [op : Op, blk : Nat, size : Nat, to : Nat]
  BY BufAssumption
<1>3. /\ m.blk \in 0 .. Loads[d.load].frags - 1
      /\ m.size \in 1 .. Loads[d.load].frags - m.blk /\ Loads[d.load].frags \in Nat
      /\ m.op = "breada" => m.to # m.blk
      /\ m.op = "extend" => m.to \in m.size + 1 .. Loads[d.load].frags - m.blk
  BY BufAssumption
<1>4. m \in CallRec
  BY <1>2 DEF CallRec
<1>5. BreadOf(m) \in CallRec /\ BreadOf(m).op = "read" /\ BreadOf(m).size = m.size
      /\ BreadOf(m).blk = m.blk
  BY <1>4 DEF BreadOf, CallRec, Op
<1>6. /\ r.call \in CallRec /\ r.call.op \in Getblk /\ r.call.size = m.size
      /\ r.call.blk = m.blk /\ (r.call.op \in {"extend", "breada"} => r.call = m)
  BY <1>1, <1>4, <1>5 DEF Getblk
<1>7. r.size = m.size \/ (r.size = m.to /\ m.op = "extend")
  BY <1>6 DEF Asked, Extended
<1>8. /\ m.size \in Nat /\ m.size > 0 /\ m.blk \in Nat
      /\ m.op = "extend" => m.size < m.to /\ m.to \in Nat
  BY <1>2, <1>3
<1>9. r.size \in Nat /\ r.size > 0
  BY <1>7, <1>8
<1>10. Roomy /\ d.load = c.load => \A b \in Buf : r.size <= Space[b]
  BY <1>1, <1>7 DEF Roomy, Calls, Space
<1>11. QED BY <1>1, <1>3, <1>6, <1>8, <1>9, <1>10

\* Who reads asks for no more than a delayed write of the block has.
LEMMA ReadsLess ==
  ASSUME SizesAgree, NEW d, d.load \in DOMAIN Loads, d.load = c.load,
         NEW l, NEW r, Asked(d, l, r), ~Writer(r),
         NEW m \in Loads[d.load].calls, Writes(m), m.blk = r.blk
  PROVE  r.size <= Final(m)
<1>1. PICK k \in Loads[d.load].calls :
        k.op \in Getblk /\ (r.call = k \/ (k.op = "breada" /\ r.call = BreadOf(k)))
  BY DEF Asked
<1>2. k \in CallRec
  BY BufAssumption DEF CallRec
<1>3. BreadOf(k).op = "read" /\ BreadOf(k).size = k.size /\ BreadOf(k).blk = k.blk
  BY <1>2 DEF BreadOf, CallRec
<1>4. r.size = k.size
  BY <1>1, <1>3 DEF Asked, Writer
<1>5. ReadsAt(k, m.blk)
  BY <1>1, <1>3 DEF Asked, ReadsAt, Writer, Getblk
<1>6. QED BY <1>4, <1>5 DEF SizesAgree, Calls

\* A process that only sleeps, or is seen to be where it was.
LEMMA StayPut ==
  ASSUME IInv, IInv', SInv, NEW p \in Procs, NEW d, Moved(c, d, {}),
         pc[p] # "allocbuf", Goto(p, d, pc[p], loc[p]), cur \in {p, None}
  PROVE  SInv' /\ (SizesAgree /\ CInv => CInv')
<1> DEFINE l == pc[p]
           r == loc[p]
<1>1. Turn(p, d, l, r, {})
  BY MovedIsChanged DEF Turn
<1>2. /\ c \in Caches(Buf) /\ r \in Regs(Buf) /\ Shape(l, r) /\ Size(c, l, r) /\ Single(c)
      /\ \A x \in Held(l, r) : x \in Buf
      /\ Trusted => State(c, l, r) /\ NoLoss(c)
  BY Here
<1>3. \A x \in Buf : Like(c, d, x)
  BY DEF Moved
<1>4. d.load = c.load
  BY DEF Moved
<1> HIDE DEF l, r
<1>5. Single(d)
  BY <1>2, <1>3, LikeCovers, SingleKept
<1>6. \A x \in Held(l, r) :
        /\ d.b_blkno[x] = c.b_blkno[x] /\ d.b_bcount[x] = c.b_bcount[x]
        /\ Valid(c, x) => Valid(d, x)
        /\ \A f \in Marks : f \in d.flags[x] <=> f \in c.flags[x]
        /\ Covers(c, x) \cap c.fresh[x] \subseteq d.fresh[x]
  BY <1>2, <1>3, LikeCovers DEF Like
<1>7. Size(d, l, r)
  BY <1>2, <1>4, <1>6, SizeKept DEF l
<1>8. HasBp(l, r) /\ Extended(r) /\ Getting(l, r) =>
        Fragments(r.call.blk, r.call.size) \subseteq Covers(c, r.bp)
  BY <1>2, HeldIs, ExtendedCovers
<1>9. Trusted => State(d, l, r)
  BY <1>2, <1>4, <1>6, <1>8, StateKept, HeldIs
<1>10. Trusted => NoLoss(d)
  BY <1>2, LossMoved
<1>11. Trusted => Told(p, d, l, r, {})
  BY <1>9, <1>10 DEF Told, l, r
<1>12. QED BY <1>1, <1>5, <1>7, <1>11, Ends DEF l, r

\* A process that goes on and leaves the cache alone.
LEMMA Walks ==
  ASSUME IInv, IInv', SInv, NEW p \in Procs, NEW l, NEW r, Goto(p, c, l, r),
         cur \in {p, None}, c.slp[p] = None, Size(c, l, r),
         Trusted => /\ State(c, l, r)
                    /\ Filling(pc[p], loc[p]) => Filling(l, r) /\ r.bp = loc[p].bp
  PROVE  SInv' /\ (SizesAgree /\ CInv => CInv')
<1>1. Turn(p, c, l, r, {})
  BY DEF Turn, Changed, Near
<1>2. Single(c)
  BY DEF SInv
<1>3. Trusted => Told(p, c, l, r, {})
  BY Here DEF Told
<1>4. QED BY <1>1, <1>2, <1>3, Ends

\* The process that is about to write a buffer whole is the one that has it.
LEMMA FilledIs ==
  ASSUME IInv, NEW p \in Procs, NEW b \in Buf, Filled(b),
         b \in Held(pc[p], loc[p]) \/ "BUSY" \notin c.flags[b]
  PROVE  Filling(pc[p], loc[p]) /\ loc[p].bp = b
<1>1. PICK q \in Procs : Filling(pc[q], loc[q]) /\ loc[q].bp = b
  BY DEF Filled
<1>2. b \in Held(pc[q], loc[q])
  BY <1>1, HeldIs DEF Filling
<1>3. q = p
  BY <1>2, NotHeld
<1>4. QED BY <1>1, <1>3

\* What is known of a buffer that a process has or finds free.
LEMMA BufHere ==
  ASSUME IInv, SInv, Trusted, NEW p \in Procs, NEW b \in Buf,
         b \in Held(pc[p], loc[p]) \/ "BUSY" \notin c.flags[b]
  PROVE  BufOK(c, b, Filling(pc[p], loc[p]) /\ loc[p].bp = b)
<1>1. BufOK(c, b, Filled(b))
  BY Here
<1>2. QED BY <1>1, FilledIs DEF BufOK

\* A sleep for a buffer that is marked wanted.
LEMMA WaitsData ==
  ASSUME NEW d \in Caches(Buf), NEW b \in Buf, NEW p \in Procs,
         NEW e, e = SleepOn(SetF(d, b, {"WANTED"}, {}), p, b)
  PROVE  e \in Caches(Buf) /\ Moved(d, e, {})
<1> DEFINE set == {"WANTED"}
           h == SetF(d, b, set, {})
<1>1. set \in SUBSET Flag /\ h = SetF(d, b, set, {}) /\ e = SleepOn(h, p, b)
  BY DEF Flag
<1> HIDE DEF h, set
<1>2. /\ h \in Caches(Buf) /\ Moved(d, h, {b}) /\ Stays(d, h, b) /\ h.io = d.io
      /\ Marked(d, h, b, set, {})
  BY <1>1, SetFData
<1>3. Like(d, h, b)
  BY <1>2 DEF Stays, Marked, Like, Marks, set
<1>4. Moved(d, h, {})
  BY <1>2, <1>3 DEF Moved
<1>5. e \in Caches(Buf) /\ Moved(h, e, {})
  BY <1>1, <1>2, SleepOnData
<1>6. QED BY <1>4, <1>5, MovedTwice

-----------------------------------------------------------------------------
(***************************************************************************)
(* Each action keeps the invariants: those that change no buffer.          *)
(***************************************************************************)

\* A call comes with its block and its size.
LEMMA CallSafe ==
  ASSUME IInv, IInv', SInv, NEW p \in Procs, Call(p)
  PROVE  SInv' /\ (SizesAgree /\ CInv => CInv')
<1>1. pc[p] = "idle" /\ c.slp[p] = None /\ cur \in {p, None}
  BY DEF Call, At
<1>2. PICK k \in Calls, l \in {"bflush", "blkflush", "binvalfree", "readahead", "getblk"} :
        /\ Goto(p, c, l, [NoLoc EXCEPT !.call = k, !.blk = k.blk, !.size = k.size])
        /\ l \in {"readahead", "getblk"} => k.op \in Getblk
        /\ l = "readahead" => k.op = "breada"
  <2>1. PICK k \in Calls :
       LET r == [NoLoc EXCEPT !.call = k, !.blk = k.blk, !.size = k.size]
           incore == \E b \in Buf : Valid(c, b) /\ c.b_blkno[b] = k.blk
       IN  CASE k.op \in {"bflush", "blkflush", "binvalfree"} ->
                  Goto(p, c, k.op, r)
             [] k.op = "breada" /\ incore -> Goto(p, c, "readahead", r)
             [] OTHER -> Goto(p, c, "getblk", r)
    BY DEF Call
  <2>2. k.op \in Op
    BY Here, BufAssumption DEF Calls
  <2>3. QED BY <2>1, <2>2 DEF Op, Getblk
<1> DEFINE r == [NoLoc EXCEPT !.call = k, !.blk = k.blk, !.size = k.size]
<1>3. /\ r.call = k /\ r.blk = k.blk /\ r.size = k.size /\ r.bp = None
      /\ r.ep = None /\ r.first = None /\ r.ret = "idle"
  BY DEF NoLoc
<1>4. Goto(p, c, l, r)
  BY <1>2
<1> HIDE DEF r
<1>5. k \in Loads[c.load].calls /\ (k.op = "extend" => k.to # k.size)
  <2>1. c.load \in DOMAIN Loads /\ k \in Loads[c.load].calls
    BY Here DEF Calls
  <2>2. /\ k \in [op : Op, blk : Nat, size : Nat, to : Nat] /\ Loads[c.load].frags \in Nat
        /\ k.op = "extend" => k.to \in k.size + 1 .. Loads[c.load].frags - k.blk
    BY <2>1, BufAssumption
  <2>3. QED BY <2>1, <2>2
<1>6. ~Extended(r) /\ ~HasBp(l, r) /\ ~Clearing(l, r)
  BY <1>3, <1>5 DEF Extended, HasBp, Clearing
<1>7. Getting(l, r) => l \in {"readahead", "getblk"}
  BY DEF Getting
<1>8. Size(c, l, r)
  BY <1>2, <1>3, <1>5, <1>6, <1>7 DEF Size, Asked, Place
<1>9. State(c, l, r)
  BY <1>6, <1>7 DEF State
<1>10. ~Filling(pc[p], loc[p])
  BY <1>1 DEF Filling
<1>11. QED BY <1>1, <1>4, <1>8, <1>9, <1>10, Walks

\* getblk() waits for a busy buffer.
LEMMA GetblkBusySafe ==
  ASSUME IInv, IInv', SInv, NEW p \in Procs, GetblkBusy(p)
  PROVE  SInv' /\ (SizesAgree /\ CInv => CInv')
<1>1. PICK b \in Buf : Goto(p, SleepOn(SetF(c, b, {"WANTED"}, {}), p, b), "getblk", loc[p])
  BY DEF GetblkBusy
<1>2. pc[p] = "getblk" /\ cur \in {p, None}
  BY DEF GetblkBusy, At
<1>3. Moved(c, SleepOn(SetF(c, b, {"WANTED"}, {}), p, b), {})
  BY Here, WaitsData
<1>4. QED BY <1>1, <1>2, <1>3, StayPut

\* getblk() goes for a new buffer.
LEMMA GetblkMissSafe ==
  ASSUME IInv, IInv', SInv, NEW p \in Procs, GetblkMiss(p)
  PROVE  SInv' /\ (SizesAgree /\ CInv => CInv')
<1> DEFINE r == loc[p]
           s == [r EXCEPT !.bp = None]
<1>1. pc[p] = "getblk" /\ c.slp[p] = None /\ cur \in {p, None} /\ Goto(p, c, "getnewbuf", s)
  BY DEF GetblkMiss, At
<1>2. r \in Regs(Buf) /\ Size(c, "getblk", r)
  BY <1>1, Here
<1>3. /\ s.call = r.call /\ s.blk = r.blk /\ s.size = r.size /\ s.bp = None
      /\ s.first = r.first /\ s.ret = r.ret
  BY <1>2 DEF Regs
<1> HIDE DEF r, s
<1>4. Asked(c, "getblk", r) /\ Place(c, "getblk", r)
  BY <1>2 DEF Size, Getting
<1>5. ~HasBp("getblk", r) /\ ~HasBp("getnewbuf", s) /\ ~Clearing("getnewbuf", s)
  BY <1>3 DEF HasBp, Clearing
<1>6. ~Extended(r) /\ (Extended(s) <=> Extended(r))
  BY <1>3, <1>4, <1>5 DEF Asked, Extended
<1>7. Asked(c, "getnewbuf", s)
  BY <1>3, <1>4, <1>6 DEF Asked
<1>8. Place(c, "getnewbuf", s)
  BY <1>3, <1>4, <1>5 DEF Place
<1>9. Size(c, "getnewbuf", s) /\ State(c, "getnewbuf", s)
  BY <1>5, <1>7, <1>8 DEF Size, State
<1>10. ~Filling(pc[p], loc[p])
  BY <1>1 DEF Filling
<1>11. QED BY <1>1, <1>9, <1>10, Walks

\* getnewbuf() waits for any buffer.
LEMMA GetnewbufSleepSafe ==
  ASSUME IInv, IInv', SInv, NEW p \in Procs, GetnewbufSleep(p)
  PROVE  SInv' /\ (SizesAgree /\ CInv => CInv')
<1> DEFINE h == [c EXCEPT !.wanted = TRUE]
           d == SleepOn(h, p, FREELIST)
<1>1. Goto(p, d, "getnewbuf", loc[p]) /\ pc[p] = "getnewbuf" /\ cur \in {p, None}
  BY DEF GetnewbufSleep, At
<1>2. c \in Caches(Buf)
  BY Here
<1>3. h \in Caches(Buf) /\ Moved(c, h, {})
  BY <1>2 DEF Caches, Moved, Like
<1> HIDE DEF h
<1>4. Moved(h, d, {})
  BY <1>3, SleepOnData
<1> HIDE DEF d
<1>5. Moved(c, d, {})
  BY <1>3, <1>4, MovedTwice
<1>6. QED BY <1>1, <1>5, StayPut

\* brealloc() finds no buffer in the way.
LEMMA BreallocAloneSafe ==
  ASSUME IInv, IInv', SInv, NEW p \in Procs, BreallocAlone(p)
  PROVE  SInv' /\ (SizesAgree /\ CInv => CInv')
<1> DEFINE r == loc[p]
<1>1. /\ pc[p] = "overlap" /\ c.slp[p] = None /\ cur \in {p, None}
      /\ Goto(p, c, "allocbuf", r) /\ Overlapping(c, r.blk, r.size) \subseteq {r.bp}
  BY DEF BreallocAlone, At
<1>2. /\ r \in Regs(Buf) /\ Size(c, "overlap", r) /\ (Trusted => State(c, "overlap", r))
      /\ r.bp \in Buf /\ c \in Caches(Buf)
  <2>1. HasBp("overlap", r)
    BY DEF HasBp
  <2>2. QED BY <1>1, <2>1, Here, HeldIs
<1> HIDE DEF r
<1>3. /\ HasBp("overlap", r) /\ HasBp("allocbuf", r) /\ Getting("overlap", r)
      /\ Clearing("overlap", r) /\ ~Clearing("allocbuf", r)
  BY DEF HasBp, Getting, Clearing
<1>4. Asked(c, "overlap", r) /\ Place(c, "overlap", r)
  BY <1>2, <1>3 DEF Size
<1>5. Asked(c, "allocbuf", r) /\ Place(c, "allocbuf", r)
  BY <1>1, <1>3, <1>4 DEF Asked, Place
<1>6. c.b_bcount[r.bp] < r.size /\ ~(r.size < c.b_bcount[r.bp])
  <2>1. c.b_bcount[r.bp] \in Int /\ r.size \in Nat
    BY <1>2, Fields DEF Regs
  <2>2. QED BY <1>3, <1>4, <2>1 DEF Place
<1>7. Trusted => State(c, "allocbuf", r)
  BY <1>2, <1>3, <1>6 DEF State
<1>8. ~Filling(pc[p], loc[p])
  BY <1>1 DEF Filling
<1>9. QED BY <1>1, <1>5, <1>7, <1>8, Walks DEF Size, r

\* A write of the whole block needs no read.
LEMMA GotWriteSafe ==
  ASSUME IInv, IInv', SInv, NEW p \in Procs, GotWrite(p)
  PROVE  SInv' /\ (SizesAgree /\ CInv => CInv')
<1> DEFINE r == loc[p]
<1>1. /\ pc[p] = "got" /\ c.slp[p] = None /\ cur \in {p, None}
      /\ Goto(p, c, "hold", r) /\ r.call.op = "write"
  BY DEF GotWrite, At
<1>2. Size(c, "got", r)
  BY <1>1, Here
<1> HIDE DEF r
<1>3. Getting("got", r) /\ HasBp("got", r) /\ HasBp("hold", r) /\ ~Clearing("hold", r)
      /\ ~Extended(r) /\ Writer(r)
  BY <1>1 DEF HasBp, Getting, Clearing, Extended, Writer
<1>4. Asked(c, "got", r) /\ Place(c, "got", r)
  BY <1>2, <1>3 DEF Size
<1>5. Asked(c, "hold", r) /\ Place(c, "hold", r)
  BY <1>1, <1>3, <1>4 DEF Asked, Place
<1>6. State(c, "hold", r)
  BY <1>3 DEF State
<1>7. Filling("hold", r)
  BY <1>3 DEF Filling
<1>8. QED BY <1>1, <1>5, <1>6, <1>7, Walks DEF Size, r

\* biowait().
LEMMA BiowaitSafe ==
  ASSUME IInv, IInv', SInv, NEW p \in Procs, Biowait(p)
  PROVE  SInv' /\ (SizesAgree /\ CInv => CInv')
<1> DEFINE r == loc[p]
<1>1. /\ pc[p] = "biowait" /\ c.slp[p] = None /\ cur \in {p, None}
      /\ IF "DONE" \in c.flags[r.bp] THEN Goto(p, c, "hold", r)
         ELSE Goto(p, SleepOn(c, p, r.bp), "biowait", r)
  BY DEF Biowait, At
<1>2. Size(c, "biowait", r) /\ r.bp \in Buf /\ c \in Caches(Buf)
  <2>1. HasBp("biowait", r)
    BY DEF HasBp
  <2>2. QED BY <1>1, <2>1, Here, HeldIs
<1>3. CASE "DONE" \in c.flags[r.bp]
  <2>1. Goto(p, c, "hold", r)
    BY <1>1, <1>3
  <2>2. ~Filling(pc[p], r)
    BY <1>1 DEF Filling
  <2> HIDE DEF r
  <2>3. Getting("biowait", r) /\ HasBp("biowait", r) /\ HasBp("hold", r) /\ ~Clearing("hold", r)
    BY <1>1 DEF HasBp, Getting, Clearing
  <2>4. Asked(c, "biowait", r) /\ Place(c, "biowait", r)
    BY <1>2, <2>3 DEF Size
  <2>5. Asked(c, "hold", r) /\ Place(c, "hold", r) /\ ~Extended(r)
    BY <2>3, <2>4 DEF Asked, Place
  <2>6. State(c, "hold", r)
    BY <1>3, <2>3, <2>5 DEF State
  <2>7. QED BY <1>1, <2>1, <2>2, <2>5, <2>6, Walks DEF Size, r
<1>4. CASE "DONE" \notin c.flags[r.bp]
  <2> DEFINE d == SleepOn(c, p, r.bp)
  <2>1. Goto(p, d, "biowait", r)
    BY <1>1, <1>4
  <2>2. Moved(c, d, {})
    BY <1>2, SleepOnData
  <2>3. QED BY <1>1, <2>1, <2>2, StayPut
<1>5. QED BY <1>3, <1>4

\* realloccg() asks for the new size of the block it has read.
LEMMA ExtendSafe ==
  ASSUME IInv, IInv', SInv, NEW p \in Procs, Extend(p)
  PROVE  SInv' /\ (SizesAgree /\ CInv => CInv')
<1> DEFINE r == loc[p]
           s == [r EXCEPT !.size = r.call.to]
           b == r.bp
<1>1. /\ pc[p] = "hold" /\ c.slp[p] = None /\ cur \in {p, None}
      /\ Goto(p, c, "brealloc", s) /\ r.call.op = "extend" /\ r.size = r.call.size
      /\ "ERROR" \notin c.flags[b]
  BY DEF Extend, Holds, At
<1>2. /\ r \in Regs(Buf) /\ Size(c, "hold", r) /\ b \in Held("hold", r) /\ b \in Buf
      /\ Trusted => State(c, "hold", r)
  BY <1>1, Here, HeldIs
<1>3. Trusted => BufOK(c, b, Filling("hold", r) /\ r.bp = b)
  BY <1>1, <1>2, BufHere
<1>4. /\ s.call = r.call /\ s.blk = r.blk /\ s.size = r.call.to /\ s.bp = b
      /\ s.first = r.first /\ s.ret = r.ret
  BY <1>2 DEF Regs
<1>5. ~Filling(pc[p], r) <=> ~Filling("hold", r)
  BY <1>1
<1> HIDE DEF r, s, b
<1>6. /\ Getting("hold", r) /\ HasBp("hold", r) /\ HasBp("brealloc", s)
      /\ ~Clearing("brealloc", s) /\ Extended(s)
  BY <1>1, <1>4 DEF HasBp, Getting, Clearing, Extended
<1>7. Asked(c, "hold", r) /\ Place(c, "hold", r)
  BY <1>2, <1>6 DEF Size
<1>8. ~Writer(r) /\ ~Extended(r)
  BY <1>1, <1>7, Here, CallIs DEF Writer, Extended
<1>9. Asked(c, "brealloc", s)
  BY <1>1, <1>4, <1>6, <1>7 DEF Asked
<1>10. c.b_bcount[b] = r.call.size /\ c.b_blkno[b] = r.call.blk /\ Valid(c, b)
  BY <1>1, <1>6, <1>7 DEF Place, b
<1>11. Place(c, "brealloc", s)
  <2>1. r.first = None
    BY <1>1, Here DEF Shape, r
  <2>2. r.call.size \in Nat
    BY <1>7, Here, CallIs
  <2>3. QED BY <1>1, <1>4, <1>6, <1>7, <1>10, <2>1, <2>2 DEF Place, b
<1>12. ~Filling("hold", r)
  BY <1>8 DEF Filling
<1>13. ASSUME Trusted PROVE State(c, "brealloc", s)
  <2>1. "DONE" \in c.flags[b]
    BY <1>2, <1>6, <1>8, <1>13 DEF State, b
  <2>2. Whole(c, b)
    BY <1>1, <1>3, <1>10, <1>12, <1>13, <2>1 DEF BufOK
  <2>3. Covers(c, b) = Fragments(r.call.blk, r.call.size)
    BY <1>10 DEF Covers, Valid
  <2>4. QED BY <1>4, <1>6, <2>2, <2>3 DEF State, Whole, Writer
<1>14. QED BY <1>1, <1>5, <1>9, <1>11, <1>12, <1>13, Walks DEF Size, r

-----------------------------------------------------------------------------
(***************************************************************************)
(* Those that change buffers of their own or free ones.                    *)
(***************************************************************************)

\* The end of a step that leaves the disk and the other buffers as they were.
LEMMA EndsMoved ==
  ASSUME IInv, IInv', SInv, NEW p \in Procs, NEW d, NEW l, NEW r, NEW T,
         Goto(p, d, l, r), cur \in {p, None}, T \subseteq Buf, Moved(c, d, T),
         \A t \in T : t \in Held(pc[p], loc[p]) \/ "BUSY" \notin c.flags[t],
         Single(d), Size(d, l, r), l = "allocbuf" => d.slp[p] = None,
         Trusted => /\ \A t \in T : /\ BufOK(d, t, Filling(l, r) /\ r.bp = t)
                                    /\ Keeping(c, d, t)
                    /\ Filling(pc[p], loc[p]) =>
                         loc[p].bp \in T \/ (Filling(l, r) /\ r.bp = loc[p].bp)
                    /\ State(d, l, r)
  PROVE  SInv' /\ (SizesAgree /\ CInv => CInv')
<1>1. Turn(p, d, l, r, T)
  BY MovedIsChanged DEF Turn
<1>2. Trusted => NoLoss(d)
  BY Here, LossMoved
<1>3. Trusted => Told(p, d, l, r, T)
  BY <1>2 DEF Told
<1>4. QED BY <1>1, <1>3, Ends

\* No fragment gets into a second buffer if those that change keep less.
LEMMA SingleMoved ==
  ASSUME NEW d, NEW e, NEW T, Single(d), Moved(d, e, T),
         \A x \in T : Valid(e, x) =>
           \/ Covers(e, x) = {}
           \/ Valid(d, x) /\ Covers(e, x) \subseteq Covers(d, x)
  PROVE  Single(e)
<1>1. \A x \in Buf \ T : Covers(e, x) = Covers(d, x) /\ (Valid(e, x) <=> Valid(d, x))
  BY LikeCovers DEF Moved
<1>2. QED BY <1>1, SingleKept

\* Nothing is lost with the buffers of T, which nobody is writing.
Fine(d, T) == \A t \in T : BufOK(d, t, FALSE) /\ Keeping(c, d, t)

\* The end of breada(): it waits for the first block, or reads it.
LEMMA BreadaEndSafe ==
  ASSUME IInv, IInv', SInv, NEW p \in Procs, NEW d, NEW T, cur \in {p, None},
         BreadaEnd(p, d, loc[p]), pc[p] \in {"got", "readahead"},
         loc[p].call.op = "breada", T \subseteq Buf, Moved(c, d, T),
         \A t \in T : t \in Held(pc[p], loc[p]) /\ t # loc[p].first, Single(d),
         Trusted => Fine(d, T)
  PROVE  SInv' /\ (SizesAgree /\ CInv => CInv')
<1> DEFINE r == loc[p]
           l == pc[p]
           s1 == [r EXCEPT !.call = BreadOf(@), !.blk = r.call.blk]
           s2 == [r EXCEPT !.blk = r.call.blk, !.bp = r.first]
<1>1. IF r.first = None THEN Goto(p, d, "getblk", s1) ELSE Goto(p, d, "biowait", s2)
  BY DEF BreadaEnd
<1>2. r \in Regs(Buf) /\ Size(c, l, r) /\ Shape(l, r) /\ c.load \in DOMAIN Loads
  BY Here
<1>3. d.load = c.load
  BY DEF Moved
<1>4. ~Filling(pc[p], loc[p])
  BY DEF Filling, Writer, Extended
<1>5. r.call.op = "breada" /\ l \in {"got", "readahead"}
  OBVIOUS
<1>6. /\ s1.call = BreadOf(r.call) /\ s1.blk = r.call.blk /\ s1.size = r.size
      /\ s1.bp = r.bp /\ s1.first = r.first /\ s1.ret = r.ret
      /\ s2.call = r.call /\ s2.blk = r.call.blk /\ s2.size = r.size
      /\ s2.bp = r.first /\ s2.first = r.first /\ s2.ret = r.ret
  BY <1>2 DEF Regs
<1>7. r.first # None => r.first \in Buf /\ r.first \in Held(l, r) /\ Like(c, d, r.first)
  BY <1>2, Here, HeldIs DEF Moved
<1> HIDE DEF r, l, s1, s2
<1>8. Asked(c, l, r) /\ Place(c, l, r)
  BY <1>2, <1>5 DEF Size, Getting
<1>9. PICK m \in Loads[c.load].calls : m.op = "breada" /\ r.call = m
  <2>1. PICK m \in Loads[c.load].calls : r.call = m \/ (m.op = "breada" /\ r.call = BreadOf(m))
    BY <1>8 DEF Asked
  <2>2. m \in CallRec
    BY <1>2, BufAssumption DEF CallRec
  <2>3. BreadOf(m).op = "read"
    BY <2>2 DEF BreadOf, CallRec
  <2>4. QED BY <1>5, <2>1, <2>3
<1>10. m \in CallRec /\ BreadOf(m).op = "read" /\ BreadOf(m).size = m.size
       /\ BreadOf(m).blk = m.blk
  <2>1. m \in CallRec
    BY <1>2, BufAssumption DEF CallRec
  <2>2. QED BY <2>1 DEF BreadOf, CallRec
<1>11. r.size = r.call.size
  BY <1>5, <1>8 DEF Asked, Extended
<1>12. CASE r.first = None
  <2>1. Goto(p, d, "getblk", s1)
    BY <1>1, <1>12
  <2>2. ~Extended(s1) /\ ~HasBp("getblk", s1) /\ ~Clearing("getblk", s1) /\ ~Filling("getblk", s1)
    BY <1>6, <1>9, <1>10 DEF Extended, HasBp, Clearing, Filling
  <2>3. Asked(d, "getblk", s1)
    BY <1>3, <1>6, <1>9, <1>10, <1>11, <2>2 DEF Asked, Getblk
  <2>4. Place(d, "getblk", s1)
    BY <1>6, <1>12, <2>2 DEF Place
  <2>5. State(d, "getblk", s1)
    BY <2>2 DEF State
  <2>6. QED BY <1>4, <2>1, <2>2, <2>3, <2>4, <2>5, EndsMoved DEF Size, Fine
<1>13. CASE r.first # None
  <2>1. Goto(p, d, "biowait", s2)
    BY <1>1, <1>13
  <2>2. ~Extended(s2) /\ HasBp("biowait", s2) /\ ~Clearing("biowait", s2) /\ ~Filling("biowait", s2)
    BY <1>5, <1>6 DEF Extended, HasBp, Clearing, Filling
  <2>3. Asked(d, "biowait", s2)
    BY <1>3, <1>6, <1>8, <1>9, <1>11, <2>2 DEF Asked
  <2>4. /\ Valid(d, r.first) /\ d.b_blkno[r.first] = r.call.blk
        /\ d.b_bcount[r.first] = r.size
    BY <1>7, <1>8, <1>13, LikeCovers DEF Place, Like
  <2>5. Place(d, "biowait", s2)
    BY <1>6, <2>2, <2>4 DEF Place
  <2>6. State(d, "biowait", s2)
    BY <2>2 DEF State
  <2>7. QED BY <1>4, <2>1, <2>2, <2>3, <2>5, <2>6, EndsMoved DEF Size, Fine
<1>14. QED BY <1>12, <1>13

\* breada() looks for the block to read ahead.
LEMMA ReadaheadSafe ==
  ASSUME IInv, IInv', SInv, NEW p \in Procs, Readahead(p)
  PROVE  SInv' /\ (SizesAgree /\ CInv => CInv')
<1> DEFINE r == loc[p]
           s == [r EXCEPT !.blk = r.call.to]
<1>1. pc[p] = "readahead" /\ c.slp[p] = None /\ cur \in {p, None}
      /\ (BreadaEnd(p, c, r) \/ Goto(p, c, "getblk", s))
  BY DEF Readahead, At
<1>2. r \in Regs(Buf) /\ Size(c, "readahead", r) /\ Single(c)
  BY <1>1, Here
<1>3. Asked(c, "readahead", r) /\ Place(c, "readahead", r) /\ r.call.op = "breada"
  BY <1>2 DEF Size, Getting, Asked
<1>4. CASE BreadaEnd(p, c, r)
  <2> DEFINE none == {}
             d == c
  <2>1. Moved(c, d, none) /\ Single(d) /\ BreadaEnd(p, d, loc[p])
    BY <1>2, <1>4 DEF Moved, Like
  <2>2. Fine(d, none) /\ \A t \in none : t \in Held(pc[p], loc[p]) /\ t # loc[p].first
    BY DEF Fine
  <2>3. /\ none \subseteq Buf /\ loc[p].call.op = "breada"
        /\ pc[p] \in {"got", "readahead"} /\ cur \in {p, None}
    BY <1>1, <1>3
  <2> HIDE DEF none, d, r, s
  <2>4. QED BY <2>1, <2>2, <2>3, BreadaEndSafe
<1>5. CASE Goto(p, c, "getblk", s)
  <2>1. /\ s.call = r.call /\ s.blk = r.call.to /\ s.size = r.size /\ s.bp = r.bp
        /\ s.first = r.first /\ s.ret = r.ret
    BY <1>2 DEF Regs
  <2>2. ~Filling(pc[p], r)
    BY <1>1 DEF Filling
  <2> HIDE DEF r, s
  <2>3. ~Extended(s) /\ ~HasBp("getblk", s) /\ ~Clearing("getblk", s)
    BY <1>3, <2>1 DEF Extended, HasBp, Clearing
  <2>4. Asked(c, "getblk", s)
    BY <1>3, <2>1, <2>3 DEF Asked, Extended
  <2>5. Place(c, "getblk", s)
    BY <1>3, <2>1, <2>3 DEF Place
  <2>6. State(c, "getblk", s)
    BY <2>3 DEF State
  <2>7. QED BY <1>1, <1>5, <2>2, <2>4, <2>5, <2>6, Walks DEF Size, r
<1>6. QED BY <1>1, <1>4, <1>5

\* The end of an asynchronous write of a delayed buffer.
LEMMA BwriteAgeSafe ==
  ASSUME IInv, IInv', SInv, NEW p \in Procs, BwriteAge(p)
  PROVE  SInv' /\ (SizesAgree /\ CInv => CInv')
<1> DEFINE r == loc[p]
           s == [r EXCEPT !.ep = None]
           age == {"AGE"}
           d == SetF(c, r.ep, age, {})
<1>1. /\ pc[p] = "age" /\ c.slp[p] = None /\ cur \in {p, None}
      /\ Goto(p, d, r.ret, s)
  BY DEF BwriteAge, At
<1>2. r \in Regs(Buf) /\ Size(c, "age", r) /\ Single(c) /\ r.ep \in Buf /\ c \in Caches(Buf)
      /\ r.ret \in {"getnewbuf", "bflush", "binvalfree", "idle"}
      /\ \A x \in Held("age", r) : x \in Buf
  <2>1. Shape("age", r) /\ r \in Regs(Buf)
    BY <1>1, Here
  <2>2. r.ep \in Buf
    BY <2>1 DEF Regs, Shape
  <2>3. QED BY <1>1, <2>1, <2>2, Here DEF Shape
<1>3. age \in SUBSET Flag
  BY DEF Flag
<1> HIDE DEF age
<1>4. Moved(c, d, {r.ep}) /\ Stays(c, d, r.ep) /\ d.io = c.io /\ Marked(c, d, r.ep, age, {})
  BY <1>2, <1>3, SetFData
<1>5. Moved(c, d, {})
  <2>1. Like(c, d, r.ep)
    BY <1>4 DEF Stays, Marked, Like, Marks, age
  <2>2. QED BY <1>4, <2>1 DEF Moved
<1>6. /\ s.call = r.call /\ s.blk = r.blk /\ s.size = r.size /\ s.bp = r.bp
      /\ s.first = r.first /\ s.ret = r.ret
  BY <1>2 DEF Regs
<1>7. ~Filling(pc[p], r) /\ ~Filling(r.ret, s)
  BY <1>1, <1>2 DEF Filling
<1> HIDE DEF d, s, r
<1>8. Single(d)
  BY <1>2, <1>5, SingleMoved
<1>9. Size(d, r.ret, s) /\ State(d, r.ret, s)
  <2>1. CASE r.ret # "getnewbuf"
    <3>1. ~Getting(r.ret, s)
      BY <1>2, <1>6, <2>1 DEF Getting
    <3>2. QED BY <3>1 DEF Size, State
  <2>2. CASE r.ret = "getnewbuf"
    <3>1. Asked(c, "age", r) /\ Place(c, "age", r)
      BY <1>2, <2>2 DEF Size, Getting
    <3>2. r.bp = None
      BY <2>2, <3>1 DEF Place
    <3>3. ~HasBp("age", r) /\ ~HasBp("getnewbuf", s) /\ ~Clearing("getnewbuf", s)
      BY <1>6, <3>2 DEF HasBp, Clearing
    <3>4. r.first # None => /\ Valid(d, r.first) /\ d.b_blkno[r.first] = r.call.blk
                            /\ d.b_bcount[r.first] = r.size
      <4>1. r.first # None => r.first \in Buf
        BY <1>2, HeldIs
      <4>2. QED BY <1>5, <3>1, <4>1, LikeCovers DEF Place, Moved, Like
    <3>5. ~Extended(s)
      BY <1>6, <3>1, <3>3 DEF Asked, Extended
    <3>6. Asked(d, "getnewbuf", s)
      BY <1>5, <1>6, <3>1, <3>5 DEF Asked, Moved, Extended
    <3>7. Place(d, "getnewbuf", s)
      BY <1>6, <3>2, <3>3, <3>4 DEF Place
    <3>8. QED BY <2>2, <3>3, <3>6, <3>7 DEF Size, State
  <2>3. QED BY <2>1, <2>2
<1>10. r.ret # "allocbuf"
  BY <1>2
<1>11. QED BY <1>1, <1>5, <1>7, <1>8, <1>9, <1>10, EndsMoved DEF r

\* The buffers of T are p's own or free.
Takes(p, T) ==
  /\ T \subseteq Buf
  /\ \A t \in T : t \in Held(pc[p], loc[p]) \/ "BUSY" \notin c.flags[t]

\* The end of a step that leaves nothing half done in the buffers it changes.
LEMMA EndsFine ==
  ASSUME IInv, IInv', SInv, NEW p \in Procs, NEW d, NEW l, NEW r, NEW T,
         Goto(p, d, l, r), cur \in {p, None}, Takes(p, T), Moved(c, d, T), Single(d),
         Size(d, l, r), l # "allocbuf",
         Filling(pc[p], loc[p]) => loc[p].bp \in T \/ (Filling(l, r) /\ r.bp = loc[p].bp),
         Trusted => Fine(d, T) /\ State(d, l, r)
  PROVE  SInv' /\ (SizesAgree /\ CInv => CInv')
<1>1. \A t \in T : Trusted => BufOK(d, t, Filling(l, r) /\ r.bp = t) /\ Keeping(c, d, t)
  BY DEF Fine, BufOK
<1>2. QED BY <1>1, EndsMoved DEF Takes

\* The end of a step that leaves getblk() and what follows it.
LEMMA EndsOutside ==
  ASSUME IInv, IInv', SInv, NEW p \in Procs, NEW d, NEW l, NEW r, NEW T,
         Goto(p, d, l, r), cur \in {p, None}, Takes(p, T), Moved(c, d, T), ~Getting(l, r),
         Single(d), Filling(pc[p], loc[p]) => loc[p].bp \in T,
         Trusted => Fine(d, T)
  PROVE  SInv' /\ (SizesAgree /\ CInv => CInv')
<1>1. Size(d, l, r) /\ State(d, l, r) /\ l # "allocbuf"
  BY DEF Getting, Size, State
<1>2. QED BY <1>1, EndsFine

\* A buffer with nothing for the disk loses its block.
Gone(d, e, x) ==
  /\ "DELWRI" \notin d.flags[x] /\ x \notin d.io
  /\ "DELWRI" \notin e.flags[x] /\ x \notin e.io /\ ~Valid(e, x)

LEMMA GoneFine ==
  ASSUME NEW d, NEW e, NEW x, Gone(d, e, x)
  PROVE  BufOK(e, x, FALSE) /\ Keeping(d, e, x)
BY DEF Gone, BufOK, Keeping, Dirty

\* A delayed write has been started.
Wrote(d, e, t) ==
  /\ Stays(d, e, t) /\ ("INVAL" \in e.flags[t] <=> "INVAL" \in d.flags[t])
  /\ t \in e.io /\ e.flags[t] \cap {"READ", "DONE", "ERROR", "DELWRI"} = {}

LEMMA WroteCovers ==
  ASSUME NEW d, NEW e, NEW t, Wrote(d, e, t)
  PROVE  Covers(e, t) = Covers(d, t) /\ (Valid(e, t) <=> Valid(d, t))
BY DEF Wrote, Covers, Valid, Stays

LEMMA WroteFine ==
  ASSUME NEW d, NEW e, NEW t, Wrote(d, e, t), e.load = d.load,
         "DELWRI" \in d.flags[t], BufOK(d, t, FALSE)
  PROVE  BufOK(e, t, FALSE) /\ Keeping(d, e, t)
<1>1. Covers(e, t) = Covers(d, t) /\ (Valid(e, t) <=> Valid(d, t)) /\ FragOf(e) = FragOf(d)
  BY WroteCovers DEF FragOf
<1>2. Dirty(d, t) /\ Dirty(e, t) /\ e.fresh[t] = d.fresh[t]
  BY DEF Dirty, Wrote, Stays
<1>3. Valid(d, t) /\ Whole(d, t)
  BY <1>2 DEF BufOK
<1>4. Whole(e, t)
  BY <1>1, <1>2, <1>3 DEF Whole
<1>5. QED BY <1>1, <1>2, <1>3, <1>4 DEF BufOK, Keeping, Wrote

\* bwrite() of a delayed buffer t, some free ones having lost their block.
LEMMA BwriteData ==
  ASSUME IInv, SInv, NEW p \in Procs, NEW h \in Caches(Buf), NEW T, NEW t \in T,
         Takes(p, T), Moved(c, h, T), Stays(c, h, t),
         "INVAL" \in h.flags[t] <=> "INVAL" \in c.flags[t],
         "DELWRI" \in c.flags[t], ~Filling(pc[p], loc[p]),
         \A x \in T \ {t} : Gone(c, h, x),
         NEW d, d = StartWrite(h, t)
  PROVE  /\ d \in Caches(Buf) /\ Moved(c, d, T) /\ Single(d) /\ Wrote(c, d, t)
         /\ Trusted => Fine(d, T)
<1>1. t \in Buf
  BY DEF Takes
<1>2. /\ d \in Caches(Buf) /\ Moved(h, d, {t}) /\ Stays(h, d, t) /\ d.io = h.io \cup {t}
      /\ Marked(h, d, t, {}, {"READ", "DONE", "ERROR", "DELWRI"})
  BY <1>1, StartWriteData
<1>3. Moved(c, d, T)
  BY <1>2 DEF Moved, Like
<1>4. Wrote(c, d, t)
  BY <1>2 DEF Stays, Marked, Marks, Wrote
<1>5. ASSUME NEW x \in T \ {t} PROVE Gone(c, d, x)
  <2>1. Like(h, d, x) /\ Gone(c, h, x)
    BY <1>2 DEF Moved, Takes
  <2>2. QED BY <2>1, LikeCovers DEF Gone, Like, Marks
<1>6. Single(d)
  <2>1. \A x \in T : Valid(d, x) => Valid(c, x) /\ Covers(d, x) \subseteq Covers(c, x)
    BY <1>4, <1>5, WroteCovers DEF Gone
  <2>2. QED BY <1>3, <2>1, SingleMoved, Here
<1>7. ASSUME Trusted PROVE Fine(d, T)
  <2>1. BufOK(c, t, FALSE)
    BY <1>1, <1>7, BufHere DEF BufOK, Takes
  <2>2. BufOK(d, t, FALSE) /\ Keeping(c, d, t)
    BY <1>3, <1>4, <2>1, WroteFine DEF Moved
  <2>3. QED BY <1>5, <2>2, GoneFine DEF Fine
<1>8. QED BY <1>2, <1>3, <1>4, <1>6, <1>7

\* Where bwrite() goes on.
LEMMA BwriteGoes ==
  ASSUME NEW p, NEW d, NEW b, NEW ret, NEW r \in Regs(Buf), Bwrite(p, d, b, ret, r)
  PROVE  \E l, s :
           /\ Goto(p, StartWrite(d, b), l, s)
           /\ l = IF "ASYNC" \notin d.flags[b] THEN "written"
                  ELSE IF "DELWRI" \in d.flags[b] THEN "age" ELSE ret
           /\ s.call = r.call /\ s.blk = r.blk /\ s.size = r.size /\ s.bp = r.bp
           /\ s.first = r.first /\ s.ret = ret /\ s.ep = b
<1> DEFINE s == [r EXCEPT !.ep = b, !.ret = ret]
<1>1. /\ s.call = r.call /\ s.blk = r.blk /\ s.size = r.size /\ s.bp = r.bp
      /\ s.first = r.first /\ s.ret = ret /\ s.ep = b
  BY DEF Regs
<1>2. QED BY <1>1 DEF Bwrite

\* A free buffer is idle.
LEMMA FreeIdle ==
  ASSUME IInv, NEW b \in Buf, "BUSY" \notin c.flags[b]
  PROVE  b \notin c.io /\ b \notin c.relvp /\ "ASYNC" \notin c.flags[b]
BY DEF IInv, Transfers, Buf

\* blkflush().
LEMMA BlkflushSafe ==
  ASSUME IInv, IInv', SInv, NEW p \in Procs, Blkflush(p)
  PROVE  SInv' /\ (SizesAgree /\ CInv => CInv')
<1> DEFINE r == loc[p]
<1>1. pc[p] = "blkflush" /\ c.slp[p] = None /\ cur \in {p, None}
  BY DEF Blkflush, At
<1>2. c \in Caches(Buf) /\ FreeOK(c) /\ r \in Regs(Buf) /\ ~Filling(pc[p], loc[p])
  BY <1>1, Here DEF Filling
<1>3. ASSUME NEW e \in Buf, Goto(p, SleepOn(SetF(c, e, {"WANTED"}, {}), p, e), "blkflush", r)
      PROVE  SInv' /\ (SizesAgree /\ CInv => CInv')
  <2>1. Moved(c, SleepOn(SetF(c, e, {"WANTED"}, {}), p, e), {})
    BY <1>2, WaitsData
  <2>2. QED BY <1>1, <1>3, <2>1, StayPut
<1>4. ASSUME NEW e \in Buf, "DELWRI" \in c.flags[e], "BUSY" \notin c.flags[e],
             Bwrite(p, Notavail(c, e), e, "blkflush", r)
      PROVE  SInv' /\ (SizesAgree /\ CInv => CInv')
  <2> DEFINE h == Notavail(c, e)
             d == StartWrite(h, e)
             T == {e}
  <2>1. /\ h \in Caches(Buf) /\ Moved(c, h, T) /\ Stays(c, h, e)
        /\ Marked(c, h, e, {"BUSY"}, {})
    BY <1>2, NotavailData
  <2>2. "INVAL" \in h.flags[e] <=> "INVAL" \in c.flags[e]
    BY <2>1 DEF Marked, Marks
  <2>3. PICK l, s : Goto(p, d, l, s) /\ l \in {"written", "age", "blkflush"} /\ s.ret = "blkflush"
    BY <1>2, <1>4, BwriteGoes
  <2>4. Takes(p, T) /\ e \in T /\ \A x \in T \ {e} : Gone(c, h, x)
    BY <1>4 DEF Takes
  <2> HIDE DEF h, T
  <2>5. d = StartWrite(h, e)
    OBVIOUS
  <2> HIDE DEF d
  <2>6. Moved(c, d, T) /\ Single(d) /\ (Trusted => Fine(d, T))
    BY <1>2, <1>4, <2>1, <2>2, <2>4, <2>5, BwriteData
  <2>7. ~Getting(l, s)
    BY <2>3 DEF Getting
  <2>8. QED BY <1>1, <1>2, <2>3, <2>4, <2>6, <2>7, EndsOutside
<1>5. ASSUME Return(p, c) PROVE SInv' /\ (SizesAgree /\ CInv => CInv')
  <2>1. Goto(p, c, "idle", NoLoc) /\ ~Getting("idle", NoLoc)
    BY <1>5 DEF Return, Getting
  <2>2. QED BY <1>1, <1>2, <2>1, Walks DEF Size, State
<1>6. QED BY <1>3, <1>4, <1>5 DEF Blkflush, Overlapping

\* What bflush() and binvalfree() look at is free.
LEMMA OrderIs ==
  ASSUME NEW d \in Caches(Buf), FreeOK(d)
  PROVE  /\ \E n \in Nat : DOMAIN Order(d) = 1 .. n
         /\ \A i \in DOMAIN Order(d) : Order(d)[i] \in Buf /\ "BUSY" \notin d.flags[Order(d)[i]]
<1> DEFINE s == d.free["LRU"]
           t == d.free["AGE"]
<1>1. s \in Seq(Buf) /\ t \in Seq(Buf) /\ DOMAIN d.flags = Buf
  BY Fields DEF Lists
<1>2. Order(d) = s \o t
  BY DEF Order
<1> HIDE DEF s, t
<1>3. /\ DOMAIN Order(d) = 1 .. Len(s) + Len(t) /\ Len(s) \in Nat /\ Len(t) \in Nat
      /\ \A i \in 1 .. Len(s) + Len(t) :
           Order(d)[i] = IF i <= Len(s) THEN s[i] ELSE t[i - Len(s)]
  BY <1>1, <1>2, ConcatIs
<1>4. ASSUME NEW i \in DOMAIN Order(d)
      PROVE  Order(d)[i] \in Buf /\ "BUSY" \notin d.flags[Order(d)[i]]
  <2>1. Order(d)[i] \in On(d, "LRU") \/ Order(d)[i] \in On(d, "AGE")
    <3>1. CASE i <= Len(s)
      <4>1. Order(d)[i] = s[i] /\ i \in DOMAIN s
        BY <1>1, <1>3, <3>1
      <4>2. QED BY <4>1 DEF On, ToSet, s
    <3>2. CASE ~(i <= Len(s))
      <4>1. Order(d)[i] = t[i - Len(s)] /\ i - Len(s) \in DOMAIN t
        BY <1>1, <1>3, <3>2
      <4>2. QED BY <4>1 DEF On, ToSet, t
    <3>3. QED BY <3>1, <3>2
  <2>2. Order(d)[i] \in Buf
    BY <1>1, <2>1 DEF On, ToSet, s, t
  <2>3. QED BY <1>1, <2>1, <2>2 DEF FreeOK, Lists
<1>5. QED BY <1>3, <1>4

\* Before the first delayed write there is none.
LEMMA SeenIsClean ==
  ASSUME NEW d \in Caches(Buf), FreeOK(d),
         NEW i \in IF Delayed(d) = {} THEN DOMAIN Order(d) ELSE 1 .. Min(Delayed(d)) - 1
  PROVE  /\ Order(d)[i] \in Buf /\ "BUSY" \notin d.flags[Order(d)[i]]
         /\ "DELWRI" \notin d.flags[Order(d)[i]]
<1> DEFINE m == Min(Delayed(d))
<1>1. PICK n \in Nat : DOMAIN Order(d) = 1 .. n
  BY OrderIs
<1>2. i \in DOMAIN Order(d) /\ i \notin Delayed(d)
  <2>1. CASE Delayed(d) = {}
    BY <2>1
  <2>2. CASE Delayed(d) # {}
    <3>1. Delayed(d) \subseteq 1 .. n
      BY <1>1 DEF Delayed
    <3>2. \E x \in Delayed(d) : \A y \in Delayed(d) : x <= y
      BY <2>2, <3>1, Least
    <3>3. m \in Delayed(d) /\ \A y \in Delayed(d) : m <= y
      BY <3>2 DEF Min
    <3> HIDE DEF m
    <3>4. i \in 1 .. m - 1
      BY <2>2 DEF m
    <3>5. QED BY <1>1, <3>1, <3>3, <3>4
  <2>3. QED BY <2>1, <2>2
<1>3. QED BY <1>2, OrderIs DEF Delayed

\* A delayed write marked asynchronous and taken.
LEMMA AsyncData ==
  ASSUME NEW d \in Caches(Buf), FreeOK(d), NEW b \in Buf,
         NEW h, h = Notavail(SetF(d, b, {"ASYNC"}, {}), b)
  PROVE  /\ h \in Caches(Buf) /\ Moved(d, h, {b}) /\ Stays(d, h, b)
         /\ "INVAL" \in h.flags[b] <=> "INVAL" \in d.flags[b]
         /\ "ASYNC" \in h.flags[b] /\ ("DELWRI" \in h.flags[b] <=> "DELWRI" \in d.flags[b])
<1> DEFINE set == {"ASYNC"}
           f == SetF(d, b, set, {})
<1>1. set \in SUBSET Flag /\ f = SetF(d, b, set, {}) /\ h = Notavail(f, b)
  BY DEF Flag
<1> HIDE DEF f, set
<1>2. /\ f \in Caches(Buf) /\ Moved(d, f, {b}) /\ Stays(d, f, b) /\ f.io = d.io
      /\ Marked(d, f, b, set, {}) /\ f.free = d.free
  BY <1>1, SetFData
<1>3. \A x \in Buf : /\ "BUSY" \in f.flags[x] <=> "BUSY" \in d.flags[x]
                     /\ "BUSY" \in f.flags[x] \/ f.b_bufsize[x] = d.b_bufsize[x]
  BY <1>2 DEF Moved, Like, Marked, Marks, set
<1>4. FreeOK(f)
  BY <1>2, <1>3, FreeAlike
<1>5. /\ h \in Caches(Buf) /\ Moved(f, h, {b}) /\ Stays(f, h, b) /\ h.io = f.io
      /\ Marked(f, h, b, {"BUSY"}, {})
  BY <1>1, <1>2, <1>4, NotavailData
<1>6. Moved(d, h, {b})
  BY <1>2, <1>5, MovedTwice
<1>7. QED BY <1>2, <1>5, <1>6 DEF Stays, Marked, Marks, set

\* bflush() starts the first delayed write, or is done.
LEMMA BflushSafe ==
  ASSUME IInv, IInv', SInv, NEW p \in Procs, Bflush(p)
  PROVE  SInv' /\ (SizesAgree /\ CInv => CInv')
<1> DEFINE r == loc[p]
           b == Order(c)[Min(Delayed(c))]
           h == Notavail(SetF(c, b, {"ASYNC"}, {}), b)
<1>1. pc[p] = "bflush" /\ c.slp[p] = None /\ cur \in {p, None}
  BY DEF Bflush, At
<1>2. c \in Caches(Buf) /\ FreeOK(c) /\ r \in Regs(Buf) /\ ~Filling(pc[p], loc[p])
  BY <1>1, Here DEF Filling
<1>3. IF Delayed(c) = {} THEN Return(p, c) ELSE Bwrite(p, h, b, "bflush", r)
  BY DEF Bflush
<1>4. CASE Delayed(c) = {}
  <2>1. Goto(p, c, "idle", NoLoc) /\ ~Getting("idle", NoLoc)
    BY <1>3, <1>4 DEF Return, Getting
  <2>2. QED BY <1>1, <1>2, <2>1, Walks DEF Size, State
<1>5. CASE Delayed(c) # {}
  <2> DEFINE d == StartWrite(h, b)
             T == {b}
  <2>1. Bwrite(p, h, b, "bflush", r)
    BY <1>3, <1>5
  <2>2. b = Order(c)[Min(Delayed(c))] /\ h = Notavail(SetF(c, b, {"ASYNC"}, {}), b)
    OBVIOUS
  <2> HIDE DEF b
  <2>3. b \in Buf /\ "BUSY" \notin c.flags[b] /\ "DELWRI" \in c.flags[b]
    BY <1>2, <1>5, <2>2, DelayedIsFree
  <2>4. Takes(p, T) /\ b \in T /\ \A x \in T \ {b} : Gone(c, h, x)
    BY <2>3 DEF Takes
  <2> HIDE DEF h
  <2>5. /\ h \in Caches(Buf) /\ Moved(c, h, T) /\ Stays(c, h, b)
        /\ "INVAL" \in h.flags[b] <=> "INVAL" \in c.flags[b]
    BY <1>2, <2>2, <2>3, AsyncData
  <2>6. PICK l, s : Goto(p, d, l, s) /\ l \in {"written", "age", "bflush"} /\ s.ret = "bflush"
    BY <1>2, <2>1, BwriteGoes
  <2>7. d = StartWrite(h, b)
    OBVIOUS
  <2> HIDE DEF d, T
  <2>8. Moved(c, d, T) /\ Single(d) /\ (Trusted => Fine(d, T))
    BY <1>2, <2>3, <2>4, <2>5, <2>7, BwriteData
  <2>9. ~Getting(l, s)
    BY <2>6 DEF Getting
  <2>10. QED BY <1>1, <1>2, <2>4, <2>6, <2>8, <2>9, EndsOutside
<1>6. QED BY <1>4, <1>5

\* binvalfree() invalidates free buffers up to the first delayed write.
LEMMA BinvalfreeSafe ==
  ASSUME IInv, IInv', SInv, NEW p \in Procs, Binvalfree(p)
  PROVE  SInv' /\ (SizesAgree /\ CInv => CInv')
<1> DEFINE r == loc[p]
           b == Order(c)[Min(Delayed(c))]
           seen == IF Delayed(c) = {} THEN DOMAIN Order(c)
                   ELSE 1 .. Min(Delayed(c)) - 1
           gone == {x \in Buf : c.b_blkno[x] # None /\ \E i \in seen : Order(c)[i] = x}
           B == [x \in Buf |-> IF x \in gone THEN None ELSE c.b_blkno[x]]
           F == [x \in Buf |-> IF x \in gone THEN c.flags[x] \cup {"INVAL"} ELSE c.flags[x]]
           d == [c EXCEPT !.b_blkno = B, !.flags = F]
           h == Notavail(SetF(d, b, {"ASYNC"}, {}), b)
<1>1. pc[p] = "binvalfree" /\ c.slp[p] = None /\ cur \in {p, None}
  BY DEF Binvalfree, At
<1>2. c \in Caches(Buf) /\ FreeOK(c) /\ r \in Regs(Buf) /\ ~Filling(pc[p], loc[p])
      /\ Single(c)
  BY <1>1, Here DEF Filling
<1>3. IF Delayed(c) = {} THEN Return(p, d) ELSE Bwrite(p, h, b, "binvalfree", r)
  BY DEF Binvalfree
<1>4. b = Order(c)[Min(Delayed(c))] /\ h = Notavail(SetF(d, b, {"ASYNC"}, {}), b)
  OBVIOUS
<1>5. ASSUME NEW x \in gone
      PROVE  "BUSY" \notin c.flags[x] /\ "DELWRI" \notin c.flags[x] /\ x \in Buf
  <2>1. PICK i \in seen : Order(c)[i] = x
    OBVIOUS
  <2>2. QED BY <1>2, <2>1, SeenIsClean
<1> HIDE DEF gone, seen, b, h
<1>6. B \in [Buf -> Nat \cup {None}] /\ F \in [Buf -> SUBSET Flag]
  <2>1. c.b_blkno \in [Buf -> Nat \cup {None}] /\ c.flags \in [Buf -> SUBSET Flag]
    BY <1>2, Fields
  <2>2. "INVAL" \in Flag
    BY DEF Flag
  <2>3. QED BY <2>1, <2>2
<1>7. \A x \in Buf : IF x \in gone THEN B[x] = None /\ F[x] = c.flags[x] \cup {"INVAL"}
                     ELSE B[x] = c.b_blkno[x] /\ F[x] = c.flags[x]
  OBVIOUS
<1> HIDE DEF B, F
<1>8. /\ d \in Caches(Buf) /\ d.flags = F /\ d.load = c.load /\ d.b_blkno = B
      /\ d.b_bcount = c.b_bcount /\ d.fresh = c.fresh /\ d.disk = c.disk
      /\ d.io = c.io /\ d.free = c.free /\ d.b_bufsize = c.b_bufsize
  BY <1>2, <1>6 DEF Caches
<1> HIDE DEF d
<1>9. Moved(c, d, gone)
  BY <1>7, <1>8 DEF Moved, Like
<1>10. ASSUME NEW x \in gone PROVE Gone(c, d, x)
  <2>1. x \notin c.io
    BY <1>5, FreeIdle
  <2>2. "DELWRI" \notin d.flags[x] /\ ~Valid(d, x)
    BY <1>5, <1>7, <1>8 DEF Valid
  <2>3. QED BY <1>5, <1>8, <2>1, <2>2 DEF Gone
<1>11. FreeOK(d)
  <2>1. \A x \in Buf : "BUSY" \in d.flags[x] <=> "BUSY" \in c.flags[x]
    BY <1>7, <1>8
  <2>2. QED BY <1>2, <1>8, <2>1, FreeAlike
<1>12. CASE Delayed(c) = {}
  <2>1. Goto(p, d, "idle", NoLoc) /\ ~Getting("idle", NoLoc)
    BY <1>3, <1>12 DEF Return, Getting
  <2>2. Takes(p, gone) /\ (Trusted => Fine(d, gone))
    BY <1>5, <1>10, GoneFine DEF Takes, Fine
  <2>3. Single(d)
    BY <1>2, <1>9, <1>10, SingleMoved DEF Gone
  <2>4. QED BY <1>1, <1>2, <1>9, <2>1, <2>2, <2>3, EndsOutside
<1>13. CASE Delayed(c) # {}
  <2> DEFINE e == StartWrite(h, b)
             T == gone \cup {b}
  <2>1. Bwrite(p, h, b, "binvalfree", r)
    BY <1>3, <1>13
  <2>2. b \in Buf /\ "BUSY" \notin c.flags[b] /\ "DELWRI" \in c.flags[b]
    BY <1>2, <1>4, <1>13, DelayedIsFree
  <2>3. b \notin gone
    BY <1>5, <2>2
  <2>4. /\ h \in Caches(Buf) /\ Moved(d, h, {b}) /\ Stays(d, h, b)
        /\ "INVAL" \in h.flags[b] <=> "INVAL" \in d.flags[b]
    BY <1>4, <1>8, <1>11, <2>2, AsyncData
  <2>5. /\ Stays(c, h, b) /\ ("INVAL" \in h.flags[b] <=> "INVAL" \in c.flags[b])
        /\ Moved(c, h, T)
    BY <1>7, <1>8, <1>9, <2>2, <2>3, <2>4 DEF Stays, Moved, Like
  <2>6. ASSUME NEW x \in T \ {b} PROVE Gone(c, h, x)
    <3>1. Like(d, h, x) /\ Gone(c, d, x)
      BY <1>5, <1>10, <2>4 DEF Moved
    <3>2. QED BY <3>1, LikeCovers DEF Gone, Like, Marks
  <2>7. Takes(p, T) /\ b \in T
    BY <1>5, <2>2 DEF Takes
  <2>8. PICK l, s : /\ Goto(p, e, l, s) /\ l \in {"written", "age", "binvalfree"}
                    /\ s.ret = "binvalfree"
    BY <1>2, <2>1, BwriteGoes
  <2>9. e = StartWrite(h, b)
    OBVIOUS
  <2> HIDE DEF e, T
  <2>10. Moved(c, e, T) /\ Single(e) /\ (Trusted => Fine(e, T))
    BY <1>2, <2>2, <2>4, <2>5, <2>6, <2>7, <2>9, BwriteData
  <2>11. ~Getting(l, s)
    BY <2>8 DEF Getting
  <2>12. QED BY <1>1, <1>2, <2>7, <2>8, <2>10, <2>11, EndsOutside
<1>14. QED BY <1>12, <1>13

-----------------------------------------------------------------------------
(***************************************************************************)
(* getblk() and getnewbuf().                                               *)
(***************************************************************************)

\* The first block of breada() stays where it is.
LEMMA FirstKept ==
  ASSUME IInv, SInv, NEW p \in Procs, NEW d, NEW T, Moved(c, d, T),
         Place(c, pc[p], loc[p]), loc[p].first # None, loc[p].first \notin T
  PROVE  /\ Valid(d, loc[p].first) /\ d.b_blkno[loc[p].first] = loc[p].call.blk
         /\ d.b_bcount[loc[p].first] = loc[p].size
<1>1. loc[p].first \in Buf
  BY Here, HeldIs
<1>2. Like(c, d, loc[p].first)
  BY <1>1 DEF Moved
<1>3. QED BY <1>2, LikeCovers DEF Place, Like

\* A free buffer is not in hand.
LEMMA FreeIsOther ==
  ASSUME IInv, SInv, NEW p \in Procs, NEW b \in Buf, "BUSY" \notin c.flags[b]
  PROVE  b \notin Held(pc[p], loc[p])
BY Here DEF Owned

\* getblk() finds the block in a free buffer.
LEMMA GetblkHitSafe ==
  ASSUME IInv, IInv', SInv, NEW p \in Procs, GetblkHit(p)
  PROVE  SInv' /\ (SizesAgree /\ CInv => CInv')
<1> DEFINE r == loc[p]
<1>1. pc[p] = "getblk" /\ c.slp[p] = None /\ cur \in {p, None}
  BY DEF GetblkHit, At
<1>2. PICK b \in Buf :
        /\ Valid(c, b) /\ c.b_blkno[b] = r.blk /\ "BUSY" \notin c.flags[b]
        /\ Goto(p, Notavail(c, b), "brealloc", [r EXCEPT !.bp = b])
  BY DEF GetblkHit
<1> DEFINE d == Notavail(c, b)
           s == [r EXCEPT !.bp = b]
           T == {b}
<1>3. /\ c \in Caches(Buf) /\ FreeOK(c) /\ r \in Regs(Buf) /\ Size(c, "getblk", r)
      /\ Single(c) /\ ~Filling(pc[p], loc[p])
  BY <1>1, Here DEF Filling
<1>4. /\ d \in Caches(Buf) /\ Moved(c, d, T) /\ Stays(c, d, b) /\ d.io = c.io
      /\ Marked(c, d, b, {"BUSY"}, {})
  BY <1>3, NotavailData
<1>5. /\ s.call = r.call /\ s.blk = r.blk /\ s.size = r.size /\ s.bp = b
      /\ s.first = r.first /\ s.ret = r.ret
  BY <1>3 DEF Regs
<1>6. Goto(p, d, "brealloc", s) /\ Takes(p, T)
  BY <1>2 DEF Takes
<1>7. Asked(c, "getblk", r) /\ Place(c, "getblk", r)
  BY <1>3 DEF Size, Getting
<1>8. r.first # None => /\ Valid(d, r.first) /\ d.b_blkno[r.first] = r.call.blk
                        /\ d.b_bcount[r.first] = r.size
  <2>1. r.first # None => r.first \in Held(pc[p], r)
    BY HeldIs
  <2>2. b \notin Held(pc[p], r)
    BY <1>2, FreeIsOther
  <2>3. QED BY <1>1, <1>4, <1>7, <2>1, <2>2, FirstKept
<1>9. Trusted => BufOK(c, b, FALSE)
  BY <1>2, <1>3, BufHere DEF BufOK
<1> HIDE DEF d, s, r
<1>10. \A f \in Marks : f \in d.flags[b] <=> f \in c.flags[b] \/ f = "BUSY"
  BY <1>4 DEF Marked
<1>11. Covers(d, b) = Covers(c, b) /\ Valid(d, b) /\ d.b_blkno[b] = r.blk
       /\ d.fresh[b] = c.fresh[b] /\ d.b_bcount[b] = c.b_bcount[b]
  BY <1>2, <1>4, <1>10 DEF Covers, Valid, Stays, Marks
<1>12. Single(d)
  BY <1>2, <1>3, <1>4, <1>11, SingleMoved
<1>13. ~Extended(s) /\ ~Clearing("brealloc", s) /\ HasBp("brealloc", s)
       /\ ~Filling("brealloc", s)
  BY <1>5, <1>7 DEF Asked, Extended, HasBp, Clearing, Filling
<1>14. Asked(d, "brealloc", s)
  BY <1>4, <1>5, <1>7, <1>13 DEF Asked, Extended, Moved
<1>15. Place(d, "brealloc", s)
  BY <1>5, <1>8, <1>11, <1>13 DEF Place
<1>16. ASSUME Trusted PROVE State(d, "brealloc", s) /\ Fine(d, T)
  <2>1. "DELWRI" \notin c.flags[b] \/ "DONE" \in c.flags[b]
    BY <1>2, <1>9, <1>16 DEF BufOK
  <2>2. State(d, "brealloc", s)
    BY <1>5, <1>10, <1>13, <2>1 DEF State, Marks
  <2>3. BufOK(d, b, FALSE)
    <3>1. (Dirty(d, b) <=> Dirty(c, b)) /\ (Whole(d, b) <=> Whole(c, b)) /\ d.load = c.load
      BY <1>4, <1>10, <1>11 DEF Dirty, Whole, FragOf, Marks, Moved
    <3>2. /\ "DELWRI" \in d.flags[b] <=> "DELWRI" \in c.flags[b]
          /\ "DONE" \in d.flags[b] <=> "DONE" \in c.flags[b]
          /\ "ERROR" \in d.flags[b] <=> "ERROR" \in c.flags[b]
          /\ "ASYNC" \in d.flags[b] <=> "ASYNC" \in c.flags[b]
          /\ "BUSY" \in d.flags[b] /\ d.b_blkno[b] = c.b_blkno[b]
      BY <1>2, <1>10, <1>11 DEF Marks
    <3>3. QED BY <1>2, <1>4, <1>9, <1>11, <1>16, <3>1, <3>2 DEF BufOK
  <2>4. Keeping(c, d, b)
    BY <1>4, <1>10, <1>11 DEF Keeping, Dirty, Marks
  <2>5. QED BY <2>2, <2>3, <2>4 DEF Fine
<1>17. Size(d, "brealloc", s)
  BY <1>14, <1>15 DEF Size
<1>18. QED BY <1>1, <1>3, <1>4, <1>6, <1>12, <1>16, <1>17, EndsFine

\* getnewbuf() writes the oldest buffer out.
LEMMA GetnewbufWriteSafe ==
  ASSUME IInv, IInv', SInv, NEW p \in Procs, GetnewbufWrite(p)
  PROVE  SInv' /\ (SizesAgree /\ CInv => CInv')
<1> DEFINE r == loc[p]
           b == Oldest(c)
           f == Notavail(c, b)
           h == SetF(f, b, {"ASYNC"}, {})
<1>1. pc[p] = "getnewbuf" /\ c.slp[p] = None /\ cur \in {p, None}
  BY DEF GetnewbufWrite, At
<1>2. b # None /\ "DELWRI" \in c.flags[b] /\ Bwrite(p, h, b, "getnewbuf", r)
  BY DEF GetnewbufWrite
<1>3. b \in Buf /\ "BUSY" \notin c.flags[b]
  BY <1>2, OldestIsFree
<1> DEFINE d == StartWrite(h, b)
           T == {b}
<1>4. /\ c \in Caches(Buf) /\ FreeOK(c) /\ r \in Regs(Buf) /\ Size(c, "getnewbuf", r)
      /\ ~Filling(pc[p], loc[p])
  BY <1>1, Here DEF Filling
<1> HIDE DEF b
<1>5. /\ f \in Caches(Buf) /\ Moved(c, f, T) /\ Stays(c, f, b) /\ f.io = c.io
      /\ Marked(c, f, b, {"BUSY"}, {})
  BY <1>3, <1>4, NotavailData
<1> HIDE DEF f
<1>6. /\ h \in Caches(Buf) /\ Moved(f, h, T) /\ Stays(f, h, b) /\ h.io = f.io
      /\ Marked(f, h, b, {"ASYNC"}, {})
  <2>1. {"ASYNC"} \in SUBSET Flag
    BY DEF Flag
  <2>2. QED BY <1>3, <1>5, <2>1, SetFData, SMTT(30)
<1> HIDE DEF h
<1>7. /\ Moved(c, h, T) /\ Stays(c, h, b) /\ ("INVAL" \in h.flags[b] <=> "INVAL" \in c.flags[b])
      /\ "ASYNC" \in h.flags[b] /\ "DELWRI" \in h.flags[b]
  BY <1>2, <1>5, <1>6, MovedTwice DEF Stays, Marked, Marks
<1>8. PICK l, s : /\ Goto(p, d, l, s) /\ l = "age"
                  /\ s.call = r.call /\ s.blk = r.blk /\ s.size = r.size /\ s.bp = r.bp
                  /\ s.first = r.first /\ s.ret = "getnewbuf"
  BY <1>2, <1>4, <1>7, BwriteGoes
<1>9. d = StartWrite(h, b) /\ Takes(p, T) /\ b \in T /\ \A x \in T \ {b} : Gone(c, h, x)
  BY <1>3 DEF Takes
<1> HIDE DEF d, T
<1>10. Moved(c, d, T) /\ Single(d) /\ (Trusted => Fine(d, T))
  BY <1>2, <1>3, <1>4, <1>6, <1>7, <1>9, BwriteData
<1>11. Asked(c, "getnewbuf", r) /\ Place(c, "getnewbuf", r)
  BY <1>4 DEF Size, Getting
<1>12. r.first # None => /\ Valid(d, r.first) /\ d.b_blkno[r.first] = r.call.blk
                         /\ d.b_bcount[r.first] = r.size
  <2>1. r.first # None => r.first \in Held(pc[p], r)
    BY HeldIs
  <2>2. b \notin Held(pc[p], r)
    BY <1>3, FreeIsOther
  <2>3. QED BY <1>1, <1>10, <1>11, <2>1, <2>2, FirstKept DEF T
<1> HIDE DEF r
<1>13. r.bp = None
  BY <1>11 DEF Place
<1>14. ~Extended(s) /\ ~Clearing(l, s) /\ ~HasBp(l, s) /\ ~Filling(l, s)
  BY <1>8, <1>11, <1>13 DEF Asked, Extended, HasBp, Clearing, Filling
<1>15. Asked(d, l, s)
  BY <1>8, <1>10, <1>11, <1>14 DEF Asked, Extended, Moved
<1>16. Place(d, l, s)
  BY <1>8, <1>12, <1>13, <1>14 DEF Place
<1>17. State(d, l, s)
  BY <1>8, <1>14 DEF State
<1>18. l # "allocbuf" /\ Size(d, l, s)
  BY <1>8, <1>15, <1>16 DEF Size
<1>19. QED BY <1>1, <1>4, <1>8, <1>9, <1>10, <1>17, <1>18, EndsFine

\* None is not the number of a block.
LEMMA NoBlock ==
  ASSUME IInv
  PROVE  None \notin Nat
<1>1. c.load \in DOMAIN Loads
  BY Fields DEF IInv
<1>2. QED BY <1>1, BufAssumption

\* getnewbuf() takes the oldest buffer for the block.
LEMMA GetnewbufSafe ==
  ASSUME IInv, IInv', SInv, NEW p \in Procs, Getnewbuf(p)
  PROVE  SInv' /\ (SizesAgree /\ CInv => CInv')
<1> DEFINE r == loc[p]
           b == Oldest(c)
           h == Reassigned(c, b)
           d == [h EXCEPT !.b_bcount[b] = 0, !.b_blkno[b] = r.blk]
           s == [r EXCEPT !.bp = b]
           T == {b}
<1>1. pc[p] = "getnewbuf" /\ c.slp[p] = None /\ cur \in {p, None}
  BY DEF Getnewbuf, At
<1>2. b # None /\ "DELWRI" \notin c.flags[b] /\ Goto(p, d, "brealloc", s)
  BY DEF Getnewbuf
<1>3. b \in Buf /\ "BUSY" \notin c.flags[b] /\ b \notin c.io
  BY <1>2, OldestIsFree, FreeIdle
<1>4. /\ c \in Caches(Buf) /\ FreeOK(c) /\ r \in Regs(Buf) /\ Size(c, "getnewbuf", r)
      /\ ~Filling(pc[p], loc[p]) /\ Single(c) /\ c.load \in DOMAIN Loads
  BY <1>1, Here DEF Filling
<1> HIDE DEF b
<1>5. /\ h \in Caches(Buf) /\ Moved(c, h, T) /\ h.flags[b] = {"BUSY"}
      /\ h.b_blkno[b] = None /\ h.fresh[b] = {} /\ h.io = c.io
  BY <1>3, <1>4, ReassignedData
<1> HIDE DEF h
<1>6. /\ d.load = h.load /\ d.b_bufsize = h.b_bufsize /\ d.disk = h.disk
      /\ d.flags = h.flags /\ d.fresh = h.fresh /\ d.io = h.io
      /\ d.b_bcount[b] = 0 /\ d.b_blkno[b] = r.blk
      /\ \A x \in Buf \ T : d.b_bcount[x] = h.b_bcount[x] /\ d.b_blkno[x] = h.b_blkno[x]
  BY <1>3, <1>5 DEF Caches
<1>7. Moved(c, d, T)
  BY <1>5, <1>6 DEF Moved, Like
<1>8. Takes(p, T)
  BY <1>3 DEF Takes
<1>9. Asked(c, "getnewbuf", r) /\ Place(c, "getnewbuf", r)
  BY <1>4 DEF Size, Getting
<1>10. r.first # None => /\ Valid(d, r.first) /\ d.b_blkno[r.first] = r.call.blk
                         /\ d.b_bcount[r.first] = r.size
  <2>1. r.first # None => r.first \in Held(pc[p], r)
    BY HeldIs
  <2>2. b \notin Held(pc[p], r)
    BY <1>3, FreeIsOther
  <2>3. QED BY <1>1, <1>7, <1>9, <2>1, <2>2, FirstKept
<1>11. /\ s.call = r.call /\ s.blk = r.blk /\ s.size = r.size /\ s.bp = b
       /\ s.first = r.first /\ s.ret = r.ret
  BY <1>4 DEF Regs
<1>12. r.blk \in Nat /\ r.blk # None
  <2>1. r.call \in CallRec
    BY <1>4, <1>9, CallIs
  <2>2. QED BY <1>9, <2>1, NoBlock DEF Asked, CallRec
<1> HIDE DEF d, s
<1>13. Valid(d, b) /\ Covers(d, b) = {}
  BY <1>5, <1>6, <1>12 DEF Valid, Covers, Fragments
<1> HIDE DEF r
<1>14. Single(d)
  BY <1>4, <1>7, <1>13, SingleMoved
<1>15. r.bp = None /\ ~HasBp("getnewbuf", r)
  BY <1>9 DEF Place, HasBp
<1>16. ~Extended(s) /\ ~Clearing("brealloc", s) /\ HasBp("brealloc", s)
  BY <1>9, <1>11, <1>15 DEF Asked, Extended, HasBp, Clearing
<1>17. Asked(d, "brealloc", s)
  BY <1>7, <1>9, <1>11, <1>16 DEF Asked, Extended, Moved
<1>18. Place(d, "brealloc", s)
  BY <1>6, <1>10, <1>11, <1>13, <1>16 DEF Place
<1>19. State(d, "brealloc", s)
  BY <1>5, <1>6, <1>11, <1>16 DEF State
<1>20. Fine(d, T)
  <2>1. BufOK(d, b, FALSE)
    BY <1>3, <1>5, <1>6 DEF BufOK, Dirty
  <2>2. Keeping(c, d, b)
    BY <1>2, <1>3 DEF Keeping, Dirty
  <2>3. QED BY <2>1, <2>2 DEF Fine
<1>21. Size(d, "brealloc", s)
  BY <1>17, <1>18 DEF Size
<1> HIDE DEF T
<1>22. QED BY <1>1, <1>2, <1>4, <1>7, <1>8, <1>14, <1>19, <1>20, <1>21, EndsFine

\* allocbuf() takes memory from no other buffer.
LEMMA AllocbufTakeNever ==
  ASSUME IInv, SInv, NEW p \in Procs, AllocbufTake(p)
  PROVE  FALSE
<1>1. pc[p] = "getnewbuf" /\ loc[p].bp # None
  BY DEF AllocbufTake, At
<1>2. Place(c, "getnewbuf", loc[p])
  BY <1>1, Here DEF Size, Getting
<1>3. QED BY <1>1, <1>2 DEF Place

-----------------------------------------------------------------------------
(***************************************************************************)
(* brealloc() and allocbuf().                                              *)
(***************************************************************************)

\* The buffer getblk() found is p's own.
LEMMA InHand ==
  ASSUME IInv, SInv, NEW p \in Procs, HasBp(pc[p], loc[p]), pc[p] # "biowait"
  PROVE  /\ loc[p].bp \in Buf /\ "BUSY" \in c.flags[loc[p].bp] /\ loc[p].bp \notin c.io
         /\ "ASYNC" \notin c.flags[loc[p].bp] /\ loc[p].bp \in Held(pc[p], loc[p])
         /\ Takes(p, {loc[p].bp}) /\ c.b_bcount[loc[p].bp] \in Int
         /\ pc[p] # "hold" => loc[p].first # loc[p].bp
<1>1. loc[p].bp \in Held(pc[p], loc[p])
  BY HeldIs
<1>2. loc[p].bp \in Buf /\ Owned(c, loc[p].bp) /\ Local(c, pc[p], loc[p])
      /\ c \in Caches(Buf) /\ None \notin Buf
  BY <1>1, Here
<1>3. QED BY <1>1, <1>2, Fields DEF Owned, Local, Shape, Takes

\* brealloc(): the buffer is as large as it is to be, or larger, or smaller.
LEMMA BreallocSafe ==
  ASSUME IInv, IInv', SInv, NEW p \in Procs, Brealloc(p)
  PROVE  SInv' /\ (SizesAgree /\ CInv => CInv')
<1> DEFINE r == loc[p]
           b == r.bp
<1>1. pc[p] = "brealloc" /\ c.slp[p] = None /\ cur \in {p, None}
  BY DEF Brealloc, At
<1>2. /\ c \in Caches(Buf) /\ r \in Regs(Buf) /\ Size(c, "brealloc", r) /\ Single(c)
      /\ ~Filling(pc[p], loc[p]) /\ c.load \in DOMAIN Loads
      /\ Trusted => State(c, "brealloc", r)
  BY <1>1, Here DEF Filling
<1>3. HasBp(pc[p], r) /\ HasBp("brealloc", r)
  BY <1>1 DEF HasBp
<1>4. /\ b \in Buf /\ "BUSY" \in c.flags[b] /\ b \notin c.io /\ "ASYNC" \notin c.flags[b]
      /\ b \in Held(pc[p], r) /\ Takes(p, {b}) /\ c.b_bcount[b] \in Int /\ r.first # b
  BY <1>1, <1>3, InHand
<1>5. Trusted => BufOK(c, b, FALSE)
  BY <1>2, <1>4, BufHere DEF BufOK
<1>6. r.size \in Nat
  BY <1>2 DEF Regs
<1>7. Asked(c, "brealloc", r) /\ Place(c, "brealloc", r)
  BY <1>2 DEF Size, Getting
<1>8. CASE r.size = c.b_bcount[b]
  <2>1. Goto(p, c, "got", r)
    BY <1>4, <1>6, <1>8 DEF Brealloc
  <2> HIDE DEF r
  <2>2. ~Extended(r) /\ HasBp("got", r) /\ ~Clearing("got", r)
    BY <1>2, <1>7, <1>8, CallIs DEF Place, Extended, HasBp, Clearing
  <2>3. Asked(c, "got", r) /\ Place(c, "got", r)
    BY <1>3, <1>7, <1>8, <2>2 DEF Asked, Place
  <2>4. Trusted => State(c, "got", r)
    BY <1>2, <2>2 DEF State, Getting
  <2>5. QED BY <1>1, <1>2, <2>1, <2>3, <2>4, Walks DEF Size, r
<1>9. CASE r.size < c.b_bcount[b] /\ "DELWRI" \notin c.flags[b]
  <2>1. Goto(p, c, "allocbuf", r)
    BY <1>4, <1>6, <1>9 DEF Brealloc
  <2> HIDE DEF r
  <2>2. HasBp("allocbuf", r) /\ ~Clearing("allocbuf", r)
    BY DEF HasBp, Clearing
  <2>3. Asked(c, "allocbuf", r) /\ Place(c, "allocbuf", r)
    BY <1>3, <1>7, <1>9, <2>2 DEF Asked, Place
  <2>4. Trusted => State(c, "allocbuf", r)
    BY <1>2, <1>3, <1>9, <2>2 DEF State, Getting
  <2>5. QED BY <1>1, <1>2, <2>1, <2>3, <2>4, Walks DEF Size, r
<1>10. CASE r.size < c.b_bcount[b] /\ "DELWRI" \in c.flags[b]
  <2> DEFINE d == StartWrite(c, b)
             T == {b}
  <2>1. Bwrite(p, c, b, "getblk", r)
    BY <1>4, <1>6, <1>10 DEF Brealloc
  <2>2. PICK l, s : /\ Goto(p, d, l, s) /\ l = "written"
                    /\ s.call = r.call /\ s.blk = r.blk /\ s.size = r.size /\ s.bp = r.bp
                    /\ s.first = r.first /\ s.ret = "getblk"
    BY <1>2, <1>4, <2>1, BwriteGoes
  <2>3. Moved(c, c, T) /\ Stays(c, c, b) /\ d = StartWrite(c, b) /\ b \in T
        /\ \A x \in T \ {b} : Gone(c, c, x)
    BY DEF Moved, Like, Stays
  <2> HIDE DEF d
  <2>4. Moved(c, d, T) /\ Single(d) /\ (Trusted => Fine(d, T))
    BY <1>2, <1>4, <1>10, <2>3, BwriteData
  <2>5. r.first # None => /\ Valid(d, r.first) /\ d.b_blkno[r.first] = r.call.blk
                          /\ d.b_bcount[r.first] = r.size
    BY <1>1, <1>4, <1>7, <2>4, FirstKept
  <2>6. ~Extended(r)
    BY <1>2, <1>4, <1>6, <1>7, <1>10, CallIs DEF Place, Extended
  <2> HIDE DEF r
  <2>7. ~Extended(s) /\ ~Clearing(l, s) /\ ~HasBp(l, s) /\ ~Filling(l, s)
    BY <2>2, <2>6 DEF Extended, HasBp, Clearing, Filling
  <2>8. Asked(d, l, s)
    BY <1>7, <2>2, <2>4, <2>6, <2>7 DEF Asked, Extended, Moved
  <2>9. Place(d, l, s)
    BY <2>2, <2>5, <2>7 DEF Place
  <2>10. State(d, l, s)
    BY <2>2, <2>7 DEF State
  <2>11. l # "allocbuf" /\ Size(d, l, s)
    BY <2>2, <2>8, <2>9 DEF Size
  <2> HIDE DEF T
  <2>12. Takes(p, T)
    BY <1>4 DEF T
  <2>13. QED BY <1>1, <1>2, <2>2, <2>4, <2>10, <2>11, <2>12, EndsFine
<1>11. CASE r.size > c.b_bcount[b]
  <2> DEFINE on == {}
             off == {"DONE"}
             d == SetF(c, b, on, off)
             T == {b}
  <2>1. Goto(p, d, "overlap", r)
    BY <1>4, <1>6, <1>11 DEF Brealloc
  <2>2. on \in SUBSET Flag /\ d = SetF(c, b, on, off)
    OBVIOUS
  <2> HIDE DEF on, off, d
  <2>3. /\ Moved(c, d, T) /\ Stays(c, d, b) /\ d.io = c.io /\ Marked(c, d, b, on, off)
    <3>1. b \in Buf /\ c \in Caches(Buf)
      BY <1>2, <1>4
    <3> HIDE DEF b
    <3>2. QED BY <2>2, <3>1, SetFData, SMTT(30) DEF T
  <2>4. r.first # None => /\ Valid(d, r.first) /\ d.b_blkno[r.first] = r.call.blk
                          /\ d.b_bcount[r.first] = r.size
    BY <1>1, <1>4, <1>7, <2>3, FirstKept
  <2> HIDE DEF d, r
  <2>5. \A f \in Marks : f \in d.flags[b] <=> f \in c.flags[b] /\ f # "DONE"
    BY <2>3 DEF Marked, on, off
  <2>6. Covers(d, b) = Covers(c, b) /\ Valid(d, b) /\ d.b_blkno[b] = r.blk
        /\ d.fresh[b] = c.fresh[b] /\ d.b_bcount[b] = c.b_bcount[b]
    BY <1>3, <1>7, <2>3, <2>5 DEF Covers, Valid, Stays, Marks, Place, b
  <2>7. Single(d)
    BY <1>2, <1>3, <1>7, <2>3, <2>6, SingleMoved DEF Place, b
  <2>8. HasBp("overlap", r) /\ Clearing("overlap", r)
    BY DEF HasBp, Clearing
  <2>9. Asked(d, "overlap", r)
    BY <1>3, <1>7, <2>3, <2>8 DEF Asked, Moved
  <2>10. c.b_bcount[b] < r.size
    BY <1>4, <1>6, <1>11
  <2>11. Place(d, "overlap", r)
    BY <1>3, <1>7, <2>4, <2>6, <2>8, <2>10 DEF Place, b
  <2>12. ASSUME Trusted PROVE State(d, "overlap", r) /\ Fine(d, T)
    <3>1. ~Writer(r) => "DELWRI" \notin c.flags[b]
      <4>1. SUFFICES ASSUME ~Writer(r), "DELWRI" \in c.flags[b] PROVE FALSE
        OBVIOUS
      <4>2. PICK m \in Loads[c.load].calls : Writes(m) /\ m.blk = r.blk /\ c.b_bcount[b] = Final(m)
        BY <1>3, <1>5, <1>7, <2>12, <4>1 DEF BufOK, Place, b
      <4>3. r.size <= Final(m)
        BY <1>2, <1>7, <2>12, <4>1, <4>2, ReadsLess DEF Trusted
      <4>4. QED BY <1>4, <1>6, <2>10, <4>2, <4>3
    <3>2. "DONE" \notin d.flags[b] /\ ("DELWRI" \in d.flags[b] <=> "DELWRI" \in c.flags[b])
          /\ ("ERROR" \in d.flags[b] <=> "ERROR" \in c.flags[b])
          /\ ("BUSY" \in d.flags[b])
          /\ ("READ" \in d.flags[b] <=> "READ" \in c.flags[b])
          /\ ("ASYNC" \in d.flags[b] <=> "ASYNC" \in c.flags[b])
      BY <1>4, <2>5 DEF Marks
    <3>3. HasBp("overlap", r) /\ Extended(r) =>
            \/ "ERROR" \in d.flags[b]
            \/ Fragments(r.call.blk, r.call.size) \cap FragOf(d) \subseteq d.fresh[b]
      BY <1>2, <1>3, <2>3, <2>6, <2>12, <3>2 DEF State, Getting, FragOf, Moved, b
    <3>4. State(d, "overlap", r)
      BY <3>1, <3>2, <3>3 DEF State, b
    <3>5. d.load = c.load /\ (Dirty(d, b) <=> Dirty(c, b)) /\ (Whole(d, b) <=> Whole(c, b))
      BY <2>3, <2>6, <3>2 DEF Dirty, Whole, FragOf, Moved
    <3>6. BufOK(d, b, FALSE)
      BY <1>3, <1>4, <1>5, <1>7, <2>3, <2>6, <2>12, <3>2, <3>5 DEF BufOK, Stays, Place, b
    <3>7. Keeping(c, d, b)
      BY <2>6, <3>5 DEF Keeping
    <3>8. QED BY <3>4, <3>6, <3>7 DEF Fine
  <2>13. Size(d, "overlap", r)
    BY <2>9, <2>11 DEF Size
  <2> HIDE DEF T
  <2>14. Takes(p, T)
    BY <1>4 DEF T
  <2>15. QED BY <1>1, <1>2, <2>1, <2>3, <2>7, <2>12, <2>13, <2>14, EndsFine DEF r, T
<1>12. QED BY <1>4, <1>6, <1>8, <1>9, <1>10, <1>11

\* Inside brealloc(), other buffers may change.
LEMMA ClearingKept ==
  ASSUME IInv, SInv, NEW p \in Procs, Clearing(pc[p], loc[p]), NEW d, NEW e, Moved(c, d, {e}),
         e # loc[p].bp, e # loc[p].first, NEW l, NEW s,
         l = "overlap" \/ (l = "written" /\ s.ret = "overlap"),
         s.call = loc[p].call, s.blk = loc[p].blk, s.size = loc[p].size,
         s.bp = loc[p].bp, s.first = loc[p].first
  PROVE  Size(d, l, s) /\ (Trusted => State(d, l, s))
<1> DEFINE r == loc[p]
           b == r.bp
           o == pc[p]
<1>1. /\ Size(c, o, r) /\ (Trusted => State(c, o, r)) /\ HasBp(o, r)
      /\ b \in Buf /\ b \in Held(o, r) /\ b # e
  BY Here, HeldIs
<1>2. Clearing(o, r) /\ Getting(o, r) /\ o # "biowait"
  BY DEF Clearing, Getting
<1>3. Asked(c, o, r) /\ Place(c, o, r)
  BY <1>1, <1>2 DEF Size
<1>4. r.first # None => /\ Valid(d, r.first) /\ d.b_blkno[r.first] = r.call.blk
                        /\ d.b_bcount[r.first] = r.size
  <2>1. r.first # None => r.first \notin {e}
    OBVIOUS
  <2>2. QED BY <1>3, <2>1, FirstKept
<1>5. Like(c, d, b) /\ d.load = c.load
  BY <1>1 DEF Moved
<1>6. s.call = r.call /\ s.blk = r.blk /\ s.size = r.size /\ s.bp = b /\ s.first = r.first
  OBVIOUS
<1> HIDE DEF r, b, o
<1>7. /\ HasBp(l, s) /\ Clearing(l, s) /\ (Extended(s) <=> Extended(r)) /\ (Writer(s) <=> Writer(r))
  BY <1>6 DEF HasBp, Clearing, Extended, Writer
<1>8. Asked(d, l, s)
  BY <1>5, <1>6, <1>7, <1>3 DEF Asked
<1>9. Covers(d, b) = Covers(c, b) /\ Valid(d, b) /\ d.b_blkno[b] = r.blk
      /\ d.fresh[b] = c.fresh[b] /\ d.b_bcount[b] = c.b_bcount[b]
  BY <1>1, <1>5, <1>3, LikeCovers DEF Like, Place, b
<1>10. Place(d, l, s)
  BY <1>1, <1>2, <1>4, <1>6, <1>7, <1>9, <1>3 DEF Place, b
<1>11. ASSUME Trusted PROVE State(d, l, s)
  <2>1. \A f \in {"DONE", "DELWRI", "ERROR"} : f \in d.flags[b] <=> f \in c.flags[b]
    BY <1>5 DEF Like, Marks
  <2>2. FragOf(d) = FragOf(c)
    BY <1>5 DEF FragOf
  <2>3. QED BY <1>1, <1>2, <1>6, <1>7, <1>9, <1>11, <2>1, <2>2 DEF State, b
<1>12. QED BY <1>8, <1>10, <1>11 DEF Size

\* brealloc(): a buffer in the way is waited for, written out or thrown away.
LEMMA BreallocOverlapSafe ==
  ASSUME IInv, IInv', SInv, NEW p \in Procs, BreallocOverlap(p)
  PROVE  SInv' /\ (SizesAgree /\ CInv => CInv')
<1> DEFINE r == loc[p]
<1>1. pc[p] = "overlap" /\ c.slp[p] = None /\ cur \in {p, None}
  BY DEF BreallocOverlap, At
<1>2. c \in Caches(Buf) /\ FreeOK(c) /\ r \in Regs(Buf) /\ ~Filling(pc[p], loc[p])
      /\ Single(c)
  BY <1>1, Here DEF Filling
<1>3. PICK e \in Buf :
       IF "BUSY" \in c.flags[e]
       THEN Goto(p, SleepOn(SetF(c, e, {"WANTED"}, {}), p, e), "overlap", r)
       ELSE IF "DELWRI" \in c.flags[e]
       THEN Bwrite(p, Notavail(c, e), e, "overlap", r)
       ELSE Goto(p, Brelse(SetF(Notavail(c, e), e, {"INVAL"}, {}), e),
                 "overlap", r)
  BY DEF BreallocOverlap, Overlapping
<1> DEFINE h == Notavail(c, e)
           T == {e}
<1>4. CASE "BUSY" \in c.flags[e]
  <2>1. Moved(c, SleepOn(SetF(c, e, {"WANTED"}, {}), p, e), {})
    BY <1>2, WaitsData
  <2>2. QED BY <1>1, <1>3, <1>4, <2>1, StayPut
<1>5. /\ h \in Caches(Buf) /\ Moved(c, h, T) /\ Stays(c, h, e) /\ h.io = c.io
      /\ Marked(c, h, e, {"BUSY"}, {}) /\ h = Notavail(c, e)
  BY <1>2, NotavailData
<1> HIDE DEF h
<1>6. CASE "BUSY" \notin c.flags[e] /\ "DELWRI" \in c.flags[e]
  <2> DEFINE d == StartWrite(h, e)
  <2>1. "INVAL" \in h.flags[e] <=> "INVAL" \in c.flags[e]
    BY <1>5 DEF Marked, Marks
  <2>2. "ASYNC" \notin h.flags[e]
    BY <1>5, <1>6, FreeIdle DEF Marked, Marks
  <2>3. PICK l, s : /\ Goto(p, d, l, s) /\ l = "written"
                    /\ s.call = r.call /\ s.blk = r.blk /\ s.size = r.size /\ s.bp = r.bp
                    /\ s.first = r.first /\ s.ret = "overlap"
    BY <1>2, <1>3, <1>5, <1>6, <2>2, BwriteGoes
  <2>4. Takes(p, T) /\ e \in T /\ (\A x \in T \ {e} : Gone(c, h, x)) /\ d = StartWrite(h, e)
    BY <1>6 DEF Takes
  <2> HIDE DEF d
  <2>5. Moved(c, d, {e}) /\ Single(d) /\ (Trusted => Fine(d, {e}))
    BY <1>2, <1>5, <1>6, <2>1, <2>4, BwriteData
  <2>6. Clearing(pc[p], loc[p]) /\ e # loc[p].bp /\ e # loc[p].first
    <3>1. Clearing(pc[p], loc[p])
      BY <1>1 DEF Clearing
    <3>2. QED BY <1>6, <3>1, FreeIsOther, HeldIs, Here
  <2>7. Size(d, l, s) /\ (Trusted => State(d, l, s))
    BY <1>1, <2>3, <2>5, <2>6, ClearingKept
  <2> HIDE DEF T
  <2>8. Moved(c, d, T) /\ (Trusted => Fine(d, T))
    BY <2>5 DEF T
  <2>9. l # "allocbuf"
    BY <2>3
  <2>10. QED BY <1>1, <1>2, <2>3, <2>4, <2>5, <2>7, <2>8, <2>9, EndsFine
<1>7. CASE "BUSY" \notin c.flags[e] /\ "DELWRI" \notin c.flags[e]
  <2> DEFINE set == {"INVAL"}
             none == {}
             f == SetF(h, e, set, none)
             d == Brelse(f, e)
  <2>1. Goto(p, d, "overlap", r)
    BY <1>3, <1>5, <1>7
  <2>2. set \in SUBSET Flag /\ f = SetF(h, e, set, none) /\ d = Brelse(f, e)
    BY DEF Flag
  <2> HIDE DEF f, d, set, none
  <2>3. /\ f \in Caches(Buf) /\ Moved(h, f, {e}) /\ Stays(h, f, e) /\ f.io = h.io
        /\ Marked(h, f, e, set, none)
    BY <1>5, <2>2, SetFData, SMTT(30)
  <2>4. d \in Caches(Buf) /\ Released(f, e, d)
    BY <2>2, <2>3, BrelseData
  <2>5. Moved(f, d, {e}) /\ Marked(f, d, e, {}, {"WANTED", "BUSY", "ASYNC", "AGE"}) /\ d.io = f.io
    BY <2>4 DEF Released
  <2>6. Moved(c, d, {e})
    BY <1>5, <2>3, <2>5 DEF Moved, Like
  <2>7. "INVAL" \in d.flags[e] /\ "DELWRI" \notin d.flags[e]
    BY <1>5, <1>7, <2>3, <2>5 DEF Marked, Marks, set, none
  <2>8. Gone(c, d, e)
    BY <1>5, <1>7, <2>3, <2>5, <2>7, FreeIdle DEF Gone, Valid
  <2>9. Single(d)
    BY <1>2, <2>6, <2>8, SingleMoved DEF Gone
  <2>10. Clearing(pc[p], loc[p]) /\ e # loc[p].bp /\ e # loc[p].first
    <3>1. Clearing(pc[p], loc[p])
      BY <1>1 DEF Clearing
    <3>2. QED BY <1>7, <3>1, FreeIsOther, HeldIs, Here
  <2>11. Size(d, "overlap", r) /\ (Trusted => State(d, "overlap", r))
    BY <1>1, <2>6, <2>10, ClearingKept
  <2>12. Takes(p, T) /\ Fine(d, T)
    BY <1>7, <2>8, GoneFine DEF Takes, Fine
  <2>13. Moved(c, d, T)
    BY <2>6
  <2> HIDE DEF T
  <2>14. QED BY <1>1, <1>2, <2>1, <2>9, <2>11, <2>12, <2>13, EndsFine
<1>8. QED BY <1>4, <1>6, <1>7

\* The end of a step that changes one buffer.
LEMMA EndsOne ==
  ASSUME IInv, IInv', SInv, NEW p \in Procs, NEW d, NEW l, NEW r, NEW b,
         Goto(p, d, l, r), cur \in {p, None}, Takes(p, {b}), Moved(c, d, {b}), Single(d),
         Size(d, l, r), l # "allocbuf",
         Filling(pc[p], loc[p]) => loc[p].bp = b \/ (Filling(l, r) /\ r.bp = loc[p].bp),
         Trusted => BufOK(d, b, Filling(l, r) /\ r.bp = b) /\ Keeping(c, d, b) /\ State(d, l, r)
  PROVE  SInv' /\ (SizesAgree /\ CInv => CInv')
<1> DEFINE T == {b}
<1>1. \A t \in T : Trusted => BufOK(d, t, Filling(l, r) /\ r.bp = t) /\ Keeping(c, d, t)
  OBVIOUS
<1>2. /\ T \subseteq Buf /\ Moved(c, d, T) /\ (b \in T)
      /\ \A t \in T : t \in Held(pc[p], loc[p]) \/ "BUSY" \notin c.flags[t]
  BY DEF Takes
<1> HIDE DEF T
<1>3. QED BY <1>1, <1>2, EndsMoved

\* With memory in every buffer, allocbuf() only sets the size.
LEMMA AllocbufIs ==
  ASSUME IInv, SInv, Roomy, NEW p \in Procs, Allocbuf(p)
  PROVE  Goto(p, [c EXCEPT !.b_bcount[loc[p].bp] = loc[p].size], "got", loc[p])
<1> DEFINE r == loc[p]
           b == r.bp
<1>1. pc[p] = "allocbuf" /\ HasBp("allocbuf", r)
  BY DEF Allocbuf, At, HasBp
<1>2. /\ c \in Caches(Buf) /\ r \in Regs(Buf) /\ Size(c, "allocbuf", r) /\ FreeOK(c)
      /\ c.load \in DOMAIN Loads /\ b \in Buf /\ Buf = Range(Loads[c.load].bufs)
      /\ c.b_bufsize = Loads[c.load].space
  BY <1>1, Here, HeldIs DEF Space
<1>3. r.size <= c.b_bufsize[b] /\ r.size \in Nat
  BY <1>2, CallIs DEF Size, Getting, Space
<1>4. c.free["EMPTY"] = <<>>
  <2>1. Loads[c.load].space \in [Buf -> 1 .. Loads[c.load].frags] /\ Loads[c.load].frags \in Nat
    BY <1>2, BufAssumption
  <2>2. c.free["EMPTY"] \in Seq(Buf) /\ "EMPTY" \in Lists
    BY <1>2, Fields DEF Lists
  <2>3. \A x \in On(c, "EMPTY") : x \in Buf /\ c.b_bufsize[x] = 0
    BY <1>2, <2>2 DEF FreeOK, On, ToSet
  <2>4. ToSet(c.free["EMPTY"]) = {}
    BY <1>2, <2>1, <2>3 DEF On
  <2> DEFINE s == c.free["EMPTY"]
  <2>5. s \in Seq(Buf) /\ ToSet(s) = {}
    BY <2>2, <2>4
  <2> HIDE DEF s
  <2>6. DOMAIN s = 1 .. Len(s) /\ Len(s) \in Nat /\ DOMAIN s = {}
    BY <2>5 DEF ToSet
  <2>7. Len(s) = 0
    BY <2>6
  <2>8. s = <<>>
    BY <2>5, <2>7
  <2>9. QED BY <2>8 DEF s
<1>5. Shrink(c, b, r.size) = c
  BY <1>4 DEF Shrink
<1>6. c.b_bufsize[b] \in Int
  BY <1>2, Fields
<1>7. QED BY <1>3, <1>5, <1>6 DEF Allocbuf

\* allocbuf(): the buffer gets its size.
LEMMA AllocbufSafe ==
  ASSUME IInv, IInv', SInv, Roomy, NEW p \in Procs, Allocbuf(p)
  PROVE  SInv' /\ (SizesAgree /\ CInv => CInv')
<1> DEFINE r == loc[p]
           b == r.bp
           d == [c EXCEPT !.b_bcount[b] = r.size]
<1>1. pc[p] = "allocbuf" /\ c.slp[p] = None /\ cur \in {p, None}
  BY DEF Allocbuf, At
<1>2. /\ c \in Caches(Buf) /\ r \in Regs(Buf) /\ Size(c, "allocbuf", r) /\ Single(c)
      /\ ~Filling(pc[p], loc[p]) /\ c.load \in DOMAIN Loads
      /\ Trusted => State(c, "allocbuf", r)
  BY <1>1, Here DEF Filling
<1>3. HasBp(pc[p], r) /\ HasBp("allocbuf", r)
  BY <1>1 DEF HasBp
<1>4. /\ b \in Buf /\ "BUSY" \in c.flags[b] /\ b \notin c.io /\ "ASYNC" \notin c.flags[b]
      /\ b \in Held(pc[p], r) /\ Takes(p, {b}) /\ c.b_bcount[b] \in Int /\ r.first # b
  BY <1>1, <1>3, InHand
<1>5. Trusted => BufOK(c, b, FALSE)
  BY <1>2, <1>4, BufHere DEF BufOK
<1>6. r.size \in Nat
  BY <1>2 DEF Regs
<1>7. Asked(c, "allocbuf", r) /\ Place(c, "allocbuf", r)
  BY <1>2 DEF Size, Getting
<1>8. Goto(p, d, "got", r)
  BY AllocbufIs
<1>9. /\ d.load = c.load /\ d.b_bufsize = c.b_bufsize /\ d.disk = c.disk /\ d.flags = c.flags
      /\ d.b_blkno = c.b_blkno /\ d.fresh = c.fresh /\ d.io = c.io /\ d.b_bcount[b] = r.size
      /\ \A x \in Buf \ {b} : d.b_bcount[x] = c.b_bcount[x]
  BY <1>2, <1>4 DEF Caches
<1> HIDE DEF d
<1>10. Moved(c, d, {b})
  BY <1>9 DEF Moved, Like
<1>11. r.first # None => /\ Valid(d, r.first) /\ d.b_blkno[r.first] = r.call.blk
                         /\ d.b_bcount[r.first] = r.size
  BY <1>1, <1>4, <1>7, <1>10, FirstKept
<1> HIDE DEF r
<1>12. Valid(c, b) /\ Valid(d, b) /\ d.b_blkno[b] = r.blk /\ c.b_blkno[b] = r.blk
       /\ (\/ r.size < c.b_bcount[b]
           \/ c.b_bcount[b] < r.size /\ Overlapping(c, r.blk, r.size) \subseteq {b})
  BY <1>3, <1>7, <1>9 DEF Place, Valid, b
<1>13. Covers(d, b) = Fragments(r.blk, r.size) /\ Covers(c, b) = Fragments(r.blk, c.b_bcount[b])
       /\ r.blk \in Nat
  <2>1. r.call \in CallRec /\ r.blk \in Nat \cup {None}
    BY <1>2, <1>7, CallIs DEF Regs
  <2>2. QED BY <1>9, <1>12, <2>1 DEF Covers, Valid
<1>14. /\ r.size < c.b_bcount[b] => Covers(d, b) \subseteq Covers(c, b)
       /\ c.b_bcount[b] < r.size => Covers(c, b) \subseteq Covers(d, b)
  <2> DEFINE n == c.b_bcount[b]
             m == r.size
             k == r.blk
  <2>1. n \in Int /\ m \in Nat /\ k \in Nat
    BY <1>4, <1>6, <1>13
  <2>2. Covers(d, b) = Fragments(k, m) /\ Covers(c, b) = Fragments(k, n)
    BY <1>13
  <2> HIDE DEF n, m, k
  <2>3. /\ m < n => Fragments(k, m) \subseteq Fragments(k, n)
        /\ n < m => Fragments(k, n) \subseteq Fragments(k, m)
    BY <2>1 DEF Fragments
  <2>4. QED BY <2>2, <2>3 DEF n, m
<1>15. Single(d)
  <2>1. ASSUME NEW x \in Buf \ {b} PROVE Covers(d, x) = Covers(c, x) /\ (Valid(d, x) <=> Valid(c, x))
    BY <1>10, LikeCovers DEF Moved
  <2>2. ASSUME NEW x \in Buf \ {b}, Valid(d, x) PROVE Covers(d, x) \cap Covers(d, b) = {}
    <3>1. CASE r.size < c.b_bcount[b]
      BY <1>2, <1>4, <1>12, <1>14, <2>1, <2>2, <3>1 DEF Single
    <3>2. CASE Overlapping(c, r.blk, r.size) \subseteq {b}
      BY <1>13, <2>1, <2>2, <3>2 DEF Overlapping
    <3>3. QED BY <1>12, <3>1, <3>2
  <2>3. QED BY <1>2, <2>1, <2>2 DEF Single
<1>16. HasBp("got", r) /\ ~Clearing("got", r) /\ Getting("allocbuf", r)
  BY DEF HasBp, Clearing, Getting
<1>17. Asked(d, "got", r)
  BY <1>3, <1>7, <1>9, <1>16 DEF Asked
<1>18. Extended(r) => r.call.size <= r.size
  BY <1>2, <1>7, CallIs DEF Extended
<1>19. Place(d, "got", r)
  BY <1>9, <1>11, <1>12, <1>16, <1>18 DEF Place, b
<1>20. ASSUME Trusted
       PROVE  BufOK(d, b, Filling("got", r) /\ r.bp = b) /\ Keeping(c, d, b) /\ State(d, "got", r)
  <2>1. /\ ~Writer(r) => "DELWRI" \notin c.flags[b]
        /\ IF r.size < c.b_bcount[b] THEN "DELWRI" \notin c.flags[b] ELSE "DONE" \notin c.flags[b]
        /\ Extended(r) => \/ "ERROR" \in c.flags[b]
                          \/ Fragments(r.call.blk, r.call.size) \cap FragOf(c) \subseteq c.fresh[b]
    BY <1>2, <1>3, <1>16, <1>20 DEF State, b
  <2>2. FragOf(d) = FragOf(c) /\ (Dirty(d, b) <=> Dirty(c, b)) /\ (Dirty(c, b) <=> "DELWRI" \in c.flags[b])
    BY <1>4, <1>9 DEF FragOf, Dirty
  <2>3. State(d, "got", r)
    BY <1>9, <1>16, <2>1, <2>2 DEF State, b
  <2>4. Keeping(c, d, b)
    BY <1>9, <1>12, <1>14, <2>1, <2>2 DEF Keeping
  <2>5. Writer(r) => \E m \in Loads[d.load].calls :
                        Writes(m) /\ m.blk = d.b_blkno[b] /\ d.b_bcount[b] = Final(m)
    <3>1. SUFFICES ASSUME Writer(r)
                   PROVE  \E m \in Loads[d.load].calls :
                            Writes(m) /\ m.blk = d.b_blkno[b] /\ d.b_bcount[b] = Final(m)
      OBVIOUS
    <3>2. PICK m \in Loads[c.load].calls :
            m.op \in Getblk /\ (r.call = m \/ (m.op = "breada" /\ r.call = BreadOf(m)))
      BY <1>7 DEF Asked
    <3>3. m \in CallRec
      BY <1>2, BufAssumption DEF CallRec
    <3>4. BreadOf(m).op = "read"
      BY <3>3 DEF BreadOf, CallRec
    <3>5. r.call = m /\ m.op \in {"write", "extend"}
      BY <3>1, <3>2, <3>4 DEF Writer, Extended
    <3>6. m.blk = r.blk /\ r.size = Final(m) /\ Writes(m)
      BY <1>7, <3>1, <3>5 DEF Asked, Final, Writer, Extended, Writes
    <3>7. QED BY <1>9, <1>12, <3>6
  <2>6. Filling("got", r) <=> Writer(r)
    BY DEF Filling
  <2>7. ASSUME ~Writer(r), "DONE" \in d.flags[b], "ERROR" \notin d.flags[b] PROVE Whole(d, b)
    <3>1. r.size < c.b_bcount[b]
      BY <1>9, <2>1, <2>7
    <3>2. Whole(c, b)
      BY <1>5, <1>9, <1>12, <1>20, <2>7 DEF BufOK
    <3>3. QED BY <1>9, <1>14, <2>2, <3>1, <3>2 DEF Whole
  <2>8. BufOK(d, b, Filling("got", r) /\ r.bp = b)
    BY <1>4, <1>5, <1>9, <1>12, <1>20, <2>1, <2>2, <2>5, <2>6, <2>7 DEF BufOK, b
  <2>9. QED BY <2>3, <2>4, <2>8
<1>21. Size(d, "got", r)
  BY <1>17, <1>19 DEF Size
<1> HIDE DEF b
<1>22. QED BY <1>1, <1>2, <1>4, <1>8, <1>10, <1>15, <1>20, <1>21, EndsOne DEF r

-----------------------------------------------------------------------------
(***************************************************************************)
(* bread(), breada() and the release of buffers.                           *)
(***************************************************************************)

\* A delayed write that is released is done with.
LEMMA ReleasedFine ==
  ASSUME NEW d, NEW b, NEW e, Released(d, b, e), NEW y \in BOOLEAN, BufOK(d, b, y),
         y => "ERROR" \in d.flags[b], b \notin d.io,
         "DELWRI" \in d.flags[b] => "DONE" \in d.flags[b]
  PROVE  BufOK(e, b, FALSE) /\ Keeping(d, e, b)
         /\ (Valid(e, b) => Valid(d, b) /\ Covers(e, b) = Covers(d, b))
<1>1. /\ e.b_bcount[b] = d.b_bcount[b] /\ e.fresh[b] = d.fresh[b] /\ e.io = d.io
      /\ e.load = d.load
      /\ e.b_blkno[b] = IF "ERROR" \in d.flags[b] THEN None ELSE d.b_blkno[b]
  BY DEF Released, Moved
<1>2. /\ \A f \in {"DELWRI", "DONE", "ERROR", "INVAL", "READ"} : f \in e.flags[b] <=> f \in d.flags[b]
      /\ "ASYNC" \notin e.flags[b]
  BY DEF Released, Marked, Marks
<1>3. Valid(e, b) => Valid(d, b) /\ Covers(e, b) = Covers(d, b) /\ (Whole(e, b) <=> Whole(d, b))
                     /\ "ERROR" \notin d.flags[b] /\ e.b_blkno[b] = d.b_blkno[b]
  BY <1>1, <1>2 DEF Valid, Covers, Whole, FragOf
<1>4. "ERROR" \notin d.flags[b] => (Valid(e, b) <=> Valid(d, b))
  BY <1>1, <1>2 DEF Valid
<1>5. /\ Dirty(d, b) <=> "DELWRI" \in d.flags[b]
      /\ Dirty(e, b) <=> "DELWRI" \in d.flags[b]
  BY <1>1, <1>2 DEF Dirty
<1>6. "DELWRI" \in d.flags[b] =>
        /\ Valid(d, b) /\ Whole(d, b) /\ "ERROR" \notin d.flags[b]
        /\ \E m \in Loads[d.load].calls :
             Writes(m) /\ m.blk = d.b_blkno[b] /\ d.b_bcount[b] = Final(m)
  BY <1>5 DEF BufOK
<1>7. BufOK(e, b, FALSE)
  <2>1. Valid(e, b) /\ "DONE" \in e.flags[b] /\ "ERROR" \notin e.flags[b] => Whole(e, b)
    BY <1>2, <1>3 DEF BufOK
  <2>2. "DELWRI" \in d.flags[b] => e.b_blkno[b] = d.b_blkno[b] /\ Valid(e, b) /\ Whole(e, b)
    BY <1>1, <1>3, <1>4, <1>6
  <2>3. QED BY <1>1, <1>2, <1>5, <1>6, <2>1, <2>2 DEF BufOK
<1>8. Keeping(d, e, b)
  BY <1>1, <1>3, <1>4, <1>5, <1>6 DEF Keeping
<1>9. QED BY <1>3, <1>7, <1>8

\* A buffer in hand is given back.
LEMMA GivesBack ==
  ASSUME IInv, SInv, NEW p \in Procs, NEW b \in Buf, b \in Held(pc[p], loc[p]), b \notin c.io,
         Filling(pc[p], loc[p]) /\ loc[p].bp = b => "ERROR" \in c.flags[b],
         Trusted => ("DELWRI" \in c.flags[b] => "DONE" \in c.flags[b]),
         NEW d, d = Brelse(c, b)
  PROVE  /\ d \in Caches(Buf) /\ Moved(c, d, {b}) /\ Takes(p, {b}) /\ Single(d)
         /\ Trusted => Fine(d, {b})
<1> DEFINE y == Filling(pc[p], loc[p]) /\ loc[p].bp = b
<1>1. c \in Caches(Buf) /\ Single(c) /\ (Trusted => BufOK(c, b, y)) /\ y \in BOOLEAN
  BY Here, BufHere
<1>2. d \in Caches(Buf) /\ Released(c, b, d)
  BY <1>1, BrelseData
<1>3. Moved(c, d, {b})
  BY <1>2 DEF Released
<1>4. y => "ERROR" \in c.flags[b]
  OBVIOUS
<1> HIDE DEF y
<1>5. Trusted => BufOK(d, b, FALSE) /\ Keeping(c, d, b)
  BY <1>1, <1>2, <1>4, ReleasedFine
<1>6. Valid(d, b) => Valid(c, b) /\ Covers(d, b) = Covers(c, b)
  BY <1>2 DEF Released, Marked, Marks, Valid, Covers
<1>7. Single(d)
  BY <1>1, <1>3, <1>6, SingleMoved
<1>8. QED BY <1>2, <1>3, <1>5, <1>7 DEF Takes, Fine

\* brelse() after a read, or after an error.
LEMMA ReleaseSafe ==
  ASSUME IInv, IInv', SInv, NEW p \in Procs, Release(p)
  PROVE  SInv' /\ (SizesAgree /\ CInv => CInv')
<1> DEFINE r == loc[p]
           b == r.bp
           d == Brelse(c, b)
           T == {b}
<1>1. pc[p] = "hold" /\ c.slp[p] = None /\ cur \in {p, None}
      /\ (r.call.op \in {"read", "breada"} \/ "ERROR" \in c.flags[b]) /\ Goto(p, d, "idle", NoLoc)
  BY DEF Release, Holds, At, Return
<1>2. HasBp(pc[p], r)
  BY <1>1 DEF HasBp
<1>3. b \in Buf /\ b \in Held(pc[p], r) /\ b \notin c.io
  BY <1>1, <1>2, InHand
<1>4. Filling(pc[p], r) => "ERROR" \in c.flags[b]
  BY <1>1 DEF Filling, Writer, Extended
<1>5. Trusted => State(c, "hold", r) /\ BufOK(c, b, Filling(pc[p], r) /\ r.bp = b)
  BY <1>1, <1>3, Here, BufHere
<1>6. Trusted => ("DELWRI" \in c.flags[b] => "DONE" \in c.flags[b])
  <2>1. Writer(r) => Filling(pc[p], r)
    BY <1>1 DEF Filling
  <2>2. Trusted /\ ~Writer(r) => "DONE" \in c.flags[b]
    BY <1>5 DEF State, Getting
  <2>3. Trusted /\ "ERROR" \in c.flags[b] => "DELWRI" \notin c.flags[b]
    BY <1>5 DEF BufOK
  <2>4. QED BY <1>4, <2>1, <2>2, <2>3
<1>7. /\ d = Brelse(c, b) /\ b = loc[p].bp
      /\ Filling(pc[p], loc[p]) /\ loc[p].bp = b => "ERROR" \in c.flags[b]
      /\ b \in Held(pc[p], loc[p])
  BY <1>3, <1>4
<1> HIDE DEF d, b
<1>8. Moved(c, d, T) /\ Takes(p, T) /\ Single(d) /\ (Trusted => Fine(d, T))
  BY <1>3, <1>6, <1>7, GivesBack
<1>9. ~Getting("idle", NoLoc) /\ (Filling(pc[p], loc[p]) => loc[p].bp \in T)
  BY <1>7 DEF Getting
<1> HIDE DEF T
<1>10. QED BY <1>1, <1>8, <1>9, EndsOutside

\* bwrite() waits for its write, and releases the buffer.
LEMMA BwriteWaitSafe ==
  ASSUME IInv, IInv', SInv, NEW p \in Procs, BwriteWait(p)
  PROVE  SInv' /\ (SizesAgree /\ CInv => CInv')
<1> DEFINE r == loc[p]
           b == r.ep
           d == Brelse(c, b)
           s == IF r.ret = "idle" THEN NoLoc ELSE [r EXCEPT !.ep = None]
           T == {b}
<1>1. pc[p] = "written" /\ c.slp[p] = None /\ cur \in {p, None}
  BY DEF BwriteWait, At
<1>2. /\ b \in Buf /\ b \in Held(pc[p], r) /\ c \in Caches(Buf) /\ r \in Regs(Buf)
      /\ r.ret \in {"getblk", "overlap", "blkflush", "idle"} /\ b # r.first
      /\ (r.ret = "overlap" => b # r.bp) /\ Size(c, "written", r)
  BY <1>1, HeldIs, Here DEF Shape
<1>3. CASE "DONE" \notin c.flags[b]
  <2>1. Goto(p, SleepOn(c, p, b), "written", r)
    BY <1>3 DEF BwriteWait
  <2>2. Moved(c, SleepOn(c, p, b), {})
    BY <1>2, SleepOnData
  <2>3. QED BY <1>1, <2>1, <2>2, StayPut
<1>4. CASE "DONE" \in c.flags[b]
  <2>1. Goto(p, d, r.ret, s)
    BY <1>4 DEF BwriteWait
  <2>2. b \notin c.io
    BY <1>2, <1>4 DEF IInv, Transfers
  <2>3. ~Filling(pc[p], loc[p])
    BY <1>1 DEF Filling
  <2>4. d = Brelse(c, b) /\ b \in Held(pc[p], loc[p])
    BY <1>2
  <2>5. r.ret # "idle" => /\ s.call = r.call /\ s.blk = r.blk /\ s.size = r.size /\ s.bp = r.bp
                          /\ s.first = r.first /\ s.ret = r.ret
    BY <1>2 DEF Regs
  <2> HIDE DEF d, b, s
  <2>6. Moved(c, d, T) /\ Takes(p, T) /\ Single(d) /\ (Trusted => Fine(d, T))
    BY <1>2, <1>4, <2>2, <2>3, <2>4, GivesBack
  <2>7. CASE r.ret \in {"idle", "blkflush"}
    <3>1. ~Getting(r.ret, s)
      BY <2>7 DEF Getting
    <3> HIDE DEF T
    <3>2. QED BY <1>1, <2>1, <2>3, <2>6, <3>1, EndsOutside
  <2>8. CASE r.ret \in {"getblk", "overlap"}
    <3>1. Size(d, r.ret, s) /\ (Trusted => State(d, r.ret, s))
      <4>1. CASE r.ret = "overlap"
        <5>1. Clearing(pc[p], loc[p])
          BY <1>1, <4>1 DEF Clearing
        <5>2. QED BY <1>2, <2>5, <2>6, <4>1, <5>1, ClearingKept
      <4>2. CASE r.ret = "getblk"
        <5>1. Asked(c, "written", r) /\ Place(c, "written", r)
          BY <1>2, <4>2 DEF Size, Getting
        <5>2. r.first # None => /\ Valid(d, r.first) /\ d.b_blkno[r.first] = r.call.blk
                                /\ d.b_bcount[r.first] = r.size
          BY <1>1, <1>2, <2>6, <5>1, FirstKept
        <5> HIDE DEF r
        <5>3. ~HasBp("written", r) /\ ~HasBp("getblk", s) /\ ~Clearing("getblk", s)
          BY <4>2 DEF HasBp, Clearing
        <5>4. ~Extended(s)
          BY <2>5, <4>2, <5>1, <5>3 DEF Asked, Extended
        <5>5. Asked(d, "getblk", s)
          BY <2>5, <2>6, <4>2, <5>1, <5>4 DEF Asked, Extended, Moved
        <5>6. Place(d, "getblk", s)
          BY <2>5, <4>2, <5>2, <5>3 DEF Place
        <5>7. State(d, "getblk", s)
          BY <5>3 DEF State
        <5>8. QED BY <4>2, <5>5, <5>6, <5>7 DEF Size
      <4>3. QED BY <2>8, <4>1, <4>2
    <3>2. r.ret # "allocbuf"
      BY <2>8
    <3> HIDE DEF T
    <3>3. QED BY <1>1, <2>1, <2>3, <2>6, <3>1, <3>2, EndsFine
  <2>9. QED BY <1>2, <2>7, <2>8
<1>5. QED BY <1>3, <1>4

\* What is known where getblk() has returned.
LEMMA GotHere ==
  ASSUME IInv, SInv, NEW p \in Procs, pc[p] = "got"
  PROVE  /\ c \in Caches(Buf) /\ loc[p] \in Regs(Buf) /\ Single(c) /\ c.load \in DOMAIN Loads
         /\ Asked(c, "got", loc[p]) /\ Place(c, "got", loc[p])
         /\ loc[p].bp \in Buf /\ "BUSY" \in c.flags[loc[p].bp] /\ loc[p].bp \notin c.io
         /\ loc[p].bp \in Held(pc[p], loc[p]) /\ Takes(p, {loc[p].bp})
         /\ loc[p].first # loc[p].bp
         /\ Valid(c, loc[p].bp) /\ c.b_blkno[loc[p].bp] = loc[p].blk
         /\ c.b_bcount[loc[p].bp] = loc[p].size
         /\ Trusted => State(c, "got", loc[p]) /\ BufOK(c, loc[p].bp, Writer(loc[p]))
<1>1. HasBp(pc[p], loc[p]) /\ HasBp("got", loc[p])
  BY DEF HasBp
<1>2. /\ c \in Caches(Buf) /\ loc[p] \in Regs(Buf) /\ Single(c) /\ c.load \in DOMAIN Loads
      /\ Asked(c, "got", loc[p]) /\ Place(c, "got", loc[p])
      /\ Trusted => State(c, "got", loc[p])
  BY Here DEF Size, Getting
<1>3. /\ loc[p].bp \in Buf /\ "BUSY" \in c.flags[loc[p].bp] /\ loc[p].bp \notin c.io
      /\ loc[p].bp \in Held(pc[p], loc[p]) /\ Takes(p, {loc[p].bp})
      /\ loc[p].first # loc[p].bp
  BY <1>1, InHand
<1>4. Trusted => BufOK(c, loc[p].bp, Filling(pc[p], loc[p]) /\ loc[p].bp = loc[p].bp)
  BY <1>3, BufHere
<1>5. (Filling(pc[p], loc[p]) /\ loc[p].bp = loc[p].bp) <=> Writer(loc[p])
  BY DEF Filling
<1>6. Trusted => BufOK(c, loc[p].bp, Writer(loc[p]))
  BY <1>4, <1>5 DEF BufOK
<1>7. QED BY <1>1, <1>2, <1>3, <1>6 DEF Place

\* A read is started into a buffer that has nothing yet.
LEMMA ReadData ==
  ASSUME IInv, SInv, NEW p \in Procs, pc[p] = "got", ~Writer(loc[p]),
         NEW b, b = loc[p].bp, "DONE" \notin c.flags[b],
         NEW on \in SUBSET Flag, on \subseteq {"ASYNC"}, NEW d, d = StartRead(c, b, on)
  PROVE  /\ Moved(c, d, {b}) /\ Stays(c, d, b) /\ Single(d) /\ Valid(d, b)
         /\ Trusted => Fine(d, {b})
<1>1. /\ c \in Caches(Buf) /\ b \in Buf /\ b \notin c.io /\ Valid(c, b) /\ Single(c)
      /\ Trusted => State(c, "got", loc[p])
  BY GotHere
<1>2. /\ d \in Caches(Buf) /\ Moved(c, d, {b}) /\ Stays(c, d, b)
      /\ d.io = c.io \cup {b} /\ Marked(c, d, b, {"READ"} \cup on, {})
  <2>1. c \in Caches(Buf) /\ b \in Buf
    BY <1>1
  <2>2. ReadSet(c, b, on, d)
    BY <2>1, StartsRead
  <2>3. QED BY <2>2 DEF ReadSet
<1>3. /\ "READ" \in d.flags[b]
      /\ \A f \in {"DONE", "DELWRI", "INVAL", "ERROR"} : f \in d.flags[b] <=> f \in c.flags[b]
  BY <1>2 DEF Marked, Marks
<1>4. Covers(d, b) = Covers(c, b) /\ Valid(d, b)
  BY <1>1, <1>2, <1>3 DEF Covers, Valid, Stays
<1>5. Single(d)
  BY <1>1, <1>2, <1>4, SingleMoved
<1>6. ASSUME Trusted PROVE Fine(d, {b})
  <2>1. "DELWRI" \notin c.flags[b]
    BY <1>1, <1>6 DEF State, Getting
  <2>2. BufOK(d, b, FALSE)
    BY <1>3, <2>1 DEF BufOK, Dirty
  <2>3. Keeping(c, d, b)
    BY <1>1, <2>1 DEF Keeping, Dirty
  <2>4. QED BY <2>2, <2>3 DEF Fine
<1>7. QED BY <1>2, <1>4, <1>5, <1>6

\* bread(): the block is here, or is read.
LEMMA GotReadSafe ==
  ASSUME IInv, IInv', SInv, NEW p \in Procs, GotRead(p)
  PROVE  SInv' /\ (SizesAgree /\ CInv => CInv')
<1> DEFINE r == loc[p]
           b == r.bp
           none == {}
           d == StartRead(c, b, none)
           T == {b}
<1>1. /\ pc[p] = "got" /\ c.slp[p] = None /\ cur \in {p, None}
      /\ r.call.op \in {"read", "update"} \/ (r.call.op = "extend" /\ r.size = r.call.size)
      /\ IF "DONE" \in c.flags[b] THEN Goto(p, c, "hold", r) ELSE Goto(p, d, "biowait", r)
  BY DEF GotRead, At
<1>2. /\ Asked(c, "got", r) /\ Place(c, "got", r) /\ Takes(p, T) /\ c.load \in DOMAIN Loads
      /\ r.first # b /\ (Trusted => State(c, "got", r))
      /\ Valid(c, b) /\ c.b_blkno[b] = r.blk /\ c.b_bcount[b] = r.size
  BY <1>1, GotHere
<1>3. ~Writer(r) /\ ~Extended(r)
  BY <1>1, <1>2, CallIs DEF Writer, Extended
<1>4. ~Filling(pc[p], loc[p])
  BY <1>3 DEF Filling
<1>5. r.blk = r.call.blk
  BY <1>1, <1>2 DEF Asked
<1>6. CASE "DONE" \in c.flags[b]
  <2>1. Goto(p, c, "hold", r)
    BY <1>1, <1>6
  <2> HIDE DEF r
  <2>2. HasBp("hold", r) /\ HasBp("got", r) /\ ~Clearing("hold", r)
    BY DEF HasBp, Clearing
  <2>3. Asked(c, "hold", r) /\ Place(c, "hold", r)
    BY <1>2, <1>3, <1>5, <2>2 DEF Asked, Place
  <2>4. State(c, "hold", r)
    BY <1>3, <1>6, <2>2 DEF State
  <2>5. QED BY <1>1, <1>4, <2>1, <2>3, <2>4, Walks DEF Size, r
<1>7. CASE "DONE" \notin c.flags[b]
  <2>1. Goto(p, d, "biowait", r)
    BY <1>1, <1>7
  <2>2. b = loc[p].bp /\ d = StartRead(c, b, none) /\ none \in SUBSET Flag
        /\ none \subseteq {"ASYNC"} /\ ~Writer(loc[p])
    BY <1>3
  <2> HIDE DEF b, d, none
  <2>3. Moved(c, d, T) /\ Stays(c, d, b) /\ Single(d) /\ Valid(d, b) /\ (Trusted => Fine(d, T))
    BY <1>1, <1>7, <2>2, ReadData
  <2>4. r.first # None => /\ Valid(d, r.first) /\ d.b_blkno[r.first] = r.call.blk
                          /\ d.b_bcount[r.first] = r.size
    BY <1>1, <1>2, <2>3, FirstKept
  <2>5. b = r.bp
    BY <2>2
  <2> HIDE DEF r
  <2>6. HasBp("biowait", r) /\ HasBp("got", r) /\ ~Clearing("biowait", r)
    BY DEF HasBp, Clearing
  <2>7. Asked(d, "biowait", r)
    BY <1>2, <1>3, <2>3, <2>6 DEF Asked, Moved
  <2>8. Place(d, "biowait", r)
    BY <1>2, <1>3, <1>5, <2>3, <2>4, <2>5, <2>6 DEF Place, Stays
  <2>9. State(d, "biowait", r)
    BY <1>3, <2>6 DEF State
  <2>10. Size(d, "biowait", r)
    BY <2>7, <2>8 DEF Size
  <2> HIDE DEF T
  <2>11. QED BY <1>1, <1>2, <1>4, <2>1, <2>3, <2>9, <2>10, EndsFine
<1>8. QED BY <1>6, <1>7

\* realloccg() has the block at its new size.
LEMMA GotExtendedSafe ==
  ASSUME IInv, IInv', SInv, NEW p \in Procs, GotExtended(p)
  PROVE  SInv' /\ (SizesAgree /\ CInv => CInv')
<1> DEFINE r == loc[p]
           b == r.bp
           on == {"DONE"}
           none == {}
           d == SetF(c, b, on, none)
<1>1. /\ pc[p] = "got" /\ c.slp[p] = None /\ cur \in {p, None}
      /\ Extended(r) /\ Goto(p, d, "hold", r)
  BY DEF GotExtended, At, Extended
<1>2. /\ Asked(c, "got", r) /\ Place(c, "got", r) /\ Takes(p, {b}) /\ c.load \in DOMAIN Loads
      /\ r.first # b /\ (Trusted => State(c, "got", r) /\ BufOK(c, b, Writer(r)))
      /\ Valid(c, b) /\ c.b_blkno[b] = r.blk /\ c.b_bcount[b] = r.size
      /\ c \in Caches(Buf) /\ Single(c) /\ b \in Buf /\ "BUSY" \in c.flags[b]
  BY <1>1, GotHere
<1>3. on \in SUBSET Flag /\ none \in SUBSET Flag /\ d = SetF(c, b, on, none) /\ b = loc[p].bp
  BY DEF Flag
<1> HIDE DEF b, on, none, d
<1>4. Moved(c, d, {b}) /\ Stays(c, d, b) /\ d.io = c.io /\ Marked(c, d, b, on, none)
  <2>1. c \in Caches(Buf) /\ b \in Buf /\ on \in SUBSET Flag /\ d = SetF(c, b, on, none)
    BY <1>2, <1>3
  <2>2. FlagsSet(c, b, on, none, d)
    BY <2>1, SetsFlags
  <2>3. QED BY <2>2 DEF FlagsSet
<1>5. r.first # None => /\ Valid(d, r.first) /\ d.b_blkno[r.first] = r.call.blk
                        /\ d.b_bcount[r.first] = r.size
  BY <1>1, <1>2, <1>4, FirstKept
<1>6. r.bp = b
  BY <1>3
<1> HIDE DEF r
<1>7. /\ \A f \in {"BUSY", "DELWRI", "INVAL", "ERROR", "READ", "ASYNC"} :
           f \in d.flags[b] <=> f \in c.flags[b]
      /\ d.b_blkno[b] = c.b_blkno[b] /\ d.b_bcount[b] = c.b_bcount[b] /\ d.fresh[b] = c.fresh[b]
      /\ d.load = c.load
  BY <1>4 DEF Marked, Marks, on, none, Stays, Moved
<1>8. Covers(d, b) = Covers(c, b) /\ Valid(d, b) /\ (Dirty(d, b) <=> Dirty(c, b))
  BY <1>2, <1>4, <1>7 DEF Covers, Valid, Dirty
<1>9. Single(d)
  BY <1>2, <1>4, <1>8, SingleMoved
<1>10. Writer(r) /\ Filling("hold", r) /\ HasBp("hold", r) /\ HasBp("got", r) /\ ~Clearing("hold", r)
       /\ Getting("got", r)
  BY <1>1 DEF Writer, Filling, HasBp, Clearing, Getting
<1>11. Asked(d, "hold", r)
  BY <1>2, <1>7, <1>10 DEF Asked
<1>12. r.blk = r.call.blk
  BY <1>1, <1>2 DEF Asked, Extended
<1>13. Place(d, "hold", r)
  BY <1>2, <1>5, <1>6, <1>7, <1>8, <1>10, <1>12 DEF Place
<1>14. ASSUME Trusted
       PROVE  BufOK(d, b, Filling("hold", r) /\ r.bp = b) /\ Keeping(c, d, b) /\ State(d, "hold", r)
  <2>1. BufOK(d, b, TRUE)
    BY <1>2, <1>4, <1>7, <1>8, <1>10, <1>14 DEF BufOK
  <2>2. Keeping(c, d, b)
    BY <1>7, <1>8 DEF Keeping
  <2>3. FragOf(d) = FragOf(c)
    BY <1>7 DEF FragOf
  <2>4. State(d, "hold", r)
    BY <1>1, <1>2, <1>6, <1>7, <1>10, <1>14, <2>3 DEF State
  <2>5. QED BY <1>6, <1>10, <2>1, <2>2, <2>4 DEF BufOK
<1>15. Size(d, "hold", r)
  BY <1>11, <1>13 DEF Size
<1>16. loc[p].bp = b
  BY <1>3
<1>17. QED BY <1>1, <1>2, <1>4, <1>9, <1>14, <1>15, <1>16, EndsOne DEF r

\* breada() has the first block, or has started to read it.
LEMMA GotFirstSafe ==
  ASSUME IInv, IInv', SInv, NEW p \in Procs, GotFirst(p)
  PROVE  SInv' /\ (SizesAgree /\ CInv => CInv')
<1> DEFINE r == loc[p]
           b == r.bp
           none == {}
           d == StartRead(c, b, none)
           s == [r EXCEPT !.first = b, !.bp = None]
           T == {b}
<1>1. /\ pc[p] = "got" /\ c.slp[p] = None /\ cur \in {p, None}
      /\ r.call.op = "breada" /\ r.blk = r.call.blk
      /\ Goto(p, IF "DONE" \in c.flags[b] THEN c ELSE d, "readahead", s)
  BY DEF GotFirst, At
<1>2. /\ Asked(c, "got", r) /\ Place(c, "got", r) /\ Takes(p, T)
      /\ Valid(c, b) /\ c.b_blkno[b] = r.blk /\ c.b_bcount[b] = r.size
      /\ r \in Regs(Buf)
  BY <1>1, GotHere
<1>3. ~Writer(r) /\ ~Extended(r)
  BY <1>1 DEF Writer, Extended
<1>4. ~Filling(pc[p], loc[p])
  BY <1>3 DEF Filling
<1>5. /\ s.call = r.call /\ s.blk = r.blk /\ s.size = r.size /\ s.bp = None
      /\ s.first = b /\ s.ret = r.ret
  BY <1>2 DEF Regs
<1>6. b = loc[p].bp /\ d = StartRead(c, b, none) /\ none \in SUBSET Flag
      /\ none \subseteq {"ASYNC"} /\ ~Writer(loc[p])
  BY <1>3
<1> HIDE DEF b, d, none, s
<1>7. ~Extended(s) /\ ~HasBp("readahead", s) /\ ~Clearing("readahead", s) /\ ~Filling("readahead", s)
  BY <1>3, <1>5 DEF Extended, HasBp, Clearing, Filling
<1>8. ASSUME NEW e, e.load = c.load, Valid(e, b), e.b_blkno[b] = c.b_blkno[b],
             e.b_bcount[b] = c.b_bcount[b]
      PROVE  Size(e, "readahead", s) /\ State(e, "readahead", s)
  <2>1. Asked(e, "readahead", s)
    BY <1>1, <1>2, <1>3, <1>5, <1>7, <1>8 DEF Asked
  <2>2. Place(e, "readahead", s)
    BY <1>1, <1>2, <1>5, <1>7, <1>8 DEF Place
  <2>3. State(e, "readahead", s)
    BY <1>7 DEF State
  <2>4. QED BY <2>1, <2>2, <2>3 DEF Size
<1>9. CASE "DONE" \in c.flags[b]
  <2>1. Goto(p, c, "readahead", s)
    BY <1>1, <1>9
  <2>2. Size(c, "readahead", s) /\ State(c, "readahead", s)
    BY <1>2, <1>8
  <2>3. QED BY <1>1, <1>4, <2>1, <2>2, Walks
<1>10. CASE "DONE" \notin c.flags[b]
  <2>1. Goto(p, d, "readahead", s)
    BY <1>1, <1>10
  <2>2. Moved(c, d, T) /\ Stays(c, d, b) /\ Single(d) /\ Valid(d, b) /\ (Trusted => Fine(d, T))
    BY <1>1, <1>6, <1>10, ReadData
  <2>3. Size(d, "readahead", s) /\ State(d, "readahead", s)
    BY <1>8, <2>2 DEF Moved, Stays
  <2> HIDE DEF T
  <2>4. QED BY <1>1, <1>2, <1>4, <2>1, <2>2, <2>3, EndsFine
<1>11. QED BY <1>9, <1>10

\* breada() has the block to read ahead: it is here, or is read.
LEMMA GotAheadSafe ==
  ASSUME IInv, IInv', SInv, NEW p \in Procs, GotAhead(p)
  PROVE  SInv' /\ (SizesAgree /\ CInv => CInv')
<1> DEFINE r == loc[p]
           b == r.bp
           on == {"ASYNC"}
           h == Brelse(c, b)
           f == StartRead(c, b, on)
           d == IF "DONE" \in c.flags[b] THEN h ELSE f
           T == {b}
<1>1. /\ pc[p] = "got" /\ c.slp[p] = None /\ cur \in {p, None}
      /\ loc[p].call.op = "breada" /\ BreadaEnd(p, d, loc[p])
  BY DEF GotAhead, At
<1>2. /\ b \in Buf /\ b \in Held(pc[p], loc[p]) /\ b # loc[p].first /\ b \notin c.io
  BY <1>1, GotHere
<1>3. ~Writer(loc[p]) /\ ~Filling(pc[p], loc[p])
  BY <1>1 DEF Writer, Extended, Filling
<1>4. b = loc[p].bp /\ h = Brelse(c, b) /\ f = StartRead(c, b, on) /\ on \in SUBSET Flag
      /\ on \subseteq {"ASYNC"}
  BY DEF Flag
<1> HIDE DEF b, h, f, on, r
<1>5. CASE "DONE" \in c.flags[b]
  <2>1. d = h
    BY <1>5
  <2>2. Moved(c, h, T) /\ Single(h) /\ (Trusted => Fine(h, T))
    BY <1>2, <1>3, <1>4, <1>5, GivesBack
  <2>3. T \subseteq Buf /\ \A t \in T : t \in Held(pc[p], loc[p]) /\ t # loc[p].first
    BY <1>2
  <2> HIDE DEF T, d
  <2>4. QED BY <1>1, <2>1, <2>2, <2>3, BreadaEndSafe
<1>6. CASE "DONE" \notin c.flags[b]
  <2>1. d = f
    BY <1>6
  <2>2. Moved(c, f, T) /\ Single(f) /\ (Trusted => Fine(f, T))
    BY <1>1, <1>3, <1>4, <1>6, ReadData
  <2>3. T \subseteq Buf /\ \A t \in T : t \in Held(pc[p], loc[p]) /\ t # loc[p].first
    BY <1>2
  <2> HIDE DEF T, d
  <2>4. QED BY <1>1, <2>1, <2>2, <2>3, BreadaEndSafe
<1>7. QED BY <1>5, <1>6

-----------------------------------------------------------------------------
(***************************************************************************)
(* The holder writes.                                                      *)
(***************************************************************************)

\* m is c with buffer b modified.
Has(m, b) ==
  /\ m \in Caches(Buf) /\ m.load = c.load /\ m.b_bufsize = c.b_bufsize
  /\ m.flags = c.flags /\ m.b_blkno = c.b_blkno /\ m.b_bcount = c.b_bcount /\ m.io = c.io
  /\ m.disk = c.disk \ Covers(c, b)
  /\ m.fresh[b] = c.fresh[b] \cup Covers(c, b)
  /\ \A x \in Buf \ {b} : m.fresh[x] = c.fresh[x] \ Covers(c, b)

LEMMA ModifiedData ==
  ASSUME IInv, SInv, NEW p \in Procs, NEW b \in Buf
  PROVE  Has(Modified(c, b), b)
<1> DEFINE fs == Covers(c, b)
           F == [e \in Buf |-> IF e = b THEN c.fresh[e] \cup fs ELSE c.fresh[e] \ fs]
           D == c.disk \ fs
           m == Modified(c, b)
<1>1. c \in Caches(Buf)
  BY Here
<1>2. fs \subseteq Int
  <2>1. c.b_blkno[b] \in Nat \cup {None} /\ c.b_bcount[b] \in Int
    BY <1>1, Fields
  <2>2. QED BY <2>1 DEF Covers, Fragments
<1>3. m = [c EXCEPT !.fresh = F, !.disk = D]
  BY DEF Modified
<1> HIDE DEF fs, m
<1>4. F \in [Buf -> SUBSET Int] /\ D \in SUBSET Int
  <2>1. c.fresh \in [Buf -> SUBSET Int] /\ c.disk \in SUBSET Int
    BY <1>1, Fields
  <2>2. D \in SUBSET Int
    BY <2>1
  <2>3. ASSUME NEW e \in Buf
        PROVE  (IF e = b THEN c.fresh[e] \cup fs ELSE c.fresh[e] \ fs) \in SUBSET Int
    <3>1. c.fresh[e] \in SUBSET Int
      BY <2>1
    <3>2. QED BY <1>2, <3>1
  <2>4. QED BY <2>2, <2>3
<1>5. F[b] = c.fresh[b] \cup fs /\ \A x \in Buf \ {b} : F[x] = c.fresh[x] \ fs
  OBVIOUS
<1>6. D = c.disk \ fs
  OBVIOUS
<1> HIDE DEF F, D
<1>7. /\ m \in Caches(Buf) /\ m.load = c.load /\ m.b_bufsize = c.b_bufsize
      /\ m.flags = c.flags /\ m.b_blkno = c.b_blkno /\ m.b_bcount = c.b_bcount /\ m.io = c.io
      /\ m.disk = D /\ m.fresh = F
  BY <1>1, <1>3, <1>4 DEF Caches
<1>8. QED BY <1>5, <1>6, <1>7 DEF Has, fs, m

\* What is known of a holder that may write.
LEMMA WriteHere ==
  ASSUME IInv, SInv, NEW p \in Procs, MayWrite(p), NEW b, b = loc[p].bp
  PROVE  /\ pc[p] = "hold" /\ c.slp[p] = None /\ cur \in {p, None}
         /\ c \in Caches(Buf) /\ loc[p] \in Regs(Buf) /\ Single(c)
         /\ b \in Buf /\ Valid(c, b) /\ b \notin c.io /\ "ASYNC" \notin c.flags[b]
         /\ "BUSY" \in c.flags[b] /\ "ERROR" \notin c.flags[b] /\ b \in Held(pc[p], loc[p])
         /\ \E w \in Loads[c.load].calls :
              Writes(w) /\ w.blk = c.b_blkno[b] /\ c.b_bcount[b] = Final(w)
<1> DEFINE r == loc[p]
<1>1. /\ pc[p] = "hold" /\ c.slp[p] = None /\ cur \in {p, None} /\ "ERROR" \notin c.flags[b]
      /\ r.call.op \in {"update", "write"} \/ Extended(r)
  BY DEF MayWrite, Holds, At, Extended
<1>2. HasBp(pc[p], r) /\ Getting(pc[p], r) /\ HasBp("hold", r)
  BY <1>1 DEF HasBp, Getting
<1>3. /\ b \in Buf /\ b \notin c.io /\ "ASYNC" \notin c.flags[b] /\ "BUSY" \in c.flags[b]
      /\ b \in Held(pc[p], r)
  BY <1>1, <1>2, InHand
<1>4. /\ Asked(c, "hold", r) /\ Place(c, "hold", r) /\ c.load \in DOMAIN Loads
      /\ c \in Caches(Buf) /\ r \in Regs(Buf) /\ Single(c)
  BY <1>1, <1>2, Here DEF Size
<1>5. Valid(c, b) /\ c.b_blkno[b] = r.blk /\ c.b_bcount[b] = r.size
  BY <1>2, <1>4 DEF Place
<1>6. PICK m \in Loads[c.load].calls :
        m.op \in Getblk /\ (r.call = m \/ (m.op = "breada" /\ r.call = BreadOf(m)))
  BY <1>4 DEF Asked
<1>7. m \in CallRec
  BY <1>4, BufAssumption DEF CallRec
<1>8. BreadOf(m).op = "read"
  BY <1>7 DEF BreadOf, CallRec
<1>9. r.call = m /\ m.op \in {"update", "write", "extend"}
  BY <1>1, <1>6, <1>8 DEF Extended
<1>10. m.blk = r.blk /\ r.size = Final(m) /\ Writes(m)
  BY <1>1, <1>4, <1>9 DEF Asked, Final, Extended, Writes
<1>11. QED BY <1>1, <1>3, <1>4, <1>5, <1>10

\* The end of a step that writes a buffer, now or later.
LEMMA EndsWrite ==
  ASSUME IInv, IInv', SInv, NEW p \in Procs, MayWrite(p), NEW b, b = loc[p].bp,
         NEW m, Has(m, b), NEW d, Moved(m, d, {b}), Stays(m, d, b),
         "INVAL" \in d.flags[b] <=> "INVAL" \in m.flags[b], Dirty(d, b),
         "DELWRI" \in d.flags[b] =>
           {"ERROR", "ASYNC"} \cap d.flags[b] = {} /\ b \notin d.io /\ "DONE" \in d.flags[b],
         NEW l, NEW r, Goto(p, d, l, r), ~Getting(l, r)
  PROVE  SInv' /\ (SizesAgree /\ CInv => CInv')
<1> DEFINE T == {b}
           fs == Covers(c, b)
<1>1. /\ pc[p] = "hold" /\ cur \in {p, None} /\ c \in Caches(Buf) /\ Single(c)
      /\ b \in Buf /\ Valid(c, b) /\ b \in Held(pc[p], loc[p])
      /\ \E w \in Loads[c.load].calls :
           Writes(w) /\ w.blk = c.b_blkno[b] /\ c.b_bcount[b] = Final(w)
  BY WriteHere
<1>2. /\ d.load = c.load /\ d.b_bufsize = c.b_bufsize /\ d.disk = c.disk \ fs
      /\ d.b_blkno[b] = c.b_blkno[b] /\ d.b_bcount[b] = c.b_bcount[b]
      /\ d.fresh[b] = c.fresh[b] \cup fs
      /\ "INVAL" \in d.flags[b] <=> "INVAL" \in c.flags[b]
  BY DEF Has, Moved, Stays
<1>3. Covers(d, b) = fs /\ Valid(d, b)
  BY <1>1, <1>2 DEF Covers, Valid
<1>4. ASSUME NEW x \in Buf \ T PROVE Near(c, d, x)
  <2>1. Like(m, d, x)
    BY DEF Moved
  <2>2. /\ d.b_blkno[x] = c.b_blkno[x] /\ d.b_bcount[x] = c.b_bcount[x]
        /\ (x \in d.io <=> x \in c.io) /\ d.fresh[x] = c.fresh[x] \ fs
        /\ \A f \in Marks : f \in d.flags[x] <=> f \in c.flags[x]
    BY <2>1 DEF Has, Like
  <2>3. Valid(c, x) => Covers(c, x) \cap fs = {}
    BY <1>1 DEF Single
  <2>4. QED BY <2>2, <2>3 DEF Near
<1>5. Turn(p, d, l, r, T)
  BY <1>1, <1>2, <1>4 DEF Turn, Changed
<1>6. Single(d)
  <2>1. ASSUME NEW x \in Buf, Valid(d, x) PROVE Valid(c, x) /\ Covers(d, x) \subseteq Covers(c, x)
    BY <1>1, <1>3, <1>4, <2>1, NearCovers
  <2>2. QED BY <1>1, <2>1, SingleKept
<1>7. Size(d, l, r) /\ State(d, l, r) /\ l # "allocbuf"
  BY DEF Getting, Size, State
<1>8. Whole(d, b)
  BY <1>2, <1>3 DEF Whole
<1>9. BufOK(d, b, FALSE)
  BY <1>1, <1>2, <1>3, <1>8 DEF BufOK
<1>10. ASSUME Trusted PROVE NoLoss(d)
  <2>1. NoLoss(c)
    BY <1>10, Here
  <2> SUFFICES ASSUME NEW f \in FragOf(d) PROVE f \in d.disk \/ Safe(d, f)
    BY DEF NoLoss
  <2>2. f \in FragOf(c)
    BY <1>2 DEF FragOf
  <2>3. CASE f \in fs
    BY <1>1, <1>2, <1>3, <2>3 DEF Safe
  <2>4. CASE f \notin fs /\ f \in c.disk
    BY <1>2, <2>4
  <2>5. CASE f \notin fs /\ f \notin c.disk
    <3>1. PICK x \in Buf : Valid(c, x) /\ Dirty(c, x) /\ f \in Covers(c, x) /\ f \in c.fresh[x]
      BY <2>1, <2>2, <2>5 DEF NoLoss, Safe
    <3>2. x \notin T
      BY <2>5, <3>1
    <3>3. Near(c, d, x)
      BY <1>4, <3>2
    <3>4. Valid(d, x) /\ f \in Covers(d, x) /\ f \in d.fresh[x]
      BY <3>1, <3>3, NearCovers DEF Near
    <3>5. Dirty(d, x)
      BY <3>1, <3>3 DEF Near, Dirty, Marks
    <3>6. QED BY <3>4, <3>5 DEF Safe
  <2>6. QED BY <2>3, <2>4, <2>5
<1>11. \A t \in T : BufOK(d, t, Filling(l, r) /\ r.bp = t)
  BY <1>9 DEF BufOK
<1>12. Filling(pc[p], loc[p]) => loc[p].bp \in T
  OBVIOUS
<1> HIDE DEF T
<1>13. Trusted => Told(p, d, l, r, T)
  BY <1>7, <1>10, <1>11, <1>12 DEF Told
<1>14. QED BY <1>5, <1>6, <1>7, <1>13, Ends

\* bdwrite().
LEMMA BdwriteSafe ==
  ASSUME IInv, IInv', SInv, NEW p \in Procs, Bdwrite(p)
  PROVE  SInv' /\ (SizesAgree /\ CInv => CInv')
<1> DEFINE b == loc[p].bp
           on == {"DELWRI", "DONE"}
           none == {}
           m == Modified(c, b)
           f == SetF(m, b, on, none)
           d == Brelse(f, b)
<1>1. MayWrite(p) /\ Goto(p, d, "idle", NoLoc) /\ b = loc[p].bp
  BY DEF Bdwrite, Return
<1>2. b \in Buf /\ "ERROR" \notin c.flags[b] /\ b \notin c.io
  BY <1>1, WriteHere
<1>3. Has(m, b)
  BY <1>2, ModifiedData
<1>4. on \in SUBSET Flag /\ f = SetF(m, b, on, none) /\ d = Brelse(f, b)
  BY DEF Flag
<1> HIDE DEF b, m, f, d, on, none
<1>5. m \in Caches(Buf) /\ m.flags = c.flags /\ m.io = c.io
  BY <1>3 DEF Has
<1>6. FlagsSet(m, b, on, none, f)
  BY <1>2, <1>4, <1>5, SetsFlags
<1>7. f \in Caches(Buf) /\ Moved(m, f, {b}) /\ Stays(m, f, b) /\ f.io = m.io
      /\ Marked(m, f, b, on, none)
  BY <1>6 DEF FlagsSet
<1>8. Released(f, b, d)
  BY <1>2, <1>4, <1>7, BrelseData
<1>9. "ERROR" \notin f.flags[b]
  BY <1>2, <1>5, <1>7 DEF Marked, Marks, on
<1>10. Moved(m, d, {b})
  BY <1>7, <1>8, MovedTwice DEF Released
<1>11. Stays(m, d, b)
  BY <1>7, <1>8, <1>9 DEF Released, Stays
<1>12. /\ "INVAL" \in d.flags[b] <=> "INVAL" \in m.flags[b]
       /\ "DELWRI" \in d.flags[b] /\ "DONE" \in d.flags[b]
       /\ "ERROR" \notin d.flags[b] /\ "ASYNC" \notin d.flags[b] /\ d.io = c.io
  BY <1>5, <1>7, <1>8, <1>9 DEF Released, Marked, Marks, on, none
<1>13. Dirty(d, b) /\ ~Getting("idle", NoLoc)
  BY <1>12 DEF Dirty, Getting
<1>14. QED BY <1>1, <1>2, <1>3, <1>10, <1>11, <1>12, <1>13, EndsWrite

\* A modified buffer on its way to the disk.
LEMMA WriteData ==
  ASSUME NEW m, NEW b \in Buf, Has(m, b), NEW f \in Caches(Buf), Moved(m, f, {b}),
         Stays(m, f, b), "INVAL" \in f.flags[b] <=> "INVAL" \in m.flags[b],
         NEW d, d = StartWrite(f, b)
  PROVE  /\ Moved(m, d, {b}) /\ Stays(m, d, b) /\ Dirty(d, b) /\ "DELWRI" \notin d.flags[b]
         /\ "INVAL" \in d.flags[b] <=> "INVAL" \in m.flags[b]
<1>1. /\ Moved(f, d, {b}) /\ Stays(f, d, b) /\ d.io = f.io \cup {b}
      /\ Marked(f, d, b, {}, {"READ", "DONE", "ERROR", "DELWRI"})
  BY StartWriteData
<1>2. Moved(m, d, {b})
  BY <1>1, MovedTwice
<1>3. QED BY <1>1, <1>2 DEF Stays, Marked, Marks, Dirty

\* bwrite() by the holder.
LEMMA BwriteCallSafe ==
  ASSUME IInv, IInv', SInv, NEW p \in Procs, BwriteCall(p)
  PROVE  SInv' /\ (SizesAgree /\ CInv => CInv')
<1> DEFINE b == loc[p].bp
           m == Modified(c, b)
           d == StartWrite(m, b)
<1>1. MayWrite(p) /\ Bwrite(p, m, b, "idle", loc[p]) /\ b = loc[p].bp
  BY DEF BwriteCall
<1>2. b \in Buf /\ "ASYNC" \notin c.flags[b] /\ loc[p] \in Regs(Buf)
  BY <1>1, WriteHere
<1>3. Has(m, b)
  BY <1>2, ModifiedData
<1>4. m \in Caches(Buf) /\ m.flags = c.flags
  BY <1>3 DEF Has
<1>5. PICK l, s : Goto(p, d, l, s) /\ l = "written" /\ s.ret = "idle"
  BY <1>1, <1>2, <1>4, BwriteGoes
<1>6. d = StartWrite(m, b)
  OBVIOUS
<1> HIDE DEF b, m, d
<1>7. Moved(m, m, {b}) /\ Stays(m, m, b)
  BY DEF Moved, Like, Stays
<1>8. /\ Moved(m, d, {b}) /\ Stays(m, d, b) /\ Dirty(d, b) /\ "DELWRI" \notin d.flags[b]
      /\ "INVAL" \in d.flags[b] <=> "INVAL" \in m.flags[b]
  BY <1>2, <1>3, <1>4, <1>6, <1>7, WriteData
<1>9. ~Getting(l, s)
  BY <1>5 DEF Getting
<1>10. QED BY <1>1, <1>3, <1>5, <1>8, <1>9, EndsWrite

\* bawrite().
LEMMA BawriteSafe ==
  ASSUME IInv, IInv', SInv, NEW p \in Procs, Bawrite(p)
  PROVE  SInv' /\ (SizesAgree /\ CInv => CInv')
<1> DEFINE b == loc[p].bp
           on == {"ASYNC"}
           none == {}
           m == Modified(c, b)
           f == SetF(m, b, on, none)
           d == StartWrite(f, b)
<1>1. MayWrite(p) /\ b = loc[p].bp
      /\ IF "DELWRI" \in f.flags[b] THEN Bwrite(p, f, b, "idle", NoLoc) ELSE Return(p, d)
  BY DEF Bawrite
<1>2. b \in Buf
  BY <1>1, WriteHere
<1>3. Has(m, b)
  BY <1>2, ModifiedData
<1>4. on \in SUBSET Flag /\ f = SetF(m, b, on, none)
  BY DEF Flag
<1> HIDE DEF m, f, on, none
<1>5. m \in Caches(Buf) /\ m.flags = c.flags
  BY <1>3 DEF Has
<1>6. FlagsSet(m, b, on, none, f)
  BY <1>2, <1>4, <1>5, SetsFlags
<1>7. f \in Caches(Buf) /\ Moved(m, f, {b}) /\ Stays(m, f, b) /\ Marked(m, f, b, on, none)
  BY <1>6 DEF FlagsSet
<1>8. "ASYNC" \in f.flags[b] /\ ("INVAL" \in f.flags[b] <=> "INVAL" \in m.flags[b])
  BY <1>7 DEF Marked, Marks, on, none
<1>9. PICK l, s : Goto(p, d, l, s) /\ ~Getting(l, s)
  <2>1. CASE "DELWRI" \in f.flags[b]
    <3>1. Bwrite(p, f, b, "idle", NoLoc) /\ NoLoc \in Regs(Buf)
      BY <1>1, <2>1, NoLocOK
    <3>2. PICK l, s : Goto(p, d, l, s) /\ l = "age" /\ s.ret = "idle"
      BY <1>8, <2>1, <3>1, BwriteGoes
    <3>3. ~Getting(l, s)
      BY <3>2 DEF Getting
    <3>4. QED BY <3>2, <3>3
  <2>2. CASE "DELWRI" \notin f.flags[b]
    <3>1. Goto(p, d, "idle", NoLoc) /\ ~Getting("idle", NoLoc)
      BY <1>1, <2>2 DEF Return, Getting
    <3>2. QED BY <3>1
  <2>3. QED BY <2>1, <2>2
<1>10. d = StartWrite(f, b)
  OBVIOUS
<1> HIDE DEF b, d
<1>11. /\ Moved(m, d, {b}) /\ Stays(m, d, b) /\ Dirty(d, b) /\ "DELWRI" \notin d.flags[b]
       /\ "INVAL" \in d.flags[b] <=> "INVAL" \in m.flags[b]
  BY <1>2, <1>3, <1>7, <1>8, <1>10, WriteData
<1>12. QED BY <1>1, <1>3, <1>9, <1>11, EndsWrite

-----------------------------------------------------------------------------
(***************************************************************************)
(* The device.                                                             *)
(***************************************************************************)

\* Who holds a buffer in transfer waits for it.
LEMMA InTransfer ==
  ASSUME IInv, SInv, NEW b \in Buf, b \in c.io \cup c.relvp, NEW q \in Procs
  PROVE  /\ HasBp(pc[q], loc[q]) /\ loc[q].bp = b =>
              pc[q] = "biowait" /\ State(c, "biowait", loc[q])
                                /\ (Getting("biowait", loc[q]) => ~Extended(loc[q]))
         /\ b \in Held(pc[q], loc[q]) => "ASYNC" \notin c.flags[b]
<1>1. /\ Local(c, pc[q], loc[q]) /\ Transfers(c) /\ Size(c, pc[q], loc[q])
      /\ \A x \in Held(pc[q], loc[q]) : Owned(c, x)
  BY Here DEF IInv
<1>2. b \in Held(pc[q], loc[q]) => "ASYNC" \notin c.flags[b]
  BY <1>1 DEF Owned
<1>3. ASSUME HasBp(pc[q], loc[q]), loc[q].bp = b
      PROVE  pc[q] = "biowait" /\ State(c, "biowait", loc[q])
             /\ (Getting("biowait", loc[q]) => ~Extended(loc[q]))
  <2>1. b \in Held(pc[q], loc[q])
    BY <1>3, HeldIs
  <2>2. b \in c.io
    BY <1>1, <2>1 DEF Owned
  <2>3. pc[q] = "biowait"
    BY <1>1, <1>3, <2>2 DEF Local
  <2>4. Getting("biowait", loc[q]) => ~Extended(loc[q])
    BY <1>1, <2>3 DEF Size, Asked
  <2>5. ~Clearing("biowait", loc[q])
    BY DEF Clearing
  <2>6. State(c, "biowait", loc[q])
    BY <2>4, <2>5 DEF State
  <2>7. QED BY <2>3, <2>4, <2>6
<1>4. QED BY <1>2, <1>3

\* The end of a transfer, which changes nothing that a process relies on.
LEMMA DeviceEnds ==
  ASSUME IInv, IInv', SInv, NEW b \in Buf, b \in c.io \cup c.relvp, NEW d, c' = d,
         UNCHANGED <<pc, loc, cur>>, Changed(c, d, {b}),
         Valid(d, b) => Valid(c, b) /\ Covers(d, b) = Covers(c, b),
         "ASYNC" \notin c.flags[b] =>
           /\ d.b_blkno[b] = c.b_blkno[b] /\ d.b_bcount[b] = c.b_bcount[b]
           /\ Valid(c, b) => Valid(d, b),
         Trusted => BufOK(d, b, FALSE) /\ NoLoss(d)
  PROVE  SInv' /\ (SizesAgree /\ CInv => CInv')
<1>1. /\ d.load = c.load /\ d.b_bufsize = c.b_bufsize /\ pc' = pc /\ loc' = loc /\ cur' = cur
      /\ \A x \in Buf \ {b} : Near(c, d, x)
  BY DEF Changed
<1>2. Buf' = Buf
  BY <1>1 DEF IInv
<1>3. \A x \in Buf : Valid(d, x) => Valid(c, x) /\ Covers(d, x) = Covers(c, x)
  BY <1>1, NearCovers
<1>4. Single(d)
  BY <1>3, SingleKept DEF SInv
<1>5. ASSUME NEW q \in Procs
      PROVE  Size(d, pc[q], loc[q]) /\ (Trusted => State(d, pc[q], loc[q]))
  <2>1. /\ Size(c, pc[q], loc[q]) /\ \A x \in Held(pc[q], loc[q]) : x \in Buf
        /\ c \in Caches(Buf) /\ loc[q] \in Regs(Buf)
        /\ Trusted => State(c, pc[q], loc[q])
    BY Here
  <2>2. \A x \in Held(pc[q], loc[q]) :
          /\ d.b_blkno[x] = c.b_blkno[x] /\ d.b_bcount[x] = c.b_bcount[x]
          /\ Valid(c, x) => Valid(d, x)
    BY <1>1, <2>1, NearCovers, InTransfer DEF Near
  <2>3. Size(d, pc[q], loc[q])
    BY <1>1, <1>3, <2>1, <2>2, SizeKept
  <2>4. CASE HasBp(pc[q], loc[q]) /\ loc[q].bp = b
    <3>1. pc[q] = "biowait" /\ (Getting("biowait", loc[q]) => ~Extended(loc[q]))
      BY <2>4, InTransfer
    <3>2. ~Clearing("biowait", loc[q])
      BY DEF Clearing
    <3>3. State(d, pc[q], loc[q])
      BY <3>1, <3>2 DEF State
    <3>4. QED BY <2>3, <3>3
  <2>5. CASE ~(HasBp(pc[q], loc[q]) /\ loc[q].bp = b)
    <3>1. HasBp(pc[q], loc[q]) => loc[q].bp \in Buf \ {b}
      BY <2>1, <2>5, HeldIs
    <3>2. HasBp(pc[q], loc[q]) /\ Getting(pc[q], loc[q]) =>
            LET x == loc[q].bp IN
            /\ d.b_bcount[x] = c.b_bcount[x]
            /\ \A f \in Marks : f \in d.flags[x] <=> f \in c.flags[x]
            /\ Covers(c, x) \cap c.fresh[x] \subseteq d.fresh[x]
      BY <1>1, <2>1, <3>1 DEF Near, Size, Place
    <3>3. HasBp(pc[q], loc[q]) /\ Extended(loc[q]) /\ Getting(pc[q], loc[q]) =>
            Fragments(loc[q].call.blk, loc[q].call.size) \subseteq Covers(c, loc[q].bp)
      BY <2>1, <3>1, ExtendedCovers
    <3>4. Trusted => State(d, pc[q], loc[q])
      BY <1>1, <2>1, <3>2, <3>3, StateKept DEF State
    <3>5. QED BY <2>3, <3>4
  <2>6. QED BY <2>4, <2>5
<1>6. SInv'
  <2>1. Single(c)'
    BY <1>2, <1>4 DEF Single, Valid, Covers
  <2>2. (c.b_bufsize = Space)'
    BY <1>1 DEF Space, SInv
  <2>3. ASSUME NEW q \in Procs PROVE Size(c, pc[q], loc[q])'
    BY <1>1, <1>2, <1>5 DEF Size, Asked, Place, Overlapping, Valid, Covers
  <2>4. \A q \in Procs : pc'[q] = "allocbuf" => cur' = q
    BY <1>1 DEF SInv
  <2>5. QED BY <2>1, <2>2, <2>3, <2>4 DEF SInv
<1>7. ASSUME SizesAgree, CInv, "write" \notin Errors PROVE CInv'
  <2>1. Trusted
    BY <1>7 DEF Trusted
  <2>2. ASSUME NEW x \in Buf PROVE BufOK(d, x, Filled(x))
    <3>1. CASE x = b
      BY <2>1, <3>1 DEF BufOK
    <3>2. CASE x # b
      <4>1. BufOK(c, x, Filled(x)) /\ Near(c, d, x) /\ Filled(x) \in BOOLEAN
        BY <1>1, <1>7, <3>2 DEF CInv, Filled
      <4>2. QED BY <1>1, <4>1, BufNear
    <3>3. QED BY <3>1, <3>2
  <2>3. (\A x \in Buf : BufOK(c, x, Filled(x)))'
    BY <1>1, <1>2, <2>2 DEF Filled
  <2>4. NoLoss(c)'
    BY <1>1, <1>2, <2>1 DEF NoLoss, Safe
  <2>5. \A q \in Procs : State(c, pc[q], loc[q])'
    BY <1>1, <1>2, <1>5, <2>1
  <2>6. QED BY <2>3, <2>4, <2>5 DEF CInv
<1>8. ASSUME "write" \in Errors PROVE CInv'
  BY <1>1, <1>8 DEF CInv, Errors
<1>9. QED BY <1>6, <1>7, <1>8

\* e is what biodone() of buffer b makes of d: the buffer keeps what it has,
\* but for the block of an asynchronous one that failed.
Over(d, b, e) ==
  /\ Moved(d, e, {b}) /\ e.io = d.io
  /\ e.b_bcount[b] = d.b_bcount[b] /\ e.fresh[b] = d.fresh[b]
  /\ e.b_blkno[b] = IF {"ERROR", "ASYNC"} \subseteq d.flags[b] THEN None ELSE d.b_blkno[b]
  /\ \A f \in {"DELWRI", "INVAL", "READ", "ERROR"} : f \in e.flags[b] <=> f \in d.flags[b]

LEMMA BiodoneCacheData ==
  ASSUME NEW d \in Caches(Buf), NEW b \in Buf, NEW e, e = BiodoneCache(d, b)
  PROVE  Over(d, b, e)
<1> DEFINE on == {"DONE"}
           none == {}
           want == {"WANTED"}
<1>1. on \in SUBSET Flag /\ none \subseteq want /\ want \subseteq {"WANTED"}
  BY DEF Flag
<1>2. ASSUME NEW off, off \subseteq {"WANTED"}, NEW h, h = SetF(d, b, on, off)
      PROVE  "ASYNC" \notin d.flags[b] => h \in Caches(Buf) /\ Over(d, b, h)
  <2>1. FlagsSet(d, b, on, off, h)
    BY <1>1, <1>2, SetsFlags
  <2>2. QED BY <1>2, <2>1 DEF FlagsSet, Over, Stays, Marked, Marks, on
<1>3. CASE "ASYNC" \notin d.flags[b]
  <2> DEFINE h == SetF(d, b, on, want)
  <2>1. e = Wakeup(h, b)
    BY <1>3 DEF BiodoneCache
  <2>2. h \in Caches(Buf) /\ Over(d, b, h)
    BY <1>1, <1>2, <1>3
  <2> HIDE DEF h, on, want
  <2>3. Moved(h, e, {}) /\ e.io = h.io /\ e.flags = h.flags
    BY <2>1, <2>2, WakeupData
  <2>4. e.b_bcount[b] = h.b_bcount[b] /\ e.fresh[b] = h.fresh[b] /\ e.b_blkno[b] = h.b_blkno[b]
    BY <2>3 DEF Moved, Like
  <2>5. Moved(d, e, {b})
    BY <2>2, <2>3 DEF Over, Moved, Like
  <2>6. QED BY <2>2, <2>3, <2>4, <2>5 DEF Over
<1>4. CASE "ASYNC" \in d.flags[b]
  <2> DEFINE h == SetF(d, b, on, none)
  <2>1. e = Brelse(h, b) /\ h = SetF(d, b, on, none)
    BY <1>4 DEF BiodoneCache
  <2> HIDE DEF h, on, none
  <2>2. FlagsSet(d, b, on, none, h)
    BY <1>1, <2>1, SetsFlags
  <2>3. h \in Caches(Buf) /\ Moved(d, h, {b}) /\ Stays(d, h, b) /\ h.io = d.io
        /\ Marked(d, h, b, on, none)
    BY <2>2 DEF FlagsSet
  <2>4. Released(h, b, e)
    BY <2>1, <2>3, BrelseData
  <2>5. Moved(d, e, {b})
    BY <2>3, <2>4, MovedTwice DEF Released
  <2>6. \A f \in {"DELWRI", "INVAL", "READ", "ERROR"} :
          (f \in h.flags[b] <=> f \in d.flags[b]) /\ (f \in e.flags[b] <=> f \in h.flags[b])
    BY <2>3, <2>4 DEF Released, Marked, Marks, on, none
  <2>7. e.b_blkno[b] = IF {"ERROR", "ASYNC"} \subseteq d.flags[b] THEN None ELSE d.b_blkno[b]
    BY <1>4, <2>3, <2>4, <2>6 DEF Released, Stays
  <2>8. QED BY <2>3, <2>4, <2>5, <2>6, <2>7 DEF Over, Released, Stays
<1>5. QED BY <1>3, <1>4

\* g is the cache when the transfer of buffer b has been made.
Copied(b, g) ==
  /\ g \in Caches(Buf) /\ g.load = c.load /\ g.b_bufsize = c.b_bufsize /\ g.io = c.io \ {b}
  /\ g.flags = c.flags /\ g.b_blkno = c.b_blkno /\ g.b_bcount = c.b_bcount
  /\ \A x \in Buf \ {b} : g.fresh[x] = c.fresh[x]
  /\ IF "READ" \in c.flags[b]
     THEN /\ g.disk = c.disk
          /\ g.fresh[b] = (c.fresh[b] \ Covers(c, b)) \cup (Covers(c, b) \cap c.disk)
     ELSE /\ g.fresh[b] = c.fresh[b]
          /\ g.disk = (c.disk \ Covers(c, b)) \cup (Covers(c, b) \cap c.fresh[b])

LEMMA TransferredData ==
  ASSUME c \in Caches(Buf), NEW b \in Buf, NEW g,
         g = [Transferred(c, b) EXCEPT !.io = @ \ {b}]
  PROVE  Copied(b, g)
<1> DEFINE fs == Covers(c, b)
           fr == [c.fresh EXCEPT ![b] = (c.fresh[b] \ fs) \cup (fs \cap c.disk)]
           dk == (c.disk \ fs) \cup (fs \cap c.fresh[b])
           io == c.io \ {b}
<1>1. /\ c.fresh \in [Buf -> SUBSET Int] /\ c.disk \in SUBSET Int /\ c.io \in SUBSET Buf
  BY Fields
<1>2. /\ fr \in [Buf -> SUBSET Int] /\ fr[b] = (c.fresh[b] \ fs) \cup (fs \cap c.disk)
      /\ \A x \in Buf \ {b} : fr[x] = c.fresh[x]
      /\ dk \in SUBSET Int /\ io \in SUBSET Buf
  BY <1>1
<1>3. /\ "READ" \in c.flags[b] => g = [c EXCEPT !.fresh = fr, !.io = io]
      /\ "READ" \notin c.flags[b] => g = [c EXCEPT !.disk = dk, !.io = io]
  BY DEF Transferred, Caches
<1> HIDE DEF fr, dk, io
<1>4. CASE "READ" \in c.flags[b]
  <2>1. g = [c EXCEPT !.fresh = fr, !.io = io]
    BY <1>3, <1>4
  <2>2. /\ g \in Caches(Buf) /\ g.load = c.load /\ g.b_bufsize = c.b_bufsize /\ g.io = io
        /\ g.flags = c.flags /\ g.b_blkno = c.b_blkno /\ g.b_bcount = c.b_bcount
        /\ g.fresh = fr /\ g.disk = c.disk
    BY <1>2, <2>1 DEF Caches
  <2>3. QED BY <1>2, <1>4, <2>2 DEF Copied, io
<1>5. CASE "READ" \notin c.flags[b]
  <2>1. g = [c EXCEPT !.disk = dk, !.io = io]
    BY <1>3, <1>5
  <2>2. /\ g \in Caches(Buf) /\ g.load = c.load /\ g.b_bufsize = c.b_bufsize /\ g.io = io
        /\ g.flags = c.flags /\ g.b_blkno = c.b_blkno /\ g.b_bcount = c.b_bcount
        /\ g.fresh = c.fresh /\ g.disk = dk
    BY <1>2, <2>1 DEF Caches
  <2>3. QED BY <1>5, <2>2 DEF Copied, io, dk
<1>6. QED BY <1>4, <1>5

\* A buffer in transfer has the whole of what it writes, and no delayed write.
LEMMA InTransferIs ==
  ASSUME IInv, SInv, Trusted, NEW b \in Buf, b \in c.io \cup c.relvp
  PROVE  /\ BufOK(c, b, FALSE) /\ NoLoss(c) /\ Single(c) /\ "DELWRI" \notin c.flags[b]
         /\ Dirty(c, b) => b \in c.io /\ "READ" \notin c.flags[b] /\ Valid(c, b) /\ Whole(c, b)
<1>1. NoLoss(c) /\ Single(c) /\ BufOK(c, b, Filled(b)) /\ Transfers(c)
  BY DEF Trusted, CInv, SInv, IInv
<1>2. ~Filled(b)
  <2> SUFFICES ASSUME NEW q \in Procs, Filling(pc[q], loc[q]), loc[q].bp = b PROVE FALSE
    BY DEF Filled
  <2>1. HasBp(pc[q], loc[q]) /\ pc[q] # "biowait"
    BY HeldIs DEF Filling
  <2>2. QED BY <2>1, InTransfer
<1>3. BufOK(c, b, FALSE)
  BY <1>1, <1>2 DEF BufOK
<1>4. b \in c.relvp => "ASYNC" \in c.flags[b]
  BY <1>1 DEF Transfers
<1>5. "DELWRI" \notin c.flags[b]
  BY <1>3, <1>4 DEF BufOK
<1>6. QED BY <1>1, <1>3, <1>5 DEF BufOK, Dirty

\* The transfer ends: what was read is the last copy, for no other buffer
\* had one, and the disk has what was written.
LEMMA BiodoneSafe ==
  ASSUME IInv, IInv', SInv, NEW b \in Buf, Biodone(b)
  PROVE  SInv' /\ (SizesAgree /\ CInv => CInv')
<1> DEFINE g == [Transferred(c, b) EXCEPT !.io = @ \ {b}]
           d == BiodoneCache(g, b)
           fs == Covers(c, b)
<1>1. b \in c.io /\ c' = d /\ UNCHANGED <<pc, loc, cur>>
  BY DEF Biodone
<1>2. c \in Caches(Buf)
  BY DEF IInv
<1>3. Copied(b, g)
  BY <1>2, TransferredData
<1> HIDE DEF g
<1>4. g \in Caches(Buf)
  BY <1>3 DEF Copied
<1>5. Over(g, b, d)
  BY <1>4, BiodoneCacheData
<1> HIDE DEF d
<1>6. /\ d.load = c.load /\ d.b_bufsize = c.b_bufsize /\ d.disk = g.disk /\ d.io = c.io \ {b}
      /\ d.b_bcount[b] = c.b_bcount[b] /\ d.fresh[b] = g.fresh[b]
      /\ d.b_blkno[b] = IF {"ERROR", "ASYNC"} \subseteq c.flags[b] THEN None ELSE c.b_blkno[b]
      /\ \A f \in {"DELWRI", "INVAL", "READ", "ERROR"} : f \in d.flags[b] <=> f \in c.flags[b]
  BY <1>3, <1>5 DEF Over, Copied, Moved
<1>7. \A x \in Buf \ {b} : Near(c, d, x)
  BY <1>3, <1>5 DEF Over, Copied, Moved, Like, Near
<1>8. Changed(c, d, {b})
  BY <1>6, <1>7 DEF Changed
<1>9. Valid(d, b) => Valid(c, b) /\ Covers(d, b) = fs
  BY <1>6 DEF Valid, Covers
<1>10. "ASYNC" \notin c.flags[b] =>
         /\ d.b_blkno[b] = c.b_blkno[b] /\ d.b_bcount[b] = c.b_bcount[b]
         /\ Valid(c, b) => Valid(d, b)
  BY <1>6 DEF Valid
<1>11. ASSUME Trusted PROVE BufOK(d, b, FALSE) /\ NoLoss(d)
  <2>1. /\ NoLoss(c) /\ Single(c) /\ "DELWRI" \notin c.flags[b]
        /\ Dirty(c, b) => "READ" \notin c.flags[b] /\ Valid(c, b) /\ Whole(c, b)
    BY <1>1, <1>11, InTransferIs
  <2>2. FragOf(d) = FragOf(c)
    BY <1>6 DEF FragOf
  <2>3. ASSUME NEW f \in FragOf(c), NEW x \in Buf, Valid(c, x), Dirty(c, x),
               f \in Covers(c, x), f \in c.fresh[x], x # b
        PROVE  Safe(d, f)
    <3>1. Near(c, d, x)
      BY <1>7, <2>3
    <3>2. Valid(d, x) /\ f \in Covers(d, x) /\ f \in d.fresh[x]
      BY <2>3, <3>1, NearCovers DEF Near
    <3>3. Dirty(d, x)
      BY <2>3, <3>1 DEF Near, Dirty, Marks
    <3>4. QED BY <3>2, <3>3 DEF Safe
  <2>4. CASE "READ" \in c.flags[b]
    <3>1. g.disk = c.disk /\ g.fresh[b] = (c.fresh[b] \ fs) \cup (fs \cap c.disk)
      BY <1>3, <2>4 DEF Copied
    <3>2. ~Dirty(c, b)
      BY <2>1, <2>4
    <3>3. Valid(d, b) => Whole(d, b)
      <4> SUFFICES ASSUME Valid(d, b), NEW f \in fs \cap FragOf(c) PROVE f \in c.disk
        BY <1>6, <1>9, <2>2, <3>1 DEF Whole
      <4>1. Valid(c, b)
        BY <1>9
      <4>2. ~Safe(c, f)
        BY <2>1, <3>2, <4>1 DEF Safe, Single
      <4>3. QED BY <2>1, <4>2 DEF NoLoss
    <3>4. BufOK(d, b, FALSE)
      BY <1>6, <2>1, <3>3 DEF BufOK, Dirty
    <3>5. NoLoss(d)
      <4> SUFFICES ASSUME NEW f \in FragOf(c) PROVE f \in d.disk \/ Safe(d, f)
        BY <2>2 DEF NoLoss
      <4>1. f \in c.disk \/ Safe(c, f)
        BY <2>1 DEF NoLoss
      <4>2. ASSUME Safe(c, f) PROVE Safe(d, f)
        <5>1. PICK x \in Buf : Valid(c, x) /\ Dirty(c, x) /\ f \in Covers(c, x) /\ f \in c.fresh[x]
          BY <4>2 DEF Safe
        <5>2. QED BY <2>3, <3>2, <5>1
      <4>3. QED BY <1>6, <3>1, <4>1, <4>2
    <3>6. QED BY <3>4, <3>5
  <2>5. CASE "READ" \notin c.flags[b]
    <3>1. /\ g.fresh[b] = c.fresh[b]
          /\ g.disk = (c.disk \ fs) \cup (fs \cap c.fresh[b])
      BY <1>3, <2>5 DEF Copied
    <3>2. Whole(c, b)
      BY <1>1, <2>1, <2>5 DEF Dirty
    <3>3. Valid(d, b) => Whole(d, b)
      BY <1>6, <1>9, <2>2, <3>1, <3>2 DEF Whole
    <3>4. BufOK(d, b, FALSE)
      BY <1>6, <2>1, <3>3 DEF BufOK, Dirty
    <3>5. NoLoss(d)
      <4> SUFFICES ASSUME NEW f \in FragOf(c) PROVE f \in d.disk \/ Safe(d, f)
        BY <2>2 DEF NoLoss
      <4>1. f \in fs => f \in d.disk
        BY <1>6, <3>1, <3>2 DEF Whole
      <4>2. f \in c.disk => f \in d.disk
        BY <1>6, <3>1, <4>1
      <4>3. ASSUME f \notin c.disk, f \notin fs PROVE Safe(d, f)
        <5>1. Safe(c, f)
          BY <2>1, <4>3 DEF NoLoss
        <5>2. PICK x \in Buf : Valid(c, x) /\ Dirty(c, x) /\ f \in Covers(c, x) /\ f \in c.fresh[x]
          BY <5>1 DEF Safe
        <5>3. QED BY <2>3, <4>3, <5>2
      <4>4. QED BY <4>1, <4>2, <4>3
    <3>6. QED BY <3>4, <3>5
  <2>6. QED BY <2>4, <2>5
<1>12. QED BY <1>1, <1>8, <1>9, <1>10, <1>11, DeviceEnds

\* The end of a transfer that fails.
LEMMA Fails ==
  ASSUME IInv, IInv', SInv, NEW b \in Buf, b \in c.io \cup c.relvp, NEW d, c' = d,
         UNCHANGED <<pc, loc, cur>>, Moved(c, d, {b}), b \notin d.io,
         d.b_bcount[b] = c.b_bcount[b],
         \A f \in {"DELWRI", "INVAL"} : f \in d.flags[b] <=> f \in c.flags[b],
         d.b_blkno[b] = c.b_blkno[b] \/ (d.b_blkno[b] = None /\ "ASYNC" \in c.flags[b]),
         "ERROR" \in d.flags[b] \/ d.b_blkno[b] = None,
         Trusted => ~Dirty(c, b)
  PROVE  SInv' /\ (SizesAgree /\ CInv => CInv')
<1>1. Changed(c, d, {b})
  BY MovedIsChanged
<1>2. Valid(d, b) => Valid(c, b) /\ Covers(d, b) = Covers(c, b)
  BY DEF Valid, Covers
<1>3. "ASYNC" \notin c.flags[b] =>
        /\ d.b_blkno[b] = c.b_blkno[b] /\ d.b_bcount[b] = c.b_bcount[b]
        /\ Valid(c, b) => Valid(d, b)
  BY DEF Valid
<1>4. ASSUME Trusted PROVE BufOK(d, b, FALSE) /\ NoLoss(d)
  <2>1. NoLoss(c) /\ "DELWRI" \notin c.flags[b]
    BY <1>4, InTransferIs
  <2>2. BufOK(d, b, FALSE)
    BY <2>1 DEF BufOK, Dirty, Valid
  <2>3. d.load = c.load /\ c.disk \subseteq d.disk
    BY DEF Moved
  <2>4. \A t \in Buf : Keeping(c, d, t)
    <3>1. Keeping(c, d, b)
      BY <1>4 DEF Keeping
    <3>2. \A t \in Buf \ {b} : Keeping(c, d, t)
      BY LikeKeeping DEF Moved
    <3>3. QED BY <3>1, <3>2
  <2>5. NoLoss(d)
    BY <2>1, <2>3, <2>4, LossKept
  <2>6. QED BY <2>2, <2>5
<1>5. QED BY <1>1, <1>2, <1>3, <1>4, DeviceEnds

LEMMA BiodoneErrorSafe ==
  ASSUME IInv, IInv', SInv, NEW b \in Buf, BiodoneError(b)
  PROVE  SInv' /\ (SizesAgree /\ CInv => CInv')
<1> DEFINE io == c.io \ {b}
           h == [c EXCEPT !.io = io]
           on == {"ERROR"}
           fin == {"DONE"}
           none == {}
           s == SetF(h, b, on, none)
           t == SetF(s, b, fin, none)
           w == BrelseWake(t, b)
           rv == w.relvp \cup {b}
           d == IF LastRef /\ "ASYNC" \in c.flags[b] THEN [w EXCEPT !.relvp = rv]
                ELSE BiodoneCache(s, b)
<1>1. /\ b \in c.io /\ c' = d /\ UNCHANGED <<pc, loc, cur>>
      /\ (IF "READ" \in c.flags[b] THEN "read" ELSE "write") \in Errors
  BY DEF BiodoneError
<1>2. c \in Caches(Buf) /\ c.io \in SUBSET Buf
  BY Fields DEF IInv
<1>3. on \in SUBSET Flag /\ fin \in SUBSET Flag
  BY DEF Flag
<1>4. /\ h \in Caches(Buf) /\ Moved(c, h, {b}) /\ Stays(c, h, b) /\ h.io = io /\ h.flags = c.flags
  <2>1. io \in SUBSET Buf /\ \A x \in Buf \ {b} : x \in io <=> x \in c.io
    BY <1>2
  <2> HIDE DEF io
  <2>2. /\ h \in Caches(Buf) /\ h.flags = c.flags /\ h.load = c.load /\ h.io = io
        /\ h.b_blkno = c.b_blkno /\ h.b_bcount = c.b_bcount
        /\ h.b_bufsize = c.b_bufsize /\ h.fresh = c.fresh /\ h.disk = c.disk
    BY <1>2, <2>1 DEF Caches
  <2>3. QED BY <2>1, <2>2 DEF Moved, Like, Stays
<1>5. s = SetF(h, b, on, none) /\ t = SetF(s, b, fin, none)
  OBVIOUS
<1>6. d = IF LastRef /\ "ASYNC" \in c.flags[b] THEN [w EXCEPT !.relvp = rv]
          ELSE BiodoneCache(s, b)
  OBVIOUS
<1>7. w = BrelseWake(t, b) /\ rv = w.relvp \cup {b}
  OBVIOUS
<1> HIDE DEF h, on, fin, none, s, t, w, rv, d
<1>8. FlagsSet(h, b, on, none, s)
  BY <1>3, <1>4, <1>5, SetsFlags
<1>9. /\ s \in Caches(Buf) /\ Moved(h, s, {b}) /\ Stays(h, s, b) /\ s.io = h.io
      /\ Marked(h, s, b, on, none)
  BY <1>8 DEF FlagsSet
<1>10. Moved(c, s, {b})
  BY <1>4, <1>9, MovedTwice
<1>11. /\ \A f \in {"DELWRI", "INVAL", "ASYNC"} : f \in s.flags[b] <=> f \in c.flags[b]
       /\ "ERROR" \in s.flags[b] /\ b \notin s.io
       /\ s.b_bcount[b] = c.b_bcount[b] /\ s.b_blkno[b] = c.b_blkno[b]
  BY <1>4, <1>9 DEF Marked, Marks, Stays, on, none
<1>12. Trusted => ~Dirty(c, b)
  <2>1. Trusted => "DELWRI" \notin c.flags[b]
    BY <1>1, InTransferIs
  <2>2. Trusted => "READ" \in c.flags[b]
    BY <1>1 DEF Trusted
  <2>3. QED BY <2>1, <2>2 DEF Dirty
<1>13. CASE ~(LastRef /\ "ASYNC" \in c.flags[b])
  <2>1. d = BiodoneCache(s, b)
    BY <1>6, <1>13
  <2>2. Over(s, b, d)
    BY <1>9, <2>1, BiodoneCacheData
  <2>3. Moved(c, d, {b})
    BY <1>10, <2>2, MovedTwice DEF Over
  <2>4. /\ b \notin d.io /\ d.b_bcount[b] = c.b_bcount[b] /\ "ERROR" \in d.flags[b]
        /\ \A f \in {"DELWRI", "INVAL"} : f \in d.flags[b] <=> f \in c.flags[b]
        /\ d.b_blkno[b] = c.b_blkno[b] \/ (d.b_blkno[b] = None /\ "ASYNC" \in c.flags[b])
    BY <1>11, <2>2 DEF Over
  <2>5. QED BY <1>1, <1>12, <2>3, <2>4, Fails
<1>14. CASE LastRef /\ "ASYNC" \in c.flags[b]
  <2>1. d = [w EXCEPT !.relvp = rv]
    BY <1>6, <1>14
  <2>2. FlagsSet(s, b, fin, none, t)
    BY <1>3, <1>5, <1>9, SetsFlags
  <2>3. /\ t \in Caches(Buf) /\ Moved(s, t, {b}) /\ Stays(s, t, b) /\ t.io = s.io
        /\ Marked(s, t, b, fin, none)
    BY <2>2 DEF FlagsSet
  <2>4. /\ w \in Caches(Buf) /\ Moved(t, w, {}) /\ w.io = t.io /\ w.flags = t.flags
    BY <1>7, <2>3, BrelseWakeData
  <2>5. /\ d.load = w.load /\ d.b_bufsize = w.b_bufsize /\ d.disk = w.disk /\ d.io = w.io
        /\ d.flags = w.flags /\ d.b_blkno = w.b_blkno /\ d.b_bcount = w.b_bcount
        /\ d.fresh = w.fresh
    BY <2>1, <2>4 DEF Caches
  <2>6. Moved(c, d, {b})
    <3>1. Moved(w, d, {b}) /\ Moved(t, w, {b})
      BY <2>4, <2>5 DEF Moved, Like
    <3>2. Moved(c, t, {b})
      BY <1>10, <2>3, MovedTwice
    <3>3. QED BY <3>1, <3>2, MovedTwice
  <2>7. w.b_bcount[b] = t.b_bcount[b] /\ w.b_blkno[b] = t.b_blkno[b]
    BY <2>4 DEF Moved, Like
  <2>8. /\ b \notin d.io /\ d.b_bcount[b] = c.b_bcount[b] /\ "ERROR" \in d.flags[b]
        /\ \A f \in {"DELWRI", "INVAL"} : f \in d.flags[b] <=> f \in c.flags[b]
        /\ d.b_blkno[b] = c.b_blkno[b]
    BY <1>11, <2>3, <2>4, <2>5, <2>7 DEF Stays, Marked, Marks, fin, none
  <2>9. QED BY <1>1, <1>12, <2>6, <2>8, Fails
<1>15. QED BY <1>13, <1>14

\* brelvp() comes back, and brelse() goes on.
LEMMA RelvpReturnsSafe ==
  ASSUME IInv, IInv', SInv, NEW b \in Buf, RelvpReturns(b)
  PROVE  SInv' /\ (SizesAgree /\ CInv => CInv')
<1> DEFINE rv == c.relvp \ {b}
           h == [c EXCEPT !.relvp = rv]
           s == Brelvp(h, b)
           d == BrelseFree(s, b)
<1>1. b \in c.relvp /\ c' = d /\ UNCHANGED <<pc, loc, cur>>
  BY DEF RelvpReturns
<1>2. c \in Caches(Buf) /\ rv \in SUBSET Buf /\ Transfers(c)
  BY Fields DEF IInv
<1> HIDE DEF rv
<1>3. /\ h \in Caches(Buf) /\ h.flags = c.flags /\ h.load = c.load /\ h.io = c.io
      /\ h.b_blkno = c.b_blkno /\ h.b_bcount = c.b_bcount
      /\ h.b_bufsize = c.b_bufsize /\ h.fresh = c.fresh /\ h.disk = c.disk
  BY <1>2 DEF Caches
<1> HIDE DEF h
<1>4. /\ s \in Caches(Buf) /\ Moved(h, s, {b}) /\ s.b_blkno[b] = None
      /\ s.b_bcount = h.b_bcount /\ s.io = h.io /\ s.flags = h.flags
  BY <1>3, BrelvpData
<1> HIDE DEF s
<1>5. /\ Moved(s, d, {b}) /\ Stays(s, d, b) /\ d.io = s.io
      /\ Marked(s, d, b, {}, {"WANTED", "BUSY", "ASYNC", "AGE"})
  BY <1>4, BrelseFreeData
<1>6. d = BrelseFree(s, b)
  OBVIOUS
<1> HIDE DEF d
<1>7. Moved(c, d, {b})
  <2>1. Moved(c, h, {b})
    BY <1>3 DEF Moved, Like
  <2>2. QED BY <1>4, <1>5, <2>1, MovedTwice
<1>8. b \notin c.io /\ "ASYNC" \in c.flags[b]
  BY <1>1, <1>2 DEF Transfers
<1>9. /\ b \notin d.io /\ d.b_bcount[b] = c.b_bcount[b] /\ d.b_blkno[b] = None
      /\ \A f \in {"DELWRI", "INVAL"} : f \in d.flags[b] <=> f \in c.flags[b]
  BY <1>3, <1>4, <1>5, <1>8 DEF Stays, Marked, Marks
<1>10. Trusted => ~Dirty(c, b)
  BY <1>1, <1>8, InTransferIs DEF Dirty
<1>11. QED BY <1>1, <1>7, <1>8, <1>9, <1>10, Fails

-----------------------------------------------------------------------------
(***************************************************************************)
(* The invariants hold, and what they are for.                             *)
(***************************************************************************)

\* binit() leaves no buffer with a block and everything on the disk.
LEMMA StartsSafe ==
  ASSUME Init
  PROVE  SInv /\ CInv
<1>1. PICK i \in DOMAIN Loads : c = Binit(i)
  BY DEF Init
<1>2. /\ c.load = i /\ c.b_bufsize = Loads[i].space /\ c.io = {}
      /\ c.disk = 0 .. Loads[i].frags - 1
      /\ Buf = Range(Loads[i].bufs) /\ \A b \in Buf : c.flags[b] = {"INVAL"}
  BY <1>1 DEF Binit, Buf
<1>3. \A p \in Procs : pc[p] = "idle" /\ loc[p] = NoLoc
  BY DEF Init
<1>4. ~Getting("idle", NoLoc)
  BY DEF Getting
<1>5. \A b \in Buf : ~Valid(c, b)
  BY <1>2 DEF Valid
<1>6. SInv
  BY <1>2, <1>3, <1>4, <1>5 DEF SInv, Single, Size, Space
<1>7. \A b \in Buf : BufOK(c, b, Filled(b))
  BY <1>2, <1>5 DEF BufOK, Dirty
<1>8. NoLoss(c)
  BY <1>2 DEF NoLoss, FragOf
<1>9. \A p \in Procs : State(c, pc[p], loc[p])
  BY <1>3, <1>4 DEF State
<1>10. QED BY <1>6, <1>7, <1>8, <1>9 DEF CInv

\* Every operation of a process and of the device keeps the invariants.
LEMMA NextSafe ==
  ASSUME Roomy, IInv, IInv', SInv, [Next]_vars
  PROVE  SInv' /\ (SizesAgree /\ CInv => CInv')
<1>1. ASSUME NEW p \in Procs, Step(p) PROVE SInv' /\ (SizesAgree /\ CInv => CInv')
  <2>1. CASE Call(p) \/ GetblkBusy(p) \/ GetblkHit(p) \/ GetblkMiss(p)
    BY <2>1, CallSafe, GetblkBusySafe, GetblkHitSafe, GetblkMissSafe
  <2>2. CASE GetnewbufSleep(p) \/ GetnewbufWrite(p) \/ Getnewbuf(p) \/ AllocbufTake(p)
    BY <2>2, GetnewbufSleepSafe, GetnewbufWriteSafe, GetnewbufSafe, AllocbufTakeNever
  <2>3. CASE Brealloc(p) \/ BreallocOverlap(p) \/ BreallocAlone(p) \/ Allocbuf(p)
    BY <2>3, BreallocSafe, BreallocOverlapSafe, BreallocAloneSafe, AllocbufSafe
  <2>4. CASE \/ GotRead(p) \/ GotWrite(p) \/ GotExtended(p) \/ GotFirst(p)
             \/ Readahead(p) \/ GotAhead(p) \/ Biowait(p)
    BY <2>4, GotReadSafe, GotWriteSafe, GotExtendedSafe, GotFirstSafe, ReadaheadSafe,
       GotAheadSafe, BiowaitSafe
  <2>5. CASE Release(p) \/ Extend(p) \/ Bdwrite(p) \/ BwriteCall(p) \/ Bawrite(p)
    BY <2>5, ReleaseSafe, ExtendSafe, BdwriteSafe, BwriteCallSafe, BawriteSafe
  <2>6. CASE BwriteAge(p) \/ BwriteWait(p) \/ Blkflush(p) \/ Bflush(p) \/ Binvalfree(p)
    BY <2>6, BwriteAgeSafe, BwriteWaitSafe, BlkflushSafe, BflushSafe, BinvalfreeSafe
  <2>7. QED BY <1>1, <2>1, <2>2, <2>3, <2>4, <2>5, <2>6 DEF Step
<1>2. ASSUME NEW b \in Buf, Biodone(b) \/ BiodoneError(b) \/ RelvpReturns(b)
      PROVE  SInv' /\ (SizesAgree /\ CInv => CInv')
  BY <1>2, BiodoneSafe, BiodoneErrorSafe, RelvpReturnsSafe
<1>3. CASE UNCHANGED vars
  <2>1. c' = c /\ pc' = pc /\ loc' = loc /\ cur' = cur
    BY <1>3 DEF vars
  <2>2. SInv'
    BY <2>1 DEF SInv, Single, Size, Asked, Place, Space, Overlapping, Valid, Covers, Buf
  <2>3. CInv => CInv'
    BY <2>1 DEF CInv, BufOK, Filled, NoLoss, Safe, State, Errors, Buf
  <2>4. QED BY <2>2, <2>3
<1>4. QED BY <1>1, <1>2, <1>3 DEF Next

\* What the invariant says of a buffer in hand: who has read a block has the
\* fragments it asked for as they were last written.
LEMMA HolderSees ==
  ASSUME IInv, SInv, CInv, SizesAgree
  PROVE  Coherent
<1> SUFFICES ASSUME "write" \notin Errors, NEW p \in Procs, pc[p] = "hold",
                    "ERROR" \notin c.flags[loc[p].bp], loc[p].call.op # "write"
             PROVE  Fragments(loc[p].blk, loc[p].call.size) \subseteq c.fresh[loc[p].bp]
  BY DEF Coherent
<1> DEFINE r == loc[p]
           b == r.bp
<1>1. Trusted /\ HasBp("hold", r) /\ Getting("hold", r)
  BY DEF Trusted, HasBp, Getting
<1>2. /\ b \in Buf /\ b \in Held(pc[p], r)
  BY <1>1, InHand
<1>3. /\ Size(c, "hold", r) /\ State(c, "hold", r) /\ c.load \in DOMAIN Loads
      /\ BufOK(c, b, Filling("hold", r) /\ r.bp = b) /\ c \in Caches(Buf)
  BY <1>1, <1>2, Here, BufHere
<1>4. Asked(c, "hold", r) /\ Place(c, "hold", r)
  BY <1>1, <1>3 DEF Size
<1>5. /\ Valid(c, b) /\ c.b_blkno[b] = r.call.blk /\ r.blk = r.call.blk
      /\ c.b_bcount[b] = r.size
  BY <1>1, <1>4 DEF Place
<1> HIDE DEF r, b
<1>6. Fragments(r.call.blk, r.call.size) \subseteq FragOf(c)
  <2>1. PICK m \in Loads[c.load].calls :
          r.call = m \/ (m.op = "breada" /\ r.call = BreadOf(m))
    BY <1>4 DEF Asked
  <2>2. /\ m \in [op : Op, blk : Nat, size : Nat, to : Nat]
        /\ m.blk \in 0 .. Loads[c.load].frags - 1
        /\ m.size \in 1 .. Loads[c.load].frags - m.blk /\ Loads[c.load].frags \in Nat
    BY <1>3, BufAssumption
  <2>3. r.call.blk = m.blk /\ r.call.size = m.size
    BY <2>1, <2>2 DEF BreadOf
  <2>4. m.blk \in Nat /\ m.size \in Nat /\ m.blk + m.size <= Loads[c.load].frags
    BY <2>2
  <2>5. QED BY <2>2, <2>3, <2>4 DEF Fragments, FragOf
<1>7. CASE Extended(r)
  <2>1. Fragments(r.call.blk, r.call.size) \cap FragOf(c) \subseteq c.fresh[b]
    BY <1>1, <1>3, <1>7 DEF State, r, b
  <2>2. QED BY <1>5, <1>6, <2>1 DEF r, b
<1>8. CASE ~Extended(r)
  <2>1. ~Writer(r) /\ r.size = r.call.size
    BY <1>4, <1>8 DEF Writer, Asked, r
  <2>2. "DONE" \in c.flags[b]
    BY <1>1, <1>3, <2>1 DEF State, r, b
  <2>3. ~(Filling("hold", r) /\ r.bp = b)
    BY <2>1 DEF Filling
  <2>4. Whole(c, b)
    BY <1>3, <1>5, <2>2, <2>3 DEF BufOK, r, b
  <2>5. Covers(c, b) = Fragments(r.call.blk, r.call.size)
    BY <1>5, <2>1 DEF Covers, Valid
  <2>6. QED BY <1>5, <1>6, <2>4, <2>5 DEF Whole, r, b
<1>9. QED BY <1>7, <1>8

\* What a load asks for, and the buffers it has, stay what they are.
LEMMA LoadStays ==
  ASSUME IInv, MInv, [Next]_vars
  PROVE  (Roomy' <=> Roomy) /\ (SizesAgree' <=> SizesAgree)
<1>1. c'.load = c.load
  BY NextMem
<1>2. Calls' = Calls /\ Space' = Space /\ Buf' = Buf
  BY <1>1, NextKeeps DEF Calls, Space, IInv
<1>3. QED BY <1>1, <1>2 DEF Roomy, SizesAgree

\* A fragment of the disk is in one buffer at most, for any number of
\* buffers and processes and any calls, as long as no getblk() needs more
\* memory than a buffer has: what brealloc() ensures by waiting for, writing
\* out or throwing away every buffer in the way before the size is set.
THEOREM BlocksNotShared == Spec => [](Roomy => OneBuffer)
<1> DEFINE I == Roomy => SInv
<1>1. I => (Roomy => OneBuffer)
  BY DEF SInv, Single, OneBuffer
<1>2. Init => I
  BY StartsSafe
<1>3. IInv /\ MInv /\ IInv' /\ I /\ [Next]_vars => I'
  <2> SUFFICES ASSUME IInv, MInv, IInv', I, [Next]_vars, Roomy' PROVE SInv'
    OBVIOUS
  <2>1. Roomy
    BY LoadStays
  <2>2. SInv
    BY <2>1
  <2>3. QED BY <2>1, <2>2, NextSafe
<1> HIDE DEF I
<1>4. QED BY <1>1, <1>2, <1>3, MemoryKept, PTL DEF Spec

\* What the buffers hold, from binit() on.
LEMMA ContentsKept == Spec => [](IInv /\ (Roomy /\ SizesAgree => SInv /\ CInv))
<1> DEFINE I == Roomy /\ SizesAgree => SInv /\ CInv
<1>1. Init => I
  BY StartsSafe
<1>2. IInv /\ MInv /\ IInv' /\ I /\ [Next]_vars => I'
  <2> SUFFICES ASSUME IInv, MInv, IInv', I, [Next]_vars, Roomy', SizesAgree'
               PROVE  SInv' /\ CInv'
    OBVIOUS
  <2>1. Roomy /\ SizesAgree
    BY LoadStays
  <2>2. SInv /\ CInv
    BY <2>1
  <2>3. QED BY <2>1, <2>2, NextSafe
<1> HIDE DEF I
<1>3. [](IInv /\ I) <=> [](IInv /\ (Roomy /\ SizesAgree => SInv /\ CInv))
  BY DEF I
<1>4. QED BY <1>1, <1>2, <1>3, MemoryKept, PTL DEF Spec

\* What bdwrite(), bawrite() and bwrite() were given is on the disk, or in a
\* valid buffer that is marked delayed or is being written: no getnewbuf(),
\* brealloc(), binvalfree(), failed read or end of a transfer throws away the
\* last copy, unless a write fails.
THEOREM NothingDirtyLost == Spec => [](Roomy /\ SizesAgree => DirtyNotLost)
<1>1. IInv /\ (Roomy /\ SizesAgree => SInv /\ CInv)
      => (Roomy /\ SizesAgree => DirtyNotLost)
  BY DEF CInv, NoLoss, Safe, Dirty, DirtyNotLost, FragOf, Frag, Frags
<1>2. QED BY <1>1, ContentsKept, PTL

\* Who holds a block after bread(), breada() or the first half of
\* realloccg() sees the last thing written to it, wherever that was: on the
\* disk, in this buffer, or in another one that was in the way.
THEOREM ReadersSeeWrites == Spec => [](Roomy /\ SizesAgree => Coherent)
<1>1. IInv /\ (Roomy /\ SizesAgree => SInv /\ CInv)
      => (Roomy /\ SizesAgree => Coherent)
  BY HolderSees
<1>2. QED BY <1>1, ContentsKept, PTL

=============================================================================
