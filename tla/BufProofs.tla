------------------------------ MODULE BufProofs ------------------------------
(***************************************************************************)
(* The buffer cache, for any loads and processes: every busy buffer has    *)
(* exactly one owner, the free lists are exact, who sleeps will be woken,  *)
(* and the memory of the buffers is all there.                             *)
(***************************************************************************)
EXTENDS BufCache, WellFoundedInduction, FiniteSetTheorems, TLAPS

\* Among natural numbers there is a least one.
LEMMA Least ==
  ASSUME NEW T, T \subseteq Nat, T # {}
  PROVE  \E x \in T : \A y \in T : x <= y
<1> DEFINE R == OpToRel(<, Nat)
<1>1. IsWellFoundedOn(R, Nat)
  BY NatLessThanWellFounded
<1>2. R = {s \in Nat \X Nat : s[1] < s[2]}
  BY DEF OpToRel
<1> HIDE DEF R
<1>3. PICK x \in T : \A y \in T : ~ (<<y, x>> \in R)
  BY <1>1, WFMin
<1>4. ASSUME NEW y \in T PROVE x <= y
  <2>1. <<y, x>> \in Nat \X Nat /\ <<y, x>>[1] = y /\ <<y, x>>[2] = x
    OBVIOUS
  <2>2. QED BY <1>2, <1>3, <2>1
<1>5. QED BY <1>4

\* The elements of a concatenation.
LEMMA ConcatIs ==
  ASSUME NEW S, NEW a \in Seq(S), NEW b \in Seq(S)
  PROVE  /\ a \o b \in Seq(S) /\ Len(a \o b) = Len(a) + Len(b)
         /\ \A i \in 1 .. Len(a) + Len(b) :
              (a \o b)[i] = IF i <= Len(a) THEN a[i] ELSE b[i - Len(a)]
  OBVIOUS

\* The sequence without its k-th element.
LEMMA RemoveAtIs ==
  ASSUME NEW S, NEW m \in Seq(S), NEW k \in 1 .. Len(m)
  PROVE  /\ RemoveAt(m, k) \in Seq(S) /\ Len(RemoveAt(m, k)) = Len(m) - 1
         /\ \A i \in 1 .. Len(m) - 1 :
              RemoveAt(m, k)[i] = IF i < k THEN m[i] ELSE m[i + 1]
<1> DEFINE a == SubSeq(m, 1, k - 1)
           b == SubSeq(m, k + 1, Len(m))
           t == a \o b
<1>1. Len(m) \in Nat
  OBVIOUS
<1>2. a \in Seq(S) /\ b \in Seq(S)
  OBVIOUS
<1>3. Len(a) = k - 1 /\ \A i \in 1 .. k - 1 : a[i] = m[i]
  OBVIOUS
<1>4. Len(b) = Len(m) - k /\ \A i \in 1 .. Len(m) - k : b[i] = m[k + i]
  OBVIOUS
<1>5. RemoveAt(m, k) = t
  BY DEF RemoveAt
<1> HIDE DEF a, b
<1>6. /\ t \in Seq(S) /\ Len(t) = Len(a) + Len(b)
      /\ \A i \in 1 .. Len(a) + Len(b) :
           t[i] = IF i <= Len(a) THEN a[i] ELSE b[i - Len(a)]
  BY <1>2, ConcatIs
<1> HIDE DEF t
<1>7. Len(t) = Len(m) - 1 /\ Len(a) + Len(b) = Len(m) - 1
  BY <1>1, <1>3, <1>4, <1>6
<1>8. \A i \in 1 .. Len(m) - 1 : t[i] = IF i <= k - 1 THEN a[i] ELSE b[i - (k - 1)]
  BY <1>3, <1>6, <1>7
<1>9. ASSUME NEW i \in 1 .. Len(m) - 1
      PROVE  t[i] = IF i < k THEN m[i] ELSE m[i + 1]
  <2>1. CASE i < k
    <3>1. i <= k - 1 /\ i \in 1 .. k - 1
      BY <1>1, <2>1
    <3>2. QED BY <1>3, <1>8, <2>1, <3>1
  <2>2. CASE i >= k
    <3>1. i - (k - 1) \in 1 .. Len(m) - k /\ k + (i - (k - 1)) = i + 1
      BY <1>1, <2>2
    <3>2. b[i - (k - 1)] = m[i + 1]
      BY <1>4, <3>1
    <3>3. ~(i <= k - 1) /\ ~(i < k)
      BY <1>1, <2>2
    <3>4. QED BY <1>8, <3>2, <3>3
  <2>3. QED BY <1>1, <2>1, <2>2
<1>10. QED BY <1>5, <1>6, <1>9, <1>7

\* A place of b in s that is the only one: what SelectInSeq() finds.
LEMMA RemoveFirstIs ==
  ASSUME NEW S, NEW s \in Seq(S), NEW b, IsInjective(s)
  PROVE  /\ RemoveFirst(s, b) \in Seq(S) /\ IsInjective(RemoveFirst(s, b))
         /\ ToSet(RemoveFirst(s, b)) = ToSet(s) \ {b}
         /\ s = <<>> => RemoveFirst(s, b) = <<>>
<1>1. Len(s) \in Nat /\ DOMAIN s = 1 .. Len(s)
  OBVIOUS
<1>2. CASE ~ \E i \in 1 .. Len(s) : s[i] = b
  <2>1. RemoveFirst(s, b) = s
    BY <1>2 DEF RemoveFirst
  <2>2. b \notin ToSet(s)
    BY <1>1, <1>2 DEF ToSet
  <2>3. QED BY <2>1, <2>2
<1>3. CASE \E i \in 1 .. Len(s) : s[i] = b
  <2> DEFINE I == {i \in 1 .. Len(s) : s[i] = b}
             k == SelectInSeq(s, LAMBDA v : v = b)
             t == RemoveAt(s, k)
  <2>1. I \subseteq Nat /\ I # {}
    BY <1>1, <1>3
  <2>2. k = Min(I)
    BY <2>1 DEF SelectInSeq
  <2>3. \E x \in I : \A y \in I : x <= y
    BY <2>1, Least
  <2>4. k \in I
    BY <2>2, <2>3 DEF Min
  <2>5. k \in 1 .. Len(s) /\ s[k] = b
    BY <2>4
  <2>6. RemoveFirst(s, b) = t
    BY <1>3 DEF RemoveFirst
  <2> HIDE DEF k, I
  <2>7. /\ t \in Seq(S) /\ Len(t) = Len(s) - 1
        /\ \A i \in 1 .. Len(s) - 1 : t[i] = IF i < k THEN s[i] ELSE s[i + 1]
    BY <2>5, RemoveAtIs
  <2> HIDE DEF t
  <2>8. DOMAIN t = 1 .. Len(s) - 1
    BY <2>7
  <2>9. \A i, j \in 1 .. Len(s) : s[i] = s[j] => i = j
    BY <1>1 DEF IsInjective
  <2>10. IsInjective(t)
    <3> SUFFICES ASSUME NEW i \in 1 .. Len(s) - 1, NEW j \in 1 .. Len(s) - 1, t[i] = t[j]
                 PROVE  i = j
      BY <2>8 DEF IsInjective
    <3> DEFINE f(x) == IF x < k THEN x ELSE x + 1
    <3>1. t[i] = s[f(i)] /\ t[j] = s[f(j)]
      BY <2>7
    <3>2. f(i) \in 1 .. Len(s) /\ f(j) \in 1 .. Len(s)
      BY <1>1, <2>5
    <3>3. f(i) = f(j)
      BY <2>9, <3>1, <3>2
    <3>4. QED BY <3>3, <2>5, <1>1
  <2>11. ASSUME NEW x \in ToSet(t) PROVE x \in ToSet(s) \ {b}
    <3>1. PICK i \in 1 .. Len(s) - 1 : x = t[i]
      BY <2>8, <2>11 DEF ToSet
    <3>2. CASE i < k
      <4>1. x = s[i] /\ i \in 1 .. Len(s) /\ i # k
        BY <1>1, <2>7, <3>1, <3>2, <2>5
      <4>2. QED BY <4>1, <2>5, <2>9, <1>1 DEF ToSet
    <3>3. CASE ~(i < k)
      <4>1. x = s[i + 1] /\ i + 1 \in 1 .. Len(s) /\ i + 1 # k
        BY <1>1, <2>7, <3>1, <3>3, <2>5
      <4>2. QED BY <4>1, <2>5, <2>9, <1>1 DEF ToSet
    <3>4. QED BY <3>2, <3>3
  <2>12. ASSUME NEW x \in ToSet(s), x # b PROVE x \in ToSet(t)
    <3>1. PICK i \in 1 .. Len(s) : x = s[i]
      BY <1>1, <2>12 DEF ToSet
    <3>2. i # k
      BY <3>1, <2>12, <2>5
    <3>3. CASE i < k
      <4>1. i \in 1 .. Len(s) - 1 /\ t[i] = s[i]
        BY <1>1, <2>5, <2>7, <3>3
      <4>2. QED BY <4>1, <2>8, <3>1 DEF ToSet
    <3>4. CASE ~(i < k)
      <4>1. i - 1 \in 1 .. Len(s) - 1 /\ ~(i - 1 < k) /\ i - 1 + 1 = i
        BY <1>1, <2>5, <3>2, <3>4
      <4>2. t[i - 1] = s[i]
        BY <4>1, <2>7
      <4>3. QED BY <4>1, <4>2, <2>8, <3>1 DEF ToSet
    <3>5. QED BY <3>3, <3>4
  <2>13. s # <<>>
    BY <2>5
  <2>14. QED BY <2>6, <2>7, <2>10, <2>11, <2>12, <2>13
<1>4. QED BY <1>2, <1>3

\* A buffer put at either end of a list.
LEMMA PutIs ==
  ASSUME NEW S, NEW s \in Seq(S), NEW b \in S, IsInjective(s), b \notin ToSet(s),
         NEW t, t = <<b>> \o s \/ t = Append(s, b)
  PROVE  t \in Seq(S) /\ IsInjective(t) /\ ToSet(t) = ToSet(s) \cup {b}
<1>1. Len(s) \in Nat /\ DOMAIN s = 1 .. Len(s)
  OBVIOUS
<1>2. \A i, j \in 1 .. Len(s) : s[i] = s[j] => i = j
  BY <1>1 DEF IsInjective
<1>3. \A i \in 1 .. Len(s) : s[i] # b
  BY <1>1 DEF ToSet
<1>4. CASE t = Append(s, b)
  <2>1. /\ t \in Seq(S) /\ Len(t) = Len(s) + 1 /\ DOMAIN t = 1 .. Len(s) + 1
        /\ \A i \in 1 .. Len(s) + 1 : t[i] = IF i = Len(s) + 1 THEN b ELSE s[i]
    BY <1>1, <1>4
  <2>2. \A i, j \in 1 .. Len(s) + 1 : t[i] = t[j] => i = j
    BY <1>1, <1>2, <1>3, <2>1
  <2>3. ToSet(t) = ToSet(s) \cup {b}
    <3>1. ASSUME NEW x \in ToSet(t) PROVE x \in ToSet(s) \cup {b}
      BY <1>1, <2>1, <3>1 DEF ToSet
    <3>2. ASSUME NEW x \in ToSet(s) PROVE x \in ToSet(t)
      <4>1. PICK i \in 1 .. Len(s) : x = s[i]
        BY <1>1, <3>2 DEF ToSet
      <4>2. i \in 1 .. Len(s) + 1 /\ t[i] = x
        BY <1>1, <2>1, <4>1
      <4>3. QED BY <2>1, <4>2 DEF ToSet
    <3>3. Len(s) + 1 \in DOMAIN t /\ t[Len(s) + 1] = b
      BY <1>1, <2>1
    <3>4. b \in ToSet(t)
      BY <3>3 DEF ToSet
    <3>5. QED BY <3>1, <3>2, <3>4
  <2>4. QED BY <2>1, <2>2, <2>3 DEF IsInjective
<1>5. CASE t = <<b>> \o s
  <2>1. <<b>> \in Seq(S) /\ Len(<<b>>) = 1 /\ <<b>>[1] = b
    OBVIOUS
  <2>2. /\ t \in Seq(S) /\ Len(t) = Len(s) + 1
        /\ \A i \in 1 .. 1 + Len(s) : t[i] = IF i <= 1 THEN <<b>>[i] ELSE s[i - 1]
    BY <1>1, <1>5, <2>1, ConcatIs
  <2>3. /\ DOMAIN t = 1 .. Len(s) + 1
        /\ \A i \in 1 .. Len(s) + 1 : t[i] = IF i = 1 THEN b ELSE s[i - 1]
    BY <1>1, <2>1, <2>2
  <2>4. ASSUME NEW i \in 1 .. Len(s) + 1, NEW j \in 1 .. Len(s) + 1, t[i] = t[j]
        PROVE  i = j
    <3>1. i # 1 => i - 1 \in 1 .. Len(s) /\ t[i] = s[i - 1]
      BY <1>1, <2>3
    <3>2. j # 1 => j - 1 \in 1 .. Len(s) /\ t[j] = s[j - 1]
      BY <1>1, <2>3
    <3>3. (i = 1 => t[i] = b) /\ (j = 1 => t[j] = b)
      BY <1>1, <2>3
    <3>4. CASE i # 1 /\ j # 1
      <4>1. i - 1 = j - 1
        BY <1>2, <2>4, <3>1, <3>2, <3>4
      <4>2. QED BY <4>1, <1>1
    <3>5. QED BY <1>3, <2>4, <3>1, <3>2, <3>3, <3>4
  <2>5. ToSet(t) = ToSet(s) \cup {b}
    <3>1. ASSUME NEW x \in ToSet(t) PROVE x \in ToSet(s) \cup {b}
      <4>1. PICK i \in 1 .. Len(s) + 1 : x = t[i]
        BY <2>3, <3>1 DEF ToSet
      <4>2. CASE i = 1
        BY <4>1, <4>2, <2>3
      <4>3. CASE i # 1
        <5>1. i - 1 \in 1 .. Len(s) /\ x = s[i - 1]
          BY <1>1, <4>1, <4>3, <2>3
        <5>2. QED BY <1>1, <5>1 DEF ToSet
      <4>4. QED BY <4>2, <4>3
    <3>2. ASSUME NEW x \in ToSet(s) PROVE x \in ToSet(t)
      <4>1. PICK i \in 1 .. Len(s) : x = s[i]
        BY <1>1, <3>2 DEF ToSet
      <4>2. i + 1 \in 1 .. Len(s) + 1 /\ i + 1 # 1 /\ (i + 1) - 1 = i
        BY <1>1, <4>1
      <4>3. t[i + 1] = x
        BY <2>3, <4>1, <4>2
      <4>4. QED BY <2>3, <4>2, <4>3 DEF ToSet
    <3>3. 1 \in DOMAIN t /\ t[1] = b
      BY <1>1, <2>3
    <3>4. b \in ToSet(t)
      BY <3>3 DEF ToSet
    <3>5. QED BY <3>1, <3>2, <3>4
  <2>6. QED BY <2>2, <2>3, <2>4, <2>5 DEF IsInjective
<1>6. QED BY <1>4, <1>5

-----------------------------------------------------------------------------
Label == {"idle", "bflush", "blkflush", "binvalfree", "getblk", "readahead",
          "getnewbuf", "brealloc", "overlap", "allocbuf", "got", "hold", "biowait",
          "written", "age"}

CallRec == [op : Op, blk : Nat, size : Nat, to : Nat]

\* The cache with buffers S, and the registers of a process.
Caches(S) ==
  [load : DOMAIN Loads, flags : [S -> SUBSET Flag], b_blkno : [S -> Nat \cup {None}],
   b_bcount : [S -> Int], b_bufsize : [S -> Int], fresh : [S -> SUBSET Int],
   free : [Lists -> Seq(S)], wanted : BOOLEAN, io : SUBSET S, relvp : SUBSET S,
   disk : SUBSET Int, slp : [Procs -> S \cup {FREELIST, None}]]

Regs(S) ==
  [call : CallRec \cup {None}, blk : Nat \cup {None}, size : Nat, bp : S \cup {None},
   ep : S \cup {None}, first : S \cup {None}, ret : Label]

\* The buffers a process at l with registers r answers for: the one getblk()
\* found for it, the one it writes and waits for, the first one of breada().
HasBp(l, r) ==
  \/ l \in {"brealloc", "overlap", "allocbuf", "got", "hold", "biowait"}
  \/ l = "getnewbuf" /\ r.bp # None
  \/ l = "written" /\ r.ret = "overlap"
  \/ l = "age" /\ r.ret = "getnewbuf" /\ r.bp # None

Held(l, r) ==
  (IF HasBp(l, r) THEN {r.bp} ELSE {}) \cup (IF l = "written" THEN {r.ep} ELSE {})
    \cup (IF r.first # None THEN {r.first} ELSE {})

\* The registers fit the place in the code.
NoCall(l, r) ==
  l \in {"idle", "bflush", "binvalfree"} \/ (l = "age" /\ r.ret # "getnewbuf")

Shape(l, r) ==
  /\ HasBp(l, r) => r.bp # None
  /\ l = "written" => /\ r.ep # None /\ r.ep # r.first
                      /\ r.ret \in {"getblk", "overlap", "blkflush", "idle"}
                      /\ r.ret = "overlap" => r.ep # r.bp
  /\ l = "age" => r.ep # None /\ r.ret \in {"getnewbuf", "bflush", "binvalfree", "idle"}
  /\ r.first # None =>
       /\ ~NoCall(l, r) /\ l # "blkflush" /\ r.call.op = "breada"
       /\ l \in {"hold", "biowait"} => r.first = r.bp
       /\ l \notin {"hold", "biowait"} /\ HasBp(l, r) => r.first # r.bp
       /\ l \notin {"hold", "biowait", "readahead"} => r.blk # r.call.blk
       /\ l = "written" => r.ret \in {"getblk", "overlap"}
  /\ ~NoCall(l, r) => /\ r.call \in CallRec
                      /\ r.call.op = "breada" => r.call.to # r.call.blk

\* What is true of a buffer while its owner answers for it.
Owned(d, b) == "BUSY" \in d.flags[b] /\ "ASYNC" \notin d.flags[b] /\ b \notin d.relvp

\* The transfer its owner waits for is over or will be.
Moving(d, b) == "DONE" \in d.flags[b] \/ b \in d.io

Local(d, l, r) ==
  /\ Shape(l, r)
  /\ \A b \in Held(l, r) : Owned(d, b)
  /\ HasBp(l, r) /\ l # "biowait" => r.bp \notin d.io
  /\ l = "biowait" => Moving(d, r.bp)
  /\ l = "written" => Moving(d, r.ep)
  /\ r.first # None => Moving(d, r.first)

\* The transfers and the buffers brelse() is asleep with.
Transfers(d) ==
  /\ \A b \in d.io : "BUSY" \in d.flags[b] /\ "DONE" \notin d.flags[b] /\ b \notin d.relvp
  /\ \A b \in d.relvp : "BUSY" \in d.flags[b] /\ "ASYNC" \in d.flags[b]
  /\ d.relvp # {} => Loads[d.load].lastref
  /\ \A b \in DOMAIN d.flags : "ASYNC" \in d.flags[b] => b \in d.io \cup d.relvp

On(d, l) == ToSet(d.free[l])

FreeOK(d) ==
  /\ \A l \in Lists : IsInjective(d.free[l])
  /\ \A l, k \in Lists : l # k => On(d, l) \cap On(d, k) = {}
  /\ \A b \in DOMAIN d.flags : "BUSY" \notin d.flags[b] <=> \E l \in Lists : b \in On(d, l)
  /\ \A l \in Lists : \A b \in On(d, l) : l = "EMPTY" <=> d.b_bufsize[b] = 0

\* What process p sleeps for.
SleepOK(d, s, l, r) ==
  \/ s = None
  \/ s = FREELIST /\ l \notin {"biowait", "written"}
       /\ (~Loads[d.load].lastref => d.wanted /\ Oldest(d) = None)
  \/ /\ s \in DOMAIN d.flags /\ l \in {"biowait", "written"}
     /\ s = IF l = "biowait" THEN r.bp ELSE r.ep
     /\ s \in d.io
  \/ /\ s \in DOMAIN d.flags /\ l \notin {"biowait", "written"}
     /\ ~Loads[d.load].lastref => {"BUSY", "WANTED"} \subseteq d.flags[s]

\* A busy buffer without a process is in an asynchronous transfer or in brelse().
NoneLost(d) ==
  \A b \in DOMAIN d.flags : "BUSY" \in d.flags[b] =>
    \/ "ASYNC" \in d.flags[b]
    \/ \E p \in Procs : b \in Held(pc[p], loc[p])

Apart == \A p, q \in Procs : p # q => Held(pc[p], loc[p]) \cap Held(pc[q], loc[q]) = {}

IInv ==
  /\ c \in Caches(Buf) /\ Buf = Range(Loads[c.load].bufs)
  /\ pc \in [Procs -> Label] /\ loc \in [Procs -> Regs(Buf)] /\ cur \in Procs \cup {None}
  /\ FreeOK(c) /\ Transfers(c) /\ NoneLost(c) /\ Apart
  /\ \A p \in Procs : Local(c, pc[p], loc[p]) /\ SleepOK(c, c.slp[p], pc[p], loc[p])

-----------------------------------------------------------------------------
(***************************************************************************)
(* What each primitive does to the fields of the cache.                    *)
(***************************************************************************)

\* The fields that say who has which buffer are the same.
Alike(d, e) ==
  /\ e.load = d.load /\ e.wanted = d.wanted /\ e.io = d.io /\ e.relvp = d.relvp
  /\ e.slp = d.slp /\ e.free = d.free /\ e.b_bufsize = d.b_bufsize

\* The fields of a cache.
LEMMA Fields ==
  ASSUME NEW S, NEW d \in Caches(S)
  PROVE  /\ d.load \in DOMAIN Loads /\ d.flags \in [S -> SUBSET Flag]
         /\ DOMAIN d.flags = S
         /\ d.b_blkno \in [S -> Nat \cup {None}] /\ d.b_bcount \in [S -> Int]
         /\ d.b_bufsize \in [S -> Int] /\ d.fresh \in [S -> SUBSET Int]
         /\ d.free \in [Lists -> Seq(S)] /\ d.wanted \in BOOLEAN
         /\ d.io \in SUBSET S /\ d.relvp \in SUBSET S /\ d.disk \in SUBSET Int
         /\ d.slp \in [Procs -> S \cup {FREELIST, None}]
  BY DEF Caches

\* Flags set and cleared.
LEMMA SetFIs ==
  ASSUME NEW S, NEW d \in Caches(S), NEW b \in S, NEW on \in SUBSET Flag, NEW off
  PROVE  /\ SetF(d, b, on, off) \in Caches(S) /\ Alike(d, SetF(d, b, on, off))
         /\ SetF(d, b, on, off).flags = [d.flags EXCEPT ![b] = (@ \cup on) \ off]
         /\ SetF(d, b, on, off).b_blkno = d.b_blkno
  BY Fields DEF SetF, Caches, Alike

\* A buffer off the free lists.
LEMMA NotavailIs ==
  ASSUME NEW S, NEW d \in Caches(S), NEW b \in S,
         \A l \in Lists : IsInjective(d.free[l]),
         NEW e, e = Notavail(d, b)
  PROVE  /\ e \in Caches(S) /\ e.load = d.load /\ e.wanted = d.wanted /\ e.io = d.io
         /\ e.relvp = d.relvp /\ e.slp = d.slp /\ e.b_bufsize = d.b_bufsize
         /\ e.b_blkno = d.b_blkno /\ e.b_bcount = d.b_bcount /\ e.fresh = d.fresh
         /\ e.flags = [d.flags EXCEPT ![b] = @ \cup {"BUSY"}]
         /\ e.free = [l \in Lists |-> RemoveFirst(d.free[l], b)]
<1> DEFINE fr == [l \in Lists |-> RemoveFirst(d.free[l], b)]
           fl == [d.flags EXCEPT ![b] = @ \cup {"BUSY"}]
<1>1. fr \in [Lists -> Seq(S)]
  BY Fields, RemoveFirstIs
<1>2. fl \in [S -> SUBSET Flag]
  BY Fields DEF Flag
<1>3. e = [d EXCEPT !.free = fr, !.flags = fl]
  BY DEF Notavail
<1> HIDE DEF fr, fl
<1>4. /\ e \in Caches(S) /\ e.load = d.load /\ e.wanted = d.wanted /\ e.io = d.io
      /\ e.relvp = d.relvp /\ e.slp = d.slp /\ e.b_bufsize = d.b_bufsize
      /\ e.b_blkno = d.b_blkno /\ e.b_bcount = d.b_bcount /\ e.fresh = d.fresh
      /\ e.flags = fl /\ e.free = fr
  BY <1>1, <1>2, <1>3 DEF Caches
<1>5. QED BY <1>4 DEF fl, fr

\* A transfer started.
LEMMA StrategyIs ==
  ASSUME NEW S, NEW d \in Caches(S), NEW b \in S
  PROVE  /\ Strategy(d, b) \in Caches(S) /\ Strategy(d, b).io = d.io \cup {b}
         /\ Strategy(d, b).flags = d.flags /\ Strategy(d, b).free = d.free
         /\ Strategy(d, b).load = d.load /\ Strategy(d, b).wanted = d.wanted
         /\ Strategy(d, b).relvp = d.relvp /\ Strategy(d, b).slp = d.slp
         /\ Strategy(d, b).b_bufsize = d.b_bufsize
<1> DEFINE io == d.io \cup {b}
<1>1. io \in SUBSET S
  BY Fields
<1>2. Strategy(d, b) = [d EXCEPT !.io = io]
  BY DEF Strategy
<1> HIDE DEF io
<1>3. /\ Strategy(d, b) \in Caches(S) /\ Strategy(d, b).io = io
      /\ Strategy(d, b).flags = d.flags /\ Strategy(d, b).free = d.free
      /\ Strategy(d, b).load = d.load /\ Strategy(d, b).wanted = d.wanted
      /\ Strategy(d, b).relvp = d.relvp /\ Strategy(d, b).slp = d.slp
      /\ Strategy(d, b).b_bufsize = d.b_bufsize
  BY <1>1, <1>2 DEF Caches
<1>4. QED BY <1>3 DEF io

\* Sleepers woken.
LEMMA WakeupIs ==
  ASSUME NEW S, NEW d \in Caches(S), NEW ch, NEW e, e = Wakeup(d, ch)
  PROVE  /\ e \in Caches(S) /\ e.flags = d.flags /\ e.free = d.free /\ e.load = d.load
         /\ e.relvp = d.relvp /\ e.io = d.io /\ e.b_bufsize = d.b_bufsize
         /\ e.wanted = d.wanted
         /\ \A p \in Procs : e.slp[p] = IF d.slp[p] = ch THEN None ELSE d.slp[p]
<1> DEFINE sl == [p \in Procs |-> IF d.slp[p] = ch THEN None ELSE d.slp[p]]
<1>1. sl \in [Procs -> S \cup {FREELIST, None}]
  BY Fields
<1>2. e = [d EXCEPT !.slp = sl]
  BY DEF Wakeup
<1>3. \A p \in Procs : sl[p] = IF d.slp[p] = ch THEN None ELSE d.slp[p]
  OBVIOUS
<1> HIDE DEF sl
<1>4. /\ e \in Caches(S) /\ e.flags = d.flags /\ e.free = d.free /\ e.load = d.load
      /\ e.relvp = d.relvp /\ e.io = d.io /\ e.b_bufsize = d.b_bufsize
      /\ e.wanted = d.wanted /\ e.slp = sl
  BY <1>1, <1>2 DEF Caches
<1>5. QED BY <1>3, <1>4

\* The buffer loses its block.
LEMMA BrelvpIs ==
  ASSUME NEW S, NEW d \in Caches(S), NEW b \in S
  PROVE  /\ Brelvp(d, b) \in Caches(S) /\ Alike(d, Brelvp(d, b))
         /\ Brelvp(d, b).flags = d.flags
  BY Fields DEF Brelvp, Caches, Alike

\* e is d with the sleepers woken that brelse(b) wakes.
Woken(d, b, e) ==
  /\ e.flags = d.flags /\ e.free = d.free /\ e.load = d.load
  /\ e.relvp = d.relvp /\ e.io = d.io /\ e.b_bufsize = d.b_bufsize
  /\ e.wanted = FALSE
  /\ \A p \in Procs :
       e.slp[p] = IF \/ d.slp[p] = b /\ "WANTED" \in d.flags[b]
                     \/ d.slp[p] = FREELIST /\ d.wanted
                  THEN None ELSE d.slp[p]

\* Whom brelse() wakes.
LEMMA BrelseWakeIs ==
  ASSUME NEW S, NEW d \in Caches(S), NEW b \in S
  PROVE  BrelseWake(d, b) \in Caches(S) /\ Woken(d, b, BrelseWake(d, b))
<1> DEFINE d1 == IF "WANTED" \in d.flags[b] THEN Wakeup(d, b) ELSE d
           d2 == [d1 EXCEPT !.wanted = FALSE]
           d3 == Wakeup(d2, FREELIST)
           e == BrelseWake(d, b)
<1>1. /\ d1 \in Caches(S) /\ d1.flags = d.flags /\ d1.free = d.free /\ d1.load = d.load
      /\ d1.relvp = d.relvp /\ d1.io = d.io /\ d1.b_bufsize = d.b_bufsize
      /\ d1.wanted = d.wanted
      /\ \A p \in Procs : d1.slp[p] = IF d.slp[p] = b /\ "WANTED" \in d.flags[b]
                                      THEN None ELSE d.slp[p]
  <2>1. CASE "WANTED" \in d.flags[b]
    <3>1. d1 = Wakeup(d, b)
      BY <2>1
    <3> HIDE DEF d1
    <3>2. QED BY <2>1, <3>1, WakeupIs
  <2>2. CASE "WANTED" \notin d.flags[b]
    BY <2>2
  <2>3. QED BY <2>1, <2>2
<1>2. e = IF d1.wanted THEN d3 ELSE d1
  BY DEF BrelseWake
<1> HIDE DEF d1, e
<1>3. /\ d2 \in Caches(S) /\ d2.flags = d1.flags /\ d2.free = d1.free /\ d2.load = d1.load
      /\ d2.relvp = d1.relvp /\ d2.io = d1.io /\ d2.b_bufsize = d1.b_bufsize
      /\ d2.wanted = FALSE /\ d2.slp = d1.slp
  BY <1>1 DEF Caches
<1> HIDE DEF d2
<1>4. /\ d3 \in Caches(S) /\ d3.flags = d2.flags /\ d3.free = d2.free /\ d3.load = d2.load
      /\ d3.relvp = d2.relvp /\ d3.io = d2.io /\ d3.b_bufsize = d2.b_bufsize
      /\ d3.wanted = FALSE
      /\ \A p \in Procs : d3.slp[p] = IF d2.slp[p] = FREELIST THEN None ELSE d2.slp[p]
  BY <1>3, WakeupIs
<1> HIDE DEF d3
<1>5. d.wanted \in BOOLEAN
  BY Fields
<1>6. CASE d.wanted
  BY <1>1, <1>2, <1>3, <1>4, <1>6 DEF Woken, e
<1>7. CASE ~d.wanted
  BY <1>1, <1>2, <1>5, <1>7 DEF Woken, e
<1>8. QED BY <1>6, <1>7

\* e is d with buffer b released to the list it belongs on.
PutBack(d, b, e) ==
  /\ e.load = d.load /\ e.wanted = d.wanted /\ e.io = d.io
  /\ e.relvp = d.relvp /\ e.slp = d.slp /\ e.b_bufsize = d.b_bufsize
  /\ e.flags = [d.flags EXCEPT ![b] = @ \ {"WANTED", "BUSY", "ASYNC", "AGE"}]
  /\ \E l \in Lists :
       /\ l = "EMPTY" <=> d.b_bufsize[b] = 0
       /\ \A k \in Lists \ {l} : e.free[k] = d.free[k]
       /\ e.free[l] \in {<<b>> \o d.free[l], Append(d.free[l], b)}

\* The list brelse() puts the buffer on.
LEMMA BrelseFreeIs ==
  ASSUME NEW S, NEW d \in Caches(S), NEW b \in S
  PROVE  BrelseFree(d, b) \in Caches(S) /\ PutBack(d, b, BrelseFree(d, b))
<1> DEFINE fl == d.flags[b]
           list == IF d.b_bufsize[b] = 0 THEN "EMPTY"
                   ELSE IF fl \cap {"ERROR", "INVAL", "AGE"} # {} THEN "AGE" ELSE "LRU"
           head == d.b_bufsize[b] = 0 \/ fl \cap {"ERROR", "INVAL"} # {}
           new == IF head THEN <<b>> \o d.free[list] ELSE Append(d.free[list], b)
           d1 == [d EXCEPT !.free[list] = new]
           e == BrelseFree(d, b)
<1>1. list \in Lists /\ (list = "EMPTY" <=> d.b_bufsize[b] = 0)
  BY DEF Lists
<1>2. d.free[list] \in Seq(S)
  BY <1>1, Fields
<1>3. new \in {<<b>> \o d.free[list], Append(d.free[list], b)}
  OBVIOUS
<1>4. new \in Seq(S)
  BY <1>2
<1>5. e = SetF(d1, b, {}, {"WANTED", "BUSY", "ASYNC", "AGE"})
  BY DEF BrelseFree
<1> HIDE DEF list, new, head, e
<1>6. /\ d1 \in Caches(S) /\ d1.load = d.load /\ d1.wanted = d.wanted /\ d1.io = d.io
      /\ d1.relvp = d.relvp /\ d1.slp = d.slp /\ d1.b_bufsize = d.b_bufsize
      /\ d1.flags = d.flags /\ d1.free = [d.free EXCEPT ![list] = new]
  BY <1>1, <1>4, Fields DEF Caches
<1> HIDE DEF d1
<1>7. /\ e \in Caches(S) /\ Alike(d1, e)
      /\ e.flags = [d1.flags EXCEPT ![b] = (@ \cup {}) \ {"WANTED", "BUSY", "ASYNC", "AGE"}]
  BY <1>5, <1>6, SetFIs
<1>8. e.free = [d.free EXCEPT ![list] = new]
  BY <1>6, <1>7 DEF Alike
<1>9. e.free[list] = new /\ \A k \in Lists \ {list} : e.free[k] = d.free[k]
  BY <1>1, <1>8, Fields
<1>10. e.flags = [d.flags EXCEPT ![b] = @ \ {"WANTED", "BUSY", "ASYNC", "AGE"}]
  BY <1>6, <1>7
<1>11. QED BY <1>1, <1>3, <1>6, <1>7, <1>9, <1>10 DEF Alike, PutBack, e

-----------------------------------------------------------------------------
(***************************************************************************)
(* The free lists.                                                         *)
(***************************************************************************)

\* getnewbuf() finds a buffer unless both lists are empty.
LEMMA OldestIs ==
  ASSUME NEW S, NEW d \in Caches(S), None \notin S
  PROVE  /\ Oldest(d) = None <=> d.free["AGE"] = <<>> /\ d.free["LRU"] = <<>>
         /\ Oldest(d) # None =>
              /\ Oldest(d) \in S
              /\ Oldest(d) \in On(d, "AGE") \cup On(d, "LRU")
<1>1. d.free["AGE"] \in Seq(S) /\ d.free["LRU"] \in Seq(S)
  BY Fields DEF Lists
<1>2. ASSUME NEW s \in Seq(S), s # <<>>
      PROVE  Head(s) \in S /\ Head(s) \in ToSet(s)
  <2>1. 1 \in DOMAIN s /\ Head(s) = s[1] /\ s[1] \in S
    BY <1>2
  <2>2. QED BY <2>1 DEF ToSet
<1>3. QED BY <1>1, <1>2 DEF Oldest, On

\* A change that leaves the lists alone.
LEMMA FreeAlike ==
  ASSUME NEW S, NEW d \in Caches(S), NEW e \in Caches(S), FreeOK(d), e.free = d.free,
         \A x \in S : /\ "BUSY" \in e.flags[x] <=> "BUSY" \in d.flags[x]
                      /\ "BUSY" \in e.flags[x] \/ e.b_bufsize[x] = d.b_bufsize[x]
  PROVE  FreeOK(e)
<1>1. DOMAIN d.flags = S /\ DOMAIN e.flags = S
  BY Fields
<1>2. \A l \in Lists : On(e, l) = On(d, l) /\ On(d, l) \subseteq S
  <2>1. ASSUME NEW l \in Lists PROVE On(d, l) \subseteq S
    <3>1. d.free[l] \in Seq(S)
      BY Fields
    <3>2. QED BY <3>1 DEF On, ToSet
  <2>2. QED BY <2>1 DEF On
<1>3. \A l \in Lists : \A b \in On(d, l) : e.b_bufsize[b] = d.b_bufsize[b]
  BY <1>1, <1>2 DEF FreeOK
<1>4. QED BY <1>1, <1>2, <1>3 DEF FreeOK

\* A buffer taken off the lists.
LEMMA FreeTaken ==
  ASSUME NEW S, NEW d \in Caches(S), NEW e \in Caches(S), NEW b \in S, None \notin S,
         FreeOK(d), e.free = [l \in Lists |-> RemoveFirst(d.free[l], b)],
         "BUSY" \in e.flags[b],
         \A x \in S \ {b} : "BUSY" \in e.flags[x] <=> "BUSY" \in d.flags[x],
         \A x \in S : "BUSY" \in e.flags[x] \/ e.b_bufsize[x] = d.b_bufsize[x]
  PROVE  FreeOK(e) /\ (Oldest(d) = None => Oldest(e) = None)
<1>1. DOMAIN d.flags = S /\ DOMAIN e.flags = S
  BY Fields
<1>2. ASSUME NEW l \in Lists
      PROVE  /\ IsInjective(e.free[l]) /\ On(e, l) = On(d, l) \ {b}
             /\ d.free[l] = <<>> => e.free[l] = <<>>
             /\ On(d, l) \subseteq S
  <2>1. d.free[l] \in Seq(S) /\ IsInjective(d.free[l])
    BY Fields DEF FreeOK
  <2>2. e.free[l] = RemoveFirst(d.free[l], b)
    OBVIOUS
  <2>3. On(d, l) \subseteq S
    BY <2>1 DEF On, ToSet
  <2>4. QED BY <2>1, <2>2, <2>3, RemoveFirstIs DEF On
<1>3. Oldest(d) = None => Oldest(e) = None
  BY <1>2, OldestIs DEF Lists
<1>4. \A l, k \in Lists : l # k => On(e, l) \cap On(e, k) = {}
  BY <1>2 DEF FreeOK
<1>5. \A x \in S : "BUSY" \notin e.flags[x] <=> \E l \in Lists : x \in On(e, l)
  BY <1>1, <1>2 DEF FreeOK
<1>6. ASSUME NEW l \in Lists, NEW x \in On(e, l)
      PROVE  l = "EMPTY" <=> e.b_bufsize[x] = 0
  <2>1. x \in On(d, l) /\ x \in S /\ x # b
    BY <1>2, <1>6
  <2>2. "BUSY" \notin e.flags[x]
    BY <1>5, <1>6, <2>1
  <2>3. e.b_bufsize[x] = d.b_bufsize[x]
    BY <2>1, <2>2
  <2>4. QED BY <2>1, <2>3 DEF FreeOK
<1>7. QED BY <1>1, <1>2, <1>3, <1>4, <1>5, <1>6 DEF FreeOK

\* A busy buffer put on the list brelse() chooses.
LEMMA FreePut ==
  ASSUME NEW S, NEW d \in Caches(S), NEW b \in S, NEW e \in Caches(S), FreeOK(d),
         "BUSY" \in d.flags[b], PutBack(d, b, e)
  PROVE  FreeOK(e)
<1>1. /\ e.b_bufsize = d.b_bufsize
      /\ e.flags = [d.flags EXCEPT ![b] = @ \ {"WANTED", "BUSY", "ASYNC", "AGE"}]
  BY DEF PutBack
<1>2. PICK l \in Lists :
        /\ l = "EMPTY" <=> d.b_bufsize[b] = 0
        /\ \A k \in Lists \ {l} : e.free[k] = d.free[k]
        /\ e.free[l] \in {<<b>> \o d.free[l], Append(d.free[l], b)}
  BY DEF PutBack
<1>3. DOMAIN d.flags = S /\ DOMAIN e.flags = S
  BY <1>1, Fields
<1>4. \A k \in Lists : b \notin On(d, k)
  BY <1>3 DEF FreeOK
<1>5. \A k \in Lists : On(d, k) \subseteq S
  <2>1. ASSUME NEW k \in Lists PROVE On(d, k) \subseteq S
    <3>1. d.free[k] \in Seq(S)
      BY Fields
    <3>2. QED BY <3>1 DEF On, ToSet
  <2>2. QED BY <2>1
<1>6. IsInjective(e.free[l]) /\ On(e, l) = On(d, l) \cup {b}
  <2>1. d.free[l] \in Seq(S) /\ IsInjective(d.free[l])
    BY Fields DEF FreeOK
  <2>2. b \notin ToSet(d.free[l])
    BY <1>4 DEF On
  <2>3. e.free[l] \in Seq(S) /\ IsInjective(e.free[l])
        /\ ToSet(e.free[l]) = ToSet(d.free[l]) \cup {b}
    <3> DEFINE s == d.free[l]
               t == e.free[l]
    <3>1. t = <<b>> \o s \/ t = Append(s, b)
      BY <1>2
    <3>2. s \in Seq(S) /\ IsInjective(s) /\ b \notin ToSet(s)
      BY <2>1, <2>2
    <3> HIDE DEF s, t
    <3>3. t \in Seq(S) /\ IsInjective(t) /\ ToSet(t) = ToSet(s) \cup {b}
      BY <3>1, <3>2, PutIs
    <3>4. QED BY <3>3 DEF s, t
  <2>4. QED BY <2>3 DEF On
<1>7. \A k \in Lists \ {l} : IsInjective(e.free[k]) /\ On(e, k) = On(d, k)
  BY <1>2 DEF FreeOK, On
<1>8. \A k \in Lists : On(e, k) = IF k = l THEN On(d, k) \cup {b} ELSE On(d, k)
  BY <1>6, <1>7
<1>9. \A x \in S : "BUSY" \in e.flags[x] <=> x # b /\ "BUSY" \in d.flags[x]
  BY <1>1, Fields
<1>10. \A i, k \in Lists : i # k => On(e, i) \cap On(e, k) = {}
  BY <1>4, <1>8 DEF FreeOK
<1>11. \A x \in S : "BUSY" \notin e.flags[x] <=> \E k \in Lists : x \in On(e, k)
  BY <1>3, <1>8, <1>9 DEF FreeOK
<1>12. \A k \in Lists : \A x \in On(e, k) : k = "EMPTY" <=> e.b_bufsize[x] = 0
  BY <1>1, <1>2, <1>4, <1>8 DEF FreeOK
<1>13. QED BY <1>3, <1>6, <1>7, <1>10, <1>11, <1>12 DEF FreeOK

-----------------------------------------------------------------------------
(***************************************************************************)
(* The cache d while process p works on it with the buffers H in hand.     *)
(***************************************************************************)

\* Transfers, brelse() asleep and what is in hand.
Flow(d, H) ==
  /\ \A b \in d.io : "BUSY" \in d.flags[b] /\ "DONE" \notin d.flags[b] /\ b \notin d.relvp
  /\ \A b \in d.relvp : "BUSY" \in d.flags[b] /\ "ASYNC" \in d.flags[b] /\ b \notin H
  /\ d.relvp # {} => Loads[d.load].lastref
  /\ \A b \in Buf : "ASYNC" \in d.flags[b] => b \in d.io \cup d.relvp \cup H
  /\ \A b \in H : b \in Buf /\ "BUSY" \in d.flags[b]

\* A busy buffer is in an asynchronous transfer, in hand or another process's.
Owners(d, p, H) ==
  \A b \in Buf : "BUSY" \in d.flags[b] =>
    \/ "ASYNC" \in d.flags[b] \/ b \in H
    \/ \E q \in Procs \ {p} : b \in Held(pc[q], loc[q])

\* The other processes.
Other(d, H, q) ==
  /\ Local(d, pc[q], loc[q]) /\ SleepOK(d, d.slp[q], pc[q], loc[q])
  /\ Held(pc[q], loc[q]) \cap H = {} /\ Held(pc[q], loc[q]) \subseteq Buf

Others(d, p, H) ==
  /\ \A q \in Procs \ {p} : Other(d, H, q)
  /\ \A q, x \in Procs \ {p} :
       q # x => Held(pc[q], loc[q]) \cap Held(pc[x], loc[x]) = {}

Sound(d, p, H) ==
  /\ d \in Caches(Buf) /\ d.load = c.load /\ {None, FREELIST} \cap Buf = {}
  /\ FreeOK(d) /\ Flow(d, H) /\ Owners(d, p, H) /\ Others(d, p, H)

\* What the owner of b relies on is not disturbed.
Kept(d, e, b) ==
  /\ "BUSY" \in e.flags[b] <=> "BUSY" \in d.flags[b]
  /\ "ASYNC" \in e.flags[b] <=> "ASYNC" \in d.flags[b]
  /\ b \in e.relvp => b \in d.relvp
  /\ b \in e.io => b \in d.io
  /\ Moving(d, b) => Moving(e, b)

\* A process whose buffers are left alone is where it was.
LEMMA LocalKept ==
  ASSUME NEW d, NEW e, NEW l, NEW r, Local(d, l, r), \A b \in Held(l, r) : Kept(d, e, b)
  PROVE  Local(e, l, r)
<1>1. HasBp(l, r) => r.bp \in Held(l, r)
  BY DEF Held
<1>2. l = "biowait" => HasBp(l, r)
  BY DEF HasBp
<1>3. l = "written" => r.ep \in Held(l, r)
  BY DEF Held
<1>4. r.first # None => r.first \in Held(l, r)
  BY DEF Held
<1>5. QED BY <1>1, <1>2, <1>3, <1>4 DEF Local, Kept, Owned

\* Somebody asleep for a transfer answers for the buffer.
LEMMA SleeperHolds ==
  ASSUME NEW d, NEW s, NEW l, NEW r, SleepOK(d, s, l, r), l \in {"biowait", "written"}
  PROVE  s = None \/ (s \in Held(l, r) /\ s \in d.io)
  BY DEF SleepOK, Held, HasBp

\* A sleeper whose reason to sleep is still there.
LEMMA SleepKept ==
  ASSUME NEW S, NEW d \in Caches(S), NEW e \in Caches(S), NEW s, NEW l, NEW r,
         SleepOK(d, s, l, r), e.load = d.load, FREELIST \notin S,
         s \in d.io /\ s \in Held(l, r) => s \in e.io,
         ~Loads[d.load].lastref =>
           /\ s = FREELIST /\ d.wanted /\ Oldest(d) = None => e.wanted /\ Oldest(e) = None
           /\ s \in S /\ {"BUSY", "WANTED"} \subseteq d.flags[s] =>
                {"BUSY", "WANTED"} \subseteq e.flags[s]
  PROVE  SleepOK(e, s, l, r)
<1>1. DOMAIN d.flags = S /\ DOMAIN e.flags = S
  BY Fields
<1>2. CASE l \in {"biowait", "written"}
  <2>1. s = None \/ (s \in Held(l, r) /\ s \in d.io)
    BY <1>2, SleeperHolds
  <2>2. s # None => s \in e.io /\ s = IF l = "biowait" THEN r.bp ELSE r.ep
    BY <1>2, <2>1 DEF SleepOK
  <2>3. s # None => s \in S
    BY <2>2, Fields
  <2>4. QED BY <1>1, <1>2, <2>2, <2>3 DEF SleepOK
<1>3. CASE l \notin {"biowait", "written"}
  BY <1>1, <1>3 DEF SleepOK
<1>4. QED BY <1>2, <1>3

\* Flags, blocks and sizes of what is in hand, and marks on anything.
LEMMA SoundAlike ==
  ASSUME NEW p, NEW H, NEW d, Sound(d, p, H), NEW e \in Caches(Buf),
         e.load = d.load, d.wanted => e.wanted, e.io = d.io, e.relvp = d.relvp,
         \A q \in Procs \ {p} : e.slp[q] = d.slp[q], e.free = d.free,
         \A x \in Buf :
           /\ "BUSY" \in e.flags[x] <=> "BUSY" \in d.flags[x]
           /\ "BUSY" \in e.flags[x] \/ e.b_bufsize[x] = d.b_bufsize[x]
           /\ "WANTED" \in d.flags[x] => "WANTED" \in e.flags[x]
           /\ x \in H \/ ("ASYNC" \in e.flags[x] <=> "ASYNC" \in d.flags[x])
           /\ \/ x \in H /\ x \notin d.io
              \/ "DONE" \in e.flags[x] <=> "DONE" \in d.flags[x]
  PROVE  Sound(e, p, H)
<1>1. d \in Caches(Buf) /\ DOMAIN d.flags = Buf /\ DOMAIN e.flags = Buf
  BY Fields DEF Sound
<1>2. FreeOK(e)
  BY <1>1, FreeAlike DEF Sound
<1>3. Flow(e, H)
  <2>1. d.io \subseteq Buf /\ d.relvp \subseteq Buf
    BY <1>1, Fields
  <2>2. QED BY <2>1 DEF Sound, Flow
<1>4. Owners(e, p, H)
  BY DEF Sound, Owners
<1>5. ASSUME NEW q \in Procs \ {p} PROVE Other(e, H, q)
  <2>1. Other(d, H, q)
    BY DEF Sound, Others
  <2>2. \A b \in Held(pc[q], loc[q]) : Kept(d, e, b)
    BY <2>1 DEF Other, Kept, Moving
  <2>3. Local(e, pc[q], loc[q])
    BY <2>1, <2>2, LocalKept DEF Other
  <2>4. Oldest(e) = Oldest(d)
    BY DEF Oldest
  <2>5. SleepOK(e, e.slp[q], pc[q], loc[q])
    <3> DEFINE s == d.slp[q]
    <3>1. SleepOK(d, s, pc[q], loc[q]) /\ FREELIST \notin Buf
      BY <2>1 DEF Other, Sound
    <3> HIDE DEF s
    <3>2. s \in Buf /\ {"BUSY", "WANTED"} \subseteq d.flags[s] =>
            {"BUSY", "WANTED"} \subseteq e.flags[s]
      OBVIOUS
    <3>3. SleepOK(e, s, pc[q], loc[q])
      BY <1>1, <2>4, <3>1, <3>2, SleepKept
    <3>4. e.slp[q] = s
      BY DEF s
    <3>5. QED BY <3>3, <3>4
  <2>6. QED BY <2>1, <2>3, <2>5 DEF Other
<1>6. QED BY <1>1, <1>2, <1>3, <1>4, <1>5 DEF Sound, Others

\* A free buffer is nobody's, and nobody sleeps on it.
LEMMA FreeIsNobodys ==
  ASSUME NEW p, NEW H, NEW d, Sound(d, p, H), NEW b \in Buf, "BUSY" \notin d.flags[b]
  PROVE  /\ b \notin H /\ b \notin d.io /\ b \notin d.relvp /\ "ASYNC" \notin d.flags[b]
         /\ \A q \in Procs \ {p} : b \notin Held(pc[q], loc[q])
         /\ \A q \in Procs \ {p} : ~Loads[d.load].lastref => d.slp[q] # b
<1>1. b \notin H /\ b \notin d.io /\ b \notin d.relvp /\ "ASYNC" \notin d.flags[b]
  BY DEF Sound, Flow
<1>2. ASSUME NEW q \in Procs \ {p} PROVE b \notin Held(pc[q], loc[q])
  BY DEF Sound, Others, Other, Local, Owned
<1>3. ASSUME NEW q \in Procs \ {p}, ~Loads[d.load].lastref PROVE d.slp[q] # b
  <2>1. SleepOK(d, d.slp[q], pc[q], loc[q])
    BY DEF Sound, Others, Other
  <2>2. b # None /\ b # FREELIST
    BY DEF Sound
  <2>3. QED BY <1>1, <1>3, <2>1, <2>2 DEF SleepOK
<1>4. QED BY <1>1, <1>2, <1>3

\* Process p takes a free buffer: notavail(), and what getnewbuf() makes of it.
LEMMA SoundTake ==
  ASSUME NEW p, NEW H, NEW d, Sound(d, p, H), NEW e \in Caches(Buf), NEW b \in Buf,
         "BUSY" \notin d.flags[b],
         e.load = d.load, e.wanted = d.wanted, e.io = d.io, e.relvp = d.relvp,
         e.slp = d.slp, e.free = [l \in Lists |-> RemoveFirst(d.free[l], b)],
         "BUSY" \in e.flags[b],
         \A x \in Buf \ {b} : e.flags[x] = d.flags[x],
         \A x \in Buf : "BUSY" \in e.flags[x] \/ e.b_bufsize[x] = d.b_bufsize[x]
  PROVE  Sound(e, p, H \cup {b})
<1> DEFINE G == H \cup {b}
<1>1. d \in Caches(Buf) /\ DOMAIN d.flags = Buf /\ DOMAIN e.flags = Buf /\ None \notin Buf
  BY Fields DEF Sound
<1>2. FreeOK(e) /\ (Oldest(d) = None => Oldest(e) = None)
  BY <1>1, FreeTaken DEF Sound
<1>3. /\ b \notin H /\ b \notin d.io /\ b \notin d.relvp
      /\ \A q \in Procs \ {p} : b \notin Held(pc[q], loc[q])
      /\ \A q \in Procs \ {p} : ~Loads[d.load].lastref => d.slp[q] # b
  BY FreeIsNobodys
<1>4. Flow(e, G)
  <2>1. d.io \subseteq Buf /\ d.relvp \subseteq Buf
    BY <1>1, Fields
  <2>2. QED BY <1>3, <2>1 DEF Sound, Flow
<1>5. Owners(e, p, G)
  BY DEF Sound, Owners
<1>6. ASSUME NEW q \in Procs \ {p} PROVE Other(e, G, q)
  <2>1. Other(d, H, q)
    BY DEF Sound, Others
  <2>2. \A x \in Held(pc[q], loc[q]) : Kept(d, e, x)
    BY <1>3, <2>1 DEF Other, Kept, Moving
  <2>3. Local(e, pc[q], loc[q])
    BY <2>1, <2>2, LocalKept DEF Other
  <2>5. SleepOK(e, e.slp[q], pc[q], loc[q])
    <3> DEFINE s == d.slp[q]
    <3>1. SleepOK(d, s, pc[q], loc[q]) /\ FREELIST \notin Buf
      BY <2>1 DEF Other, Sound
    <3>2. ~Loads[d.load].lastref => s # b
      BY <1>3
    <3> HIDE DEF s
    <3>3. ~Loads[d.load].lastref /\ s \in Buf /\ {"BUSY", "WANTED"} \subseteq d.flags[s] =>
            {"BUSY", "WANTED"} \subseteq e.flags[s]
      BY <3>2
    <3>4. SleepOK(e, s, pc[q], loc[q])
      BY <1>1, <1>2, <3>1, <3>3, SleepKept
    <3>5. QED BY <3>4 DEF s
  <2>6. b \notin Held(pc[q], loc[q])
    BY <1>3
  <2>7. QED BY <2>1, <2>3, <2>5, <2>6 DEF Other
<1>7. QED BY <1>1, <1>2, <1>4, <1>5, <1>6 DEF Sound, Others

\* A transfer of a buffer in hand starts; an asynchronous one leaves the hand.
LEMMA SoundStart ==
  ASSUME NEW p, NEW H, NEW d, Sound(d, p, H), NEW e \in Caches(Buf), NEW b \in H,
         e.load = d.load, e.wanted = d.wanted, e.io = d.io \cup {b}, e.relvp = d.relvp,
         e.slp = d.slp, e.free = d.free, e.b_bufsize = d.b_bufsize,
         "BUSY" \in e.flags[b], "DONE" \notin e.flags[b],
         "WANTED" \in d.flags[b] => "WANTED" \in e.flags[b],
         \A x \in Buf \ {b} : e.flags[x] = d.flags[x]
  PROVE  Sound(e, p, H) /\ ("ASYNC" \in e.flags[b] => Sound(e, p, H \ {b}))
<1>1. d \in Caches(Buf) /\ DOMAIN d.flags = Buf /\ DOMAIN e.flags = Buf
  BY Fields DEF Sound
<1>2. b \in Buf /\ "BUSY" \in d.flags[b] /\ b \notin d.relvp
  BY DEF Sound, Flow
<1>3. FreeOK(e)
  BY <1>1, <1>2, FreeAlike DEF Sound
<1>4. Flow(e, H) /\ ("ASYNC" \in e.flags[b] => Flow(e, H \ {b}))
  <2>1. d.io \subseteq Buf /\ d.relvp \subseteq Buf
    BY <1>1, Fields
  <2>2. QED BY <1>2, <2>1 DEF Sound, Flow
<1>5. Owners(e, p, H) /\ ("ASYNC" \in e.flags[b] => Owners(e, p, H \ {b}))
  BY DEF Sound, Owners
<1>6. ASSUME NEW q \in Procs \ {p} PROVE Other(e, H, q)
  <2>1. Other(d, H, q) /\ b \notin Held(pc[q], loc[q])
    BY DEF Sound, Others, Other
  <2>2. \A x \in Held(pc[q], loc[q]) : Kept(d, e, x)
    BY <2>1 DEF Other, Kept, Moving
  <2>3. Local(e, pc[q], loc[q])
    BY <2>1, <2>2, LocalKept DEF Other
  <2>4. Oldest(e) = Oldest(d)
    BY DEF Oldest
  <2>5. SleepOK(e, e.slp[q], pc[q], loc[q])
    <3> DEFINE s == d.slp[q]
    <3>1. SleepOK(d, s, pc[q], loc[q]) /\ FREELIST \notin Buf
      BY <2>1 DEF Other, Sound
    <3> HIDE DEF s
    <3>2. s \in Buf /\ {"BUSY", "WANTED"} \subseteq d.flags[s] =>
            {"BUSY", "WANTED"} \subseteq e.flags[s]
      OBVIOUS
    <3>3. SleepOK(e, s, pc[q], loc[q])
      BY <1>1, <2>4, <3>1, <3>2, SleepKept
    <3>4. QED BY <3>3 DEF s
  <2>6. QED BY <2>1, <2>3, <2>5 DEF Other
<1>7. \A q \in Procs \ {p} : Other(e, H \ {b}, q)
  BY <1>6 DEF Other
<1>8. QED BY <1>1, <1>3, <1>4, <1>5, <1>6, <1>7 DEF Sound, Others

\* brelse() has woken whoever waits for b or for any buffer.
Quiet(d, p, b) ==
  ~Loads[d.load].lastref => \A q \in Procs \ {p} : d.slp[q] \notin {b, FREELIST}

\* The first half of brelse().
LEMMA SoundWake ==
  ASSUME NEW p, NEW H, NEW d, Sound(d, p, H), NEW b \in Buf, b \notin d.io,
         NEW e, e = BrelseWake(d, b)
  PROVE  Sound(e, p, H) /\ Quiet(e, p, b)
<1>1. d \in Caches(Buf) /\ DOMAIN d.flags = Buf
  BY Fields DEF Sound
<1>2. e \in Caches(Buf) /\ Woken(d, b, e)
  BY <1>1, BrelseWakeIs
<1>3. /\ e \in Caches(Buf) /\ e.flags = d.flags /\ e.free = d.free /\ e.load = d.load
      /\ e.relvp = d.relvp /\ e.io = d.io /\ e.b_bufsize = d.b_bufsize
      /\ \A q \in Procs :
           e.slp[q] = IF \/ d.slp[q] = b /\ "WANTED" \in d.flags[b]
                         \/ d.slp[q] = FREELIST /\ d.wanted
                      THEN None ELSE d.slp[q]
  BY <1>2 DEF Woken
<1>4. FreeOK(e)
  BY <1>1, <1>3, FreeAlike DEF Sound
<1>5. Flow(e, H) /\ Owners(e, p, H)
  BY <1>3 DEF Sound, Flow, Owners
<1>6. b # None /\ b # FREELIST /\ FREELIST # None
  BY BufAssumption, <1>1, Fields DEF Sound
<1>7. ASSUME NEW q \in Procs \ {p}
      PROVE  Other(e, H, q) /\ (~Loads[d.load].lastref => e.slp[q] \notin {b, FREELIST})
  <2>1. Other(d, H, q)
    BY DEF Sound, Others
  <2>2. \A x \in Held(pc[q], loc[q]) : Kept(d, e, x)
    BY <1>3 DEF Kept, Moving
  <2>3. Local(e, pc[q], loc[q])
    BY <2>1, <2>2, LocalKept DEF Other
  <2>4. ~Loads[d.load].lastref => e.slp[q] \notin {b, FREELIST}
    <3> DEFINE s == d.slp[q]
    <3>1. SleepOK(d, s, pc[q], loc[q])
      BY <2>1 DEF Other
    <3>2. e.slp[q] = IF \/ s = b /\ "WANTED" \in d.flags[b]
                        \/ s = FREELIST /\ d.wanted
                     THEN None ELSE s
      BY <1>3
    <3> HIDE DEF s
    <3>3. ~Loads[d.load].lastref /\ s = FREELIST => d.wanted
      BY <1>1, <1>6, <3>1 DEF SleepOK, Sound
    <3>4. ~Loads[d.load].lastref /\ s = b => "WANTED" \in d.flags[b]
      BY <1>6, <3>1 DEF SleepOK
    <3>5. QED BY <1>6, <3>2, <3>3, <3>4
  <2>5. SleepOK(e, e.slp[q], pc[q], loc[q])
    <3>1. CASE e.slp[q] = None
      BY <3>1 DEF SleepOK
    <3>2. CASE e.slp[q] # None
      <4> DEFINE s == d.slp[q]
      <4>1. SleepOK(d, s, pc[q], loc[q]) /\ FREELIST \notin Buf /\ e.slp[q] = s
        BY <2>1, <3>2, <1>3 DEF Other, Sound
      <4>2. ~Loads[d.load].lastref => s # FREELIST
        BY <2>4, <4>1
      <4> HIDE DEF s
      <4>3. SleepOK(e, s, pc[q], loc[q])
        BY <1>1, <1>3, <4>1, <4>2, SleepKept
      <4>4. QED BY <4>1, <4>3
    <3>3. QED BY <3>1, <3>2
  <2>6. QED BY <2>1, <2>3, <2>4, <2>5 DEF Other
<1>8. QED BY <1>3, <1>4, <1>5, <1>7 DEF Sound, Others, Quiet

\* The second half of brelse(): the buffer leaves the hand for a free list.
LEMMA SoundPut ==
  ASSUME NEW p, NEW H, NEW d, Sound(d, p, H), NEW b \in H, b \notin d.io, Quiet(d, p, b),
         NEW e, e = BrelseFree(d, b)
  PROVE  Sound(e, p, H \ {b})
<1>1. d \in Caches(Buf) /\ DOMAIN d.flags = Buf /\ b \in Buf /\ "BUSY" \in d.flags[b]
  BY Fields DEF Sound, Flow
<1>2. e \in Caches(Buf) /\ PutBack(d, b, e)
  BY <1>1, BrelseFreeIs
<1>3. /\ e.load = d.load /\ e.wanted = d.wanted /\ e.io = d.io
      /\ e.relvp = d.relvp /\ e.slp = d.slp /\ e.b_bufsize = d.b_bufsize
      /\ "BUSY" \notin e.flags[b] /\ "ASYNC" \notin e.flags[b]
      /\ \A x \in Buf \ {b} : e.flags[x] = d.flags[x]
  BY <1>1, <1>2 DEF PutBack
<1>4. FreeOK(e)
  BY <1>1, <1>2, FreePut DEF Sound
<1>5. Flow(e, H \ {b}) /\ Owners(e, p, H \ {b})
  <2>1. d.io \subseteq Buf /\ d.relvp \subseteq Buf
    BY <1>1, Fields
  <2>2. QED BY <1>1, <1>3, <2>1 DEF Sound, Flow, Owners
<1>6. ASSUME NEW q \in Procs \ {p} PROVE Other(e, H \ {b}, q)
  <2>1. Other(d, H, q) /\ b \notin Held(pc[q], loc[q])
    BY DEF Sound, Others, Other
  <2>2. \A x \in Held(pc[q], loc[q]) : Kept(d, e, x)
    BY <1>3, <2>1 DEF Other, Kept, Moving
  <2>3. Local(e, pc[q], loc[q])
    BY <2>1, <2>2, LocalKept DEF Other
  <2>5. SleepOK(e, e.slp[q], pc[q], loc[q])
    <3> DEFINE s == d.slp[q]
    <3>1. SleepOK(d, s, pc[q], loc[q]) /\ FREELIST \notin Buf /\ e.slp[q] = s
      BY <1>3, <2>1 DEF Other, Sound
    <3>2. ~Loads[d.load].lastref => s \notin {b, FREELIST}
      BY DEF Quiet
    <3> HIDE DEF s
    <3>3. ~Loads[d.load].lastref /\ s \in Buf /\ {"BUSY", "WANTED"} \subseteq d.flags[s] =>
            {"BUSY", "WANTED"} \subseteq e.flags[s]
      BY <1>3, <3>2
    <3>4. SleepOK(e, s, pc[q], loc[q])
      BY <1>1, <1>2, <1>3, <3>1, <3>2, <3>3, SleepKept
    <3>5. QED BY <3>1, <3>4
  <2>6. QED BY <2>1, <2>3, <2>5 DEF Other
<1>7. QED BY <1>2, <1>3, <1>4, <1>5, <1>6 DEF Sound, Others

\* The buffers have names of their own.
LEMMA Names ==
  ASSUME IInv
  PROVE  {None, FREELIST} \cap Buf = {} /\ None \notin Procs /\ None # FREELIST
<1>1. c.load \in DOMAIN Loads
  BY Fields DEF IInv
<1>2. QED BY <1>1, BufAssumption DEF IInv

\* A process begins a step with its own buffers in hand, ...
LEMMA SoundBegin ==
  ASSUME IInv, NEW p \in Procs
  PROVE  Sound(c, p, Held(pc[p], loc[p]))
<1> DEFINE H == Held(pc[p], loc[p])
<1>1. DOMAIN c.flags = Buf
  BY DEF Buf
<1>2. ASSUME NEW q \in Procs PROVE Held(pc[q], loc[q]) \subseteq Buf
  <2>1. loc[q] \in Regs(Buf) /\ Shape(pc[q], loc[q])
    BY DEF IInv, Local
  <2>2. QED BY <2>1 DEF Regs, Held, Shape
<1>3. \A x \in H : Owned(c, x)
  BY DEF IInv, Local
<1>4. Flow(c, H)
  BY <1>1, <1>2, <1>3 DEF IInv, Transfers, Flow, Owned
<1>5. Owners(c, p, H)
  BY <1>1 DEF IInv, NoneLost, Owners
<1>6. Others(c, p, H)
  BY <1>2 DEF IInv, Apart, Others, Other
<1>7. QED BY <1>4, <1>5, <1>6, Names DEF IInv, Sound

\* ... and ends it with those in hand that its new place answers for.
LEMMA SoundEnd ==
  ASSUME IInv, NEW p \in Procs, NEW d, NEW l \in Label, NEW r \in Regs(Buf),
         Sound(d, p, Held(l, r)), Local(d, l, r), SleepOK(d, d.slp[p], l, r),
         Goto(p, d, l, r)
  PROVE  IInv'
<1>1. /\ c' = d /\ pc' = [pc EXCEPT ![p] = l] /\ loc' = [loc EXCEPT ![p] = r]
      /\ cur' \in {p, None}
  BY DEF Goto
<1>2. d \in Caches(Buf) /\ DOMAIN d.flags = Buf /\ Buf' = Buf /\ d.load = c.load
  BY <1>1, Fields DEF Sound, Buf
<1>3. pc \in [Procs -> Label] /\ loc \in [Procs -> Regs(Buf)]
  BY DEF IInv
<1>4. /\ pc' \in [Procs -> Label] /\ loc' \in [Procs -> Regs(Buf)]
      /\ cur' \in Procs \cup {None}
  BY <1>1, <1>3
<1>5. /\ pc'[p] = l /\ loc'[p] = r
      /\ \A q \in Procs \ {p} : pc'[q] = pc[q] /\ loc'[q] = loc[q]
  BY <1>1, <1>3
<1>6. FreeOK(d)
  BY DEF Sound
<1>7. Transfers(d)
  <2>1. \A x \in Held(l, r) : "ASYNC" \notin d.flags[x]
    BY DEF Local, Owned
  <2>2. QED BY <1>2, <2>1 DEF Sound, Flow, Transfers
<1>8. \A x \in Buf : "BUSY" \in d.flags[x] =>
        "ASYNC" \in d.flags[x] \/ \E q \in Procs : x \in Held(pc'[q], loc'[q])
  BY <1>5 DEF Sound, Owners
<1>9. \A q, x \in Procs : q # x => Held(pc'[q], loc'[q]) \cap Held(pc'[x], loc'[x]) = {}
  <2>1. \A q \in Procs \ {p} : Held(pc'[q], loc'[q]) \cap Held(l, r) = {}
    BY <1>5 DEF Sound, Others, Other
  <2>2. \A q, x \in Procs \ {p} :
          q # x => Held(pc'[q], loc'[q]) \cap Held(pc'[x], loc'[x]) = {}
    BY <1>5 DEF Sound, Others
  <2>3. QED BY <1>5, <2>1, <2>2
<1>10. \A q \in Procs : Local(d, pc'[q], loc'[q]) /\ SleepOK(d, d.slp[q], pc'[q], loc'[q])
  BY <1>5 DEF Sound, Others, Other
<1>11. Buf = Range(Loads[c.load].bufs)
  BY DEF IInv
<1>12. FreeOK(c') /\ Transfers(c') /\ NoneLost(c)' /\ Apart'
  BY <1>1, <1>2, <1>6, <1>7, <1>8, <1>9 DEF NoneLost, Apart
<1>13. QED BY <1>1, <1>2, <1>4, <1>10, <1>11, <1>12 DEF IInv

\* The same for the device, which has nothing in hand.
LEMMA DeviceBegin ==
  ASSUME IInv
  PROVE  Sound(c, None, {})
<1>1. DOMAIN c.flags = Buf
  BY DEF Buf
<1>2. ASSUME NEW q \in Procs PROVE Held(pc[q], loc[q]) \subseteq Buf
  <2>1. loc[q] \in Regs(Buf) /\ Shape(pc[q], loc[q])
    BY DEF IInv, Local
  <2>2. QED BY <2>1 DEF Regs, Held, Shape
<1>3. Flow(c, {})
  BY <1>1 DEF IInv, Transfers, Flow
<1>4. Owners(c, None, {})
  BY <1>1, Names DEF IInv, NoneLost, Owners
<1>5. Others(c, None, {})
  BY <1>2, Names DEF IInv, Apart, Others, Other
<1>6. QED BY <1>3, <1>4, <1>5, Names DEF IInv, Sound

\* A sound cache that is in no process's hands satisfies the invariant.
LEMMA DeviceEnd ==
  ASSUME IInv, NEW d, Sound(d, None, {}), c' = d, UNCHANGED <<pc, loc, cur>>
  PROVE  IInv'
<1>1. pc' = pc /\ loc' = loc /\ cur' = cur
  OBVIOUS
<1>2. d \in Caches(Buf) /\ DOMAIN d.flags = Buf /\ Buf' = Buf /\ d.load = c.load
  BY Fields DEF Sound, Buf
<1>3. FreeOK(d) /\ Transfers(d)
  BY <1>2 DEF Sound, Flow, Transfers
<1>4. NoneLost(c)'
  BY <1>1, <1>2 DEF Sound, Owners, NoneLost
<1>5. Apart'
  BY <1>1 DEF IInv, Apart
<1>6. \A q \in Procs : Local(d, pc[q], loc[q]) /\ SleepOK(d, d.slp[q], pc[q], loc[q])
  BY Names DEF Sound, Others, Other
<1>7. QED BY <1>1, <1>2, <1>3, <1>4, <1>5, <1>6 DEF IInv

-----------------------------------------------------------------------------
(***************************************************************************)
(* The primitives on what is in hand.                                      *)
(***************************************************************************)

\* Every buffer but b is as it was.
Beside(d, e, b) ==
  \A x \in Buf \ {b} : /\ e.flags[x] = d.flags[x]
                       /\ x \in e.io <=> x \in d.io
                       /\ x \in e.relvp <=> x \in d.relvp

\* e is d with flags fl on buffer b.
Flagged(d, b, fl, e) == Alike(d, e) /\ Beside(d, e, b) /\ e.flags[b] = fl

\* e is d with b off its free list, ...
Taken(d, b, e) ==
  /\ Beside(d, e, b) /\ e.slp = d.slp /\ e.flags[b] = d.flags[b] \cup {"BUSY"}
  /\ b \notin e.io /\ b \notin e.relvp

\* ... with a transfer of b under way.
Started(d, b, fl, e) ==
  Beside(d, e, b) /\ e.slp = d.slp /\ b \in e.io /\ b \notin e.relvp /\ e.flags[b] = fl

\* notavail().
LEMMA Taking ==
  ASSUME NEW p, NEW H, NEW d, Sound(d, p, H), NEW b \in Buf, "BUSY" \notin d.flags[b],
         NEW e, e = Notavail(d, b)
  PROVE  /\ Sound(e, p, H \cup {b}) /\ Taken(d, b, e) /\ b \notin H /\ "ASYNC" \notin d.flags[b]
<1>1. d \in Caches(Buf) /\ \A l \in Lists : IsInjective(d.free[l])
  BY DEF Sound, FreeOK
<1>2. /\ e \in Caches(Buf) /\ e.load = d.load /\ e.wanted = d.wanted /\ e.io = d.io
      /\ e.relvp = d.relvp /\ e.slp = d.slp /\ e.b_bufsize = d.b_bufsize
      /\ e.flags = [d.flags EXCEPT ![b] = @ \cup {"BUSY"}]
      /\ e.free = [l \in Lists |-> RemoveFirst(d.free[l], b)]
  BY <1>1, NotavailIs
<1>3. /\ e.flags[b] = d.flags[b] \cup {"BUSY"}
      /\ \A x \in Buf \ {b} : e.flags[x] = d.flags[x]
  BY <1>1, <1>2, Fields
<1>4. Sound(e, p, H \cup {b})
  BY <1>2, <1>3, SoundTake
<1>5. b \notin H /\ b \notin d.io /\ b \notin d.relvp /\ "ASYNC" \notin d.flags[b]
  BY FreeIsNobodys
<1>6. QED BY <1>2, <1>3, <1>4, <1>5 DEF Beside, Taken

\* A flag that says nothing of owners is set on any buffer.
LEMMA Marking ==
  ASSUME NEW p, NEW H, NEW d, Sound(d, p, H), NEW b \in Buf, NEW on \in SUBSET Flag,
         "BUSY" \notin on, "ASYNC" \notin on, "DONE" \notin on, NEW e, e = SetF(d, b, on, {})
  PROVE  Sound(e, p, H) /\ Flagged(d, b, d.flags[b] \cup on, e)
<1>1. d \in Caches(Buf)
  BY DEF Sound
<1>2. e \in Caches(Buf) /\ Alike(d, e) /\ e.flags = [d.flags EXCEPT ![b] = (@ \cup on) \ {}]
  BY <1>1, SetFIs
<1>3. /\ e.flags[b] = d.flags[b] \cup on
      /\ \A x \in Buf \ {b} : e.flags[x] = d.flags[x]
  BY <1>1, <1>2, Fields
<1>4. Sound(e, p, H)
  BY <1>2, <1>3, SoundAlike DEF Alike
<1>5. QED BY <1>2, <1>3, <1>4 DEF Beside, Alike, Flagged

\* Any flags but B_BUSY and B_WANTED of a buffer in hand.
LEMMA Flagging ==
  ASSUME NEW p, NEW H, NEW d, Sound(d, p, H), NEW b \in H, b \notin d.io,
         NEW on \in SUBSET Flag, NEW off, "BUSY" \notin off, "WANTED" \notin off,
         NEW e, e = SetF(d, b, on, off)
  PROVE  Sound(e, p, H) /\ Flagged(d, b, (d.flags[b] \cup on) \ off, e)
<1>1. d \in Caches(Buf) /\ b \in Buf /\ "BUSY" \in d.flags[b]
  BY DEF Sound, Flow
<1>2. e \in Caches(Buf) /\ Alike(d, e) /\ e.flags = [d.flags EXCEPT ![b] = (@ \cup on) \ off]
  BY <1>1, SetFIs
<1>3. /\ e.flags[b] = (d.flags[b] \cup on) \ off
      /\ \A x \in Buf \ {b} : e.flags[x] = d.flags[x]
  BY <1>1, <1>2, Fields
<1>4. \A x \in Buf :
        /\ "BUSY" \in e.flags[x] <=> "BUSY" \in d.flags[x]
        /\ "WANTED" \in d.flags[x] => "WANTED" \in e.flags[x]
        /\ x \in H \/ ("ASYNC" \in e.flags[x] <=> "ASYNC" \in d.flags[x])
        /\ \/ x \in H /\ x \notin d.io
           \/ "DONE" \in e.flags[x] <=> "DONE" \in d.flags[x]
  BY <1>1, <1>3
<1>5. Sound(e, p, H)
  BY <1>2, <1>4, SoundAlike DEF Alike
<1>6. QED BY <1>2, <1>3, <1>5 DEF Beside, Alike, Flagged

\* bwrite() and bread() up to the strategy call: what they have in common.
LEMMA Starting ==
  ASSUME NEW p, NEW H, NEW d, Sound(d, p, H), NEW b \in H, b \notin d.io,
         NEW on \in SUBSET Flag, NEW off,
         "BUSY" \notin off, "WANTED" \notin off, "ASYNC" \notin off,
         "DONE" \notin (d.flags[b] \cup on) \ off,
         NEW e, e = Strategy(SetF(d, b, on, off), b)
  PROVE  /\ Sound(e, p, H) /\ Started(d, b, (d.flags[b] \cup on) \ off, e)
         /\ "ASYNC" \in d.flags[b] \cup on => Sound(e, p, H \ {b})
<1> DEFINE f == SetF(d, b, on, off)
<1>1. /\ Sound(f, p, H) /\ Alike(d, f) /\ Beside(d, f, b)
      /\ f.flags[b] = (d.flags[b] \cup on) \ off
  <2>1. f = SetF(d, b, on, off)
    OBVIOUS
  <2> HIDE DEF f
  <2>2. Sound(f, p, H) /\ Flagged(d, b, (d.flags[b] \cup on) \ off, f)
    BY <2>1, Flagging
  <2>3. QED BY <2>2 DEF Flagged
<1>2. f \in Caches(Buf) /\ b \in Buf /\ "BUSY" \in f.flags[b] /\ b \notin f.relvp
  BY <1>1 DEF Sound, Flow
<1>3. e = Strategy(f, b)
  OBVIOUS
<1> HIDE DEF f
<1>4. /\ e \in Caches(Buf) /\ e.io = f.io \cup {b} /\ e.flags = f.flags /\ e.free = f.free
      /\ e.load = f.load /\ e.wanted = f.wanted /\ e.relvp = f.relvp /\ e.slp = f.slp
      /\ e.b_bufsize = f.b_bufsize
  BY <1>2, <1>3, StrategyIs
<1>5. Sound(e, p, H) /\ ("ASYNC" \in e.flags[b] => Sound(e, p, H \ {b}))
  BY <1>1, <1>2, <1>4, SoundStart
<1>6. "ASYNC" \in d.flags[b] \cup on => "ASYNC" \in e.flags[b]
  BY <1>1, <1>4
<1>7. QED BY <1>1, <1>2, <1>4, <1>5, <1>6 DEF Alike, Beside, Started

\* brelse() of a buffer in hand.
LEMMA Giving ==
  ASSUME NEW p \in Procs \cup {None}, NEW H, NEW d, Sound(d, p, H), NEW b \in H,
         b \notin d.io, NEW e, e = Brelse(d, b)
  PROVE  /\ Sound(e, p, H \ {b}) /\ Beside(d, e, b)
         /\ \A q \in Procs : d.slp[q] = None => e.slp[q] = None
<1> DEFINE d1 == BrelseWake(d, b)
           d2 == IF "ERROR" \in d.flags[b] THEN Brelvp(d1, b) ELSE d1
<1>1. d \in Caches(Buf) /\ b \in Buf
  BY DEF Sound, Flow
<1>2. e = BrelseFree(d2, b)
  BY DEF Brelse
<1>3. Sound(d1, p, H) /\ Quiet(d1, p, b) /\ d1 \in Caches(Buf) /\ Woken(d, b, d1)
  BY <1>1, SoundWake, BrelseWakeIs
<1> HIDE DEF d1
<1>4. /\ d1.flags = d.flags /\ d1.io = d.io /\ d1.relvp = d.relvp
      /\ \A q \in Procs : d.slp[q] = None => d1.slp[q] = None
  BY <1>3 DEF Woken
<1>5. d2 \in Caches(Buf) /\ Alike(d1, d2) /\ d2.flags = d1.flags
  <2>1. Brelvp(d1, b) \in Caches(Buf) /\ Alike(d1, Brelvp(d1, b))
        /\ Brelvp(d1, b).flags = d1.flags
    BY <1>1, <1>3, BrelvpIs
  <2>2. Alike(d1, d1)
    BY DEF Alike
  <2>3. QED BY <1>3, <2>1, <2>2
<1> HIDE DEF d2
<1>6. Sound(d2, p, H) /\ Quiet(d2, p, b)
  <2>1. Sound(d2, p, H)
    BY <1>3, <1>5, SoundAlike DEF Alike
  <2>2. QED BY <1>3, <1>5, <2>1 DEF Quiet, Alike
<1>7. b \notin d2.io
  BY <1>4, <1>5 DEF Alike
<1>8. Sound(e, p, H \ {b})
  BY <1>2, <1>6, <1>7, SoundPut
<1>9. PutBack(d2, b, e)
  BY <1>1, <1>2, <1>5, BrelseFreeIs
<1>10. /\ e.io = d2.io /\ e.relvp = d2.relvp /\ e.slp = d2.slp
       /\ \A x \in Buf \ {b} : e.flags[x] = d2.flags[x]
  BY <1>1, <1>5, <1>9, Fields DEF PutBack
<1>11. QED BY <1>4, <1>5, <1>8, <1>10 DEF Alike, Beside

\* A buffer beside the one that changes is as its owner left it.
LEMMA BesideKept ==
  ASSUME NEW d, NEW e, NEW b, Beside(d, e, b), NEW x \in Buf \ {b}
  PROVE  Kept(d, e, x) /\ (Owned(d, x) => Owned(e, x)) /\ (Moving(d, x) => Moving(e, x))
  BY DEF Beside, Kept, Owned, Moving

\* A process that sleeps for nothing.
LEMMA AwakeOK ==
  ASSUME NEW d, NEW l, NEW r
  PROVE  SleepOK(d, None, l, r)
  BY DEF SleepOK

\* bwrite() of a buffer that is not marked asynchronous: the caller waits.
LEMMA WriteWaits ==
  ASSUME IInv, NEW p \in Procs, NEW d, NEW b, NEW ret \in Label, NEW r \in Regs(Buf),
         Bwrite(p, d, b, ret, r), d.slp[p] = None, b \notin d.io, "ASYNC" \notin d.flags[b],
         NEW r1, r1 = [r EXCEPT !.ep = b, !.ret = ret],
         Sound(d, p, Held("written", r1)), Shape("written", r1),
         \A x \in Held("written", r1) : Owned(d, x),
         HasBp("written", r1) => r1.bp \notin d.io,
         r1.first # None => Moving(d, r1.first)
  PROVE  IInv'
<1> DEFINE H == Held("written", r1)
           e == StartWrite(d, b)
<1>1. r1.ep = b /\ r1.ret = ret /\ r1.bp = r.bp /\ r1.first = r.first
  BY DEF Regs
<1>2. b \in H
  BY <1>1 DEF Held
<1>3. H \subseteq Buf
  BY DEF Sound, Flow
<1>4. r1 \in Regs(Buf)
  BY <1>2, <1>3 DEF Regs
<1>5. Goto(p, e, "written", r1)
  BY DEF Bwrite
<1>6. /\ Sound(e, p, H)
      /\ Started(d, b, (d.flags[b] \cup {}) \ {"READ", "DONE", "ERROR", "DELWRI"}, e)
  <2>1. e = Strategy(SetF(d, b, {}, {"READ", "DONE", "ERROR", "DELWRI"}), b)
    BY DEF StartWrite
  <2>2. /\ "BUSY" \notin {"READ", "DONE", "ERROR", "DELWRI"}
        /\ "WANTED" \notin {"READ", "DONE", "ERROR", "DELWRI"}
        /\ "ASYNC" \notin {"READ", "DONE", "ERROR", "DELWRI"}
        /\ "DONE" \notin (d.flags[b] \cup {}) \ {"READ", "DONE", "ERROR", "DELWRI"}
        /\ {} \in SUBSET Flag
    OBVIOUS
  <2> HIDE DEF e, H
  <2>3. QED BY <1>2, <2>1, <2>2, Starting DEF H
<1> HIDE DEF e
<1>7. /\ Beside(d, e, b) /\ e.slp = d.slp /\ b \in e.io /\ b \notin e.relvp
      /\ "BUSY" \in d.flags[b] => "BUSY" \in e.flags[b]
      /\ "ASYNC" \notin e.flags[b]
  BY <1>6 DEF Started
<1>8. \A x \in H : Owned(e, x)
  <2>1. Owned(e, b)
    BY <1>2, <1>7 DEF Owned
  <2>2. QED BY <1>3, <1>7, <2>1, BesideKept
<1>9. r1.first # None => Moving(e, r1.first)
  <2>1. r1.first # None => r1.first \in Buf \ {b}
    BY <1>1, <1>3 DEF Held, Shape
  <2>2. QED BY <1>7, <2>1, BesideKept
<1>10. HasBp("written", r1) => r1.bp \notin e.io
  <2>1. HasBp("written", r1) => r1.bp \in Buf \ {b}
    BY <1>1, <1>3 DEF Held, HasBp, Shape
  <2>2. QED BY <1>7, <2>1 DEF Beside
<1>11. Moving(e, r1.ep)
  BY <1>1, <1>7 DEF Moving
<1>12. Local(e, "written", r1)
  BY <1>8, <1>9, <1>10, <1>11 DEF Local
<1>13. SleepOK(e, e.slp[p], "written", r1)
  BY <1>7, AwakeOK
<1>14. QED BY <1>4, <1>5, <1>6, <1>12, <1>13, SoundEnd DEF Label

\* bwrite() of a delayed write, made asynchronous: the caller goes on.
LEMMA WriteDelayed ==
  ASSUME IInv, NEW p \in Procs, NEW d, NEW b, NEW ret \in Label, NEW r \in Regs(Buf),
         Bwrite(p, d, b, ret, r), d.slp[p] = None, b \notin d.io,
         "ASYNC" \in d.flags[b], "DELWRI" \in d.flags[b],
         NEW r1, r1 = [r EXCEPT !.ep = b, !.ret = ret],
         Sound(d, p, Held("age", r1) \cup {b}), b \notin Held("age", r1), Shape("age", r1),
         \A x \in Held("age", r1) : Owned(d, x),
         HasBp("age", r1) => r1.bp \notin d.io,
         r1.first # None => Moving(d, r1.first)
  PROVE  IInv'
<1> DEFINE H == Held("age", r1)
           G == H \cup {b}
           e == StartWrite(d, b)
<1>1. r1.ep = b /\ r1.ret = ret /\ r1.bp = r.bp /\ r1.first = r.first
  BY DEF Regs
<1>2. G \subseteq Buf /\ b \in Buf /\ b \in G /\ G \ {b} = H
  BY DEF Sound, Flow
<1>3. r1 \in Regs(Buf)
  BY <1>2 DEF Regs
<1>4. Goto(p, e, "age", r1)
  BY DEF Bwrite
<1>5. /\ Sound(e, p, H)
      /\ Started(d, b, (d.flags[b] \cup {}) \ {"READ", "DONE", "ERROR", "DELWRI"}, e)
  <2>1. e = Strategy(SetF(d, b, {}, {"READ", "DONE", "ERROR", "DELWRI"}), b)
    BY DEF StartWrite
  <2>2. /\ "BUSY" \notin {"READ", "DONE", "ERROR", "DELWRI"}
        /\ "WANTED" \notin {"READ", "DONE", "ERROR", "DELWRI"}
        /\ "ASYNC" \notin {"READ", "DONE", "ERROR", "DELWRI"}
        /\ "DONE" \notin (d.flags[b] \cup {}) \ {"READ", "DONE", "ERROR", "DELWRI"}
        /\ {} \in SUBSET Flag /\ "ASYNC" \in d.flags[b] \cup {}
    OBVIOUS
  <2>3. Sound(d, p, G)
    OBVIOUS
  <2> HIDE DEF e, G, H
  <2>4. /\ Sound(e, p, G \ {b})
        /\ Started(d, b, (d.flags[b] \cup {}) \ {"READ", "DONE", "ERROR", "DELWRI"}, e)
    BY <1>2, <2>1, <2>2, <2>3, Starting
  <2>5. QED BY <1>2, <2>4
<1> HIDE DEF e
<1>6. Beside(d, e, b) /\ e.slp = d.slp
  BY <1>5 DEF Started
<1>7. \A x \in H : Owned(e, x)
  BY <1>2, <1>6, BesideKept
<1>8. r1.first # None => Moving(e, r1.first)
  <2>1. r1.first # None => r1.first \in Buf \ {b}
    BY <1>2 DEF Held
  <2>2. QED BY <1>6, <2>1, BesideKept
<1>9. HasBp("age", r1) => r1.bp \notin e.io
  <2>1. HasBp("age", r1) => r1.bp \in Buf \ {b}
    BY <1>2 DEF Held
  <2>2. QED BY <1>6, <2>1 DEF Beside
<1>10. Local(e, "age", r1)
  BY <1>7, <1>8, <1>9 DEF Local
<1>11. SleepOK(e, e.slp[p], "age", r1)
  BY <1>6, AwakeOK
<1>12. QED BY <1>3, <1>4, <1>5, <1>10, <1>11, SoundEnd DEF Label

-----------------------------------------------------------------------------
(***************************************************************************)
(* The shapes of a step of process p.                                      *)
(***************************************************************************)

\* What is known of process p.
LEMMA Mine ==
  ASSUME IInv, NEW p \in Procs
  PROVE  /\ Sound(c, p, Held(pc[p], loc[p])) /\ Local(c, pc[p], loc[p])
         /\ loc[p] \in Regs(Buf) /\ Held(pc[p], loc[p]) \subseteq Buf
         /\ None \notin Buf /\ FREELIST \notin Buf
<1>1. Sound(c, p, Held(pc[p], loc[p]))
  BY SoundBegin
<1>2. QED BY <1>1, Names DEF IInv, Sound, Flow

\* The registers.
LEMMA RegFields ==
  ASSUME NEW S, NEW r \in Regs(S)
  PROVE  /\ r.blk \in Nat \cup {None} /\ r.size \in Nat /\ r.bp \in S \cup {None}
         /\ r.ep \in S \cup {None} /\ r.first \in S \cup {None} /\ r.ret \in Label
         /\ r.call \in CallRec \cup {None}
  BY DEF Regs

\* The cache does not change.
LEMMA Moves ==
  ASSUME IInv, NEW p \in Procs, c.slp[p] = None, NEW l \in Label, NEW r \in Regs(Buf),
         Goto(p, c, l, r), Held(l, r) = Held(pc[p], loc[p]), Local(c, l, r)
  PROVE  IInv'
<1>1. Sound(c, p, Held(l, r))
  BY SoundBegin
<1>2. SleepOK(c, c.slp[p], l, r)
  BY AwakeOK
<1>3. QED BY <1>1, <1>2, SoundEnd

\* Only a buffer that p does not answer for afterwards changes.
LEMMA Lands ==
  ASSUME IInv, NEW p \in Procs, NEW d, d.slp[p] = None, NEW l \in Label,
         NEW r \in Regs(Buf), Goto(p, d, l, r), Sound(d, p, Held(l, r)), NEW b,
         Beside(c, d, b), b \notin Held(l, r), Local(c, l, r)
  PROVE  IInv'
<1>1. Held(l, r) \subseteq Buf
  BY DEF Sound, Flow
<1>2. \A x \in Held(l, r) : Kept(c, d, x)
  BY <1>1, BesideKept
<1>3. Local(d, l, r)
  BY <1>2, LocalKept
<1>4. SleepOK(d, d.slp[p], l, r)
  BY AwakeOK
<1>5. QED BY <1>3, <1>4, SoundEnd

\* The cache after sleep().
LEMMA SleepOnIs ==
  ASSUME NEW S, NEW d \in Caches(S), NEW p \in Procs, NEW s \in S \cup {FREELIST, None},
         NEW e, e = SleepOn(d, p, s)
  PROVE  /\ e \in Caches(S) /\ e.flags = d.flags /\ e.free = d.free /\ e.load = d.load
         /\ e.relvp = d.relvp /\ e.io = d.io /\ e.b_bufsize = d.b_bufsize
         /\ e.wanted = d.wanted /\ e.slp[p] = s
         /\ \A q \in Procs \ {p} : e.slp[q] = d.slp[q]
<1> DEFINE sl == [d.slp EXCEPT ![p] = s]
<1>1. sl \in [Procs -> S \cup {FREELIST, None}]
  BY Fields
<1>2. sl[p] = s /\ \A q \in Procs \ {p} : sl[q] = d.slp[q]
  BY Fields
<1>3. e = [d EXCEPT !.slp = sl]
  BY DEF SleepOn
<1> HIDE DEF sl
<1>4. /\ e \in Caches(S) /\ e.flags = d.flags /\ e.free = d.free /\ e.load = d.load
      /\ e.relvp = d.relvp /\ e.io = d.io /\ e.b_bufsize = d.b_bufsize
      /\ e.wanted = d.wanted /\ e.slp = sl
  BY <1>1, <1>3 DEF Caches
<1>5. QED BY <1>2, <1>4

\* Process p goes to sleep where it is; d is the cache it leaves.
LEMMA Sleeps ==
  ASSUME IInv, NEW p \in Procs, NEW d, Sound(d, p, Held(pc[p], loc[p])),
         \A x \in Held(pc[p], loc[p]) : Kept(c, d, x),
         NEW s \in Buf \cup {FREELIST},
         Goto(p, SleepOn(d, p, s), pc[p], loc[p]),
         \A e \in Caches(Buf) :
           /\ e.flags = d.flags /\ e.free = d.free /\ e.load = d.load
           /\ e.wanted = d.wanted /\ e.io = d.io
           => SleepOK(e, s, pc[p], loc[p])
  PROVE  IInv'
<1> DEFINE e == SleepOn(d, p, s)
           l == pc[p]
           r == loc[p]
<1>1. d \in Caches(Buf)
  BY DEF Sound
<1>2. /\ e \in Caches(Buf) /\ e.flags = d.flags /\ e.free = d.free /\ e.load = d.load
      /\ e.relvp = d.relvp /\ e.io = d.io /\ e.b_bufsize = d.b_bufsize
      /\ e.wanted = d.wanted /\ e.slp[p] = s
      /\ \A q \in Procs \ {p} : e.slp[q] = d.slp[q]
  <2>1. e = SleepOn(d, p, s)
    OBVIOUS
  <2> HIDE DEF e
  <2>2. QED BY <1>1, <2>1, SleepOnIs
<1>3. Goto(p, e, l, r)
  OBVIOUS
<1> HIDE DEF e
<1>4. Sound(e, p, Held(l, r))
  BY <1>2, SoundAlike
<1>5. \A x \in Held(l, r) : Kept(c, e, x)
  BY <1>2 DEF Kept, Moving
<1>6. Local(c, l, r) /\ l \in Label /\ r \in Regs(Buf)
  BY DEF IInv
<1>7. Local(e, l, r)
  BY <1>5, <1>6, LocalKept
<1>8. SleepOK(e, e.slp[p], l, r)
  BY <1>2
<1>9. QED BY <1>3, <1>4, <1>6, <1>7, <1>8, SoundEnd

\* It sleeps for a buffer that is busy, ...
LEMMA SleepsOnBusy ==
  ASSUME IInv, NEW p \in Procs, NEW b \in Buf, "BUSY" \in c.flags[b],
         pc[p] \notin {"biowait", "written"},
         Goto(p, SleepOn(SetF(c, b, {"WANTED"}, {}), p, b), pc[p], loc[p])
  PROVE  IInv'
<1> DEFINE d == SetF(c, b, {"WANTED"}, {})
           H == Held(pc[p], loc[p])
<1>1. Sound(c, p, H) /\ H \subseteq Buf
  BY Mine
<1>2. Sound(d, p, H) /\ Flagged(c, b, c.flags[b] \cup {"WANTED"}, d)
  <2>1. d = SetF(c, b, {"WANTED"}, {}) /\ {"WANTED"} \in SUBSET Flag
    BY DEF Flag
  <2>2. "BUSY" \notin {"WANTED"} /\ "ASYNC" \notin {"WANTED"} /\ "DONE" \notin {"WANTED"}
    OBVIOUS
  <2> HIDE DEF d, H
  <2>3. QED BY <1>1, <2>1, <2>2, Marking
<1>3. Goto(p, SleepOn(d, p, b), pc[p], loc[p])
  OBVIOUS
<1> HIDE DEF d
<1>4. /\ Alike(c, d) /\ Beside(c, d, b) /\ d.flags[b] = c.flags[b] \cup {"WANTED"}
  BY <1>2 DEF Flagged
<1>5. \A x \in H : Kept(c, d, x)
  BY <1>1, <1>4 DEF Alike, Beside, Kept, Moving
<1>6. ASSUME NEW e \in Caches(Buf), e.flags = d.flags
      PROVE  SleepOK(e, b, pc[p], loc[p])
  <2>1. DOMAIN e.flags = Buf /\ {"BUSY", "WANTED"} \subseteq e.flags[b]
    BY <1>4, <1>6, Fields
  <2>2. QED BY <2>1 DEF SleepOK
<1>7. QED BY <1>2, <1>3, <1>5, <1>6, Sleeps

\* ... or for the transfer of one of its own.
LEMMA SleepsOnTransfer ==
  ASSUME IInv, NEW p \in Procs, NEW b \in c.io, pc[p] \in {"biowait", "written"},
         b = IF pc[p] = "biowait" THEN loc[p].bp ELSE loc[p].ep,
         Goto(p, SleepOn(c, p, b), pc[p], loc[p])
  PROVE  IInv'
<1>1. Sound(c, p, Held(pc[p], loc[p])) /\ c \in Caches(Buf)
  BY Mine DEF Sound
<1>2. b \in Buf
  BY <1>1, Fields
<1>3. \A x \in Held(pc[p], loc[p]) : Kept(c, c, x)
  BY DEF Kept
<1>4. ASSUME NEW e \in Caches(Buf), e.io = c.io
      PROVE  SleepOK(e, b, pc[p], loc[p])
  <2>1. DOMAIN e.flags = Buf
    BY Fields
  <2>2. QED BY <1>2, <1>4, <2>1 DEF SleepOK
<1>5. QED BY <1>1, <1>2, <1>3, <1>4, Sleeps

-----------------------------------------------------------------------------
(***************************************************************************)
(* Each action keeps the invariant: calls and getblk().                    *)
(***************************************************************************)

\* A call enters the kernel without a buffer.
LEMMA CallKeeps ==
  ASSUME IInv, NEW p \in Procs, Call(p)
  PROVE  IInv'
<1>1. pc[p] = "idle" /\ c.slp[p] = None
  BY DEF Call, At
<1>2. PICK k \in Calls, l \in {"bflush", "blkflush", "binvalfree", "readahead", "getblk"} :
        Goto(p, c, l, [NoLoc EXCEPT !.call = k, !.blk = k.blk, !.size = k.size])
  BY DEF Call
<1> DEFINE r == [NoLoc EXCEPT !.call = k, !.blk = k.blk, !.size = k.size]
<1>3. k \in CallRec /\ (k.op = "breada" => k.to # k.blk)
  <2>1. c.load \in DOMAIN Loads
    BY Fields DEF IInv
  <2>2. QED BY <2>1, BufAssumption DEF Calls, CallRec
<1>4. /\ r \in Regs(Buf) /\ r.call = k /\ r.blk = k.blk /\ r.size = k.size /\ r.bp = None
      /\ r.ep = None /\ r.first = None /\ r.ret = "idle"
  BY <1>3 DEF NoLoc, Regs, CallRec, Label
<1> HIDE DEF r
<1>5. Held("idle", loc[p]) = {}
  BY <1>1, Mine DEF Local, Shape, Held, HasBp, NoCall
<1>6. Held(l, r) = {} /\ ~HasBp(l, r)
  BY <1>4 DEF Held, HasBp
<1>7. Local(c, l, r)
  BY <1>3, <1>4, <1>6 DEF Local, Shape
<1>8. Goto(p, c, l, r) /\ l \in Label
  BY <1>2 DEF r, Label
<1>9. QED BY <1>1, <1>4, <1>5, <1>6, <1>7, <1>8, Moves

\* getblk() sleeps for a busy buffer it has marked B_WANTED.
LEMMA GetblkBusyKeeps ==
  ASSUME IInv, NEW p \in Procs, GetblkBusy(p)
  PROVE  IInv'
<1>1. PICK b \in Buf : /\ "BUSY" \in c.flags[b]
                       /\ Goto(p, SleepOn(SetF(c, b, {"WANTED"}, {}), p, b), "getblk", loc[p])
  BY DEF GetblkBusy
<1>2. pc[p] = "getblk"
  BY DEF GetblkBusy, At
<1>3. QED BY <1>1, <1>2, SleepsOnBusy

\* A free buffer p takes for its own.
LEMMA NowMine ==
  ASSUME IInv, NEW p \in Procs, NEW d, NEW b \in Buf, d.slp[p] = None,
         pc[p] \in {"getblk", "getnewbuf"}, ~HasBp(pc[p], loc[p]),
         b \notin Held(pc[p], loc[p]), Sound(d, p, Held(pc[p], loc[p]) \cup {b}),
         Beside(c, d, b), "BUSY" \in d.flags[b], "ASYNC" \notin d.flags[b], b \notin d.io,
         Goto(p, d, "brealloc", [loc[p] EXCEPT !.bp = b])
  PROVE  IInv'
<1> DEFINE r == [loc[p] EXCEPT !.bp = b]
           H == Held(pc[p], loc[p])
<1>1. /\ loc[p] \in Regs(Buf) /\ Local(c, pc[p], loc[p]) /\ None \notin Buf
      /\ H \subseteq Buf
  BY Mine
<1>2. /\ r \in Regs(Buf) /\ r.bp = b /\ r.first = loc[p].first /\ r.call = loc[p].call
      /\ r.blk = loc[p].blk
  BY <1>1 DEF Regs
<1>3. Goto(p, d, "brealloc", r)
  OBVIOUS
<1> HIDE DEF r
<1>4. H = IF r.first # None THEN {r.first} ELSE {}
  BY <1>2 DEF Held
<1>5. Held("brealloc", r) = H \cup {b}
  BY <1>2, <1>4 DEF Held, HasBp
<1>6. Shape("brealloc", r)
  BY <1>1, <1>2, <1>4 DEF Local, Shape, HasBp, NoCall
<1>7. Owned(d, b) /\ \A x \in H : Owned(d, x)
  <2>1. b \notin d.relvp
    BY DEF Sound, Flow
  <2>2. QED BY <1>1, <2>1, BesideKept DEF Local, Owned
<1>8. r.first # None => Moving(d, r.first)
  <2>1. r.first # None => r.first \in Buf \ {b} /\ Moving(c, r.first)
    BY <1>1, <1>2, <1>4 DEF Local
  <2>2. QED BY <2>1, BesideKept
<1>9. Local(d, "brealloc", r)
  BY <1>2, <1>5, <1>6, <1>7, <1>8 DEF Local
<1>10. SleepOK(d, d.slp[p], "brealloc", r)
  BY AwakeOK
<1>11. QED BY <1>2, <1>3, <1>5, <1>9, <1>10, SoundEnd DEF Label

\* getblk() takes a free buffer that has the block.
LEMMA GetblkHitKeeps ==
  ASSUME IInv, NEW p \in Procs, GetblkHit(p)
  PROVE  IInv'
<1>1. PICK b \in Buf : /\ "BUSY" \notin c.flags[b]
                       /\ Goto(p, Notavail(c, b), "brealloc", [loc[p] EXCEPT !.bp = b])
  BY DEF GetblkHit
<1>2. pc[p] = "getblk" /\ c.slp[p] = None
  BY DEF GetblkHit, At
<1> DEFINE d == Notavail(c, b)
           H == Held(pc[p], loc[p])
<1>3. Sound(c, p, H)
  BY Mine
<1>4. Sound(d, p, H \cup {b}) /\ Taken(c, b, d) /\ b \notin H /\ "ASYNC" \notin c.flags[b]
  <2>1. d = Notavail(c, b)
    OBVIOUS
  <2> HIDE DEF d, H
  <2>2. QED BY <1>1, <1>3, <2>1, Taking
<1>5. Goto(p, d, "brealloc", [loc[p] EXCEPT !.bp = b])
  BY <1>1
<1> HIDE DEF d
<1>6. /\ Beside(c, d, b) /\ d.slp = c.slp /\ "BUSY" \in d.flags[b] /\ b \notin d.io
      /\ "ASYNC" \notin d.flags[b]
  BY <1>4 DEF Taken
<1>7. ~HasBp(pc[p], loc[p])
  BY <1>2 DEF HasBp
<1>8. QED BY <1>2, <1>4, <1>5, <1>6, <1>7, NowMine

\* getblk() goes to getnewbuf() empty-handed.
LEMMA GetblkMissKeeps ==
  ASSUME IInv, NEW p \in Procs, GetblkMiss(p)
  PROVE  IInv'
<1> DEFINE r == [loc[p] EXCEPT !.bp = None]
<1>1. pc[p] = "getblk" /\ c.slp[p] = None /\ Goto(p, c, "getnewbuf", r)
  BY DEF GetblkMiss, At
<1>2. loc[p] \in Regs(Buf) /\ Local(c, pc[p], loc[p])
  BY Mine
<1>3. /\ r \in Regs(Buf) /\ r.bp = None /\ r.first = loc[p].first /\ r.call = loc[p].call
      /\ r.blk = loc[p].blk
  BY <1>2 DEF Regs
<1> HIDE DEF r
<1>4. Held("getnewbuf", r) = Held(pc[p], loc[p]) /\ ~HasBp("getnewbuf", r)
  BY <1>1, <1>3 DEF Held, HasBp
<1>5. Shape("getnewbuf", r)
  BY <1>1, <1>2, <1>3, <1>4 DEF Local, Shape, NoCall
<1>6. Local(c, "getnewbuf", r)
  BY <1>2, <1>3, <1>4, <1>5 DEF Local
<1>7. QED BY <1>1, <1>3, <1>4, <1>6, Moves DEF Label

\* getnewbuf() sleeps while no buffer is free.
LEMMA GetnewbufSleepKeeps ==
  ASSUME IInv, NEW p \in Procs, GetnewbufSleep(p)
  PROVE  IInv'
<1> DEFINE d == [c EXCEPT !.wanted = TRUE]
           H == Held(pc[p], loc[p])
<1>1. /\ pc[p] = "getnewbuf" /\ Oldest(c) = None
      /\ Goto(p, SleepOn(d, p, FREELIST), pc[p], loc[p])
  BY DEF GetnewbufSleep, At
<1>2. Sound(c, p, H) /\ c \in Caches(Buf)
  BY Mine DEF Sound
<1>3. /\ d \in Caches(Buf) /\ d.load = c.load /\ d.wanted = TRUE /\ d.io = c.io
      /\ d.relvp = c.relvp /\ d.slp = c.slp /\ d.free = c.free /\ d.flags = c.flags
      /\ d.b_bufsize = c.b_bufsize
  BY <1>2 DEF Caches
<1> HIDE DEF d
<1>4. Sound(d, p, H)
  BY <1>2, <1>3, SoundAlike
<1>5. \A x \in H : Kept(c, d, x)
  BY <1>3 DEF Kept, Moving
<1>6. ASSUME NEW e \in Caches(Buf), e.free = d.free, e.wanted = d.wanted
      PROVE  SleepOK(e, FREELIST, pc[p], loc[p])
  <2>1. Oldest(e) = None
    BY <1>1, <1>3, <1>6 DEF Oldest
  <2>2. QED BY <1>1, <1>3, <1>6, <2>1 DEF SleepOK
<1>7. QED BY <1>1, <1>4, <1>5, <1>6, Sleeps

\* What getnewbuf() finds is free.
LEMMA OldestIsFree ==
  ASSUME IInv, Oldest(c) # None
  PROVE  Oldest(c) \in Buf /\ "BUSY" \notin c.flags[Oldest(c)]
<1>1. c \in Caches(Buf) /\ FreeOK(c) /\ None \notin Buf /\ DOMAIN c.flags = Buf
  BY Names, Fields DEF IInv
<1>2. Oldest(c) \in Buf /\ Oldest(c) \in On(c, "AGE") \cup On(c, "LRU")
  BY <1>1, OldestIs
<1>3. QED BY <1>1, <1>2 DEF FreeOK, Lists

\* A free delayed write is started on the way; p goes back to where it is.
LEMMA WritesDelayed ==
  ASSUME IInv, NEW p \in Procs, c.slp[p] = None, NEW d, NEW b \in Buf, NEW ret,
         pc[p] = ret, ret \in {"getnewbuf", "bflush", "binvalfree"},
         Sound(d, p, Held(pc[p], loc[p]) \cup {b}), b \notin Held(pc[p], loc[p]),
         Beside(c, d, b), d.slp = c.slp, b \notin d.io,
         "ASYNC" \in d.flags[b], "DELWRI" \in d.flags[b],
         Bwrite(p, d, b, ret, loc[p])
  PROVE  IInv'
<1> DEFINE r == [loc[p] EXCEPT !.ep = b, !.ret = ret]
<1>1. /\ loc[p] \in Regs(Buf) /\ Local(c, pc[p], loc[p]) /\ ret \in Label
      /\ None \notin Buf /\ Held(pc[p], loc[p]) \subseteq Buf
  BY Mine DEF Label
<1>2. /\ r.ep = b /\ r.ret = ret /\ r.bp = loc[p].bp /\ r.first = loc[p].first
      /\ r.call = loc[p].call /\ r.blk = loc[p].blk
  BY <1>1 DEF Regs
<1>3. r = [loc[p] EXCEPT !.ep = b, !.ret = ret]
  OBVIOUS
<1> HIDE DEF r
<1>4. HasBp("age", r) <=> HasBp(pc[p], loc[p])
  BY <1>2 DEF HasBp
<1>5. Held("age", r) = Held(pc[p], loc[p])
  BY <1>2, <1>4 DEF Held
<1>6. Shape("age", r)
  BY <1>1, <1>2, <1>4 DEF Local, Shape, NoCall
<1>7. \A x \in Held("age", r) : Kept(c, d, x) /\ Owned(d, x)
  BY <1>1, <1>5, BesideKept DEF Local
<1>8. HasBp("age", r) => r.bp \notin d.io
  BY <1>1, <1>2, <1>4, <1>5, <1>7 DEF Local, Held, Kept
<1>9. r.first # None => Moving(d, r.first)
  BY <1>1, <1>2, <1>5, <1>7 DEF Local, Held, Kept
<1>10. QED
  BY <1>1, <1>3, <1>5, <1>6, <1>7, <1>8, <1>9, WriteDelayed

\* getnewbuf() writes a delayed buffer out and lets go of it.
LEMMA GetnewbufWriteKeeps ==
  ASSUME IInv, NEW p \in Procs, GetnewbufWrite(p)
  PROVE  IInv'
<1> DEFINE b == Oldest(c)
           d1 == Notavail(c, b)
           d == SetF(d1, b, {"ASYNC"}, {})
           H == Held(pc[p], loc[p])
<1>1. /\ pc[p] = "getnewbuf" /\ c.slp[p] = None /\ b # None /\ "DELWRI" \in c.flags[b]
      /\ Bwrite(p, d, b, "getnewbuf", loc[p])
  BY DEF GetnewbufWrite, At
<1>2. b \in Buf /\ "BUSY" \notin c.flags[b]
  BY <1>1, OldestIsFree
<1>3. Sound(c, p, H)
  BY Mine
<1>4. /\ Sound(d1, p, H \cup {b}) /\ Taken(c, b, d1) /\ b \notin H
  <2>1. d1 = Notavail(c, b)
    OBVIOUS
  <2> HIDE DEF d1, H, b
  <2>2. QED BY <1>2, <1>3, <2>1, Taking
<1>5. Beside(c, d1, b) /\ d1.slp = c.slp /\ b \notin d1.io /\ "DELWRI" \in d1.flags[b]
  BY <1>1, <1>4 DEF Taken
<1>6. Sound(d, p, H \cup {b}) /\ Flagged(d1, b, (d1.flags[b] \cup {"ASYNC"}) \ {}, d)
  <2>1. d = SetF(d1, b, {"ASYNC"}, {}) /\ {"ASYNC"} \in SUBSET Flag /\ b \in H \cup {b}
    BY DEF Flag
  <2>2. "BUSY" \notin {} /\ "WANTED" \notin {}
    OBVIOUS
  <2> HIDE DEF d1, H, b, d
  <2>3. QED BY <1>4, <1>5, <2>1, <2>2, Flagging
<1> HIDE DEF b, d1, d
<1>7. /\ Beside(c, d, b) /\ d.slp = c.slp /\ b \notin d.io
      /\ "ASYNC" \in d.flags[b] /\ "DELWRI" \in d.flags[b]
  BY <1>5, <1>6 DEF Flagged, Alike, Beside
<1>8. QED BY <1>1, <1>2, <1>4, <1>6, <1>7, WritesDelayed

\* The fields that say where transfers and sleepers are, and all flags, are the same.
Still(d, e) ==
  /\ e.load = d.load /\ e.wanted = d.wanted /\ e.io = d.io /\ e.relvp = d.relvp
  /\ e.slp = d.slp /\ e.free = d.free /\ e.flags = d.flags

\* Blocks, counts and sizes of busy buffers.
LEMMA Resizing ==
  ASSUME NEW p, NEW H, NEW d, Sound(d, p, H), NEW e \in Caches(Buf), Still(d, e),
         \A x \in Buf : "BUSY" \in d.flags[x] \/ e.b_bufsize[x] = d.b_bufsize[x]
  PROVE  Sound(e, p, H)
  BY SoundAlike DEF Still

\* Two changes of the same buffer are one.
LEMMA BesideTrans ==
  ASSUME NEW d, NEW e, NEW f, NEW b, Beside(d, e, b), Beside(e, f, b)
  PROVE  Beside(d, f, b)
  BY DEF Beside

\* A buffer taken for a moment only.
LEMMA GivenBack ==
  ASSUME NEW p \in Procs, NEW H, NEW d, NEW b, Sound(d, p, H \cup {b}), b \notin H,
         b \notin d.io, Beside(c, d, b), d.slp[p] = None, NEW e, e = Brelse(d, b)
  PROVE  Sound(e, p, H) /\ Beside(c, e, b) /\ e.slp[p] = None
<1> DEFINE G == H \cup {b}
<1>1. Sound(d, p, G) /\ b \in G /\ G \ {b} = H
  OBVIOUS
<1> HIDE DEF G
<1>2. Sound(e, p, G \ {b}) /\ Beside(d, e, b) /\ e.slp[p] = None
  BY <1>1, Giving
<1>3. Beside(c, e, b)
  BY <1>2, BesideTrans
<1>4. QED BY <1>1, <1>2, <1>3

\* What getnewbuf() makes of the buffer it takes.
LEMMA Reassigning ==
  ASSUME NEW p, NEW H, NEW d, Sound(d, p, H), NEW b \in Buf, "BUSY" \notin d.flags[b],
         NEW e, e = Reassigned(d, b)
  PROVE  /\ Sound(e, p, H \cup {b}) /\ Beside(d, e, b) /\ e.slp = d.slp
         /\ e.flags[b] = {"BUSY"} /\ b \notin e.io /\ b \notin H
         /\ e.b_bufsize = d.b_bufsize
<1> DEFINE d1 == Notavail(d, b)
           d2 == Brelvp(d1, b)
           fl == [d2.flags EXCEPT ![b] = {"BUSY"}]
           fr == [d2.fresh EXCEPT ![b] = {}]
<1>1. d \in Caches(Buf) /\ \A l \in Lists : IsInjective(d.free[l])
  BY DEF Sound, FreeOK
<1>2. /\ d1 \in Caches(Buf) /\ d1.load = d.load /\ d1.wanted = d.wanted /\ d1.io = d.io
      /\ d1.relvp = d.relvp /\ d1.slp = d.slp /\ d1.b_bufsize = d.b_bufsize
      /\ d1.flags = [d.flags EXCEPT ![b] = @ \cup {"BUSY"}]
      /\ d1.free = [l \in Lists |-> RemoveFirst(d.free[l], b)]
  <2>1. d1 = Notavail(d, b)
    OBVIOUS
  <2> HIDE DEF d1
  <2>2. QED BY <1>1, <2>1, NotavailIs
<1> HIDE DEF d1
<1>3. d2 \in Caches(Buf) /\ Alike(d1, d2) /\ d2.flags = d1.flags
  BY <1>2, BrelvpIs
<1>4. e = [d2 EXCEPT !.flags = fl, !.fresh = fr]
  BY DEF Reassigned, d1
<1> HIDE DEF d2
<1>5. /\ fl \in [Buf -> SUBSET Flag] /\ fl[b] = {"BUSY"}
      /\ \A x \in Buf \ {b} : fl[x] = d2.flags[x]
  BY <1>3, Fields DEF Flag
<1>6. fr \in [Buf -> SUBSET Int]
  BY <1>3, Fields
<1> HIDE DEF fl, fr
<1>7. /\ e \in Caches(Buf) /\ Alike(d2, e) /\ e.flags = fl
  BY <1>3, <1>4, <1>5, <1>6 DEF Caches, Alike
<1>8. /\ e.load = d.load /\ e.wanted = d.wanted /\ e.io = d.io
      /\ e.relvp = d.relvp /\ e.slp = d.slp /\ e.b_bufsize = d.b_bufsize
      /\ e.free = [l \in Lists |-> RemoveFirst(d.free[l], b)]
  BY <1>2, <1>3, <1>7 DEF Alike
<1>9. /\ e.flags[b] = {"BUSY"} /\ "BUSY" \in e.flags[b]
      /\ \A x \in Buf \ {b} : e.flags[x] = d.flags[x]
  BY <1>1, <1>2, <1>3, <1>5, <1>7, Fields
<1>10. Sound(e, p, H \cup {b})
  BY <1>7, <1>8, <1>9, SoundTake
<1>11. b \notin H /\ b \notin d.io
  BY FreeIsNobodys
<1>12. QED BY <1>8, <1>9, <1>10, <1>11 DEF Beside

\* getnewbuf() gives getblk() the oldest buffer.
LEMMA GetnewbufKeeps ==
  ASSUME IInv, NEW p \in Procs, Getnewbuf(p)
  PROVE  IInv'
<1> DEFINE b == Oldest(c)
           r == loc[p]
           d == Reassigned(c, b)
           e == [d EXCEPT !.b_bcount[b] = 0, !.b_blkno[b] = r.blk]
           H == Held(pc[p], loc[p])
<1>1. /\ pc[p] = "getnewbuf" /\ c.slp[p] = None /\ b # None /\ r.bp = None
      /\ Goto(p, e, "brealloc", [loc[p] EXCEPT !.bp = b])
  BY DEF Getnewbuf, At
<1>2. b \in Buf /\ "BUSY" \notin c.flags[b]
  BY <1>1, OldestIsFree
<1>3. Sound(c, p, H) /\ r.blk \in Nat \cup {None}
  BY Mine, RegFields
<1>4. /\ Sound(d, p, H \cup {b}) /\ Beside(c, d, b) /\ d.slp = c.slp
      /\ d.flags[b] = {"BUSY"} /\ b \notin d.io /\ b \notin H
  <2>1. d = Reassigned(c, b)
    OBVIOUS
  <2> HIDE DEF d, H, b
  <2>2. QED BY <1>2, <1>3, <2>1, Reassigning
<1>5. d \in Caches(Buf)
  BY <1>4 DEF Sound
<1> HIDE DEF b, d
<1>6. e \in Caches(Buf) /\ Still(d, e) /\ e.b_bufsize = d.b_bufsize
  <2> DEFINE B == [d.b_bcount EXCEPT ![b] = 0]
             K == [d.b_blkno EXCEPT ![b] = r.blk]
  <2>1. B \in [Buf -> Int] /\ K \in [Buf -> Nat \cup {None}]
    BY <1>2, <1>3, <1>5, Fields
  <2>2. e = [d EXCEPT !.b_bcount = B, !.b_blkno = K]
    OBVIOUS
  <2> HIDE DEF B, K
  <2>3. QED BY <1>5, <2>1, <2>2 DEF Caches, Still
<1> HIDE DEF e
<1>7. Sound(e, p, H \cup {b})
  BY <1>4, <1>6, Resizing
<1>8. /\ Beside(c, e, b) /\ e.slp = c.slp /\ b \notin e.io
      /\ "BUSY" \in e.flags[b] /\ "ASYNC" \notin e.flags[b]
  BY <1>4, <1>6 DEF Still, Beside
<1>9. ~HasBp(pc[p], loc[p])
  BY <1>1 DEF HasBp
<1>10. QED BY <1>1, <1>2, <1>4, <1>7, <1>8, <1>9, NowMine

\* allocbuf() takes memory from the oldest buffer and releases its header.
LEMMA AllocbufTakeKeeps ==
  ASSUME IInv, NEW p \in Procs, AllocbufTake(p)
  PROVE  IInv'
<1> DEFINE b == Oldest(c)
           r == loc[p]
           d == Reassigned(c, b)
           need == r.size - c.b_bufsize[r.bp]
           take == IF need >= c.b_bufsize[b] THEN c.b_bufsize[b] ELSE need
           left == c.b_bufsize[b] - take
           B == [d.b_bufsize EXCEPT ![r.bp] = @ + take, ![b] = left]
           K == [d.b_bcount EXCEPT ![b] = IF @ > left THEN left ELSE @]
           d0 == [d EXCEPT !.b_bufsize[r.bp] = @ + take, !.b_bufsize[b] = left,
                           !.b_bcount[b] = IF @ > left THEN left ELSE @]
           d1 == [d EXCEPT !.b_bufsize = B, !.b_bcount = K]
           inv == IF left = 0 THEN {"INVAL"} ELSE {}
           d2 == SetF(d1, b, inv, {})
           e == Brelse(d2, b)
           H == Held("getnewbuf", loc[p])
<1>1. /\ pc[p] = "getnewbuf" /\ c.slp[p] = None /\ b # None /\ r.bp # None
      /\ Goto(p, Brelse(SetF(d0, b, inv, {}), b), "allocbuf", r)
  BY DEF AllocbufTake, At
<1>2. b \in Buf /\ "BUSY" \notin c.flags[b]
  BY <1>1, OldestIsFree
<1>3. /\ Sound(c, p, H) /\ Local(c, "getnewbuf", r) /\ r \in Regs(Buf) /\ H \subseteq Buf
      /\ r.bp \in Buf /\ r.size \in Nat
  BY <1>1, Mine, RegFields
<1>4. /\ Sound(d, p, H \cup {b}) /\ Beside(c, d, b) /\ d.slp = c.slp
      /\ d.flags[b] = {"BUSY"} /\ b \notin d.io /\ b \notin H
  <2>1. d = Reassigned(c, b)
    OBVIOUS
  <2> HIDE DEF d, H, b
  <2>2. QED BY <1>2, <1>3, <2>1, Reassigning
<1>5. d \in Caches(Buf) /\ c \in Caches(Buf)
  BY <1>3, <1>4 DEF Sound
<1>6. need \in Int /\ take \in Int /\ left \in Int
  BY <1>2, <1>3, <1>5, Fields
<1>7. "INVAL" \in Flag /\ inv \in SUBSET Flag /\ "BUSY" \notin inv /\ "ASYNC" \notin inv
      /\ "DONE" \notin inv
  BY DEF Flag
<1> HIDE DEF d, take, left, inv, b
<1>8. /\ B \in [Buf -> Int] /\ K \in [Buf -> Int]
      /\ \A x \in Buf \ {r.bp, b} : B[x] = d.b_bufsize[x]
  <2>1. d.b_bufsize \in [Buf -> Int] /\ d.b_bcount \in [Buf -> Int]
    BY <1>5, Fields
  <2>2. /\ d.b_bufsize[r.bp] + take \in Int
        /\ (IF d.b_bcount[b] > left THEN left ELSE d.b_bcount[b]) \in Int
    BY <1>2, <1>3, <1>6, <2>1
  <2>3. QED BY <1>2, <1>3, <1>6, <2>1, <2>2
<1>9. d0 = d1
  OBVIOUS
<1> HIDE DEF B, K, d0
<1>10. d1 \in Caches(Buf) /\ Still(d, d1) /\ d1.b_bufsize = B
  BY <1>5, <1>8 DEF Caches, Still
<1>11. "BUSY" \in d.flags[r.bp]
  <2>1. r.bp \in H
    BY <1>1 DEF Held, HasBp
  <2>2. QED BY <1>4, <2>1 DEF Sound, Flow
<1> HIDE DEF d1
<1>12. Sound(d1, p, H \cup {b})
  <2>1. \A x \in Buf : "BUSY" \in d.flags[x] \/ d1.b_bufsize[x] = d.b_bufsize[x]
    BY <1>4, <1>8, <1>10, <1>11
  <2>2. QED BY <1>4, <1>10, <2>1, Resizing
<1>13. /\ Beside(c, d1, b) /\ d1.slp = c.slp /\ b \notin d1.io
  BY <1>4, <1>10 DEF Still, Beside
<1>14. Sound(d2, p, H \cup {b}) /\ Flagged(d1, b, d1.flags[b] \cup inv, d2)
  <2>1. d2 = SetF(d1, b, inv, {})
    OBVIOUS
  <2> HIDE DEF d2, H
  <2>2. QED BY <1>2, <1>7, <1>12, <2>1, Marking
<1>15. Goto(p, e, "allocbuf", r)
  BY <1>1, <1>9
<1> HIDE DEF d2
<1>16. Beside(c, d2, b) /\ d2.slp[p] = None /\ b \notin d2.io
  BY <1>1, <1>13, <1>14 DEF Flagged, Alike, Beside
<1>17. Sound(e, p, H) /\ Beside(c, e, b) /\ e.slp[p] = None
  <2>1. e = Brelse(d2, b)
    OBVIOUS
  <2> HIDE DEF e, H
  <2>2. QED BY <1>4, <1>14, <1>16, <2>1, GivenBack
<1> HIDE DEF e
<1>18. Held("allocbuf", r) = H
  BY <1>1 DEF Held, HasBp
<1>19. Local(c, "allocbuf", r)
  <2>1. HasBp("getnewbuf", r) /\ HasBp("allocbuf", r)
    BY <1>1 DEF HasBp
  <2>2. Shape("allocbuf", r)
    BY <1>3, <2>1 DEF Local, Shape, NoCall
  <2>3. QED BY <1>3, <1>18, <2>1, <2>2 DEF Local
<1>20. QED BY <1>3, <1>4, <1>15, <1>17, <1>18, <1>19, Lands DEF Label

-----------------------------------------------------------------------------
(***************************************************************************)
(* brealloc() and allocbuf().                                              *)
(***************************************************************************)

\* Where p has its buffer and goes on having it, nothing else changes.
Busy == {"brealloc", "overlap", "allocbuf", "got"}

\* Between brealloc() and the caller of getblk() the process answers for the
\* same buffers.
LEMMA BusyTo ==
  ASSUME NEW d, NEW l \in Busy, NEW k \in Busy \cup {"getnewbuf"}, NEW r, Local(d, l, r)
  PROVE  Local(d, k, r) /\ Held(k, r) = Held(l, r) /\ r.bp \in Held(l, r)
<1>1. HasBp(l, r) /\ r.bp # None
  BY DEF Busy, HasBp, Local, Shape
<1>2. HasBp(k, r)
  BY <1>1 DEF Busy, HasBp
<1>3. Held(k, r) = Held(l, r) /\ r.bp \in Held(l, r)
  BY <1>1, <1>2 DEF Busy, Held
<1>4. Shape(k, r)
  BY <1>1, <1>2 DEF Busy, Local, Shape, NoCall
<1>5. l \notin {"biowait", "written"} /\ k \notin {"biowait", "written"}
  BY DEF Busy
<1>6. Local(d, k, r)
  BY <1>1, <1>2, <1>3, <1>4, <1>5 DEF Local
<1>7. QED BY <1>3, <1>6

\* brealloc() keeps the buffer, or writes it and starts over.
LEMMA BreallocKeeps ==
  ASSUME IInv, NEW p \in Procs, Brealloc(p)
  PROVE  IInv'
<1> DEFINE r == loc[p]
           b == loc[p].bp
           H == Held("brealloc", r)
<1>1. pc[p] = "brealloc" /\ c.slp[p] = None
  BY DEF Brealloc, At
<1>2. /\ Sound(c, p, H) /\ Local(c, "brealloc", r) /\ r \in Regs(Buf) /\ H \subseteq Buf
      /\ None \notin Buf
  BY <1>1, Mine
<1>3. \A k \in Busy : Local(c, k, r) /\ Held(k, r) = H /\ b \in H
  BY <1>2, BusyTo DEF Busy
<1>4. b \in H /\ b \in Buf /\ b \notin c.io /\ "ASYNC" \notin c.flags[b]
  BY <1>2, <1>3 DEF Local, HasBp, Owned, Busy
<1>5. CASE \E k \in {"got", "allocbuf"} : Goto(p, c, k, r)
  <2>1. PICK k \in {"got", "allocbuf"} : Goto(p, c, k, r)
    BY <1>5
  <2>2. k \in Busy /\ k \in Label
    BY DEF Busy, Label
  <2>3. Local(c, k, r) /\ Held(k, r) = Held(pc[p], loc[p])
    BY <1>1, <1>3, <2>2
  <2>4. QED BY <1>1, <1>2, <2>1, <2>2, <2>3, Moves
<1>6. CASE Bwrite(p, c, b, "getblk", r)
  <2> DEFINE r1 == [r EXCEPT !.ep = b, !.ret = "getblk"]
  <2>1. /\ r1.ep = b /\ r1.ret = "getblk" /\ r1.bp = b /\ r1.first = r.first
        /\ r1.call = r.call /\ r1.blk = r.blk
    BY <1>2 DEF Regs
  <2>2. r1 = [r EXCEPT !.ep = b, !.ret = "getblk"] /\ "getblk" \in Label
    BY DEF Label
  <2> HIDE DEF r1
  <2>3. Held("written", r1) = H
    BY <2>1 DEF Held, HasBp
  <2>4. ~HasBp("written", r1)
    BY <2>1 DEF HasBp
  <2>5. Shape("written", r1)
    BY <1>2, <1>4, <2>1, <2>4 DEF Local, Shape, NoCall, HasBp
  <2>6. r1.first # None => Moving(c, r1.first)
    BY <1>2, <2>1 DEF Local
  <2>7. \A x \in Held("written", r1) : Owned(c, x)
    BY <1>2, <2>3 DEF Local
  <2>8. QED BY <1>1, <1>2, <1>4, <1>6, <2>2, <2>3, <2>4, <2>5, <2>6, <2>7, WriteWaits
<1>7. CASE Goto(p, SetF(c, b, {}, {"DONE"}), "overlap", r)
  <2> DEFINE d == SetF(c, b, {}, {"DONE"})
  <2>1. Sound(d, p, H) /\ Flagged(c, b, (c.flags[b] \cup {}) \ {"DONE"}, d)
    <3>1. d = SetF(c, b, {}, {"DONE"}) /\ {} \in SUBSET Flag /\ "BUSY" \notin {"DONE"}
          /\ "WANTED" \notin {"DONE"}
      OBVIOUS
    <3> HIDE DEF d, H, b
    <3>2. QED BY <1>2, <1>4, <3>1, Flagging
  <2>2. Goto(p, d, "overlap", r)
    BY <1>7
  <2> HIDE DEF d
  <2>3. /\ Alike(c, d) /\ Beside(c, d, b)
        /\ "BUSY" \in d.flags[b] <=> "BUSY" \in c.flags[b]
        /\ "ASYNC" \notin d.flags[b]
    BY <1>4, <2>1 DEF Flagged
  <2>4. \A x \in H : Owned(d, x)
    <3>1. Owned(d, b)
      BY <1>2, <1>4, <2>3 DEF Local, Owned, Alike
    <3>2. QED BY <1>2, <2>3, <3>1, BesideKept DEF Local
  <2>5. r.first # None => Moving(d, r.first)
    <3>1. r.first # None => r.first \in Buf \ {b} /\ Moving(c, r.first)
      BY <1>2 DEF Local, Shape, HasBp, Held
    <3>2. QED BY <2>3, <3>1, BesideKept
  <2>6. Local(c, "overlap", r) /\ Held("overlap", r) = H
    BY <1>3 DEF Busy
  <2>7. Local(d, "overlap", r)
    BY <1>4, <2>3, <2>4, <2>5, <2>6 DEF Local, Alike
  <2>8. SleepOK(d, d.slp[p], "overlap", r)
    BY <1>1, <2>3, AwakeOK DEF Alike
  <2>9. QED BY <1>2, <2>1, <2>2, <2>6, <2>7, <2>8, SoundEnd DEF Label
<1>8. QED BY <1>5, <1>6, <1>7 DEF Brealloc

\* A buffer that is in the way of p, or of blkflush(), and free.
LEMMA WritesFree ==
  ASSUME IInv, NEW p \in Procs, c.slp[p] = None, NEW b \in Buf, "BUSY" \notin c.flags[b],
         NEW ret \in {"overlap", "blkflush"}, pc[p] = ret,
         Bwrite(p, Notavail(c, b), b, ret, loc[p])
  PROVE  IInv'
<1> DEFINE r == loc[p]
           d == Notavail(c, b)
           H == Held(ret, r)
           r1 == [r EXCEPT !.ep = b, !.ret = ret]
<1>1. /\ Sound(c, p, H) /\ Local(c, ret, r) /\ r \in Regs(Buf) /\ H \subseteq Buf
      /\ None \notin Buf /\ ret \in Label
  BY Mine DEF Label
<1>2. Sound(d, p, H \cup {b}) /\ Taken(c, b, d) /\ b \notin H /\ "ASYNC" \notin c.flags[b]
  <2>1. d = Notavail(c, b)
    OBVIOUS
  <2> HIDE DEF d, H
  <2>2. QED BY <1>1, <2>1, Taking
<1>3. Bwrite(p, d, b, ret, r)
  OBVIOUS
<1> HIDE DEF d
<1>4. /\ Beside(c, d, b) /\ d.slp = c.slp /\ "BUSY" \in d.flags[b] /\ b \notin d.io
      /\ "ASYNC" \notin d.flags[b] /\ b \notin d.relvp
  BY <1>2 DEF Taken
<1>5. /\ r1.ep = b /\ r1.ret = ret /\ r1.bp = r.bp /\ r1.first = r.first
      /\ r1.call = r.call /\ r1.blk = r.blk
  BY <1>1 DEF Regs
<1>6. r1 = [r EXCEPT !.ep = b, !.ret = ret]
  OBVIOUS
<1> HIDE DEF r1
<1>7. HasBp("written", r1) <=> HasBp(ret, r)
  BY <1>5 DEF HasBp
<1>8. Held("written", r1) = H \cup {b}
  BY <1>5, <1>7 DEF Held
<1>9. Shape("written", r1)
  <2>1. HasBp(ret, r) => r.bp \in H
    BY DEF Held
  <2>2. r.first # None => r.first \in H
    BY DEF Held
  <2>3. ret = "overlap" => HasBp(ret, r)
    BY DEF HasBp
  <2>4. QED BY <1>1, <1>2, <1>5, <1>7, <2>1, <2>2, <2>3 DEF Local, Shape, NoCall
<1>10. \A x \in H : Kept(c, d, x) /\ Owned(d, x)
  BY <1>1, <1>2, <1>4, BesideKept DEF Local
<1>11. \A x \in Held("written", r1) : Owned(d, x)
  BY <1>4, <1>8, <1>10 DEF Owned
<1>12. HasBp("written", r1) => r1.bp \notin d.io
  BY <1>1, <1>5, <1>7, <1>10 DEF Local, Held, Kept
<1>13. r1.first # None => Moving(d, r1.first)
  BY <1>1, <1>5, <1>10 DEF Local, Held, Kept
<1>14. QED BY <1>1, <1>2, <1>3, <1>4, <1>6, <1>8, <1>9, <1>11, <1>12, <1>13, WriteWaits

\* brealloc() waits for a buffer in the way, writes it or invalidates it.
LEMMA BreallocOverlapKeeps ==
  ASSUME IInv, NEW p \in Procs, BreallocOverlap(p)
  PROVE  IInv'
<1> DEFINE r == loc[p]
           H == Held("overlap", r)
<1>1. pc[p] = "overlap" /\ c.slp[p] = None
  BY DEF BreallocOverlap, At
<1>2. PICK b \in Buf :
        IF "BUSY" \in c.flags[b]
        THEN Goto(p, SleepOn(SetF(c, b, {"WANTED"}, {}), p, b), "overlap", r)
        ELSE IF "DELWRI" \in c.flags[b]
        THEN Bwrite(p, Notavail(c, b), b, "overlap", r)
        ELSE Goto(p, Brelse(SetF(Notavail(c, b), b, {"INVAL"}, {}), b), "overlap", r)
  BY DEF BreallocOverlap, Overlapping
<1>3. CASE "BUSY" \in c.flags[b]
  BY <1>1, <1>2, <1>3, SleepsOnBusy
<1>4. CASE "BUSY" \notin c.flags[b] /\ "DELWRI" \in c.flags[b]
  BY <1>1, <1>2, <1>4, WritesFree
<1>5. CASE "BUSY" \notin c.flags[b] /\ "DELWRI" \notin c.flags[b]
  <2> DEFINE d1 == Notavail(c, b)
             d2 == SetF(d1, b, {"INVAL"}, {})
             e == Brelse(d2, b)
  <2>1. Goto(p, e, "overlap", r)
    BY <1>2, <1>5
  <2>2. Sound(c, p, H) /\ Local(c, "overlap", r) /\ r \in Regs(Buf)
    BY <1>1, Mine
  <2>3. Sound(d1, p, H \cup {b}) /\ Taken(c, b, d1) /\ b \notin H
    <3>1. d1 = Notavail(c, b)
      OBVIOUS
    <3> HIDE DEF d1, H
    <3>2. QED BY <1>5, <2>2, <3>1, Taking
  <2> HIDE DEF d1
  <2>4. Sound(d2, p, H \cup {b}) /\ Flagged(d1, b, d1.flags[b] \cup {"INVAL"}, d2)
    <3>1. d2 = SetF(d1, b, {"INVAL"}, {}) /\ {"INVAL"} \in SUBSET Flag
      BY DEF Flag
    <3>2. "BUSY" \notin {"INVAL"} /\ "ASYNC" \notin {"INVAL"} /\ "DONE" \notin {"INVAL"}
      OBVIOUS
    <3> HIDE DEF d2, H
    <3>3. QED BY <2>3, <3>1, <3>2, Marking
  <2> HIDE DEF d2
  <2>5. Beside(c, d2, b) /\ d2.slp[p] = None /\ b \notin d2.io
    BY <1>1, <2>3, <2>4 DEF Flagged, Alike, Beside, Taken
  <2>6. Sound(e, p, H) /\ Beside(c, e, b) /\ e.slp[p] = None
    <3>1. e = Brelse(d2, b)
      OBVIOUS
    <3> HIDE DEF e, H
    <3>2. QED BY <2>3, <2>4, <2>5, <3>1, GivenBack
  <2> HIDE DEF e
  <2>7. QED BY <2>1, <2>2, <2>3, <2>6, Lands DEF Label
<1>6. QED BY <1>3, <1>4, <1>5

\* Nothing is in the way.
LEMMA BreallocAloneKeeps ==
  ASSUME IInv, NEW p \in Procs, BreallocAlone(p)
  PROVE  IInv'
<1>1. pc[p] = "overlap" /\ c.slp[p] = None /\ Goto(p, c, "allocbuf", loc[p])
  BY DEF BreallocAlone, At
<1>2. Local(c, "overlap", loc[p]) /\ loc[p] \in Regs(Buf)
  BY <1>1, Mine
<1>3. Local(c, "allocbuf", loc[p]) /\ Held("allocbuf", loc[p]) = Held("overlap", loc[p])
  BY <1>2, BusyTo DEF Busy
<1>4. QED BY <1>1, <1>2, <1>3, Moves DEF Label

\* allocbuf() gives what it does not need to an empty header.
LEMMA Shrinking ==
  ASSUME NEW p \in Procs, NEW H, Sound(c, p, H), NEW b \in H, c.slp[p] = None,
         NEW size \in Nat, NEW s, s = Shrink(c, b, size)
  PROVE  Sound(s, p, H) /\ s.slp[p] = None /\ \E x : x \notin H /\ Beside(c, s, x)
<1> DEFINE e == Head(c.free["EMPTY"])
           d1 == Notavail(c, e)
           B == [d1.b_bufsize EXCEPT ![e] = c.b_bufsize[b] - size, ![b] = size]
           K == [d1.b_bcount EXCEPT ![e] = 0]
           d2 == [d1 EXCEPT !.b_bufsize = B, !.b_bcount = K]
           d3 == SetF(d2, e, {"INVAL"}, {})
<1>1. c \in Caches(Buf) /\ H \subseteq Buf /\ b \in Buf /\ None \notin Buf
  BY DEF Sound, Flow
<1>2. CASE size >= c.b_bufsize[b] \/ c.free["EMPTY"] = <<>>
  <2>1. s = c
    BY <1>2 DEF Shrink
  <2>2. Beside(c, c, None) /\ None \notin H
    BY <1>1 DEF Beside
  <2>3. QED BY <2>1, <2>2
<1>3. CASE ~(size >= c.b_bufsize[b]) /\ c.free["EMPTY"] # <<>>
  <2>1. s = Brelse(d3, e)
    BY <1>3 DEF Shrink
  <2>2. e \in Buf /\ "BUSY" \notin c.flags[e]
    <3>1. c.free["EMPTY"] \in Seq(Buf)
      BY <1>1, Fields DEF Lists
    <3>2. 1 \in DOMAIN c.free["EMPTY"] /\ e = c.free["EMPTY"][1] /\ e \in Buf
      BY <1>3, <3>1
    <3>3. e \in On(c, "EMPTY")
      BY <3>2 DEF On, ToSet
    <3>4. QED BY <1>1, <3>2, <3>3, Fields DEF Sound, FreeOK, Lists
  <2> HIDE DEF e
  <2>3. Sound(d1, p, H \cup {e}) /\ Taken(c, e, d1) /\ e \notin H
    <3>1. d1 = Notavail(c, e)
      OBVIOUS
    <3> HIDE DEF d1
    <3>2. QED BY <2>2, <3>1, Taking
  <2> HIDE DEF d1
  <2>4. d1 \in Caches(Buf) /\ "BUSY" \in d1.flags[b] /\ "BUSY" \in d1.flags[e]
    BY <2>3 DEF Sound, Flow
  <2>5. c.b_bufsize[b] - size \in Int
    BY <1>1, Fields
  <2>6. /\ B \in [Buf -> Int] /\ K \in [Buf -> Int]
        /\ \A x \in Buf \ {b, e} : B[x] = d1.b_bufsize[x]
    <3>1. d1.b_bufsize \in [Buf -> Int] /\ d1.b_bcount \in [Buf -> Int]
      BY <2>4, Fields
    <3>2. QED BY <1>1, <2>2, <2>5, <3>1
  <2> HIDE DEF B, K
  <2>7. d2 \in Caches(Buf) /\ Still(d1, d2) /\ d2.b_bufsize = B
    BY <2>4, <2>6 DEF Caches, Still
  <2> HIDE DEF d2
  <2>8. Sound(d2, p, H \cup {e})
    <3>1. \A x \in Buf : "BUSY" \in d1.flags[x] \/ d2.b_bufsize[x] = d1.b_bufsize[x]
      BY <2>4, <2>6, <2>7
    <3>2. QED BY <2>3, <2>7, <3>1, Resizing
  <2>9. Sound(d3, p, H \cup {e}) /\ Flagged(d2, e, d2.flags[e] \cup {"INVAL"}, d3)
    <3>1. d3 = SetF(d2, e, {"INVAL"}, {}) /\ {"INVAL"} \in SUBSET Flag
      BY DEF Flag
    <3>2. "BUSY" \notin {"INVAL"} /\ "ASYNC" \notin {"INVAL"} /\ "DONE" \notin {"INVAL"}
      OBVIOUS
    <3> HIDE DEF d3
    <3>3. QED BY <2>2, <2>8, <3>1, <3>2, Marking
  <2> HIDE DEF d3
  <2>10. Beside(c, d3, e) /\ d3.slp[p] = None /\ e \notin d3.io
    BY <2>3, <2>7, <2>9 DEF Flagged, Alike, Beside, Taken, Still
  <2>11. Sound(s, p, H) /\ Beside(c, s, e) /\ s.slp[p] = None
    BY <2>1, <2>3, <2>9, <2>10, GivenBack
  <2>12. QED BY <2>3, <2>11
<1>4. QED BY <1>2, <1>3

\* allocbuf() gives the excess to an empty header, or asks for more.
LEMMA AllocbufKeeps ==
  ASSUME IInv, NEW p \in Procs, Allocbuf(p)
  PROVE  IInv'
<1> DEFINE r == loc[p]
           H == Held("allocbuf", r)
           s == Shrink(c, r.bp, r.size)
           e == [s EXCEPT !.b_bcount[r.bp] = r.size]
<1>1. pc[p] = "allocbuf" /\ c.slp[p] = None
  BY DEF Allocbuf, At
<1>2. /\ Sound(c, p, H) /\ Local(c, "allocbuf", r) /\ r \in Regs(Buf) /\ H \subseteq Buf
      /\ r.size \in Nat
  BY <1>1, Mine, RegFields
<1>3. /\ Local(c, "got", r) /\ Held("got", r) = H /\ r.bp \in H
      /\ Local(c, "getnewbuf", r) /\ Held("getnewbuf", r) = H
  <2>1. "allocbuf" \in Busy /\ "got" \in Busy
    BY DEF Busy
  <2>2. Local(c, "got", r) /\ Held("got", r) = H /\ r.bp \in H
    BY <1>2, <2>1, BusyTo
  <2>3. Local(c, "getnewbuf", r) /\ Held("getnewbuf", r) = H
    BY <1>2, <2>1, BusyTo
  <2>4. QED BY <2>2, <2>3
<1>4. CASE Goto(p, c, "getnewbuf", r)
  BY <1>1, <1>2, <1>3, <1>4, Moves DEF Label
<1>5. CASE Goto(p, e, "got", r)
  <2>1. Sound(s, p, H) /\ s.slp[p] = None /\ \E x : x \notin H /\ Beside(c, s, x)
    <3>1. s = Shrink(c, r.bp, r.size) /\ r.bp \in H
      BY <1>3
    <3> HIDE DEF s, H
    <3>2. QED BY <1>1, <1>2, <3>1, Shrinking
  <2> HIDE DEF s
  <2>2. s \in Caches(Buf) /\ r.bp \in Buf
    BY <1>2, <1>3, <2>1 DEF Sound
  <2>3. e \in Caches(Buf) /\ Still(s, e) /\ e.b_bufsize = s.b_bufsize
    <3> DEFINE K == [s.b_bcount EXCEPT ![r.bp] = r.size]
    <3>1. K \in [Buf -> Int]
      BY <1>2, <2>2, Fields
    <3>2. e = [s EXCEPT !.b_bcount = K]
      OBVIOUS
    <3> HIDE DEF K
    <3>3. QED BY <2>2, <3>1, <3>2 DEF Caches, Still
  <2>4. Goto(p, e, "got", r)
    BY <1>5
  <2> HIDE DEF e
  <2>5. Sound(e, p, H)
    BY <2>1, <2>3, Resizing
  <2>6. PICK x : x \notin H /\ Beside(c, s, x)
    BY <2>1
  <2>7. Beside(c, e, x) /\ e.slp[p] = None
    BY <2>1, <2>3, <2>6 DEF Beside, Still
  <2>8. QED BY <1>2, <1>3, <2>4, <2>5, <2>6, <2>7, Lands DEF Label
<1>6. QED BY <1>4, <1>5 DEF Allocbuf

-----------------------------------------------------------------------------
(***************************************************************************)
(* What the caller of getblk() does.                                       *)
(***************************************************************************)

\* e is d with a read of b under way.
Reading(d, b, on, e) ==
  /\ Beside(d, e, b) /\ e.slp = d.slp /\ b \in e.io /\ b \notin e.relvp
  /\ "BUSY" \in e.flags[b]
  /\ "ASYNC" \in e.flags[b] <=> "ASYNC" \in d.flags[b] \cup on

\* A read of a buffer in hand starts.
LEMMA ReadStarts ==
  ASSUME NEW p, NEW H, NEW d, Sound(d, p, H), NEW b \in H, b \notin d.io,
         "DONE" \notin d.flags[b], NEW on \in SUBSET Flag, "DONE" \notin on,
         NEW e, e = StartRead(d, b, on)
  PROVE  /\ Sound(e, p, H) /\ Reading(d, b, on, e)
         /\ "ASYNC" \in d.flags[b] \cup on => Sound(e, p, H \ {b})
<1> DEFINE o == {"READ"} \cup on
<1>1. o \in SUBSET Flag /\ "DONE" \notin o
  BY DEF Flag
<1>2. e = Strategy(SetF(d, b, o, {}), b)
  BY DEF StartRead
<1>3. "ASYNC" \in d.flags[b] \cup o <=> "ASYNC" \in d.flags[b] \cup on
  OBVIOUS
<1> HIDE DEF o
<1>4. /\ "BUSY" \notin {} /\ "WANTED" \notin {} /\ "ASYNC" \notin {}
      /\ "DONE" \notin (d.flags[b] \cup o) \ {}
  BY <1>1
<1>5. /\ Sound(e, p, H) /\ Started(d, b, (d.flags[b] \cup o) \ {}, e)
      /\ "ASYNC" \in d.flags[b] \cup o => Sound(e, p, H \ {b})
  BY <1>1, <1>2, <1>4, Starting
<1>6. "BUSY" \in d.flags[b]
  BY DEF Sound, Flow
<1>7. QED BY <1>3, <1>5, <1>6 DEF Started, Reading

\* bread() starts the read and keeps the buffer.
LEMMA GotReadKeeps ==
  ASSUME IInv, NEW p \in Procs, GotRead(p)
  PROVE  IInv'
<1> DEFINE r == loc[p]
           b == loc[p].bp
           H == Held("got", r)
           e == StartRead(c, b, {})
<1>1. /\ pc[p] = "got" /\ c.slp[p] = None /\ r.call.op # "breada"
  BY DEF GotRead, At
<1>2. /\ Sound(c, p, H) /\ Local(c, "got", r) /\ r \in Regs(Buf) /\ H \subseteq Buf
  BY <1>1, Mine
<1>3. r.first = None /\ HasBp("got", r) /\ HasBp("hold", r) /\ HasBp("biowait", r)
  BY <1>1, <1>2 DEF Local, Shape, HasBp
<1>4. H = {b} /\ Held("hold", r) = {b} /\ Held("biowait", r) = {b}
  BY <1>3 DEF Held
<1>5. Shape("hold", r) /\ Shape("biowait", r)
  BY <1>2, <1>3 DEF Local, Shape, NoCall
<1>6. Owned(c, b) /\ b \notin c.io
  BY <1>2, <1>3, <1>4 DEF Local
<1>7. CASE Goto(p, c, "hold", r)
  <2>1. Local(c, "hold", r)
    BY <1>3, <1>4, <1>5, <1>6 DEF Local
  <2>2. QED BY <1>1, <1>2, <1>4, <1>7, <2>1, Moves DEF Label
<1>8. CASE "DONE" \notin c.flags[b] /\ Goto(p, e, "biowait", r)
  <2>1. Sound(e, p, H) /\ Reading(c, b, {}, e)
    <3>1. e = StartRead(c, b, {}) /\ {} \in SUBSET Flag /\ "DONE" \notin {} /\ b \in H
      BY <1>4
    <3>2. "DONE" \notin c.flags[b]
      BY <1>8
    <3> HIDE DEF e, H, b
    <3>3. QED BY <1>2, <1>6, <3>1, <3>2, ReadStarts
  <2>2. Goto(p, e, "biowait", r)
    BY <1>8
  <2> HIDE DEF e
  <2>3. Owned(e, b) /\ Moving(e, b)
    BY <1>6, <2>1 DEF Owned, Moving, Reading
  <2>4. Local(e, "biowait", r)
    BY <1>3, <1>4, <1>5, <2>3 DEF Local
  <2>5. SleepOK(e, e.slp[p], "biowait", r)
    BY <1>1, <2>1, AwakeOK DEF Reading
  <2>6. QED BY <1>2, <1>4, <2>1, <2>2, <2>4, <2>5, SoundEnd DEF Label
<1>9. QED BY <1>7, <1>8 DEF GotRead

\* A write of the whole block keeps the buffer as it is.
LEMMA GotWriteKeeps ==
  ASSUME IInv, NEW p \in Procs, GotWrite(p)
  PROVE  IInv'
<1> DEFINE r == loc[p]
<1>1. /\ pc[p] = "got" /\ c.slp[p] = None /\ r.call.op # "breada" /\ Goto(p, c, "hold", r)
  BY DEF GotWrite, At
<1>2. Local(c, "got", r) /\ r \in Regs(Buf)
  BY <1>1, Mine
<1>3. r.first = None /\ HasBp("got", r) /\ HasBp("hold", r)
  BY <1>1, <1>2 DEF Local, Shape, HasBp
<1>4. Held("hold", r) = Held("got", r)
  BY <1>3 DEF Held
<1>5. Shape("hold", r)
  BY <1>2, <1>3 DEF Local, Shape, NoCall
<1>6. Local(c, "hold", r)
  BY <1>2, <1>3, <1>4, <1>5 DEF Local
<1>7. QED BY <1>1, <1>2, <1>4, <1>6, Moves DEF Label

\* realloccg() clears the new part.
LEMMA GotExtendedKeeps ==
  ASSUME IInv, NEW p \in Procs, GotExtended(p)
  PROVE  IInv'
<1> DEFINE r == loc[p]
           b == loc[p].bp
           H == Held("got", r)
           d == SetF(c, b, {"DONE"}, {})
<1>1. /\ pc[p] = "got" /\ c.slp[p] = None /\ r.call.op # "breada" /\ Goto(p, d, "hold", r)
  BY DEF GotExtended, At
<1>2. /\ Sound(c, p, H) /\ Local(c, "got", r) /\ r \in Regs(Buf) /\ H \subseteq Buf
  BY <1>1, Mine
<1>3. r.first = None /\ HasBp("got", r) /\ HasBp("hold", r)
  BY <1>1, <1>2 DEF Local, Shape, HasBp
<1>4. H = {b} /\ Held("hold", r) = {b}
  BY <1>3 DEF Held
<1>5. Shape("hold", r)
  BY <1>2, <1>3 DEF Local, Shape, NoCall
<1>6. Owned(c, b) /\ b \notin c.io
  BY <1>2, <1>3, <1>4 DEF Local
<1>7. Sound(d, p, H) /\ Flagged(c, b, (c.flags[b] \cup {"DONE"}) \ {}, d)
  <2>1. d = SetF(c, b, {"DONE"}, {}) /\ {"DONE"} \in SUBSET Flag /\ b \in H
        /\ "BUSY" \notin {} /\ "WANTED" \notin {}
    BY <1>4 DEF Flag
  <2> HIDE DEF d, H, b
  <2>2. QED BY <1>2, <1>6, <2>1, Flagging
<1> HIDE DEF d
<1>8. Alike(c, d) /\ Owned(d, b)
  BY <1>6, <1>7 DEF Flagged, Owned, Alike
<1>9. Local(d, "hold", r)
  BY <1>3, <1>4, <1>5, <1>6, <1>8 DEF Local, Alike
<1>10. SleepOK(d, d.slp[p], "hold", r)
  BY <1>1, <1>8, AwakeOK DEF Alike
<1>11. QED BY <1>1, <1>2, <1>4, <1>7, <1>9, <1>10, SoundEnd DEF Label

\* breada() keeps its first block while it sees to the second.
LEMMA GotFirstKeeps ==
  ASSUME IInv, NEW p \in Procs, GotFirst(p)
  PROVE  IInv'
<1> DEFINE r == loc[p]
           b == loc[p].bp
           H == Held("got", r)
           d == IF "DONE" \in c.flags[b] THEN c ELSE StartRead(c, b, {})
           r1 == [r EXCEPT !.first = b, !.bp = None]
<1>1. /\ pc[p] = "got" /\ c.slp[p] = None /\ r.call.op = "breada" /\ r.blk = r.call.blk
      /\ Goto(p, d, "readahead", r1)
  BY DEF GotFirst, At
<1>2. /\ Sound(c, p, H) /\ Local(c, "got", r) /\ r \in Regs(Buf) /\ H \subseteq Buf
      /\ None \notin Buf
  BY <1>1, Mine
<1>3. r.first = None /\ HasBp("got", r)
  BY <1>1, <1>2 DEF Local, Shape, HasBp
<1>4. H = {b} /\ b \in Buf
  BY <1>2, <1>3 DEF Held
<1>5. Owned(c, b) /\ b \notin c.io
  BY <1>2, <1>3, <1>4 DEF Local
<1>6. /\ r1 \in Regs(Buf) /\ r1.first = b /\ r1.bp = None /\ r1.call = r.call
      /\ r1.blk = r.blk
  BY <1>2, <1>4 DEF Regs
<1> HIDE DEF r1
<1>7. Sound(d, p, H) /\ Owned(d, b) /\ Moving(d, b) /\ d.slp = c.slp
  <2>1. CASE "DONE" \in c.flags[b]
    BY <1>2, <1>5, <2>1 DEF Moving
  <2>2. CASE "DONE" \notin c.flags[b]
    <3>1. /\ d = StartRead(c, b, {}) /\ {} \in SUBSET Flag /\ "DONE" \notin {} /\ b \in H
      BY <1>4, <2>2
    <3> HIDE DEF d, H, b
    <3>2. Sound(d, p, H) /\ Reading(c, b, {}, d)
      BY <1>2, <1>5, <2>2, <3>1, ReadStarts
    <3>3. QED BY <1>5, <3>2 DEF Owned, Moving, Reading
  <2>3. QED BY <2>1, <2>2
<1> HIDE DEF d
<1>8. Held("readahead", r1) = H /\ ~HasBp("readahead", r1)
  BY <1>2, <1>4, <1>6 DEF Held, HasBp
<1>9. Shape("readahead", r1)
  BY <1>1, <1>2, <1>6, <1>8 DEF Local, Shape, NoCall
<1>10. Local(d, "readahead", r1)
  BY <1>4, <1>6, <1>7, <1>8, <1>9 DEF Local
<1>11. SleepOK(d, d.slp[p], "readahead", r1)
  BY <1>1, <1>7, AwakeOK
<1>12. QED BY <1>1, <1>6, <1>7, <1>8, <1>10, <1>11, SoundEnd DEF Label

\* The end of breada(): only a buffer that is given away has changed.
LEMMA BreadaEnds ==
  ASSUME IInv, NEW p \in Procs, NEW d, d.slp[p] = None,
         pc[p] \in {"got", "readahead"}, NEW b, Beside(c, d, b), b # loc[p].first,
         Sound(d, p, IF loc[p].first = None THEN {} ELSE {loc[p].first}),
         BreadaEnd(p, d, loc[p])
  PROVE  IInv'
<1> DEFINE r == loc[p]
           r1 == [r EXCEPT !.call = BreadOf(@), !.blk = r.call.blk]
           r2 == [r EXCEPT !.blk = r.call.blk, !.bp = r.first]
<1>1. Local(c, pc[p], r) /\ r \in Regs(Buf) /\ None \notin Buf
  BY Mine
<1>2. r.call \in CallRec /\ ~NoCall(pc[p], r)
  BY <1>1 DEF Local, Shape, NoCall
<1>3. CASE r.first = None
  <2>1. Goto(p, d, "getblk", r1)
    BY <1>3 DEF BreadaEnd
  <2>2. /\ BreadOf(r.call) \in CallRec /\ BreadOf(r.call).op = "read"
    BY <1>2 DEF BreadOf, CallRec, Op
  <2>3. r.call.blk \in Nat
    BY <1>2 DEF CallRec
  <2>4. r1 \in Regs(Buf) /\ r1.call = BreadOf(r.call) /\ r1.first = None
    BY <1>1, <1>3, <2>2, <2>3 DEF Regs
  <2> HIDE DEF r1
  <2>5. Held("getblk", r1) = {} /\ ~HasBp("getblk", r1)
    BY <2>4 DEF Held, HasBp
  <2>6. Local(c, "getblk", r1)
    BY <2>2, <2>4, <2>5 DEF Local, Shape
  <2>7. Sound(d, p, Held("getblk", r1)) /\ b \notin Held("getblk", r1)
    BY <1>3, <2>5
  <2>8. QED BY <2>1, <2>4, <2>6, <2>7, Lands DEF Label
<1>4. CASE r.first # None
  <2>1. Goto(p, d, "biowait", r2)
    BY <1>4 DEF BreadaEnd
  <2>2. r.call.blk \in Nat /\ r.call.op = "breada" /\ r.call.to # r.call.blk
    BY <1>1, <1>2, <1>4 DEF CallRec, Local, Shape
  <2>3. /\ r2 \in Regs(Buf) /\ r2.call = r.call /\ r2.first = r.first /\ r2.bp = r.first
        /\ r2.blk = r.call.blk
    BY <1>1, <2>2 DEF Regs
  <2> HIDE DEF r2
  <2>4. Held("biowait", r2) = {r.first} /\ HasBp("biowait", r2)
    BY <1>4, <2>3 DEF Held, HasBp
  <2>5. Shape("biowait", r2)
    BY <1>2, <1>4, <2>2, <2>3 DEF Shape, NoCall
  <2>6. Owned(c, r.first) /\ Moving(c, r.first)
    BY <1>1, <1>4 DEF Local, Held
  <2>7. Local(c, "biowait", r2)
    BY <2>3, <2>4, <2>5, <2>6 DEF Local
  <2>8. Sound(d, p, Held("biowait", r2)) /\ b \notin Held("biowait", r2)
    BY <1>4, <2>4
  <2>9. QED BY <2>1, <2>3, <2>7, <2>8, Lands DEF Label
<1>5. QED BY <1>3, <1>4

\* breada() asks for the read-ahead block, or ends.
LEMMA ReadaheadKeeps ==
  ASSUME IInv, NEW p \in Procs, Readahead(p)
  PROVE  IInv'
<1> DEFINE r == loc[p]
           r1 == [r EXCEPT !.blk = r.call.to]
<1>1. /\ pc[p] = "readahead" /\ c.slp[p] = None
      /\ BreadaEnd(p, c, r) \/ Goto(p, c, "getblk", r1)
  BY DEF Readahead, At
<1>2. /\ Sound(c, p, Held("readahead", r)) /\ Local(c, "readahead", r) /\ r \in Regs(Buf)
      /\ Held("readahead", r) \subseteq Buf /\ None \notin Buf
  BY <1>1, Mine
<1>3. Held("readahead", r) = IF r.first = None THEN {} ELSE {r.first}
  BY DEF Held, HasBp
<1>4. CASE BreadaEnd(p, c, r)
  <2>1. PICK b : b # r.first /\ Beside(c, c, b)
    <3>1. \A x : Beside(c, c, x)
      BY DEF Beside
    <3>2. FREELIST # None /\ (r.first # None => None # r.first)
      BY Names
    <3>3. QED BY <3>1, <3>2
  <2>2. QED BY <1>1, <1>2, <1>3, <1>4, <2>1, BreadaEnds
<1>5. CASE Goto(p, c, "getblk", r1)
  <2>1. r.call \in CallRec /\ (r.call.op = "breada" => r.call.to # r.call.blk)
    BY <1>2 DEF Local, Shape, NoCall
  <2>2. r.call.to \in Nat
    BY <2>1 DEF CallRec
  <2>3. r1 \in Regs(Buf) /\ r1.first = r.first /\ r1.call = r.call /\ r1.blk = r.call.to
    BY <1>2, <2>2 DEF Regs
  <2> HIDE DEF r1
  <2>4. Held("getblk", r1) = Held("readahead", r) /\ ~HasBp("getblk", r1)
    BY <2>3 DEF Held, HasBp
  <2>5. Shape("getblk", r1)
    BY <1>2, <2>1, <2>3, <2>4 DEF Local, Shape, NoCall
  <2>6. Local(c, "getblk", r1)
    BY <1>2, <2>3, <2>4, <2>5 DEF Local
  <2>7. QED BY <1>1, <1>5, <2>3, <2>4, <2>6, Moves DEF Label
<1>6. QED BY <1>1, <1>4, <1>5

\* breada() starts the read-ahead and lets go of the buffer.
LEMMA GotAheadKeeps ==
  ASSUME IInv, NEW p \in Procs, GotAhead(p)
  PROVE  IInv'
<1> DEFINE r == loc[p]
           b == loc[p].bp
           H == Held("got", r)
           G == IF r.first = None THEN {} ELSE {r.first}
           d == IF "DONE" \in c.flags[b] THEN Brelse(c, b) ELSE StartRead(c, b, {"ASYNC"})
<1>1. pc[p] = "got" /\ c.slp[p] = None /\ BreadaEnd(p, d, r)
  BY DEF GotAhead, At
<1>2. /\ Sound(c, p, H) /\ Local(c, "got", r) /\ r \in Regs(Buf) /\ H \subseteq Buf
      /\ None \notin Buf
  BY <1>1, Mine
<1>3. HasBp("got", r) /\ b # r.first
  BY <1>2 DEF Local, Shape, HasBp
<1>4. b \in H /\ H \ {b} = G
  BY <1>3 DEF Held
<1>5. b \notin c.io
  BY <1>2, <1>3, <1>4 DEF Local
<1>6. Sound(d, p, G) /\ Beside(c, d, b) /\ d.slp[p] = None
  <2>1. CASE "DONE" \in c.flags[b]
    <3>1. d = Brelse(c, b)
      BY <2>1
    <3> HIDE DEF d, H, b, G
    <3>2. Sound(d, p, H \ {b}) /\ Beside(c, d, b) /\ d.slp[p] = None
      BY <1>1, <1>2, <1>4, <1>5, <3>1, Giving
    <3>3. QED BY <1>4, <3>2
  <2>2. CASE "DONE" \notin c.flags[b]
    <3>1. /\ d = StartRead(c, b, {"ASYNC"}) /\ {"ASYNC"} \in SUBSET Flag
          /\ "DONE" \notin {"ASYNC"} /\ "ASYNC" \in c.flags[b] \cup {"ASYNC"}
      BY <2>2 DEF Flag
    <3> HIDE DEF d, H, b, G
    <3>2. Sound(d, p, H \ {b}) /\ Reading(c, b, {"ASYNC"}, d)
      BY <1>2, <1>4, <1>5, <2>2, <3>1, ReadStarts
    <3>3. QED BY <1>1, <1>4, <3>2 DEF Reading
  <2>3. QED BY <2>1, <2>2
<1> HIDE DEF d
<1>7. QED BY <1>1, <1>3, <1>6, BreadaEnds

\* biowait() sleeps while the transfer is under way.
LEMMA BiowaitKeeps ==
  ASSUME IInv, NEW p \in Procs, Biowait(p)
  PROVE  IInv'
<1> DEFINE r == loc[p]
           b == loc[p].bp
<1>1. pc[p] = "biowait" /\ c.slp[p] = None
  BY DEF Biowait, At
<1>2. Sound(c, p, Held("biowait", r)) /\ Local(c, "biowait", r) /\ r \in Regs(Buf)
  BY <1>1, Mine
<1>3. CASE "DONE" \in c.flags[b] /\ Goto(p, c, "hold", r)
  <2>1. b \notin c.io
    BY <1>2, <1>3 DEF Sound, Flow
  <2>2. HasBp("biowait", r) /\ HasBp("hold", r)
    BY DEF HasBp
  <2>3. Held("hold", r) = Held("biowait", r)
    BY <2>2 DEF Held
  <2>4. Shape("hold", r)
    BY <1>2, <2>2 DEF Local, Shape, NoCall
  <2>5. Local(c, "hold", r)
    BY <1>2, <2>1, <2>2, <2>3, <2>4 DEF Local
  <2>6. QED BY <1>1, <1>2, <1>3, <2>3, <2>5, Moves DEF Label
<1>4. CASE "DONE" \notin c.flags[b] /\ Goto(p, SleepOn(c, p, b), "biowait", r)
  <2>1. b \in c.io
    BY <1>2, <1>4 DEF Local, Moving
  <2>2. QED BY <1>1, <1>4, <2>1, SleepsOnTransfer
<1>5. QED BY <1>3, <1>4 DEF Biowait

-----------------------------------------------------------------------------
(***************************************************************************)
(* The holder of a buffer releases it.                                     *)
(***************************************************************************)

\* The holder has one buffer, with no transfer under way.
LEMMA Holding ==
  ASSUME IInv, NEW p \in Procs, pc[p] = "hold"
  PROVE  /\ Sound(c, p, {loc[p].bp}) /\ Held("hold", loc[p]) = {loc[p].bp}
         /\ Owned(c, loc[p].bp) /\ loc[p].bp \notin c.io /\ loc[p].bp \in Buf
         /\ loc[p].first # None => loc[p].call.op = "breada"
<1>1. /\ Sound(c, p, Held("hold", loc[p])) /\ Local(c, "hold", loc[p])
      /\ Held("hold", loc[p]) \subseteq Buf
  BY Mine
<1>2. HasBp("hold", loc[p]) /\ (loc[p].first # None => loc[p].first = loc[p].bp)
  BY <1>1 DEF Local, Shape, HasBp
<1>3. Held("hold", loc[p]) = {loc[p].bp}
  BY <1>2 DEF Held
<1>4. QED BY <1>1, <1>2, <1>3 DEF Local, Shape

\* A process that returns to its caller answers for nothing.
LEMMA NoLocOK ==
  ASSUME NEW d
  PROVE  /\ NoLoc \in Regs(Buf) /\ Held("idle", NoLoc) = {} /\ Local(d, "idle", NoLoc)
         /\ NoLoc.first = None
<1>1. NoLoc \in Regs(Buf) /\ NoLoc.first = None
  BY DEF NoLoc, Regs, Label
<1>2. ~HasBp("idle", NoLoc)
  BY DEF HasBp
<1>3. Held("idle", NoLoc) = {}
  BY <1>1, <1>2 DEF Held
<1>4. QED BY <1>1, <1>2, <1>3 DEF Local, Shape, NoCall

\* A process with no buffer in hand returns to its caller.
LEMMA Returns ==
  ASSUME IInv, NEW p \in Procs, NEW d, Sound(d, p, {}), d.slp[p] = None, Return(p, d)
  PROVE  IInv'
<1>1. NoLoc \in Regs(Buf) /\ Held("idle", NoLoc) = {} /\ Local(d, "idle", NoLoc)
  BY NoLocOK
<1>2. Goto(p, d, "idle", NoLoc) /\ "idle" \in Label
  BY DEF Return, Label
<1>3. Sound(d, p, Held("idle", NoLoc)) /\ SleepOK(d, d.slp[p], "idle", NoLoc)
  BY <1>1, AwakeOK
<1>4. QED BY <1>1, <1>2, <1>3, SoundEnd

\* brelse() by the holder.
LEMMA ReleaseKeeps ==
  ASSUME IInv, NEW p \in Procs, Release(p)
  PROVE  IInv'
<1> DEFINE b == loc[p].bp
           d == Brelse(c, b)
<1>1. pc[p] = "hold" /\ c.slp[p] = None /\ Return(p, d)
  BY DEF Release, Holds, At
<1>2. Sound(c, p, {b}) /\ b \notin c.io /\ b \in {b}
  BY <1>1, Holding
<1>3. Sound(d, p, {b} \ {b}) /\ d.slp[p] = None
  <2>1. d = Brelse(c, b)
    OBVIOUS
  <2> HIDE DEF d, b
  <2>2. QED BY <1>1, <1>2, <2>1, Giving
<1> HIDE DEF d
<1>4. {b} \ {b} = {}
  OBVIOUS
<1>5. QED BY <1>1, <1>3, <1>4, Returns

\* realloccg() asks brealloc() for the new size.
LEMMA ExtendKeeps ==
  ASSUME IInv, NEW p \in Procs, Extend(p)
  PROVE  IInv'
<1> DEFINE r == loc[p]
           r1 == [r EXCEPT !.size = r.call.to]
<1>1. pc[p] = "hold" /\ c.slp[p] = None /\ r.call.op = "extend" /\ Goto(p, c, "brealloc", r1)
  BY DEF Extend, Holds, At
<1>2. Local(c, "hold", r) /\ r \in Regs(Buf) /\ Held("hold", r) = {r.bp} /\ r.first = None
  BY <1>1, Mine, Holding
<1>3. r.call \in CallRec
  BY <1>2 DEF Local, Shape, NoCall
<1>4. r.call.to \in Nat
  BY <1>3 DEF CallRec
<1>5. r1 \in Regs(Buf) /\ r1.bp = r.bp /\ r1.first = None /\ r1.call = r.call
  BY <1>2, <1>4 DEF Regs
<1> HIDE DEF r1
<1>6. HasBp("hold", r) /\ HasBp("brealloc", r1)
  BY DEF HasBp
<1>7. Held("brealloc", r1) = Held("hold", r)
  BY <1>2, <1>5, <1>6 DEF Held
<1>8. Shape("brealloc", r1)
  BY <1>2, <1>3, <1>5, <1>6 DEF Local, Shape, NoCall
<1>9. Local(c, "brealloc", r1)
  BY <1>2, <1>5, <1>6, <1>7, <1>8 DEF Local
<1>10. QED BY <1>1, <1>5, <1>7, <1>9, Moves DEF Label

\* The holder has changed what is in its buffer.
LEMMA ModifiedIs ==
  ASSUME IInv, NEW p, NEW H, Sound(c, p, H), NEW b \in Buf, NEW d, d = Modified(c, b)
  PROVE  Sound(d, p, H) /\ Still(c, d)
<1> DEFINE fs == Covers(c, b)
           F == [e \in Buf |-> IF e = b THEN c.fresh[e] \cup fs ELSE c.fresh[e] \ fs]
           D == c.disk \ fs
<1>1. c \in Caches(Buf)
  BY DEF IInv
<1>2. fs \subseteq Int
  <2>1. c.b_blkno[b] \in Nat \cup {None} /\ c.b_bcount[b] \in Int
    BY <1>1, Fields
  <2>2. QED BY <2>1 DEF Covers, Fragments
<1>3. d = [c EXCEPT !.fresh = F, !.disk = D]
  BY DEF Modified
<1> HIDE DEF fs
<1>4. F \in [Buf -> SUBSET Int] /\ D \in SUBSET Int
  <2>1. c.fresh \in [Buf -> SUBSET Int] /\ c.disk \in SUBSET Int
    BY <1>1, Fields
  <2>2. D \in SUBSET Int
    BY <2>1
  <2>3. ASSUME NEW e \in Buf
        PROVE  (IF e = b THEN c.fresh[e] \cup fs ELSE c.fresh[e] \ fs) \in SUBSET Int
    <3>1. c.fresh[e] \in SUBSET Int
      BY <2>1
    <3>2. QED BY <1>2, <3>1
  <2>4. QED BY <2>2, <2>3
<1> HIDE DEF F, D
<1>5. d \in Caches(Buf) /\ Still(c, d) /\ d.b_bufsize = c.b_bufsize
  BY <1>1, <1>3, <1>4 DEF Caches, Still
<1>6. QED BY <1>5, Resizing

\* A holder that may write.
LEMMA Writing ==
  ASSUME IInv, NEW p \in Procs, MayWrite(p), NEW b, b = loc[p].bp,
         NEW d, d = Modified(c, b)
  PROVE  /\ pc[p] = "hold" /\ c.slp[p] = None /\ loc[p].first = None /\ b \in Buf
         /\ Sound(d, p, {b}) /\ Beside(c, d, b) /\ d.slp = c.slp /\ d.flags = c.flags
         /\ b \notin d.io /\ Owned(d, b) /\ "ASYNC" \notin c.flags[b]
<1>1. pc[p] = "hold" /\ c.slp[p] = None /\ loc[p].call.op # "breada"
  BY DEF MayWrite, Holds, At
<1>2. /\ Sound(c, p, {b}) /\ Owned(c, b) /\ b \notin c.io /\ b \in Buf
      /\ loc[p].first = None
  BY <1>1, Holding
<1>3. Sound(d, p, {b}) /\ Still(c, d)
  BY <1>2, ModifiedIs
<1>4. QED BY <1>1, <1>2, <1>3 DEF Still, Beside, Owned

\* bdwrite() marks the buffer and releases it.
LEMMA BdwriteKeeps ==
  ASSUME IInv, NEW p \in Procs, Bdwrite(p)
  PROVE  IInv'
<1> DEFINE b == loc[p].bp
           d == Modified(c, b)
           e == SetF(d, b, {"DELWRI", "DONE"}, {})
           f == Brelse(e, b)
<1>1. MayWrite(p) /\ Return(p, f)
  BY DEF Bdwrite
<1>2. /\ c.slp[p] = None /\ Sound(d, p, {b}) /\ d.slp = c.slp
      /\ b \notin d.io /\ b \in {b}
  BY <1>1, Writing
<1> HIDE DEF d
<1>3. Sound(e, p, {b}) /\ Flagged(d, b, (d.flags[b] \cup {"DELWRI", "DONE"}) \ {}, e)
  <2>1. e = SetF(d, b, {"DELWRI", "DONE"}, {}) /\ {"DELWRI", "DONE"} \in SUBSET Flag
        /\ "BUSY" \notin {} /\ "WANTED" \notin {}
    BY DEF Flag
  <2> HIDE DEF e, b
  <2>2. QED BY <1>2, <2>1, Flagging
<1> HIDE DEF e
<1>4. e.slp[p] = None /\ b \notin e.io
  BY <1>2, <1>3 DEF Flagged, Alike
<1>5. Sound(f, p, {b} \ {b}) /\ f.slp[p] = None
  <2> DEFINE G == {b}
  <2>1. f = Brelse(e, b) /\ Sound(e, p, G) /\ b \in G /\ G = {b}
    BY <1>3
  <2> HIDE DEF f, b, G
  <2>2. Sound(f, p, G \ {b}) /\ f.slp[p] = None
    BY <1>4, <2>1, Giving
  <2>3. QED BY <2>1, <2>2
<1> HIDE DEF f
<1>6. {b} \ {b} = {}
  OBVIOUS
<1>7. QED BY <1>1, <1>5, <1>6, Returns

\* bwrite() starts a transfer and waits for it.
LEMMA BwriteCallKeeps ==
  ASSUME IInv, NEW p \in Procs, BwriteCall(p)
  PROVE  IInv'
<1> DEFINE r == loc[p]
           b == loc[p].bp
           d == Modified(c, b)
           r1 == [r EXCEPT !.ep = b, !.ret = "idle"]
<1>1. MayWrite(p) /\ Bwrite(p, d, b, "idle", r)
  BY DEF BwriteCall
<1>2. /\ pc[p] = "hold" /\ c.slp[p] = None /\ r.first = None /\ b \in Buf
      /\ Sound(d, p, {b}) /\ d.slp = c.slp /\ d.flags = c.flags
      /\ b \notin d.io /\ Owned(d, b)
  BY <1>1, Writing
<1> HIDE DEF d
<1>3. Local(c, "hold", r) /\ r \in Regs(Buf) /\ None \notin Buf
  BY <1>2, Mine
<1>4. r1.ep = b /\ r1.ret = "idle" /\ r1.first = None /\ r1.call = r.call
  BY <1>2, <1>3 DEF Regs
<1>5. r1 = [r EXCEPT !.ep = b, !.ret = "idle"] /\ "idle" \in Label
  BY DEF Label
<1> HIDE DEF r1
<1>6. ~HasBp("written", r1) /\ Held("written", r1) = {b}
  BY <1>4 DEF HasBp, Held
<1>7. Shape("written", r1)
  BY <1>2, <1>3, <1>4, <1>6 DEF Local, Shape, NoCall
<1>8. "ASYNC" \notin d.flags[b] /\ \A x \in Held("written", r1) : Owned(d, x)
  BY <1>2, <1>6 DEF Owned
<1>9. QED BY <1>1, <1>2, <1>3, <1>4, <1>5, <1>6, <1>7, <1>8, WriteWaits

\* bawrite() starts a transfer that biodone() will end.
LEMMA BawriteKeeps ==
  ASSUME IInv, NEW p \in Procs, Bawrite(p)
  PROVE  IInv'
<1> DEFINE b == loc[p].bp
           m == Modified(c, b)
           d == SetF(m, b, {"ASYNC"}, {})
           r1 == [NoLoc EXCEPT !.ep = b, !.ret = "idle"]
<1>1. /\ MayWrite(p)
      /\ IF "DELWRI" \in d.flags[b] THEN Bwrite(p, d, b, "idle", NoLoc)
         ELSE Return(p, StartWrite(d, b))
  BY DEF Bawrite
<1>2. /\ c.slp[p] = None /\ b \in Buf /\ Sound(m, p, {b})
      /\ m.slp = c.slp /\ b \notin m.io /\ b \in {b}
  BY <1>1, Writing
<1> HIDE DEF m
<1>3. Sound(d, p, {b}) /\ Flagged(m, b, (m.flags[b] \cup {"ASYNC"}) \ {}, d)
  <2>1. d = SetF(m, b, {"ASYNC"}, {}) /\ {"ASYNC"} \in SUBSET Flag
        /\ "BUSY" \notin {} /\ "WANTED" \notin {}
    BY DEF Flag
  <2> HIDE DEF d, b
  <2>2. QED BY <1>2, <2>1, Flagging
<1> HIDE DEF d
<1>4. d.slp[p] = None /\ b \notin d.io /\ "ASYNC" \in d.flags[b]
  BY <1>2, <1>3 DEF Flagged, Alike
<1>5. CASE "DELWRI" \in d.flags[b]
  <2>1. Bwrite(p, d, b, "idle", NoLoc) /\ NoLoc \in Regs(Buf) /\ "idle" \in Label
    BY <1>1, <1>5, NoLocOK DEF Label
  <2>2. r1.ep = b /\ r1.ret = "idle" /\ r1.first = None
    BY DEF NoLoc
  <2>3. r1 = [NoLoc EXCEPT !.ep = b, !.ret = "idle"]
    OBVIOUS
  <2> HIDE DEF r1
  <2>4. Held("age", r1) = {} /\ ~HasBp("age", r1)
    BY <2>2 DEF Held, HasBp
  <2>5. Shape("age", r1)
    BY <1>2, <2>2, <2>4, Names DEF Shape, NoCall
  <2>6. Held("age", r1) \cup {b} = {b} /\ b \notin Held("age", r1)
    BY <2>4
  <2>7. Sound(d, p, Held("age", r1) \cup {b}) /\ \A x \in Held("age", r1) : Owned(d, x)
    BY <1>3, <2>4, <2>6
  <2>8. QED BY <1>4, <1>5, <2>1, <2>2, <2>3, <2>4, <2>5, <2>6, <2>7, WriteDelayed
<1>6. CASE "DELWRI" \notin d.flags[b]
  <2> DEFINE e == StartWrite(d, b)
  <2>1. Return(p, e)
    BY <1>1, <1>6
  <2>2. e = Strategy(SetF(d, b, {}, {"READ", "DONE", "ERROR", "DELWRI"}), b)
    BY DEF StartWrite
  <2>3. /\ "BUSY" \notin {"READ", "DONE", "ERROR", "DELWRI"}
        /\ "WANTED" \notin {"READ", "DONE", "ERROR", "DELWRI"}
        /\ "ASYNC" \notin {"READ", "DONE", "ERROR", "DELWRI"}
        /\ "DONE" \notin (d.flags[b] \cup {}) \ {"READ", "DONE", "ERROR", "DELWRI"}
        /\ {} \in SUBSET Flag /\ "ASYNC" \in d.flags[b] \cup {}
    BY <1>4
  <2> HIDE DEF e, b
  <2>4. /\ Sound(e, p, {b} \ {b})
        /\ Started(d, b, (d.flags[b] \cup {}) \ {"READ", "DONE", "ERROR", "DELWRI"}, e)
    BY <1>2, <1>3, <1>4, <2>2, <2>3, Starting
  <2>5. {b} \ {b} = {} /\ e.slp[p] = None
    BY <1>4, <2>4 DEF Started
  <2>6. QED BY <2>1, <2>4, <2>5, Returns
<1>7. QED BY <1>5, <1>6

\* bwrite() marks B_AGE a buffer that is no longer its own.
LEMMA BwriteAgeKeeps ==
  ASSUME IInv, NEW p \in Procs, BwriteAge(p)
  PROVE  IInv'
<1> DEFINE r == loc[p]
           b == loc[p].ep
           l == loc[p].ret
           d == SetF(c, b, {"AGE"}, {})
           r1 == [r EXCEPT !.ep = None]
<1>1. pc[p] = "age" /\ c.slp[p] = None /\ Goto(p, d, l, r1)
  BY DEF BwriteAge, At
<1>2. /\ Sound(c, p, Held("age", r)) /\ Local(c, "age", r) /\ r \in Regs(Buf)
      /\ Held("age", r) \subseteq Buf
  BY <1>1, Mine
<1>3. b \in Buf /\ l \in {"getnewbuf", "bflush", "binvalfree", "idle"} /\ l \in Label
  BY <1>2, RegFields DEF Local, Shape, Label
<1>4. Sound(d, p, Held("age", r)) /\ Flagged(c, b, c.flags[b] \cup {"AGE"}, d)
  <2> DEFINE G == Held("age", r)
  <2>1. /\ d = SetF(c, b, {"AGE"}, {}) /\ {"AGE"} \in SUBSET Flag /\ "BUSY" \notin {"AGE"}
        /\ "ASYNC" \notin {"AGE"} /\ "DONE" \notin {"AGE"} /\ Sound(c, p, G)
    BY <1>2 DEF Flag
  <2>2. b \in Buf
    BY <1>3
  <2>3. Sound(d, p, G) /\ Flagged(c, b, c.flags[b] \cup {"AGE"}, d)
    <3> HIDE DEF d, b, G
    <3>1. QED BY <2>1, <2>2, Marking
  <2>4. QED BY <2>3
<1>5. /\ r1 \in Regs(Buf) /\ r1.bp = r.bp /\ r1.first = r.first /\ r1.call = r.call
      /\ r1.blk = r.blk /\ r1.ret = l
  BY <1>2 DEF Regs
<1> HIDE DEF r1, d
<1>6. HasBp(l, r1) <=> HasBp("age", r)
  BY <1>3, <1>5 DEF HasBp
<1>7. Held(l, r1) = Held("age", r)
  BY <1>3, <1>5, <1>6 DEF Held
<1>8. Shape(l, r1)
  BY <1>2, <1>3, <1>5, <1>6 DEF Local, Shape, NoCall
<1>9. Local(c, l, r1)
  BY <1>2, <1>3, <1>5, <1>6, <1>7, <1>8 DEF Local
<1>10. \A x \in Held(l, r1) : Kept(c, d, x)
  BY <1>2, <1>4, <1>7 DEF Flagged, Alike, Beside, Kept, Moving
<1>11. Local(d, l, r1)
  BY <1>9, <1>10, LocalKept
<1>12. SleepOK(d, d.slp[p], l, r1)
  BY <1>1, <1>4, AwakeOK DEF Flagged, Alike
<1>13. Sound(d, p, Held(l, r1))
  BY <1>4, <1>7
<1>14. QED BY <1>1, <1>3, <1>5, <1>11, <1>12, <1>13, SoundEnd

\* bwrite() waits for its transfer, then releases the buffer.
LEMMA BwriteWaitKeeps ==
  ASSUME IInv, NEW p \in Procs, BwriteWait(p)
  PROVE  IInv'
<1> DEFINE r == loc[p]
           b == loc[p].ep
           l == loc[p].ret
           d == Brelse(c, b)
           r1 == IF l = "idle" THEN NoLoc ELSE [r EXCEPT !.ep = None]
<1>1. /\ pc[p] = "written" /\ c.slp[p] = None
      /\ IF "DONE" \in c.flags[b] THEN Goto(p, d, l, r1)
         ELSE Goto(p, SleepOn(c, p, b), "written", r)
  BY DEF BwriteWait, At
<1>2. /\ Sound(c, p, Held("written", r)) /\ Local(c, "written", r) /\ r \in Regs(Buf)
      /\ Held("written", r) \subseteq Buf /\ None \notin Buf
  BY <1>1, Mine
<1>3. /\ b \in Buf /\ b # r.first /\ l \in {"getblk", "overlap", "blkflush", "idle"}
      /\ l \in Label /\ b \in Held("written", r) /\ (l = "overlap" => b # r.bp)
  BY <1>2, RegFields DEF Local, Shape, Label, Held
<1>4. CASE "DONE" \in c.flags[b]
  <2>1. b \notin c.io
    BY <1>2, <1>4 DEF Sound, Flow
  <2>2. Sound(d, p, Held("written", r) \ {b}) /\ Beside(c, d, b) /\ d.slp[p] = None
    <3> DEFINE G == Held("written", r)
    <3>1. d = Brelse(c, b) /\ Sound(c, p, G) /\ b \in G
      BY <1>2, <1>3
    <3>2. Sound(d, p, G \ {b}) /\ Beside(c, d, b) /\ d.slp[p] = None
      <4> HIDE DEF d, b, G
      <4>1. QED BY <1>1, <2>1, <3>1, Giving
    <3>3. QED BY <3>2
  <2>3. Goto(p, d, l, r1)
    BY <1>1, <1>4
  <2> HIDE DEF d
  <2>4. CASE l = "idle"
    <3>1. Return(p, d)
      BY <2>3, <2>4 DEF Return
    <3>2. r.first = None /\ ~HasBp("written", r)
      BY <1>2, <2>4 DEF Local, Shape, HasBp
    <3>3. Held("written", r) \ {b} = {}
      BY <3>2 DEF Held
    <3>4. QED BY <2>2, <3>1, <3>3, Returns
  <2>5. CASE l # "idle"
    <3>1. r1 = [r EXCEPT !.ep = None]
      BY <2>5
    <3>2. /\ r1 \in Regs(Buf) /\ r1.bp = r.bp /\ r1.first = r.first /\ r1.call = r.call
          /\ r1.blk = r.blk /\ r1.ret = l
      BY <1>2, <3>1 DEF Regs
    <3> HIDE DEF r1
    <3>3. HasBp(l, r1) <=> HasBp("written", r)
      BY <1>3, <2>5, <3>2 DEF HasBp
    <3>4. HasBp("written", r) => l = "overlap"
      BY DEF HasBp
    <3>5. Held(l, r1) = Held("written", r) \ {b} /\ b \notin Held(l, r1)
      BY <1>3, <3>2, <3>3, <3>4 DEF Held
    <3>6. Shape(l, r1)
      BY <1>2, <1>3, <2>5, <3>2, <3>3 DEF Local, Shape, NoCall
    <3>7. Local(c, l, r1)
      BY <1>2, <1>3, <3>2, <3>3, <3>5, <3>6 DEF Local
    <3>8. Sound(d, p, Held(l, r1))
      BY <2>2, <3>5
    <3>9. QED BY <1>3, <2>2, <2>3, <3>2, <3>5, <3>7, <3>8, Lands
  <2>6. QED BY <2>4, <2>5
<1>5. CASE "DONE" \notin c.flags[b]
  <2>1. b \in c.io
    BY <1>2, <1>5 DEF Local, Moving
  <2>2. Goto(p, SleepOn(c, p, b), pc[p], loc[p])
    BY <1>1, <1>5
  <2>3. QED BY <1>1, <2>1, <2>2, SleepsOnTransfer
<1>6. QED BY <1>4, <1>5

\* blkflush() waits for a busy buffer, writes a delayed one, or is done.
LEMMA BlkflushKeeps ==
  ASSUME IInv, NEW p \in Procs, Blkflush(p)
  PROVE  IInv'
<1> DEFINE r == loc[p]
           over == Overlapping(c, r.blk, r.size)
           busy == {e \in over : "BUSY" \in c.flags[e]}
           late == {e \in over : "DELWRI" \in c.flags[e]} \ busy
<1>1. pc[p] = "blkflush" /\ c.slp[p] = None
  BY DEF Blkflush, At
<1>2. /\ \/ \E e \in busy :
              Goto(p, SleepOn(SetF(c, e, {"WANTED"}, {}), p, e), "blkflush", r)
         \/ \E e \in late : Bwrite(p, Notavail(c, e), e, "blkflush", r)
         \/ Return(p, c)
  BY DEF Blkflush
<1>3. over \subseteq Buf
  BY DEF Overlapping
<1>4. CASE \E e \in busy :
             Goto(p, SleepOn(SetF(c, e, {"WANTED"}, {}), p, e), "blkflush", r)
  <2>1. PICK e \in busy :
             Goto(p, SleepOn(SetF(c, e, {"WANTED"}, {}), p, e), pc[p], loc[p])
    BY <1>1, <1>4
  <2>2. e \in Buf /\ "BUSY" \in c.flags[e]
    BY <1>3
  <2>3. QED BY <1>1, <2>1, <2>2, SleepsOnBusy
<1>5. CASE \E e \in late : Bwrite(p, Notavail(c, e), e, "blkflush", r)
  <2>1. PICK e \in late : Bwrite(p, Notavail(c, e), e, "blkflush", loc[p])
    BY <1>5
  <2>2. e \in Buf /\ "BUSY" \notin c.flags[e]
    BY <1>3
  <2>3. "blkflush" \in {"overlap", "blkflush"}
    OBVIOUS
  <2>4. QED BY <1>1, <2>1, <2>2, <2>3, WritesFree
<1>6. CASE Return(p, c)
  <2>1. Sound(c, p, Held("blkflush", r)) /\ Local(c, "blkflush", r)
    BY <1>1, Mine
  <2>2. Held("blkflush", r) = {}
    BY <2>1 DEF Local, Shape, Held, HasBp
  <2>3. QED BY <1>1, <1>6, <2>1, <2>2, Returns
<1>7. QED BY <1>2, <1>4, <1>5, <1>6

\* The first delayed write on the LRU and AGE lists is free.
LEMMA DelayedIsFree ==
  ASSUME NEW d \in Caches(Buf), FreeOK(d), Delayed(d) # {},
         NEW b, b = Order(d)[Min(Delayed(d))]
  PROVE  b \in Buf /\ "BUSY" \notin d.flags[b] /\ "DELWRI" \in d.flags[b]
<1> DEFINE s == d.free["LRU"]
           t == d.free["AGE"]
           m == Min(Delayed(d))
<1>1. s \in Seq(Buf) /\ t \in Seq(Buf) /\ DOMAIN d.flags = Buf
  BY Fields DEF Lists
<1>2. Order(d) = s \o t
  BY DEF Order
<1> HIDE DEF s, t
<1>3. /\ DOMAIN Order(d) = 1 .. Len(s) + Len(t) /\ Len(s) \in Nat /\ Len(t) \in Nat
      /\ \A i \in 1 .. Len(s) + Len(t) :
           Order(d)[i] = IF i <= Len(s) THEN s[i] ELSE t[i - Len(s)]
  BY <1>1, <1>2, ConcatIs
<1>4. m \in Delayed(d)
  <2>1. Delayed(d) \subseteq Nat
    BY <1>3 DEF Delayed
  <2>2. \E x \in Delayed(d) : \A y \in Delayed(d) : x <= y
    BY <2>1, Least
  <2>3. QED BY <2>2 DEF Min
<1> HIDE DEF m
<1>5. m \in 1 .. Len(s) + Len(t) /\ "DELWRI" \in d.flags[Order(d)[m]] /\ b = Order(d)[m]
  BY <1>3, <1>4 DEF Delayed, m
<1>6. b \in On(d, "LRU") \/ b \in On(d, "AGE")
  <2>1. CASE m <= Len(s)
    <3>1. b = s[m] /\ m \in DOMAIN s
      BY <1>1, <1>3, <1>5, <2>1
    <3>2. QED BY <3>1 DEF On, ToSet, s
  <2>2. CASE ~(m <= Len(s))
    <3>1. b = t[m - Len(s)] /\ m - Len(s) \in DOMAIN t
      BY <1>1, <1>3, <1>5, <2>2
    <3>2. QED BY <3>1 DEF On, ToSet, t
  <2>3. QED BY <2>1, <2>2
<1>7. b \in Buf
  BY <1>1, <1>6 DEF On, ToSet, s, t
<1>8. QED BY <1>1, <1>5, <1>6, <1>7 DEF FreeOK, Lists

\* bflush() and binvalfree() mark the buffer before they take it.
LEMMA TakesDelayed ==
  ASSUME NEW p, NEW H, NEW d, Sound(d, p, H), NEW b \in Buf, "BUSY" \notin d.flags[b],
         NEW e, e = Notavail(SetF(d, b, {"ASYNC"}, {}), b)
  PROVE  /\ Sound(e, p, H \cup {b}) /\ e.slp = d.slp /\ b \notin e.io
         /\ e.flags[b] = d.flags[b] \cup {"ASYNC", "BUSY"}
<1> DEFINE f == SetF(d, b, {"ASYNC"}, {})
<1>1. d \in Caches(Buf) /\ FreeOK(d) /\ d.flags \in [Buf -> SUBSET Flag]
  BY Fields DEF Sound
<1>2. {"ASYNC"} \in SUBSET Flag /\ e = Notavail(f, b)
  BY DEF Flag
<1>3. /\ f \in Caches(Buf) /\ Alike(d, f) /\ f.b_blkno = d.b_blkno
      /\ f.flags = [d.flags EXCEPT ![b] = (@ \cup {"ASYNC"}) \ {}]
  BY <1>1, <1>2, SetFIs
<1> HIDE DEF f
<1>4. \A l \in Lists : IsInjective(f.free[l])
  BY <1>1, <1>3 DEF Alike, FreeOK
<1>5. /\ e \in Caches(Buf) /\ e.load = f.load /\ e.wanted = f.wanted /\ e.io = f.io
      /\ e.relvp = f.relvp /\ e.slp = f.slp /\ e.b_bufsize = f.b_bufsize
      /\ e.flags = [f.flags EXCEPT ![b] = @ \cup {"BUSY"}]
      /\ e.free = [l \in Lists |-> RemoveFirst(f.free[l], b)]
  BY <1>2, <1>3, <1>4, NotavailIs
<1>6. /\ e.load = d.load /\ e.wanted = d.wanted /\ e.io = d.io
      /\ e.relvp = d.relvp /\ e.slp = d.slp /\ e.b_bufsize = d.b_bufsize
      /\ e.free = [l \in Lists |-> RemoveFirst(d.free[l], b)]
  BY <1>3, <1>5 DEF Alike
<1>7. /\ e.flags[b] = d.flags[b] \cup {"ASYNC", "BUSY"}
      /\ \A x \in Buf \ {b} : e.flags[x] = d.flags[x]
  BY <1>1, <1>3, <1>5
<1>8. Sound(e, p, H \cup {b})
  BY <1>5, <1>6, <1>7, SoundTake
<1>9. b \notin d.io
  BY FreeIsNobodys
<1>10. QED BY <1>6, <1>7, <1>8, <1>9

\* The write of a delayed buffer that bflush() or binvalfree() has come to.
LEMMA FlushWrites ==
  ASSUME IInv, NEW p \in Procs, NEW ret, ret \in {"bflush", "binvalfree"}, pc[p] = ret,
         NEW d, Sound(d, p, {}), d.slp[p] = None, NEW b \in Buf,
         "BUSY" \notin d.flags[b], "DELWRI" \in d.flags[b],
         Bwrite(p, Notavail(SetF(d, b, {"ASYNC"}, {}), b), b, ret, loc[p])
  PROVE  IInv'
<1> DEFINE e == Notavail(SetF(d, b, {"ASYNC"}, {}), b)
           r == [loc[p] EXCEPT !.ep = b, !.ret = ret]
<1>1. /\ loc[p] \in Regs(Buf) /\ Local(c, pc[p], loc[p]) /\ ret \in Label
      /\ None \notin Buf
  BY Mine DEF Label
<1>2. loc[p].first = None
  BY <1>1 DEF Local, Shape, NoCall
<1>3. r.ep = b /\ r.ret = ret /\ r.first = None
  BY <1>1, <1>2 DEF Regs
<1>4. r = [loc[p] EXCEPT !.ep = b, !.ret = ret] /\ Bwrite(p, e, b, ret, loc[p])
  OBVIOUS
<1>5. e = Notavail(SetF(d, b, {"ASYNC"}, {}), b)
  OBVIOUS
<1> HIDE DEF r, e
<1>6. /\ Sound(e, p, {} \cup {b}) /\ e.slp = d.slp /\ b \notin e.io
      /\ e.flags[b] = d.flags[b] \cup {"ASYNC", "BUSY"}
  BY <1>5, TakesDelayed
<1>7. ~HasBp("age", r) /\ Held("age", r) = {}
  BY <1>3 DEF HasBp, Held
<1>8. Shape("age", r)
  BY <1>1, <1>3, <1>7 DEF Shape, NoCall
<1>9. Sound(e, p, Held("age", r) \cup {b}) /\ b \notin Held("age", r)
  BY <1>6, <1>7
<1>10. /\ e.slp[p] = None /\ "ASYNC" \in e.flags[b] /\ "DELWRI" \in e.flags[b]
       /\ \A x \in Held("age", r) : Owned(e, x)
  BY <1>6, <1>7
<1>11. QED
  BY <1>1, <1>3, <1>4, <1>6, <1>7, <1>8, <1>9, <1>10, WriteDelayed

\* bflush() starts the first delayed write, or is done.
LEMMA BflushKeeps ==
  ASSUME IInv, NEW p \in Procs, Bflush(p)
  PROVE  IInv'
<1> DEFINE b == Order(c)[Min(Delayed(c))]
<1>1. pc[p] = "bflush" /\ c.slp[p] = None
  BY DEF Bflush, At
<1>2. IF Delayed(c) = {} THEN Return(p, c)
      ELSE Bwrite(p, Notavail(SetF(c, b, {"ASYNC"}, {}), b), b, "bflush", loc[p])
  BY DEF Bflush
<1>3. Sound(c, p, Held("bflush", loc[p])) /\ Local(c, "bflush", loc[p])
  BY <1>1, Mine
<1>4. Held("bflush", loc[p]) = {}
  BY <1>3 DEF Local, Shape, NoCall, Held, HasBp
<1>5. Sound(c, p, {}) /\ c \in Caches(Buf) /\ FreeOK(c)
  BY <1>3, <1>4 DEF Sound
<1>6. CASE Delayed(c) = {}
  BY <1>1, <1>2, <1>5, <1>6, Returns
<1>7. CASE Delayed(c) # {}
  <2>1. /\ Bwrite(p, Notavail(SetF(c, b, {"ASYNC"}, {}), b), b, "bflush", loc[p])
        /\ b = Order(c)[Min(Delayed(c))]
    BY <1>2, <1>7
  <2> HIDE DEF b
  <2>2. b \in Buf /\ "BUSY" \notin c.flags[b] /\ "DELWRI" \in c.flags[b]
    BY <1>5, <1>7, <2>1, DelayedIsFree
  <2>3. QED BY <1>1, <1>5, <2>1, <2>2, FlushWrites
<1>8. QED BY <1>6, <1>7

\* binvalfree() invalidates free buffers up to the first delayed write.
LEMMA BinvalfreeKeeps ==
  ASSUME IInv, NEW p \in Procs, Binvalfree(p)
  PROVE  IInv'
<1> DEFINE b == Order(c)[Min(Delayed(c))]
           seen == IF Delayed(c) = {} THEN DOMAIN Order(c)
                   ELSE 1 .. Min(Delayed(c)) - 1
           gone == {x \in Buf : c.b_blkno[x] # None /\ \E i \in seen : Order(c)[i] = x}
           B == [x \in Buf |-> IF x \in gone THEN None ELSE c.b_blkno[x]]
           F == [x \in Buf |-> IF x \in gone THEN c.flags[x] \cup {"INVAL"} ELSE c.flags[x]]
           d == [c EXCEPT !.b_blkno = B, !.flags = F]
<1>1. pc[p] = "binvalfree" /\ c.slp[p] = None
  BY DEF Binvalfree, At
<1>2. IF Delayed(c) = {} THEN Return(p, d)
      ELSE Bwrite(p, Notavail(SetF(d, b, {"ASYNC"}, {}), b), b, "binvalfree", loc[p])
  BY DEF Binvalfree
<1> HIDE DEF gone, seen
<1>3. Sound(c, p, Held("binvalfree", loc[p])) /\ Local(c, "binvalfree", loc[p])
  BY <1>1, Mine
<1>4. Held("binvalfree", loc[p]) = {}
  BY <1>3 DEF Local, Shape, NoCall, Held, HasBp
<1>5. Sound(c, p, {}) /\ c \in Caches(Buf) /\ FreeOK(c)
  BY <1>3, <1>4 DEF Sound
<1>6. B \in [Buf -> Nat \cup {None}] /\ F \in [Buf -> SUBSET Flag]
  <2>1. c.b_blkno \in [Buf -> Nat \cup {None}] /\ c.flags \in [Buf -> SUBSET Flag]
    BY <1>5, Fields
  <2>2. "INVAL" \in Flag
    BY DEF Flag
  <2>3. QED BY <2>1, <2>2
<1>7. \A x \in Buf : /\ c.flags[x] \subseteq F[x]
                     /\ \A f \in F[x] : f \in c.flags[x] \/ f = "INVAL"
  OBVIOUS
<1> HIDE DEF B, F
<1>8. /\ d \in Caches(Buf) /\ d.flags = F /\ d.load = c.load /\ d.wanted = c.wanted
      /\ d.io = c.io /\ d.relvp = c.relvp /\ d.slp = c.slp /\ d.free = c.free
      /\ d.b_bufsize = c.b_bufsize
  BY <1>5, <1>6 DEF Caches
<1> HIDE DEF d
<1>9. \A x \in Buf :
        /\ "BUSY" \in d.flags[x] <=> "BUSY" \in c.flags[x]
        /\ "WANTED" \in c.flags[x] => "WANTED" \in d.flags[x]
        /\ "ASYNC" \in d.flags[x] <=> "ASYNC" \in c.flags[x]
        /\ "DONE" \in d.flags[x] <=> "DONE" \in c.flags[x]
        /\ "DELWRI" \in c.flags[x] => "DELWRI" \in d.flags[x]
  BY <1>7, <1>8
<1>10. Sound(d, p, {})
  BY <1>5, <1>8, <1>9, SoundAlike
<1>11. CASE Delayed(c) = {}
  BY <1>1, <1>2, <1>8, <1>10, <1>11, Returns
<1>12. CASE Delayed(c) # {}
  <2>1. /\ Bwrite(p, Notavail(SetF(d, b, {"ASYNC"}, {}), b), b, "binvalfree", loc[p])
        /\ b = Order(c)[Min(Delayed(c))]
    BY <1>2, <1>12
  <2> HIDE DEF b
  <2>2. b \in Buf /\ "BUSY" \notin c.flags[b] /\ "DELWRI" \in c.flags[b]
    BY <1>5, <1>12, <2>1, DelayedIsFree
  <2>3. "BUSY" \notin d.flags[b] /\ "DELWRI" \in d.flags[b] /\ d.slp[p] = None
    BY <1>1, <1>8, <1>9, <2>2
  <2>4. QED BY <1>1, <1>10, <2>1, <2>2, <2>3, FlushWrites
<1>13. QED BY <1>11, <1>12

-----------------------------------------------------------------------------
(***************************************************************************)
(* The device.                                                             *)
(***************************************************************************)

\* f is the cache when the transfer of b is over and biodone() is not yet called.
Ended(b, f) ==
  /\ f \in Caches(Buf) /\ f.load = c.load /\ f.wanted = c.wanted /\ f.relvp = c.relvp
  /\ f.slp = c.slp /\ f.free = c.free /\ f.b_bufsize = c.b_bufsize
  /\ f.io = c.io \ {b} /\ \A x \in Buf \ {b} : f.flags[x] = c.flags[x]
  /\ c.flags[b] \subseteq f.flags[b] /\ ("ASYNC" \in f.flags[b] => "ASYNC" \in c.flags[b])

\* An asynchronous transfer leaves the buffer in biodone()'s hand.
LEMMA AsyncEnds ==
  ASSUME IInv, NEW b \in c.io, "ASYNC" \in c.flags[b], NEW f, Ended(b, f)
  PROVE  Sound(f, None, {b}) /\ b \notin f.io
<1>1. Sound(c, None, {}) /\ c \in Caches(Buf) /\ DOMAIN c.flags = Buf /\ None \notin Procs
  BY DeviceBegin, Names, Fields DEF IInv
<1>2. c.io \subseteq Buf /\ c.relvp \subseteq Buf
  BY <1>1, Fields
<1>3. /\ b \in Buf /\ "BUSY" \in c.flags[b] /\ b \notin c.relvp
      /\ \A x \in Buf : "BUSY" \in f.flags[x] <=> "BUSY" \in c.flags[x]
  BY <1>1, <1>2 DEF Sound, Flow, Ended
<1>4. FreeOK(f)
  BY <1>1, <1>3, FreeAlike DEF Sound, Ended
<1>5. Flow(f, {b}) /\ Owners(f, None, {b})
  BY <1>1, <1>2, <1>3 DEF Sound, Flow, Owners, Ended
<1>6. ASSUME NEW q \in Procs \ {None} PROVE Other(f, {b}, q)
  <2>1. Other(c, {}, q)
    BY <1>1 DEF Sound, Others
  <2>2. b \notin Held(pc[q], loc[q]) /\ Held(pc[q], loc[q]) \subseteq Buf
    BY <2>1 DEF Other, Local, Owned
  <2>3. \A x \in Held(pc[q], loc[q]) : Kept(c, f, x)
    BY <2>2 DEF Kept, Moving, Ended
  <2>4. Local(f, pc[q], loc[q])
    BY <2>1, <2>3, LocalKept DEF Other
  <2>5. SleepOK(f, f.slp[q], pc[q], loc[q])
    <3> DEFINE s == c.slp[q]
    <3>1. SleepOK(c, s, pc[q], loc[q]) /\ FREELIST \notin Buf /\ f.slp[q] = s
      BY <1>1, <2>1 DEF Other, Sound, Ended
    <3> HIDE DEF s
    <3>2. s \in c.io /\ s \in Held(pc[q], loc[q]) => s \in f.io
      BY <2>2 DEF Ended
    <3>3. s \in Buf /\ {"BUSY", "WANTED"} \subseteq c.flags[s] =>
            {"BUSY", "WANTED"} \subseteq f.flags[s]
      BY DEF Ended
    <3>4. Oldest(c) = None => Oldest(f) = None
      BY DEF Ended, Oldest
    <3>5. SleepOK(f, s, pc[q], loc[q])
      BY <1>1, <3>1, <3>2, <3>3, <3>4, SleepKept DEF Ended
    <3>6. QED BY <3>1, <3>5
  <2>6. QED BY <2>1, <2>2, <2>4, <2>5 DEF Other
<1>7. QED BY <1>1, <1>4, <1>5, <1>6 DEF Sound, Others, Ended

\* A synchronous one leaves it to its owner, who is woken.
LEMMA SyncEnds ==
  ASSUME IInv, NEW b \in c.io, "ASYNC" \notin c.flags[b], NEW e \in Caches(Buf),
         e.load = c.load, e.wanted = c.wanted, e.relvp = c.relvp, e.free = c.free,
         e.b_bufsize = c.b_bufsize, e.io = c.io \ {b},
         \A x \in Buf \ {b} : e.flags[x] = c.flags[x],
         "BUSY" \in e.flags[b], "DONE" \in e.flags[b], "ASYNC" \notin e.flags[b],
         \A q \in Procs : e.slp[q] = IF c.slp[q] = b THEN None ELSE c.slp[q]
  PROVE  Sound(e, None, {})
<1>1. Sound(c, None, {}) /\ c \in Caches(Buf) /\ DOMAIN c.flags = Buf /\ None \notin Procs
  BY DeviceBegin, Names, Fields DEF IInv
<1>2. c.io \subseteq Buf /\ c.relvp \subseteq Buf
  BY <1>1, Fields
<1>3. /\ b \in Buf /\ "BUSY" \in c.flags[b] /\ b \notin c.relvp
      /\ \A x \in Buf : "BUSY" \in e.flags[x] <=> "BUSY" \in c.flags[x]
  BY <1>1, <1>2 DEF Sound, Flow
<1>4. FreeOK(e)
  BY <1>1, <1>3, FreeAlike DEF Sound
<1>5. Flow(e, {}) /\ Owners(e, None, {})
  BY <1>1, <1>2, <1>3 DEF Sound, Flow, Owners
<1>6. ASSUME NEW q \in Procs \ {None} PROVE Other(e, {}, q)
  <2>1. Other(c, {}, q)
    BY <1>1 DEF Sound, Others
  <2>2. Held(pc[q], loc[q]) \subseteq Buf
    BY <2>1 DEF Other
  <2>3. \A x \in Held(pc[q], loc[q]) : Kept(c, e, x)
    BY <1>3, <2>2 DEF Kept, Moving
  <2>4. Local(e, pc[q], loc[q])
    BY <2>1, <2>3, LocalKept DEF Other
  <2>5. SleepOK(e, e.slp[q], pc[q], loc[q])
    <3>1. CASE c.slp[q] = b
      BY <3>1, AwakeOK
    <3>2. CASE c.slp[q] # b
      <4> DEFINE s == c.slp[q]
      <4>1. SleepOK(c, s, pc[q], loc[q]) /\ FREELIST \notin Buf /\ e.slp[q] = s /\ s # b
        BY <1>1, <2>1, <3>2 DEF Other, Sound
      <4> HIDE DEF s
      <4>2. s \in c.io => s \in e.io
        BY <4>1
      <4>3. s \in Buf => e.flags[s] = c.flags[s]
        BY <4>1
      <4>4. Oldest(c) = None => Oldest(e) = None
        BY DEF Oldest
      <4>5. SleepOK(e, s, pc[q], loc[q])
        BY <1>1, <4>1, <4>2, <4>3, <4>4, SleepKept
      <4>6. QED BY <4>1, <4>5
    <3>3. QED BY <3>1, <3>2
  <2>6. QED BY <2>1, <2>4, <2>5 DEF Other
<1>7. QED BY <1>1, <1>4, <1>5, <1>6 DEF Sound, Others

\* biodone() after a transfer.
LEMMA BiodoneCacheIs ==
  ASSUME IInv, NEW b \in c.io, NEW f, Ended(b, f), NEW e, e = BiodoneCache(f, b)
  PROVE  Sound(e, None, {})
<1>1. c \in Caches(Buf) /\ f \in Caches(Buf) /\ b \in Buf /\ "BUSY" \in c.flags[b]
  BY DeviceBegin, Fields DEF IInv, Ended, Sound, Flow
<1>2. "ASYNC" \in f.flags[b] <=> "ASYNC" \in c.flags[b]
  BY DEF Ended
<1>3. {"DONE"} \in SUBSET Flag
  BY DEF Flag
<1>4. CASE "ASYNC" \in f.flags[b]
  <2> DEFINE g == SetF(f, b, {"DONE"}, {})
             G == {b}
  <2>1. Sound(f, None, G) /\ b \notin f.io /\ b \in G
    BY <1>2, <1>4, AsyncEnds
  <2>2. e = Brelse(g, b) /\ g = SetF(f, b, {"DONE"}, {}) /\ G \ {b} = {}
    BY <1>4 DEF BiodoneCache
  <2>3. "BUSY" \notin {} /\ "WANTED" \notin {}
    OBVIOUS
  <2> HIDE DEF g, G
  <2>4. Sound(g, None, G) /\ Flagged(f, b, (f.flags[b] \cup {"DONE"}) \ {}, g)
    BY <1>3, <2>1, <2>2, <2>3, Flagging
  <2>5. b \notin g.io
    BY <2>1, <2>4 DEF Flagged, Alike
  <2>6. None \in Procs \cup {None}
    OBVIOUS
  <2>7. Sound(e, None, G \ {b})
    BY <2>1, <2>2, <2>4, <2>5, <2>6, Giving
  <2>8. QED BY <2>2, <2>7
<1>5. CASE "ASYNC" \notin f.flags[b]
  <2> DEFINE g == SetF(f, b, {"DONE"}, {"WANTED"})
  <2>1. e = Wakeup(g, b)
    BY <1>5 DEF BiodoneCache
  <2>2. /\ g \in Caches(Buf) /\ Alike(f, g)
        /\ g.flags = [f.flags EXCEPT ![b] = (@ \cup {"DONE"}) \ {"WANTED"}]
    BY <1>1, <1>3, SetFIs
  <2> HIDE DEF g
  <2>3. /\ e \in Caches(Buf) /\ e.flags = g.flags /\ e.free = g.free /\ e.load = g.load
        /\ e.relvp = g.relvp /\ e.io = g.io /\ e.b_bufsize = g.b_bufsize
        /\ e.wanted = g.wanted
        /\ \A p \in Procs : e.slp[p] = IF g.slp[p] = b THEN None ELSE g.slp[p]
    BY <2>1, <2>2, WakeupIs
  <2>4. f.flags \in [Buf -> SUBSET Flag]
    BY <1>1, Fields
  <2>5. /\ \A x \in Buf \ {b} : e.flags[x] = c.flags[x]
        /\ "BUSY" \in e.flags[b] /\ "DONE" \in e.flags[b] /\ "ASYNC" \notin e.flags[b]
    BY <1>1, <1>5, <2>2, <2>3, <2>4 DEF Ended
  <2>6. /\ e.load = c.load /\ e.wanted = c.wanted /\ e.relvp = c.relvp
        /\ e.free = c.free /\ e.b_bufsize = c.b_bufsize /\ e.io = c.io \ {b}
        /\ \A q \in Procs : e.slp[q] = IF c.slp[q] = b THEN None ELSE c.slp[q]
    BY <2>2, <2>3 DEF Alike, Ended
  <2>7. QED BY <1>2, <1>5, <2>3, <2>5, <2>6, SyncEnds
<1>6. QED BY <1>4, <1>5

\* A transfer ends.
LEMMA BiodoneKeeps ==
  ASSUME IInv, NEW b \in Buf, Biodone(b)
  PROVE  IInv'
<1> DEFINE t == Transferred(c, b)
           f == [t EXCEPT !.io = @ \ {b}]
           e == BiodoneCache(f, b)
<1>1. b \in c.io /\ c' = e /\ UNCHANGED <<pc, loc, cur>>
  BY DEF Biodone
<1>2. c \in Caches(Buf) /\ c.fresh \in [Buf -> SUBSET Int] /\ c.disk \in SUBSET Int
      /\ c.io \in SUBSET Buf
  BY Fields DEF IInv
<1>3. t \in Caches(Buf) /\ Still(c, t) /\ t.b_bufsize = c.b_bufsize
  <2> DEFINE fs == Covers(c, b)
             F == (c.fresh[b] \ fs) \cup (fs \cap c.disk)
             D == (c.disk \ fs) \cup (fs \cap c.fresh[b])
  <2>1. t = IF "READ" \in c.flags[b] THEN [c EXCEPT !.fresh[b] = F] ELSE [c EXCEPT !.disk = D]
    BY DEF Transferred
  <2>2. F \in SUBSET Int /\ D \in SUBSET Int
    <3>1. c.fresh[b] \in SUBSET Int
      BY <1>2
    <3>2. QED BY <1>2, <3>1
  <2> HIDE DEF F, D, t
  <2>3. [c EXCEPT !.fresh[b] = F] \in Caches(Buf) /\ Still(c, [c EXCEPT !.fresh[b] = F])
        /\ [c EXCEPT !.fresh[b] = F].b_bufsize = c.b_bufsize
    BY <1>2, <2>2 DEF Caches, Still
  <2>4. [c EXCEPT !.disk = D] \in Caches(Buf) /\ Still(c, [c EXCEPT !.disk = D])
        /\ [c EXCEPT !.disk = D].b_bufsize = c.b_bufsize
    BY <1>2, <2>2 DEF Caches, Still
  <2>5. QED BY <2>1, <2>3, <2>4
<1> HIDE DEF t
<1>4. Ended(b, f)
  <2> DEFINE I == t.io \ {b}
  <2>1. I \in SUBSET Buf /\ I = c.io \ {b} /\ f = [t EXCEPT !.io = I]
    BY <1>2, <1>3 DEF Still
  <2> HIDE DEF I
  <2>2. /\ f \in Caches(Buf) /\ f.io = I /\ f.load = t.load /\ f.wanted = t.wanted
        /\ f.relvp = t.relvp /\ f.slp = t.slp /\ f.free = t.free
        /\ f.b_bufsize = t.b_bufsize /\ f.flags = t.flags
    BY <1>3, <2>1 DEF Caches
  <2>3. QED BY <1>3, <2>1, <2>2 DEF Ended, Still
<1> HIDE DEF f
<1>5. Sound(e, None, {})
  BY <1>1, <1>4, BiodoneCacheIs
<1>6. QED BY <1>1, <1>5, DeviceEnd

\* e is d with brelse() of b asleep in brelvp().
Asleep(d, b, e) ==
  /\ e.io = d.io /\ e.load = d.load /\ e.wanted = d.wanted
  /\ e.relvp = d.relvp \cup {b} /\ e.slp = d.slp /\ e.free = d.free
  /\ e.b_bufsize = d.b_bufsize /\ e.flags = d.flags

\* The rest of the cache is as it was.
LEMMA AsleepIs ==
  ASSUME NEW d \in Caches(Buf), NEW b \in Buf, NEW e, e = [d EXCEPT !.relvp = @ \cup {b}]
  PROVE  e \in Caches(Buf) /\ Asleep(d, b, e)
<1> DEFINE R == d.relvp \cup {b}
<1>1. R \in SUBSET Buf /\ e = [d EXCEPT !.relvp = R]
  BY Fields
<1> HIDE DEF R
<1>2. /\ e \in Caches(Buf) /\ e.io = d.io /\ e.load = d.load /\ e.wanted = d.wanted
      /\ e.relvp = R /\ e.slp = d.slp /\ e.free = d.free
      /\ e.b_bufsize = d.b_bufsize /\ e.flags = d.flags
  BY <1>1 DEF Caches
<1>3. QED BY <1>2 DEF R, Asleep

\* brelse() of a failed buffer goes to sleep in brelvp().
LEMMA GoesAsleep ==
  ASSUME NEW b, NEW d, Sound(d, None, {b}), b \notin d.io, "ASYNC" \in d.flags[b],
         Loads[d.load].lastref, NEW e \in Caches(Buf), Asleep(d, b, e)
  PROVE  Sound(e, None, {})
<1>1. d \in Caches(Buf) /\ b \in Buf /\ "BUSY" \in d.flags[b] /\ FREELIST \notin Buf
  BY DEF Sound, Flow
<1>2. /\ e \in Caches(Buf) /\ e.io = d.io /\ e.load = d.load /\ e.wanted = d.wanted
      /\ e.relvp = d.relvp \cup {b} /\ e.slp = d.slp /\ e.free = d.free
      /\ e.b_bufsize = d.b_bufsize /\ e.flags = d.flags
  BY DEF Asleep
<1>3. FreeOK(e)
  <2>1. FreeOK(d)
    BY DEF Sound
  <2>2. QED BY <1>1, <1>2, <2>1, FreeAlike
<1>4. Flow(e, {}) /\ Owners(e, None, {})
  BY <1>1, <1>2 DEF Sound, Flow, Owners
<1>5. ASSUME NEW q \in Procs \ {None} PROVE Other(e, {}, q)
  <2>1. Other(d, {b}, q) /\ b \notin Held(pc[q], loc[q])
    BY DEF Sound, Others, Other
  <2>2. \A x \in Held(pc[q], loc[q]) : Kept(d, e, x)
    BY <1>2, <2>1 DEF Kept, Moving
  <2>3. Local(e, pc[q], loc[q])
    BY <2>1, <2>2, LocalKept DEF Other
  <2>4. SleepOK(e, e.slp[q], pc[q], loc[q])
    <3> DEFINE s == d.slp[q]
    <3>1. SleepOK(d, s, pc[q], loc[q]) /\ e.slp[q] = s
      BY <1>2, <2>1 DEF Other
    <3> HIDE DEF s
    <3>2. SleepOK(e, s, pc[q], loc[q])
      BY <1>1, <1>2, <3>1, SleepKept
    <3>3. QED BY <3>1, <3>2
  <2>5. QED BY <2>1, <2>3, <2>4 DEF Other
<1>6. QED BY <1>2, <1>3, <1>4, <1>5 DEF Sound, Others

\* A transfer fails; the release of an asynchronous one may sleep in brelvp().
LEMMA BiodoneErrorKeeps ==
  ASSUME IInv, NEW b \in Buf, BiodoneError(b)
  PROVE  IInv'
<1> DEFINE t == [c EXCEPT !.io = @ \ {b}]
           f == SetF(t, b, {"ERROR"}, {})
           g == SetF(f, b, {"DONE"}, {})
           w == BrelseWake(g, b)
           e == [w EXCEPT !.relvp = @ \cup {b}]
<1>1. /\ b \in c.io /\ UNCHANGED <<pc, loc, cur>>
      /\ IF LastRef /\ "ASYNC" \in c.flags[b] THEN c' = e ELSE c' = BiodoneCache(f, b)
  BY DEF BiodoneError
<1>2. c \in Caches(Buf) /\ c.io \in SUBSET Buf
  BY Fields DEF IInv
<1>3. /\ t \in Caches(Buf) /\ t.io = c.io \ {b} /\ t.load = c.load /\ t.wanted = c.wanted
      /\ t.relvp = c.relvp /\ t.slp = c.slp /\ t.free = c.free
      /\ t.b_bufsize = c.b_bufsize /\ t.flags = c.flags
  <2> DEFINE I == c.io \ {b}
  <2>1. I \in SUBSET Buf /\ t = [c EXCEPT !.io = I]
    BY <1>2
  <2> HIDE DEF I, t
  <2>2. /\ t \in Caches(Buf) /\ t.io = I /\ t.load = c.load /\ t.wanted = c.wanted
        /\ t.relvp = c.relvp /\ t.slp = c.slp /\ t.free = c.free
        /\ t.b_bufsize = c.b_bufsize /\ t.flags = c.flags
    BY <1>2, <2>1 DEF Caches
  <2>3. QED BY <2>2 DEF I
<1> HIDE DEF t
<1>4. /\ f \in Caches(Buf) /\ Alike(t, f)
      /\ f.flags = [t.flags EXCEPT ![b] = (@ \cup {"ERROR"}) \ {}]
  <2>1. {"ERROR"} \in SUBSET Flag
    BY DEF Flag
  <2>2. QED BY <1>3, <2>1, SetFIs
<1> HIDE DEF f
<1>5. Ended(b, f)
  <2>1. c.flags \in [Buf -> SUBSET Flag]
    BY <1>2, Fields
  <2>2. QED BY <1>3, <1>4, <2>1 DEF Ended, Alike
<1>6. CASE LastRef /\ "ASYNC" \in c.flags[b]
  <2> DEFINE G == {b}
  <2>1. Sound(f, None, G) /\ b \notin f.io /\ b \in G /\ c' = e
    BY <1>1, <1>5, <1>6, AsyncEnds
  <2>2. /\ g = SetF(f, b, {"DONE"}, {}) /\ {"DONE"} \in SUBSET Flag
        /\ "BUSY" \notin {} /\ "WANTED" \notin {}
    BY DEF Flag
  <2> HIDE DEF g, G
  <2>3. Sound(g, None, G) /\ Flagged(f, b, (f.flags[b] \cup {"DONE"}) \ {}, g)
    BY <2>1, <2>2, Flagging
  <2>4. b \notin g.io /\ "ASYNC" \in g.flags[b]
    BY <1>5, <1>6, <2>1, <2>3 DEF Flagged, Alike, Ended
  <2>5. w = BrelseWake(g, b) /\ e = [w EXCEPT !.relvp = @ \cup {b}]
    OBVIOUS
  <2> HIDE DEF w, e
  <2>6. Sound(w, None, G)
    BY <2>3, <2>4, <2>5, SoundWake
  <2>7. Woken(g, b, w)
    BY <2>3, <2>5, BrelseWakeIs DEF Sound
  <2>8. b \notin w.io /\ "ASYNC" \in w.flags[b]
    BY <2>4, <2>7 DEF Woken
  <2>9. Loads[w.load].lastref
    BY <1>6, <2>6 DEF LastRef, Sound
  <2>10. Sound(w, None, {b})
    BY <2>6 DEF G
  <2>11. Sound(e, None, {})
    <3>1. w \in Caches(Buf)
      BY <2>6 DEF Sound
    <3>2. e \in Caches(Buf) /\ Asleep(w, b, e)
      BY <2>5, <3>1, AsleepIs
    <3>3. QED BY <2>8, <2>9, <2>10, <3>2, GoesAsleep
  <2>12. QED BY <1>1, <2>1, <2>11, DeviceEnd
<1>7. CASE ~(LastRef /\ "ASYNC" \in c.flags[b])
  <2>1. c' = BiodoneCache(f, b)
    BY <1>1, <1>7
  <2>2. Sound(BiodoneCache(f, b), None, {})
    BY <1>1, <1>5, BiodoneCacheIs
  <2>3. QED BY <1>1, <2>1, <2>2, DeviceEnd
<1>8. QED BY <1>6, <1>7

\* brelvp() returns and brelse() goes on.
LEMMA RelvpReturnsKeeps ==
  ASSUME IInv, NEW b \in Buf, RelvpReturns(b)
  PROVE  IInv'
<1> DEFINE t == [c EXCEPT !.relvp = @ \ {b}]
           d == Brelvp(t, b)
           e == BrelseFree(d, b)
           G == {b}
<1>1. b \in c.relvp /\ c' = e /\ UNCHANGED <<pc, loc, cur>>
  BY DEF RelvpReturns
<1>2. c \in Caches(Buf) /\ c.relvp \in SUBSET Buf /\ c.io \in SUBSET Buf
  BY Fields DEF IInv
<1>3. /\ t \in Caches(Buf) /\ t.io = c.io /\ t.load = c.load /\ t.wanted = c.wanted
      /\ t.relvp = c.relvp \ {b} /\ t.slp = c.slp /\ t.free = c.free
      /\ t.b_bufsize = c.b_bufsize /\ t.flags = c.flags
  <2> DEFINE R == c.relvp \ {b}
  <2>1. R \in SUBSET Buf /\ t = [c EXCEPT !.relvp = R]
    BY <1>2
  <2> HIDE DEF R, t
  <2>2. /\ t \in Caches(Buf) /\ t.io = c.io /\ t.load = c.load /\ t.wanted = c.wanted
        /\ t.relvp = R /\ t.slp = c.slp /\ t.free = c.free
        /\ t.b_bufsize = c.b_bufsize /\ t.flags = c.flags
    BY <1>2, <2>1 DEF Caches
  <2>3. QED BY <2>2 DEF R
<1> HIDE DEF t
<1>4. Sound(c, None, {}) /\ None \notin Procs /\ FREELIST \notin Buf
  BY DeviceBegin, Names
<1>5. /\ "BUSY" \in c.flags[b] /\ "ASYNC" \in c.flags[b] /\ b \notin c.io
      /\ Loads[c.load].lastref
  BY <1>1, <1>4 DEF Sound, Flow
<1>6. Sound(t, None, G)
  <2>1. FreeOK(t)
    BY <1>2, <1>3, <1>4, FreeAlike DEF Sound
  <2>2. Flow(t, G) /\ Owners(t, None, G)
    BY <1>2, <1>3, <1>4, <1>5 DEF Sound, Flow, Owners
  <2>3. ASSUME NEW q \in Procs \ {None} PROVE Other(t, G, q)
    <3>1. Other(c, {}, q)
      BY <1>4 DEF Sound, Others
    <3>2. b \notin Held(pc[q], loc[q])
      BY <1>5, <3>1 DEF Other, Local, Owned
    <3>3. \A x \in Held(pc[q], loc[q]) : Kept(c, t, x)
      BY <1>3 DEF Kept, Moving
    <3>4. Local(t, pc[q], loc[q])
      BY <3>1, <3>3, LocalKept DEF Other
    <3>5. SleepOK(t, t.slp[q], pc[q], loc[q])
      <4> DEFINE s == c.slp[q]
      <4>1. SleepOK(c, s, pc[q], loc[q]) /\ t.slp[q] = s
        BY <1>3, <3>1 DEF Other
      <4> HIDE DEF s
      <4>2. SleepOK(t, s, pc[q], loc[q])
        BY <1>2, <1>3, <1>4, <1>5, <4>1, SleepKept
      <4>3. QED BY <4>1, <4>2
    <3>6. QED BY <3>1, <3>2, <3>4, <3>5 DEF Other
  <2>4. QED BY <1>3, <1>4, <2>1, <2>2, <2>3 DEF Sound, Others
<1>7. d \in Caches(Buf) /\ Alike(t, d) /\ d.flags = t.flags /\ b \in G /\ G \ {b} = {}
  BY <1>3, BrelvpIs
<1> HIDE DEF d, G
<1>8. Sound(d, None, G)
  BY <1>6, <1>7, SoundAlike DEF Alike
<1>9. b \notin d.io /\ Quiet(d, None, b)
  BY <1>3, <1>5, <1>7 DEF Alike, Quiet
<1>10. Sound(e, None, {})
  <2>1. e = BrelseFree(d, b)
    OBVIOUS
  <2> HIDE DEF e
  <2>2. Sound(e, None, G \ {b})
    BY <1>7, <1>8, <1>9, <2>1, SoundPut
  <2>3. QED BY <1>7, <2>2
<1>11. QED BY <1>1, <1>10, DeviceEnd

-----------------------------------------------------------------------------
(***************************************************************************)
(* The theorems.                                                           *)
(***************************************************************************)

\* A sequence backwards.
LEMMA ReverseIs ==
  ASSUME NEW S, NEW s \in Seq(S), IsInjective(s)
  PROVE  Reverse(s) \in Seq(S) /\ IsInjective(Reverse(s)) /\ ToSet(Reverse(s)) = Range(s)
<1> DEFINE n == Len(s)
           t == Reverse(s)
<1>1. n \in Nat /\ DOMAIN s = 1 .. n /\ \A i \in 1 .. n : s[i] \in S
  OBVIOUS
<1>2. t = [i \in 1 .. n |-> s[(n - i) + 1]]
  BY DEF Reverse
<1> HIDE DEF n, t
<1>3. \A i \in 1 .. n : (n - i) + 1 \in 1 .. n
  BY <1>1
<1>4. t \in [1 .. n -> S] /\ DOMAIN t = 1 .. n
  BY <1>1, <1>2, <1>3
<1>5. t \in Seq(S)
  BY <1>1, <1>4
<1>6. IsInjective(t)
  <2>1. ASSUME NEW i \in 1 .. n, NEW j \in 1 .. n, t[i] = t[j] PROVE i = j
    <3>1. s[(n - i) + 1] = s[(n - j) + 1]
      BY <1>2, <2>1
    <3>2. (n - i) + 1 = (n - j) + 1
      BY <1>1, <1>3, <3>1 DEF IsInjective
    <3>3. QED BY <1>1, <3>2
  <2>2. QED BY <1>4, <2>1 DEF IsInjective
<1>7. ToSet(t) = Range(s)
  <2>1. ASSUME NEW i \in 1 .. n PROVE t[i] \in Range(s)
    BY <1>1, <1>2, <1>3 DEF Range
  <2>2. ASSUME NEW i \in 1 .. n PROVE \E j \in 1 .. n : t[j] = s[i]
    <3> DEFINE j == (n - i) + 1
    <3>1. j \in 1 .. n /\ (n - j) + 1 = i
      BY <1>1
    <3>2. QED BY <1>2, <3>1
  <2>3. QED BY <1>1, <1>4, <2>1, <2>2 DEF ToSet, Range
<1>8. QED BY <1>5, <1>6, <1>7 DEF t

\* binit() leaves every buffer free on the AGE list and nobody at work.
LEMMA InitOK ==
  ASSUME Init
  PROVE  IInv
<1>1. PICK i \in DOMAIN Loads : c = Binit(i)
  BY DEF Init
<1> DEFINE w == Loads[i]
           S == Range(w.bufs)
           a == Reverse(w.bufs)
<1>2. /\ w.bufs \in Seq(S) /\ IsInjective(w.bufs) /\ w.frags \in Nat
      /\ w.space \in [S -> 1 .. w.frags]
      /\ {None, FREELIST} \cap (S \cup Procs) = {} /\ None # FREELIST
  BY BufAssumption
<1>3. a \in Seq(S) /\ IsInjective(a) /\ ToSet(a) = S
  BY <1>2, ReverseIs
<1>4. /\ c.load = i /\ c.flags = [b \in S |-> {"INVAL"}] /\ c.b_blkno = [b \in S |-> None]
      /\ c.b_bcount = [b \in S |-> 0] /\ c.b_bufsize = w.space
      /\ c.fresh = [b \in S |-> {}] /\ c.wanted = FALSE /\ c.io = {} /\ c.relvp = {}
      /\ c.free = [l \in Lists |-> IF l = "AGE" THEN a ELSE <<>>]
      /\ c.disk = 0 .. w.frags - 1 /\ c.slp = [p \in Procs |-> None]
  BY <1>1 DEF Binit
<1>5. c = [load |-> i, flags |-> c.flags, b_blkno |-> c.b_blkno, b_bcount |-> c.b_bcount,
           b_bufsize |-> c.b_bufsize, fresh |-> c.fresh, free |-> c.free,
           wanted |-> c.wanted, io |-> c.io, relvp |-> c.relvp, disk |-> c.disk,
           slp |-> c.slp]
  BY <1>1 DEF Binit
<1> HIDE DEF w, S, a
<1>6. Buf = S /\ Range(Loads[c.load].bufs) = S
  BY <1>4 DEF Buf, S, w
<1>7. c \in Caches(S)
  <2>1. "INVAL" \in Flag
    BY DEF Flag
  <2>2. c.flags \in [S -> SUBSET Flag] /\ c.b_blkno \in [S -> Nat \cup {None}]
    BY <1>4, <2>1
  <2>3. /\ c.b_bcount \in [S -> Int] /\ c.b_bufsize \in [S -> Int]
        /\ c.fresh \in [S -> SUBSET Int] /\ c.disk \in SUBSET Int
    BY <1>2, <1>4
  <2>4. c.free \in [Lists -> Seq(S)]
    <3>1. <<>> \in Seq(S)
      OBVIOUS
    <3>2. QED BY <1>3, <1>4, <3>1
  <2>5. /\ c.slp \in [Procs -> S \cup {FREELIST, None}] /\ c.io \in SUBSET S
        /\ c.relvp \in SUBSET S /\ c.wanted \in BOOLEAN
    BY <1>4
  <2>6. QED BY <1>5, <2>2, <2>3, <2>4, <2>5 DEF Caches
<1>8. On(c, "AGE") = S /\ On(c, "LRU") = {} /\ On(c, "EMPTY") = {}
  <2>1. c.free["AGE"] = a /\ c.free["LRU"] = <<>> /\ c.free["EMPTY"] = <<>>
    BY <1>4 DEF Lists
  <2>2. ToSet(<<>>) = {}
    BY DEF ToSet
  <2>3. QED BY <1>3, <2>1, <2>2 DEF On
<1>9. FreeOK(c)
  <2>1. \A l \in Lists : IsInjective(c.free[l])
    <3>1. IsInjective(<<>>)
      BY DEF IsInjective
    <3>2. QED BY <1>3, <1>4, <3>1
  <2>2. \A b \in S : c.b_bufsize[b] # 0
    BY <1>2, <1>4
  <2>3. \A b \in DOMAIN c.flags : b \in S /\ "BUSY" \notin c.flags[b]
    BY <1>4
  <2>4. \A l \in Lists : l # "AGE" => On(c, l) = {}
    BY <1>8 DEF Lists
  <2>5. "AGE" \in Lists /\ "AGE" # "EMPTY"
    BY DEF Lists
  <2>6. QED BY <1>8, <2>1, <2>2, <2>3, <2>4, <2>5 DEF FreeOK
<1>10. Transfers(c) /\ NoneLost(c)
  BY <1>4 DEF Transfers, NoneLost
<1>11. \A p \in Procs : pc[p] = "idle" /\ loc[p] = NoLoc /\ c.slp[p] = None
  BY <1>4 DEF Init
<1>12. NoLoc \in Regs(Buf) /\ Held("idle", NoLoc) = {} /\ Local(c, "idle", NoLoc)
  BY NoLocOK
<1>13. \A p \in Procs : Local(c, pc[p], loc[p]) /\ SleepOK(c, c.slp[p], pc[p], loc[p])
  BY <1>11, <1>12, AwakeOK
<1>14. Apart
  BY <1>11, <1>12 DEF Apart
<1>15. pc \in [Procs -> Label] /\ loc \in [Procs -> Regs(Buf)] /\ cur \in Procs \cup {None}
  BY <1>12 DEF Init, Label
<1>16. QED BY <1>6, <1>7, <1>9, <1>10, <1>13, <1>14, <1>15 DEF IInv

\* Every operation of a process and of the device keeps the invariant.
LEMMA NextKeeps ==
  ASSUME IInv, [Next]_vars
  PROVE  IInv'
<1>1. ASSUME NEW p \in Procs, Step(p) PROVE IInv'
  BY <1>1, CallKeeps, GetblkBusyKeeps, GetblkHitKeeps, GetblkMissKeeps,
     GetnewbufSleepKeeps, GetnewbufWriteKeeps, GetnewbufKeeps, AllocbufTakeKeeps,
     BreallocKeeps, BreallocOverlapKeeps, BreallocAloneKeeps, AllocbufKeeps,
     GotReadKeeps, GotWriteKeeps, GotExtendedKeeps, GotFirstKeeps, ReadaheadKeeps,
     GotAheadKeeps, BiowaitKeeps, ReleaseKeeps, ExtendKeeps, BdwriteKeeps,
     BwriteCallKeeps, BawriteKeeps, BwriteAgeKeeps, BwriteWaitKeeps, BlkflushKeeps,
     BflushKeeps, BinvalfreeKeeps DEF Step
<1>2. ASSUME NEW b \in Buf, Biodone(b) \/ BiodoneError(b) \/ RelvpReturns(b) PROVE IInv'
  BY <1>2, BiodoneKeeps, BiodoneErrorKeeps, RelvpReturnsKeeps
<1>3. CASE UNCHANGED vars
  <2>1. c' = c /\ UNCHANGED <<pc, loc, cur>>
    BY <1>3 DEF vars
  <2>2. QED BY <2>1, DeviceBegin, DeviceEnd
<1>4. QED BY <1>1, <1>2, <1>3 DEF Next

\* Who has which buffer: a B_BUSY buffer is in an asynchronous transfer, in
\* a brelse() that sleeps, or in the hands of exactly one process, and no
\* process answers for a buffer that is free or that the device will release.
OneOwner ==
  \A b \in Buf :
    /\ "BUSY" \in c.flags[b] =>
         \/ "ASYNC" \in c.flags[b] /\ b \in c.io \cup c.relvp
         \/ \E p \in Procs : b \in Held(pc[p], loc[p])
    /\ \A p \in Procs : b \in Held(pc[p], loc[p]) =>
         /\ "BUSY" \in c.flags[b] /\ "ASYNC" \notin c.flags[b]
         /\ \A q \in Procs : b \in Held(pc[q], loc[q]) => q = p

\* The invariant holds from binit() on: getblk(), brelse(), bwrite() and
\* biodone() hand every buffer from one owner to the next, for any number
\* of buffers and processes, any calls and any transfer errors.
THEOREM BuffersHaveOneOwner == Spec => [](IInv /\ OneOwner)
<1>1. IInv => OneOwner
  BY DEF IInv, OneOwner, NoneLost, Apart, Local, Owned, Transfers, Buf
<1>2. Init => IInv
  BY InitOK
<1>3. IInv /\ [Next]_vars => IInv'
  BY NextKeeps
<1>4. QED BY <1>1, <1>2, <1>3, PTL DEF Spec

\* Two sequences without a common element.
LEMMA JoinIs ==
  ASSUME NEW S, NEW s \in Seq(S), NEW t \in Seq(S), IsInjective(s), IsInjective(t),
         ToSet(s) \cap ToSet(t) = {}
  PROVE  /\ s \o t \in Seq(S) /\ IsInjective(s \o t)
         /\ ToSet(s \o t) = ToSet(s) \cup ToSet(t)
<1> DEFINE u == s \o t
           m == Len(s)
           n == Len(t)
<1>1. /\ m \in Nat /\ n \in Nat /\ DOMAIN s = 1 .. m /\ DOMAIN t = 1 .. n
      /\ DOMAIN u = 1 .. m + n /\ u \in Seq(S)
      /\ \A i \in 1 .. m + n : u[i] = IF i <= m THEN s[i] ELSE t[i - m]
  BY ConcatIs
<1> HIDE DEF u, m, n
<1>2. ASSUME NEW i \in 1 .. m + n
      PROVE  /\ i <= m => i \in DOMAIN s /\ u[i] = s[i] /\ u[i] \in ToSet(s)
             /\ ~(i <= m) => i - m \in DOMAIN t /\ u[i] = t[i - m] /\ u[i] \in ToSet(t)
  <2>1. CASE i <= m
    BY <1>1, <2>1 DEF ToSet
  <2>2. CASE ~(i <= m)
    <3>1. i - m \in 1 .. n
      BY <1>1, <2>2
    <3>2. QED BY <1>1, <2>2, <3>1 DEF ToSet
  <2>3. QED BY <2>1, <2>2
<1>3. IsInjective(u)
  <2>1. ASSUME NEW i \in 1 .. m + n, NEW j \in 1 .. m + n, u[i] = u[j] PROVE i = j
    <3>1. CASE i <= m /\ j <= m
      BY <1>2, <2>1, <3>1 DEF IsInjective
    <3>2. CASE ~(i <= m) /\ ~(j <= m)
      <4>1. i - m = j - m
        BY <1>2, <2>1, <3>2 DEF IsInjective
      <4>2. QED BY <1>1, <4>1
    <3>3. CASE (i <= m) # (j <= m)
      BY <1>2, <2>1, <3>3
    <3>4. QED BY <3>1, <3>2, <3>3
  <2>2. QED BY <1>1, <2>1 DEF IsInjective
<1>4. ToSet(u) = ToSet(s) \cup ToSet(t)
  <2>1. ToSet(u) \subseteq ToSet(s) \cup ToSet(t)
    BY <1>1, <1>2 DEF ToSet
  <2>2. ASSUME NEW i \in DOMAIN s PROVE s[i] \in ToSet(u)
    <3>1. i \in 1 .. m + n /\ u[i] = s[i]
      BY <1>1
    <3>2. QED BY <1>1, <3>1 DEF ToSet
  <2>3. ASSUME NEW i \in DOMAIN t PROVE t[i] \in ToSet(u)
    <3>1. i + m \in 1 .. m + n /\ ~(i + m <= m) /\ (i + m) - m = i
      BY <1>1
    <3>2. u[i + m] = t[i]
      BY <1>1, <3>1
    <3>3. QED BY <1>1, <3>1, <3>2 DEF ToSet
  <2>4. QED BY <2>1, <2>2, <2>3 DEF ToSet
<1>5. QED BY <1>1, <1>3, <1>4 DEF u

\* The three free lists one after the other name each free buffer once.
LEMMA ListsExact ==
  ASSUME IInv
  PROVE  FreeListExact
<1> DEFINE s == c.free["LRU"]
           t == c.free["AGE"]
           v == c.free["EMPTY"]
           all == s \o t \o v
<1>1. /\ s \in Seq(Buf) /\ t \in Seq(Buf) /\ v \in Seq(Buf) /\ FreeOK(c)
      /\ DOMAIN c.flags = Buf
  BY Fields DEF IInv, Lists
<1>2. /\ ToSet(s) = On(c, "LRU") /\ ToSet(t) = On(c, "AGE") /\ ToSet(v) = On(c, "EMPTY")
      /\ IsInjective(s) /\ IsInjective(t) /\ IsInjective(v)
  BY <1>1 DEF On, FreeOK, Lists
<1>3. /\ ToSet(s) \cap ToSet(t) = {} /\ ToSet(s) \cap ToSet(v) = {}
      /\ ToSet(t) \cap ToSet(v) = {}
  BY <1>1, <1>2 DEF FreeOK, Lists
<1> HIDE DEF s, t, v
<1>4. s \o t \in Seq(Buf) /\ IsInjective(s \o t) /\ ToSet(s \o t) = ToSet(s) \cup ToSet(t)
  BY <1>1, <1>2, <1>3, JoinIs
<1>5. IsInjective(all) /\ ToSet(all) = ToSet(s) \cup ToSet(t) \cup ToSet(v)
  <2> DEFINE u == s \o t
  <2>1. u \in Seq(Buf) /\ IsInjective(u) /\ ToSet(u) = ToSet(s) \cup ToSet(t)
    BY <1>4
  <2> HIDE DEF u
  <2>2. ToSet(u) \cap ToSet(v) = {}
    BY <1>3, <2>1
  <2>3. IsInjective(u \o v) /\ ToSet(u \o v) = ToSet(u) \cup ToSet(v)
    BY <1>1, <1>2, <2>1, <2>2, JoinIs
  <2>4. QED BY <2>1, <2>3 DEF u
<1> HIDE DEF all
<1>6. ToSet(s) \cup ToSet(t) \cup ToSet(v) \subseteq Buf
  BY <1>1 DEF ToSet
<1>7. ToSet(all) = {b \in Buf : "BUSY" \notin c.flags[b]}
  BY <1>1, <1>2, <1>5, <1>6 DEF FreeOK, Lists
<1>8. \A b \in ToSet(all) : b \in ToSet(v) <=> c.b_bufsize[b] = 0
  <2>1. "LRU" # "EMPTY" /\ "AGE" # "EMPTY" /\ {"LRU", "AGE", "EMPTY"} \subseteq Lists
    BY DEF Lists
  <2>2. /\ \A b \in ToSet(v) : c.b_bufsize[b] = 0
        /\ \A b \in ToSet(s) \cup ToSet(t) : c.b_bufsize[b] # 0
    BY <1>1, <1>2, <2>1 DEF FreeOK
  <2>3. QED BY <1>3, <1>5, <2>2
<1>9. QED BY <1>5, <1>7, <1>8 DEF FreeListExact, all, s, t, v

\* A buffer is on one free list, and once, exactly while it is not B_BUSY,
\* and on BQ_EMPTY exactly when it has no memory: notavail() and brelse()
\* alternate on every path, errors and interrupts included.
THEOREM FreeListsExact == Spec => []FreeListExact
<1>1. IInv => FreeListExact
  BY ListsExact
<1>2. QED BY <1>1, BuffersHaveOneOwner, PTL

\* Who sleeps for a transfer owns the buffer, so the transfer is synchronous.
LEMMA SleepersOK ==
  ASSUME IInv
  PROVE  SleepersWillWake
<1> SUFFICES ASSUME ~LastRef, NEW p \in Procs
             PROVE  LET b == c.slp[p] IN
                    \/ b = None
                    \/ b = FREELIST /\ c.wanted /\ Oldest(c) = None
                    \/ b \in Buf /\ pc[p] \in {"biowait", "written"}
                       /\ b \in c.io /\ "ASYNC" \notin c.flags[b]
                    \/ b \in Buf /\ pc[p] \notin {"biowait", "written"}
                       /\ {"BUSY", "WANTED"} \subseteq c.flags[b]
  BY DEF SleepersWillWake
<1> DEFINE s == c.slp[p]
<1>1. SleepOK(c, s, pc[p], loc[p]) /\ Local(c, pc[p], loc[p]) /\ DOMAIN c.flags = Buf
  BY Fields DEF IInv
<1>2. ~Loads[c.load].lastref
  BY DEF LastRef
<1> HIDE DEF s
<1>3. pc[p] \in {"biowait", "written"} => s = None \/ (s \in Held(pc[p], loc[p]) /\ s \in c.io)
  BY <1>1, SleeperHolds
<1>4. s \in Held(pc[p], loc[p]) => "ASYNC" \notin c.flags[s]
  BY <1>1 DEF Local, Owned
<1>5. \/ s = None
      \/ s = FREELIST /\ c.wanted /\ Oldest(c) = None
      \/ s \in Buf /\ pc[p] \in {"biowait", "written"} /\ s \in c.io /\ "ASYNC" \notin c.flags[s]
      \/ s \in Buf /\ pc[p] \notin {"biowait", "written"} /\ {"BUSY", "WANTED"} \subseteq c.flags[s]
  BY <1>1, <1>2, <1>3, <1>4 DEF SleepOK
<1>6. QED BY <1>5 DEF s

\* No wakeup is lost: whoever sleeps in getblk(), getnewbuf(), brealloc(),
\* blkflush() or biowait() sleeps while what it waits for has still to
\* happen and is marked so that it will be woken (unless brelvp() may sleep
\* inside brelse(), which is between the wakeup and the release).
THEOREM NoLostWakeup == Spec => []SleepersWillWake
<1>1. IInv => SleepersWillWake
  BY SleepersOK
<1>2. QED BY <1>1, BuffersHaveOneOwner, PTL

-----------------------------------------------------------------------------
(***************************************************************************)
(* The memory of the buffers, added up.                                    *)
(***************************************************************************)

\* g is the sum of f over any subset of S, one element after the other.
Adds(g, f, S) ==
  g = [s \in SUBSET S |-> IF s = {} THEN 0
                          ELSE LET x == CHOOSE x \in s : TRUE IN f[x] + g[s \ {x}]]

\* What an element chosen from a finite set is, and what is left.
LEMMA OneLess ==
  ASSUME NEW S, IsFiniteSet(S), NEW s \in SUBSET S, NEW x \in s
  PROVE  /\ IsFiniteSet(s) /\ Cardinality(s) \in Nat /\ Cardinality(s) <= Cardinality(S)
         /\ s \ {x} \in SUBSET S
         /\ Cardinality(s \ {x}) = Cardinality(s) - 1 /\ Cardinality(s \ {x}) \in Nat
<1>1. IsFiniteSet(s) /\ Cardinality(s) <= Cardinality(S)
  BY FS_Subset
<1>2. IsFiniteSet(s \ {x}) /\ Cardinality(s \ {x}) = Cardinality(s) - 1
  BY <1>1, FS_RemoveElement
<1>3. QED BY <1>1, <1>2, FS_CardinalityType

\* Such a sum exists.
LEMMA AddsExists ==
  ASSUME NEW S, IsFiniteSet(S), NEW f \in [S -> Int]
  PROVE  \E g \in [SUBSET S -> Int] : Adds(g, f, S)
<1> DEFINE ch(s) == CHOOSE x \in s : TRUE
           Good(g, n) == \A s \in SUBSET S : Cardinality(s) <= n =>
                           g[s] = IF s = {} THEN 0 ELSE f[ch(s)] + g[s \ {ch(s)}]
           P == {n \in Nat : \E g \in [SUBSET S -> Int] : Good(g, n)}
           T == {n \in Nat : n \notin P}
<1>1. \A s \in SUBSET S : s # {} => ch(s) \in s /\ f[ch(s)] \in Int
  OBVIOUS
<1> HIDE DEF ch
<1>2. 0 \in P
  <2> DEFINE g == [s \in SUBSET S |-> 0]
  <2>1. g \in [SUBSET S -> Int]
    OBVIOUS
  <2>2. ASSUME NEW s \in SUBSET S, Cardinality(s) <= 0 PROVE s = {}
    <3>1. IsFiniteSet(s) /\ Cardinality(s) \in Nat
      BY FS_Subset, FS_CardinalityType
    <3>2. Cardinality(s) = 0
      BY <2>2, <3>1
    <3>3. QED BY <3>1, <3>2, FS_EmptySet
  <2>3. Good(g, 0)
    BY <2>2
  <2>4. QED BY <2>1, <2>3
<1>3. ASSUME NEW n \in Nat, n \in P PROVE n + 1 \in P
  <2>1. PICK g \in [SUBSET S -> Int] : Good(g, n)
    BY <1>3
  <2> DEFINE h == [s \in SUBSET S |-> IF s = {} THEN 0 ELSE f[ch(s)] + g[s \ {ch(s)}]]
  <2>2. h \in [SUBSET S -> Int]
    <3>1. ASSUME NEW s \in SUBSET S, s # {} PROVE f[ch(s)] + g[s \ {ch(s)}] \in Int
      <4>1. s \ {ch(s)} \in SUBSET S
        OBVIOUS
      <4>2. g[s \ {ch(s)}] \in Int
        BY <4>1
      <4>3. QED BY <1>1, <3>1, <4>2
    <3>2. QED BY <3>1
  <2>3. ASSUME NEW s \in SUBSET S, Cardinality(s) <= n PROVE h[s] = g[s]
    BY <2>1, <2>3
  <2>4. ASSUME NEW s \in SUBSET S, Cardinality(s) <= n + 1
        PROVE  h[s] = IF s = {} THEN 0 ELSE f[ch(s)] + h[s \ {ch(s)}]
    <3>1. CASE s = {}
      BY <3>1
    <3>2. CASE s # {}
      <4>1. /\ Cardinality(s) \in Nat /\ s \ {ch(s)} \in SUBSET S
            /\ Cardinality(s \ {ch(s)}) = Cardinality(s) - 1
        BY <1>1, <3>2, OneLess
      <4>2. Cardinality(s \ {ch(s)}) <= n
        BY <2>4, <4>1
      <4>3. h[s \ {ch(s)}] = g[s \ {ch(s)}]
        BY <2>3, <4>1, <4>2
      <4>4. h[s] = f[ch(s)] + g[s \ {ch(s)}]
        BY <3>2
      <4> HIDE DEF h
      <4>5. QED BY <3>2, <4>3, <4>4
    <3>3. QED BY <3>1, <3>2
  <2> HIDE DEF h
  <2>5. Good(h, n + 1)
    BY <2>4
  <2>6. QED BY <2>2, <2>5
<1> HIDE DEF P
<1>4. Cardinality(S) \in P
  <2> SUFFICES ASSUME T # {} PROVE FALSE
    BY FS_CardinalityType
  <2>1. T \subseteq Nat
    OBVIOUS
  <2>2. PICK k \in T : \A y \in T : k <= y
    <3> HIDE DEF T
    <3>1. QED BY <2>1, Least
  <2>3. k \in Nat /\ k # 0 /\ k \notin P
    BY <1>2
  <2>4. k - 1 \in Nat /\ (k - 1) + 1 = k /\ ~(k <= k - 1)
    BY <2>3
  <2>5. k - 1 \in P
    BY <2>2, <2>4
  <2>6. QED BY <1>3, <2>3, <2>4, <2>5
<1>5. PICK g \in [SUBSET S -> Int] : Good(g, Cardinality(S))
  BY <1>4 DEF P
<1>6. \A s \in SUBSET S : g[s] = IF s = {} THEN 0 ELSE f[ch(s)] + g[s \ {ch(s)}]
  BY <1>5, FS_Subset
<1>7. Adds(g, f, S)
  BY <1>6 DEF Adds, ch
<1>8. QED BY <1>7

\* It depends on the elements only.
LEMMA AddsAlike ==
  ASSUME NEW S, IsFiniteSet(S), NEW f, NEW k, NEW g, NEW h, Adds(g, f, S), Adds(h, k, S),
         NEW s, s \subseteq S, \A x \in s : f[x] = k[x]
  PROVE  g[s] = h[s]
<1> DEFINE bad == {t \in SUBSET s : g[t] # h[t]}
           T == {Cardinality(t) : t \in bad}
<1> SUFFICES ASSUME bad # {} PROVE FALSE
  OBVIOUS
<1>1. ASSUME NEW t \in SUBSET s PROVE t \in SUBSET S /\ Cardinality(t) \in Nat
  BY FS_Subset, FS_CardinalityType
<1>2. PICK n \in T : \A m \in T : n <= m
  <2>1. T \subseteq Nat /\ T # {}
    BY <1>1
  <2> HIDE DEF T
  <2>2. QED BY <2>1, Least
<1>3. PICK t \in bad : n = Cardinality(t)
  OBVIOUS
<1> DEFINE x == CHOOSE x \in t : TRUE
<1>4. t \in SUBSET S /\ t \in SUBSET s /\ g[t] # h[t]
  BY <1>1
<1>5. /\ g[t] = IF t = {} THEN 0 ELSE f[x] + g[t \ {x}]
      /\ h[t] = IF t = {} THEN 0 ELSE k[x] + h[t \ {x}]
  BY <1>4 DEF Adds
<1>6. t # {}
  BY <1>4, <1>5
<1>7. x \in t
  BY <1>6
<1> HIDE DEF x
<1>8. Cardinality(t \ {x}) = n - 1 /\ n \in Nat
  BY <1>1, <1>3, <1>4, <1>7, OneLess
<1>9. t \ {x} \notin bad
  <2> SUFFICES ASSUME t \ {x} \in bad PROVE FALSE
    OBVIOUS
  <2>1. n - 1 \in T
    BY <1>8
  <2>2. QED BY <1>2, <1>8, <2>1
<1>10. g[t \ {x}] = h[t \ {x}]
  BY <1>4, <1>9
<1>11. f[x] = k[x]
  BY <1>4, <1>7
<1>12. QED BY <1>4, <1>5, <1>6, <1>10, <1>11

\* g adds up the integers of f.
SumsUp(g, f, S) == f \in [S -> Int] /\ g \in [SUBSET S -> Int] /\ Adds(g, f, S)

\* The library's sum is such a sum.
LEMMA FoldAdds ==
  ASSUME NEW S, IsFiniteSet(S), NEW f \in [S -> Int]
  PROVE  \E g : SumsUp(g, f, S) /\ FoldFunction(+, 0, f) = g[S]
<1> DEFINE iter == CHOOSE g : Adds(g, f, S)
<1>1. FoldFunction(+, 0, f) = iter[S]
  BY DEF FoldFunction, FoldFunctionOnSet, MapThenFoldSet, Adds
<1>2. \E g : Adds(g, f, S)
  BY AddsExists
<1>3. Adds(iter, f, S)
  BY <1>2
<1> HIDE DEF iter
<1>4. PICK g \in [SUBSET S -> Int] : Adds(g, f, S)
  BY AddsExists
<1>5. iter[S] = g[S]
  BY <1>3, <1>4, AddsAlike
<1>6. SumsUp(g, f, S)
  BY <1>4 DEF SumsUp
<1>7. QED BY <1>1, <1>5, <1>6

\* Any element may be the first.
LEMMA AddsFirst ==
  ASSUME NEW S, IsFiniteSet(S), NEW f, NEW g, SumsUp(g, f, S),
         NEW s, s \subseteq S, NEW x \in s
  PROVE  g[s] = f[x] + g[s \ {x}]
<1>0. f \in [S -> Int] /\ g \in [SUBSET S -> Int] /\ Adds(g, f, S) /\ s \in SUBSET S
  BY DEF SumsUp
<1> DEFINE bad == {t \in SUBSET S : \E y \in t : g[t] # f[y] + g[t \ {y}]}
           T == {Cardinality(t) : t \in bad}
<1> SUFFICES ASSUME bad # {} PROVE FALSE
  BY <1>0
<1>1. ASSUME NEW t \in SUBSET S PROVE Cardinality(t) \in Nat
  BY FS_Subset, FS_CardinalityType
<1>2. PICK n \in T : \A m \in T : n <= m
  <2>1. T \subseteq Nat /\ T # {}
    BY <1>1
  <2> HIDE DEF T
  <2>2. QED BY <2>1, Least
<1>3. PICK t \in bad : n = Cardinality(t)
  OBVIOUS
<1>4. PICK y \in t : g[t] # f[y] + g[t \ {y}]
  OBVIOUS
<1> DEFINE z == CHOOSE z \in t : TRUE
<1>5. t \in SUBSET S /\ z \in t
  OBVIOUS
<1>6. g[t] = f[z] + g[t \ {z}]
  BY <1>0, <1>5 DEF Adds
<1> HIDE DEF z
<1>7. y # z
  BY <1>4, <1>6
<1> DEFINE u == t \ {z}
           v == t \ {y}
<1>8. /\ Cardinality(u) = n - 1 /\ Cardinality(v) = n - 1 /\ n \in Nat
      /\ u \in SUBSET S /\ v \in SUBSET S
  BY <1>3, <1>5, OneLess
<1>9. y \in u /\ z \in v /\ u \ {y} = v \ {z} /\ u \ {y} \in SUBSET S
  BY <1>5, <1>7
<1> HIDE DEF u, v
<1>10. u \notin bad /\ v \notin bad
  <2> SUFFICES ASSUME n - 1 \in T PROVE FALSE
    BY <1>8
  <2> HIDE DEF T
  <2>1. QED BY <1>2, <1>8
<1>11. g[u] = f[y] + g[u \ {y}] /\ g[v] = f[z] + g[v \ {z}]
  BY <1>8, <1>9, <1>10
<1>12. /\ f[y] \in Int /\ f[z] \in Int /\ g[u \ {y}] \in Int
       /\ g[u] \in Int /\ g[v] \in Int
  BY <1>0, <1>5, <1>8, <1>9
<1>13. g[t] = f[z] + (f[y] + g[u \ {y}])
  BY <1>6, <1>11 DEF u
<1>14. f[y] + g[v] = f[y] + (f[z] + g[u \ {y}])
  BY <1>9, <1>11
<1>15. g[t] = f[y] + g[v]
  BY <1>12, <1>13, <1>14
<1>16. QED BY <1>4, <1>15 DEF v

Total(f) == FoldFunction(+, 0, f)

\* Moving from one element to another does not change the sum.
LEMMA SumMoved ==
  ASSUME NEW S, IsFiniteSet(S), NEW f \in [S -> Int], NEW h \in [S -> Int],
         NEW b \in S, NEW e \in S, b # e, f[b] + f[e] = h[b] + h[e],
         \A x \in S \ {b, e} : f[x] = h[x]
  PROVE  Total(f) = Total(h)
<1> DEFINE s == S \ {b}
           t == s \ {e}
<1>0. S \in SUBSET S /\ s \in SUBSET S /\ t \in SUBSET S /\ e \in s /\ b \in S
  OBVIOUS
<1>1. ASSUME NEW k, NEW g, SumsUp(g, k, S)
      PROVE  g[S] = (k[b] + k[e]) + g[t]
  <2>1. g[S] = k[b] + g[s]
    BY <1>0, <1>1, AddsFirst
  <2>3. k[b] \in Int /\ k[e] \in Int /\ g[t] \in Int
    BY <1>0, <1>1 DEF SumsUp
  <2>2. g[s] = k[e] + g[t]
    <3> HIDE DEF s
    <3>1. QED BY <1>0, <1>1, AddsFirst
  <2> HIDE DEF s, t
  <2>4. QED BY <2>1, <2>2, <2>3
<1>2. PICK g : SumsUp(g, f, S) /\ Total(f) = g[S]
  BY FoldAdds DEF Total
<1>3. PICK k : SumsUp(k, h, S) /\ Total(h) = k[S]
  BY FoldAdds DEF Total
<1>4. g[t] = k[t]
  <2>1. \A x \in t : f[x] = h[x]
    OBVIOUS
  <2>3. Adds(g, f, S) /\ Adds(k, h, S) /\ t \subseteq S
    BY <1>2, <1>3 DEF SumsUp
  <2> HIDE DEF t
  <2>2. QED BY <2>1, <2>3, AddsAlike
<1>5. g[S] = (f[b] + f[e]) + g[t] /\ k[S] = (h[b] + h[e]) + k[t]
  BY <1>1, <1>2, <1>3
<1> HIDE DEF t
<1>6. QED BY <1>2, <1>3, <1>4, <1>5

\* Where the memory of the buffers is, and what is in it: on a disk of n
\* fragments every buffer of the cache maps and has read fragments that are
\* there, and no more of them than it has memory for.
MemIs(d, n) ==
  /\ d.b_bufsize \in [Buf -> Nat] /\ d.b_bcount \in [Buf -> Nat]
  /\ d.b_blkno \in [Buf -> Nat \cup {None}]
  /\ d.fresh \in [Buf -> SUBSET (0 .. n - 1)] /\ d.disk \in SUBSET (0 .. n - 1)
  /\ \A b \in Buf : /\ d.b_bcount[b] <= d.b_bufsize[b]
                    /\ d.b_blkno[b] # None => d.b_blkno[b] + d.b_bcount[b] <= n

\* What a process asks for lies on the disk.
Fits(r, n) ==
  /\ r.blk \in Nat /\ r.blk + r.size <= n
  /\ r.call.blk + r.size <= n
  /\ r.call.op = "breada" => r.call.to + r.size <= n
  /\ r.call.op = "extend" => r.blk = r.call.blk /\ r.blk + r.call.to <= n

\* It is in getnewbuf() for more memory for a buffer it has.
Short(l, r) == r.bp # None /\ (l = "getnewbuf" \/ (l = "age" /\ r.ret = "getnewbuf"))

\* It has no call, or only the end of a bwrite() before it.
CallOver(l, r) == l = "idle" \/ (l = "age" /\ r.ret = "idle")

\* The buffers it answers for are of its block.
Assigned(d, l, r, n) ==
  /\ HasBp(l, r) => d.b_blkno[r.bp] = r.blk
  /\ r.first # None => d.b_blkno[r.first] = r.call.blk
  /\ ~CallOver(l, r) => Fits(r, n)
  /\ Short(l, r) => d.b_bufsize[r.bp] < r.size
  /\ l = "readahead" => r.call.op = "breada"

MInv ==
  /\ MemIs(c, Frags)
  /\ Total(c.b_bufsize) = Total(Space)
  /\ \A p \in Procs : Assigned(c, pc[p], loc[p], Frags)

\* Between two primitives: d is as it should be, and differs from e in the
\* block of buffers of T at most.
Records(d) ==
  {"load", "flags", "b_blkno", "b_bcount", "b_bufsize", "fresh", "free", "wanted", "io",
   "relvp", "disk", "slp"} \subseteq DOMAIN d
Same(d, e, T) ==
  /\ d.load = e.load /\ d.b_bufsize = e.b_bufsize
  /\ \A b \in Buf \ T : d.b_blkno[b] = e.b_blkno[b]
MemOK(d, e, T, n) == Records(d) /\ MemIs(d, n) /\ Same(d, e, T)

\* Flags, lists, transfers and sleepers are no memory.
LEMMA FieldsMem ==
  ASSUME NEW e, NEW T, NEW n
  PROVE  \A h, u :
           MemOK(h, e, T, n) =>
             /\ MemOK([h EXCEPT !.flags = u], e, T, n) /\ MemOK([h EXCEPT !.free = u], e, T, n)
             /\ MemOK([h EXCEPT !.wanted = u], e, T, n) /\ MemOK([h EXCEPT !.io = u], e, T, n)
             /\ MemOK([h EXCEPT !.relvp = u], e, T, n) /\ MemOK([h EXCEPT !.slp = u], e, T, n)
BY DEF MemOK, Records, MemIs, Same

\* No primitive moves memory, or changes the block of a buffer outside T.
LEMMA PrimitivesMem ==
  ASSUME NEW e, NEW T, NEW n \in Nat
  PROVE  \A h, x, y, v :
           MemOK(h, e, T, n) =>
             /\ MemOK(SetF(h, x, y, v), e, T, n) /\ MemOK(SleepOn(h, x, y), e, T, n)
             /\ MemOK(Wakeup(h, x), e, T, n) /\ MemOK(Notavail(h, x), e, T, n)
             /\ MemOK(Strategy(h, x), e, T, n) /\ MemOK(BrelseFree(h, x), e, T, n)
             /\ MemOK(BrelseWake(h, x), e, T, n)
             /\ MemOK(StartWrite(h, x), e, T, n) /\ MemOK(StartRead(h, x, y), e, T, n)
             /\ x \in T => /\ MemOK(Brelvp(h, x), e, T, n) /\ MemOK(Brelse(h, x), e, T, n)
                           /\ MemOK(BiodoneCache(h, x), e, T, n)
                           /\ MemOK(Reassigned(h, x), e, T, n)
             /\ x \in Buf => /\ MemOK(Modified(h, x), e, T, n)
                             /\ MemOK(Transferred(h, x), e, T, n)
<1> DEFINE L(d) == MemOK(d, e, T, n)
<1>0. /\ \A h, u : L(h) => L([h EXCEPT !.flags = u]) /\ L([h EXCEPT !.free = u])
      /\ \A h, u : L(h) => L([h EXCEPT !.wanted = u]) /\ L([h EXCEPT !.io = u])
      /\ \A h, u : L(h) => L([h EXCEPT !.relvp = u]) /\ L([h EXCEPT !.slp = u])
  BY FieldsMem
<1> HIDE DEF L
<1>5. \A h, x : L(h) /\ x \in T => L(Brelvp(h, x))
  <2> SUFFICES ASSUME NEW h, NEW x \in T, L(h) PROVE L(Brelvp(h, x))
    OBVIOUS
  <2> DEFINE u == [h.b_blkno EXCEPT ![x] = None]
  <2>1. /\ u \in [Buf -> Nat \cup {None}]
        /\ \A b \in Buf : u[b] = IF b = x THEN None ELSE h.b_blkno[b]
    BY DEF L, MemOK, MemIs
  <2>2. Brelvp(h, x) = [h EXCEPT !.b_blkno = u]
    BY DEF Brelvp
  <2> HIDE DEF u
  <2>3. L([h EXCEPT !.b_blkno = u])
    BY <2>1 DEF L, MemOK, MemIs, Records, Same
  <2>4. QED BY <2>2, <2>3
<1>7. \A h, x : L(h) /\ x \in Buf => L(Modified(h, x))
  <2> SUFFICES ASSUME NEW h, NEW x \in Buf, L(h) PROVE L(Modified(h, x))
    OBVIOUS
  <2> DEFINE fs == Covers(h, x)
             u == [b \in Buf |-> IF b = x THEN h.fresh[b] \cup fs ELSE h.fresh[b] \ fs]
             v == h.disk \ fs
  <2>1. fs \subseteq 0 .. n - 1
    BY DEF L, MemOK, MemIs, Covers, Fragments
  <2>2. Modified(h, x) = [h EXCEPT !.fresh = u, !.disk = v]
    BY DEF Modified
  <2> HIDE DEF fs
  <2>3. u \in [Buf -> SUBSET (0 .. n - 1)] /\ v \in SUBSET (0 .. n - 1)
    BY <2>1 DEF L, MemOK, MemIs
  <2> HIDE DEF u, v
  <2>4. L([h EXCEPT !.fresh = u, !.disk = v])
    BY <2>3 DEF L, MemOK, MemIs, Records, Same
  <2>5. QED BY <2>2, <2>4
<1>8. \A h, x : L(h) /\ x \in Buf => L(Transferred(h, x))
  <2> SUFFICES ASSUME NEW h, NEW x \in Buf, L(h) PROVE L(Transferred(h, x))
    OBVIOUS
  <2> DEFINE fs == Covers(h, x)
             y == (h.fresh[x] \ fs) \cup (fs \cap h.disk)
             u == [h.fresh EXCEPT ![x] = y]
             v == (h.disk \ fs) \cup (fs \cap h.fresh[x])
  <2>1. fs \subseteq 0 .. n - 1
    BY DEF L, MemOK, MemIs, Covers, Fragments
  <2>2. Transferred(h, x) = [h EXCEPT !.fresh = u] \/ Transferred(h, x) = [h EXCEPT !.disk = v]
    BY DEF Transferred
  <2> HIDE DEF fs
  <2>3. y \in SUBSET (0 .. n - 1) /\ v \in SUBSET (0 .. n - 1)
    BY <2>1 DEF L, MemOK, MemIs
  <2> HIDE DEF y, v
  <2>4. u \in [Buf -> SUBSET (0 .. n - 1)]
    BY <2>3 DEF L, MemOK, MemIs
  <2> HIDE DEF u
  <2>5. L([h EXCEPT !.fresh = u]) /\ L([h EXCEPT !.disk = v])
    BY <2>3, <2>4 DEF L, MemOK, MemIs, Records, Same
  <2>6. QED BY <2>2, <2>5
<1>4. \A h, x : L(h) => L(Notavail(h, x))
  <2> SUFFICES ASSUME NEW h, NEW x, L(h) PROVE L(Notavail(h, x))
    OBVIOUS
  <2> DEFINE fr == [l \in Lists |-> RemoveFirst(h.free[l], x)]
             a == [h EXCEPT !.free = fr]
             w == [h.flags EXCEPT ![x] = @ \cup {"BUSY"}]
  <2>1. Notavail(h, x) = [h EXCEPT !.free = fr, !.flags = w]
    BY DEF Notavail
  <2> HIDE DEF fr, w
  <2>2. L(a)
    BY <1>0
  <2>3. Notavail(h, x) = [a EXCEPT !.flags = w]
    BY <2>1
  <2> HIDE DEF a
  <2>4. L([a EXCEPT !.flags = w])
    BY <1>0, <2>2
  <2>5. QED BY <2>3, <2>4
<1>9. \A h, x : L(h) /\ x \in T => L(Reassigned(h, x))
  <2> SUFFICES ASSUME NEW h, NEW x \in T, L(h) PROVE L(Reassigned(h, x))
    OBVIOUS
  <2> DEFINE g == Brelvp(Notavail(h, x), x)
             u == [g.flags EXCEPT ![x] = {"BUSY"}]
             k == [g EXCEPT !.flags = u]
             v == [k.fresh EXCEPT ![x] = {}]
  <2>1. Reassigned(h, x) = [k EXCEPT !.fresh = v]
    BY DEF Reassigned
  <2>2. L(g)
    BY <1>4, <1>5
  <2> HIDE DEF g, u
  <2>3. L(k)
    BY <1>0, <2>2
  <2> HIDE DEF k
  <2>4. v \in [Buf -> SUBSET (0 .. n - 1)]
    BY <2>3 DEF L, MemOK, MemIs
  <2> HIDE DEF v
  <2>5. L([k EXCEPT !.fresh = v])
    BY <2>3, <2>4 DEF L, MemOK, MemIs, Records, Same
  <2>6. QED BY <2>1, <2>5
<1>1. \A h, x, on, off : L(h) => L(SetF(h, x, on, off))
  BY <1>0 DEF SetF
<1>2. \A h, x, ch : L(h) => L(SleepOn(h, x, ch))
  BY <1>0 DEF SleepOn
<1>3. \A h, x : L(h) => L(Wakeup(h, x))
  BY <1>0 DEF Wakeup
<1>6. \A h, x : L(h) => L(Strategy(h, x))
  BY <1>0 DEF Strategy
<1>10. \A h, x : L(h) => L(BrelseFree(h, x))
  <2> SUFFICES ASSUME NEW h, NEW x, L(h) PROVE L(BrelseFree(h, x))
    OBVIOUS
  <2> DEFINE list == IF h.b_bufsize[x] = 0 THEN "EMPTY"
                     ELSE IF h.flags[x] \cap {"ERROR", "INVAL", "AGE"} # {} THEN "AGE"
                     ELSE "LRU"
             head == h.b_bufsize[x] = 0 \/ h.flags[x] \cap {"ERROR", "INVAL"} # {}
             u == [h.free EXCEPT ![list] = IF head THEN <<x>> \o @ ELSE Append(@, x)]
             g == [h EXCEPT !.free = u]
             off == {"WANTED", "BUSY", "ASYNC", "AGE"}
             on == {}
  <2>1. BrelseFree(h, x) = SetF(g, x, on, off)
    BY DEF BrelseFree
  <2> HIDE DEF u
  <2>2. L(g)
    BY <1>0
  <2> HIDE DEF g, on, off
  <2>3. QED BY <1>1, <2>1, <2>2
<1>11. \A h, x : L(h) => L(BrelseWake(h, x))
  <2> SUFFICES ASSUME NEW h, NEW x, L(h) PROVE L(BrelseWake(h, x))
    OBVIOUS
  <2> DEFINE d1 == IF "WANTED" \in h.flags[x] THEN Wakeup(h, x) ELSE h
             g == [d1 EXCEPT !.wanted = FALSE]
  <2>1. BrelseWake(h, x) = IF d1.wanted THEN Wakeup(g, FREELIST) ELSE d1
    BY DEF BrelseWake
  <2>2. L(d1)
    BY <1>3
  <2> HIDE DEF d1
  <2>3. L(g)
    BY <1>0, <2>2
  <2> HIDE DEF g
  <2>4. QED BY <1>3, <2>1, <2>2, <2>3
<1>12. \A h, x : L(h) /\ x \in T => L(Brelse(h, x))
  BY <1>5, <1>10, <1>11 DEF Brelse
<1>13. \A h, x : L(h) => L(StartWrite(h, x))
  BY <1>1, <1>6 DEF StartWrite
<1>14. \A h, x, on : L(h) => L(StartRead(h, x, on))
  BY <1>1, <1>6 DEF StartRead
<1>15. \A h, x : L(h) /\ x \in T => L(BiodoneCache(h, x))
  BY <1>1, <1>3, <1>12 DEF BiodoneCache
<1>16. QED BY <1>1, <1>2, <1>3, <1>4, <1>5, <1>6, <1>7, <1>8, <1>9, <1>10, <1>11, <1>12,
           <1>13, <1>14, <1>15 DEF L

\* A process that keeps its place, and whose buffers keep theirs.
LEMMA AssignedKept ==
  ASSUME NEW d, NEW e, NEW l, NEW r, NEW n, Assigned(d, l, r, n),
         \A x \in Held(l, r) : e.b_blkno[x] = d.b_blkno[x] /\ e.b_bufsize[x] = d.b_bufsize[x]
  PROVE  Assigned(e, l, r, n)
<1>1. HasBp(l, r) => r.bp \in Held(l, r)
  BY DEF Held
<1>2. r.first # None => r.first \in Held(l, r)
  BY DEF Held
<1>3. Short(l, r) => HasBp(l, r)
  BY DEF Short, HasBp
<1>4. QED BY <1>1, <1>2, <1>3 DEF Assigned

\* What is known of the cache.
LEMMA MemCache ==
  ASSUME IInv, MInv
  PROVE  Frags \in Nat /\ \A T : MemOK(c, c, T, Frags)
<1>1. c \in Caches(Buf)
  BY DEF IInv
<1>2. Records(c)
  BY <1>1 DEF Caches, Records
<1>3. c.load \in DOMAIN Loads
  BY <1>1, Fields
<1>4. Frags \in Nat
  BY <1>3, BufAssumption DEF Frags
<1>5. QED BY <1>2, <1>4 DEF MemOK, Same, MInv

\* What is known of process p and of the cache.
LEMMA MemHere ==
  ASSUME IInv, MInv, NEW p \in Procs
  PROVE  /\ \A T : MemOK(c, c, T, Frags)
         /\ Frags \in Nat /\ loc[p] \in Regs(Buf) /\ Shape(pc[p], loc[p])
         /\ Assigned(c, pc[p], loc[p], Frags) /\ None \notin Buf
         /\ \A x \in Held(pc[p], loc[p]) : x \in Buf /\ "BUSY" \in c.flags[x]
<1>1. loc[p] \in Regs(Buf) /\ Local(c, pc[p], loc[p])
  BY DEF IInv
<1>2. \A x \in Held(pc[p], loc[p]) : x \in Buf /\ "BUSY" \in c.flags[x]
  BY <1>1, Mine DEF Local, Owned
<1>3. QED BY <1>1, <1>2, Mine, MemCache DEF MInv, Local

\* The buffers of the other processes keep their blocks and their memory.
LEMMA MemLands ==
  ASSUME IInv, IInv', MInv, NEW p \in Procs, NEW d, NEW l, NEW r, Goto(p, d, l, r),
         MemIs(d, Frags), d.load = c.load,
         Total(d.b_bufsize) = Total(c.b_bufsize),
         \A q \in Procs \ {p} : \A x \in Held(pc[q], loc[q]) :
           d.b_blkno[x] = c.b_blkno[x] /\ d.b_bufsize[x] = c.b_bufsize[x],
         Assigned(d, l, r, Frags)
  PROVE  MInv' /\ c'.load = c.load
<1>1. c' = d /\ pc' = [pc EXCEPT ![p] = l] /\ loc' = [loc EXCEPT ![p] = r]
  BY DEF Goto
<1>2. c'.load = c.load
  BY <1>1
<1>3. Buf' = Buf /\ Frags' = Frags /\ Space' = Space
  BY <1>2 DEF IInv, Frags, Space
<1>4. MemIs(c, Frags)'
  BY <1>1, <1>3 DEF MemIs
<1>5. (Total(c.b_bufsize) = Total(Space))'
  BY <1>1, <1>3 DEF MInv
<1>6. ASSUME NEW q \in Procs PROVE Assigned(d, pc'[q], loc'[q], Frags)
  <2>1. CASE q = p
    BY <1>1, <2>1 DEF IInv
  <2>2. CASE q # p
    <3>1. pc'[q] = pc[q] /\ loc'[q] = loc[q] /\ Assigned(c, pc[q], loc[q], Frags)
      BY <1>1, <2>2 DEF IInv, MInv
    <3>2. Assigned(d, pc[q], loc[q], Frags)
      BY <2>2, <3>1, AssignedKept
    <3>3. QED BY <3>1, <3>2
  <2>3. QED BY <2>1, <2>2
<1>7. (\A q \in Procs : Assigned(c, pc[q], loc[q], Frags))'
  BY <1>1, <1>3, <1>6 DEF Assigned
<1>8. QED BY <1>2, <1>4, <1>5, <1>7 DEF MInv

\* A step of process p changes the block of its own or of free buffers only.
LEMMA MemEnds ==
  ASSUME IInv, IInv', MInv, NEW p \in Procs, NEW d, NEW l, NEW r, Goto(p, d, l, r),
         NEW T, MemOK(d, c, T, Frags), Assigned(d, l, r, Frags),
         \A t \in T : t \in Held(pc[p], loc[p]) \/ "BUSY" \notin c.flags[t]
  PROVE  MInv' /\ c'.load = c.load
<1>1. ASSUME NEW q \in Procs \ {p}, NEW x \in Held(pc[q], loc[q])
      PROVE  x \in Buf \ T
  <2>1. x \in Buf /\ "BUSY" \in c.flags[x]
    BY MemHere
  <2>2. x \notin Held(pc[p], loc[p])
    BY DEF IInv, Apart
  <2>3. QED BY <2>1, <2>2
<1>2. QED BY <1>1, MemLands DEF MemOK, Same

\* The cache does not change, or nothing but flags and sleepers.
LEMMA MemStays ==
  ASSUME IInv, IInv', MInv, NEW p \in Procs, NEW d, NEW l, NEW r, Goto(p, d, l, r),
         MemOK(d, c, {}, Frags), Assigned(c, l, r, Frags)
  PROVE  MInv' /\ c'.load = c.load
<1>1. Held(l, r) \subseteq Buf
  <2>1. pc'[p] = l /\ loc'[p] = r /\ c' = d
    BY DEF Goto, IInv
  <2>2. Buf' = Buf
    BY <2>1 DEF IInv, MemOK, Same
  <2>3. r \in Regs(Buf) /\ Shape(l, r) /\ None \notin Buf
    BY <2>1, <2>2, MemHere DEF IInv, Local
  <2>4. QED BY <2>3 DEF Regs, Held, Shape
<1>2. Assigned(d, l, r, Frags)
  BY <1>1, AssignedKept DEF MemOK, Same
<1>3. QED BY <1>2, MemEnds

\* What the device does is to a buffer that nobody answers for.
LEMMA MemDevice ==
  ASSUME IInv, IInv', MInv, UNCHANGED <<pc, loc, cur>>, NEW T, MemOK(c', c, T, Frags),
         \A p \in Procs : Held(pc[p], loc[p]) \cap T = {}
  PROVE  MInv' /\ c'.load = c.load
<1>1. c'.load = c.load /\ c'.b_bufsize = c.b_bufsize /\ MemIs(c', Frags)
      /\ \A b \in Buf \ T : c'.b_blkno[b] = c.b_blkno[b]
  BY DEF MemOK, Same
<1>2. Buf' = Buf /\ Frags' = Frags /\ Space' = Space
  BY <1>1 DEF IInv, Frags, Space
<1>3. MemIs(c, Frags)'
  BY <1>1, <1>2 DEF MemIs
<1>4. ASSUME NEW q \in Procs PROVE Assigned(c', pc[q], loc[q], Frags)
  <2>1. \A x \in Held(pc[q], loc[q]) : x \in Buf \ T
    BY MemHere
  <2>2. QED BY <1>1, <2>1, AssignedKept DEF MInv
<1>5. (\A q \in Procs : Assigned(c, pc[q], loc[q], Frags))'
  BY <1>2, <1>4 DEF Assigned
<1>6. (Total(c.b_bufsize) = Total(Space))'
  BY <1>1, <1>2 DEF MInv
<1>7. QED BY <1>1, <1>3, <1>5, <1>6 DEF MInv

\* bwrite() changes neither blocks nor memory.
LEMMA MemWrites ==
  ASSUME IInv, IInv', MInv, NEW p \in Procs, NEW d, NEW b, NEW ret, NEW r,
         Bwrite(p, d, b, ret, r), MemOK(d, c, {}, Frags),
         NEW w, w = [r EXCEPT !.ep = b, !.ret = ret],
         "ASYNC" \notin d.flags[b] => Assigned(c, "written", w, Frags),
         Assigned(c, "age", w, Frags), Assigned(c, ret, w, Frags)
  PROVE  MInv' /\ c'.load = c.load
<1> DEFINE e == StartWrite(d, b)
           l == IF "ASYNC" \notin d.flags[b] THEN "written"
                ELSE IF "DELWRI" \in d.flags[b] THEN "age" ELSE ret
<1>1. Goto(p, e, l, w)
  BY DEF Bwrite
<1>2. MemOK(e, c, {}, Frags)
  BY MemHere, PrimitivesMem
<1>3. Assigned(c, l, w, Frags)
  OBVIOUS
<1> HIDE DEF e, l
<1>4. QED BY <1>1, <1>2, <1>3, MemStays

\* A call asks for what lies on the disk.
LEMMA CallMem ==
  ASSUME IInv, IInv', MInv, NEW p \in Procs, Call(p)
  PROVE  MInv' /\ c'.load = c.load
<1>1. PICK k \in Calls :
        \E l \in {"bflush", "blkflush", "binvalfree", "readahead", "getblk"} :
          /\ Goto(p, c, l, [NoLoc EXCEPT !.call = k, !.blk = k.blk, !.size = k.size])
          /\ l = "readahead" => k.op = "breada"
  BY DEF Call
<1> DEFINE r == [NoLoc EXCEPT !.call = k, !.blk = k.blk, !.size = k.size]
<1>2. PICK l \in {"bflush", "blkflush", "binvalfree", "readahead", "getblk"} :
        Goto(p, c, l, r) /\ (l = "readahead" => k.op = "breada")
  BY <1>1
<1>3. /\ r.call = k /\ r.blk = k.blk /\ r.size = k.size /\ r.bp = None /\ r.first = None
      /\ r.ret = "idle"
  BY DEF NoLoc
<1>4. c.load \in DOMAIN Loads
  BY Fields DEF IInv
<1>5. /\ k \in [op : Op, blk : Nat, size : Nat, to : Nat] /\ Frags \in Nat
      /\ k.blk \in 0 .. Frags - 1 /\ k.size \in 1 .. Frags - k.blk
      /\ k.op = "breada" => k.to \in 0 .. Frags - k.size
      /\ k.op = "extend" => k.to \in k.size + 1 .. Frags - k.blk
  BY <1>4, BufAssumption DEF Calls, Frags
<1> HIDE DEF r
<1>6. Fits(r, Frags)
  BY <1>3, <1>5 DEF Fits
<1>7. Assigned(c, l, r, Frags)
  BY <1>2, <1>3, <1>6 DEF Assigned, HasBp, Short
<1>8. MemOK(c, c, {}, Frags)
  BY MemHere
<1>9. QED BY <1>2, <1>7, <1>8, MemStays

\* Going on with the same registers, or with another place of them.
LEMMA GetblkMem ==
  ASSUME IInv, IInv', MInv, NEW p \in Procs,
         \/ GetblkBusy(p) \/ GetblkMiss(p) \/ GetnewbufSleep(p) \/ BreallocAlone(p)
         \/ GotRead(p) \/ GotWrite(p) \/ GotExtended(p) \/ Biowait(p) \/ BwriteAge(p)
  PROVE  MInv' /\ c'.load = c.load
<1> DEFINE r == loc[p]
<1>1. /\ \A T : MemOK(c, c, T, Frags)
      /\ Frags \in Nat /\ r \in Regs(Buf) /\ Shape(pc[p], r)
      /\ Assigned(c, pc[p], r, Frags) /\ None \notin Buf
  BY MemHere
<1>2. /\ \A x, y, v : MemOK(SetF(c, x, y, v), c, {}, Frags)
      /\ \A x, y : MemOK(SleepOn(c, x, y), c, {}, Frags)
      /\ \A x, y : MemOK(StartRead(c, x, y), c, {}, Frags)
      /\ \A x, y, v, w, z : MemOK(SleepOn(SetF(c, x, y, v), w, z), c, {}, Frags)
  BY <1>1, PrimitivesMem
<1>3. CASE GetblkBusy(p)
  <2>1. PICK b \in Buf : Goto(p, SleepOn(SetF(c, b, {"WANTED"}, {}), p, b), "getblk", r)
    BY <1>3 DEF GetblkBusy
  <2>2. pc[p] = "getblk"
    BY <1>3 DEF GetblkBusy, At
  <2>3. QED BY <1>1, <1>2, <2>1, <2>2, MemStays
<1>4. CASE GetblkMiss(p)
  <2> DEFINE w == [r EXCEPT !.bp = None]
  <2>1. Goto(p, c, "getnewbuf", w) /\ pc[p] = "getblk"
    BY <1>4 DEF GetblkMiss, At
  <2>2. /\ w.bp = None /\ w.first = r.first /\ w.call = r.call /\ w.blk = r.blk
        /\ w.size = r.size
    BY <1>1 DEF Regs
  <2> HIDE DEF w
  <2>3. Assigned(c, "getnewbuf", w, Frags)
    BY <1>1, <2>1, <2>2 DEF Assigned, HasBp, Short, Fits, CallOver
  <2>4. QED BY <1>1, <2>1, <2>3, MemStays
<1>5. CASE GetnewbufSleep(p)
  <2> DEFINE d == [c EXCEPT !.wanted = TRUE]
  <2>1. Goto(p, SleepOn(d, p, FREELIST), "getnewbuf", r) /\ pc[p] = "getnewbuf"
    BY <1>5 DEF GetnewbufSleep, At
  <2>2. MemOK(d, c, {}, Frags)
    BY <1>1, FieldsMem
  <2> HIDE DEF d
  <2>3. MemOK(SleepOn(d, p, FREELIST), c, {}, Frags)
    BY <1>1, <2>2, PrimitivesMem
  <2>4. QED BY <1>1, <2>1, <2>3, MemStays
<1>6. CASE BreallocAlone(p)
  <2>1. Goto(p, c, "allocbuf", r) /\ pc[p] = "overlap"
    BY <1>6 DEF BreallocAlone, At
  <2>2. Assigned(c, "allocbuf", r, Frags)
    BY <1>1, <2>1 DEF Assigned, HasBp, Short, CallOver
  <2>3. QED BY <1>1, <2>1, <2>2, MemStays
<1>7. CASE GotRead(p)
  <2>1. pc[p] = "got" /\ (Goto(p, c, "hold", r) \/ Goto(p, StartRead(c, r.bp, {}), "biowait", r))
    BY <1>7 DEF GotRead, At
  <2>2. Assigned(c, "hold", r, Frags) /\ Assigned(c, "biowait", r, Frags)
    BY <1>1, <2>1 DEF Assigned, HasBp, Short, CallOver
  <2>3. QED BY <1>1, <1>2, <2>1, <2>2, MemStays
<1>8. CASE GotWrite(p) \/ GotExtended(p)
  <2>1. pc[p] = "got" /\ (Goto(p, c, "hold", r) \/ Goto(p, SetF(c, r.bp, {"DONE"}, {}), "hold", r))
    BY <1>8 DEF GotWrite, GotExtended, At
  <2>2. Assigned(c, "hold", r, Frags)
    BY <1>1, <2>1 DEF Assigned, HasBp, Short, CallOver
  <2>3. QED BY <1>1, <1>2, <2>1, <2>2, MemStays
<1>9. CASE Biowait(p)
  <2>1. pc[p] = "biowait" /\ (Goto(p, c, "hold", r) \/ Goto(p, SleepOn(c, p, r.bp), "biowait", r))
    BY <1>9 DEF Biowait, At
  <2>2. Assigned(c, "hold", r, Frags)
    BY <1>1, <2>1 DEF Assigned, HasBp, Short, CallOver
  <2>3. QED BY <1>1, <1>2, <2>1, <2>2, MemStays
<1>10. CASE BwriteAge(p)
  <2> DEFINE w == [r EXCEPT !.ep = None]
  <2>1. Goto(p, SetF(c, r.ep, {"AGE"}, {}), r.ret, w) /\ pc[p] = "age"
    BY <1>10 DEF BwriteAge, At
  <2>2. /\ w.bp = r.bp /\ w.first = r.first /\ w.call = r.call /\ w.blk = r.blk
        /\ w.size = r.size /\ w.ret = r.ret
    BY <1>1 DEF Regs
  <2>3. r.ret \in {"getnewbuf", "bflush", "binvalfree", "idle"}
    BY <1>1, <2>1 DEF Shape
  <2> HIDE DEF w
  <2>4. Assigned(c, r.ret, w, Frags)
    BY <1>1, <2>1, <2>2, <2>3 DEF Assigned, HasBp, Short, Fits, CallOver
  <2>5. QED BY <1>1, <1>2, <2>1, <2>4, MemStays
<1>11. QED BY <1>3, <1>4, <1>5, <1>6, <1>7, <1>8, <1>9, <1>10

\* A write that getnewbuf(), brealloc(), blkflush() and bflush() start.
LEMMA FlushMem ==
  ASSUME IInv, IInv', MInv, NEW p \in Procs,
         GetnewbufWrite(p) \/ Blkflush(p) \/ Bflush(p) \/ BwriteCall(p) \/ Brealloc(p)
  PROVE  MInv' /\ c'.load = c.load
<1> DEFINE r == loc[p]
<1>1. /\ \A T : MemOK(c, c, T, Frags)
      /\ Frags \in Nat /\ r \in Regs(Buf) /\ Shape(pc[p], r)
      /\ Assigned(c, pc[p], r, Frags) /\ None \notin Buf
      /\ \A x \in Held(pc[p], r) : x \in Buf
  BY MemHere
<1>2. /\ \A x, y, v : MemOK(SetF(c, x, y, v), c, {}, Frags)
      /\ \A x : MemOK(Notavail(c, x), c, {}, Frags)
      /\ \A x, y, v, w : MemOK(SetF(Notavail(c, w), x, y, v), c, {}, Frags)
      /\ \A x, y, v, w : MemOK(Notavail(SetF(c, x, y, v), w), c, {}, Frags)
      /\ \A x, y, v, w, z : MemOK(SleepOn(SetF(c, x, y, v), w, z), c, {}, Frags)
      /\ \A x \in Buf : MemOK(Modified(c, x), c, {}, Frags)
  BY <1>1, PrimitivesMem
<1>4. CASE GetnewbufWrite(p)
  <2> DEFINE b == Oldest(c)
             d == SetF(Notavail(c, b), b, {"ASYNC"}, {})
             w == [r EXCEPT !.ep = b, !.ret = "getnewbuf"]
  <2>1. Bwrite(p, d, b, "getnewbuf", r) /\ pc[p] = "getnewbuf"
    BY <1>4 DEF GetnewbufWrite, At
  <2>2. MemOK(d, c, {}, Frags)
    BY <1>2
  <2>3. /\ w.bp = r.bp /\ w.first = r.first /\ w.call = r.call /\ w.blk = r.blk
        /\ w.size = r.size /\ w.ret = "getnewbuf" /\ w = [r EXCEPT !.ep = b, !.ret = "getnewbuf"]
    BY <1>1 DEF Regs
  <2> HIDE DEF d, w
  <2>4. \A l \in {"written", "age", "getnewbuf"} : Assigned(c, l, w, Frags)
    BY <1>1, <2>1, <2>3 DEF Assigned, HasBp, Short, Fits, CallOver
  <2>5. QED BY <2>1, <2>2, <2>3, <2>4, MemWrites
<1>5. CASE Blkflush(p)
  <2> DEFINE over == Overlapping(c, r.blk, r.size)
             busy == {e \in over : "BUSY" \in c.flags[e]}
             late == {e \in over : "DELWRI" \in c.flags[e]} \ busy
  <2>1. /\ \/ \E e \in busy : Goto(p, SleepOn(SetF(c, e, {"WANTED"}, {}), p, e), "blkflush", r)
           \/ \E e \in late : Bwrite(p, Notavail(c, e), e, "blkflush", r)
           \/ Return(p, c)
        /\ pc[p] = "blkflush"
    BY <1>5 DEF Blkflush, At
  <2> HIDE DEF busy, late
  <2>2. CASE \E e \in busy : Goto(p, SleepOn(SetF(c, e, {"WANTED"}, {}), p, e), "blkflush", r)
    BY <1>1, <1>2, <2>1, <2>2, MemStays
  <2>3. CASE \E e \in late : Bwrite(p, Notavail(c, e), e, "blkflush", r)
    <3>1. PICK e \in late : Bwrite(p, Notavail(c, e), e, "blkflush", r)
      BY <2>3
    <3> DEFINE w == [r EXCEPT !.ep = e, !.ret = "blkflush"]
    <3>2. /\ w.bp = r.bp /\ w.first = r.first /\ w.call = r.call /\ w.blk = r.blk
          /\ w.size = r.size /\ w.ret = "blkflush" /\ w = [r EXCEPT !.ep = e, !.ret = "blkflush"]
      BY <1>1 DEF Regs
    <3> HIDE DEF w
    <3>3. \A l \in {"written", "age", "blkflush"} : Assigned(c, l, w, Frags)
      BY <1>1, <2>1, <3>2 DEF Assigned, HasBp, Short, Fits, CallOver
    <3>4. QED BY <1>2, <3>1, <3>2, <3>3, MemWrites
  <2>4. CASE Return(p, c)
    <3>1. Assigned(c, "idle", NoLoc, Frags)
      BY DEF Assigned, HasBp, Short, NoLoc, CallOver
    <3>2. QED BY <1>1, <2>4, <3>1, MemStays DEF Return
  <2>5. QED BY <2>1, <2>2, <2>3, <2>4
<1>6. CASE Bflush(p)
  <2> DEFINE b == Order(c)[Min(Delayed(c))]
             d == Notavail(SetF(c, b, {"ASYNC"}, {}), b)
             w == [r EXCEPT !.ep = b, !.ret = "bflush"]
  <2>1. (Return(p, c) \/ Bwrite(p, d, b, "bflush", r)) /\ pc[p] = "bflush"
    BY <1>6 DEF Bflush, At
  <2>2. MemOK(d, c, {}, Frags)
    BY <1>2
  <2>3. /\ w.bp = r.bp /\ w.first = r.first /\ w.call = r.call /\ w.blk = r.blk
        /\ w.size = r.size /\ w.ret = "bflush" /\ w = [r EXCEPT !.ep = b, !.ret = "bflush"]
    BY <1>1 DEF Regs
  <2> HIDE DEF b, d, w
  <2>4. \A l \in {"written", "age", "bflush"} : Assigned(c, l, w, Frags)
    BY <1>1, <2>1, <2>3 DEF Assigned, HasBp, Short, Fits, CallOver
  <2>5. Assigned(c, "idle", NoLoc, Frags)
    BY DEF Assigned, HasBp, Short, NoLoc, CallOver
  <2>6. CASE Return(p, c)
    BY <1>1, <2>5, <2>6, MemStays DEF Return
  <2>7. CASE Bwrite(p, d, b, "bflush", r)
    BY <2>2, <2>3, <2>4, <2>7, MemWrites
  <2>8. QED BY <2>1, <2>6, <2>7
<1>7. CASE BwriteCall(p)
  <2> DEFINE b == r.bp
             w == [r EXCEPT !.ep = b, !.ret = "idle"]
  <2>1. Bwrite(p, Modified(c, b), b, "idle", r) /\ pc[p] = "hold"
    BY <1>7 DEF BwriteCall, MayWrite, Holds, At
  <2>2. b \in Buf
    BY <1>1, <2>1 DEF Held, HasBp
  <2>3. /\ w.bp = r.bp /\ w.first = r.first /\ w.call = r.call /\ w.blk = r.blk
        /\ w.size = r.size /\ w.ret = "idle" /\ w = [r EXCEPT !.ep = b, !.ret = "idle"]
    BY <1>1 DEF Regs
  <2> HIDE DEF w
  <2>4. \A l \in {"written", "age", "idle"} : Assigned(c, l, w, Frags)
    BY <1>1, <2>1, <2>3 DEF Assigned, HasBp, Short, Fits, CallOver
  <2>5. QED BY <1>2, <2>1, <2>2, <2>3, <2>4, MemWrites
<1>8. CASE Brealloc(p)
  <2> DEFINE b == r.bp
             w == [r EXCEPT !.ep = b, !.ret = "getblk"]
  <2>1. /\ pc[p] = "brealloc"
        /\ \/ Goto(p, c, "got", r)
           \/ Bwrite(p, c, b, "getblk", r)
           \/ Goto(p, c, "allocbuf", r)
           \/ Goto(p, SetF(c, b, {}, {"DONE"}), "overlap", r)
    BY <1>8 DEF Brealloc, At
  <2>2. \A l \in {"got", "allocbuf", "overlap"} : Assigned(c, l, r, Frags)
    BY <1>1, <2>1 DEF Assigned, HasBp, Short, CallOver
  <2>3. /\ w.bp = r.bp /\ w.first = r.first /\ w.call = r.call /\ w.blk = r.blk
        /\ w.size = r.size /\ w.ret = "getblk" /\ w = [r EXCEPT !.ep = b, !.ret = "getblk"]
    BY <1>1 DEF Regs
  <2> HIDE DEF w
  <2>4. \A l \in {"written", "age", "getblk"} : Assigned(c, l, w, Frags)
    BY <1>1, <2>1, <2>3 DEF Assigned, HasBp, Short, Fits, CallOver
  <2>5. CASE Bwrite(p, c, b, "getblk", r)
    BY <1>1, <2>3, <2>4, <2>5, MemWrites
  <2>6. CASE Goto(p, c, "got", r)
    BY <1>1, <2>2, <2>6, MemStays
  <2>7. CASE Goto(p, c, "allocbuf", r)
    BY <1>1, <2>2, <2>7, MemStays
  <2>8. CASE Goto(p, SetF(c, b, {}, {"DONE"}), "overlap", r)
    BY <1>2, <2>2, <2>8, MemStays
  <2>9. QED BY <2>1, <2>5, <2>6, <2>7, <2>8
<1>9. QED BY <1>4, <1>5, <1>6, <1>7, <1>8

\* getblk() finds the buffer of its block.
LEMMA GetblkHitMem ==
  ASSUME IInv, IInv', MInv, NEW p \in Procs, GetblkHit(p)
  PROVE  MInv' /\ c'.load = c.load
<1> DEFINE r == loc[p]
<1>1. /\ \A T : MemOK(c, c, T, Frags)
      /\ Frags \in Nat /\ r \in Regs(Buf) /\ Assigned(c, pc[p], r, Frags)
  BY MemHere
<1>2. PICK b \in Buf : c.b_blkno[b] = r.blk /\ Goto(p, Notavail(c, b), "brealloc", [r EXCEPT !.bp = b])
  BY DEF GetblkHit
<1>3. pc[p] = "getblk"
  BY DEF GetblkHit, At
<1> DEFINE w == [r EXCEPT !.bp = b]
<1>4. /\ w.bp = b /\ w.first = r.first /\ w.call = r.call /\ w.blk = r.blk
      /\ w.size = r.size /\ Goto(p, Notavail(c, b), "brealloc", w)
  BY <1>1, <1>2 DEF Regs
<1> HIDE DEF w
<1>5. Assigned(c, "brealloc", w, Frags)
  BY <1>1, <1>2, <1>3, <1>4 DEF Assigned, HasBp, Short, Fits, CallOver
<1>6. MemOK(Notavail(c, b), c, {}, Frags)
  BY <1>1, PrimitivesMem
<1>7. QED BY <1>4, <1>5, <1>6, MemStays

\* brealloc() may take the block of a free buffer in the way.
LEMMA BreallocOverlapMem ==
  ASSUME IInv, IInv', MInv, NEW p \in Procs, BreallocOverlap(p)
  PROVE  MInv' /\ c'.load = c.load
<1> DEFINE r == loc[p]
<1>1. /\ \A T : MemOK(c, c, T, Frags)
      /\ Frags \in Nat /\ r \in Regs(Buf) /\ Assigned(c, pc[p], r, Frags) /\ Shape(pc[p], r)
  BY MemHere
<1>2. PICK e \in Buf :
        \/ Goto(p, SleepOn(SetF(c, e, {"WANTED"}, {}), p, e), "overlap", r)
        \/ Bwrite(p, Notavail(c, e), e, "overlap", r)
        \/ /\ "BUSY" \notin c.flags[e]
           /\ Goto(p, Brelse(SetF(Notavail(c, e), e, {"INVAL"}, {}), e), "overlap", r)
  BY DEF BreallocOverlap, Overlapping
<1>3. pc[p] = "overlap"
  BY DEF BreallocOverlap, At
<1>4. CASE Goto(p, SleepOn(SetF(c, e, {"WANTED"}, {}), p, e), "overlap", r)
  <2>1. MemOK(SleepOn(SetF(c, e, {"WANTED"}, {}), p, e), c, {}, Frags)
    BY <1>1, PrimitivesMem
  <2>2. QED BY <1>1, <1>3, <1>4, <2>1, MemStays
<1>5. CASE Bwrite(p, Notavail(c, e), e, "overlap", r)
  <2> DEFINE w == [r EXCEPT !.ep = e, !.ret = "overlap"]
  <2>1. /\ w.bp = r.bp /\ w.first = r.first /\ w.call = r.call /\ w.blk = r.blk
        /\ w.size = r.size /\ w.ret = "overlap" /\ w = [r EXCEPT !.ep = e, !.ret = "overlap"]
    BY <1>1 DEF Regs
  <2> HIDE DEF w
  <2>2. \A l \in {"written", "age", "overlap"} : Assigned(c, l, w, Frags)
    BY <1>1, <1>3, <2>1 DEF Assigned, HasBp, Short, Fits, CallOver
  <2>3. MemOK(Notavail(c, e), c, {}, Frags)
    BY <1>1, PrimitivesMem
  <2>4. QED BY <1>5, <2>1, <2>2, <2>3, MemWrites
<1>6. CASE /\ "BUSY" \notin c.flags[e]
           /\ Goto(p, Brelse(SetF(Notavail(c, e), e, {"INVAL"}, {}), e), "overlap", r)
  <2> DEFINE T == {e}
             d == Brelse(SetF(Notavail(c, e), e, {"INVAL"}, {}), e)
  <2>1. MemOK(d, c, T, Frags)
    <3> DEFINE on == {"INVAL"}
               off == {}
               f == Notavail(c, e)
               g == SetF(f, e, on, off)
    <3>1. d = Brelse(g, e) /\ e \in T
      OBVIOUS
    <3> HIDE DEF on, off, T
    <3>2. MemOK(f, c, T, Frags)
      BY <1>1, PrimitivesMem
    <3> HIDE DEF f
    <3>3. MemOK(g, c, T, Frags)
      BY <1>1, <3>2, PrimitivesMem
    <3> HIDE DEF g, d
    <3>4. QED BY <1>1, <3>1, <3>3, PrimitivesMem
  <2>2. Goto(p, d, "overlap", r)
    BY <1>6
  <2> HIDE DEF d
  <2>3. \A x \in Buf \ T : d.b_blkno[x] = c.b_blkno[x] /\ d.b_bufsize[x] = c.b_bufsize[x]
    BY <2>1 DEF MemOK, Same
  <2>4. \A x \in Held(pc[p], r) : x \in Buf \ T
    BY <1>6, MemHere
  <2>5. Assigned(d, "overlap", r, Frags)
    BY <1>1, <1>3, <2>3, <2>4, AssignedKept
  <2>6. QED BY <1>6, <2>1, <2>2, <2>5, MemEnds
<1>7. QED BY <1>2, <1>4, <1>5, <1>6

\* What a process whose call is over has asked for.
LEMMA NothingAsked ==
  ASSUME NEW d, NEW n
  PROVE  Assigned(d, "idle", NoLoc, n)
  BY DEF Assigned, HasBp, Short, NoLoc, CallOver

\* A buffer in hand is one that its process may change.
LEMMA HoldsOne ==
  ASSUME IInv, NEW p \in Procs, HasBp(pc[p], loc[p])
  PROVE  loc[p].bp \in Held(pc[p], loc[p]) /\ loc[p].bp \in Buf
  BY Mine DEF Held

\* brelse() and bdwrite() of the buffer in hand end the call.
LEMMA ReleaseMem ==
  ASSUME IInv, IInv', MInv, NEW p \in Procs, Release(p) \/ Bdwrite(p)
  PROVE  MInv' /\ c'.load = c.load
<1> DEFINE b == loc[p].bp
           T == {b}
<1>1. \A S : MemOK(c, c, S, Frags) /\ Frags \in Nat
  BY MemHere
<1>2. pc[p] = "hold" /\ b \in Held(pc[p], loc[p]) /\ b \in Buf /\ b \in T
  BY HoldsOne DEF Release, Bdwrite, MayWrite, Holds, At, HasBp
<1>3. ASSUME NEW d, Return(p, d), MemOK(d, c, T, Frags) PROVE MInv' /\ c'.load = c.load
  BY <1>2, <1>3, NothingAsked, MemEnds DEF Return
<1>4. CASE Release(p)
  <2>1. Return(p, Brelse(c, b))
    BY <1>4 DEF Release
  <2> HIDE DEF T
  <2>2. MemOK(Brelse(c, b), c, T, Frags)
    BY <1>1, <1>2, PrimitivesMem
  <2>3. QED BY <1>3, <2>1, <2>2
<1>5. CASE Bdwrite(p)
  <2> DEFINE on == {"DELWRI", "DONE"}
             off == {}
             g == Modified(c, b)
             h == SetF(g, b, on, off)
  <2>1. Return(p, Brelse(h, b))
    BY <1>5 DEF Bdwrite
  <2> HIDE DEF T, on, off
  <2>2. MemOK(g, c, T, Frags)
    BY <1>1, <1>2, PrimitivesMem
  <2> HIDE DEF g
  <2>3. MemOK(h, c, T, Frags)
    BY <1>1, <2>2, PrimitivesMem
  <2> HIDE DEF h
  <2>4. MemOK(Brelse(h, b), c, T, Frags)
    BY <1>1, <1>2, <2>3, PrimitivesMem
  <2>5. QED BY <1>3, <2>1, <2>4
<1>6. QED BY <1>4, <1>5

\* bawrite() gives the buffer to the device.
LEMMA BawriteMem ==
  ASSUME IInv, IInv', MInv, NEW p \in Procs, Bawrite(p)
  PROVE  MInv' /\ c'.load = c.load
<1> DEFINE b == loc[p].bp
           on == {"ASYNC"}
           off == {}
           g == Modified(c, b)
           d == SetF(g, b, on, off)
           w == [NoLoc EXCEPT !.ep = b, !.ret = "idle"]
<1>1. \A S : MemOK(c, c, S, Frags) /\ Frags \in Nat
  BY MemHere
<1>2. b \in Buf
  BY HoldsOne DEF Bawrite, MayWrite, Holds, At, HasBp
<1>3. Bwrite(p, d, b, "idle", NoLoc) \/ Return(p, StartWrite(d, b))
  BY DEF Bawrite
<1>4. "ASYNC" \in d.flags[b]
  <2>0. c.flags \in [Buf -> SUBSET Flag]
    BY Fields DEF IInv
  <2>1. c.flags \in [Buf -> SUBSET Flag] /\ Records(c)
    <3>1. MemOK(c, c, {}, Frags)
      BY <1>1
    <3>2. QED BY <2>0, <3>1 DEF MemOK
  <2>2. g.flags = c.flags /\ Records(g)
    BY <2>1 DEF Modified, Records
  <2> HIDE DEF g
  <2>3. QED BY <1>2, <2>1, <2>2 DEF SetF, Records
<1> HIDE DEF on, off
<1>5. MemOK(g, c, {}, Frags)
  BY <1>1, <1>2, PrimitivesMem
<1> HIDE DEF g
<1>6. MemOK(d, c, {}, Frags)
  BY <1>1, <1>5, PrimitivesMem
<1> HIDE DEF d
<1>7. MemOK(StartWrite(d, b), c, {}, Frags)
  BY <1>1, <1>6, PrimitivesMem
<1>8. w.bp = None /\ w.first = None /\ w.ret = "idle" /\ w = [NoLoc EXCEPT !.ep = b, !.ret = "idle"]
  BY DEF NoLoc
<1> HIDE DEF w
<1>9. Assigned(c, "age", w, Frags) /\ Assigned(c, "idle", w, Frags)
  BY <1>8 DEF Assigned, HasBp, Short, CallOver
<1>10. CASE Bwrite(p, d, b, "idle", NoLoc)
  BY <1>4, <1>6, <1>8, <1>9, <1>10, MemWrites
<1>11. CASE Return(p, StartWrite(d, b))
  BY <1>7, <1>11, NothingAsked, MemStays DEF Return
<1>12. QED BY <1>3, <1>10, <1>11

\* realloccg() asks for the new size.
LEMMA ExtendMem ==
  ASSUME IInv, IInv', MInv, NEW p \in Procs, Extend(p)
  PROVE  MInv' /\ c'.load = c.load
<1> DEFINE r == loc[p]
           w == [r EXCEPT !.size = r.call.to]
<1>1. /\ MemOK(c, c, {}, Frags) /\ r \in Regs(Buf) /\ Assigned(c, pc[p], r, Frags)
  BY MemHere
<1>2. pc[p] = "hold" /\ r.call.op = "extend" /\ Goto(p, c, "brealloc", w)
  BY DEF Extend, Holds, At
<1>3. /\ w.bp = r.bp /\ w.first = r.first /\ w.call = r.call /\ w.blk = r.blk
      /\ w.size = r.call.to
  BY <1>1 DEF Regs
<1> HIDE DEF w
<1>4. Fits(r, Frags) /\ r.blk = r.call.blk
  BY <1>1, <1>2 DEF Assigned, CallOver, Fits
<1>5. Fits(w, Frags)
  BY <1>2, <1>3, <1>4 DEF Fits
<1>6. Assigned(c, "brealloc", w, Frags)
  BY <1>1, <1>2, <1>3, <1>5 DEF Assigned, HasBp, Short
<1>7. QED BY <1>1, <1>2, <1>6, MemStays

\* biowait() and brelse() of the end of a synchronous bwrite().
LEMMA BwriteWaitMem ==
  ASSUME IInv, IInv', MInv, NEW p \in Procs, BwriteWait(p)
  PROVE  MInv' /\ c'.load = c.load
<1> DEFINE r == loc[p]
           b == r.ep
           T == {b}
           d == Brelse(c, b)
           w == IF r.ret = "idle" THEN NoLoc ELSE [r EXCEPT !.ep = None]
<1>1. /\ \A S : MemOK(c, c, S, Frags) /\ Frags \in Nat
      /\ r \in Regs(Buf) /\ Assigned(c, pc[p], r, Frags) /\ Shape(pc[p], r) /\ None \notin Buf
  BY MemHere
<1>2. pc[p] = "written" /\ (Goto(p, d, r.ret, w) \/ Goto(p, SleepOn(c, p, b), "written", r))
  BY DEF BwriteWait, At
<1>3. /\ b # None /\ b # r.first /\ r.ret \in {"getblk", "overlap", "blkflush", "idle"}
      /\ r.ret = "overlap" => b # r.bp
  BY <1>1, <1>2 DEF Shape
<1>4. b \in Held(pc[p], r) /\ b \in T
  BY <1>2 DEF Held
<1>5. CASE Goto(p, SleepOn(c, p, b), "written", r)
  <2>1. MemOK(SleepOn(c, p, b), c, {}, Frags)
    BY <1>1, PrimitivesMem
  <2>2. QED BY <1>1, <1>2, <1>5, <2>1, MemStays
<1>6. CASE Goto(p, d, r.ret, w)
  <2>1. MemOK(d, c, T, Frags)
    <3> HIDE DEF T
    <3>1. QED BY <1>1, <1>4, PrimitivesMem
  <2> HIDE DEF d
  <2>2. \A x \in Buf \ T : d.b_blkno[x] = c.b_blkno[x] /\ d.b_bufsize[x] = c.b_bufsize[x]
    BY <2>1 DEF MemOK, Same
  <2>3. Assigned(d, r.ret, w, Frags)
    <3>1. CASE r.ret = "idle"
      BY <3>1, NothingAsked
    <3>2. CASE r.ret # "idle"
      <4>1. /\ w.bp = r.bp /\ w.first = r.first /\ w.call = r.call /\ w.blk = r.blk
            /\ w.size = r.size /\ w.ret = r.ret
        BY <1>1, <3>2 DEF Regs
      <4> HIDE DEF w
      <4>2. Fits(w, Frags)
        BY <1>1, <1>2, <3>2, <4>1 DEF Assigned, CallOver, Fits
      <4>3. HasBp(r.ret, w) => d.b_blkno[w.bp] = w.blk
        <5> SUFFICES ASSUME HasBp(r.ret, w) PROVE d.b_blkno[w.bp] = w.blk
          OBVIOUS
        <5>1. r.ret = "overlap"
          BY <1>3 DEF HasBp
        <5>2. HasBp(pc[p], r)
          BY <1>2, <5>1 DEF HasBp
        <5>3. c.b_blkno[r.bp] = r.blk /\ r.bp \in Buf \ T
          BY <1>1, <1>3, <5>1, <5>2, HoldsOne DEF Assigned
        <5>4. QED BY <2>2, <4>1, <5>3
      <4>4. r.first # None => d.b_blkno[r.first] = r.call.blk
        <5>1. r.first # None => r.first \in Buf \ T
          BY <1>1, <1>3 DEF Regs
        <5>2. QED BY <1>1, <2>2, <5>1 DEF Assigned
      <4>5. ~Short(r.ret, w)
        BY <1>3 DEF Short
      <4>6. QED BY <1>3, <4>1, <4>2, <4>3, <4>4, <4>5 DEF Assigned
    <3>3. QED BY <3>1, <3>2
  <2>4. QED BY <1>4, <1>6, <2>1, <2>3, MemEnds
<1>7. QED BY <1>2, <1>5, <1>6

\* breada() has the block itself.
LEMMA GotFirstMem ==
  ASSUME IInv, IInv', MInv, NEW p \in Procs, GotFirst(p)
  PROVE  MInv' /\ c'.load = c.load
<1> DEFINE r == loc[p]
           b == r.bp
           d == IF "DONE" \in c.flags[b] THEN c ELSE StartRead(c, b, {})
           w == [r EXCEPT !.first = b, !.bp = None]
<1>1. /\ MemOK(c, c, {}, Frags) /\ Frags \in Nat /\ r \in Regs(Buf)
      /\ Assigned(c, pc[p], r, Frags)
  BY MemHere
<1>2. /\ pc[p] = "got" /\ r.call.op = "breada" /\ r.blk = r.call.blk
      /\ Goto(p, d, "readahead", w)
  BY DEF GotFirst, At
<1>3. MemOK(d, c, {}, Frags)
  BY <1>1, PrimitivesMem
<1>4. /\ w.bp = None /\ w.first = b /\ w.call = r.call /\ w.blk = r.blk /\ w.size = r.size
  BY <1>1 DEF Regs
<1> HIDE DEF d, w
<1>5. c.b_blkno[b] = r.blk /\ Fits(r, Frags)
  BY <1>1, <1>2 DEF Assigned, HasBp, CallOver
<1>6. Assigned(c, "readahead", w, Frags)
  BY <1>2, <1>4, <1>5 DEF Assigned, HasBp, Short, Fits
<1>7. QED BY <1>2, <1>3, <1>6, MemStays

\* The end of breada(): a buffer that is given away may lose its block.
LEMMA BreadaMem ==
  ASSUME IInv, IInv', MInv, NEW p \in Procs, pc[p] \in {"got", "readahead"},
         loc[p].call.op = "breada", NEW d, NEW T, MemOK(d, c, T, Frags),
         T \subseteq Held(pc[p], loc[p]), loc[p].first \notin T, BreadaEnd(p, d, loc[p])
  PROVE  MInv' /\ c'.load = c.load
<1> DEFINE r == loc[p]
           v == [r EXCEPT !.call = BreadOf(@), !.blk = r.call.blk]
           w == [r EXCEPT !.blk = r.call.blk, !.bp = r.first]
<1>1. /\ r \in Regs(Buf) /\ Assigned(c, pc[p], r, Frags) /\ Shape(pc[p], r)
  BY MemHere
<1>2. Fits(r, Frags) /\ r.call \in CallRec /\ r.call.op = "breada"
  BY <1>1 DEF Assigned, CallOver, Shape, NoCall
<1>3. CASE r.first = None
  <2>1. Goto(p, d, "getblk", v)
    BY <1>3 DEF BreadaEnd
  <2>2. BreadOf(r.call).op = "read" /\ BreadOf(r.call).blk = r.call.blk /\ r.call.blk \in Nat
    BY <1>2 DEF BreadOf, CallRec
  <2>3. /\ v.call = BreadOf(r.call) /\ v.blk = r.call.blk /\ v.size = r.size
        /\ v.first = None
    BY <1>1, <1>3 DEF Regs
  <2> HIDE DEF v
  <2>4. Assigned(d, "getblk", v, Frags)
    BY <1>2, <2>2, <2>3 DEF Assigned, HasBp, Short, Fits
  <2>5. QED BY <2>1, <2>4, MemEnds
<1>4. CASE r.first # None
  <2>1. Goto(p, d, "biowait", w)
    BY <1>4 DEF BreadaEnd
  <2>2. r.call.blk \in Nat
    BY <1>2 DEF CallRec
  <2>3. /\ w.call = r.call /\ w.blk = r.call.blk /\ w.size = r.size
        /\ w.first = r.first /\ w.bp = r.first
    BY <1>1 DEF Regs
  <2> HIDE DEF w
  <2>4. d.b_blkno[r.first] = r.call.blk
    BY <1>1, <1>4 DEF Assigned, MemOK, Same, Regs
  <2>5. Assigned(d, "biowait", w, Frags)
    BY <1>2, <2>2, <2>3, <2>4 DEF Assigned, Short, Fits
  <2>6. QED BY <2>1, <2>5, MemEnds
<1>5. QED BY <1>3, <1>4

\* breada() asks for the read-ahead block, or ends.
LEMMA ReadaheadMem ==
  ASSUME IInv, IInv', MInv, NEW p \in Procs, Readahead(p)
  PROVE  MInv' /\ c'.load = c.load
<1> DEFINE r == loc[p]
           w == [r EXCEPT !.blk = r.call.to]
<1>1. /\ MemOK(c, c, {}, Frags) /\ r \in Regs(Buf) /\ Assigned(c, pc[p], r, Frags)
      /\ Shape(pc[p], r)
  BY MemHere
<1>2. pc[p] = "readahead" /\ (BreadaEnd(p, c, r) \/ Goto(p, c, "getblk", w))
  BY DEF Readahead, At
<1>3. Fits(r, Frags) /\ r.call \in CallRec /\ r.call.op = "breada"
  BY <1>1, <1>2 DEF Assigned, CallOver, Shape, NoCall
<1>4. CASE BreadaEnd(p, c, r)
  BY <1>1, <1>2, <1>3, <1>4, BreadaMem
<1>5. CASE Goto(p, c, "getblk", w)
  <2>1. r.call.to \in Nat
    BY <1>3 DEF CallRec
  <2>2. /\ w.call = r.call /\ w.blk = r.call.to /\ w.size = r.size
        /\ w.first = r.first /\ w.bp = r.bp
    BY <1>1 DEF Regs
  <2> HIDE DEF w
  <2>3. Assigned(c, "getblk", w, Frags)
    BY <1>1, <1>3, <2>1, <2>2 DEF Assigned, HasBp, Short, Fits
  <2>4. QED BY <1>1, <1>5, <2>3, MemStays
<1>6. QED BY <1>2, <1>4, <1>5

\* breada() starts the read-ahead and lets go of the buffer.
LEMMA GotAheadMem ==
  ASSUME IInv, IInv', MInv, NEW p \in Procs, GotAhead(p)
  PROVE  MInv' /\ c'.load = c.load
<1> DEFINE r == loc[p]
           b == r.bp
           T == {b}
           d == IF "DONE" \in c.flags[b] THEN Brelse(c, b) ELSE StartRead(c, b, {"ASYNC"})
<1>1. MemOK(c, c, T, Frags) /\ Frags \in Nat /\ Shape(pc[p], r)
  BY MemHere
<1>2. pc[p] = "got" /\ r.call.op = "breada" /\ BreadaEnd(p, d, r)
  BY DEF GotAhead, At
<1>3. HasBp(pc[p], r) /\ b # r.first
  BY <1>1, <1>2 DEF Shape, HasBp
<1>4. b \in Held(pc[p], r) /\ b \in T /\ T \subseteq Held(pc[p], r) /\ r.first \notin T
  BY <1>3, HoldsOne
<1>5. MemOK(d, c, T, Frags)
  <2> HIDE DEF T
  <2>1. QED BY <1>1, <1>4, PrimitivesMem
<1> HIDE DEF d, T
<1>6. QED BY <1>2, <1>4, <1>5, BreadaMem

\* getnewbuf() gives getblk() the oldest buffer, with the new block.
LEMMA GetnewbufMem ==
  ASSUME IInv, IInv', MInv, NEW p \in Procs, Getnewbuf(p)
  PROVE  MInv' /\ c'.load = c.load
<1> DEFINE b == Oldest(c)
           r == loc[p]
           T == {b}
           d == Reassigned(c, b)
           B == [d.b_bcount EXCEPT ![b] = 0]
           K == [d.b_blkno EXCEPT ![b] = r.blk]
           e == [d EXCEPT !.b_bcount = B, !.b_blkno = K]
           w == [r EXCEPT !.bp = b]
<1>1. /\ MemOK(c, c, T, Frags) /\ Frags \in Nat /\ r \in Regs(Buf)
      /\ Assigned(c, pc[p], r, Frags)
  BY MemHere
<1>2. pc[p] = "getnewbuf" /\ r.bp = None /\ b # None /\ Goto(p, e, "brealloc", w)
  BY DEF Getnewbuf, At
<1>3. b \in Buf /\ "BUSY" \notin c.flags[b] /\ b \in T
  BY <1>2, OldestIsFree
<1>4. r.blk \in Nat /\ r.blk <= Frags /\ Fits(r, Frags)
  BY <1>1, <1>2 DEF Assigned, CallOver, Fits, Regs
<1>5. MemOK(d, c, T, Frags)
  <2> HIDE DEF T, b
  <2>1. QED BY <1>1, <1>3, PrimitivesMem
<1>6. w.bp = b /\ w.first = r.first /\ w.call = r.call /\ w.blk = r.blk /\ w.size = r.size
  BY <1>1, <1>3 DEF Regs
<1> HIDE DEF d, w, b
<1>7. d.b_blkno \in [Buf -> Nat \cup {None}] /\ d.b_bcount \in [Buf -> Nat]
  BY <1>5 DEF MemOK, MemIs
<1>8. /\ B \in [Buf -> Nat] /\ K \in [Buf -> Nat \cup {None}] /\ B[b] = 0 /\ K[b] = r.blk
      /\ \A x \in Buf \ {b} : B[x] = d.b_bcount[x] /\ K[x] = d.b_blkno[x]
  BY <1>3, <1>4, <1>7
<1> HIDE DEF B, K
<1>9. /\ Records(e) /\ e.b_bcount = B /\ e.b_blkno = K /\ e.load = d.load
      /\ e.b_bufsize = d.b_bufsize /\ e.fresh = d.fresh /\ e.disk = d.disk
  BY <1>5 DEF MemOK, Records
<1> HIDE DEF e
<1>10. MemIs(e, Frags)
  <2>1. MemIs(d, Frags)
    BY <1>5 DEF MemOK
  <2>2. ASSUME NEW x \in Buf
        PROVE  B[x] <= d.b_bufsize[x] /\ (K[x] # None => K[x] + B[x] <= Frags)
    <3>1. CASE x = b
      BY <1>1, <1>3, <1>4, <1>8, <2>1, <3>1 DEF MemIs
    <3>2. CASE x # b
      BY <1>8, <2>1, <3>2 DEF MemIs
    <3>3. QED BY <3>1, <3>2
  <2>3. QED BY <1>8, <1>9, <2>1, <2>2 DEF MemIs
<1>11. MemOK(e, c, T, Frags)
  <2>1. \A x \in Buf \ T : e.b_blkno[x] = c.b_blkno[x]
    BY <1>3, <1>5, <1>8, <1>9 DEF MemOK, Same
  <2>2. QED BY <1>5, <1>9, <1>10, <2>1 DEF MemOK, Same
<1>12. r.first # None => r.first \in Buf \ T
  <2>1. r.first # None => r.first \in Held(pc[p], r)
    BY DEF Held
  <2>2. QED BY <1>3, <2>1, MemHere
<1>13. Assigned(e, "brealloc", w, Frags)
  <2>1. r.first # None => e.b_blkno[r.first] = r.call.blk
    BY <1>1, <1>11, <1>12 DEF Assigned, MemOK, Same
  <2>2. QED BY <1>4, <1>6, <1>8, <1>9, <2>1 DEF Assigned, Short, Fits
<1>14. QED BY <1>2, <1>3, <1>11, <1>13, MemEnds

\* The buffers that bflush() and binvalfree() look at are free.
LEMMA InOrder ==
  ASSUME NEW d \in Caches(Buf), FreeOK(d), DOMAIN d.flags = Buf
  PROVE  /\ \A i \in DOMAIN Order(d) : "BUSY" \notin d.flags[Order(d)[i]]
         /\ Delayed(d) # {} => 1 .. Min(Delayed(d)) - 1 \subseteq DOMAIN Order(d)
<1> DEFINE s == d.free["LRU"]
           t == d.free["AGE"]
<1>1. s \in Seq(Buf) /\ t \in Seq(Buf)
  BY Fields DEF Lists
<1>2. Order(d) = s \o t
  BY DEF Order
<1>3. ASSUME NEW x \in ToSet(s) \cup ToSet(t) PROVE "BUSY" \notin d.flags[x]
  <2>1. x \in On(d, "LRU") \/ x \in On(d, "AGE")
    BY DEF On
  <2>2. x \in Buf
    BY <1>1 DEF ToSet
  <2>3. QED BY <2>1, <2>2 DEF FreeOK, Lists
<1> HIDE DEF s, t
<1>4. /\ DOMAIN Order(d) = 1 .. Len(s) + Len(t) /\ Len(s) \in Nat /\ Len(t) \in Nat
      /\ DOMAIN s = 1 .. Len(s) /\ DOMAIN t = 1 .. Len(t)
      /\ \A i \in 1 .. Len(s) + Len(t) :
           Order(d)[i] = IF i <= Len(s) THEN s[i] ELSE t[i - Len(s)]
  BY <1>1, <1>2, ConcatIs
<1>5. ASSUME NEW i \in DOMAIN Order(d) PROVE Order(d)[i] \in ToSet(s) \cup ToSet(t)
  <2>1. CASE i <= Len(s)
    <3>1. i \in DOMAIN s /\ Order(d)[i] = s[i]
      BY <1>4, <2>1
    <3>2. QED BY <3>1 DEF ToSet
  <2>2. CASE ~(i <= Len(s))
    <3>1. i - Len(s) \in DOMAIN t /\ Order(d)[i] = t[i - Len(s)]
      BY <1>4, <2>2
    <3>2. QED BY <3>1 DEF ToSet
  <2>3. QED BY <2>1, <2>2
<1>6. ASSUME Delayed(d) # {} PROVE 1 .. Min(Delayed(d)) - 1 \subseteq DOMAIN Order(d)
  <2>1. Delayed(d) \subseteq Nat
    BY <1>4 DEF Delayed
  <2>2. \E x \in Delayed(d) : \A y \in Delayed(d) : x <= y
    BY <1>6, <2>1, Least
  <2>3. Min(Delayed(d)) \in Delayed(d)
    BY <2>2 DEF Min
  <2>4. Min(Delayed(d)) \in 1 .. Len(s) + Len(t)
    BY <1>4, <2>3 DEF Delayed
  <2>5. QED BY <1>4, <2>4
<1>7. QED BY <1>3, <1>5, <1>6

\* binvalfree() takes the blocks of free buffers only.
LEMMA BinvalfreeMem ==
  ASSUME IInv, IInv', MInv, NEW p \in Procs, Binvalfree(p)
  PROVE  MInv' /\ c'.load = c.load
<1> DEFINE b == Order(c)[Min(Delayed(c))]
           r == loc[p]
           seen == IF Delayed(c) = {} THEN DOMAIN Order(c)
                   ELSE 1 .. Min(Delayed(c)) - 1
           gone == {x \in Buf : c.b_blkno[x] # None /\ \E i \in seen : Order(c)[i] = x}
           B == [x \in Buf |-> IF x \in gone THEN None ELSE c.b_blkno[x]]
           F == [x \in Buf |-> IF x \in gone THEN c.flags[x] \cup {"INVAL"} ELSE c.flags[x]]
           d == [c EXCEPT !.b_blkno = B, !.flags = F]
           on == {"ASYNC"}
           off == {}
           f == SetF(d, b, on, off)
           g == Notavail(f, b)
           w == [r EXCEPT !.ep = b, !.ret = "binvalfree"]
<1>1. /\ MemOK(c, c, gone, Frags) /\ Frags \in Nat /\ r \in Regs(Buf) /\ None \notin Buf
      /\ Assigned(c, pc[p], r, Frags) /\ Shape(pc[p], r)
  BY MemHere
<1>2. pc[p] = "binvalfree" /\ (Return(p, d) \/ (Delayed(c) # {} /\ Bwrite(p, g, b, "binvalfree", r)))
  BY DEF Binvalfree, At
<1>3. \A x \in gone : "BUSY" \notin c.flags[x]
  <2>1. c \in Caches(Buf) /\ FreeOK(c) /\ DOMAIN c.flags = Buf
    BY Fields DEF IInv
  <2>2. seen \subseteq DOMAIN Order(c)
    BY <2>1, InOrder
  <2>3. QED BY <2>1, <2>2, InOrder
<1> HIDE DEF gone, seen
<1>4. B \in [Buf -> Nat \cup {None}] /\ \A x \in Buf \ gone : B[x] = c.b_blkno[x]
  BY <1>1 DEF MemOK, MemIs
<1>5. \A x \in Buf : B[x] # None => B[x] = c.b_blkno[x]
  OBVIOUS
<1> HIDE DEF B, F
<1>6. MemOK(d, c, gone, Frags)
  BY <1>1, <1>4, <1>5 DEF MemOK, MemIs, Records, Same
<1> HIDE DEF d, on, off, b
<1>7. MemOK(f, c, gone, Frags)
  BY <1>1, <1>6, PrimitivesMem
<1> HIDE DEF f
<1>8. MemOK(g, c, gone, Frags)
  BY <1>1, <1>7, PrimitivesMem
<1> HIDE DEF g
<1>9. CASE Return(p, d)
  BY <1>3, <1>6, <1>9, NothingAsked, MemEnds DEF Return
<1>10. CASE Bwrite(p, g, b, "binvalfree", r)
  <2> DEFINE l == IF "ASYNC" \notin g.flags[b] THEN "written"
                  ELSE IF "DELWRI" \in g.flags[b] THEN "age" ELSE "binvalfree"
             h == StartWrite(g, b)
  <2>1. Goto(p, h, l, w) /\ l \in {"written", "age", "binvalfree"}
    BY <1>10 DEF Bwrite
  <2>2. MemOK(h, c, gone, Frags)
    BY <1>1, <1>8, PrimitivesMem
  <2>3. /\ w.first = r.first /\ w.call = r.call /\ w.blk = r.blk /\ w.size = r.size
        /\ w.ret = "binvalfree"
    BY <1>1 DEF Regs
  <2>4. Fits(r, Frags) /\ r.first = None
    BY <1>1, <1>2 DEF Assigned, CallOver, Shape, NoCall
  <2> HIDE DEF l, h, w
  <2>5. Assigned(h, l, w, Frags)
    BY <2>1, <2>3, <2>4 DEF Assigned, HasBp, Short, Fits
  <2>6. QED BY <1>3, <2>1, <2>2, <2>5, MemEnds
<1>11. QED BY <1>2, <1>9, <1>10

\* There are finitely many buffers.
LEMMA FiniteBuf ==
  ASSUME IInv
  PROVE  IsFiniteSet(Buf)
<1> DEFINE s == Loads[c.load].bufs
<1>1. Buf = Range(s) /\ c.load \in DOMAIN Loads
  BY Fields DEF IInv
<1>2. s \in Seq(Range(s))
  BY <1>1, BufAssumption
<1>3. DOMAIN s = 1 .. Len(s) /\ Len(s) \in Nat /\ s \in [1 .. Len(s) -> Buf]
  BY <1>1, <1>2
<1>4. s \in Surjection(1 .. Len(s), Buf)
  BY <1>1, <1>3 DEF Surjection, Range
<1>5. QED BY <1>3, <1>4, FS_NatSurjection DEF ExistsSurjection

\* Memory that moves between a buffer of p and a free one is not lost.
LEMMA MemMoved ==
  ASSUME IInv, MInv, NEW a \in Buf, NEW b \in Buf, a # b, NEW B \in [Buf -> Nat],
         B[a] + B[b] = c.b_bufsize[a] + c.b_bufsize[b],
         \A x \in Buf \ {a, b} : B[x] = c.b_bufsize[x]
  PROVE  Total(B) = Total(c.b_bufsize)
<1>1. IsFiniteSet(Buf)
  BY FiniteBuf
<1>2. c.b_bufsize \in [Buf -> Int] /\ B \in [Buf -> Int]
  BY DEF MInv, MemIs
<1>3. QED BY <1>1, <1>2, SumMoved

\* The others have neither the buffers of p nor free ones.
LEMMA NotTheirs ==
  ASSUME IInv, MInv, NEW p \in Procs, NEW a, a \in Held(pc[p], loc[p]),
         NEW b, "BUSY" \notin c.flags[b]
  PROVE  /\ a # b
         /\ \A q \in Procs \ {p} : \A x \in Held(pc[q], loc[q]) : x \in Buf \ {a, b}
         /\ \A x \in Held(pc[p], loc[p]) : x \in Buf \ {b}
<1>1. \A q \in Procs : \A x \in Held(pc[q], loc[q]) : x \in Buf /\ "BUSY" \in c.flags[x]
  BY MemHere
<1>2. QED BY <1>1 DEF IInv, Apart

\* allocbuf() takes memory from the oldest buffer.
LEMMA AllocbufTakeMem ==
  ASSUME IInv, IInv', MInv, NEW p \in Procs, AllocbufTake(p)
  PROVE  MInv' /\ c'.load = c.load
<1> DEFINE b == Oldest(c)
           r == loc[p]
           a == r.bp
           T == {b}
           d == Reassigned(c, b)
           need == r.size - c.b_bufsize[a]
           take == IF need >= c.b_bufsize[b] THEN c.b_bufsize[b] ELSE need
           left == c.b_bufsize[b] - take
           B == [d.b_bufsize EXCEPT ![a] = @ + take, ![b] = left]
           K == [d.b_bcount EXCEPT ![b] = IF @ > left THEN left ELSE @]
           d1 == [d EXCEPT !.b_bufsize = B, !.b_bcount = K]
           inv == IF left = 0 THEN {"INVAL"} ELSE {}
           off == {}
           d2 == SetF(d1, b, inv, off)
           e == Brelse(d2, b)
<1>1. /\ MemOK(c, c, T, Frags) /\ Frags \in Nat /\ r \in Regs(Buf)
      /\ Assigned(c, pc[p], r, Frags)
  BY MemHere
<1>2. pc[p] = "getnewbuf" /\ a # None /\ b # None /\ Goto(p, e, "allocbuf", r)
  BY DEF AllocbufTake, At
<1>3. b \in Buf /\ "BUSY" \notin c.flags[b] /\ b \in T
  BY <1>2, OldestIsFree
<1>4. HasBp(pc[p], r) /\ a \in Held(pc[p], r) /\ a \in Buf
  BY <1>2, HoldsOne DEF HasBp
<1>5. /\ a # b
      /\ \A q \in Procs \ {p} : \A x \in Held(pc[q], loc[q]) : x \in Buf \ {a, b}
      /\ \A x \in Held(pc[p], r) : x \in Buf \ {b}
  BY <1>3, <1>4, NotTheirs
<1>6. MemOK(d, c, T, Frags)
  <2> HIDE DEF T, b
  <2>1. QED BY <1>1, <1>3, PrimitivesMem
<1>7. c.b_bufsize[a] \in Nat /\ c.b_bufsize[b] \in Nat /\ r.size \in Nat
      /\ c.b_bufsize[a] < r.size
  BY <1>1, <1>2, <1>3, <1>4 DEF MInv, MemIs, Assigned, Short, Regs
<1>8. /\ take \in Nat /\ left \in Nat /\ left + take = c.b_bufsize[b]
  BY <1>7
<1> HIDE DEF b, d, take, left, inv, off
<1>9. d.b_bufsize = c.b_bufsize /\ MemIs(d, Frags) /\ Records(d)
  BY <1>6 DEF MemOK, Same
<1>10. /\ B \in [Buf -> Nat] /\ B[a] = c.b_bufsize[a] + take /\ B[b] = left
       /\ \A x \in Buf \ {a, b} : B[x] = c.b_bufsize[x]
  <2>1. d.b_bufsize \in [Buf -> Nat] /\ d.b_bufsize[a] + take \in Nat
    BY <1>4, <1>7, <1>8, <1>9 DEF MemIs
  <2>2. QED BY <1>3, <1>4, <1>5, <1>8, <1>9, <2>1
<1>11. /\ K \in [Buf -> Nat] /\ K[b] <= left /\ K[b] <= d.b_bcount[b]
       /\ \A x \in Buf \ {b} : K[x] = d.b_bcount[x]
  <2>1. d.b_bcount \in [Buf -> Nat]
    BY <1>9 DEF MemIs
  <2>2. QED BY <1>3, <1>8, <2>1
<1> HIDE DEF B, K
<1>12. /\ Records(d1) /\ d1.b_bufsize = B /\ d1.b_bcount = K /\ d1.load = d.load
       /\ d1.b_blkno = d.b_blkno /\ d1.fresh = d.fresh /\ d1.disk = d.disk
  BY <1>9 DEF Records
<1> HIDE DEF d1
<1>13. MemIs(d1, Frags)
  <2>1. ASSUME NEW x \in Buf
        PROVE  K[x] <= B[x] /\ (d.b_blkno[x] # None => d.b_blkno[x] + K[x] <= Frags)
    <3>1. /\ d.b_bcount[x] <= c.b_bufsize[x] /\ d.b_bcount[x] \in Nat /\ c.b_bufsize[x] \in Nat
          /\ d.b_blkno[x] # None => d.b_blkno[x] \in Nat /\ d.b_blkno[x] + d.b_bcount[x] <= Frags
          /\ B[x] \in Nat /\ K[x] \in Nat
      BY <1>9, <1>10, <1>11 DEF MemIs
    <3>2. K[x] <= d.b_bcount[x]
      BY <1>11, <3>1
    <3>3. K[x] <= B[x]
      BY <1>5, <1>8, <1>10, <1>11, <3>1
    <3>4. QED BY <1>1, <3>1, <3>2, <3>3
  <2>2. QED BY <1>9, <1>10, <1>11, <1>12, <2>1 DEF MemIs
<1>14. MemOK(d1, d1, T, Frags)
  BY <1>12, <1>13 DEF MemOK, Same
<1>15. MemOK(d2, d1, T, Frags)
  BY <1>1, <1>14, PrimitivesMem
<1> HIDE DEF d2
<1>16. MemOK(e, d1, T, Frags)
  <2> HIDE DEF T
  <2>1. QED BY <1>1, <1>3, <1>15, PrimitivesMem
<1> HIDE DEF e
<1>17. /\ MemIs(e, Frags) /\ e.load = c.load /\ e.b_bufsize = B
       /\ \A x \in Buf \ {b} : e.b_blkno[x] = c.b_blkno[x]
  BY <1>6, <1>12, <1>16 DEF MemOK, Same
<1>18. Total(e.b_bufsize) = Total(c.b_bufsize)
  <2>1. B[a] + B[b] = c.b_bufsize[a] + c.b_bufsize[b]
    BY <1>7, <1>8, <1>10
  <2>2. QED BY <1>3, <1>4, <1>5, <1>10, <1>17, <2>1, MemMoved
<1>19. Assigned(e, "allocbuf", r, Frags)
  <2>1. r.first # None => r.first \in Buf \ {b}
    BY <1>5 DEF Held
  <2>2. e.b_blkno[a] = c.b_blkno[a]
    BY <1>4, <1>5, <1>17
  <2>3. QED BY <1>1, <1>2, <1>4, <1>17, <2>1, <2>2 DEF Assigned, Short, CallOver
<1>20. \A q \in Procs \ {p} : \A x \in Held(pc[q], loc[q]) :
         e.b_blkno[x] = c.b_blkno[x] /\ e.b_bufsize[x] = c.b_bufsize[x]
  BY <1>5, <1>10, <1>17
<1>21. QED BY <1>2, <1>17, <1>18, <1>19, <1>20, MemLands

\* e is d but for flags, lists, sleepers and the block of b, which may be lost.
Resting(e, d, b) ==
  /\ Records(e) /\ e.load = d.load /\ e.b_bufsize = d.b_bufsize
  /\ e.b_bcount = d.b_bcount /\ e.fresh = d.fresh /\ e.disk = d.disk
  /\ e.b_blkno \in {d.b_blkno, [d.b_blkno EXCEPT ![b] = None]}

\* brelse() moves nothing.
LEMMA BrelseRests ==
  ASSUME NEW d, NEW b
  PROVE  \A h : Resting(h, d, b) => Resting(Brelse(h, b), d, b)
<1> DEFINE L(h) == Resting(h, d, b)
<1>0. \A h, u : L(h) => /\ L([h EXCEPT !.flags = u]) /\ L([h EXCEPT !.free = u])
                        /\ L([h EXCEPT !.wanted = u]) /\ L([h EXCEPT !.slp = u])
  BY DEF Resting, Records
<1>1. \A h : L(h) => L(Brelvp(h, b))
  <2> SUFFICES ASSUME NEW h, L(h) PROVE L(Brelvp(h, b))
    OBVIOUS
  <2> DEFINE u == [h.b_blkno EXCEPT ![b] = None]
  <2>1. Brelvp(h, b) = [h EXCEPT !.b_blkno = u]
    BY DEF Brelvp
  <2>2. u = [d.b_blkno EXCEPT ![b] = None]
    BY DEF Resting
  <2> HIDE DEF u
  <2>3. L([h EXCEPT !.b_blkno = u])
    BY <2>2 DEF Resting, Records
  <2>4. QED BY <2>1, <2>3
<1> HIDE DEF L
<1>2. \A h, x, on, off : L(h) => L(SetF(h, x, on, off))
  BY <1>0 DEF SetF
<1>3. \A h, x : L(h) => L(Wakeup(h, x))
  BY <1>0 DEF Wakeup
<1>4. \A h, x : L(h) => L(BrelseWake(h, x))
  <2> SUFFICES ASSUME NEW h, NEW x, L(h) PROVE L(BrelseWake(h, x))
    OBVIOUS
  <2> DEFINE d1 == IF "WANTED" \in h.flags[x] THEN Wakeup(h, x) ELSE h
             g == [d1 EXCEPT !.wanted = FALSE]
  <2>1. BrelseWake(h, x) = IF d1.wanted THEN Wakeup(g, FREELIST) ELSE d1
    BY DEF BrelseWake
  <2>2. L(d1)
    BY <1>3
  <2> HIDE DEF d1
  <2>3. L(g)
    BY <1>0, <2>2
  <2> HIDE DEF g
  <2>4. QED BY <1>3, <2>1, <2>2, <2>3
<1>5. \A h, x : L(h) => L(BrelseFree(h, x))
  <2> SUFFICES ASSUME NEW h, NEW x, L(h) PROVE L(BrelseFree(h, x))
    OBVIOUS
  <2> DEFINE list == IF h.b_bufsize[x] = 0 THEN "EMPTY"
                     ELSE IF h.flags[x] \cap {"ERROR", "INVAL", "AGE"} # {} THEN "AGE"
                     ELSE "LRU"
             head == h.b_bufsize[x] = 0 \/ h.flags[x] \cap {"ERROR", "INVAL"} # {}
             u == [h.free EXCEPT ![list] = IF head THEN <<x>> \o @ ELSE Append(@, x)]
             g == [h EXCEPT !.free = u]
             off == {"WANTED", "BUSY", "ASYNC", "AGE"}
             on == {}
  <2>1. BrelseFree(h, x) = SetF(g, x, on, off)
    BY DEF BrelseFree
  <2> HIDE DEF u
  <2>2. L(g)
    BY <1>0
  <2> HIDE DEF g, on, off
  <2>3. QED BY <1>2, <2>1, <2>2
<1>6. \A h : L(h) => L(Brelse(h, b))
  BY <1>1, <1>4, <1>5 DEF Brelse
<1>7. QED BY <1>6 DEF L

\* The cache after an allocbuf() that has the memory.
Allotted(d, b, size) == [Shrink(d, b, size) EXCEPT !.b_bcount[b] = size]

\* allocbuf() sets b_bcount, when the buffer has the memory or gives the
\* excess to an empty header.
LEMMA ShrinkMem ==
  ASSUME IInv, MInv, NEW p \in Procs, NEW a, a \in Held(pc[p], loc[p]), NEW size \in Nat,
         size <= c.b_bufsize[a], c.b_blkno[a] # None => c.b_blkno[a] + size <= Frags,
         NEW e, e = Allotted(c, a, size)
  PROVE  /\ MemIs(e, Frags) /\ e.load = c.load /\ Total(e.b_bufsize) = Total(c.b_bufsize)
         /\ \E T : /\ \A x \in T : "BUSY" \notin c.flags[x]
                   /\ \A x \in Buf \ T : e.b_blkno[x] = c.b_blkno[x]
                   /\ \A x \in Buf \ (T \cup {a}) : e.b_bufsize[x] = c.b_bufsize[x]
<1>1. a \in Buf /\ None \notin Buf /\ MemOK(c, c, {}, Frags) /\ Frags \in Nat
  BY MemHere
<1>2. c \in Caches(Buf) /\ FreeOK(c) /\ DOMAIN c.flags = Buf
  BY Fields DEF IInv
<1>3. CASE size >= c.b_bufsize[a] \/ c.free["EMPTY"] = <<>>
  <2> DEFINE K == [c.b_bcount EXCEPT ![a] = size]
  <2>1. e = [c EXCEPT !.b_bcount = K]
    BY <1>3 DEF Allotted, Shrink
  <2>2. K \in [Buf -> Nat] /\ K[a] = size /\ \A x \in Buf \ {a} : K[x] = c.b_bcount[x]
    BY <1>1 DEF MemOK, MemIs
  <2> HIDE DEF K
  <2>3. /\ e.b_bcount = K /\ e.b_bufsize = c.b_bufsize /\ e.b_blkno = c.b_blkno
        /\ e.fresh = c.fresh /\ e.disk = c.disk /\ e.load = c.load
    BY <1>1, <2>1 DEF MemOK, Records
  <2>4. MemIs(e, Frags)
    BY <1>1, <2>2, <2>3 DEF MemOK, MemIs
  <2> DEFINE T == {}
  <2>5. /\ \A x \in T : "BUSY" \notin c.flags[x]
        /\ \A x \in Buf \ T : e.b_blkno[x] = c.b_blkno[x]
        /\ \A x \in Buf \ (T \cup {a}) : e.b_bufsize[x] = c.b_bufsize[x]
    BY <2>3
  <2> HIDE DEF T
  <2>6. QED BY <2>3, <2>4, <2>5
<1>4. CASE ~(size >= c.b_bufsize[a]) /\ c.free["EMPTY"] # <<>>
  <2> DEFINE b == Head(c.free["EMPTY"])
             d0 == Notavail(c, b)
             B == [d0.b_bufsize EXCEPT ![b] = c.b_bufsize[a] - size, ![a] = size]
             K0 == [d0.b_bcount EXCEPT ![b] = 0]
             d1 == [d0 EXCEPT !.b_bufsize = B, !.b_bcount = K0]
             on == {"INVAL"}
             off == {}
             d2 == SetF(d1, b, on, off)
             s == Brelse(d2, b)
             K == [s.b_bcount EXCEPT ![a] = size]
  <2>1. e = [s EXCEPT !.b_bcount = K]
    BY <1>4 DEF Allotted, Shrink
  <2>2. b \in Buf /\ "BUSY" \notin c.flags[b] /\ c.b_bufsize[b] = 0
    <3>1. c.free["EMPTY"] \in Seq(Buf)
      BY <1>2, Fields DEF Lists
    <3>2. 1 \in DOMAIN c.free["EMPTY"] /\ b = c.free["EMPTY"][1] /\ b \in Buf
      BY <1>4, <3>1
    <3>3. b \in On(c, "EMPTY")
      BY <3>2 DEF On, ToSet
    <3>4. QED BY <1>2, <3>2, <3>3 DEF FreeOK, Lists
  <2> HIDE DEF b
  <2>3. a # b
    BY <2>2, NotTheirs
  <2>4. MemOK(d0, c, {}, Frags)
    BY <1>1, PrimitivesMem
  <2> HIDE DEF d0
  <2>5. /\ Records(d0) /\ MemIs(d0, Frags) /\ d0.load = c.load
        /\ d0.b_bufsize = c.b_bufsize
        /\ \A x \in Buf : d0.b_blkno[x] = c.b_blkno[x]
    BY <2>4 DEF MemOK, Same
  <2>6. c.b_bufsize[a] - size \in Nat
    BY <1>1, <1>4 DEF MemOK, MemIs
  <2>7. /\ B \in [Buf -> Nat] /\ B[b] = c.b_bufsize[a] - size /\ B[a] = size
        /\ \A x \in Buf \ {a, b} : B[x] = c.b_bufsize[x]
    <3>1. d0.b_bufsize \in [Buf -> Nat]
      BY <2>5 DEF MemIs
    <3>2. QED BY <1>1, <2>2, <2>3, <2>5, <2>6, <3>1
  <2>8. /\ K0 \in [Buf -> Nat] /\ K0[b] = 0
        /\ \A x \in Buf \ {b} : K0[x] = d0.b_bcount[x]
    <3>1. d0.b_bcount \in [Buf -> Nat]
      BY <2>5 DEF MemIs
    <3>2. QED BY <2>2, <3>1
  <2> HIDE DEF B, K0
  <2>9. /\ Records(d1) /\ d1.b_bufsize = B /\ d1.b_bcount = K0 /\ d1.load = c.load
        /\ d1.b_blkno = d0.b_blkno /\ d1.fresh = d0.fresh /\ d1.disk = d0.disk
    BY <2>5 DEF Records
  <2> HIDE DEF d1
  <2>10. Resting(d2, d1, b)
    BY <2>9 DEF SetF, Resting, Records
  <2> HIDE DEF d2
  <2>11. Resting(s, d1, b)
    BY <2>10, BrelseRests
  <2> HIDE DEF s
  <2>12. /\ Records(s) /\ s.load = c.load /\ s.b_bufsize = B /\ s.b_bcount = K0
         /\ s.fresh = d0.fresh /\ s.disk = d0.disk
         /\ s.b_blkno \in {d0.b_blkno, [d0.b_blkno EXCEPT ![b] = None]}
    BY <2>9, <2>11 DEF Resting
  <2>13. /\ s.b_blkno \in [Buf -> Nat \cup {None}]
         /\ \A x \in Buf \ {b} : s.b_blkno[x] = c.b_blkno[x]
         /\ s.b_blkno[b] \in {d0.b_blkno[b], None}
    <3>1. d0.b_blkno \in [Buf -> Nat \cup {None}]
      BY <2>5 DEF MemIs
    <3>2. QED BY <2>2, <2>5, <2>12, <3>1
  <2>14. /\ K \in [Buf -> Nat] /\ K[a] = size /\ K[b] = 0
         /\ \A x \in Buf \ {a, b} : K[x] = d0.b_bcount[x]
    BY <1>1, <2>2, <2>3, <2>8, <2>12
  <2> HIDE DEF K
  <2>15. /\ e.b_bcount = K /\ e.b_bufsize = B /\ e.b_blkno = s.b_blkno
         /\ e.fresh = d0.fresh /\ e.disk = d0.disk /\ e.load = c.load
    BY <2>1, <2>12 DEF Records
  <2>16. MemIs(e, Frags)
    <3>1. ASSUME NEW x \in Buf
          PROVE  K[x] <= B[x] /\ (s.b_blkno[x] # None => s.b_blkno[x] + K[x] <= Frags)
      <4>1. CASE x = a
        BY <1>1, <2>3, <2>7, <2>13, <2>14, <4>1
      <4>2. CASE x = b
        <5>1. d0.b_bcount[b] \in Nat /\ (d0.b_blkno[b] # None =>
                d0.b_blkno[b] \in Nat /\ d0.b_blkno[b] + d0.b_bcount[b] <= Frags)
          BY <2>2, <2>5 DEF MemIs
        <5>2. s.b_blkno[b] # None => s.b_blkno[b] = d0.b_blkno[b]
          BY <2>13
        <5>3. QED BY <1>1, <2>6, <2>7, <2>14, <4>2, <5>1, <5>2
      <4>3. CASE x \notin {a, b}
        BY <2>5, <2>7, <2>13, <2>14, <4>3 DEF MemIs
      <4>4. QED BY <4>1, <4>2, <4>3
    <3>2. QED BY <2>5, <2>7, <2>13, <2>14, <2>15, <3>1 DEF MemIs
  <2>17. Total(e.b_bufsize) = Total(c.b_bufsize)
    <3>1. c.b_bufsize[a] \in Nat
      BY <1>1 DEF MemOK, MemIs
    <3>2. B[a] + B[b] = c.b_bufsize[a] + c.b_bufsize[b]
      BY <2>2, <2>7, <3>1
    <3>3. QED BY <1>1, <2>2, <2>3, <2>7, <2>15, <3>2, MemMoved
  <2> DEFINE T == {b}
  <2>18. /\ \A x \in T : "BUSY" \notin c.flags[x]
         /\ \A x \in Buf \ T : e.b_blkno[x] = c.b_blkno[x]
         /\ \A x \in Buf \ (T \cup {a}) : e.b_bufsize[x] = c.b_bufsize[x]
    BY <2>2, <2>7, <2>13, <2>15
  <2> HIDE DEF T
  <2>19. QED BY <2>15, <2>16, <2>17, <2>18
<1>5. QED BY <1>3, <1>4

\* allocbuf() has what it needs, or asks for more.
LEMMA AllocbufMem ==
  ASSUME IInv, IInv', MInv, NEW p \in Procs, Allocbuf(p)
  PROVE  MInv' /\ c'.load = c.load
<1> DEFINE r == loc[p]
           a == r.bp
           e == Allotted(c, a, r.size)
<1>1. /\ MemOK(c, c, {}, Frags) /\ Frags \in Nat /\ r \in Regs(Buf)
      /\ Assigned(c, pc[p], r, Frags) /\ Shape(pc[p], r) /\ None \notin Buf
  BY MemHere
<1>2. /\ pc[p] = "allocbuf"
      /\ IF r.size > c.b_bufsize[a] THEN Goto(p, c, "getnewbuf", r) ELSE Goto(p, e, "got", r)
  BY DEF Allocbuf, At, Allotted
<1>3. HasBp(pc[p], r) /\ a \in Held(pc[p], r) /\ a \in Buf
  BY <1>2, HoldsOne DEF HasBp
<1>4. c.b_blkno[a] = r.blk /\ Fits(r, Frags)
  BY <1>1, <1>2, <1>3 DEF Assigned, CallOver
<1>5. c.b_bufsize[a] \in Nat /\ r.size \in Nat
  BY <1>1, <1>3 DEF MemOK, MemIs, Regs
<1>6. CASE r.size > c.b_bufsize[a]
  <2>1. Assigned(c, "getnewbuf", r, Frags)
    BY <1>1, <1>4, <1>5, <1>6 DEF Assigned, Short
  <2>2. QED BY <1>1, <1>2, <1>6, <2>1, MemStays
<1>7. CASE ~(r.size > c.b_bufsize[a])
  <2>1. Goto(p, e, "got", r) /\ r.size <= c.b_bufsize[a]
    BY <1>2, <1>5, <1>7
  <2>2. c.b_blkno[a] # None => c.b_blkno[a] + r.size <= Frags
    BY <1>4 DEF Fits
  <2>3. e = Allotted(c, a, r.size)
    OBVIOUS
  <2> HIDE DEF e
  <2>4. PICK T : /\ MemIs(e, Frags) /\ e.load = c.load
                 /\ Total(e.b_bufsize) = Total(c.b_bufsize)
                 /\ \A x \in T : "BUSY" \notin c.flags[x]
                 /\ \A x \in Buf \ T : e.b_blkno[x] = c.b_blkno[x]
                 /\ \A x \in Buf \ (T \cup {a}) : e.b_bufsize[x] = c.b_bufsize[x]
    <3> DEFINE n == r.size
    <3>1. /\ n \in Nat /\ a \in Held(pc[p], loc[p]) /\ n <= c.b_bufsize[a]
          /\ c.b_blkno[a] # None => c.b_blkno[a] + n <= Frags
          /\ e = Allotted(c, a, n)
      BY <1>3, <1>5, <2>1, <2>2, <2>3
    <3> HIDE DEF n, a
    <3>2. QED BY <3>1, ShrinkMem
  <2>6. \A q \in Procs : \A x \in Held(pc[q], loc[q]) : x \in Buf \ T
    BY <2>4, MemHere
  <2>7. \A q \in Procs \ {p} : \A x \in Held(pc[q], loc[q]) : x # a
    BY <1>3 DEF IInv, Apart
  <2>8. \A q \in Procs \ {p} : \A x \in Held(pc[q], loc[q]) :
          e.b_blkno[x] = c.b_blkno[x] /\ e.b_bufsize[x] = c.b_bufsize[x]
    BY <2>4, <2>6, <2>7
  <2>9. Assigned(e, "got", r, Frags)
    <3>1. r.first # None => r.first \in Held(pc[p], r)
      BY DEF Held
    <3>2. /\ e.b_blkno[a] = c.b_blkno[a]
          /\ r.first # None => e.b_blkno[r.first] = c.b_blkno[r.first]
      BY <1>3, <2>4, <2>6, <3>1
    <3>3. QED BY <1>1, <1>4, <3>2 DEF Assigned, Short
  <2>10. QED BY <2>1, <2>4, <2>8, <2>9, MemLands
<1>8. QED BY <1>6, <1>7

\* The buffer of an asynchronous transfer is nobody's.
LEMMA AsyncIsNobodys ==
  ASSUME IInv, NEW b, "ASYNC" \in c.flags[b], NEW p \in Procs
  PROVE  Held(pc[p], loc[p]) \cap {b} = {}
  BY Mine DEF Local, Owned

\* biodone() of a buffer without or with an owner.
LEMMA BiodoneCacheMem ==
  ASSUME IInv, IInv', MInv, UNCHANGED <<pc, loc, cur>>, NEW b, NEW f,
         \A T : MemOK(f, c, T, Frags), f.flags[b] \ {"ERROR"} = c.flags[b] \ {"ERROR"},
         c' = BiodoneCache(f, b)
  PROVE  MInv' /\ c'.load = c.load
<1> DEFINE T == {b}
           on == {"DONE"}
           off == {"WANTED"}
           none == {}
           g == SetF(f, b, on, none)
           h == SetF(f, b, on, off)
           d == Brelse(g, b)
           e == Wakeup(h, b)
<1>1. Frags \in Nat
  BY MemCache
<1>2. c' = IF "ASYNC" \in c.flags[b] THEN d ELSE e
  BY DEF BiodoneCache
<1>3. b \in T /\ ("ASYNC" \in c.flags[b] => \A p \in Procs : Held(pc[p], loc[p]) \cap T = {})
  BY AsyncIsNobodys
<1> HIDE DEF T, on, off, none
<1>4. MemOK(g, c, T, Frags) /\ MemOK(h, c, none, Frags)
  BY <1>1, PrimitivesMem
<1> HIDE DEF g, h
<1>5. MemOK(d, c, T, Frags)
  BY <1>1, <1>3, <1>4, PrimitivesMem
<1>6. MemOK(e, c, none, Frags)
  BY <1>1, <1>4, PrimitivesMem
<1> HIDE DEF d, e
<1>7. CASE "ASYNC" \in c.flags[b]
  BY <1>2, <1>3, <1>5, <1>7, MemDevice
<1>8. CASE "ASYNC" \notin c.flags[b]
  <2>1. MemOK(c', c, none, Frags) /\ \A p \in Procs : Held(pc[p], loc[p]) \cap none = {}
    BY <1>2, <1>6, <1>8 DEF none
  <2>2. QED BY <2>1, MemDevice
<1>9. QED BY <1>7, <1>8

\* A transfer ends.
LEMMA BiodoneMem ==
  ASSUME IInv, IInv', MInv, NEW b \in Buf, Biodone(b)
  PROVE  MInv' /\ c'.load = c.load
<1> DEFINE t == Transferred(c, b)
           f == [t EXCEPT !.io = @ \ {b}]
<1>1. c' = BiodoneCache(f, b) /\ UNCHANGED <<pc, loc, cur>>
  BY DEF Biodone
<1>2. ASSUME NEW T PROVE MemOK(t, c, T, Frags)
  BY MemCache, PrimitivesMem
<1>3. t.flags = c.flags
  <2>1. Records(c)
    BY MemCache DEF MemOK
  <2>2. QED BY <2>1 DEF Transferred, Records
<1> HIDE DEF t
<1>4. ASSUME NEW T PROVE MemOK(f, c, T, Frags)
  <2> DEFINE u == t.io \ {b}
  <2>1. f = [t EXCEPT !.io = u]
    OBVIOUS
  <2> HIDE DEF u
  <2>2. QED BY <1>2, <2>1, FieldsMem
<1>5. f.flags = t.flags
  <2>1. Records(t)
    BY <1>2 DEF MemOK
  <2>2. QED BY <2>1 DEF Records
<1> HIDE DEF f
<1>6. QED BY <1>1, <1>3, <1>4, <1>5, BiodoneCacheMem

\* A transfer fails.
LEMMA BiodoneErrorMem ==
  ASSUME IInv, IInv', MInv, NEW b \in Buf, BiodoneError(b)
  PROVE  MInv' /\ c'.load = c.load
<1> DEFINE u == c.io \ {b}
           t == [c EXCEPT !.io = u]
           err == {"ERROR"}
           done == {"DONE"}
           none == {}
           f == SetF(t, b, err, none)
           g == SetF(f, b, done, none)
           w == BrelseWake(g, b)
           v == w.relvp \cup {b}
           e == [w EXCEPT !.relvp = v]
<1>1. UNCHANGED <<pc, loc, cur>> /\ (c' = e \/ c' = BiodoneCache(f, b))
  BY DEF BiodoneError
<1> HIDE DEF u, v
<1>2. Frags \in Nat /\ Records(c) /\ c.flags \in [Buf -> SUBSET Flag]
  <2>1. Frags \in Nat /\ MemOK(c, c, {}, Frags)
    BY MemCache
  <2>2. c.flags \in [Buf -> SUBSET Flag]
    BY Fields DEF IInv
  <2>3. QED BY <2>1, <2>2 DEF MemOK
<1>3. ASSUME NEW T PROVE MemOK(t, c, T, Frags)
  BY MemCache, FieldsMem
<1>4. t.flags = c.flags /\ Records(t)
  BY <1>2 DEF Records
<1> HIDE DEF t
<1>5. f.flags[b] \ {"ERROR"} = c.flags[b] \ {"ERROR"}
  BY <1>2, <1>4 DEF SetF, Records
<1> HIDE DEF err, done, none
<1>6. ASSUME NEW T PROVE MemOK(f, c, T, Frags)
  BY <1>2, <1>3, PrimitivesMem
<1> HIDE DEF f
<1>7. CASE c' = BiodoneCache(f, b)
  BY <1>1, <1>5, <1>6, <1>7, BiodoneCacheMem
<1>8. CASE c' = e
  <2>1. MemOK(g, c, {}, Frags)
    BY <1>2, <1>6, PrimitivesMem
  <2> HIDE DEF g
  <2>2. MemOK(w, c, {}, Frags)
    BY <1>2, <2>1, PrimitivesMem
  <2> HIDE DEF w
  <2>3. MemOK(e, c, {}, Frags)
    BY <2>2, FieldsMem
  <2> HIDE DEF e
  <2>4. MemOK(c', c, {}, Frags)
    BY <1>8, <2>3
  <2>5. QED BY <1>1, <2>4, MemDevice
<1>9. QED BY <1>1, <1>7, <1>8

\* brelvp() was asleep with a buffer that is nobody's.
LEMMA RelvpReturnsMem ==
  ASSUME IInv, IInv', MInv, NEW b \in Buf, RelvpReturns(b)
  PROVE  MInv' /\ c'.load = c.load
<1> DEFINE u == c.relvp \ {b}
           t == [c EXCEPT !.relvp = u]
           d == Brelvp(t, b)
           e == BrelseFree(d, b)
           T == {b}
<1>1. b \in c.relvp /\ c' = e /\ UNCHANGED <<pc, loc, cur>>
  BY DEF RelvpReturns
<1>2. "ASYNC" \in c.flags[b]
  BY <1>1 DEF IInv, Transfers
<1>3. b \in T /\ \A p \in Procs : Held(pc[p], loc[p]) \cap T = {}
  BY <1>2, AsyncIsNobodys
<1> HIDE DEF u, T
<1>4. Frags \in Nat /\ MemOK(t, c, T, Frags)
  BY MemCache, FieldsMem
<1> HIDE DEF t
<1>5. MemOK(d, c, T, Frags)
  BY <1>3, <1>4, PrimitivesMem
<1> HIDE DEF d
<1>6. MemOK(e, c, T, Frags)
  BY <1>4, <1>5, PrimitivesMem
<1> HIDE DEF e
<1>7. MemOK(c', c, T, Frags)
  BY <1>1, <1>6
<1>8. QED BY <1>1, <1>3, <1>7, MemDevice

\* binit() gives the buffers their memory, and nothing is asked for.
LEMMA InitMem ==
  ASSUME Init
  PROVE  MInv
<1>1. PICK i \in DOMAIN Loads : c = Binit(i)
  BY DEF Init
<1> DEFINE w == Loads[i]
           S == Range(w.bufs)
<1>2. w.frags \in Nat /\ w.space \in [S -> 1 .. w.frags]
  BY BufAssumption
<1>3. /\ c.load = i /\ DOMAIN c.flags = S /\ c.b_blkno = [b \in S |-> None]
      /\ c.b_bcount = [b \in S |-> 0] /\ c.b_bufsize = w.space
      /\ c.fresh = [b \in S |-> {}] /\ c.disk = 0 .. w.frags - 1
  BY <1>1 DEF Binit
<1>4. Buf = S /\ Frags = w.frags /\ Space = w.space
  BY <1>3 DEF Buf, Frags, Space
<1> HIDE DEF w, S
<1>5. MemIs(c, Frags)
  BY <1>2, <1>3, <1>4 DEF MemIs
<1>6. Total(c.b_bufsize) = Total(Space)
  BY <1>3, <1>4
<1>7. \A p \in Procs : Assigned(c, pc[p], loc[p], Frags)
  BY NothingAsked DEF Init
<1>8. QED BY <1>5, <1>6, <1>7 DEF MInv

\* Every operation keeps the memory and the workload.
LEMMA NextMem ==
  ASSUME IInv, MInv, [Next]_vars
  PROVE  MInv' /\ c'.load = c.load
<1>0. IInv'
  BY NextKeeps
<1>1. ASSUME NEW p \in Procs, Step(p) PROVE MInv' /\ c'.load = c.load
  BY <1>0, <1>1, CallMem, GetblkMem, FlushMem, GetblkHitMem, BreallocOverlapMem,
     ReleaseMem, BawriteMem, ExtendMem, BwriteWaitMem, GotFirstMem, ReadaheadMem,
     GotAheadMem, GetnewbufMem, BinvalfreeMem, AllocbufTakeMem, AllocbufMem DEF Step
<1>2. ASSUME NEW b \in Buf, Biodone(b) \/ BiodoneError(b) \/ RelvpReturns(b)
      PROVE  MInv' /\ c'.load = c.load
  BY <1>0, <1>2, BiodoneMem, BiodoneErrorMem, RelvpReturnsMem
<1>3. CASE UNCHANGED vars
  <2>1. c' = c /\ UNCHANGED <<pc, loc, cur>>
    BY <1>3 DEF vars
  <2>2. MemOK(c', c, {}, Frags)
    BY <2>1, MemCache
  <2>3. QED BY <1>0, <2>1, <2>2, MemDevice
<1>4. QED BY <1>1, <1>2, <1>3 DEF Next

\* What the invariants say of the cache.
LEMMA ExactOK ==
  ASSUME IInv, MInv
  PROVE  BuffersExact
<1>1. /\ c \in Caches(Buf) /\ MemIs(c, Frags) /\ Frags \in Nat
      /\ \A p \in Procs : loc[p] \in Regs(Buf)
  BY MemCache DEF IInv, MInv
<1>2. /\ c.load \in DOMAIN Loads /\ c.wanted \in BOOLEAN /\ c.io \cup c.relvp \subseteq Buf
      /\ UNION {c.flags[b] : b \in Buf} \subseteq Flag
      /\ {c.slp[p] : p \in Procs} \subseteq Buf \cup {FREELIST, None}
  BY <1>1, Fields
<1>3. c.disk \subseteq Frag /\ \A b \in Buf : c.fresh[b] \subseteq Frag
  BY <1>1 DEF MemIs, Frag
<1>4. ASSUME NEW b \in Buf PROVE Covers(c, b) \subseteq Frag
  BY <1>1 DEF MemIs, Covers, Fragments, Frag
<1>5. UNION {{loc[p].bp, loc[p].ep, loc[p].first} : p \in Procs} \subseteq Buf \cup {None}
  BY <1>1 DEF Regs
<1>6. TypeOK
  <2>1. /\ \A b \in Buf : Covers(c, b) \cup c.fresh[b] \subseteq Frag
        /\ cur \in Procs \cup {None}
    BY <1>3, <1>4 DEF IInv
  <2>2. QED BY <1>2, <1>3, <1>5, <2>1 DEF TypeOK
<1>7. BufferSpace
  BY <1>1 DEF BufferSpace, MInv, Total, MemIs
<1>8. QED BY <1>6, <1>7, ListsExact DEF BuffersExact

\* What is known of memory holds from binit() on.
LEMMA MemoryKept == Spec => [](IInv /\ MInv)
<1>1. Init => IInv /\ MInv
  BY InitOK, InitMem
<1>2. IInv /\ MInv /\ [Next]_vars => IInv' /\ MInv'
  BY NextKeeps, NextMem
<1>3. QED BY <1>1, <1>2, PTL DEF Spec

\* The free lists are exact and the memory of the buffers is all there:
\* allocbuf() moves it between buffers, and neither loses nor doubles any,
\* for any number of buffers, any calls and any transfer errors; a buffer
\* never maps more than it has memory for, nor anything outside the disk.
THEOREM MemoryConserved == Spec => []BuffersExact
<1>1. IInv /\ MInv => BuffersExact
  BY ExactOK
<1>2. QED BY <1>1, MemoryKept, PTL
=============================================================================
