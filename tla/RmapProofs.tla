----------------------------- MODULE RmapProofs -----------------------------
(***************************************************************************)
(* Proofs about Rmap: for a table of every size, every set of sizes and    *)
(* any devices.                                                            *)
(*                                                                         *)
(* A table in order is one whose segments are apart pairwise, not only     *)
(* neighbours, so that no induction over the table is needed.  Removing,   *)
(* inserting and replacing a segment keep that, and are changes of the set *)
(* of segments; free space depends on this set alone.  rmfree(), rmalloc() *)
(* and rmget() are compositions of those three.                            *)
(***************************************************************************)
EXTENDS Rmap, WellFoundedInduction, TLAPS

\* Among natural numbers there is a least one.
LEMMA Least ==
  ASSUME NEW T, T \subseteq Nat, T # {}
  PROVE  \E x \in T : \A y \in T : x <= y
<1> DEFINE R == OpToRel(<, Nat)
<1>1. IsWellFoundedOn(R, Nat)
  BY NatLessThanWellFounded
<1>2. R = {s \in Nat \X Nat : s[1] < s[2]}
  BY DEF OpToRel
<1> HIDE DEF R
<1>3. PICK x \in T : \A y \in T : ~ (<<y, x>> \in R)
  BY <1>1, WFMin
<1>4. ASSUME NEW y \in T PROVE x <= y
  <2>1. <<y, x>> \in Nat \X Nat /\ <<y, x>>[1] = y /\ <<y, x>>[2] = x
    OBVIOUS
  <2>2. QED BY <1>2, <1>3, <2>1
<1>5. QED BY <1>4

-----------------------------------------------------------------------------
PosNat == Nat \ {0}
Segs == [m_addr : PosNat, m_size : PosNat]
Sorted(m) == \A i, j \in 1 .. Len(m) : i < j => End(m[i]) < m[j].m_addr
InOrder(m) == m \in Seq(Segs) /\ Sorted(m)

\* What is in a table of segments.
LEMMA SegType ==
  ASSUME NEW m \in Seq(Segs)
  PROVE  /\ Len(m) \in Nat /\ DOMAIN m = 1 .. Len(m)
         /\ \A i \in 1 .. Len(m) :
              /\ m[i] \in Segs /\ m[i].m_addr \in PosNat /\ m[i].m_size \in PosNat
              /\ End(m[i]) = m[i].m_addr + m[i].m_size
<1>1. Len(m) \in Nat /\ DOMAIN m = 1 .. Len(m)
  OBVIOUS
<1>2. ASSUME NEW i \in 1 .. Len(m)
      PROVE  m[i] \in Segs
  OBVIOUS
<1>3. QED BY <1>1, <1>2 DEF Segs, End

\* A unit is free when some segment holds it.
LEMMA FreeUnit ==
  ASSUME NEW m \in Seq(Segs), NEW u
  PROVE  u \in Free(m) <=> /\ u \in Int
                           /\ \E i \in 1 .. Len(m) : m[i].m_addr <= u /\ u < End(m[i])
<1>1. ASSUME NEW i \in 1 .. Len(m)
      PROVE  u \in Units(<<m[i].m_addr, m[i].m_size>>) <=>
               u \in Int /\ m[i].m_addr <= u /\ u < End(m[i])
  BY SegType DEF Units, PosNat
<1>2. DOMAIN m = 1 .. Len(m)
  BY SegType
<1>3. QED BY <1>1, <1>2 DEF Free

\* The elements of a concatenation.
LEMMA ConcatIs ==
  ASSUME NEW S, NEW a \in Seq(S), NEW b \in Seq(S)
  PROVE  /\ a \o b \in Seq(S) /\ Len(a \o b) = Len(a) + Len(b)
         /\ \A i \in 1 .. Len(a) + Len(b) :
              (a \o b)[i] = IF i <= Len(a) THEN a[i] ELSE b[i - Len(a)]
  OBVIOUS

\* What rmfree() and rmalloc() leave when they move the rest of the table down.
LEMMA RemoveAtIs ==
  ASSUME NEW S, NEW m \in Seq(S), NEW k \in 1 .. Len(m)
  PROVE  /\ RemoveAt(m, k) \in Seq(S) /\ Len(RemoveAt(m, k)) = Len(m) - 1
         /\ \A i \in 1 .. Len(m) - 1 :
              RemoveAt(m, k)[i] = IF i < k THEN m[i] ELSE m[i + 1]
<1> DEFINE a == SubSeq(m, 1, k - 1)
           b == SubSeq(m, k + 1, Len(m))
           c == a \o b
<1>1. Len(m) \in Nat
  OBVIOUS
<1>2. a \in Seq(S) /\ b \in Seq(S)
  OBVIOUS
<1>3. Len(a) = k - 1 /\ \A i \in 1 .. k - 1 : a[i] = m[i]
  OBVIOUS
<1>4. Len(b) = Len(m) - k /\ \A i \in 1 .. Len(m) - k : b[i] = m[k + i]
  OBVIOUS
<1>5. RemoveAt(m, k) = c
  BY DEF RemoveAt
<1> HIDE DEF a, b
<1>6. /\ c \in Seq(S) /\ Len(c) = Len(a) + Len(b)
      /\ \A i \in 1 .. Len(a) + Len(b) :
           c[i] = IF i <= Len(a) THEN a[i] ELSE b[i - Len(a)]
  BY <1>2, ConcatIs
<1> HIDE DEF c
<1>7. Len(c) = Len(m) - 1 /\ Len(a) + Len(b) = Len(m) - 1
  BY <1>1, <1>3, <1>4, <1>6
<1>8. \A i \in 1 .. Len(m) - 1 : c[i] = IF i <= k - 1 THEN a[i] ELSE b[i - (k - 1)]
  BY <1>3, <1>6, <1>7
<1>9. ASSUME NEW i \in 1 .. Len(m) - 1
      PROVE  c[i] = IF i < k THEN m[i] ELSE m[i + 1]
  <2>1. CASE i < k
    <3>1. i <= k - 1 /\ i \in 1 .. k - 1
      BY <1>1, <2>1
    <3>2. QED BY <1>3, <1>8, <2>1, <3>1
  <2>2. CASE i >= k
    <3>1. i - (k - 1) \in 1 .. Len(m) - k /\ k + (i - (k - 1)) = i + 1
      BY <1>1, <2>2
    <3>2. b[i - (k - 1)] = m[i + 1]
      BY <1>4, <3>1
    <3>3. ~(i <= k - 1) /\ ~(i < k)
      BY <1>1, <2>2
    <3>4. QED BY <1>8, <3>2, <3>3
  <2>3. QED BY <1>1, <2>1, <2>2
<1>10. QED BY <1>5, <1>6, <1>9, <1>7

\* What rmfree() leaves when it moves the rest of the table up.
LEMMA InsertAtIs ==
  ASSUME NEW S, NEW m \in Seq(S), NEW k \in 1 .. Len(m) + 1, NEW e \in S
  PROVE  /\ InsertAt(m, k, e) \in Seq(S) /\ Len(InsertAt(m, k, e)) = Len(m) + 1
         /\ \A i \in 1 .. Len(m) + 1 :
              InsertAt(m, k, e)[i] = IF i < k THEN m[i] ELSE IF i = k THEN e ELSE m[i - 1]
<1> DEFINE a == SubSeq(m, 1, k - 1)
           b == SubSeq(m, k, Len(m))
           c == a \o <<e>>
           d == c \o b
<1>1. Len(m) \in Nat
  OBVIOUS
<1>2. a \in Seq(S) /\ b \in Seq(S) /\ <<e>> \in Seq(S) /\ Len(<<e>>) = 1 /\ <<e>>[1] = e
  OBVIOUS
<1>3. Len(a) = k - 1 /\ \A i \in 1 .. k - 1 : a[i] = m[i]
  OBVIOUS
<1>4. /\ Len(b) = Len(m) + 1 - k
      /\ \A i \in 1 .. Len(m) + 1 - k : b[i] = m[k + i - 1]
  OBVIOUS
<1>5. InsertAt(m, k, e) = d
  BY DEF InsertAt
<1> HIDE DEF a, b
<1>6. /\ c \in Seq(S) /\ Len(c) = k
      /\ \A i \in 1 .. k : c[i] = IF i < k THEN m[i] ELSE e
  BY <1>1, <1>2, <1>3
<1> HIDE DEF c
<1>7. /\ d \in Seq(S) /\ Len(d) = Len(c) + Len(b)
      /\ \A i \in 1 .. Len(c) + Len(b) :
           d[i] = IF i <= Len(c) THEN c[i] ELSE b[i - Len(c)]
  BY <1>2, <1>6, ConcatIs
<1> HIDE DEF d
<1>8. Len(d) = Len(m) + 1 /\ Len(c) + Len(b) = Len(m) + 1
  BY <1>1, <1>4, <1>6, <1>7
<1>9. ASSUME NEW i \in 1 .. Len(m) + 1
      PROVE  d[i] = IF i < k THEN m[i] ELSE IF i = k THEN e ELSE m[i - 1]
  <2>1. CASE i <= k
    BY <1>1, <1>4, <1>6, <1>7, <2>1
  <2>2. CASE i > k
    <3>1. i - k \in 1 .. Len(m) + 1 - k /\ k + (i - k) - 1 = i - 1
      BY <1>1, <2>2
    <3>2. b[i - k] = m[i - 1]
      BY <1>4, <3>1
    <3>3. QED BY <1>1, <1>4, <1>6, <1>7, <2>2, <3>2
  <2>3. QED BY <1>1, <2>1, <2>2
<1>10. QED BY <1>5, <1>7, <1>9, <1>8

-----------------------------------------------------------------------------
\* The units of a set of segments.
Spread(S) == {u \in Int : \E s \in S : s.m_addr <= u /\ u < End(s)}

\* The fields of a segment.
LEMMA SegFields ==
  ASSUME NEW s \in Segs
  PROVE  /\ s.m_addr \in PosNat /\ s.m_size \in PosNat
         /\ End(s) = s.m_addr + s.m_size /\ End(s) \in Int
         /\ s = Seg(s.m_addr, s.m_size)
  BY DEF Segs, End, Seg, PosNat

\* A segment is made from its address and size.
LEMMA SegIs ==
  ASSUME NEW a \in PosNat, NEW z \in PosNat
  PROVE  /\ Seg(a, z) \in Segs /\ Seg(a, z).m_addr = a /\ Seg(a, z).m_size = z
         /\ End(Seg(a, z)) = a + z
  BY DEF Segs, End, Seg, PosNat

\* The segments of a table, as a set.
LEMMA RangeIs ==
  ASSUME NEW m \in Seq(Segs)
  PROVE  /\ Range(m) \subseteq Segs
         /\ \A s : s \in Range(m) <=> \E i \in 1 .. Len(m) : s = m[i]
<1>1. DOMAIN m = 1 .. Len(m) /\ \A i \in 1 .. Len(m) : m[i] \in Segs
  BY SegType
<1>2. QED BY <1>1 DEF Range

\* Free space depends on the set of segments only.
LEMMA FreeSpread ==
  ASSUME NEW m \in Seq(Segs)
  PROVE  Free(m) = Spread(Range(m))
<1>1. ASSUME NEW u PROVE u \in Free(m) <=> u \in Spread(Range(m))
  BY FreeUnit, RangeIs DEF Spread
<1>2. QED BY <1>1

\* Segments of a map in order are different.
LEMMA Distinct ==
  ASSUME NEW m, InOrder(m), NEW i \in 1 .. Len(m), NEW j \in 1 .. Len(m), i # j
  PROVE  /\ m[i] # m[j]
         /\ i < j => m[i].m_addr < m[j].m_addr /\ End(m[i]) < m[j].m_addr
<1>1. m[i] \in Segs /\ m[j] \in Segs /\ Len(m) \in Nat
  BY SegType DEF InOrder
<1>2. CASE i < j
  <2>1. End(m[i]) < m[j].m_addr
    BY <1>2 DEF InOrder, Sorted
  <2>2. QED BY <1>1, <1>2, <2>1, SegFields DEF PosNat
<1>3. CASE j < i
  <2>1. End(m[j]) < m[i].m_addr
    BY <1>3 DEF InOrder, Sorted
  <2>2. QED BY <1>1, <1>3, <2>1, SegFields DEF PosNat
<1>4. QED BY <1>1, <1>2, <1>3

\* Without one of its segments a table stays in order.
LEMMA Removed ==
  ASSUME NEW m, InOrder(m), NEW k \in 1 .. Len(m)
  PROVE  /\ InOrder(RemoveAt(m, k)) /\ Len(RemoveAt(m, k)) = Len(m) - 1
         /\ Range(RemoveAt(m, k)) = Range(m) \ {m[k]}
<1> DEFINE r == RemoveAt(m, k)
<1>1. m \in Seq(Segs) /\ Len(m) \in Nat
  BY SegType DEF InOrder
<1>2. /\ r \in Seq(Segs) /\ Len(r) = Len(m) - 1
      /\ \A i \in 1 .. Len(m) - 1 : r[i] = IF i < k THEN m[i] ELSE m[i + 1]
  BY <1>1, RemoveAtIs
<1> HIDE DEF r
<1>3. ASSUME NEW i \in 1 .. Len(r), NEW j \in 1 .. Len(r), i < j
      PROVE  End(r[i]) < r[j].m_addr
  <2> DEFINE x == IF i < k THEN i ELSE i + 1
             y == IF j < k THEN j ELSE j + 1
  <2>1. x \in 1 .. Len(m) /\ y \in 1 .. Len(m) /\ x < y
    BY <1>1, <1>2, <1>3
  <2>2. r[i] = m[x] /\ r[j] = m[y]
    BY <1>2
  <2> HIDE DEF x, y
  <2>3. QED BY <2>1, <2>2, Distinct
<1>4. ASSUME NEW s PROVE s \in Range(r) <=> s \in Range(m) \ {m[k]}
  <2>1. ASSUME s \in Range(r) PROVE s \in Range(m) \ {m[k]}
    <3>1. PICK i \in 1 .. Len(r) : s = r[i]
      BY <1>2, <2>1, RangeIs
    <3> DEFINE x == IF i < k THEN i ELSE i + 1
    <3>2. x \in 1 .. Len(m) /\ x # k /\ s = m[x]
      BY <1>1, <1>2, <3>1
    <3> HIDE DEF x
    <3>3. QED BY <1>1, <3>2, Distinct, RangeIs
  <2>2. ASSUME s \in Range(m) \ {m[k]} PROVE s \in Range(r)
    <3>1. PICK x \in 1 .. Len(m) : s = m[x]
      BY <1>1, <2>2, RangeIs
    <3>2. x # k
      BY <2>2, <3>1
    <3> DEFINE i == IF x < k THEN x ELSE x - 1
    <3>3. i \in 1 .. Len(m) - 1 /\ r[i] = m[x]
      BY <1>1, <1>2, <3>2
    <3> HIDE DEF i
    <3>4. QED BY <1>2, <3>1, <3>3, RangeIs
  <2>3. QED BY <2>1, <2>2
<1>5. Range(r) = Range(m) \ {m[k]}
  BY <1>4
<1>6. QED BY <1>2, <1>3, <1>5 DEF InOrder, Sorted, r

\* With a segment put between those before and behind it, too.
LEMMA Inserted ==
  ASSUME NEW m, InOrder(m), NEW k \in 1 .. Len(m) + 1, NEW e \in Segs,
         \A j \in 1 .. k - 1 : End(m[j]) < e.m_addr,
         \A j \in k .. Len(m) : End(e) < m[j].m_addr
  PROVE  /\ InOrder(InsertAt(m, k, e)) /\ Len(InsertAt(m, k, e)) = Len(m) + 1
         /\ Range(InsertAt(m, k, e)) = Range(m) \cup {e}
<1> DEFINE r == InsertAt(m, k, e)
<1>1. m \in Seq(Segs) /\ Len(m) \in Nat
  BY SegType DEF InOrder
<1>2. /\ r \in Seq(Segs) /\ Len(r) = Len(m) + 1
      /\ \A i \in 1 .. Len(m) + 1 :
           r[i] = IF i < k THEN m[i] ELSE IF i = k THEN e ELSE m[i - 1]
  BY <1>1, InsertAtIs
<1> HIDE DEF r
<1>3. ASSUME NEW i \in 1 .. Len(r), NEW j \in 1 .. Len(r), i < j
      PROVE  End(r[i]) < r[j].m_addr
  <2> DEFINE x == IF i < k THEN i ELSE i - 1
             y == IF j < k THEN j ELSE j - 1
  <2>1. CASE i = k
    <3>1. j - 1 \in k .. Len(m) /\ r[j] = m[j - 1] /\ r[i] = e
      BY <1>1, <1>2, <1>3, <2>1
    <3>2. QED BY <3>1
  <2>2. CASE j = k
    <3>1. i \in 1 .. k - 1 /\ r[i] = m[i] /\ r[j] = e
      BY <1>1, <1>2, <1>3, <2>2
    <3>2. QED BY <3>1
  <2>3. CASE i # k /\ j # k
    <3>1. x \in 1 .. Len(m) /\ y \in 1 .. Len(m) /\ x < y /\ r[i] = m[x] /\ r[j] = m[y]
      BY <1>1, <1>2, <1>3, <2>3
    <3> HIDE DEF x, y
    <3>2. QED BY <3>1, Distinct
  <2>4. QED BY <2>1, <2>2, <2>3
<1>4. ASSUME NEW s PROVE s \in Range(r) <=> s \in Range(m) \cup {e}
  <2>1. ASSUME s \in Range(r) PROVE s \in Range(m) \cup {e}
    <3>1. PICK i \in 1 .. Len(r) : s = r[i]
      BY <1>2, <2>1, RangeIs
    <3> DEFINE x == IF i < k THEN i ELSE i - 1
    <3>2. s = e \/ (x \in 1 .. Len(m) /\ s = m[x])
      BY <1>1, <1>2, <3>1
    <3> HIDE DEF x
    <3>3. QED BY <1>1, <3>2, RangeIs
  <2>2. ASSUME s \in Range(m) PROVE s \in Range(r)
    <3>1. PICK x \in 1 .. Len(m) : s = m[x]
      BY <1>1, <2>2, RangeIs
    <3> DEFINE i == IF x < k THEN x ELSE x + 1
    <3>2. i \in 1 .. Len(r) /\ r[i] = m[x]
      BY <1>1, <1>2
    <3> HIDE DEF i
    <3>3. QED BY <1>2, <3>1, <3>2, RangeIs
  <2>3. r[k] = e /\ k \in 1 .. Len(r)
    BY <1>1, <1>2
  <2>4. e \in Range(r)
    BY <1>2, <2>3, RangeIs
  <2>5. QED BY <2>1, <2>2, <2>4
<1>5. Range(r) = Range(m) \cup {e}
  BY <1>4
<1>6. QED BY <1>2, <1>3, <1>5 DEF InOrder, Sorted, r

\* And with one segment replaced by another that fits between its neighbours.
LEMMA Replaced ==
  ASSUME NEW m, InOrder(m), NEW k \in 1 .. Len(m), NEW e \in Segs,
         \A j \in 1 .. k - 1 : End(m[j]) < e.m_addr,
         \A j \in k + 1 .. Len(m) : End(e) < m[j].m_addr
  PROVE  LET r == [m EXCEPT ![k] = e]
         IN  InOrder(r) /\ Len(r) = Len(m) /\ Range(r) = (Range(m) \ {m[k]}) \cup {e}
<1> DEFINE r == [m EXCEPT ![k] = e]
<1>1. m \in Seq(Segs) /\ Len(m) \in Nat
  BY SegType DEF InOrder
<1>2. /\ r \in Seq(Segs) /\ Len(r) = Len(m)
      /\ \A i \in 1 .. Len(m) : r[i] = IF i = k THEN e ELSE m[i]
  BY <1>1
<1> HIDE DEF r
<1>3. ASSUME NEW i \in 1 .. Len(r), NEW j \in 1 .. Len(r), i < j
      PROVE  End(r[i]) < r[j].m_addr
  <2>1. CASE i = k
    <3>1. j \in k + 1 .. Len(m) /\ r[j] = m[j] /\ r[i] = e
      BY <1>1, <1>2, <1>3, <2>1
    <3>2. QED BY <3>1
  <2>2. CASE j = k
    <3>1. i \in 1 .. k - 1 /\ r[i] = m[i] /\ r[j] = e
      BY <1>1, <1>2, <1>3, <2>2
    <3>2. QED BY <3>1
  <2>3. CASE i # k /\ j # k
    BY <1>2, <1>3, <2>3, Distinct
  <2>4. QED BY <2>1, <2>2, <2>3
<1>4. ASSUME NEW s PROVE s \in Range(r) <=> s \in (Range(m) \ {m[k]}) \cup {e}
  <2>1. ASSUME s \in Range(r) PROVE s \in (Range(m) \ {m[k]}) \cup {e}
    <3>1. PICK i \in 1 .. Len(r) : s = r[i]
      BY <1>2, <2>1, RangeIs
    <3>2. CASE i = k
      BY <1>2, <3>1, <3>2
    <3>3. CASE i # k
      <4>1. s = m[i] /\ i \in 1 .. Len(m)
        BY <1>2, <3>1, <3>3
      <4>2. m[i] # m[k]
        BY <4>1, <3>3, Distinct
      <4>3. QED BY <1>1, <4>1, <4>2, RangeIs
    <3>4. QED BY <3>2, <3>3
  <2>2. ASSUME s \in Range(m) \ {m[k]} PROVE s \in Range(r)
    <3>1. PICK i \in 1 .. Len(m) : s = m[i]
      BY <1>1, <2>2, RangeIs
    <3>2. i # k /\ r[i] = s /\ i \in 1 .. Len(r)
      BY <1>2, <2>2, <3>1
    <3>3. QED BY <1>2, <3>2, RangeIs
  <2>3. r[k] = e /\ k \in 1 .. Len(r)
    BY <1>1, <1>2
  <2>4. e \in Range(r)
    BY <1>2, <2>3, RangeIs
  <2>5. QED BY <2>1, <2>2, <2>4
<1>5. Range(r) = (Range(m) \ {m[k]}) \cup {e}
  BY <1>4
<1>6. QED BY <1>2, <1>3, <1>5 DEF InOrder, Sorted, r

-----------------------------------------------------------------------------
\* The search of rmfree() ends between the segments before and behind addr.
LEMMA AfterIs ==
  ASSUME NEW m, InOrder(m), NEW addr \in Int
  PROVE  LET k == After(m, addr)
         IN  /\ k \in 1 .. Len(m) + 1
             /\ \A j \in 1 .. k - 1 : j \in 1 .. Len(m) /\ m[j].m_addr <= addr
             /\ \A j \in k .. Len(m) : j \in 1 .. Len(m) /\ m[j].m_addr > addr
<1> DEFINE N == Len(m)
           P(k) == /\ k <= Len(m) => m[k].m_addr > addr
                   /\ \A j \in 1 .. k - 1 : m[j].m_addr <= addr
           T == {k \in 1 .. N + 1 : k <= Len(m) => m[k].m_addr > addr}
<1>1. N \in Nat /\ \A i \in 1 .. N : m[i].m_addr \in Int
  BY SegType DEF InOrder, PosNat
<1>2. T \subseteq Nat /\ N + 1 \in T
  BY <1>1
<1>3. PICK x \in T : \A y \in T : x <= y
  <2> HIDE DEF T
  <2> QED BY <1>2, Least
<1>4. P(x) /\ x \in 1 .. Len(m) + 1
  <2>1. ASSUME NEW j \in 1 .. x - 1 PROVE m[j].m_addr <= addr
    <3>1. j \in 1 .. N /\ j \notin T
      BY <1>1, <1>3
    <3>2. QED BY <1>1, <3>1
  <2>2. QED BY <1>3, <2>1
<1> DEFINE k == After(m, addr)
<1>5. k = CHOOSE i \in 1 .. Len(m) + 1 : P(i)
  BY DEF After
<1>6. P(k) /\ k \in 1 .. Len(m) + 1
  <2> HIDE DEF P, k
  <2> QED BY <1>4, <1>5
<1> HIDE DEF k
<1>7. ASSUME NEW j \in k .. Len(m)
      PROVE  j \in 1 .. Len(m) /\ m[j].m_addr > addr
  <2>1. j \in 1 .. Len(m) /\ k \in 1 .. Len(m) /\ m[k].m_addr > addr
    BY <1>1, <1>6
  <2>2. j = k \/ m[k].m_addr < m[j].m_addr
    BY <2>1, Distinct
  <2>3. QED BY <1>1, <2>1, <2>2
<1>8. \A j \in 1 .. k - 1 : j \in 1 .. Len(m)
  BY <1>1, <1>6
<1>9. QED BY <1>6, <1>7, <1>8 DEF k

\* Where space that is not free belongs.
LEMMA Gap ==
  ASSUME NEW m, InOrder(m), NEW addr \in PosNat, NEW size \in PosNat,
         Units(<<addr, size>>) \cap Free(m) = {}
  PROVE  LET k == After(m, addr)
         IN  /\ k \in 1 .. Len(m) + 1
             /\ \A j \in 1 .. k - 1 : j \in 1 .. Len(m) /\ End(m[j]) <= addr
             /\ \A j \in k .. Len(m) : j \in 1 .. Len(m) /\ addr + size <= m[j].m_addr
<1> DEFINE k == After(m, addr)
<1>1. m \in Seq(Segs) /\ \A i \in 1 .. Len(m) : m[i] \in Segs
  BY SegType DEF InOrder
<1>2. addr \in Int /\ size \in Int /\ addr + size > addr
  BY DEF PosNat
<1>3. /\ k \in 1 .. Len(m) + 1
      /\ \A j \in 1 .. k - 1 : j \in 1 .. Len(m) /\ m[j].m_addr <= addr
      /\ \A j \in k .. Len(m) : j \in 1 .. Len(m) /\ m[j].m_addr > addr
  BY <1>2, AfterIs
<1> HIDE DEF k
<1>4. \A u \in Int : addr <= u /\ u < addr + size => u \notin Free(m)
  BY <1>2 DEF Units
<1>5. ASSUME NEW j \in 1 .. k - 1 PROVE j \in 1 .. Len(m) /\ End(m[j]) <= addr
  <2>1. j \in 1 .. Len(m) /\ m[j].m_addr <= addr /\ m[j] \in Segs
    BY <1>1, <1>3
  <2>2. addr \notin Free(m)
    BY <1>2, <1>4
  <2>3. ~(addr < End(m[j]))
    BY <1>1, <1>2, <2>1, <2>2, FreeUnit
  <2>4. QED BY <1>2, <2>1, <2>3, SegFields
<1>6. ASSUME NEW j \in k .. Len(m) PROVE j \in 1 .. Len(m) /\ addr + size <= m[j].m_addr
  <2>1. j \in 1 .. Len(m) /\ m[j].m_addr > addr /\ m[j] \in Segs
    BY <1>1, <1>3
  <2>2. m[j].m_addr \in Int /\ m[j].m_addr < End(m[j])
    BY <2>1, SegFields DEF PosNat
  <2>3. m[j].m_addr \in Free(m)
    BY <1>1, <2>1, <2>2, FreeUnit
  <2>4. QED BY <1>2, <1>4, <2>1, <2>2, <2>3
<1>7. QED BY <1>3, <1>5, <1>6 DEF k

\* Only the segments that changed matter to what is free.
LEMMA SpreadCup ==
  ASSUME NEW S, NEW T
  PROVE  Spread(S \cup T) = Spread(S) \cup Spread(T)
  BY DEF Spread

\* The space of one segment.
LEMMA SpreadOne ==
  ASSUME NEW e \in Segs
  PROVE  Spread({e}) = Units(<<e.m_addr, e.m_size>>)
  BY SegFields DEF Spread, Units, PosNat

\* The units of one segment are those of no other.
LEMMA SpreadLess ==
  ASSUME NEW m, InOrder(m), NEW k \in 1 .. Len(m)
  PROVE  /\ Spread(Range(m) \ {m[k]}) = Free(m) \ Units(<<m[k].m_addr, m[k].m_size>>)
         /\ Units(<<m[k].m_addr, m[k].m_size>>) \subseteq Free(m)
<1>1. m \in Seq(Segs) /\ m[k] \in Segs
  BY SegType DEF InOrder
<1> DEFINE U == Units(<<m[k].m_addr, m[k].m_size>>)
<1>2. \A u : u \in U <=> u \in Int /\ m[k].m_addr <= u /\ u < End(m[k])
  BY <1>1, SegFields DEF Units, PosNat
<1> HIDE DEF U
<1>3. Free(m) = Spread(Range(m))
  BY <1>1, FreeSpread
<1>4. m[k] \in Range(m)
  BY <1>1, RangeIs
<1>5. U \subseteq Free(m)
  BY <1>2, <1>3, <1>4 DEF Spread
<1>6. ASSUME NEW u, u \in Spread(Range(m) \ {m[k]})
      PROVE  u \notin U
  <2>1. PICK s \in Range(m) \ {m[k]} : u \in Int /\ s.m_addr <= u /\ u < End(s)
    BY <1>6 DEF Spread
  <2>2. PICK i \in 1 .. Len(m) : s = m[i]
    BY <1>1, <2>1, RangeIs
  <2>3. i # k /\ m[i] \in Segs
    BY <1>1, <2>1, <2>2, SegType
  <2>4. Len(m) \in Nat
    BY <1>1, SegType
  <2>5. End(m[i]) < m[k].m_addr \/ End(m[k]) < m[i].m_addr
    BY <2>3, <2>4, Distinct
  <2>6. QED BY <1>1, <1>2, <2>1, <2>2, <2>3, <2>5, SegFields DEF PosNat
<1>7. QED BY <1>2, <1>3, <1>5, <1>6 DEF Spread, U

-----------------------------------------------------------------------------
Leaves(m, r, f) ==
  /\ InOrder(r.map)
  /\ Free(r.map) \cup r.lost = f /\ Free(r.map) \cap r.lost = {}
  /\ Len(m) <= MaxSegs => Len(r.map) <= MaxSegs
  /\ Len(m) <= MaxSegs /\ r.lost # {} => Len(m) = MaxSegs

Starts(m) == {s.m_addr : s \in Range(m)}

\* Inserting a segment adds its units.
LEMMA FreeInserted ==
  ASSUME NEW m, InOrder(m), NEW k \in 1 .. Len(m) + 1, NEW e \in Segs,
         \A j \in 1 .. k - 1 : End(m[j]) < e.m_addr,
         \A j \in k .. Len(m) : End(e) < m[j].m_addr
  PROVE  LET r == InsertAt(m, k, e)
         IN  /\ InOrder(r) /\ Len(r) = Len(m) + 1
             /\ Free(r) = Free(m) \cup Units(<<e.m_addr, e.m_size>>)
             /\ Starts(r) = Starts(m) \cup {e.m_addr}
<1> DEFINE r == InsertAt(m, k, e)
<1>1. InOrder(r) /\ Len(r) = Len(m) + 1 /\ Range(r) = Range(m) \cup {e}
  BY Inserted
<1> HIDE DEF r
<1>2. Free(r) = Spread(Range(m) \cup {e}) /\ Free(m) = Spread(Range(m))
  BY <1>1, FreeSpread DEF InOrder
<1>3. Free(r) = Free(m) \cup Units(<<e.m_addr, e.m_size>>)
  <2>1. Spread(Range(m) \cup {e}) = Spread(Range(m)) \cup Spread({e})
    BY SpreadCup
  <2>2. Spread({e}) = Units(<<e.m_addr, e.m_size>>)
    BY SpreadOne
  <2>3. QED BY <1>2, <2>1, <2>2
<1>4. Starts(r) = Starts(m) \cup {e.m_addr}
  BY <1>1 DEF Starts
<1>5. QED BY <1>1, <1>3, <1>4 DEF r

\* Removing a segment takes its units away.
LEMMA FreeRemoved ==
  ASSUME NEW m, InOrder(m), NEW k \in 1 .. Len(m)
  PROVE  LET r == RemoveAt(m, k)
         IN  /\ InOrder(r) /\ Len(r) = Len(m) - 1
             /\ Free(r) = Free(m) \ Units(<<m[k].m_addr, m[k].m_size>>)
             /\ Units(<<m[k].m_addr, m[k].m_size>>) \subseteq Free(m)
             /\ Starts(r) \subseteq Starts(m)
<1> DEFINE r == RemoveAt(m, k)
<1>1. InOrder(r) /\ Len(r) = Len(m) - 1 /\ Range(r) = Range(m) \ {m[k]}
  BY Removed
<1> HIDE DEF r
<1>2. Free(r) = Spread(Range(m) \ {m[k]})
  BY <1>1, FreeSpread DEF InOrder
<1>3. Starts(r) \subseteq Starts(m)
  BY <1>1 DEF Starts
<1>4. QED BY <1>1, <1>2, <1>3, SpreadLess DEF r

\* Replacing a segment exchanges the units.
LEMMA FreeReplaced ==
  ASSUME NEW m, InOrder(m), NEW k \in 1 .. Len(m), NEW e \in Segs,
         \A j \in 1 .. k - 1 : End(m[j]) < e.m_addr,
         \A j \in k + 1 .. Len(m) : End(e) < m[j].m_addr
  PROVE  LET r == [m EXCEPT ![k] = e]
         IN  /\ InOrder(r) /\ Len(r) = Len(m)
             /\ Free(r) = (Free(m) \ Units(<<m[k].m_addr, m[k].m_size>>))
                            \cup Units(<<e.m_addr, e.m_size>>)
             /\ Starts(r) \subseteq Starts(m) \cup {e.m_addr}
<1> DEFINE r == [m EXCEPT ![k] = e]
<1>1. InOrder(r) /\ Len(r) = Len(m) /\ Range(r) = (Range(m) \ {m[k]}) \cup {e}
  BY Replaced
<1> HIDE DEF r
<1>2. Free(r) = Spread((Range(m) \ {m[k]}) \cup {e})
  BY <1>1, FreeSpread DEF InOrder
<1>3. Free(r) = Spread(Range(m) \ {m[k]}) \cup Units(<<e.m_addr, e.m_size>>)
  <2>1. Spread((Range(m) \ {m[k]}) \cup {e}) = Spread(Range(m) \ {m[k]}) \cup Spread({e})
    BY SpreadCup
  <2>2. Spread({e}) = Units(<<e.m_addr, e.m_size>>)
    BY SpreadOne
  <2>3. QED BY <1>2, <2>1, <2>2
<1>4. Starts(r) \subseteq Starts(m) \cup {e.m_addr}
  BY <1>1 DEF Starts
<1>5. QED BY <1>1, <1>3, <1>4, SpreadLess DEF r

\* The discard of rmfree() loses exactly the units of one segment.
LEMMA OverflowLeaves ==
  ASSUME NEW m, InOrder(m), MaxSegs \in Int, MaxSegs > 1
  PROVE  LET r == Overflow(m)
         IN  /\ ~r.bad /\ InOrder(r.map) /\ Starts(r.map) \subseteq Starts(m)
             /\ Free(r.map) \cup r.lost = Free(m) /\ Free(r.map) \cap r.lost = {}
             /\ Len(m) <= MaxSegs + 1 => Len(r.map) <= MaxSegs
             /\ r.lost # {} => Len(m) > MaxSegs
<1>1. Len(m) \in Nat
  BY SegType DEF InOrder
<1>2. CASE Len(m) <= MaxSegs
  BY <1>2 DEF Overflow
<1>3. CASE Len(m) > MaxSegs
  <2> DEFINE k == Len(m) - 1
             c == RemoveAt(m, k)
             U == Units(<<m[k].m_addr, m[k].m_size>>)
  <2>1. k \in 1 .. Len(m) /\ ~(Len(m) <= MaxSegs)
    BY <1>1, <1>3
  <2>2. Overflow(m) = [map |-> c, bad |-> FALSE, lost |-> U]
    BY <2>1 DEF Overflow
  <2> HIDE DEF k
  <2>3. /\ InOrder(c) /\ Len(c) = Len(m) - 1 /\ Free(c) = Free(m) \ U
        /\ U \subseteq Free(m) /\ Starts(c) \subseteq Starts(m)
    BY <2>1, FreeRemoved
  <2> HIDE DEF c, U
  <2>4. /\ Overflow(m).map = c /\ Overflow(m).lost = U /\ Overflow(m).bad = FALSE
    BY <2>2
  <2>5. Len(m) <= MaxSegs + 1 => Len(c) <= MaxSegs
    BY <1>1, <2>3
  <2>6. QED BY <1>3, <2>3, <2>4, <2>5
<1>4. QED BY <1>1, <1>2, <1>3

\* A piece is its two parts.
LEMMA UnitsJoin ==
  ASSUME NEW a \in Int, NEW x \in Nat, NEW y \in Nat
  PROVE  /\ Units(<<a, x + y>>) = Units(<<a, x>>) \cup Units(<<a + x, y>>)
         /\ Units(<<a, x>>) \cap Units(<<a + x, y>>) = {}
  BY DEF Units

\* The two changes of rmfree() that combine segments, as replacements.
LEMMA Fields ==
  ASSUME NEW s \in Segs, NEW n \in Int
  PROVE  /\ [s EXCEPT !.m_size = @ + n] = Seg(s.m_addr, s.m_size + n)
         /\ [s EXCEPT !.m_size = n] = Seg(s.m_addr, n)
         /\ [s EXCEPT !.m_addr = @ - n, !.m_size = @ + n] = Seg(s.m_addr - n, s.m_size + n)
         /\ [s EXCEPT !.m_addr = @ + n, !.m_size = @ - n] = Seg(s.m_addr + n, s.m_size - n)
<1>1. s \in [m_addr : PosNat, m_size : PosNat]
  BY DEF Segs
<1>2. [s EXCEPT !.m_size = @ + n] = Seg(s.m_addr, s.m_size + n)
  BY <1>1 DEF Seg
<1>3. [s EXCEPT !.m_size = n] = Seg(s.m_addr, n)
  BY <1>1 DEF Seg
<1>4. [s EXCEPT !.m_addr = @ - n, !.m_size = @ + n] = Seg(s.m_addr - n, s.m_size + n)
  <2> DEFINE t == [s EXCEPT !.m_addr = @ - n, !.m_size = @ + n]
  <2>1. t.m_addr = s.m_addr - n /\ t.m_size = s.m_size + n
    BY <1>1
  <2>2. DOMAIN t = {"m_addr", "m_size"} /\ t = [f \in {"m_addr", "m_size"} |-> t[f]]
    BY <1>1
  <2> HIDE DEF t
  <2>3. t = Seg(t.m_addr, t.m_size)
    BY <2>2 DEF Seg
  <2>4. QED BY <2>1, <2>3 DEF t
<1>5. [s EXCEPT !.m_addr = @ + n, !.m_size = @ - n] = Seg(s.m_addr + n, s.m_size - n)
  <2> DEFINE t == [s EXCEPT !.m_addr = @ + n, !.m_size = @ - n]
  <2>1. t.m_addr = s.m_addr + n /\ t.m_size = s.m_size - n
    BY <1>1
  <2>2. DOMAIN t = {"m_addr", "m_size"} /\ t = [f \in {"m_addr", "m_size"} |-> t[f]]
    BY <1>1
  <2> HIDE DEF t
  <2>3. t = Seg(t.m_addr, t.m_size)
    BY <2>2 DEF Seg
  <2>4. QED BY <2>1, <2>3 DEF t
<1>6. QED BY <1>2, <1>3, <1>4, <1>5

\* The map with another segment in slot k.
Put(m, k, e) == [m EXCEPT ![k] = e]

\* Everything behind slot k is beyond unit u.
Behind(m, k, u) == \A j \in k + 1 .. Len(m) : u < m[j].m_addr

\* Growing the segment on the left adds the freed piece.
LEMMA CombineLeft ==
  ASSUME NEW m, InOrder(m), NEW addr \in PosNat, NEW size \in PosNat,
         NEW k \in 1 .. Len(m), End(m[k]) = addr, Behind(m, k, addr + size),
         NEW r, r = Put(m, k, Seg(m[k].m_addr, m[k].m_size + size))
  PROVE  /\ InOrder(r) /\ Len(r) = Len(m) /\ Starts(r) \subseteq Starts(m)
         /\ Free(r) = Free(m) \cup Units(<<addr, size>>)
<1> DEFINE a == m[k].m_addr
           n == m[k].m_size
           e == Seg(a, n + size)
<1>1. /\ m \in Seq(Segs) /\ Len(m) \in Nat /\ m[k] \in Segs
      /\ \A i \in 1 .. Len(m) : m[i] \in Segs
  BY SegType DEF InOrder
<1>2. /\ a \in PosNat /\ n \in PosNat /\ addr = a + n
  BY <1>1, SegFields
<1>3. size \in Int
  BY DEF PosNat
<1>4. r = [m EXCEPT ![k] = e]
  BY DEF Put
<1> HIDE DEF a, n
<1>5. e \in Segs /\ e.m_addr = a /\ e.m_size = n + size /\ End(e) = addr + size
  <2>1. n + size \in PosNat
    BY <1>2 DEF PosNat
  <2>2. e \in Segs /\ e.m_addr = a /\ e.m_size = n + size /\ End(e) = a + (n + size)
    BY <1>2, <2>1, SegIs
  <2>3. a + (n + size) = addr + size
    BY <1>2 DEF PosNat
  <2>4. QED BY <2>2, <2>3
<1> HIDE DEF e
<1>6. \A j \in 1 .. k - 1 : End(m[j]) < e.m_addr
  <2>1. ASSUME NEW j \in 1 .. k - 1 PROVE End(m[j]) < m[k].m_addr
    <3>1. j \in 1 .. Len(m) /\ j < k /\ j # k
      BY <1>1
    <3>2. QED BY <3>1, Distinct
  <2>2. QED BY <1>5, <2>1 DEF a
<1>7. \A j \in k + 1 .. Len(m) : End(e) < m[j].m_addr
  BY <1>5 DEF Behind
<1>8. /\ InOrder(r) /\ Len(r) = Len(m)
      /\ Free(r) = (Free(m) \ Units(<<a, n>>)) \cup Units(<<a, n + size>>)
      /\ Starts(r) \subseteq Starts(m) \cup {a}
  <2> DEFINE c == [m EXCEPT ![k] = e]
  <2>1. /\ InOrder(c) /\ Len(c) = Len(m)
        /\ Free(c) = (Free(m) \ Units(<<m[k].m_addr, m[k].m_size>>))
                       \cup Units(<<e.m_addr, e.m_size>>)
        /\ Starts(c) \subseteq Starts(m) \cup {e.m_addr}
    BY <1>5, <1>6, <1>7, FreeReplaced
  <2> HIDE DEF c
  <2>2. r = c
    BY <1>4 DEF c
  <2>3. QED BY <1>5, <2>1, <2>2 DEF a, n
<1>9. Units(<<a, n>>) \subseteq Free(m)
  BY SpreadLess DEF a, n
<1>10. Units(<<a, n + size>>) = Units(<<a, n>>) \cup Units(<<addr, size>>)
  BY <1>2, UnitsJoin DEF PosNat
<1>11. a \in Starts(m)
  BY <1>1, RangeIs DEF Starts, a
<1>12. QED BY <1>8, <1>9, <1>10, <1>11

\* Growing the segment on the right adds it.
LEMMA CombineRight ==
  ASSUME NEW m, InOrder(m), NEW addr \in PosNat, NEW size \in PosNat,
         NEW k \in 1 .. Len(m), addr + size = m[k].m_addr,
         \A j \in 1 .. k - 1 : End(m[j]) < addr,
         NEW r, r = Put(m, k, Seg(m[k].m_addr - size, m[k].m_size + size))
  PROVE  /\ InOrder(r) /\ Len(r) = Len(m) /\ Starts(r) \subseteq Starts(m) \cup {addr}
         /\ Free(r) = Free(m) \cup Units(<<addr, size>>)
<1> DEFINE a == m[k].m_addr
           n == m[k].m_size
           e == Seg(a - size, n + size)
<1>1. /\ m \in Seq(Segs) /\ Len(m) \in Nat /\ m[k] \in Segs
      /\ \A i \in 1 .. Len(m) : m[i] \in Segs
  BY SegType DEF InOrder
<1>2. a \in PosNat /\ n \in PosNat /\ addr + size = a /\ End(m[k]) = a + n
  BY <1>1, SegFields
<1>3. size \in Int /\ a - size = addr
  BY <1>2 DEF PosNat
<1>4. r = [m EXCEPT ![k] = e]
  BY DEF Put
<1> HIDE DEF a, n
<1>5. e \in Segs /\ e.m_addr = addr /\ e.m_size = n + size /\ End(e) = a + n
  <2>1. n + size \in PosNat
    BY <1>2 DEF PosNat
  <2>2. e \in Segs /\ e.m_addr = addr /\ e.m_size = n + size /\ End(e) = addr + (n + size)
    BY <1>3, <2>1, SegIs
  <2>3. addr + (n + size) = a + n
    BY <1>2 DEF PosNat
  <2>4. QED BY <2>2, <2>3
<1> HIDE DEF e
<1>6. \A j \in k + 1 .. Len(m) : End(e) < m[j].m_addr
  <2>1. ASSUME NEW j \in k + 1 .. Len(m) PROVE End(m[k]) < m[j].m_addr
    <3>1. j \in 1 .. Len(m) /\ k < j /\ j # k
      BY <1>1
    <3>2. QED BY <3>1, Distinct
  <2>2. QED BY <1>2, <1>5, <2>1
<1>7. \A j \in 1 .. k - 1 : End(m[j]) < e.m_addr
  BY <1>5
<1>8. /\ InOrder(r) /\ Len(r) = Len(m)
      /\ Free(r) = (Free(m) \ Units(<<a, n>>)) \cup Units(<<addr, n + size>>)
      /\ Starts(r) \subseteq Starts(m) \cup {addr}
  <2> DEFINE c == [m EXCEPT ![k] = e]
  <2>1. /\ InOrder(c) /\ Len(c) = Len(m)
        /\ Free(c) = (Free(m) \ Units(<<m[k].m_addr, m[k].m_size>>))
                       \cup Units(<<e.m_addr, e.m_size>>)
        /\ Starts(c) \subseteq Starts(m) \cup {e.m_addr}
    BY <1>5, <1>6, <1>7, FreeReplaced
  <2> HIDE DEF c
  <2>2. r = c
    BY <1>4 DEF c
  <2>3. QED BY <1>5, <2>1, <2>2 DEF a, n
<1>9. Units(<<a, n>>) \subseteq Free(m)
  BY SpreadLess DEF a, n
<1>10. Units(<<addr, n + size>>) = Units(<<addr, size>>) \cup Units(<<a, n>>)
  <2>1. n + size = size + n
    BY <1>2 DEF PosNat
  <2>2. addr \in Int /\ size \in Nat /\ n \in Nat
    BY <1>2 DEF PosNat
  <2>3. Units(<<addr, size + n>>) = Units(<<addr, size>>) \cup Units(<<addr + size, n>>)
    BY <2>2, UnitsJoin
  <2>4. QED BY <1>2, <2>1, <2>3
<1>11. QED BY <1>8, <1>9, <1>10

\* Joining the segments on both sides adds it.
LEMMA CombineBoth ==
  ASSUME NEW m, InOrder(m), NEW addr \in PosNat, NEW size \in PosNat,
         NEW k \in 2 .. Len(m), End(m[k - 1]) = addr, addr + size = m[k].m_addr
  PROVE  LET r == RemoveAt(Put(m, k - 1, Seg(m[k - 1].m_addr,
                                           m[k - 1].m_size + size + m[k].m_size)), k)
         IN  /\ InOrder(r) /\ Len(r) = Len(m) - 1 /\ Starts(r) \subseteq Starts(m)
             /\ Free(r) = Free(m) \cup Units(<<addr, size>>)
<1> DEFINE d == RemoveAt(m, k)
           n == m[k].m_size
           h == Seg(m[k - 1].m_addr, m[k - 1].m_size + size + n)
           g == Put(m, k - 1, h)
           r == RemoveAt(g, k)
           s == Put(d, k - 1, h)
<1>1. /\ m \in Seq(Segs) /\ Len(m) \in Nat /\ m[k] \in Segs /\ m[k - 1] \in Segs
      /\ k \in 1 .. Len(m) /\ k - 1 \in 1 .. Len(m) /\ k - 1 \in 1 .. Len(m) - 1
      /\ k - 1 < k
  BY SegType DEF InOrder
<1>2. /\ n \in PosNat /\ m[k - 1].m_size \in PosNat
      /\ End(m[k]) = m[k].m_addr + n
  BY <1>1, SegFields
<1>3. size + n \in PosNat /\ addr + (size + n) = End(m[k])
  BY <1>2 DEF PosNat
<1>4. /\ d \in Seq(Segs) /\ Len(d) = Len(m) - 1
      /\ \A i \in 1 .. Len(m) - 1 : d[i] = IF i < k THEN m[i] ELSE m[i + 1]
  BY <1>1, RemoveAtIs
<1>5. d[k - 1] = m[k - 1] /\ k - 1 \in 1 .. Len(d) /\ (k - 1) + 1 = k
  BY <1>1, <1>4
<1> HIDE DEF d, n
<1>6. h \in Segs /\ h = Seg(m[k - 1].m_addr, m[k - 1].m_size + (size + n))
  <2>1. m[k - 1].m_size + size + n = m[k - 1].m_size + (size + n)
    BY <1>2 DEF PosNat
  <2>2. m[k - 1].m_addr \in PosNat /\ m[k - 1].m_size + (size + n) \in PosNat
    <3>1. m[k - 1].m_addr \in PosNat
      BY <1>1, SegFields
    <3>2. \A x, y \in PosNat : x + y \in PosNat
      BY DEF PosNat
    <3>3. QED BY <1>2, <1>3, <3>1, <3>2
  <2>3. QED BY <2>1, <2>2, SegIs
<1> HIDE DEF g, h, s
<1>7. /\ g \in Seq(Segs) /\ Len(g) = Len(m)
      /\ \A i \in 1 .. Len(m) : g[i] = IF i = k - 1 THEN h ELSE m[i]
  BY <1>1, <1>6 DEF g, Put
<1>8. /\ r \in Seq(Segs) /\ Len(r) = Len(m) - 1
      /\ \A i \in 1 .. Len(m) - 1 : r[i] = IF i < k THEN g[i] ELSE g[i + 1]
  <2>1. k \in 1 .. Len(g)
    BY <1>1, <1>7
  <2>2. QED BY <1>7, <2>1, RemoveAtIs
<1>9. /\ s \in Seq(Segs) /\ Len(s) = Len(m) - 1
       /\ \A i \in 1 .. Len(m) - 1 : s[i] = IF i = k - 1 THEN h ELSE d[i]
  <2>1. DOMAIN d = 1 .. Len(m) - 1
    BY <1>4
  <2>2. QED BY <1>4, <1>5, <1>6, <2>1 DEF s, Put
<1> HIDE DEF r
<1>10. ASSUME NEW i \in 1 .. Len(m) - 1 PROVE r[i] = s[i]
  <2>1. i \in 1 .. Len(m) /\ i + 1 \in 1 .. Len(m)
    BY <1>1
  <2>2. CASE i < k
    <3>1. r[i] = g[i] /\ d[i] = m[i]
      BY <1>4, <1>8, <2>2
    <3>2. QED BY <1>7, <1>9, <2>1, <3>1
  <2>3. CASE ~(i < k)
    <3>1. i + 1 # k - 1 /\ i # k - 1
      BY <1>1, <2>3
    <3>2. r[i] = g[i + 1] /\ d[i] = m[i + 1]
      BY <1>4, <1>8, <2>3
    <3>3. QED BY <1>7, <1>9, <2>1, <3>1, <3>2
  <2>4. QED BY <2>2, <2>3
<1>11. r = s
  <2>1. DOMAIN r = 1 .. Len(m) - 1 /\ r = [i \in 1 .. Len(m) - 1 |-> r[i]]
    BY <1>8
  <2>2. DOMAIN s = 1 .. Len(m) - 1 /\ s = [i \in 1 .. Len(m) - 1 |-> s[i]]
    BY <1>9
  <2>3. QED BY <1>10, <2>1, <2>2
<1>12. /\ InOrder(d) /\ Free(d) = Free(m) \ Units(<<m[k].m_addr, n>>)
       /\ Units(<<m[k].m_addr, n>>) \subseteq Free(m) /\ Starts(d) \subseteq Starts(m)
  BY <1>1, FreeRemoved DEF d, n
<1>13. ASSUME NEW j \in k .. Len(d) PROVE addr + (size + n) < d[j].m_addr
  <2>1. j \in 1 .. Len(m) - 1 /\ ~(j < k) /\ j + 1 \in 1 .. Len(m) /\ k < j + 1
    BY <1>1, <1>4
  <2>2. d[j] = m[j + 1]
    BY <1>4, <2>1
  <2>3. End(m[k]) < m[j + 1].m_addr
    BY <1>1, <2>1, Distinct
  <2>4. QED BY <1>3, <2>2, <2>3
<1>14. /\ InOrder(s) /\ Starts(s) \subseteq Starts(d)
       /\ Free(s) = Free(d) \cup Units(<<addr, size + n>>)
  <2>1. End(d[k - 1]) = addr
    BY <1>5
  <2>2. \A j \in (k - 1) + 1 .. Len(d) : addr + (size + n) < d[j].m_addr
    BY <1>5, <1>13
  <2> DEFINE x == k - 1
             z == size + n
  <2>3. x \in 1 .. Len(d) /\ z \in PosNat /\ End(d[x]) = addr
    BY <1>3, <1>5, <2>1
  <2>4. Behind(d, x, addr + z)
    BY <2>2 DEF Behind
  <2>5. s = Put(d, x, Seg(d[x].m_addr, d[x].m_size + z))
    BY <1>5, <1>6 DEF s
  <2> HIDE DEF x, z
  <2>6. /\ InOrder(s) /\ Starts(s) \subseteq Starts(d)
        /\ Free(s) = Free(d) \cup Units(<<addr, z>>)
    <3>1. addr \in PosNat
      OBVIOUS
    <3>2. QED BY ONLY <1>12, <2>3, <2>4, <2>5, <3>1, CombineLeft
  <2>7. QED BY <2>6 DEF z
<1>15. Units(<<addr, size + n>>) = Units(<<addr, size>>) \cup Units(<<m[k].m_addr, n>>)
  BY <1>2, UnitsJoin DEF PosNat
<1>16. /\ InOrder(r) /\ Len(r) = Len(m) - 1 /\ Starts(r) \subseteq Starts(m)
       /\ Free(r) = Free(m) \cup Units(<<addr, size>>)
  BY <1>8, <1>11, <1>12, <1>14, <1>15
<1>17. QED BY <1>16 DEF r, g, h, n

\* rmfree() of space that is not free adds it, in every one of its cases, and
\* loses space only when the table is full.
LEMMA RmfreeLeaves ==
  ASSUME NEW m, InOrder(m), NEW addr \in PosNat, NEW size \in PosNat,
         Units(<<addr, size>>) \cap Free(m) = {}, MaxSegs \in Int, MaxSegs > 1
  PROVE  LET r == RmfreeMap(m, size, addr)
         IN  /\ ~r.bad /\ Starts(r.map) \subseteq Starts(m) \cup {addr}
             /\ Leaves(m, r, Free(m) \cup Units(<<addr, size>>))
<1> DEFINE k     == After(m, addr)
           r     == RmfreeMap(m, size, addr)
           left  == k > 1 /\ End(m[k - 1]) >= addr
           right == k <= Len(m) /\ addr + size >= m[k].m_addr
           over  == \/ left /\ End(m[k - 1]) > addr
                    \/ right /\ addr + size > m[k].m_addr
           both  == RemoveAt([m EXCEPT ![k - 1].m_size = @ + size + m[k].m_size], k)
           onl   == [m EXCEPT ![k - 1].m_size = @ + size]
           onr   == [m EXCEPT ![k].m_addr = @ - size, ![k].m_size = @ + size]
           ins   == InsertAt(m, k, Seg(addr, size))
           Done(g) == [map |-> g, lost |-> {}, bad |-> FALSE]
           f     == Free(m) \cup Units(<<addr, size>>)
<1>1. /\ k \in 1 .. Len(m) + 1
      /\ \A j \in 1 .. k - 1 : j \in 1 .. Len(m) /\ End(m[j]) <= addr
      /\ \A j \in k .. Len(m) : j \in 1 .. Len(m) /\ addr + size <= m[j].m_addr
  BY Gap
<1>2. /\ m \in Seq(Segs) /\ Len(m) \in Nat
      /\ \A i \in 1 .. Len(m) :
           m[i] \in Segs /\ m[i].m_addr \in Int /\ m[i].m_size \in Int /\ End(m[i]) \in Int
  BY SegType, SegFields DEF InOrder, PosNat
<1>3. addr \in Int /\ size \in Int /\ addr > 0 /\ size > 0
  BY DEF PosNat
<1>4. r = IF addr <= 0 \/ size <= 0 \/ over
          THEN [map |-> m, lost |-> {}, bad |-> TRUE]
          ELSE IF left \/ right
               THEN Done(IF left /\ right THEN both ELSE IF left THEN onl ELSE onr)
          ELSE Overflow(ins)
  BY DEF RmfreeMap
<1> HIDE DEF k, r, both, onl, onr, ins
<1>5. left => k - 1 \in 1 .. Len(m) /\ End(m[k - 1]) = addr
  <2>1. k > 1 => k - 1 \in 1 .. k - 1
    BY <1>1, <1>2
  <2>2. k > 1 => k - 1 \in 1 .. Len(m) /\ End(m[k - 1]) <= addr
    BY <1>1, <2>1
  <2>3. QED BY <1>2, <1>3, <2>2
<1>6. right => k \in 1 .. Len(m) /\ addr + size = m[k].m_addr
  <2>1. k <= Len(m) => k \in k .. Len(m)
    BY <1>1, <1>2
  <2>2. k <= Len(m) => k \in 1 .. Len(m) /\ addr + size <= m[k].m_addr
    BY <1>1, <2>1
  <2> SUFFICES ASSUME right PROVE k \in 1 .. Len(m) /\ addr + size = m[k].m_addr
    OBVIOUS
  <2>3. k \in 1 .. Len(m) /\ addr + size <= m[k].m_addr /\ addr + size >= m[k].m_addr
    BY <2>2
  <2>4. m[k].m_addr \in Int
    BY <1>2, <2>3
  <2>5. QED BY <1>3, <2>3, <2>4
<1>7. ~over
  <2>1. left => ~(End(m[k - 1]) > addr)
    BY <1>3, <1>5
  <2>2. right => ~(addr + size > m[k].m_addr)
    BY <1>3, <1>6
  <2>3. QED BY <2>1, <2>2
<1>8. ~left => \A j \in 1 .. k - 1 : End(m[j]) < addr
  <2> SUFFICES ASSUME ~left, NEW j \in 1 .. k - 1 PROVE End(m[j]) < addr
    OBVIOUS
  <2>1. k > 1 /\ k - 1 \in 1 .. k - 1 /\ k \in Int
    BY <1>1, <1>2
  <2>2. k - 1 \in 1 .. Len(m) /\ j \in 1 .. Len(m) /\ ~(End(m[k - 1]) >= addr)
    BY <1>1, <2>1
  <2>3. End(m[k - 1]) < addr
    BY <1>2, <1>3, <2>2
  <2>4. CASE j = k - 1
    BY <2>3, <2>4
  <2>5. CASE j # k - 1
    <3>1. j < k - 1
      BY <2>1, <2>5
    <3>2. End(m[j]) < m[k - 1].m_addr
      BY <2>2, <2>5, <3>1, Distinct
    <3>3. m[k - 1].m_addr < End(m[k - 1])
      <4>1. m[k - 1] \in Segs
        BY <1>2, <2>2
      <4>2. QED BY <4>1, SegFields DEF PosNat
    <3>4. QED BY <1>2, <1>3, <2>2, <2>3, <3>2, <3>3
  <2>6. QED BY <2>4, <2>5
<1>9. ~right => \A j \in k .. Len(m) : addr + size < m[j].m_addr
  <2> SUFFICES ASSUME ~right, NEW j \in k .. Len(m) PROVE addr + size < m[j].m_addr
    OBVIOUS
  <2>1. k <= Len(m) /\ k \in k .. Len(m) /\ k \in Int
    BY <1>1, <1>2
  <2>2. k \in 1 .. Len(m) /\ j \in 1 .. Len(m) /\ ~(addr + size >= m[k].m_addr)
    BY <1>1, <2>1
  <2>3. addr + size < m[k].m_addr
    BY <1>2, <1>3, <2>2
  <2>4. CASE j = k
    BY <2>3, <2>4
  <2>5. CASE j # k
    <3>1. k < j
      BY <2>1, <2>5
    <3>2. m[k].m_addr < m[j].m_addr
      BY <2>2, <2>5, <3>1, Distinct
    <3>3. QED BY <1>2, <1>3, <2>2, <2>3, <3>2
  <2>6. QED BY <2>4, <2>5
<1>10. ASSUME NEW g, r = Done(g), InOrder(g), Len(g) <= Len(m), Free(g) = f,
              Starts(g) \subseteq Starts(m) \cup {addr}
       PROVE  /\ ~r.bad /\ Starts(r.map) \subseteq Starts(m) \cup {addr}
              /\ Leaves(m, r, f)
  <2>1. r.map = g /\ r.lost = {} /\ r.bad = FALSE
    BY <1>10
  <2>2. Len(g) \in Nat
    BY <1>10, SegType DEF InOrder
  <2>3. Len(m) <= MaxSegs => Len(g) <= MaxSegs
    BY <1>2, <1>10, <2>2
  <2> HIDE DEF f
  <2>4. QED BY <1>10, <2>1, <2>3 DEF Leaves
<1> HIDE DEF left, right, over
<1>11. CASE left /\ right
  <2>1. r = Done(both)
    BY <1>3, <1>4, <1>7, <1>11
  <2>2. k \in 2 .. Len(m)
    BY <1>5, <1>6, <1>11
  <2>3. /\ InOrder(both) /\ Len(both) = Len(m) - 1 /\ Starts(both) \subseteq Starts(m)
        /\ Free(both) = f
    <3> DEFINE c == RemoveAt(Put(m, k - 1, Seg(m[k - 1].m_addr,
                                           m[k - 1].m_size + size + m[k].m_size)), k)
    <3>1. both = c
      <4> DEFINE x == k - 1
                 n == m[k].m_size
                 g == [m[x] EXCEPT !.m_size = @ + size + n]
      <4>1. g = Seg(m[x].m_addr, m[x].m_size + size + n)
        <5>1. m[x] \in Segs
          BY <1>2, <1>5, <1>11
        <5>2. QED BY <5>1 DEF Segs, Seg
      <4>2. both = RemoveAt([m EXCEPT ![x] = g], k)
        BY DEF both
      <4> HIDE DEF g
      <4>3. QED BY <4>1, <4>2 DEF Put
    <3>2. End(m[k - 1]) = addr /\ addr + size = m[k].m_addr
      BY <1>5, <1>6, <1>11
    <3>3. /\ InOrder(c) /\ Len(c) = Len(m) - 1 /\ Starts(c) \subseteq Starts(m)
          /\ Free(c) = f
      BY <2>2, <3>2, CombineBoth
    <3> HIDE DEF c
    <3>4. QED BY <3>1, <3>3
  <2>4. Len(both) <= Len(m)
    BY <1>2, <2>3
  <2>5. QED BY <1>10, <2>1, <2>3, <2>4 DEF r
<1>12. CASE left /\ ~right
  <2>1. r = Done(onl)
    BY <1>3, <1>4, <1>7, <1>12
  <2> DEFINE x == k - 1
  <2>2. x \in 1 .. Len(m) /\ End(m[x]) = addr /\ x + 1 = k
    BY <1>1, <1>2, <1>5, <1>12
  <2>3. Behind(m, x, addr + size)
    BY <1>9, <1>12, <2>2 DEF Behind
  <2>4. onl = Put(m, x, Seg(m[x].m_addr, m[x].m_size + size))
    <3>1. [m[x] EXCEPT !.m_size = @ + size] = Seg(m[x].m_addr, m[x].m_size + size)
      BY <1>2, <1>3, <2>2, Fields
    <3>2. onl = [m EXCEPT ![x] = [m[x] EXCEPT !.m_size = @ + size]]
      BY DEF onl
    <3> HIDE DEF x
    <3>3. QED BY <3>1, <3>2 DEF Put
  <2> HIDE DEF x
  <2>5. /\ InOrder(onl) /\ Len(onl) = Len(m) /\ Starts(onl) \subseteq Starts(m)
        /\ Free(onl) = f
    BY <2>2, <2>3, <2>4, CombineLeft
  <2>6. Len(onl) <= Len(m)
    BY <1>2, <2>5
  <2>7. QED BY <1>10, <2>1, <2>5, <2>6 DEF r
<1>13. CASE ~left /\ right
  <2>1. r = Done(onr)
    BY <1>3, <1>4, <1>7, <1>13
  <2>2. /\ InOrder(onr) /\ Len(onr) = Len(m) /\ Starts(onr) \subseteq Starts(m) \cup {addr}
        /\ Free(onr) = f
    <3>1. k \in 1 .. Len(m) /\ addr + size = m[k].m_addr
      BY <1>6, <1>13
    <3>2. onr = Put(m, k, Seg(m[k].m_addr - size, m[k].m_size + size))
      <4> DEFINE g == [m[k] EXCEPT !.m_addr = @ - size, !.m_size = @ + size]
      <4>1. g = Seg(m[k].m_addr - size, m[k].m_size + size)
        BY <1>2, <1>3, <3>1, Fields
      <4>2. onr = [m EXCEPT ![k] = g]
        BY <1>2, <3>1 DEF onr
      <4> HIDE DEF g
      <4>3. QED BY <4>1, <4>2 DEF Put
    <3>3. \A j \in 1 .. k - 1 : End(m[j]) < addr
      BY <1>8, <1>13
    <3>4. QED BY <3>1, <3>2, <3>3, CombineRight
  <2>3. Len(onr) <= Len(m)
    BY <1>2, <2>2
  <2>4. QED BY <1>10, <2>1, <2>2, <2>3 DEF r
<1>14. CASE ~left /\ ~right
  <2>1. r = Overflow(ins)
    BY <1>3, <1>4, <1>7, <1>14
  <2> DEFINE e == Seg(addr, size)
  <2>2. e \in Segs /\ e.m_addr = addr /\ e.m_size = size /\ End(e) = addr + size
    BY SegIs
  <2>3. /\ \A j \in 1 .. k - 1 : End(m[j]) < e.m_addr
        /\ \A j \in k .. Len(m) : End(e) < m[j].m_addr
    BY <1>8, <1>9, <1>14, <2>2
  <2> HIDE DEF e
  <2>4. ins = InsertAt(m, k, e)
    BY DEF ins, e
  <2>5. /\ InOrder(ins) /\ Len(ins) = Len(m) + 1 /\ Free(ins) = f
        /\ Starts(ins) = Starts(m) \cup {addr}
    BY <1>1, <2>2, <2>3, <2>4, FreeInserted
  <2>6. /\ ~r.bad /\ InOrder(r.map) /\ Starts(r.map) \subseteq Starts(ins)
        /\ Free(r.map) \cup r.lost = Free(ins) /\ Free(r.map) \cap r.lost = {}
        /\ Len(ins) <= MaxSegs + 1 => Len(r.map) <= MaxSegs
        /\ r.lost # {} => Len(ins) > MaxSegs
    BY <2>1, <2>5, OverflowLeaves
  <2>7. /\ Len(m) <= MaxSegs => Len(r.map) <= MaxSegs
        /\ Len(m) <= MaxSegs /\ r.lost # {} => Len(m) = MaxSegs
    BY <1>2, <2>5, <2>6
  <2> HIDE DEF f
  <2>8. QED BY <2>5, <2>6, <2>7 DEF Leaves, r, f
<1>15. QED BY <1>11, <1>12, <1>13, <1>14 DEF r

-----------------------------------------------------------------------------
\* Quotient and remainder.
LEMMA DivMod ==
  ASSUME NEW a \in Int, NEW d \in PosNat
  PROVE  a % d \in 0 .. d - 1 /\ a \div d \in Int /\ a = d * (a \div d) + (a % d)
  BY DEF PosNat

\* They are the only ones.
LEMMA DivModIs ==
  ASSUME NEW a \in Int, NEW d \in PosNat, NEW q \in Int, NEW r \in 0 .. d - 1,
         a = d * q + r
  PROVE  a \div d = q /\ a % d = r
  BY DEF PosNat

\* The sum of multiples is a multiple.
LEMMA SumAligned ==
  ASSUME NEW d \in PosNat, NEW a \in Int, NEW b \in Int, a % d = 0, b % d = 0
  PROVE  (a + b) % d = 0
<1> DEFINE x == a \div d
           y == b \div d
<1>1. x \in Int /\ y \in Int /\ a = d * x + 0 /\ b = d * y + 0 /\ d \in Int /\ 0 \in 0 .. d - 1
  BY DivMod DEF PosNat
<1> HIDE DEF x, y
<1>2. a + b = d * (x + y) + 0
  BY <1>1
<1>3. QED BY <1>1, <1>2, DivModIs

\* A multiple of a multiple is a multiple.
LEMMA MultipleAligned ==
  ASSUME NEW c \in PosNat, NEW d \in PosNat, NEW a \in Int, a % d = 0, d % c = 0
  PROVE  a % c = 0
<1> DEFINE x == a \div d
           y == d \div c
<1>1. x \in Int /\ y \in Int /\ a = d * x + 0 /\ d = c * y + 0 /\ c \in Int /\ d \in Int
      /\ 0 \in 0 .. c - 1
  BY DivMod DEF PosNat
<1> HIDE DEF x, y
<1>2. a = (c * y) * x
  BY <1>1
<1>3. (c * y) * x = c * (y * x) /\ y * x \in Int
  BY <1>1
<1>4. a = c * (y * x) + 0
  BY <1>1, <1>2, <1>3
<1>5. QED BY <1>1, <1>3, <1>4, DivModIs

\* What lies before the next multiple of dmmax lies within one device.
LEMMA WithinOne ==
  ASSUME NEW d \in PosNat, NEW a \in Int, NEW n \in PosNat, n <= d - (a % d)
  PROVE  a \div d = (a + n - 1) \div d
<1> DEFINE x == a \div d
           y == a % d
<1>1. x \in Int /\ y \in 0 .. d - 1 /\ a = d * x + y /\ d * x \in Int
  BY DivMod DEF PosNat
<1> HIDE DEF x
<1>2. y + n - 1 \in 0 .. d - 1 /\ a + n - 1 = d * x + (y + n - 1) /\ a + n - 1 \in Int
  BY <1>1 DEF PosNat
<1> HIDE DEF y
<1>3. (a + n - 1) \div d = x
  BY <1>1, <1>2, DivModIs
<1>4. QED BY <1>3 DEF x

\* The next multiple of dmmax behind the start of a segment.
LEMMA FirstIs ==
  ASSUME NEW s \in Segs, Dmmax \in PosNat
  PROVE  /\ First(s) \in PosNat /\ First(s) <= Dmmax
         /\ s.m_addr + First(s) \in PosNat /\ (s.m_addr + First(s)) % Dmmax = 0
<1> DEFINE a == s.m_addr
           x == a \div Dmmax
           y == a % Dmmax
<1>1. a \in PosNat /\ a \in Int /\ Dmmax \in Int
  BY SegFields DEF PosNat
<1>2. x \in Int /\ y \in 0 .. Dmmax - 1 /\ a = Dmmax * x + y /\ Dmmax * x \in Int
  <2>1. x \in Int /\ y \in 0 .. Dmmax - 1 /\ a = Dmmax * x + y
    BY <1>1, DivMod
  <2> HIDE DEF x
  <2>2. QED BY <1>1, <2>1
<1>3. First(s) = Dmmax - y
  BY DEF First
<1> HIDE DEF a, x, y
<1>4. /\ First(s) \in PosNat /\ First(s) <= Dmmax /\ a + First(s) \in PosNat
  BY <1>1, <1>2, <1>3 DEF PosNat
<1>5. a + First(s) = Dmmax * (x + 1) + 0 /\ 0 \in 0 .. Dmmax - 1 /\ a + First(s) \in Int
  <2>1. Dmmax * (x + 1) = Dmmax * x + Dmmax
    BY <1>1, <1>2
  <2>2. QED BY <1>1, <1>2, <1>3, <2>1
<1>6. (a + First(s)) % Dmmax = 0
  BY <1>2, <1>5, DivModIs
<1>7. QED BY <1>4, <1>6 DEF a

-----------------------------------------------------------------------------
Gives(m, r, size) ==
  /\ r.addr \in PosNat /\ Units(<<r.addr, size>>) \subseteq Free(m)
  /\ Leaves(m, r, Free(m) \ Units(<<r.addr, size>>))
  /\ Starts(r.map) \subseteq Starts(m) \cup {r.addr + size}
  /\ r.addr \in Starts(m) \/ (IsSwapmap /\ r.addr % Dmmax = 0)
  /\ r.bad => IsSwapmap /\ r.addr \in Starts(m) /\ r.addr % Clsize # 0
  /\ IsSwapmap /\ Nswdev > 1 /\ size <= Dmmax => OneDevice(<<r.addr, size>>)

\* rmalloc() from the front of a segment.
LEMMA FromFront ==
  ASSUME NEW m, InOrder(m), NEW k \in 1 .. Len(m), NEW size \in PosNat,
         Fits(m[k], size), ~Crosses(m[k]), IsSwapmap \in BOOLEAN,
         MaxSegs \in Int, Dmmax \in PosNat
  PROVE  Gives(m, FromSegment(m, k, size), size)
<1> DEFINE s == m[k]
           r == FromSegment(m, k, size)
           e == Seg(s.m_addr + size, s.m_size - size)
           c == IF s.m_size = size THEN RemoveAt(m, k) ELSE Put(m, k, e)
<1>1. /\ m \in Seq(Segs) /\ Len(m) \in Nat /\ s \in Segs
  BY SegType DEF InOrder
<1>2. /\ s.m_addr \in PosNat /\ s.m_size \in PosNat /\ End(s) = s.m_addr + s.m_size
      /\ s.m_addr \in Int /\ s.m_size \in Int /\ size \in Int /\ size > 0
      /\ s.m_size >= size
  BY <1>1, SegFields DEF Fits, PosNat
<1>3. r = [map |-> c, lost |-> {}, addr |-> s.m_addr,
           bad |-> IsSwapmap /\ s.m_addr % Clsize # 0]
  <2>1. [s EXCEPT !.m_addr = @ + size, !.m_size = @ - size] = e
    BY <1>1, <1>2, Fields
  <2> DEFINE g == [m EXCEPT ![k].m_addr = @ + size, ![k].m_size = @ - size]
  <2>2. g = [m EXCEPT ![k] = [s EXCEPT !.m_addr = @ + size, !.m_size = @ - size]]
    BY <1>1
  <2>3. g = Put(m, k, e)
    <3> HIDE DEF e, g
    <3> QED BY <2>1, <2>2 DEF Put
  <2>4. r = [map |-> IF s.m_size = size THEN RemoveAt(m, k) ELSE g,
             lost |-> {}, addr |-> s.m_addr, bad |-> IsSwapmap /\ s.m_addr % Clsize # 0]
    BY DEF FromSegment
  <2> HIDE DEF e, g, r
  <2>5. QED BY <2>3, <2>4
<1>4. /\ r.map = c /\ r.lost = {} /\ r.addr = s.m_addr
      /\ r.bad = (IsSwapmap /\ s.m_addr % Clsize # 0)
  <2> HIDE DEF c, r, s
  <2> QED BY <1>3
<1>5. Units(<<s.m_addr, s.m_size>>) \subseteq Free(m)
  BY SpreadLess
<1>6. s.m_addr \in Starts(m)
  BY <1>1, RangeIs DEF Starts
<1> DEFINE U == Units(<<s.m_addr, size>>)
<1>7. /\ InOrder(c) /\ Len(c) <= Len(m) /\ Free(c) = Free(m) \ U /\ U \subseteq Free(m)
      /\ Starts(c) \subseteq Starts(m) \cup {s.m_addr + size}
  <2>1. CASE s.m_size = size
    <3> DEFINE d == RemoveAt(m, k)
    <3>1. /\ InOrder(d) /\ Len(d) = Len(m) - 1
          /\ Free(d) = Free(m) \ Units(<<s.m_addr, s.m_size>>)
          /\ Starts(d) \subseteq Starts(m)
      BY FreeRemoved
    <3>2. c = d
      BY <2>1
    <3> HIDE DEF c, d
    <3>3. Len(d) <= Len(m)
      BY <1>1, <3>1
    <3>4. QED BY <1>5, <2>1, <3>1, <3>2, <3>3
  <2>2. CASE s.m_size # size
    <3> DEFINE d == [m EXCEPT ![k] = e]
               n == s.m_size - size
               a == s.m_addr + size
    <3>1. c = d
      BY <2>2 DEF Put
    <3>2. n \in PosNat /\ a \in PosNat /\ a + n = End(s)
      BY <1>2, <2>2 DEF PosNat
    <3> HIDE DEF n, a
    <3>3. e \in Segs /\ e.m_addr = a /\ e.m_size = n /\ End(e) = End(s)
      BY <3>2, SegIs DEF n, a
    <3> HIDE DEF e
    <3>4. \A j \in 1 .. k - 1 : End(m[j]) < e.m_addr
      <4>1. ASSUME NEW j \in 1 .. k - 1 PROVE End(m[j]) < e.m_addr
        <5>1. j \in 1 .. Len(m) /\ j < k /\ j # k
          BY <1>1
        <5>2. End(m[j]) < s.m_addr
          BY <5>1, Distinct
        <5>3. End(m[j]) \in Int
          BY <1>1, <5>1, SegType, SegFields
        <5>4. s.m_addr < a
          BY <1>2 DEF a
        <5>5. QED BY <1>2, <3>2, <3>3, <5>2, <5>3, <5>4 DEF PosNat
      <4>2. QED BY <4>1
    <3>5. \A j \in k + 1 .. Len(m) : End(e) < m[j].m_addr
      <4>1. ASSUME NEW j \in k + 1 .. Len(m) PROVE End(s) < m[j].m_addr
        <5>1. j \in 1 .. Len(m) /\ k < j /\ j # k
          BY <1>1
        <5>2. QED BY <5>1, Distinct
      <4>2. QED BY <3>3, <4>1
    <3>6. /\ InOrder(d) /\ Len(d) = Len(m)
          /\ Free(d) = (Free(m) \ Units(<<s.m_addr, s.m_size>>)) \cup Units(<<e.m_addr, e.m_size>>)
          /\ Starts(d) \subseteq Starts(m) \cup {e.m_addr}
      BY <3>3, <3>4, <3>5, FreeReplaced
    <3>7. /\ Units(<<s.m_addr, s.m_size>>) = U \cup Units(<<a, n>>)
          /\ U \cap Units(<<a, n>>) = {}
      <4>1. size + n = s.m_size /\ size \in Nat /\ n \in Nat
        BY <1>2, <3>2 DEF n, PosNat
      <4>2. /\ Units(<<s.m_addr, size + n>>) = U \cup Units(<<s.m_addr + size, n>>)
            /\ U \cap Units(<<s.m_addr + size, n>>) = {}
        BY <1>2, <4>1, UnitsJoin
      <4>3. QED BY <4>1, <4>2 DEF a
    <3> HIDE DEF c, d, U
    <3>8. Len(d) <= Len(m)
      BY <1>1, <3>6
    <3>9. QED BY <1>5, <3>1, <3>3, <3>6, <3>7, <3>8 DEF a
  <2>3. QED BY <2>1, <2>2
<1>8. Len(m) <= MaxSegs => Len(c) <= MaxSegs
  <2>1. Len(c) \in Nat
    BY <1>7, SegType DEF InOrder
  <2>2. QED BY <1>1, <1>7, <2>1
<1> HIDE DEF c, U
<1>9. Leaves(m, r, Free(m) \ U)
  BY <1>4, <1>7, <1>8 DEF Leaves
<1>10. ASSUME IsSwapmap, Nswdev > 1, size <= Dmmax PROVE OneDevice(<<s.m_addr, size>>)
  <2>1. First(s) >= s.m_size
    <3>1. First(s) \in Int
      BY <1>1, FirstIs DEF PosNat
    <3>2. QED BY <1>2, <1>10, <3>1 DEF Crosses
  <2>2. First(s) = Dmmax - (s.m_addr % Dmmax) /\ First(s) \in Int
    BY <1>1, FirstIs DEF First, PosNat
  <2>3. size <= Dmmax - (s.m_addr % Dmmax)
    BY <1>2, <2>1, <2>2
  <2>4. s.m_addr \div Dmmax = (s.m_addr + size - 1) \div Dmmax
    BY <1>2, <2>3, WithinOne
  <2>5. QED BY <2>4 DEF OneDevice
<1> HIDE DEF s, r
<1>11. QED BY <1>2, <1>4, <1>6, <1>7, <1>9, <1>10 DEF Gives, U, s, r

\* rmalloc() from the multiple of dmmax inside a segment: what is behind the
\* piece goes back with rmfree().
LEMMA FromInside ==
  ASSUME NEW m, InOrder(m), NEW k \in 1 .. Len(m), NEW size \in PosNat,
         Fits(m[k], size), Crosses(m[k]),
         MaxSegs \in Int, MaxSegs > 1, Dmmax \in PosNat
  PROVE  Gives(m, FromSegment(m, k, size), size)
<1> DEFINE s == m[k]
           n == First(s)
           a == s.m_addr + n
           rest == s.m_size - n - size
           e == Seg(s.m_addr, n)
           front == Put(m, k, e)
           t == IF rest = 0 THEN [map |-> front, lost |-> {}, bad |-> FALSE]
                ELSE RmfreeMap(front, rest, a + size)
           r == FromSegment(m, k, size)
           U == Units(<<a, size>>)
<1>1. m \in Seq(Segs) /\ Len(m) \in Nat /\ s \in Segs
  BY SegType DEF InOrder
<1>2. /\ s.m_addr \in PosNat /\ s.m_size \in PosNat /\ End(s) = s.m_addr + s.m_size
      /\ n \in PosNat /\ a \in PosNat /\ a % Dmmax = 0
      /\ n < s.m_size /\ s.m_size - n >= size
  BY <1>1, SegFields, FirstIs DEF Fits, Crosses
<1>3. r = Taken(t, a)
  <2>1. [s EXCEPT !.m_size = n] = e
    <3>1. n \in Int
      BY <1>2 DEF PosNat
    <3>2. QED BY <1>1, <3>1, Fields
  <2> DEFINE g == [m EXCEPT ![k].m_size = First(s)]
  <2>2. g = [m EXCEPT ![k] = [s EXCEPT !.m_size = n]]
    OBVIOUS
  <2>3. g = front
    <3> HIDE DEF e, g, n
    <3> QED BY <2>1, <2>2 DEF Put
  <2>4. r = Taken(IF rest = 0 THEN [map |-> g, lost |-> {}, bad |-> FALSE]
                  ELSE RmfreeMap(g, rest, a + size), a)
    BY DEF FromSegment
  <2> HIDE DEF e, g, r, front
  <2>5. QED BY <2>3, <2>4
<1> HIDE DEF t, n
<1>4. r.map = t.map /\ r.lost = t.lost /\ r.bad = t.bad /\ r.addr = a
  <2> HIDE DEF a, r
  <2> QED BY <1>3 DEF Taken
<1>5. /\ n \in Int /\ s.m_addr \in Int /\ s.m_size \in Int /\ a \in Int /\ size \in Int
      /\ n > 0 /\ size > 0 /\ rest \in Nat /\ a = s.m_addr + n /\ a + size + rest = End(s)
      /\ s.m_size = n + (size + rest) /\ a < End(s) /\ End(s) \in Int
  <2> DEFINE b == s.m_addr
             z == s.m_size
  <2>1. \A x \in PosNat : x \in Int /\ x \in Nat /\ x > 0
    BY DEF PosNat
  <2>2. b \in Nat /\ z \in Nat /\ n \in Nat /\ size \in Nat /\ n > 0 /\ size > 0
        /\ n < z /\ z - n >= size /\ End(s) = b + z
    BY <1>2, <2>1
  <2>3. a = b + n /\ rest = z - n - size
    OBVIOUS
  <2> HIDE DEF b, z, a, rest
  <2>4. /\ n \in Int /\ b \in Int /\ z \in Int /\ a \in Int /\ size \in Int
        /\ rest \in Nat /\ a + size + rest = End(s)
        /\ z = n + (size + rest) /\ a < End(s) /\ End(s) \in Int
    BY <2>2, <2>3
  <2>5. QED BY <2>2, <2>3, <2>4 DEF b, z
<1>6. e \in Segs /\ e.m_addr = s.m_addr /\ e.m_size = n /\ End(e) = a
  BY <1>2, SegIs
<1>7. \A j \in 1 .. k - 1 : End(m[j]) < e.m_addr
  <2>1. ASSUME NEW j \in 1 .. k - 1 PROVE End(m[j]) < s.m_addr
    <3>1. j \in 1 .. Len(m) /\ j < k /\ j # k
      BY <1>1
    <3>2. QED BY <3>1, Distinct
  <2>2. QED BY <1>6, <2>1
<1>8. ASSUME NEW j \in k + 1 .. Len(m) PROVE End(s) < m[j].m_addr /\ m[j].m_addr \in Int
  <2>1. j \in 1 .. Len(m) /\ k < j /\ j # k
    BY <1>1
  <2>2. m[j].m_addr \in Int
    BY <1>1, <2>1, SegType DEF PosNat
  <2>3. QED BY <2>1, <2>2, Distinct
<1>9. \A j \in k + 1 .. Len(m) : End(e) < m[j].m_addr
  <2> HIDE DEF a, e, s
  <2>1. End(e) = a /\ a \in Int /\ a < End(s) /\ End(s) \in Int
    BY <1>5, <1>6
  <2>2. QED BY <1>8, <2>1
<1>10. /\ InOrder(front) /\ Len(front) = Len(m)
       /\ Free(front) = (Free(m) \ Units(<<s.m_addr, s.m_size>>)) \cup Units(<<s.m_addr, n>>)
       /\ Starts(front) \subseteq Starts(m) \cup {s.m_addr}
  <2> DEFINE d == [m EXCEPT ![k] = e]
  <2>1. /\ InOrder(d) /\ Len(d) = Len(m)
        /\ Free(d) = (Free(m) \ Units(<<s.m_addr, s.m_size>>)) \cup Units(<<e.m_addr, e.m_size>>)
        /\ Starts(d) \subseteq Starts(m) \cup {e.m_addr}
    <3> HIDE DEF e
    <3> QED BY <1>6, <1>7, <1>9, FreeReplaced
  <2>2. front = d
    BY DEF Put
  <2> HIDE DEF d, front, e
  <2>3. QED BY <1>6, <2>1, <2>2
<1>11. s.m_addr \in Starts(m)
  BY <1>1, RangeIs DEF Starts
<1>12. Units(<<s.m_addr, s.m_size>>) \subseteq Free(m)
  BY SpreadLess
<1> DEFINE V == Units(<<s.m_addr, n>>)
           W == Units(<<a + size, rest>>)
<1>13. /\ Units(<<s.m_addr, s.m_size>>) = V \cup U \cup W
       /\ V \cap U = {} /\ V \cap W = {} /\ U \cap W = {}
  <2>1. s.m_size = n + (size + rest) /\ n \in Nat /\ size \in Nat /\ size + rest \in Nat
    <3> HIDE DEF a, rest, s
    <3> QED BY <1>5
  <2>2. /\ Units(<<s.m_addr, n + (size + rest)>>) = V \cup Units(<<a, size + rest>>)
        /\ V \cap Units(<<a, size + rest>>) = {}
    <3> DEFINE b == s.m_addr
               y == size + rest
    <3>1. b \in Int /\ n \in Nat /\ y \in Nat
      BY <1>5, <2>1
    <3> HIDE DEF b, y
    <3>2. /\ Units(<<b, n + y>>) = Units(<<b, n>>) \cup Units(<<b + n, y>>)
          /\ Units(<<b, n>>) \cap Units(<<b + n, y>>) = {}
      BY <3>1, UnitsJoin
    <3>3. QED BY <3>2 DEF b, y
  <2>3. Units(<<a, size + rest>>) = U \cup W /\ U \cap W = {}
    <3> HIDE DEF a, rest
    <3> QED BY <1>5, <2>1, UnitsJoin
  <2> HIDE DEF a, rest, U, V, W, s
  <2>4. QED BY <2>1, <2>2, <2>3
<1> HIDE DEF a, rest, U, V, W, front, s, r
<1>14. U \subseteq Free(m)
  BY <1>12, <1>13
<1>15. Free(front) = Free(m) \ (U \cup W)
  BY <1>10, <1>12, <1>13 DEF V
<1>16. /\ ~t.bad /\ Leaves(m, t, Free(m) \ U)
       /\ Starts(t.map) \subseteq Starts(m) \cup {a + size}
  <2>1. CASE rest = 0
    <3>1. t = [map |-> front, lost |-> {}, bad |-> FALSE]
      BY <2>1 DEF t, front, rest, n, e, a, s
    <3>2. t.map = front /\ t.lost = {} /\ t.bad = FALSE
      BY <3>1
    <3>3. W = {}
      BY <1>5, <2>1 DEF W, Units
    <3>4. QED BY <1>10, <1>11, <1>15, <3>2, <3>3 DEF Leaves
  <2>2. CASE rest # 0
    <3>1. t = RmfreeMap(front, rest, a + size)
      BY <2>2 DEF t, front, rest, n, e, a, s
    <3>2. rest \in PosNat /\ a + size \in PosNat
      <4>1. a \in PosNat
        BY <1>2 DEF a, s
      <4>2. \A x \in PosNat : x + size \in PosNat
        BY DEF PosNat
      <4>3. rest \in Nat
        BY <1>5
      <4>4. rest \in PosNat
        BY <2>2, <4>3 DEF PosNat
      <4>5. QED BY <4>1, <4>2, <4>4
    <3>3. W \cap Free(front) = {}
      BY <1>15
    <3>4. /\ ~t.bad /\ Starts(t.map) \subseteq Starts(front) \cup {a + size}
          /\ Leaves(front, t, Free(front) \cup W)
      BY <1>10, <3>1, <3>2, <3>3, RmfreeLeaves DEF W
    <3>5. W \subseteq Free(m) /\ W \cap U = {}
      BY <1>12, <1>13
    <3>6. Free(front) \cup W = Free(m) \ U
      BY <1>15, <3>5
    <3>7. Leaves(m, t, Free(m) \ U)
      BY <1>10, <3>4, <3>6 DEF Leaves
    <3>8. QED BY <1>10, <1>11, <3>4, <3>7
  <2>3. QED BY <2>1, <2>2
<1>17. Leaves(m, r, Free(m) \ U)
  BY <1>4, <1>16 DEF Leaves
<1>18. size <= Dmmax => OneDevice(<<a, size>>)
  <2> SUFFICES ASSUME size <= Dmmax PROVE a \div Dmmax = (a + size - 1) \div Dmmax
    BY DEF OneDevice
  <2>1. Dmmax \in Int
    BY DEF PosNat
  <2>2. size <= Dmmax - (a % Dmmax)
    BY <1>2, <1>5, <2>1 DEF a, s
  <2>3. QED BY <1>5, <2>2, WithinOne
<1>19. IsSwapmap /\ a % Dmmax = 0 /\ a \in PosNat
  BY <1>2 DEF Crosses, a, s
<1>20. Gives(m, r, size)
  BY <1>4, <1>14, <1>16, <1>17, <1>18, <1>19 DEF Gives, U
<1>21. QED BY <1>20 DEF r

\* rmalloc() finds no segment, or takes the piece it returns from free space.
LEMMA RmallocGives ==
  ASSUME NEW m, InOrder(m), NEW size \in PosNat, IsSwapmap \in BOOLEAN,
         MaxSegs \in Int, MaxSegs > 1, Dmmax \in PosNat
  PROVE  LET r == RmallocMap(m, size)
         IN  \/ /\ \A k \in DOMAIN m : ~Fits(m[k], size)
                /\ r.addr = 0 /\ ~r.bad
             \/ Gives(m, r, size)
<1> DEFINE r == RmallocMap(m, size)
<1>1. DOMAIN m = 1 .. Len(m) /\ Len(m) \in Nat
  BY SegType DEF InOrder
<1>2. CASE \A k \in DOMAIN m : ~Fits(m[k], size)
  <2>1. r = [map |-> m, lost |-> {}, bad |-> FALSE, addr |-> 0]
    BY <1>2 DEF RmallocMap
  <2>2. r.addr = 0 /\ r.bad = FALSE
    BY <2>1
  <2>3. QED BY <1>2, <2>2
<1>3. CASE ~(\A k \in DOMAIN m : ~Fits(m[k], size))
  <2> DEFINE P(k) == Fits(m[k], size) /\ \A j \in 1 .. k - 1 : ~Fits(m[j], size)
             T == {k \in DOMAIN m : Fits(m[k], size)}
             k == CHOOSE i \in DOMAIN m : P(i)
  <2>1. r = FromSegment(m, k, size)
    BY <1>3 DEF RmallocMap
  <2>2. T \subseteq Nat /\ T # {}
    BY <1>1, <1>3
  <2>3. PICK x \in T : \A y \in T : x <= y
    <3> HIDE DEF T
    <3> QED BY <2>2, Least
  <2>4. x \in DOMAIN m /\ P(x)
    BY <1>1, <2>3
  <2>5. k \in DOMAIN m /\ P(k)
    <3> HIDE DEF P
    <3> QED BY <2>4
  <2> HIDE DEF k, r
  <2>6. k \in 1 .. Len(m) /\ Fits(m[k], size)
    BY <1>1, <2>5
  <2>7. Gives(m, FromSegment(m, k, size), size)
    <3>1. CASE Crosses(m[k])
      BY <2>6, <3>1, FromInside
    <3>2. CASE ~Crosses(m[k])
      BY <2>6, <3>2, FromFront
    <3>3. QED BY <3>1, <3>2
  <2>8. QED BY <2>1, <2>7 DEF r
<1>4. QED BY <1>2, <1>3

\* A replacement as rmget() writes it.
LEMMA PutIs ==
  ASSUME NEW m \in Seq(Segs), NEW k \in 1 .. Len(m), NEW e \in Segs
  PROVE  LET A == SubSeq(m, 1, k - 1)
             B == SubSeq(m, k + 1, Len(m))
             p == Put(m, k, e)
         IN  /\ p \in Seq(Segs) /\ Len(p) = Len(m) /\ p[k] = e
             /\ SubSeq(p, 1, k) = A \o <<e>> /\ SubSeq(p, k + 1, Len(p)) = B
             /\ p = (A \o <<e>>) \o B
<1> DEFINE A == SubSeq(m, 1, k - 1)
           B == SubSeq(m, k + 1, Len(m))
           p == Put(m, k, e)
           c == A \o <<e>>
           d == c \o B
<1>1. Len(m) \in Nat /\ k \in Int
  OBVIOUS
<1>2. /\ p \in Seq(Segs) /\ Len(p) = Len(m)
      /\ \A i \in 1 .. Len(m) : p[i] = IF i = k THEN e ELSE m[i]
  BY DEF Put
<1>3. /\ A \in Seq(Segs) /\ Len(A) = k - 1 /\ \A i \in 1 .. k - 1 : A[i] = m[i]
  OBVIOUS
<1>4. /\ B \in Seq(Segs) /\ Len(B) = Len(m) - k
      /\ \A i \in 1 .. Len(m) - k : B[i] = m[k + i]
  OBVIOUS
<1> HIDE DEF A, B, p
<1>5. /\ c \in Seq(Segs) /\ Len(c) = k /\ DOMAIN c = 1 .. k
      /\ \A i \in 1 .. k : c[i] = IF i < k THEN m[i] ELSE e
  BY <1>1, <1>3
<1> HIDE DEF c
<1>6. SubSeq(p, 1, k) = c
  <2> DEFINE x == SubSeq(p, 1, k)
  <2>1. x = [i \in 1 .. k |-> p[i]]
    BY <1>1, <1>2
  <2>2. ASSUME NEW i \in 1 .. k PROVE p[i] = c[i]
    <3>1. i \in 1 .. Len(m) /\ i \in Int
      BY <1>1
    <3>2. QED BY <1>1, <1>2, <1>5, <3>1
  <2>3. c = [i \in 1 .. k |-> c[i]]
    BY <1>5
  <2> HIDE DEF x
  <2>4. QED BY <2>1, <2>2, <2>3 DEF x
<1>7. SubSeq(p, k + 1, Len(p)) = B
  <2> DEFINE x == SubSeq(p, k + 1, Len(m))
             N == Len(m) - k
  <2>1. x \in Seq(Segs) /\ Len(x) = N /\ \A i \in 1 .. N : x[i] = p[k + i]
    BY <1>1, <1>2
  <2>2. ASSUME NEW i \in 1 .. N PROVE p[k + i] = B[i]
    <3>1. k + i \in 1 .. Len(m) /\ k + i # k
      BY <1>1
    <3>2. QED BY <1>2, <1>4, <3>1
  <2> HIDE DEF x
  <2>3. x = [i \in 1 .. N |-> x[i]] /\ B = [i \in 1 .. N |-> B[i]]
    BY <1>4, <2>1
  <2>4. x = B
    BY <2>1, <2>2, <2>3
  <2>5. QED BY <1>2, <2>4 DEF x
<1>8. p = d
  <2>1. /\ d \in Seq(Segs) /\ Len(d) = Len(c) + Len(B)
        /\ \A i \in 1 .. Len(c) + Len(B) : d[i] = IF i <= Len(c) THEN c[i] ELSE B[i - Len(c)]
    BY <1>4, <1>5, ConcatIs
  <2>2. Len(c) + Len(B) = Len(m)
    BY <1>1, <1>4, <1>5
  <2> HIDE DEF d
  <2>3. ASSUME NEW i \in 1 .. Len(m) PROVE p[i] = d[i]
    <3>1. i \in Int /\ d[i] = IF i <= k THEN c[i] ELSE B[i - k]
      BY <1>5, <2>1, <2>2
    <3>2. CASE i <= k
      <4>1. i \in 1 .. k
        BY <1>1, <3>2
      <4>2. QED BY <1>1, <1>2, <1>5, <3>1, <3>2, <4>1
    <3>3. CASE i > k
      <4>1. i - k \in 1 .. Len(m) - k /\ k + (i - k) = i /\ i # k /\ ~(i <= k)
        BY <1>1, <3>1, <3>3
      <4>2. B[i - k] = m[i]
        BY <1>4, <4>1
      <4>3. QED BY <1>2, <3>1, <4>1, <4>2
    <3>4. QED BY <1>1, <3>1, <3>2, <3>3
  <2>4. p = [i \in 1 .. Len(m) |-> p[i]] /\ d = [i \in 1 .. Len(m) |-> d[i]]
    BY <1>2, <2>1, <2>2
  <2>5. QED BY <2>3, <2>4
<1>9. p[k] = e
  BY <1>2
<1>10. QED BY <1>2, <1>6, <1>7, <1>8, <1>9 DEF A, B, p, c, d

\* What rmget() leaves of a map: x units of segment k before the piece, y behind.
CutMap(m, k, x, y, z) ==
  SubSeq(m, 1, k - 1)
    \o (IF x = 0 THEN <<>> ELSE <<Seg(m[k].m_addr, x)>>)
    \o (IF y = 0 THEN <<>> ELSE <<Seg(z, y)>>)
    \o SubSeq(m, k + 1, Len(m))

Splits(s, x, size, y, addr) == s.m_size = x + size + y /\ addr = s.m_addr + x

\* The map that results when a piece is cut out of segment k.
LEMMA CutOut ==
  ASSUME NEW m, InOrder(m), NEW k \in 1 .. Len(m), NEW x \in Nat, NEW y \in Nat,
         NEW size \in PosNat, NEW addr, Splits(m[k], x, size, y, addr),
         NEW r, r = CutMap(m, k, x, y, addr + size)
  PROVE  /\ InOrder(r) /\ Units(<<addr, size>>) \subseteq Free(m)
         /\ Free(r) = Free(m) \ Units(<<addr, size>>)
         /\ Len(r) = IF x = 0 /\ y = 0 THEN Len(m) - 1
                     ELSE IF x = 0 \/ y = 0 THEN Len(m) ELSE Len(m) + 1
<1> DEFINE s == m[k]
           b == s.m_addr
           A == SubSeq(m, 1, k - 1)
           B == SubSeq(m, k + 1, Len(m))
           e == Seg(b, x)
           f == Seg(addr + size, y)
           V == Units(<<b, x>>)
           U == Units(<<addr, size>>)
           W == Units(<<addr + size, y>>)
           S == Units(<<s.m_addr, s.m_size>>)
<1>1. s.m_size = x + size + y /\ addr = b + x
  BY DEF Splits
<1>2. m \in Seq(Segs) /\ Len(m) \in Nat /\ s \in Segs
  BY SegType DEF InOrder
<1>3. /\ b \in PosNat /\ b \in Nat /\ size \in Nat /\ size > 0 /\ addr \in Nat /\ b > 0
      /\ End(s) = addr + size + y /\ End(s) \in Int
  <2>1. b \in PosNat /\ End(s) = b + s.m_size
    BY <1>2, SegFields
  <2> HIDE DEF b, s
  <2>2. b \in Nat /\ b > 0 /\ size \in Nat /\ size > 0
    BY <2>1 DEF PosNat
  <2>3. QED BY <1>1, <2>1, <2>2
<1>4. S = V \cup U \cup W /\ V \cap U = {} /\ V \cap W = {} /\ U \cap W = {}
  <2>1. s.m_size = x + (size + y) /\ addr = b + x /\ size + y \in Nat
    BY <1>1, <1>3
  <2>6. b \in Int /\ addr \in Int /\ x \in Nat /\ size \in Nat /\ y \in Nat
    BY <1>3
  <2>7. S = Units(<<b, x + (size + y)>>)
    BY <2>1
  <2> HIDE DEF b
  <2>2. /\ Units(<<b, x + (size + y)>>) = V \cup Units(<<addr, size + y>>)
        /\ V \cap Units(<<addr, size + y>>) = {}
    BY ONLY <2>1, <2>6, UnitsJoin
  <2>3. /\ Units(<<addr, size + y>>) = U \cup W /\ U \cap W = {}
    BY ONLY <2>6, UnitsJoin
  <2> HIDE DEF S, U, V, W
  <2>5. QED BY <2>2, <2>3, <2>7
<1>5. S \subseteq Free(m)
  BY SpreadLess
<1>6. ASSUME NEW j \in 1 .. k - 1 PROVE End(m[j]) < b /\ End(m[j]) \in Int
  <2>1. j \in 1 .. Len(m) /\ j < k /\ j # k
    BY <1>2
  <2>2. m[j] \in Segs
    BY <1>2, <2>1, SegType
  <2>3. QED BY <2>1, <2>2, Distinct, SegFields
<1>7. ASSUME NEW j \in k + 1 .. Len(m) PROVE End(s) < m[j].m_addr /\ m[j].m_addr \in Int
  <2>1. j \in 1 .. Len(m) /\ k < j /\ j # k
    BY <1>2
  <2>2. m[j].m_addr \in Int
    BY <1>2, <2>1, SegType DEF PosNat
  <2>3. QED BY <2>1, <2>2, Distinct
<1>8. A \in Seq(Segs) /\ B \in Seq(Segs) /\ A \o <<>> = A
  BY <1>2
<1>9. x # 0 => e \in Segs /\ e.m_addr = b /\ e.m_size = x /\ End(e) = addr
  <2> SUFFICES ASSUME x # 0
               PROVE  e \in Segs /\ e.m_addr = b /\ e.m_size = x /\ End(e) = addr
    OBVIOUS
  <2>1. x \in PosNat
    BY DEF PosNat
  <2>2. e \in Segs /\ e.m_addr = b /\ e.m_size = x /\ End(e) = b + x
    BY <1>3, <2>1, SegIs
  <2>3. QED BY <1>1, <2>2
<1>10. y # 0 => f \in Segs /\ f.m_addr = addr + size /\ f.m_size = y /\ End(f) = End(s)
  <2>1. y # 0 => y \in PosNat
    BY DEF PosNat
  <2>2. addr + size \in PosNat
    BY ONLY <1>3 DEF PosNat
  <2>3. QED BY <1>3, <2>1, <2>2, SegIs
<1>11. r = ((A \o (IF x = 0 THEN <<>> ELSE <<e>>)) \o (IF y = 0 THEN <<>> ELSE <<f>>)) \o B
  BY DEF CutMap
<1>12. CASE x = 0 /\ y = 0
  <2>1. V = {} /\ W = {}
    BY <1>3, <1>12 DEF V, W, Units
  <2>2. r = RemoveAt(m, k)
    <3> HIDE DEF A, B, e, f
    <3>1. r = ((A \o <<>>) \o <<>>) \o B
      BY <1>11, <1>12
    <3>2. r = A \o B
      BY <1>8, <3>1
    <3>3. QED BY <3>2 DEF RemoveAt, A, B
  <2>3. /\ InOrder(RemoveAt(m, k)) /\ Len(RemoveAt(m, k)) = Len(m) - 1
        /\ Free(RemoveAt(m, k)) = Free(m) \ S
    BY FreeRemoved
  <2> HIDE DEF S, U, V, W
  <2>4. QED BY <1>4, <1>5, <1>12, <2>1, <2>2, <2>3 DEF U
<1>13. ASSUME NEW g \in Segs, r = (A \o <<g>>) \o B, b <= g.m_addr, End(g) <= End(s)
       PROVE  /\ InOrder(r) /\ Len(r) = Len(m)
              /\ Free(r) = (Free(m) \ S) \cup Units(<<g.m_addr, g.m_size>>)
  <2> DEFINE p == [m EXCEPT ![k] = g]
  <2>1. p = Put(m, k, g)
    BY DEF Put
  <2>2. r = p
    BY <1>2, <1>13, <2>1, PutIs
  <2>3. g.m_addr \in Int /\ End(g) \in Int
    BY SegFields DEF PosNat
  <2>4. \A j \in 1 .. k - 1 : End(m[j]) < g.m_addr
    <3> HIDE DEF b, p
    <3> QED BY <1>3, <1>6, <1>13, <2>3
  <2>5. \A j \in k + 1 .. Len(m) : End(g) < m[j].m_addr
    <3> HIDE DEF s, p
    <3>1. End(s) \in Int
      BY <1>3
    <3>2. QED BY ONLY <1>7, <1>13, <2>3, <3>1
  <2>6. /\ InOrder(p) /\ Len(p) = Len(m)
        /\ Free(p) = (Free(m) \ S) \cup Units(<<g.m_addr, g.m_size>>)
    BY <2>4, <2>5, FreeReplaced
  <2> HIDE DEF p
  <2>7. QED BY <2>2, <2>6
<1>14. CASE x = 0 /\ y # 0
  <2>1. V = {}
    BY <1>3, <1>14 DEF V, Units
  <2>2. r = (A \o <<f>>) \o B
    <3> HIDE DEF A, B, e, f
    <3>1. r = ((A \o <<>>) \o <<f>>) \o B
      BY <1>11, <1>14
    <3>2. QED BY <1>8, <3>1
  <2>3. f \in Segs /\ b <= f.m_addr /\ End(f) <= End(s)
    <3> HIDE DEF f, b, s
    <3> QED BY <1>1, <1>3, <1>10, <1>14
  <2> HIDE DEF A, B, f
  <2>4. /\ InOrder(r) /\ Len(r) = Len(m)
        /\ Free(r) = (Free(m) \ S) \cup Units(<<f.m_addr, f.m_size>>)
    BY <1>13, <2>2, <2>3
  <2>5. Units(<<f.m_addr, f.m_size>>) = W
    BY <1>10, <1>14
  <2> HIDE DEF S, U, V, W
  <2>6. QED BY <1>4, <1>5, <1>14, <2>1, <2>4, <2>5 DEF U
<1>15. CASE x # 0 /\ y = 0
  <2>1. W = {}
    BY <1>3, <1>15 DEF W, Units
  <2>2. r = (A \o <<e>>) \o B
    <3> HIDE DEF A, B, e, f
    <3>1. r = ((A \o <<e>>) \o <<>>) \o B
      BY <1>11, <1>15
    <3>2. A \o <<e>> \in Seq(Segs)
      BY <1>8, <1>9, <1>15
    <3> DEFINE z == A \o <<e>>
    <3>3. z \o <<>> = z
      BY <3>2
    <3> HIDE DEF z
    <3>4. r = (z \o <<>>) \o B
      BY <3>1 DEF z
    <3>5. QED BY <3>3, <3>4 DEF z
  <2>3. e \in Segs /\ b <= e.m_addr /\ End(e) <= End(s)
    <3> HIDE DEF e, b, s
    <3> QED BY <1>3, <1>9, <1>15
  <2> HIDE DEF A, B, e
  <2>4. /\ InOrder(r) /\ Len(r) = Len(m)
        /\ Free(r) = (Free(m) \ S) \cup Units(<<e.m_addr, e.m_size>>)
    BY <1>13, <2>2, <2>3
  <2>5. Units(<<e.m_addr, e.m_size>>) = V
    BY <1>9, <1>15
  <2> HIDE DEF S, U, V, W
  <2>6. QED BY <1>4, <1>5, <1>15, <2>1, <2>4, <2>5 DEF U
<1>16. CASE x # 0 /\ y # 0
  <2> DEFINE p == Put(m, k, e)
             q == InsertAt(p, k + 1, f)
  <2>1. /\ p \in Seq(Segs) /\ Len(p) = Len(m) /\ p[k] = e
        /\ SubSeq(p, 1, k) = A \o <<e>> /\ SubSeq(p, k + 1, Len(p)) = B
        /\ p = (A \o <<e>>) \o B
    <3> HIDE DEF e
    <3> QED BY <1>2, <1>9, <1>16, PutIs
  <2>2. q = r
    <3> HIDE DEF A, B, e, f, p
    <3>1. r = ((A \o <<e>>) \o <<f>>) \o B
      BY <1>11, <1>16
    <3>2. (k + 1) - 1 = k
      BY <1>2
    <3>3. q = (SubSeq(p, 1, k) \o <<f>>) \o SubSeq(p, k + 1, Len(p))
      BY <3>2 DEF InsertAt
    <3>4. QED BY <2>1, <3>1, <3>3
  <2>3. /\ InOrder(p) /\ Len(p) = Len(m) /\ Free(p) = (Free(m) \ S) \cup V
    <3> DEFINE d == [m EXCEPT ![k] = e]
    <3>1. p = d
      BY DEF Put
    <3>2. \A j \in 1 .. k - 1 : End(m[j]) < e.m_addr
      <4> HIDE DEF e, b
      <4> QED BY <1>6, <1>9, <1>16
    <3>3. \A j \in k + 1 .. Len(m) : End(e) < m[j].m_addr
      <4> HIDE DEF e, s
      <4>1. End(e) = addr /\ addr \in Int /\ addr < End(s) /\ End(s) \in Int
        BY <1>3, <1>9, <1>16
      <4>2. QED BY <1>7, <4>1
    <3> HIDE DEF e
    <3>4. /\ InOrder(d) /\ Len(d) = Len(m)
          /\ Free(d) = (Free(m) \ S) \cup Units(<<e.m_addr, e.m_size>>)
      <4>1. e \in Segs /\ InOrder(m) /\ k \in 1 .. Len(m)
        BY <1>9, <1>16
      <4>2. QED BY ONLY <3>2, <3>3, <4>1, FreeReplaced
    <3> HIDE DEF d, p, S, V
    <3>5. QED BY <1>9, <1>16, <3>1, <3>4 DEF V
  <2>4. \A j \in 1 .. k : End(p[j]) < f.m_addr
    <3> HIDE DEF e, f, p, b
    <3>1. f.m_addr = addr + size /\ End(e) = addr /\ addr \in Int /\ size \in Int /\ size > 0
      BY <1>3, <1>9, <1>10, <1>16
    <3>2. End(p[k]) < f.m_addr /\ f.m_addr \in Int /\ k \in 1 .. Len(p)
      <4>1. p[k] = e /\ k \in 1 .. Len(p)
        BY <2>1
      <4>2. QED BY ONLY <3>1, <4>1
    <3>3. ASSUME NEW j \in 1 .. k, j # k PROVE End(p[j]) < f.m_addr
      <4>1. j \in 1 .. Len(p) /\ j < k
        <5>1. Len(p) = Len(m) /\ Len(m) \in Nat /\ k \in 1 .. Len(m)
          BY <1>2, <2>1
        <5>2. QED BY ONLY <3>3, <5>1
      <4>2. End(p[j]) < p[k].m_addr /\ p[j] \in Segs /\ p[k] \in Segs
        BY <2>1, <2>3, <3>2, <3>3, <4>1, Distinct, SegType
      <4>3. End(p[j]) \in Int /\ p[k].m_addr \in Int /\ End(p[k]) \in Int
            /\ p[k].m_addr < End(p[k])
        BY ONLY <4>2, SegFields DEF PosNat
      <4>4. QED BY <3>2, <4>2, <4>3
    <3>4. QED BY <3>2, <3>3
  <2>5. \A j \in k + 1 .. Len(p) : End(f) < p[j].m_addr
    <3>1. ASSUME NEW j \in k + 1 .. Len(m) PROVE p[j] = m[j]
      BY <1>2 DEF Put
    <3> HIDE DEF e, f, p, s
    <3>2. QED BY <1>7, <1>10, <1>16, <2>1, <3>1
  <2>6. k + 1 \in 1 .. Len(p) + 1 /\ (k + 1) - 1 = k
    BY <1>2, <2>1
  <2>7. InOrder(q) /\ Len(q) = Len(p) + 1 /\ Free(q) = Free(p) \cup Units(<<f.m_addr, f.m_size>>)
    <3> DEFINE i == k + 1
    <3>1. /\ i \in 1 .. Len(p) + 1
          /\ \A j \in 1 .. i - 1 : End(p[j]) < f.m_addr
          /\ \A j \in i .. Len(p) : End(f) < p[j].m_addr
      BY <2>4, <2>5, <2>6
    <3>2. q = InsertAt(p, i, f)
      OBVIOUS
    <3> HIDE DEF i, p, q, f
    <3>3. QED BY <1>10, <1>16, <2>3, <3>1, <3>2, FreeInserted
  <2>8. Units(<<f.m_addr, f.m_size>>) = W
    BY <1>10, <1>16
  <2> HIDE DEF S, U, V, W, p, q
  <2>9. QED BY <1>4, <1>5, <1>16, <2>2, <2>3, <2>7, <2>8 DEF U
<1>17. QED BY <1>12, <1>14, <1>15, <1>16

\* rmget() takes exactly the piece it was asked for.
LEMMA RmgetTakes ==
  ASSUME NEW m, InOrder(m), NEW size \in PosNat, NEW addr \in PosNat, MaxSegs \in Int,
         RmgetMap(m, size, addr).addr # 0
  PROVE  LET r == RmgetMap(m, size, addr)
         IN  /\ ~IsSwapmap /\ InOrder(r.map)
             /\ Units(<<addr, size>>) \subseteq Free(m)
             /\ Free(r.map) = Free(m) \ Units(<<addr, size>>)
             /\ Len(m) <= MaxSegs => Len(r.map) <= MaxSegs
<1> DEFINE r == RmgetMap(m, size, addr)
           holds(i) == m[i].m_addr <= addr /\ End(m[i]) > addr
           k      == CHOOSE j \in DOMAIN m : holds(j)
           s      == m[k]
           before == IF s.m_addr = addr THEN <<>> ELSE <<Seg(s.m_addr, addr - s.m_addr)>>
           behind == IF End(s) = addr + size THEN <<>>
                     ELSE <<Seg(addr + size, End(s) - (addr + size))>>
           refuse == \/ IsSwapmap \/ \A j \in DOMAIN m : ~holds(j)
                     \/ End(s) < addr + size
                     \/ before # <<>> /\ behind # <<>> /\ Len(m) >= MaxSegs
           left   == SubSeq(m, 1, k - 1) \o before \o behind \o SubSeq(m, k + 1, Len(m))
<1>1. r = IF refuse THEN [map |-> m, addr |-> 0] ELSE [map |-> left, addr |-> addr]
  BY DEF RmgetMap
<1>2. ~refuse
  <2> HIDE DEF refuse, left
  <2>1. refuse => r.addr = 0
    BY <1>1
  <2>2. QED BY <2>1
<1>3. r.map = left
  <2> HIDE DEF refuse, left, r
  <2> QED BY <1>1, <1>2
<1>4. k \in DOMAIN m /\ holds(k)
  <2>1. PICK j \in DOMAIN m : holds(j)
    <3> HIDE DEF holds
    <3> QED BY <1>2
  <2> HIDE DEF holds
  <2>2. QED BY <2>1
<1>5. DOMAIN m = 1 .. Len(m) /\ Len(m) \in Nat /\ m \in Seq(Segs)
  BY SegType DEF InOrder
<1> HIDE DEF k, r
<1>6. k \in 1 .. Len(m) /\ s \in Segs
  BY <1>4, <1>5, SegType
<1> DEFINE x == addr - s.m_addr
           y == End(s) - (addr + size)
<1>7. /\ x \in Nat /\ y \in Nat /\ s.m_size = x + size + y /\ addr = s.m_addr + x
      /\ (s.m_addr = addr <=> x = 0) /\ (End(s) = addr + size <=> y = 0)
  <2> DEFINE b == s.m_addr
             n == s.m_size
  <2>1. b \in Nat /\ n \in Nat /\ End(s) = b + n /\ addr \in Nat /\ size \in Nat
    BY <1>6, SegFields DEF PosNat
  <2>2. b <= addr /\ ~(End(s) < addr + size)
    BY <1>2, <1>4
  <2> HIDE DEF b, n
  <2>3. /\ addr - b \in Nat /\ (b + n) - (addr + size) \in Nat
        /\ n = (addr - b) + size + ((b + n) - (addr + size))
        /\ addr = b + (addr - b) /\ (b = addr <=> addr - b = 0)
        /\ (b + n = addr + size <=> (b + n) - (addr + size) = 0)
    BY <2>1, <2>2
  <2>4. QED BY <2>1, <2>3 DEF b, n
<1>8. /\ before = IF x = 0 THEN <<>> ELSE <<Seg(s.m_addr, x)>>
      /\ behind = IF y = 0 THEN <<>> ELSE <<Seg(addr + size, y)>>
  BY <1>7
<1>9. before # <<>> <=> x # 0
  BY <1>8
<1>10. behind # <<>> <=> y # 0
  BY <1>8
<1>11. ~(x # 0 /\ y # 0 /\ Len(m) >= MaxSegs) /\ ~IsSwapmap
  BY <1>2, <1>9, <1>10
<1> HIDE DEF s, x, y, before, behind
<1>12. left = CutMap(m, k, x, y, addr + size)
  BY <1>8 DEF s, CutMap
<1> HIDE DEF left, refuse, holds
<1>13. /\ InOrder(left) /\ Units(<<addr, size>>) \subseteq Free(m)
       /\ Free(left) = Free(m) \ Units(<<addr, size>>)
       /\ Len(left) = IF x = 0 /\ y = 0 THEN Len(m) - 1
                      ELSE IF x = 0 \/ y = 0 THEN Len(m) ELSE Len(m) + 1
  <2>1. Splits(m[k], x, size, y, addr) /\ size \in PosNat
    BY <1>7 DEF s, Splits
  <2>2. InOrder(m) /\ x \in Nat /\ y \in Nat /\ k \in 1 .. Len(m)
    BY <1>6, <1>7
  <2>3. QED BY <1>12, <2>1, <2>2, CutOut
<1>14. Len(m) <= MaxSegs => Len(left) <= MaxSegs
  <2> DEFINE L == Len(left)
             N == Len(m)
  <2>1. N \in Nat /\ MaxSegs \in Int /\ ~(x # 0 /\ y # 0 /\ N >= MaxSegs)
    BY <1>5, <1>11
  <2>2. L = IF x = 0 /\ y = 0 THEN N - 1 ELSE IF x = 0 \/ y = 0 THEN N ELSE N + 1
    BY <1>13
  <2> HIDE DEF L, N
  <2>3. N <= MaxSegs => L <= MaxSegs
    BY ONLY <2>1, <2>2
  <2>4. QED BY <2>3 DEF L, N
<1>15. QED BY <1>3, <1>11, <1>13, <1>14 DEF r

-----------------------------------------------------------------------------
\* A segment is not empty.
LEMMA SegBounds ==
  ASSUME NEW m \in Seq(Segs), NEW i \in 1 .. Len(m)
  PROVE  m[i].m_addr \in Int /\ End(m[i]) \in Int /\ m[i].m_addr < End(m[i])
<1>1. m[i] \in Segs
  BY SegType
<1>2. QED BY <1>1, SegFields DEF PosNat

\* Free space in one piece lies within one segment.
LEMMA Inside ==
  ASSUME NEW m, InOrder(m), NEW e \in Segs,
         Units(<<e.m_addr, e.m_size>>) \subseteq Free(m)
  PROVE  \E i \in 1 .. Len(m) : m[i].m_addr <= e.m_addr /\ End(e) <= End(m[i])
<1>1. m \in Seq(Segs) /\ Len(m) \in Nat
  BY SegType DEF InOrder
<1>2. e.m_addr \in Int /\ End(e) \in Int /\ e.m_addr < End(e) /\ End(e) = e.m_addr + e.m_size
      /\ e.m_size \in Int
  BY SegFields DEF PosNat
<1>3. \A u \in Int : e.m_addr <= u /\ u < End(e) => u \in Free(m)
  BY <1>2 DEF Units
<1>4. e.m_addr \in Free(m)
  BY <1>2, <1>3
<1>5. PICK i \in 1 .. Len(m) : m[i].m_addr <= e.m_addr /\ e.m_addr < End(m[i])
  BY <1>1, <1>4, FreeUnit
<1>6. m[i].m_addr \in Int /\ End(m[i]) \in Int /\ m[i].m_addr < End(m[i])
  BY <1>1, SegBounds
<1>7. CASE End(m[i]) < End(e)
  <2>1. End(m[i]) \in Free(m)
    BY <1>2, <1>3, <1>5, <1>6, <1>7
  <2>2. PICK j \in 1 .. Len(m) : m[j].m_addr <= End(m[i]) /\ End(m[i]) < End(m[j])
    BY <1>1, <2>1, FreeUnit
  <2>3. m[j].m_addr \in Int /\ End(m[j]) \in Int /\ m[j].m_addr < End(m[j])
    BY <1>1, SegBounds
  <2>4. j # i
    BY <1>6, <2>2
  <2>5. CASE i < j
    <3>1. End(m[i]) < m[j].m_addr
      BY <2>4, <2>5, Distinct
    <3>2. QED BY <1>6, <2>2, <2>3, <3>1
  <2>6. CASE j < i
    <3>1. End(m[j]) < m[i].m_addr
      BY <2>4, <2>6, Distinct
    <3>2. QED BY <1>6, <2>2, <2>3, <3>1
  <2>7. QED BY <1>1, <2>4, <2>5, <2>6
<1>8. QED BY <1>2, <1>5, <1>6, <1>7

\* A map with less free space has no segment that is larger than all before.
LEMMA NoLarger ==
  ASSUME NEW m, NEW r, InOrder(m), InOrder(r), Free(r) \subseteq Free(m),
         NEW n \in Int, ~IsSwapmap, \A k \in DOMAIN m : ~Fits(m[k], n)
  PROVE  \A k \in DOMAIN r : ~Fits(r[k], n)
<1> SUFFICES ASSUME NEW k \in DOMAIN r, Fits(r[k], n) PROVE FALSE
  OBVIOUS
<1>1. DOMAIN r = 1 .. Len(r) /\ DOMAIN m = 1 .. Len(m) /\ m \in Seq(Segs) /\ r \in Seq(Segs)
  BY SegType DEF InOrder
<1>2. k \in 1 .. Len(r) /\ r[k] \in Segs
  BY <1>1, SegType
<1>3. Units(<<r[k].m_addr, r[k].m_size>>) \subseteq Free(m)
  BY <1>2, SpreadLess
<1>4. PICK i \in 1 .. Len(m) : m[i].m_addr <= r[k].m_addr /\ End(r[k]) <= End(m[i])
  BY <1>2, <1>3, Inside
<1>5. m[i] \in Segs
  BY <1>1, SegType
<1>6. r[k].m_size <= m[i].m_size
  <2> DEFINE s == m[i]
             t == r[k]
  <2> HIDE DEF s, t
  <2>1. /\ s.m_addr \in Int /\ s.m_size \in Int /\ End(s) = s.m_addr + s.m_size
        /\ t.m_addr \in Int /\ t.m_size \in Int /\ End(t) = t.m_addr + t.m_size
    BY <1>2, <1>5, SegFields DEF PosNat, s, t
  <2>2. s.m_addr <= t.m_addr /\ End(t) <= End(s)
    BY <1>4 DEF s, t
  <2>3. t.m_size <= s.m_size
    BY ONLY <2>1, <2>2
  <2>4. QED BY <2>3 DEF s, t
<1>7. r[k].m_size >= n /\ m[i].m_size \in Int /\ r[k].m_size \in Int
  BY <1>2, <1>5, SegFields DEF Fits, PosNat
<1>8. Fits(m[i], n)
  BY <1>6, <1>7 DEF Fits, Crosses
<1>9. QED BY <1>1, <1>8

-----------------------------------------------------------------------------
(***************************************************************************)
(* The inductive invariant.                                                *)
(***************************************************************************)
InUse(U) == UNION {Units(e) : e \in U}
Given == InUse(Later \cup {Boot})

TableOK == InOrder(map) /\ Len(map) <= MaxSegs

OthersOK ==
  /\ used \subseteq Pieces
  /\ kmapwnt \in BOOLEAN /\ asleep \in [Procs -> Sizes \cup {Nobody}]
  /\ panicked \in BOOLEAN

\* No two pieces in use share a unit.
UsedApart == \A d, e \in used : d # e => Units(d) \cap Units(e) = {}

\* In swapmap all free and all used space begins on a cluster.
Clustered ==
  IsSwapmap => /\ \A a \in Starts(map) : a % Clsize = 0
               /\ \A e \in used : e[1] % Clsize = 0

SleepersUseKernelmap == \A p \in Procs : asleep[p] # Nobody => IsKernelmap

IInv ==
  /\ TableOK /\ OthersOK /\ EveryUnitAccounted /\ UsedApart /\ Clustered
  /\ WithinOneDevice /\ NoPanic /\ SleepersUseKernelmap /\ NobodySleepsOnSpace

\* What the assumption says about the constants.
LEMMA Constants ==
  ASSUME RmapAssumption
  PROVE  /\ MaxSegs \in Int /\ MaxSegs > 1 /\ IsSwapmap \in BOOLEAN /\ IsKernelmap \in BOOLEAN
         /\ Dmmax \in PosNat /\ Clsize \in PosNat /\ Top \in Nat
         /\ \A n \in Sizes : n \in PosNat /\ n \in Int
         /\ IsSwapmap => /\ \A n \in Sizes : n <= Dmmax /\ n % Clsize = 0
                         /\ Dmmax % Clsize = 0
         /\ IsKernelmap => ~IsSwapmap /\ Nobody \notin Sizes
  BY DEF RmapAssumption, RmapTableAssumption, MaxSegs, PosNat, Unit

\* A piece is a pair.
LEMMA PieceIs ==
  ASSUME Top \in Nat, NEW e \in Pieces
  PROVE  /\ e[1] \in PosNat /\ e[2] \in PosNat /\ e = <<e[1], e[2]>>
         /\ Units(<<e[1], e[2]>>) = Units(e) /\ Units(e) \subseteq Unit
  BY DEF Pieces, Unit, Units, PosNat

\* Units of the map that follow each other are a piece.
LEMMA PieceMade ==
  ASSUME Top \in Nat, NEW a \in PosNat, NEW n \in PosNat, Units(<<a, n>>) \subseteq Unit
  PROVE  <<a, n>> \in Pieces
<1>1. a \in Units(<<a, n>>) /\ a + n - 1 \in Units(<<a, n>>)
  BY DEF Units, PosNat
<1>2. a \in 1 .. Top /\ a + n - 1 \in 1 .. Top
  BY <1>1 DEF Unit
<1>3. n \in 1 .. Top
  BY <1>2 DEF PosNat
<1>4. QED BY <1>2, <1>3 DEF Pieces, Unit

\* All space that is ever freed is of this map.
LEMMA GivenUnits ==
  ASSUME RmapAssumption
  PROVE  Given \subseteq Unit
<1>1. \A e \in Later \cup {Boot} : e \in Pieces
  BY DEF RmapAssumption
<1>2. QED BY <1>1, PieceIs, Constants DEF Given, InUse

\* EveryUnitAccounted in these terms.
LEMMA Accounted ==
  EveryUnitAccounted <=>
    /\ Free(map) \cup InUse(used) \cup lost = Given
    /\ Free(map) \cap InUse(used) = {} /\ lost \cap (Free(map) \cup InUse(used)) = {}
  BY DEF EveryUnitAccounted, InUse, Given

\* One more piece in use.
LEMMA InUseMore ==
  ASSUME NEW U, NEW e PROVE InUse(U \cup {e}) = InUse(U) \cup Units(e)
  BY DEF InUse

\* One piece less in use.
LEMMA InUseLess ==
  ASSUME NEW U, NEW e \in U, \A c, d \in U : c # d => Units(c) \cap Units(d) = {}
  PROVE  InUse(U \ {e}) = InUse(U) \ Units(e) /\ Units(e) \subseteq InUse(U)
  BY DEF InUse

\* The operators say whether they panic.
LEMMA BadType ==
  ASSUME NEW m, NEW n, NEW a, IsSwapmap \in BOOLEAN
  PROVE  RmfreeMap(m, n, a).bad \in BOOLEAN /\ RmallocMap(m, n).bad \in BOOLEAN
<1>1. \A x : Overflow(x).bad \in BOOLEAN
  BY DEF Overflow
<1>2. ASSUME NEW x, NEW y, NEW z PROVE RmfreeMap(x, y, z).bad \in BOOLEAN
  <2> DEFINE new == InsertAt(x, After(x, z), Seg(z, y))
  <2>1. \/ RmfreeMap(x, y, z).bad = TRUE \/ RmfreeMap(x, y, z).bad = FALSE
        \/ RmfreeMap(x, y, z) = Overflow(new)
    BY DEF RmfreeMap
  <2>2. QED BY <1>1, <2>1
<1>3. ASSUME NEW x, NEW k PROVE FromSegment(x, k, n).bad \in BOOLEAN
  <2>1. CASE ~Crosses(x[k])
    BY <2>1 DEF FromSegment
  <2>2. CASE Crosses(x[k])
    <3> DEFINE s == x[k]
               front == [x EXCEPT ![k].m_size = First(s)]
               rest == s.m_size - First(s) - n
               t == IF rest = 0 THEN [map |-> front, lost |-> {}, bad |-> FALSE]
                    ELSE RmfreeMap(front, rest, s.m_addr + First(s) + n)
    <3>1. t.bad \in BOOLEAN
      <4> HIDE DEF front, rest
      <4>1. CASE rest = 0 BY <4>1
      <4>2. CASE rest # 0 BY <1>2, <4>2
      <4>3. QED BY <4>1, <4>2
    <3>2. FromSegment(x, k, n) = Taken(t, s.m_addr + First(s))
      BY <2>2 DEF FromSegment
    <3> HIDE DEF t, s
    <3>3. FromSegment(x, k, n).bad = t.bad
      BY <3>2 DEF Taken
    <3>4. QED BY <3>1, <3>3
  <2>3. QED BY <2>1, <2>2
<1>4. RmallocMap(m, n).bad \in BOOLEAN
  <2> DEFINE k == CHOOSE i \in DOMAIN m : /\ Fits(m[i], n)
                                          /\ \A j \in 1 .. i - 1 : ~Fits(m[j], n)
  <2>1. RmallocMap(m, n).bad = FALSE \/ RmallocMap(m, n) = FromSegment(m, k, n)
    BY DEF RmallocMap
  <2> HIDE DEF k
  <2>2. QED BY <1>3, <2>1
<1>5. QED BY <1>2, <1>4

\* rminit() establishes the invariant.
LEMMA InitHolds ==
  ASSUME RmapAssumption, Init
  PROVE  IInv
<1> DEFINE b == Seg(Boot[1], Boot[2])
<1>1. /\ MaxSegs \in Int /\ MaxSegs > 1 /\ Boot \in Pieces /\ Top \in Nat /\ Later \subseteq Pieces
      /\ \A d, e \in Later \cup {Boot} : d # e => Units(d) \cap Units(e) = {}
  BY Constants DEF RmapAssumption
<1>2. /\ Boot[1] \in PosNat /\ Boot[2] \in PosNat /\ Units(<<Boot[1], Boot[2]>>) = Units(Boot)
  BY <1>1, PieceIs
<1>3. b \in Segs /\ b.m_addr = Boot[1] /\ b.m_size = Boot[2]
  BY <1>2, SegIs
<1>4. map = <<b>>
  BY DEF Init
<1> HIDE DEF b
<1>5. /\ map \in Seq(Segs) /\ Len(map) = 1 /\ map[1] = b
  BY <1>3, <1>4
<1>6. InOrder(map)
  BY <1>5 DEF InOrder, Sorted
<1>7. Range(map) = {b}
  <2>1. \A i \in 1 .. Len(map) : i = 1
    BY <1>5
  <2>2. QED BY <1>5, <2>1, RangeIs
<1>8. Free(map) = Units(Boot)
  BY <1>2, <1>3, <1>5, <1>7, FreeSpread, SpreadOne
<1>9. TableOK
  BY <1>1, <1>5, <1>6 DEF TableOK
<1>10. EveryUnitAccounted /\ UsedApart
  <2>1. Given = InUse(Later) \cup Units(Boot)
    BY InUseMore DEF Given
  <2>2. Units(Boot) \cap InUse(Later) = {}
    <3>1. \A e \in Later : Units(Boot) \cap Units(e) = {}
      BY <1>1 DEF RmapAssumption
    <3>2. QED BY <3>1 DEF InUse
  <2>3. used = Later /\ lost = {}
    BY DEF Init
  <2>4. QED BY <1>1, <1>8, <2>1, <2>2, <2>3, Accounted DEF UsedApart
<1>11. OthersOK /\ NoPanic /\ SleepersUseKernelmap /\ NobodySleepsOnSpace
  BY <1>1 DEF Init, OthersOK, NoPanic, SleepersUseKernelmap, NobodySleepsOnSpace
<1>12. Starts(map) = {Boot[1]}
  BY <1>3, <1>7 DEF Starts
<1>13. Clustered /\ WithinOneDevice
  BY <1>12 DEF Init, Clustered, WithinOneDevice, RmapAssumption
<1>14. QED BY <1>9, <1>10, <1>11, <1>13 DEF IInv

\* A step that hands out a piece and may lose others keeps the invariant.
LEMMA TakeKeeps ==
  ASSUME RmapAssumption, IInv, NEW a \in PosNat, NEW n \in Sizes, NEW l,
         Units(<<a, n>>) \subseteq Free(map), InOrder(map'), Len(map') <= MaxSegs,
         Free(map') \cup l = Free(map) \ Units(<<a, n>>), Free(map') \cap l = {},
         lost' = lost \cup l, used' = used \cup {<<a, n>>}, panicked' = FALSE,
         UNCHANGED <<kmapwnt, asleep>>,
         IsSwapmap => a % Clsize = 0 /\ \A b \in Starts(map') : b % Clsize = 0,
         IsSwapmap /\ Nswdev > 1 => OneDevice(<<a, n>>)
  PROVE  IInv' /\ <<a, n>> \in Pieces
<1>1. /\ n \in PosNat /\ Top \in Nat /\ IsSwapmap \in BOOLEAN /\ \A x \in Sizes : x \in Int
      /\ IsKernelmap => ~IsSwapmap
  BY Constants
<1>2. /\ InOrder(map) /\ used \subseteq Pieces /\ NobodySleepsOnSpace
      /\ Free(map) \cup InUse(used) \cup lost = Given
      /\ Free(map) \cap InUse(used) = {} /\ lost \cap (Free(map) \cup InUse(used)) = {}
  BY Accounted DEF IInv, TableOK, OthersOK
<1>3. Units(<<a, n>>) \subseteq Unit
  BY <1>2, GivenUnits
<1>4. <<a, n>> \in Pieces
  BY <1>1, <1>3, PieceMade
<1>5. TableOK'
  BY DEF TableOK
<1>6. OthersOK' /\ NoPanic' /\ SleepersUseKernelmap'
  BY <1>4 DEF IInv, OthersOK, NoPanic, SleepersUseKernelmap
<1>7. InUse(used') = InUse(used) \cup Units(<<a, n>>)
  BY InUseMore
<1>8. EveryUnitAccounted'
  <2>1. /\ Free(map') \cup InUse(used') \cup lost' = Given
        /\ Free(map') \cap InUse(used') = {}
        /\ lost' \cap (Free(map') \cup InUse(used')) = {}
    BY <1>2, <1>7
  <2>2. QED BY <2>1 DEF EveryUnitAccounted, InUse, Given
<1>9. UsedApart'
  <2>1. \A d \in used : Units(d) \cap Units(<<a, n>>) = {}
    BY <1>2 DEF InUse
  <2>2. QED BY <2>1 DEF UsedApart, IInv
<1>10. Clustered'
  <2> SUFFICES ASSUME IsSwapmap, NEW e \in used' PROVE e[1] % Clsize = 0
    BY DEF Clustered
  <2>1. QED BY DEF IInv, Clustered
<1>11. WithinOneDevice'
  <2> SUFFICES ASSUME IsSwapmap, Nswdev > 1, NEW e \in used' PROVE OneDevice(e)
    BY DEF WithinOneDevice
  <2>1. QED BY DEF IInv, WithinOneDevice
<1>12. NobodySleepsOnSpace'
  <2> SUFFICES ASSUME NEW p \in Procs, asleep[p] # Nobody
               PROVE  kmapwnt /\ \A k \in DOMAIN map' : ~Fits(map'[k], asleep[p])
    BY DEF NobodySleepsOnSpace
  <2>1. kmapwnt /\ \A k \in DOMAIN map : ~Fits(map[k], asleep[p])
    BY <1>2 DEF NobodySleepsOnSpace
  <2>2. asleep[p] \in Int /\ ~IsSwapmap
    BY <1>1 DEF IInv, OthersOK, SleepersUseKernelmap
  <2>3. Free(map') \subseteq Free(map)
    OBVIOUS
  <2>4. QED BY <1>2, <2>1, <2>2, <2>3, NoLarger
<1>13. QED BY <1>4, <1>5, <1>6, <1>8, <1>9, <1>10, <1>11, <1>12 DEF IInv

\* What rmalloc() hands out keeps the invariant.
LEMMA RmallocKeeps ==
  ASSUME RmapAssumption, IInv, NEW n \in Sizes, Rmalloc(n)
  PROVE  /\ IInv' /\ (lost' # lost => Len(map) = MaxSegs)
         /\ \E e \in Pieces : /\ Units(e) \subseteq Free(map) /\ used' = used \cup {e}
                              /\ Free(map') \subseteq Free(map) \ Units(e)
<1> DEFINE r == RmallocMap(map, n)
<1>1. /\ MaxSegs \in Int /\ MaxSegs > 1 /\ n \in PosNat /\ n \in Int
      /\ Dmmax \in PosNat /\ Clsize \in PosNat /\ IsSwapmap \in BOOLEAN
      /\ IsSwapmap => n <= Dmmax /\ n % Clsize = 0 /\ Dmmax % Clsize = 0
  BY Constants
<1>2. /\ (r.addr # 0 \/ r.bad) /\ map' = r.map /\ lost' = lost \cup r.lost
      /\ used' = used \cup {<<r.addr, n>>} /\ panicked' = r.bad
      /\ UNCHANGED <<kmapwnt, asleep>>
  BY DEF Rmalloc
<1>3. InOrder(map) /\ Len(map) <= MaxSegs /\ Clustered
  BY DEF IInv, TableOK
<1>4. Gives(map, r, n)
  <2>1. \/ r.addr = 0 /\ ~r.bad
        \/ Gives(map, r, n)
    BY <1>1, <1>3, RmallocGives
  <2>2. QED BY <2>1 DEF Rmalloc
<1> HIDE DEF r
<1>5. /\ r.addr \in PosNat /\ Units(<<r.addr, n>>) \subseteq Free(map)
      /\ Leaves(map, r, Free(map) \ Units(<<r.addr, n>>))
  BY <1>4 DEF Gives
<1>6. IsSwapmap => r.addr % Clsize = 0
  <2>1. CASE IsSwapmap /\ r.addr % Dmmax = 0
    BY <1>1, <1>5, <2>1, MultipleAligned DEF PosNat
  <2>2. CASE r.addr \in Starts(map)
    BY <1>3, <2>2 DEF Clustered
  <2>3. QED BY <1>4, <2>1, <2>2 DEF Gives
<1>7. IsSwapmap => \A b \in Starts(r.map) : b % Clsize = 0
  <2> SUFFICES ASSUME IsSwapmap, NEW b \in Starts(r.map) PROVE b % Clsize = 0
    OBVIOUS
  <2>1. b \in Starts(map) \/ b = r.addr + n
    BY <1>4 DEF Gives
  <2>2. (r.addr + n) % Clsize = 0
    BY <1>1, <1>5, <1>6, SumAligned DEF PosNat
  <2>3. QED BY <1>3, <2>1, <2>2 DEF Clustered
<1>8. r.bad = FALSE
  BY <1>1, <1>4, <1>6, BadType DEF Gives, r
<1>9. /\ InOrder(r.map) /\ Len(r.map) <= MaxSegs /\ Free(r.map) \cap r.lost = {}
      /\ Free(r.map) \cup r.lost = Free(map) \ Units(<<r.addr, n>>)
      /\ r.lost # {} => Len(map) = MaxSegs
  BY <1>3, <1>5 DEF Leaves
<1>10. IsSwapmap /\ Nswdev > 1 => OneDevice(<<r.addr, n>>)
  BY <1>1, <1>4 DEF Gives
<1>11. /\ InOrder(map') /\ Len(map') <= MaxSegs /\ Free(map') \cap r.lost = {}
       /\ Free(map') \cup r.lost = Free(map) \ Units(<<r.addr, n>>)
       /\ IsSwapmap => \A b \in Starts(map') : b % Clsize = 0
       /\ panicked' = FALSE /\ lost' = lost \cup r.lost /\ used' = used \cup {<<r.addr, n>>}
  BY <1>2, <1>7, <1>8, <1>9
<1>12. IInv' /\ <<r.addr, n>> \in Pieces
  BY <1>2, <1>5, <1>6, <1>10, <1>11, TakeKeeps
<1>13. lost' # lost => Len(map) = MaxSegs
  BY <1>9, <1>11
<1>14. QED BY <1>5, <1>11, <1>12, <1>13

\* What rmget() hands out keeps it.
LEMMA RmgetKeeps ==
  ASSUME RmapAssumption, IInv, NEW n \in Sizes, NEW a \in Unit, Rmget(n, a)
  PROVE  /\ IInv'
         /\ \E e \in Pieces : /\ Units(e) \subseteq Free(map) /\ used' = used \cup {e}
                              /\ Free(map') \subseteq Free(map) \ Units(e)
<1> DEFINE r == RmgetMap(map, n, a)
<1>1. MaxSegs \in Int /\ n \in PosNat /\ a \in PosNat
  BY Constants DEF Unit, PosNat
<1>2. /\ r.addr # 0 /\ map' = r.map /\ used' = used \cup {<<a, n>>}
      /\ UNCHANGED <<lost, kmapwnt, asleep, panicked>>
  BY DEF Rmget
<1>3. InOrder(map) /\ Len(map) <= MaxSegs /\ panicked = FALSE
  BY DEF IInv, TableOK, OthersOK, NoPanic
<1>4. /\ ~IsSwapmap /\ InOrder(r.map) /\ Units(<<a, n>>) \subseteq Free(map)
      /\ Free(r.map) = Free(map) \ Units(<<a, n>>) /\ Len(r.map) <= MaxSegs
  BY <1>1, <1>2, <1>3, RmgetTakes
<1> HIDE DEF r
<1>5. /\ InOrder(map') /\ Len(map') <= MaxSegs /\ Free(map') \cap {} = {}
      /\ Free(map') \cup {} = Free(map) \ Units(<<a, n>>)
      /\ panicked' = FALSE /\ lost' = lost \cup {}
  BY <1>2, <1>3, <1>4
<1>6. IInv' /\ <<a, n>> \in Pieces
  BY <1>1, <1>2, <1>4, <1>5, TakeKeeps
<1>7. QED BY <1>2, <1>4, <1>5, <1>6

\* What rmfree() takes back keeps it.
LEMMA RmfreeKeeps ==
  ASSUME RmapAssumption, IInv, NEW e \in Pieces, Rmfree(e)
  PROVE  /\ IInv' /\ (lost' # lost => Len(map) = MaxSegs)
         /\ e \in used /\ used' = used \ {e} /\ Free(map') \subseteq Free(map) \cup Units(e)
<1> DEFINE r == RmfreeMap(map, e[2], e[1])
           w == IsKernelmap /\ kmapwnt
<1>1. /\ MaxSegs \in Int /\ MaxSegs > 1 /\ Top \in Nat
      /\ IsKernelmap \in BOOLEAN /\ IsSwapmap \in BOOLEAN
  BY Constants
<1>2. /\ e \in used /\ map' = r.map /\ lost' = lost \cup r.lost /\ used' = used \ {e}
      /\ kmapwnt' = (IF w THEN FALSE ELSE kmapwnt)
      /\ asleep' = (IF w THEN [p \in Procs |-> Nobody] ELSE asleep)
      /\ panicked' = r.bad
  BY DEF Rmfree
<1>3. /\ InOrder(map) /\ Len(map) <= MaxSegs
      /\ Free(map) \cup InUse(used) \cup lost = Given
      /\ Free(map) \cap InUse(used) = {} /\ lost \cap (Free(map) \cup InUse(used)) = {}
  BY Accounted DEF IInv, TableOK
<1>4. e[1] \in PosNat /\ e[2] \in PosNat /\ Units(<<e[1], e[2]>>) = Units(e)
  BY <1>1, PieceIs
<1>5. InUse(used') = InUse(used) \ Units(e) /\ Units(e) \subseteq InUse(used)
  <2>1. \A c, d \in used : c # d => Units(c) \cap Units(d) = {}
    BY DEF IInv, UsedApart
  <2>2. QED BY <1>2, <2>1, InUseLess
<1>6. /\ ~r.bad /\ Starts(r.map) \subseteq Starts(map) \cup {e[1]}
      /\ Leaves(map, r, Free(map) \cup Units(e))
  <2>1. Units(<<e[1], e[2]>>) \cap Free(map) = {}
    BY <1>3, <1>4, <1>5
  <2>2. /\ ~r.bad /\ Starts(r.map) \subseteq Starts(map) \cup {e[1]}
        /\ Leaves(map, r, Free(map) \cup Units(<<e[1], e[2]>>))
    BY <1>1, <1>3, <1>4, <2>1, RmfreeLeaves
  <2>3. QED BY <1>4, <2>2
<1> HIDE DEF r
<1>7. /\ InOrder(map') /\ Len(map') <= MaxSegs /\ Free(map') \cap r.lost = {}
      /\ Free(map') \cup r.lost = Free(map) \cup Units(e)
      /\ r.lost # {} => Len(map) = MaxSegs
      /\ Starts(map') \subseteq Starts(map) \cup {e[1]} /\ ~panicked'
  BY <1>2, <1>3, <1>6 DEF Leaves
<1>8. TableOK' /\ NoPanic'
  BY <1>7 DEF TableOK, NoPanic
<1>9. EveryUnitAccounted'
  <2>1. /\ Free(map') \cup InUse(used') \cup lost' = Given
        /\ Free(map') \cap InUse(used') = {}
        /\ lost' \cap (Free(map') \cup InUse(used')) = {}
    BY <1>2, <1>3, <1>5, <1>7
  <2>2. QED BY <2>1 DEF EveryUnitAccounted, InUse, Given
<1>10. UsedApart' /\ WithinOneDevice'
  BY <1>2 DEF IInv, UsedApart, WithinOneDevice
<1>11. Clustered'
  BY <1>2, <1>7 DEF IInv, Clustered
<1>12. OthersOK'
  <2>1. r.bad \in BOOLEAN
    BY <1>1, BadType DEF r
  <2>2. /\ used \subseteq Pieces /\ kmapwnt \in BOOLEAN
        /\ asleep \in [Procs -> Sizes \cup {Nobody}]
    BY DEF IInv, OthersOK
  <2>3. kmapwnt' \in BOOLEAN /\ asleep' \in [Procs -> Sizes \cup {Nobody}]
    <3>1. CASE w BY <1>2, <3>1
    <3>2. CASE ~w BY <1>2, <2>2, <3>2
    <3>3. QED BY <3>1, <3>2
  <2>4. QED BY <1>2, <2>1, <2>2, <2>3 DEF OthersOK
<1>13. SleepersUseKernelmap' /\ NobodySleepsOnSpace'
  <2>1. \A p \in Procs : asleep'[p] = Nobody
    <3> SUFFICES ASSUME NEW p \in Procs, asleep'[p] # Nobody PROVE FALSE
      OBVIOUS
    <3>1. ~w /\ asleep[p] # Nobody
      BY <1>2
    <3>2. kmapwnt /\ IsKernelmap
      BY <3>1 DEF IInv, SleepersUseKernelmap, NobodySleepsOnSpace
    <3>3. QED BY <3>1, <3>2
  <2>2. QED BY <2>1 DEF SleepersUseKernelmap, NobodySleepsOnSpace
<1>14. QED
  BY <1>2, <1>7, <1>8, <1>9, <1>10, <1>11, <1>12, <1>13 DEF IInv

\* Whoever goes to sleep found no segment that fits.
LEMMA RmallocWaitKeeps ==
  ASSUME RmapAssumption, IInv, NEW p \in Procs, NEW n \in Sizes, RmallocWait(p, n)
  PROVE  IInv'
<1>1. /\ MaxSegs \in Int /\ MaxSegs > 1 /\ n \in PosNat
      /\ Dmmax \in PosNat /\ IsSwapmap \in BOOLEAN
  BY Constants
<1>2. /\ IsKernelmap /\ RmallocMap(map, n).addr = 0 /\ kmapwnt' = TRUE
      /\ asleep' = [asleep EXCEPT ![p] = n] /\ UNCHANGED <<map, used, lost, panicked>>
  BY DEF RmallocWait
<1>3. InOrder(map) /\ asleep \in [Procs -> Sizes \cup {Nobody}]
  BY DEF IInv, TableOK, OthersOK
<1>4. \A k \in DOMAIN map : ~Fits(map[k], n)
  <2>1. ~Gives(map, RmallocMap(map, n), n)
    BY <1>2 DEF Gives, PosNat
  <2>2. QED BY <1>1, <1>3, <2>1, RmallocGives
<1>5. /\ TableOK' /\ EveryUnitAccounted' /\ UsedApart' /\ Clustered' /\ WithinOneDevice'
      /\ NoPanic'
  BY <1>2 DEF IInv, TableOK, EveryUnitAccounted, UsedApart, Clustered, WithinOneDevice, NoPanic
<1>6. OthersOK' /\ SleepersUseKernelmap'
  BY <1>2, <1>3 DEF IInv, OthersOK, SleepersUseKernelmap
<1>7. NobodySleepsOnSpace'
  <2> SUFFICES ASSUME NEW q \in Procs, asleep'[q] # Nobody
               PROVE  \A k \in DOMAIN map : ~Fits(map[k], asleep'[q])
    BY <1>2 DEF NobodySleepsOnSpace
  <2>1. CASE q = p
    BY <1>2, <1>3, <1>4, <2>1
  <2>2. CASE q # p
    <3>1. asleep'[q] = asleep[q]
      BY <1>2, <1>3, <2>2
    <3>2. QED BY <3>1 DEF IInv, NobodySleepsOnSpace
  <2>3. QED BY <2>1, <2>2
<1>8. QED BY <1>5, <1>6, <1>7 DEF IInv

-----------------------------------------------------------------------------
(***************************************************************************)
(* The theorems.                                                           *)
(***************************************************************************)

\* Every step keeps the invariant.
LEMMA StepKeeps ==
  ASSUME RmapAssumption, IInv, [Next]_vars
  PROVE  IInv' /\ (lost' # lost => Len(map) = MaxSegs)
<1>1. ASSUME NEW n \in Sizes, Rmalloc(n) PROVE IInv' /\ (lost' # lost => Len(map) = MaxSegs)
  BY <1>1, RmallocKeeps
<1>2. ASSUME NEW p \in Procs, NEW n \in Sizes, RmallocWait(p, n)
      PROVE  IInv' /\ (lost' # lost => Len(map) = MaxSegs)
  BY <1>2, RmallocWaitKeeps DEF RmallocWait
<1>3. ASSUME NEW n \in Sizes, NEW a \in Unit, Rmget(n, a)
      PROVE  IInv' /\ (lost' # lost => Len(map) = MaxSegs)
  BY <1>3, RmgetKeeps DEF Rmget
<1>4. ASSUME NEW e \in Pieces, Rmfree(e) PROVE IInv' /\ (lost' # lost => Len(map) = MaxSegs)
  BY <1>4, RmfreeKeeps
<1>5. CASE UNCHANGED vars
  BY <1>5 DEF vars, IInv, TableOK, OthersOK, EveryUnitAccounted, UsedApart, Clustered,
              WithinOneDevice, NoPanic, SleepersUseKernelmap, NobodySleepsOnSpace
<1>6. QED BY <1>1, <1>2, <1>3, <1>4, <1>5 DEF Next

(***************************************************************************)
(* rmalloc(), rmget() and rmfree() keep the table in order, every unit     *)
(* accounted for, and swap space in clusters within one device, whatever   *)
(* the size of the table, the sizes asked for and the devices.             *)
(***************************************************************************)
THEOREM RmapInvariance ==
  ASSUME RmapAssumption PROVE Spec => []IInv
<1>1. Init => IInv
  BY InitHolds
<1>2. IInv /\ [Next]_vars => IInv'
  BY StepKeeps
<1>3. QED BY <1>1, <1>2, PTL DEF Spec

\* In a table in order neighbours do not abut.
LEMMA OrderMeans ==
  ASSUME RmapAssumption, IInv
  PROVE  SortedAndCombined /\ TypeOK
<1>1. /\ InOrder(map) /\ Len(map) <= MaxSegs
      /\ Free(map) \cup InUse(used) \cup lost = Given
  BY Accounted DEF IInv, TableOK
<1>2. map \in Seq(Segs) /\ Len(map) \in Nat /\ Top \in Nat
  BY <1>1, SegType, Constants DEF InOrder
<1>3. SortedAndCombined
  <2> SUFFICES ASSUME NEW i \in 1 .. Len(map) - 1 PROVE End(map[i]) < map[i + 1].m_addr
    BY DEF SortedAndCombined
  <2>1. i \in 1 .. Len(map) /\ i + 1 \in 1 .. Len(map) /\ i < i + 1
    BY <1>2
  <2>2. QED BY <1>1, <2>1 DEF InOrder, Sorted
<1>4. \A k \in 1 .. Len(map) : map[k] \in Segment
  <2> SUFFICES ASSUME NEW k \in 1 .. Len(map) PROVE map[k] \in Segment
    OBVIOUS
  <2>1. map[k] \in Segs
    BY <1>2, SegType
  <2> DEFINE a == map[k].m_addr
             z == map[k].m_size
  <2>2. a \in PosNat /\ z \in PosNat /\ map[k] = Seg(a, z)
    BY <2>1, SegFields
  <2> HIDE DEF a, z
  <2>3. Units(<<a, z>>) \subseteq Unit
    BY <1>1, SpreadLess, GivenUnits DEF a, z
  <2>4. <<a, z>> \in Pieces
    BY <1>2, <2>2, <2>3, PieceMade
  <2>5. a \in Unit /\ z \in Unit
    BY <2>4 DEF Pieces
  <2>6. QED BY <2>2, <2>5 DEF Seg, Segment
<1>5. map \in Seq(Segment)
  BY <1>2, <1>4, SegType
<1>6. lost \subseteq Unit
  BY <1>1, GivenUnits
<1>7. QED BY <1>1, <1>3, <1>5, <1>6 DEF TypeOK, IInv, OthersOK, NoPanic

(***************************************************************************)
(* The segments stay in address order and never abut, no unit is both free *)
(* and in use, none gets lost unnoticed, and "bad rmfree" and "rmalloc     *)
(* swapmap" are never reached.                                             *)
(***************************************************************************)
THEOREM RmapAccounts ==
  ASSUME RmapAssumption
  PROVE  Spec => [](TypeOK /\ SortedAndCombined /\ EveryUnitAccounted /\ NoPanic)
<1>1. IInv => TypeOK /\ SortedAndCombined /\ EveryUnitAccounted /\ NoPanic
  BY OrderMeans DEF IInv
<1>2. QED BY <1>1, RmapInvariance, PTL

(***************************************************************************)
(* rmalloc() never hands out a piece of swapmap that lies on two devices.  *)
(***************************************************************************)
THEOREM SwapWithinOneDevice ==
  ASSUME RmapAssumption PROVE Spec => []WithinOneDevice
<1>1. IInv => WithinOneDevice
  BY DEF IInv
<1>2. QED BY <1>1, RmapInvariance, PTL

(***************************************************************************)
(* Nobody sleeps on kernelmap while rmalloc() would find space: rmfree()   *)
(* wakes all, and taking space never makes a segment that fits.            *)
(***************************************************************************)
THEOREM RmapWakesWaiters ==
  ASSUME RmapAssumption PROVE Spec => []NobodySleepsOnSpace
<1>1. IInv => NobodySleepsOnSpace
  BY DEF IInv
<1>2. QED BY <1>1, RmapInvariance, PTL

(***************************************************************************)
(* Units are lost ("rmap ovflo") only by a step that finds the table full. *)
(***************************************************************************)
THEOREM RmapLosesOnlyWhenFull ==
  ASSUME RmapAssumption PROVE Spec => LossOnlyWhenFull
<1>1. IInv /\ [Next]_vars => [lost' # lost => Len(map) = MaxSegs]_vars
  BY StepKeeps
<1>2. QED BY <1>1, RmapInvariance, PTL DEF Spec, LossOnlyWhenFull

(***************************************************************************)
(* A resource map implements RmapSpec: units go to one user at a time.     *)
(***************************************************************************)
THEOREM RmapKeepsPromises ==
  ASSUME RmapAssumption PROVE Spec => KeepsPromises
<1>1. Init => Abstract!Init
  <2> SUFFICES ASSUME Init PROVE Abstract!Init
    OBVIOUS
  <2>1. IInv
    BY InitHolds
  <2>2. QED BY <2>1, Accounted DEF IInv, OthersOK, UsedApart, InUse, Abstract!Init,
                                   Abstract!Units, Units
<1>2. IInv /\ [Next]_vars => [Abstract!Next]_(Abstract!vars)
  <2> SUFFICES ASSUME IInv, [Next]_vars
               PROVE  [Abstract!Next]_(Abstract!vars)
    OBVIOUS
  <2>1. ASSUME NEW e \in Pieces, Units(e) \subseteq Free(map), used' = used \cup {e},
               Free(map') \subseteq Free(map) \ Units(e)
        PROVE  Abstract!Next
    BY <2>1 DEF Abstract!Next, Abstract!Take, Abstract!Units, Units
  <2>2. ASSUME NEW n \in Sizes, Rmalloc(n) PROVE Abstract!Next
    BY <2>1, <2>2, RmallocKeeps
  <2>3. ASSUME NEW n \in Sizes, NEW a \in Unit, Rmget(n, a) PROVE Abstract!Next
    BY <2>1, <2>3, RmgetKeeps
  <2>4. ASSUME NEW e \in Pieces, Rmfree(e) PROVE Abstract!Next
    <3>1. e \in used /\ used' = used \ {e} /\ Free(map') \subseteq Free(map) \cup Units(e)
      BY <2>4, RmfreeKeeps
    <3>2. QED BY <3>1 DEF Abstract!Next, Abstract!Give, Abstract!Units, Units
  <2>5. ASSUME NEW p \in Procs, NEW n \in Sizes, RmallocWait(p, n)
        PROVE  UNCHANGED Abstract!vars
    BY <2>5 DEF RmallocWait, Abstract!vars
  <2>6. CASE UNCHANGED vars
    BY <2>6 DEF vars, Abstract!vars
  <2>7. QED BY <2>2, <2>3, <2>4, <2>5, <2>6 DEF Next
<1>3. QED BY <1>1, <1>2, RmapInvariance, PTL DEF Spec, KeepsPromises, Abstract!Spec
=============================================================================
