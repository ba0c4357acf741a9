----------------------------- MODULE ClockProofs -----------------------------
(***************************************************************************)
(* The timeout queue of kern_clock.c keeps the promises of CalloutSpec for *)
(* every number of functions, delays and table size, softclock() is asked  *)
(* for while an entry is due, and no part of a correction of the time is   *)
(* lost or applied twice.                                                  *)
(*                                                                         *)
(* The list of differences is shown to stand for absolute ticks: Ahead, a  *)
(* recursive sum, by induction along the list, and each operation by what  *)
(* it does to the ticks of every entry (the same, one more, one less).     *)
(***************************************************************************)
EXTENDS MCClock, TLAPS, WellFoundedInduction, FiniteSetTheorems

\* A set of naturals that is not empty has a least element.
LEMMA Least ==
  ASSUME NEW T, T \subseteq Nat, T # {}
  PROVE  \E x \in T : \A y \in T : x <= y
<1> DEFINE R == OpToRel(<, Nat)
<1>1. IsWellFoundedOn(R, Nat)
  BY NatLessThanWellFounded
<1>2. R = {ss \in Nat \X Nat : ss[1] < ss[2]}
  BY DEF OpToRel
<1> HIDE DEF R
<1>3. PICK x \in T : \A y \in T : ~ (<<y, x>> \in R)
  BY <1>1, WFMin
<1>4. ASSUME NEW y \in T PROVE x <= y
  <2>1. <<y, x>> \notin R 
    BY <1>3
  <2>2. <<y, x>> \in Nat \X Nat /\ <<y,x>>[1] = y /\ <<y,x>>[2] = x
    OBVIOUS
  <2>3. QED BY <2>1, <2>2, <1>2
<1>5. QED BY <1>4


\* Induction up to m, with a set for the induction hypothesis.
LEMMA Induction ==
  ASSUME NEW m \in Nat, NEW S, 0 \in S, \A i \in 0 .. m - 1 : i \in S => i + 1 \in S
  PROVE  \A i \in 0 .. m : i \in S
<1> DEFINE T == {i \in 0 .. m : i \notin S}
<1> SUFFICES ASSUME T # {} PROVE FALSE
  OBVIOUS
<1>1. T \subseteq Nat
  OBVIOUS
<1>2. PICK x \in T : \A y \in T : x <= y
  <2> HIDE DEF T
  <2> QED BY <1>1, Least
<1>3. x # 0 /\ x \in 0 .. m
  OBVIOUS
<1>4. x - 1 \in 0 .. m - 1 /\ (x - 1) + 1 = x /\ ~(x <= x - 1)
  BY <1>3
<1>5. x - 1 \notin T
  BY <1>2, <1>4
<1>6. QED BY <1>3, <1>4, <1>5

\* f sums a up to k.
Sums(f, a, k) == f[0] = 0 /\ \A j \in 1 .. k : f[j] = f[j - 1] + a[j]

\* The partial sums of a exist.
LEMMA SumExists ==
  ASSUME NEW m \in Nat, NEW a \in [1 .. m -> Nat]
  PROVE  \E f \in [0 .. m -> Nat] : Sums(f, a, m)
<1> DEFINE P(k) == \E f \in [0 .. k -> Nat] : Sums(f, a, k)
           S == {k \in 0 .. m : P(k)}
<1>1. 0 \in S
  <2> DEFINE f == [j \in 0 .. 0 |-> 0]
  <2>1. f \in [0 .. 0 -> Nat] /\ Sums(f, a, 0)
    BY DEF Sums
  <2>2. QED BY <2>1
<1>2. ASSUME NEW k \in 0 .. m - 1, k \in S PROVE k + 1 \in S
  <2>1. PICK f \in [0 .. k -> Nat] : Sums(f, a, k)
    BY <1>2
  <2> DEFINE g == [j \in 0 .. k + 1 |-> IF j = k + 1 THEN f[k] + a[k + 1] ELSE f[j]]
  <2>2. k + 1 \in 1 .. m /\ a[k + 1] \in Nat /\ f[k] \in Nat
    OBVIOUS
  <2>3. g \in [0 .. k + 1 -> Nat]
    BY <2>2
  <2>4. g[0] = 0
    BY <2>1 DEF Sums
  <2>5. ASSUME NEW j \in 1 .. k + 1 PROVE g[j] = g[j - 1] + a[j]
    <3>1. CASE j = k + 1
      BY <3>1
    <3>2. CASE j # k + 1
      <4>1. j \in 1 .. k /\ j - 1 \in 0 .. k + 1 /\ j - 1 # k + 1
        BY <3>2
      <4>2. f[j] = f[j - 1] + a[j]
        BY <2>1, <4>1 DEF Sums
      <4>3. QED BY <4>1, <4>2, <3>2
    <3>3. QED BY <3>1, <3>2
  <2>6. Sums(g, a, k + 1)
    BY <2>4, <2>5 DEF Sums
  <2> HIDE DEF g
  <2>7. k + 1 \in 0 .. m
    OBVIOUS
  <2>8. QED BY <2>3, <2>6, <2>7
<1>3. m \in S 
  <2> HIDE DEF S
  <2>1. \A k \in 0 .. m : k \in S
    BY <1>1, <1>2, Induction
  <2> QED BY <2>1
<1>4. QED BY <1>3

-----------------------------------------------------------------------------
\* The entries of a queue.
LEMMA QueueType ==
  ASSUME NEW q \in Seq(Entry)
  PROVE  /\ Len(q) \in Nat /\ DOMAIN q = 1 .. Len(q)
         /\ \A i \in 1 .. Len(q) : q[i] \in Entry /\ q[i].c_time \in Int /\ q[i].c_func \in Funcs
<1>1. Len(q) \in Nat /\ DOMAIN q = 1 .. Len(q)
  OBVIOUS
<1>2. ASSUME NEW i \in 1 .. Len(q) PROVE q[i] \in Entry
  OBVIOUS
<1>3. \A e \in Entry : e.c_time \in Int /\ e.c_func \in Funcs
  BY DEF Entry
<1>4. QED BY <1>1, <1>2, <1>3

\* The recursive function behind Ahead is defined, and its values are the
\* partial sums of the ticks.
LEMMA AheadDef ==
  ASSUME NEW q \in Seq(Entry)
  PROVE  /\ Ahead(q, 0) = 0
         /\ \A i \in 1 .. Len(q) : Ahead(q, i) = Ahead(q, i - 1) + Positive(q[i].c_time)
         /\ \A i \in 0 .. Len(q) : Ahead(q, i) \in Nat
<1>1. Len(q) \in Nat /\ \A j \in 1 .. Len(q) : q[j].c_time \in Int
  BY QueueType
<1> DEFINE a == [j \in 1 .. Len(q) |-> Positive(q[j].c_time)]
<1>2. a \in [1 .. Len(q) -> Nat]
  BY <1>1 DEF Positive
<1>3. PICK f \in [0 .. Len(q) -> Nat] : Sums(f, a, Len(q))
  <2> HIDE DEF a
  <2> QED BY <1>1, <1>2, SumExists
<1>4. f = [j \in 0 .. Len(q) |-> IF j = 0 THEN 0 ELSE f[j - 1] + Positive(q[j].c_time)]
  <2>1. f[0] = 0 /\ \A j \in 1 .. Len(q) : f[j] = f[j - 1] + Positive(q[j].c_time)
    BY <1>3 DEF Sums
  <2>2. ASSUME NEW j \in 0 .. Len(q)
        PROVE f[j] = IF j = 0 THEN 0 ELSE f[j - 1] + Positive(q[j].c_time)
    BY <2>1
  <2>3. QED BY <2>2
<1> DEFINE s == CHOOSE g : g = [j \in 0 .. Len(q) |->
                  IF j = 0 THEN 0 ELSE g[j - 1] + Positive(q[j].c_time)]
<1>5. s = [j \in 0 .. Len(q) |-> IF j = 0 THEN 0 ELSE s[j - 1] + Positive(q[j].c_time)]
  BY <1>4
<1>6. \A i : Ahead(q, i) = s[i]
  BY DEF Ahead
<1>7. ASSUME NEW i \in 1 .. Len(q)
      PROVE  s[i] = s[i - 1] + Positive(q[i].c_time)
  <2> HIDE DEF s
  <2> QED BY <1>5
<1>8. s[0] = 0
  <2> HIDE DEF s
  <2> QED BY <1>5
<1>9. \A i \in 0 .. Len(q) : s[i] \in Nat
  <2> HIDE DEF s
  <2> DEFINE S == {i \in 0 .. Len(q) : s[i] \in Nat}
  <2>1. 0 \in S
    BY <1>8
  <2>2. ASSUME NEW i \in 0 .. Len(q) - 1, i \in S PROVE i + 1 \in S
    <3>1. i + 1 \in 1 .. Len(q) /\ (i + 1) - 1 = i
      BY <1>1
    <3>2. s[i + 1] = s[i] + Positive(q[i + 1].c_time)
      BY <1>7, <3>1
    <3>3. QED BY <1>1, <3>1, <3>2, <2>2 DEF Positive
  <2> HIDE DEF S
  <2>3. \A i \in 0 .. Len(q) : i \in S
    BY <1>1, <2>1, <2>2, Induction
  <2>4. QED BY <2>3 DEF S
<1>10. QED
  <2> HIDE DEF s
  <2> QED BY <1>6, <1>7, <1>8, <1>9

\* Ahead grows along the queue.
LEMMA AheadMonotone ==
  ASSUME NEW q \in Seq(Entry), NEW i \in 0 .. Len(q), NEW j \in i .. Len(q)
  PROVE  Ahead(q, i) <= Ahead(q, j)
<1> DEFINE S == {d \in 0 .. Len(q) - i : Ahead(q, i) <= Ahead(q, i + d)}
<1>1. Len(q) \in Nat /\ Len(q) - i \in Nat
  BY QueueType
<1>2. 0 \in S
  BY <1>1, AheadDef
<1>3. ASSUME NEW d \in 0 .. (Len(q) - i) - 1, d \in S PROVE d + 1 \in S
  <2>1. i + d + 1 \in 1 .. Len(q) /\ (i + d + 1) - 1 = i + d /\ i + d \in 0 .. Len(q)
    BY <1>1
  <2>2. Ahead(q, i + d + 1) = Ahead(q, i + d) + Positive(q[i + d + 1].c_time)
    BY <2>1, AheadDef
  <2>3. Positive(q[i + d + 1].c_time) \in Nat
    BY <2>1, QueueType DEF Positive
  <2>4. QED BY <1>3, <2>1, <2>2, <2>3, AheadDef
<1>4. j - i \in S
  <2> HIDE DEF S
  <2>1. \A d \in 0 .. Len(q) - i : d \in S
    BY <1>1, <1>2, <1>3, Induction
  <2>2. QED BY <1>1, <2>1
<1>5. QED BY <1>1, <1>4

\* Nothing is ahead of an entry just in case all up to it are due.
LEMMA AheadZero ==
  ASSUME NEW q \in Seq(Entry), NEW i \in 0 .. Len(q)
  PROVE  Ahead(q, i) = 0 <=> \A j \in 1 .. i : q[j].c_time <= 0
<1>1. Len(q) \in Nat
  BY QueueType
<1>2. ASSUME Ahead(q, i) = 0, NEW j \in 1 .. i PROVE q[j].c_time <= 0
  <2>1. j \in 1 .. Len(q) /\ j \in 0 .. Len(q) /\ j - 1 \in 0 .. Len(q) /\ i \in j .. Len(q)
    BY <1>1
  <2>2. Ahead(q, j) = 0
    BY <1>2, <2>1, AheadMonotone, AheadDef
  <2>3. Ahead(q, j) = Ahead(q, j - 1) + Positive(q[j].c_time) /\ Ahead(q, j - 1) \in Nat
    BY <2>1, AheadDef
  <2>4. QED BY <2>1, <2>2, <2>3, QueueType DEF Positive
<1>3. ASSUME \A j \in 1 .. i : q[j].c_time <= 0 PROVE Ahead(q, i) = 0
  <2> DEFINE S == {k \in 0 .. i : Ahead(q, k) = 0}
  <2>1. 0 \in S
    BY AheadDef
  <2>2. ASSUME NEW k \in 0 .. i - 1, k \in S PROVE k + 1 \in S
    <3>1. k + 1 \in 1 .. i /\ k + 1 \in 1 .. Len(q) /\ (k + 1) - 1 = k
      BY <1>1
    <3>2. Ahead(q, k + 1) = Ahead(q, k) + Positive(q[k + 1].c_time)
      BY <3>1, AheadDef
    <3>3. QED BY <1>3, <2>2, <3>1, <3>2, QueueType DEF Positive
  <2> HIDE DEF S
  <2>3. \A k \in 0 .. i : k \in S
    BY <2>1, <2>2, Induction
  <2>4. QED BY <2>3 DEF S
<1>4. QED BY <1>2, <1>3

-----------------------------------------------------------------------------
\* Behind an entry that is not due no entry has negative ticks.
NonNeg(q) ==
  \A i, j \in 1 .. Len(q) : i < j /\ q[i].c_time > 0 => q[j].c_time >= 0

\* The entries are in the order of their ticks.
InOrder(q, t) ==
  \A i, j \in 1 .. Len(q) : i < j => DueAt(q, i, t) <= DueAt(q, j, t)

\* What the entry promises.
Key(q, i, t) == <<q[i].c_func, DueAt(q, i, t)>>

\* q2 is q without entry k, and the others are due when they were.
Removed(q2, q, k, t) ==
  /\ k \in 1 .. Len(q)
  /\ Len(q2) = Len(q) - 1
  /\ \A i \in 1 .. Len(q) - 1 :
       /\ q2[i].c_func = q[IF i < k THEN i ELSE i + 1].c_func
       /\ DueAt(q2, i, t) = DueAt(q, IF i < k THEN i ELSE i + 1, t)

\* Ticks are integers.
LEMMA DueAtType ==
  ASSUME NEW q \in Seq(Entry), NEW i \in 1 .. Len(q), NEW t \in Int
  PROVE  DueAt(q, i, t) \in Int
<1>1. Ahead(q, i) \in Nat /\ q[i].c_time \in Int
  BY AheadDef, QueueType
<1>2. QED BY <1>1 DEF DueAt

\* hardclock() counts down the entries that have nothing ahead of them.
LEMMA HardclockShape ==
  ASSUME NEW q \in Seq(Entry)
  PROVE  /\ HardclockQueue(q) \in Seq(Entry)
         /\ Len(HardclockQueue(q)) = Len(q)
         /\ \A i \in 1 .. Len(q) :
              /\ HardclockQueue(q)[i].c_func = q[i].c_func
              /\ HardclockQueue(q)[i].c_time =
                   IF Ahead(q, i - 1) = 0 THEN q[i].c_time - 1 ELSE q[i].c_time
<1> DEFINE h == HardclockQueue(q)
<1>1. Len(q) \in Nat /\ DOMAIN q = 1 .. Len(q)
  BY QueueType
<1>2. ASSUME NEW i \in 1 .. Len(q)
      PROVE  /\ h[i] \in Entry
             /\ h[i].c_func = q[i].c_func
             /\ h[i].c_time = IF Ahead(q, i - 1) = 0 THEN q[i].c_time - 1 ELSE q[i].c_time
  <2>1. q[i] \in [c_func : Funcs, c_time : Int]
    BY QueueType DEF Entry
  <2>2. h[i] = [q[i] EXCEPT !.c_time = IF \A j \in 1 .. i - 1 : q[j].c_time <= 0
                                       THEN q[i].c_time - 1 ELSE q[i].c_time]
    BY <1>1 DEF HardclockQueue
  <2>3. i - 1 \in 0 .. Len(q)
    BY <1>1
  <2>4. Ahead(q, i - 1) = 0 <=> \A j \in 1 .. i - 1 : q[j].c_time <= 0
    BY <2>3, AheadZero
  <2>5. QED BY <2>1, <2>2, <2>4 DEF Entry
<1>3. h \in [1 .. Len(q) -> Entry]
  BY <1>1, <1>2 DEF HardclockQueue
<1>4. h \in Seq(Entry) /\ Len(h) = Len(q)
  <2> HIDE DEF h
  <2> QED BY <1>1, <1>3
<1>5. QED BY <1>2, <1>4

\* A tick brings everything that is not due one tick nearer.
LEMMA HardclockAhead ==
  ASSUME NEW q \in Seq(Entry), NEW i \in 0 .. Len(q)
  PROVE  Ahead(HardclockQueue(q), i) = IF Ahead(q, i) = 0 THEN 0 ELSE Ahead(q, i) - 1
<1> DEFINE h == HardclockQueue(q)
           P(k) == Ahead(h, k) = IF Ahead(q, k) = 0 THEN 0 ELSE Ahead(q, k) - 1
           S == {k \in 0 .. Len(q) : P(k)}
<1>1. Len(q) \in Nat /\ h \in Seq(Entry) /\ Len(h) = Len(q)
  BY QueueType, HardclockShape
<1> HIDE DEF h
<1>2. 0 \in S
  BY <1>1, AheadDef
<1>3. ASSUME NEW k \in 0 .. Len(q) - 1, k \in S PROVE k + 1 \in S
  <2>1. k + 1 \in 1 .. Len(q) /\ (k + 1) - 1 = k
    BY <1>1
  <2>2. /\ Ahead(q, k + 1) = Ahead(q, k) + Positive(q[k + 1].c_time)
        /\ Ahead(h, k + 1) = Ahead(h, k) + Positive(h[k + 1].c_time)
        /\ Ahead(q, k) \in Nat
    BY <1>1, <2>1, AheadDef
  <2>3. h[k + 1].c_time = IF Ahead(q, k) = 0 THEN q[k + 1].c_time - 1 ELSE q[k + 1].c_time
    BY <2>1, HardclockShape DEF h
  <2>4. q[k + 1].c_time \in Int
    BY <2>1, QueueType
  <2>5. P(k + 1)
    BY <1>3, <2>2, <2>3, <2>4 DEF Positive
  <2>6. QED BY <2>1, <2>5
<1>4. i \in S
  <2> HIDE DEF S
  <2>1. \A k \in 0 .. Len(q) : k \in S
    BY <1>1, <1>2, <1>3, Induction
  <2>2. QED BY <2>1
<1>5. QED BY <1>4 DEF h

\* The tick at which an entry falls or fell due does not move.
LEMMA HardclockDue ==
  ASSUME NEW q \in Seq(Entry), NonNeg(q), NEW t \in Int
  PROVE  /\ NonNeg(HardclockQueue(q))
         /\ \A i \in 1 .. Len(q) :
              DueAt(HardclockQueue(q), i, t + 1) = DueAt(q, i, t)
<1> DEFINE h == HardclockQueue(q)
<1>1. /\ Len(q) \in Nat /\ Len(h) = Len(q)
      /\ \A i \in 1 .. Len(q) :
           /\ q[i].c_time \in Int
           /\ h[i].c_time = IF Ahead(q, i - 1) = 0 THEN q[i].c_time - 1 ELSE q[i].c_time
  BY QueueType, HardclockShape
<1>2. ASSUME NEW i \in 1 .. Len(q) PROVE DueAt(h, i, t + 1) = DueAt(q, i, t)
  <2>1. i \in 0 .. Len(q) /\ i - 1 \in 0 .. Len(q)
    BY <1>1
  <2>2. Ahead(h, i) = IF Ahead(q, i) = 0 THEN 0 ELSE Ahead(q, i) - 1
    BY <2>1, HardclockAhead
  <2>3. /\ Ahead(q, i) = Ahead(q, i - 1) + Positive(q[i].c_time)
        /\ Ahead(q, i) \in Nat /\ Ahead(q, i - 1) \in Nat
    BY <2>1, AheadDef
  <2>4. Ahead(q, i - 1) # 0 => q[i].c_time >= 0
    <3>1. SUFFICES ASSUME Ahead(q, i - 1) # 0 PROVE q[i].c_time >= 0
      OBVIOUS
    <3>2. PICK j \in 1 .. i - 1 : ~(q[j].c_time <= 0)
      BY <2>1, <3>1, AheadZero
    <3>3. j \in 1 .. Len(q) /\ j < i
      BY <1>1
    <3>4. QED BY <1>1, <3>2, <3>3 DEF NonNeg
  <2> HIDE DEF h
  <2>5. /\ q[i].c_time \in Int
        /\ h[i].c_time = IF Ahead(q, i - 1) = 0 THEN q[i].c_time - 1 ELSE q[i].c_time
    BY <1>1
  <2>6. CASE Ahead(q, i) = 0
    <3>1. Ahead(q, i - 1) = 0 /\ Ahead(h, i) = 0 /\ h[i].c_time = q[i].c_time - 1
      BY <2>2, <2>3, <2>5, <2>6 DEF Positive
    <3>2. QED BY <2>5, <2>6, <3>1 DEF DueAt
  <2>7. CASE Ahead(q, i) = 1
    <3>1. Ahead(h, i) = 0 /\ h[i].c_time = 0
      BY <2>2, <2>3, <2>4, <2>5, <2>7 DEF Positive
    <3>2. QED BY <2>7, <3>1 DEF DueAt
  <2>8. CASE Ahead(q, i) > 1
    <3>1. Ahead(h, i) = Ahead(q, i) - 1 /\ Ahead(h, i) # 0
      BY <2>2, <2>3, <2>8
    <3>2. QED BY <2>3, <2>8, <3>1 DEF DueAt
  <2>9. QED BY <2>3, <2>6, <2>7, <2>8
<1>3. NonNeg(h)
  <2> SUFFICES ASSUME NEW i \in 1 .. Len(q), NEW j \in 1 .. Len(q), i < j, h[i].c_time > 0
               PROVE  h[j].c_time >= 0
    BY <1>1 DEF NonNeg
  <2> HIDE DEF h
  <2>1. q[i].c_time > 0 /\ q[j].c_time >= 0
    BY <1>1 DEF NonNeg
  <2>2. i \in 1 .. j - 1 /\ j - 1 \in 0 .. Len(q)
    BY <1>1
  <2>3. Ahead(q, j - 1) # 0
    BY <1>1, <2>1, <2>2, AheadZero
  <2>4. QED BY <1>1, <2>1, <2>3
<1>4. QED BY <1>2, <1>3

-----------------------------------------------------------------------------
\* r is q without entry k, whose ticks go to the entry behind it.
Closes(r, q, k) ==
  /\ k \in 1 .. Len(q)
  /\ Len(r) = Len(q) - 1
  /\ \A i \in 1 .. Len(q) - 1 :
       /\ r[i].c_func = q[IF i < k THEN i ELSE i + 1].c_func
       /\ r[i].c_time = IF i < k THEN q[i].c_time
                        ELSE IF i = k THEN q[i + 1].c_time + Positive(q[k].c_time)
                        ELSE q[i + 1].c_time

\* The entries of r by their place.
LEMMA ClosesAt ==
  ASSUME NEW q \in Seq(Entry), NEW r \in Seq(Entry), NEW k, Closes(r, q, k),
         NEW i \in 1 .. Len(q) - 1
  PROVE  /\ i < k => r[i].c_time = q[i].c_time
         /\ i = k => r[i].c_time = q[i + 1].c_time + Positive(q[k].c_time)
         /\ i > k => r[i].c_time = q[i + 1].c_time
<1>1. k \in Int /\ i \in Int
  BY QueueType DEF Closes
<1>2. r[i].c_time = IF i < k THEN q[i].c_time
                    ELSE IF i = k THEN q[i + 1].c_time + Positive(q[k].c_time)
                    ELSE q[i + 1].c_time
  BY DEF Closes
<1>3. QED BY <1>1, <1>2

\* What is ahead of the other entries stays the same.
LEMMA ClosesAhead ==
  ASSUME NEW q \in Seq(Entry), NEW r \in Seq(Entry), NEW k, Closes(r, q, k), NonNeg(q),
         NEW i \in 0 .. Len(q) - 1
  PROVE  Ahead(r, i) = IF i < k THEN Ahead(q, i) ELSE Ahead(q, i + 1)
<1> DEFINE P(j) == Ahead(r, j) = IF j < k THEN Ahead(q, j) ELSE Ahead(q, j + 1)
           S == {j \in 0 .. Len(q) - 1 : P(j)}
<1>1. k \in 1 .. Len(q) /\ Len(q) \in Nat /\ Len(r) = Len(q) - 1 /\ Len(q) - 1 \in Nat
  BY QueueType DEF Closes
<1>2. 0 \in S
  BY <1>1, AheadDef
<1>3. ASSUME NEW j \in 0 .. (Len(q) - 1) - 1, j \in S PROVE j + 1 \in S
  <2>1. /\ j + 1 \in 1 .. Len(r) /\ (j + 1) - 1 = j /\ j \in 0 .. Len(q)
        /\ j + 1 \in 1 .. Len(q) /\ j + 2 \in 1 .. Len(q)
        /\ (j + 2) - 1 = j + 1 /\ (j + 1) + 1 = j + 2
    BY <1>1
  <2>2. /\ Ahead(r, j + 1) = Ahead(r, j) + Positive(r[j + 1].c_time)
        /\ Ahead(q, j + 1) = Ahead(q, j) + Positive(q[j + 1].c_time)
        /\ Ahead(q, j + 2) = Ahead(q, j + 1) + Positive(q[j + 2].c_time)
        /\ Ahead(q, j) \in Nat
    BY <2>1, AheadDef
  <2>3. q[j + 1].c_time \in Int /\ q[j + 2].c_time \in Int
    BY <2>1, QueueType
  <2>4. j + 1 \in 1 .. Len(q) - 1
    BY <1>1, <2>1
  <2>5. P(j + 1)
    <3>1. CASE j + 1 < k
      <4>1. r[j + 1].c_time = q[j + 1].c_time /\ j < k
        BY <1>1, <2>4, <3>1, ClosesAt
      <4>2. QED BY <1>3, <2>2, <3>1, <4>1
    <3>2. CASE j + 1 = k
      <4>1. r[j + 1].c_time = q[(j + 1) + 1].c_time + Positive(q[j + 1].c_time) /\ j < k
        BY <1>1, <2>4, <3>2, ClosesAt
      <4>2. q[j + 1].c_time > 0 => q[j + 2].c_time >= 0
        BY <2>1 DEF NonNeg
      <4>3. Positive(r[j + 1].c_time) = Positive(q[j + 1].c_time) + Positive(q[j + 2].c_time)
        BY <2>1, <2>3, <4>1, <4>2 DEF Positive
      <4>4. Ahead(r, j) = Ahead(q, j) /\ ~(j + 1 < k)
        BY <1>3, <3>2, <4>1
      <4>5. Positive(q[j + 1].c_time) \in Nat /\ Positive(q[j + 2].c_time) \in Nat
        BY <2>3 DEF Positive
      <4>6. Ahead(r, j + 1) = Ahead(q, j + 2)
        BY <2>2, <4>3, <4>4, <4>5
      <4>7. QED BY <2>1, <4>4, <4>6
    <3>3. CASE j + 1 > k
      <4>1. r[j + 1].c_time = q[(j + 1) + 1].c_time /\ ~(j < k)
        BY <1>1, <2>4, <3>3, ClosesAt
      <4>2. QED BY <1>3, <1>1, <2>1, <2>2, <3>3, <4>1
    <3>4. QED BY <1>1, <3>1, <3>2, <3>3
  <2>6. QED BY <2>1, <2>4, <2>5
<1>4. i \in S
  <2> HIDE DEF S
  <2>1. \A j \in 0 .. Len(q) - 1 : j \in S
    BY <1>1, <1>2, <1>3, Induction
  <2>2. QED BY <2>1
<1>5. QED BY <1>4

\* The other entries are due when they were.
LEMMA ClosesRemoved ==
  ASSUME NEW q \in Seq(Entry), NEW r \in Seq(Entry), NEW k, Closes(r, q, k), NonNeg(q),
         NEW t \in Int
  PROVE  Removed(r, q, k, t)
<1>1. k \in 1 .. Len(q) /\ Len(q) \in Nat /\ Len(r) = Len(q) - 1
  BY QueueType DEF Closes
<1>2. ASSUME NEW i \in 1 .. Len(q) - 1
      PROVE  DueAt(r, i, t) = DueAt(q, IF i < k THEN i ELSE i + 1, t)
  <2>1. i \in 0 .. Len(q) - 1 /\ i + 1 \in 0 .. Len(q)
    BY <1>1
  <2>2. Ahead(r, i) = IF i < k THEN Ahead(q, i) ELSE Ahead(q, i + 1)
    BY <2>1, ClosesAhead
  <2>3. CASE i < k
    <3>1. r[i].c_time = q[i].c_time
      BY <2>3, ClosesAt
    <3>2. QED BY <2>2, <2>3, <3>1 DEF DueAt
  <2>4. CASE i > k
    <3>1. r[i].c_time = q[i + 1].c_time /\ ~(i < k)
      BY <1>1, <2>4, ClosesAt
    <3>2. QED BY <2>2, <3>1 DEF DueAt
  <2>5. CASE i = k
    <3>1. r[i].c_time = q[i + 1].c_time + Positive(q[k].c_time) /\ ~(i < k)
      BY <1>1, <2>5, ClosesAt
    <3>2. Ahead(q, i + 1) = 0 => q[k].c_time <= 0
      <4>1. Ahead(q, i + 1) = 0 => \A j \in 1 .. i + 1 : q[j].c_time <= 0
        BY <2>1, AheadZero
      <4>2. k \in 1 .. i + 1
        BY <1>1, <2>5
      <4>3. QED BY <4>1, <4>2
    <3>3. i + 1 \in 1 .. Len(q)
      BY <1>1
    <3>4. q[i + 1].c_time \in Int /\ q[k].c_time \in Int
      BY <1>1, <3>3, QueueType
    <3>5. Ahead(q, i + 1) = 0 => r[i].c_time = q[i + 1].c_time
      BY <3>1, <3>2, <3>4 DEF Positive
    <3>6. QED BY <2>2, <3>1, <3>5 DEF DueAt
  <2>6. QED BY <1>1, <2>3, <2>4, <2>5
<1>3. QED BY <1>1, <1>2 DEF Removed, Closes

\* No ticks get lost to below zero.
LEMMA ClosesNonNeg ==
  ASSUME NEW q \in Seq(Entry), NEW r \in Seq(Entry), NEW k, Closes(r, q, k), NonNeg(q)
  PROVE  NonNeg(r)
<1>1. k \in 1 .. Len(q) /\ Len(q) \in Nat /\ Len(r) = Len(q) - 1
  BY QueueType DEF Closes
<1> SUFFICES ASSUME NEW i \in 1 .. Len(r), NEW j \in 1 .. Len(r), i < j, r[i].c_time > 0
             PROVE  r[j].c_time >= 0
  BY DEF NonNeg
<1>2. /\ i \in 1 .. Len(q) - 1 /\ j \in 1 .. Len(q) - 1
      /\ i \in 1 .. Len(q) /\ j \in 1 .. Len(q) /\ i + 1 \in 1 .. Len(q) /\ j + 1 \in 1 .. Len(q)
  BY <1>1
<1>3. /\ q[i].c_time \in Int /\ q[i + 1].c_time \in Int /\ q[j].c_time \in Int
      /\ q[j + 1].c_time \in Int /\ q[k].c_time \in Int
  BY <1>1, <1>2, QueueType
<1>4. \E x \in 1 .. Len(q) : x <= i + 1 /\ (i < k => x = i) /\ q[x].c_time > 0
  <2>1. CASE i < k
    BY <1>1, <1>2, <2>1, ClosesAt
  <2>2. CASE i > k
    <3>1. r[i].c_time = q[i + 1].c_time
      BY <1>1, <1>2, <2>2, ClosesAt
    <3>2. QED BY <1>1, <1>2, <2>2, <3>1
  <2>3. CASE i = k
    <3>1. r[i].c_time = q[i + 1].c_time + Positive(q[k].c_time)
      BY <1>1, <1>2, <2>3, ClosesAt
    <3>2. q[i + 1].c_time > 0 \/ q[k].c_time > 0
      BY <1>3, <3>1 DEF Positive
    <3>3. QED BY <1>1, <1>2, <2>3, <3>2
  <2>4. QED BY <1>1, <1>2, <2>1, <2>2, <2>3
<1>5. PICK x \in 1 .. Len(q) : x <= i + 1 /\ (i < k => x = i) /\ q[x].c_time > 0
  BY <1>4
<1>6. CASE j < k
  <2>1. r[j].c_time = q[j].c_time /\ x < j
    BY <1>1, <1>2, <1>5, <1>6, ClosesAt
  <2>2. QED BY <1>2, <1>5, <2>1 DEF NonNeg
<1>7. CASE j >= k
  <2>1. x < j + 1 /\ q[j + 1].c_time >= 0
    BY <1>2, <1>5 DEF NonNeg
  <2>2. r[j].c_time = q[j + 1].c_time \/ r[j].c_time = q[j + 1].c_time + Positive(q[k].c_time)
    <3>1. j = k \/ j > k
      BY <1>1, <1>2, <1>7
    <3>2. QED BY <1>2, <3>1, ClosesAt
  <2>3. QED BY <1>3, <2>1, <2>2 DEF Positive
<1>8. QED BY <1>1, <1>2, <1>6, <1>7

\* softclock() takes the first entry, when it is due.
LEMMA TailCloses ==
  ASSUME NEW q \in Seq(Entry), q # <<>>, q[1].c_time <= 0
  PROVE  Tail(q) \in Seq(Entry) /\ Closes(Tail(q), q, 1)
<1> DEFINE r == Tail(q)
<1>1. /\ Len(q) \in Nat \ {0} /\ r \in Seq(Entry) /\ Len(r) = Len(q) - 1
      /\ \A i \in 1 .. Len(q) - 1 : r[i] = q[i + 1]
  OBVIOUS
<1>2. Positive(q[1].c_time) = 0
  BY <1>1, QueueType DEF Positive
<1>3. \A i \in 1 .. Len(q) - 1 : q[i + 1].c_time \in Int
  BY <1>1, QueueType
<1> HIDE DEF r
<1>4. Closes(r, q, 1)
  BY <1>1, <1>2, <1>3 DEF Closes
<1>5. QED BY <1>1, <1>4 DEF r

\* Charging an entry changes its c_time alone.
LEMMA Charged ==
  ASSUME NEW e \in Entry, NEW t \in Int
  PROVE  LET c == [e EXCEPT !.c_time = @ + t]
         IN c \in Entry /\ c.c_func = e.c_func /\ c.c_time = e.c_time + t
  BY DEF Entry

\* untimeout() takes the first entry of the function.
LEMMA UntimeoutCloses ==
  ASSUME NEW q \in Seq(Entry), NEW f, Pending(q, f)
  PROVE  /\ UntimeoutQueue(q, f) \in Seq(Entry)
         /\ \E k \in 1 .. Len(q) :
              /\ q[k].c_func = f
              /\ \A j \in 1 .. k - 1 : q[j].c_func # f
              /\ Closes(UntimeoutQueue(q, f), q, k)
<1> DEFINE First(i) == q[i].c_func = f /\ \A j \in 1 .. i - 1 : q[j].c_func # f
           T == {i \in 1 .. Len(q) : q[i].c_func = f}
           k == CHOOSE i \in DOMAIN q : First(i)
           r == [i \in 1 .. Len(q) - 1 |->
                   IF i < k THEN q[i]
                   ELSE IF i > k THEN q[i + 1]
                   ELSE [q[i + 1] EXCEPT !.c_time = @ + Positive(q[k].c_time)]]
<1>1. Len(q) \in Nat /\ DOMAIN q = 1 .. Len(q)
  BY QueueType
<1>2. T \subseteq Nat /\ T # {}
  BY <1>1 DEF Pending
<1>3. PICK x \in T : \A y \in T : x <= y
  <2> HIDE DEF T
  <2> QED BY <1>2, Least
<1>4. First(x) /\ x \in DOMAIN q
  BY <1>1, <1>3
<1>5. First(k) /\ k \in 1 .. Len(q)
  <2> HIDE DEF First
  <2> QED BY <1>1, <1>4
<1>6. UntimeoutQueue(q, f) = r
  BY DEF UntimeoutQueue, Pending
<1> HIDE DEF k
<1>7. ASSUME NEW i \in 1 .. Len(q) - 1
      PROVE  /\ r[i] \in Entry
             /\ r[i].c_func = q[IF i < k THEN i ELSE i + 1].c_func
             /\ r[i].c_time = IF i < k THEN q[i].c_time
                              ELSE IF i = k THEN q[i + 1].c_time + Positive(q[k].c_time)
                              ELSE q[i + 1].c_time
  <2>1. i \in 1 .. Len(q) /\ i + 1 \in 1 .. Len(q)
    BY <1>1
  <2>2. q[i] \in Entry /\ q[i + 1] \in Entry /\ Positive(q[k].c_time) \in Int
    <3>1. q[i] \in Entry /\ q[i + 1] \in Entry /\ q[k].c_time \in Int
      BY <1>5, <2>1, QueueType
    <3>2. QED BY <3>1 DEF Positive
  <2>3. CASE i < k
    <3>1. r[i] = q[i]
      BY <2>3
    <3> HIDE DEF r
    <3>2. QED BY <2>2, <2>3, <3>1
  <2>4. CASE i = k
    <3>1. r[i] = [q[i + 1] EXCEPT !.c_time = @ + Positive(q[k].c_time)]
      BY <1>5, <2>4
    <3> HIDE DEF r
    <3>2. /\ r[i] \in Entry /\ r[i].c_func = q[i + 1].c_func
          /\ r[i].c_time = q[i + 1].c_time + Positive(q[k].c_time)
      BY <2>2, <3>1, Charged
    <3>3. ~(i < k)
      BY <1>5, <2>4
    <3>4. QED BY <2>4, <3>2, <3>3
  <2>5. CASE i > k
    <3>1. r[i] = q[i + 1] /\ ~(i < k) /\ i # k
      BY <1>5, <2>5
    <3> HIDE DEF r
    <3>2. QED BY <2>2, <3>1
  <2>6. QED BY <1>5, <2>3, <2>4, <2>5
<1>8. r \in Seq(Entry) /\ Len(r) = Len(q) - 1
  <2>1. r = [i \in 1 .. Len(q) - 1 |-> r[i]]
    OBVIOUS
  <2> HIDE DEF r
  <2>2. r \in [1 .. Len(q) - 1 -> Entry]
    BY <1>7, <2>1
  <2>3. Len(q) - 1 \in Nat
    BY <1>1, <1>5
  <2>4. QED BY <2>2, <2>3
<1> HIDE DEF r
<1>9. Closes(r, q, k)
  BY <1>5, <1>7, <1>8 DEF Closes
<1>10. QED BY <1>5, <1>6, <1>8, <1>9

-----------------------------------------------------------------------------
\* The ticks timeout() counts.
Ticks(t) == IF t <= 0 THEN 1 ELSE t

\* Behind the first i entries, which fall due before d ticks from now.
Fits(q, d, i) ==
  /\ i < Len(q) => q[i + 1].c_time >= d - Ahead(q, i)
  /\ \A j \in 1 .. i : q[j].c_time < d - Ahead(q, j - 1)

\* timeout() finds a place for the entry.
LEMMA FitsExists ==
  ASSUME NEW q \in Seq(Entry), NEW d \in Nat \ {0}
  PROVE  \E i \in 0 .. Len(q) : Fits(q, d, i)
<1> DEFINE T == {i \in 0 .. Len(q) : i < Len(q) => q[i + 1].c_time >= d - Ahead(q, i)}
<1>1. Len(q) \in Nat /\ \A i \in 1 .. Len(q) : q[i].c_time \in Int
  BY QueueType
<1>2. T \subseteq Nat /\ Len(q) \in T
  BY <1>1
<1>3. PICK x \in T : \A y \in T : x <= y
  <2> HIDE DEF T
  <2> QED BY <1>2, Least
<1>4. ASSUME NEW j \in 1 .. x PROVE q[j].c_time < d - Ahead(q, j - 1)
  <2>1. /\ j - 1 \in 0 .. Len(q) /\ (j - 1) + 1 = j /\ j - 1 < Len(q) /\ ~(x <= j - 1)
        /\ j \in 1 .. Len(q)
    BY <1>1
  <2>2. j - 1 \notin T
    BY <1>3, <2>1
  <2>3. q[j].c_time \in Int /\ Ahead(q, j - 1) \in Nat
    BY <1>1, <2>1, AheadDef
  <2>4. QED BY <2>1, <2>2, <2>3
<1>5. QED BY <1>4 DEF Fits

\* The entry has ticks to wait behind those before it.
LEMMA FitsLeft ==
  ASSUME NEW q \in Seq(Entry), NEW d \in Nat \ {0}, NEW i \in 0 .. Len(q), Fits(q, d, i)
  PROVE  Ahead(q, i) < d
<1> DEFINE S == {k \in 0 .. i : Ahead(q, k) < d}
<1>1. Len(q) \in Nat
  BY QueueType
<1>2. 0 \in S
  BY AheadDef
<1>3. ASSUME NEW k \in 0 .. i - 1, k \in S PROVE k + 1 \in S
  <2>1. k + 1 \in 1 .. i /\ k + 1 \in 1 .. Len(q) /\ (k + 1) - 1 = k /\ k \in 0 .. Len(q)
    BY <1>1
  <2>2. Ahead(q, k + 1) = Ahead(q, k) + Positive(q[k + 1].c_time) /\ Ahead(q, k) \in Nat
    BY <2>1, AheadDef
  <2>3. q[k + 1].c_time < d - Ahead(q, k) /\ q[k + 1].c_time \in Int
    BY <2>1, QueueType DEF Fits
  <2>4. QED BY <1>3, <2>1, <2>2, <2>3 DEF Positive
<1> HIDE DEF S
<1>4. \A k \in 0 .. i : k \in S
  BY <1>2, <1>3, Induction
<1>5. QED BY <1>4 DEF S

\* timeout() leaves the entries before the new one alone and takes its ticks
\* from the one behind it.
LEMMA TimeoutShape ==
  ASSUME NEW q \in Seq(Entry), NEW f \in Funcs, NEW t \in Int
  PROVE  /\ TimeoutQueue(q, f, t) \in Seq(Entry)
         /\ Len(TimeoutQueue(q, f, t)) = Len(q) + 1
         /\ \E pos \in 0 .. Len(q) :
              /\ Fits(q, Ticks(t), pos)
              /\ \A i \in 1 .. Len(q) + 1 :
                   LET r == TimeoutQueue(q, f, t) IN
                     /\ i <= pos => r[i] = q[i]
                     /\ i = pos + 1 => r[i].c_func = f /\ r[i].c_time = Ticks(t) - Ahead(q, pos)
                     /\ i > pos + 1 => r[i].c_func = q[i - 1].c_func
                     /\ i = pos + 2 => r[i].c_time = q[i - 1].c_time - (Ticks(t) - Ahead(q, pos))
                     /\ i > pos + 2 => r[i].c_time = q[i - 1].c_time
<1> DEFINE d    == Ticks(t)
           pos    == CHOOSE i \in 0 .. Len(q) :
                     /\ i < Len(q) => q[i + 1].c_time >= d - Ahead(q, i)
                     /\ \A j \in 1 .. i : q[j].c_time < d - Ahead(q, j - 1)
           left == d - Ahead(q, pos)
           rest == [i \in 1 .. Len(q) - pos |->
                      [q[pos + i] EXCEPT !.c_time = IF i = 1 THEN @ - left ELSE @]]
           new  == [c_func |-> f, c_time |-> left]
           r    == SubSeq(q, 1, pos) \o <<new>> \o rest
<1>1. TimeoutQueue(q, f, t) = r
  BY DEF TimeoutQueue, Ticks
<1>2. d \in Nat \ {0} /\ Len(q) \in Nat
  BY QueueType DEF Ticks
<1> HIDE DEF d
<1>3. pos \in 0 .. Len(q) /\ Fits(q, d, pos)
  BY <1>2, FitsExists DEF Fits
<1> HIDE DEF pos
<1>4. left \in Int
  BY <1>2, <1>3, AheadDef
<1> HIDE DEF left
<1>5. new \in Entry /\ new.c_func = f /\ new.c_time = left
  BY <1>4 DEF Entry
<1> HIDE DEF new
<1>6. ASSUME NEW i \in 1 .. Len(q) - pos
      PROVE  /\ rest[i] \in Entry
             /\ rest[i].c_func = q[pos + i].c_func
             /\ rest[i].c_time = IF i = 1 THEN q[pos + i].c_time - left ELSE q[pos + i].c_time
  <2>1. pos + i \in 1 .. Len(q)
    BY <1>2, <1>3
  <2>2. q[pos + i] \in [c_func : Funcs, c_time : Int]
    BY <2>1, QueueType DEF Entry
  <2>3. rest[i] = [q[pos + i] EXCEPT
          !.c_time = IF i = 1 THEN q[pos + i].c_time - left ELSE q[pos + i].c_time]
    OBVIOUS
  <2>4. QED BY <1>4, <2>2, <2>3 DEF Entry
<1>7. rest \in Seq(Entry) /\ Len(rest) = Len(q) - pos
  <2>1. rest = [i \in 1 .. Len(q) - pos |-> rest[i]] /\ Len(q) - pos \in Nat
    BY <1>2, <1>3
  <2> HIDE DEF rest
  <2>2. rest \in [1 .. Len(q) - pos -> Entry]
    BY <1>6, <2>1
  <2>3. QED BY <2>1, <2>2
<1> HIDE DEF rest
<1> DEFINE s == SubSeq(q, 1, pos)
<1>8. s \in Seq(Entry) /\ Len(s) = pos /\ \A i \in 1 .. pos : s[i] = q[i]
  BY <1>2, <1>3
<1> HIDE DEF s
<1> DEFINE u == s \o <<new>>
<1>9. /\ u \in Seq(Entry) /\ Len(u) = pos + 1 /\ u[pos + 1] = new
      /\ \A i \in 1 .. pos : u[i] = q[i]
  BY <1>2, <1>3, <1>5, <1>8
<1> HIDE DEF u
<1>10. /\ r = u \o rest
       /\ u \o rest \in Seq(Entry) /\ Len(u \o rest) = Len(q) + 1
       /\ \A i \in 1 .. pos + 1 : (u \o rest)[i] = u[i]
       /\ \A i \in 1 .. Len(q) + 1 : i > pos + 1 => (u \o rest)[i] = rest[i - (pos + 1)]
  <2>1. r = u \o rest
    BY DEF s, u
  <2>2. u \o rest \in Seq(Entry) /\ Len(u \o rest) = Len(q) + 1
    BY <1>2, <1>3, <1>7, <1>9
  <2>3. ASSUME NEW i \in 1 .. pos + 1 PROVE (u \o rest)[i] = u[i]
    BY <1>2, <1>3, <1>7, <1>9
  <2>4. ASSUME NEW i \in 1 .. Len(q) + 1, i > pos + 1
        PROVE  (u \o rest)[i] = rest[i - (pos + 1)]
    BY <1>2, <1>3, <1>7, <1>9, <2>4
  <2>5. QED BY <2>1, <2>2, <2>3, <2>4
<1> HIDE DEF r
<1>11. ASSUME NEW i \in 1 .. Len(q) + 1
       PROVE  /\ i <= pos => r[i] = q[i]
              /\ i = pos + 1 => r[i].c_func = f /\ r[i].c_time = left
              /\ i > pos + 1 => r[i].c_func = q[i - 1].c_func
              /\ i = pos + 2 => r[i].c_time = q[i - 1].c_time - left
              /\ i > pos + 2 => r[i].c_time = q[i - 1].c_time
  <2>1. CASE i <= pos
    BY <1>2, <1>3, <1>9, <1>10, <2>1
  <2>2. CASE i = pos + 1
    BY <1>2, <1>3, <1>5, <1>9, <1>10, <2>2
  <2>3. CASE i > pos + 1
    <3> DEFINE x == i - (pos + 1)
    <3>1. x \in 1 .. Len(q) - pos /\ pos + x = i - 1 /\ (x = 1 <=> i = pos + 2)
      BY <1>2, <1>3, <2>3
    <3>2. r[i] = rest[x]
      BY <1>10, <2>3
    <3> HIDE DEF x
    <3>3. /\ r[i].c_func = q[i - 1].c_func
          /\ r[i].c_time = IF x = 1 THEN q[i - 1].c_time - left ELSE q[i - 1].c_time
      BY <1>6, <3>1, <3>2
    <3>4. ~(i <= pos) /\ i # pos + 1 /\ (i > pos + 2 => x # 1)
      BY <1>2, <1>3, <2>3, <3>1
    <3>5. QED BY <3>1, <3>3, <3>4
  <2>4. QED BY <1>2, <1>3, <2>1, <2>2, <2>3
<1>12. /\ Fits(q, Ticks(t), pos) /\ left = Ticks(t) - Ahead(q, pos)
       /\ r \in Seq(Entry) /\ Len(r) = Len(q) + 1
  BY <1>3, <1>10 DEF d, left
<1>13. QED BY <1>1, <1>3, <1>11, <1>12

\* The new entry is due when it was asked for, and the others when they were.
LEMMA TimeoutDue ==
  ASSUME NEW q \in Seq(Entry), NonNeg(q), NEW now0 \in Int, InOrder(q, now0),
         NEW f \in Funcs, NEW t \in Int
  PROVE  LET r == TimeoutQueue(q, f, t) IN
           /\ r \in Seq(Entry) /\ Len(r) = Len(q) + 1
           /\ NonNeg(r)
           /\ InOrder(r, now0)
           /\ \E k \in 1 .. Len(r) :
                /\ Removed(q, r, k, now0)
                /\ r[k].c_func = f /\ DueAt(r, k, now0) = now0 + Ticks(t)
<1> DEFINE r == TimeoutQueue(q, f, t)
           d == Ticks(t)
<1>1. d \in Nat \ {0} /\ Len(q) \in Nat
  BY QueueType DEF Ticks
<1>2. r \in Seq(Entry) /\ Len(r) = Len(q) + 1
  BY TimeoutShape
<1>3. PICK pos \in 0 .. Len(q) :
        /\ Fits(q, d, pos)
        /\ \A i \in 1 .. Len(q) + 1 :
             /\ i <= pos => r[i] = q[i]
             /\ i = pos + 1 => r[i].c_func = f /\ r[i].c_time = d - Ahead(q, pos)
             /\ i > pos + 1 => r[i].c_func = q[i - 1].c_func
             /\ i = pos + 2 => r[i].c_time = q[i - 1].c_time - (d - Ahead(q, pos))
             /\ i > pos + 2 => r[i].c_time = q[i - 1].c_time
  BY TimeoutShape
<1> HIDE DEF r, d
<1> DEFINE left == d - Ahead(q, pos)
           k == pos + 1
<1>4. left \in Nat \ {0} /\ Ahead(q, pos) \in Nat /\ left = d - Ahead(q, pos)
  BY <1>1, <1>3, AheadDef, FitsLeft
<1>5. k \in 1 .. Len(r) /\ k = pos + 1
  BY <1>1, <1>2
<1>6. k <= Len(q) => q[k].c_time >= left
  BY <1>1, <1>3 DEF Fits
<1> HIDE DEF left, k
<1>7. \A i \in 1 .. Len(q) : q[i].c_time \in Int
  BY QueueType
<1>8. NonNeg(r)
  <2> SUFFICES ASSUME NEW i \in 1 .. Len(q) + 1, NEW j \in 1 .. Len(q) + 1, i < j, r[i].c_time > 0
               PROVE  r[j].c_time >= 0
    BY <1>2 DEF NonNeg
  <2>1. j < k => r[j].c_time >= 0
    <3>1. SUFFICES ASSUME j < k PROVE r[j].c_time >= 0
      OBVIOUS
    <3>2. i \in 1 .. Len(q) /\ j \in 1 .. Len(q) /\ r[i] = q[i] /\ r[j] = q[j]
      BY <1>1, <1>3, <1>5, <3>1
    <3>3. QED BY <3>2 DEF NonNeg
  <2>2. j = k => r[j].c_time >= 0
    BY <1>3, <1>4, <1>5
  <2>3. j = k + 1 => r[j].c_time >= 0
    <3>1. SUFFICES ASSUME j = k + 1 PROVE r[j].c_time >= 0
      OBVIOUS
    <3>2. j = pos + 2 /\ j - 1 = k /\ k \in 1 .. Len(q)
      BY <1>1, <1>5, <3>1
    <3>3. r[j].c_time = q[k].c_time - left
      BY <1>3, <1>4, <3>2
    <3>4. QED BY <1>4, <1>6, <1>7, <3>2, <3>3
  <2>4. j > k + 1 => r[j].c_time >= 0
    <3>1. SUFFICES ASSUME j > k + 1 PROVE r[j].c_time >= 0
      OBVIOUS
    <3>2. r[j].c_time = q[j - 1].c_time /\ j - 1 \in 1 .. Len(q) /\ k \in 1 .. Len(q) /\ k < j - 1
      BY <1>1, <1>3, <1>4, <1>5, <3>1
    <3>3. q[k].c_time > 0
      BY <1>4, <1>6, <1>7, <3>2
    <3>4. QED BY <3>2, <3>3 DEF NonNeg
  <2>5. QED BY <1>5, <2>1, <2>2, <2>3, <2>4
<1>9. Closes(q, r, k)
  <2> SUFFICES ASSUME NEW i \in 1 .. Len(q)
               PROVE  /\ q[i].c_func = r[IF i < k THEN i ELSE i + 1].c_func
                      /\ q[i].c_time = IF i < k THEN r[i].c_time
                                       ELSE IF i = k THEN r[i + 1].c_time + Positive(r[k].c_time)
                                       ELSE r[i + 1].c_time
    BY <1>1, <1>2, <1>5 DEF Closes
  <2>1. /\ i \in 1 .. Len(q) + 1 /\ i + 1 \in 1 .. Len(q) + 1
        /\ (i + 1) - 1 = i /\ q[i].c_time \in Int
    BY <1>1, <1>7
  <2>2. CASE i < k
    <3>1. r[i] = q[i]
      BY <1>3, <1>5, <2>1, <2>2
    <3>2. QED BY <2>2, <3>1
  <2>3. CASE i = k
    <3>1. r[k].c_time = left /\ r[i + 1].c_time = q[i].c_time - left
      BY <1>3, <1>4, <1>5, <2>1, <2>3
    <3>2. r[i + 1].c_func = q[i].c_func /\ ~(i < k)
      BY <1>3, <1>5, <2>1, <2>3
    <3>3. QED BY <1>4, <2>1, <2>3, <3>1, <3>2 DEF Positive
  <2>4. CASE i > k
    <3>1. i + 1 > pos + 2 /\ i + 1 > pos + 1 /\ ~(i < k) /\ i # k
      BY <1>5, <2>4
    <3>2. r[i + 1].c_time = q[i].c_time /\ r[i + 1].c_func = q[i].c_func
      BY <1>3, <2>1, <3>1
    <3>3. QED BY <3>1, <3>2
  <2>5. QED BY <1>5, <2>2, <2>3, <2>4
<1>10. Removed(q, r, k, now0)
  BY <1>2, <1>8, <1>9, ClosesRemoved
<1>11. Ahead(r, k) = d /\ r[k].c_func = f
  <2>1. pos \in 0 .. Len(r) - 1 /\ pos < k /\ k - 1 = pos
    BY <1>1, <1>2, <1>5
  <2>2. Ahead(q, pos) = Ahead(r, pos)
    BY <1>2, <1>8, <1>9, <2>1, ClosesAhead
  <2>3. Ahead(r, k) = Ahead(r, pos) + Positive(r[k].c_time)
    BY <1>2, <1>5, <2>1, AheadDef
  <2>4. r[k].c_time = left /\ r[k].c_func = f
    BY <1>2, <1>3, <1>4, <1>5
  <2>5. QED BY <1>1, <1>4, <2>2, <2>3, <2>4 DEF Positive
<1>12. DueAt(r, k, now0) = now0 + d
  BY <1>1, <1>11 DEF DueAt
<1>13. InOrder(r, now0)
  <2> SUFFICES ASSUME NEW i \in 1 .. Len(r), NEW j \in 1 .. Len(r), i < j
               PROVE  DueAt(r, i, now0) <= DueAt(r, j, now0)
    BY DEF InOrder
  <2>1. /\ i \in 0 .. Len(r) /\ j \in 0 .. Len(r) /\ k \in 0 .. Len(r)
        /\ Ahead(r, i) \in Nat /\ Ahead(r, j) \in Nat /\ r[i].c_time \in Int
    BY <1>2, <1>5, AheadDef, QueueType
  <2>2. CASE j = k
    <3>1. Ahead(r, i) <= d
      BY <1>2, <1>11, <2>1, <2>2, AheadMonotone
    <3>2. Ahead(r, i) = 0 => r[i].c_time <= 0
      BY <1>2, <2>1, AheadZero
    <3>3. QED BY <1>1, <1>12, <2>1, <2>2, <3>1, <3>2 DEF DueAt
  <2>3. CASE i = k
    <3>1. d <= Ahead(r, j)
      BY <1>2, <1>11, <2>1, <2>3, AheadMonotone
    <3>2. QED BY <1>1, <1>12, <2>1, <2>3, <3>1 DEF DueAt
  <2>4. CASE i # k /\ j # k
    <3> DEFINE a == IF i < k THEN i ELSE i - 1
               b == IF j < k THEN j ELSE j - 1
    <3>1. /\ a \in 1 .. Len(r) - 1 /\ b \in 1 .. Len(r) - 1 /\ a < b
          /\ i = (IF a < k THEN a ELSE a + 1) /\ j = (IF b < k THEN b ELSE b + 1)
      BY <1>1, <1>2, <1>5, <2>4
    <3> HIDE DEF a, b
    <3>2. DueAt(q, a, now0) = DueAt(r, i, now0) /\ DueAt(q, b, now0) = DueAt(r, j, now0)
      BY <1>10, <3>1 DEF Removed
    <3>3. a \in 1 .. Len(q) /\ b \in 1 .. Len(q)
      BY <1>1, <1>2, <3>1
    <3>4. QED BY <3>1, <3>2, <3>3 DEF InOrder
  <2>5. QED BY <2>2, <2>3, <2>4
<1>14. QED BY <1>2, <1>5, <1>8, <1>10, <1>11, <1>12, <1>13 DEF r, d

-----------------------------------------------------------------------------
\* The entries that promise e, and the promises with their number.
Idx(q, e, t) == {i \in DOMAIN q : e = <<q[i].c_func, DueAt(q, i, t)>>}
CallsOf(q, t) == {<<q[i].c_func, DueAt(q, i, t)>> : i \in DOMAIN q}
BagOf(q, t) == [e \in CallsOf(q, t) |-> Cardinality(Idx(q, e, t))]

\* The promises are those with an entry.
LEMMA IdxCount ==
  ASSUME NEW q \in Seq(Entry), NEW t, NEW e
  PROVE  /\ IsFiniteSet(Idx(q, e, t))
         /\ Cardinality(Idx(q, e, t)) \in Nat
         /\ e \in CallsOf(q, t) <=> Cardinality(Idx(q, e, t)) # 0
<1>1. IsFiniteSet(1 .. Len(q)) /\ DOMAIN q = 1 .. Len(q)
  BY QueueType, FS_Interval
<1>2. Idx(q, e, t) \in SUBSET (1 .. Len(q))
  BY <1>1 DEF Idx
<1>3. IsFiniteSet(Idx(q, e, t))
  BY <1>1, <1>2, FS_Subset
<1>4. Cardinality(Idx(q, e, t)) \in Nat
  BY <1>3, FS_CardinalityType
<1>5. Cardinality(Idx(q, e, t)) = 0 <=> Idx(q, e, t) = {}
  BY <1>3, FS_EmptySet
<1>6. e \in CallsOf(q, t) <=> Idx(q, e, t) # {}
  BY DEF CallsOf, Idx
<1>7. QED BY <1>3, <1>4, <1>5, <1>6

\* One entry less, one promise less.
LEMMA RemovedCount ==
  ASSUME NEW q \in Seq(Entry), NEW r \in Seq(Entry), NEW k, NEW t,
         Removed(r, q, k, t), NEW e
  PROVE  Cardinality(Idx(q, e, t)) =
           Cardinality(Idx(r, e, t)) + (IF e = Key(q, k, t) THEN 1 ELSE 0)
<1> DEFINE S == Idx(r, e, t)
           T == Idx(q, e, t) \ {k}
           g == [i \in S |-> IF i < k THEN i ELSE i + 1]
<1>1. /\ k \in 1 .. Len(q) /\ Len(q) \in Nat /\ Len(r) = Len(q) - 1
      /\ DOMAIN q = 1 .. Len(q) /\ DOMAIN r = 1 .. Len(q) - 1
  BY QueueType DEF Removed
<1>2. ASSUME NEW i \in 1 .. Len(q) - 1
      PROVE  i \in S <=> (IF i < k THEN i ELSE i + 1) \in T
  <2>1. /\ (IF i < k THEN i ELSE i + 1) \in 1 .. Len(q)
        /\ (IF i < k THEN i ELSE i + 1) # k
    BY <1>1
  <2>2. /\ r[i].c_func = q[IF i < k THEN i ELSE i + 1].c_func
        /\ DueAt(r, i, t) = DueAt(q, IF i < k THEN i ELSE i + 1, t)
    BY DEF Removed
  <2>3. QED BY <1>1, <2>1, <2>2 DEF Idx
<1>3. S \subseteq 1 .. Len(q) - 1 /\ T \subseteq (1 .. Len(q)) \ {k}
  BY <1>1 DEF Idx
<1> HIDE DEF S, T
<1>4. g \in [S -> T]
  BY <1>2, <1>3
<1>5. \A x, y \in S : g[x] = g[y] => x = y
  BY <1>1, <1>3
<1>6. ASSUME NEW y \in T PROVE \E x \in S : g[x] = y
  <2> DEFINE x == IF y < k THEN y ELSE y - 1
  <2>1. x \in 1 .. Len(q) - 1 /\ y = (IF x < k THEN x ELSE x + 1)
    BY <1>1, <1>3
  <2> HIDE DEF x
  <2>2. x \in S
    BY <1>2, <2>1
  <2>3. QED BY <2>1, <2>2
<1>7. ExistsBijection(S, T)
  <2> HIDE DEF g
  <2>1. IsInjective(g)
    BY <1>4, <1>5 DEF IsInjective
  <2>2. g \in Injection(S, T)
    BY <1>4, <2>1 DEF Injection
  <2>3. g \in Surjection(S, T)
    BY <1>4, <1>6 DEF Surjection
  <2>4. QED BY <2>2, <2>3 DEF ExistsBijection, Bijection
<1>8. IsFiniteSet(S) /\ Cardinality(S) \in Nat /\ IsFiniteSet(Idx(q, e, t))
  BY IdxCount DEF S
<1>9. IsFiniteSet(T) /\ Cardinality(T) = Cardinality(S)
  BY <1>7, <1>8, FS_Bijection
<1>10. k \in Idx(q, e, t) <=> e = Key(q, k, t)
  BY <1>1 DEF Idx, Key
<1>11. Cardinality(T) = IF k \in Idx(q, e, t) THEN Cardinality(Idx(q, e, t)) - 1
                        ELSE Cardinality(Idx(q, e, t))
  BY <1>8, FS_RemoveElement DEF T
<1>12. Cardinality(Idx(q, e, t)) \in Nat
  BY IdxCount
<1>13. QED BY <1>8, <1>9, <1>10, <1>11, <1>12 DEF S

\* Entries that keep their ticks are the same promises.
LEMMA SameKeysSameBag ==
  ASSUME NEW q \in Seq(Entry), NEW r \in Seq(Entry), NEW t, NEW u, Len(r) = Len(q),
         \A i \in 1 .. Len(q) : r[i].c_func = q[i].c_func /\ DueAt(r, i, u) = DueAt(q, i, t)
  PROVE  BagOf(r, u) = BagOf(q, t)
<1>1. DOMAIN q = 1 .. Len(q) /\ DOMAIN r = 1 .. Len(q)
  BY QueueType
<1>2. CallsOf(r, u) = CallsOf(q, t)
  BY <1>1 DEF CallsOf
<1>3. \A e : Idx(r, e, u) = Idx(q, e, t)
  BY <1>1 DEF Idx
<1>4. QED BY <1>2, <1>3 DEF BagOf

\* The first entry is due just in case its tick has come.
LEMMA DueFirst ==
  ASSUME NEW q \in Seq(Entry), q # <<>>, NEW t \in Int
  PROVE  /\ 1 \in 1 .. Len(q)
         /\ q[1].c_time <= 0 <=> DueAt(q, 1, t) <= t
         /\ q[1].c_time <= 0 => DueAt(q, 1, t) = t + q[1].c_time
<1>1. 1 \in 1 .. Len(q) /\ q[1].c_time \in Int
  BY QueueType
<1>2. Ahead(q, 1) = Ahead(q, 1 - 1) + Positive(q[1].c_time) /\ Ahead(q, 0) = 0
  BY <1>1, AheadDef
<1>3. Ahead(q, 1) = Positive(q[1].c_time)
  BY <1>1, <1>2 DEF Positive
<1>4. QED BY <1>1, <1>3 DEF DueAt, Positive

\* What is left is in order.
LEMMA RemovedInOrder ==
  ASSUME NEW q \in Seq(Entry), NEW r \in Seq(Entry), NEW k, NEW t \in Int,
         Removed(r, q, k, t), InOrder(q, t)
  PROVE  InOrder(r, t)
<1>1. k \in 1 .. Len(q) /\ Len(q) \in Nat /\ Len(r) = Len(q) - 1
  BY QueueType DEF Removed
<1> SUFFICES ASSUME NEW i \in 1 .. Len(r), NEW j \in 1 .. Len(r), i < j
             PROVE  DueAt(r, i, t) <= DueAt(r, j, t)
  BY DEF InOrder
<1> DEFINE a == IF i < k THEN i ELSE i + 1
           b == IF j < k THEN j ELSE j + 1
<1>2. a \in 1 .. Len(q) /\ b \in 1 .. Len(q) /\ a < b
  BY <1>1
<1>3. DueAt(r, i, t) = DueAt(q, a, t) /\ DueAt(r, j, t) = DueAt(q, b, t)
  BY <1>1 DEF Removed
<1> HIDE DEF a, b
<1>4. QED BY <1>2, <1>3 DEF InOrder

-----------------------------------------------------------------------------
(***************************************************************************)
(* The inductive invariant of Callout, and its steps.                      *)
(***************************************************************************)
\* The inductive invariant of the timeout queue.
CalloutInv ==
  /\ TypeOK
  /\ NonNeg(calltodo)
  /\ InOrder(calltodo, now)
  /\ DueIsNoticed

\* softclock() looks at the first entry only.
LEMMA SomeDueDef ==
  ASSUME NEW q \in Seq(Entry)
  PROVE  SomeDue(q) <=> q # <<>> /\ q[1].c_time <= 0
BY DEF SomeDue

\* The queue begins empty.
LEMMA InitCalloutInv == Init => CalloutInv
<1> SUFFICES ASSUME Init PROVE CalloutInv
  OBVIOUS
<1>1. calltodo = <<>> /\ calltodo \in Seq(Entry) /\ Len(calltodo) = 0
  BY DEF Init
<1>2. TypeOK
  <2>1. Len(calltodo) <= NCallout /\ now \in 0 .. MaxNow
    BY <1>1, CalloutAssumption DEF Init
  <2>2. QED BY <1>1, <2>1 DEF Init, TypeOK
<1>3. NonNeg(calltodo) /\ InOrder(calltodo, now) /\ DueIsNoticed
  BY <1>1 DEF NonNeg, InOrder, DueIsNoticed, SomeDue
<1>4. QED BY <1>2, <1>3 DEF CalloutInv

\* The tick is the promises' tick, and no promise moves.
LEMMA HardclockStep ==
  ASSUME CalloutInv, Hardclock
  PROVE  /\ CalloutInv'
         /\ BagOf(calltodo, now)' = BagOf(calltodo, now)
<1> DEFINE q == calltodo
           h == HardclockQueue(calltodo)
<1>1. q \in Seq(Entry) /\ NonNeg(q) /\ InOrder(q, now) /\ now \in Nat /\ Len(q) \in Nat
  BY QueueType, CalloutAssumption DEF CalloutInv, TypeOK
<1>2. calltodo' = h /\ now' = now + 1 /\ h \in Seq(Entry) /\ Len(h) = Len(q)
  BY <1>1, HardclockShape DEF Hardclock
<1>3. \A i \in 1 .. Len(q) : h[i].c_func = q[i].c_func /\ DueAt(h, i, now + 1) = DueAt(q, i, now)
  BY <1>1, HardclockShape, HardclockDue
<1>4. NonNeg(h)
  BY <1>1, HardclockDue
<1>5. InOrder(h, now + 1)
  BY <1>1, <1>2, <1>3 DEF InOrder
<1>6. TypeOK'
  <2>1. now' \in 0 .. MaxNow
    BY CalloutAssumption DEF CalloutInv, TypeOK, Hardclock
  <2>2. soft' \in BOOLEAN /\ insoft' \in BOOLEAN
    BY DEF CalloutInv, TypeOK, Hardclock
  <2>3. QED BY <1>2, <2>1, <2>2 DEF CalloutInv, TypeOK, Hardclock
<1>7. SomeDue(h) => NeedSoft(q)
  <2> SUFFICES ASSUME SomeDue(h) PROVE NeedSoft(q)
    OBVIOUS
  <2>1. h # <<>> /\ h[1].c_time <= 0
    BY <1>2, SomeDueDef
  <2>2. 1 \in 1 .. Len(q) /\ q # <<>>
    BY <1>1, <1>2, <2>1
  <2>3. h[1].c_time = IF Ahead(q, 1 - 1) = 0 THEN q[1].c_time - 1 ELSE q[1].c_time
    BY <1>1, <2>2, HardclockShape
  <2>4. Ahead(q, 0) = 0 /\ q[1].c_time \in Int
    BY <1>1, <2>2, AheadDef, QueueType
  <2>5. QED BY <2>1, <2>2, <2>3, <2>4 DEF NeedSoft
<1>8. DueIsNoticed'
  <2>1. NeedSoft(q) => soft' \/ insoft'
    BY DEF Hardclock
  <2>2. QED BY <1>2, <1>7, <2>1 DEF DueIsNoticed
<1>9. BagOf(h, now + 1) = BagOf(q, now)
  BY <1>1, <1>2, <1>3, SameKeysSameBag
<1>10. QED BY <1>2, <1>4, <1>5, <1>6, <1>8, <1>9 DEF CalloutInv

\* A step that leaves the queue and the tick alone.
LEMMA QuietStep ==
  ASSUME CalloutInv, UNCHANGED <<calltodo, now>>, TypeOK', DueIsNoticed'
  PROVE  CalloutInv' /\ BagOf(calltodo, now)' = BagOf(calltodo, now)
BY DEF CalloutInv, NonNeg, InOrder, BagOf, CallsOf, Idx, DueAt, Ahead

\* Calling what is due takes the first promise of all.
LEMMA SoftclockCallStep ==
  ASSUME CalloutInv, SoftclockCall
  PROVE  /\ CalloutInv'
         /\ Removed(calltodo', calltodo, 1, now)
         /\ DueAt(calltodo, 1, now) <= now
         /\ calling' = <<calltodo[1].c_func, now - DueAt(calltodo, 1, now)>>
<1> DEFINE q == calltodo
           r == Tail(calltodo)
<1>1. /\ q \in Seq(Entry) /\ NonNeg(q) /\ InOrder(q, now)
      /\ now \in Nat /\ now \in Int /\ Len(q) \in Nat
  BY QueueType, CalloutAssumption DEF CalloutInv, TypeOK
<1>2. q # <<>> /\ q[1].c_time <= 0
  BY <1>1, SomeDueDef DEF SoftclockCall
<1>3. calltodo' = r /\ UNCHANGED <<soft, insoft, now, panicked>> /\ insoft
  BY DEF SoftclockCall
<1>4. r \in Seq(Entry) /\ Closes(r, q, 1)
  BY <1>1, <1>2, TailCloses
<1>5. NonNeg(r) /\ Removed(r, q, 1, now)
  BY <1>1, <1>4, ClosesNonNeg, ClosesRemoved
<1>6. InOrder(r, now)
  BY <1>1, <1>4, <1>5, RemovedInOrder
<1>7. 1 \in 1 .. Len(q) /\ DueAt(q, 1, now) <= now /\ DueAt(q, 1, now) = now + q[1].c_time
  BY <1>1, <1>2, DueFirst
<1>8. q[1].c_func \in Funcs /\ q[1].c_time \in Int
  BY <1>1, <1>7, QueueType
<1>9. calling' = <<q[1].c_func, -q[1].c_time>>
  BY <1>2 DEF SoftclockCall
<1>10. now - DueAt(q, 1, now) = -q[1].c_time
  BY <1>1, <1>7, <1>8
<1>11. TypeOK'
  <2>1. Len(r) <= NCallout
    BY <1>1, <1>4, CalloutAssumption DEF Closes, CalloutInv, TypeOK
  <2>2. calling' \in Funcs \X Nat
    BY <1>2, <1>8, <1>9
  <2>3. QED BY <1>3, <1>4, <2>1, <2>2 DEF CalloutInv, TypeOK
<1>12. DueIsNoticed'
  BY <1>3 DEF DueIsNoticed
<1>13. QED BY <1>3, <1>5, <1>6, <1>7, <1>9, <1>10, <1>11, <1>12 DEF CalloutInv

\* timeout() adds one promise.
LEMMA TimeoutStep ==
  ASSUME CalloutInv, NEW f \in Funcs, NEW t \in Delays, Timeout(f, t)
  PROVE  /\ CalloutInv'
         /\ \/ UNCHANGED calltodo
            \/ \E k \in 1 .. Len(calltodo') :
                 /\ Removed(calltodo, calltodo', k, now)
                 /\ Key(calltodo', k, now) = <<f, now + Ticks(t)>>
<1> DEFINE q == calltodo
           r == TimeoutQueue(calltodo, f, t)
<1>1. /\ q \in Seq(Entry) /\ NonNeg(q) /\ InOrder(q, now) /\ now \in Nat /\ now \in Int
      /\ Len(q) \in Nat /\ Len(q) <= NCallout /\ NCallout \in Nat
  BY QueueType, CalloutAssumption DEF CalloutInv, TypeOK
<1>2. t \in Int
  BY CalloutAssumption
<1>3. UNCHANGED <<soft, insoft, calling, now>>
  BY DEF Timeout
<1>4. CASE Len(q) = NCallout
  <2>1. UNCHANGED calltodo /\ panicked' = TRUE
    BY <1>4 DEF Timeout
  <2>2. TypeOK' /\ DueIsNoticed'
    BY <1>3, <2>1 DEF CalloutInv, TypeOK, DueIsNoticed
  <2>3. QED BY <1>3, <2>1, <2>2, QuietStep
<1>5. CASE Len(q) # NCallout
  <2>1. calltodo' = r /\ UNCHANGED panicked
    BY <1>5 DEF Timeout
  <2>2. r \in Seq(Entry) /\ Len(r) = Len(q) + 1 /\ NonNeg(r) /\ InOrder(r, now)
    BY <1>1, <1>2, TimeoutDue
  <2>3. PICK k \in 1 .. Len(r) :
          /\ Removed(q, r, k, now)
          /\ r[k].c_func = f /\ DueAt(r, k, now) = now + Ticks(t)
    BY <1>1, <1>2, TimeoutDue
  <2> HIDE DEF r
  <2>4. TypeOK'
    BY <1>1, <1>3, <1>5, <2>1, <2>2 DEF CalloutInv, TypeOK
  <2>5. SomeDue(r) => SomeDue(q)
    <3> SUFFICES ASSUME SomeDue(r) PROVE SomeDue(q)
      OBVIOUS
    <3>1. r # <<>> /\ r[1].c_time <= 0
      BY <2>2, SomeDueDef
    <3>2. 1 \in 1 .. Len(r) /\ DueAt(r, 1, now) <= now
      BY <1>1, <2>2, <3>1, DueFirst
    <3>3. k # 1
      BY <1>1, <1>2, <2>3, <3>2 DEF Ticks
    <3>4. 1 < k /\ 1 \in 1 .. Len(r) - 1 /\ q # <<>>
      BY <1>1, <2>2, <2>3, <3>3
    <3>5. DueAt(q, 1, now) = DueAt(r, 1, now)
      BY <2>3, <3>4 DEF Removed
    <3>6. QED BY <1>1, <3>2, <3>4, <3>5, DueFirst, SomeDueDef
  <2>6. DueIsNoticed'
    BY <1>3, <2>1, <2>5 DEF CalloutInv, DueIsNoticed
  <2>7. QED BY <1>3, <2>1, <2>2, <2>3, <2>4, <2>6 DEF CalloutInv, Key
<1>6. QED BY <1>4, <1>5

\* untimeout() takes the first promise for the function back.
LEMMA UntimeoutStep ==
  ASSUME CalloutInv, NEW f \in Funcs, Untimeout(f)
  PROVE  /\ CalloutInv'
         /\ \/ UNCHANGED calltodo
            \/ \E k \in 1 .. Len(calltodo) :
                 /\ Removed(calltodo', calltodo, k, now)
                 /\ calltodo[k].c_func = f
                 /\ \A j \in 1 .. k - 1 : calltodo[j].c_func # f
<1> DEFINE q == calltodo
           r == UntimeoutQueue(calltodo, f)
<1>1. /\ q \in Seq(Entry) /\ NonNeg(q) /\ InOrder(q, now) /\ now \in Nat /\ now \in Int
      /\ Len(q) \in Nat /\ Len(q) <= NCallout /\ NCallout \in Nat
  BY QueueType, CalloutAssumption DEF CalloutInv, TypeOK
<1>2. UNCHANGED <<soft, insoft, calling, now, panicked>> /\ calltodo' = r
  BY DEF Untimeout
<1>3. CASE ~Pending(q, f)
  <2>1. UNCHANGED calltodo
    BY <1>2, <1>3 DEF UntimeoutQueue, Pending
  <2>2. TypeOK' /\ DueIsNoticed'
    BY <1>2, <2>1 DEF CalloutInv, TypeOK, DueIsNoticed
  <2>3. QED BY <1>2, <2>1, <2>2, QuietStep
<1>4. CASE Pending(q, f)
  <2>1. r \in Seq(Entry)
    BY <1>1, <1>4, UntimeoutCloses
  <2>2. PICK k \in 1 .. Len(q) :
          /\ q[k].c_func = f
          /\ \A j \in 1 .. k - 1 : q[j].c_func # f
          /\ Closes(r, q, k)
    BY <1>1, <1>4, UntimeoutCloses
  <2> HIDE DEF r
  <2>3. NonNeg(r) /\ Removed(r, q, k, now)
    BY <1>1, <2>1, <2>2, ClosesNonNeg, ClosesRemoved
  <2>4. InOrder(r, now)
    BY <1>1, <2>1, <2>3, RemovedInOrder
  <2>5. TypeOK'
    BY <1>1, <1>2, <2>1, <2>2 DEF CalloutInv, TypeOK, Closes
  <2>6. SomeDue(r) => SomeDue(q)
    <3> SUFFICES ASSUME SomeDue(r) PROVE SomeDue(q)
      OBVIOUS
    <3>1. r # <<>> /\ r[1].c_time <= 0
      BY <2>1, SomeDueDef
    <3>2. 1 \in 1 .. Len(r) /\ DueAt(r, 1, now) <= now
      BY <1>1, <2>1, <3>1, DueFirst
    <3> DEFINE a == IF 1 < k THEN 1 ELSE 2
    <3>3. 1 \in 1 .. Len(q) - 1 /\ 1 \in 1 .. Len(q) /\ a \in 1 .. Len(q) /\ q # <<>>
      BY <1>1, <2>3, <3>2 DEF Removed
    <3>4. DueAt(r, 1, now) = DueAt(q, a, now)
      BY <2>3, <3>3 DEF Removed
    <3>5. DueAt(q, 1, now) \in Int /\ DueAt(q, a, now) \in Int
      BY <1>1, <3>3, DueAtType
    <3>6. DueAt(q, 1, now) <= DueAt(q, a, now)
      BY <1>1, <3>3, <3>5 DEF InOrder
    <3> HIDE DEF a
    <3>7. QED BY <1>1, <3>2, <3>3, <3>4, <3>5, <3>6, DueFirst, SomeDueDef
  <2>7. DueIsNoticed'
    BY <1>2, <2>6 DEF CalloutInv, DueIsNoticed
  <2>8. QED BY <1>2, <2>2, <2>3, <2>4, <2>5, <2>7 DEF CalloutInv
<1>5. QED BY <1>3, <1>4

\* The steps of softclock() that call nothing.
LEMMA SoftclockQuietStep ==
  ASSUME CalloutInv, SoftclockEnter \/ SoftclockReturn \/ SoftclockExit
  PROVE  CalloutInv' /\ BagOf(calltodo, now)' = BagOf(calltodo, now)
<1>1. UNCHANGED <<calltodo, now>>
  BY DEF SoftclockEnter, SoftclockReturn, SoftclockExit
<1>2. TypeOK'
  BY DEF CalloutInv, TypeOK, SoftclockEnter, SoftclockReturn, SoftclockExit
<1>3. DueIsNoticed'
  BY DEF CalloutInv, DueIsNoticed, SoftclockEnter, SoftclockReturn, SoftclockExit
<1>4. QED BY <1>1, <1>2, <1>3, QuietStep

\* Every step preserves the invariant.
LEMMA NextCalloutInv == CalloutInv /\ [Next]_vars => CalloutInv'
<1> SUFFICES ASSUME CalloutInv, [Next]_vars PROVE CalloutInv'
  OBVIOUS
<1>1. CASE UNCHANGED vars
  <2>1. UNCHANGED <<calltodo, now>> /\ TypeOK' /\ DueIsNoticed'
    BY <1>1 DEF vars, CalloutInv, TypeOK, DueIsNoticed
  <2>2. QED BY <2>1, QuietStep
<1>2. CASE Hardclock
  BY <1>2, HardclockStep
<1>3. CASE SoftclockEnter \/ SoftclockReturn \/ SoftclockExit
  BY <1>3, SoftclockQuietStep
<1>4. CASE SoftclockCall
  BY <1>4, SoftclockCallStep
<1>5. CASE \E f \in Funcs, t \in Delays : Timeout(f, t)
  BY <1>5, TimeoutStep
<1>6. CASE \E f \in Funcs : Untimeout(f)
  BY <1>6, UntimeoutStep
<1>7. QED BY <1>1, <1>2, <1>3, <1>4, <1>5, <1>6 DEF Next

-----------------------------------------------------------------------------
\* The refinement mapping is the bag of the queue.
LEMMA PendingIsBag ==
  BagOf(calltodo, now) =
    [e \in Calls |-> Cardinality({i \in DOMAIN calltodo :
                       e = <<calltodo[i].c_func, DueAt(calltodo, i, now)>>})]
BY DEF BagOf, CallsOf, Idx, Calls

\* The bag of a queue and the bag without one of its entries.
LEMMA RemovedBag ==
  ASSUME NEW q \in Seq(Entry), NEW r \in Seq(Entry), NEW k, NEW t, Removed(r, q, k, t)
  PROVE  /\ Key(q, k, t) \in CallsOf(q, t)
         /\ CallsOf(q, t) = CallsOf(r, t) \cup {Key(q, k, t)}
         /\ \A e \in CallsOf(q, t) :
              /\ BagOf(q, t)[e] \in Nat \ {0}
              /\ BagOf(q, t)[e] = (IF e \in CallsOf(r, t) THEN BagOf(r, t)[e] ELSE 0)
                                    + (IF e = Key(q, k, t) THEN 1 ELSE 0)
         /\ \A e \in CallsOf(r, t) : BagOf(r, t)[e] \in Nat \ {0}
<1> DEFINE c(s, e) == Cardinality(Idx(s, e, t))
<1>1. \A e : /\ c(q, e) \in Nat /\ c(r, e) \in Nat
             /\ e \in CallsOf(q, t) <=> c(q, e) # 0
             /\ e \in CallsOf(r, t) <=> c(r, e) # 0
             /\ c(q, e) = c(r, e) + (IF e = Key(q, k, t) THEN 1 ELSE 0)
  BY IdxCount, RemovedCount
<1>2. /\ \A e \in CallsOf(q, t) : BagOf(q, t)[e] = c(q, e)
      /\ \A e \in CallsOf(r, t) : BagOf(r, t)[e] = c(r, e)
  BY DEF BagOf
<1> HIDE DEF c
<1>3. Key(q, k, t) \in CallsOf(q, t)
  BY <1>1
<1>4. CallsOf(q, t) = CallsOf(r, t) \cup {Key(q, k, t)}
  BY <1>1
<1>5. QED BY <1>1, <1>2, <1>3, <1>4

\* hardclock() is a tick of the promises.
LEMMA HardclockPromise ==
  ASSUME CalloutInv, Hardclock
  PROVE  Abstract!Tick
<1>1. BagOf(calltodo, now)' = BagOf(calltodo, now) /\ now' = now + 1 /\ calling' = calling
  BY HardclockStep DEF Hardclock
<1>2. QED BY <1>1, PendingIsBag DEF Abstract!Tick, BagOf, CallsOf, Idx, Calls

\* timeout() is a promise, or the panic.
LEMMA TimeoutPromise ==
  ASSUME CalloutInv, NEW f \in Funcs, NEW t \in Delays, Timeout(f, t)
  PROVE  Abstract!Timeout(f, t) \/ UNCHANGED Abstract!vars
<1> DEFINE x == <<f, now + (IF t <= 0 THEN 1 ELSE t)>>
           B == BagOf(calltodo, now)
           C == BagOf(calltodo', now)
<1>1. now' = now /\ calling' = calling
  BY DEF Timeout
<1>2. CASE UNCHANGED calltodo
  BY <1>1, <1>2 DEF Abstract!vars, Calls, DueAt, Ahead
<1>3. ASSUME NEW k \in 1 .. Len(calltodo'),
             Removed(calltodo, calltodo', k, now), Key(calltodo', k, now) = <<f, now + Ticks(t)>>
      PROVE  Abstract!Timeout(f, t)
  <2>1. calltodo \in Seq(Entry) /\ calltodo' \in Seq(Entry)
    BY TimeoutStep DEF CalloutInv, TypeOK
  <2>2. Key(calltodo', k, now) = x
    BY <1>3 DEF Ticks
  <2>3. /\ DOMAIN B = CallsOf(calltodo, now)
        /\ DOMAIN C = CallsOf(calltodo', now)
        /\ C = [e \in DOMAIN C |-> C[e]]
    BY DEF BagOf
  <2>4. /\ DOMAIN C = DOMAIN B \cup {x}
        /\ \A e \in DOMAIN C :
             C[e] = (IF e \in DOMAIN B THEN B[e] ELSE 0) + (IF e = x THEN 1 ELSE 0)
    <3> HIDE DEF x
    <3> QED BY <1>3, <2>1, <2>2, <2>3, RemovedBag
  <2> DEFINE D == [e \in {x} |-> 1]
  <2>5. C = [e \in DOMAIN B \cup DOMAIN D |->
               (IF e \in DOMAIN B THEN B[e] ELSE 0) + (IF e \in DOMAIN D THEN D[e] ELSE 0)]
    <3> HIDE DEF x, B, C
    <3> QED BY <2>3, <2>4
  <2>6. C = BagOf(calltodo, now)'
    BY <1>1
  <2>7. BagOf(calltodo, now)' = [e \in DOMAIN B \cup DOMAIN D |->
               (IF e \in DOMAIN B THEN B[e] ELSE 0) + (IF e \in DOMAIN D THEN D[e] ELSE 0)]
    BY <2>5, <2>6
  <2>8. QED
    BY <1>1, <2>7
    DEF Abstract!Timeout, Abstract!(+), Abstract!SetToBag, BagOf, CallsOf, Idx, Calls
<1>4. QED BY <1>2, <1>3, TimeoutStep

\* The bag with one promise taken back.
LEMMA TakenBack ==
  ASSUME CalloutInv, calltodo' \in Seq(Entry), NEW k \in 1 .. Len(calltodo),
         Removed(calltodo', calltodo, k, now), now' = now
  PROVE  LET x == Key(calltodo, k, now)
             B == BagOf(calltodo, now)
             C == BagOf(calltodo', now)
             D == [e \in {x} |-> 1]
             A == [e \in DOMAIN B |-> IF e \in DOMAIN D THEN B[e] - D[e] ELSE B[e]]
         IN  x \in DOMAIN B /\ C = [e \in {d \in DOMAIN A : A[d] > 0} |-> A[e]]
<1> DEFINE x == Key(calltodo, k, now)
           B == BagOf(calltodo, now)
           C == BagOf(calltodo', now)
           D == [e \in {x} |-> 1]
           A == [e \in DOMAIN B |-> IF e \in DOMAIN D THEN B[e] - D[e] ELSE B[e]]
<1>1. calltodo \in Seq(Entry)
  BY DEF CalloutInv, TypeOK
<1>2. /\ DOMAIN B = CallsOf(calltodo, now)
      /\ DOMAIN C = CallsOf(calltodo', now)
      /\ C = [e \in DOMAIN C |-> C[e]]
  BY DEF BagOf
<1>3. /\ x \in DOMAIN B
      /\ DOMAIN B = DOMAIN C \cup {x}
      /\ \A e \in DOMAIN B :
           /\ B[e] \in Nat \ {0}
           /\ B[e] = (IF e \in DOMAIN C THEN C[e] ELSE 0) + (IF e = x THEN 1 ELSE 0)
      /\ \A e \in DOMAIN C : C[e] \in Nat \ {0}
  BY <1>1, <1>2, RemovedBag
<1> HIDE DEF x, B, C
<1>4. A = [e \in DOMAIN B |-> IF e = x THEN B[e] - 1 ELSE B[e]]
  OBVIOUS
<1>5. \A e \in DOMAIN B : A[e] = IF e \in DOMAIN C THEN C[e] ELSE 0
  BY <1>3, <1>4
<1>6. DOMAIN A = DOMAIN B
  OBVIOUS
<1> HIDE DEF A
<1>7. {d \in DOMAIN A : A[d] > 0} = DOMAIN C
  <2>1. DOMAIN C \subseteq DOMAIN A
    BY <1>3, <1>6
  <2>2. \A d \in DOMAIN A : A[d] > 0 <=> d \in DOMAIN C
    BY <1>3, <1>5, <1>6
  <2>3. QED BY <2>1, <2>2
<1>8. C = [e \in {d \in DOMAIN A : A[d] > 0} |-> A[e]]
  BY <1>2, <1>3, <1>5, <1>6, <1>7
<1>9. QED BY <1>3, <1>8 DEF x, B, C, A

\* untimeout() takes the earliest promise of the function back, if any.
LEMMA UntimeoutPromise ==
  ASSUME CalloutInv, NEW f \in Funcs, Untimeout(f)
  PROVE  Abstract!Untimeout(f) \/ UNCHANGED Abstract!vars
<1>1. now' = now /\ calling' = calling
  BY DEF Untimeout
<1>2. CASE UNCHANGED calltodo
  BY <1>1, <1>2 DEF Abstract!vars, Calls, DueAt, Ahead
<1>3. ASSUME NEW k \in 1 .. Len(calltodo),
             Removed(calltodo', calltodo, k, now), calltodo[k].c_func = f,
             \A j \in 1 .. k - 1 : calltodo[j].c_func # f
      PROVE  Abstract!Untimeout(f)
  <2> DEFINE x == Key(calltodo, k, now)
             B == BagOf(calltodo, now)
             C == BagOf(calltodo', now)
             D == [e \in {x} |-> 1]
             A == [e \in DOMAIN B |-> IF e \in DOMAIN D THEN B[e] - D[e] ELSE B[e]]
  <2>1. /\ calltodo \in Seq(Entry) /\ calltodo' \in Seq(Entry)
        /\ now \in Int /\ InOrder(calltodo, now)
    BY UntimeoutStep, CalloutAssumption DEF CalloutInv, TypeOK
  <2>2. x \in DOMAIN B /\ C = [e \in {d \in DOMAIN A : A[d] > 0} |-> A[e]]
    BY <1>1, <1>3, <2>1, TakenBack
  <2>3. x[1] = f /\ x[2] = DueAt(calltodo, k, now)
    BY <1>3 DEF Key
  <2>4. ASSUME NEW y \in DOMAIN B, y[1] = f PROVE x[2] <= y[2]
    <3>1. PICK i \in 1 .. Len(calltodo) : y = <<calltodo[i].c_func, DueAt(calltodo, i, now)>>
      BY <2>1, QueueType DEF BagOf, CallsOf
    <3>2. i \notin 1 .. k - 1 /\ i \in Int /\ k \in Int
      BY <1>3, <2>1, <2>4, <3>1, QueueType
    <3>3. i = k \/ k < i
      BY <1>3, <3>1, <3>2
    <3>4. DueAt(calltodo, k, now) \in Int
      BY <2>1, DueAtType
    <3>5. DueAt(calltodo, k, now) <= DueAt(calltodo, i, now)
      BY <2>1, <3>3, <3>4 DEF InOrder
    <3>6. QED BY <2>3, <3>1, <3>5
  <2> HIDE DEF x
  <2>5. x \in Abstract!FirstOf(f)
    BY <2>2, <2>3, <2>4 DEF Abstract!FirstOf, Abstract!BagToSet, BagOf, CallsOf, Idx, Calls
  <2>6. BagOf(calltodo, now)' = [e \in {d \in DOMAIN A : A[d] > 0} |-> A[e]]
    BY <1>1, <2>2
  <2>7. QED
    BY <1>1, <2>5, <2>6
    DEF Abstract!Untimeout, Abstract!(-), Abstract!SetToBag, BagOf, CallsOf, Idx, Calls
<1>4. QED BY <1>2, <1>3, UntimeoutStep

\* softclock() calls the earliest promise of all, and not early.
LEMMA SoftclockCallPromise ==
  ASSUME CalloutInv, SoftclockCall
  PROVE  Abstract!Call
<1> DEFINE x == Key(calltodo, 1, now)
           B == BagOf(calltodo, now)
           C == BagOf(calltodo', now)
           D == [e \in {x} |-> 1]
           A == [e \in DOMAIN B |-> IF e \in DOMAIN D THEN B[e] - D[e] ELSE B[e]]
<1>1. now' = now /\ calling = None
  BY DEF SoftclockCall
<1>2. /\ calltodo \in Seq(Entry) /\ calltodo' \in Seq(Entry) /\ now \in Int
      /\ InOrder(calltodo, now) /\ Len(calltodo) \in Nat
  BY SoftclockCallStep, CalloutAssumption, QueueType DEF CalloutInv, TypeOK
<1>3. /\ Removed(calltodo', calltodo, 1, now) /\ 1 \in 1 .. Len(calltodo)
      /\ DueAt(calltodo, 1, now) <= now
      /\ calling' = <<calltodo[1].c_func, now - DueAt(calltodo, 1, now)>>
  BY SoftclockCallStep DEF Removed
<1>4. x \in DOMAIN B /\ C = [e \in {d \in DOMAIN A : A[d] > 0} |-> A[e]]
  BY <1>1, <1>2, <1>3, TakenBack
<1>5. x[1] = calltodo[1].c_func /\ x[2] = DueAt(calltodo, 1, now)
  BY DEF Key
<1>6. ASSUME NEW y \in DOMAIN B PROVE x[2] <= y[2]
  <2>1. PICK i \in 1 .. Len(calltodo) : y = <<calltodo[i].c_func, DueAt(calltodo, i, now)>>
    BY <1>2, QueueType DEF BagOf, CallsOf
  <2>2. DueAt(calltodo, 1, now) \in Int
    BY <1>2, <1>3, DueAtType
  <2>3. DueAt(calltodo, 1, now) <= DueAt(calltodo, i, now)
    BY <1>2, <1>3, <2>2 DEF InOrder
  <2>4. QED BY <1>5, <2>1, <2>3
<1> HIDE DEF x
<1>7. BagOf(calltodo, now)' = [e \in {d \in DOMAIN A : A[d] > 0} |-> A[e]]
  BY <1>1, <1>4
<1>8. x[2] <= now /\ calling' = <<x[1], now - x[2]>>
  BY <1>3, <1>5
<1>9. QED
  BY <1>1, <1>4, <1>6, <1>7, <1>8
  DEF Abstract!Call, Abstract!(-), Abstract!SetToBag, Abstract!BagToSet,
      BagOf, CallsOf, Idx, Calls

\* The other steps of softclock() promise nothing.
LEMMA SoftclockQuietPromise ==
  ASSUME CalloutInv, SoftclockEnter \/ SoftclockReturn \/ SoftclockExit
  PROVE  Abstract!Return \/ UNCHANGED Abstract!vars
<1>1. BagOf(calltodo, now)' = BagOf(calltodo, now)
  BY SoftclockQuietStep
<1>2. CASE SoftclockReturn
  BY <1>1, <1>2 DEF SoftclockReturn, Abstract!Return, BagOf, CallsOf, Idx, Calls
<1>3. CASE SoftclockEnter \/ SoftclockExit
  BY <1>1, <1>3 DEF SoftclockEnter, SoftclockExit, Abstract!vars, BagOf, CallsOf, Idx, Calls
<1>4. QED BY <1>2, <1>3

\* To begin with nothing is promised.
LEMMA InitPromise == Init => Abstract!Init
<1> SUFFICES ASSUME Init PROVE Abstract!Init
  OBVIOUS
<1>1. DOMAIN calltodo = {} /\ now = 0 /\ calling = None
  BY DEF Init
<1>2. Calls = {}
  BY <1>1 DEF Calls
<1>3. QED BY <1>1, <1>2 DEF Abstract!Init, Abstract!EmptyBag, Abstract!SetToBag

\* Every step of Callout is a step of the promises or leaves them alone.
LEMMA NextPromise == CalloutInv /\ [Next]_vars => [Abstract!Next]_(Abstract!vars)
<1> SUFFICES ASSUME CalloutInv, [Next]_vars PROVE Abstract!Next \/ UNCHANGED Abstract!vars
  OBVIOUS
<1>1. CASE UNCHANGED vars
  BY <1>1 DEF vars, Abstract!vars, Calls, DueAt, Ahead
<1>2. CASE Hardclock
  BY <1>2, HardclockPromise DEF Abstract!Next
<1>3. CASE SoftclockEnter \/ SoftclockReturn \/ SoftclockExit
  BY <1>3, SoftclockQuietPromise DEF Abstract!Next
<1>4. CASE SoftclockCall
  BY <1>4, SoftclockCallPromise DEF Abstract!Next
<1>5. CASE \E f \in Funcs, t \in Delays : Timeout(f, t)
  BY <1>5, TimeoutPromise DEF Abstract!Next
<1>6. CASE \E f \in Funcs : Untimeout(f)
  BY <1>6, UntimeoutPromise DEF Abstract!Next
<1>7. QED BY <1>1, <1>2, <1>3, <1>4, <1>5, <1>6 DEF Next

-----------------------------------------------------------------------------
\* The inductive invariant holds: types, the order of the entries, and
\* softclock() is asked for while one is due.
THEOREM CalloutInvariance == Spec => []CalloutInv
BY InitCalloutInv, NextCalloutInv, PTL DEF Spec

(***************************************************************************)
(* The timeout queue implements CalloutSpec, whatever the functions, the   *)
(* delays and the size of the table.                                       *)
(***************************************************************************)
THEOREM CalloutImplementsSpec == Spec => KeepsPromises
BY InitPromise, NextPromise, CalloutInvariance, PTL DEF Spec, KeepsPromises, Abstract!Spec

-----------------------------------------------------------------------------
(***************************************************************************)
(* The correction of the time, and the three of MCClock together.          *)
(***************************************************************************)
\* The inductive invariant of the correction.
AdjInv ==
  /\ timedelta \in Int /\ tickdelta \in Int /\ asked \in Int /\ applied \in Int
  /\ ndelta \in Int \cup {None}
  /\ Adj!CorrectionConserved

\* No correction to begin with.
LEMMA InitAdjInv == Adj!Init => AdjInv
BY AdjtimeAssumption DEF Adj!Init, AdjInv, Adj!CorrectionConserved

\* Every step of adjtime() and hardclock() preserves it.
LEMMA NextAdjInv == AdjInv /\ [Adj!Next]_adjvars => AdjInv'
<1> SUFFICES ASSUME AdjInv, [Adj!Next]_adjvars PROVE AdjInv'
  OBVIOUS
<1>1. CASE UNCHANGED adjvars
  BY <1>1 DEF adjvars, AdjInv, Adj!CorrectionConserved
<1>2. ASSUME NEW d \in Deltas, Adj!AdjtimeRound(d) PROVE AdjInv'
  <2>1. d \in Int /\ Tickadj \in Nat \ {0}
    BY AdjtimeAssumption
  <2>2. Adj!Quo(d, Tickadj) * Tickadj \in Int
    <3>1. Adj!Quo(d, Tickadj) \in Int
      BY <2>1 DEF Adj!Quo
    <3>2. QED BY <2>1, <3>1
  <2>3. tickdelta' \in Int
    BY <1>2, <2>1 DEF AdjInv, Adj!AdjtimeRound
  <2>4. ndelta' \in Int
    BY <1>2, <2>1, <2>2 DEF Adj!AdjtimeRound
  <2>5. QED BY <1>2, <2>3, <2>4 DEF AdjInv, Adj!AdjtimeRound, Adj!CorrectionConserved
<1>3. CASE Adj!AdjtimeSet
  BY <1>3 DEF AdjInv, Adj!AdjtimeSet, Adj!CorrectionConserved
<1>4. CASE Adj!Hardclock
  BY <1>4 DEF AdjInv, Adj!Hardclock, Adj!CorrectionConserved
<1>5. QED BY <1>1, <1>2, <1>3, <1>4 DEF Adj!Next

\* A step of MCClock is one of each part, or leaves it alone.
LEMMA ClockSteps ==
  ClockNext \/ UNCHANGED <<duty, vars, adjvars, selvars>> => [Next]_vars /\ [Adj!Next]_adjvars
BY DEF ClockNext

(***************************************************************************)
(* While an entry is due softclock() runs or is asked for, and what was    *)
(* asked of adjtime() is what has been applied and what is left.           *)
(***************************************************************************)
THEOREM ClockKeepsTime == ClockSpec => []TimeKept
<1>1. ClockInit => CalloutInv /\ AdjInv
  BY InitCalloutInv, InitAdjInv DEF ClockInit
<1>2. /\ CalloutInv /\ AdjInv
      /\ [ClockNext]_<<duty, vars, adjvars, selvars>>
      => CalloutInv' /\ AdjInv'
  BY ClockSteps, NextCalloutInv, NextAdjInv
<1>3. CalloutInv /\ AdjInv => TimeKept
  BY DEF CalloutInv, AdjInv, TimeKept
<1>4. QED BY <1>1, <1>2, <1>3, PTL DEF ClockSpec

(***************************************************************************)
(* The run's specification keeps the promises of timeout() and untimeout().*)
(***************************************************************************)
THEOREM ClockKeepsPromises == ClockSpec => KeepsPromises
<1>1. ClockSpec => Init /\ [][Next]_vars
  <2>1. [ClockNext]_<<duty, vars, adjvars, selvars>> => [Next]_vars
    BY ClockSteps
  <2>2. ClockInit => Init
    BY DEF ClockInit
  <2>3. QED BY <2>1, <2>2, PTL DEF ClockSpec
<1>2. Init /\ [][Next]_vars => KeepsPromises
  BY InitCalloutInv, NextCalloutInv, InitPromise, NextPromise, PTL
  DEF KeepsPromises, Abstract!Spec
<1>3. QED BY <1>1, <1>2
==============================================================================
