------------------------------ MODULE RmapTable ------------------------------
(***************************************************************************)
(* Resource maps: sys/sys/subr_rmap.c as operators on the table of a map.  *)
(*                                                                         *)
(* A map is the sequence of its segments; the slots behind the last one    *)
(* hold zeros, the first of which ends the map.  rmfree() writes a new     *)
(* last segment before it looks whether there is room for the delimiter:   *)
(* mapsize slots less the header and the delimiter are for segments.       *)
(***************************************************************************)
EXTENDS Integers, SequencesExt

CONSTANTS
  MapSize,    \* mapsize of rminit()
  IsSwapmap,  \* whether this is swapmap
  Nswdev,     \* the number of swap devices
  Dmmax,      \* the interleaving of swapmap
  Clsize      \* CLSIZE, of which swapmap addresses are multiples

Units(e) == e[1] .. e[1] + e[2] - 1
MaxSegs == MapSize - 2
Seg(a, n) == [m_addr |-> a, m_size |-> n]
End(s) == s.m_addr + s.m_size
Free(m) == UNION {Units(<<m[i].m_addr, m[i].m_size>>) : i \in DOMAIN m}

\* What the code relies on.
RmapTableAssumption ==
  /\ MapSize \in Nat /\ MaxSegs > 1
  /\ IsSwapmap \in BOOLEAN /\ Nswdev \in Nat \ {0}
  /\ Dmmax \in Nat \ {0} /\ Clsize \in Nat \ {0}

\* The segment that starts after addr, or the delimiter.
After(m, addr) ==
  CHOOSE k \in 1 .. Len(m) + 1 :
    /\ k <= Len(m) => m[k].m_addr > addr
    /\ \A j \in 1 .. k - 1 : m[j].m_addr <= addr

\* A discard one segment too early.
MutantOverflow(m) ==
  IF Len(m) < MaxSegs THEN [map |-> m, lost |-> {}, bad |-> FALSE]
  ELSE [map |-> RemoveAt(m, Len(m) - 1), bad |-> FALSE,
        lost |-> Units(<<m[Len(m) - 1].m_addr, m[Len(m) - 1].m_size>>)]

\* The discard of rmfree(): the last segment but one makes room.
Overflow(m) ==
  IF Len(m) <= MaxSegs THEN [map |-> m, lost |-> {}, bad |-> FALSE]
  ELSE [map |-> RemoveAt(m, Len(m) - 1), bad |-> FALSE,
        lost |-> Units(<<m[Len(m) - 1].m_addr, m[Len(m) - 1].m_size>>)]

\* An rmfree() that combines with one side only.
MutantRmfreeMap(m, size, addr) ==
  LET k     == After(m, addr)
      left  == k > 1 /\ End(m[k - 1]) = addr
      grown == IF left THEN [m EXCEPT ![k - 1].m_size = @ + size]
               ELSE [m EXCEPT ![k].m_addr = addr, ![k].m_size = @ + size]
  IN  IF left \/ (k <= Len(m) /\ addr + size = m[k].m_addr)
      THEN [map |-> grown, lost |-> {}, bad |-> FALSE]
      ELSE Overflow(InsertAt(m, k, Seg(addr, size)))

\* rmfree(): combine with the segment on the left, with the one on the right,
\* with both, or make a new one.
RmfreeMap(m, size, addr) ==
  LET k     == After(m, addr)
      left  == k > 1 /\ End(m[k - 1]) >= addr
      right == k <= Len(m) /\ addr + size >= m[k].m_addr
      over  == \/ left /\ End(m[k - 1]) > addr
               \/ right /\ addr + size > m[k].m_addr
      grown == IF left /\ right
               THEN RemoveAt([m EXCEPT ![k - 1].m_size = @ + size + m[k].m_size], k)
               ELSE IF left THEN [m EXCEPT ![k - 1].m_size = @ + size]
               ELSE [m EXCEPT ![k].m_addr = @ - size, ![k].m_size = @ + size]
  IN  IF addr <= 0 \/ size <= 0 \/ over
      THEN [map |-> m, lost |-> {}, bad |-> TRUE]
      ELSE IF left \/ right THEN [map |-> grown, lost |-> {}, bad |-> FALSE]
      ELSE Overflow(InsertAt(m, k, Seg(addr, size)))

\* In swapmap, the units of a segment before the next multiple of dmmax.
First(s) == Dmmax - (s.m_addr % Dmmax)
Crosses(s) == IsSwapmap /\ Nswdev > 1 /\ First(s) < s.m_size

\* A segment that rmalloc() takes space from.
Fits(s, size) ==
  /\ s.m_size >= size
  /\ Crosses(s) => s.m_size - First(s) >= size

\* An rmalloc() that does not respect the interleaving.
MutantFromSegment(m, k, size) ==
  [map |-> IF m[k].m_size = size THEN RemoveAt(m, k)
           ELSE [m EXCEPT ![k].m_addr = @ + size, ![k].m_size = @ - size],
   lost |-> {}, bad |-> FALSE, addr |-> m[k].m_addr]

\* An rmalloc() that forgets what is left behind the piece it takes.
MutantFromSegmentRest(m, k, size) ==
  LET s == m[k]
  IN  IF Crosses(s)
      THEN [map |-> [m EXCEPT ![k].m_size = First(s)], lost |-> {},
            bad |-> FALSE, addr |-> s.m_addr + First(s)]
      ELSE [map |-> IF s.m_size = size THEN RemoveAt(m, k)
                    ELSE [m EXCEPT ![k].m_addr = @ + size, ![k].m_size = @ - size],
            lost |-> {}, addr |-> s.m_addr, bad |-> FALSE]

\* What is left of segment k behind a multiple of dmmax goes back to the map.
Taken(r, addr) == [map |-> r.map, lost |-> r.lost, bad |-> r.bad, addr |-> addr]

\* The piece rmalloc() takes from segment k, and what it leaves: from the
\* front of the segment, or in swapmap from a multiple of dmmax inside it.
FromSegment(m, k, size) ==
  LET s     == m[k]
      addr  == s.m_addr + First(s)
      rest  == s.m_size - First(s) - size
      front == [m EXCEPT ![k].m_size = First(s)]
  IN  IF Crosses(s)
      THEN Taken(IF rest = 0 THEN [map |-> front, lost |-> {}, bad |-> FALSE]
                 ELSE RmfreeMap(front, rest, addr + size), addr)
      ELSE [map |-> IF s.m_size = size THEN RemoveAt(m, k)
                    ELSE [m EXCEPT ![k].m_addr = @ + size, ![k].m_size = @ - size],
            lost |-> {}, addr |-> s.m_addr,
            bad |-> IsSwapmap /\ s.m_addr % Clsize # 0]

\* rmalloc(): first fit; addr 0 when no segment will do.
RmallocMap(m, size) ==
  IF \A k \in DOMAIN m : ~Fits(m[k], size)
  THEN [map |-> m, lost |-> {}, bad |-> FALSE, addr |-> 0]
  ELSE FromSegment(m, CHOOSE k \in DOMAIN m :
                        /\ Fits(m[k], size)
                        /\ \A j \in 1 .. k - 1 : ~Fits(m[j], size), size)

\* An rmget() that splits a segment although the table is full.
MutantRmgetMap(m, size, addr) ==
  LET holds(k) == m[k].m_addr <= addr /\ End(m[k]) > addr
      k        == CHOOSE j \in DOMAIN m : holds(j)
      s        == m[k]
      before   == IF s.m_addr = addr THEN <<>> ELSE <<Seg(s.m_addr, addr - s.m_addr)>>
      behind   == IF End(s) = addr + size THEN <<>>
                  ELSE <<Seg(addr + size, End(s) - (addr + size))>>
  IN  IF \/ IsSwapmap \/ \A j \in DOMAIN m : ~holds(j)
         \/ End(s) < addr + size
      THEN [map |-> m, addr |-> 0]
      ELSE [map |-> SubSeq(m, 1, k - 1) \o before \o behind
                      \o SubSeq(m, k + 1, Len(m)),
            addr |-> addr]

\* An rmget() that gives away one unit less than it says.
MutantRmgetMapShort(m, size, addr) ==
  LET holds(k) == m[k].m_addr <= addr /\ End(m[k]) > addr
      k        == CHOOSE j \in DOMAIN m : holds(j)
      s        == m[k]
  IN  IF IsSwapmap \/ (\A j \in DOMAIN m : ~holds(j)) \/ End(s) < addr + size
      THEN [map |-> m, addr |-> 0]
      ELSE IF s.m_addr = addr /\ s.m_size > size
      THEN [map |-> [m EXCEPT ![k].m_addr = @ + size - 1,
                              ![k].m_size = @ - (size - 1)], addr |-> addr]
      ELSE [map |-> m, addr |-> 0]

\* rmget(): the piece at addr, if a segment has all of it and the table has
\* room for what is left on both sides.
RmgetMap(m, size, addr) ==
  LET holds(k) == m[k].m_addr <= addr /\ End(m[k]) > addr
      k        == CHOOSE j \in DOMAIN m : holds(j)
      s        == m[k]
      before   == IF s.m_addr = addr THEN <<>> ELSE <<Seg(s.m_addr, addr - s.m_addr)>>
      behind   == IF End(s) = addr + size THEN <<>>
                  ELSE <<Seg(addr + size, End(s) - (addr + size))>>
  IN  IF \/ IsSwapmap \/ \A j \in DOMAIN m : ~holds(j)
         \/ End(s) < addr + size
         \/ before # <<>> /\ behind # <<>> /\ Len(m) >= MaxSegs
      THEN [map |-> m, addr |-> 0]
      ELSE [map |-> SubSeq(m, 1, k - 1) \o before \o behind
                      \o SubSeq(m, k + 1, Len(m)),
            addr |-> addr]
=============================================================================
