-------------------------- MODULE AllocatorProofs ---------------------------
(***************************************************************************)
(* Proofs for Allocator, for every granularity, number of lists, units cut  *)
(* at once and memory: its types are right, no two blocks that clients hold *)
(* share a byte, and every byte of every chunk has one owner, whatever      *)
(* malloc() refuses.                                                        *)
(***************************************************************************)
EXTENDS AllocatorInv, SequenceTheorems, FiniteSetTheorems, Numbers, TLAPS

-----------------------------------------------------------------------------
(* Multiples and divisions.                                                  *)

\* Multiples of a larger number are larger by a whole step.
LEMMA MulStep ==
  ASSUME NEW a \in Nat, NEW b \in Nat, NEW c \in Nat, a < b
  PROVE a * c + c <= b * c
<1>1. b * c = a * c + (b - a) * c
  OBVIOUS
<1>2. b - a \in Nat \ {0}
  OBVIOUS
<1>3. (b - a) * c >= c
  BY <1>2
<1> QED
  BY <1>1, <1>3

\* A product of naturals is one.
LEMMA MulNat ==
  ASSUME NEW a \in Nat, NEW b \in Nat
  PROVE a * b \in Nat
OBVIOUS

\* \div rounds down.
LEMMA DivBounds ==
  ASSUME NEW n \in Nat, NEW d \in Nat \ {0}
  PROVE /\ n \div d \in Nat
        /\ (n \div d) * d <= n /\ n < (n \div d) * d + d
OBVIOUS

\* round_up() adds less than a granule.
LEMMA RoundUpBounds ==
  ASSUME NEW n \in Nat
  PROVE round_up(n) \in Nat /\ n <= round_up(n) /\ round_up(n) < n + ALIGN
<1>1. ALIGN \in Nat \ {0} /\ n + ALIGN - 1 \in Nat
  BY ConstantsAssumption
<1> QED
  BY <1>1, DivBounds DEF round_up

\* round_up() leaves a whole number of granules alone.
LEMMA RoundUpMultiple ==
  ASSUME NEW q \in Nat
  PROVE round_up(q * ALIGN) = q * ALIGN
<1> DEFINE n == q * ALIGN
           d == (n + ALIGN - 1) \div ALIGN
<1>1. ALIGN \in Nat \ {0} /\ n \in Nat
  BY ConstantsAssumption, MulNat
<1>2. d \in Nat /\ d * ALIGN <= n + ALIGN - 1 /\ n + ALIGN - 1 < d * ALIGN + ALIGN
  BY <1>1, DivBounds
<1>3. d * ALIGN \in Nat
  BY <1>1, <1>2, MulNat
<1> HIDE DEF d
<1>4. ~ d < q
  <2> SUFFICES ASSUME d < q PROVE FALSE
    OBVIOUS
  <2>1. d * ALIGN + ALIGN <= n
    BY <1>1, <1>2, MulStep
  <2> HIDE DEF n
  <2> QED
    BY <2>1, <1>1, <1>2, <1>3
<1>5. ~ q < d
  <2> SUFFICES ASSUME q < d PROVE FALSE
    OBVIOUS
  <2>1. n + ALIGN <= d * ALIGN
    BY <1>1, <1>2, MulStep
  <2> HIDE DEF n
  <2> QED
    BY <2>1, <1>1, <1>2, <1>3
<1>6. d = q
  BY <1>2, <1>4, <1>5
<1> QED
  BY <1>6 DEF round_up, d

\* What round_up() returns is a whole number of granules.
LEMMA RoundUpIsMultiple ==
  ASSUME NEW n \in Nat
  PROVE \E q \in Nat : round_up(n) = q * ALIGN
<1>1. (n + ALIGN - 1) \div ALIGN \in Nat
  BY ConstantsAssumption, DivBounds
<1> QED
  BY <1>1 DEF round_up

\* Rounding up what is rounded up changes nothing.
LEMMA RoundUpTwice ==
  ASSUME NEW n \in Nat
  PROVE round_up(round_up(n)) = round_up(n)
BY RoundUpIsMultiple, RoundUpMultiple

\* A sum of whole numbers of granules is one.
LEMMA RoundUpSum ==
  ASSUME NEW m \in Nat, NEW n \in Nat, round_up(m) = m, round_up(n) = n
  PROVE round_up(m + n) = m + n
<1>1. PICK p \in Nat : m = p * ALIGN
  BY RoundUpIsMultiple
<1>2. PICK q \in Nat : n = q * ALIGN
  BY RoundUpIsMultiple
<1>3. m + n = (p + q) * ALIGN
  BY <1>1, <1>2, ConstantsAssumption
<1> QED
  BY <1>3, RoundUpMultiple

\* So is what is left when some are taken away.
LEMMA RoundUpDifference ==
  ASSUME NEW m \in Nat, NEW n \in Nat, round_up(m) = m, round_up(n) = n, n <= m
  PROVE round_up(m - n) = m - n
<1>1. PICK p \in Nat : m = p * ALIGN
  BY RoundUpIsMultiple
<1>2. PICK q \in Nat : n = q * ALIGN
  BY RoundUpIsMultiple
<1>3. ~ p < q
  <2> SUFFICES ASSUME p < q PROVE FALSE
    OBVIOUS
  <2>1. m + ALIGN <= n
    BY <1>1, <1>2, ConstantsAssumption, MulStep
  <2> QED
    BY <2>1, ConstantsAssumption
<1>4. p - q \in Nat /\ m - n = (p - q) * ALIGN
  BY <1>1, <1>2, <1>3, ConstantsAssumption
<1> QED
  BY <1>4, RoundUpMultiple

\* And a multiple of a whole number of granules.
LEMMA RoundUpProduct ==
  ASSUME NEW c \in Nat, NEW n \in Nat, round_up(n) = n
  PROVE round_up(c * n) = c * n
<1>1. PICK q \in Nat : n = q * ALIGN
  BY RoundUpIsMultiple
<1>2. c * q \in Nat /\ c * n = (c * q) * ALIGN
  BY <1>1, MulNat, ConstantsAssumption
<1> QED
  BY <1>2, RoundUpMultiple

-----------------------------------------------------------------------------
(* Sizes of units.                                                           *)

\* The units of a list are a whole number of granules, one at least, and at most MAX_BYTES.
LEMMA UnitSizes ==
  ASSUME NEW i \in Lists
  PROVE /\ UnitSize(i) \in Nat \ {0} /\ UnitSize(i) <= MAX_BYTES
        /\ round_up(UnitSize(i)) = UnitSize(i)
<1>1. ALIGN \in Nat \ {0} /\ NFREELISTS \in Nat \ {0} /\ i \in Nat /\ i < NFREELISTS
  BY ConstantsAssumption DEF Lists
<1>2. i * ALIGN \in Nat /\ i * ALIGN + ALIGN <= NFREELISTS * ALIGN
  BY <1>1, MulNat, MulStep
<1>3. UnitSize(i) = i * ALIGN + ALIGN
  BY <1>1 DEF UnitSize
<1> DEFINE q == i + 1
<1>4. q \in Nat /\ UnitSize(i) = q * ALIGN
  BY <1>1 DEF UnitSize
<1> HIDE DEF q
<1>5. round_up(UnitSize(i)) = UnitSize(i)
  BY <1>4, RoundUpMultiple
<1> QED
  BY <1>1, <1>2, <1>3, <1>5 DEF MAX_BYTES

\* A size that has a free list is rounded up to the size of its units.
LEMMA IndexOfSize ==
  ASSUME NEW n \in Nat \ {0}, n <= MAX_BYTES
  PROVE freelist_index(n) \in Lists /\ UnitSize(freelist_index(n)) = round_up(n)
<1> DEFINE d == (n + ALIGN - 1) \div ALIGN
<1>1. ALIGN \in Nat \ {0} /\ NFREELISTS \in Nat \ {0}
  BY ConstantsAssumption
<1>2. d \in Nat /\ d * ALIGN <= n + ALIGN - 1 /\ n + ALIGN - 1 < d * ALIGN + ALIGN
  BY <1>1, DivBounds
<1>3. d * ALIGN \in Nat /\ NFREELISTS * ALIGN \in Nat
  BY <1>1, <1>2, MulNat
<1>4. freelist_index(n) = d - 1 /\ round_up(n) = d * ALIGN
  BY DEF freelist_index, round_up
<1> HIDE DEF d
<1>5. d # 0
  BY <1>1, <1>2
<1>6. d <= NFREELISTS
  <2> SUFFICES ASSUME NFREELISTS < d PROVE FALSE
    BY <1>1, <1>2
  <2>1. NFREELISTS * ALIGN + ALIGN <= d * ALIGN
    BY <1>1, <1>2, MulStep
  <2> QED
    BY <2>1, <1>1, <1>2, <1>3 DEF MAX_BYTES
<1>7. d - 1 \in Lists /\ (d - 1) + 1 = d
  BY <1>1, <1>2, <1>5, <1>6 DEF Lists
<1> QED
  BY <1>4, <1>7 DEF UnitSize

\* The bytes a block keeps.
LEMMA RoomOfSize ==
  ASSUME NEW n \in Nat \ {0}
  PROVE /\ Room(n) \in Nat \ {0} /\ n <= Room(n)
        /\ n <= MAX_BYTES => Room(n) = round_up(n)
BY RoundUpBounds DEF Room

\* Sizes of units tell lists apart.
LEMMA UnitSizeOnce ==
  ASSUME NEW i \in Lists, NEW j \in Lists, UnitSize(i) = UnitSize(j)
  PROVE  i = j
<1>1. i \in Nat /\ j \in Nat /\ ALIGN \in Nat \ {0}
  BY ConstantsAssumption DEF Lists
<1>2. ASSUME NEW a \in Nat, NEW b \in Nat, a < b PROVE (a + 1) * ALIGN # (b + 1) * ALIGN
  <2> DEFINE x == (a + 1) * ALIGN
             y == (b + 1) * ALIGN
  <2>1. x + ALIGN <= y /\ x \in Nat /\ y \in Nat
    BY <1>1, <1>2, MulStep, MulNat
  <2> HIDE DEF x, y
  <2>2. x # y
    BY <1>1, <2>1
  <2> QED
    BY <2>2 DEF x, y
<1> QED
  BY <1>1, <1>2 DEF UnitSize

\* A size and its units have the same list.
LEMMA SameIndex ==
  ASSUME NEW n \in Nat \ {0}, n <= MAX_BYTES
  PROVE  freelist_index(round_up(n)) = freelist_index(n)
<1> DEFINE m == round_up(n)
           i == freelist_index(n)
           j == freelist_index(m)
<1>1. i \in Lists /\ UnitSize(i) = m
  BY IndexOfSize
<1>2. m \in Nat \ {0} /\ m <= MAX_BYTES /\ round_up(m) = m
  BY <1>1, UnitSizes
<1> HIDE DEF m
<1>3. j \in Lists /\ UnitSize(j) = m
  BY <1>2, IndexOfSize
<1> HIDE DEF i, j
<1>4. i = j
  BY <1>1, <1>3, UnitSizeOnce
<1> QED
  BY <1>4 DEF i, j, m

-----------------------------------------------------------------------------
(* Free lists.                                                               *)

FreeLists == [Lists -> Seq(1..MaxMemory)]

\* A unit on a list is an address.
LEMMA FreeTypes ==
  ASSUME NEW f \in FreeLists, NEW j \in Lists, NEW k \in DOMAIN f[j]
  PROVE k \in Nat \ {0} /\ f[j][k] \in 1..MaxMemory /\ f[j][k] \in Nat
<1>1. f[j] \in Seq(1..MaxMemory)
  BY DEF FreeLists
<1>2. DOMAIN f[j] = 1..Len(f[j]) /\ Len(f[j]) \in Nat
  BY <1>1, LenProperties
<1>3. f[j][k] \in 1..MaxMemory
  BY <1>1, <1>2, ElementOfSeq
<1> QED
  BY <1>2, <1>3

\* The unit u that is first in list i is taken off it: it is apart from all others,
\* which were there before.
LEMMA Popped ==
  ASSUME NEW f \in FreeLists, FreeApart(f), NEW i \in Lists, f[i] # <<>>
  PROVE LET u == f[i][1]
            g == [f EXCEPT ![i] = Tail(@)]
        IN /\ u \in 1..MaxMemory /\ 1 \in DOMAIN f[i]
           /\ g \in FreeLists /\ FreeApart(g)
           /\ \A j \in Lists : \A k \in DOMAIN g[j] :
                /\ \E l \in DOMAIN f[j] : g[j][k] = f[j][l]
                /\ Apart(u, UnitSize(i), g[j][k], UnitSize(j))
<1> DEFINE s == f[i]
           g == [f EXCEPT ![i] = Tail(@)]
           old(j, k) == IF j = i THEN k + 1 ELSE k
<1>1. s \in Seq(1..MaxMemory) /\ s # <<>>
  BY DEF FreeLists
<1>2. /\ Len(s) \in Nat \ {0} /\ DOMAIN s = 1..Len(s)
      /\ Tail(s) \in Seq(1..MaxMemory) /\ DOMAIN Tail(s) = 1..(Len(s) - 1)
      /\ \A k \in 1..(Len(s) - 1) : Tail(s)[k] = s[k + 1]
      /\ s[1] \in 1..MaxMemory
  <2> HIDE DEF s
  <2>1. /\ Len(s) \in Nat \ {0} /\ DOMAIN s = 1..Len(s)
        /\ \A k \in 1..Len(s) : s[k] \in 1..MaxMemory
    BY <1>1, EmptySeq, LenProperties, ElementOfSeq
  <2>2. Tail(s) \in Seq(1..MaxMemory) /\ Len(Tail(s)) = Len(s) - 1
    BY <1>1
  <2>3. \A k \in 1..(Len(s) - 1) : Tail(s)[k] = s[k + 1]
    BY <1>1
  <2>4. DOMAIN Tail(s) = 1..(Len(s) - 1)
    BY <2>2
  <2> QED
    BY <2>1, <2>2, <2>3, <2>4
<1>3. g \in FreeLists /\ g[i] = Tail(s) /\ \A j \in Lists \ {i} : g[j] = f[j]
  BY <1>2 DEF FreeLists
<1> HIDE DEF g
<1>4. ASSUME NEW j \in Lists, NEW k \in DOMAIN g[j]
      PROVE /\ old(j, k) \in DOMAIN f[j] /\ g[j][k] = f[j][old(j, k)]
            /\ j # i \/ old(j, k) # 1
            /\ k \in Nat
  <2>1. CASE j = i
    <3>1. k \in 1..(Len(s) - 1) /\ g[j][k] = s[k + 1]
      BY <2>1, <1>2, <1>3
    <3>2. k \in Nat /\ k + 1 \in DOMAIN s /\ k + 1 # 1
      BY <3>1, <1>2
    <3> QED
      BY <2>1, <3>1, <3>2
  <2>2. CASE j # i
    <3>1. f[j] \in Seq(1..MaxMemory) /\ g[j] = f[j]
      BY <2>2, <1>3 DEF FreeLists
    <3>2. k \in Nat
      BY <3>1
    <3> QED
      BY <2>2, <3>1, <3>2
  <2> QED
    BY <2>1, <2>2
<1>5. FreeApart(g)
  <2> SUFFICES ASSUME NEW j \in Lists, NEW m \in Lists, NEW k \in DOMAIN g[j], NEW l \in DOMAIN g[m],
                      j # m \/ k # l
               PROVE Apart(g[j][k], UnitSize(j), g[m][l], UnitSize(m))
    BY DEF FreeApart
  <2>1. j # m \/ old(j, k) # old(m, l)
    BY <1>4
  <2> QED
    BY <2>1, <1>4 DEF FreeApart
<1>6. ASSUME NEW j \in Lists, NEW k \in DOMAIN g[j]
      PROVE /\ \E l \in DOMAIN f[j] : g[j][k] = f[j][l]
            /\ Apart(s[1], UnitSize(i), g[j][k], UnitSize(j))
  <2>1. /\ old(j, k) \in DOMAIN f[j] /\ g[j][k] = f[j][old(j, k)]
        /\ i # j \/ 1 # old(j, k)
    BY <1>4
  <2>2. 1 \in DOMAIN f[i]
    BY <1>2
  <2> QED
    BY <2>1, <2>2 DEF FreeApart
<1> QED
  BY <1>2, <1>3, <1>5, <1>6 DEF g

\* A unit that is apart from all free units is put first in list i.
LEMMA Pushed ==
  ASSUME NEW f \in FreeLists, FreeApart(f), NEW i \in Lists, NEW u \in 1..MaxMemory,
         \A j \in Lists : \A k \in DOMAIN f[j] : Apart(f[j][k], UnitSize(j), u, UnitSize(i))
  PROVE LET g == [f EXCEPT ![i] = <<u>> \o @]
        IN /\ g \in FreeLists /\ FreeApart(g)
           /\ \A j \in Lists : \A k \in DOMAIN g[j] :
                (j = i /\ g[j][k] = u) \/ \E l \in DOMAIN f[j] : g[j][k] = f[j][l]
<1> DEFINE s == f[i]
           g == [f EXCEPT ![i] = <<u>> \o @]
           new(j, k) == j = i /\ k = 1
           old(j, k) == IF j = i THEN k - 1 ELSE k
<1>1. s \in Seq(1..MaxMemory)
  BY DEF FreeLists
<1>2. /\ Len(s) \in Nat /\ DOMAIN s = 1..Len(s)
      /\ <<u>> \o s \in Seq(1..MaxMemory) /\ DOMAIN (<<u>> \o s) = 1..(Len(s) + 1)
      /\ (<<u>> \o s)[1] = u
      /\ \A k \in 2..(Len(s) + 1) : (<<u>> \o s)[k] = s[k - 1]
  BY <1>1
<1>3. g \in FreeLists /\ g[i] = <<u>> \o s /\ \A j \in Lists \ {i} : g[j] = f[j]
  BY <1>2 DEF FreeLists
<1>4. ASSUME NEW j \in Lists, NEW k \in DOMAIN g[j]
      PROVE /\ k \in Nat
            /\ new(j, k) => g[j][k] = u
            /\ ~ new(j, k) => old(j, k) \in DOMAIN f[j] /\ g[j][k] = f[j][old(j, k)]
  <2>1. CASE j = i
    BY <2>1, <1>2, <1>3
  <2>2. CASE j # i
    <3>1. f[j] \in Seq(1..MaxMemory)
      BY DEF FreeLists
    <3> QED
      BY <2>2, <3>1, <1>3
  <2> QED
    BY <2>1, <2>2
<1>5. FreeApart(g)
  <2> SUFFICES ASSUME NEW j \in Lists, NEW m \in Lists, NEW k \in DOMAIN g[j], NEW l \in DOMAIN g[m],
                      j # m \/ k # l
               PROVE Apart(g[j][k], UnitSize(j), g[m][l], UnitSize(m))
    BY DEF FreeApart
  <2>1. CASE new(j, k)
    <3>1. ~ new(m, l)
      BY <2>1
    <3> QED
      BY <2>1, <3>1, <1>4 DEF Apart
  <2>2. CASE new(m, l)
    <3>1. ~ new(j, k)
      BY <2>2
    <3> QED
      BY <2>2, <3>1, <1>4
  <2>3. CASE ~ new(j, k) /\ ~ new(m, l)
    <3>1. j # m \/ old(j, k) # old(m, l)
      BY <1>4
    <3> QED
      BY <2>3, <3>1, <1>4 DEF FreeApart
  <2> QED
    BY <2>1, <2>2, <2>3
<1> QED
  BY <1>3, <1>4, <1>5
-----------------------------------------------------------------------------
(* The bytes of ranges.                                                      *)

\* Bytes of a range.
LEMMA BytesSize ==
  ASSUME NEW a \in Int, NEW n \in Nat
  PROVE  IsFiniteSet(Bytes(a, n)) /\ Cardinality(Bytes(a, n)) = n
<1>1. Bytes(a, n) = a..(a + n - 1) /\ a + n - 1 \in Int
  BY DEF Bytes
<1>2. CASE a > a + n - 1
  BY <1>1, <1>2, FS_Interval
<1>3. CASE ~ a > a + n - 1
  BY <1>1, <1>3, FS_Interval
<1> QED
  BY <1>2, <1>3

-----------------------------------------------------------------------------
(* Heaps in which nothing is used twice.                                     *)

\* h with no pool.
WithoutPool(h) == [h EXCEPT !.start_free = 0, !.end_free = 0]

\* h's free units, its pool, and the blocks bs do not overlap.
Sound(h, bs) == h \in Heaps /\ bs \subseteq Blocks /\ LiveApart(bs) /\ HeapInv(h, bs)

\* The m bytes at u came from malloc(), and neither a list, the pool nor a client has them.
Unused(h, bs, u, m) ==
  /\ u \in 1..MaxMemory /\ u + m <= h.fresh
  /\ Clear(h.free_list, bs, u, m) /\ Apart(u, m, h.start_free, Remaining(h))

\* h with the m bytes at u for its pool.
WithPool(h, u, m) == [h EXCEPT !.start_free = u, !.end_free = u + m]

\* The members' types.
LEMMA HeapTypes ==
  ASSUME NEW h \in Heaps
  PROVE /\ h.free_list \in FreeLists /\ h.pools \subseteq Nat \X Nat
        /\ h.start_free \in Nat /\ h.start_free <= MaxMemory
        /\ h.end_free \in Nat /\ h.end_free <= MaxMemory
        /\ h.heap_size \in Nat /\ h.heap_size <= MaxMemory
        /\ h.fresh \in Nat \ {0} /\ h.fresh <= MaxMemory
        /\ Remaining(h) = h.end_free - h.start_free /\ MaxMemory \in Nat
BY ConstantsAssumption DEF Heaps, FreeLists, Remaining

\* Part of a range that is apart from another one is apart from it.
LEMMA Inside ==
  ASSUME NEW p \in Nat, NEW r \in Nat, NEW a \in Nat, NEW m \in Nat, NEW b \in Nat, NEW n \in Nat,
         p <= a, a + m <= p + r, Apart(p, r, b, n)
  PROVE Apart(a, m, b, n)
BY DEF Apart

\* The address, the size and the room of a block are positive.
LEMMA BlockTypes ==
  ASSUME NEW b \in Blocks
  PROVE b.addr \in Nat /\ b.addr \in 1..MaxMemory /\ b.size \in Nat \ {0} /\ Room(b.size) \in Nat \ {0}
<1>1. b.addr \in 1..MaxMemory /\ b.size \in Nat \ {0}
  BY DEF Blocks
<1> QED
  BY <1>1, RoomOfSize, ConstantsAssumption

\* A part of what is clear is clear.
LEMMA ClearInside ==
  ASSUME NEW f \in FreeLists, NEW bs \in SUBSET Blocks,
         NEW p \in Nat, NEW r \in Nat, NEW a \in Nat, NEW m \in Nat,
         p <= a, a + m <= p + r, Clear(f, bs, p, r)
  PROVE Clear(f, bs, a, m)
<1>1. ASSUME NEW b \in bs PROVE Apart(a, m, b.addr, Room(b.size))
  <2>1. b.addr \in Nat /\ Room(b.size) \in Nat
    BY BlockTypes
  <2>2. Apart(p, r, b.addr, Room(b.size))
    BY DEF Clear
  <2> QED
    BY <2>1, <2>2, Inside
<1>2. ASSUME NEW i \in Lists, NEW k \in DOMAIN f[i] PROVE Apart(a, m, f[i][k], UnitSize(i))
  <2>1. f[i][k] \in Nat /\ UnitSize(i) \in Nat
    BY FreeTypes, UnitSizes
  <2>2. Apart(p, r, f[i][k], UnitSize(i))
    BY DEF Clear
  <2> QED
    BY <2>1, <2>2, Inside
<1> QED
  BY <1>1, <1>2 DEF Clear

\* What is sound for some blocks is sound for fewer.
LEMMA Fewer ==
  ASSUME NEW h, NEW bs, Sound(h, bs), NEW cs \in SUBSET bs
  PROVE Sound(h, cs)
BY DEF Sound, HeapInv, LiveApart, FreeApartFromLive, PoolApart, Clear, BelowFresh

\* The first unit of a list is taken off it.
LEMMA PopSound ==
  ASSUME NEW h, NEW bs, Sound(h, bs), NEW i \in Lists, h.free_list[i] # <<>>
  PROVE LET u == h.free_list[i][1]
            g == [h EXCEPT !.free_list[i] = Tail(@)]
        IN Sound(g, bs) /\ Unused(g, bs, u, UnitSize(i))
<1> DEFINE f == h.free_list
           u == f[i][1]
           e == [f EXCEPT ![i] = Tail(@)]
           g == [h EXCEPT !.free_list[i] = Tail(@)]
<1>1. f \in FreeLists /\ FreeApart(f) /\ f[i] # <<>> /\ h \in Heaps
  BY HeapTypes DEF Sound, HeapInv
<1>2. /\ u \in 1..MaxMemory /\ 1 \in DOMAIN f[i]
      /\ e \in FreeLists /\ FreeApart(e)
      /\ \A j \in Lists : \A k \in DOMAIN e[j] :
           /\ \E l \in DOMAIN f[j] : e[j][k] = f[j][l]
           /\ Apart(u, UnitSize(i), e[j][k], UnitSize(j))
  <2> HIDE DEF f
  <2> QED
    BY <1>1, Popped
<1>3. g = [h EXCEPT !.free_list = e]
  BY <1>1 DEF Heaps
<1> HIDE DEF e, g
<1>4. /\ g \in Heaps /\ g.free_list = e /\ g.start_free = h.start_free /\ g.end_free = h.end_free
      /\ g.fresh = h.fresh /\ g.heap_size = h.heap_size /\ Remaining(g) = Remaining(h)
  BY <1>1, <1>2, <1>3 DEF Heaps, FreeLists, Remaining
<1> HIDE DEF f
<1>5. FreeApartFromLive(e, bs)
  BY <1>2 DEF Sound, HeapInv, FreeApartFromLive, f
<1>6. PoolApart(g, bs) /\ PoolAligned(g)
  BY <1>2, <1>4 DEF Sound, HeapInv, PoolApart, PoolAligned, Clear, f
<1>7. BelowFresh(g, bs)
  BY <1>2, <1>4 DEF Sound, HeapInv, BelowFresh, f
<1>8. Sound(g, bs)
  BY <1>2, <1>4, <1>5, <1>6, <1>7 DEF Sound, HeapInv
<1>9. Clear(e, bs, u, UnitSize(i))
  BY <1>2 DEF Sound, HeapInv, FreeApartFromLive, Clear, f
<1>10. u + UnitSize(i) <= g.fresh /\ Apart(u, UnitSize(i), g.start_free, Remaining(g))
  BY <1>2, <1>4 DEF Sound, HeapInv, BelowFresh, PoolApart, Clear, Apart, f
<1> QED
  BY <1>2, <1>4, <1>8, <1>9, <1>10 DEF Unused, g, f

\* Unused bytes are put first in the list of units of their size.
LEMMA PushSound ==
  ASSUME NEW h, NEW bs, Sound(h, bs), NEW i \in Lists, NEW u, Unused(h, bs, u, UnitSize(i))
  PROVE Sound(Push(h, i, u), bs)
<1> DEFINE f == h.free_list
           e == [f EXCEPT ![i] = <<u>> \o @]
           g == Push(h, i, u)
<1>1. f \in FreeLists /\ FreeApart(f) /\ h \in Heaps /\ u \in 1..MaxMemory
  BY HeapTypes DEF Sound, HeapInv, Unused
<1>2. /\ e \in FreeLists /\ FreeApart(e)
      /\ \A j \in Lists : \A k \in DOMAIN e[j] :
           (j = i /\ e[j][k] = u) \/ \E l \in DOMAIN f[j] : e[j][k] = f[j][l]
  <2>1. \A j \in Lists : \A k \in DOMAIN f[j] : Apart(f[j][k], UnitSize(j), u, UnitSize(i))
    BY DEF Unused, Clear, Apart
  <2> HIDE DEF f
  <2> QED
    BY <1>1, <2>1, Pushed
<1>3. g = [h EXCEPT !.free_list = e]
  BY <1>1 DEF Heaps, Push
<1> HIDE DEF e, g
<1>4. /\ g \in Heaps /\ g.free_list = e /\ g.start_free = h.start_free /\ g.end_free = h.end_free
      /\ g.fresh = h.fresh /\ g.heap_size = h.heap_size /\ Remaining(g) = Remaining(h)
  BY <1>1, <1>2, <1>3 DEF Heaps, FreeLists, Remaining
<1> HIDE DEF f
<1>5. FreeApartFromLive(e, bs)
  BY <1>2 DEF Sound, HeapInv, FreeApartFromLive, Unused, Clear, f
<1>6. PoolApart(g, bs) /\ PoolAligned(g)
  BY <1>2, <1>4 DEF Sound, HeapInv, PoolApart, PoolAligned, Unused, Clear, Apart, f
<1>7. BelowFresh(g, bs)
  BY <1>2, <1>4 DEF Sound, HeapInv, BelowFresh, Unused, f
<1> QED
  BY <1>2, <1>4, <1>5, <1>6, <1>7 DEF Sound, HeapInv, g

\* Unused bytes become a client's block.
LEMMA Handed ==
  ASSUME NEW h, NEW bs, Sound(h, bs), NEW u, NEW size \in Nat \ {0}, Unused(h, bs, u, Room(size))
  PROVE Sound(h, bs \cup {Block(u, size)})
<1> DEFINE b == Block(u, size)
<1>1. b \in Blocks /\ b.addr = u /\ b.size = size
  BY DEF Unused, Block, Blocks
<1> HIDE DEF b
<1>2. LiveApart(bs \cup {b})
  BY <1>1 DEF Sound, LiveApart, Unused, Clear, Apart
<1>3. FreeApartFromLive(h.free_list, bs \cup {b})
  BY <1>1 DEF Sound, HeapInv, FreeApartFromLive, Unused, Clear, Apart
<1>4. PoolApart(h, bs \cup {b})
  BY <1>1 DEF Sound, HeapInv, PoolApart, Unused, Clear, Apart
<1>5. BelowFresh(h, bs \cup {b})
  BY <1>1 DEF Sound, HeapInv, BelowFresh, Unused
<1> QED
  BY <1>1, <1>2, <1>3, <1>4, <1>5 DEF Sound, HeapInv, b

\* A client's block becomes unused.
LEMMA Taken ==
  ASSUME NEW h, NEW bs, Sound(h, bs), NEW b \in bs
  PROVE Sound(h, bs \ {b}) /\ Unused(h, bs \ {b}, b.addr, Room(b.size))
<1>1. b.addr \in 1..MaxMemory
  BY BlockTypes DEF Sound
<1>2. b.addr + Room(b.size) <= h.fresh
  BY DEF Sound, HeapInv, BelowFresh
<1>3. Clear(h.free_list, bs \ {b}, b.addr, Room(b.size))
  BY DEF Sound, HeapInv, LiveApart, FreeApartFromLive, Clear, Apart
<1>4. Apart(b.addr, Room(b.size), h.start_free, Remaining(h))
  BY DEF Sound, HeapInv, PoolApart, Clear, Apart
<1> QED
  BY <1>1, <1>2, <1>3, <1>4, Fewer DEF Unused

\* The same free lists with another pool.
LEMMA Repooled ==
  ASSUME NEW h, NEW bs, Sound(h, bs), NEW g \in Heaps,
         g.free_list = h.free_list, h.fresh <= g.fresh, g.heap_size < g.fresh,
         g.start_free <= g.end_free, g.end_free <= g.fresh, g.start_free = 0 => g.end_free = 0,
         Clear(g.free_list, bs, g.start_free, Remaining(g)), PoolAligned(g)
  PROVE Sound(g, bs)
<1>1. h \in Heaps /\ bs \subseteq Blocks /\ LiveApart(bs)
  BY DEF Sound
<1>2. PoolApart(g, bs) /\ FreeApart(g.free_list) /\ FreeApartFromLive(g.free_list, bs)
  BY DEF Sound, HeapInv, PoolApart
<1>3. h.fresh \in Nat /\ g.fresh \in Nat /\ h.free_list \in FreeLists
  BY <1>1, HeapTypes
<1>4. ASSUME NEW b \in bs PROVE b.addr + Room(b.size) <= g.fresh
  <2>1. b.addr + Room(b.size) <= h.fresh /\ b.addr \in Nat /\ Room(b.size) \in Nat
    BY <1>1, BlockTypes DEF Sound, HeapInv, BelowFresh
  <2> QED
    BY <1>3, <2>1
<1>5. ASSUME NEW i \in Lists, NEW k \in DOMAIN g.free_list[i]
      PROVE g.free_list[i][k] + UnitSize(i) <= g.fresh
  <2>1. g.free_list[i][k] + UnitSize(i) <= h.fresh
    BY DEF Sound, HeapInv, BelowFresh
  <2>2. g.free_list[i][k] \in Nat /\ UnitSize(i) \in Nat
    BY <1>3, FreeTypes, UnitSizes
  <2> QED
    BY <1>3, <2>1, <2>2
<1> QED
  BY <1>1, <1>2, <1>4, <1>5 DEF Sound, HeapInv, BelowFresh

\* The pool is given up: its bytes are unused.
LEMMA PoolGone ==
  ASSUME NEW h, NEW bs, Sound(h, bs)
  PROVE /\ Sound(WithoutPool(h), bs)
        /\ Remaining(h) > 0 => Unused(WithoutPool(h), bs, h.start_free, Remaining(h))
<1> DEFINE g == WithoutPool(h)
<1>1. h \in Heaps /\ bs \in SUBSET Blocks
  BY DEF Sound
<1>2. /\ g \in Heaps /\ g.start_free = 0 /\ g.end_free = 0 /\ g.fresh = h.fresh
      /\ g.heap_size = h.heap_size /\ g.free_list = h.free_list /\ Remaining(g) = 0
  <2>1. 0 \in 0..MaxMemory
    BY ConstantsAssumption
  <2>2. /\ g \in Heaps /\ g.start_free = 0 /\ g.end_free = 0 /\ g.fresh = h.fresh
        /\ g.heap_size = h.heap_size /\ g.free_list = h.free_list
    BY <1>1, <2>1 DEF Heaps, WithoutPool
  <2> QED
    BY <2>2 DEF Remaining
<1> HIDE DEF g
<1>3. /\ h.fresh \in Nat /\ h.start_free \in Nat /\ h.end_free \in Nat /\ h.free_list \in FreeLists
      /\ Remaining(h) = h.end_free - h.start_free
      /\ h.end_free <= MaxMemory /\ MaxMemory \in Nat
  BY <1>1, HeapTypes
<1>4. PoolAligned(g)
  <2>1. round_up(0 * ALIGN) = 0 * ALIGN
    BY RoundUpMultiple
  <2> QED
    BY <1>2, <2>1, ConstantsAssumption DEF PoolAligned
<1>5. Clear(g.free_list, bs, 0, 0)
  <2>1. ASSUME NEW b \in bs PROVE Apart(0, 0, b.addr, Room(b.size))
    BY <1>1, BlockTypes DEF Apart
  <2>2. ASSUME NEW i \in Lists, NEW k \in DOMAIN g.free_list[i]
        PROVE Apart(0, 0, g.free_list[i][k], UnitSize(i))
    BY <1>2, <1>3, FreeTypes DEF Apart
  <2> QED
    BY <2>1, <2>2 DEF Clear
<1>6. h.heap_size < h.fresh /\ h.end_free <= h.fresh /\ h.start_free <= h.end_free
  BY DEF Sound, HeapInv, BelowFresh, PoolApart
<1>7. Sound(g, bs)
  <2>1. /\ h.fresh <= g.fresh /\ g.heap_size < g.fresh /\ g.start_free <= g.end_free
        /\ g.end_free <= g.fresh
    BY <1>2, <1>3, <1>6
  <2>2. Clear(g.free_list, bs, g.start_free, Remaining(g))
    BY <1>2, <1>5
  <2> QED
    BY <1>2, <1>4, <2>1, <2>2, Repooled
<1>8. ASSUME Remaining(h) > 0 PROVE Unused(g, bs, h.start_free, Remaining(h))
  <2>1. h.start_free # 0
    BY <1>3, <1>8 DEF Sound, HeapInv, PoolApart
  <2>2. h.start_free \in 1..MaxMemory /\ h.start_free + Remaining(h) <= g.fresh
    BY <2>1, <1>2, <1>3, <1>6
  <2>3. Clear(g.free_list, bs, h.start_free, Remaining(h))
    BY <1>2 DEF Sound, HeapInv, PoolApart
  <2>4. Apart(h.start_free, Remaining(h), 0, 0)
    BY <1>3 DEF Apart
  <2> QED
    BY <2>2, <2>3, <2>4, <1>2 DEF Unused
<1> QED
  BY <1>7, <1>8 DEF g

\* Unused bytes become the pool.
LEMMA PoolSet ==
  ASSUME NEW h, NEW bs, Sound(h, bs), h.start_free = 0, h.end_free = 0,
         NEW u, NEW m \in Nat \ {0}, Unused(h, bs, u, m), round_up(m) = m
  PROVE Sound(WithPool(h, u, m), bs) /\ Remaining(WithPool(h, u, m)) = m
<1> DEFINE g == WithPool(h, u, m)
<1>1. h \in Heaps /\ u \in 1..MaxMemory /\ u + m <= h.fresh
  BY DEF Sound, Unused
<1>2. h.fresh \in Nat /\ h.fresh <= MaxMemory /\ MaxMemory \in Nat /\ h.heap_size < h.fresh
  BY <1>1, HeapTypes DEF Sound, HeapInv, BelowFresh
<1>3. u \in 0..MaxMemory /\ u + m \in 0..MaxMemory /\ u \in Nat /\ u # 0
  BY <1>1, <1>2
<1>4. /\ g \in Heaps /\ g.start_free = u /\ g.end_free = u + m /\ g.fresh = h.fresh
      /\ g.heap_size = h.heap_size /\ g.free_list = h.free_list
  BY <1>1, <1>3 DEF Heaps, WithPool
<1> HIDE DEF g
<1>5. Remaining(g) = m
  BY <1>3, <1>4 DEF Remaining
<1>6. Clear(g.free_list, bs, g.start_free, Remaining(g)) /\ PoolAligned(g)
  BY <1>4, <1>5 DEF Unused, PoolAligned
<1>7. g.start_free <= g.end_free /\ h.fresh <= g.fresh
  BY <1>2, <1>3, <1>4
<1>8. Sound(g, bs) /\ Remaining(g) = m
  BY <1>1, <1>2, <1>3, <1>4, <1>5, <1>6, <1>7, Repooled
<1> QED
  BY <1>8 DEF g

\* malloc() gives n bytes that were never used.
LEMMA Grown ==
  ASSUME NEW h, NEW bs, Sound(h, bs), NEW n \in Nat \ {0}, h.fresh + n <= MaxMemory,
         NEW g \in Heaps, g.free_list = h.free_list, g.start_free = h.start_free,
         g.end_free = h.end_free, g.fresh = h.fresh + n, g.heap_size < g.fresh
  PROVE Sound(g, bs) /\ Unused(g, bs, h.fresh, n)
<1>1. h \in Heaps /\ bs \subseteq Blocks
  BY DEF Sound
<1>2. /\ h.fresh \in Nat \ {0} /\ h.fresh <= MaxMemory /\ MaxMemory \in Nat
      /\ h.start_free \in Nat /\ h.end_free \in Nat /\ h.free_list \in FreeLists
      /\ Remaining(h) = h.end_free - h.start_free /\ Remaining(g) = Remaining(h)
  BY <1>1, HeapTypes DEF Remaining
<1>3. /\ h.start_free <= h.end_free /\ h.end_free <= h.fresh
      /\ (h.start_free = 0 => h.end_free = 0)
      /\ Clear(h.free_list, bs, h.start_free, Remaining(h)) /\ PoolAligned(h)
  BY DEF Sound, HeapInv, PoolApart, BelowFresh
<1>4. Sound(g, bs)
  <2>1. h.fresh <= g.fresh /\ g.start_free <= g.end_free /\ g.end_free <= g.fresh
    BY <1>2, <1>3
  <2>2. PoolAligned(g) /\ Clear(g.free_list, bs, g.start_free, Remaining(g))
    BY <1>2, <1>3 DEF PoolAligned
  <2> QED
    BY <1>3, <2>1, <2>2, Repooled
<1>5. ASSUME NEW b \in bs PROVE Apart(h.fresh, n, b.addr, Room(b.size))
  BY DEF Sound, HeapInv, BelowFresh, Apart
<1>6. ASSUME NEW i \in Lists, NEW k \in DOMAIN g.free_list[i]
      PROVE Apart(h.fresh, n, g.free_list[i][k], UnitSize(i))
  BY DEF Sound, HeapInv, BelowFresh, Apart
<1>7. Apart(h.fresh, n, g.start_free, Remaining(g))
  BY <1>2, <1>3 DEF Apart
<1>8. h.fresh \in 1..MaxMemory /\ h.fresh + n <= g.fresh
  BY <1>2
<1> QED
  BY <1>4, <1>5, <1>6, <1>7, <1>8 DEF Unused, Clear

\* n units of m bytes are cut off the pool.
LEMMA CutSound ==
  ASSUME NEW h, NEW bs, Sound(h, bs), NEW m \in Nat \ {0}, round_up(m) = m,
         NEW n \in Nat \ {0}, n * m <= Remaining(h),
         NEW g, g = [h EXCEPT !.start_free = @ + n * m]
  PROVE /\ Sound(g, bs)
        /\ \A k \in 0..(n - 1) : Unused(g, bs, h.start_free + k * m, m)
<1> DEFINE p == h.start_free
           r == Remaining(h)
           w == n * m
<1>1. h \in Heaps /\ bs \in SUBSET Blocks
  BY DEF Sound
<1>2. /\ h.fresh \in Nat /\ h.fresh <= MaxMemory /\ MaxMemory \in Nat
      /\ p \in Nat /\ h.end_free \in Nat /\ h.end_free <= MaxMemory /\ h.free_list \in FreeLists
      /\ r = h.end_free - p
  BY <1>1, HeapTypes
<1>3. /\ p <= h.end_free /\ h.end_free <= h.fresh /\ h.heap_size < h.fresh
      /\ (p = 0 => h.end_free = 0)
      /\ Clear(h.free_list, bs, p, r) /\ round_up(r) = r
  BY DEF Sound, HeapInv, PoolApart, BelowFresh, PoolAligned
<1>4. w \in Nat /\ m <= w
  <2>1. 0 * m + m <= n * m
    BY MulStep
  <2> QED
    BY <2>1, MulNat
<1>5. round_up(w) = w /\ w <= r
  BY RoundUpProduct
<1>6. g = [h EXCEPT !.start_free = p + w]
  OBVIOUS
<1> HIDE DEF w, p, r
<1>7. /\ r \in Nat /\ r - w \in Nat /\ p # 0
      /\ p + w \in 0..MaxMemory /\ p + w \in Nat
  BY <1>2, <1>3, <1>4, <1>5
<1>8. /\ g \in Heaps /\ g.start_free = p + w /\ g.end_free = h.end_free /\ g.fresh = h.fresh
      /\ g.heap_size = h.heap_size /\ g.free_list = h.free_list
  BY <1>1, <1>6, <1>7 DEF Heaps
<1>9. Remaining(g) = r - w
  BY <1>2, <1>4, <1>8 DEF Remaining
<1>10. Sound(g, bs)
  <2>1. PoolAligned(g)
    BY <1>3, <1>4, <1>5, <1>7, <1>9, RoundUpDifference DEF PoolAligned
  <2>2. (p + w) + (r - w) <= p + r /\ p <= p + w
    BY <1>2, <1>4, <1>7
  <2>3. Clear(g.free_list, bs, p + w, r - w)
    BY <1>1, <1>2, <1>3, <1>7, <1>8, <2>2, ClearInside
  <2>4. /\ g.start_free <= g.end_free /\ g.end_free <= g.fresh /\ h.fresh <= g.fresh
        /\ g.start_free # 0
    BY <1>2, <1>3, <1>4, <1>5, <1>7, <1>8
  <2> QED
    BY <1>3, <1>8, <1>9, <2>1, <2>3, <2>4, Repooled
<1>11. ASSUME NEW k \in 0..(n - 1) PROVE Unused(g, bs, p + k * m, m)
  <2> DEFINE a == k * m
  <2>1. a \in Nat /\ a + m <= w
    BY MulNat, MulStep DEF w
  <2> HIDE DEF a
  <2>2. p + a \in Nat /\ p + a \in 1..MaxMemory /\ p <= p + a /\ (p + a) + m <= p + r
    BY <2>1, <1>2, <1>4, <1>5, <1>7
  <2>3. Clear(g.free_list, bs, p + a, m)
    BY <2>2, <1>1, <1>2, <1>3, <1>7, <1>8, ClearInside
  <2>4. (p + a) + m <= g.fresh
    BY <2>2, <1>2, <1>3, <1>8
  <2>5. Apart(p + a, m, g.start_free, Remaining(g))
    BY <2>1, <1>2, <1>4, <1>8 DEF Apart
  <2> QED
    BY <2>2, <2>3, <2>4, <2>5 DEF Unused, a
<1> QED
  BY <1>10, <1>11 DEF p

\* n unused units, one after the other, make a new list i.
LEMMA ListSound ==
  ASSUME NEW h, NEW bs, Sound(h, bs), NEW i \in Lists, NEW u \in Nat, NEW n \in Nat,
         \A k \in 1..n : Unused(h, bs, u + k * UnitSize(i), UnitSize(i)),
         NEW g, g = [h EXCEPT !.free_list[i] = [k \in 1..n |-> u + k * UnitSize(i)]]
  PROVE Sound(g, bs)
<1> DEFINE m == UnitSize(i)
           s == [k \in 1..n |-> u + k * m]
           f == h.free_list
           e == [f EXCEPT ![i] = s]
<1>1. f \in FreeLists /\ FreeApart(f) /\ h \in Heaps /\ m \in Nat
  BY HeapTypes, UnitSizes DEF Sound, HeapInv
<1>2. /\ DOMAIN s = 1..n
      /\ \A k \in 1..n : s[k] = u + k * m /\ Unused(h, bs, s[k], m) /\ s[k] \in 1..MaxMemory
  BY DEF Unused
<1>3. s \in Seq(1..MaxMemory)
  <2>1. s \in [1..n -> 1..MaxMemory]
    BY <1>2
  <2> QED
    BY <2>1, SeqDef
<1>4. ASSUME NEW k \in 1..n, NEW l \in 1..n, k # l PROVE Apart(s[k], m, s[l], m)
  <2> HIDE DEF m, s
  <2>1. k \in Nat /\ l \in Nat /\ (k < l \/ l < k)
    BY <1>4
  <2>2. k * m \in Nat /\ l * m \in Nat
    BY <1>1, MulNat
  <2>3. k * m + m <= l * m \/ l * m + m <= k * m
    BY <1>1, <2>1, MulStep
  <2>4. s[k] = u + k * m /\ s[l] = u + l * m
    BY <1>2
  <2> QED
    BY SMTT(30), <1>1, <2>2, <2>3, <2>4 DEF Apart
<1>5. g = [h EXCEPT !.free_list = e]
  BY <1>1 DEF Heaps
<1> HIDE DEF s
<1>6. e \in FreeLists /\ e[i] = s /\ \A j \in Lists \ {i} : e[j] = f[j]
  BY <1>1, <1>3 DEF FreeLists
<1> HIDE DEF e
<1>7. /\ g \in Heaps /\ g.free_list = e /\ g.start_free = h.start_free /\ g.end_free = h.end_free
      /\ g.fresh = h.fresh /\ g.heap_size = h.heap_size /\ Remaining(g) = Remaining(h)
  BY <1>1, <1>5, <1>6 DEF Heaps, FreeLists, Remaining
<1> HIDE DEF f, m
<1>8. FreeApart(e)
  <2> SUFFICES ASSUME NEW j \in Lists, NEW l \in Lists, NEW k \in DOMAIN e[j], NEW q \in DOMAIN e[l],
                      j # l \/ k # q
               PROVE Apart(e[j][k], UnitSize(j), e[l][q], UnitSize(l))
    BY DEF FreeApart
  <2>1. CASE j = i /\ l = i
    BY <2>1, <1>2, <1>4, <1>6 DEF m
  <2>2. CASE j = i /\ l # i
    BY <2>2, <1>2, <1>6 DEF Unused, Clear, m, f
  <2>3. CASE j # i /\ l = i
    BY <2>3, <1>2, <1>6 DEF Unused, Clear, Apart, m, f
  <2>4. CASE j # i /\ l # i
    BY <2>4, <1>1, <1>6 DEF FreeApart
  <2> QED
    BY <2>1, <2>2, <2>3, <2>4
<1>9. FreeApartFromLive(e, bs)
  BY <1>2, <1>6 DEF Sound, HeapInv, FreeApartFromLive, Unused, Clear, m, f
<1>10. PoolApart(g, bs) /\ PoolAligned(g)
  BY <1>2, <1>6, <1>7 DEF Sound, HeapInv, PoolApart, PoolAligned, Unused, Clear, Apart, m, f
<1>11. BelowFresh(g, bs)
  BY <1>2, <1>6, <1>7 DEF Sound, HeapInv, BelowFresh, Unused, m, f
<1> QED
  BY <1>7, <1>8, <1>9, <1>10, <1>11 DEF Sound, HeapInv

-----------------------------------------------------------------------------
(* The bytes that are owned.                                                 *)

\* The bytes of two sets of ranges.
LEMMA BytesOfUnion ==
  ASSUME NEW R, NEW S
  PROVE  BytesOf(R \cup S) = BytesOf(R) \cup BytesOf(S)
BY DEF BytesOf

\* The bytes of one range.
LEMMA BytesOfOne ==
  ASSUME NEW a, NEW m
  PROVE  BytesOf({<<a, m>>}) = Bytes(a, m)
BY DEF BytesOf

\* The bytes of a range more.
LEMMA BytesAdded ==
  ASSUME NEW R, NEW a, NEW m
  PROVE  BytesOf(R \cup {<<a, m>>}) = BytesOf(R) \cup Bytes(a, m)
<1>1. BytesOf(R \cup {<<a, m>>}) = BytesOf(R) \cup BytesOf({<<a, m>>})
  BY BytesOfUnion
<1>2. BytesOf({<<a, m>>}) = Bytes(a, m)
  BY BytesOfOne
<1> QED
  BY <1>1, <1>2, Zenon

\* What is owned, part by part.
LEMMA OwnedIs ==
  ASSUME NEW h, NEW bs
  PROVE  Owned(h, bs) = BytesOf(RangesOf(bs)) \cup BytesOf(RangesIn(h.free_list))
                          \cup Bytes(h.start_free, Remaining(h))
<1> DEFINE A == RangesOf(bs)
           B == RangesIn(h.free_list)
           C == {<<h.start_free, Remaining(h)>>}
<1>1. BytesOf(C) = Bytes(h.start_free, Remaining(h))
  BY BytesOfOne
<1>2. Owned(h, bs) = BytesOf((A \cup B) \cup C)
  BY DEF Owned, PoolRange
<1> HIDE DEF A, B, C
<1>3. BytesOf((A \cup B) \cup C) = BytesOf(A \cup B) \cup BytesOf(C)
  BY BytesOfUnion
<1>4. BytesOf(A \cup B) = BytesOf(A) \cup BytesOf(B)
  BY BytesOfUnion
<1> QED
  BY <1>1, <1>2, <1>3, <1>4 DEF A, B

\* Only list i changes.
LEMMA ListChanged ==
  ASSUME NEW f, NEW g, NEW i \in Lists, \A j \in Lists \ {i} : g[j] = f[j],
         NEW X, RangesOn(g, i) = RangesOn(f, i) \cup X
  PROVE  RangesIn(g) = RangesIn(f) \cup X
<1>1. \A j \in Lists \ {i} : RangesOn(g, j) = RangesOn(f, j)
  BY DEF RangesOn
<1> QED
  BY <1>1 DEF RangesIn

\* A unit is put first in list i.
LEMMA PushedRanges ==
  ASSUME NEW f \in FreeLists, NEW i \in Lists, NEW u \in 1..MaxMemory
  PROVE  RangesIn([f EXCEPT ![i] = <<u>> \o @]) = RangesIn(f) \cup {<<u, UnitSize(i)>>}
<1> DEFINE s == f[i]
           t == <<u>> \o s
           g == [f EXCEPT ![i] = t]
<1>1. s \in Seq(1..MaxMemory)
  BY DEF FreeLists
<1> HIDE DEF s
<1>2. /\ Len(s) \in Nat /\ DOMAIN s = 1..Len(s) /\ DOMAIN t = 1..(Len(s) + 1) /\ t[1] = u
      /\ \A k \in 1..Len(s) : t[k + 1] = s[k]
  BY <1>1
<1>3. /\ \A k \in DOMAIN t : t[k] = u \/ \E l \in DOMAIN s : t[k] = s[l]
      /\ \A l \in DOMAIN s : \E k \in DOMAIN t : t[k] = s[l]
      /\ \E k \in DOMAIN t : t[k] = u
  <2>1. ASSUME NEW k \in DOMAIN t PROVE t[k] = u \/ \E l \in DOMAIN s : t[k] = s[l]
    <3>1. k = 1 \/ (k - 1 \in 1..Len(s) /\ (k - 1) + 1 = k)
      BY <1>2
    <3> QED
      BY <3>1, <1>2
  <2>2. ASSUME NEW l \in DOMAIN s PROVE \E k \in DOMAIN t : t[k] = s[l]
    <3>1. l + 1 \in DOMAIN t /\ t[l + 1] = s[l]
      BY <1>2
    <3> QED
      BY <3>1
  <2>3. 1 \in DOMAIN t
    BY <1>2
  <2> QED
    BY <2>1, <2>2, <2>3, <1>2
<1>4. g[i] = t /\ \A j \in Lists \ {i} : g[j] = f[j]
  BY DEF FreeLists
<1> HIDE DEF t, g
<1>5. RangesOn(g, i) = RangesOn(f, i) \cup {<<u, UnitSize(i)>>}
  BY <1>3, <1>4 DEF RangesOn, s
<1>6. RangesIn(g) = RangesIn(f) \cup {<<u, UnitSize(i)>>}
  BY <1>4, <1>5, ListChanged
<1> QED
  BY <1>6 DEF g, t, s

\* The first unit is taken off list i.
LEMMA PoppedRanges ==
  ASSUME NEW f \in FreeLists, NEW i \in Lists, f[i] # <<>>
  PROVE  RangesIn(f) = RangesIn([f EXCEPT ![i] = Tail(@)]) \cup {<<f[i][1], UnitSize(i)>>}
<1> DEFINE s == f[i]
           t == Tail(s)
           g == [f EXCEPT ![i] = t]
           u == s[1]
<1>1. s \in Seq(1..MaxMemory) /\ s # <<>>
  BY DEF FreeLists
<1> HIDE DEF s
<1>2. /\ Len(s) \in Nat \ {0} /\ DOMAIN s = 1..Len(s) /\ DOMAIN t = 1..(Len(s) - 1)
      /\ \A k \in 1..(Len(s) - 1) : t[k] = s[k + 1]
  <2>1. Len(s) \in Nat \ {0} /\ DOMAIN s = 1..Len(s)
    BY <1>1, EmptySeq, LenProperties
  <2>2. t \in Seq(1..MaxMemory) /\ Len(t) = Len(s) - 1
    BY <1>1
  <2>3. \A k \in 1..(Len(s) - 1) : t[k] = s[k + 1]
    BY <1>1
  <2> QED
    BY <2>1, <2>2, <2>3
<1>3. /\ \A k \in DOMAIN s : s[k] = u \/ \E l \in DOMAIN t : s[k] = t[l]
      /\ \A l \in DOMAIN t : \E k \in DOMAIN s : s[k] = t[l]
      /\ \E k \in DOMAIN s : s[k] = u
  <2>1. ASSUME NEW k \in DOMAIN s PROVE s[k] = u \/ \E l \in DOMAIN t : s[k] = t[l]
    <3>1. k = 1 \/ (k - 1 \in DOMAIN t /\ (k - 1) + 1 = k)
      BY <1>2
    <3> QED
      BY <3>1, <1>2
  <2>2. ASSUME NEW l \in DOMAIN t PROVE \E k \in DOMAIN s : s[k] = t[l]
    <3>1. l + 1 \in DOMAIN s /\ t[l] = s[l + 1]
      BY <1>2
    <3> QED
      BY <3>1
  <2>3. 1 \in DOMAIN s
    BY <1>2
  <2> QED
    BY <2>1, <2>2, <2>3
<1>4. g[i] = t /\ \A j \in Lists \ {i} : f[j] = g[j]
  BY DEF FreeLists
<1> HIDE DEF t, g, u
<1>5. RangesOn(f, i) = RangesOn(g, i) \cup {<<u, UnitSize(i)>>}
  BY <1>3, <1>4 DEF RangesOn, s
<1>6. RangesIn(f) = RangesIn(g) \cup {<<u, UnitSize(i)>>}
  BY <1>4, <1>5, ListChanged
<1> QED
  BY <1>6 DEF g, t, s, u

\* The empty list i is replaced by t.
LEMMA ListedRanges ==
  ASSUME NEW f \in FreeLists, NEW i \in Lists, f[i] = <<>>, NEW t
  PROVE  RangesIn([f EXCEPT ![i] = t]) = RangesIn(f) \cup {<<t[k], UnitSize(i)>> : k \in DOMAIN t}
<1> DEFINE g == [f EXCEPT ![i] = t]
           X == {<<t[k], UnitSize(i)>> : k \in DOMAIN t}
<1>1. g[i] = t /\ \A j \in Lists \ {i} : g[j] = f[j]
  BY DEF FreeLists
<1>2. RangesOn(f, i) = {}
  BY EmptySeq DEF RangesOn
<1> HIDE DEF g
<1>3. RangesOn(g, i) = X
  BY <1>1 DEF RangesOn
<1> HIDE DEF X
<1>4. RangesOn(g, i) = RangesOn(f, i) \cup X
  BY <1>2, <1>3
<1>5. RangesIn(g) = RangesIn(f) \cup X
  BY <1>1, <1>4, ListChanged
<1> QED
  BY <1>5 DEF g, X

\* A free unit more.
LEMMA PushedMembers ==
  ASSUME NEW h \in Heaps, NEW i \in Lists, NEW u \in 1..MaxMemory
  PROVE  LET g == Push(h, i, u)
         IN /\ g.start_free = h.start_free /\ g.end_free = h.end_free /\ g.fresh = h.fresh
            /\ g.heap_size = h.heap_size /\ g.pools = h.pools
            /\ g.free_list = [h.free_list EXCEPT ![i] = <<u>> \o @]
            /\ RangesIn(g.free_list) = RangesIn(h.free_list) \cup {<<u, UnitSize(i)>>}
<1> DEFINE g == Push(h, i, u)
           f == h.free_list
<1>1. /\ g.start_free = h.start_free /\ g.end_free = h.end_free /\ g.fresh = h.fresh
      /\ g.heap_size = h.heap_size /\ g.pools = h.pools
      /\ g.free_list = [f EXCEPT ![i] = <<u>> \o @]
  BY DEF Push, Heaps
<1>2. f \in FreeLists
  BY HeapTypes
<1> HIDE DEF g
<1>3. RangesIn(g.free_list) = RangesIn(f) \cup {<<u, UnitSize(i)>>}
  BY <1>1, <1>2, PushedRanges
<1> QED
  BY <1>1, <1>3 DEF g

\* Its bytes are owned.
LEMMA OwnedPushed ==
  ASSUME NEW h \in Heaps, NEW bs, NEW i \in Lists, NEW u \in 1..MaxMemory
  PROVE  Owned(Push(h, i, u), bs) = Owned(h, bs) \cup Bytes(u, UnitSize(i))
<1> DEFINE g == Push(h, i, u)
           f == h.free_list
<1>1. /\ g.start_free = h.start_free /\ g.end_free = h.end_free
      /\ RangesIn(g.free_list) = RangesIn(f) \cup {<<u, UnitSize(i)>>}
  BY PushedMembers
<1> HIDE DEF g
<1>2. Remaining(g) = Remaining(h)
  BY <1>1 DEF Remaining
<1>3. BytesOf(RangesIn(g.free_list)) = BytesOf(RangesIn(f)) \cup Bytes(u, UnitSize(i))
  BY <1>1, BytesAdded
<1>4. Owned(g, bs) = Owned(h, bs) \cup Bytes(u, UnitSize(i))
  BY <1>1, <1>2, <1>3, OwnedIs
<1> QED
  BY <1>4 DEF g

\* A free unit less.
LEMMA OwnedPopped ==
  ASSUME NEW h \in Heaps, NEW bs, NEW i \in Lists, h.free_list[i] # <<>>
  PROVE  LET g == [h EXCEPT !.free_list[i] = Tail(@)]
         IN /\ g.heap_size = h.heap_size /\ g.pools = h.pools
            /\ Owned(h, bs) = Owned(g, bs) \cup Bytes(h.free_list[i][1], UnitSize(i))
<1> DEFINE g == [h EXCEPT !.free_list[i] = Tail(@)]
           f == h.free_list
           u == f[i][1]
<1>1. /\ g.start_free = h.start_free /\ g.end_free = h.end_free
      /\ g.heap_size = h.heap_size /\ g.pools = h.pools
      /\ g.free_list = [f EXCEPT ![i] = Tail(@)]
  BY DEF Heaps
<1>2. Remaining(g) = Remaining(h)
  BY <1>1 DEF Remaining
<1>3. f \in FreeLists
  BY HeapTypes
<1>4. RangesIn(f) = RangesIn([f EXCEPT ![i] = Tail(@)]) \cup {<<u, UnitSize(i)>>}
  BY <1>3, PoppedRanges
<1> HIDE DEF g, u
<1>7. RangesIn(f) = RangesIn(g.free_list) \cup {<<u, UnitSize(i)>>}
  BY <1>1, <1>4
<1> HIDE DEF f
<1>5. BytesOf(RangesIn(f)) = BytesOf(RangesIn(g.free_list)) \cup Bytes(u, UnitSize(i))
  BY <1>7, BytesAdded
<1>6. Owned(h, bs) = Owned(g, bs) \cup Bytes(u, UnitSize(i))
  BY <1>1, <1>2, <1>5, OwnedIs DEF f
<1> QED
  BY <1>1, <1>6 DEF g, u, f

\* The bytes of n units of m bytes, one after the other, the first m bytes after u.
Row(u, n, m) == UNION {Bytes(u + k * m, m) : k \in 1..n}

\* h with those units for its list i.
Listed(h, i, u, n) == [h EXCEPT !.free_list[i] = [k \in 1..n |-> u + k * UnitSize(i)]]

\* A new list of units.
LEMMA OwnedListed ==
  ASSUME NEW h \in Heaps, NEW bs, NEW i \in Lists, h.free_list[i] = <<>>,
         NEW u \in Nat, NEW n \in Nat
  PROVE  Owned(Listed(h, i, u, n), bs) = Owned(h, bs) \cup Row(u, n, UnitSize(i))
<1> DEFINE m == UnitSize(i)
           g == Listed(h, i, u, n)
           f == h.free_list
           t == [k \in 1..n |-> u + k * m]
           e == [f EXCEPT ![i] = t]
           X == {<<t[k], UnitSize(i)>> : k \in DOMAIN t}
<1>1. /\ g.start_free = h.start_free /\ g.end_free = h.end_free
      /\ g.heap_size = h.heap_size /\ g.pools = h.pools /\ g.free_list = e
  BY DEF Heaps, Listed
<1> HIDE DEF g
<1>2. Remaining(g) = Remaining(h)
  BY <1>1 DEF Remaining
<1>3. f \in FreeLists /\ f[i] = <<>>
  BY HeapTypes
<1>4. DOMAIN t = 1..n /\ \A k \in 1..n : t[k] = u + k * m
  OBVIOUS
<1> HIDE DEF t
<1>5. ASSUME NEW x PROVE x \in BytesOf(X) <=> \E k \in 1..n : x \in Bytes(u + k * m, m)
  <2>1. x \in BytesOf(X) <=> \E r \in X : x \in Bytes(r[1], r[2])
    BY DEF BytesOf
  <2>2. \A r : r \in X <=> \E k \in 1..n : r = <<u + k * m, m>>
    BY <1>4
  <2> HIDE DEF X
  <2>3. ASSUME NEW k \in 1..n, x \in Bytes(u + k * m, m) PROVE x \in BytesOf(X)
    <3>1. <<u + k * m, m>> \in X
      BY <2>2
    <3> QED
      BY <2>1, <2>3, <3>1
  <2>4. ASSUME x \in BytesOf(X) PROVE \E k \in 1..n : x \in Bytes(u + k * m, m)
    <3>1. PICK r \in X : x \in Bytes(r[1], r[2])
      BY <2>1, <2>4
    <3>2. PICK k \in 1..n : r = <<u + k * m, m>>
      BY <2>2
    <3> QED
      BY <3>1, <3>2
  <2> QED
    BY <2>3, <2>4
<1> HIDE DEF f
<1>6. RangesIn(e) = RangesIn(f) \cup X
  BY <1>3, ListedRanges
<1> HIDE DEF X, e
<1>7. BytesOf(RangesIn(e)) = BytesOf(RangesIn(f)) \cup BytesOf(X)
  BY <1>6, BytesOfUnion
<1>8. Owned(g, bs) = Owned(h, bs) \cup BytesOf(X)
  BY <1>1, <1>2, <1>7, OwnedIs DEF f
<1>9. BytesOf(X) = Row(u, n, m)
  BY <1>5 DEF Row
<1> QED
  BY <1>8, <1>9 DEF g

\* The bytes of a block that has a free list.
UnitBytes(b) == IF b.size <= MAX_BYTES THEN Bytes(b.addr, Room(b.size)) ELSE {}

\* A block more.
LEMMA OwnedHanded ==
  ASSUME NEW h, NEW bs, NEW b
  PROVE  Owned(h, bs \cup {b}) = Owned(h, bs) \cup UnitBytes(b)
<1>1. BytesOf(RangesOf(bs \cup {b})) = BytesOf(RangesOf(bs)) \cup UnitBytes(b)
  <2>1. CASE b.size <= MAX_BYTES
    <3>1. RangesOf(bs \cup {b}) = RangesOf(bs) \cup {<<b.addr, Room(b.size)>>}
      BY <2>1 DEF RangesOf
    <3>2. BytesOf(RangesOf(bs \cup {b})) = BytesOf(RangesOf(bs)) \cup Bytes(b.addr, Room(b.size))
      BY <3>1, BytesAdded
    <3> QED
      BY <2>1, <3>2 DEF UnitBytes
  <2>2. CASE ~ b.size <= MAX_BYTES
    <3>1. RangesOf(bs \cup {b}) = RangesOf(bs)
      BY <2>2 DEF RangesOf
    <3> QED
      BY <2>2, <3>1 DEF UnitBytes
  <2> QED
    BY <2>1, <2>2
<1> QED
  BY <1>1, OwnedIs

\* A block less.
LEMMA OwnedTaken ==
  ASSUME NEW h, NEW bs, NEW b \in bs
  PROVE  Owned(h, bs) = Owned(h, bs \ {b}) \cup UnitBytes(b)
<1>1. (bs \ {b}) \cup {b} = bs
  OBVIOUS
<1>2. Owned(h, (bs \ {b}) \cup {b}) = Owned(h, bs \ {b}) \cup UnitBytes(b)
  BY OwnedHanded
<1> QED
  BY <1>1, <1>2

\* The pool's bytes.
LEMMA OwnedPool ==
  ASSUME NEW h \in Heaps, NEW bs
  PROVE  LET g == WithoutPool(h)
         IN /\ g \in Heaps /\ g.heap_size = h.heap_size /\ g.pools = h.pools
            /\ g.free_list = h.free_list /\ g.fresh = h.fresh
            /\ Owned(h, bs) = Owned(g, bs) \cup Bytes(h.start_free, Remaining(h))
<1> DEFINE g == WithoutPool(h)
<1>1. /\ g.start_free = 0 /\ g.end_free = 0 /\ g.free_list = h.free_list
      /\ g.heap_size = h.heap_size /\ g.pools = h.pools /\ g \in Heaps /\ g.fresh = h.fresh
  <2>1. 0 \in 0..MaxMemory
    BY ConstantsAssumption
  <2> QED
    BY <2>1 DEF WithoutPool, Heaps
<1>2. Bytes(g.start_free, Remaining(g)) = {}
  BY <1>1 DEF Bytes, Remaining
<1> HIDE DEF g
<1>3. Owned(h, bs) = Owned(g, bs) \cup Bytes(h.start_free, Remaining(h))
  BY <1>1, <1>2, OwnedIs
<1> QED
  BY <1>1, <1>3 DEF g

\* Whatever is owned came from malloc().
LEMMA OwnedBelow ==
  ASSUME NEW h, NEW bs, Sound(h, bs)
  PROVE  /\ Owned(h, bs) \in SUBSET (0..(h.fresh - 1))
         /\ IsFiniteSet(Owned(h, bs))
<1>1. h \in Heaps /\ bs \in SUBSET Blocks
  BY DEF Sound
<1>2. /\ h.free_list \in FreeLists /\ h.fresh \in Nat \ {0}
      /\ h.start_free \in Nat /\ h.end_free \in Nat /\ h.end_free <= h.fresh
      /\ Remaining(h) = h.end_free - h.start_free
  BY <1>1, HeapTypes DEF Sound, HeapInv, BelowFresh
<1>3. ASSUME NEW a \in Nat, NEW m \in Int, a + m <= h.fresh PROVE Bytes(a, m) \in SUBSET (0..(h.fresh - 1))
  BY <1>2, <1>3 DEF Bytes
<1>4. BytesOf(RangesOf(bs)) \in SUBSET (0..(h.fresh - 1))
  <2>1. ASSUME NEW b \in bs PROVE Bytes(b.addr, Room(b.size)) \in SUBSET (0..(h.fresh - 1))
    <3>1. b.addr \in Nat /\ Room(b.size) \in Int /\ b.addr + Room(b.size) <= h.fresh
      BY <1>1, BlockTypes DEF Sound, HeapInv, BelowFresh
    <3> QED
      BY <3>1, <1>3
  <2> QED
    BY <2>1 DEF BytesOf, RangesOf
<1>5. BytesOf(RangesIn(h.free_list)) \in SUBSET (0..(h.fresh - 1))
  <2>1. ASSUME NEW i \in Lists, NEW k \in DOMAIN h.free_list[i]
        PROVE  Bytes(h.free_list[i][k], UnitSize(i)) \in SUBSET (0..(h.fresh - 1))
    <3>1. /\ h.free_list[i][k] \in Nat /\ UnitSize(i) \in Int
          /\ h.free_list[i][k] + UnitSize(i) <= h.fresh
      BY <1>2, FreeTypes, UnitSizes DEF Sound, HeapInv, BelowFresh
    <3> QED
      BY <3>1, <1>3
  <2> QED
    BY <2>1 DEF BytesOf, RangesIn, RangesOn
<1>6. Bytes(h.start_free, Remaining(h)) \in SUBSET (0..(h.fresh - 1))
  BY <1>2, <1>3
<1>7. Owned(h, bs) \in SUBSET (0..(h.fresh - 1))
  BY <1>4, <1>5, <1>6, OwnedIs
<1>8. IsFiniteSet(0..(h.fresh - 1))
  BY <1>2, FS_Interval
<1> QED
  BY <1>7, <1>8, FS_Subset

\* n units of m bytes, cut off r bytes at p.
LEMMA CutBytes ==
  ASSUME NEW p \in Nat, NEW r \in Nat, NEW m \in Nat \ {0}, NEW n \in Nat \ {0}, n * m <= r
  PROVE  Bytes(p, r) = Bytes(p, m) \cup Row(p, n - 1, m) \cup Bytes(p + n * m, r - n * m)
<1> DEFINE w == n * m
           U == UNION {Bytes(p + k * m, m) : k \in 1..(n - 1)}
<1>1. w \in Nat /\ w <= r /\ m <= w
  <2>1. 0 * m + m <= n * m
    BY MulStep
  <2> QED
    BY <2>1, MulNat
<1>2. ASSUME NEW k \in 1..(n - 1) PROVE Bytes(p + k * m, m) \subseteq Bytes(p, r)
  <2> DEFINE a == k * m
  <2>1. a \in Nat /\ a + m <= w
    BY MulNat, MulStep
  <2> HIDE DEF a, w
  <2> QED
    BY <2>1, <1>1 DEF Bytes, a
<1>3. ASSUME NEW x \in Bytes(p, r), x < p + w PROVE x \in Bytes(p, m) \cup U
  <2> DEFINE d == x - p
             k == d \div m
  <2>1. d \in Nat /\ d < w /\ x = p + d
    BY <1>1, <1>3 DEF Bytes
  <2> HIDE DEF d
  <2>2. k \in Nat /\ k * m <= d /\ d < k * m + m
    BY <2>1, DivBounds
  <2> HIDE DEF k
  <2>3. k * m \in Nat
    BY <2>2, MulNat
  <2>4. ~ n <= k
    <3> SUFFICES ASSUME n <= k PROVE FALSE
      OBVIOUS
    <3>1. n = k \/ w + m <= k * m
      BY <2>2, MulStep
    <3> HIDE DEF w
    <3>2. w <= k * m
      <4>1. CASE n = k
        BY <4>1, <2>3 DEF w
      <4>2. CASE w + m <= k * m
        BY <4>2, <1>1, <2>3
      <4> QED
        BY <3>1, <4>1, <4>2
    <3> QED
      BY <3>2, <1>1, <2>1, <2>2, <2>3
  <2>5. CASE k = 0
    <3>1. k * m = 0
      BY <2>5
    <3> QED
      BY <3>1, <2>1, <2>2 DEF Bytes
  <2>6. CASE k # 0
    <3>1. k \in 1..(n - 1)
      BY <2>2, <2>4, <2>6
    <3>2. x \in Bytes(p + k * m, m)
      <4> DEFINE a == k * m
      <4>1. a \in Nat /\ a <= d /\ d < a + m
        BY <2>2, <2>3
      <4> HIDE DEF a
      <4>2. x \in Bytes(p + a, m)
        BY <4>1, <2>1 DEF Bytes
      <4> QED
        BY <4>2 DEF a
    <3> QED
      BY <3>1, <3>2
  <2> QED
    BY <2>5, <2>6
<1> HIDE DEF w
<1>4. Bytes(p, m) \subseteq Bytes(p, r) /\ Bytes(p + w, r - w) \subseteq Bytes(p, r)
  BY <1>1 DEF Bytes
<1>5. ASSUME NEW x \in Bytes(p, r), ~ x < p + w PROVE x \in Bytes(p + w, r - w)
  BY <1>1, <1>5 DEF Bytes
<1>6. Bytes(p, r) = Bytes(p, m) \cup U \cup Bytes(p + w, r - w)
  BY <1>2, <1>3, <1>4, <1>5
<1> QED
  BY <1>6 DEF w, Row

-----------------------------------------------------------------------------
(* The operations of the allocator.                                          *)

\* The leftover of the pool goes to its list: the pool is then as good as gone.
LEMMA KeptSound ==
  ASSUME NEW h, NEW bs, Sound(h, bs), Remaining(h) <= MAX_BYTES
  PROVE LET k == KeepLeftover(h)
        IN /\ k \in Heaps /\ k.start_free = h.start_free /\ k.end_free = h.end_free
           /\ k.fresh = h.fresh /\ k.heap_size = h.heap_size /\ k.pools = h.pools
           /\ Sound(WithoutPool(k), bs)
<1> DEFINE k == KeepLeftover(h)
           e == WithoutPool(h)
           i == freelist_index(Remaining(h))
<1>1. h \in Heaps /\ Sound(e, bs)
  BY PoolGone DEF Sound
<1>2. Remaining(h) \in Nat
  BY <1>1, HeapTypes DEF Sound, HeapInv, PoolApart
<1>3. CASE Remaining(h) = 0
  BY <1>1, <1>3 DEF KeepLeftover, WithoutPool
<1>4. CASE Remaining(h) # 0
  <2>1. i \in Lists /\ UnitSize(i) = Remaining(h) /\ k = Push(h, i, h.start_free)
    BY <1>2, <1>4, IndexOfSize DEF Sound, HeapInv, PoolAligned, KeepLeftover
  <2> HIDE DEF i, k
  <2>2. Unused(e, bs, h.start_free, UnitSize(i))
    <3>1. Remaining(h) > 0
      BY <1>2, <1>4
    <3>2. Unused(e, bs, h.start_free, Remaining(h))
      BY <3>1, PoolGone
    <3> QED
      BY <2>1, <3>2
  <2>3. Sound(Push(e, i, h.start_free), bs)
    BY <1>1, <2>1, <2>2, PushSound
  <2>4. Push(e, i, h.start_free) = WithoutPool(k)
    BY <1>1, <2>1 DEF Push, Heaps, WithoutPool
  <2>5. /\ k.start_free = h.start_free /\ k.end_free = h.end_free
        /\ k.fresh = h.fresh /\ k.heap_size = h.heap_size /\ k.pools = h.pools
    BY <1>1, <2>1 DEF Push, Heaps, WithoutPool
  <2>6. k \in Heaps
    <3>1. Push(e, i, h.start_free) \in Heaps /\ h.start_free \in 0..MaxMemory /\ h.end_free \in 0..MaxMemory
      BY <1>1, <2>3 DEF Sound, Heaps
    <3>2. k = [Push(e, i, h.start_free) EXCEPT !.start_free = h.start_free, !.end_free = h.end_free]
      BY <1>1, <2>1 DEF Push, Heaps, WithoutPool
    <3> HIDE DEF e
    <3> QED
      BY <3>1, <3>2 DEF Heaps
  <2> QED
    BY <2>3, <2>4, <2>5, <2>6 DEF k
<1> QED
  BY <1>3, <1>4

\* A new chunk is a whole number of granules, and has room for a unit at least.
LEMMA ChunkSizes ==
  ASSUME NEW h \in Heaps, NEW size \in Nat \ {0}, round_up(size) = size
  PROVE /\ ChunkSize(h, size) \in Nat \ {0} /\ size <= ChunkSize(h, size)
        /\ round_up(ChunkSize(h, size)) = ChunkSize(h, size)
<1> DEFINE c == 2 * ALLOC_UNITS_SIZE
           d == h.heap_size \div 16
           w == c * size
           x == round_up(d)
<1>1. c \in Nat /\ 0 < c /\ d \in Nat
  BY ConstantsAssumption, HeapTypes
<1>2. x \in Nat /\ round_up(x) = x
  BY <1>1, RoundUpBounds, RoundUpTwice
<1>3. ChunkSize(h, size) = w + x
  BY DEF ChunkSize
<1> HIDE DEF c, d, x
<1>4. w \in Nat /\ round_up(w) = w /\ size <= w
  <2>1. 0 * size + size <= w
    BY <1>1, MulStep
  <2> QED
    BY <1>1, <2>1, MulNat, RoundUpProduct
<1> HIDE DEF w
<1>5. round_up(w + x) = w + x
  BY <1>2, <1>4, RoundUpSum
<1> QED
  BY <1>2, <1>3, <1>4, <1>5

\* A new chunk is memory that nothing uses.
LEMMA NewChunkSound ==
  ASSUME NEW k \in Heaps, NEW bs, Sound(WithoutPool(k), bs),
         NEW n \in Nat \ {0}, round_up(n) = n, k.fresh + n <= MaxMemory
  PROVE Sound(NewChunk(k, n), bs) /\ Remaining(NewChunk(k, n)) = n
<1> DEFINE e == WithoutPool(k)
           g == [e EXCEPT !.heap_size = @ + n, !.pools = @ \cup {<<k.fresh, n>>}, !.fresh = @ + n]
<1>1. /\ e \in Heaps /\ e.start_free = 0 /\ e.end_free = 0 /\ e.fresh = k.fresh
      /\ e.heap_size = k.heap_size /\ e.pools = k.pools /\ e.heap_size < e.fresh
  BY DEF Heaps, Sound, HeapInv, BelowFresh, WithoutPool
<1>2. k.fresh \in Nat /\ k.heap_size \in Nat /\ k.pools \subseteq Nat \X Nat /\ MaxMemory \in Nat
  BY HeapTypes
<1>3. k.fresh + n \in 1..MaxMemory /\ k.heap_size + n \in 0..MaxMemory /\ k.heap_size + n < k.fresh + n
  BY <1>1, <1>2
<1>4. k.pools \cup {<<k.fresh, n>>} \subseteq Nat \X Nat
  BY <1>2
<1> HIDE DEF e
<1>5. /\ g \in Heaps /\ g.free_list = e.free_list /\ g.start_free = 0 /\ g.end_free = 0
      /\ g.fresh = k.fresh + n /\ g.heap_size = k.heap_size + n
  BY <1>1, <1>3, <1>4 DEF Heaps
<1>6. NewChunk(k, n) = WithPool(g, k.fresh, n)
  BY DEF NewChunk, Heaps, e, WithPool, WithoutPool
<1> HIDE DEF g
<1>7. Sound(g, bs) /\ Unused(g, bs, k.fresh, n)
  BY <1>1, <1>3, <1>5, Grown DEF e
<1>8. Sound(WithPool(g, k.fresh, n), bs) /\ Remaining(WithPool(g, k.fresh, n)) = n
  BY <1>5, <1>7, PoolSet
<1> QED
  BY <1>6, <1>8

\* So it is when the chunk finds no slot, but for the slot.
LEMMA UnslottedSound ==
  ASSUME NEW k \in Heaps, NEW bs, Sound(WithoutPool(k), bs),
         NEW n \in Nat \ {0}, round_up(n) = n, k.fresh + n <= MaxMemory
  PROVE  /\ Sound(NewChunkUnslotted(k, n), bs)
         /\ Recorded(NewChunkUnslotted(k, n)) = NewChunk(k, n)
<1> DEFINE c == NewChunk(k, n)
           g == NewChunkUnslotted(k, n)
<1>1. Sound(c, bs)
  BY NewChunkSound
<1>2. /\ c \in Heaps /\ k.fresh \in Nat /\ k.pools \subseteq Nat \X Nat
      /\ c.start_free = k.fresh /\ c.end_free = k.fresh + n
      /\ c.pools = k.pools \cup {<<k.fresh, n>>}
  BY <1>1, HeapTypes DEF Sound, NewChunk, Heaps
<1>3. g = [c EXCEPT !.pools = k.pools]
  BY DEF NewChunkUnslotted
<1> HIDE DEF c, g
<1>4. /\ g \in Heaps /\ g.pools = k.pools
      /\ g.free_list = c.free_list /\ g.start_free = c.start_free /\ g.end_free = c.end_free
      /\ g.heap_size = c.heap_size /\ g.fresh = c.fresh
  BY <1>2, <1>3 DEF Heaps
<1>5. Sound(g, bs)
  BY <1>1, <1>4 DEF Sound, HeapInv, PoolApart, BelowFresh, PoolAligned, Remaining
<1>6. PoolRange(g) = <<k.fresh, n>>
  BY <1>2, <1>4 DEF PoolRange, Remaining
<1>7. Recorded(g) = c
  BY <1>2, <1>3, <1>4, <1>6 DEF Recorded, Heaps
<1> QED
  BY <1>5, <1>7 DEF c, g

\* A unit that becomes the pool is on no list any more.
LEMMA ReuseSound ==
  ASSUME NEW k \in Heaps, NEW bs, Sound(WithoutPool(k), bs),
         NEW i \in Lists, k.free_list[i] # <<>>
  PROVE Sound(Reuse(k, i), bs) /\ Remaining(Reuse(k, i)) = UnitSize(i)
<1> DEFINE e == WithoutPool(k)
           u == e.free_list[i][1]
           g == [e EXCEPT !.free_list[i] = Tail(@)]
<1>1. /\ e.start_free = 0 /\ e.end_free = 0 /\ e.free_list = k.free_list
  BY DEF Heaps, WithoutPool
<1>2. g.start_free = 0 /\ g.end_free = 0
  BY DEF Heaps, WithoutPool
<1>3. Reuse(k, i) = WithPool(g, u, UnitSize(i))
  BY DEF Reuse, Heaps, UnitSize, WithPool, WithoutPool
<1> HIDE DEF e
<1>4. Sound(g, bs) /\ Unused(g, bs, u, UnitSize(i))
  BY <1>1, PopSound DEF e
<1>5. UnitSize(i) \in Nat \ {0} /\ round_up(UnitSize(i)) = UnitSize(i)
  BY UnitSizes
<1> HIDE DEF g, u
<1>6. LET q == WithPool(g, u, UnitSize(i))
      IN Sound(q, bs) /\ Remaining(q) = UnitSize(i)
  BY <1>2, <1>4, <1>5, PoolSet
<1> QED
  BY <1>3, <1>6

\* However extending the pool ends, nothing is used twice.
LEMMA ExtendedSound ==
  ASSUME NEW h, NEW bs, Sound(h, bs), NEW size \in Nat \ {0}, size <= MAX_BYTES,
         round_up(size) = size, Remaining(h) < size, NEW r \in Extended(h, size)
  PROVE /\ r.outcome \in {"ok", "throw", "abort"} /\ r.heap \in Heaps
        /\ Sound(r.heap, bs)
        /\ r.outcome = "ok" => size <= Remaining(r.heap)
<1> DEFINE k == KeepLeftover(h)
           e == WithoutPool(k)
           n == ChunkSize(k, size)
           fits == {i \in Lists : i >= freelist_index(size) /\ k.free_list[i] # <<>>}
<1>1. /\ h \in Heaps /\ MAX_BYTES \in Nat
      /\ h.start_free \in Nat /\ h.end_free \in Nat /\ Remaining(h) \in Int
  BY ConstantsAssumption, HeapTypes, MulNat DEF Sound, MAX_BYTES
<1>2. Remaining(h) <= MAX_BYTES
  BY <1>1
<1>3. k \in Heaps /\ k.heap_size = h.heap_size /\ Sound(e, bs)
  BY <1>2, KeptSound
<1>4. ChunkSize(h, size) = n
  BY <1>3 DEF ChunkSize
<1> HIDE DEF k
<1>5. n \in Nat \ {0} /\ size <= n /\ round_up(n) = n
  BY <1>3, ChunkSizes
<1>6. \/ r = [outcome |-> "ok", heap |-> NewChunk(k, n)] /\ ~ k.fresh + n > MaxMemory
      \/ /\ r = [outcome |-> "abort", heap |-> NewChunkUnslotted(k, n)]
         /\ ~ k.fresh + n > MaxMemory
      \/ r = [outcome |-> "throw", heap |-> e]
      \/ \E i \in fits : r = [outcome |-> "ok", heap |-> Reuse(k, i)]
  BY <1>4 DEF Extended, k, WithoutPool
<1> HIDE DEF n
<1>7. CASE r = [outcome |-> "ok", heap |-> NewChunk(k, n)] /\ ~ k.fresh + n > MaxMemory
  <2>1. k.fresh + n <= MaxMemory
    BY <1>3, <1>5, <1>7, HeapTypes
  <2>2. Sound(NewChunk(k, n), bs) /\ Remaining(NewChunk(k, n)) = n
    BY <2>1, <1>3, <1>5, NewChunkSound
  <2> QED
    BY <2>2, <1>5, <1>7 DEF Sound
<1>8. CASE /\ r = [outcome |-> "abort", heap |-> NewChunkUnslotted(k, n)]
           /\ ~ k.fresh + n > MaxMemory
  <2>1. k.fresh + n <= MaxMemory
    BY <1>3, <1>5, <1>8, HeapTypes
  <2>2. Sound(NewChunkUnslotted(k, n), bs)
    BY <2>1, <1>3, <1>5, UnslottedSound
  <2> QED
    BY <2>2, <1>8 DEF Sound
<1>9. CASE r = [outcome |-> "throw", heap |-> e]
  <2> HIDE DEF e
  <2> QED
    BY <1>3, <1>9 DEF Sound
<1>10. CASE \E i \in fits : r = [outcome |-> "ok", heap |-> Reuse(k, i)]
  <2>1. PICK i \in fits : r = [outcome |-> "ok", heap |-> Reuse(k, i)]
    BY <1>10
  <2>2. Sound(Reuse(k, i), bs) /\ Remaining(Reuse(k, i)) = UnitSize(i)
    BY <2>1, <1>3, ReuseSound
  <2> DEFINE j == freelist_index(size)
  <2>3. j \in Lists /\ UnitSize(j) = size /\ i \in Lists /\ j <= i
    BY <2>1, IndexOfSize
  <2> HIDE DEF j
  <2>4. UnitSize(j) <= UnitSize(i)
    <3>1. CASE j = i
      BY <3>1, <2>3, UnitSizes
    <3>2. CASE j # i
      <4>1. i \in Nat /\ j \in Nat /\ j + 1 < i + 1 /\ ALIGN \in Nat
        BY <2>3, <3>2, ConstantsAssumption DEF Lists
      <4>2. (j + 1) * ALIGN + ALIGN <= (i + 1) * ALIGN
        BY <4>1, MulStep
      <4> QED
        BY <4>1, <4>2, <2>3, UnitSizes DEF UnitSize
    <3> QED
      BY <3>1, <3>2
  <2> QED
    BY <2>1, <2>2, <2>3, <2>4 DEF Sound
<1> QED
  BY <1>6, <1>7, <1>8, <1>9, <1>10

\* Units are cut while there is room for them, one at least.
LEMMA CutFits ==
  ASSUME NEW h \in Heaps, h.start_free <= h.end_free, NEW m \in Nat \ {0}, m <= Remaining(h)
  PROVE  LET c == Cut(h, m)
         IN /\ c.unit = h.start_free /\ c.count \in Nat \ {0} /\ c.count * m <= Remaining(h)
            /\ c.heap = [h EXCEPT !.start_free = @ + c.count * m]
<1> DEFINE room == Remaining(h) \div m
           n == IF room < ALLOC_UNITS_SIZE THEN room ELSE ALLOC_UNITS_SIZE
           c == Cut(h, m)
<1>1. Remaining(h) \in Nat
  BY HeapTypes
<1>2. c.unit = h.start_free /\ c.count = n /\ c.heap = [h EXCEPT !.start_free = @ + n * m]
  BY DEF Cut
<1>3. room \in Nat /\ room * m <= Remaining(h) /\ Remaining(h) < room * m + m
  BY <1>1, DivBounds
<1> HIDE DEF room, c
<1>4. n \in Nat \ {0} /\ n <= room
  <2>1. room # 0
    BY <1>1, <1>3
  <2> QED
    BY <2>1, <1>3, ConstantsAssumption
<1> HIDE DEF n
<1>5. n * m <= Remaining(h)
  <2>1. n * m \in Nat /\ room * m \in Nat
    BY <1>3, <1>4, MulNat
  <2>2. n = room \/ n * m + m <= room * m
    BY <1>3, <1>4, MulStep
  <2> QED
    BY <2>1, <2>2, <1>1, <1>3
<1> QED
  BY <1>2, <1>4, <1>5 DEF c

\* Units cut off the pool: the first is the client's, the others are its list.
LEMMA BuiltSound ==
  ASSUME NEW h, NEW bs, Sound(h, bs), NEW size \in Nat \ {0}, size <= MAX_BYTES,
         round_up(size) <= Remaining(h)
  PROVE LET c == Cut(h, round_up(size))
        IN Sound(BuildUnitList(c, round_up(size)), bs \cup {Block(c.unit, size)})
<1> DEFINE m == round_up(size)
           c == Cut(h, m)
           n == c.count
           g == c.heap
           p == h.start_free
           cs == bs \cup {Block(p, size)}
           i == freelist_index(m)
<1>1. /\ h \in Heaps /\ p \in Nat /\ h.end_free \in Nat /\ Remaining(h) = h.end_free - p
      /\ p <= h.end_free
  BY HeapTypes DEF Sound, HeapInv, PoolApart
<1>2. m \in Nat \ {0} /\ round_up(m) = m /\ Room(size) = m /\ m <= MAX_BYTES
  BY RoundUpBounds, RoundUpTwice, RoomOfSize, IndexOfSize, UnitSizes
<1>3. i \in Lists /\ UnitSize(i) = m
  BY <1>2, IndexOfSize
<1>4. /\ c.unit = p /\ n \in Nat \ {0} /\ n * m <= Remaining(h)
      /\ g = [h EXCEPT !.start_free = @ + n * m]
  <2> HIDE DEF m
  <2> QED
    BY <1>1, <1>2, CutFits DEF m
<1> HIDE DEF m, c, cs, i, n
<1>7. n \in Nat \ {0}
  BY <1>4
<1>8. n * m <= Remaining(h)
  BY <1>4
<1> HIDE DEF g
<1>9. Sound(g, bs) /\ \A k \in 0..(n - 1) : Unused(g, bs, p + k * m, m)
  BY <1>2, <1>4, <1>7, <1>8, CutSound
<1>10. Sound(g, cs)
  <2>1. 0 \in 0..(n - 1) /\ p + 0 * m = p
    BY <1>1, <1>2, <1>7
  <2>2. Unused(g, bs, p, m)
    BY <2>1, <1>9
  <2> QED
    BY <2>2, <1>2, <1>9, Handed DEF cs
<1>11. ASSUME NEW k \in 1..(n - 1) PROVE Unused(g, cs, p + k * m, m)
  <2>1. Unused(g, bs, p + k * m, m)
    BY <1>7, <1>9
  <2>2. Apart(p + k * m, m, p, m)
    <3>1. 0 * m + m <= k * m /\ k * m \in Nat
      BY <1>2, <1>7, MulStep, MulNat
    <3> QED
      BY <3>1, <1>1, <1>2 DEF Apart
  <2>3. \A b \in cs : b \in bs \/ (b.addr = p /\ Room(b.size) = m)
    BY <1>2 DEF cs, Block
  <2> QED
    BY <2>1, <2>2, <2>3 DEF Unused, Clear
<1>12. Sound(BuildUnitList(c, m), cs)
  <2>1. CASE n = 1
    BY <2>1, <1>4, <1>10 DEF BuildUnitList, g, n
  <2>2. CASE n # 1
    <3> DEFINE l == BuildUnitList(c, m)
    <3>1. l = [g EXCEPT !.free_list[i] = [k \in 1..(n - 1) |-> p + k * UnitSize(i)]]
      BY <2>2, <1>3, <1>4 DEF BuildUnitList, g, i, n
    <3>2. n - 1 \in Nat
      BY <1>7
    <3>3. \A k \in 1..(n - 1) : Unused(g, cs, p + k * UnitSize(i), UnitSize(i))
      BY <1>3, <1>11
    <3> HIDE DEF l, p
    <3>4. Sound(l, cs)
      BY <3>1, <3>2, <3>3, <1>1, <1>3, <1>10, ListSound
    <3> QED
      BY <3>4 DEF l
  <2> QED
    BY <2>1, <2>2
<1> QED
  BY <1>4, <1>12 DEF c, m, cs

-----------------------------------------------------------------------------
(* The operations lose no byte.                                              *)

\* Sound, and no byte of the chunks is lost.
Whole(h, bs) == Sound(h, bs) /\ Covered(h, bs)

\* The same chunks, made up differently.
LEMMA StillCovered ==
  ASSUME NEW h, NEW bs, Covered(h, bs),
         NEW g, NEW cs, g.pools = h.pools, g.heap_size = h.heap_size, Owned(g, cs) = Owned(h, bs)
  PROVE  Covered(g, cs)
BY DEF Covered

\* The leftover of the pool is on its list; a list of larger units stays empty.
LEMMA KeptCovered ==
  ASSUME NEW h, NEW bs, Whole(h, bs), Remaining(h) <= MAX_BYTES
  PROVE LET k == KeepLeftover(h)
        IN /\ Covered(k, bs) /\ Covered(WithoutPool(k), bs)
           /\ \A i \in Lists : Remaining(h) < UnitSize(i) /\ h.free_list[i] = <<>>
                                 => k.free_list[i] = <<>>
<1> DEFINE k == KeepLeftover(h)
           p == h.start_free
           r == Remaining(h)
           j == freelist_index(r)
<1>1. h \in Heaps /\ Sound(h, bs) /\ Covered(h, bs)
  BY DEF Whole, Sound
<1>2. /\ k \in Heaps /\ k.start_free = p /\ k.end_free = h.end_free
      /\ k.heap_size = h.heap_size /\ k.pools = h.pools
      /\ Sound(WithoutPool(k), bs)
  BY <1>1, KeptSound
<1>3. r \in Nat /\ p \in Nat /\ h.end_free \in Nat /\ p <= h.end_free /\ r = h.end_free - p
  BY <1>1, HeapTypes DEF Sound, HeapInv, PoolApart
<1>4. Remaining(k) = r
  BY <1>2 DEF Remaining
<1>5. CASE r = 0
  <2>1. k = h
    BY <1>3, <1>5 DEF KeepLeftover
  <2>2. Bytes(p, r) = {}
    BY <1>3, <1>5 DEF Bytes
  <2>3. Owned(WithoutPool(h), bs) = Owned(h, bs)
    BY <1>1, <2>2, OwnedPool
  <2>4. Covered(WithoutPool(h), bs)
    BY <1>1, <2>3, OwnedPool, StillCovered
  <2> HIDE DEF k
  <2> QED
    BY <1>1, <2>1, <2>4 DEF k
<1>6. CASE r # 0
  <2>1. j \in Lists /\ UnitSize(j) = r /\ k = Push(h, j, p)
    BY <1>1, <1>3, <1>6, IndexOfSize DEF Sound, HeapInv, PoolAligned, KeepLeftover
  <2>2. p \in 1..MaxMemory
    <3>1. p # 0
      BY <1>1, <1>3, <1>6 DEF Sound, HeapInv, PoolApart
    <3> QED
      BY <3>1, <1>1, <1>3, HeapTypes
  <2> HIDE DEF k, j
  <2>3. /\ k.free_list = [h.free_list EXCEPT ![j] = <<p>> \o @]
        /\ RangesIn(k.free_list) = RangesIn(h.free_list) \cup {<<p, r>>}
        /\ Owned(k, bs) = Owned(h, bs) \cup Bytes(p, r)
    <3> DEFINE g == Push(h, j, p)
    <3>1. /\ g.free_list = [h.free_list EXCEPT ![j] = <<p>> \o @]
          /\ RangesIn(g.free_list) = RangesIn(h.free_list) \cup {<<p, UnitSize(j)>>}
          /\ Owned(g, bs) = Owned(h, bs) \cup Bytes(p, UnitSize(j))
      <4> HIDE DEF p, r
      <4>1. h \in Heaps /\ j \in Lists /\ p \in 1..MaxMemory
        BY <1>1, <2>1, <2>2
      <4>2. g.free_list = [h.free_list EXCEPT ![j] = <<p>> \o @]
        BY <4>1, PushedMembers
      <4>3. RangesIn(g.free_list) = RangesIn(h.free_list) \cup {<<p, UnitSize(j)>>}
        BY <4>1, PushedMembers
      <4>4. Owned(g, bs) = Owned(h, bs) \cup Bytes(p, UnitSize(j))
        BY <4>1, OwnedPushed
      <4> QED
        BY <4>2, <4>3, <4>4
    <3> HIDE DEF g
    <3>2. UnitSize(j) = r /\ k = g
      BY <2>1 DEF g
    <3> HIDE DEF r, p
    <3> QED
      BY <3>1, <3>2, Zenon
  <2>4. Bytes(p, r) \subseteq Owned(h, bs)
    BY OwnedIs
  <2>5. Owned(k, bs) = Owned(h, bs)
    BY <2>3, <2>4
  <2>6. <<p, r>> \in RangesIn(k.free_list)
    BY <2>3
  <2>7. Bytes(p, r) \subseteq Owned(WithoutPool(k), bs)
    <3>1. WithoutPool(k).free_list = k.free_list
      BY <1>2, OwnedPool
    <3>2. <<p, r>> \in RangesIn(WithoutPool(k).free_list)
      BY <2>6, <3>1
    <3>3. Bytes(p, r) \subseteq BytesOf(RangesIn(WithoutPool(k).free_list))
      BY <3>2 DEF BytesOf
    <3> QED
      BY <3>3, OwnedIs
  <2>8. Owned(k, bs) = Owned(WithoutPool(k), bs) \cup Bytes(p, r)
    BY <1>2, <1>4, OwnedPool
  <2>9. Owned(WithoutPool(k), bs) = Owned(h, bs)
    BY <2>5, <2>7, <2>8
  <2>10. Covered(k, bs)
    BY <1>1, <1>2, <2>5, StillCovered
  <2>11. Covered(WithoutPool(k), bs)
    <3>1. WithoutPool(k).pools = h.pools /\ WithoutPool(k).heap_size = h.heap_size
      BY <1>2, OwnedPool
    <3> QED
      BY <1>1, <2>9, <3>1, StillCovered
  <2>12. ASSUME NEW i \in Lists, r < UnitSize(i), h.free_list[i] = <<>> PROVE k.free_list[i] = <<>>
    <3>1. i # j
      BY <1>3, <2>1, <2>12
    <3> QED
      BY <3>1, <2>3, <2>12
  <2> QED
    BY <2>10, <2>11, <2>12 DEF k
<1> QED
  BY <1>5, <1>6

\* A new chunk is all pool.
LEMMA NewChunkCovered ==
  ASSUME NEW k \in Heaps, NEW bs, Whole(WithoutPool(k), bs), NEW n \in Nat \ {0}
  PROVE  Covered(NewChunk(k, n), bs)
<1> DEFINE g == NewChunk(k, n)
           e == WithoutPool(k)
           A == Owned(e, bs)
           B == Bytes(k.fresh, n)
<1>1. /\ e.heap_size = k.heap_size /\ e.pools = k.pools
      /\ e.free_list = k.free_list /\ e.fresh = k.fresh /\ e.start_free = 0 /\ e.end_free = 0
  BY DEF WithoutPool, Heaps
<1>2. k.fresh \in Nat \ {0} /\ k.heap_size \in Nat
  BY HeapTypes
<1>3. A \in SUBSET (0..(k.fresh - 1)) /\ IsFiniteSet(A)
  BY <1>1, OwnedBelow DEF Whole
<1>4. A \cap B = {}
  BY <1>2, <1>3 DEF Bytes
<1>5. IsFiniteSet(B) /\ Cardinality(B) = n
  BY <1>2, BytesSize
<1>6. A = BytesOf(k.pools) /\ k.heap_size = Cardinality(A)
  BY <1>1 DEF Whole, Covered
<1>7. /\ g.start_free = k.fresh /\ Remaining(g) = n /\ g.free_list = k.free_list
      /\ g.heap_size = k.heap_size + n /\ g.pools = k.pools \cup {<<k.fresh, n>>}
  BY <1>2 DEF NewChunk, Heaps, Remaining
<1>8. A = BytesOf(RangesOf(bs)) \cup BytesOf(RangesIn(k.free_list))
  <2>1. Bytes(e.start_free, Remaining(e)) = {}
    BY <1>1 DEF Bytes, Remaining
  <2> QED
    BY <2>1, <1>1, OwnedIs
<1> HIDE DEF g, A, e
<1>9. Owned(g, bs) = A \cup B
  BY <1>7, <1>8, OwnedIs
<1>10. BytesOf(g.pools) = A \cup B
  <2>1. BytesOf(k.pools \cup {<<k.fresh, n>>}) = BytesOf(k.pools) \cup B
    BY BytesAdded
  <2> QED
    BY <2>1, <1>6, <1>7
<1> HIDE DEF B
<1>11. Cardinality(A \cup B) = k.heap_size + n
  <2>1. Cardinality(A \cup B) = Cardinality(A) + Cardinality(B) - Cardinality(A \cap B)
    BY <1>3, <1>5, FS_Union
  <2>2. Cardinality(A \cap B) = 0
    BY <1>4, FS_EmptySet
  <2> QED
    BY <2>1, <2>2, <1>2, <1>5, <1>6
<1>12. g.heap_size = Cardinality(BytesOf(g.pools))
  BY <1>7, <1>10, <1>11
<1> QED
  BY <1>9, <1>10, <1>12 DEF Covered, g

\* A free unit becomes the pool.
LEMMA ReuseCovered ==
  ASSUME NEW k \in Heaps, NEW bs, Covered(WithoutPool(k), bs), NEW i \in Lists, k.free_list[i] # <<>>
  PROVE  /\ Covered(Reuse(k, i), bs)
         /\ \A j \in Lists : k.free_list[j] = <<>> => Reuse(k, i).free_list[j] = <<>>
<1> DEFINE e == WithoutPool(k)
           u == k.free_list[i][1]
           d == [e EXCEPT !.free_list[i] = Tail(@)]
           g == Reuse(k, i)
           f == [k.free_list EXCEPT ![i] = Tail(@)]
<1>1. e \in Heaps /\ e.free_list = k.free_list /\ e.pools = k.pools /\ e.heap_size = k.heap_size
  BY OwnedPool
<1>2. /\ d.heap_size = k.heap_size /\ d.pools = k.pools
      /\ Owned(e, bs) = Owned(d, bs) \cup Bytes(u, UnitSize(i))
  <2> HIDE DEF e
  <2>1. e.free_list[i] # <<>>
    BY <1>1
  <2>2. /\ d.heap_size = e.heap_size /\ d.pools = e.pools
        /\ Owned(e, bs) = Owned(d, bs) \cup Bytes(e.free_list[i][1], UnitSize(i))
    BY <1>1, <2>1, OwnedPopped
  <2> HIDE DEF d
  <2> QED
    BY <1>1, <2>2
<1>3. d.start_free = 0 /\ d.end_free = 0 /\ d.free_list = f
  BY DEF WithoutPool, Heaps
<1>4. /\ g.start_free = u /\ g.end_free = u + UnitSize(i) /\ g.free_list = f
      /\ g.heap_size = k.heap_size /\ g.pools = k.pools
  BY DEF Reuse, Heaps, UnitSize
<1>5. u \in Nat /\ UnitSize(i) \in Nat
  <2>1. k.free_list[i] \in Seq(1..MaxMemory) /\ k.free_list \in FreeLists
    BY HeapTypes DEF FreeLists
  <2>2. 1 \in DOMAIN k.free_list[i]
    BY <2>1, EmptySeq, LenProperties
  <2> QED
    BY <2>1, <2>2, FreeTypes, UnitSizes
<1>6. ASSUME NEW j \in Lists, k.free_list[j] = <<>> PROVE g.free_list[j] = <<>>
  <2>1. j # i
    BY <1>6
  <2> QED
    BY <2>1, <1>4, <1>6
<1> HIDE DEF e, d, g, u, f
<1>7. Remaining(g) = UnitSize(i)
  BY <1>4, <1>5 DEF Remaining
<1>8. Bytes(d.start_free, Remaining(d)) = {}
  BY <1>3 DEF Bytes, Remaining
<1>9. Owned(g, bs) = Owned(d, bs) \cup Bytes(u, UnitSize(i))
  BY <1>3, <1>4, <1>7, <1>8, OwnedIs
<1>10. Owned(g, bs) = Owned(e, bs)
  BY <1>2, <1>9
<1>11. Covered(g, bs)
  BY <1>1, <1>4, <1>10, StillCovered DEF e
<1> QED
  BY <1>6, <1>11 DEF g

\* Units cut off the pool go to the client and to their list, which was empty.
LEMMA BuiltCovered ==
  ASSUME NEW h, NEW bs, Whole(h, bs), NEW size \in Nat \ {0}, size <= MAX_BYTES,
         round_up(size) <= Remaining(h), h.free_list[freelist_index(size)] = <<>>
  PROVE LET c == Cut(h, round_up(size))
        IN Covered(BuildUnitList(c, round_up(size)), bs \cup {Block(c.unit, size)})
<1> DEFINE m == round_up(size)
           c == Cut(h, m)
           n == c.count
           p == h.start_free
           g == c.heap
           b == Block(p, size)
           cs == bs \cup {b}
           i == freelist_index(m)
           l == BuildUnitList(c, m)
           U == Row(p, n - 1, m)
<1>1. /\ h \in Heaps /\ p \in Nat /\ h.end_free \in Nat /\ Remaining(h) = h.end_free - p
      /\ p <= h.end_free
  BY HeapTypes DEF Whole, Sound, HeapInv, PoolApart
<1>2. m \in Nat \ {0} /\ round_up(m) = m /\ Room(size) = m /\ m <= MAX_BYTES
  BY RoundUpBounds, RoundUpTwice, RoomOfSize, IndexOfSize, UnitSizes
<1>3. i \in Lists /\ UnitSize(i) = m
  BY <1>2, IndexOfSize
<1>4. i = freelist_index(size)
  BY SameIndex
<1>5. /\ c.unit = p /\ n \in Nat \ {0} /\ n * m <= Remaining(h)
      /\ g = [h EXCEPT !.start_free = @ + n * m]
  <2> HIDE DEF m
  <2> QED
    BY <1>1, <1>2, CutFits DEF m
<1>6. UnitBytes(b) = Bytes(p, m)
  BY <1>2 DEF UnitBytes, Block
<1>7. l = IF n = 1 THEN g ELSE [g EXCEPT !.free_list[i] = [k \in 1..(n - 1) |-> p + k * m]]
  BY <1>5 DEF BuildUnitList
<1>8. Remaining(h) \in Nat
  BY <1>1
<1> HIDE DEF m, c, g, b, i, l, n
<1>9. Bytes(p, Remaining(h)) = Bytes(p, m) \cup U \cup Bytes(p + n * m, Remaining(h) - n * m)
  BY <1>1, <1>2, <1>5, <1>8, CutBytes
<1>10. n * m \in Nat
  BY <1>2, <1>5, MulNat
<1>11. /\ g.start_free = p + n * m /\ g.end_free = h.end_free /\ g.free_list = h.free_list
       /\ g.heap_size = h.heap_size /\ g.pools = h.pools
  BY <1>1, <1>5 DEF Heaps
<1>12. Remaining(g) = Remaining(h) - n * m
  BY <1>1, <1>10, <1>11 DEF Remaining
<1>13. g \in Heaps
  <2>1. Sound(g, bs)
    BY <1>2, <1>5, CutSound DEF Whole
  <2> QED
    BY <2>1 DEF Sound
<1>14. Owned(g, cs) = Owned(g, bs) \cup Bytes(p, m)
  BY <1>6, OwnedHanded
<1> HIDE DEF cs
<1>15. /\ l.heap_size = h.heap_size /\ l.pools = h.pools
       /\ Owned(l, cs) = Owned(g, cs) \cup U
  <2>1. CASE n = 1
    <3>1. U = {}
      BY <2>1 DEF Row
    <3> QED
      BY <2>1, <3>1, <1>7, <1>11
  <2>2. CASE n # 1
    <3>1. l = [g EXCEPT !.free_list[i] = [k \in 1..(n - 1) |-> p + k * m]]
      BY <2>2, <1>7
    <3>2. n - 1 \in Nat /\ g.free_list[i] = <<>>
      BY <1>4, <1>5, <1>11
    <3> HIDE DEF p
    <3>3. /\ l.heap_size = g.heap_size /\ l.pools = g.pools
          /\ Owned(l, cs) = Owned(g, cs) \cup Row(p, n - 1, m)
      <4> DEFINE q == n - 1
      <4>1. q \in Nat /\ l = Listed(g, i, p, q)
        BY <3>1, <3>2, <1>3 DEF Listed
      <4> HIDE DEF q
      <4>2. l.heap_size = g.heap_size /\ l.pools = g.pools
        BY <4>1, <1>13 DEF Heaps, Listed
      <4>4. g \in Heaps /\ i \in Lists /\ g.free_list[i] = <<>> /\ p \in Nat /\ q \in Nat
        BY <4>1, <3>2, <1>1, <1>3, <1>13
      <4>3. Owned(Listed(g, i, p, q), cs) = Owned(g, cs) \cup Row(p, q, UnitSize(i))
        BY <4>4, OwnedListed
      <4> QED
        BY <4>1, <4>2, <4>3, <1>3 DEF q
    <3> QED
      BY <3>3, <1>11
  <2> QED
    BY <2>1, <2>2
<1> HIDE DEF U
<1>16. Owned(h, bs) = BytesOf(RangesOf(bs)) \cup BytesOf(RangesIn(h.free_list))
                        \cup Bytes(p, Remaining(h))
  BY OwnedIs
<1>17. Owned(g, bs) = BytesOf(RangesOf(bs)) \cup BytesOf(RangesIn(h.free_list))
                        \cup Bytes(p + n * m, Remaining(h) - n * m)
  BY <1>11, <1>12, OwnedIs
<1>18. Owned(l, cs) = Owned(h, bs)
  BY <1>9, <1>14, <1>15, <1>16, <1>17
<1>19. Covered(l, cs)
  BY <1>15, <1>18, StillCovered DEF Whole
<1> QED
  BY <1>5, <1>19 DEF l, cs, b, c, m

\* However extending the pool ends, no byte is lost, and the list it was extended for
\* stays empty.
LEMMA ExtendedCovered ==
  ASSUME NEW h, NEW bs, Whole(h, bs), NEW size \in Nat \ {0}, size <= MAX_BYTES,
         round_up(size) = size, Remaining(h) < size,
         h.free_list[freelist_index(size)] = <<>>, NEW r \in Extended(h, size)
  PROVE /\ r.outcome # "abort" => Covered(r.heap, bs)
        /\ r.outcome = "abort" => Covered(Recorded(r.heap), bs)
        /\ r.outcome = "ok" => r.heap.free_list[freelist_index(size)] = <<>>
<1> DEFINE k == KeepLeftover(h)
           e == WithoutPool(k)
           n == ChunkSize(k, size)
           j == freelist_index(size)
           fits == {i \in Lists : i >= freelist_index(size) /\ k.free_list[i] # <<>>}
<1>1. /\ h \in Heaps /\ MAX_BYTES \in Nat /\ Remaining(h) \in Int /\ Sound(h, bs)
  BY ConstantsAssumption, HeapTypes, MulNat DEF Whole, Sound, MAX_BYTES
<1>2. Remaining(h) <= MAX_BYTES
  BY <1>1
<1>3. k \in Heaps /\ k.heap_size = h.heap_size /\ Sound(e, bs)
  BY <1>1, <1>2, KeptSound
<1>4. j \in Lists /\ UnitSize(j) = size
  BY IndexOfSize
<1>5. Covered(k, bs) /\ Covered(e, bs) /\ k.free_list[j] = <<>>
  <2> HIDE DEF j
  <2>1. Covered(k, bs) /\ Covered(e, bs)
    BY <1>2, KeptCovered
  <2>2. \A i \in Lists : Remaining(h) < UnitSize(i) /\ h.free_list[i] = <<>>
                           => k.free_list[i] = <<>>
    BY <1>2, KeptCovered
  <2>3. h.free_list[j] = <<>> /\ Remaining(h) < UnitSize(j)
    BY <1>4 DEF j
  <2> HIDE DEF k
  <2>4. k.free_list[j] = <<>>
    BY <1>4, <2>2, <2>3
  <2> QED
    BY <2>1, <2>4
<1>6. ChunkSize(h, size) = n
  BY <1>3 DEF ChunkSize
<1> HIDE DEF k
<1>7. n \in Nat \ {0} /\ round_up(n) = n
  BY <1>3, ChunkSizes
<1>8. \/ r = [outcome |-> "ok", heap |-> NewChunk(k, n)]
      \/ /\ r = [outcome |-> "abort", heap |-> NewChunkUnslotted(k, n)]
         /\ ~ k.fresh + n > MaxMemory
      \/ r = [outcome |-> "throw", heap |-> e]
      \/ \E i \in fits : r = [outcome |-> "ok", heap |-> Reuse(k, i)]
  BY <1>6 DEF Extended, k, WithoutPool
<1> HIDE DEF n
<1>9. CASE r = [outcome |-> "ok", heap |-> NewChunk(k, n)]
  <2>1. NewChunk(k, n).free_list = k.free_list
    BY <1>3 DEF NewChunk, Heaps
  <2>2. Covered(NewChunk(k, n), bs)
    BY <1>3, <1>5, <1>7, NewChunkCovered DEF Whole
  <2> QED
    BY <2>1, <2>2, <1>5, <1>9
<1>10. CASE /\ r = [outcome |-> "abort", heap |-> NewChunkUnslotted(k, n)]
            /\ ~ k.fresh + n > MaxMemory
  <2>1. k.fresh + n <= MaxMemory
    BY <1>3, <1>7, <1>10, HeapTypes
  <2>2. Recorded(NewChunkUnslotted(k, n)) = NewChunk(k, n)
    BY <2>1, <1>3, <1>7, UnslottedSound
  <2>3. Covered(NewChunk(k, n), bs)
    BY <1>3, <1>5, <1>7, NewChunkCovered DEF Whole
  <2> QED
    BY <2>2, <2>3, <1>10
<1>11. CASE r = [outcome |-> "throw", heap |-> e]
  <2> HIDE DEF e
  <2> QED
    BY <1>5, <1>11
<1>12. CASE \E i \in fits : r = [outcome |-> "ok", heap |-> Reuse(k, i)]
  <2>1. PICK i \in Lists : k.free_list[i] # <<>> /\ r = [outcome |-> "ok", heap |-> Reuse(k, i)]
    BY <1>12
  <2>2. Covered(Reuse(k, i), bs) /\ Reuse(k, i).free_list[j] = <<>>
    BY <2>1, <1>3, <1>4, <1>5, ReuseCovered
  <2> QED
    BY <2>1, <2>2
<1> QED
  BY <1>8, <1>9, <1>10, <1>11, <1>12

-----------------------------------------------------------------------------
(* The calls.                                                                *)

\* How a call that asks for size bytes may end, as result r of heap h: with a block,
\* without, or in abort().
Ends(h, bs, size, r) ==
  /\ r.outcome \in {"ok", "throw", "abort"} /\ r.heap \in Heaps
  /\ r.outcome = "ok" => Whole(r.heap, bs \cup {Block(r.unit, size)})
  /\ r.outcome = "throw" => Whole(r.heap, bs)
  /\ r.outcome = "abort" => Sound(r.heap, bs) /\ Covered(Recorded(r.heap), bs)

\* allocate() ends in one of these ways.
LEMMA AllocatedEnds ==
  ASSUME NEW h, NEW bs, Whole(h, bs), NEW size \in Nat \ {0}, size <= MAX_BYTES,
         NEW r \in Allocated(h, size)
  PROVE Ends(h, bs, size, r)
<1> DEFINE i == freelist_index(size)
           m == round_up(size)
           Cutting(x) == [outcome |-> "ok", unit |-> Cut(x, m).unit,
                          heap |-> BuildUnitList(Cut(x, m), m)]
<1>1. /\ i \in Lists /\ UnitSize(i) = m /\ Room(size) = m
      /\ m \in Nat \ {0} /\ m <= MAX_BYTES /\ round_up(m) = m
  BY IndexOfSize, RoomOfSize, RoundUpBounds, RoundUpTwice, UnitSizes
<1>2. Remaining(h) \in Int /\ Sound(h, bs) /\ Covered(h, bs) /\ h \in Heaps
  BY HeapTypes DEF Whole, Sound
<1>3. ASSUME NEW x, Whole(x, bs), m <= Remaining(x), x.free_list[i] = <<>>, r = Cutting(x)
      PROVE Ends(h, bs, size, r)
  <2> DEFINE c == Cut(x, m)
             g == BuildUnitList(c, m)
  <2>1. Sound(g, bs \cup {Block(c.unit, size)})
    BY <1>3, BuiltSound DEF Whole
  <2>2. Covered(g, bs \cup {Block(c.unit, size)})
    BY <1>3, BuiltCovered
  <2> HIDE DEF g, m
  <2>3. r.outcome = "ok" /\ r.unit = c.unit /\ r.heap = g
    BY <1>3 DEF g
  <2> HIDE DEF c
  <2> QED
    BY <2>1, <2>2, <2>3 DEF Ends, Whole, Sound
<1>4. CASE h.free_list[i] # <<>>
  <2> DEFINE u == h.free_list[i][1]
             g == [h EXCEPT !.free_list[i] = Tail(@)]
             b == Block(u, size)
  <2>1. r.outcome = "ok" /\ r.unit = u /\ r.heap = g
    BY <1>4 DEF Allocated
  <2>2. Sound(g, bs) /\ Unused(g, bs, u, m)
    BY <1>1, <1>2, <1>4, PopSound
  <2>3. /\ g.heap_size = h.heap_size /\ g.pools = h.pools
        /\ Owned(h, bs) = Owned(g, bs) \cup Bytes(u, UnitSize(i))
    BY <1>1, <1>2, <1>4, OwnedPopped
  <2>4. UnitBytes(b) = Bytes(u, m)
    BY <1>1 DEF UnitBytes, Block
  <2> HIDE DEF g, u, b
  <2>5. Owned(g, bs \cup {b}) = Owned(g, bs) \cup UnitBytes(b)
    BY OwnedHanded
  <2>6. Owned(g, bs \cup {b}) = Owned(h, bs)
    BY <1>1, <2>3, <2>4, <2>5
  <2>7. Covered(g, bs \cup {b})
    BY <1>2, <2>3, <2>6, StillCovered
  <2>8. Sound(g, bs \cup {b})
    BY <1>1, <2>2, Handed DEF b
  <2> QED
    BY <2>1, <2>7, <2>8 DEF Ends, Whole, Sound, b
<1>5. CASE h.free_list[i] = <<>> /\ Remaining(h) >= m
  <2>1. r = Cutting(h)
    BY <1>5 DEF Allocated
  <2> QED
    BY <2>1, <1>1, <1>2, <1>3, <1>5
<1>6. CASE h.free_list[i] = <<>> /\ ~ Remaining(h) >= m
  <2>1. PICK s \in Extended(h, m) :
          r = IF s.outcome = "ok" THEN Cutting(s.heap)
              ELSE [outcome |-> s.outcome, unit |-> 0, heap |-> s.heap]
    BY <1>6 DEF Allocated
  <2>2. Remaining(h) < m
    BY <1>1, <1>2, <1>6
  <2>3. freelist_index(m) = i
    BY SameIndex
  <2> HIDE DEF m, i
  <2>4. /\ s.outcome \in {"ok", "throw", "abort"} /\ s.heap \in Heaps
        /\ Sound(s.heap, bs)
        /\ s.outcome = "ok" => m <= Remaining(s.heap)
    BY <1>1, <1>2, <2>2, ExtendedSound
  <2>5. h.free_list[freelist_index(m)] = <<>>
    BY <1>6, <2>3
  <2>6. /\ s.outcome # "abort" => Covered(s.heap, bs)
        /\ s.outcome = "abort" => Covered(Recorded(s.heap), bs)
        /\ s.outcome = "ok" => s.heap.free_list[freelist_index(m)] = <<>>
    BY <1>1, <2>2, <2>5, ExtendedCovered
  <2>7. CASE s.outcome = "ok"
    <3>1. r = Cutting(s.heap)
      BY <2>1, <2>7
    <3>2. Whole(s.heap, bs) /\ s.heap.free_list[i] = <<>>
      BY <2>3, <2>4, <2>6, <2>7 DEF Whole
    <3> QED
      BY <3>1, <3>2, <2>4, <2>7, <1>3
  <2>8. CASE s.outcome # "ok"
    <3>1. r.outcome = s.outcome /\ r.heap = s.heap
      BY <2>1, <2>8
    <3> QED
      BY <3>1, <2>4, <2>6, <2>8 DEF Ends, Whole
  <2> QED
    BY <2>7, <2>8
<1> QED
  BY <1>4, <1>5, <1>6

\* So it does for any size.
LEMMA AllocatedAnyEnds ==
  ASSUME NEW h, NEW bs, Whole(h, bs), NEW size \in Nat \ {0}, NEW r \in AllocatedAny(h, size)
  PROVE Ends(h, bs, size, r)
<1>1. h \in Heaps /\ Sound(h, bs) /\ Covered(h, bs)
  BY DEF Whole, Sound
<1>2. CASE size <= MAX_BYTES
  BY <1>2, AllocatedEnds DEF AllocatedAny
<1>3. CASE ~ size <= MAX_BYTES /\ r = [outcome |-> "throw", unit |-> 0, heap |-> h]
  BY <1>1, <1>3 DEF Ends
<1>4. CASE /\ ~ size <= MAX_BYTES /\ ~ h.fresh + size > MaxMemory
           /\ r = [outcome |-> "ok", unit |-> h.fresh, heap |-> [h EXCEPT !.fresh = @ + size]]
  <2> DEFINE g == [h EXCEPT !.fresh = @ + size]
             b == Block(h.fresh, size)
  <2>1. h.fresh \in Nat /\ MaxMemory \in Nat /\ h.heap_size \in Nat /\ h.heap_size < h.fresh
    BY <1>1, HeapTypes DEF Sound, HeapInv, BelowFresh
  <2>2. h.fresh + size <= MaxMemory /\ h.fresh + size \in 1..MaxMemory /\ h.heap_size < h.fresh + size
    BY <2>1, <1>4
  <2>3. /\ g \in Heaps /\ g.free_list = h.free_list /\ g.start_free = h.start_free
        /\ g.end_free = h.end_free /\ g.fresh = h.fresh + size /\ g.heap_size = h.heap_size
        /\ g.pools = h.pools
    BY <1>1, <2>2 DEF Heaps
  <2>4. r.outcome = "ok" /\ r.unit = h.fresh /\ r.heap = g
    BY <1>4
  <2> HIDE DEF g
  <2>5. Sound(g, bs) /\ Unused(g, bs, h.fresh, size)
    BY <1>1, <2>2, <2>3, Grown
  <2>6. Room(size) = size
    BY <1>4 DEF Room
  <2>7. Sound(g, bs \cup {b})
    BY <2>5, <2>6, Handed
  <2>8. UnitBytes(b) = {}
    BY <1>4 DEF UnitBytes, Block
  <2> HIDE DEF b
  <2>9. Owned(g, bs) = Owned(h, bs)
    <3>1. Remaining(g) = Remaining(h)
      BY <2>3 DEF Remaining
    <3> QED
      BY <3>1, <2>3, OwnedIs
  <2>10. Owned(g, bs \cup {b}) = Owned(h, bs)
    <3>1. Owned(g, bs \cup {b}) = Owned(g, bs) \cup UnitBytes(b)
      BY OwnedHanded
    <3> QED
      BY <3>1, <2>8, <2>9
  <2>11. Covered(g, bs \cup {b})
    BY <1>1, <2>3, <2>10, StillCovered
  <2> QED
    BY <2>4, <2>7, <2>11 DEF Ends, Whole, Sound, b
<1> QED
  BY <1>2, <1>3, <1>4 DEF AllocatedAny

\* deallocate() makes b's bytes unused, or gives them to a free list.
LEMMA DeallocatedSound ==
  ASSUME NEW h, NEW bs, Sound(h, bs), NEW b \in bs
  PROVE Sound(Deallocated(h, b.addr, b.size), bs \ {b})
<1>1. Sound(h, bs \ {b}) /\ Unused(h, bs \ {b}, b.addr, Room(b.size))
  BY Taken
<1>2. b.size \in Nat \ {0}
  BY BlockTypes DEF Sound
<1>3. CASE b.size <= MAX_BYTES
  <2>1. freelist_index(b.size) \in Lists /\ UnitSize(freelist_index(b.size)) = Room(b.size)
    BY <1>2, <1>3, IndexOfSize, RoomOfSize
  <2> QED
    BY <2>1, <1>1, <1>3, PushSound DEF Deallocated
<1>4. CASE ~ b.size <= MAX_BYTES
  BY <1>1, <1>4 DEF Deallocated
<1> QED
  BY <1>3, <1>4

\* They stay owned, if they came from a chunk.
LEMMA DeallocatedWhole ==
  ASSUME NEW h, NEW bs, Whole(h, bs), NEW b \in bs
  PROVE Whole(Deallocated(h, b.addr, b.size), bs \ {b})
<1> DEFINE g == Deallocated(h, b.addr, b.size)
           cs == bs \ {b}
           i == freelist_index(b.size)
<1>1. Sound(h, bs) /\ Covered(h, bs) /\ h \in Heaps
  BY DEF Whole, Sound
<1>2. Sound(g, cs)
  BY <1>1, DeallocatedSound
<1>3. b.size \in Nat \ {0} /\ b.addr \in 1..MaxMemory
  BY <1>1 DEF Sound, Blocks
<1>4. Owned(h, bs) = Owned(h, cs) \cup UnitBytes(b)
  BY OwnedTaken
<1> HIDE DEF cs
<1>5. /\ g.heap_size = h.heap_size /\ g.pools = h.pools
      /\ Owned(g, cs) = Owned(h, cs) \cup UnitBytes(b)
  <2>1. CASE b.size <= MAX_BYTES
    <3>1. i \in Lists /\ UnitSize(i) = Room(b.size)
      BY <1>3, <2>1, IndexOfSize, RoomOfSize
    <3>2. g = Push(h, i, b.addr) /\ UnitBytes(b) = Bytes(b.addr, Room(b.size))
      BY <2>1 DEF Deallocated, UnitBytes
    <3> HIDE DEF g, i
    <3>3. g.heap_size = h.heap_size /\ g.pools = h.pools
      BY <1>1, <1>3, <3>1, <3>2, PushedMembers
    <3> DEFINE u == b.addr
    <3>4. h \in Heaps /\ i \in Lists /\ u \in 1..MaxMemory
      BY <1>1, <1>3, <3>1
    <3> HIDE DEF u
    <3>5. Owned(Push(h, i, u), cs) = Owned(h, cs) \cup Bytes(u, UnitSize(i))
      BY <3>4, OwnedPushed
    <3> QED
      BY <3>1, <3>2, <3>3, <3>5 DEF u
  <2>2. CASE ~ b.size <= MAX_BYTES
    <3>1. g = h /\ UnitBytes(b) = {}
      BY <2>2 DEF Deallocated, UnitBytes
    <3> HIDE DEF g
    <3> QED
      BY <3>1
  <2> QED
    BY <2>1, <2>2
<1> HIDE DEF g
<1>6. Owned(g, cs) = Owned(h, bs)
  BY <1>4, <1>5
<1>7. Covered(g, cs)
  BY <1>1, <1>5, <1>6, StillCovered
<1> QED
  BY <1>2, <1>7 DEF Whole, g, cs

\* A block that becomes smaller leaves some of its bytes unused.
LEMMA Resized ==
  ASSUME NEW h, NEW bs, Sound(h, bs), NEW b \in bs, NEW size \in Nat \ {0}, Room(size) <= Room(b.size)
  PROVE Sound(h, (bs \ {b}) \cup {Block(b.addr, size)})
<1> DEFINE cs == bs \ {b}
           u == b.addr
           m == Room(b.size)
           n == Room(size)
<1>1. Sound(h, cs) /\ Unused(h, cs, u, m)
  BY Taken
<1>2. h \in Heaps /\ cs \in SUBSET Blocks /\ b \in Blocks
  BY DEF Sound
<1>3. u \in Nat /\ m \in Nat /\ n \in Nat /\ n <= m
  BY <1>2, BlockTypes, RoomOfSize
<1>4. /\ h.fresh \in Nat /\ h.free_list \in FreeLists
      /\ h.start_free \in Nat /\ Remaining(h) \in Nat
  BY <1>2, HeapTypes DEF Sound, HeapInv, PoolApart
<1> HIDE DEF cs, u, m, n
<1>5. u <= u /\ u + n <= u + m
  BY <1>3
<1>6. Clear(h.free_list, cs, u, n)
  BY <1>1, <1>2, <1>3, <1>4, <1>5, ClearInside DEF Unused
<1>7. Apart(u, n, h.start_free, Remaining(h))
  BY <1>1, <1>3, <1>4, <1>5, Inside DEF Unused
<1>8. u \in 1..MaxMemory /\ u + n <= h.fresh
  BY <1>1, <1>3, <1>4 DEF Unused
<1>9. Unused(h, cs, u, n)
  BY <1>6, <1>7, <1>8 DEF Unused
<1> QED
  BY <1>1, <1>9, Handed DEF cs, u, n

\* It owns the same unit, or none as before.
LEMMA ResizedWhole ==
  ASSUME NEW h, NEW bs, Whole(h, bs), NEW b \in bs, NEW size \in Nat \ {0},
         Room(size) <= Room(b.size), UnitBytes(Block(b.addr, size)) = UnitBytes(b)
  PROVE Whole(h, (bs \ {b}) \cup {Block(b.addr, size)})
<1> DEFINE cs == bs \ {b}
           c == Block(b.addr, size)
<1>1. Sound(h, bs) /\ Covered(h, bs)
  BY DEF Whole
<1>2. Sound(h, cs \cup {c})
  BY <1>1, Resized
<1>3. Owned(h, bs) = Owned(h, cs) \cup UnitBytes(b)
  BY OwnedTaken
<1> HIDE DEF cs, c
<1>4. Owned(h, cs \cup {c}) = Owned(h, cs) \cup UnitBytes(c)
  BY OwnedHanded
<1>5. Owned(h, cs \cup {c}) = Owned(h, bs)
  BY <1>3, <1>4 DEF c
<1>6. Covered(h, cs \cup {c})
  BY <1>1, <1>5, StillCovered
<1> QED
  BY <1>2, <1>6 DEF Whole, cs, c

\* A block that is too large for a list can be given up: no chunk holds it.
LEMMA FewerWhole ==
  ASSUME NEW h, NEW bs, Whole(h, bs), NEW b \in bs, b.size > MAX_BYTES
  PROVE Whole(h, bs \ {b})
<1>1. Deallocated(h, b.addr, b.size) = h
  <2>1. b.size \in Nat /\ MAX_BYTES \in Nat
    BY BlockTypes, ConstantsAssumption, MulNat DEF Whole, Sound, MAX_BYTES
  <2> QED
    BY <2>1 DEF Deallocated
<1>2. Whole(Deallocated(h, b.addr, b.size), bs \ {b})
  BY DeallocatedWhole
<1> QED
  BY <1>1, <1>2

\* Sizes that are rounded up to the same granules both have a list, or neither has.
LEMMA SameList ==
  ASSUME NEW m \in Nat \ {0}, NEW n \in Nat \ {0}, round_up(m) = round_up(n), m <= MAX_BYTES
  PROVE n <= MAX_BYTES
<1>1. round_up(m) <= MAX_BYTES
  BY IndexOfSize, UnitSizes
<1>2. n <= round_up(n) /\ round_up(n) \in Nat /\ MAX_BYTES \in Nat
  BY RoundUpBounds, ConstantsAssumption, MulNat DEF MAX_BYTES
<1> QED
  BY <1>1, <1>2

\* The same for reallocate(): the new block takes the place of the old one.
LEMMA ReallocatedEnds ==
  ASSUME NEW h, NEW bs, Whole(h, bs), NEW b \in bs, NEW size \in Nat \ {0},
         NEW r \in Reallocated(h, b.addr, b.size, size)
  PROVE /\ r.outcome \in {"ok", "throw", "abort"} /\ r.heap \in Heaps
        /\ r.outcome = "ok" => Whole(r.heap, (bs \ {b}) \cup {Block(r.unit, size)})
        /\ r.outcome = "throw" => Whole(r.heap, bs)
        /\ r.outcome = "abort" => Sound(r.heap, bs) /\ Covered(Recorded(r.heap), bs)
<1> DEFINE old == b.size
           u == b.addr
           here == [outcome |-> "ok", unit |-> u, heap |-> h]
<1>1. h \in Heaps /\ old \in Nat \ {0} /\ MAX_BYTES \in Nat
  BY BlockTypes, ConstantsAssumption, MulNat DEF Whole, Sound, MAX_BYTES
<1>2. ASSUME r = here, Room(size) <= Room(old), UnitBytes(Block(u, size)) = UnitBytes(b)
      PROVE /\ r.outcome = "ok" /\ r.heap \in Heaps
            /\ Whole(r.heap, (bs \ {b}) \cup {Block(r.unit, size)})
  <2>1. r.outcome = "ok" /\ r.heap = h /\ r.unit = u
    BY <1>2
  <2>2. Whole(h, (bs \ {b}) \cup {Block(u, size)})
    BY <1>2, ResizedWhole
  <2> QED
    BY <2>1, <2>2, <1>1
<1>3. CASE old > MAX_BYTES /\ size > MAX_BYTES
  <2>1. (r = here /\ size <= old) \/ r \in AllocatedAny(h, size)
    BY <1>3 DEF Reallocated
  <2>2. Room(size) = size /\ Room(old) = old /\ UnitBytes(Block(u, size)) = {} /\ UnitBytes(b) = {}
    BY <1>1, <1>3 DEF Room, UnitBytes, Block
  <2>3. CASE r \in AllocatedAny(h, size)
    <3>1. Ends(h, bs, size, r)
      BY <2>3, AllocatedAnyEnds
    <3>2. r.outcome = "ok" => Whole(r.heap, (bs \ {b}) \cup {Block(r.unit, size)})
      <4> DEFINE c == Block(r.unit, size)
      <4> SUFFICES ASSUME r.outcome = "ok" PROVE Whole(r.heap, (bs \ {b}) \cup {c})
        OBVIOUS
      <4>1. Whole(r.heap, bs \cup {c})
        BY <3>1 DEF Ends
      <4>2. CASE c = b
        <5>1. (bs \ {b}) \cup {c} = bs \cup {c}
          BY <4>2
        <5> QED
          BY <4>1, <5>1
      <4>3. CASE c # b
        <5> HIDE DEF c
        <5>1. (bs \cup {c}) \ {b} = (bs \ {b}) \cup {c}
          BY <4>3
        <5>2. Whole(r.heap, (bs \cup {c}) \ {b})
          BY <4>1, <1>3, FewerWhole
        <5> QED
          BY <5>1, <5>2
      <4> QED
        BY <4>2, <4>3
    <3> QED
      BY <3>1, <3>2 DEF Ends
  <2> HIDE DEF here
  <2> QED
    BY <2>1, <2>2, <2>3, <1>2
<1>4. CASE ~ (old > MAX_BYTES /\ size > MAX_BYTES) /\ round_up(old) = round_up(size)
  <2>1. r = here
    BY <1>4 DEF Reallocated
  <2>2. old <= MAX_BYTES /\ size <= MAX_BYTES
    BY <1>1, <1>4, SameList
  <2>3. Room(size) = Room(old)
    BY <2>2, <1>4 DEF Room
  <2>4. UnitBytes(Block(u, size)) = UnitBytes(b)
    BY <2>2, <2>3 DEF UnitBytes, Block
  <2>5. Room(size) <= Room(old)
    BY <2>3, <1>1, RoomOfSize
  <2> HIDE DEF here
  <2> QED
    BY <2>1, <2>4, <2>5, <1>2
<1>5. CASE ~ (old > MAX_BYTES /\ size > MAX_BYTES) /\ round_up(old) # round_up(size)
  <2>1. PICK q \in AllocatedAny(h, size) :
          r = IF q.outcome = "ok" THEN [q EXCEPT !.heap = Deallocated(q.heap, u, old)] ELSE q
    BY <1>5 DEF Reallocated
  <2>2. Ends(h, bs, size, q)
    BY AllocatedAnyEnds
  <2>3. CASE q.outcome = "ok"
    <3> DEFINE c == Block(q.unit, size)
               g == Deallocated(q.heap, u, old)
    <3>1. c.size = size /\ c # b
      BY <1>5 DEF Block
    <3>2. r.outcome = "ok" /\ r.unit = q.unit /\ r.heap = g
      <4> HIDE DEF g
      <4>1. r = [q EXCEPT !.heap = g]
        BY <2>1, <2>3 DEF g
      <4>2. \E v, x : q = [outcome |-> "ok", unit |-> v, heap |-> x]
        BY <2>3 DEF AllocatedAny, Allocated
      <4> QED
        BY <4>1, <4>2
    <3> HIDE DEF c
    <3>3. Whole(q.heap, bs \cup {c})
      BY <2>2, <2>3 DEF Ends, c
    <3>4. Whole(g, (bs \cup {c}) \ {b})
      BY <3>3, DeallocatedWhole
    <3>5. (bs \cup {c}) \ {b} = (bs \ {b}) \cup {c}
      BY <3>1
    <3> HIDE DEF g
    <3> QED
      BY <3>2, <3>4, <3>5 DEF c, Whole, Sound
  <2>4. CASE q.outcome # "ok"
    BY <2>1, <2>2, <2>4 DEF Ends
  <2> QED
    BY <2>3, <2>4
<1> QED
  BY <1>3, <1>4, <1>5

\* destroy() forgets the chunks: the allocator starts again from fresh memory.
LEMMA DestroyedSound ==
  ASSUME NEW h, NEW bs, Sound(h, bs)
  PROVE Sound([h EXCEPT !.free_list = [i \in Lists |-> <<>>], !.start_free = 0,
                        !.end_free = 0, !.heap_size = 0, !.pools = {}], bs)
<1> DEFINE f == [i \in Lists |-> <<>>]
           g == [h EXCEPT !.free_list = f, !.start_free = 0,
                          !.end_free = 0, !.heap_size = 0, !.pools = {}]
           e == WithoutPool(h)
<1>1. h \in Heaps /\ Sound(e, bs)
  BY PoolGone DEF Sound
<1>2. f \in FreeLists /\ \A i \in Lists : f[i] = <<>> /\ DOMAIN f[i] = {}
  <2>1. <<>> \in Seq(1..MaxMemory) /\ DOMAIN <<>> = {}
    BY EmptySeq
  <2> QED
    BY <2>1 DEF FreeLists
<1>3. 0 \in 0..MaxMemory
  BY ConstantsAssumption
<1> HIDE DEF f
<1>4. /\ g \in Heaps /\ g.free_list = f /\ g.start_free = 0 /\ g.end_free = 0
      /\ g.fresh = h.fresh /\ g.heap_size = 0 /\ Remaining(g) = 0
  <2>1. {} \in SUBSET (Nat \X Nat) /\ f \in [Lists -> Seq(1..MaxMemory)]
    BY <1>2 DEF FreeLists
  <2>2. g \in Heaps
    BY <1>1, <1>3, <2>1 DEF Heaps
  <2>3. /\ g.free_list = f /\ g.start_free = 0 /\ g.end_free = 0
        /\ g.fresh = h.fresh /\ g.heap_size = 0
    BY <1>1 DEF Heaps
  <2> QED
    BY <2>2, <2>3 DEF Remaining
<1>5. /\ e.start_free = 0 /\ e.end_free = 0 /\ e.fresh = h.fresh /\ Remaining(e) = 0
      /\ h.fresh \in Nat \ {0}
  BY <1>1, HeapTypes DEF Heaps, Remaining, WithoutPool
<1> HIDE DEF e, g
<1>6. FreeApart(f) /\ FreeApartFromLive(f, bs)
  BY <1>2 DEF FreeApart, FreeApartFromLive
<1>7. PoolApart(g, bs) /\ PoolAligned(g)
  BY <1>1, <1>2, <1>4, <1>5 DEF Sound, HeapInv, PoolApart, PoolAligned, Clear
<1>8. BelowFresh(g, bs)
  BY <1>1, <1>2, <1>4, <1>5 DEF Sound, HeapInv, BelowFresh
<1>9. Sound(g, bs)
  BY <1>1, <1>4, <1>6, <1>7, <1>8 DEF Sound, HeapInv
<1> QED
  BY <1>9 DEF g, f

\* With no unit in use, nothing is owned once the chunks are forgotten.
LEMMA NothingOwned ==
  ASSUME NEW h, NEW bs, \A b \in bs : ~ b.size <= MAX_BYTES,
         \A i \in Lists : DOMAIN h.free_list[i] = {},
         h.start_free = 0, h.end_free = 0, h.heap_size = 0, h.pools = {}
  PROVE Covered(h, bs)
<1>1. BytesOf(RangesOf(bs)) = {}
  BY DEF BytesOf, RangesOf
<1>2. BytesOf(RangesIn(h.free_list)) = {}
  BY DEF BytesOf, RangesIn, RangesOn
<1>3. Bytes(h.start_free, Remaining(h)) = {}
  BY DEF Bytes, Remaining
<1>4. Owned(h, bs) = {}
  BY <1>1, <1>2, <1>3, OwnedIs
<1>5. BytesOf(h.pools) = {}
  BY DEF BytesOf
<1>6. Cardinality({}) = 0
  BY FS_EmptySet
<1> QED
  BY <1>4, <1>5, <1>6 DEF Covered

\* So destroy() loses nothing, called when no client holds a unit.
LEMMA DestroyedWhole ==
  ASSUME NEW h, NEW bs, Sound(h, bs), \A b \in bs : b.size > MAX_BYTES
  PROVE Whole([h EXCEPT !.free_list = [i \in Lists |-> <<>>], !.start_free = 0,
                        !.end_free = 0, !.heap_size = 0, !.pools = {}], bs)
<1> DEFINE g == [h EXCEPT !.free_list = [i \in Lists |-> <<>>], !.start_free = 0,
                          !.end_free = 0, !.heap_size = 0, !.pools = {}]
<1>1. Sound(g, bs)
  BY DestroyedSound
<1>2. /\ g.free_list = [i \in Lists |-> <<>>] /\ g.start_free = 0 /\ g.end_free = 0
      /\ g.heap_size = 0 /\ g.pools = {}
  BY DEF Sound, Heaps
<1>3. \A i \in Lists : DOMAIN g.free_list[i] = {}
  <2>1. DOMAIN <<>> = {}
    BY EmptySeq
  <2> QED
    BY <1>2, <2>1
<1>4. \A b \in bs : ~ b.size <= MAX_BYTES
  <2>1. \A b \in bs : b.size \in Nat
    BY BlockTypes DEF Sound
  <2>2. MAX_BYTES \in Nat
    BY ConstantsAssumption, MulNat DEF MAX_BYTES
  <2> QED
    BY <2>1, <2>2
<1> HIDE DEF g
<1>5. Covered(g, bs)
  BY <1>2, <1>3, <1>4, NothingOwned
<1> QED
  BY <1>1, <1>5 DEF Whole, g

-----------------------------------------------------------------------------
(* The partition of the chunks.                                              *)

\* Ranges that are apart share no byte.
LEMMA ApartBytes ==
  ASSUME NEW a \in Nat, NEW m \in Nat, NEW b \in Nat, NEW n \in Nat, Apart(a, m, b, n)
  PROVE  Bytes(a, m) \cap Bytes(b, n) = {} /\ Bytes(b, n) \cap Bytes(a, m) = {}
BY DEF Apart, Bytes

\* An owner of bytes of the chunks is a client's unit, a free unit or the pool.
LEMMA OwnerKinds ==
  ASSUME AllocInv, NEW o \in Owners
  PROVE  /\ \/ \E b \in live : /\ b.size <= MAX_BYTES
                               /\ o = Owner("client", <<b.size>>, b.addr, Room(b.size))
            \/ \E i \in Lists : \E k \in DOMAIN heap.free_list[i] :
                 o = Owner("free", <<i, k>>, heap.free_list[i][k], UnitSize(i))
            \/ o = Pool
         /\ o.addr \in Nat /\ o.size \in Nat
<1>1. CASE o \in Clients
  <2>1. PICK b \in live : /\ b.size <= MAX_BYTES
                          /\ o = Owner("client", <<b.size>>, b.addr, round_up(b.size))
    BY <1>1 DEF Clients
  <2>2. b.addr \in Nat /\ b.size \in Nat \ {0}
    BY DEF AllocInv, TypeOK, Blocks
  <2>3. Room(b.size) = round_up(b.size) /\ Room(b.size) \in Nat
    BY <2>1, <2>2, RoomOfSize, RoundUpBounds DEF Room
  <2> QED
    BY <2>1, <2>2, <2>3 DEF Owner
<1>2. CASE o \in UNION {Places(i) : i \in Lists}
  <2>1. PICK i \in Lists : o \in Places(i)
    BY <1>2
  <2>2. PICK k \in DOMAIN heap.free_list[i] :
          o = Owner("free", <<i, k>>, heap.free_list[i][k], UnitSize(i))
    BY <2>1 DEF Places, UnitSize
  <2>3. heap.free_list[i][k] \in Nat /\ UnitSize(i) \in Nat
    BY HeapTypes, FreeTypes, UnitSizes DEF AllocInv, TypeOK
  <2> QED
    BY <2>2, <2>3 DEF Owner
<1>3. CASE o = Pool
  <2>1. heap.start_free \in Nat /\ Remaining(heap) \in Nat
    BY HeapTypes DEF AllocInv, TypeOK, HeapInv, PoolApart
  <2> QED
    BY <1>3, <2>1 DEF Pool, Owner
<1>4. o \in Clients \/ o \in UNION {Places(i) : i \in Lists} \/ o = Pool
  BY DEF Owners
<1> QED
  BY <1>1, <1>2, <1>3, <1>4, Zenon

\* No byte has two owners.
LEMMA OwnersApart ==
  ASSUME AllocInv, NEW o \in Owners, NEW q \in Owners, o # q
  PROVE  Bytes(o.addr, o.size) \cap Bytes(q.addr, q.size) = {}
<1> DEFINE f == heap.free_list
           Unit(x) == \E b \in live : /\ b.size <= MAX_BYTES
                                      /\ x = Owner("client", <<b.size>>, b.addr, Room(b.size))
           Place(x) == \E i \in Lists : \E k \in DOMAIN f[i] :
                         x = Owner("free", <<i, k>>, f[i][k], UnitSize(i))
<1>1. /\ Unit(o) \/ Place(o) \/ o = Pool
      /\ Unit(q) \/ Place(q) \/ q = Pool
      /\ o.addr \in Nat /\ o.size \in Nat /\ q.addr \in Nat /\ q.size \in Nat
  BY OwnerKinds
<1>2. ASSUME NEW x, NEW y, x # y, Unit(x), Unit(y) PROVE Apart(x.addr, x.size, y.addr, y.size)
  <2>1. PICK b \in live : x = Owner("client", <<b.size>>, b.addr, Room(b.size))
    BY <1>2
  <2>2. PICK c \in live : y = Owner("client", <<c.size>>, c.addr, Room(c.size))
    BY <1>2
  <2>3. Apart(b.addr, Room(b.size), c.addr, Room(c.size))
    BY <1>2, <2>1, <2>2 DEF AllocInv, LiveApart
  <2> QED
    BY <2>1, <2>2, <2>3 DEF Owner
<1>3. ASSUME NEW x, NEW y, x # y, Place(x), Place(y) PROVE Apart(x.addr, x.size, y.addr, y.size)
  <2>1a. PICK i \in Lists : \E k \in DOMAIN f[i] : x = Owner("free", <<i, k>>, f[i][k], UnitSize(i))
    BY <1>3
  <2>1. PICK k \in DOMAIN f[i] : x = Owner("free", <<i, k>>, f[i][k], UnitSize(i))
    BY <2>1a
  <2>2a. PICK j \in Lists : \E l \in DOMAIN f[j] : y = Owner("free", <<j, l>>, f[j][l], UnitSize(j))
    BY <1>3
  <2>2. PICK l \in DOMAIN f[j] : y = Owner("free", <<j, l>>, f[j][l], UnitSize(j))
    BY <2>2a
  <2>3. Apart(f[i][k], UnitSize(i), f[j][l], UnitSize(j))
    BY <1>3, <2>1, <2>2 DEF AllocInv, HeapInv, FreeApart
  <2> QED
    BY <2>1, <2>2, <2>3 DEF Owner
<1>4. ASSUME NEW x, NEW y, Place(x), Unit(y) PROVE Apart(x.addr, x.size, y.addr, y.size)
  <2>1a. PICK i \in Lists : \E k \in DOMAIN f[i] : x = Owner("free", <<i, k>>, f[i][k], UnitSize(i))
    BY <1>4
  <2>1. PICK k \in DOMAIN f[i] : x = Owner("free", <<i, k>>, f[i][k], UnitSize(i))
    BY <2>1a
  <2>2. PICK c \in live : y = Owner("client", <<c.size>>, c.addr, Room(c.size))
    BY <1>4
  <2>3. Apart(f[i][k], UnitSize(i), c.addr, Room(c.size))
    BY <2>1, <2>2 DEF AllocInv, HeapInv, FreeApartFromLive
  <2> QED
    BY <2>1, <2>2, <2>3 DEF Owner
<1>5. ASSUME NEW y, Unit(y) PROVE Apart(Pool.addr, Pool.size, y.addr, y.size)
  <2>1. PICK c \in live : y = Owner("client", <<c.size>>, c.addr, Room(c.size))
    BY <1>5
  <2>2. Apart(heap.start_free, Remaining(heap), c.addr, Room(c.size))
    BY <2>1 DEF AllocInv, HeapInv, PoolApart, Clear
  <2> QED
    BY <2>1, <2>2 DEF Owner, Pool
<1>6. ASSUME NEW y, Place(y) PROVE Apart(Pool.addr, Pool.size, y.addr, y.size)
  <2>1a. PICK j \in Lists : \E l \in DOMAIN f[j] : y = Owner("free", <<j, l>>, f[j][l], UnitSize(j))
    BY <1>6
  <2>1. PICK l \in DOMAIN f[j] : y = Owner("free", <<j, l>>, f[j][l], UnitSize(j))
    BY <2>1a
  <2>2. Apart(heap.start_free, Remaining(heap), f[j][l], UnitSize(j))
    BY <2>1 DEF AllocInv, HeapInv, PoolApart, Clear
  <2> QED
    BY <2>1, <2>2 DEF Owner, Pool
<1> HIDE DEF Unit, Place
<1>7. Apart(o.addr, o.size, q.addr, q.size) \/ Apart(q.addr, q.size, o.addr, o.size)
  <2>1. CASE Unit(o)
    BY <1>1, <1>2, <1>4, <1>5, <2>1
  <2>2. CASE Place(o)
    BY <1>1, <1>3, <1>4, <1>6, <2>2
  <2>3. CASE o = Pool
    BY <1>1, <1>5, <1>6, <2>3
  <2> QED
    BY <1>1, <2>1, <2>2, <2>3
<1> QED
  BY <1>1, <1>7, ApartBytes

\* A byte of one of the ranges is a byte of the ranges.
LEMMA InBytesOf ==
  ASSUME NEW ranges, NEW a, NEW m, <<a, m>> \in ranges, NEW x \in Bytes(a, m)
  PROVE  x \in BytesOf(ranges)
<1>1. \E r \in ranges : x \in Bytes(r[1], r[2])
  BY <<a, m>>[1] = a, <<a, m>>[2] = m
<1> QED
  BY <1>1 DEF BytesOf

\* The owners own what Owned says, and that is the chunks.
LEMMA OwnersOwn ==
  ASSUME AllocInv
  PROVE  /\ UNION {Bytes(o.addr, o.size) : o \in Owners} = ChunkBytes
         /\ heap.heap_size = Cardinality(ChunkBytes)
<1> DEFINE g == IF aborted THEN Recorded(heap) ELSE heap
           Holds(o, x) == x \in Bytes(o.addr, o.size)
<1>1. /\ Covered(g, live) /\ g.pools = Chunks /\ g.heap_size = heap.heap_size
      /\ Owned(g, live) = Owned(heap, live)
  <2>1. CASE aborted
    <3>1. /\ g.free_list = heap.free_list /\ g.start_free = heap.start_free
          /\ g.end_free = heap.end_free /\ g.heap_size = heap.heap_size
          /\ g.pools = heap.pools \cup {PoolRange(heap)}
      BY <2>1 DEF Recorded, Heaps, AllocInv, TypeOK
    <3>2. Covered(g, live)
      BY DEF AllocInv
    <3> HIDE DEF g
    <3> QED
      BY <2>1, <3>1, <3>2 DEF Chunks, PoolRange, Owned, Remaining
  <2>2. CASE ~ aborted
    BY <2>2 DEF Chunks, AllocInv
  <2> QED
    BY <2>1, <2>2
<1> HIDE DEF g
<1>2. /\ Owned(heap, live) = BytesOf(Chunks) /\ heap.heap_size = Cardinality(BytesOf(Chunks))
  BY <1>1 DEF Covered
<1>3. ChunkBytes = BytesOf(Chunks)
  BY DEF ChunkBytes, BytesOf
<1>4. ASSUME NEW x PROVE (\E o \in Owners : Holds(o, x)) <=> x \in Owned(heap, live)
  <2>0. x \in Owned(heap, live) <=>
          \/ x \in BytesOf(RangesOf(live)) \/ x \in BytesOf(RangesIn(heap.free_list))
          \/ x \in Bytes(heap.start_free, Remaining(heap))
    BY OwnedIs, Zenon
  <2>1. ASSUME NEW o \in Owners, Holds(o, x) PROVE x \in Owned(heap, live)
    <3>1. CASE \E b \in live : /\ b.size <= MAX_BYTES
                               /\ o = Owner("client", <<b.size>>, b.addr, Room(b.size))
      <4>1. PICK b \in live : /\ b.size <= MAX_BYTES
                              /\ o = Owner("client", <<b.size>>, b.addr, Room(b.size))
        BY <3>1
      <4>2. x \in Bytes(b.addr, Room(b.size))
        BY <2>1, <4>1 DEF Owner
      <4>3. <<b.addr, Room(b.size)>> \in RangesOf(live)
        BY <4>1 DEF RangesOf
      <4> QED
        BY <2>0, <4>2, <4>3, InBytesOf
    <3>2. CASE \E i \in Lists : \E k \in DOMAIN heap.free_list[i] :
                 o = Owner("free", <<i, k>>, heap.free_list[i][k], UnitSize(i))
      <4>1. PICK i \in Lists : \E k \in DOMAIN heap.free_list[i] :
              o = Owner("free", <<i, k>>, heap.free_list[i][k], UnitSize(i))
        BY <3>2
      <4>2. PICK k \in DOMAIN heap.free_list[i] :
              o = Owner("free", <<i, k>>, heap.free_list[i][k], UnitSize(i))
        BY <4>1
      <4>3. x \in Bytes(heap.free_list[i][k], UnitSize(i))
        BY <2>1, <4>2 DEF Owner
      <4>4. <<heap.free_list[i][k], UnitSize(i)>> \in RangesIn(heap.free_list)
        BY DEF RangesIn, RangesOn
      <4> QED
        BY <2>0, <4>3, <4>4, InBytesOf
    <3>3. CASE o = Pool
      BY <2>0, <2>1, <3>3 DEF Pool, Owner
    <3> QED
      BY <3>1, <3>2, <3>3, OwnerKinds
  <2>2. ASSUME x \in BytesOf(RangesOf(live)) PROVE \E o \in Owners : Holds(o, x)
    <3>1. PICK r \in RangesOf(live) : x \in Bytes(r[1], r[2])
      BY <2>2 DEF BytesOf
    <3>2. PICK b \in live : b.size <= MAX_BYTES /\ r = <<b.addr, Room(b.size)>>
      BY <3>1 DEF RangesOf
    <3>3. PICK o : o = Owner("client", <<b.size>>, b.addr, round_up(b.size))
      OBVIOUS
    <3>4. o \in Clients
      BY <3>2, <3>3 DEF Clients
    <3>5. o.addr = b.addr /\ o.size = Room(b.size)
      BY <3>2, <3>3 DEF Owner, Room
    <3>6. o \in Owners
      BY <3>4 DEF Owners
    <3> QED
      BY <3>1, <3>2, <3>5, <3>6
  <2>3. ASSUME x \in BytesOf(RangesIn(heap.free_list)) PROVE \E o \in Owners : Holds(o, x)
    <3>1. PICK r \in RangesIn(heap.free_list) : x \in Bytes(r[1], r[2])
      BY <2>3 DEF BytesOf
    <3>2. PICK i \in Lists : r \in RangesOn(heap.free_list, i)
      BY <3>1 DEF RangesIn
    <3>3. PICK k \in DOMAIN heap.free_list[i] : r = <<heap.free_list[i][k], UnitSize(i)>>
      BY <3>2 DEF RangesOn
    <3>4. PICK o : o = Owner("free", <<i, k>>, heap.free_list[i][k], (i + 1) * ALIGN)
      OBVIOUS
    <3>5. o \in Places(i)
      BY <3>3, <3>4 DEF Places
    <3>6. o.addr = heap.free_list[i][k] /\ o.size = UnitSize(i)
      BY <3>4 DEF Owner, UnitSize
    <3>7. o \in Owners
      BY <3>5 DEF Owners
    <3> QED
      BY <3>1, <3>3, <3>6, <3>7
  <2>4. ASSUME x \in Bytes(heap.start_free, Remaining(heap)) PROVE \E o \in Owners : Holds(o, x)
    <3>1. Pool \in Owners
      BY DEF Owners
    <3> QED
      BY <2>4, <3>1 DEF Pool, Owner
  <2> HIDE DEF Holds
  <2> QED
    BY <2>0, <2>1, <2>2, <2>3, <2>4, Zenon
<1>5. UNION {Bytes(o.addr, o.size) : o \in Owners} = Owned(heap, live)
  BY <1>4
<1> QED
  BY <1>2, <1>3, <1>5

\* Nothing used twice and no byte lost: every byte of the chunks has one owner.
LEMMA PartitionHolds == AllocInv => Partition
<1> SUFFICES ASSUME AllocInv PROVE Partition
  OBVIOUS
<1>1. ASSUME NEW x \in ChunkBytes
      PROVE  Cardinality({o \in Owners : x \in Bytes(o.addr, o.size)}) = 1
  <2>1. PICK o \in Owners : x \in Bytes(o.addr, o.size)
    BY <1>1, OwnersOwn
  <2>2. ASSUME NEW q \in Owners, x \in Bytes(q.addr, q.size) PROVE q = o
    BY <2>1, <2>2, OwnersApart
  <2>3. {q \in Owners : x \in Bytes(q.addr, q.size)} = {o}
    BY <2>1, <2>2
  <2> QED
    BY <2>3, FS_Singleton
<1>2. \A o \in Owners : Bytes(o.addr, o.size) \subseteq ChunkBytes
  BY OwnersOwn
<1> QED
  BY <1>1, <1>2, OwnersOwn DEF Partition

-----------------------------------------------------------------------------
(* The theorems.                                                             *)

\* At first nothing is used.
LEMMA InitAllocInv == Init => AllocInv
<1> SUFFICES ASSUME Init PROVE AllocInv
  OBVIOUS
<1> DEFINE f == [i \in Lists |-> <<>>]
<1>1. f \in FreeLists /\ \A i \in Lists : DOMAIN f[i] = {}
  <2>1. <<>> \in Seq(1..MaxMemory) /\ DOMAIN <<>> = {}
    BY EmptySeq
  <2> QED
    BY <2>1 DEF FreeLists
<1>2. 0 \in 0..MaxMemory /\ 1 \in 1..MaxMemory
  BY ConstantsAssumption
<1>3. heap = [free_list |-> f, start_free |-> 0, end_free |-> 0,
              heap_size |-> 0, pools |-> {}, fresh |-> 1] /\ live = {} /\ aborted = FALSE
  BY DEF Init
<1> HIDE DEF f
<1>4. /\ heap \in Heaps /\ heap.free_list = f /\ heap.start_free = 0 /\ heap.end_free = 0
      /\ heap.fresh = 1 /\ heap.heap_size = 0 /\ Remaining(heap) = 0
  BY <1>1, <1>2, <1>3 DEF Heaps, FreeLists, Remaining
<1>5. round_up(0) = 0
  <2>1. round_up(0 * ALIGN) = 0 * ALIGN
    BY RoundUpMultiple
  <2> QED
    BY <2>1, ConstantsAssumption
<1>6. TypeOK /\ LiveApart(live)
  BY <1>3, <1>4 DEF TypeOK, LiveApart
<1>7. FreeApart(f) /\ FreeApartFromLive(f, live)
  BY <1>1 DEF FreeApart, FreeApartFromLive
<1>8. PoolApart(heap, live) /\ PoolAligned(heap)
  BY <1>1, <1>3, <1>4, <1>5 DEF PoolApart, PoolAligned, Clear
<1>9. BelowFresh(heap, live)
  BY <1>1, <1>3, <1>4 DEF BelowFresh
<1>10. Covered(heap, live)
  <2>1. heap.pools = {} /\ \A i \in Lists : DOMAIN heap.free_list[i] = {}
    BY <1>1, <1>3, <1>4
  <2>2. \A b \in live : ~ b.size <= MAX_BYTES
    BY <1>3
  <2> QED
    BY <1>4, <2>1, <2>2, NothingOwned
<1> QED
  BY <1>3, <1>4, <1>6, <1>7, <1>8, <1>9, <1>10 DEF AllocInv, HeapInv

\* Every call keeps the invariant.
LEMMA NextAllocInv == AllocInv /\ [Next]_vars => AllocInv'
<1> SUFFICES ASSUME AllocInv, [Next]_vars PROVE AllocInv'
  OBVIOUS
<1> DEFINE Inv(h, bs, a) ==
             /\ h \in Heaps /\ bs \subseteq Blocks /\ a \in BOOLEAN
             /\ LiveApart(bs) /\ HeapInv(h, bs)
             /\ Covered(IF a THEN Recorded(h) ELSE h, bs)
<1>1. /\ AllocInv <=> Inv(heap, live, aborted)
      /\ AllocInv' <=> Inv(heap', live', aborted')
  <2>1. AllocInv <=> Inv(heap, live, aborted)
    BY DEF AllocInv, TypeOK
  <2>2. AllocInv' <=> Inv(heap', live', aborted')
    BY DEF AllocInv, TypeOK, LiveApart, Covered, Owned, BytesOf, RangesOf, RangesIn, RangesOn,
           PoolRange, Recorded, HeapInv, FreeApart, FreeApartFromLive, PoolApart,
           PoolAligned, BelowFresh, Clear, Remaining
  <2> QED
    BY <2>1, <2>2
<1> HIDE DEF Inv
<1>2. CASE UNCHANGED vars
  BY <1>1, <1>2 DEF vars
<1>3. CASE Next
  <2>1. ~aborted /\ Whole(heap, live)
    BY <1>1, <1>3 DEF Next, Inv, Whole, Sound
  <2>2. ASSUME aborted' = FALSE, Whole(heap', live') PROVE AllocInv'
    BY <1>1, <2>2 DEF Inv, Whole, Sound
  <2>3. ASSUME aborted' = TRUE, live' = live,
               Sound(heap', live), Covered(Recorded(heap'), live)
        PROVE AllocInv'
    BY <1>1, <2>1, <2>3 DEF Inv, Whole, Sound
  <2>4. Sizes \subseteq Nat \ {0}
    BY ConstantsAssumption
  <2>5. ASSUME NEW size \in Sizes, Allocate(size) PROVE AllocInv'
    <3>1. PICK r \in AllocatedAny(heap, size) :
            /\ heap' = r.heap
            /\ live' = IF r.outcome = "ok" THEN live \cup {Block(r.unit, size)} ELSE live
            /\ aborted' = (r.outcome = "abort")
      BY <2>5 DEF Allocate
    <3>2. Ends(heap, live, size, r)
      BY <2>1, <2>4, AllocatedAnyEnds
    <3>3. CASE r.outcome = "ok"
      BY <2>2, <3>1, <3>2, <3>3 DEF Ends
    <3>4. CASE r.outcome = "throw"
      BY <2>2, <3>1, <3>2, <3>4 DEF Ends
    <3>5. CASE r.outcome = "abort"
      BY <2>3, <3>1, <3>2, <3>5 DEF Ends
    <3> QED
      BY <3>2, <3>3, <3>4, <3>5 DEF Ends
  <2>6. ASSUME NEW b \in live, Deallocate(b) PROVE AllocInv'
    <3>1. Whole(heap', live')
      BY <2>1, <2>6, DeallocatedWhole DEF Deallocate
    <3> QED
      BY <1>1, <2>1, <2>2, <2>6, <3>1 DEF Deallocate, Inv
  <2>7. ASSUME NEW b \in live, NEW size \in Sizes, Reallocate(b, size) PROVE AllocInv'
    <3>1. PICK r \in Reallocated(heap, b.addr, b.size, size) :
            /\ heap' = r.heap
            /\ live' = IF r.outcome = "ok" THEN (live \ {b}) \cup {Block(r.unit, size)} ELSE live
            /\ aborted' = (r.outcome = "abort")
      BY <2>7 DEF Reallocate
    <3>2. /\ r.outcome \in {"ok", "throw", "abort"} /\ r.heap \in Heaps
          /\ r.outcome = "ok" => Whole(r.heap, (live \ {b}) \cup {Block(r.unit, size)})
          /\ r.outcome = "throw" => Whole(r.heap, live)
          /\ r.outcome = "abort" => Sound(r.heap, live) /\ Covered(Recorded(r.heap), live)
      BY <2>1, <2>4, ReallocatedEnds
    <3>3. CASE r.outcome = "ok"
      BY <2>2, <3>1, <3>2, <3>3
    <3>4. CASE r.outcome = "throw"
      BY <2>2, <3>1, <3>2, <3>4
    <3>5. CASE r.outcome = "abort"
      BY <2>3, <3>1, <3>2, <3>5
    <3> QED
      BY <3>2, <3>3, <3>4, <3>5
  <2>8. ASSUME Destroy PROVE AllocInv'
    <3>1. Whole(heap', live')
      BY <2>1, <2>8, DestroyedWhole DEF Destroy, Whole
    <3> QED
      BY <1>1, <2>1, <2>2, <2>8, <3>1 DEF Destroy, Inv
  <2> QED
    BY <1>3, <2>5, <2>6, <2>7, <2>8 DEF Next
<1> QED
  BY <1>2, <1>3

\* Units in use, free units, the pool and the memory malloc() can still give never share a
\* byte (AllocInv), whatever the sizes, the bounds and the calls, and whatever fails.
THEOREM AlwaysAllocInv == Spec => []AllocInv
BY InitAllocInv, NextAllocInv, PTL DEF Spec

\* The allocator's members and the clients' blocks keep their types (TypeOK).
THEOREM AlwaysTypeOK == Spec => []TypeOK
<1>1. AllocInv => TypeOK
  BY DEF AllocInv
<1> QED
  BY <1>1, AlwaysAllocInv, PTL

\* No two blocks that clients hold share a byte (BlocksApart).
THEOREM AlwaysBlocksApart == Spec => []BlocksApart
<1>1. AllocInv => BlocksApart
  BY DEF AllocInv, LiveApart, BlocksApart
<1> QED
  BY <1>1, AlwaysAllocInv, PTL

\* Every byte of every chunk has exactly one owner, a unit in use, a place of a free list or
\* the pool, whatever failed meanwhile, abort() included (Partition).
THEOREM AlwaysPartition == Spec => []Partition
BY PartitionHolds, AlwaysAllocInv, PTL
=============================================================================
