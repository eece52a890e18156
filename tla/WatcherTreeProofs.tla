-------------------------- MODULE WatcherTreeProofs --------------------------
(***************************************************************************)
(* Theorems about the tree of watchers, for any watchers, values and paths. *)
(***************************************************************************)
EXTENDS WatcherTree, Numbers, SequenceTheorems, TLAPS

Watchers == Values \cup Functions

-----------------------------------------------------------------------------
(* Paths.                                                                    *)

\* The beginning of a sequence.
LEMMA PrefixIs ==
  ASSUME NEW S, NEW s \in Seq(S), NEW n \in 0..Len(s)
  PROVE  /\ SubSeq(s, 1, n) \in Seq(S) /\ Len(SubSeq(s, 1, n)) = n
         /\ \A i \in 1..n : SubSeq(s, 1, n)[i] = s[i]
<1>1. Len(s) \in Nat
  BY LenProperties
<1>2. \A i \in 1..n : i \in 1..Len(s)
  BY <1>1
<1>3. \A i \in 1..n : s[i] \in S
  BY <1>2, ElementOfSeq
<1>4. 1 \in Int /\ n \in Int
  BY <1>1
<1>5. \A i \in 1..n : s[i] \in S /\ i \in Nat
  BY <1>3
<1> QED
  BY <1>1, <1>2, <1>3, <1>4, SubSeqProperties

\* The last element of a sequence and what comes before it.
LEMMA FrontIs ==
  ASSUME NEW S, NEW s \in Seq(S), s # <<>>
  PROVE  /\ Len(s) \in Nat \ {0} /\ Last(s) \in S
         /\ Front(s) \in Seq(S) /\ Len(Front(s)) = Len(s) - 1
         /\ \A i \in 1..(Len(s) - 1) : Front(s)[i] = s[i]
         /\ s = Append(Front(s), Last(s))
<1>1. Len(s) \in Nat \ {0}
  BY EmptySeq, LenProperties
<1>2. Last(s) \in S
  BY <1>1, ElementOfSeq DEF Last
<1>3. /\ Front(s) \in Seq(S) /\ Len(Front(s)) = Len(s) - 1
      /\ \A i \in 1..(Len(s) - 1) : Front(s)[i] = s[i]
  <2>1. \A k \in Nat \ {0} : k - 1 \in 0..k
    OBVIOUS
  <2>2. Len(s) - 1 \in 0..Len(s)
    BY <1>1, <2>1
  <2> QED
    BY <2>2, PrefixIs DEF Front
<1>4. s = Append(Front(s), Last(s))
  <2> DEFINE t == Append(Front(s), Last(s))
  <2>1. /\ t \in Seq(S) /\ Len(t) = Len(s) - 1 + 1
        /\ \A i \in 1..(Len(s) - 1) : t[i] = s[i]
        /\ t[Len(s)] = s[Len(s)]
    <3>1. /\ t \in Seq(S) /\ Len(t) = Len(Front(s)) + 1
          /\ \A i \in 1..Len(Front(s)) : t[i] = Front(s)[i]
          /\ t[Len(Front(s)) + 1] = Last(s)
      BY <1>2, <1>3, AppendProperties
    <3> QED
      BY <1>1, <1>3, <3>1 DEF Last
  <2> HIDE DEF t
  <2>2. Len(t) = Len(s) /\ \A i \in 1..Len(s) : t[i] = s[i]
    <3>1. \A i \in 1..Len(s) : i \in 1..(Len(s) - 1) \/ i = Len(s)
      BY <1>1
    <3> QED
      BY <1>1, <2>1, <3>1
  <2>3. t = s
    BY <2>1, <2>2, SeqEqual
  <2> QED
    BY <2>3 DEF t
<1> QED
  BY <1>1, <1>2, <1>3, <1>4

\* A sequence with an element appended.
LEMMA AppendIs ==
  ASSUME NEW S, NEW s \in Seq(S), NEW x \in S
  PROVE  /\ Append(s, x) \in Seq(S) /\ Append(s, x) # <<>>
         /\ Len(Append(s, x)) = Len(s) + 1
         /\ Front(Append(s, x)) = s /\ Last(Append(s, x)) = x
<1> DEFINE t == Append(s, x)
<1>1. Len(s) \in Nat
  BY LenProperties
<1>2. /\ t \in Seq(S) /\ Len(t) = Len(s) + 1
      /\ \A i \in 1..Len(s) : t[i] = s[i]
      /\ t[Len(s) + 1] = x
  BY AppendProperties
<1> HIDE DEF t
<1>3. t # <<>>
  BY <1>1, <1>2, EmptySeq
<1>4. Last(t) = x
  BY <1>2 DEF Last
<1>5. Len(Front(t)) = Len(s) /\ Front(t) \in Seq(S) /\ \A i \in 1..Len(s) : Front(t)[i] = s[i]
  BY <1>1, <1>2, <1>3, FrontIs
<1>6. Front(t) = s
  BY <1>5, SeqEqual
<1> QED
  BY <1>2, <1>3, <1>4, <1>6 DEF t

\* The beginnings of a beginning.
LEMMA PrefixOfPrefix ==
  ASSUME NEW S, NEW s \in Seq(S), NEW n \in 0..Len(s), NEW m \in 0..n
  PROVE  SubSeq(SubSeq(s, 1, n), 1, m) = SubSeq(s, 1, m)
<1>1. Len(s) \in Nat /\ m \in 0..Len(s)
  BY LenProperties
<1> DEFINE t == SubSeq(s, 1, n)
<1>2. t \in Seq(S) /\ Len(t) = n /\ \A i \in 1..n : t[i] = s[i]
  BY PrefixIs
<1> HIDE DEF t
<1> DEFINE u == SubSeq(t, 1, m)
           v == SubSeq(s, 1, m)
<1>3. u \in Seq(S) /\ Len(u) = m /\ \A i \in 1..m : u[i] = t[i]
  BY <1>2, PrefixIs
<1>4. v \in Seq(S) /\ Len(v) = m /\ \A i \in 1..m : v[i] = s[i]
  BY <1>1, PrefixIs
<1> HIDE DEF u, v
<1>5. \A i \in 1..m : u[i] = v[i]
  BY <1>1, <1>2, <1>3, <1>4
<1>6. u = v
  BY <1>3, <1>4, <1>5, SeqEqual
<1> QED
  BY <1>6 DEF t, u, v

\* A step of the walk along s.
LEMMA StepOfWay ==
  ASSUME NEW S, NEW s \in Seq(S), NEW n \in 1..Len(s)
  PROVE  /\ SubSeq(s, 1, n) # <<>>
         /\ Front(SubSeq(s, 1, n)) = SubSeq(s, 1, n - 1) /\ Last(SubSeq(s, 1, n)) = s[n]
<1>1. n \in 0..Len(s) /\ n \in Nat /\ n # 0 /\ n - 1 \in 0..n /\ Len(s) \in Nat
  BY LenProperties
<1> DEFINE t == SubSeq(s, 1, n)
<1>2. t \in Seq(S) /\ Len(t) = n /\ \A i \in 1..n : t[i] = s[i]
  BY <1>1, PrefixIs
<1>3. SubSeq(t, 1, n - 1) = SubSeq(s, 1, n - 1)
  BY <1>1, PrefixOfPrefix
<1> HIDE DEF t
<1>4. t # <<>>
  BY <1>1, <1>2, EmptySeq
<1>5. Front(t) = SubSeq(s, 1, n - 1)
  BY <1>2, <1>3 DEF Front
<1>6. Last(t) = s[n]
  BY <1>1, <1>2 DEF Last
<1> QED
  BY <1>4, <1>5, <1>6 DEF t

\* The whole way, and none of it.
LEMMA WholeWay ==
  ASSUME NEW S, NEW s \in Seq(S)
  PROVE  SubSeq(s, 1, Len(s)) = s /\ SubSeq(s, 1, 0) = <<>>
<1>1. Len(s) \in Nat
  BY LenProperties
<1>2. SubSeq(s, 1, Len(s)) \in Seq(S) /\ Len(SubSeq(s, 1, Len(s))) = Len(s)
      /\ \A i \in 1..Len(s) : SubSeq(s, 1, Len(s))[i] = s[i]
  BY <1>1, PrefixIs
<1>3. SubSeq(s, 1, Len(s)) = s
  BY <1>2, SeqEqual
<1> QED
  BY <1>3, SubSeqEmpty

\* A prefix is a beginning.
LEMMA IsPrefixIs ==
  ASSUME NEW S, NEW q \in Seq(S), NEW p \in Seq(S)
  PROVE  /\ IsPrefix(q, p) <=> \E n \in 0..Len(p) : q = SubSeq(p, 1, n)
         /\ IsPrefix(q, p) => Len(q) \in 0..Len(p) /\ q = SubSeq(p, 1, Len(q))
<1>1. Len(p) \in Nat /\ Len(q) \in Nat
  BY LenProperties
<1>2. SubSeq(q, 1, Len(q)) = q
  BY WholeWay
<1>3. IsPrefix(q, p) => Len(q) \in 0..Len(p) /\ q = SubSeq(p, 1, Len(q))
  BY <1>1, <1>2 DEF IsPrefix
<1>4. ASSUME NEW n \in 0..Len(p), q = SubSeq(p, 1, n)
      PROVE  IsPrefix(q, p)
  <2>1. Len(q) = n
    BY <1>4, PrefixIs
  <2> QED
    BY <1>1, <1>2, <1>4, <2>1 DEF IsPrefix
<1> QED
  BY <1>3, <1>4

\* Prefixes of a beginning are prefixes, and all but the sequence itself are prefixes of what
\* comes before its last element.
LEMMA PrefixesNest ==
  ASSUME NEW S, NEW p \in Seq(S), NEW q \in Seq(S)
  PROVE  /\ \A n \in 0..Len(q) : IsPrefix(p, SubSeq(q, 1, n)) => IsPrefix(p, q)
         /\ IsPrefix(p, q) /\ p # q => q # <<>> /\ IsPrefix(p, Front(q))
<1>1. ASSUME NEW n \in 0..Len(q), IsPrefix(p, SubSeq(q, 1, n))
      PROVE  IsPrefix(p, q)
  <2>1. SubSeq(q, 1, n) \in Seq(S) /\ Len(SubSeq(q, 1, n)) = n /\ Len(q) \in Nat
    BY PrefixIs, LenProperties
  <2>2. PICK m \in 0..n : p = SubSeq(SubSeq(q, 1, n), 1, m)
    <3> DEFINE r == SubSeq(q, 1, n)
    <3> HIDE DEF r
    <3>1. r \in Seq(S) /\ Len(r) = n /\ IsPrefix(p, r)
      BY <1>1, <2>1 DEF r
    <3>2. \E m \in 0..Len(r) : p = SubSeq(r, 1, m)
      BY <3>1, IsPrefixIs
    <3> QED
      BY <3>1, <3>2 DEF r
  <2>3. p = SubSeq(q, 1, m) /\ m \in 0..Len(q)
    BY <2>1, <2>2, PrefixOfPrefix
  <2> QED
    BY <2>3, IsPrefixIs
<1>2. ASSUME IsPrefix(p, q), p # q
      PROVE  q # <<>> /\ IsPrefix(p, Front(q))
  <2>1. PICK m \in 0..Len(q) : p = SubSeq(q, 1, m)
    BY <1>2, IsPrefixIs
  <2>2. Len(q) \in Nat /\ m # Len(q)
    BY <1>2, <2>1, WholeWay, LenProperties
  <2>3. PICK n \in 0..Len(q) : n = Len(q) - 1 /\ m \in 0..n
    <3>1. \A k \in Nat : m \in 0..k /\ m # k => k - 1 \in 0..k /\ m \in 0..(k - 1)
      OBVIOUS
    <3> QED
      BY <2>2, <3>1
  <2>4. q # <<>>
    BY <2>2, EmptySeq
  <2>5. Front(q) \in Seq(S) /\ Len(Front(q)) = n /\ Front(q) = SubSeq(q, 1, n)
    BY <2>3, <2>4, FrontIs DEF Front
  <2>6. p = SubSeq(Front(q), 1, m)
    BY <2>1, <2>3, <2>5, PrefixOfPrefix
  <2> QED
    BY <2>3, <2>4, <2>5, <2>6, IsPrefixIs
<1> QED
  BY <1>1, <1>2

-----------------------------------------------------------------------------
(* Containers.                                                               *)

\* An element in the middle of a sequence.
LEMMA InsertAtIs ==
  ASSUME NEW S, NEW s \in Seq(S), NEW k \in 1..(Len(s) + 1), NEW e \in S
  PROVE  /\ InsertAt(s, k, e) \in Seq(S) /\ Len(InsertAt(s, k, e)) = Len(s) + 1
         /\ \A i \in 1..(k - 1) : InsertAt(s, k, e)[i] = s[i]
         /\ InsertAt(s, k, e)[k] = e
         /\ \A i \in (k + 1)..(Len(s) + 1) : InsertAt(s, k, e)[i] = s[i - 1]
<1>1. Len(s) \in Nat /\ k \in Int /\ k - 1 \in 0..Len(s) /\ k - 1 \in Nat
  BY LenProperties
<1> DEFINE a == SubSeq(s, 1, k - 1)
           b == SubSeq(s, k, Len(s))
<1>2. a \in Seq(S) /\ Len(a) = k - 1 /\ \A i \in 1..(k - 1) : a[i] = s[i]
  BY <1>1, PrefixIs
<1>3. /\ b \in Seq(S) /\ Len(b) = Len(s) - k + 1
      /\ \A i \in 1..(Len(s) - k + 1) : b[i] = s[k + i - 1]
  <2>1. \A i \in k..Len(s) : s[i] \in S
    BY <1>1, ElementOfSeq
  <2>2. Len(b) = IF k <= Len(s) THEN Len(s) - k + 1 ELSE 0
    BY <1>1, <2>1, SubSeqProperties
  <2>3. Len(b) = Len(s) - k + 1
    BY <1>1, <2>2
  <2> QED
    BY <1>1, <2>1, <2>3, SubSeqProperties
<1>4. <<e>> \in Seq(S) /\ Len(<<e>>) = 1 /\ <<e>>[1] = e
  OBVIOUS
<1> HIDE DEF a, b
<1> DEFINE c == a \o <<e>>
<1>5. /\ c \in Seq(S) /\ Len(c) = k
      /\ \A i \in 1..(k - 1) : c[i] = s[i]
      /\ c[k] = e
  <2>1. /\ c \in Seq(S) /\ Len(c) = Len(a) + 1
        /\ \A i \in 1..(Len(a) + 1) : c[i] = IF i <= Len(a) THEN a[i] ELSE <<e>>[i - Len(a)]
    BY <1>2, <1>4, ConcatProperties
  <2>2. k \in 1..(Len(a) + 1) /\ ~(k <= Len(a)) /\ k - Len(a) = 1
    BY <1>1, <1>2
  <2>3. c[k] = <<e>>[1]
    BY <2>1, <2>2
  <2>4. \A i \in 1..(k - 1) : i \in 1..(Len(a) + 1) /\ i <= Len(a)
    BY <1>1, <1>2
  <2> QED
    BY <1>1, <1>2, <1>4, <2>1, <2>3, <2>4
<1> HIDE DEF c
<1> DEFINE d == c \o b
<1>6. /\ d \in Seq(S) /\ Len(d) = Len(c) + Len(b)
      /\ \A i \in 1..(Len(c) + Len(b)) : d[i] = IF i <= Len(c) THEN c[i] ELSE b[i - Len(c)]
  BY <1>3, <1>5, ConcatProperties
<1>7. InsertAt(s, k, e) = d
  BY DEF InsertAt, a, b, c, d
<1> HIDE DEF d
<1>8. Len(d) = Len(s) + 1
  BY <1>1, <1>3, <1>5, <1>6
<1>9. \A i \in 1..k : d[i] = c[i]
  BY <1>1, <1>3, <1>5, <1>6
<1>10. ASSUME NEW i \in (k + 1)..(Len(s) + 1) PROVE d[i] = s[i - 1]
  <2>1. i \in 1..(Len(c) + Len(b)) /\ ~(i <= Len(c)) /\ i - Len(c) = i - k
    BY <1>1, <1>3, <1>5
  <2>2. i - k \in 1..(Len(s) - k + 1) /\ k + (i - k) - 1 = i - 1
    BY <1>1
  <2> QED
    BY <1>3, <1>6, <2>1, <2>2
<1> QED
  BY <1>1, <1>5, <1>6, <1>7, <1>8, <1>9, <1>10

\* A sequence without one of its elements.
LEMMA RemoveAtIs ==
  ASSUME NEW S, NEW s \in Seq(S), NEW k \in 1..Len(s)
  PROVE  /\ RemoveAt(s, k) \in Seq(S) /\ Len(RemoveAt(s, k)) = Len(s) - 1
         /\ \A i \in 1..(k - 1) : RemoveAt(s, k)[i] = s[i]
         /\ \A i \in k..(Len(s) - 1) : RemoveAt(s, k)[i] = s[i + 1]
<1>1. Len(s) \in Nat /\ k \in Int /\ k - 1 \in 0..Len(s) /\ k - 1 \in Nat
  BY LenProperties
<1> DEFINE a == SubSeq(s, 1, k - 1)
           b == SubSeq(s, k + 1, Len(s))
<1>2. a \in Seq(S) /\ Len(a) = k - 1 /\ \A i \in 1..(k - 1) : a[i] = s[i]
  BY <1>1, PrefixIs
<1>3. /\ b \in Seq(S) /\ Len(b) = Len(s) - k
      /\ \A i \in 1..(Len(s) - k) : b[i] = s[k + i]
  <2>1. \A i \in (k + 1)..Len(s) : s[i] \in S
    BY <1>1, ElementOfSeq
  <2>2. k + 1 \in Int /\ Len(s) \in Int
    BY <1>1
  <2>3. /\ b \in Seq(S) /\ Len(b) = IF k + 1 <= Len(s) THEN Len(s) - (k + 1) + 1 ELSE 0
        /\ \A i \in 1..(Len(s) - (k + 1) + 1) : b[i] = s[k + 1 + i - 1]
    BY <2>1, <2>2, SubSeqProperties
  <2>4. Len(s) - (k + 1) + 1 = Len(s) - k /\ \A i \in 1..(Len(s) - k) : k + 1 + i - 1 = k + i
    BY <1>1
  <2> QED
    BY <1>1, <2>3, <2>4
<1> HIDE DEF a, b
<1> DEFINE d == a \o b
<1>6. /\ d \in Seq(S) /\ Len(d) = Len(a) + Len(b)
      /\ \A i \in 1..(Len(a) + Len(b)) : d[i] = IF i <= Len(a) THEN a[i] ELSE b[i - Len(a)]
  BY <1>2, <1>3, ConcatProperties
<1>7. RemoveAt(s, k) = d
  BY DEF RemoveAt, a, b, d
<1> HIDE DEF d
<1>8. Len(d) = Len(s) - 1
  BY <1>1, <1>2, <1>3, <1>6
<1>9. \A i \in 1..(k - 1) : d[i] = s[i]
  <2>1. \A i \in 1..(k - 1) : i \in 1..(Len(a) + Len(b)) /\ i <= Len(a)
    BY <1>1, <1>2, <1>3
  <2> QED
    BY <1>2, <1>6, <2>1
<1>10. ASSUME NEW i \in k..(Len(s) - 1) PROVE d[i] = s[i + 1]
  <2>1. i \in 1..(Len(a) + Len(b)) /\ ~(i <= Len(a)) /\ i - Len(a) = i - k + 1
    BY <1>1, <1>2, <1>3
  <2>2. i - k + 1 \in 1..(Len(s) - k) /\ k + (i - k + 1) = i + 1
    BY <1>1
  <2> QED
    BY <1>3, <1>6, <2>1, <2>2
<1> QED
  BY <1>6, <1>7, <1>8, <1>9, <1>10

\* Where a new entry goes: behind those with smaller labels.
LEMMA PlaceIs ==
  ASSUME NEW s \in Seq(Entry), Ordered(s), NEW e \in Entry,
         \A i \in DOMAIN s : s[i].label # e.label
  PROVE  \E k \in 1..(Len(s) + 1) :
           /\ Insert(s, e) = InsertAt(s, k, e)
           /\ \A i \in 1..(k - 1) : s[i].label < e.label
           /\ \A i \in k..Len(s) : s[i].label > e.label
<1>1. Len(s) \in Nat /\ DOMAIN s = 1..Len(s) /\ e.label \in Nat
      /\ \A i \in DOMAIN s : s[i].label \in Nat
  <2>1. \A i \in 1..Len(s) : s[i] \in Entry
    BY ElementOfSeq
  <2>2. \A f \in Entry : f.label \in Nat
    BY DEF Entry
  <2> QED
    BY <2>1, <2>2, LenProperties
<1> DEFINE T == {Len(s) + 1} \cup {i \in DOMAIN s : s[i].label >= e.label}
<1>2. T \in SUBSET Nat /\ T # {} /\ T \subseteq 1..(Len(s) + 1)
  BY <1>1
<1>3. PICK m \in T : \A n \in T : m <= n
  BY <1>2, LeastNat
<1>4. Min(T) = m
  <2>1. \A x \in T : (\A n \in T : x <= n) => x = m
    BY <1>2, <1>3
  <2> QED
    BY <1>3, <2>1 DEF Min
<1>5. Insert(s, e) = InsertAt(s, m, e) /\ m \in 1..(Len(s) + 1)
  BY <1>2, <1>4 DEF Insert
<1>6. ASSUME NEW i \in 1..(m - 1) PROVE s[i].label < e.label
  <2>1. i \in DOMAIN s /\ ~(m <= i)
    BY <1>1, <1>5
  <2>2. i \notin T
    BY <1>3, <2>1
  <2> QED
    BY <1>1, <2>1, <2>2
<1>7. ASSUME NEW i \in m..Len(s) PROVE s[i].label > e.label
  <2>1. i \in DOMAIN s /\ m \in DOMAIN s /\ m # Len(s) + 1
    BY <1>1, <1>5
  <2>2. s[m].label >= e.label
    BY <1>3, <2>1
  <2>3. m = i \/ s[m].label < s[i].label
    BY <1>1, <2>1 DEF Ordered
  <2> QED
    BY <1>1, <2>1, <2>2, <2>3
<1> QED
  BY <1>5, <1>6, <1>7

\* An entry under a new label joins the others, and the labels stay in order.
LEMMA InsertIs ==
  ASSUME NEW s \in Seq(Entry), Ordered(s), NEW e \in Entry,
         \A i \in DOMAIN s : s[i].label # e.label
  PROVE  /\ Insert(s, e) \in Seq(Entry) /\ Ordered(Insert(s, e))
         /\ ToSet(Insert(s, e)) = ToSet(s) \cup {e}
<1>1. PICK k \in 1..(Len(s) + 1) :
        /\ Insert(s, e) = InsertAt(s, k, e)
        /\ \A i \in 1..(k - 1) : s[i].label < e.label
        /\ \A i \in k..Len(s) : s[i].label > e.label
  BY PlaceIs
<1> DEFINE t == InsertAt(s, k, e)
<1>2. /\ t \in Seq(Entry) /\ Len(t) = Len(s) + 1
      /\ \A i \in 1..(k - 1) : t[i] = s[i]
      /\ t[k] = e
      /\ \A i \in (k + 1)..(Len(s) + 1) : t[i] = s[i - 1]
  BY InsertAtIs
<1> HIDE DEF t
<1>3. /\ Len(s) \in Nat /\ DOMAIN s = 1..Len(s) /\ DOMAIN t = 1..(Len(s) + 1) /\ e.label \in Nat
      /\ \A i \in DOMAIN s : s[i].label \in Nat
  <2>1. \A i \in 1..Len(s) : s[i] \in Entry
    BY ElementOfSeq
  <2>2. \A f \in Entry : f.label \in Nat
    BY DEF Entry
  <2> QED
    BY <1>2, <2>1, <2>2, LenProperties
<1>4. ASSUME NEW i \in DOMAIN t, NEW j \in DOMAIN t, i < j PROVE t[i].label < t[j].label
  <2>1. CASE j < k
    <3>1. i \in 1..(k - 1) /\ j \in 1..(k - 1) /\ i \in DOMAIN s /\ j \in DOMAIN s
      BY <1>3, <1>4, <2>1
    <3> QED
      BY <1>2, <1>4, <3>1 DEF Ordered
  <2>2. CASE j = k
    <3>1. i \in 1..(k - 1)
      BY <1>3, <1>4, <2>2
    <3> QED
      BY <1>1, <1>2, <2>2, <3>1
  <2>3. CASE j > k
    <3>1. j \in (k + 1)..(Len(s) + 1) /\ j - 1 \in k..Len(s) /\ j - 1 \in DOMAIN s
      BY <1>3, <2>3
    <3>2. t[j] = s[j - 1] /\ s[j - 1].label > e.label
      BY <1>1, <1>2, <3>1
    <3>3. CASE i < k
      <4>1. i \in 1..(k - 1) /\ i \in DOMAIN s /\ i < j - 1
        BY <1>3, <1>4, <2>3, <3>3
      <4> QED
        BY <1>2, <3>1, <3>2, <4>1 DEF Ordered
    <3>4. CASE i = k
      BY <1>2, <1>3, <3>1, <3>2, <3>4
    <3>5. CASE i > k
      <4>1. i \in (k + 1)..(Len(s) + 1) /\ i - 1 \in DOMAIN s /\ i - 1 < j - 1
        BY <1>3, <1>4, <3>5
      <4> QED
        BY <1>2, <3>1, <3>2, <4>1 DEF Ordered
    <3> QED
      BY <1>3, <3>3, <3>4, <3>5
  <2> QED
    BY <1>3, <2>1, <2>2, <2>3
<1>5. ASSUME NEW i \in DOMAIN t PROVE t[i] \in ToSet(s) \cup {e}
  <2>1. CASE i < k
    <3>1. i \in 1..(k - 1) /\ i \in DOMAIN s
      BY <1>3, <2>1
    <3> QED
      BY <1>2, <3>1 DEF ToSet
  <2>2. CASE i = k
    BY <1>2, <2>2
  <2>3. CASE i > k
    <3>1. i \in (k + 1)..(Len(s) + 1) /\ i - 1 \in DOMAIN s
      BY <1>3, <2>3
    <3> QED
      BY <1>2, <3>1 DEF ToSet
  <2> QED
    BY <1>3, <2>1, <2>2, <2>3
<1>6. ASSUME NEW i \in DOMAIN s PROVE s[i] \in ToSet(t)
  <2>1. CASE i < k
    <3>1. i \in 1..(k - 1) /\ i \in DOMAIN t
      BY <1>3, <2>1
    <3> QED
      BY <1>2, <3>1 DEF ToSet
  <2>2. CASE i >= k
    <3>1. i + 1 \in (k + 1)..(Len(s) + 1) /\ i + 1 \in DOMAIN t /\ i + 1 - 1 = i
      BY <1>3, <2>2
    <3> QED
      BY <1>2, <3>1 DEF ToSet
  <2> QED
    BY <1>3, <2>1, <2>2
<1>7. e \in ToSet(t)
  BY <1>2, <1>3 DEF ToSet
<1>8. ToSet(t) = ToSet(s) \cup {e}
  BY <1>5, <1>6, <1>7 DEF ToSet
<1>9. Ordered(t)
  BY <1>4 DEF Ordered
<1> QED
  BY <1>1, <1>2, <1>8, <1>9 DEF t

\* An entry is removed, and the labels stay in order.
LEMMA RemoveIs ==
  ASSUME NEW s \in Seq(Entry), Ordered(s), NEW k \in DOMAIN s
  PROVE  /\ RemoveAt(s, k) \in Seq(Entry) /\ Ordered(RemoveAt(s, k))
         /\ ToSet(RemoveAt(s, k)) = {e \in ToSet(s) : e.label # s[k].label}
<1> DEFINE t == RemoveAt(s, k)
<1>1. Len(s) \in Nat /\ DOMAIN s = 1..Len(s) /\ \A i \in DOMAIN s : s[i].label \in Nat
  <2>1. \A i \in 1..Len(s) : s[i] \in Entry
    BY ElementOfSeq
  <2>2. \A f \in Entry : f.label \in Nat
    BY SMTT(30) DEF Entry
  <2> QED
    BY <2>1, <2>2, LenProperties
<1>2. /\ t \in Seq(Entry) /\ Len(t) = Len(s) - 1
      /\ \A i \in 1..(k - 1) : t[i] = s[i]
      /\ \A i \in k..(Len(s) - 1) : t[i] = s[i + 1]
  BY <1>1, RemoveAtIs
<1> HIDE DEF t
<1>3. DOMAIN t = 1..(Len(s) - 1)
  BY <1>2, LenProperties
<1> DEFINE f(i) == IF i < k THEN i ELSE i + 1
<1>4. ASSUME NEW i \in DOMAIN t PROVE f(i) \in DOMAIN s \ {k} /\ t[i] = s[f(i)]
  <2>1. CASE i < k
    BY <1>1, <1>2, <1>3, <2>1
  <2>2. CASE i >= k
    BY <1>1, <1>2, <1>3, <2>2
  <2> QED
    BY <1>1, <1>3, <2>1, <2>2
<1>5. ASSUME NEW i \in DOMAIN t, NEW j \in DOMAIN t, i < j PROVE t[i].label < t[j].label
  <2>1. f(i) < f(j)
    BY <1>1, <1>3, <1>5
  <2> QED
    BY <1>4, <2>1 DEF Ordered
<1>6. ASSUME NEW i \in DOMAIN s, i # k PROVE s[i].label # s[k].label
  <2>1. i < k \/ k < i
    BY <1>1, <1>6
  <2> QED
    BY <1>1, <2>1 DEF Ordered
<1>7. ASSUME NEW i \in DOMAIN s, i # k PROVE s[i] \in ToSet(t)
  <2>1. CASE i < k
    <3>1. i \in 1..(k - 1) /\ i \in DOMAIN t
      BY <1>1, <1>3, <2>1
    <3> QED
      BY <1>2, <3>1 DEF ToSet
  <2>2. CASE i > k
    <3>1. i - 1 \in k..(Len(s) - 1) /\ i - 1 \in DOMAIN t /\ i - 1 + 1 = i
      BY <1>1, <1>3, <2>2
    <3> QED
      BY <1>2, <3>1 DEF ToSet
  <2> QED
    BY <1>1, <1>7, <2>1, <2>2
<1> HIDE DEF f
<1>8. ToSet(t) = {e \in ToSet(s) : e.label # s[k].label}
  <2>1. \A e \in ToSet(t) : e \in ToSet(s) /\ e.label # s[k].label
    BY <1>4, <1>6 DEF ToSet
  <2>2. \A e \in ToSet(s) : e.label # s[k].label => e \in ToSet(t)
    BY <1>7 DEF ToSet
  <2> QED
    BY <2>1, <2>2
<1>9. Ordered(t)
  BY <1>5 DEF Ordered
<1> QED
  BY <1>2, <1>8, <1>9 DEF t

-----------------------------------------------------------------------------
(* What paths lead to.                                                       *)

Kinds == Watchers \cup {Director}

\* An entry is a label and what it holds.
LEMMA EntryIs ==
  /\ \A e \in Entry : e.label \in Nat /\ e.label # Empty /\ e.watcher \in Kinds
                      /\ e = [label |-> e.label, watcher |-> e.watcher]
  /\ \A l \in Nat, w \in Kinds : l # Empty => [label |-> l, watcher |-> w] \in Entry
BY DEF Entry, Kinds, Watchers

\* The entries of a director are its container's elements.
LEMMA EntryTypes ==
  ASSUME NEW t, Containers(t), NEW d \in DOMAIN t
  PROVE  t[d] \in Seq(Entry) /\ DOMAIN t[d] \in SUBSET Nat /\ ToSet(t[d]) \subseteq Entry
         /\ \A i \in DOMAIN t[d] : t[d][i] \in Entry
<1>1. t[d] \in Seq(Entry)
  BY DEF Containers
<1>2. DOMAIN t[d] = 1..Len(t[d]) /\ Len(t[d]) \in Nat /\ \A i \in 1..Len(t[d]) : t[d][i] \in Entry
  BY <1>1, LenProperties, ElementOfSeq
<1> QED
  BY <1>1, <1>2 DEF ToSet

\* find_child() finds the one entry under a label.
LEMMA FindIs ==
  ASSUME NEW t, Containers(t), LabelsInOrder(t), NEW d \in DOMAIN t
  PROVE  /\ \A e \in ToSet(t[d]) : FindChild(t, d, e.label) = e.watcher
         /\ \A l : FindChild(t, d, l) # Absent =>
              /\ [label |-> l, watcher |-> FindChild(t, d, l)] \in ToSet(t[d])
              /\ FindChild(t, d, l) \in Kinds /\ l # Empty /\ l \in Nat
         /\ \A l : l # Empty /\ FindChild(t, d, l) = Absent => \A i \in DOMAIN t[d] : t[d][i].label # l
<1>1. /\ DOMAIN t[d] \in SUBSET Nat /\ \A i \in DOMAIN t[d] : t[d][i] \in Entry
      /\ \A i \in DOMAIN t[d] : t[d][i].label \in Nat
  BY EntryTypes, EntryIs
<1>2. ASSUME NEW i \in DOMAIN t[d], NEW j \in DOMAIN t[d], t[d][i].label = t[d][j].label
      PROVE  i = j
  <2>1. ~(i < j) /\ ~(j < i)
    BY <1>1, <1>2 DEF LabelsInOrder, Ordered
  <2> QED
    BY <1>1, <2>1
<1>3. ASSUME NEW i \in DOMAIN t[d]
      PROVE  FindChild(t, d, t[d][i].label) = t[d][i].watcher
  <2>1. Matches(t, d, t[d][i].label) = {i}
    BY <1>2 DEF Matches
  <2>2. Min({i}) = i
    BY <1>1 DEF Min
  <2>3. t[d][i].label # Empty
    BY <1>1, EntryIs
  <2> QED
    BY <2>1, <2>2, <2>3 DEF FindChild
<1>4. ASSUME NEW l, FindChild(t, d, l) # Absent
      PROVE  \E i \in DOMAIN t[d] : t[d][i].label = l
  BY <1>4 DEF FindChild, Matches
<1>5. ASSUME NEW i \in DOMAIN t[d] PROVE t[d][i].watcher # Absent
  BY <1>1, EntryIs, KindsAssumption DEF Kinds, Watchers
<1>6. ASSUME NEW l, FindChild(t, d, l) # Absent
      PROVE  /\ [label |-> l, watcher |-> FindChild(t, d, l)] \in ToSet(t[d])
             /\ FindChild(t, d, l) \in Kinds /\ l # Empty /\ l \in Nat
  <2>1. PICK i \in DOMAIN t[d] : t[d][i].label = l
    BY <1>4, <1>6
  <2>2. FindChild(t, d, l) = t[d][i].watcher
    BY <1>3, <2>1
  <2>3. t[d][i] \in Entry /\ t[d][i] \in ToSet(t[d])
    BY <1>1 DEF ToSet
  <2> QED
    BY <2>1, <2>2, <2>3, EntryIs
<1> QED
  BY <1>3, <1>5, <1>6 DEF ToSet

\* A walk gets to the last label if what is before it is the path of a director.
LEMMA AtIs ==
  ASSUME NEW t, Containers(t), IsTree(t), NEW p \in Seq(Nat), p # Root
  PROVE  At(t, p) = IF Front(p) \in DOMAIN t THEN FindChild(t, Front(p), Last(p)) ELSE Absent
<1>1. Len(p) \in Nat \ {0} /\ Front(p) = SubSeq(p, 1, Len(p) - 1) /\ LabelsInOrder(t)
  BY FrontIs DEF Root, Front, IsTree
<1>2. ASSUME Front(p) \in DOMAIN t, NEW i \in 1..(Len(p) - 1)
      PROVE  SubSeq(p, 1, i - 1) \in DOMAIN t /\ FindChild(t, SubSeq(p, 1, i - 1), p[i]) = Director
  <2>1. i \in 0..(Len(p) - 1) /\ Len(p) - 1 \in 0..Len(p) /\ i \in 1..Len(p)
    BY <1>1
  <2>2. SubSeq(Front(p), 1, i) = SubSeq(p, 1, i) /\ Len(Front(p)) = Len(p) - 1
    BY <1>1, <2>1, PrefixOfPrefix, FrontIs DEF Root
  <2>3. SubSeq(p, 1, i) \in DOMAIN t
    BY <1>2, <2>1, <2>2 DEF IsTree, WaysAreDirs
  <2>4. SubSeq(p, 1, i) # Root /\ Front(SubSeq(p, 1, i)) = SubSeq(p, 1, i - 1)
        /\ Last(SubSeq(p, 1, i)) = p[i]
    BY <2>1, StepOfWay DEF Root
  <2>5. /\ SubSeq(p, 1, i - 1) \in DOMAIN t
        /\ [label |-> p[i], watcher |-> Director] \in ToSet(t[SubSeq(p, 1, i - 1)])
    BY <2>3, <2>4 DEF IsTree, DirsAreEntries
  <2>6. [label |-> p[i], watcher |-> Director].label = p[i]
        /\ [label |-> p[i], watcher |-> Director].watcher = Director
    OBVIOUS
  <2> QED
    BY <1>1, <2>5, <2>6, FindIs
<1>3. ASSUME \A i \in 1..(Len(p) - 1) : SubSeq(p, 1, i - 1) \in DOMAIN t
                                        /\ FindChild(t, SubSeq(p, 1, i - 1), p[i]) = Director
      PROVE  Front(p) \in DOMAIN t
  <2>1. CASE Len(p) = 1
    <3>1. Len(p) - 1 = 0 /\ SubSeq(p, 1, 0) = <<>>
      BY <2>1, WholeWay
    <3> QED
      BY <1>1, <3>1 DEF IsTree, Root
  <2>2. CASE Len(p) # 1
    <3>1. PICK i \in 1..(Len(p) - 1) : i = Len(p) - 1 /\ i \in 1..Len(p) /\ i \in 0..Len(p)
      <4>1. \A n \in Nat \ {0} : n # 1 => n - 1 \in 1..(n - 1) /\ n - 1 \in 1..n /\ n - 1 \in 0..n
        OBVIOUS
      <4> QED
        BY <1>1, <2>2, <4>1
    <3> DEFINE q == SubSeq(p, 1, i - 1)
    <3>2. q \in DOMAIN t /\ FindChild(t, q, p[i]) = Director
      BY <1>3
    <3>3. [label |-> p[i], watcher |-> Director] \in ToSet(t[q])
      BY <1>1, <3>2, FindIs, KindsAssumption
    <3>4. Append(q, p[i]) \in DOMAIN t
      BY <3>2, <3>3 DEF IsTree, EntriesAreDirs
    <3>5. SubSeq(p, 1, i) \in Seq(Nat) /\ SubSeq(p, 1, i) # <<>>
          /\ Front(SubSeq(p, 1, i)) = q /\ Last(SubSeq(p, 1, i)) = p[i]
      BY <3>1, StepOfWay, PrefixIs
    <3>6. SubSeq(p, 1, i) = Append(q, p[i])
      BY <3>5, FrontIs
    <3> QED
      BY <1>1, <3>1, <3>4, <3>6
  <2> QED
    BY <2>1, <2>2
<1> QED
  BY <1>2, <1>3 DEF At

\* What a path leads to.
LEMMA WhatIsAt ==
  ASSUME NEW t, Containers(t), IsTree(t), NEW p \in Seq(Nat)
  PROVE  /\ At(t, p) = Director <=> p \in DOMAIN t
         /\ At(t, p) \in Kinds \cup {Absent}
         /\ \A w \in Watchers :
              At(t, p) = w <=>
                p # Root /\ Front(p) \in DOMAIN t
                /\ [label |-> Last(p), watcher |-> w] \in ToSet(t[Front(p)])
<1>1. CASE p = Root
  BY <1>1, KindsAssumption DEF At, IsTree, Kinds, Watchers
<1>2. CASE p # Root
  <2>1. At(t, p) = IF Front(p) \in DOMAIN t THEN FindChild(t, Front(p), Last(p)) ELSE Absent
    BY <1>2, AtIs
  <2>2. LabelsInOrder(t)
    BY DEF IsTree
  <2>3. p = Append(Front(p), Last(p))
    BY <1>2, FrontIs DEF Root
  <2>4. At(t, p) \in Kinds \cup {Absent}
    <3>1. CASE Front(p) \in DOMAIN t
      <4>1. FindChild(t, Front(p), Last(p)) # Absent => FindChild(t, Front(p), Last(p)) \in Kinds
        BY <2>2, <3>1, FindIs
      <4> QED
        BY <2>1, <3>1, <4>1
    <3> QED
      BY <2>1, <3>1
  <2>5. ASSUME NEW w \in Kinds
        PROVE  At(t, p) = w <=>
                 Front(p) \in DOMAIN t /\ [label |-> Last(p), watcher |-> w] \in ToSet(t[Front(p)])
    <3>1. w # Absent
      BY KindsAssumption DEF Kinds, Watchers
    <3>2. [label |-> Last(p), watcher |-> w].label = Last(p)
          /\ [label |-> Last(p), watcher |-> w].watcher = w
      OBVIOUS
    <3> QED
      BY <2>1, <2>2, <3>1, <3>2, FindIs
  <2>6. At(t, p) = Director <=> p \in DOMAIN t
    <3>1. ASSUME At(t, p) = Director PROVE p \in DOMAIN t
      <4>1. Front(p) \in DOMAIN t /\ [label |-> Last(p), watcher |-> Director] \in ToSet(t[Front(p)])
        BY <2>5, <3>1 DEF Kinds
      <4> QED
        BY <2>3, <4>1 DEF IsTree, EntriesAreDirs
    <3>2. ASSUME p \in DOMAIN t PROVE At(t, p) = Director
      BY <1>2, <2>5, <3>2 DEF IsTree, DirsAreEntries, Kinds
    <3> QED
      BY <3>1, <3>2
  <2> QED
    BY <1>2, <2>4, <2>5, <2>6 DEF Kinds
<1> QED
  BY <1>1, <1>2

-----------------------------------------------------------------------------
(* Additions and removals.                                                   *)

\* The paths watchers are added at: no label but the last is empty.
IsPath(p) == p \in Seq(Nat) /\ p # Root /\ \A i \in 1..(Len(p) - 1) : p[i] # Empty

\* A director that is missing, and the way to it.
LEMMA MissingIs ==
  ASSUME NEW t, Containers(t), IsTree(t), NEW p, IsPath(p), NEW c \in Missing(t, p)
  PROVE  /\ c \in Seq(Nat) /\ c # Root /\ c \notin DOMAIN t
         /\ Last(c) \in Nat /\ Last(c) # Empty /\ Last(c) = p[Len(Front(c)) + 1]
         /\ At(t, c) = Absent /\ c = Append(Front(c), Last(c))
         /\ \A i \in 0..Len(c) : SubSeq(c, 1, i) \in DOMAIN t \cup Missing(t, p)
         /\ Front(c) \in DOMAIN t \cup Missing(t, p)
<1>1. PICK n \in 1..(Len(p) - 1) :
        /\ c = SubSeq(p, 1, n) /\ c \notin DOMAIN t
        /\ \A j \in 1..n : At(t, SubSeq(p, 1, j)) \in {Director, Absent}
  BY DEF Missing
<1>2. n \in 1..Len(p) /\ n \in 0..Len(p) /\ Len(p) \in Nat
  BY LenProperties DEF IsPath
<1>3. c \in Seq(Nat) /\ Len(c) = n /\ c # Root /\ Front(c) = SubSeq(p, 1, n - 1) /\ Last(c) = p[n]
  BY <1>1, <1>2, PrefixIs, StepOfWay DEF IsPath, Root
<1>4. Len(Front(c)) = n - 1 /\ c = Append(Front(c), Last(c)) /\ Last(c) \in Nat
  BY <1>3, FrontIs DEF Root
<1>5. At(t, c) = Absent
  <2>1. n \in 1..n
    BY <1>2
  <2>2. At(t, c) \in {Director, Absent}
    BY <1>1, <2>1
  <2> QED
    BY <1>1, <1>3, <2>2, WhatIsAt
<1>6. ASSUME NEW i \in 0..n PROVE SubSeq(c, 1, i) \in DOMAIN t \cup Missing(t, p)
  <2>1. SubSeq(c, 1, i) = SubSeq(p, 1, i)
    BY <1>1, <1>2, PrefixOfPrefix DEF IsPath
  <2>2. CASE i = 0
    BY <2>1, <2>2, WholeWay DEF IsTree, Root, IsPath
  <2>3. CASE i # 0
    <3>1. i \in 1..(Len(p) - 1) /\ \A j \in 1..i : j \in 1..n
      BY <1>2, <2>3
    <3>2. \A j \in 1..i : At(t, SubSeq(p, 1, j)) \in {Director, Absent}
      BY <1>1, <3>1
    <3> QED
      BY <2>1, <3>1, <3>2 DEF Missing
  <2> QED
    BY <2>2, <2>3
<1>7. Front(c) \in DOMAIN t \cup Missing(t, p)
  <2>1. Front(c) = SubSeq(c, 1, n - 1) /\ n - 1 \in 0..n
    BY <1>2, <1>3 DEF Front
  <2> QED
    BY <1>6, <2>1
<1>8. n - 1 + 1 = n /\ p[n] # Empty
  BY <1>2 DEF IsPath
<1> QED
  BY <1>1, <1>3, <1>4, <1>5, <1>6, <1>7, <1>8

\* What the directors hold when those that were missing are made.
LEMMA MadeIs ==
  ASSUME NEW t, Containers(t), IsTree(t), NEW p, IsPath(p)
  PROVE  /\ DOMAIN MakeDirs(t, p) = DOMAIN t \cup Missing(t, p)
         /\ \A d \in DOMAIN t \cup Missing(t, p) :
              /\ MakeDirs(t, p)[d] \in Seq(Entry) /\ Ordered(MakeDirs(t, p)[d])
              /\ \A e : e \in ToSet(MakeDirs(t, p)[d]) <=>
                   \/ d \in DOMAIN t /\ e \in ToSet(t[d])
                   \/ \E c \in Missing(t, p) :
                        Front(c) = d /\ e = [label |-> Last(c), watcher |-> Director]
<1> DEFINE u == MakeDirs(t, p)
           made == Missing(t, p)
           Old(d) == IF d \in DOMAIN t THEN t[d] ELSE <<>>
<1>1. DOMAIN u = DOMAIN t \cup made
  BY DEF MakeDirs
<1>2. ASSUME NEW d \in DOMAIN t \cup made
      PROVE  u[d] = IF \E c \in made : Front(c) = d
                      THEN Insert(Old(d), [label |-> p[Len(d) + 1], watcher |-> Director])
                      ELSE Old(d)
  BY DEF MakeDirs
<1> HIDE DEF u
<1>3. ASSUME NEW d \in DOMAIN t \cup made
      PROVE  /\ Old(d) \in Seq(Entry) /\ Ordered(Old(d))
             /\ \A e : e \in ToSet(Old(d)) <=> d \in DOMAIN t /\ e \in ToSet(t[d])
  <2>1. CASE d \in DOMAIN t
    BY <2>1 DEF Containers, IsTree, LabelsInOrder
  <2>2. CASE d \notin DOMAIN t
    <3>1. <<>> \in Seq(Entry) /\ DOMAIN (<<>>) = {}
      BY EmptySeq
    <3> QED
      BY <2>2, <3>1 DEF Ordered, ToSet
  <2> QED
    BY <2>1, <2>2
<1>4. ASSUME NEW d \in DOMAIN t \cup made
      PROVE  /\ u[d] \in Seq(Entry) /\ Ordered(u[d])
             /\ \A e : e \in ToSet(u[d]) <=>
                  \/ d \in DOMAIN t /\ e \in ToSet(t[d])
                  \/ \E c \in made : Front(c) = d /\ e = [label |-> Last(c), watcher |-> Director]
  <2>1. CASE ~\E c \in made : Front(c) = d
    <3>1. u[d] = Old(d)
      BY <1>2, <2>1
    <3> HIDE DEF Old, made
    <3> QED
      BY <1>3, <2>1, <3>1
  <2>2. CASE \E c \in made : Front(c) = d
    <3> DEFINE x == [label |-> p[Len(d) + 1], watcher |-> Director]
    <3>1. \A c \in made : Front(c) = d => Last(c) = p[Len(d) + 1]
      BY MissingIs
    <3>2. PICK c \in made : Front(c) = d
      BY <2>2
    <3>3. /\ c \in Seq(Nat) /\ c # Root /\ Last(c) \in Nat /\ Last(c) # Empty /\ At(t, c) = Absent
          /\ Last(c) = p[Len(d) + 1]
      BY <3>1, <3>2, MissingIs
    <3>4. x \in Entry
      BY <3>3, EntryIs DEF Kinds
    <3>5. \A i \in DOMAIN Old(d) : Old(d)[i].label # x.label
      <4>1. CASE d \in DOMAIN t
        <5>1. FindChild(t, d, Last(c)) = Absent
          BY <3>2, <3>3, <4>1, AtIs
        <5>2. \A i \in DOMAIN t[d] : t[d][i].label # Last(c)
          BY <3>3, <4>1, <5>1, FindIs DEF IsTree
        <5> QED
          BY <3>3, <4>1, <5>2
      <4>2. CASE d \notin DOMAIN t
        <5>1. DOMAIN (<<>>) = {}
          OBVIOUS
        <5> QED
          BY <4>2, <5>1
      <4> QED
        BY <4>1, <4>2
    <3>6. u[d] = Insert(Old(d), x)
      BY <1>2, <2>2
    <3> HIDE DEF x, Old
    <3>7. u[d] \in Seq(Entry) /\ Ordered(u[d]) /\ ToSet(u[d]) = ToSet(Old(d)) \cup {x}
      BY <1>3, <3>4, <3>5, <3>6, InsertIs
    <3>8. \A e : e = x <=> \E b \in made : Front(b) = d /\ e = [label |-> Last(b), watcher |-> Director]
      BY <3>1, <3>2 DEF x
    <3> QED
      BY <1>3, <3>7, <3>8
  <2> QED
    BY <2>1, <2>2
<1> QED
  BY <1>1, <1>4 DEF u

\* The directors that add_watcher() makes on its way leave a tree.
LEMMA MadeTree ==
  ASSUME NEW t, Containers(t), IsTree(t), NEW p, IsPath(p)
  PROVE  Containers(MakeDirs(t, p)) /\ IsTree(MakeDirs(t, p))
<1> DEFINE u == MakeDirs(t, p)
           made == Missing(t, p)
<1>1. /\ DOMAIN u = DOMAIN t \cup made
      /\ \A d \in DOMAIN t \cup made :
           /\ u[d] \in Seq(Entry) /\ Ordered(u[d])
           /\ \A e : e \in ToSet(u[d]) <=>
                \/ d \in DOMAIN t /\ e \in ToSet(t[d])
                \/ \E c \in made : Front(c) = d /\ e = [label |-> Last(c), watcher |-> Director]
  BY ZenonT(60), MadeIs
<1> HIDE DEF u
<1>2. Containers(u)
  BY <1>1, MissingIs DEF Containers
<1>3. LabelsInOrder(u) /\ Root \in DOMAIN u
  BY <1>1 DEF LabelsInOrder, IsTree
<1>4. DirsAreEntries(u)
  <2> SUFFICES ASSUME NEW d \in DOMAIN u, d # Root
               PROVE  Front(d) \in DOMAIN u
                      /\ [label |-> Last(d), watcher |-> Director] \in ToSet(u[Front(d)])
    BY DEF DirsAreEntries
  <2>1. CASE d \in DOMAIN t
    BY <1>1, <2>1 DEF IsTree, DirsAreEntries
  <2>2. CASE d \in made
    <3>1. Front(d) \in DOMAIN u
      BY <1>1, <2>2, MissingIs
    <3> HIDE DEF made
    <3> QED
      BY <1>1, <2>2, <3>1
  <2> QED
    BY <1>1, <2>1, <2>2
<1>5. EntriesAreDirs(u)
  <2> SUFFICES ASSUME NEW d \in DOMAIN u, NEW e \in ToSet(u[d]), e.watcher = Director
               PROVE  Append(d, e.label) \in DOMAIN u
    BY DEF EntriesAreDirs
  <2>1. CASE d \in DOMAIN t /\ e \in ToSet(t[d])
    BY <1>1, <2>1 DEF IsTree, EntriesAreDirs
  <2>2. ASSUME NEW c \in made, Front(c) = d, e = [label |-> Last(c), watcher |-> Director]
        PROVE  Append(d, e.label) \in DOMAIN u
    <3>1. c = Append(Front(c), Last(c))
      BY MissingIs
    <3>2. e.label = Last(c)
      BY <2>2
    <3> QED
      BY <1>1, <2>2, <3>1, <3>2
  <2> QED
    BY <1>1, <2>1, <2>2
<1>6. WaysAreDirs(u)
  <2> SUFFICES ASSUME NEW d \in DOMAIN u, NEW i \in 0..Len(d) PROVE SubSeq(d, 1, i) \in DOMAIN u
    BY DEF WaysAreDirs
  <2>1. CASE d \in DOMAIN t
    BY <1>1, <2>1 DEF IsTree, WaysAreDirs
  <2>2. CASE d \in made
    BY <1>1, <2>2, MissingIs
  <2> QED
    BY <1>1, <2>1, <2>2
<1> QED
  BY <1>2, <1>3, <1>4, <1>5, <1>6 DEF IsTree, u

\* The tree t with the watcher w under the label l of the director at d.
Added(t, d, l, w) == [t EXCEPT ![d] = Insert(@, [label |-> l, watcher |-> w])]

\* A watcher under a new label leaves a tree.
LEMMA AddedTree ==
  ASSUME NEW t, Containers(t), IsTree(t), NEW d \in DOMAIN t, NEW l \in Nat, l # Empty,
         FindChild(t, d, l) = Absent, NEW w \in Watchers
  PROVE  /\ Containers(Added(t, d, l, w)) /\ IsTree(Added(t, d, l, w))
         /\ DOMAIN Added(t, d, l, w) = DOMAIN t
         /\ \A q \in DOMAIN t : \A e :
              e \in ToSet(Added(t, d, l, w)[q]) <=>
                e \in ToSet(t[q]) \/ (q = d /\ e = [label |-> l, watcher |-> w])
<1> DEFINE u == Added(t, d, l, w)
           x == [label |-> l, watcher |-> w]
<1>1. DOMAIN u = DOMAIN t /\ u[d] = Insert(t[d], x) /\ \A q \in DOMAIN t : q # d => u[q] = t[q]
  BY DEF Added
<1> HIDE DEF u
<1>2. \A q \in DOMAIN t : t[q] \in Seq(Entry) /\ Ordered(t[q])
  BY DEF Containers, IsTree, LabelsInOrder
<1>3. x \in Entry /\ x.label = l /\ x.watcher = w
  BY EntryIs DEF Kinds
<1> HIDE DEF x
<1>4. \A i \in DOMAIN t[d] : t[d][i].label # x.label
  BY <1>3, FindIs DEF IsTree
<1>5. u[d] \in Seq(Entry) /\ Ordered(u[d]) /\ ToSet(u[d]) = ToSet(t[d]) \cup {x}
  BY <1>1, <1>2, <1>3, <1>4, InsertIs
<1>6. \A q \in DOMAIN t : u[q] \in Seq(Entry) /\ Ordered(u[q])
  BY <1>1, <1>2, <1>5
<1>7. \A q \in DOMAIN t : \A e : e \in ToSet(u[q]) <=> e \in ToSet(t[q]) \/ (q = d /\ e = x)
  BY <1>1, <1>5
<1>8. Containers(u) /\ LabelsInOrder(u) /\ Root \in DOMAIN u /\ WaysAreDirs(u)
  BY <1>1, <1>6 DEF Containers, LabelsInOrder, IsTree, WaysAreDirs
<1>9. DirsAreEntries(u)
  <2> SUFFICES ASSUME NEW q \in DOMAIN u, q # Root
               PROVE  Front(q) \in DOMAIN u
                      /\ [label |-> Last(q), watcher |-> Director] \in ToSet(u[Front(q)])
    BY DEF DirsAreEntries
  <2>1. Front(q) \in DOMAIN t /\ [label |-> Last(q), watcher |-> Director] \in ToSet(t[Front(q)])
    BY <1>1 DEF IsTree, DirsAreEntries
  <2> QED
    BY <1>1, <1>7, <2>1
<1>10. EntriesAreDirs(u)
  <2> SUFFICES ASSUME NEW q \in DOMAIN u, NEW e \in ToSet(u[q]), e.watcher = Director
               PROVE  Append(q, e.label) \in DOMAIN u
    BY DEF EntriesAreDirs
  <2>1. w # Director
    BY KindsAssumption DEF Watchers
  <2>2. e \in ToSet(t[q])
    BY <1>1, <1>3, <1>7, <2>1
  <2> QED
    BY <1>1, <2>2 DEF IsTree, EntriesAreDirs
<1> QED
  BY <1>1, <1>7, <1>8, <1>9, <1>10 DEF IsTree, u, x

\* The tree t without what is at p and below.
Removed(t, p) ==
  [q \in {q \in DOMAIN t : ~ IsPrefix(p, q)} |->
     IF q = Front(p) THEN RemoveAt(t[Front(p)], Min(Matches(t, Front(p), Last(p)))) ELSE t[q]]

\* A removal leaves a tree.
LEMMA RemovedTree ==
  ASSUME NEW t, Containers(t), IsTree(t), NEW p \in Seq(Nat), p # Root,
         Front(p) \in DOMAIN t, FindChild(t, Front(p), Last(p)) # Absent
  PROVE  /\ Containers(Removed(t, p)) /\ IsTree(Removed(t, p))
         /\ DOMAIN Removed(t, p) = {q \in DOMAIN t : ~ IsPrefix(p, q)}
         /\ \A q \in DOMAIN Removed(t, p) : \A e :
              e \in ToSet(Removed(t, p)[q]) <=>
                e \in ToSet(t[q]) /\ Append(q, e.label) # p
<1> DEFINE u == Removed(t, p)
           d == Front(p)
           k == Min(Matches(t, d, Last(p)))
<1>1. DOMAIN u = {q \in DOMAIN t : ~ IsPrefix(p, q)}
      /\ \A q \in DOMAIN u : u[q] = IF q = d THEN RemoveAt(t[d], k) ELSE t[q]
  BY DEF Removed
<1> HIDE DEF u
<1>2. p = Append(d, Last(p)) /\ d \in Seq(Nat) /\ Last(p) \in Nat
  BY FrontIs DEF Root
<1>3. /\ \A q \in DOMAIN t : /\ t[q] \in Seq(Entry) /\ Ordered(t[q]) /\ q \in Seq(Nat)
                             /\ \A e \in ToSet(t[q]) : e.label \in Nat
  BY EntryTypes, EntryIs DEF Containers, IsTree, LabelsInOrder
<1>4. k \in DOMAIN t[d] /\ t[d][k].label = Last(p)
  <2>1. [label |-> Last(p), watcher |-> FindChild(t, d, Last(p))] \in ToSet(t[d])
    BY FindIs DEF IsTree
  <2>2. PICK i \in DOMAIN t[d] : t[d][i].label = Last(p)
    <3>1. PICK i \in DOMAIN t[d] :
            t[d][i] = [label |-> Last(p), watcher |-> FindChild(t, d, Last(p))]
      BY <2>1 DEF ToSet
    <3> QED
      BY <3>1
  <2>3. Matches(t, d, Last(p)) # {} /\ Matches(t, d, Last(p)) \in SUBSET Nat
    BY <2>2, EntryTypes DEF Matches
  <2>4. PICK m \in Matches(t, d, Last(p)) : \A n \in Matches(t, d, Last(p)) : m <= n
    BY <2>3, LeastNat
  <2>5. k \in Matches(t, d, Last(p))
    BY <2>4 DEF Min
  <2> QED
    BY <2>5 DEF Matches
<1> HIDE DEF k, d
<1>5. /\ RemoveAt(t[d], k) \in Seq(Entry) /\ Ordered(RemoveAt(t[d], k))
      /\ ToSet(RemoveAt(t[d], k)) = {e \in ToSet(t[d]) : e.label # Last(p)}
  BY <1>3, <1>4, RemoveIs DEF d
<1>6. \A q \in DOMAIN u : u[q] \in Seq(Entry) /\ Ordered(u[q])
  BY <1>1, <1>3, <1>5
<1>7. ASSUME NEW q \in DOMAIN t, NEW e \in ToSet(t[q])
      PROVE  Append(q, e.label) = p <=> q = d /\ e.label = Last(p)
  <2>1. q \in Seq(Nat) /\ e.label \in Nat
    BY <1>3
  <2>2. Front(Append(q, e.label)) = q /\ Last(Append(q, e.label)) = e.label
    BY <2>1, AppendIs
  <2> QED
    BY <1>2, <2>2 DEF d
<1>8. ASSUME NEW q \in DOMAIN u, NEW e
      PROVE  e \in ToSet(u[q]) <=> e \in ToSet(t[q]) /\ Append(q, e.label) # p
  <2>1. CASE q = d
    BY <1>1, <1>5, <1>7, <2>1
  <2>2. CASE q # d
    BY <1>1, <1>7, <2>2
  <2> QED
    BY <2>1, <2>2
<1>9. Containers(u) /\ LabelsInOrder(u)
  BY <1>1, <1>3, <1>6 DEF Containers, LabelsInOrder
<1>10. Root \in DOMAIN u
  <2>1. Root \in Seq(Nat) /\ Len(Root) = 0
    BY EmptySeq DEF Root
  <2>2. IsPrefix(p, Root) => p = Root
    <3>1. IsPrefix(p, Root) => Len(p) \in 0..Len(Root)
      BY <2>1, IsPrefixIs
    <3> QED
      BY <2>1, <3>1, EmptySeq DEF Root
  <2> QED
    BY <1>1, <2>2 DEF IsTree
<1>11. DirsAreEntries(u)
  <2> SUFFICES ASSUME NEW q \in DOMAIN u, q # Root
               PROVE  Front(q) \in DOMAIN u
                      /\ [label |-> Last(q), watcher |-> Director] \in ToSet(u[Front(q)])
    BY DEF DirsAreEntries
  <2>1. q \in DOMAIN t /\ ~ IsPrefix(p, q) /\ q \in Seq(Nat)
    BY <1>1, <1>3
  <2>2. Front(q) \in DOMAIN t /\ [label |-> Last(q), watcher |-> Director] \in ToSet(t[Front(q)])
    BY <2>1 DEF IsTree, DirsAreEntries
  <2>3. Append(Front(q), Last(q)) = q /\ Len(q) \in Nat \ {0}
    BY <2>1, FrontIs DEF Root
  <2>4. Front(q) \in DOMAIN u
    <3>1. PICK n \in 0..Len(q) : n = Len(q) - 1
      <4>1. \A j \in Nat \ {0} : j - 1 \in 0..j
        OBVIOUS
      <4> QED
        BY <2>3, <4>1
    <3>2. IsPrefix(p, Front(q)) => IsPrefix(p, q)
      BY <2>1, <3>1, PrefixesNest DEF Front
    <3> QED
      BY <1>1, <2>1, <2>2, <3>2
  <2>5. p # q
    <3>1. SubSeq(q, 1, Len(q)) = q /\ Len(q) \in 0..Len(q)
      BY <2>1, <2>3, WholeWay
    <3>2. IsPrefix(q, q)
      BY <2>1, <3>1, IsPrefixIs
    <3> QED
      BY <2>1, <3>2
  <2>6. [label |-> Last(q), watcher |-> Director].label = Last(q)
    OBVIOUS
  <2> QED
    BY <1>8, <2>2, <2>3, <2>4, <2>5, <2>6
<1>12. EntriesAreDirs(u)
  <2> SUFFICES ASSUME NEW q \in DOMAIN u, NEW e \in ToSet(u[q]), e.watcher = Director
               PROVE  Append(q, e.label) \in DOMAIN u
    BY DEF EntriesAreDirs
  <2> DEFINE r == Append(q, e.label)
  <2>1. q \in DOMAIN t /\ ~ IsPrefix(p, q) /\ q \in Seq(Nat) /\ e \in ToSet(t[q]) /\ r # p
    BY <1>1, <1>3, <1>8
  <2>2. r \in DOMAIN t
    BY <2>1 DEF IsTree, EntriesAreDirs
  <2>3. r \in Seq(Nat) /\ Front(r) = q
    BY <1>3, <2>1, AppendIs
  <2> HIDE DEF r
  <2>4. ~ IsPrefix(p, r)
    BY <2>1, <2>3, PrefixesNest
  <2>5. r \in DOMAIN u
    BY <1>1, <2>2, <2>4
  <2> QED
    BY <2>5 DEF r
<1>13. WaysAreDirs(u)
  <2> SUFFICES ASSUME NEW q \in DOMAIN u, NEW i \in 0..Len(q) PROVE SubSeq(q, 1, i) \in DOMAIN u
    BY DEF WaysAreDirs
  <2>1. q \in DOMAIN t /\ ~ IsPrefix(p, q) /\ q \in Seq(Nat)
    BY <1>1, <1>3
  <2>2. SubSeq(q, 1, i) \in DOMAIN t
    BY <2>1 DEF IsTree, WaysAreDirs
  <2>3. ~ IsPrefix(p, SubSeq(q, 1, i))
    BY <2>1, PrefixesNest
  <2> QED
    BY <1>1, <2>2, <2>3
<1> QED
  BY <1>1, <1>8, <1>9, <1>10, <1>11, <1>12, <1>13 DEF IsTree, u

-----------------------------------------------------------------------------
(* The invariant.                                                            *)

\* The paths that operations are given.
LEMMA PathIs ==
  ASSUME NEW p \in Paths
  PROVE  IsPath(p) /\ p \in Seq(Nat) /\ p # Root /\ Front(p) \in Seq(Nat) /\ Last(p) \in Nat
         /\ Labels(p) \in Seq(Nat)
<1>1. IsPath(p) /\ p \in Seq(Nat) /\ p # Root
  BY PathsAssumption DEF IsPath
<1>2. Front(p) \in Seq(Nat) /\ Last(p) \in Nat
  BY <1>1, FrontIs DEF Root
<1> QED
  BY <1>1, <1>2 DEF Labels

\* What add_watcher() does to the tree t.
WithWatcher(t, p, w) ==
  IF At(MakeDirs(t, p), Front(p)) = Director /\ Last(p) # Empty
       /\ FindChild(MakeDirs(t, p), Front(p), Last(p)) = Absent
    THEN Added(MakeDirs(t, p), Front(p), Last(p), w)
    ELSE MakeDirs(t, p)

\* AddWatcher does that to the tree, and forgets the last answer.
LEMMA AddWatcherIs ==
  ASSUME NEW p, NEW w, AddWatcher(p, w)
  PROVE  dirs' = WithWatcher(dirs, p, w) /\ reply' = NoReply /\ value' = value
BY DEF AddWatcher, WithWatcher, Added

\* It leaves a tree.
LEMMA WithWatcherTree ==
  ASSUME NEW t, Containers(t), IsTree(t), NEW p \in Paths, NEW w \in Watchers
  PROVE  Containers(WithWatcher(t, p, w)) /\ IsTree(WithWatcher(t, p, w))
<1> DEFINE u == MakeDirs(t, p)
<1>1. Containers(u) /\ IsTree(u)
  BY PathIs, MadeTree
<1> HIDE DEF u
<1>2. CASE At(u, Front(p)) = Director /\ Last(p) # Empty /\ FindChild(u, Front(p), Last(p)) = Absent
  <2>1. Front(p) \in DOMAIN u /\ Last(p) \in Nat
    BY <1>1, <1>2, PathIs, WhatIsAt
  <2>2. Containers(Added(u, Front(p), Last(p), w)) /\ IsTree(Added(u, Front(p), Last(p), w))
    BY <1>1, <1>2, <2>1, AddedTree
  <2> QED
    BY <1>2, <2>2 DEF WithWatcher, u
<1> QED
  BY <1>1, <1>2 DEF WithWatcher, u

\* What remove_watcher() does to it.
LEMMA RemoveWatcherIs ==
  ASSUME TypeOK, TreeInv, NEW p \in Paths, RemoveWatcher(p)
  PROVE  /\ reply' = NoReply /\ value' = value
         /\ \/ dirs' = dirs /\ (Front(p) \notin DOMAIN dirs \/ FindChild(dirs, Front(p), Last(p)) = Absent)
            \/ /\ dirs' = Removed(dirs, p) /\ Front(p) \in DOMAIN dirs
               /\ FindChild(dirs, Front(p), Last(p)) # Absent
<1>1. At(dirs, Front(p)) = Director <=> Front(p) \in DOMAIN dirs
  BY PathIs, WhatIsAt DEF TypeOK, TreeInv
<1> QED
  BY <1>1 DEF RemoveWatcher, Removed

ValuesTyped(v) == DOMAIN v = Watchers /\ \A w \in Watchers : v[w] \in Contents(w)

\* Every watcher watches a value of its type.
LEMMA ValuesAreTyped == TypeOK => ValuesTyped(value)
BY DEF TypeOK, ValuesTyped, Watchers

\* What is watched is typed after one of the watchers is set to a value of its type.
LEMMA TypedAfter ==
  ASSUME NEW v, ValuesTyped(v), NEW w, NEW y \in Contents(w)
  PROVE  ValuesTyped([v EXCEPT ![w] = y])
BY DEF ValuesTyped

\* At first every watcher watches zeros.
LEMMA InitTyped == Init => ValuesTyped(value)
<1> SUFFICES ASSUME Init PROVE ValuesTyped(value)
  OBVIOUS
<1>1. value = [w \in Watchers |-> [i \in 1 .. Width[Type[w]] |-> 0]]
  BY DEF Init, Watchers
<1>2. ASSUME NEW w \in Watchers PROVE [i \in 1 .. Width[Type[w]] |-> 0] \in Contents(w)
  BY WatchersAssumption DEF Contents
<1> QED
  BY <1>1, <1>2 DEF ValuesTyped

\* The root alone is a tree.
LEMMA InitTree == Init => TypeOK /\ TreeInv
<1> SUFFICES ASSUME Init PROVE TypeOK /\ TreeInv
  OBVIOUS
<1>1. DOMAIN dirs = {Root} /\ dirs[Root] = <<>>
  BY DEF Init
<1>2. <<>> \in Seq(Entry) /\ Root \in Seq(Nat) /\ Len(Root) = 0 /\ DOMAIN (<<>>) = {}
  BY EmptySeq DEF Root
<1>3. Containers(dirs)
  BY <1>1, <1>2 DEF Containers
<1>4. TypeOK
  BY <1>3, InitTyped DEF TypeOK, Init, NoReply, ValuesTyped, Watchers
<1>5. LabelsInOrder(dirs) /\ DirsAreEntries(dirs) /\ EntriesAreDirs(dirs)
  BY <1>1, <1>2 DEF LabelsInOrder, DirsAreEntries, EntriesAreDirs, Ordered, ToSet
<1>6. WaysAreDirs(dirs)
  <2>1. \A i \in 0..0 : i = 0
    OBVIOUS
  <2>2. SubSeq(Root, 1, 0) = Root
    BY <1>2, WholeWay DEF Root
  <2> QED
    BY <1>1, <1>2, <2>1, <2>2 DEF WaysAreDirs
<1> QED
  BY <1>1, <1>4, <1>5, <1>6 DEF TreeInv, IsTree

\* Every step leaves a tree, and leaves the types.
LEMMA NextTree == TypeOK /\ TreeInv /\ [Next]_vars => TypeOK' /\ TreeInv'
<1> SUFFICES ASSUME TypeOK, TreeInv, [Next]_vars PROVE TypeOK' /\ TreeInv'
  OBVIOUS
<1>1. Containers(dirs) /\ IsTree(dirs)
  BY DEF TypeOK, TreeInv
<1>2. NoReply.dir \in BOOLEAN /\ NoReply.asked = NoValue
  BY DEF NoReply
<1>3. ASSUME NEW p \in Paths, NEW w \in Watchers, AddWatcher(p, w)
      PROVE  TypeOK' /\ TreeInv'
  <2>1. Containers(dirs') /\ IsTree(dirs')
    BY <1>1, <1>3, AddWatcherIs, WithWatcherTree
  <2> QED
    BY <1>2, <1>3, <2>1, AddWatcherIs DEF TypeOK, TreeInv
<1>4. ASSUME NEW p \in Paths, RemoveWatcher(p)
      PROVE  TypeOK' /\ TreeInv'
  <2>1. Containers(dirs') /\ IsTree(dirs')
    <3>1. \/ dirs' = dirs
          \/ /\ dirs' = Removed(dirs, p) /\ Front(p) \in DOMAIN dirs
             /\ FindChild(dirs, Front(p), Last(p)) # Absent
      BY <1>4, RemoveWatcherIs
    <3>2. p \in Seq(Nat) /\ p # Root
      BY PathIs
    <3>3. ASSUME Front(p) \in DOMAIN dirs, FindChild(dirs, Front(p), Last(p)) # Absent
          PROVE  Containers(Removed(dirs, p)) /\ IsTree(Removed(dirs, p))
      BY <1>1, <3>2, <3>3, RemovedTree
    <3> QED
      BY <1>1, <3>1, <3>3
  <2> QED
    BY <1>2, <1>4, <2>1, RemoveWatcherIs DEF TypeOK, TreeInv
<1>5. ASSUME NEW p \in Paths, GetWatcherValue(p)
      PROVE  TypeOK' /\ TreeInv'
  <2>1. UNCHANGED <<dirs, value>> /\ reply'.dir = FALSE /\ reply'.asked = NoValue
    BY <1>5 DEF GetWatcherValue
  <2> QED
    BY <2>1 DEF TypeOK, TreeInv
<1>6. ASSUME NEW p \in Paths, VisitChildren(p)
      PROVE  TypeOK' /\ TreeInv'
  <2>1. UNCHANGED <<dirs, value>> /\ reply'.dir = TRUE /\ reply'.asked = NoValue
    BY <1>6 DEF VisitChildren
  <2> QED
    BY <2>1 DEF TypeOK, TreeInv
<1>7. ASSUME NEW p \in Paths, NEW s \in Streams, SetWatcherValue(p, s)
      PROVE  TypeOK' /\ TreeInv'
  <2>1. dirs' = dirs /\ reply'.dir = FALSE /\ reply'.asked = s
    BY <1>7 DEF SetWatcherValue
  <2>2. ValuesTyped(value')
    <3>1. CASE value' = value
      BY <3>1, ValuesAreTyped
    <3>2. CASE \E v \in Read(SetTarget(p), s) : value' = [value EXCEPT ![SetTarget(p)] = v]
      <4>1. PICK v \in Contents(SetTarget(p)) : value' = [value EXCEPT ![SetTarget(p)] = v]
        BY <3>2 DEF Read
      <4>2. ValuesTyped([value EXCEPT ![SetTarget(p)] = v])
        BY ValuesAreTyped, TypedAfter
      <4> QED
        BY <4>1, <4>2
    <3> QED
      BY <1>7, <3>1, <3>2 DEF SetWatcherValue
  <2> QED
    BY <2>1, <2>2 DEF TypeOK, TreeInv, ValuesTyped, Watchers
<1>8. ASSUME NEW p \in Paths, SetFromString(p)
      PROVE  TypeOK' /\ TreeInv'
  <2>1. /\ dirs' = dirs /\ reply' = NoReply
        /\ \E y \in Contents(SetTarget(p)) : value' = [value EXCEPT ![SetTarget(p)] = y]
    BY <1>8 DEF SetFromString, Converted
  <2>2. ValuesTyped(value')
    <3>1. PICK y \in Contents(SetTarget(p)) : value' = [value EXCEPT ![SetTarget(p)] = y]
      BY <2>1
    <3>2. ValuesTyped([value EXCEPT ![SetTarget(p)] = y])
      BY ValuesAreTyped, TypedAfter
    <3> QED
      BY <3>1, <3>2
  <2> QED
    BY <1>2, <2>1, <2>2 DEF TypeOK, TreeInv, ValuesTyped, Watchers
<1>9. CASE UNCHANGED vars
  BY <1>9 DEF vars, TypeOK, TreeInv
<1> QED
  BY <1>3, <1>4, <1>5, <1>6, <1>7, <1>8, <1>9 DEF Next, Watchers

\* The type invariant, for any watchers, values and paths.
THEOREM AlwaysTypeOK == Spec => []TypeOK
<1>1. Spec => [](TypeOK /\ TreeInv)
  BY InitTree, NextTree, PTL DEF Spec
<1> QED
  BY <1>1, PTL

\* The directors form a tree and their labels are in order, whatever was added, with or
\* without success, and removed.
THEOREM AlwaysTreeInv == Spec => []TreeInv
<1>1. Spec => [](TypeOK /\ TreeInv)
  BY InitTree, NextTree, PTL DEF Spec
<1> QED
  BY <1>1, PTL

-----------------------------------------------------------------------------
(* What is answered as set is set.                                           *)

\* Nothing has been asked at first.
LEMMA InitDone == Init => DoneIsDone
BY DEF Init, DoneIsDone, NoReply

\* Every answer that a value was set is true, and stays true until something changes.
LEMMA NextDone == TypeOK /\ DoneIsDone /\ [Next]_vars => DoneIsDone'
<1> SUFFICES ASSUME TypeOK, DoneIsDone, [Next]_vars PROVE DoneIsDone'
  OBVIOUS
<1>1. ASSUME reply'.asked = NoValue PROVE DoneIsDone'
  BY <1>1 DEF DoneIsDone
<1>2. NoReply.asked = NoValue
  BY DEF NoReply
<1>3. ASSUME NEW p \in Paths, NEW w \in Watchers, AddWatcher(p, w)
      PROVE  DoneIsDone'
  BY <1>1, <1>2, <1>3 DEF AddWatcher
<1>4. ASSUME NEW p \in Paths, RemoveWatcher(p) \/ GetWatcherValue(p) \/ VisitChildren(p)
      PROVE  DoneIsDone'
  BY <1>1, <1>2, <1>4 DEF RemoveWatcher, GetWatcherValue, VisitChildren
<1>5. ASSUME NEW p \in Paths, SetFromString(p)
      PROVE  DoneIsDone'
  BY <1>1, <1>2, <1>5 DEF SetFromString
<1>6. ASSUME NEW p \in Paths, NEW s \in Streams, SetWatcherValue(p, s)
      PROVE  DoneIsDone'
  <2>0. PICK w : w = SetTarget(p)
    OBVIOUS
  <2>1. /\ dirs' = dirs /\ reply'.path = Labels(p) /\ reply'.asked = s
        /\ StoresValue(w, s) => \E v \in Read(w, s) : value' = [value EXCEPT ![w] = v]
        /\ ~ Notifies(w, s) => reply'.notified = <<>> \/ reply'.notified = <<Failed>>
    BY <1>6, <2>0 DEF SetWatcherValue
  <2>2. CASE Notifies(w, s)
    <3>1. w \in Writable /\ w \in Watchers /\ StoresValue(w, s)
      BY <2>2, WatchersAssumption DEF Notifies, StoresValue, Watchers
    <3>2. PICK v \in Read(w, s) : value' = [value EXCEPT ![w] = v]
      BY <2>1, <3>1
    <3>3. At(dirs', reply'.path) = w /\ value'[w] = v
      BY <2>0, <2>1, <3>1, <3>2 DEF SetTarget, TypeOK, Watchers
    <3>4. /\ v \in Contents(w)
          /\ \A i \in DOMAIN v \cap DOMAIN s.bytes : v[i] = s.bytes[i]
      BY DEF Read
    <3>5. ASSUME s.type = Type[w] PROVE v = s.bytes
      BY <3>4, <3>5, StreamsAssumption DEF Contents
    <3> QED
      BY <2>1, <3>1, <3>3, <3>4, <3>5 DEF DoneIsDone
  <2>3. CASE ~ Notifies(w, s)
    <3>1. Root \notin ToSet(<<>>) /\ Root \notin ToSet(<<Failed>>)
      <4>1. ToSet(<<>>) = {} /\ ToSet(<<Failed>>) = {Failed}
        BY DEF ToSet
      <4> QED
        BY <4>1, KindsAssumption DEF Root
    <3> QED
      BY <2>1, <2>3, <3>1 DEF DoneIsDone
  <2> QED
    BY <2>2, <2>3
<1>7. CASE UNCHANGED vars
  BY <1>7 DEF vars, DoneIsDone
<1> QED
  BY <1>3, <1>4, <1>5, <1>6, <1>7 DEF Next, Watchers

\* The answer that a value was set is true: there is a watcher at the path, it is not
\* read-only, it has the bytes that were sent, as many as it has itself, and hence, if the
\* type that was sent is its own, the value that was asked for.
THEOREM AlwaysDoneIsDone == Spec => []DoneIsDone
<1>1. Spec => [](TypeOK /\ TreeInv /\ DoneIsDone)
  BY InitTree, NextTree, InitDone, NextDone, PTL DEF Spec
<1> QED
  BY <1>1, PTL

-----------------------------------------------------------------------------
(* The tree is a table of paths.                                             *)

\* The table that the tree t stands for: that of Table, for t instead of dirs.
TableOf(t) ==
  {e \in UNION {{<<Append(d, t[d][i].label), t[d][i].watcher>> : i \in DOMAIN t[d]} : d \in DOMAIN t} :
     e[2] # Director}

\* The table of the refinement is the one of the tree.
LEMMA TableIsOf == {e \in Entries : e[2] # Director} = TableOf(dirs)
BY DEF Entries, TableOf

\* An element of the table is an entry of a director.
LEMMA ElementIs ==
  ASSUME NEW t, NEW e
  PROVE  e \in TableOf(t) <=>
           \E d \in DOMAIN t : \E x \in ToSet(t[d]) :
             x.watcher # Director /\ e = <<Append(d, x.label), x.watcher>>
BY DEF TableOf, ToSet

\* The table has what the paths lead to.
LEMMA TableIs ==
  ASSUME NEW t, Containers(t), IsTree(t)
  PROVE  /\ \A e \in TableOf(t) :
              /\ e[1] \in Seq(Nat) /\ e[1] # Root /\ e[2] \in Watchers /\ e = <<e[1], e[2]>>
              /\ At(t, e[1]) = e[2] /\ Front(e[1]) \in DOMAIN t
         /\ \A q \in Seq(Nat), w \in Watchers : At(t, q) = w => <<q, w>> \in TableOf(t)
<1>1. ASSUME NEW e \in TableOf(t)
      PROVE  /\ e[1] \in Seq(Nat) /\ e[1] # Root /\ e[2] \in Watchers /\ e = <<e[1], e[2]>>
             /\ At(t, e[1]) = e[2] /\ Front(e[1]) \in DOMAIN t
  <2>1. PICK d \in DOMAIN t : \E x \in ToSet(t[d]) :
          x.watcher # Director /\ e = <<Append(d, x.label), x.watcher>>
    BY <1>1, ElementIs
  <2>2. PICK x \in ToSet(t[d]) : x.watcher # Director /\ e = <<Append(d, x.label), x.watcher>>
    BY <2>1
  <2>3. d \in Seq(Nat) /\ x \in Entry
    BY EntryTypes DEF Containers
  <2>4. x.label \in Nat /\ x.watcher \in Watchers /\ x = [label |-> x.label, watcher |-> x.watcher]
    BY <2>2, <2>3, EntryIs DEF Kinds
  <2>5. /\ Append(d, x.label) \in Seq(Nat) /\ Append(d, x.label) # Root
        /\ Front(Append(d, x.label)) = d /\ Last(Append(d, x.label)) = x.label
    BY <2>3, <2>4, AppendIs DEF Root
  <2>6. e[1] = Append(d, x.label) /\ e[2] = x.watcher
    BY <2>2
  <2>7. At(t, Append(d, x.label)) = x.watcher
    BY <2>4, <2>5, WhatIsAt
  <2> QED
    BY <2>2, <2>4, <2>5, <2>6, <2>7
<1>2. ASSUME NEW q \in Seq(Nat), NEW w \in Watchers, At(t, q) = w
      PROVE  <<q, w>> \in TableOf(t)
  <2>1. q # Root /\ Front(q) \in DOMAIN t /\ [label |-> Last(q), watcher |-> w] \in ToSet(t[Front(q)])
    BY <1>2, WhatIsAt
  <2>2. q = Append(Front(q), Last(q))
    BY <2>1, FrontIs DEF Root
  <2>3. w # Director
    BY KindsAssumption DEF Watchers
  <2>4. [label |-> Last(q), watcher |-> w].label = Last(q) /\ [label |-> Last(q), watcher |-> w].watcher = w
    OBVIOUS
  <2> QED
    BY <2>1, <2>2, <2>3, <2>4, ElementIs
<1> QED
  BY <1>1, <1>2

\* A path that leads to nothing is free, in the table and among the folders.
LEMMA AbsentIs ==
  ASSUME NEW t, Containers(t), IsTree(t), NEW p \in Seq(Nat)
  PROVE  At(t, p) = Absent <=> p \notin DOMAIN t /\ ~ \E e \in TableOf(t) : e[1] = p
<1>1. At(t, p) \in Watchers \cup {Director, Absent} /\ (At(t, p) = Director <=> p \in DOMAIN t)
  BY WhatIsAt DEF Kinds
<1>2. Absent \notin Watchers /\ Absent # Director
  BY KindsAssumption DEF Watchers
<1>3. ASSUME NEW e \in TableOf(t), e[1] = p PROVE At(t, p) \in Watchers
  BY <1>3, TableIs
<1>4. ASSUME At(t, p) \in Watchers PROVE \E e \in TableOf(t) : e[1] = p
  <2>1. <<p, At(t, p)>> \in TableOf(t)
    BY <1>4, TableIs
  <2> QED
    BY <2>1
<1> QED
  BY <1>1, <1>2, <1>3, <1>4

\* The folders above p: that of Table, for t instead of dirs.
AboveIn(t, p) ==
  {q \in {SubSeq(p, 1, i) : i \in 0..(Len(p) - 1)} : ~ \E e \in TableOf(t) : IsPrefix(e[1], q)}

\* The directors that are missing are the folders above that there are not.
LEMMA AboveIs ==
  ASSUME NEW t, Containers(t), IsTree(t), NEW p, IsPath(p)
  PROVE  DOMAIN t \cup Missing(t, p) = DOMAIN t \cup AboveIn(t, p)
<1>1. p \in Seq(Nat) /\ Len(p) \in Nat
  BY LenProperties DEF IsPath
<1>2. Absent \notin Watchers /\ Director \notin Watchers
  BY KindsAssumption DEF Watchers
<1>3. ASSUME NEW c \in Missing(t, p) PROVE c \in AboveIn(t, p)
  <2>1. PICK i \in 1..(Len(p) - 1) :
          c = SubSeq(p, 1, i) /\ \A j \in 1..i : At(t, SubSeq(p, 1, j)) \in {Director, Absent}
    BY <1>3 DEF Missing
  <2>2. i \in 0..(Len(p) - 1) /\ i \in 0..Len(p)
    BY <1>1
  <2>3. c \in Seq(Nat) /\ Len(c) = i
    BY <1>1, <2>1, <2>2, PrefixIs
  <2>4. ASSUME NEW e \in TableOf(t), IsPrefix(e[1], c) PROVE FALSE
    <3>1. e[1] \in Seq(Nat) /\ e[1] # Root /\ At(t, e[1]) \in Watchers
      BY TableIs
    <3>2. PICK n \in 0..i : e[1] = SubSeq(c, 1, n)
      BY <2>3, <2>4, <3>1, IsPrefixIs
    <3>3. e[1] = SubSeq(p, 1, n)
      BY <1>1, <2>1, <2>2, <3>2, PrefixOfPrefix
    <3>4. n # 0
      BY <1>1, <3>1, <3>3, WholeWay DEF Root
    <3>5. n \in 1..i
      BY <2>2, <3>4
    <3> QED
      BY <1>2, <2>1, <3>1, <3>3, <3>5
  <2> QED
    BY <2>1, <2>2, <2>4 DEF AboveIn
<1>4. ASSUME NEW q \in AboveIn(t, p) PROVE q \in DOMAIN t \cup Missing(t, p)
  <2>1. PICK i \in 0..(Len(p) - 1) : q = SubSeq(p, 1, i)
    BY <1>4 DEF AboveIn
  <2>2. ~ \E e \in TableOf(t) : IsPrefix(e[1], q)
    BY <1>4 DEF AboveIn
  <2>3. CASE i = 0
    <3>1. q = Root
      BY <1>1, <2>1, <2>3, WholeWay DEF Root
    <3> QED
      BY <3>1 DEF IsTree
  <2>4. CASE i # 0
    <3>1. i \in 1..(Len(p) - 1) /\ i \in 0..Len(p)
      BY <1>1, <2>4
    <3>2. q \in Seq(Nat) /\ Len(q) = i
      BY <1>1, <2>1, <3>1, PrefixIs
    <3>3. ASSUME NEW j \in 1..i PROVE At(t, SubSeq(p, 1, j)) \in {Director, Absent}
      <4>1. j \in 0..i /\ j \in 0..Len(p)
        BY <1>1, <3>1
      <4>2. SubSeq(p, 1, j) \in Seq(Nat) /\ SubSeq(p, 1, j) = SubSeq(q, 1, j)
        BY <1>1, <2>1, <3>1, <4>1, PrefixIs, PrefixOfPrefix
      <4>3. IsPrefix(SubSeq(p, 1, j), q)
        BY <3>2, <4>1, <4>2, IsPrefixIs
      <4>4. ASSUME At(t, SubSeq(p, 1, j)) \in Watchers PROVE FALSE
        <5>1. <<SubSeq(p, 1, j), At(t, SubSeq(p, 1, j))>> \in TableOf(t)
          BY <4>2, <4>4, TableIs
        <5> QED
          BY <2>2, <4>3, <5>1
      <4> QED
        BY <4>2, <4>4, WhatIsAt DEF Kinds
    <3>4. q \in {SubSeq(p, 1, n) : n \in {n \in 1..(Len(p) - 1) :
                   \A j \in 1..n : At(t, SubSeq(p, 1, j)) \in {Director, Absent}}}
      BY <2>1, <3>1, <3>3
    <3> QED
      BY <3>4 DEF Missing
  <2> QED
    BY <2>3, <2>4
<1> QED
  BY <1>3, <1>4

\* A path is blocked by the table, or its folder is there or made.
BlockedIn(t, p) == \E e \in TableOf(t) : IsStrictPrefix(e[1], p)

\* The parent of p is reached unless a watcher is in the way.
LEMMA BlockedIs ==
  ASSUME NEW t, Containers(t), IsTree(t), NEW p, IsPath(p)
  PROVE  Front(p) \in DOMAIN t \cup Missing(t, p) <=> ~ BlockedIn(t, p)
<1>1. /\ p \in Seq(Nat) /\ p # <<>> /\ Len(p) \in Nat \ {0}
      /\ Front(p) \in Seq(Nat) /\ Len(Front(p)) = Len(p) - 1
  BY FrontIs DEF IsPath, Root
<1>2. PICK n \in 0..(Len(p) - 1) : n = Len(p) - 1 /\ Front(p) = SubSeq(p, 1, n) /\ n \in 0..Len(p)
  <2>1. \A k \in Nat \ {0} : k - 1 \in 0..(k - 1) /\ k - 1 \in 0..k
    OBVIOUS
  <2> QED
    BY <1>1, <2>1 DEF Front
<1>3. p # Front(p)
  BY <1>1
<1>4. ASSUME NEW e \in TableOf(t)
      PROVE  IsStrictPrefix(e[1], p) <=> IsPrefix(e[1], Front(p))
  <2>1. e[1] \in Seq(Nat)
    BY TableIs
  <2>2. IsStrictPrefix(e[1], p) => IsPrefix(e[1], Front(p))
    BY <1>1, <2>1, PrefixesNest DEF IsStrictPrefix
  <2>3. ASSUME IsPrefix(e[1], Front(p)) PROVE IsStrictPrefix(e[1], p)
    <3>1. IsPrefix(e[1], p)
      BY <1>1, <1>2, <2>1, <2>3, PrefixesNest
    <3>2. Len(e[1]) \in 0..Len(Front(p))
      BY <1>1, <2>1, <2>3, IsPrefixIs
    <3> QED
      BY <1>1, <3>1, <3>2 DEF IsStrictPrefix
  <2> QED
    BY <2>2, <2>3
<1>5. ASSUME ~ BlockedIn(t, p) PROVE Front(p) \in AboveIn(t, p)
  BY <1>2, <1>4, <1>5 DEF BlockedIn, AboveIn
<1>6. ASSUME NEW e \in TableOf(t), IsStrictPrefix(e[1], p), Front(p) \in DOMAIN t
      PROVE  FALSE
  <2>1. e[1] \in Seq(Nat) /\ At(t, e[1]) \in Watchers
    BY TableIs
  <2>2. Len(e[1]) \in 0..Len(Front(p)) /\ e[1] = SubSeq(Front(p), 1, Len(e[1]))
    BY <1>1, <1>4, <1>6, <2>1, IsPrefixIs
  <2>3. e[1] \in DOMAIN t
    BY <1>6, <2>2 DEF IsTree, WaysAreDirs
  <2> QED
    BY <2>1, <2>3, WhatIsAt, KindsAssumption DEF Watchers
<1>7. ASSUME BlockedIn(t, p), Front(p) \in AboveIn(t, p) PROVE FALSE
  BY <1>4, <1>7 DEF BlockedIn, AboveIn
<1> QED
  BY <1>5, <1>6, <1>7, AboveIs DEF BlockedIn

\* What is made has no watcher.
LEMMA MadeTable ==
  ASSUME NEW t, Containers(t), IsTree(t), NEW p, IsPath(p)
  PROVE  TableOf(MakeDirs(t, p)) = TableOf(t)
<1> DEFINE u == MakeDirs(t, p)
           made == Missing(t, p)
<1>1. DOMAIN u = DOMAIN t \cup made
  BY MadeIs
<1>2. \A d \in DOMAIN t \cup made :
        /\ u[d] \in Seq(Entry) /\ Ordered(u[d])
        /\ \A e : e \in ToSet(u[d]) <=>
             \/ d \in DOMAIN t /\ e \in ToSet(t[d])
             \/ \E c \in made : Front(c) = d /\ e = [label |-> Last(c), watcher |-> Director]
  BY ZenonT(60), MadeIs
<1> HIDE DEF u, made
<1>3. ASSUME NEW e \in TableOf(u) PROVE e \in TableOf(t)
  <2>1. PICK d \in DOMAIN u : \E x \in ToSet(u[d]) :
          x.watcher # Director /\ e = <<Append(d, x.label), x.watcher>>
    BY <1>3, ElementIs
  <2>2. PICK x \in ToSet(u[d]) : x.watcher # Director /\ e = <<Append(d, x.label), x.watcher>>
    BY <2>1
  <2>3. ASSUME NEW c \in made, x = [label |-> Last(c), watcher |-> Director] PROVE FALSE
    BY <2>2, <2>3
  <2>4. d \in DOMAIN t /\ x \in ToSet(t[d])
    BY <1>1, <1>2, <2>1, <2>2, <2>3
  <2> QED
    BY <2>2, <2>4, ElementIs
<1>4. ASSUME NEW e \in TableOf(t) PROVE e \in TableOf(u)
  <2>1. PICK d \in DOMAIN t : \E x \in ToSet(t[d]) :
          x.watcher # Director /\ e = <<Append(d, x.label), x.watcher>>
    BY <1>4, ElementIs
  <2>2. PICK x \in ToSet(t[d]) : x.watcher # Director /\ e = <<Append(d, x.label), x.watcher>>
    BY <2>1
  <2>3. d \in DOMAIN u /\ x \in ToSet(u[d])
    BY <1>1, <1>2, <2>1, <2>2
  <2> QED
    BY <2>2, <2>3, ElementIs
<1> QED
  BY <1>3, <1>4 DEF u

\* An added watcher is one more element.
LEMMA AddedTable ==
  ASSUME NEW t, Containers(t), IsTree(t), NEW d \in DOMAIN t, NEW l \in Nat, l # Empty,
         FindChild(t, d, l) = Absent, NEW w \in Watchers
  PROVE  TableOf(Added(t, d, l, w)) = TableOf(t) \cup {<<Append(d, l), w>>}
<1> DEFINE u == Added(t, d, l, w)
           x == [label |-> l, watcher |-> w]
<1>1. /\ DOMAIN u = DOMAIN t
      /\ \A q \in DOMAIN t : \A e : e \in ToSet(u[q]) <=> e \in ToSet(t[q]) \/ (q = d /\ e = x)
  BY AddedTree
<1>2. x.label = l /\ x.watcher = w /\ w # Director
  BY KindsAssumption DEF Watchers
<1> HIDE DEF u, x
<1>3. ASSUME NEW e \in TableOf(u) PROVE e \in TableOf(t) \cup {<<Append(d, l), w>>}
  <2>1. PICK q \in DOMAIN u : \E y \in ToSet(u[q]) :
          y.watcher # Director /\ e = <<Append(q, y.label), y.watcher>>
    BY <1>3, ElementIs
  <2>2. PICK y \in ToSet(u[q]) : y.watcher # Director /\ e = <<Append(q, y.label), y.watcher>>
    BY <2>1
  <2>3. q \in DOMAIN t /\ (y \in ToSet(t[q]) \/ (q = d /\ y = x))
    BY <1>1, <2>1, <2>2
  <2>4. CASE y \in ToSet(t[q])
    BY <2>2, <2>3, <2>4, ElementIs
  <2>5. CASE q = d /\ y = x
    BY <1>2, <2>2, <2>5
  <2> QED
    BY <2>3, <2>4, <2>5
<1>4. ASSUME NEW e \in TableOf(t) PROVE e \in TableOf(u)
  <2>1. PICK q \in DOMAIN t : \E y \in ToSet(t[q]) :
          y.watcher # Director /\ e = <<Append(q, y.label), y.watcher>>
    BY <1>4, ElementIs
  <2>2. PICK y \in ToSet(t[q]) : y.watcher # Director /\ e = <<Append(q, y.label), y.watcher>>
    BY <2>1
  <2> QED
    BY <1>1, <2>1, <2>2, ElementIs
<1>5. <<Append(d, l), w>> \in TableOf(u)
  <2>1. d \in DOMAIN u /\ x \in ToSet(u[d])
    BY <1>1
  <2> QED
    BY <1>2, <2>1, ElementIs
<1> QED
  BY <1>3, <1>4, <1>5 DEF u

\* The path is taken or blocked or has no name.
Refused(t, p) ==
  \/ p \in DOMAIN t \/ \E e \in TableOf(t) : e[1] = p
  \/ BlockedIn(t, p) \/ Last(p) = Empty

\* The table with an element more, unless it is refused.
TableWith(t, p, w) == IF Refused(t, p) THEN TableOf(t) ELSE TableOf(t) \cup {<<p, w>>}

\* add_watcher() adds an element, unless the path is taken or blocked or has no name.
LEMMA WithWatcherTable ==
  ASSUME NEW t, Containers(t), IsTree(t), NEW p \in Paths, NEW w \in Watchers
  PROVE  /\ DOMAIN WithWatcher(t, p, w) = DOMAIN t \cup AboveIn(t, p)
         /\ TableOf(WithWatcher(t, p, w)) = TableWith(t, p, w)
<1> DEFINE u == MakeDirs(t, p)
<1>1. /\ IsPath(p) /\ p \in Seq(Nat) /\ p # Root /\ Front(p) \in Seq(Nat) /\ Last(p) \in Nat
      /\ p = Append(Front(p), Last(p))
  BY PathIs, FrontIs DEF Root
<1>2. Containers(u) /\ IsTree(u) /\ DOMAIN u = DOMAIN t \cup Missing(t, p) /\ TableOf(u) = TableOf(t)
  BY <1>1, MadeTree, MadeIs, MadeTable
<1>3. DOMAIN u = DOMAIN t \cup AboveIn(t, p)
  BY <1>1, <1>2, AboveIs
<1> DEFINE here == At(u, Front(p)) = Director /\ Last(p) # Empty /\ FindChild(u, Front(p), Last(p)) = Absent
<1>4. WithWatcher(t, p, w) = IF here THEN Added(u, Front(p), Last(p), w) ELSE u
  BY DEF WithWatcher
<1>5. At(u, Front(p)) = Director <=> ~ BlockedIn(t, p)
  <2>1. At(u, Front(p)) = Director <=> Front(p) \in DOMAIN u
    BY <1>1, <1>2, WhatIsAt
  <2> QED
    BY <1>1, <1>2, <2>1, BlockedIs
<1>6. p \in DOMAIN u <=> p \in DOMAIN t
  <2>1. p \notin AboveIn(t, p)
    <3>1. Len(p) \in Nat /\ \A i \in 0..(Len(p) - 1) : Len(SubSeq(p, 1, i)) = i /\ i # Len(p)
      <4>1. Len(p) \in Nat
        BY <1>1, LenProperties
      <4>2. \A i \in 0..(Len(p) - 1) : i \in 0..Len(p) /\ i # Len(p)
        BY <4>1
      <4> QED
        BY <1>1, <4>1, <4>2, PrefixIs
    <3>2. \A i \in 0..(Len(p) - 1) : p # SubSeq(p, 1, i)
      BY <3>1
    <3> QED
      BY <3>2 DEF AboveIn
  <2> QED
    BY <1>3, <2>1
<1>7. At(u, p) = Absent <=> p \notin DOMAIN t /\ ~ \E e \in TableOf(t) : e[1] = p
  BY <1>1, <1>2, <1>6, AbsentIs
<1>8. At(u, Front(p)) = Director => At(u, p) = FindChild(u, Front(p), Last(p))
  <2>1. At(u, Front(p)) = Director <=> Front(p) \in DOMAIN u
    BY <1>1, <1>2, WhatIsAt
  <2> QED
    BY <1>1, <1>2, <2>1, AtIs
<1>9. here <=> ~ Refused(t, p)
  BY <1>5, <1>7, <1>8 DEF Refused
<1>10. CASE here
  <2>1. Front(p) \in DOMAIN u
    BY <1>1, <1>2, <1>10, WhatIsAt
  <2> HIDE DEF u
  <2>2. DOMAIN Added(u, Front(p), Last(p), w) = DOMAIN u
    BY DEF Added
  <2>3. TableOf(Added(u, Front(p), Last(p), w)) = TableOf(u) \cup {<<Append(Front(p), Last(p)), w>>}
    BY <1>1, <1>2, <1>10, <2>1, AddedTable
  <2>4. TableOf(Added(u, Front(p), Last(p), w)) = TableOf(t) \cup {<<p, w>>}
    BY <1>1, <1>2, <2>3
  <2> QED
    BY <1>3, <1>4, <1>9, <1>10, <2>2, <2>4 DEF TableWith
<1>11. CASE ~ here
  BY <1>2, <1>3, <1>4, <1>9, <1>11 DEF TableWith
<1> QED
  BY <1>10, <1>11

\* remove_watcher() removes the elements and the folders at the path and below.
LEMMA RemovedTable ==
  ASSUME NEW t, Containers(t), IsTree(t), NEW p \in Seq(Nat), p # Root,
         Front(p) \in DOMAIN t, FindChild(t, Front(p), Last(p)) # Absent
  PROVE  TableOf(Removed(t, p)) = {e \in TableOf(t) : ~ IsPrefix(p, e[1])}
<1> DEFINE u == Removed(t, p)
<1>1. /\ DOMAIN u = {q \in DOMAIN t : ~ IsPrefix(p, q)}
      /\ \A q \in DOMAIN u : \A e : e \in ToSet(u[q]) <=> e \in ToSet(t[q]) /\ Append(q, e.label) # p
  BY RemovedTree
<1> HIDE DEF u
<1>2. ASSUME NEW d \in DOMAIN t, NEW x \in ToSet(t[d])
      PROVE  IsPrefix(p, Append(d, x.label)) <=> IsPrefix(p, d) \/ Append(d, x.label) = p
  <2> DEFINE q == Append(d, x.label)
  <2>1. d \in Seq(Nat) /\ x \in Entry
    BY EntryTypes DEF Containers
  <2>2. x.label \in Nat
    BY <2>1, EntryIs
  <2>3. q \in Seq(Nat) /\ Front(q) = d /\ q # <<>>
    BY <2>1, <2>2, AppendIs
  <2>4. Len(q) \in Nat \ {0}
    BY <2>3, FrontIs
  <2> HIDE DEF q
  <2>5. PICK n \in 0..Len(q) : d = SubSeq(q, 1, n)
    <3>1. \A k \in Nat \ {0} : k - 1 \in 0..k
      OBVIOUS
    <3>2. Len(q) - 1 \in 0..Len(q) /\ d = SubSeq(q, 1, Len(q) - 1)
      BY <2>3, <2>4, <3>1 DEF Front
    <3> QED
      BY <3>2
  <2>6. IsPrefix(p, d) => IsPrefix(p, q)
    BY <2>3, <2>5, PrefixesNest
  <2>7. IsPrefix(p, q) /\ p # q => IsPrefix(p, d)
    BY <2>3, PrefixesNest
  <2>8. IsPrefix(p, p)
    <3>1. Len(p) \in Nat
      BY LenProperties
    <3> QED
      BY <3>1 DEF IsPrefix
  <2> QED
    BY <2>6, <2>7, <2>8 DEF q
<1>3. ASSUME NEW e \in TableOf(u) PROVE e \in TableOf(t) /\ ~ IsPrefix(p, e[1])
  <2>1. PICK d \in DOMAIN u : \E x \in ToSet(u[d]) :
          x.watcher # Director /\ e = <<Append(d, x.label), x.watcher>>
    BY <1>3, ElementIs
  <2>2. PICK x \in ToSet(u[d]) : x.watcher # Director /\ e = <<Append(d, x.label), x.watcher>>
    BY <2>1
  <2>3. /\ d \in DOMAIN t /\ ~ IsPrefix(p, d) /\ x \in ToSet(t[d]) /\ Append(d, x.label) # p
    BY <1>1, <2>1, <2>2
  <2>4. e[1] = Append(d, x.label)
    BY <2>2
  <2>5. e \in TableOf(t)
    BY <2>2, <2>3, ElementIs
  <2> QED
    BY <1>2, <2>3, <2>4, <2>5
<1>4. ASSUME NEW e \in TableOf(t), ~ IsPrefix(p, e[1]) PROVE e \in TableOf(u)
  <2>1. PICK d \in DOMAIN t : \E x \in ToSet(t[d]) :
          x.watcher # Director /\ e = <<Append(d, x.label), x.watcher>>
    BY <1>4, ElementIs
  <2>2. PICK x \in ToSet(t[d]) : x.watcher # Director /\ e = <<Append(d, x.label), x.watcher>>
    BY <2>1
  <2>3. e[1] = Append(d, x.label)
    BY <2>2
  <2>4. ~ IsPrefix(p, d) /\ Append(d, x.label) # p
    BY <1>2, <1>4, <2>1, <2>2, <2>3
  <2>5. d \in DOMAIN u /\ x \in ToSet(u[d])
    BY <1>1, <2>1, <2>2, <2>4
  <2> QED
    BY <2>2, <2>5, ElementIs
<1> QED
  BY <1>3, <1>4 DEF u

\* Where nothing is, nothing is below.
LEMMA NothingBelow ==
  ASSUME NEW t, Containers(t), IsTree(t), NEW p \in Seq(Nat), At(t, p) = Absent
  PROVE  /\ \A q \in DOMAIN t : ~ IsPrefix(p, q)
         /\ \A e \in TableOf(t) : ~ IsPrefix(p, e[1])
<1>1. p \notin DOMAIN t /\ \A e \in TableOf(t) : e[1] # p
  BY AbsentIs
<1>2. ASSUME NEW q \in DOMAIN t, IsPrefix(p, q) PROVE FALSE
  <2>1. q \in Seq(Nat)
    BY DEF Containers
  <2>2. Len(p) \in 0..Len(q) /\ p = SubSeq(q, 1, Len(p))
    BY <1>2, <2>1, IsPrefixIs
  <2>3. p \in DOMAIN t
    BY <2>2 DEF IsTree, WaysAreDirs
  <2> QED
    BY <1>1, <2>3
<1>3. ASSUME NEW e \in TableOf(t), IsPrefix(p, e[1]) PROVE FALSE
  <2>1. e[1] \in Seq(Nat) /\ e[1] # p /\ Front(e[1]) \in DOMAIN t
    BY <1>1, TableIs
  <2>2. IsPrefix(p, Front(e[1]))
    BY <1>3, <2>1, PrefixesNest
  <2> QED
    BY <1>2, <2>1, <2>2
<1> QED
  BY <1>2, <1>3

\* What a set is passed on to is in the table.
LEMMA TargetIs ==
  ASSUME TypeOK, TreeInv, NEW p \in Paths, SetTarget(p) \in Writable
  PROVE  SetTarget(p) \in Watchers /\ \E e \in TableOf(dirs) : e[2] = SetTarget(p)
<1>1. Labels(p) \in Seq(Nat) /\ SetTarget(p) \in Watchers
  BY PathIs, WatchersAssumption DEF Watchers
<1>2. <<Labels(p), SetTarget(p)>> \in TableOf(dirs)
  BY <1>1, TableIs DEF SetTarget, TypeOK, TreeInv
<1> QED
  BY <1>1, <1>2

\* The operators on sequences that the table uses are those of the tree.
LEMMA SameOperators ==
  ASSUME NEW p, NEW q
  PROVE  /\ Table!IsPrefix(p, q) <=> IsPrefix(p, q)
         /\ Table!IsStrictPrefix(p, q) <=> IsStrictPrefix(p, q)
         /\ Table!Last(p) = Last(p)
BY DEF Table!IsPrefix, IsPrefix, Table!IsStrictPrefix, IsStrictPrefix, Table!Last, Last

\* add_watcher() is the addition of an entry.
LEMMA AddIsAddEntry ==
  ASSUME TypeOK, TreeInv, NEW p \in Paths, NEW w \in Watchers, AddWatcher(p, w)
  PROVE  Table!AddEntry(p, w)
<1>1. Containers(dirs) /\ IsTree(dirs)
  BY DEF TypeOK, TreeInv
<1>2. dirs' = WithWatcher(dirs, p, w) /\ value' = value
  BY AddWatcherIs
<1>3. {e \in Entries : e[2] # Director}' = TableOf(dirs') /\ {e \in Entries : e[2] # Director} = TableOf(dirs)
  BY DEF Entries, TableOf
<1>4. /\ Table!Above(p) = AboveIn(dirs, p)
      /\ Table!Blocked(p) <=> BlockedIn(dirs, p)
      /\ Table!Taken(p) <=> p \in DOMAIN dirs \/ \E e \in TableOf(dirs) : e[1] = p
  <2>1. Table!Above(p) = AboveIn(dirs, p)
    BY <1>3, SameOperators DEF Table!Above, AboveIn
  <2>2. Table!Blocked(p) <=> BlockedIn(dirs, p)
    BY <1>3, SameOperators DEF Table!Blocked, BlockedIn
  <2>3. Table!Taken(p) <=> p \in DOMAIN dirs \/ \E e \in TableOf(dirs) : e[1] = p
    BY <1>3 DEF Table!Taken
  <2> QED
    BY <2>1, <2>2, <2>3
<1>5. (DOMAIN dirs)' = DOMAIN dirs \cup Table!Above(p)
  BY <1>1, <1>2, <1>4, WithWatcherTable
<1>6. TableOf(dirs') = IF Table!Taken(p) \/ Table!Blocked(p) \/ Last(p) = Empty
                         THEN TableOf(dirs) ELSE TableOf(dirs) \cup {<<p, w>>}
  <2>1. TableOf(WithWatcher(dirs, p, w)) = TableWith(dirs, p, w)
    BY <1>1, WithWatcherTable
  <2>2. Refused(dirs, p) <=> Table!Taken(p) \/ Table!Blocked(p) \/ Last(p) = Empty
    BY <1>4 DEF Refused
  <2>3. CASE Refused(dirs, p)
    <3>1. TableOf(dirs') = TableOf(dirs)
      BY <1>2, <2>1, <2>3 DEF TableWith
    <3>2. Table!Taken(p) \/ Table!Blocked(p) \/ Last(p) = Empty
      BY <2>2, <2>3
    <3> QED
      BY <3>1, <3>2
  <2>4. CASE ~ Refused(dirs, p)
    <3>1. TableOf(dirs') = TableOf(dirs) \cup {<<p, w>>}
      BY <1>2, <2>1, <2>4 DEF TableWith
    <3>2. ~ (Table!Taken(p) \/ Table!Blocked(p) \/ Last(p) = Empty)
      BY <2>2, <2>4
    <3> QED
      BY <3>1, <3>2
  <2> QED
    BY <2>3, <2>4
<1> QED
  BY <1>2, <1>3, <1>5, <1>6, SameOperators DEF Table!AddEntry

\* remove_watcher() is the removal of entries.
LEMMA RemoveIsRemoveEntries ==
  ASSUME TypeOK, TreeInv, NEW p \in Paths, RemoveWatcher(p)
  PROVE  Table!RemoveEntries(p)
<1>1. Containers(dirs) /\ IsTree(dirs)
  BY DEF TypeOK, TreeInv
<1>2. p \in Seq(Nat) /\ p # Root
  BY PathIs
<1>3. {e \in Entries : e[2] # Director}' = TableOf(dirs') /\ {e \in Entries : e[2] # Director} = TableOf(dirs)
  BY DEF Entries, TableOf
<1>4. DOMAIN (dirs') = {q \in DOMAIN dirs : ~ IsPrefix(p, q)}
      /\ TableOf(dirs') = {e \in TableOf(dirs) : ~ IsPrefix(p, e[1])}
  <2>1. CASE dirs' = dirs /\ (Front(p) \notin DOMAIN dirs \/ FindChild(dirs, Front(p), Last(p)) = Absent)
    <3>1. At(dirs, p) = Absent
      BY <1>1, <1>2, <2>1, AtIs
    <3>2. /\ \A q \in DOMAIN dirs : ~ IsPrefix(p, q)
          /\ \A e \in TableOf(dirs) : ~ IsPrefix(p, e[1])
      BY <1>1, <1>2, <3>1, NothingBelow
    <3> QED
      BY <2>1, <3>2
  <2>2. CASE /\ dirs' = Removed(dirs, p) /\ Front(p) \in DOMAIN dirs
             /\ FindChild(dirs, Front(p), Last(p)) # Absent
    <3>1. DOMAIN Removed(dirs, p) = {q \in DOMAIN dirs : ~ IsPrefix(p, q)}
      BY DEF Removed
    <3>2. TableOf(Removed(dirs, p)) = {e \in TableOf(dirs) : ~ IsPrefix(p, e[1])}
      BY <1>1, <1>2, <2>2, RemovedTable
    <3> QED
      BY <2>2, <3>1, <3>2
  <2> QED
    BY <2>1, <2>2, RemoveWatcherIs
<1>5. value' = value
  BY RemoveWatcherIs
<1> QED
  BY <1>3, <1>4, <1>5, SameOperators DEF Table!RemoveEntries

\* The tree of watchers is a table of paths: what was added is found under its path, and only
\* there, until it or something above it is removed, and only a watcher that is there and not
\* read-only has its value set.
THEOREM TreeImplementsTable == Spec => ImplementsTable
<1>1. Init => Table!Init
  <2> SUFFICES ASSUME Init PROVE Table!Init
    OBVIOUS
  <2>1. DOMAIN dirs = {<<>>} /\ dirs[<<>>] = <<>>
    BY DEF Init, Root
  <2>2. TableOf(dirs) = {}
    BY <2>1 DEF TableOf
  <2>3. ValuesTyped(value)
    BY InitTyped
  <2>4. \A w \in Watchers : value[w] \in [u \in Values \cup Functions |-> Contents(u)][w]
    BY <2>3 DEF ValuesTyped, Watchers
  <2> QED
    BY <2>1, <2>2, <2>3, <2>4, TableIsOf DEF Table!Init, ValuesTyped, Watchers
<1>2. TypeOK /\ TreeInv /\ [Next]_vars
      => [Table!Next]_<<DOMAIN dirs, {e \in Entries : e[2] # Director}, value>>
  <2> SUFFICES ASSUME TypeOK, TreeInv, [Next]_vars
               PROVE  [Table!Next]_<<DOMAIN dirs, {e \in Entries : e[2] # Director}, value>>
    OBVIOUS
  <2>1. ASSUME dirs' = dirs
        PROVE  UNCHANGED <<DOMAIN dirs, {e \in Entries : e[2] # Director}>>
    BY <2>1 DEF Entries
  <2>2. ASSUME NEW p \in Paths, NEW w \in Watchers, AddWatcher(p, w)
        PROVE  Table!Next
    BY <2>2, AddIsAddEntry DEF Table!Next, Watchers
  <2>3. ASSUME NEW p \in Paths, RemoveWatcher(p)
        PROVE  Table!Next
    BY <2>3, RemoveIsRemoveEntries DEF Table!Next
  <2>4. ASSUME NEW p \in Paths, GetWatcherValue(p) \/ VisitChildren(p)
        PROVE  UNCHANGED <<dirs, value>>
    BY <2>4 DEF GetWatcherValue, VisitChildren
  <2>5. ASSUME NEW p \in Paths, SetTarget(p) \in Writable, NEW y \in Contents(SetTarget(p)),
               value' = [value EXCEPT ![SetTarget(p)] = y], dirs' = dirs
        PROVE  Table!Next
    <3>1. SetTarget(p) \in Watchers /\ \E e \in TableOf(dirs) : e[2] = SetTarget(p)
      BY <2>5, TargetIs
    <3>2. Table!SetValue(SetTarget(p), y)
      BY <2>1, <2>5, <3>1, TableIsOf DEF Table!SetValue
    <3>3. y \in [w \in Values \cup Functions |-> Contents(w)][SetTarget(p)]
      BY <2>5, <3>1 DEF Watchers
    <3> QED
      BY <3>1, <3>2, <3>3 DEF Table!Next, Watchers
  <2>6. ASSUME NEW p \in Paths, NEW s \in Streams, SetWatcherValue(p, s)
        PROVE  Table!Next \/ UNCHANGED <<dirs, value>>
    <3>1. dirs' = dirs
      BY <2>6 DEF SetWatcherValue
    <3>2. CASE value' = value
      BY <3>1, <3>2
    <3>3. CASE StoresValue(SetTarget(p), s)
               /\ \E v \in Read(SetTarget(p), s) : value' = [value EXCEPT ![SetTarget(p)] = v]
      BY <2>5, <3>1, <3>3 DEF StoresValue, Read
    <3> QED
      BY <2>6, <3>2, <3>3 DEF SetWatcherValue
  <2>7. ASSUME NEW p \in Paths, SetFromString(p)
        PROVE  Table!Next
    BY <2>5, <2>7 DEF SetFromString, StoresText, Converted
  <2>8. CASE UNCHANGED vars
    BY <2>1, <2>8 DEF vars
  <2> QED
    BY <2>1, <2>2, <2>3, <2>4, <2>6, <2>7, <2>8 DEF Next, Watchers
<1>3. Spec => [](TypeOK /\ TreeInv)
  BY InitTree, NextTree, PTL DEF Spec
<1> QED
  BY <1>1, <1>2, <1>3, PTL DEF Spec, ImplementsTable, Table!Spec, Table!tvars

-----------------------------------------------------------------------------
(* Sequences that are put one after the other.                               *)

\* No element occurs twice in s, and B is the set of them.
Enumerates(s, S, B) == s \in Seq(S) /\ ToSet(s) = B /\ IsInjective(s)

\* Two lists that share no element make one of the elements of both.
LEMMA ConcatLists ==
  ASSUME NEW S, NEW a, NEW A, NEW b, NEW B, Enumerates(a, S, A), Enumerates(b, S, B), A \cap B = {}
  PROVE  Enumerates(a \o b, S, A \cup B)
<1>1. /\ a \in Seq(S) /\ ToSet(a) = A /\ IsInjective(a)
      /\ b \in Seq(S) /\ ToSet(b) = B /\ IsInjective(b)
  BY DEF Enumerates
<1> DEFINE c == a \o b
           m == Len(a)
           n == Len(b)
<1>2. /\ c \in Seq(S) /\ m \in Nat /\ n \in Nat /\ Len(c) = m + n
      /\ DOMAIN a = 1..m /\ DOMAIN b = 1..n /\ DOMAIN c = 1..(m + n)
  BY <1>1, ConcatProperties, LenProperties
<1>3. \A i \in 1..(m + n) : c[i] = IF i <= m THEN a[i] ELSE b[i - m]
  BY <1>1, ConcatProperties
<1> HIDE DEF c, m, n
<1>4. ASSUME NEW i \in 1..(m + n)
      PROVE  \/ i \in DOMAIN a /\ c[i] = a[i] /\ a[i] \in A
             \/ i - m \in DOMAIN b /\ c[i] = b[i - m] /\ b[i - m] \in B
  <2>1. CASE i <= m
    <3>1. i \in DOMAIN a /\ c[i] = a[i]
      BY <1>2, <1>3, <2>1
    <3> QED
      BY <3>1, <1>1 DEF ToSet
  <2>2. CASE ~ i <= m
    <3>1. i - m \in DOMAIN b /\ c[i] = b[i - m]
      BY <1>2, <1>3, <2>2
    <3> QED
      BY <3>1, <1>1 DEF ToSet
  <2> QED
    BY <2>1, <2>2
<1>5. ToSet(c) = A \cup B
  <2>1. ASSUME NEW x \in A PROVE \E i \in DOMAIN c : c[i] = x
    <3>1. PICK i \in DOMAIN a : a[i] = x
      BY <1>1 DEF ToSet
    <3>2. i \in 1..(m + n) /\ i <= m
      BY <1>2
    <3> QED
      BY <1>2, <1>3, <3>1, <3>2
  <2>2. ASSUME NEW x \in B PROVE \E i \in DOMAIN c : c[i] = x
    <3>1. PICK i \in DOMAIN b : b[i] = x
      BY <1>1 DEF ToSet
    <3>2. i + m \in 1..(m + n) /\ ~ i + m <= m /\ (i + m) - m = i
      BY <1>2
    <3> QED
      BY <1>2, <1>3, <3>1, <3>2
  <2>3. \A x \in ToSet(c) : x \in A \cup B
    BY <1>2, <1>4 DEF ToSet
  <2>4. \A x \in A \cup B : x \in ToSet(c)
    BY <2>1, <2>2 DEF ToSet
  <2> QED
    BY <2>3, <2>4
<1>6. IsInjective(c)
  <2> SUFFICES ASSUME NEW i \in 1..(m + n), NEW j \in 1..(m + n), c[i] = c[j] PROVE i = j
    BY <1>2 DEF IsInjective
  <2>1. i \in Int /\ j \in Int /\ m \in Int
    BY <1>2
  <2>2. CASE i \in DOMAIN a /\ c[i] = a[i] /\ a[i] \in A
    <3>1. j \in DOMAIN a /\ c[j] = a[j]
      BY <1>4, <2>2
    <3> QED
      BY <1>1, <2>2, <3>1 DEF IsInjective
  <2>3. CASE i - m \in DOMAIN b /\ c[i] = b[i - m] /\ b[i - m] \in B
    <3>1. j - m \in DOMAIN b /\ c[j] = b[j - m]
      BY <1>4, <2>3
    <3>2. i - m = j - m
      BY <1>1, <2>3, <3>1 DEF IsInjective
    <3> QED
      BY <2>1, <3>2
  <2> QED
    BY <1>4, <2>2, <2>3
<1> QED
  BY <1>2, <1>5, <1>6 DEF Enumerates, c

\* f[i] is the first i of ss put one after the other.
Joins(f, ss, n) == f = [i \in 1..n |-> IF i = 1 THEN ss[i] ELSE f[i - 1] \o ss[i]]

\* Any number of them can be.
LEMMA JoinsExist ==
  ASSUME NEW ss, NEW n \in Nat
  PROVE  \E f : Joins(f, ss, n)
<1> DEFINE Good == {k \in Nat : \E f : Joins(f, ss, k)}
<1>1. 0 \in Good
  <2> DEFINE f == [i \in 1..0 |-> ss]
  <2>1. f = [i \in 1..0 |-> IF i = 1 THEN ss[i] ELSE f[i - 1] \o ss[i]]
    OBVIOUS
  <2> HIDE DEF f
  <2> QED
    BY <2>1 DEF Joins
<1>2. ASSUME NEW k \in 0..(n - 1), k \in Good PROVE k + 1 \in Good
  <2>1. PICK f : Joins(f, ss, k)
    BY <1>2
  <2> DEFINE g == [i \in 1..(k + 1) |->
                     IF i <= k THEN f[i] ELSE IF i = 1 THEN ss[i] ELSE f[i - 1] \o ss[i]]
             h == [i \in 1..(k + 1) |-> IF i = 1 THEN ss[i] ELSE g[i - 1] \o ss[i]]
  <2>2. \A i \in 1..k : f[i] = IF i = 1 THEN ss[i] ELSE f[i - 1] \o ss[i]
    BY <2>1 DEF Joins
  <2>3. ASSUME NEW i \in 1..(k + 1) PROVE g[i] = h[i]
    <3>1. CASE i = 1 /\ i <= k
      BY <2>2, <3>1
    <3>2. CASE i = 1 /\ ~ i <= k
      BY SMTT(30), <3>2
    <3>3. CASE i # 1
      <4>1. i - 1 \in 1..(k + 1) /\ i - 1 <= k /\ (i <= k => i \in 1..k)
        BY <3>3
      <4>2. g[i - 1] = f[i - 1]
        BY <4>1
      <4>3. g[i] = f[i - 1] \o ss[i]
        BY <2>2, <3>3, <4>1
      <4>4. h[i] = g[i - 1] \o ss[i]
        BY <3>3
      <4> QED
        BY <4>2, <4>3, <4>4
    <3> QED
      BY <3>1, <3>2, <3>3
  <2>4. g = h
    <3>1. DOMAIN g = 1..(k + 1) /\ DOMAIN h = 1..(k + 1)
      OBVIOUS
    <3>2. g = [i \in 1..(k + 1) |-> g[i]] /\ h = [i \in 1..(k + 1) |-> h[i]]
      OBVIOUS
    <3> HIDE DEF g, h
    <3> QED
      BY <2>3, <3>2
  <2> HIDE DEF g
  <2>5. Joins(g, ss, k + 1)
    BY <2>4 DEF Joins
  <2> QED
    BY <2>5
<1> HIDE DEF Good
<1>3. n \in Good
  BY <1>1, <1>2, UpTo
<1> QED
  BY <1>3 DEF Good

\* Lists that share no element make one of the elements of all.
LEMMA FlattenLists ==
  ASSUME NEW S, NEW ss \in Seq(Seq(S)), NEW F,
         \A i \in DOMAIN ss : Enumerates(ss[i], S, F[i]),
         \A i, j \in DOMAIN ss : i # j => F[i] \cap F[j] = {},
         NEW B, \A x : x \in B <=> \E i \in DOMAIN ss : x \in F[i]
  PROVE  Enumerates(FlattenSeq(ss), S, B)
<1>4. B = UNION {F[i] : i \in DOMAIN ss}
  OBVIOUS
<1> SUFFICES Enumerates(FlattenSeq(ss), S, UNION {F[i] : i \in DOMAIN ss})
  BY <1>4
<1> DEFINE n == Len(ss)
           Of(k) == UNION {F[i] : i \in 1..k}
<1>1. n \in Nat /\ DOMAIN ss = 1..n
  BY LenProperties
<1>2. CASE n = 0
  <2>1. ss = <<>> /\ DOMAIN ss = {}
    BY <1>1, <1>2, EmptySeq
  <2>2. FlattenSeq(ss) = <<>>
    BY <1>2, <2>1 DEF FlattenSeq
  <2>3. <<>> \in Seq(S) /\ DOMAIN (<<>>) = {}
    BY EmptySeq
  <2>4. ToSet(<<>>) = {} /\ IsInjective(<<>>)
    BY <2>3 DEF ToSet, IsInjective
  <2>5. UNION {F[i] : i \in DOMAIN ss} = {}
    BY <2>1
  <2> QED
    BY <2>2, <2>3, <2>4, <2>5 DEF Enumerates
<1>3. CASE n # 0
  <2> DEFINE f == CHOOSE flatten :
                    flatten = [i \in 1..Len(ss) |-> IF i = 1 THEN ss[i] ELSE flatten[i - 1] \o ss[i]]
  <2>1. FlattenSeq(ss) = f[n]
    BY <1>3, Zenon DEF FlattenSeq
  <2>2. Joins(f, ss, n)
    <3>1. \E g : Joins(g, ss, n)
      BY <1>1, JoinsExist
    <3> QED
      BY <3>1 DEF Joins
  <2> HIDE DEF f
  <2>3. \A i \in 1..n : f[i] = IF i = 1 THEN ss[i] ELSE f[i - 1] \o ss[i]
    BY <2>2 DEF Joins
  <2> DEFINE Good == {k \in Nat : k = 0 \/ Enumerates(f[k], S, Of(k))}
  <2>4. 0 \in Good
    OBVIOUS
  <2>5. ASSUME NEW k \in 0..(n - 1), k \in Good PROVE k + 1 \in Good
    <3>1. k \in Nat /\ k + 1 \in 1..n /\ k + 1 \in DOMAIN ss /\ (k + 1) - 1 = k
      BY <1>1
    <3> HIDE DEF n, Of, Good
    <3>2. ASSUME k = 0 PROVE Enumerates(f[k + 1], S, Of(k + 1))
      <4>1. f[k + 1] = ss[k + 1] /\ Enumerates(ss[k + 1], S, F[k + 1])
        BY <2>3, <3>1, <3>2
      <4>2. Of(k + 1) = F[k + 1]
        <5>1. \A i : i \in 1..(k + 1) <=> i = k + 1
          BY <3>2
        <5>2. \A x : x \in Of(k + 1) <=> \E i \in 1..(k + 1) : x \in F[i]
          BY DEF Of
        <5>3. ASSUME NEW x PROVE x \in Of(k + 1) <=> x \in F[k + 1]
          <6>1. x \in Of(k + 1) <=> \E i \in 1..(k + 1) : x \in F[i]
            BY <5>2
          <6>2. (\E i \in 1..(k + 1) : x \in F[i]) <=> \E i : i = k + 1 /\ x \in F[i]
            BY <5>1, Zenon
          <6> QED
            BY <6>1, <6>2, Zenon
        <5> QED
          BY <5>3
      <4> QED
        BY <4>1, <4>2
    <3>3. ASSUME k # 0 PROVE Enumerates(f[k + 1], S, Of(k + 1))
      <4>1. f[k + 1] = f[k] \o ss[k + 1]
        <5>1. f[k + 1] = IF k + 1 = 1 THEN ss[k + 1] ELSE f[(k + 1) - 1] \o ss[k + 1]
          BY <2>3, <3>1
        <5>2. k + 1 # 1
          BY <3>1, <3>3
        <5>3. f[(k + 1) - 1] = f[k]
          BY <3>1
        <5> QED
          BY <5>1, <5>2, <5>3
      <4>2. Enumerates(f[k], S, Of(k)) /\ Enumerates(ss[k + 1], S, F[k + 1])
        BY <2>5, <3>1, <3>3 DEF Good
      <4>3. Of(k) \cap F[k + 1] = {}
        <5>1. ASSUME NEW i \in 1..k PROVE F[i] \cap F[k + 1] = {}
          <6>1. i \in DOMAIN ss /\ i # k + 1
            BY <1>1, <3>1
          <6> QED
            BY <3>1, <6>1
        <5> QED
          BY <5>1 DEF Of
      <4>4. Of(k + 1) = Of(k) \cup F[k + 1]
        <5>1. \A i : i \in 1..(k + 1) <=> i \in 1..k \/ i = k + 1
          BY <3>1
        <5>2. /\ \A x : x \in Of(k + 1) <=> \E i \in 1..(k + 1) : x \in F[i]
              /\ \A x : x \in Of(k) <=> \E i \in 1..k : x \in F[i]
          BY ZenonT(60) DEF Of
        <5>3. \A x : x \in Of(k + 1) <=> x \in Of(k) \/ x \in F[k + 1]
          BY <5>1, <5>2
        <5> QED
          BY <5>3
      <4>5. Enumerates(f[k] \o ss[k + 1], S, Of(k) \cup F[k + 1])
        BY <4>2, <4>3, ConcatLists
      <4> QED
        BY <4>1, <4>4, <4>5
    <3>4. Enumerates(f[k + 1], S, Of(k + 1))
      BY <3>2, <3>3
    <3> QED
      BY <3>1, <3>4 DEF Good
  <2> HIDE DEF Good, Of, n
  <2>6. n \in Good
    <3>1. \A k \in 0..(n - 1) : k \in Good => k + 1 \in Good
      BY <2>5
    <3>2. n \in 0..n
      BY <1>1
    <3> QED
      BY <1>1, <2>4, <3>1, <3>2, UpTo
  <2>7. Enumerates(f[n], S, Of(n))
    BY <1>3, <2>6 DEF Good
  <2> QED
    BY <1>1, <2>1, <2>7 DEF Of
<1> QED
  BY <1>2, <1>3

-----------------------------------------------------------------------------
(* What is below a director.                                                 *)

\* A longer sequence is its beginning and the rest.
LEMMA RestIs ==
  ASSUME NEW S, NEW d \in Seq(S), NEW q \in Seq(S), IsStrictPrefix(d, q)
  PROVE  /\ SubSeq(q, Len(d) + 1, Len(q)) \in Seq(S) /\ SubSeq(q, Len(d) + 1, Len(q)) # <<>>
         /\ d \o SubSeq(q, Len(d) + 1, Len(q)) = q
<1> DEFINE m == Len(d)
           n == Len(q)
           r == SubSeq(q, m + 1, n)
<1>1. d = SubSeq(q, 1, m) /\ m \in 0..n /\ m \in Nat /\ n \in Nat /\ d # q
  BY IsPrefixIs, LenProperties DEF IsStrictPrefix
<1>2. SubSeq(q, 1, n) = q
  BY WholeWay
<1>3. SubSeq(q, 1, m) \o SubSeq(q, m + 1, n) = SubSeq(q, 1, n)
  <2>1. 1 \in 1..(n + 1) /\ m \in (1 - 1)..n /\ n \in m..n
    BY <1>1
  <2> QED
    BY <2>1, ConcatAdjacentSubSeq
<1>4. r \in Seq(S)
  <2>1. \A i \in (m + 1)..n : i \in 1..n
    BY <1>1
  <2>2. \A i \in (m + 1)..n : q[i] \in S
    BY <2>1, ElementOfSeq
  <2>3. m + 1 \in Int /\ n \in Int
    BY SMTT(30), <1>1
  <2> HIDE DEF m, n
  <2> QED
    BY <2>2, <2>3, SubSeqProperties
<1>5. r # <<>>
  <2> SUFFICES ASSUME r = <<>> PROVE FALSE
    OBVIOUS
  <2>1. d \o <<>> = d
    BY ConcatEmptySeq
  <2> QED
    BY <1>1, <1>2, <1>3, <2>1
<1> QED
  BY <1>1, <1>2, <1>3, <1>4, <1>5

\* The rest of d with x put after it is x.
LEMMA ExtendIs ==
  ASSUME NEW S, NEW d \in Seq(S), NEW x \in Seq(S), x # <<>>
  PROVE  /\ d \o x \in Seq(S) /\ IsStrictPrefix(d, d \o x)
         /\ SubSeq(d \o x, Len(d) + 1, Len(d \o x)) = x
<1> DEFINE q == d \o x
<1>1. /\ q \in Seq(S) /\ Len(q) = Len(d) + Len(x) /\ Len(d) \in Nat /\ Len(x) \in Nat
      /\ \A i \in 1..(Len(d) + Len(x)) : q[i] = IF i <= Len(d) THEN d[i] ELSE x[i - Len(d)]
  BY ConcatProperties, LenProperties
<1>2. d # q
  <2>1. d \o x = d => x = <<>>
    BY ConcatEqualIffEmpty
  <2> QED
    BY <2>1
<1> HIDE DEF q
<1>3. IsPrefix(d, q)
  <2>1. Len(d) \in 0..Len(q)
    BY <1>1
  <2>2. /\ SubSeq(q, 1, Len(d)) \in Seq(S) /\ Len(SubSeq(q, 1, Len(d))) = Len(d)
        /\ \A i \in 1..Len(d) : SubSeq(q, 1, Len(d))[i] = q[i]
    BY <1>1, <2>1, PrefixIs
  <2>3. \A i \in 1..Len(d) : q[i] = d[i]
    BY <1>1
  <2>4. d = SubSeq(q, 1, Len(d))
    BY <2>2, <2>3, SeqEqual
  <2> QED
    BY <1>1, <2>1, <2>4, IsPrefixIs
<1>4. IsStrictPrefix(d, q)
  BY <1>2, <1>3 DEF IsStrictPrefix
<1> DEFINE r == SubSeq(q, Len(d) + 1, Len(q))
<1>5. r \in Seq(S) /\ d \o r = q
  BY <1>1, <1>4, RestIs
<1> HIDE DEF r
<1>6. d \o r = d \o x
  BY <1>5 DEF q
<1>7. r = x
  BY <1>5, <1>6, ConcatSimplifications
<1> QED
  BY <1>1, <1>4, <1>7 DEF q, r

\* The paths of everything below d in the tree t, from d.
BelowIn(t, d) ==
  LET all == (DOMAIN t \ {Root}) \cup
             UNION {{Append(q, t[q][i].label) : i \in DOMAIN t[q]} : q \in DOMAIN t}
  IN  {SubSeq(q, Len(d) + 1, Len(q)) : q \in {q \in all : IsStrictPrefix(d, q)}}

\* From d, x leads to an entry of some director.
LeadsTo(t, d, x) ==
  /\ x \in Seq(Nat) /\ x # <<>>
  /\ \E q \in DOMAIN t : \E e \in ToSet(t[q]) : d \o x = Append(q, e.label)

\* They are the paths to the entries of d and of the directors below it.
LEMMA BelowIs ==
  ASSUME NEW t, Containers(t), IsTree(t), NEW d \in DOMAIN t, NEW x
  PROVE  x \in BelowIn(t, d) <=> LeadsTo(t, d, x)
<1> DEFINE Inner == {Append(q, t[q][i].label) : q \in DOMAIN t, i \in Nat}
           all == (DOMAIN t \ {Root}) \cup
                  UNION {{Append(q, t[q][i].label) : i \in DOMAIN t[q]} : q \in DOMAIN t}
<1>1. DOMAIN t \in SUBSET Seq(Nat)
  BY DEF Containers
<1>2. ASSUME NEW p
      PROVE  p \in all <=> \E q \in DOMAIN t : \E e \in ToSet(t[q]) : p = Append(q, e.label)
  <2>1. ASSUME p \in DOMAIN t, p # Root
        PROVE  \E q \in DOMAIN t : \E e \in ToSet(t[q]) : p = Append(q, e.label)
    <3>1. /\ Front(p) \in DOMAIN t
          /\ [label |-> Last(p), watcher |-> Director] \in ToSet(t[Front(p)])
      BY <2>1 DEF IsTree, DirsAreEntries
    <3>2. p = Append(Front(p), Last(p))
      BY <1>1, <2>1, FrontIs DEF Root
    <3>3. [label |-> Last(p), watcher |-> Director].label = Last(p)
      OBVIOUS
    <3> QED
      BY <3>1, <3>2, <3>3
  <2>2. (\E q \in DOMAIN t : \E e \in ToSet(t[q]) : p = Append(q, e.label))
          <=> \E q \in DOMAIN t : \E i \in DOMAIN t[q] : p = Append(q, t[q][i].label)
    BY DEF ToSet
  <2>3. p \in all <=> \/ p \in DOMAIN t /\ p # Root
                      \/ \E q \in DOMAIN t : \E i \in DOMAIN t[q] : p = Append(q, t[q][i].label)
    OBVIOUS
  <2> HIDE DEF all
  <2> QED
    BY <2>1, <2>2, <2>3
<1>3. \A p \in all : p \in Seq(Nat)
  <2> SUFFICES ASSUME NEW p \in all PROVE p \in Seq(Nat)
    OBVIOUS
  <2>1. PICK q \in DOMAIN t : \E e \in ToSet(t[q]) : p = Append(q, e.label)
    BY <1>2
  <2>2. PICK e \in ToSet(t[q]) : p = Append(q, e.label)
    BY <2>1
  <2>3. e.label \in Nat /\ q \in Seq(Nat)
    BY <1>1, EntryTypes, EntryIs
  <2> QED
    BY <2>2, <2>3, AppendIs
<1>4. BelowIn(t, d) = {SubSeq(q, Len(d) + 1, Len(q)) : q \in {q \in all : IsStrictPrefix(d, q)}}
  BY DEF BelowIn
<1> HIDE DEF all
<1>5. ASSUME x \in BelowIn(t, d)
      PROVE  x \in Seq(Nat) /\ x # <<>> /\ d \o x \in all
  <2>1. PICK q \in all : IsStrictPrefix(d, q) /\ x = SubSeq(q, Len(d) + 1, Len(q))
    BY <1>4, <1>5
  <2> QED
    BY ZenonT(60), <2>1, <1>1, <1>3, RestIs
<1>6. ASSUME x \in Seq(Nat), x # <<>>, d \o x \in all
      PROVE  x \in BelowIn(t, d)
  <2>1. IsStrictPrefix(d, d \o x) /\ SubSeq(d \o x, Len(d) + 1, Len(d \o x)) = x
    BY <1>1, <1>6, ExtendIs
  <2> QED
    BY <1>4, <1>6, <2>1
<1> QED
  BY <1>2, <1>5, <1>6 DEF LeadsTo

\* What is below a director of d is below d.
LEMMA BelowChild ==
  ASSUME NEW t, Containers(t), IsTree(t), NEW d \in DOMAIN t, NEW l \in Nat,
         Append(d, l) \in DOMAIN t, NEW y, y \in BelowIn(t, Append(d, l))
  PROVE  <<l>> \o y \in BelowIn(t, d)
<1> DEFINE c == Append(d, l)
           k == <<l>>
           x == k \o y
<1>1. d \in Seq(Nat) /\ k \in Seq(Nat) /\ k # <<>> /\ c = d \o k
  <2>1. d \in Seq(Nat)
    BY DEF Containers
  <2>2. k \in Seq(Nat) /\ k # <<>>
    OBVIOUS
  <2>3. c = d \o k
    BY <2>1, AppendIsConcat
  <2> QED
    BY <2>1, <2>2, <2>3
<1>2. c \in DOMAIN t /\ y \in BelowIn(t, c)
  OBVIOUS
<1> HIDE DEF k, c
<1>3. LeadsTo(t, c, y)
  BY <1>2, BelowIs
<1>4. y \in Seq(Nat) /\ y # <<>>
  BY <1>3 DEF LeadsTo
<1>5. x \in Seq(Nat) /\ x # <<>>
  BY <1>1, <1>4, ConcatProperties, ConcatEqualIffEmpty
<1>6. (d \o k) \o y = d \o (k \o y)
  BY SMTT(30), <1>1, <1>4, ConcatAssociative
<1>7. d \o x = c \o y
  BY <1>1, <1>6
<1> HIDE DEF x
<1>8. LeadsTo(t, d, x)
  BY <1>3, <1>5, <1>7 DEF LeadsTo
<1> QED
  BY <1>8, BelowIs DEF x, k

\* What is below d through its entry e.
Through(t, d, e) ==
  {<<e.label>>} \cup
  IF e.watcher = Director THEN {<<e.label>> \o y : y \in BelowIn(t, Append(d, e.label))} ELSE {}

\* Everything below d is below it through one of its entries.
LEMMA BelowThrough ==
  ASSUME NEW t, Containers(t), IsTree(t), NEW d \in DOMAIN t
  PROVE  BelowIn(t, d) = UNION {Through(t, d, e) : e \in ToSet(t[d])}
<1>1. d \in Seq(Nat) /\ DOMAIN t \in SUBSET Seq(Nat)
  BY DEF Containers
<1>2. ASSUME NEW e \in ToSet(t[d])
      PROVE  /\ e.label \in Nat /\ <<e.label>> \in Seq(Nat) /\ <<e.label>> # <<>>
             /\ d \o <<e.label>> = Append(d, e.label)
             /\ Append(d, e.label) \in Seq(Nat)
             /\ e.watcher = Director => Append(d, e.label) \in DOMAIN t
  <2>1. e.label \in Nat
    BY EntryTypes, EntryIs
  <2>2. <<e.label>> \in Seq(Nat) /\ <<e.label>> # <<>>
    BY <2>1
  <2> QED
    BY <1>1, <2>1, <2>2, AppendIsConcat, AppendIs DEF IsTree, EntriesAreDirs
<1>3. ASSUME NEW e \in ToSet(t[d]), NEW x \in Through(t, d, e)
      PROVE  x \in BelowIn(t, d)
  <2>1. CASE x = <<e.label>>
    BY <1>2, <2>1, BelowIs DEF LeadsTo
  <2>2. CASE e.watcher = Director /\ \E y \in BelowIn(t, Append(d, e.label)) : x = <<e.label>> \o y
    <3>1. PICK y \in BelowIn(t, Append(d, e.label)) : x = <<e.label>> \o y
      BY <2>2
    <3> QED
      BY <3>1, <2>2, <1>2, BelowChild
  <2> QED
    BY <1>3, <2>1, <2>2 DEF Through
<1>4. ASSUME NEW x \in BelowIn(t, d)
      PROVE  \E e \in ToSet(t[d]) : x \in Through(t, d, e)
  <2>1. x \in Seq(Nat) /\ x # <<>>
        /\ \E q \in DOMAIN t : \E e \in ToSet(t[q]) : d \o x = Append(q, e.label)
    <3>1. LeadsTo(t, d, x)
      BY BelowIs
    <3> QED
      BY <3>1 DEF LeadsTo
  <2>2. PICK q \in DOMAIN t : \E e \in ToSet(t[q]) : d \o x = Append(q, e.label)
    BY <2>1
  <2>3. PICK e \in ToSet(t[q]) : d \o x = Append(q, e.label)
    BY <2>2
  <2> DEFINE l == x[1]
             y == SubSeq(x, 2, Len(x))
             c == Append(d, l)
  <2>4. Len(x) \in Nat /\ 1 \in 1..Len(x) /\ Len(x) \in 1..Len(x)
    BY <2>1, EmptySeq, LenProperties
  <2>5. l \in Nat /\ c \in Seq(Nat) /\ <<l>> \in Seq(Nat) /\ c = d \o <<l>>
    <3>1. l \in Nat
      BY <2>1, <2>4, ElementOfSeq
    <3> HIDE DEF l
    <3>2. <<l>> \in Seq(Nat)
      BY <3>1
    <3> QED
      BY <1>1, <3>1, <3>2, AppendIs, AppendIsConcat
  <2>6. x = <<l>> \o y
    <3>1. SubSeq(x, 1, Len(x)) = x
      BY <2>1, WholeWay
    <3>2. SubSeq(x, 1, Len(x)) = <<x[1]>> \o SubSeq(x, 1 + 1, Len(x))
      BY <2>1, <2>4, SubSeqRecursiveFirst
    <3> QED
      BY <3>1, <3>2
  <2>7. y \in Seq(Nat)
    <3>1. \A i \in 2..Len(x) : i \in 1..Len(x)
      BY <2>4
    <3>2. \A i \in 2..Len(x) : x[i] \in Nat
      BY <2>1, <3>1, ElementOfSeq
    <3>3. 2 \in Int /\ Len(x) \in Int
      BY <2>4
    <3> QED
      BY <3>2, <3>3, SubSeqProperties
  <2> HIDE DEF l, y, c
  <2>8. Append(q, e.label) = c \o y
    <3>1. (d \o <<l>>) \o y = d \o (<<l>> \o y)
      BY <1>1, <2>5, <2>7, ConcatAssociative
    <3> QED
      BY <2>3, <2>5, <2>6, <3>1
  <2>9. q \in Seq(Nat) /\ e.label \in Nat
    BY <1>1, EntryTypes, EntryIs
  <2>10. CASE y = <<>>
    <3>1. c \o y = c /\ <<l>> \o y = <<l>>
      BY <2>5, <2>10, ConcatEmptySeq
    <3>2. Append(q, e.label) = Append(d, l)
      BY <2>8, <3>1 DEF c
    <3>3. q = d /\ e.label = l
      <4>1. Front(Append(q, e.label)) = q /\ Last(Append(q, e.label)) = e.label
        BY <2>9, AppendIs
      <4>2. Front(Append(d, l)) = d /\ Last(Append(d, l)) = l
        BY <1>1, <2>5, AppendIs
      <4> QED
        BY <3>2, <4>1, <4>2
    <3> QED
      BY <2>6, <3>1, <3>3 DEF Through
  <2>11. CASE y # <<>>
    <3>1. IsStrictPrefix(c, c \o y)
      BY <2>5, <2>7, <2>11, ExtendIs
    <3> DEFINE p == Append(q, e.label)
    <3>2. p \in Seq(Nat) /\ Front(p) = q /\ IsPrefix(c, p) /\ c # p
      BY <2>8, <2>9, <3>1, AppendIs DEF IsStrictPrefix
    <3> HIDE DEF p
    <3>3. IsPrefix(c, q)
      BY <2>5, <3>2, PrefixesNest
    <3>4. Len(c) \in 0..Len(q) /\ c = SubSeq(q, 1, Len(c))
      BY <2>5, <2>9, <3>3, IsPrefixIs
    <3>5. c \in DOMAIN t
      BY <3>4 DEF IsTree, WaysAreDirs
    <3> DEFINE z == [label |-> l, watcher |-> Director]
    <3>6. c # Root /\ Front(c) = d /\ Last(c) = l
      BY <1>1, <2>5, AppendIs DEF c, Root
    <3>7. z \in ToSet(t[d])
      BY <3>5, <3>6 DEF IsTree, DirsAreEntries
    <3>8. y \in BelowIn(t, c)
      <4>1. \E v \in DOMAIN t : \E w \in ToSet(t[v]) : c \o y = Append(v, w.label)
        BY <2>8
      <4> QED
        BY <4>1, <2>7, <2>11, <3>5, BelowIs DEF LeadsTo
    <3>9. x \in Through(t, d, z)
      BY <2>6, <3>8 DEF Through, c
    <3> QED
      BY <3>7, <3>9
  <2> QED
    BY <2>10, <2>11
<1> QED
  BY <1>3, <1>4

\* A list of one.
LEMMA OneList ==
  ASSUME NEW S, NEW x \in S
  PROVE  Enumerates(<<x>>, S, {x})
<1>1. <<x>> \in Seq(S) /\ DOMAIN <<x>> = {1} /\ <<x>>[1] = x
  OBVIOUS
<1>2. ToSet(<<x>>) = {x}
  BY <1>1 DEF ToSet
<1>3. IsInjective(<<x>>)
  BY <1>1 DEF IsInjective
<1> QED
  BY <1>1, <1>2, <1>3 DEF Enumerates

\* a, each element with k before it.
After(k, a) == [j \in DOMAIN a |-> k \o a[j]]
AllAfter(k, B) == {k \o y : y \in B}

\* A list with the same beginning put before each element.
LEMMA AfterList ==
  ASSUME NEW S, NEW k \in Seq(S), NEW a, NEW B, Enumerates(a, Seq(S), B)
  PROVE  Enumerates(After(k, a), Seq(S), AllAfter(k, B))
<1>1. a \in Seq(Seq(S)) /\ ToSet(a) = B /\ IsInjective(a)
  BY DEF Enumerates
<1>2. Len(a) \in Nat /\ DOMAIN a = 1..Len(a) /\ \A j \in DOMAIN a : a[j] \in Seq(S)
  BY <1>1, LenProperties, ElementOfSeq
<1> DEFINE b == After(k, a)
<1>3. DOMAIN b = DOMAIN a /\ \A j \in DOMAIN a : b[j] = k \o a[j]
  BY DEF After
<1>4. \A j \in DOMAIN a : k \o a[j] \in Seq(S)
  BY <1>2, ConcatProperties
<1>5. b \in Seq(Seq(S))
  <2>1. b = [j \in 1..Len(a) |-> k \o a[j]]
    BY <1>2 DEF After
  <2>2. b \in [1..Len(a) -> Seq(S)]
    BY <1>2, <1>4, <2>1
  <2> HIDE DEF b
  <2> QED
    BY <1>2, <2>2
<1> HIDE DEF b
<1>6. ToSet(b) = AllAfter(k, B)
  <2>1. B = {a[j] : j \in DOMAIN a}
    BY <1>1 DEF ToSet
  <2>2. ToSet(b) = {b[j] : j \in DOMAIN b}
    BY DEF ToSet
  <2>3. \A x : x \in AllAfter(k, B) <=> \E j \in DOMAIN a : x = k \o a[j]
    BY <2>1 DEF AllAfter
  <2>4. \A x : x \in ToSet(b) <=> \E j \in DOMAIN a : x = b[j]
    BY <1>3, <2>2
  <2>5. \A x : x \in AllAfter(k, B) <=> x \in ToSet(b)
    BY <1>3, <2>3, <2>4
  <2> QED
    BY <2>5
<1>7. IsInjective(b)
  <2> SUFFICES ASSUME NEW i \in DOMAIN b, NEW j \in DOMAIN b, b[i] = b[j] PROVE i = j
    BY DEF IsInjective
  <2>1. k \o a[i] = k \o a[j] /\ a[i] \in Seq(S) /\ a[j] \in Seq(S)
    BY <1>2, <1>3
  <2>2. a[i] = a[j]
    BY <2>1, ConcatSimplifications
  <2> QED
    BY <1>1, <1>3, <2>2 DEF IsInjective
<1> QED
  BY <1>5, <1>6, <1>7 DEF Enumerates, b

-----------------------------------------------------------------------------
(* The visit of a director.                                                  *)

\* No watcher with a function is in the tree.
NoFunctionIn(t) == \A d \in DOMAIN t : \A i \in DOMAIN t[d] : t[d][i].watcher \notin Functions

\* No director of the tree is below n others.
AtMost(t, n) == \A d \in DOMAIN t : Len(d) <= n

\* What the visit of d is notified of for its entry i, when A is what the visits
\* of the directors are.
Piece(A, t, d, i) ==
  LET l == t[d][i].label IN
  IF t[d][i].watcher = Director
  THEN [j \in DOMAIN A[Append(d, l)] |-> <<l>> \o A[Append(d, l)][j]] \o << <<l>> >>
  ELSE << <<l>> >>

Visit(A, t, d) == FlattenSeq([i \in DOMAIN Visited(t[d]) |-> Piece(A, t, d, i)])

\* Without functions, the visit does not end before the last child.
LEMMA VisitedIs ==
  ASSUME NEW t, Containers(t), NoFunctionIn(t), NEW d \in DOMAIN t
  PROVE  Visited(t[d]) = t[d]
<1> DEFINE s == t[d]
<1>1. s \in Seq(Entry)
  BY EntryTypes
<1>2. {i \in DOMAIN s : s[i].watcher \in Functions} = {}
  BY DEF NoFunctionIn
<1> HIDE DEF s
<1>3. Len(s) \in Nat
  BY <1>1, LenProperties
<1>4. {Len(s)} \cup {i \in DOMAIN s : s[i].watcher \in Functions} = {Len(s)}
  BY <1>2
<1> DEFINE n == Len(s)
<1>5. Min({n}) = n
  <2> HIDE DEF n
  <2>1. n \in Nat
    BY <1>3 DEF n
  <2>2. \E x \in {n} : \A y \in {n} : x <= y
    BY <2>1
  <2> QED
    BY <2>2 DEF Min
<1>6. Visited(s) = SubSeq(s, 1, n)
  BY <1>4, <1>5 DEF Visited
<1> QED
  BY <1>1, <1>6, WholeWay DEF s

\* The label of an entry is a path, and leads to a director if the entry holds one.
LEMMA ChildIs ==
  ASSUME NEW t, Containers(t), IsTree(t), NEW d \in DOMAIN t, NEW i \in DOMAIN t[d]
  PROVE  /\ t[d][i].label \in Nat /\ <<t[d][i].label>> \in Seq(Nat)
         /\ t[d][i].watcher = Director => Append(d, t[d][i].label) \in DOMAIN t
         /\ Len(Append(d, t[d][i].label)) = Len(d) + 1
<1> DEFINE l == t[d][i].label
<1>1. d \in Seq(Nat)
  BY DEF Containers
<1>2. l \in Nat
  BY EntryTypes, EntryIs
<1>3. t[d][i] \in ToSet(t[d])
  BY DEF ToSet
<1>4. t[d][i].watcher = Director => Append(d, l) \in DOMAIN t
  BY <1>3 DEF IsTree, EntriesAreDirs
<1> HIDE DEF l
<1>5. Len(Append(d, l)) = Len(d) + 1 /\ <<l>> \in Seq(Nat)
  BY <1>1, <1>2, AppendIs
<1> QED
  BY <1>2, <1>4, <1>5 DEF l

\* For an entry, the visit is notified of what is below d through it.
LEMMA PieceIs ==
  ASSUME NEW t, Containers(t), IsTree(t), NEW d \in DOMAIN t, NEW i \in DOMAIN t[d], NEW A,
         t[d][i].watcher = Director =>
           Enumerates(A[Append(d, t[d][i].label)], Seq(Nat), BelowIn(t, Append(d, t[d][i].label)))
  PROVE  Enumerates(Piece(A, t, d, i), Seq(Nat), Through(t, d, t[d][i]))
<1> DEFINE l == t[d][i].label
           w == t[d][i].watcher
           k == <<l>>
           c == Append(d, l)
           a == A[c]
           B == BelowIn(t, c)
<1>1. k \in Seq(Nat) /\ (w = Director => c \in DOMAIN t)
  BY ChildIs
<1>2. w = Director => Enumerates(a, Seq(Nat), B)
  OBVIOUS
<1>3. /\ w = Director => Piece(A, t, d, i) = After(k, a) \o <<k>>
      /\ w # Director => Piece(A, t, d, i) = <<k>>
  BY DEF Piece, After
<1>4. /\ w = Director => Through(t, d, t[d][i]) = {k} \cup AllAfter(k, B)
      /\ w # Director => Through(t, d, t[d][i]) = {k}
  BY DEF Through, AllAfter
<1>5. c \in DOMAIN t => \A y \in B : y \in Seq(Nat) /\ y # <<>>
  <2>1. c \in DOMAIN t => \A y \in B : LeadsTo(t, c, y)
    <3> HIDE DEF c
    <3> QED
      BY BelowIs
  <2> QED
    BY <2>1 DEF LeadsTo
<1> HIDE DEF l, w, k, c, a, B
<1>6. Enumerates(<<k>>, Seq(Nat), {k})
  BY <1>1, OneList
<1>7. CASE w = Director
  <2>1. Enumerates(After(k, a), Seq(Nat), AllAfter(k, B))
    BY <1>1, <1>2, <1>7, AfterList
  <2>2. AllAfter(k, B) \cap {k} = {}
    <3> SUFFICES ASSUME NEW y \in B, k \o y = k PROVE FALSE
      BY DEF AllAfter
    <3>1. y \in Seq(Nat) /\ y # <<>>
      BY <1>1, <1>5, <1>7
    <3> QED
      BY <1>1, <3>1, ConcatSimplifications
  <2>3. Enumerates(After(k, a) \o <<k>>, Seq(Nat), AllAfter(k, B) \cup {k})
    BY <1>6, <2>1, <2>2, ConcatLists
  <2>4. AllAfter(k, B) \cup {k} = {k} \cup AllAfter(k, B)
    OBVIOUS
  <2> QED
    BY <1>3, <1>4, <1>7, <2>3, <2>4
<1>8. CASE w # Director
  BY <1>3, <1>4, <1>6, <1>8
<1> QED
  BY <1>7, <1>8

\* What is below d through different entries is different.
LEMMA ThroughDiffer ==
  ASSUME NEW t, Containers(t), IsTree(t), NEW d \in DOMAIN t,
         NEW i \in DOMAIN t[d], NEW j \in DOMAIN t[d], i # j
  PROVE  Through(t, d, t[d][i]) \cap Through(t, d, t[d][j]) = {}
<1>1. t[d][i].label # t[d][j].label
  <2>1. i \in Nat /\ j \in Nat
    BY EntryTypes
  <2>2. i < j \/ j < i
    BY <2>1
  <2>3. t[d][i].label < t[d][j].label \/ t[d][j].label < t[d][i].label
    BY <2>2 DEF IsTree, LabelsInOrder, Ordered
  <2>4. t[d][i].label \in Nat /\ t[d][j].label \in Nat
    BY ChildIs
  <2> QED
    BY <2>3, <2>4
<1>2. ASSUME NEW m \in DOMAIN t[d], NEW x \in Through(t, d, t[d][m])
      PROVE  x[1] = t[d][m].label
  <2> DEFINE l == t[d][m].label
             c == Append(d, l)
  <2>1. l \in Nat /\ <<l>> \in Seq(Nat) /\ (t[d][m].watcher = Director => c \in DOMAIN t)
    BY ChildIs
  <2>2. \/ x = <<l>>
        \/ t[d][m].watcher = Director /\ \E y \in BelowIn(t, c) : x = <<l>> \o y
    BY <1>2 DEF Through
  <2> HIDE DEF l, c
  <2>3. CASE x = <<l>>
    BY <2>3 DEF l
  <2>4. CASE t[d][m].watcher = Director /\ \E y \in BelowIn(t, c) : x = <<l>> \o y
    <3>1. c \in DOMAIN t
      BY <2>1, <2>4
    <3>2. PICK y \in BelowIn(t, c) : x = <<l>> \o y
      BY <2>4
    <3>3. LeadsTo(t, c, y)
      BY <3>1, <3>2, BelowIs
    <3>4. y \in Seq(Nat) /\ Len(y) \in Nat
      BY <3>3, LenProperties DEF LeadsTo
    <3>5. Len(<<l>>) = 1 /\ <<l>>[1] = l
      OBVIOUS
    <3> DEFINE k == <<l>>
    <3>6. k \in Seq(Nat) /\ Len(k) = 1 /\ k[1] = l
      BY <2>1, <3>5
    <3> HIDE DEF k
    <3>7. \A n \in 1..(Len(k) + Len(y)) :
            (k \o y)[n] = IF n <= Len(k) THEN k[n] ELSE y[n - Len(k)]
      BY <3>4, <3>6, ConcatProperties
    <3>10. 1 \in 1..(Len(k) + Len(y)) /\ 1 <= Len(k)
      BY <3>4, <3>6
    <3>8. (k \o y)[1] = k[1]
      BY <3>7, <3>10
    <3>9. x = k \o y
      BY <3>2 DEF k
    <3> QED
      BY <3>6, <3>8, <3>9 DEF l
  <2> QED
    BY <2>2, <2>3, <2>4
<1> QED
  BY <1>1, <1>2

\* The visit of d is notified of everything below d, once each, when that is so
\* of the visits of the directors that d has an entry for.
LEMMA VisitIs ==
  ASSUME NEW t, Containers(t), IsTree(t), NoFunctionIn(t), NEW d \in DOMAIN t, NEW A,
         \A i \in DOMAIN t[d] : t[d][i].watcher = Director =>
           Enumerates(A[Append(d, t[d][i].label)], Seq(Nat), BelowIn(t, Append(d, t[d][i].label)))
  PROVE  Enumerates(Visit(A, t, d), Seq(Nat), BelowIn(t, d))
<1> DEFINE ss == [i \in DOMAIN t[d] |-> Piece(A, t, d, i)]
           F == [i \in DOMAIN t[d] |-> Through(t, d, t[d][i])]
<1>1. Visit(A, t, d) = FlattenSeq(ss)
  BY VisitedIs DEF Visit
<1>2. DOMAIN ss = DOMAIN t[d] /\ \A i \in DOMAIN ss : Enumerates(ss[i], Seq(Nat), F[i])
  BY PieceIs
<1>3. ss \in Seq(Seq(Seq(Nat)))
  <2>1. \A i \in DOMAIN t[d] : Piece(A, t, d, i) \in Seq(Seq(Nat))
    BY <1>2 DEF Enumerates
  <2>2. DOMAIN t[d] = 1..Len(t[d]) /\ Len(t[d]) \in Nat
    BY EntryTypes, LenProperties
  <2>3. ss \in [1..Len(t[d]) -> Seq(Seq(Nat))]
    BY <2>1, <2>2
  <2> HIDE DEF ss
  <2> QED
    BY <2>2, <2>3
<1>4. \A i, j \in DOMAIN ss : i # j => F[i] \cap F[j] = {}
  BY ThroughDiffer
<1>5. \A x : x \in BelowIn(t, d) <=> \E i \in DOMAIN ss : x \in F[i]
  <2>1. BelowIn(t, d) = UNION {Through(t, d, e) : e \in ToSet(t[d])}
    BY BelowThrough
  <2>2. DOMAIN ss = DOMAIN t[d] /\ \A i \in DOMAIN ss : F[i] = Through(t, d, t[d][i])
    OBVIOUS
  <2>3. ToSet(t[d]) = {t[d][i] : i \in DOMAIN t[d]}
    BY DEF ToSet
  <2> HIDE DEF ss, F
  <2> QED
    BY <2>1, <2>2, <2>3
<1> DEFINE B == BelowIn(t, d)
           S == Seq(Nat)
<1> HIDE DEF ss, F, B
<1>6. \A i \in DOMAIN ss : Enumerates(ss[i], S, F[i])
  BY <1>2
<1>7. ss \in Seq(Seq(S)) /\ \A x : x \in B <=> \E i \in DOMAIN ss : x \in F[i]
  BY <1>3, <1>5 DEF B
<1> HIDE DEF S
<1>8. Enumerates(FlattenSeq(ss), S, B)
  BY <1>4, <1>6, <1>7, FlattenLists
<1> QED
  BY <1>1, <1>8 DEF S, B

\* A visit only looks at what the visits of the directors that d has an entry for are.
LEMMA VisitSame ==
  ASSUME NEW t, Containers(t), NoFunctionIn(t), NEW d \in DOMAIN t, NEW A, NEW C,
         \A i \in DOMAIN t[d] : t[d][i].watcher = Director =>
           A[Append(d, t[d][i].label)] = C[Append(d, t[d][i].label)]
  PROVE  Visit(A, t, d) = Visit(C, t, d)
<1>1. \A i \in DOMAIN t[d] : Piece(A, t, d, i) = Piece(C, t, d, i)
  <2> SUFFICES ASSUME NEW i \in DOMAIN t[d] PROVE Piece(A, t, d, i) = Piece(C, t, d, i)
    OBVIOUS
  <2> DEFINE c == Append(d, t[d][i].label)
  <2>1. CASE t[d][i].watcher = Director
    <3>1. A[c] = C[c]
      BY <2>1
    <3> HIDE DEF c
    <3> QED
      BY <3>1 DEF Piece, c
  <2>2. CASE t[d][i].watcher # Director
    BY <2>2 DEF Piece
  <2> QED
    BY <2>1, <2>2
<1>2. [i \in DOMAIN t[d] |-> Piece(A, t, d, i)] = [i \in DOMAIN t[d] |-> Piece(C, t, d, i)]
  BY <1>1
<1> QED
  BY <1>2, VisitedIs DEF Visit

\* A is the visits of the directors of the tree t that are at least m labels deep.
Lower(t, m) == {d \in DOMAIN t : m <= Len(d)}
AreVisits(A, t, m) == A = [d \in Lower(t, m) |-> Visit(A, t, d)]

\* The visits of the directors of a tree that is not deeper than n.
LEMMA VisitsExist ==
  ASSUME NEW t, Containers(t), IsTree(t), NoFunctionIn(t), NEW n \in Nat, AtMost(t, n)
  PROVE  \E A : AreVisits(A, t, 0)
<1> DEFINE Good == {k \in Nat : \E A : AreVisits(A, t, n + 1 - k)}
<1>1. \A d \in DOMAIN t : Len(d) \in Nat /\ Len(d) <= n
  <2>1. \A d \in DOMAIN t : d \in Seq(Nat)
    BY DEF Containers
  <2> QED
    BY <2>1, LenProperties DEF AtMost
<1>2. 0 \in Good
  <2>1. Lower(t, n + 1 - 0) = {}
    BY <1>1 DEF Lower
  <2> DEFINE A == [d \in {} |-> t]
  <2>2. A = [d \in {} |-> Visit(A, t, d)]
    OBVIOUS
  <2> HIDE DEF A
  <2>3. AreVisits(A, t, n + 1 - 0)
    BY <2>1, <2>2 DEF AreVisits
  <2> QED
    BY <2>3
<1>3. ASSUME NEW k \in 0..n, k \in Good PROVE k + 1 \in Good
  <2> DEFINE m == n + 1 - k
             B == Lower(t, m)
             D == Lower(t, m - 1)
  <2>1. PICK A : AreVisits(A, t, m)
    BY <1>3
  <2>2. DOMAIN A = B /\ \A d \in B : A[d] = Visit(A, t, d)
    <3>1. A = [d \in B |-> Visit(A, t, d)]
      BY <2>1 DEF AreVisits
    <3> HIDE DEF B
    <3> QED
      BY <3>1
  <2>3. m \in Nat /\ m - 1 \in Int /\ n + 1 - (k + 1) = m - 1 /\ k + 1 \in Nat
    OBVIOUS
  <2>4. B \subseteq D /\ D \subseteq DOMAIN t
    BY <1>1, <2>3 DEF Lower
  <2> DEFINE C == [d \in D |-> Visit(A, t, d)]
  <2>5. \A d \in B : C[d] = A[d]
    BY <2>2, <2>4
  <2>6. DOMAIN C = D /\ \A d \in D : C[d] = Visit(A, t, d)
    OBVIOUS
  <2>7. ASSUME NEW d \in D PROVE Visit(C, t, d) = Visit(A, t, d)
    <3>1. \A i \in DOMAIN t[d] : t[d][i].watcher = Director => Append(d, t[d][i].label) \in B
      <4> SUFFICES ASSUME NEW i \in DOMAIN t[d], t[d][i].watcher = Director
                   PROVE  Append(d, t[d][i].label) \in B
        OBVIOUS
      <4>1. d \in DOMAIN t /\ m - 1 <= Len(d)
        BY DEF Lower
      <4>2. Append(d, t[d][i].label) \in DOMAIN t /\ Len(Append(d, t[d][i].label)) = Len(d) + 1
        BY <4>1, ChildIs
      <4>3. m <= Len(d) + 1
        BY <1>1, <2>3, <4>1
      <4> QED
        BY <4>2, <4>3 DEF Lower
    <3>2. d \in DOMAIN t
      BY <2>4
    <3> HIDE DEF B, C, D
    <3>3. \A i \in DOMAIN t[d] : t[d][i].watcher = Director =>
            C[Append(d, t[d][i].label)] = A[Append(d, t[d][i].label)]
      BY <2>5, <3>1
    <3> QED
      BY <3>2, <3>3, VisitSame
  <2>8. C = [d \in D |-> Visit(C, t, d)]
    <3>1. C = [d \in D |-> Visit(A, t, d)]
      OBVIOUS
    <3> HIDE DEF C, D
    <3> QED
      BY <2>7, <3>1
  <2> HIDE DEF C, m
  <2>9. AreVisits(C, t, n + 1 - (k + 1))
    BY <2>3, <2>8 DEF AreVisits
  <2> QED
    BY <2>3, <2>9
<1> HIDE DEF Good
<1>4. n + 1 \in Good
  <2>1. n + 1 \in Nat /\ \A k \in 0..(n + 1 - 1) : k \in Good => k + 1 \in Good
    BY <1>3
  <2>2. n + 1 \in 0..(n + 1)
    BY <2>1
  <2> DEFINE N == n + 1
  <2> HIDE DEF N
  <2>3. N \in Nat /\ N \in 0..N /\ \A k \in 0..(N - 1) : k \in Good => k + 1 \in Good
    BY <2>1, <2>2 DEF N
  <2>4. N \in Good
    BY <1>2, <2>3, UpTo
  <2> QED
    BY <2>4 DEF N
<1>5. n + 1 - (n + 1) = 0
  OBVIOUS
<1> QED
  BY <1>4, <1>5 DEF Good

\* They are what the queries are notified of.
LEMMA AnswersAreVisits ==
  ASSUME NEW t, Containers(t), IsTree(t), NoFunctionIn(t), NEW n \in Nat, AtMost(t, n)
  PROVE  \A d \in DOMAIN t : Answers(t)[d] = Visit(Answers(t), t, d)
<1> DEFINE Chosen == CHOOSE A : A = [d \in DOMAIN t |->
             FlattenSeq([i \in DOMAIN Visited(t[d]) |->
               IF t[d][i].watcher = Director
               THEN [j \in DOMAIN A[Append(d, t[d][i].label)] |->
                       <<t[d][i].label>> \o A[Append(d, t[d][i].label)][j]] \o << <<t[d][i].label>> >>
               ELSE << <<t[d][i].label>> >>])]
<1>1. Answers(t) = Chosen
  BY Zenon DEF Answers
<1>2. Chosen = CHOOSE A : A = [d \in DOMAIN t |-> Visit(A, t, d)]
  BY Zenon DEF Visit, Piece
<1> HIDE DEF Chosen
<1>3. Lower(t, 0) = DOMAIN t
  <2>1. \A d \in DOMAIN t : d \in Seq(Nat)
    BY DEF Containers
  <2>2. \A d \in DOMAIN t : Len(d) \in Nat
    BY <2>1, LenProperties
  <2>3. \A d \in DOMAIN t : 0 <= Len(d)
    BY <2>2
  <2> QED
    BY <2>3 DEF Lower
<1>4. \E A : A = [d \in DOMAIN t |-> Visit(A, t, d)]
  BY <1>3, VisitsExist DEF AreVisits
<1>5. Chosen = [d \in DOMAIN t |-> Visit(Chosen, t, d)]
  BY <1>2, <1>4, Zenon
<1> QED
  BY <1>1, <1>5

\* A query that finds d is notified of everything below d, once each.
LEMMA AnswersAre ==
  ASSUME NEW t, Containers(t), IsTree(t), NoFunctionIn(t), NEW n \in Nat, AtMost(t, n)
  PROVE  \A d \in DOMAIN t : Enumerates(Answers(t)[d], Seq(Nat), BelowIn(t, d))
<1> DEFINE A == Answers(t)
           Right(d) == Enumerates(A[d], Seq(Nat), BelowIn(t, d))
           Good == {k \in Nat : \A d \in Lower(t, n + 1 - k) : Right(d)}
<1>1. \A d \in DOMAIN t : Len(d) \in Nat /\ Len(d) <= n
  <2>1. \A d \in DOMAIN t : d \in Seq(Nat)
    BY DEF Containers
  <2> QED
    BY <2>1, LenProperties DEF AtMost
<1>2. \A d \in DOMAIN t : A[d] = Visit(A, t, d)
  BY AnswersAreVisits
<1> HIDE DEF A
<1>3. 0 \in Good
  <2>1. Lower(t, n + 1 - 0) = {}
    BY <1>1 DEF Lower
  <2> HIDE DEF Right
  <2> QED
    BY <2>1
<1>4. ASSUME NEW k \in 0..n, k \in Good PROVE k + 1 \in Good
  <2> SUFFICES ASSUME NEW d \in Lower(t, n + 1 - (k + 1)) PROVE Right(d)
    OBVIOUS
  <2>1. d \in DOMAIN t /\ n - k <= Len(d)
    BY DEF Lower
  <2>2. ASSUME NEW i \in DOMAIN t[d], t[d][i].watcher = Director
        PROVE  Right(Append(d, t[d][i].label))
    <3>1. Append(d, t[d][i].label) \in DOMAIN t /\ Len(Append(d, t[d][i].label)) = Len(d) + 1
      BY <2>1, <2>2, ChildIs
    <3>2. n + 1 - k <= Len(d) + 1
      BY <1>1, <2>1
    <3>3. Append(d, t[d][i].label) \in Lower(t, n + 1 - k)
      BY <3>1, <3>2 DEF Lower
    <3> HIDE DEF Right
    <3> QED
      BY <1>4, <3>3
  <2>3. Enumerates(Visit(A, t, d), Seq(Nat), BelowIn(t, d))
    BY <2>1, <2>2, VisitIs
  <2> QED
    BY <1>2, <2>1, <2>3
<1> HIDE DEF Right, Good
<1>5. n + 1 \in Good
  <2> DEFINE N == n + 1
  <2>1. N \in Nat /\ N \in 0..N /\ \A k \in 0..(N - 1) : k \in 0..n
    OBVIOUS
  <2> HIDE DEF N
  <2>2. \A k \in 0..(N - 1) : k \in Good => k + 1 \in Good
    BY <1>4, <2>1
  <2>3. N \in Good
    BY <1>3, <2>1, <2>2, UpTo
  <2> QED
    BY <2>3 DEF N
<1>6. ASSUME NEW d \in DOMAIN t PROVE Right(d)
  <2>1. n + 1 - (n + 1) <= Len(d)
    BY <1>1
  <2>2. d \in Lower(t, n + 1 - (n + 1))
    BY <2>1 DEF Lower
  <2> QED
    BY <1>5, <2>2 DEF Good
<1> QED
  BY <1>6 DEF Right, A

\* The tree has an end.
Bounded(t) == \E n \in Nat : AtMost(t, n)

\* What VisitsAll says of the tree t and the answer r.
AllVisited(t, r) ==
  r # NoReply /\ r.asked = NoValue /\ At(t, r.path) = Director =>
    /\ ToSet(r.notified) = BelowIn(t, r.path) \cup (IF r.dir THEN {} ELSE {Root})
    /\ IsInjective(r.notified)

\* It is what VisitsAll says, of this state and of the next.
LEMMA VisitsAllIs ==
  /\ VisitsAll <=> AllVisited(dirs, reply)
  /\ VisitsAll' <=> AllVisited(dirs', reply')
BY DEF VisitsAll, AllVisited, Below, BelowIn

\* When a query finds a director, it is notified of what is below it.
LEMMA QueryIs ==
  ASSUME TypeOK, TreeInv, Bounded(dirs), NoFunctionIn(dirs),
         NEW p \in Paths, GetWatcherValue(p) \/ VisitChildren(p)
  PROVE  AllVisited(dirs, reply')
<1> DEFINE q == Labels(p)
           a == Answers(dirs)[q]
           B == BelowIn(dirs, q)
<1>1. reply'.path = q
  BY DEF GetWatcherValue, VisitChildren
<1>2. q \in Seq(Nat)
  BY PathIs
<1> SUFFICES ASSUME At(dirs, q) = Director
             PROVE  /\ ToSet(reply'.notified) = B \cup (IF reply'.dir THEN {} ELSE {Root})
                    /\ IsInjective(reply'.notified)
  BY <1>1 DEF AllVisited
<1> HIDE DEF q
<1>3. Containers(dirs) /\ IsTree(dirs)
  BY DEF TypeOK, TreeInv
<1>4. q \in DOMAIN dirs
  BY <1>2, <1>3, WhatIsAt
<1>5. Enumerates(a, Seq(Nat), B)
  <2>1. PICK n \in Nat : AtMost(dirs, n)
    BY DEF Bounded
  <2> QED
    BY <1>3, <1>4, <2>1, AnswersAre
<1>6. a \in Seq(Seq(Nat)) /\ ToSet(a) = B /\ IsInjective(a)
  BY <1>5 DEF Enumerates
<1>7. \A x \in B : x # Root
  <2>1. \A x \in B : LeadsTo(dirs, q, x)
    BY <1>3, <1>4, BelowIs
  <2> QED
    BY <2>1 DEF LeadsTo, Root
<1>10. /\ ~ EndsEarly(q, Functions) /\ ~ EndsEarly(q, Values \cup Functions)
       /\ At(dirs, q) \notin Values \cup Functions
  <2>1. ASSUME NEW i \in 1..(Len(q) - 1) PROVE At(dirs, SubSeq(q, 1, i)) = Director
    <3>1. Len(q) \in Nat
      BY <1>2, LenProperties
    <3>2. i \in 0..Len(q)
      BY <3>1
    <3>3. SubSeq(q, 1, i) \in DOMAIN dirs
      BY <1>3, <1>4, <3>2 DEF IsTree, WaysAreDirs
    <3>4. SubSeq(q, 1, i) \in Seq(Nat)
      BY <1>3, <3>3 DEF Containers
    <3> QED
      BY <1>3, <3>3, <3>4, WhatIsAt
  <2> QED
    BY <2>1, KindsAssumption DEF EndsEarly
<1> HIDE DEF a, B
<1>8. CASE VisitChildren(p)
  <2>1. reply'.dir = TRUE /\ reply'.notified = a
    BY <1>8, <1>10 DEF VisitChildren, q, a
  <2> QED
    BY <1>6, <2>1
<1>9. CASE GetWatcherValue(p)
  <2>1. reply'.dir = FALSE /\ reply'.notified = Append(a, Root)
    BY <1>9, <1>10 DEF GetWatcherValue, q, a
  <2>2. Root \in Seq(Nat)
    BY DEF Root
  <2>3. Append(a, Root) = a \o <<Root>>
    BY <1>6, <2>2, AppendIsConcat
  <2>4. Enumerates(<<Root>>, Seq(Nat), {Root})
    BY <2>2, OneList
  <2>5. B \cap {Root} = {}
    BY <1>7
  <2>6. Enumerates(a \o <<Root>>, Seq(Nat), B \cup {Root})
    BY <1>5, <2>4, <2>5, ConcatLists
  <2> QED
    BY <2>1, <2>3, <2>6 DEF Enumerates
<1> QED
  BY <1>8, <1>9

\* A watcher is added below as many directors as its path has labels, or fewer.
LEMMA WithWatcherBounded ==
  ASSUME NEW t, Containers(t), IsTree(t), Bounded(t), NEW p \in Paths, NEW w
  PROVE  Bounded(WithWatcher(t, p, w))
<1>1. PICK n \in Nat : AtMost(t, n)
  BY DEF Bounded
<1>2. DOMAIN WithWatcher(t, p, w) = DOMAIN t \cup Missing(t, p)
  BY DEF WithWatcher, Added, MakeDirs
<1>3. p \in Seq(Nat) /\ Len(p) \in Nat
  BY PathIs, LenProperties
<1>4. \A c \in Missing(t, p) : Len(c) \in Nat /\ Len(c) <= Len(p)
  <2> SUFFICES ASSUME NEW c \in Missing(t, p) PROVE Len(c) \in Nat /\ Len(c) <= Len(p)
    OBVIOUS
  <2>1. PICK i \in 1..(Len(p) - 1) : c = SubSeq(p, 1, i)
    BY DEF Missing
  <2>2. i \in 0..Len(p)
    BY <1>3
  <2> QED
    BY <1>3, <2>1, <2>2, PrefixIs
<1>5. \A d \in DOMAIN t : Len(d) \in Nat
  <2>1. \A d \in DOMAIN t : d \in Seq(Nat)
    BY DEF Containers
  <2> QED
    BY <2>1, LenProperties
<1>6. AtMost(WithWatcher(t, p, w), n + Len(p))
  <2>1. \A d \in DOMAIN t : Len(d) <= n
    BY <1>1 DEF AtMost
  <2>2. \A d \in DOMAIN t \cup Missing(t, p) : Len(d) <= n + Len(p)
    BY <1>3, <1>4, <1>5, <2>1
  <2> QED
    BY <1>2, <2>2 DEF AtMost
<1>7. n + Len(p) \in Nat
  BY <1>3
<1> QED
  BY <1>6, <1>7 DEF Bounded

\* The invariant: the tree has an end, and without functions the visits are complete.
VisitInv == Bounded(dirs) /\ (NoFunctionIn(dirs) => VisitsAll)

\* At first there is the root only, and no answer.
LEMMA InitVisits == Init => VisitInv
<1> SUFFICES ASSUME Init PROVE VisitInv
  OBVIOUS
<1>1. AtMost(dirs, 0)
  <2>1. Len(Root) = 0 /\ DOMAIN dirs = {Root}
    BY EmptySeq DEF Root, Init
  <2> QED
    BY <2>1 DEF AtMost
<1>2. VisitsAll
  BY DEF Init, VisitsAll
<1> QED
  BY <1>1, <1>2 DEF VisitInv, Bounded

\* Every step leaves a tree with an end, and a query without functions visits all of it.
LEMMA NextVisits == TypeOK /\ TreeInv /\ VisitInv /\ [Next]_vars => VisitInv'
<1> SUFFICES ASSUME TypeOK, TreeInv, VisitInv, [Next]_vars PROVE VisitInv'
  OBVIOUS
<1>1. Containers(dirs) /\ IsTree(dirs) /\ Bounded(dirs)
  BY DEF TypeOK, TreeInv, VisitInv
<1>2. ASSUME reply' = NoReply PROVE VisitsAll'
  BY <1>2 DEF VisitsAll
<1>3. ASSUME Bounded(dirs'), VisitsAll' PROVE VisitInv'
  BY <1>3 DEF VisitInv
<1>4. ASSUME NEW p \in Paths, NEW w \in Watchers, AddWatcher(p, w)
      PROVE  VisitInv'
  <2>1. Bounded(dirs') /\ reply' = NoReply
    BY <1>1, <1>4, AddWatcherIs, WithWatcherBounded
  <2> QED
    BY <1>2, <1>3, <2>1
<1>5. ASSUME NEW p \in Paths, RemoveWatcher(p)
      PROVE  VisitInv'
  <2>1. reply' = NoReply /\ DOMAIN dirs' \subseteq DOMAIN dirs
    BY <1>5, RemoveWatcherIs DEF Removed
  <2>2. PICK n \in Nat : AtMost(dirs, n)
    BY <1>1 DEF Bounded
  <2>3. AtMost(dirs', n)
    BY <2>1, <2>2 DEF AtMost
  <2>4. Bounded(dirs')
    BY <2>2, <2>3 DEF Bounded
  <2> QED
    BY <1>2, <1>3, <2>1, <2>4
<1>6. ASSUME NEW p \in Paths, GetWatcherValue(p) \/ VisitChildren(p)
      PROVE  VisitInv'
  <2>1. dirs' = dirs
    BY <1>6 DEF GetWatcherValue, VisitChildren
  <2>2. NoFunctionIn(dirs) => AllVisited(dirs, reply')
    BY <1>1, <1>6, QueryIs
  <2>3. NoFunctionIn(dirs) => VisitsAll'
    BY <2>1, <2>2, VisitsAllIs
  <2> QED
    BY <1>1, <2>1, <2>3 DEF VisitInv
<1>7. ASSUME NEW p \in Paths, NEW s \in Streams, SetWatcherValue(p, s)
      PROVE  VisitInv'
  <2>1. dirs' = dirs /\ reply'.asked = s
    BY <1>7 DEF SetWatcherValue
  <2>2. s # NoValue
    BY StreamsAssumption
  <2>3. VisitsAll'
    BY <2>1, <2>2 DEF VisitsAll
  <2> QED
    BY <1>1, <1>3, <2>1, <2>3
<1>8. ASSUME NEW p \in Paths, SetFromString(p)
      PROVE  VisitInv'
  <2>1. dirs' = dirs /\ reply' = NoReply
    BY <1>8 DEF SetFromString
  <2> QED
    BY <1>1, <1>2, <1>3, <2>1
<1>9. CASE UNCHANGED vars
  <2>1. dirs' = dirs /\ reply' = reply
    BY <1>9 DEF vars
  <2>2. VisitsAll' <=> VisitsAll
    BY <2>1, VisitsAllIs
  <2> QED
    BY <2>1, <2>2 DEF VisitInv
<1> QED
  BY <1>4, <1>5, <1>6, <1>7, <1>8, <1>9 DEF Next, Watchers

\* A query that finds a director is notified of everything below it, at any depth, once
\* each, for any watchers and paths, as long as no watcher in the tree has a function.  One
\* that has ends the visit early, which the run watcher_functions shows.
THEOREM AlwaysVisitsAll == Spec => [](NoFunctionIn(dirs) => VisitsAll)
<1>1. TypeOK /\ TreeInv /\ VisitInv /\ [Next]_vars => TypeOK' /\ TreeInv' /\ VisitInv'
  BY NextTree, NextVisits
<1>2. Init => TypeOK /\ TreeInv /\ VisitInv
  BY InitTree, InitVisits
<1>3. VisitInv => (NoFunctionIn(dirs) => VisitsAll)
  BY DEF VisitInv
<1> QED
  BY <1>1, <1>2, <1>3, PTL DEF Spec

=============================================================================
