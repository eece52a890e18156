--------------------------- MODULE BitStreamProofs ---------------------------
(***************************************************************************)
(* Proofs about BitStream: for every set of fields and of streams to copy,  *)
(* every size of a byte, of the object's own memory and of an integer, the  *)
(* memory holds what is written; and if every field loses nothing, it is    *)
(* read as it was written, the positions agree and the rest is zeros.       *)
(*                                                                          *)
(* The argument has four parts.  A writer of the buffer appends bits at     *)
(* known offsets (Appends) and keeps those before them; a reader of the     *)
(* buffer sees the bits it passes and no others.  So each field follows     *)
(* what is there (Follows), and a reader who is where it was written gets   *)
(* its value and stops where its writer did (Reader, Result).  What a       *)
(* memory shows between two positions (Shows) depends on the bits between   *)
(* them only, and is a fact about every reader.  The invariant (Layout) is  *)
(* that the fields of the script are shown one behind the other.            *)
(***************************************************************************)
EXTENDS BitStream, Numbers, SequenceTheorems, TLAPS

(* Definitions by recursion.                                                 *)

\* f begins with base, and G makes each of its values from the one before.
Iterates(f, S, base, G, n) ==
  f \in [0..n -> S] /\ f[0] = base /\ \A k \in 1..n : f[k] = G[<<f[k - 1], k>>]

\* There is one such function.
LEMMA IteratesExist ==
  ASSUME NEW S, NEW base \in S, NEW n \in Nat, NEW G \in [S \X (1..n) -> S]
  PROVE  \E f : Iterates(f, S, base, G, n)
<1> DEFINE Good == {m \in 0..n : \E f : Iterates(f, S, base, G, m)}
<1>1. 0 \in Good
  <2> DEFINE f == [k \in 0..0 |-> base]
  <2>1. f \in [0..0 -> S] /\ f[0] = base
    OBVIOUS
  <2>2. Iterates(f, S, base, G, 0)
    BY <2>1 DEF Iterates
  <2> QED
    BY <2>2
<1>2. ASSUME NEW m \in 0..(n - 1), m \in Good PROVE m + 1 \in Good
  <2>1. PICK f : Iterates(f, S, base, G, m)
    BY <1>2
  <2>2. f \in [0..m -> S] /\ f[0] = base /\ \A k \in 1..m : f[k] = G[<<f[k - 1], k>>]
    BY <2>1 DEF Iterates
  <2> DEFINE x == G[<<f[m], m + 1>>]
             g == [k \in 0..(m + 1) |-> IF k <= m THEN f[k] ELSE x]
  <2>3. x \in S
    <3>1. f[m] \in S /\ m + 1 \in 1..n
      BY <2>2
    <3>2. <<f[m], m + 1>> \in S \X (1..n)
      BY <3>1
    <3> QED
      BY <3>2
  <2>4. \A k \in 0..m : g[k] = f[k] /\ f[k] \in S
    BY <2>2
  <2>5. g[m + 1] = x
    <3> HIDE DEF x
    <3> QED
      OBVIOUS
  <2>6. g \in [0..(m + 1) -> S]
    <3>1. \A k \in 0..(m + 1) : k \in 0..m \/ k = m + 1
      OBVIOUS
    <3>2. \A k \in 0..(m + 1) : g[k] \in S
      <4> HIDE DEF g, x
      <4> QED
        BY <2>3, <2>4, <2>5, <3>1
    <3> HIDE DEF x
    <3> QED
      BY <3>2
  <2>7. \A k \in 1..(m + 1) : g[k] = G[<<g[k - 1], k>>]
    <3> SUFFICES ASSUME NEW k \in 1..(m + 1) PROVE g[k] = G[<<g[k - 1], k>>]
      OBVIOUS
    <3> HIDE DEF g
    <3>1. CASE k <= m
      <4>1. k \in 1..m /\ k \in 0..m /\ k - 1 \in 0..m
        BY <3>1
      <4> QED
        BY <2>2, <2>4, <4>1
    <3>2. CASE k = m + 1
      <4>1. m \in 0..m /\ k - 1 = m
        BY <3>2
      <4> QED
        BY <2>4, <2>5, <3>2, <4>1
    <3> QED
      BY <3>1, <3>2
  <2>8. g[0] = base
    <3>1. 0 \in 0..m
      OBVIOUS
    <3> QED
      BY <2>2, <2>4, <3>1
  <2> HIDE DEF g
  <2>9. Iterates(g, S, base, G, m + 1)
    BY <2>6, <2>7, <2>8 DEF Iterates
  <2> QED
    BY <2>9
<1> HIDE DEF Good
<1>3. n \in 0..n
  OBVIOUS
<1>4. n \in Good
  BY <1>1, <1>2, <1>3, UpTo
<1> QED
  BY <1>4 DEF Good

-----------------------------------------------------------------------------
(* Bytes and powers of two.                                                  *)

\* A byte has two halves.
LEMMA ByteFacts ==
  /\ ByteBits \in Nat \ {0} /\ Half \in Nat \ {0} /\ ByteBits = 2 * Half
  /\ Offsets \in SUBSET Nat /\ \A i \in Offsets : i < ByteBits
BY BufferAssumption DEF Half, Offsets

\* The number of bytes that n bits take, and their bits.
LEMMA RoundIs ==
  ASSUME NEW n \in Nat
  PROVE  /\ BITS_TO_BYTES(n) \in Nat /\ RoundUp(n) \in Nat
         /\ RoundUp(n) = BITS_TO_BYTES(n) * ByteBits
         /\ n <= RoundUp(n) /\ RoundUp(n) < n + ByteBits
         /\ (n # 0 => BITS_TO_BYTES(n) # 0)
         /\ RoundUp(RoundUp(n)) = RoundUp(n)
BY BufferAssumption DEF RoundUp, BITS_TO_BYTES

\* Rounding up to whole bytes keeps the order.
LEMMA RoundMonotone ==
  ASSUME NEW m \in Nat, NEW n \in Nat, m <= n
  PROVE  RoundUp(m) <= RoundUp(n) /\ BITS_TO_BYTES(m) <= BITS_TO_BYTES(n)
BY BufferAssumption DEF RoundUp, BITS_TO_BYTES

\* A whole number of bytes.
LEMMA WholeBytes ==
  ASSUME NEW k \in Nat
  PROVE  BITS_TO_BYTES(k * ByteBits) = k /\ RoundUp(k * ByteBits) = k * ByteBits
BY BufferAssumption DEF RoundUp, BITS_TO_BYTES

\* Some bits more.
LEMMA RoundMore ==
  ASSUME NEW k \in Nat, NEW n \in Nat, k * ByteBits < n, n <= k * ByteBits + ByteBits
  PROVE  RoundUp(n) = k * ByteBits + ByteBits
<1>1. CASE ByteBits = 2
  BY <1>1 DEF RoundUp, BITS_TO_BYTES
<1>2. CASE ByteBits = 4
  BY <1>2 DEF RoundUp, BITS_TO_BYTES
<1>3. CASE ByteBits = 8
  BY <1>3 DEF RoundUp, BITS_TO_BYTES
<1> QED
  BY <1>1, <1>2, <1>3, BufferAssumption

\* The end of the byte that a position is in.
LEMMA ByteEnd ==
  ASSUME NEW w \in Nat
  PROVE  /\ w % ByteBits \in 0..(ByteBits - 1)
         /\ RoundUp(w + 1) = w - (w % ByteBits) + ByteBits
         /\ (w % ByteBits = 0 => RoundUp(w) = w)
         /\ (w % ByteBits # 0 => RoundUp(w) = RoundUp(w + 1))
BY BufferAssumption DEF RoundUp, BITS_TO_BYTES

\* A byte that n bits begin.
LEMMA ByteOfBits ==
  ASSUME NEW n \in Nat, NEW k \in 1..BITS_TO_BYTES(n)
  PROVE  /\ n - (k - 1) * ByteBits \in Nat \ {0} /\ (k - 1) * ByteBits \in Nat
         /\ (k < BITS_TO_BYTES(n) => n - (k - 1) * ByteBits > ByteBits)
         /\ (k = BITS_TO_BYTES(n) => n - (k - 1) * ByteBits <= ByteBits)
BY BufferAssumption DEF BITS_TO_BYTES

\* Powers of two, as their recursion has them.
LEMMA Power2Is ==
  /\ Power2(0) = 1
  /\ \A n \in Nat : Power2(n) \in Nat \ {0} /\ Power2(n + 1) = 2 * Power2(n)
<1> DEFINE Is(p, n) == p = [k \in 0..n |-> IF k = 0 THEN 1 ELSE 2 * p[k - 1]]
           P(n) == CHOOSE p : Is(p, n)
<1>1. ASSUME NEW n \in Nat
      PROVE  P(n)[0] = 1 /\ \A k \in 1..n : P(n)[k] = 2 * P(n)[k - 1] /\ P(n)[k - 1] \in Nat \ {0}
  <2> DEFINE S == Nat \ {0}
             G == [x \in S \X (1..n) |-> 2 * x[1]]
  <2>1. G \in [S \X (1..n) -> S] /\ 1 \in S
    OBVIOUS
  <2>2. \A x \in S, k \in 1..n : G[<<x, k>>] = 2 * x
    OBVIOUS
  <2> HIDE DEF G, S
  <2>3. PICK f : Iterates(f, S, 1, G, n)
    BY <2>1, IteratesExist
  <2>4. f \in [0..n -> S] /\ f[0] = 1 /\ \A k \in 1..n : f[k] = 2 * f[k - 1]
    <3>1. f \in [0..n -> S] /\ f[0] = 1 /\ \A k \in 1..n : f[k] = G[<<f[k - 1], k>>]
      BY <2>3 DEF Iterates
    <3>2. \A k \in 1..n : k - 1 \in 0..n
      OBVIOUS
    <3>3. \A k \in 1..n : f[k - 1] \in S
      BY <3>1, <3>2
    <3> QED
      BY <2>2, <3>1, <3>3
  <2>5. Is(f, n)
    BY <2>4
  <2>6. Is(P(n), n)
    BY <2>5
  <2> DEFINE p == P(n)
  <2>7. Is(p, n)
    BY <2>6
  <2> HIDE DEF p
  <2>8. p[0] = 1 /\ \A k \in 1..n : p[k] = 2 * p[k - 1]
    BY <2>7
  <2> DEFINE Good == {k \in 0..n : p[k] \in Nat \ {0}}
  <2>9. 0 \in Good
    BY <2>8
  <2>10. \A k \in 0..(n - 1) : k \in Good => k + 1 \in Good
    <3> SUFFICES ASSUME NEW k \in 0..(n - 1), p[k] \in Nat \ {0} PROVE k + 1 \in Good
      OBVIOUS
    <3>1. p[k + 1] = 2 * p[(k + 1) - 1] /\ (k + 1) - 1 = k
      BY <2>8
    <3> QED
      BY <3>1
  <2> HIDE DEF Good
  <2>11. \A k \in 0..n : k \in Good
    BY <2>9, <2>10, UpTo
  <2>12. \A k \in 1..n : p[k - 1] \in Nat \ {0}
    BY <2>11 DEF Good
  <2> QED
    BY <2>8, <2>12 DEF p
<1>2. \A n \in Nat : Power2(n) = P(n)[n]
  BY Zenon DEF Power2
<1> HIDE DEF P
<1>3. ASSUME NEW n \in Nat, NEW m \in 0..n PROVE P(n)[m] = Power2(m)
  <2> DEFINE Good == {k \in 0..m : P(n)[k] = P(m)[k]}
  <2>1. 0 \in Good
    BY <1>1
  <2>2. ASSUME NEW k \in 0..(m - 1), k \in Good PROVE k + 1 \in Good
    <3>1. k + 1 \in 1..n /\ k + 1 \in 1..m /\ (k + 1) - 1 = k
      OBVIOUS
    <3>2. P(n)[k + 1] = 2 * P(n)[k] /\ P(m)[k + 1] = 2 * P(m)[k]
      BY <1>1, <3>1
    <3> QED
      BY <2>2, <3>1, <3>2
  <2> HIDE DEF Good
  <2>3. m \in Good
    BY <2>1, <2>2, UpTo
  <2> QED
    BY <1>2, <2>3 DEF Good
<1>4. Power2(0) = 1
  BY <1>1, <1>2
<1>5. ASSUME NEW n \in Nat
      PROVE  Power2(n) \in Nat \ {0} /\ Power2(n + 1) = 2 * Power2(n)
  <2>1. n + 1 \in Nat /\ n + 1 \in 1..(n + 1) /\ (n + 1) - 1 = n /\ n \in 0..(n + 1)
    OBVIOUS
  <2>2. P(n + 1)[n + 1] = 2 * P(n + 1)[n] /\ P(n + 1)[n] \in Nat \ {0}
    BY <1>1, <2>1
  <2>3. P(n + 1)[n] = Power2(n)
    BY <1>3, <2>1
  <2> QED
    BY <1>2, <2>1, <2>2, <2>3
<1> QED
  BY <1>4, <1>5

-----------------------------------------------------------------------------
(* The memory, and what a writer does to it.                                 *)

Memory(s) == 0..(RoundUp(s.allocated) - 1)

\* What is stored is in the memory, and so is the byte that is written next.
Fits(s) == s \in Stream /\ s.data \subseteq Memory(s) /\ s.writable <= RoundUp(s.allocated)

\* The rest of a byte that was begun is zeros.
Clean(s) == \A p \in s.writable..(RoundUp(s.writable) - 1) : p \notin s.data

\* From s to t, n bits are written after those of s, in the memory.
Extends(s, t, n) ==
  /\ Fits(t) /\ t.readable = s.readable
  /\ t.writable = s.writable + n
  /\ \A p \in 0..(s.writable - 1) : p \in t.data <=> p \in s.data

\* They are those at the offsets in ones, if what was begun was clean.
Appends(s, t, n, ones) ==
  /\ Extends(s, t, n)
  /\ Clean(s) =>
       /\ \A j \in 0..(n - 1) : s.writable + j \in t.data <=> j \in ones
       /\ ones \subseteq 0..(n - 1) => Clean(t)

\* The parts of a stream.
LEMMA StreamIs ==
  ASSUME NEW s \in Stream
  PROVE  /\ s.data \in SUBSET Nat /\ s.allocated \in Nat /\ s.writable \in Nat /\ s.readable \in Nat
         /\ RoundUp(s.writable) \in Nat /\ RoundUp(s.allocated) \in Nat
<1>1. s.data \in SUBSET Nat /\ s.allocated \in Nat /\ s.writable \in Nat /\ s.readable \in Nat
  BY DEF Stream
<1> QED
  BY <1>1, RoundIs

\* What every writer does: it ends in its memory.
Writes(s, t, n, ones) == Appends(s, t, n, ones) /\ t.writable <= t.allocated

\* The memory grows, and keeps what was written.
LEMMA GrowIs ==
  ASSUME NEW s, Fits(s), NEW n \in Nat
  PROVE  /\ Appends(s, Grow(s, n), 0, {})
         /\ s.writable + n <= Grow(s, n).allocated
<1> DEFINE needed == s.writable + n
           size == needed + (IF needed > DoublingLimit THEN DoublingLimit ELSE needed)
           kept == IF ~s.heap /\ s.writable = 0 THEN 0 ELSE RoundUp(s.allocated)
           copied == {p \in s.data : p < kept}
           new == IF s.junk THEN kept..(RoundUp(size) - 1) ELSE {}
           t == Grow(s, n)
<1>1. s \in Stream /\ s.data \subseteq 0..(RoundUp(s.allocated) - 1)
      /\ s.writable <= RoundUp(s.allocated)
  BY DEF Fits, Memory
<1>2. /\ s.data \in SUBSET Nat /\ s.allocated \in Nat /\ s.writable \in Nat /\ s.readable \in Nat
      /\ RoundUp(s.writable) \in Nat /\ RoundUp(s.allocated) \in Nat
  BY <1>1, StreamIs
<1>3. RoundUp(s.writable) <= RoundUp(s.allocated)
  <2>1. RoundUp(s.writable) <= RoundUp(RoundUp(s.allocated))
    BY <1>1, <1>2, RoundMonotone
  <2> QED
    BY <1>2, <2>1, RoundIs
<1>4. CASE needed <= s.allocated
  <2>1. t = s
    BY <1>4 DEF Grow
  <2> HIDE DEF t
  <2>2. Extends(s, t, 0)
    BY <1>2, <1>4, <2>1 DEF Extends, Fits
  <2> QED
    BY <1>4, <2>1, <2>2 DEF Appends, t
<1>5. CASE ~ needed <= s.allocated
  <2>1. t = [s EXCEPT !.allocated = size, !.heap = TRUE, !.data = copied \cup new]
    BY <1>5 DEF Grow
  <2>2. size \in Nat /\ needed <= size /\ s.allocated <= size
    BY <1>2, <1>5, BufferAssumption
  <2>3. RoundUp(size) \in Nat /\ RoundUp(s.allocated) <= RoundUp(size) /\ size <= RoundUp(size)
    BY <1>2, <2>2, RoundIs, RoundMonotone
  <2>4. kept \in Nat /\ kept <= RoundUp(s.allocated) /\ RoundUp(s.writable) <= kept
    <3>1. RoundUp(0) = 0
      BY BufferAssumption DEF RoundUp, BITS_TO_BYTES
    <3> QED
      BY <1>2, <1>3, <3>1
  <2> HIDE DEF size, kept
  <2>5. copied \cup new \subseteq 0..(RoundUp(size) - 1)
    BY <1>1, <1>2, <2>3, <2>4
  <2>6. \A p \in 0..(RoundUp(s.writable) - 1) : p \in copied \cup new <=> p \in s.data
    BY <1>2, <2>3, <2>4
  <2> HIDE DEF copied, new
  <2>7. /\ t \in Stream /\ t.writable = s.writable /\ t.readable = s.readable
        /\ t.allocated = size /\ t.data = copied \cup new
    <3>1. copied \cup new \in SUBSET Nat
      BY <2>3, <2>5
    <3> QED
      BY <1>1, <2>1, <2>2, <3>1 DEF Stream
  <2> HIDE DEF t
  <2>8. Fits(t) /\ t.writable <= t.allocated
    BY <1>2, <2>2, <2>3, <2>5, <2>7 DEF Fits, Memory
  <2>9. \A p \in 0..(s.writable - 1) : p \in t.data <=> p \in s.data
    <3>1. s.writable <= RoundUp(s.writable)
      BY <1>2, RoundIs
    <3> QED
      BY <1>2, <2>6, <2>7, <3>1
  <2>10. Clean(s) => Clean(t)
    <3>1. \A p \in s.writable..(RoundUp(s.writable) - 1) : p \in 0..(RoundUp(s.writable) - 1)
      BY <1>2
    <3> QED
      BY <2>6, <2>7, <3>1 DEF Clean
  <2>11. Extends(s, t, 0)
    BY <1>2, <2>7, <2>8, <2>9 DEF Extends
  <2>12. Appends(s, t, 0, {})
    BY <2>10, <2>11 DEF Appends
  <2> QED
    BY <2>2, <2>7, <2>12 DEF t
<1> QED
  BY <1>4, <1>5

\* One append after another.
Join(ones, n, more) == ones \cup {n + i : i \in more}

\* What is written after what was written.
LEMMA AppendsBoth ==
  ASSUME NEW s, NEW t, NEW u, NEW n \in Nat, NEW m \in Nat, NEW ones, NEW more \in SUBSET Nat,
         Fits(s), Appends(s, t, n, ones), Appends(t, u, m, more), ones \subseteq 0..(n - 1)
  PROVE  Appends(s, u, n + m, Join(ones, n, more))
<1>1. Extends(s, t, n) /\ Extends(t, u, m) /\ s \in Stream
  BY DEF Appends, Fits
<1>2. s.writable \in Nat
  BY <1>1, StreamIs
<1>3. t.writable = s.writable + n /\ u.writable = s.writable + (n + m)
  BY <1>1, <1>2 DEF Extends
<1>4. Extends(s, u, n + m)
  <2>1. \A p \in 0..(s.writable - 1) : p \in 0..(t.writable - 1)
    BY <1>2, <1>3
  <2> QED
    BY <1>1, <1>3, <2>1 DEF Extends
<1>5. ASSUME Clean(s)
      PROVE  /\ \A j \in 0..(n + m - 1) : s.writable + j \in u.data <=> j \in Join(ones, n, more)
             /\ Join(ones, n, more) \subseteq 0..(n + m - 1) => Clean(u)
  <2>1. Clean(t) /\ \A j \in 0..(n - 1) : s.writable + j \in t.data <=> j \in ones
    BY <1>5 DEF Appends
  <2>2. /\ \A j \in 0..(m - 1) : t.writable + j \in u.data <=> j \in more
        /\ more \subseteq 0..(m - 1) => Clean(u)
    BY <2>1 DEF Appends
  <2>3. \A p \in 0..(t.writable - 1) : p \in u.data <=> p \in t.data
    BY <1>1 DEF Extends
  <2>4. ASSUME NEW j \in 0..(n + m - 1)
        PROVE  s.writable + j \in u.data <=> j \in Join(ones, n, more)
    <3>1. CASE j < n
      <4>1. j \in 0..(n - 1) /\ s.writable + j \in 0..(t.writable - 1)
        BY <1>2, <1>3, <3>1
      <4>2. \A i \in more : j # n + i
        BY <3>1
      <4> QED
        BY <2>1, <2>3, <4>1, <4>2 DEF Join
    <3>2. CASE n <= j
      <4>1. j - n \in 0..(m - 1) /\ j = n + (j - n) /\ s.writable + j = t.writable + (j - n)
        BY <1>2, <1>3, <3>2
      <4>2. j \notin ones
        BY <3>2
      <4>3. \A i \in more : j = n + i => i = j - n
        OBVIOUS
      <4>4. j \in Join(ones, n, more) <=> j - n \in more
        BY <4>1, <4>2, <4>3 DEF Join
      <4> QED
        BY <2>2, <4>1, <4>4
    <3> QED
      BY <3>1, <3>2
  <2>5. Join(ones, n, more) \subseteq 0..(n + m - 1) => more \subseteq 0..(m - 1)
    <3> SUFFICES ASSUME Join(ones, n, more) \subseteq 0..(n + m - 1), NEW i \in more
                 PROVE  i \in 0..(m - 1)
      OBVIOUS
    <3>1. n + i \in 0..(n + m - 1)
      BY DEF Join
    <3> QED
      BY <3>1
  <2> QED
    BY <2>2, <2>4, <2>5
<1> QED
  BY <1>4, <1>5 DEF Appends

-----------------------------------------------------------------------------
(* Writing bits.                                                             *)

\* The lesser of two.
LEMMA MinIs ==
  ASSUME NEW a \in Nat, NEW b \in Nat
  PROVE  Min({a, b}) = IF a <= b THEN a ELSE b
<1> DEFINE S == {a, b}
           m == IF a <= b THEN a ELSE b
<1>1. m \in S /\ \A y \in S : m <= y
  OBVIOUS
<1>2. \A x \in S : (\A y \in S : x <= y) => x = m
  OBVIOUS
<1> HIDE DEF S, m
<1>3. Min(S) = m
  BY <1>1, <1>2 DEF Min
<1> QED
  BY <1>3 DEF S, m

\* The bits of one byte, of which n are left to write.
LEMMA PutByteIs ==
  ASSUME NEW s, Fits(s), NEW byte \in SUBSET Offsets, NEW n \in Nat \ {0},
         NEW c, c = IF n <= ByteBits THEN n ELSE ByteBits, s.writable + c <= s.allocated
  PROVE  /\ Appends(s, PutByte(s, byte, n), c, byte)
         /\ PutByte(s, byte, n).allocated = s.allocated
<1> DEFINE w == s.writable
           r == w % ByteBits
           end == RoundUp(w + 1)
           spills == r # 0 /\ n > end - w
           gone == (IF r = 0 THEN w..(end - 1) ELSE {})
                     \cup (IF spills THEN end..(end + ByteBits - 1) ELSE {})
           ones == {p \in {w + i : i \in byte} : p < end \/ spills}
           t == PutByte(s, byte, n)
<1>1. s \in Stream /\ s.data \subseteq 0..(RoundUp(s.allocated) - 1)
  BY DEF Fits, Memory
<1>2. /\ s.data \in SUBSET Nat /\ s.allocated \in Nat /\ w \in Nat /\ s.readable \in Nat
      /\ RoundUp(w) \in Nat /\ RoundUp(s.allocated) \in Nat
  BY <1>1, StreamIs
<1>3. ByteBits \in Nat \ {0} /\ c \in 1..ByteBits /\ c <= n
  BY ByteFacts
<1>4. /\ r \in 0..(ByteBits - 1) /\ end = w - r + ByteBits
      /\ (r = 0 => RoundUp(w) = w) /\ (r # 0 => RoundUp(w) = end)
  BY <1>2, ByteEnd
<1>5. \A i \in byte : i \in 0..(ByteBits - 1)
  BY DEF Offsets
<1>6. t = [s EXCEPT !.data = (s.data \ gone) \cup ones, !.writable = w + c]
  <2>1. Min({n, ByteBits}) = c
    BY <1>3, MinIs
  <2> QED
    BY <2>1 DEF PutByte
<1>7. \A p : p \in ones <=> \E i \in byte : p = w + i /\ (w + i < end \/ spills)
  OBVIOUS
<1>8. \A p : p \in gone <=> \/ r = 0 /\ p \in w..(end - 1)
                            \/ spills /\ p \in end..(end + ByteBits - 1)
  OBVIOUS
<1>9. RoundUp(w + c) \in Nat /\ RoundUp(w + c) = IF spills THEN end + ByteBits ELSE end
  <2>1. RoundUp(w + c) \in Nat
    BY <1>2, <1>3, RoundIs
  <2>2. CASE spills
    <3>1. end < w + c /\ w + c <= end + ByteBits
      <4> HIDE DEF w, r, end
      <4> QED
        BY <1>2, <1>3, <1>4, <2>2
    <3>2. PICK k \in Nat : end = k * ByteBits
      BY <1>2, RoundIs
    <3> HIDE DEF end, spills, w, r
    <3>3. RoundUp(w + c) = end + ByteBits
      <4>1. w + c \in Nat
        BY <1>2, <1>3
      <4> DEFINE n2 == w + c
      <4> HIDE DEF n2
      <4>2. RoundUp(n2) = k * ByteBits + ByteBits
        BY <3>1, <3>2, <4>1, RoundMore DEF n2
      <4> QED
        BY <3>2, <4>2 DEF n2
    <3> QED
      BY <2>1, <2>2, <3>3
  <2>3. CASE ~spills
    <3>1. w + 1 <= w + c /\ w + c <= end
      <4> HIDE DEF w, r, end
      <4> QED
        BY <1>2, <1>3, <1>4, <2>3
    <3>2. end <= RoundUp(w + c) /\ RoundUp(w + c) <= RoundUp(end)
      <4>1. w + 1 \in Nat /\ w + c \in Nat /\ end \in Nat
        BY <1>2, <1>3, <1>4
      <4> QED
        BY <3>1, <4>1, RoundMonotone
    <3>3. RoundUp(end) = end
      BY <1>2, RoundIs
    <3>4. end \in Int
      <4> HIDE DEF w, r, end
      <4> QED
        BY <1>2, <1>3, <1>4
    <3> HIDE DEF spills, end, w, r
    <3> QED
      BY <2>1, <2>3, <3>2, <3>3, <3>4
  <2> QED
    BY <2>2, <2>3
<1>10. RoundUp(w + c) <= RoundUp(s.allocated)
  <2>1. w + c \in Nat
    BY <1>2, <1>3
  <2> QED
    BY <1>2, <2>1, RoundMonotone
<1>11. \A p \in ones : p \in w..(RoundUp(w + c) - 1)
  BY <1>2, <1>3, <1>4, <1>5, <1>7, <1>9
<1>12. end \in Nat
  BY <1>2, <1>3, <1>4
<1> HIDE DEF gone, ones, spills, end, r, w
<1>13. (s.data \ gone) \cup ones \subseteq 0..(RoundUp(s.allocated) - 1)
  BY <1>1, <1>2, <1>9, <1>10, <1>11
<1>14. /\ t \in Stream /\ t.writable = w + c /\ t.readable = s.readable
       /\ t.allocated = s.allocated /\ t.data = (s.data \ gone) \cup ones
  <2>1. (s.data \ gone) \cup ones \in SUBSET Nat /\ w + c \in Nat
    BY <1>2, <1>3, <1>13
  <2> QED
    BY <1>1, <1>6, <2>1 DEF Stream
<1> HIDE DEF t
<1>15. Extends(s, t, c)
  <2>1. \A p \in 0..(w - 1) : p \notin gone /\ p \notin ones
    <3>1. \A p \in 0..(w - 1) : p \notin w..(end - 1) /\ p \notin end..(end + ByteBits - 1)
      BY <1>2, <1>4, <1>12, <1>3
    <3>2. \A p \in 0..(w - 1) : p \notin w..(RoundUp(w + c) - 1)
      BY <1>2, <1>9
    <3> QED
      BY <1>8, <1>11, <3>1, <3>2
  <2>2. Fits(t)
    <3>1. w + c <= RoundUp(s.allocated)
      BY <1>2, <1>3, <1>9, <1>10, RoundIs DEF w
    <3> QED
      BY <1>13, <1>14, <3>1 DEF Fits, Memory
  <2> QED
    BY <1>14, <2>1, <2>2 DEF Extends, w
<1>16. ASSUME Clean(s), NEW j \in 0..(c - 1)
       PROVE  w + j \in t.data <=> j \in byte
  <2>1. \A p \in w..(RoundUp(w) - 1) : p \notin s.data
    BY <1>16 DEF Clean, w
  <2>2. w + j \in ones <=> j \in byte /\ (w + j < end \/ spills)
    <3>1. \A i \in byte : w + i = w + j => i = j
      BY <1>2, <1>5
    <3> QED
      BY <1>7, <3>1
  <2>3. w + j < end \/ spills
    BY <1>2, <1>3, <1>4, <1>12 DEF spills
  <2>4. w + j \notin s.data \ gone
    <3>1. CASE r = 0
      BY <1>2, <1>3, <1>4, <1>8, <3>1
    <3>2. CASE r # 0 /\ w + j < end
      BY <1>2, <1>3, <1>4, <2>1, <3>2
    <3>3. CASE r # 0 /\ ~ w + j < end
      <4>1. spills
        BY <2>3, <3>3
      <4>2. w + j \in end..(end + ByteBits - 1)
        BY <1>2, <1>3, <1>4, <1>12, <3>3
      <4> QED
        BY <1>8, <4>1, <4>2
    <3> QED
      BY <3>1, <3>2, <3>3
  <2> QED
    BY <1>14, <2>2, <2>3, <2>4
<1>17. ASSUME Clean(s), byte \subseteq 0..(c - 1), NEW p \in (w + c)..(RoundUp(w + c) - 1)
       PROVE  p \notin t.data
  <2>1. \A q \in w..(RoundUp(w) - 1) : q \notin s.data
    BY <1>17 DEF Clean, w
  <2>2. p \notin ones
    <3>1. \A i \in byte : p # w + i
      BY <1>2, <1>3, <1>17
    <3> QED
      BY <1>7, <3>1
  <2>3. p \in Nat /\ w <= p
    BY <1>2, <1>3, <1>9
  <2>4. p \notin s.data \ gone
    <3>1. CASE p < end
      <4>1. p \in w..(end - 1)
        BY <1>2, <1>12, <2>3, <3>1
      <4> QED
        BY <1>4, <1>8, <2>1, <4>1
    <3>2. CASE ~ p < end
      <4>1. spills
        BY <1>9, <1>12, <2>3, <3>2
      <4>2. p \in end..(end + ByteBits - 1)
        BY <1>3, <1>9, <1>12, <2>3, <3>2, <4>1
      <4> QED
        BY <1>8, <4>1, <4>2
    <3> QED
      BY <3>1, <3>2
  <2> QED
    BY <1>14, <2>2, <2>4
<1>18. Appends(s, t, c, byte)
  <2>1. byte \subseteq 0..(c - 1) /\ Clean(s) => Clean(t)
    BY <1>14, <1>17 DEF Clean
  <2> QED
    BY <1>15, <1>16, <2>1 DEF Appends, w
<1> QED
  BY <1>14, <1>18 DEF t

\* A pass of WriteBits() leaves a stream.
LEMMA PutByteTyped ==
  ASSUME NEW s \in Stream, NEW byte \in SUBSET Offsets, NEW n \in Nat \ {0}
  PROVE  PutByte(s, byte, n) \in Stream
<1> DEFINE w == s.writable
           end == RoundUp(w + 1)
           spills == w % ByteBits # 0 /\ n > end - w
           gone == (IF w % ByteBits = 0 THEN w..(end - 1) ELSE {})
                     \cup (IF spills THEN end..(end + ByteBits - 1) ELSE {})
           ones == {p \in {w + i : i \in byte} : p < end \/ spills}
           m == Min({n, ByteBits})
<1>1. PutByte(s, byte, n) = [s EXCEPT !.data = (s.data \ gone) \cup ones, !.writable = w + m]
  BY DEF PutByte
<1>2. w \in Nat /\ s.data \in SUBSET Nat
  BY StreamIs
<1>3. m \in Nat
  BY MinIs, ByteFacts
<1>4. ones \subseteq Nat
  BY <1>2, ByteFacts
<1> HIDE DEF ones, gone, m, w
<1> DEFINE d == (s.data \ gone) \cup ones
           e == w + m
<1>5. d \in SUBSET Nat /\ e \in Nat
  <2>1. s.data \ gone \in SUBSET Nat
    BY <1>2
  <2>2. w + m \in Nat
    BY <1>2, <1>3
  <2> HIDE DEF end, spills
  <2>3. d \in SUBSET Nat
    BY <1>4, <2>1
  <2> QED
    BY <2>2, <2>3
<1>6. PutByte(s, byte, n) = [s EXCEPT !.data = d, !.writable = e]
  BY <1>1
<1> HIDE DEF d, e, end, spills
<1> QED
  BY <1>5, <1>6 DEF Stream

\* What PutBits writes of src: the offsets of the ones among n bits.
OnesOf(src, n, right) ==
  {j \in Nat : /\ j \div ByteBits + 1 \in 1..BITS_TO_BYTES(n)
               /\ j % ByteBits \in Shifted(src[j \div ByteBits + 1], n - (j \div ByteBits) * ByteBits, right)}

\* The place of a bit in the bytes.
LEMMA PlaceOf ==
  /\ \A j \in Nat : /\ j \div ByteBits \in Nat /\ j % ByteBits \in 0..(ByteBits - 1)
                    /\ j = (j \div ByteBits) * ByteBits + (j % ByteBits)
  /\ \A k \in Nat, i \in 0..(ByteBits - 1) :
       /\ k * ByteBits + i \in Nat
       /\ (k * ByteBits + i) \div ByteBits = k /\ (k * ByteBits + i) % ByteBits = i
<1>1. CASE ByteBits = 2
  BY <1>1
<1>2. CASE ByteBits = 4
  BY <1>2
<1>3. CASE ByteBits = 8
  BY <1>3
<1> QED
  BY <1>1, <1>2, <1>3, BufferAssumption

\* A last byte that is right aligned has no more bits than are written.
LEMMA ShiftedIs ==
  ASSUME NEW byte \in SUBSET Offsets, NEW n \in Nat \ {0}, NEW right \in BOOLEAN
  PROVE  /\ Shifted(byte, n, right) \in SUBSET Offsets
         /\ right => \A i \in Shifted(byte, n, right) : i < n
<1>1. CASE n < ByteBits /\ right
  <2>1. \A j \in byte : j \in 0..(ByteBits - 1)
    BY DEF Offsets
  <2>2. ASSUME NEW j \in byte, j >= ByteBits - n
        PROVE  j - (ByteBits - n) \in 0..(ByteBits - 1) /\ j - (ByteBits - n) < n
    BY <1>1, <2>1, <2>2, ByteFacts
  <2>3. Shifted(byte, n, right) = {i - (ByteBits - n) : i \in {j \in byte : j >= ByteBits - n}}
    BY <1>1 DEF Shifted
  <2> QED
    BY <2>2, <2>3 DEF Offsets
<1>2. CASE ~ (n < ByteBits /\ right)
  <2>1. Shifted(byte, n, right) = byte
    BY <1>2 DEF Shifted
  <2>2. \A i \in byte : i \in 0..(ByteBits - 1)
    BY DEF Offsets
  <2>3. right => ByteBits <= n
    BY <1>2, ByteFacts
  <2> HIDE DEF Offsets
  <2>4. ASSUME right, NEW i \in byte PROVE i < n
    BY <2>2, <2>3, <2>4, ByteFacts
  <2> QED
    BY <2>1, <2>4
<1> QED
  BY <1>1, <1>2

\* An array of bytes that n bits can be taken from.
Source(src, n) == \A k \in 1..BITS_TO_BYTES(n) : src[k] \in SUBSET Offsets

\* Only bits to write are ones, unless a last byte keeps what it has.
LEMMA OnesIn ==
  ASSUME NEW n \in Nat, NEW src, Source(src, n)
  PROVE  /\ OnesOf(src, n, TRUE) \subseteq 0..(n - 1)
         /\ \A k \in Nat : n = k * ByteBits => OnesOf(src, n, FALSE) \subseteq 0..(n - 1)
<1>1. ASSUME NEW right \in BOOLEAN, NEW j \in OnesOf(src, n, right),
             right \/ \E k \in Nat : n = k * ByteBits
      PROVE  j \in 0..(n - 1)
  <2> DEFINE q == j \div ByteBits
             k == q + 1
             left == n - q * ByteBits
  <2>1. j \in Nat /\ k \in 1..BITS_TO_BYTES(n) /\ j % ByteBits \in Shifted(src[k], left, right)
    BY <1>1 DEF OnesOf
  <2>2. j % ByteBits \in 0..(ByteBits - 1) /\ q \in Nat /\ j = q * ByteBits + (j % ByteBits)
    BY <2>1, PlaceOf
  <2> HIDE DEF q
  <2>3. k - 1 = q /\ left \in Nat \ {0}
    <3>1. k - 1 = q
      BY <2>2
    <3>2. n - (k - 1) * ByteBits \in Nat \ {0}
      BY <2>1, ByteOfBits
    <3> QED
      BY <3>1, <3>2
  <2>4. CASE right
    <3>1. src[k] \in SUBSET Offsets
      BY <2>1 DEF Source
    <3>2. j % ByteBits < left
      BY <2>1, <2>3, <2>4, <3>1, ShiftedIs
    <3>3. q * ByteBits \in Nat
      BY <2>2, ByteFacts
    <3> QED
      BY <2>1, <2>2, <3>2, <3>3
  <2>5. CASE \E m \in Nat : n = m * ByteBits
    <3>1. PICK m \in Nat : n = m * ByteBits
      BY <2>5
    <3>2. BITS_TO_BYTES(n) = m
      BY <3>1, WholeBytes
    <3>3. q + 1 <= m
      BY <2>1, <2>2, <3>1, <3>2
    <3>4. (q + 1) * ByteBits <= m * ByteBits
      BY <2>2, <3>1, <3>3, ByteFacts, TimesMonotone
    <3>5. (q + 1) * ByteBits = q * ByteBits + ByteBits /\ q * ByteBits \in Nat
      BY <2>2, ByteFacts
    <3> QED
      BY <2>1, <2>2, <3>1, <3>4, <3>5, ByteFacts
  <2> QED
    BY <1>1, <2>4, <2>5
<1> QED
  BY <1>1

\* WriteBits() writes them after what was written, in the memory.
LEMMA PutBitsIs ==
  ASSUME NEW s, Fits(s), NEW n \in Nat, NEW src, Source(src, n), NEW right \in BOOLEAN
  PROVE  Writes(s, PutBits(s, src, n, right), n, OnesOf(src, n, right))
<1> DEFINE N == BITS_TO_BYTES(n)
           Left(k) == n - (k - 1) * ByteBits
           Is(t) == t = [k \in 0..N |-> IF k = 0 THEN Grow(s, n)
                           ELSE PutByte(t[k - 1], Shifted(src[k], Left(k), right), Left(k))]
           t == CHOOSE t : Is(t)
           Done(k) == IF k * ByteBits <= n THEN k * ByteBits ELSE n
           Ones(k) == {j \in OnesOf(src, n, right) : j < k * ByteBits}
           Good == {x \in Stream : Fits(x)}
<1>1. N \in Nat /\ ByteBits \in Nat \ {0}
  BY RoundIs, ByteFacts
<1>2. PutBits(s, src, n, right) = t[N]
  BY Zenon DEF PutBits
<1>3. ASSUME NEW k \in 1..N
      PROVE  /\ Left(k) \in Nat \ {0} /\ Shifted(src[k], Left(k), right) \in SUBSET Offsets
             /\ right => \A i \in Shifted(src[k], Left(k), right) : i < Left(k)
             /\ (k - 1) * ByteBits \in Nat /\ k * ByteBits = (k - 1) * ByteBits + ByteBits
             /\ (k < N => Left(k) > ByteBits)
  <2>1. src[k] \in SUBSET Offsets /\ Left(k) \in Nat \ {0} /\ (k - 1) * ByteBits \in Nat
        /\ (k < N => Left(k) > ByteBits)
    BY <1>3, ByteOfBits DEF Source
  <2>2. k * ByteBits = (k - 1) * ByteBits + ByteBits
    BY <1>1
  <2> HIDE DEF Left
  <2> QED
    BY <2>1, <2>2, ShiftedIs
<1>4. ASSUME NEW u, Is(u)
      PROVE  \A k \in 0..N : /\ Appends(s, u[k], Done(k), Ones(k))
                             /\ s.writable + n <= u[k].allocated
  <2> DEFINE Right == {k \in 0..N : /\ Appends(s, u[k], Done(k), Ones(k))
                                    /\ s.writable + n <= u[k].allocated}
  <2>1. /\ u[0] = Grow(s, n)
        /\ \A k \in 1..N : u[k] = PutByte(u[k - 1], Shifted(src[k], Left(k), right), Left(k))
    <3> HIDE DEF N, Left
    <3> QED
      BY <1>1, <1>4
  <2> HIDE DEF Is
  <2>2. 0 \in Right
    <3>1. Done(0) = 0 /\ Ones(0) = {}
      <4>1. 0 * ByteBits = 0
        BY <1>1
      <4>2. \A j \in OnesOf(src, n, right) : j \in Nat
        BY DEF OnesOf
      <4> QED
        BY <4>1, <4>2
    <3>2. 0 \in 0..N
      BY <1>1
    <3> HIDE DEF Done, Ones
    <3> QED
      BY <2>1, <3>1, <3>2, GrowIs
  <2>3. ASSUME NEW m \in 0..(N - 1), m \in Right PROVE m + 1 \in Right
    <3> DEFINE k == m + 1
               byte == Shifted(src[k], Left(k), right)
               v == u[m]
               c == IF Left(k) <= ByteBits THEN Left(k) ELSE ByteBits
    <3>1. k \in 1..N /\ k - 1 = m /\ m \in Nat /\ k \in 0..N
      BY <1>1
    <3>2. Appends(s, v, Done(m), Ones(m)) /\ s.writable + n <= v.allocated
      BY <2>3
    <3> HIDE DEF k
    <3>3. /\ Left(k) \in Nat \ {0} /\ byte \in SUBSET Offsets
          /\ m * ByteBits \in Nat /\ k * ByteBits = m * ByteBits + ByteBits
          /\ Left(k) = n - m * ByteBits
      BY <1>3, <3>1
    <3> HIDE DEF Left
    <3>4. Done(m) = m * ByteBits /\ Done(k) = Done(m) + c /\ c \in Nat /\ Done(k) <= n /\ Done(m) \in Nat
      BY <1>1, <3>3
    <3> DEFINE a == Ones(m)
               b == Ones(k)
               d == Done(m)
               e == Done(k)
    <3>5. b = Join(a, d, byte)
      <4>1. \A j \in OnesOf(src, n, right) : j \in Nat
        BY DEF OnesOf
      <4>2. ASSUME NEW j \in Nat, d <= j, j < d + ByteBits
            PROVE  j \in OnesOf(src, n, right) <=> j - d \in byte
        <5>1. j - d \in 0..(ByteBits - 1) /\ j = m * ByteBits + (j - d)
          BY <3>4, <4>2, <1>1
        <5>2. j \div ByteBits = m /\ j % ByteBits = j - d
          <6> DEFINE i == j - d
          <6>1. i \in 0..(ByteBits - 1) /\ j = m * ByteBits + i
            BY <5>1
          <6> HIDE DEF i
          <6>2. (m * ByteBits + i) \div ByteBits = m /\ (m * ByteBits + i) % ByteBits = i
            BY <3>1, <6>1, PlaceOf
          <6>3. j \div ByteBits = m /\ j % ByteBits = i
            BY <6>1, <6>2
          <6> QED
            BY <6>3 DEF i
        <5>3. m + 1 = k /\ n - m * ByteBits = Left(k)
          BY <3>1, <3>3
        <5> QED
          BY <3>1, <5>2, <5>3 DEF OnesOf
      <4>3. \A j : j \in b <=> j \in OnesOf(src, n, right) /\ j < d + ByteBits
        BY <3>3, <3>4
      <4>4. \A j : j \in a <=> j \in OnesOf(src, n, right) /\ j < d
        BY <3>3, <3>4
      <4>5. \A i \in byte : i \in 0..(ByteBits - 1)
        BY <3>3 DEF Offsets
      <4>6. d \in Nat
        BY <3>4
      <4> HIDE DEF a, b, d, byte
      <4>7. ASSUME NEW j PROVE j \in b <=> j \in a \/ \E i \in byte : j = d + i
        <5>1. CASE j \in Nat /\ d <= j /\ j < d + ByteBits
          <6>1. j \in b <=> j - d \in byte
            BY <4>2, <4>3, <5>1
          <6>2. j \notin a
            BY <4>4, <4>6, <5>1
          <6>3. \A i \in byte : j = d + i => i = j - d
            BY <4>5, <4>6, <5>1
          <6>4. j = d + (j - d)
            BY <4>6, <5>1
          <6> QED
            BY <6>1, <6>2, <6>3, <6>4
        <5>2. CASE ~ (j \in Nat /\ d <= j /\ j < d + ByteBits)
          <6>1. \A i \in byte : j # d + i
            BY <4>5, <4>6, <1>1, <5>2
          <6>2. j \in b <=> j \in a
            BY <4>1, <4>3, <4>4, <4>6, <1>1, <5>2
          <6> QED
            BY <6>1, <6>2
        <5> QED
          BY <5>1, <5>2
      <4> QED
        BY <4>7 DEF Join
    <3>6. a \subseteq 0..(d - 1)
      <4>1. \A j \in OnesOf(src, n, right) : j \in Nat
        BY DEF OnesOf
      <4> QED
        BY <3>3, <3>4, <4>1
    <3>7. u[k] = PutByte(v, byte, Left(k))
      BY <2>1, <3>1
    <3>8. e = d + c /\ c \in Nat /\ d \in Nat /\ d + c <= n
      BY <3>4
    <3>9. Appends(s, v, d, a)
      BY <3>2
    <3>10. s \in Stream /\ s.writable \in Nat
      BY StreamIs DEF Fits
    <3>11. Fits(v) /\ v.writable = s.writable + d
      BY <3>9 DEF Appends, Extends
    <3>12. v \in Stream /\ v.allocated \in Nat
      BY <3>11, StreamIs DEF Fits
    <3> HIDE DEF a, b, d, e, v, byte
    <3>13. v.writable + c <= v.allocated
      BY <3>2, <3>8, <3>10, <3>11, <3>12 DEF v
    <3>14. Appends(v, u[k], c, byte) /\ u[k].allocated = v.allocated
      <4> HIDE DEF c
      <4>1. c = IF Left(k) <= ByteBits THEN Left(k) ELSE ByteBits
        BY DEF c
      <4> QED
        BY <3>3, <3>7, <3>11, <3>13, <4>1, PutByteIs
    <3>15. byte \in SUBSET Nat
      BY <3>3, ByteFacts
    <3> HIDE DEF c
    <3>16. Appends(s, u[k], d + c, Join(a, d, byte))
      BY <3>6, <3>8, <3>9, <3>14, <3>15, AppendsBoth
    <3>17. Appends(s, u[k], e, b)
      BY <3>5, <3>8, <3>16
    <3>18. s.writable + n <= u[k].allocated
      BY <3>2, <3>14 DEF v
    <3> QED
      BY <3>1, <3>17, <3>18 DEF k, e, b
  <2> HIDE DEF Right
  <2>4. \A k \in 0..N : k \in Right
    BY <1>1, <2>2, <2>3, UpTo
  <2> QED
    BY <2>4 DEF Right
<1>5. \E u : Is(u)
  <2> DEFINE G == [x \in Stream \X (1..N) |->
                     PutByte(x[1], Shifted(src[x[2]], Left(x[2]), right), Left(x[2]))]
             g == Grow(s, n)
  <2>1. g \in Stream
    BY GrowIs DEF Appends, Extends, Fits
  <2> HIDE DEF g, N
  <2>2. ASSUME NEW x \in Stream, NEW k \in 1..N
        PROVE  PutByte(x, Shifted(src[k], Left(k), right), Left(k)) \in Stream
    <3>1. Left(k) \in Nat \ {0} /\ Shifted(src[k], Left(k), right) \in SUBSET Offsets
      BY <1>3
    <3> HIDE DEF Left
    <3> QED
      BY <3>1, PutByteTyped
  <2>3. G \in [Stream \X (1..N) -> Stream]
    BY <2>2
  <2>4. \A x \in Stream, k \in 1..N : G[<<x, k>>] = PutByte(x, Shifted(src[k], Left(k), right), Left(k))
    OBVIOUS
  <2> HIDE DEF G
  <2>5. PICK f : Iterates(f, Stream, g, G, N)
    BY <1>1, <2>1, <2>3, IteratesExist
  <2>6. f \in [0..N -> Stream] /\ f[0] = g /\ \A k \in 1..N : f[k] = G[<<f[k - 1], k>>]
    BY <2>5 DEF Iterates
  <2>7. \A k \in 1..N : k - 1 \in 0..N /\ f[k - 1] \in Stream
    BY <1>1, <2>6
  <2>8. \A k \in 1..N : f[k] = PutByte(f[k - 1], Shifted(src[k], Left(k), right), Left(k))
    BY <2>4, <2>6, <2>7
  <2>9. \A k \in 0..N : k = 0 \/ k \in 1..N
    BY <1>1
  <2> HIDE DEF Left
  <2>10. f = [k \in 0..N |-> IF k = 0 THEN g
                ELSE PutByte(f[k - 1], Shifted(src[k], Left(k), right), Left(k))]
    BY <2>6, <2>8, <2>9
  <2>11. Is(f)
    BY <2>10 DEF g, N, Left
  <2> QED
    BY <2>11
<1> HIDE DEF Is
<1>6. Is(t)
  BY <1>5
<1> HIDE DEF t
<1>7. N \in 0..N /\ Done(N) = n /\ Ones(N) = OnesOf(src, n, right)
  <2>1. n <= N * ByteBits
    BY RoundIs
  <2>2. Done(N) = n
    BY <1>1, <2>1
  <2>3. \A j \in OnesOf(src, n, right) : j < N * ByteBits
    <3> SUFFICES ASSUME NEW j \in OnesOf(src, n, right) PROVE j < N * ByteBits
      OBVIOUS
    <3> DEFINE q == j \div ByteBits
    <3>1. j \in Nat /\ q + 1 <= N
      BY <1>1 DEF OnesOf
    <3>2. q \in Nat /\ j % ByteBits \in 0..(ByteBits - 1) /\ j = q * ByteBits + (j % ByteBits)
      BY <3>1, PlaceOf
    <3> HIDE DEF q, N
    <3>3. (q + 1) * ByteBits <= N * ByteBits
      BY <1>1, <3>1, <3>2, TimesMonotone
    <3>4. (q + 1) * ByteBits = q * ByteBits + ByteBits /\ q * ByteBits \in Nat /\ N * ByteBits \in Nat
      BY <1>1, <3>2
    <3> QED
      BY <1>1, <3>1, <3>2, <3>3, <3>4
  <2> QED
    BY <1>1, <2>2, <2>3
<1>8. Appends(s, t[N], Done(N), Ones(N)) /\ s.writable + n <= t[N].allocated
  BY <1>4, <1>6, <1>7
<1> HIDE DEF N, Done, Ones
<1>9. Appends(s, t[N], n, OnesOf(src, n, right)) /\ s.writable + n <= t[N].allocated
  BY <1>7, <1>8
<1>10. t[N].writable = s.writable + n
  BY <1>9 DEF Appends, Extends
<1> QED
  BY <1>2, <1>9, <1>10 DEF Writes

\* The byte that a single bit is.
BitByte(bit) == IF bit = 1 THEN {0} ELSE {}

\* AppendBitsCouldRealloc() leaves a stream.
LEMMA GrowTyped ==
  ASSUME NEW s \in Stream, NEW n \in Nat
  PROVE  Grow(s, n) \in Stream
<1> DEFINE needed == s.writable + n
           size == needed + (IF needed > DoublingLimit THEN DoublingLimit ELSE needed)
           kept == IF ~s.heap /\ s.writable = 0 THEN 0 ELSE RoundUp(s.allocated)
           copied == {p \in s.data : p < kept}
           new == IF s.junk THEN kept..(RoundUp(size) - 1) ELSE {}
<1>1. Grow(s, n) = IF needed <= s.allocated THEN s
                   ELSE [s EXCEPT !.allocated = size, !.heap = TRUE, !.data = copied \cup new]
  BY DEF Grow
<1>2. s.data \in SUBSET Nat /\ s.writable \in Nat /\ RoundUp(s.allocated) \in Nat
  BY StreamIs
<1>3. size \in Nat /\ kept \in Nat
  BY <1>2, BufferAssumption
<1>4. RoundUp(size) \in Nat
  BY <1>3, RoundIs
<1> HIDE DEF size, kept, needed
<1>5. copied \in SUBSET Nat /\ new \in SUBSET Nat
  BY <1>2, <1>3, <1>4
<1> HIDE DEF copied, new
<1>6. copied \cup new \in SUBSET Nat
  BY <1>5
<1> QED
  BY <1>1, <1>3, <1>6 DEF Stream

\* A single bit is written as a byte of which one bit is left to write.
LEMMA PutBitIsByte ==
  ASSUME NEW s \in Stream, NEW bit
  PROVE  PutBit(s, bit) = PutByte(Grow(s, 1), BitByte(bit), 1)
<1> DEFINE t == Grow(s, 1)
           w == t.writable
           r == w % ByteBits
           end == RoundUp(w + 1)
           spills == r # 0 /\ 1 > end - w
           ones == {p \in {w + i : i \in BitByte(bit)} : p < end \/ spills}
           gone == (IF r = 0 THEN w..(end - 1) ELSE {})
                     \cup (IF spills THEN end..(end + ByteBits - 1) ELSE {})
           gone1 == IF r = 0 THEN w..(w + ByteBits - 1) ELSE {}
           ones1 == IF bit = 1 THEN {w} ELSE {}
           m == Min({1, ByteBits})
<1>1. w \in Nat
  <2>1. t \in Stream
    BY GrowTyped
  <2> HIDE DEF t
  <2> QED
    BY <2>1, StreamIs
<1>2. PutBit(s, bit) = [t EXCEPT !.data = (t.data \ gone1) \cup ones1, !.writable = w + 1]
  BY DEF PutBit
<1>3. PutByte(t, BitByte(bit), 1) = [t EXCEPT !.data = (t.data \ gone) \cup ones, !.writable = w + m]
  BY DEF PutByte
<1>4. m = 1
  BY MinIs, ByteFacts
<1> HIDE DEF w, t, m
<1>5. r \in 0..(ByteBits - 1) /\ end = w - r + ByteBits
  BY <1>1, ByteEnd
<1> HIDE DEF r, end
<1>6. ~spills /\ w < end
  BY <1>1, <1>5, ByteFacts
<1>7. gone = gone1
  BY <1>1, <1>5, <1>6, ByteFacts
<1>8. ones = ones1
  <2>1. \A p : p \in ones <=> bit = 1 /\ p = w + 0 /\ p < end
    BY <1>6 DEF BitByte
  <2> QED
    BY <1>1, <1>6, <2>1
<1> HIDE DEF gone, gone1, ones, ones1
<1> QED
  BY <1>2, <1>3, <1>4, <1>7, <1>8 DEF t

\* WriteBitOne() and WriteBitZero() append their bit, and the memory has room for it.
LEMMA PutBitIs ==
  ASSUME NEW s, Fits(s), NEW bit
  PROVE  Writes(s, PutBit(s, bit), 1, BitByte(bit))
<1> DEFINE g == Grow(s, 1)
           t == PutBit(s, bit)
<1>1. s \in Stream /\ s.writable \in Nat
  BY StreamIs DEF Fits
<1>2. Appends(s, g, 0, {}) /\ s.writable + 1 <= g.allocated
  BY GrowIs
<1>3. Fits(g) /\ g.writable = s.writable
  BY <1>1, <1>2 DEF Appends, Extends
<1>4. t = PutByte(g, BitByte(bit), 1)
  BY <1>1, PutBitIsByte
<1>5. BitByte(bit) \in SUBSET Offsets /\ BitByte(bit) \in SUBSET Nat
  BY ByteFacts DEF BitByte, Offsets
<1> HIDE DEF g, t
<1>6. Appends(g, t, 1, BitByte(bit)) /\ t.allocated = g.allocated
  <2>1. 1 = IF 1 <= ByteBits THEN 1 ELSE ByteBits
    BY ByteFacts
  <2>2. g.writable + 1 <= g.allocated
    BY <1>2, <1>3
  <2> QED
    BY <1>3, <1>4, <1>5, <2>1, <2>2, PutByteIs
<1>7. Appends(s, t, 0 + 1, Join({}, 0, BitByte(bit)))
  BY <1>2, <1>5, <1>6, AppendsBoth
<1>8. Join({}, 0, BitByte(bit)) = BitByte(bit)
  <2>1. \A i \in BitByte(bit) : 0 + i = i
    BY <1>5
  <2> QED
    BY <2>1 DEF Join
<1>9. Appends(s, t, 1, BitByte(bit))
  BY <1>7, <1>8
<1>10. t.writable = s.writable + 1
  BY <1>9 DEF Appends, Extends
<1> QED
  BY <1>2, <1>6, <1>9, <1>10 DEF Writes, t

\* They leave a stream.
LEMMA PutBitTyped ==
  ASSUME NEW s \in Stream, NEW bit
  PROVE  PutBit(s, bit) \in Stream
<1>1. BitByte(bit) \in SUBSET Offsets
  BY ByteFacts DEF BitByte, Offsets
<1>2. Grow(s, 1) \in Stream
  BY GrowTyped
<1>3. PutByte(Grow(s, 1), BitByte(bit), 1) \in Stream
  BY <1>1, <1>2, PutByteTyped
<1> QED
  BY <1>3, PutBitIsByte

\* A sequence of single bits, bits[1] first.
OnesAmong(bits, n) == {j \in 0..(n - 1) : bits[j + 1] = 1}

\* Bits that are written one at a time after g.
LEMMA BitByBit ==
  ASSUME NEW s, NEW g, Fits(s), Appends(s, g, 0, {}), NEW n \in Nat, NEW bits, NEW t, NEW D, D = 0..n,
         t = [k \in D |-> IF k = 0 THEN g ELSE PutBit(t[k - 1], bits[k])]
  PROVE  Appends(s, t[n], n, OnesAmong(bits, n))
<1> DEFINE Good == {k \in 0..n : Appends(s, t[k], k, OnesAmong(bits, k))}
<1>1. t[0] = g /\ \A k \in 1..n : t[k] = PutBit(t[k - 1], bits[k])
  OBVIOUS
<1>2. 0 \in Good
  <2>1. OnesAmong(bits, 0) = {}
    BY DEF OnesAmong
  <2>2. Appends(s, t[0], 0, OnesAmong(bits, 0))
    BY <1>1, <2>1
  <2> QED
    BY <2>2
<1>3. ASSUME NEW m \in 0..(n - 1), m \in Good PROVE m + 1 \in Good
  <2> DEFINE k == m + 1
             a == OnesAmong(bits, m)
             b == OnesAmong(bits, k)
             c == BitByte(bits[k])
  <2>1. m \in Nat /\ k \in 1..n /\ k - 1 = m /\ k \in 0..n
    OBVIOUS
  <2>2. Appends(s, t[m], m, a) /\ t[k] = PutBit(t[m], bits[k])
    BY <1>1, <1>3, <2>1
  <2>3. Appends(t[m], t[k], 1, c)
    <3>1. Fits(t[m])
      BY <2>2 DEF Appends, Extends
    <3>2. Writes(t[m], PutBit(t[m], bits[k]), 1, BitByte(bits[k]))
      BY <3>1, PutBitIs
    <3> QED
      BY <2>2, <3>2 DEF Writes
  <2>4. a \subseteq 0..(m - 1) /\ c \in SUBSET Nat
    BY DEF OnesAmong, BitByte
  <2>5. b = Join(a, m, c)
    <3>1. \A j : j \in b <=> j \in 0..m /\ bits[j + 1] = 1
      BY <2>1 DEF OnesAmong
    <3>2. \A j : j \in a <=> j \in 0..(m - 1) /\ bits[j + 1] = 1
      BY DEF OnesAmong
    <3>3. \A j : (\E i \in c : j = m + i) <=> j = m /\ bits[m + 1] = 1
      BY <2>1 DEF BitByte
    <3> HIDE DEF a, b, c, k
    <3>4. \A j : j \in 0..m <=> j \in 0..(m - 1) \/ j = m
      BY <2>1
    <3>5. m \notin 0..(m - 1) /\ m \in 0..m
      BY <2>1
    <3>6. ASSUME NEW j PROVE j \in b <=> j \in a \/ \E i \in c : j = m + i
      <4>1. CASE j = m
        BY <3>1, <3>2, <3>3, <3>5, <4>1
      <4>2. CASE j # m
        BY <3>1, <3>2, <3>3, <3>4, <4>2
      <4> QED
        BY <4>1, <4>2
    <3> QED
      BY <3>6 DEF Join
  <2> HIDE DEF a, b, c, k
  <2>6. Appends(s, t[k], m + 1, Join(a, m, c))
    BY <2>1, <2>2, <2>3, <2>4, AppendsBoth
  <2> QED
    BY <2>1, <2>5, <2>6 DEF k, b
<1> HIDE DEF Good
<1>4. \A k \in 0..n : k \in Good
  BY <1>2, <1>3, UpTo
<1> QED
  BY <1>4 DEF Good

\* A loop that writes n bits.
BitLoop(t, g, bits, n) == t = [k \in 0..n |-> IF k = 0 THEN g ELSE PutBit(t[k - 1], bits[k])]

\* There is a stream for each number of bits: the loop has a result.
LEMMA BitLoopIs ==
  ASSUME NEW g \in Stream, NEW n \in Nat, NEW bits
  PROVE  \E f : BitLoop(f, g, bits, n)
<1> DEFINE G == [x \in Stream \X (1..n) |-> PutBit(x[1], bits[x[2]])]
<1>1. G \in [Stream \X (1..n) -> Stream]
  BY PutBitTyped
<1>2. \A x \in Stream, k \in 1..n : G[<<x, k>>] = PutBit(x, bits[k])
  OBVIOUS
<1> HIDE DEF G
<1>3. PICK f : Iterates(f, Stream, g, G, n)
  BY <1>1, IteratesExist
<1>4. f \in [0..n -> Stream] /\ f[0] = g /\ \A k \in 1..n : f[k] = G[<<f[k - 1], k>>]
  BY <1>3 DEF Iterates
<1>5. \A k \in 1..n : k - 1 \in 0..n /\ f[k - 1] \in Stream
  BY <1>4
<1>6. \A k \in 1..n : f[k] = PutBit(f[k - 1], bits[k])
  BY <1>2, <1>4, <1>5
<1>7. \A k \in 0..n : k = 0 \/ k \in 1..n
  OBVIOUS
<1>8. f = [k \in 0..n |-> IF k = 0 THEN g ELSE PutBit(f[k - 1], bits[k])]
  BY <1>4, <1>6, <1>7
<1> QED
  BY <1>8 DEF BitLoop

\* WriteBitZeros().
LEMMA PutZerosIs ==
  ASSUME NEW s, Fits(s), NEW n \in Nat
  PROVE  Appends(s, PutZeros(s, n), n, {})
<1> DEFINE zeros == [k \in 1..n |-> 0]
           Is(t) == t = [k \in 0..n |-> IF k = 0 THEN s ELSE PutBit(t[k - 1], 0)]
           t == CHOOSE t : Is(t)
<1>1. PutZeros(s, n) = t[n]
  BY Zenon DEF PutZeros
<1>2. s \in Stream
  BY DEF Fits
<1>3. ASSUME NEW u PROVE u = [k \in 0..n |-> IF k = 0 THEN s ELSE PutBit(u[k - 1], zeros[k])] <=> Is(u)
  <2>1. \A k \in 0..n : k = 0 \/ zeros[k] = 0
    OBVIOUS
  <2> HIDE DEF zeros
  <2>2. [k \in 0..n |-> IF k = 0 THEN s ELSE PutBit(u[k - 1], zeros[k])]
        = [k \in 0..n |-> IF k = 0 THEN s ELSE PutBit(u[k - 1], 0)]
    BY <2>1
  <2> QED
    BY <2>2
<1>4. \E u : Is(u)
  <2> HIDE DEF zeros, Is
  <2>1. PICK u : BitLoop(u, s, zeros, n)
    BY <1>2, BitLoopIs
  <2>2. u = [k \in 0..n |-> IF k = 0 THEN s ELSE PutBit(u[k - 1], zeros[k])]
    BY <2>1 DEF BitLoop
  <2> QED
    BY <1>3, <2>2
<1> HIDE DEF Is
<1>5. Is(t)
  BY <1>4
<1> HIDE DEF t, zeros
<1>6. t = [k \in 0..n |-> IF k = 0 THEN s ELSE PutBit(t[k - 1], zeros[k])]
  BY <1>3, <1>5
<1>7. Appends(s, s, 0, {})
  <2>1. s.writable \in Nat
    BY <1>2, StreamIs
  <2> QED
    BY <2>1 DEF Appends, Extends
<1>8. Appends(s, t[n], n, OnesAmong(zeros, n))
  BY <1>6, <1>7, BitByBit
<1>9. OnesAmong(zeros, n) = {}
  BY DEF OnesAmong, zeros
<1> QED
  BY <1>1, <1>8, <1>9

\* Up to the next byte boundary, nothing is written.
LEMMA AlignIs ==
  ASSUME NEW s, Fits(s)
  PROVE  /\ RoundUp(s.writable) - s.writable \in Nat
         /\ Appends(s, AlignWritable(s), RoundUp(s.writable) - s.writable, {})
         /\ AlignWritable(s).writable = RoundUp(s.writable)
         /\ AlignWritable(s).allocated = s.allocated
<1> DEFINE t == AlignWritable(s)
           w == s.writable
           e == RoundUp(w)
           n == e - w
<1>1. s \in Stream /\ s.data \subseteq Memory(s) /\ w <= RoundUp(s.allocated)
  BY DEF Fits
<1>2. s.data \in SUBSET Nat /\ s.allocated \in Nat /\ w \in Nat /\ s.readable \in Nat
      /\ RoundUp(s.allocated) \in Nat
  BY <1>1, StreamIs
<1>3. e \in Nat /\ w <= e /\ RoundUp(e) = e /\ e <= RoundUp(RoundUp(s.allocated))
      /\ RoundUp(RoundUp(s.allocated)) = RoundUp(s.allocated)
  BY <1>1, <1>2, RoundIs, RoundMonotone
<1>4. t = [s EXCEPT !.writable = e]
  BY DEF AlignWritable
<1> HIDE DEF e, t
<1>5. /\ t \in Stream /\ t.writable = e /\ t.readable = s.readable
      /\ t.allocated = s.allocated /\ t.data = s.data
  BY <1>1, <1>3, <1>4 DEF Stream
<1>6. n \in Nat /\ e = w + n
  BY <1>2, <1>3
<1>7. Extends(s, t, n)
  <2>1. Fits(t)
    BY <1>1, <1>3, <1>5 DEF Fits, Memory
  <2> HIDE DEF n
  <2> QED
    BY <1>5, <1>6, <2>1 DEF Extends
<1>8. ASSUME Clean(s)
      PROVE  Clean(t) /\ \A j \in 0..(n - 1) : w + j \notin t.data
  <2>1. Clean(t)
    BY <1>3, <1>5 DEF Clean
  <2>2. \A j \in 0..(n - 1) : w + j \in w..(e - 1)
    BY <1>2, <1>3, <1>6
  <2> QED
    BY <1>5, <1>8, <2>1, <2>2 DEF Clean, e
<1>9. Appends(s, t, n, {})
  <2> HIDE DEF n
  <2> QED
    BY <1>7, <1>8 DEF Appends
<1> QED
  BY <1>5, <1>6, <1>9 DEF t, e

\* pad_zeros_up_to() writes zeros.
LEMMA PadIs ==
  ASSUME NEW s, Fits(s), NEW bytes \in Nat
  PROVE  /\ \E n \in Nat : Appends(s, PadZeros(s, bytes), n, {})
         /\ s.writable <= s.allocated => PadZeros(s, bytes).writable <= PadZeros(s, bytes).allocated
<1> DEFINE missing == bytes - BITS_TO_BYTES(s.writable)
           m == missing * ByteBits
           a == AlignWritable(s)
           g == Grow(a, m)
           end == g.writable + m
           u == [g EXCEPT !.data = g.data \ (g.writable..(end - 1)), !.writable = end]
<1>1. s \in Stream /\ s.writable \in Nat
  BY StreamIs DEF Fits
<1>2. missing \in Int
  BY <1>1, RoundIs
<1>3. PadZeros(s, bytes) = IF missing <= 0 THEN s ELSE u
  BY DEF PadZeros
<1>4. CASE missing <= 0
  <2>1. Appends(s, s, 0, {})
    BY <1>1 DEF Appends, Extends
  <2> QED
    BY <1>3, <1>4, <2>1
<1>5. CASE ~ missing <= 0
  <2>1. m \in Nat /\ \E k \in Nat : m = k * ByteBits
    BY <1>2, <1>5, ByteFacts
  <2> HIDE DEF missing, m
  <2> DEFINE d == RoundUp(s.writable) - s.writable
  <2>2. d \in Nat /\ Appends(s, a, d, {}) /\ a.writable = RoundUp(s.writable)
    BY AlignIs
  <2> HIDE DEF d, a
  <2>3. Fits(a)
    BY <2>2 DEF Appends, Extends
  <2>4. Appends(a, g, 0, {}) /\ a.writable + m <= g.allocated
    BY <2>1, <2>3, GrowIs
  <2> HIDE DEF g
  <2>5. Fits(g) /\ g.writable = a.writable + 0
    BY <2>4 DEF Appends, Extends
  <2>6. g \in Stream /\ g.data \subseteq Memory(g)
    BY <2>5 DEF Fits
  <2>7. a.writable \in Nat /\ g.writable = a.writable /\ g.data \in SUBSET Nat
        /\ g.allocated \in Nat /\ g.readable \in Nat
    <3>1. a \in Stream
      BY <2>3 DEF Fits
    <3>2. a.writable \in Nat
      BY <3>1, StreamIs
    <3> QED
      BY <2>5, <2>6, <3>2, StreamIs
  <2>8. end \in Nat /\ end <= g.allocated /\ RoundUp(end) = end
    <3>1. PICK k \in Nat : m = k * ByteBits
      BY <2>1
    <3>2. PICK j \in Nat : a.writable = j * ByteBits
      BY <1>1, <2>2, RoundIs
    <3>3. end = (j + k) * ByteBits
      BY <2>7, <3>1, <3>2, ByteFacts
    <3>4. RoundUp((j + k) * ByteBits) = (j + k) * ByteBits
      BY WholeBytes
    <3>5. end \in Nat /\ end <= g.allocated
      BY <2>1, <2>4, <2>7
    <3> QED
      BY <3>3, <3>4, <3>5
  <2> DEFINE gone == g.writable..(end - 1)
             kept == g.data \ gone
  <2>9. end = g.writable + m
    OBVIOUS
  <2> HIDE DEF end
  <2>10. kept \in SUBSET Nat /\ kept \subseteq g.data
    BY <2>7
  <2>11. u = [g EXCEPT !.data = kept, !.writable = end]
    OBVIOUS
  <2>12. \A p : p \in kept <=> p \in g.data /\ p \notin gone
    OBVIOUS
  <2>13. \A p : p \in gone <=> p \in g.writable..(end - 1)
    OBVIOUS
  <2> HIDE DEF kept, u, gone
  <2>14. u \in Stream /\ u.data = kept /\ u.writable = end /\ u.readable = g.readable
         /\ u.allocated = g.allocated
    BY <2>6, <2>8, <2>10, <2>11 DEF Stream
  <2>15. Fits(u)
    <3>1. end <= RoundUp(g.allocated)
      BY <2>7, <2>8, RoundIs
    <3> QED
      BY <2>6, <2>10, <2>14, <3>1 DEF Fits, Memory
  <2>16. Appends(g, u, m, {})
    <3>1. \A p \in 0..(g.writable - 1) : p \notin gone
      BY <2>7, <2>8, <2>13
    <3>2. Extends(g, u, m)
      BY <2>9, <2>12, <2>14, <2>15, <3>1 DEF Extends
    <3>3. \A j \in 0..(m - 1) : g.writable + j \in gone
      BY <2>1, <2>7, <2>9, <2>13
    <3>4. Clean(u)
      BY <2>8, <2>14 DEF Clean
    <3> QED
      BY <2>12, <2>14, <3>2, <3>3, <3>4 DEF Appends
  <2>17. Appends(s, g, d + 0, Join({}, d, {}))
    BY <2>2, <2>4, AppendsBoth
  <2>18. \A k \in Nat : Join({}, k, {}) = {}
    BY DEF Join
  <2>19. Appends(s, g, d, {}) /\ d + m \in Nat
    <3>1. d + 0 = d /\ Join({}, d, {}) = {} /\ d + m \in Nat
      BY <2>1, <2>2, <2>18
    <3> QED
      BY <2>17, <3>1
  <2>20. Appends(s, u, d + m, Join({}, d, {}))
    BY <2>1, <2>2, <2>16, <2>19, AppendsBoth
  <2>21. Appends(s, u, d + m, {})
    BY <2>2, <2>18, <2>20
  <2> QED
    BY <1>3, <1>5, <2>8, <2>14, <2>19, <2>21 DEF missing
<1> QED
  BY <1>2, <1>4, <1>5

-----------------------------------------------------------------------------
(* Reading bits.                                                             *)

\* What GetByte returns: the bits that are there, shifted to the right.
LEMMA GetByteIs ==
  ASSUME NEW s, NEW p \in Nat, NEW n \in Nat \ {0}
  PROVE  GetByte(s, p, n, TRUE) =
           IF n < ByteBits THEN {i + ByteBits - n : i \in {j \in Offsets : j < n /\ p + j \in s.data}}
                           ELSE {i \in Offsets : p + i \in s.data}
<1> DEFINE start == p % ByteBits
           seen == {i \in Offsets : /\ p + i \in s.data
                                    /\ start + i < ByteBits \/ n > ByteBits - start}
<1>1. GetByte(s, p, n, TRUE) = IF n < ByteBits THEN {i + ByteBits - n : i \in {j \in seen : j < n}} ELSE seen
  BY DEF GetByte
<1>2. start \in 0..(ByteBits - 1)
  BY ByteEnd
<1>3. \A i \in Offsets : i \in 0..(ByteBits - 1)
  BY DEF Offsets
<1> HIDE DEF start
<1>4. \A i \in Offsets : i < n => start + i < ByteBits \/ n > ByteBits - start
  BY <1>2, <1>3, ByteFacts
<1>5. CASE n < ByteBits
  <2>1. {j \in seen : j < n} = {j \in Offsets : j < n /\ p + j \in s.data}
    BY <1>4
  <2> HIDE DEF seen
  <2> QED
    BY <1>1, <1>5, <2>1
<1>6. CASE ~ n < ByteBits
  <2>1. \A i \in Offsets : i < n
    BY <1>3, <1>6, ByteFacts
  <2>2. seen = {i \in Offsets : p + i \in s.data}
    BY <1>4, <2>1
  <2> HIDE DEF seen
  <2> QED
    BY <1>1, <1>6, <2>2
<1> QED
  BY <1>5, <1>6

\* The n bits at p of one stream are those at q of another.
Alike(s, p, t, q, n) == \A j \in 0..(n - 1) : p + j \in s.data <=> q + j \in t.data

RightByte(s, p, n) == GetByte(s, p, n, TRUE)

\* So it depends on n bits only.
LEMMA GetByteSame ==
  ASSUME NEW s, NEW t, NEW p \in Nat, NEW q \in Nat, NEW n \in Nat \ {0}, Alike(s, p, t, q, n)
  PROVE  RightByte(s, p, n) = RightByte(t, q, n)
<1>1. \A i \in Offsets : i < n => (p + i \in s.data <=> q + i \in t.data)
  BY DEF Offsets, Alike
<1>2. CASE n < ByteBits
  <2> DEFINE A == {j \in Offsets : j < n /\ p + j \in s.data}
             B == {j \in Offsets : j < n /\ q + j \in t.data}
  <2>1. A = B
    BY <1>1
  <2>2. RightByte(s, p, n) = {i + ByteBits - n : i \in A}
    BY <1>2, GetByteIs DEF RightByte
  <2>3. RightByte(t, q, n) = {i + ByteBits - n : i \in B}
    BY <1>2, GetByteIs DEF RightByte
  <2> HIDE DEF A, B
  <2> QED
    BY <2>1, <2>2, <2>3
<1>3. CASE ~ n < ByteBits
  <2>1. \A i \in Offsets : i < n
    BY <1>3, ByteFacts DEF Offsets
  <2> DEFINE A == {j \in Offsets : p + j \in s.data}
             B == {j \in Offsets : q + j \in t.data}
  <2>2. A = B
    BY <1>1, <2>1
  <2>3. RightByte(s, p, n) = A
    BY <1>3, GetByteIs DEF RightByte
  <2>4. RightByte(t, q, n) = B
    BY <1>3, GetByteIs DEF RightByte
  <2> HIDE DEF A, B
  <2> QED
    BY <2>2, <2>3, <2>4
<1> QED
  BY <1>2, <1>3

\* ReadBits() depends on the bits it passes and on nothing else.
LEMMA GetBitsSame ==
  ASSUME NEW s, NEW t, s.readable \in Nat, t.readable \in Nat, NEW n \in Nat,
         Alike(s, s.readable, t, t.readable, n)
  PROVE  GetBits(s, n, TRUE) = GetBits(t, n, TRUE)
<1> DEFINE N == BITS_TO_BYTES(n)
<1>1. ASSUME NEW k \in 1..N
      PROVE  GetByte(s, s.readable + (k - 1) * ByteBits, n - (k - 1) * ByteBits, TRUE)
             = GetByte(t, t.readable + (k - 1) * ByteBits, n - (k - 1) * ByteBits, TRUE)
  <2> DEFINE d == (k - 1) * ByteBits
             m == n - d
             p == s.readable + d
             q == t.readable + d
  <2>1. m \in Nat \ {0} /\ d \in Nat
    BY <1>1, ByteOfBits
  <2> HIDE DEF d, N
  <2>2. p \in Nat /\ q \in Nat
    BY <2>1
  <2>3. ASSUME NEW j \in 0..(m - 1) PROVE p + j \in s.data <=> q + j \in t.data
    <3>1. d + j \in 0..(n - 1)
      BY <2>1
    <3>2. s.readable + (d + j) = p + j /\ t.readable + (d + j) = q + j
      BY <2>1
    <3> QED
      BY <3>1, <3>2 DEF Alike
  <2> HIDE DEF m, p, q
  <2>4. GetByte(s, p, m, TRUE) = GetByte(t, q, m, TRUE)
    <3>1. m \in Nat \ {0} /\ p \in Nat /\ q \in Nat
      BY <2>1, <2>2
    <3>2. Alike(s, p, t, q, m)
      BY <2>3 DEF Alike
    <3>3. RightByte(s, p, m) = RightByte(t, q, m)
      BY <3>1, <3>2, GetByteSame
    <3> QED
      BY <3>3 DEF RightByte
  <2> QED
    BY <2>4 DEF p, q, m, d
<1> HIDE DEF N
<1>2. /\ GetBits(s, n, TRUE) = [k \in 1..N |-> GetByte(s, s.readable + (k - 1) * ByteBits, n - (k - 1) * ByteBits, TRUE)]
      /\ GetBits(t, n, TRUE) = [k \in 1..N |-> GetByte(t, t.readable + (k - 1) * ByteBits, n - (k - 1) * ByteBits, TRUE)]
  BY DEF GetBits, N
<1> QED
  BY <1>1, <1>2

\* The lowest n bits of an array of bytes.
Low(byte, n) == IF n < ByteBits THEN {i \in byte : i >= ByteBits - n} ELSE byte
Masked(src, n) == [k \in 1..BITS_TO_BYTES(n) |-> Low(src[k], n - (k - 1) * ByteBits)]

\* What was written is read.
LEMMA GetByteBack ==
  ASSUME NEW s, NEW p \in Nat, NEW n \in Nat \ {0}, NEW byte \in SUBSET Offsets,
         \A i \in Offsets : i < n => (p + i \in s.data <=> i \in Shifted(byte, n, TRUE))
  PROVE  GetByte(s, p, n, TRUE) = Low(byte, n)
<1>1. \A i \in Offsets : i \in 0..(ByteBits - 1)
  BY DEF Offsets
<1>2. CASE n < ByteBits
  <2> DEFINE A == {j \in Offsets : j < n /\ p + j \in s.data}
             S == {i - (ByteBits - n) : i \in {j \in byte : j >= ByteBits - n}}
  <2>1. GetByte(s, p, n, TRUE) = {i + ByteBits - n : i \in A}
    BY <1>2, GetByteIs
  <2>2. Shifted(byte, n, TRUE) = S
    BY <1>2 DEF Shifted
  <2>3. \A i : i \in S <=> \E j \in byte : j >= ByteBits - n /\ i = j - (ByteBits - n)
    OBVIOUS
  <2>4. \A i : i \in A <=> i \in Offsets /\ i < n /\ i \in S
    BY <2>2
  <2> HIDE DEF S
  <2>5. ASSUME NEW j \in byte, j >= ByteBits - n
        PROVE  \E i \in A : j = i + ByteBits - n
    <3> DEFINE i == j - (ByteBits - n)
    <3>1. j \in 0..(ByteBits - 1)
      BY <1>1
    <3>2. i \in 0..(ByteBits - 1) /\ i < n /\ j = i + ByteBits - n
      BY <2>5, <3>1, <1>2, ByteFacts
    <3>3. i \in S
      BY <2>3, <2>5
    <3> HIDE DEF i, A
    <3>4. i \in A
      BY <2>4, <3>2, <3>3 DEF Offsets
    <3> QED
      BY <3>2, <3>4
  <2>6. ASSUME NEW i \in A PROVE i + ByteBits - n \in byte /\ i + ByteBits - n >= ByteBits - n
    <3>1. i \in 0..(ByteBits - 1) /\ i \in S
      BY <1>1, <2>4
    <3>2. PICK j \in byte : j >= ByteBits - n /\ i = j - (ByteBits - n)
      BY <2>3, <3>1
    <3>3. j \in 0..(ByteBits - 1)
      BY <1>1
    <3>4. i + ByteBits - n = j
      BY <3>2, <3>3, ByteFacts
    <3> QED
      BY <3>2, <3>4
  <2> HIDE DEF A
  <2>7. {i + ByteBits - n : i \in A} = {i \in byte : i >= ByteBits - n}
    BY <2>5, <2>6
  <2> QED
    BY <1>2, <2>1, <2>7 DEF Low
<1>3. CASE ~ n < ByteBits
  <2>1. \A i \in Offsets : i < n
    BY <1>1, <1>3, ByteFacts
  <2>2. Shifted(byte, n, TRUE) = byte
    BY <1>3 DEF Shifted
  <2>3. \A i \in Offsets : p + i \in s.data <=> i \in byte
    BY <2>1, <2>2
  <2>4. {i \in Offsets : p + i \in s.data} = byte
    BY <2>3
  <2> QED
    BY <1>3, <2>4, GetByteIs DEF Low
<1> QED
  BY <1>2, <1>3

\* ReadBits() gets the bytes whose bits are in the memory.
LEMMA GetBitsBack ==
  ASSUME NEW s, s.readable \in Nat, NEW n \in Nat, NEW src, Source(src, n),
         \A j \in 0..(n - 1) : s.readable + j \in s.data <=> j \in OnesOf(src, n, TRUE)
  PROVE  GetBits(s, n, TRUE) = Masked(src, n)
<1> DEFINE N == BITS_TO_BYTES(n)
<1>1. ASSUME NEW k \in 1..N
      PROVE  GetByte(s, s.readable + (k - 1) * ByteBits, n - (k - 1) * ByteBits, TRUE)
             = Low(src[k], n - (k - 1) * ByteBits)
  <2> DEFINE d == (k - 1) * ByteBits
             m == n - d
             p == s.readable + d
             h == k - 1
  <2>1. m \in Nat \ {0} /\ d \in Nat
    BY <1>1, ByteOfBits
  <2>2. src[k] \in SUBSET Offsets
    BY DEF Source
  <2>3. h \in Nat /\ k = h + 1 /\ d = h * ByteBits
    OBVIOUS
  <2> HIDE DEF d, N, h
  <2>4. p \in Nat
    BY <2>1
  <2>5. ASSUME NEW i \in Offsets, i < m PROVE p + i \in s.data <=> i \in Shifted(src[k], m, TRUE)
    <3>1. i \in 0..(ByteBits - 1)
      BY DEF Offsets
    <3>2. d + i \in 0..(n - 1) /\ s.readable + (d + i) = p + i
      BY <2>1, <2>5, <3>1
    <3> DEFINE j == h * ByteBits + i
    <3>3. j \in Nat /\ j \div ByteBits = h /\ j % ByteBits = i
      BY <2>3, <3>1, PlaceOf
    <3>4. d + i = j
      BY <2>3
    <3> HIDE DEF j
    <3>5. j \in OnesOf(src, n, TRUE) <=> i \in Shifted(src[k], n - h * ByteBits, TRUE)
      BY <2>3, <3>3 DEF OnesOf, N
    <3>6. n - h * ByteBits = m
      BY <2>3
    <3> QED
      BY <3>2, <3>4, <3>5, <3>6
  <2> HIDE DEF m, p
  <2>6. GetByte(s, p, m, TRUE) = Low(src[k], m)
    BY <2>1, <2>2, <2>4, <2>5, GetByteBack
  <2> QED
    BY <2>6 DEF p, m, d, h
<1> HIDE DEF N
<1>2. GetBits(s, n, TRUE) = [k \in 1..N |-> GetByte(s, s.readable + (k - 1) * ByteBits, n - (k - 1) * ByteBits, TRUE)]
  BY DEF GetBits, N
<1>3. Masked(src, n) = [k \in 1..N |-> Low(src[k], n - (k - 1) * ByteBits)]
  BY DEF Masked, N
<1> QED
  BY <1>1, <1>2, <1>3

\* A reader at p finds in r what ends in t at e.
Same(r, t, p, e) == \A q \in p..(e - 1) : q \in r.data <=> q \in t.data

\* WriteBits(), and ReadBits() where it began.
LEMMA BitsRoundTrip ==
  ASSUME NEW s, Fits(s), Clean(s), NEW n \in Nat, NEW src, Source(src, n), NEW t,
         Appends(s, t, n, OnesOf(src, n, TRUE)), NEW r, r.readable = s.writable,
         Same(r, t, s.writable, t.writable)
  PROVE  GetBits(r, n, TRUE) = Masked(src, n)
<1>1. s.writable \in Nat
  BY StreamIs DEF Fits
<1>2. t.writable = s.writable + n
  BY DEF Appends, Extends
<1>3. \A j \in 0..(n - 1) : s.writable + j \in t.data <=> j \in OnesOf(src, n, TRUE)
  BY DEF Appends
<1>4. \A j \in 0..(n - 1) : s.writable + j \in s.writable..(t.writable - 1)
  BY <1>1, <1>2
<1>5. \A j \in 0..(n - 1) : r.readable + j \in r.data <=> j \in OnesOf(src, n, TRUE)
  BY <1>3, <1>4 DEF Same
<1> QED
  BY <1>1, <1>5, GetBitsBack

-----------------------------------------------------------------------------
(* Numbers.                                                                  *)

\* Division, with names that keep the provers from interpreting it.
Quo(a, d) == a \div d
Rem(a, d) == a % d

\* Division with a remainder.
LEMMA QuoRem ==
  ASSUME NEW a \in Int, NEW d \in Nat \ {0}
  PROVE  /\ Quo(a, d) \in Int /\ Rem(a, d) \in Int /\ 0 <= Rem(a, d) /\ Rem(a, d) < d
         /\ a = Quo(a, d) * d + Rem(a, d)
<1>1. a \div d \in Int /\ a % d \in 0..(d - 1) /\ a = (a \div d) * d + (a % d)
  BY DivMod
<1>2. Quo(a, d) \in Int /\ Rem(a, d) \in 0..(d - 1) /\ a = Quo(a, d) * d + Rem(a, d)
  BY <1>1 DEF Quo, Rem
<1> QED
  BY <1>2

Splits(a, d, q, r) == a = q * d + r /\ 0 <= r /\ r < d

\* There is one way to divide.
LEMMA QuoRemAre ==
  ASSUME NEW a \in Int, NEW q \in Int, NEW r \in Int, NEW d \in Nat \ {0}, Splits(a, d, q, r)
  PROVE  Rem(a, d) = r /\ Quo(a, d) = q
BY ModUnique DEF Quo, Rem, Splits

\* Division by a product, one factor after another.
LEMMA QuoTimes ==
  ASSUME NEW a \in Int, NEW b \in Nat \ {0}, NEW c \in Nat \ {0}
  PROVE  /\ b * c \in Nat \ {0}
         /\ Quo(a, b * c) = Quo(Quo(a, b), c)
         /\ Rem(a, b * c) = Rem(a, b) + Rem(Quo(a, b), c) * b
<1> DEFINE q == Quo(a, b)
           r == Rem(a, b)
           u == Quo(q, c)
           v == Rem(q, c)
           d == b * c
           m == v * b + r
<1>1. q \in Int /\ r \in Int /\ 0 <= r /\ r < b /\ a = q * b + r
  BY QuoRem
<1> HIDE DEF q, r
<1>2. u \in Int /\ v \in Int /\ 0 <= v /\ v < c /\ q = u * c + v
  BY <1>1, QuoRem
<1> HIDE DEF u, v
<1>3. d \in Nat \ {0}
  OBVIOUS
<1>4. a = u * d + m
  <2>1. q * b = (u * c + v) * b
    BY <1>2
  <2>2. (u * c + v) * b = u * d + v * b
    BY <1>2
  <2> DEFINE x == q * b
             y == u * d
             z == v * b
  <2>3. x = y + z /\ y \in Int /\ z \in Int /\ a = x + r
    BY <1>1, <1>2, <1>3, <2>1, <2>2
  <2> HIDE DEF x, y, z
  <2>4. a = y + (z + r)
    BY <1>1, <2>3
  <2> QED
    BY <2>4 DEF y, z
<1>5. m \in Int /\ 0 <= m /\ m < d
  <2>1. 0 * b <= v * b
    BY <1>2, TimesMonotone
  <2>2. v * b <= (c - 1) * b
    BY <1>2, TimesMonotone
  <2>3. (c - 1) * b = d - b /\ 0 * b = 0 /\ v * b \in Int
    BY <1>2
  <2> HIDE DEF d
  <2> QED
    BY <1>1, <1>3, <2>1, <2>2, <2>3
<1> HIDE DEF m, d
<1>6. Rem(a, d) = m /\ Quo(a, d) = u
  <2>1. Splits(a, d, u, m)
    BY <1>4, <1>5 DEF Splits
  <2> QED
    BY <1>2, <1>3, <1>5, <2>1, QuoRemAre
<1>7. m = r + v * b
  <2>1. v * b \in Int
    BY <1>2
  <2> QED
    BY <1>1, <2>1 DEF m
<1> QED
  BY <1>3, <1>6, <1>7 DEF d, u, v, q, r

\* By one, and by two.
LEMMA QuoRemTwo ==
  ASSUME NEW a \in Int
  PROVE  /\ Quo(a, 1) = a /\ Rem(a, 1) = 0
         /\ Quo(a, 2) \in Int /\ Rem(a, 2) \in {0, 1}
         /\ \A b \in Nat \ {0} : /\ Quo(a, b * 2) = Quo(Quo(a, b), 2)
                               /\ Rem(a, 2 * b) = Rem(a, 2) + Rem(Quo(a, 2), b) * 2
<1> DEFINE one == 1
           two == 2
<1>1. one \in Nat \ {0} /\ two \in Nat \ {0}
  OBVIOUS
<1>2. Splits(a, one, a, 0)
  BY DEF Splits
<1> HIDE DEF one, two
<1>3. Quo(a, one) = a /\ Rem(a, one) = 0
  BY <1>1, <1>2, QuoRemAre
<1>4. Quo(a, two) \in Int /\ Rem(a, two) \in Int /\ 0 <= Rem(a, two) /\ Rem(a, two) < two
  BY <1>1, QuoRem
<1>5. Rem(a, two) \in {0, 1}
  BY <1>4 DEF two
<1>6. \A b \in Nat \ {0} : /\ Quo(a, b * two) = Quo(Quo(a, b), two)
                         /\ Rem(a, two * b) = Rem(a, two) + Rem(Quo(a, two), b) * two
  BY <1>1, QuoTimes
<1> QED
  BY <1>3, <1>4, <1>5, <1>6 DEF one, two

\* Powers of two multiply.
LEMMA Power2Sum ==
  ASSUME NEW m \in Nat, NEW n \in Nat
  PROVE  Power2(m + n) = Power2(m) * Power2(n)
<1> DEFINE Good == {k \in Nat : Power2(m + k) = Power2(m) * Power2(k)}
<1>1. 0 \in Good
  <2>1. m + 0 = m /\ Power2(m) \in Nat /\ Power2(m) * 1 = Power2(m)
    BY Power2Is
  <2> QED
    BY <2>1, Power2Is
<1>2. ASSUME NEW k \in Nat, k \in Good PROVE k + 1 \in Good
  <2>1. m + (k + 1) = (m + k) + 1 /\ m + k \in Nat
    OBVIOUS
  <2>2. Power2((m + k) + 1) = 2 * Power2(m + k) /\ Power2(k + 1) = 2 * Power2(k)
    BY <2>1, Power2Is
  <2>3. Power2(m) \in Nat /\ Power2(k) \in Nat /\ Power2(m + k) = Power2(m) * Power2(k)
    BY <1>2, Power2Is
  <2>4. 2 * (Power2(m) * Power2(k)) = Power2(m) * (2 * Power2(k))
    BY <2>3
  <2> QED
    BY <2>1, <2>2, <2>3, <2>4
<1> HIDE DEF Good
<1>3. Good = Nat
  <2>1. Good \in SUBSET Nat
    BY DEF Good
  <2> QED
    BY <1>1, <1>2, <2>1, NatSet
<1> QED
  BY <1>3 DEF Good

\* The value of a byte, bit by bit from the most significant.
LEMMA ByteValueIs ==
  ASSUME NEW byte
  PROVE  \E v \in [0..ByteBits -> Nat] :
           /\ v[0] = 0 /\ ByteValue(byte) = v[ByteBits]
           /\ \A k \in 1..ByteBits : v[k] = 2 * v[k - 1] + (IF k - 1 \in byte THEN 1 ELSE 0)
<1> DEFINE Is(v) == v = [k \in 0..ByteBits |-> IF k = 0 THEN 0
                           ELSE 2 * v[k - 1] + (IF k - 1 \in byte THEN 1 ELSE 0)]
           v == CHOOSE v : Is(v)
           G == [x \in Nat \X (1..ByteBits) |-> 2 * x[1] + (IF x[2] - 1 \in byte THEN 1 ELSE 0)]
<1>1. ByteValue(byte) = v[ByteBits]
  BY Zenon DEF ByteValue
<1>2. G \in [Nat \X (1..ByteBits) -> Nat]
  OBVIOUS
<1>3. \A x \in Nat, k \in 1..ByteBits : G[<<x, k>>] = 2 * x + (IF k - 1 \in byte THEN 1 ELSE 0)
  OBVIOUS
<1> HIDE DEF G
<1>4. ByteBits \in Nat
  BY ByteFacts
<1>5. PICK f : Iterates(f, Nat, 0, G, ByteBits)
  BY <1>2, <1>4, IteratesExist
<1>6. f \in [0..ByteBits -> Nat] /\ f[0] = 0 /\ \A k \in 1..ByteBits : f[k] = G[<<f[k - 1], k>>]
  BY <1>5 DEF Iterates
<1>7. \A k \in 1..ByteBits : k - 1 \in 0..ByteBits /\ f[k - 1] \in Nat
  BY <1>4, <1>6
<1>8. \A k \in 1..ByteBits : f[k] = 2 * f[k - 1] + (IF k - 1 \in byte THEN 1 ELSE 0)
  BY <1>3, <1>6, <1>7
<1>9. \A k \in 0..ByteBits : k = 0 \/ k \in 1..ByteBits
  BY <1>4
<1>10. Is(f)
  BY <1>6, <1>8, <1>9
<1> HIDE DEF Is
<1>11. Is(v)
  BY <1>10
<1> HIDE DEF v
<1>12. v = [k \in 0..ByteBits |-> IF k = 0 THEN 0
              ELSE 2 * v[k - 1] + (IF k - 1 \in byte THEN 1 ELSE 0)]
  BY <1>11 DEF Is
<1>13. v[0] = 0 /\ \A k \in 1..ByteBits : v[k] = 2 * v[k - 1] + (IF k - 1 \in byte THEN 1 ELSE 0)
  <2>1. 0 \in 0..ByteBits /\ \A k \in 1..ByteBits : k \in 0..ByteBits /\ k # 0
    BY <1>4
  <2> QED
    BY <1>12, <2>1
<1>14. \A k \in 0..ByteBits : v[k] \in Nat
  <2> DEFINE Good == {k \in 0..ByteBits : v[k] \in Nat}
  <2>1. 0 \in Good
    BY <1>4, <1>13
  <2>2. ASSUME NEW m \in 0..(ByteBits - 1), m \in Good PROVE m + 1 \in Good
    <3>1. m + 1 \in 1..ByteBits /\ (m + 1) - 1 = m /\ m + 1 \in 0..ByteBits
      BY <1>4
    <3>2. v[m + 1] = 2 * v[m] + (IF (m + 1) - 1 \in byte THEN 1 ELSE 0)
      BY <1>13, <3>1
    <3> QED
      BY <2>2, <3>1, <3>2
  <2> HIDE DEF Good
  <2>3. \A k \in 0..ByteBits : k \in Good
    BY <1>4, <2>1, <2>2, UpTo
  <2> QED
    BY <2>3 DEF Good
<1>15. v \in [0..ByteBits -> Nat]
  BY <1>12, <1>14
<1> QED
  BY <1>1, <1>13, <1>15

\* The lowest bits of the byte that a number has.
LEMMA ByteOfValue ==
  ASSUME NEW x \in Int, NEW l \in 1..ByteBits
  PROVE  ByteValue({i \in ByteOf(x) : i >= ByteBits - l}) = Rem(x, Power2(l))
<1> DEFINE byte == {i \in ByteOf(x) : i >= ByteBits - l}
           none == ByteBits - l
<1>1. ByteBits \in Nat /\ none \in Nat /\ none < ByteBits /\ l \in Nat /\ ByteBits - none = l
  BY ByteFacts
<1>2. PICK v \in [0..ByteBits -> Nat] :
           /\ v[0] = 0 /\ ByteValue(byte) = v[ByteBits]
           /\ \A k \in 1..ByteBits : v[k] = 2 * v[k - 1] + (IF k - 1 \in byte THEN 1 ELSE 0)
  BY ByteValueIs
<1> DEFINE Good == {k \in 0..ByteBits :
                      IF k <= none THEN v[k] = 0
                      ELSE v[k] = Rem(Quo(x, Power2(ByteBits - k)), Power2(k - none))}
<1>3. \A i \in 0..(ByteBits - 1) : i \in byte <=> i >= none /\ Rem(Quo(x, Power2(ByteBits - 1 - i)), 2) = 1
  BY DEF ByteOf, Offsets, Quo, Rem
<1> HIDE DEF none, byte
<1>4. 0 \in Good
  BY <1>1, <1>2
<1>5. ASSUME NEW m \in 0..(ByteBits - 1), m \in Good PROVE m + 1 \in Good
  <2>1. m + 1 \in 1..ByteBits /\ (m + 1) - 1 = m /\ m + 1 \in 0..ByteBits /\ m \in Nat
    BY <1>1
  <2>2. v[m + 1] = 2 * v[m] + (IF m \in byte THEN 1 ELSE 0)
    BY <1>2, <2>1
  <2>3. CASE m < none
    <3>1. v[m] = 0 /\ m \notin byte /\ m + 1 <= none
      BY <1>1, <1>3, <1>5, <2>1, <2>3
    <3> QED
      BY <2>1, <2>2, <3>1
  <2>4. CASE ~ m < none
    <3> DEFINE e == ByteBits - (m + 1)
               a == m - none
    <3>1. e \in Nat /\ a \in Nat /\ ByteBits - m = e + 1 /\ (m + 1) - none = a + 1
          /\ ByteBits - 1 - m = e
      BY <1>1, <2>1, <2>4
    <3> HIDE DEF e, a
    <3>2. PICK p \in Nat \ {0} : p = Power2(e) /\ Power2(e + 1) = p * 2
      <4>1. Power2(e) \in Nat \ {0} /\ Power2(e + 1) = 2 * Power2(e)
        BY <3>1, Power2Is
      <4> QED
        BY <4>1
    <3>3. PICK b \in Nat \ {0} : b = Power2(a) /\ Power2(a + 1) = 2 * b
      BY <3>1, Power2Is
    <3> DEFINE y == Quo(x, p)
    <3>4. y \in Int /\ Quo(x, p * 2) = Quo(y, 2) /\ x \in Int
      <4>1. x \in Int
        OBVIOUS
      <4> QED
        BY <4>1, QuoRem, QuoRemTwo
    <3> HIDE DEF y
    <3>5. Rem(y, 2 * b) = Rem(y, 2) + Rem(Quo(y, 2), b) * 2
      BY <3>4, QuoRemTwo
    <3>6. v[m] = Rem(Quo(y, 2), b)
      <4>1. CASE m = none
        <5>1. a = 0
          BY <1>1, <4>1 DEF a
        <5>2. b = 1 /\ v[m] = 0
          BY <1>1, <1>5, <3>3, <4>1, <5>1, Power2Is
        <5>3. Quo(y, 2) \in Int
          BY <3>4, QuoRemTwo
        <5>4. Rem(Quo(y, 2), 1) = 0
          BY <5>3, QuoRemTwo
        <5> QED
          BY <5>2, <5>4
      <4>2. CASE m # none
        <5>1. ~ m <= none
          BY <1>1, <2>1, <2>4, <4>2
        <5>2. v[m] = Rem(Quo(x, Power2(ByteBits - m)), Power2(m - none))
          BY <1>5, <5>1
        <5>3. ByteBits - m = e + 1 /\ m - none = a
          BY <3>1 DEF a
        <5> QED
          BY <3>2, <3>3, <3>4, <5>2, <5>3
      <4> QED
        BY <4>1, <4>2
    <3>7. m \in byte <=> Rem(y, 2) = 1
      BY <1>3, <2>1, <2>4, <3>1, <3>2, <1>1 DEF y
    <3>8. Rem(y, 2) = 0 \/ Rem(y, 2) = 1
      BY <3>4, QuoRemTwo
    <3>9. v[m] \in Nat
      BY <1>2, <2>1, <1>1
    <3>10. v[m + 1] = Rem(y, 2 * b)
      BY <2>2, <3>5, <3>6, <3>7, <3>8, <3>9
    <3>11. ~ m + 1 <= none
      BY <1>1, <2>1, <2>4
    <3>12. v[m + 1] = Rem(Quo(x, Power2(ByteBits - (m + 1))), Power2((m + 1) - none))
      BY <3>1, <3>2, <3>3, <3>10 DEF e, y
    <3> QED
      BY <2>1, <3>11, <3>12
  <2> QED
    BY <2>3, <2>4
<1> HIDE DEF Good
<1>6. \A k \in 0..ByteBits : k \in Good
  BY <1>1, <1>4, <1>5, UpTo
<1>7. v[ByteBits] = Rem(Quo(x, Power2(ByteBits - ByteBits)), Power2(ByteBits - none))
  BY <1>1, <1>6 DEF Good
<1>8. Power2(ByteBits - ByteBits) = 1 /\ Quo(x, 1) = x
  <2>1. x \in Int
    OBVIOUS
  <2>2. Quo(x, 1) = x
    BY <2>1, QuoRemTwo
  <2> QED
    BY <1>1, <2>2, Power2Is
<1> QED
  BY <1>1, <1>2, <1>7, <1>8 DEF byte, none

\* The value of an array of bytes, the least significant first.
LEMMA NumberIs ==
  ASSUME NEW bytes, NEW N \in Nat, Len(bytes) = N
  PROVE  \E v \in [0..N -> Nat] :
           /\ v[0] = 0 /\ Number(bytes) = v[N]
           /\ \A k \in 1..N : v[k] = v[k - 1] + ByteValue(bytes[k]) * Power2(ByteBits * (k - 1))
<1> DEFINE Part(k) == ByteValue(bytes[k]) * Power2(ByteBits * (k - 1))
           Is(v) == v = [k \in 0..Len(bytes) |-> IF k = 0 THEN 0
                           ELSE v[k - 1] + ByteValue(bytes[k]) * Power2(ByteBits * (k - 1))]
           v == CHOOSE v : Is(v)
           G == [x \in Nat \X (1..N) |-> x[1] + Part(x[2])]
<1>1. Number(bytes) = v[N]
  BY Zenon DEF Number
<1>2. ASSUME NEW k \in 1..N PROVE Part(k) \in Nat
  <2>1. ByteValue(bytes[k]) \in Nat
    <3>1. ByteBits \in 0..ByteBits
      BY ByteFacts
    <3> QED
      BY <3>1, ByteValueIs
  <2>2. ByteBits * (k - 1) \in Nat
    BY ByteFacts
  <2>3. Power2(ByteBits * (k - 1)) \in Nat
    BY <2>2, Power2Is
  <2> QED
    BY <2>1, <2>3
<1>3. \A k : Part(k) = ByteValue(bytes[k]) * Power2(ByteBits * (k - 1))
  OBVIOUS
<1> HIDE DEF Part
<1>4. G \in [Nat \X (1..N) -> Nat]
  BY <1>2
<1>5. \A x \in Nat, k \in 1..N : G[<<x, k>>] = x + Part(k)
  OBVIOUS
<1> HIDE DEF G
<1>6. PICK f : Iterates(f, Nat, 0, G, N)
  BY <1>4, IteratesExist
<1>7. f \in [0..N -> Nat] /\ f[0] = 0 /\ \A k \in 1..N : f[k] = G[<<f[k - 1], k>>]
  BY <1>6 DEF Iterates
<1>8. \A k \in 1..N : k - 1 \in 0..N /\ f[k - 1] \in Nat
  BY <1>7
<1>9. \A k \in 1..N : f[k] = f[k - 1] + Part(k)
  BY <1>5, <1>7, <1>8
<1>10. \A k \in 0..N : k = 0 \/ k \in 1..N
  OBVIOUS
<1>11. f = [k \in 0..N |-> IF k = 0 THEN 0 ELSE f[k - 1] + Part(k)]
  BY <1>7, <1>9, <1>10
<1>12. Is(f)
  BY <1>11 DEF Part
<1> HIDE DEF Is
<1>13. Is(v)
  BY <1>12
<1> HIDE DEF v
<1>14. v = [k \in 0..N |-> IF k = 0 THEN 0 ELSE v[k - 1] + Part(k)]
  BY <1>13 DEF Is, Part
<1>15. v[0] = 0 /\ \A k \in 1..N : v[k] = v[k - 1] + Part(k)
  <2>1. 0 \in 0..N /\ \A k \in 1..N : k \in 0..N /\ k # 0
    OBVIOUS
  <2> QED
    BY <1>14, <2>1
<1>16. \A k \in 0..N : v[k] \in Nat
  <2> DEFINE Good == {k \in 0..N : v[k] \in Nat}
  <2>1. 0 \in Good
    BY <1>15
  <2>2. ASSUME NEW m \in 0..(N - 1), m \in Good PROVE m + 1 \in Good
    <3>1. m + 1 \in 1..N /\ (m + 1) - 1 = m /\ m + 1 \in 0..N
      OBVIOUS
    <3>2. v[m + 1] = v[m] + Part(m + 1) /\ Part(m + 1) \in Nat
      BY <1>2, <1>15, <3>1
    <3> QED
      BY <2>2, <3>1, <3>2
  <2> HIDE DEF Good
  <2>3. \A k \in 0..N : k \in Good
    BY <2>1, <2>2, UpTo
  <2> QED
    BY <2>3 DEF Good
<1>17. v \in [0..N -> Nat]
  BY <1>14, <1>16
<1> QED
  BY <1>1, <1>15, <1>17 DEF Part

\* Bytes are a number.
LEMMA NumberTyped ==
  ASSUME NEW bytes, Len(bytes) \in Nat
  PROVE  Number(bytes) \in Nat
<1> DEFINE N == Len(bytes)
<1> HIDE DEF N
<1>1. N \in Nat /\ Len(bytes) = N /\ N \in 0..N
  BY DEF N
<1> QED
  BY <1>1, NumberIs

\* The lowest n bits of the bytes of a number.
LEMMA NumberOfLow ==
  ASSUME NEW x \in Nat, NEW n \in Nat, NEW size \in Nat, BITS_TO_BYTES(n) <= size
  PROVE  Number(Masked(Bytes(x, size), n)) = Rem(x, Power2(n))
<1> DEFINE N == BITS_TO_BYTES(n)
           all == Bytes(x, size)
           bytes == Masked(all, n)
           Done(k) == IF k * ByteBits <= n THEN k * ByteBits ELSE n
<1>1. N \in Nat /\ N <= size /\ n <= N * ByteBits /\ ByteBits \in Nat \ {0}
  BY RoundIs, ByteFacts
<1>2. \A k \in 1..size : all[k] = ByteOf(Quo(x, Power2(ByteBits * (k - 1))))
  BY DEF Bytes, Quo
<1> HIDE DEF all
<1>3. Len(bytes) = N /\ \A k \in 1..N : bytes[k] = Low(all[k], n - (k - 1) * ByteBits)
  BY <1>1 DEF Masked
<1> HIDE DEF bytes
<1>4. PICK v \in [0..N -> Nat] :
           /\ v[0] = 0 /\ Number(bytes) = v[N]
           /\ \A k \in 1..N : v[k] = v[k - 1] + ByteValue(bytes[k]) * Power2(ByteBits * (k - 1))
  BY <1>1, <1>3, NumberIs
<1> DEFINE Good == {k \in 0..N : v[k] = Rem(x, Power2(Done(k)))}
<1>5. 0 \in Good
  <2>1. Done(0) = 0 /\ x \in Int /\ 0 \in 0..N
    BY <1>1
  <2>2. Rem(x, 1) = 0
    BY <2>1, QuoRemTwo
  <2> QED
    BY <1>4, <2>1, <2>2, Power2Is
<1>6. ASSUME NEW m \in 0..(N - 1), m \in Good PROVE m + 1 \in Good
  <2> DEFINE k == m + 1
             d == m * ByteBits
             left == n - d
             l == IF left < ByteBits THEN left ELSE ByteBits
             a == Power2(d)
             b == Power2(l)
             y == Quo(x, a)
  <2>1. k \in 1..N /\ k - 1 = m /\ m \in Nat /\ k \in 0..N /\ k \in 1..size
    BY <1>1
  <2>2. n - (k - 1) * ByteBits \in Nat \ {0} /\ (k - 1) * ByteBits \in Nat
    BY <2>1, ByteOfBits
  <2>3. d \in Nat /\ left \in Nat \ {0} /\ k * ByteBits = d + ByteBits /\ ByteBits * (k - 1) = d
    BY <1>1, <2>1, <2>2
  <2> HIDE DEF k, d
  <2>4. l \in 1..ByteBits /\ Done(m) = d /\ Done(k) = d + l
    BY <1>1, <2>3 DEF d
  <2>5. l \in Nat
    BY <1>1, <2>4
  <2> HIDE DEF Done
  <2>6. a \in Nat \ {0} /\ b \in Nat \ {0} /\ Power2(d + l) = a * b
    BY <2>3, <2>5, Power2Is, Power2Sum
  <2>7. x \in Int
    OBVIOUS
  <2> HIDE DEF a
  <2>8. y \in Int
    BY <2>6, <2>7, QuoRem
  <2>9. bytes[k] = {i \in ByteOf(y) : i >= ByteBits - l}
    <3>1. bytes[k] = Low(ByteOf(y), left)
      <4>1. bytes[k] = Low(all[k], n - (k - 1) * ByteBits) /\ all[k] = ByteOf(Quo(x, Power2(ByteBits * (k - 1))))
        BY <1>2, <1>3, <2>1
      <4>2. (k - 1) * ByteBits = d
        BY <2>1 DEF d
      <4> QED
        BY <2>3, <4>1, <4>2 DEF a
    <3>2. CASE left < ByteBits
      BY <3>1, <3>2 DEF Low
    <3>3. CASE ~ left < ByteBits
      <4>1. \A i \in ByteOf(y) : i \in 0..(ByteBits - 1)
        BY DEF ByteOf, Offsets
      <4>2. \A i \in ByteOf(y) : i >= ByteBits - ByteBits
        BY <1>1, <4>1
      <4>3. bytes[k] = ByteOf(y) /\ l = ByteBits
        BY <3>1, <3>3 DEF Low
      <4> HIDE DEF l, y
      <4> QED
        BY <4>2, <4>3
    <3> QED
      BY <3>2, <3>3
  <2> HIDE DEF l, y, b, left
  <2>10. ByteValue(bytes[k]) = Rem(y, b)
    BY <2>4, <2>8, <2>9, ByteOfValue DEF b
  <2>11. v[m] = Rem(x, a)
    BY <1>6, <2>4 DEF a
  <2>12. v[k] = Rem(x, a) + Rem(y, b) * a
    BY <1>4, <2>1, <2>3, <2>10, <2>11 DEF a
  <2>13. Rem(x, a * b) = Rem(x, a) + Rem(y, b) * a
    BY <2>6, <2>7, QuoTimes DEF y
  <2>14. v[k] = Rem(x, Power2(Done(k)))
    BY <2>4, <2>6, <2>12, <2>13
  <2> QED
    BY <2>1, <2>14 DEF k
<1>7. Done(N) = n /\ N \in 0..N
  BY <1>1
<1> HIDE DEF Good, Done, N
<1>8. \A k \in 0..N : k \in Good
  BY <1>1, <1>5, <1>6, UpTo
<1>9. v[N] = Rem(x, Power2(Done(N)))
  BY <1>7, <1>8 DEF Good
<1> QED
  BY <1>4, <1>7, <1>9 DEF bytes, all

\* A number that fits is its lowest bits.
LEMMA RemSmall ==
  ASSUME NEW x \in Nat, NEW d \in Nat \ {0}, x < d
  PROVE  Rem(x, d) = x
BY ModSmall DEF Rem

-----------------------------------------------------------------------------
(* What a writer and its reader do together.                                 *)

\* t has what s has and more, and is as clean.
Follows(s, t) ==
  /\ Fits(t) /\ t.readable = s.readable /\ s.writable <= t.writable
  /\ \A p \in 0..(s.writable - 1) : p \in t.data <=> p \in s.data
  /\ Clean(s) => Clean(t)

MoveTo(s, p) == [s EXCEPT !.readable = p]

\* A reader of what was written between s and t.
Reader(r, s, t) ==
  /\ r \in Stream /\ r.readable = s.writable /\ t.writable <= r.writable
  /\ Same(r, t, s.writable, t.writable)

\* It reads v, and is at the end of t then.
Result(g, v, r, t) == g.value = v /\ g.stream = MoveTo(r, t.writable)

\* The parts of a stream that fits.
LEMMA FitsIs ==
  ASSUME NEW s, Fits(s)
  PROVE  s \in Stream /\ s.writable \in Nat /\ s.readable \in Nat /\ s.allocated \in Nat
         /\ s.data \in SUBSET Nat
<1>1. s \in Stream
  BY DEF Fits
<1> QED
  BY <1>1, StreamIs

\* What appends bits follows.
LEMMA AppendsFollows ==
  ASSUME NEW s, Fits(s), NEW n \in Nat, NEW t, NEW ones, Appends(s, t, n, ones), ones \subseteq 0..(n - 1)
  PROVE  Follows(s, t) /\ t.writable = s.writable + n
<1>1. Extends(s, t, n) /\ (Clean(s) => Clean(t))
  BY DEF Appends
<1>2. s.writable \in Nat
  BY FitsIs
<1> QED
  BY <1>1, <1>2 DEF Extends, Follows

\* A writer may follow a writer,
LEMMA FollowsBoth ==
  ASSUME NEW s, Fits(s), NEW u, Follows(s, u), NEW t, Follows(u, t)
  PROVE  Follows(s, t)
<1>1. Fits(u) /\ Fits(t)
  BY DEF Follows
<1>2. s.writable \in Nat /\ u.writable \in Nat /\ t.writable \in Nat
      /\ s.writable <= u.writable /\ u.writable <= t.writable
  BY <1>1, FitsIs DEF Follows
<1>3. \A p \in 0..(s.writable - 1) : p \in 0..(u.writable - 1)
  BY <1>2
<1> QED
  BY <1>2, <1>3 DEF Follows

\* or write nothing.
LEMMA FollowsItself ==
  ASSUME NEW s, Fits(s)
  PROVE  Follows(s, s)
BY FitsIs DEF Follows

\* A reader of what two writers wrote reads what the first wrote, then what the second did.
LEMMA ReaderSplits ==
  ASSUME NEW s, Fits(s), NEW u, Follows(s, u), NEW t, Follows(u, t), NEW r, Reader(r, s, t)
  PROVE  /\ Reader(r, s, u) /\ Reader(MoveTo(r, u.writable), u, t)
         /\ \A p : MoveTo(MoveTo(r, u.writable), p) = MoveTo(r, p)
<1>1. Fits(u) /\ Fits(t)
  BY DEF Follows
<1>2. s.writable \in Nat /\ u.writable \in Nat /\ t.writable \in Nat
      /\ s.writable <= u.writable /\ u.writable <= t.writable
  BY <1>1, FitsIs DEF Follows
<1>3. r \in Stream /\ r.writable \in Nat /\ r.readable = s.writable /\ t.writable <= r.writable
  BY StreamIs DEF Reader
<1>4. /\ MoveTo(r, u.writable) \in Stream /\ MoveTo(r, u.writable).readable = u.writable
      /\ MoveTo(r, u.writable).writable = r.writable /\ MoveTo(r, u.writable).data = r.data
      /\ \A p : MoveTo(MoveTo(r, u.writable), p) = MoveTo(r, p)
  BY <1>2, <1>3 DEF MoveTo, Stream
<1>5. Same(r, u, s.writable, u.writable)
  <2>1. \A q \in s.writable..(u.writable - 1) : q \in s.writable..(t.writable - 1) /\ q \in 0..(u.writable - 1)
    BY <1>2
  <2>2. \A q \in 0..(u.writable - 1) : q \in t.data <=> q \in u.data
    BY DEF Follows
  <2>3. \A q \in s.writable..(t.writable - 1) : q \in r.data <=> q \in t.data
    BY DEF Reader, Same
  <2> QED
    BY <2>1, <2>2, <2>3 DEF Same
<1>6. Same(MoveTo(r, u.writable), t, u.writable, t.writable)
  <2>1. \A q \in u.writable..(t.writable - 1) : q \in s.writable..(t.writable - 1)
    BY <1>2
  <2>2. \A q \in s.writable..(t.writable - 1) : q \in r.data <=> q \in t.data
    BY DEF Reader, Same
  <2> QED
    BY <1>4, <2>1, <2>2 DEF Same
<1>7. u.writable <= r.writable
  BY <1>2, <1>3
<1> QED
  BY <1>3, <1>4, <1>5, <1>6, <1>7 DEF Reader

\* Where a reader is, after it.
LEMMA ReaderIs ==
  ASSUME NEW s, Fits(s), NEW t, NEW n \in Nat, t.writable = s.writable + n, NEW r, Reader(r, s, t)
  PROVE  /\ r \in Stream /\ r.readable = s.writable /\ r.readable \in Nat
         /\ Skip(r, n) = MoveTo(r, t.writable)
<1>1. r.readable = s.writable /\ r \in Stream /\ s.writable \in Nat
  BY FitsIs DEF Reader
<1> QED
  BY <1>1 DEF Skip, MoveTo

-----------------------------------------------------------------------------
(* Single bits, and runs of them.                                            *)

\* A bit is written after what is there,
LEMMA BitFollows ==
  ASSUME NEW s, Fits(s), NEW bit
  PROVE  /\ Follows(s, PutBit(s, bit)) /\ PutBit(s, bit).writable = s.writable + 1
         /\ PutBit(s, bit).writable <= PutBit(s, bit).allocated
<1>1. Writes(s, PutBit(s, bit), 1, BitByte(bit))
  BY PutBitIs
<1>2. BitByte(bit) \subseteq 0..(1 - 1)
  BY DEF BitByte
<1> QED
  BY <1>1, <1>2, AppendsFollows DEF Writes

\* and read as it was written.
LEMMA BitRead ==
  ASSUME NEW s, Fits(s), Clean(s), NEW bit \in {0, 1}, NEW r, Reader(r, s, PutBit(s, bit))
  PROVE  /\ BitAt(r, r.readable) = bit /\ GetBit(r).value = bit
         /\ Skip(r, 1) = MoveTo(r, PutBit(s, bit).writable)
         /\ GetBit(r).stream = MoveTo(r, PutBit(s, bit).writable)
<1> DEFINE t == PutBit(s, bit)
<1>1. Appends(s, t, 1, BitByte(bit)) /\ t.writable = s.writable + 1
  BY PutBitIs, BitFollows DEF Writes
<1> HIDE DEF t
<1>2. s.writable \in Nat
  BY FitsIs
<1>3. s.writable + 0 \in t.data <=> 0 \in BitByte(bit)
  <2>1. 0 \in 0..(1 - 1)
    OBVIOUS
  <2> QED
    BY <1>1, <2>1 DEF Appends
<1>4. s.writable \in t.data <=> bit = 1
  BY <1>2, <1>3 DEF BitByte
<1>5. s.writable \in r.data <=> s.writable \in t.data
  <2>1. s.writable \in s.writable..(t.writable - 1)
    BY <1>1, <1>2
  <2> QED
    BY <2>1 DEF Reader, Same, t
<1>6. r.readable = s.writable /\ Skip(r, 1) = MoveTo(r, t.writable)
  BY <1>1, ReaderIs DEF t
<1> QED
  BY <1>4, <1>5, <1>6 DEF BitAt, GetBit, t

\* So is a run of bits,
LEMMA BitsFollow ==
  ASSUME NEW s, Fits(s), NEW n \in Nat, NEW src, Source(src, n)
  PROVE  /\ Follows(s, PutBits(s, src, n, TRUE)) /\ PutBits(s, src, n, TRUE).writable = s.writable + n
         /\ PutBits(s, src, n, TRUE).writable <= PutBits(s, src, n, TRUE).allocated
<1>1. Writes(s, PutBits(s, src, n, TRUE), n, OnesOf(src, n, TRUE))
  BY PutBitsIs
<1>2. OnesOf(src, n, TRUE) \subseteq 0..(n - 1)
  BY OnesIn
<1> QED
  BY <1>1, <1>2, AppendsFollows DEF Writes

\* and it is read as the bytes that it was written from, without their other bits.
LEMMA BitsRead ==
  ASSUME NEW s, Fits(s), Clean(s), NEW n \in Nat, NEW src, Source(src, n),
         NEW r, Reader(r, s, PutBits(s, src, n, TRUE))
  PROVE  /\ GetBits(r, n, TRUE) = Masked(src, n)
         /\ Skip(r, n) = MoveTo(r, PutBits(s, src, n, TRUE).writable)
<1> DEFINE t == PutBits(s, src, n, TRUE)
<1>1. Appends(s, t, n, OnesOf(src, n, TRUE)) /\ t.writable = s.writable + n
  BY PutBitsIs, BitsFollow DEF Writes
<1>2. Reader(r, s, t)
  OBVIOUS
<1> HIDE DEF t
<1>3. r.readable = s.writable /\ Same(r, t, s.writable, t.writable)
  BY <1>2 DEF Reader
<1>4. GetBits(r, n, TRUE) = Masked(src, n)
  BY <1>1, <1>3, BitsRoundTrip
<1>5. Skip(r, n) = MoveTo(r, t.writable)
  BY <1>1, <1>2, ReaderIs
<1> QED
  BY <1>4, <1>5 DEF t

-----------------------------------------------------------------------------
(* Integers.                                                                 *)

\* A writer's stream is in its memory, after what was written.
Kept(s, t) == Follows(s, t) /\ t.writable <= t.allocated

\* The bytes of a value, in both orders.
LEMMA BytesAre ==
  ASSUME NEW v, NEW size \in Nat
  PROVE  /\ Bytes(v, size) \in [1..size -> SUBSET Offsets] /\ Len(Bytes(v, size)) = size
         /\ Reverse(Bytes(v, size)) \in [1..size -> SUBSET Offsets]
         /\ Len(Reverse(Bytes(v, size))) = size
         /\ Reverse(Reverse(Bytes(v, size))) = Bytes(v, size)
<1> DEFINE all == Bytes(v, size)
           rev == Reverse(all)
<1>1. all \in [1..size -> SUBSET Offsets]
  BY DEF Bytes, ByteOf
<1> HIDE DEF all
<1>2. Len(all) = size
  BY <1>1
<1>3. rev = [i \in 1..size |-> all[(size - i) + 1]]
  BY <1>2 DEF Reverse
<1> HIDE DEF rev
<1>4. \A i \in 1..size : (size - i) + 1 \in 1..size /\ (size - ((size - i) + 1)) + 1 = i
  OBVIOUS
<1>5. rev \in [1..size -> SUBSET Offsets]
  BY <1>1, <1>3, <1>4
<1>6. Len(rev) = size
  BY <1>5
<1>7. Reverse(rev) = [i \in 1..size |-> rev[(size - i) + 1]]
  BY <1>6 DEF Reverse
<1>8. Reverse(rev) = all
  BY <1>1, <1>3, <1>4, <1>7
<1> QED
  BY <1>1, <1>2, <1>5, <1>6, <1>8 DEF rev, all

\* An array of enough bytes can be written from.
LEMMA SourceIs ==
  ASSUME NEW size \in Nat, NEW src \in [1..size -> SUBSET Offsets], NEW n \in Nat, BITS_TO_BYTES(n) <= size
  PROVE  Source(src, n)
<1>1. BITS_TO_BYTES(n) \in Nat
  BY RoundIs
<1> QED
  BY <1>1 DEF Source

\* Whole bytes are read as they are.
LEMMA MaskedWhole ==
  ASSUME NEW size \in Nat, NEW src \in [1..size -> SUBSET Offsets]
  PROVE  size * ByteBits \in Nat /\ BITS_TO_BYTES(size * ByteBits) = size
         /\ Source(src, size * ByteBits) /\ Masked(src, size * ByteBits) = src
<1> DEFINE n == size * ByteBits
<1>1. n \in Nat /\ BITS_TO_BYTES(n) = size
  BY WholeBytes, ByteFacts
<1>2. \A k \in 1..size : ~ n - (k - 1) * ByteBits < ByteBits
  <2> SUFFICES ASSUME NEW k \in 1..size PROVE ~ n - (k - 1) * ByteBits < ByteBits
    OBVIOUS
  <2>1. k * ByteBits <= n
    BY ByteFacts, TimesMonotone
  <2>2. k * ByteBits = (k - 1) * ByteBits + ByteBits /\ (k - 1) * ByteBits \in Nat
    BY ByteFacts
  <2> HIDE DEF n
  <2> QED
    BY <1>1, <2>1, <2>2, ByteFacts
<1> HIDE DEF n
<1>3. Source(src, n)
  BY <1>1, SourceIs
<1>4. Masked(src, n) = [k \in 1..size |-> Low(src[k], n - (k - 1) * ByteBits)]
  BY <1>1 DEF Masked
<1>5. \A k \in 1..size : Low(src[k], n - (k - 1) * ByteBits) = src[k]
  BY <1>2 DEF Low
<1>6. Masked(src, n) = src
  BY <1>4, <1>5
<1> QED
  BY <1>1, <1>3, <1>6 DEF n

\* A number that its type has.
LEMMA NumberOfBytes ==
  ASSUME NEW size \in Nat, NEW v \in Nat, v < Power2(size * ByteBits)
  PROVE  Number(Bytes(v, size)) = v
<1>1. /\ size * ByteBits \in Nat /\ BITS_TO_BYTES(size * ByteBits) <= size
      /\ Masked(Bytes(v, size), size * ByteBits) = Bytes(v, size)
  BY BytesAre, MaskedWhole
<1> DEFINE n == size * ByteBits
<1> HIDE DEF n
<1>2. n \in Nat /\ BITS_TO_BYTES(n) <= size /\ Masked(Bytes(v, size), n) = Bytes(v, size) /\ v < Power2(n)
  BY <1>1 DEF n
<1>3. Number(Bytes(v, size)) = Rem(v, Power2(n))
  BY <1>2, NumberOfLow
<1>4. Power2(n) \in Nat \ {0}
  BY <1>2, Power2Is
<1> QED
  BY <1>2, <1>3, <1>4, RemSmall

\* Write(T) appends the bytes of the integer,
LEMMA IntFollows ==
  ASSUME NEW s, Fits(s), NEW v, NEW size \in Nat
  PROVE  Kept(s, PutInt(s, v, size)) /\ PutInt(s, v, size).writable = s.writable + size * ByteBits
<1> DEFINE src == Reverse(Bytes(v, size))
           n == size * ByteBits
<1>1. n \in Nat /\ Source(src, n)
  BY BytesAre, MaskedWhole
<1>2. PutInt(s, v, size) = PutBits(s, src, n, TRUE)
  BY DEF PutInt
<1> HIDE DEF src, n
<1>3. /\ Follows(s, PutBits(s, src, n, TRUE)) /\ PutBits(s, src, n, TRUE).writable = s.writable + n
      /\ PutBits(s, src, n, TRUE).writable <= PutBits(s, src, n, TRUE).allocated
  BY <1>1, BitsFollow
<1> QED
  BY <1>2, <1>3 DEF Kept, n

\* and Read(T) gets it from them.
LEMMA IntRead ==
  ASSUME NEW s, Fits(s), Clean(s), NEW size \in Nat, NEW v \in Nat, v < Power2(size * ByteBits),
         NEW r, Reader(r, s, PutInt(s, v, size))
  PROVE  Result(GetInt(r, size), v, r, PutInt(s, v, size))
<1> DEFINE src == Reverse(Bytes(v, size))
           n == size * ByteBits
           t == PutInt(s, v, size)
<1>1. n \in Nat /\ Source(src, n) /\ Masked(src, n) = src
  BY BytesAre, MaskedWhole
<1>2. t = PutBits(s, src, n, TRUE)
  BY DEF PutInt
<1>3. Reader(r, s, t)
  OBVIOUS
<1>4. Reverse(src) = Bytes(v, size)
  BY BytesAre
<1>5. GetInt(r, size) = [value |-> Number(Reverse(GetBits(r, n, TRUE))), stream |-> Skip(r, n)]
  BY DEF GetInt
<1> HIDE DEF src, n, t
<1>6. GetBits(r, n, TRUE) = src /\ Skip(r, n) = MoveTo(r, t.writable)
  <2>1. Reader(r, s, PutBits(s, src, n, TRUE))
    BY <1>2, <1>3
  <2> QED
    BY <1>1, <1>2, <2>1, BitsRead
<1>7. Number(Bytes(v, size)) = v
  BY NumberOfBytes
<1>8. GetInt(r, size) = [value |-> v, stream |-> MoveTo(r, t.writable)]
  BY <1>4, <1>5, <1>6, <1>7
<1>9. Result(GetInt(r, size), v, r, t)
  BY <1>8 DEF Result
<1> QED
  BY <1>9 DEF t

-----------------------------------------------------------------------------
(* Aligned, and only if changed.                                             *)

\* write_one_aligned_byte() and its like skip to a byte, and write there,
LEMMA AlignedFollows ==
  ASSUME NEW s, Fits(s), NEW v, NEW size \in Nat
  PROVE  /\ Follows(s, AlignWritable(s)) /\ AlignWritable(s).writable = RoundUp(s.writable)
         /\ Kept(AlignWritable(s), PutAligned(s, v, size)) /\ Kept(s, PutAligned(s, v, size))
<1> DEFINE a == AlignWritable(s)
           t == PutAligned(s, v, size)
           n == RoundUp(s.writable) - s.writable
<1>1. n \in Nat /\ Appends(s, a, n, {}) /\ a.writable = RoundUp(s.writable)
  BY AlignIs
<1>2. t = PutInt(a, v, size)
  BY DEF PutAligned
<1> HIDE DEF a, t, n
<1>3. Follows(s, a)
  BY <1>1, AppendsFollows
<1>4. Fits(a)
  BY <1>3 DEF Follows
<1>5. Kept(a, t)
  BY <1>2, <1>4, IntFollows
<1>6. Kept(s, t)
  BY <1>3, <1>5, FollowsBoth DEF Kept
<1> QED
  BY <1>1, <1>3, <1>5, <1>6 DEF a, t

\* and what it wrote is read behind the same skip.
LEMMA AlignedRead ==
  ASSUME NEW s, Fits(s), Clean(s), NEW size \in Nat, NEW v \in Nat, v < Power2(size * ByteBits),
         NEW r, Reader(r, s, PutAligned(s, v, size))
  PROVE  Result(GetAligned(r, size), v, r, PutAligned(s, v, size))
<1> DEFINE a == AlignWritable(s)
           t == PutAligned(s, v, size)
           q == MoveTo(r, a.writable)
<1>1. Follows(s, a) /\ a.writable = RoundUp(s.writable) /\ Follows(a, t)
  BY AlignedFollows DEF Kept
<1>2. t = PutInt(a, v, size) /\ Reader(r, s, t)
  BY DEF PutAligned
<1>3. r.readable = s.writable /\ r \in Stream
  BY DEF Reader
<1>4. GetAligned(r, size) = GetInt(q, size)
  BY <1>1, <1>3 DEF GetAligned, AlignReadable, MoveTo
<1> HIDE DEF a, t, q
<1>5. Reader(q, a, t) /\ \A p : MoveTo(q, p) = MoveTo(r, p)
  BY <1>1, <1>2, ReaderSplits DEF q
<1>6. Fits(a) /\ Clean(a)
  BY <1>1 DEF Follows
<1>7. Result(GetInt(q, size), v, q, t)
  BY <1>2, <1>5, <1>6, IntRead
<1> QED
  BY <1>4, <1>5, <1>7 DEF Result, t

\* WriteChangedValue() appends a bit, and the integer if it is not the last one,
LEMMA ChangedFollows ==
  ASSUME NEW s, Fits(s), NEW v, NEW old, NEW size \in Nat
  PROVE  Kept(s, PutChanged(s, v, old, size))
<1>1. CASE v = old
  BY <1>1, BitFollows DEF PutChanged, Kept
<1>2. CASE v # old
  <2> DEFINE u == PutBit(s, 1)
  <2>1. PutChanged(s, v, old, size) = PutInt(u, v, size)
    BY <1>2 DEF PutChanged
  <2>2. Follows(s, u) /\ Fits(u)
    BY BitFollows DEF Follows
  <2> HIDE DEF u
  <2>3. Kept(u, PutInt(u, v, size))
    BY <2>2, IntFollows
  <2> QED
    BY <2>1, <2>2, <2>3, FollowsBoth DEF Kept
<1> QED
  BY <1>1, <1>2

\* and a reader who has the last one gets the integer.
LEMMA ChangedRead ==
  ASSUME NEW s, Fits(s), Clean(s), NEW size \in Nat, NEW v \in Nat, NEW old, v < Power2(size * ByteBits),
         NEW r, Reader(r, s, PutChanged(s, v, old, size))
  PROVE  Result(GetChanged(r, old, size), v, r, PutChanged(s, v, old, size))
<1>1. CASE v = old
  <2>1. Reader(r, s, PutBit(s, 0)) /\ PutChanged(s, v, old, size) = PutBit(s, 0)
    BY <1>1 DEF PutChanged
  <2>2. GetBit(r).value = 0 /\ Skip(r, 1) = MoveTo(r, PutBit(s, 0).writable)
    BY <2>1, BitRead
  <2> QED
    BY <1>1, <2>1, <2>2 DEF GetChanged, Result
<1>2. CASE v # old
  <2> DEFINE u == PutBit(s, 1)
             t == PutInt(u, v, size)
             q == MoveTo(r, u.writable)
  <2>1. PutChanged(s, v, old, size) = t /\ Reader(r, s, t)
    BY <1>2 DEF PutChanged
  <2>2. Follows(s, u) /\ Fits(u) /\ Clean(u)
    BY BitFollows DEF Follows
  <2>3. Follows(u, t)
    BY <2>2, IntFollows DEF Kept
  <2>4. Reader(r, s, u) /\ Reader(q, u, t) /\ \A p : MoveTo(q, p) = MoveTo(r, p)
    <3> HIDE DEF u, t
    <3> QED
      BY <2>1, <2>2, <2>3, ReaderSplits
  <2>5. GetBit(r).value = 1 /\ Skip(r, 1) = q
    BY <2>4, BitRead
  <2>6. GetChanged(r, old, size) = GetInt(q, size)
    BY <2>5 DEF GetChanged
  <2> HIDE DEF q, u
  <2>7. Result(GetInt(q, size), v, q, t)
    BY <2>2, <2>4, IntRead
  <2> QED
    BY <2>1, <2>4, <2>6, <2>7 DEF Result
<1> QED
  BY <1>1, <1>2

-----------------------------------------------------------------------------
(* Short integers.                                                           *)

\* The greatest of some numbers up to n.
LEMMA MaxIs ==
  ASSUME NEW n \in Nat, NEW S \in SUBSET (0..n), S # {}
  PROVE  Max(S) \in S /\ \A y \in S : y <= Max(S)
<1> DEFINE T == {n - y : y \in S}
<1>1. T \in SUBSET Nat /\ T # {}
  OBVIOUS
<1>2. \A y \in S : n - y \in T
  OBVIOUS
<1>3. \A z \in T : \E y \in S : z = n - y
  OBVIOUS
<1> HIDE DEF T
<1>4. PICK m \in T : \A z \in T : m <= z
  BY <1>1, LeastNat
<1>5. PICK x \in S : m = n - x
  BY <1>3
<1>6. \A y \in S : x >= y
  <2> SUFFICES ASSUME NEW y \in S PROVE x >= y
    OBVIOUS
  <2>1. n - x <= n - y /\ x \in Nat /\ y \in Nat
    BY <1>2, <1>4, <1>5
  <2> QED
    BY <2>1
<1>7. Max(S) \in S /\ \A y \in S : Max(S) >= y
  BY <1>6 DEF Max
<1> QED
  BY <1>7

\* The first bytes of an array.
LEMMA MaskedFirst ==
  ASSUME NEW size \in Nat, NEW src \in [1..size -> SUBSET Offsets], NEW m \in 0..size
  PROVE  /\ m * ByteBits \in Nat /\ Source(src, m * ByteBits)
         /\ Masked(src, m * ByteBits) = [k \in 1..m |-> src[k]]
<1> DEFINE n == m * ByteBits
           first == [k \in 1..m |-> src[k]]
<1>1. m \in Nat /\ first \in [1..m -> SUBSET Offsets]
  OBVIOUS
<1>2. \A k \in 1..m : first[k] = src[k]
  OBVIOUS
<1> HIDE DEF first
<1>3. n \in Nat /\ BITS_TO_BYTES(n) = m /\ Masked(first, n) = first
  BY <1>1, MaskedWhole
<1> HIDE DEF n
<1>4. Source(src, n)
  BY <1>1, <1>3, SourceIs
<1>5. Masked(src, n) = Masked(first, n)
  BY <1>2, <1>3 DEF Masked
<1> QED
  BY <1>3, <1>4, <1>5 DEF n, first

Array(n, S) == [1..n -> S]
Parts(c, a, m, b, n) == (\A k \in 1..m : c[k] = a[k]) /\ (\A k \in 1..n : c[m + k] = b[k])

\* Two arrays of bytes are one.
LEMMA ConcatIs ==
  ASSUME NEW S, NEW m \in Nat, NEW n \in Nat, NEW a \in Array(m, S), NEW b \in Array(n, S),
         NEW i, i = m + n, NEW c \in Array(i, S), Parts(c, a, m, b, n)
  PROVE  a \o b = c
<1>0. a \in [1..m -> S] /\ b \in [1..n -> S] /\ c \in [1..(m + n) -> S]
  BY DEF Array
<1>1. a \in Seq(S) /\ b \in Seq(S) /\ Len(a) = m /\ Len(b) = n
  BY <1>0
<1>2. c \in Seq(S) /\ Len(c) = m + n
  BY <1>0
<1>3. Len(a \o b) = m + n /\ a \o b \in Seq(S)
  BY <1>1
<1>4. \A j \in 1..(m + n) : (a \o b)[j] = IF j <= m THEN a[j] ELSE b[j - m]
  <2>1. \A j \in 1..(Len(a) + Len(b)) : (a \o b)[j] = IF j <= Len(a) THEN a[j] ELSE b[j - Len(a)]
    BY <1>1, ConcatProperties
  <2>2. Len(a) = m /\ Len(b) = n
    BY <1>1
  <2> QED
    BY <2>1, <2>2
<1>5. \A j \in 1..(m + n) : (a \o b)[j] = c[j]
  <2> SUFFICES ASSUME NEW j \in 1..(m + n) PROVE (a \o b)[j] = c[j]
    OBVIOUS
  <2>1. CASE j <= m
    <3>1. j \in 1..m
      BY <2>1
    <3>2. c[j] = a[j]
      BY <3>1 DEF Parts
    <3>3. (a \o b)[j] = a[j]
      BY <1>4, <2>1
    <3> QED
      BY <3>2, <3>3
  <2>2. CASE ~ j <= m
    <3>1. j - m \in 1..n /\ m + (j - m) = j
      BY <2>2
    <3>2. c[j] = b[j - m]
      BY <3>1 DEF Parts
    <3> QED
      BY <1>4, <2>2, <3>2
  <2> QED
    BY <2>1, <2>2
<1> QED
  BY <1>2, <1>3, <1>5, SeqEqual

\* The parts of a short integer.
Top(v, size, unsigned) == Max({1} \cup {k \in 2..size : Bytes(v, size)[k] # Match(unsigned)})
Start(s, v, size, unsigned) == PutZeros(s, size - Top(v, size, unsigned))
Short(v, size, unsigned) == Top(v, size, unsigned) = 1 /\ Bytes(v, size)[1] \cap Upper \in {{}, Upper}
Flag(v, size, unsigned) == IF Short(v, size, unsigned) THEN 0 ELSE 1
Width(v, size, unsigned) == IF Short(v, size, unsigned) THEN Half ELSE Top(v, size, unsigned) * ByteBits
Flagged(s, v, size, unsigned) == PutBit(Start(s, v, size, unsigned), Flag(v, size, unsigned))

\* The bytes above the one that WriteMini() stops at are those that need not be written.
LEMMA TopIs ==
  ASSUME NEW v, NEW size \in Nat \ {0}, NEW unsigned \in BOOLEAN
  PROVE  /\ Top(v, size, unsigned) \in 1..size
         /\ \A k \in 2..size : k > Top(v, size, unsigned) => Bytes(v, size)[k] = Match(unsigned)
         /\ (\A k \in 2..size : Bytes(v, size)[k] = Match(unsigned)) => Top(v, size, unsigned) = 1
<1> DEFINE bytes == Bytes(v, size)
           S == {1} \cup {k \in 2..size : bytes[k] # Match(unsigned)}
<1>1. S \in SUBSET (0..size) /\ S # {} /\ S \in SUBSET (1..size)
  OBVIOUS
<1>2. \A k \in 2..size : bytes[k] # Match(unsigned) => k \in S
  OBVIOUS
<1>3. (\A k \in 2..size : bytes[k] = Match(unsigned)) => S = {1}
  OBVIOUS
<1>4. Top(v, size, unsigned) = Max(S)
  BY DEF Top
<1> HIDE DEF S, bytes
<1>5. Max(S) \in S /\ \A y \in S : y <= Max(S)
  BY <1>1, MaxIs
<1> DEFINE top == Max(S)
<1> HIDE DEF top
<1>6. top \in S /\ \A y \in S : y <= top
  BY <1>5 DEF top
<1>7. top \in 1..size
  BY <1>1, <1>6
<1>8. ASSUME NEW k \in 2..size, k > top PROVE bytes[k] = Match(unsigned)
  BY <1>2, <1>6, <1>7, <1>8
<1> QED
  BY <1>3, <1>4, <1>6, <1>7, <1>8 DEF top, bytes

\* Bits that are right aligned on both ends.
PutRight(s, src, n) == PutBits(s, src, n, TRUE)
GetRight(s, n) == GetBits(s, n, TRUE)

\* BitsRead, for PutRight and GetRight.
LEMMA RightRead ==
  ASSUME NEW s, Fits(s), Clean(s), NEW n \in Nat, NEW src, Source(src, n),
         NEW r, NEW t, t = PutRight(s, src, n), Reader(r, s, t)
  PROVE  GetRight(r, n) = Masked(src, n) /\ Skip(r, n) = MoveTo(r, t.writable)
BY BitsRead DEF PutRight, GetRight

\* WriteMini() in its parts: a zero bit for each byte that is left out, the flag, the rest.
LEMMA MiniIs ==
  ASSUME NEW s, Fits(s), NEW v, NEW size \in Nat \ {0}, NEW unsigned \in BOOLEAN,
         NEW n, n = Width(v, size, unsigned), NEW u, u = Flagged(s, v, size, unsigned),
         NEW a, a = Start(s, v, size, unsigned), NEW top, top = Top(v, size, unsigned)
  PROVE  /\ PutMini(s, v, size, unsigned) = PutRight(u, Bytes(v, size), n)
         /\ n \in Nat /\ Source(Bytes(v, size), n)
         /\ Follows(s, a) /\ a.writable = s.writable + (size - top) /\ Appends(s, a, size - top, {})
         /\ u = PutBit(a, Flag(v, size, unsigned))
         /\ Follows(a, u) /\ u.writable = a.writable + 1 /\ Follows(s, u)
         /\ Kept(u, PutMini(s, v, size, unsigned))
<1>1. top \in 1..size /\ top \in 0..size /\ size - top \in Nat
  <2>1. top \in 1..size
    BY TopIs
  <2> QED
    BY <2>1
<1>2. PutMini(s, v, size, unsigned) = PutBits(u, Bytes(v, size), n, TRUE)
  BY DEF PutMini, Width, Flagged, Start, Flag, Short, Top
<1>3. n \in Nat /\ Source(Bytes(v, size), n)
  <2>1. Bytes(v, size) \in [1..size -> SUBSET Offsets] /\ size \in Nat
    BY BytesAre
  <2>2. CASE n = Half
    <3>1. BITS_TO_BYTES(Half) = 1 /\ 1 <= size /\ Half \in Nat
      BY BufferAssumption DEF BITS_TO_BYTES, Half
    <3>2. Source(Bytes(v, size), Half)
      BY <2>1, <3>1, SourceIs
    <3> QED
      BY <2>2, <3>1, <3>2
  <2>3. CASE n = top * ByteBits
    <3> DEFINE src == Bytes(v, size)
    <3>1. src \in [1..size -> SUBSET Offsets] /\ size \in Nat
      BY <2>1
    <3> HIDE DEF src
    <3>2. top * ByteBits \in Nat /\ Source(src, top * ByteBits)
      BY <1>1, <3>1, MaskedFirst
    <3>3. n \in Nat /\ Source(src, n)
      BY <2>3, <3>2
    <3> QED
      BY <3>3 DEF src
  <2>4. n = Half \/ n = top * ByteBits
    BY DEF Width
  <2> QED
    BY <2>2, <2>3, <2>4
<1>4. Appends(s, a, size - top, {})
  BY <1>1, PutZerosIs DEF Start
<1>5. Follows(s, a) /\ a.writable = s.writable + (size - top)
  BY <1>1, <1>4, AppendsFollows
<1>6. Fits(a) /\ u = PutBit(a, Flag(v, size, unsigned))
  BY <1>5 DEF Follows, Flagged
<1>7. Follows(a, u) /\ u.writable = a.writable + 1
  BY <1>6, BitFollows
<1>8. Fits(u) /\ Follows(s, u)
  BY <1>5, <1>7, FollowsBoth DEF Follows
<1>9. Kept(u, PutMini(s, v, size, unsigned))
  BY <1>2, <1>3, <1>8, BitsFollow DEF Kept
<1> QED
  BY <1>2, <1>3, <1>4, <1>5, <1>6, <1>7, <1>8, <1>9 DEF PutRight

\* WriteMini() follows,
LEMMA MiniFollows ==
  ASSUME NEW s, Fits(s), NEW v, NEW size \in Nat \ {0}, NEW unsigned \in BOOLEAN
  PROVE  Kept(s, PutMini(s, v, size, unsigned))
<1> DEFINE u == Flagged(s, v, size, unsigned)
           t == PutMini(s, v, size, unsigned)
<1>1. Follows(s, u) /\ Kept(u, t)
  BY MiniIs
<1> HIDE DEF u, t
<1>2. Kept(s, t)
  BY <1>1, FollowsBoth DEF Kept
<1> QED
  BY <1>2 DEF t

\* What ReadMini() makes of what it reads.
Half1(bytes, unsigned) == <<bytes[1] \cup (Match(unsigned) \cap Upper)>>
Extended(low, size, unsigned) == low \o [k \in 1..(size - Len(low)) |-> Match(unsigned)]
LowBytes(bytes, bit, unsigned) == IF bit = 1 THEN bytes ELSE Half1(bytes, unsigned)

\* The byte that a left-out byte is, and the half of one.
LEMMA MatchIs ==
  ASSUME NEW unsigned \in BOOLEAN
  PROVE  Match(unsigned) \in SUBSET Offsets /\ Upper \in SUBSET Offsets
         /\ \A i \in Offsets : i \in Upper <=> ~ i >= ByteBits - Half
<1>1. Half \in Nat /\ ByteBits = 2 * Half /\ Half - 1 <= ByteBits - 1
  BY ByteFacts
<1>2. ByteBits - Half = Half
  BY <1>1
<1>3. Upper \in SUBSET Offsets /\ \A i \in Offsets : i \in Upper <=> ~ i >= Half
  BY <1>1 DEF Upper, Offsets
<1> QED
  BY <1>2, <1>3 DEF Match

\* With the bytes that were left out, it is what was written.
LEMMA MiniValue ==
  ASSUME NEW size \in Nat \ {0}, NEW unsigned \in BOOLEAN, NEW v \in Nat, v < Power2(size * ByteBits),
         KeepsHalf(v, size, unsigned), NEW low,
         low = LowBytes(Masked(Bytes(v, size), Width(v, size, unsigned)), Flag(v, size, unsigned), unsigned)
  PROVE  Number(Extended(low, size, unsigned)) = v
<1> DEFINE all == Bytes(v, size)
           top == Top(v, size, unsigned)
           match == Match(unsigned)
           S == SUBSET Offsets
<1>1. all \in [1..size -> S] /\ size \in Nat
  BY BytesAre
<1>2. top \in 1..size /\ \A k \in 2..size : k > top => all[k] = match
  BY TopIs
<1>3. match \in S
  BY MatchIs
<1>4. low \in [1..top -> S] /\ \A k \in 1..top : low[k] = all[k]
  <2>1. CASE Short(v, size, unsigned)
    <3>1. top = 1 /\ all[1] \cap Upper \in {{}, Upper}
      BY <2>1 DEF Short
    <3>2. \A k \in 2..size : all[k] = match
      BY <1>2, <3>1
    <3>3. all[1] \cap Upper = match \cap Upper
      BY <3>1, <3>2 DEF KeepsHalf
    <3>4. Masked(all, Half)[1] = {i \in all[1] : i >= ByteBits - Half}
      <4>1. Half \in Nat /\ BITS_TO_BYTES(Half) = 1 /\ Half < ByteBits /\ Half - (1 - 1) * ByteBits = Half
        BY BufferAssumption DEF BITS_TO_BYTES, Half
      <4>2. Masked(all, Half) = [k \in 1..1 |-> Low(all[k], Half - (k - 1) * ByteBits)]
        BY <4>1 DEF Masked
      <4>3. Masked(all, Half)[1] = Low(all[1], Half)
        BY <4>1, <4>2
      <4> QED
        BY <4>1, <4>3 DEF Low
    <3>5. low = <<Masked(all, Half)[1] \cup (match \cap Upper)>>
      BY <2>1 DEF LowBytes, Half1, Width, Flag
    <3>6. all[1] \in SUBSET Offsets
      BY <1>1, <1>2
    <3>7. Masked(all, Half)[1] \cup (match \cap Upper) = all[1]
      <4>1. \A i \in Offsets : i \in Upper <=> ~ i >= ByteBits - Half
        BY MatchIs
      <4> HIDE DEF all, match
      <4>2. \A i : i \in all[1] \cap Upper <=> i \in match \cap Upper
        BY <3>3
      <4> QED
        BY <3>4, <3>6, <4>1, <4>2
    <3>8. low = <<all[1]>>
      BY <3>5, <3>7
    <3> HIDE DEF all, top
    <3> QED
      BY <3>1, <3>6, <3>8
  <2>2. CASE ~Short(v, size, unsigned)
    <3>1. low = Masked(all, top * ByteBits)
      BY <2>2 DEF LowBytes, Width, Flag
    <3>2. top \in 0..size
      BY <1>2
    <3> HIDE DEF all, top
    <3>3. low = [k \in 1..top |-> all[k]]
      BY <1>1, <3>1, <3>2, MaskedFirst
    <3> QED
      BY <1>1, <1>2, <3>3
  <2> QED
    BY <2>1, <2>2
<1> HIDE DEF all, top, match
<1>5. Len(low) = top /\ size - top \in Nat /\ top \in Nat
  BY <1>2, <1>4
<1> DEFINE rest == [k \in 1..(size - top) |-> match]
<1>6. rest \in [1..(size - top) -> S] /\ \A k \in 1..(size - top) : all[top + k] = rest[k]
  <2>1. \A k \in 1..(size - top) : top + k \in 2..size /\ top + k > top
    BY <1>2, <1>5
  <2> QED
    BY <1>2, <1>3, <2>1
<1>7. top + (size - top) = size
  BY <1>2
<1> HIDE DEF rest, S
<1>8. low \o rest = all
  <2> DEFINE n == size - top
  <2>1. n \in Nat /\ rest \in [1..n -> S] /\ \A k \in 1..n : all[top + k] = rest[k]
    BY <1>5, <1>6
  <2>2. all \in [1..(top + n) -> S] /\ \A k \in 1..top : all[k] = low[k]
    BY <1>1, <1>4, <1>7
  <2>3. low \in [1..top -> S] /\ top \in Nat
    BY <1>4, <1>5
  <2> HIDE DEF n
  <2>4. top \in Nat /\ n \in Nat /\ size = top + n
    BY <1>7, <2>1, <2>3 DEF n
  <2>5. low \in Array(top, S) /\ rest \in Array(n, S) /\ all \in Array(size, S)
    BY <1>1, <2>1, <2>3 DEF Array
  <2>6. Parts(all, low, top, rest, n)
    BY <2>1, <2>2 DEF Parts
  <2> QED
    BY <2>4, <2>5, <2>6, ConcatIs
<1>9. Extended(low, size, unsigned) = all
  BY <1>5, <1>8 DEF Extended, rest, match
<1>10. Number(all) = v
  BY NumberOfBytes DEF all
<1> QED
  BY <1>9, <1>10

\* The reader at u.
LEMMA ReaderParts ==
  ASSUME NEW s, Fits(s), NEW u, Follows(s, u), NEW t, Follows(u, t), NEW r, Reader(r, s, t),
         NEW q, q = MoveTo(r, u.writable)
  PROVE  Reader(r, s, u) /\ Reader(q, u, t) /\ \A p : MoveTo(q, p) = MoveTo(r, p)
BY ReaderSplits

\* What ReadMini() skips.
Zeros(r, size) == {n \in 0..(size - 1) : \A p \in r.readable..(r.readable + n - 1) : p \notin r.data}

\* ReadMini() in its parts.
LEMMA GetMiniIs ==
  ASSUME NEW r, NEW size, NEW unsigned, NEW skipped, skipped = Max(Zeros(r, size)),
         NEW bit, bit = BitAt(r, r.readable + skipped), NEW from, from = Skip(r, skipped + 1),
         NEW n, n = IF bit = 1 THEN (size - skipped) * ByteBits ELSE Half
  PROVE  /\ GetMini(r, size, unsigned).stream = Skip(from, n)
         /\ GetMini(r, size, unsigned).value =
              Number(Extended(LowBytes(GetRight(from, n), bit, unsigned), size, unsigned))
BY Zenon DEF GetMini, Zeros, Extended, LowBytes, Half1, GetRight

\* ReadMini() stops where WriteMini() did, and gets its value if no half byte of it was lost.
LEMMA MiniRead ==
  ASSUME NEW s, Fits(s), Clean(s), NEW v, NEW size \in Nat \ {0}, NEW unsigned \in BOOLEAN,
         NEW r, NEW t, t = PutMini(s, v, size, unsigned), Reader(r, s, t)
  PROVE  /\ GetMini(r, size, unsigned).stream = MoveTo(r, t.writable)
         /\ v \in Nat /\ v < Power2(size * ByteBits) /\ KeepsHalf(v, size, unsigned)
              => GetMini(r, size, unsigned).value = v
<1> DEFINE n == Width(v, size, unsigned)
           u == Flagged(s, v, size, unsigned)
           a == Start(s, v, size, unsigned)
           top == Top(v, size, unsigned)
           bit == Flag(v, size, unsigned)
           all == Bytes(v, size)
           q1 == MoveTo(r, a.writable)
           q2 == MoveTo(r, u.writable)
           skipped == size - top
<1>1. /\ t = PutRight(u, all, n)
      /\ n \in Nat /\ Source(all, n)
      /\ Follows(s, a) /\ a.writable = s.writable + skipped /\ Appends(s, a, skipped, {})
      /\ u = PutBit(a, bit)
      /\ Follows(a, u) /\ u.writable = a.writable + 1 /\ Follows(s, u)
      /\ Follows(u, t)
  <2> DEFINE w == PutMini(s, v, size, unsigned)
  <2>1. n = Width(v, size, unsigned) /\ u = Flagged(s, v, size, unsigned) /\ a = Start(s, v, size, unsigned)
        /\ top = Top(v, size, unsigned) /\ bit = Flag(v, size, unsigned) /\ all = Bytes(v, size) /\ t = w
    OBVIOUS
  <2> HIDE DEF n, u, a, top, bit, all
  <2>2. /\ w = PutRight(u, Bytes(v, size), n)
        /\ n \in Nat /\ Source(Bytes(v, size), n)
        /\ Follows(s, a) /\ a.writable = s.writable + (size - top) /\ Appends(s, a, size - top, {})
        /\ u = PutBit(a, Flag(v, size, unsigned))
        /\ Follows(a, u) /\ u.writable = a.writable + 1 /\ Follows(s, u)
        /\ Kept(u, w)
    BY <2>1, MiniIs
  <2> HIDE DEF w
  <2> QED
    BY <2>1, <2>2 DEF Kept
<1>2. top \in 1..size
  BY TopIs
<1>3. bit \in {0, 1} /\ (bit = 1 <=> ~Short(v, size, unsigned)) /\ (top # 1 => bit = 1)
  BY DEF Flag, Short
<1>4. n = IF bit = 1 THEN top * ByteBits ELSE Half
  BY <1>3 DEF Width
<1> HIDE DEF n, u, a, top, bit, all
<1>5. Fits(a) /\ Clean(a) /\ Fits(u) /\ Clean(u) /\ Follows(a, t)
  <2>1. Fits(a) /\ Clean(a) /\ Fits(u) /\ Clean(u)
    BY <1>1 DEF Follows
  <2> QED
    BY <1>1, <2>1, FollowsBoth
<1>e. Follows(s, a) /\ Follows(a, t) /\ Follows(s, u) /\ Follows(u, t) /\ Follows(a, u)
  BY <1>1, <1>5
<1>q. q1 = MoveTo(r, a.writable) /\ q2 = MoveTo(r, u.writable)
  OBVIOUS
<1> HIDE DEF q1, q2
<1>6. Reader(r, s, a) /\ Reader(q1, a, t) /\ \A p : MoveTo(q1, p) = MoveTo(r, p)
  BY <1>e, <1>q, ReaderParts
<1>7. Reader(q1, a, u)
  <2> DEFINE q3 == MoveTo(q1, u.writable)
  <2>1. q3 = MoveTo(q1, u.writable)
    OBVIOUS
  <2> HIDE DEF q3
  <2> QED
    BY <1>e, <1>5, <1>6, <2>1, ReaderParts
<1>8. Reader(q2, u, t) /\ \A p : MoveTo(q2, p) = MoveTo(r, p)
  BY <1>e, <1>q, ReaderParts
<1>9. r \in Stream /\ r.readable = s.writable /\ s.writable \in Nat /\ skipped \in 0..(size - 1) /\ skipped \in Nat
  BY <1>2, FitsIs DEF Reader
<1>10. q1.readable = a.writable /\ q1.data = r.data
  BY <1>9, <1>q DEF MoveTo, Stream
<1> HIDE DEF skipped
<1>11. BitAt(q1, q1.readable) = bit
  BY <1>1, <1>3, <1>5, <1>7, BitRead
<1>12. BitAt(r, r.readable + skipped) = bit
  BY <1>1, <1>9, <1>10, <1>11 DEF BitAt
<1>13. skipped = Max(Zeros(r, size))
  <2> DEFINE Z == Zeros(r, size)
  <2>1. Z \in SUBSET (0..(size - 1)) /\ size - 1 \in Nat
    BY DEF Zeros
  <2>2. skipped \in Z
    <3>1. ASSUME NEW p \in r.readable..(r.readable + skipped - 1) PROVE p \notin r.data
      <4>1. p \in s.writable..(a.writable - 1) /\ p - s.writable \in 0..(skipped - 1)
            /\ s.writable + (p - s.writable) = p
        BY <1>1, <1>9
      <4>2. \A j \in 0..(skipped - 1) : ~ s.writable + j \in a.data
        BY <1>1 DEF Appends
      <4>3. p \notin a.data
        BY <4>1, <4>2
      <4> QED
        BY <1>6, <4>1, <4>3 DEF Reader, Same
    <3> QED
      BY <1>9, <3>1 DEF Zeros
  <2>3. ASSUME NEW y \in Z PROVE y <= skipped
    <3>1. y \in 0..(size - 1) /\ \A p \in r.readable..(r.readable + y - 1) : p \notin r.data
      BY DEF Zeros
    <3>2. CASE top = 1
      BY <3>1, <3>2 DEF skipped
    <3>3. CASE top # 1
      <4>1. r.readable + skipped \in r.data
        BY <1>3, <1>12, <3>3 DEF BitAt
      <4>2. y > skipped => r.readable + skipped \in r.readable..(r.readable + y - 1)
        BY <1>9, <3>1
      <4> QED
        BY <1>9, <3>1, <4>1, <4>2
    <3> QED
      BY <3>2, <3>3
  <2> HIDE DEF Z
  <2>4. Max(Z) \in Z /\ \A y \in Z : y <= Max(Z)
    BY <2>1, <2>2, MaxIs
  <2> DEFINE m == Max(Z)
  <2>m. m \in Z /\ \A y \in Z : y <= m
    BY <2>4
  <2> HIDE DEF m
  <2>n. m <= skipped /\ skipped <= m /\ m \in Int
    BY <2>1, <2>2, <2>3, <2>m
  <2>5. Max(Z) <= skipped /\ skipped <= Max(Z) /\ Max(Z) \in Int
    BY <2>n DEF m
  <2>6. skipped = Max(Z)
    BY <1>9, <2>5
  <2> QED
    BY <2>6 DEF Z
<1>14. Skip(r, skipped + 1) = q2
  BY <1>1, <1>9, <1>q DEF Skip, MoveTo
<1>15. n = IF bit = 1 THEN (size - skipped) * ByteBits ELSE Half
  <2>1. size - skipped = top
    BY <1>2 DEF skipped
  <2> QED
    BY <1>4, <2>1
<1>17. /\ GetMini(r, size, unsigned).stream = Skip(q2, n)
       /\ GetMini(r, size, unsigned).value =
            Number(Extended(LowBytes(GetRight(q2, n), bit, unsigned), size, unsigned))
  <2>1. bit = BitAt(r, r.readable + skipped) /\ q2 = Skip(r, skipped + 1)
    BY <1>12, <1>14
  <2> QED
    BY <1>13, <1>15, <2>1, GetMiniIs
<1>18. GetRight(q2, n) = Masked(all, n) /\ Skip(q2, n) = MoveTo(q2, t.writable)
  <2>1. t = PutRight(u, all, n) /\ n \in Nat /\ Source(all, n)
    BY <1>1
  <2> QED
    BY <1>5, <1>8, <2>1, RightRead
<1>19. GetMini(r, size, unsigned).stream = MoveTo(r, t.writable)
  BY <1>8, <1>17, <1>18
<1>20. ASSUME v \in Nat, v < Power2(size * ByteBits), KeepsHalf(v, size, unsigned)
       PROVE  GetMini(r, size, unsigned).value = v
  <2> DEFINE low == LowBytes(Masked(all, n), bit, unsigned)
  <2>2. LowBytes(GetRight(q2, n), bit, unsigned) = low
    BY <1>18
  <2>3. low = LowBytes(Masked(Bytes(v, size), Width(v, size, unsigned)), Flag(v, size, unsigned), unsigned)
    BY DEF all, n, bit
  <2> HIDE DEF low
  <2>4. Number(Extended(low, size, unsigned)) = v
    BY <1>20, <2>3, MiniValue
  <2> QED
    BY <1>17, <2>2, <2>4
<1> QED
  BY <1>19, <1>20

\* WriteMini() of an unsigned integer.
PutShort(s, v, size) == PutMini(s, v, size, TRUE)
GetShort(s, size) == GetMini(s, size, TRUE)
KeepsShort(v, size) == KeepsHalf(v, size, TRUE)

\* MiniFollows and MiniRead for the unsigned integers that other fields are written with.
LEMMA ShortFollows ==
  ASSUME NEW s, Fits(s), NEW v, NEW size \in Nat \ {0}
  PROVE  Kept(s, PutShort(s, v, size))
<1> DEFINE unsigned == TRUE
<1>1. unsigned \in BOOLEAN
  OBVIOUS
<1>2. PutShort(s, v, size) = PutMini(s, v, size, unsigned)
  BY DEF PutShort
<1> HIDE DEF unsigned
<1> QED
  BY <1>1, <1>2, MiniFollows

\* The second of them.
LEMMA ShortRead ==
  ASSUME NEW s, Fits(s), Clean(s), NEW v \in Nat, NEW size \in Nat \ {0}, v < Power2(size * ByteBits),
         NEW r, NEW t, t = PutShort(s, v, size), Reader(r, s, t)
  PROVE  /\ GetShort(r, size).stream = MoveTo(r, t.writable)
         /\ KeepsShort(v, size) => GetShort(r, size).value = v
<1> DEFINE unsigned == TRUE
<1>1. unsigned \in BOOLEAN
  OBVIOUS
<1>2. t = PutMini(s, v, size, unsigned)
  BY DEF PutShort
<1>3. GetShort(r, size) = GetMini(r, size, unsigned)
  BY DEF GetShort
<1>4. KeepsShort(v, size) <=> KeepsHalf(v, size, unsigned)
  BY DEF KeepsShort
<1> HIDE DEF unsigned
<1>5. /\ GetMini(r, size, unsigned).stream = MoveTo(r, t.writable)
      /\ v \in Nat /\ v < Power2(size * ByteBits) /\ KeepsHalf(v, size, unsigned)
              => GetMini(r, size, unsigned).value = v
  BY <1>1, <1>2, MiniRead
<1> QED
  BY <1>3, <1>4, <1>5

-----------------------------------------------------------------------------
(* Integers within a range.                                                  *)

\* Bits for every number of a range, and not more than the type has.
LEMMA RequiredBitsIs ==
  ASSUME NEW size \in Nat \ {0}, NEW min \in Nat, NEW max \in Nat, min <= max, max < Power2(size * ByteBits)
  PROVE  /\ RequiredBits(min, max, size) \in Nat /\ Power2(RequiredBits(min, max, size)) > max - min
         /\ BITS_TO_BYTES(RequiredBits(min, max, size)) <= size
<1> DEFINE most == size * ByteBits
           wide == max - min
           S == {k \in 0..most : Power2(k) > wide}
           n == RequiredBits(min, max, size)
<1>1. most \in Nat /\ BITS_TO_BYTES(most) = size /\ wide \in Nat /\ Power2(most) \in Nat
  <2>1. size \in Nat /\ most \in Nat /\ BITS_TO_BYTES(most) = size
    BY WholeBytes, ByteFacts
  <2> HIDE DEF most
  <2>2. Power2(most) \in Nat
    BY <2>1, Power2Is
  <2> QED
    BY <2>1, <2>2
<1>2. most \in S
  <2>1. wide < Power2(most)
    BY <1>1
  <2> HIDE DEF most, wide
  <2> QED
    BY <1>1, <2>1
<1>3. n = CHOOSE k \in 0..most : Power2(k) > wide /\ \A j \in 0..most : Power2(j) > wide => k <= j
  BY Zenon DEF RequiredBits
<1> HIDE DEF most, wide, n
<1>4. S \in SUBSET Nat /\ S # {}
  BY <1>1, <1>2
<1>5. PICK m \in S : \A j \in S : m <= j
  <2> HIDE DEF S
  <2> QED
    BY <1>4, LeastNat
<1>6. m \in 0..most /\ Power2(m) > wide /\ \A j \in 0..most : Power2(j) > wide => m <= j
  BY <1>5
<1>7. n \in 0..most /\ Power2(n) > wide
  BY <1>3, <1>6
<1>8. BITS_TO_BYTES(n) <= BITS_TO_BYTES(most)
  BY <1>1, <1>7, RoundMonotone
<1> QED
  BY <1>1, <1>7, <1>8 DEF n, wide

\* write_ranged_integer() follows,
LEMMA RangedFollows ==
  ASSUME NEW s, Fits(s), NEW v, NEW size \in Nat \ {0}, NEW min \in Nat, NEW max \in Nat,
         min <= max, max < Power2(size * ByteBits), NEW outside \in BOOLEAN
  PROVE  Kept(s, PutRanged(s, v, min, max, outside, size))
<1> DEFINE n == RequiredBits(min, max, size)
           src == Bytes(v - min, size)
           t == PutRanged(s, v, min, max, outside, size)
<1>1. n \in Nat /\ Source(src, n)
  <2>1. n \in Nat /\ BITS_TO_BYTES(n) <= size /\ size \in Nat
    BY RequiredBitsIs
  <2>2. src \in [1..size -> SUBSET Offsets]
    BY BytesAre
  <2> HIDE DEF n, src
  <2> QED
    BY <2>1, <2>2, SourceIs
<1>2. CASE outside /\ v \notin min..max
  <2> DEFINE u == PutBit(s, 1)
  <2>1. t = PutShort(u, v, size)
    BY <1>2 DEF PutRanged, PutShort
  <2>2. Follows(s, u) /\ Fits(u)
    BY BitFollows DEF Follows
  <2> HIDE DEF u, t
  <2>3. Kept(u, t)
    BY <2>1, <2>2, ShortFollows
  <2>4. Kept(s, t)
    BY <2>2, <2>3, FollowsBoth DEF Kept
  <2> QED
    BY <2>4 DEF t
<1>3. CASE ~(outside /\ v \notin min..max)
  <2> DEFINE u == IF outside THEN PutBit(s, 0) ELSE s
  <2>1. t = PutRight(u, src, n)
    BY <1>3 DEF PutRanged, PutRight
  <2>2. Follows(s, u) /\ Fits(u)
    <3>1. Follows(s, PutBit(s, 0)) /\ Follows(s, s)
      BY BitFollows, FollowsItself
    <3> QED
      BY <3>1 DEF Follows
  <2> HIDE DEF u, t, src, n
  <2>3. Kept(u, t)
    BY <1>1, <2>1, <2>2, BitsFollow DEF Kept, PutRight
  <2>4. Kept(s, t)
    BY <2>2, <2>3, FollowsBoth DEF Kept
  <2> QED
    BY <2>4 DEF t
<1> QED
  BY <1>2, <1>3

\* and ReadIntegerRange() gets what is in the range; and what is not, if it is allowed and kept.
LEMMA RangedRead ==
  ASSUME NEW s, Fits(s), Clean(s), NEW v \in Nat, NEW size \in Nat \ {0}, NEW min \in Nat, NEW max \in Nat,
         min <= max, max < Power2(size * ByteBits), NEW outside \in BOOLEAN, v < Power2(size * ByteBits),
         NEW r, NEW t, t = PutRanged(s, v, min, max, outside, size), Reader(r, s, t)
  PROVE  /\ GetRanged(r, min, max, outside, size).stream = MoveTo(r, t.writable)
         /\ (v \in min..max \/ (outside /\ KeepsShort(v, size)))
              => GetRanged(r, min, max, outside, size).value = v
<1> DEFINE n == RequiredBits(min, max, size)
           src == Bytes(v - min, size)
<1>1. n \in Nat /\ BITS_TO_BYTES(n) <= size /\ size \in Nat /\ Power2(n) > max - min
  BY RequiredBitsIs
<1>2. Source(src, n)
  <2>1. src \in [1..size -> SUBSET Offsets]
    BY BytesAre
  <2> HIDE DEF n, src
  <2> QED
    BY <1>1, <2>1, SourceIs
<1>3. CASE outside /\ v \notin min..max
  <2> DEFINE u == PutBit(s, 1)
             q == MoveTo(r, u.writable)
  <2>1. t = PutShort(u, v, size)
    BY <1>3 DEF PutRanged, PutShort
  <2>2. Follows(s, u) /\ Fits(u) /\ Clean(u)
    BY BitFollows DEF Follows
  <2>3. u = PutBit(s, 1) /\ q = MoveTo(r, u.writable)
    OBVIOUS
  <2> HIDE DEF u, q
  <2>4. Follows(u, t)
    BY <2>1, <2>2, ShortFollows DEF Kept
  <2>5. Reader(r, s, u) /\ Reader(q, u, t) /\ \A p : MoveTo(q, p) = MoveTo(r, p)
    BY <2>2, <2>3, <2>4, ReaderParts
  <2>6. GetBit(r).value = 1 /\ Skip(r, 1) = q
    BY <2>3, <2>5, BitRead
  <2>7. GetRanged(r, min, max, outside, size) = GetShort(q, size)
    BY <1>3, <2>6 DEF GetRanged, GetShort
  <2>8. /\ GetShort(q, size).stream = MoveTo(q, t.writable)
        /\ KeepsShort(v, size) => GetShort(q, size).value = v
    BY <2>1, <2>2, <2>5, ShortRead
  <2> QED
    BY <1>3, <2>5, <2>7, <2>8
<1>4. CASE ~(outside /\ v \notin min..max)
  <2> DEFINE u == IF outside THEN PutBit(s, 0) ELSE s
             q == MoveTo(r, u.writable)
  <2>1. t = PutRight(u, src, n)
    BY <1>4 DEF PutRanged, PutRight
  <2>2. Follows(s, u) /\ Fits(u) /\ Clean(u)
    <3>1. Follows(s, PutBit(s, 0)) /\ Follows(s, s)
      BY BitFollows, FollowsItself
    <3> QED
      BY <3>1 DEF Follows
  <2>3. q = MoveTo(r, u.writable) /\ (outside => u = PutBit(s, 0)) /\ (~outside => u = s)
    OBVIOUS
  <2> HIDE DEF u, q
  <2>4. Follows(u, t)
    <3> HIDE DEF n, src
    <3> QED
      BY <1>1, <1>2, <2>1, <2>2, BitsFollow DEF Kept, PutRight
  <2>5. Reader(r, s, u) /\ Reader(q, u, t) /\ \A p : MoveTo(q, p) = MoveTo(r, p)
    BY <2>2, <2>3, <2>4, ReaderParts
  <2>6. outside => GetBit(r).value = 0 /\ Skip(r, 1) = q
    <3>1. ASSUME outside PROVE GetBit(r).value = 0 /\ Skip(r, 1) = q
      <4>1. Reader(r, s, PutBit(s, 0)) /\ q = MoveTo(r, PutBit(s, 0).writable)
        BY <2>3, <2>5, <3>1
      <4> QED
        BY <4>1, BitRead
    <3> QED
      BY <3>1
  <2>7. ~outside => r = q
    <3>1. r \in Stream /\ r.readable = s.writable
      BY DEF Reader
    <3>2. MoveTo(r, r.readable) = r
      BY <3>1 DEF MoveTo, Stream
    <3> QED
      BY <2>3, <3>1, <3>2
  <2>8. GetRanged(r, min, max, outside, size) = [value |-> Number(GetRight(q, n)) + min, stream |-> Skip(q, n)]
    <3>1. CASE outside
      <4>1. GetBit(r).value = 0 /\ Skip(r, 1) = q
        BY <2>6, <3>1
      <4>2. GetRanged(r, min, max, outside, size) =
              [value |-> GetNumber(Skip(r, 1), n).value + min, stream |-> Skip(Skip(r, 1), n)]
        <5>1. ~ GetBit(r).value = 1
          BY <4>1
        <5> QED
          BY <3>1, <5>1, Zenon DEF GetRanged
      <4> HIDE DEF n
      <4> QED
        BY <4>1, <4>2 DEF GetNumber, GetRight
    <3>2. CASE ~outside
      BY <2>7, <3>2 DEF GetRanged, GetNumber, GetRight
    <3> QED
      BY <3>1, <3>2
  <2>9. GetRight(q, n) = Masked(src, n) /\ Skip(q, n) = MoveTo(q, t.writable)
    <3> HIDE DEF n, src
    <3> QED
      BY <1>1, <1>2, <2>1, <2>2, <2>5, RightRead
  <2>10. GetRanged(r, min, max, outside, size).stream = MoveTo(r, t.writable)
    BY <2>5, <2>8, <2>9
  <2>11. ASSUME v \in min..max PROVE GetRanged(r, min, max, outside, size).value = v
    <3> DEFINE x == v - min
    <3>1. x \in Nat /\ x < Power2(n) /\ x + min = v /\ Power2(n) \in Nat \ {0}
      BY <1>1, <2>11, Power2Is
    <3>2. src = Bytes(x, size)
      OBVIOUS
    <3> HIDE DEF n, src, x
    <3>3. Number(Masked(Bytes(x, size), n)) = Rem(x, Power2(n))
      BY <1>1, <3>1, NumberOfLow
    <3>4. Rem(x, Power2(n)) = x
      BY <3>1, RemSmall
    <3>5. Number(GetRight(q, n)) = x
      BY <2>9, <3>2, <3>3, <3>4
    <3> QED
      BY <2>8, <3>1, <3>5
  <2> QED
    BY <1>4, <2>10, <2>11
<1> QED
  BY <1>3, <1>4

-----------------------------------------------------------------------------
(* Runs of bits of a number, and strings.                                    *)

\* A run of the low bits of a number is written,
LEMMA RunFollows ==
  ASSUME NEW s, Fits(s), NEW v, NEW n \in Nat
  PROVE  Kept(s, PutRight(s, Bytes(v, BITS_TO_BYTES(n)), n))
<1> DEFINE size == BITS_TO_BYTES(n)
           src == Bytes(v, size)
<1>1. size \in Nat /\ BITS_TO_BYTES(n) <= size
  BY RoundIs
<1> HIDE DEF size
<1>2. src \in [1..size -> SUBSET Offsets]
  BY <1>1, BytesAre
<1> HIDE DEF src
<1>3. Source(src, n)
  BY <1>1, <1>2, SourceIs
<1>4. Kept(s, PutRight(s, src, n))
  BY <1>3, BitsFollow DEF Kept, PutRight
<1> QED
  BY <1>4 DEF src, size

\* and read as the number they make.
LEMMA RunRead ==
  ASSUME NEW s, Fits(s), Clean(s), NEW v \in Nat, NEW n \in Nat,
         NEW r, NEW t, t = PutRight(s, Bytes(v, BITS_TO_BYTES(n)), n), Reader(r, s, t)
  PROVE  Result(GetNumber(r, n), Rem(v, Power2(n)), r, t)
<1> DEFINE size == BITS_TO_BYTES(n)
           src == Bytes(v, size)
<1>1. size \in Nat /\ BITS_TO_BYTES(n) <= size
  BY RoundIs
<1>2. t = PutRight(s, src, n)
  OBVIOUS
<1> HIDE DEF size
<1>3. src \in [1..size -> SUBSET Offsets] /\ src = Bytes(v, size)
  BY <1>1, BytesAre
<1> HIDE DEF src
<1>4. Source(src, n)
  BY <1>1, <1>3, SourceIs
<1>5. GetRight(r, n) = Masked(src, n) /\ Skip(r, n) = MoveTo(r, t.writable)
  BY <1>2, <1>4, RightRead
<1>6. Number(Masked(src, n)) = Rem(v, Power2(n))
  BY <1>1, <1>3, NumberOfLow
<1>7. GetNumber(r, n) = [value |-> Number(GetRight(r, n)), stream |-> Skip(r, n)]
  BY DEF GetNumber, GetRight
<1> QED
  BY <1>5, <1>6, <1>7 DEF Result

RightOnes(src, n) == OnesOf(src, n, TRUE)

\* Bits of whole bytes are written in their order.
LEMMA WholeOnes ==
  ASSUME NEW m \in Nat, NEW n, n = m * ByteBits, NEW bits \in [1..n -> {0, 1}], NEW j \in 0..(n - 1)
  PROVE  j \in RightOnes(LeftAligned(bits), n) <=> bits[j + 1] = 1
<1> DEFINE q == j \div ByteBits
           i == j % ByteBits
           src == LeftAligned(bits)
<1>1. n \in Nat /\ BITS_TO_BYTES(n) = m /\ ByteBits \in Nat \ {0}
  BY WholeBytes, ByteFacts
<1>2. j \in Nat /\ j < n
  BY <1>1
<1>3. q \in Nat /\ i \in 0..(ByteBits - 1) /\ j = q * ByteBits + i
  BY <1>2, PlaceOf
<1>4. Len(bits) = n
  BY <1>1
<1>5. j \in OnesOf(src, n, TRUE) <=> q + 1 \in 1..m /\ i \in Shifted(src[q + 1], n - q * ByteBits, TRUE)
  BY <1>1, <1>2 DEF OnesOf
<1>6. src = [k \in 1..m |-> {o \in Offsets : (k - 1) * ByteBits + o + 1 <= n
                                              /\ bits[(k - 1) * ByteBits + o + 1] = 1}]
  BY <1>1, <1>4 DEF LeftAligned
<1> HIDE DEF q, i, src
<1>7. q < m /\ n - q * ByteBits >= ByteBits
  <2>1. ~ m <= q
    <3>1. m <= q => m * ByteBits <= q * ByteBits
      BY <1>1, <1>3, TimesMonotone
    <3>2. q * ByteBits \in Nat
      BY <1>1, <1>3
    <3> QED
      BY <1>1, <1>2, <1>3, <3>1, <3>2
  <2>2. q < m /\ q + 1 <= m /\ q + 1 \in Nat
    BY <1>3, <2>1
  <2>3. (q + 1) * ByteBits <= m * ByteBits
    BY <1>1, <2>2, TimesMonotone
  <2>4. (q + 1) * ByteBits = q * ByteBits + ByteBits /\ q * ByteBits \in Nat
    BY <1>1, <1>3
  <2> DEFINE d == q * ByteBits
  <2>5. d \in Nat /\ d + ByteBits <= n
    BY <2>3, <2>4
  <2> HIDE DEF d
  <2>6. n - d >= ByteBits
    BY <1>1, <2>5
  <2> QED
    BY <2>2, <2>6 DEF d
<1>8. Shifted(src[q + 1], n - q * ByteBits, TRUE) = src[q + 1]
  <2>1. n - q * ByteBits \in Int
    BY <1>1, <1>3
  <2>2. ~ n - q * ByteBits < ByteBits
    BY <1>1, <1>7, <2>1
  <2> QED
    BY <2>2 DEF Shifted
<1>9. q + 1 \in 1..m /\ (q + 1) - 1 = q
  BY <1>3, <1>7
<1>10. src[q + 1] = {o \in Offsets : q * ByteBits + o + 1 <= n /\ bits[q * ByteBits + o + 1] = 1}
  BY <1>6, <1>9
<1>11. i \in Offsets /\ q * ByteBits + i + 1 = j + 1 /\ j + 1 <= n
  BY <1>1, <1>2, <1>3 DEF Offsets
<1>12. i \in src[q + 1] <=> bits[j + 1] = 1
  BY <1>10, <1>11
<1> QED
  BY <1>5, <1>8, <1>9, <1>12 DEF src, RightOnes

\* What is known of a text.
Text(text) ==
  /\ \E m \in Nat : EncodeArray(text) \in [1..(m * ByteBits) -> {0, 1}]
  /\ Len(EncodeArray(text)) < Power2(UintBytes * ByteBits)

\* The bytes of a sequence of bits can be written from.
LEMMA AlignedSource ==
  ASSUME NEW n \in Nat, NEW bits, Len(bits) = n
  PROVE  Source(LeftAligned(bits), n)
<1>1. LeftAligned(bits) = [k \in 1..BITS_TO_BYTES(n) |->
        {i \in Offsets : (k - 1) * ByteBits + i + 1 <= n /\ bits[(k - 1) * ByteBits + i + 1] = 1}]
  BY DEF LeftAligned
<1> QED
  BY <1>1 DEF Source

\* EncodeString() appends the length, and the bits of the code,
LEMMA StringFollows ==
  ASSUME NEW s, Fits(s), NEW text, Text(text)
  PROVE  Kept(s, PutString(s, text))
<1> DEFINE bits == EncodeArray(text)
           n == Len(bits)
           t == PutShort(s, n, UintBytes)
<1>1. n \in Nat
  <2>1. PICK m \in Nat : bits \in [1..(m * ByteBits) -> {0, 1}]
    BY DEF Text
  <2>2. m * ByteBits \in Nat
    BY ByteFacts
  <2> HIDE DEF bits
  <2> QED
    BY <2>1, <2>2
<1>2. PutString(s, text) = PutRight(t, LeftAligned(bits), n)
  BY DEF PutString, PutShort, PutRight
<1>3. Follows(s, t)
  <2> HIDE DEF n
  <2> QED
    BY ShortFollows, CodecAssumption DEF Kept
<1>4. Source(LeftAligned(bits), n)
  BY <1>1, AlignedSource
<1>5. Fits(t)
  BY <1>3 DEF Follows
<1> HIDE DEF t, n, bits
<1>6. Kept(t, PutRight(t, LeftAligned(bits), n))
  BY <1>1, <1>4, <1>5, BitsFollow DEF Kept, PutRight
<1> QED
  BY <1>2, <1>3, <1>6, FollowsBoth DEF Kept

\* A text is decoded from the bits that encode it.
KeepsText(text) ==
  LET bits == EncodeArray(text) IN
  KeepsShort(Len(bits), UintBytes) /\ text = IF Len(bits) = 0 THEN <<>> ELSE Decoded(bits)

\* and DecodeString() gets the text that they decode to.
LEMMA StringRead ==
  ASSUME NEW s, Fits(s), Clean(s), NEW text, Text(text), KeepsText(text),
         NEW r, NEW t, t = PutString(s, text), Reader(r, s, t)
  PROVE  Result(GetString(r), text, r, t)
<1> DEFINE bits == EncodeArray(text)
           n == Len(bits)
           u == PutShort(s, n, UintBytes)
           src == LeftAligned(bits)
           q == MoveTo(r, u.writable)
<1>1. PICK m \in Nat : bits \in [1..(m * ByteBits) -> {0, 1}]
  BY DEF Text
<1>2. n = m * ByteBits /\ n \in Nat /\ m \in Nat
  <2>1. m * ByteBits \in Nat
    BY ByteFacts
  <2> HIDE DEF bits
  <2> QED
    BY <1>1, <2>1
<1>3. t = PutRight(u, src, n)
  BY DEF PutString, PutShort, PutRight
<1>4. n < Power2(UintBytes * ByteBits)
  BY DEF Text
<1>5. KeepsShort(n, UintBytes) /\ text = IF n = 0 THEN <<>> ELSE Decoded(bits)
  BY DEF KeepsText
<1>6. Source(src, n)
  BY <1>2, AlignedSource
<1>7. UintBytes \in Nat \ {0}
  BY CodecAssumption
<1>8. u = PutShort(s, n, UintBytes) /\ q = MoveTo(r, u.writable)
  OBVIOUS
<1>9. /\ GetShort(r, UintBytes).value = n /\ GetShort(r, UintBytes).stream = q =>
           GetString(r) = IF n = 0 \/ n > Payload(q)
                            THEN [value |-> <<>>, stream |-> q]
                            ELSE [value |-> Decoded([i \in 1..n |-> BitAt(q, q.readable + i - 1)]),
                                  stream |-> Skip(q, n)]
  BY DEF GetString, GetShort
<1> HIDE DEF u, q, src, n, bits
<1>10. Follows(s, u)
  BY <1>7, <1>8, ShortFollows DEF Kept
<1>11. Fits(u) /\ Clean(u)
  BY <1>10 DEF Follows
<1>12. Follows(u, t) /\ Writes(u, t, n, OnesOf(src, n, TRUE))
  <2>1. Writes(u, PutBits(u, src, n, TRUE), n, OnesOf(src, n, TRUE))
    BY <1>2, <1>6, <1>11, PutBitsIs
  <2>2. Follows(u, t)
    BY <1>2, <1>3, <1>6, <1>11, BitsFollow DEF PutRight
  <2> QED
    BY <1>3, <2>1, <2>2 DEF PutRight
<1>13. Reader(r, s, u) /\ Reader(q, u, t) /\ \A p : MoveTo(q, p) = MoveTo(r, p)
  BY <1>8, <1>10, <1>12, ReaderParts
<1>14. GetShort(r, UintBytes).value = n /\ GetShort(r, UintBytes).stream = q
  BY <1>2, <1>4, <1>5, <1>7, <1>8, <1>13, ShortRead
<1>15. u.writable \in Nat /\ t.writable = u.writable + n
  BY <1>11, <1>12, FitsIs DEF Writes, Appends, Extends
<1>16. q \in Stream /\ q.readable = u.writable /\ Payload(q) \in Int /\ ~ n > Payload(q) /\ Skip(q, n) = MoveTo(q, t.writable)
  <2>1. q \in Stream /\ q.readable = u.writable /\ t.writable <= q.writable
    BY <1>13 DEF Reader
  <2>2. q.writable \in Nat
    BY <2>1, StreamIs
  <2>3. Skip(q, n) = MoveTo(q, t.writable)
    BY <1>2, <1>11, <1>13, <1>15, ReaderIs
  <2> QED
    BY <1>2, <1>15, <2>1, <2>2, <2>3 DEF Payload
<1>17. CASE n = 0
  <2>1. GetString(r) = [value |-> <<>>, stream |-> q]
    BY <1>9, <1>14, <1>17
  <2>2. q = MoveTo(r, t.writable)
    BY <1>8, <1>15, <1>17
  <2> QED
    BY <1>5, <1>17, <2>1, <2>2 DEF Result
<1>18. CASE n # 0
  <2>1. GetString(r) = [value |-> Decoded([i \in 1..n |-> BitAt(q, q.readable + i - 1)]), stream |-> Skip(q, n)]
    BY <1>9, <1>14, <1>16, <1>18
  <2>2. ASSUME NEW i \in 1..n PROVE BitAt(q, q.readable + i - 1) = bits[i]
    <3> DEFINE j == i - 1
    <3>1. j \in 0..(n - 1) /\ j + 1 = i /\ q.readable + i - 1 = u.writable + j
          /\ u.writable + j \in u.writable..(t.writable - 1)
      BY <1>2, <1>15, <1>16
    <3> HIDE DEF j
    <3>2. u.writable + j \in t.data <=> j \in OnesOf(src, n, TRUE)
      BY <1>11, <1>12, <3>1 DEF Writes, Appends
    <3>3. u.writable + j \in q.data <=> u.writable + j \in t.data
      BY <1>13, <3>1 DEF Reader, Same
    <3>4. j \in OnesOf(src, n, TRUE) <=> bits[j + 1] = 1
      <4>1. bits \in [1..n -> {0, 1}]
        BY <1>1, <1>2
      <4>2. j \in RightOnes(LeftAligned(bits), n) <=> bits[j + 1] = 1
        BY <1>2, <3>1, <4>1, WholeOnes
      <4> QED
        BY <4>2 DEF src, RightOnes
    <3>5. bits[i] \in {0, 1}
      BY <1>1, <1>2
    <3> QED
      BY <3>1, <3>2, <3>3, <3>4, <3>5 DEF BitAt
  <2>3. [i \in 1..n |-> BitAt(q, q.readable + i - 1)] = bits
    BY <1>1, <1>2, <2>2
  <2>4. GetString(r) = [value |-> text, stream |-> MoveTo(r, t.writable)]
    BY <1>5, <1>13, <1>16, <1>18, <2>1, <2>3
  <2> QED
    BY <2>4 DEF Result
<1> QED
  BY <1>17, <1>18

-----------------------------------------------------------------------------
(* Bits of another stream.                                                   *)

\* Bits that are left where they are in their bytes.
PutLeft(s, src, n) == PutBits(s, src, n, FALSE)
GetLeft(s, n) == GetBits(s, n, FALSE)
LeftOnes(src, n) == OnesOf(src, n, FALSE)
LeftByte(s, p, n) == GetByte(s, p, n, FALSE)

\* WriteBits() of an array that is left aligned.
LEMMA LeftIs ==
  ASSUME NEW s, Fits(s), NEW n \in Nat, NEW src, Source(src, n)
  PROVE  Writes(s, PutLeft(s, src, n), n, LeftOnes(src, n))
<1> DEFINE right == FALSE
<1>1. right \in BOOLEAN
  OBVIOUS
<1>2. PutLeft(s, src, n) = PutBits(s, src, n, right) /\ LeftOnes(src, n) = OnesOf(src, n, right)
  BY DEF PutLeft, LeftOnes
<1> HIDE DEF right
<1>3. Writes(s, PutBits(s, src, n, right), n, OnesOf(src, n, right))
  BY <1>1, PutBitsIs
<1> QED
  BY <1>2, <1>3

\* A byte of the memory that is read where it begins.
LEMMA LeftByteIs ==
  ASSUME NEW s, NEW k \in Nat, NEW n
  PROVE  LeftByte(s, k * ByteBits, n) = {i \in Offsets : k * ByteBits + i \in s.data}
<1> DEFINE p == k * ByteBits
           start == p % ByteBits
           seen == {i \in Offsets : /\ p + i \in s.data
                                    /\ start + i < ByteBits \/ n > ByteBits - start}
<1>1. LeftByte(s, p, n) = seen
  BY DEF LeftByte, GetByte
<1>2. start = 0
  <2>1. 0 \in 0..(ByteBits - 1) /\ p + 0 = p
    BY ByteFacts
  <2>2. (p + 0) % ByteBits = 0
    BY <2>1, PlaceOf
  <2> QED
    BY <2>1, <2>2
<1>3. \A i \in Offsets : i \in Nat /\ i < ByteBits
  BY ByteFacts
<1> HIDE DEF start
<1>4. \A i \in Offsets : start + i < ByteBits
  BY <1>2, <1>3
<1> QED
  BY <1>1, <1>4

\* Whole bytes of a stream, written again.
LEMMA LeftSource ==
  ASSUME NEW s, NEW m \in Nat, s.readable = m * ByteBits, NEW n \in Nat
  PROVE  /\ Source(GetLeft(s, RoundUp(n)), n)
         /\ \A j \in 0..(n - 1) : j \in LeftOnes(GetLeft(s, RoundUp(n)), n) <=> s.readable + j \in s.data
<1> DEFINE N == BITS_TO_BYTES(n)
           src == GetLeft(s, RoundUp(n))
           p == m * ByteBits
           byte(k) == {i \in Offsets : (m + (k - 1)) * ByteBits + i \in s.data}
<1>1. N \in Nat /\ BITS_TO_BYTES(RoundUp(n)) = N /\ RoundUp(n) \in Nat
  <2>1. N \in Nat /\ RoundUp(n) = N * ByteBits /\ RoundUp(n) \in Nat
    BY RoundIs
  <2> HIDE DEF N
  <2>2. BITS_TO_BYTES(N * ByteBits) = N
    BY <2>1, WholeBytes
  <2> QED
    BY <2>1, <2>2
<1>2. src = [k \in 1..N |-> LeftByte(s, s.readable + (k - 1) * ByteBits, RoundUp(n) - (k - 1) * ByteBits)]
  BY <1>1 DEF GetLeft, GetBits, LeftByte
<1> HIDE DEF src, N
<1>3. ASSUME NEW k \in 1..N PROVE src[k] = byte(k)
  <2> DEFINE l == m + (k - 1)
             left == RoundUp(n) - (k - 1) * ByteBits
  <2>1. l \in Nat /\ s.readable + (k - 1) * ByteBits = l * ByteBits
    BY <1>1, ByteFacts
  <2>2. src[k] = LeftByte(s, l * ByteBits, left)
    BY <1>2, <2>1
  <2> HIDE DEF l, left
  <2>3. src[k] = {i \in Offsets : l * ByteBits + i \in s.data}
    BY <2>1, <2>2, LeftByteIs
  <2> QED
    BY <2>3 DEF l
<1>4. Source(src, n)
  BY <1>3 DEF Source, N
<1>5. ASSUME NEW j \in 0..(n - 1)
      PROVE  j \in LeftOnes(src, n) <=> s.readable + j \in s.data
  <2> DEFINE q == j \div ByteBits
             i == j % ByteBits
             left == n - q * ByteBits
  <2>0. j \in Nat
    OBVIOUS
  <2>1. q \in Nat /\ i \in 0..(ByteBits - 1) /\ j = q * ByteBits + i /\ j \in Nat
    BY <2>0, PlaceOf
  <2>2. j \in LeftOnes(src, n) <=> q + 1 \in 1..N /\ i \in src[q + 1]
    BY <2>1 DEF LeftOnes, OnesOf, Shifted, N
  <2> HIDE DEF q, i
  <2>3. q + 1 \in 1..N /\ (q + 1) - 1 = q
    <3>1. ~ N <= q
      <4>1. N <= q => N * ByteBits <= q * ByteBits
        BY <1>1, <2>1, ByteFacts, TimesMonotone
      <4>2. n <= N * ByteBits /\ N * ByteBits \in Nat
        BY RoundIs DEF N
      <4>3. q * ByteBits \in Nat
        BY <2>1, ByteFacts
      <4> DEFINE a == N * ByteBits
                 b == q * ByteBits
      <4>4. a \in Nat /\ b \in Nat /\ n <= a /\ j = b + i /\ (N <= q => a <= b)
        BY <2>1, <4>1, <4>2, <4>3
      <4> HIDE DEF a, b
      <4> QED
        BY <2>1, <4>4
    <3> QED
      BY <1>1, <2>1, <3>1
  <2>4. src[q + 1] = {o \in Offsets : (m + q) * ByteBits + o \in s.data}
    BY <1>3, <2>3
  <2>5. i \in Offsets /\ (m + q) * ByteBits + i = s.readable + j
    <3>1. (m + q) * ByteBits = m * ByteBits + q * ByteBits /\ m * ByteBits \in Nat /\ q * ByteBits \in Nat
      BY <2>1, ByteFacts
    <3> QED
      BY <2>1, <3>1 DEF Offsets
  <2>6. i \in src[q + 1] <=> s.readable + j \in s.data
    BY <2>4, <2>5
  <2> QED
    BY <2>2, <2>3, <2>6
<1> QED
  BY <1>4, <1>5 DEF src

\* The single bits at the start of Write(stream, n).
CopiedBits(source) == [k \in 1..Single(source) |-> BitAt(source, source.readable + k - 1)]

\* The bits that are copied one at a time bring the source to the start of a byte.
LEMMA SingleIs ==
  ASSUME NEW source \in Stream
  PROVE  /\ Single(source) \in Nat /\ source.readable \in Nat
         /\ \E m \in Nat : Skip(source, Single(source)).readable = m * ByteBits
         /\ Skip(source, Single(source)).readable = source.readable + Single(source)
         /\ Skip(source, Single(source)).data = source.data
<1> DEFINE p == source.readable
<1>1. p \in Nat
  BY StreamIs
<1>2. /\ p \div ByteBits \in Nat /\ p % ByteBits \in 0..(ByteBits - 1)
      /\ p = (p \div ByteBits) * ByteBits + (p % ByteBits)
  BY <1>1, PlaceOf
<1> DEFINE q == p \div ByteBits
           i == p % ByteBits
<1>3. Single(source) = ByteBits - i
  BY DEF Single
<1>4. Skip(source, Single(source)).readable = p + Single(source) /\ Skip(source, Single(source)).data = source.data
  BY DEF Skip, Stream
<1> HIDE DEF p, q, i
<1>5. q \in Nat /\ i \in 0..(ByteBits - 1) /\ p = q * ByteBits + i
  BY <1>2 DEF q, i
<1>6. p + (ByteBits - i) = (q + 1) * ByteBits /\ q + 1 \in Nat /\ ByteBits - i \in Nat
  BY <1>5, ByteFacts
<1>7. Skip(source, Single(source)).readable = (q + 1) * ByteBits
  BY <1>3, <1>4, <1>6
<1> QED
  BY <1>1, <1>3, <1>4, <1>6, <1>7 DEF p

\* The first loop of Write(stream, n).
Loop(t, g, source, single) == t = [k \in 0..single |-> IF k = 0 THEN g
                                     ELSE PutBit(t[k - 1], BitAt(source, source.readable + k - 1))]

\* A loop over bits appends them.
LEMMA BitLoopAppends ==
  ASSUME NEW s, Fits(s), NEW g, Appends(s, g, 0, {}), NEW n \in Nat, NEW bits, NEW t, BitLoop(t, g, bits, n)
  PROVE  Appends(s, t[n], n, OnesAmong(bits, n))
<1> DEFINE D == 0..n
<1>1. t = [k \in D |-> IF k = 0 THEN g ELSE PutBit(t[k - 1], bits[k])]
  BY DEF BitLoop
<1>2. D = 0..n
  OBVIOUS
<1> HIDE DEF D
<1> QED
  BY <1>1, <1>2, BitByBit

\* The loop that copies single bits writes those of the source.
LEMMA LoopIs ==
  ASSUME NEW g, NEW source, NEW single \in Nat, NEW bits,
         \A k \in 1..single : bits[k] = BitAt(source, source.readable + k - 1), NEW t
  PROVE  BitLoop(t, g, bits, single) <=> Loop(t, g, source, single)
<1>1. \A k \in 0..single : k = 0 \/ bits[k] = BitAt(source, source.readable + k - 1)
  OBVIOUS
<1>2. [k \in 0..single |-> IF k = 0 THEN g ELSE PutBit(t[k - 1], bits[k])]
      = [k \in 0..single |-> IF k = 0 THEN g ELSE PutBit(t[k - 1], BitAt(source, source.readable + k - 1))]
  BY <1>1
<1> QED
  BY <1>2 DEF Loop, BitLoop

\* BitLoopIs and BitLoopAppends for it.
LEMMA LoopAppends ==
  ASSUME NEW s, Fits(s), NEW g, Appends(s, g, 0, {}), NEW source \in Stream, NEW single, single = Single(source)
  PROVE  /\ \E u : Loop(u, g, source, single)
         /\ \A t : Loop(t, g, source, single)
                     => Appends(s, t[single], single, OnesAmong(CopiedBits(source), single))
<1> DEFINE bits == CopiedBits(source)
<1>1. g \in Stream /\ single \in Nat
  BY SingleIs DEF Appends, Extends, Fits
<1>2. \A k \in 1..single : bits[k] = BitAt(source, source.readable + k - 1)
  BY DEF CopiedBits
<1> HIDE DEF bits
<1>3. ASSUME NEW t PROVE BitLoop(t, g, bits, single) <=> Loop(t, g, source, single)
  BY <1>1, <1>2, LoopIs
<1>4. \E u : BitLoop(u, g, bits, single)
  BY <1>1, BitLoopIs
<1>5. ASSUME NEW t, BitLoop(t, g, bits, single)
      PROVE  Appends(s, t[single], single, OnesAmong(bits, single))
  BY <1>1, <1>5, BitLoopAppends
<1> QED
  BY <1>3, <1>4, <1>5 DEF bits

\* Write(source, n) in its parts: the single bits, then the bytes from the next whole one.
LEMMA CopyParts ==
  ASSUME NEW s, Fits(s), NEW source \in Stream, NEW n \in Nat
  PROVE  \E u : /\ Appends(s, u, Single(source), OnesAmong(CopiedBits(source), Single(source)))
                /\ PutCopy(s, source, n) = PutLeft(u, GetLeft(Skip(source, Single(source)), RoundUp(n + 1)), n + 1)
<1> DEFINE single == Single(source)
           g == Grow(s, n)
           t == CHOOSE u : Loop(u, g, source, single)
<1>1. PutCopy(s, source, n) = PutLeft(t[single], GetLeft(Skip(source, single), RoundUp(n + 1)), n + 1)
  BY Zenon DEF PutCopy, PutLeft, GetLeft, Loop
<1>2. Appends(s, g, 0, {})
  BY GrowIs
<1> HIDE DEF g
<1>3. /\ \E u : Loop(u, g, source, single)
      /\ \A u : Loop(u, g, source, single)
                  => Appends(s, u[single], single, OnesAmong(CopiedBits(source), single))
  BY <1>2, LoopAppends
<1>4. Loop(t, g, source, single)
  BY <1>3
<1> HIDE DEF t
<1>5. Appends(s, t[single], single, OnesAmong(CopiedBits(source), single))
  BY <1>3, <1>4
<1> QED
  BY <1>1, <1>5

\* The n bits are there, after what was written, and more.
LEMMA CopyIs ==
  ASSUME NEW s, Fits(s), NEW source \in Stream, NEW n \in Nat, NEW t, t = PutCopy(s, source, n)
  PROVE  /\ Fits(t) /\ t.readable = s.readable /\ s.writable + n <= t.writable /\ t.writable <= t.allocated
         /\ \A p \in 0..(s.writable - 1) : p \in t.data <=> p \in s.data
         /\ Clean(s) => \A j \in 0..(n - 1) : s.writable + j \in t.data <=> source.readable + j \in source.data
<1> DEFINE single == Single(source)
           bits == CopiedBits(source)
           aligned == Skip(source, single)
           src == GetLeft(aligned, RoundUp(n + 1))
           more == n + 1
<1>1. PICK u : /\ Appends(s, u, single, OnesAmong(bits, single))
               /\ t = PutLeft(u, src, more)
  BY CopyParts
<1>2. /\ single \in Nat /\ source.readable \in Nat
      /\ aligned.readable = source.readable + single /\ aligned.data = source.data
      /\ more \in Nat
  BY SingleIs
<1>3. PICK m \in Nat : aligned.readable = m * ByteBits
  BY SingleIs
<1>m. src = GetLeft(aligned, RoundUp(more))
  OBVIOUS
<1>b. \A k \in 1..single : bits[k] = BitAt(source, source.readable + k - 1)
  BY DEF CopiedBits
<1>n. more = n + 1
  OBVIOUS
<1> HIDE DEF aligned, single, bits, src, more
<1>4. /\ Source(src, more)
      /\ \A j \in 0..(more - 1) : j \in LeftOnes(src, more) <=> aligned.readable + j \in aligned.data
  BY <1>2, <1>3, <1>m, LeftSource
<1>5. OnesAmong(bits, single) \subseteq 0..(single - 1)
  BY DEF OnesAmong
<1>6. Follows(s, u) /\ u.writable = s.writable + single
  BY <1>1, <1>2, <1>5, AppendsFollows
<1>7. Fits(u) /\ (Clean(s) => Clean(u))
  BY <1>6 DEF Follows
<1>8. Writes(u, t, more, LeftOnes(src, more))
  BY <1>1, <1>2, <1>4, <1>7, LeftIs
<1>9. s.writable \in Nat /\ u.writable \in Nat
  BY <1>7, FitsIs
<1>10. /\ Fits(t) /\ t.readable = u.readable /\ t.writable = u.writable + more /\ t.writable <= t.allocated
       /\ \A p \in 0..(u.writable - 1) : p \in t.data <=> p \in u.data
  BY <1>8 DEF Writes, Appends, Extends
<1>11. /\ u.readable = s.readable
       /\ \A p \in 0..(s.writable - 1) : p \in u.data <=> p \in s.data
  BY <1>6 DEF Follows
<1>12. \A p \in 0..(s.writable - 1) : p \in t.data <=> p \in s.data
  <2>1. \A p \in 0..(s.writable - 1) : p \in 0..(u.writable - 1)
    BY <1>2, <1>6, <1>9
  <2> QED
    BY <1>10, <1>11, <2>1
<1>13. ASSUME Clean(s), NEW j \in 0..(n - 1)
       PROVE  s.writable + j \in t.data <=> source.readable + j \in source.data
  <2>1. CASE j < single
    <3>1. j \in 0..(single - 1) /\ j + 1 \in 1..single /\ s.writable + j \in 0..(u.writable - 1)
          /\ source.readable + (j + 1) - 1 = source.readable + j
      BY <1>2, <1>6, <1>9, <2>1
    <3>2. s.writable + j \in u.data <=> j \in OnesAmong(bits, single)
      BY <1>1, <1>13, <3>1 DEF Appends
    <3>3. j \in OnesAmong(bits, single) <=> BitAt(source, source.readable + j) = 1
      BY <1>b, <3>1 DEF OnesAmong
    <3>4. s.writable + j \in t.data <=> s.writable + j \in u.data
      BY <1>10, <3>1
    <3> QED
      BY <3>2, <3>3, <3>4 DEF BitAt
  <2>2. CASE ~ j < single
    <3> DEFINE i == j - single
    <3>1. i \in 0..(more - 1) /\ u.writable + i = s.writable + j /\ aligned.readable + i = source.readable + j
      BY <1>2, <1>6, <1>9, <1>n, <2>2
    <3> HIDE DEF i
    <3>2. u.writable + i \in t.data <=> i \in LeftOnes(src, more)
      BY <1>7, <1>8, <1>13, <3>1 DEF Writes, Appends
    <3>3. i \in LeftOnes(src, more) <=> aligned.readable + i \in aligned.data
      BY <1>4, <3>1
    <3> QED
      BY <1>2, <3>1, <3>2, <3>3
  <2> QED
    BY <2>1, <2>2
<1>14. s.writable + n <= t.writable
  BY <1>2, <1>6, <1>9, <1>10, <1>n
<1> QED
  BY <1>10, <1>11, <1>12, <1>13, <1>14

\* They are read as they are in the other stream.
LEMMA CopyRead ==
  ASSUME NEW s, Fits(s), Clean(s), NEW source \in Stream, NEW n \in Nat, NEW t, t = PutCopy(s, source, n),
         NEW r \in Stream, r.readable = s.writable, NEW e, e = s.writable + n, Same(r, t, s.writable, e)
  PROVE  Result(GetNumber(r, n), GetNumber(source, n).value, r, [t EXCEPT !.writable = e])
<1>0. \A j \in 0..(n - 1) : s.writable + j \in t.data <=> source.readable + j \in source.data
  BY CopyIs
<1>1. s.writable \in Nat /\ source.readable \in Nat
  BY FitsIs, StreamIs
<1>2. Alike(r, r.readable, source, source.readable, n)
  <2>1. ASSUME NEW j \in 0..(n - 1) PROVE r.readable + j \in r.data <=> source.readable + j \in source.data
    <3>1. s.writable + j \in s.writable..(e - 1)
      BY <1>1
    <3>2. s.writable + j \in r.data <=> s.writable + j \in t.data
      BY <3>1 DEF Same
    <3>3. s.writable + j \in t.data <=> source.readable + j \in source.data
      BY <1>0
    <3> QED
      BY <3>2, <3>3
  <2> QED
    BY <2>1 DEF Alike
<1>3. GetBits(r, n, TRUE) = GetBits(source, n, TRUE)
  BY <1>1, <1>2, GetBitsSame
<1>4. GetNumber(r, n).value = GetNumber(source, n).value /\ GetNumber(r, n).stream = Skip(r, n)
  BY <1>3 DEF GetNumber
<1>5. Skip(r, n) = MoveTo(r, e)
  BY DEF Skip, MoveTo
<1> QED
  BY <1>4, <1>5 DEF Result

-----------------------------------------------------------------------------
(* Readers move forward, whatever they find.                                 *)

Moves(s, t) == \E p \in Nat : t = MoveTo(s, p)

\* A skip moves a reader.
LEMMA SkipMoves ==
  ASSUME NEW s \in Stream, NEW n \in Nat, NEW t, t = Skip(s, n)
  PROVE  Moves(s, t) /\ t \in Stream /\ t.readable = s.readable + n /\ t.readable \in Nat /\ t.data = s.data
<1>1. s.readable \in Nat /\ s.readable + n \in Nat
  BY StreamIs
<1>2. t = MoveTo(s, s.readable + n)
  BY DEF Skip, MoveTo
<1>3. Moves(s, t)
  BY <1>1, <1>2 DEF Moves
<1>4. t \in Stream /\ t.readable = s.readable + n /\ t.data = s.data
  BY <1>1 DEF Skip, Stream
<1> QED
  BY <1>1, <1>3, <1>4

\* Moves add up.
LEMMA MovesBoth ==
  ASSUME NEW s, NEW t, Moves(s, t), NEW u, Moves(t, u)
  PROVE  Moves(s, u)
<1>1. PICK p \in Nat : t = MoveTo(s, p)
  BY DEF Moves
<1>2. PICK q \in Nat : u = MoveTo(t, q)
  BY DEF Moves
<1>3. u = MoveTo(s, q)
  BY <1>1, <1>2 DEF MoveTo
<1> QED
  BY <1>3 DEF Moves

\* A reader that moves is a stream with what it had.
LEMMA MovesTyped ==
  ASSUME NEW s \in Stream, NEW t, Moves(s, t)
  PROVE  t \in Stream /\ t.data = s.data /\ t.writable = s.writable /\ t.allocated = s.allocated
<1>1. PICK p \in Nat : t = MoveTo(s, p)
  BY DEF Moves
<1> QED
  BY <1>1 DEF MoveTo, Stream

\* The length of two arrays.
LEMMA LenOfBoth ==
  ASSUME NEW a, NEW b, NEW m \in Nat, NEW n \in Nat, a = [k \in 1..m |-> a[k]], b = [k \in 1..n |-> b[k]]
  PROVE  Len(a \o b) \in Nat
<1> DEFINE S == {a[k] : k \in 1..m} \cup {b[k] : k \in 1..n}
<1>1. (\A k \in 1..m : a[k] \in S) /\ (\A k \in 1..n : b[k] \in S)
  OBVIOUS
<1> HIDE DEF S
<1>2. a \in [1..m -> S] /\ b \in [1..n -> S]
  BY <1>1
<1>3. a \in Seq(S) /\ b \in Seq(S)
  BY <1>2
<1>4. a \o b \in Seq(S)
  BY <1>3
<1> QED
  BY <1>4

\* ReadMini() moves, whatever the bits are, and gets a number.
LEMMA MiniMoves ==
  ASSUME NEW s \in Stream, NEW size \in Nat \ {0}, NEW unsigned
  PROVE  Moves(s, GetMini(s, size, unsigned).stream) /\ GetMini(s, size, unsigned).value \in Nat
<1> DEFINE Z == Zeros(s, size)
           skipped == Max(Z)
           bit == BitAt(s, s.readable + skipped)
           from == Skip(s, skipped + 1)
           n == IF bit = 1 THEN (size - skipped) * ByteBits ELSE Half
           bytes == GetRight(from, n)
           low == LowBytes(bytes, bit, unsigned)
<1>1. Z \in SUBSET (0..(size - 1)) /\ size - 1 \in Nat /\ 0 \in Z
  <2>1. s.readable \in Nat
    BY StreamIs
  <2>2. \A p \in s.readable..(s.readable + 0 - 1) : p \notin s.data
    BY <2>1
  <2> QED
    BY <2>2 DEF Zeros
<1> HIDE DEF Z
<1>2. skipped \in 0..(size - 1)
  BY <1>1, MaxIs
<1>3. skipped = Max(Zeros(s, size))
  BY DEF Z
<1> HIDE DEF skipped
<1>4. n \in Nat
  <2>1. (size - skipped) * ByteBits \in Nat /\ Half \in Nat
    BY <1>2, ByteFacts
  <2> QED
    BY <2>1
<1>5. bit = BitAt(s, s.readable + skipped) /\ from = Skip(s, skipped + 1)
      /\ n = (IF bit = 1 THEN (size - skipped) * ByteBits ELSE Half)
      /\ bytes = GetRight(from, n)
  OBVIOUS
<1>6. bytes = [k \in 1..BITS_TO_BYTES(n) |-> bytes[k]]
  BY DEF GetRight, GetBits
<1> HIDE DEF bit, from, n, bytes
<1>7. /\ GetMini(s, size, unsigned).stream = Skip(from, n)
      /\ GetMini(s, size, unsigned).value = Number(Extended(low, size, unsigned))
  BY <1>3, <1>5, GetMiniIs
<1>8. Moves(s, Skip(from, n))
  <2>1. Moves(s, from) /\ from \in Stream
    <3>1. skipped + 1 \in Nat
      BY <1>2
    <3> QED
      BY <1>5, <3>1, SkipMoves
  <2>2. Moves(from, Skip(from, n))
    BY <1>4, <2>1, SkipMoves
  <2> QED
    BY <2>1, <2>2, MovesBoth
<1>9. PICK m \in Nat : low = [k \in 1..m |-> low[k]]
  <2>1. CASE bit = 1
    <3>1. low = bytes
      BY <2>1 DEF LowBytes
    <3>2. BITS_TO_BYTES(n) \in Nat
      BY <1>4, RoundIs
    <3> QED
      BY <1>6, <3>1, <3>2
  <2>2. CASE bit # 1
    <3>1. low = <<bytes[1] \cup (Match(unsigned) \cap Upper)>>
      BY <2>2 DEF LowBytes, Half1
    <3> HIDE DEF low
    <3>2. low = [k \in 1..1 |-> low[k]]
      BY <3>1
    <3> QED
      BY <3>2
  <2> QED
    BY <2>1, <2>2
<1> HIDE DEF low
<1>10. Len(low) = m
  BY <1>9
<1> DEFINE j == IF size - m \in Nat THEN size - m ELSE 0
           rest == [k \in 1..(size - m) |-> Match(unsigned)]
<1>11. j \in Nat /\ rest = [k \in 1..j |-> rest[k]]
  <2>1. 1..(size - m) = 1..j
    BY <1>9
  <2> QED
    BY <2>1
<1>12. Extended(low, size, unsigned) = low \o rest
  BY <1>10 DEF Extended
<1> HIDE DEF j, rest
<1>13. Len(low \o rest) \in Nat
  BY <1>9, <1>11, LenOfBoth
<1>14. Number(low \o rest) \in Nat
  BY <1>13, NumberTyped
<1> QED
  BY <1>7, <1>8, <1>12, <1>14

\* What may be read: fields, and bits of another stream.
IsEntry(f) == IsField(f) \/ (f.kind = "copy" /\ f.bits \in Nat)

\* A value of a type is less than the first that does not fit.
LEMMA HasTypeIs ==
  ASSUME NEW v, NEW size, HasType(v, size)
  PROVE  size \in Nat \ {0} /\ v \in Nat /\ v < Power2(size * ByteBits)
<1> DEFINE n == size * ByteBits
           all == Bytes(v, size)
<1>1. size \in Nat \ {0} /\ v \in Nat /\ Number(all) = v
  BY DEF HasType
<1>2. n \in Nat /\ BITS_TO_BYTES(n) <= size /\ size \in Nat
  BY <1>1, WholeBytes, ByteFacts
<1>3. Masked(all, n) = all
  BY <1>1, BytesAre, MaskedWhole
<1> HIDE DEF n, all
<1>4. Number(Masked(Bytes(v, size), n)) = Rem(v, Power2(n))
  BY SMTT(30), <1>1, <1>2, NumberOfLow
<1>5. v = Rem(v, Power2(n))
  BY <1>1, <1>3, <1>4 DEF all
<1>6. Power2(n) \in Nat \ {0}
  BY <1>2, Power2Is
<1> DEFINE d == Power2(n)
<1> HIDE DEF d
<1>7. Rem(v, d) < d
  BY <1>1, <1>6, QuoRem DEF d
<1>8. v < Power2(n)
  BY <1>5, <1>7 DEF d
<1> QED
  BY <1>1, <1>8 DEF n

\* Read(T) moves.
LEMMA GetIntMoves ==
  ASSUME NEW s \in Stream, NEW size \in Nat
  PROVE  Moves(s, GetInt(s, size).stream)
<1>1. size * ByteBits \in Nat
  BY ByteFacts
<1>2. GetInt(s, size).stream = Skip(s, size * ByteBits)
  BY DEF GetInt
<1> QED
  BY <1>1, <1>2, SkipMoves

\* So does the reader of any entry of the script.
LEMMA GetMoves ==
  ASSUME NEW s \in Stream, NEW f, IsEntry(f)
  PROVE  Moves(s, Get(s, f).stream)
<1> DEFINE t == Get(s, f).stream
<1>1. CASE f.kind = "bit"
  <2>1. t = Skip(s, 1) /\ 1 \in Nat
    BY <1>1 DEF Get, GetBit
  <2> HIDE DEF t
  <2>2. Moves(s, t)
    BY <2>1, SkipMoves
  <2> QED
    BY <2>2 DEF t
<1>2. CASE f.kind \in {"bits", "copy"}
  <2>1. f.bits \in Nat
    BY <1>2 DEF IsEntry, IsField
  <2>2. t = Skip(s, f.bits)
    BY <1>2 DEF Get, GetNumber
  <2> HIDE DEF t
  <2>3. Moves(s, t)
    BY <2>1, <2>2, SkipMoves
  <2> QED
    BY <2>3 DEF t
<1>3. CASE f.kind = "int"
  <2>1. f.size \in Nat
    BY <1>3, HasTypeIs DEF IsEntry, IsField
  <2>2. Get(s, f) = GetInt(s, f.size)
    BY <1>3 DEF Get
  <2> QED
    BY <2>1, <2>2, GetIntMoves
<1>4. CASE f.kind = "aligned"
  <2> DEFINE a == AlignReadable(s)
  <2>1. f.size \in Nat
    BY <1>4, HasTypeIs DEF IsEntry, IsField
  <2>2. Get(s, f) = GetInt(a, f.size)
    BY <1>4 DEF Get, GetAligned
  <2>3. Moves(s, a) /\ a \in Stream
    <3>1. RoundUp(s.readable) \in Nat
      BY StreamIs, RoundIs
    <3>2. a = MoveTo(s, RoundUp(s.readable))
      BY DEF AlignReadable, MoveTo
    <3>3. Moves(s, a)
      BY <3>1, <3>2 DEF Moves
    <3> QED
      BY <3>3, MovesTyped
  <2> HIDE DEF a
  <2>4. Moves(a, GetInt(a, f.size).stream)
    BY <2>1, <2>3, GetIntMoves
  <2> QED
    BY <2>2, <2>3, <2>4, MovesBoth
<1>5. CASE f.kind = "changed"
  <2> DEFINE a == Skip(s, 1)
  <2>1. f.size \in Nat
    BY <1>5, HasTypeIs DEF IsEntry, IsField
  <2>2. Get(s, f) = IF GetBit(s).value = 0 THEN [value |-> f.last, stream |-> a] ELSE GetInt(a, f.size)
    BY <1>5 DEF Get, GetChanged
  <2>3. Moves(s, a) /\ a \in Stream
    <3>1. 1 \in Nat /\ a = Skip(s, 1)
      OBVIOUS
    <3> HIDE DEF a
    <3> QED
      BY <3>1, SkipMoves
  <2> HIDE DEF a
  <2>4. Moves(a, GetInt(a, f.size).stream)
    BY <2>1, <2>3, GetIntMoves
  <2>5. Moves(s, GetInt(a, f.size).stream)
    BY <2>3, <2>4, MovesBoth
  <2> QED
    BY <2>2, <2>3, <2>5
<1>6. CASE f.kind = "mini"
  <2>1. f.size \in Nat \ {0}
    BY <1>6, HasTypeIs DEF IsEntry, IsField
  <2>2. Get(s, f) = GetMini(s, f.size, f.unsigned)
    BY <1>6 DEF Get
  <2> QED
    BY <2>1, <2>2, MiniMoves
<1>7. CASE f.kind = "ranged"
  <2> DEFINE a == Skip(s, 1)
             n == RequiredBits(f.min, f.max, f.size)
             u == IF f.outside THEN a ELSE s
  <2>1. /\ f.size \in Nat \ {0} /\ f.min \in Nat /\ f.max \in Nat /\ f.min <= f.max
        /\ f.max < Power2(f.size * ByteBits)
    BY <1>7, HasTypeIs DEF IsEntry, IsField
  <2>2. n \in Nat
    BY <2>1, RequiredBitsIs
  <2>3. Moves(s, a) /\ a \in Stream
    <3>1. 1 \in Nat /\ a = Skip(s, 1)
      OBVIOUS
    <3> HIDE DEF a
    <3> QED
      BY <3>1, SkipMoves
  <2>4. Moves(s, s)
    <3>1. s.readable \in Nat /\ s = MoveTo(s, s.readable)
      BY StreamIs DEF Stream, MoveTo
    <3> QED
      BY <3>1 DEF Moves
  <2>5. \/ t = GetShort(a, f.size).stream
        \/ t = Skip(u, n)
    <3>1. Get(s, f) = GetRanged(s, f.min, f.max, f.outside, f.size)
      BY <1>7 DEF Get
    <3>2. CASE f.outside /\ GetBit(s).value = 1
      <4>1. GetRanged(s, f.min, f.max, f.outside, f.size) = GetShort(a, f.size)
        BY <3>2, Zenon DEF GetRanged, GetShort
      <4> QED
        BY <3>1, <4>1
    <3>3. CASE ~ (f.outside /\ GetBit(s).value = 1)
      <4>1. GetRanged(s, f.min, f.max, f.outside, f.size)
            = [value |-> GetNumber(u, n).value + f.min, stream |-> Skip(u, n)]
        BY <3>3, Zenon DEF GetRanged
      <4> QED
        BY <3>1, <4>1
    <3> QED
      BY <3>2, <3>3
  <2>6. Moves(s, u) /\ u \in Stream
    <3> HIDE DEF a
    <3> QED
      BY <2>3, <2>4
  <2>7. Moves(a, GetShort(a, f.size).stream)
    <3> DEFINE unsigned == TRUE
    <3>1. GetShort(a, f.size) = GetMini(a, f.size, unsigned)
      BY DEF GetShort
    <3> HIDE DEF unsigned, a
    <3> QED
      BY <2>1, <2>3, <3>1, MiniMoves
  <2> HIDE DEF a, n, u, t
  <2>8. Moves(s, GetShort(a, f.size).stream)
    BY <2>3, <2>7, MovesBoth
  <2>9. Moves(u, Skip(u, n))
    BY <2>2, <2>6, SkipMoves
  <2>10. Moves(s, Skip(u, n))
    BY <2>6, <2>9, MovesBoth
  <2>11. Moves(s, t)
    BY <2>5, <2>8, <2>10
  <2> QED
    BY <2>11 DEF t
<1>8. CASE f.kind = "string"
  <2> DEFINE g == GetShort(s, UintBytes)
             a == g.stream
             n == g.value
  <2>1. Moves(s, a) /\ n \in Nat
    <3> DEFINE unsigned == TRUE
    <3>1. g = GetMini(s, UintBytes, unsigned)
      BY DEF GetShort
    <3> HIDE DEF unsigned, g
    <3> QED
      BY <3>1, CodecAssumption, MiniMoves
  <2>2. t = a \/ t = Skip(a, n)
    <3>1. Get(s, f) = GetString(s)
      BY <1>8 DEF Get
    <3>2. CASE n = 0 \/ n > Payload(a)
      <4>1. GetString(s) = [value |-> <<>>, stream |-> a]
        BY <3>2, Zenon DEF GetString, GetShort
      <4> QED
        BY <3>1, <4>1
    <3>3. CASE ~ (n = 0 \/ n > Payload(a))
      <4>1. GetString(s) = [value |-> Decoded([i \in 1..n |-> BitAt(a, a.readable + i - 1)]), stream |-> Skip(a, n)]
        BY <3>3, Zenon DEF GetString, GetShort
      <4> QED
        BY <3>1, <4>1
    <3> QED
      BY <3>2, <3>3
  <2> HIDE DEF a, n, t
  <2>3. Moves(a, Skip(a, n))
    BY <2>1, MovesTyped, SkipMoves
  <2>4. Moves(s, t)
    BY <2>1, <2>2, <2>3, MovesBoth
  <2> QED
    BY <2>4 DEF t
<1> QED
  BY <1>1, <1>2, <1>3, <1>4, <1>5, <1>6, <1>7, <1>8 DEF IsEntry, IsField

-----------------------------------------------------------------------------
(* Fields.                                                                   *)

\* What FieldsAssumption says of a text, as a function.
LEMMA TextIs ==
  ASSUME NEW f, IsField(f), f.kind = "string"
  PROVE  Text(f.text)
<1> DEFINE bits == EncodeArray(f.text)
           n == Len(bits)
<1>1. bits \in Seq({0, 1}) /\ RoundUp(n) = n /\ HasType(n, UintBytes)
  BY DEF IsField
<1>2. bits \in [1..n -> {0, 1}] /\ n \in Nat
  <2> HIDE DEF bits
  <2> QED
    BY <1>1
<1> HIDE DEF n
<1>3. BITS_TO_BYTES(n) \in Nat /\ BITS_TO_BYTES(n) * ByteBits = n
  <2>1. BITS_TO_BYTES(n) \in Nat /\ RoundUp(n) = BITS_TO_BYTES(n) * ByteBits
    BY <1>2, RoundIs
  <2> QED
    BY <1>1, <2>1
<1>4. n < Power2(UintBytes * ByteBits)
  BY <1>1, HasTypeIs
<1>5. \E m \in Nat : bits \in [1..(m * ByteBits) -> {0, 1}]
  BY <1>2, <1>3
<1> QED
  BY <1>4, <1>5 DEF Text, n

\* Every field is written after what is there, and fits,
LEMMA FieldFollows ==
  ASSUME NEW s, Fits(s), NEW f, IsField(f)
  PROVE  Kept(s, Put(s, f))
<1>1. CASE f.kind = "bit"
  BY <1>1, BitFollows DEF Put, Kept
<1>2. CASE f.kind = "bits"
  <2>1. f.bits \in Nat
    BY <1>2 DEF IsField
  <2>2. Put(s, f) = PutRight(s, Bytes(f.value, BITS_TO_BYTES(f.bits)), f.bits)
    BY <1>2 DEF Put, PutRight
  <2> QED
    BY <2>1, <2>2, RunFollows
<1>3. CASE f.kind = "int"
  <2>1. f.size \in Nat
    BY <1>3, HasTypeIs DEF IsField
  <2>2. Put(s, f) = PutInt(s, f.value, f.size)
    BY <1>3 DEF Put
  <2> QED
    BY <2>1, <2>2, IntFollows
<1>4. CASE f.kind = "aligned"
  <2>1. f.size \in Nat
    BY <1>4, HasTypeIs DEF IsField
  <2>2. Put(s, f) = PutAligned(s, f.value, f.size)
    BY <1>4 DEF Put
  <2> QED
    BY <2>1, <2>2, AlignedFollows
<1>5. CASE f.kind = "changed"
  <2>1. f.size \in Nat
    BY <1>5, HasTypeIs DEF IsField
  <2>2. Put(s, f) = PutChanged(s, f.value, f.last, f.size)
    BY <1>5 DEF Put
  <2> QED
    BY <2>1, <2>2, ChangedFollows
<1>6. CASE f.kind = "mini"
  <2>1. f.size \in Nat \ {0} /\ f.unsigned \in BOOLEAN
    BY <1>6, HasTypeIs DEF IsField
  <2>2. Put(s, f) = PutMini(s, f.value, f.size, f.unsigned)
    BY <1>6 DEF Put
  <2> QED
    BY <2>1, <2>2, MiniFollows
<1>7. CASE f.kind = "ranged"
  <2>1. /\ f.size \in Nat \ {0} /\ f.min \in Nat /\ f.max \in Nat /\ f.min <= f.max
        /\ f.max < Power2(f.size * ByteBits) /\ f.outside \in BOOLEAN
    BY <1>7, HasTypeIs DEF IsField
  <2>2. Put(s, f) = PutRanged(s, f.value, f.min, f.max, f.outside, f.size)
    BY <1>7 DEF Put
  <2> QED
    BY <2>1, <2>2, RangedFollows
<1>8. CASE f.kind = "string"
  <2>1. Text(f.text)
    BY <1>8, TextIs
  <2>2. Put(s, f) = PutString(s, f.text)
    BY <1>8 DEF Put
  <2> QED
    BY <2>1, <2>2, StringFollows
<1> QED
  BY <1>1, <1>2, <1>3, <1>4, <1>5, <1>6, <1>7, <1>8 DEF IsField

\* and is read as it was written, if it loses nothing.
LEMMA FieldRead ==
  ASSUME NEW s, Fits(s), Clean(s), NEW f, IsField(f), Lossless(f),
         NEW r, NEW t, t = Put(s, f), Reader(r, s, t)
  PROVE  Result(Get(r, f), Meant(f), r, t)
<1>1. CASE f.kind = "bit"
  <2> DEFINE bit == f.value
  <2>1. bit \in {0, 1} /\ t = PutBit(s, bit) /\ Get(r, f) = GetBit(r) /\ Meant(f) = bit
    BY <1>1 DEF IsField, Put, Get, Meant
  <2> HIDE DEF bit
  <2> QED
    BY <2>1, BitRead DEF Result
<1>2. CASE f.kind = "bits"
  <2>1. f.bits \in Nat /\ f.value \in Nat
    BY <1>2 DEF IsField
  <2>2. t = PutRight(s, Bytes(f.value, BITS_TO_BYTES(f.bits)), f.bits)
    BY <1>2 DEF Put, PutRight
  <2>3. Get(r, f) = GetNumber(r, f.bits) /\ Meant(f) = Rem(f.value, Power2(f.bits))
    BY <1>2 DEF Get, Meant, Rem
  <2> QED
    BY <2>1, <2>2, <2>3, RunRead
<1>3. CASE f.kind = "int"
  <2>1. f.size \in Nat /\ f.value \in Nat /\ f.value < Power2(f.size * ByteBits)
    BY <1>3, HasTypeIs DEF IsField
  <2>2. t = PutInt(s, f.value, f.size) /\ Get(r, f) = GetInt(r, f.size) /\ Meant(f) = f.value
    BY <1>3 DEF Put, Get, Meant
  <2> QED
    BY <2>1, <2>2, IntRead
<1>4. CASE f.kind = "aligned"
  <2>1. f.size \in Nat /\ f.value \in Nat /\ f.value < Power2(f.size * ByteBits)
    BY <1>4, HasTypeIs DEF IsField
  <2>2. t = PutAligned(s, f.value, f.size) /\ Get(r, f) = GetAligned(r, f.size) /\ Meant(f) = f.value
    BY <1>4 DEF Put, Get, Meant
  <2> QED
    BY <2>1, <2>2, AlignedRead
<1>5. CASE f.kind = "changed"
  <2>1. f.size \in Nat /\ f.value \in Nat /\ f.value < Power2(f.size * ByteBits)
    BY <1>5, HasTypeIs DEF IsField
  <2>2. /\ t = PutChanged(s, f.value, f.last, f.size) /\ Get(r, f) = GetChanged(r, f.last, f.size)
        /\ Meant(f) = f.value
    BY <1>5 DEF Put, Get, Meant
  <2> QED
    BY <2>1, <2>2, ChangedRead
<1>6. CASE f.kind = "mini"
  <2>1. /\ f.size \in Nat \ {0} /\ f.unsigned \in BOOLEAN
        /\ f.value \in Nat /\ f.value < Power2(f.size * ByteBits)
    BY <1>6, HasTypeIs DEF IsField
  <2>2. /\ t = PutMini(s, f.value, f.size, f.unsigned) /\ Get(r, f) = GetMini(r, f.size, f.unsigned)
        /\ Meant(f) = f.value
    BY <1>6 DEF Put, Get, Meant
  <2>3. KeepsHalf(f.value, f.size, f.unsigned)
    BY <1>6 DEF Lossless
  <2> QED
    BY <2>1, <2>2, <2>3, MiniRead DEF Result
<1>7. CASE f.kind = "ranged"
  <2>1. /\ f.size \in Nat \ {0} /\ f.min \in Nat /\ f.max \in Nat /\ f.min <= f.max
        /\ f.max < Power2(f.size * ByteBits) /\ f.outside \in BOOLEAN
        /\ f.value \in Nat /\ f.value < Power2(f.size * ByteBits)
        /\ f.outside \/ f.value \in f.min..f.max
    BY <1>7, HasTypeIs DEF IsField
  <2>2. /\ t = PutRanged(s, f.value, f.min, f.max, f.outside, f.size)
        /\ Get(r, f) = GetRanged(r, f.min, f.max, f.outside, f.size)
        /\ Meant(f) = f.value
    BY <1>7 DEF Put, Get, Meant
  <2>3. f.value \in f.min..f.max \/ KeepsShort(f.value, f.size)
    BY <1>7 DEF Lossless, KeepsShort
  <2>4. f.value \in f.min..f.max \/ (f.outside /\ KeepsShort(f.value, f.size))
    BY <2>1, <2>3
  <2> QED
    BY <2>1, <2>2, <2>4, RangedRead DEF Result
<1>8. CASE f.kind = "string"
  <2>1. Text(f.text)
    BY <1>8, TextIs
  <2>2. t = PutString(s, f.text) /\ Get(r, f) = GetString(r) /\ Meant(f) = f.text
    BY <1>8 DEF Put, Get, Meant
  <2>3. KeepsText(f.text)
    BY <1>8 DEF Lossless, KeepsText, KeepsShort
  <2> QED
    BY <2>1, <2>2, <2>3, StringRead
<1> QED
  BY <1>1, <1>2, <1>3, <1>4, <1>5, <1>6, <1>7, <1>8 DEF IsField

-----------------------------------------------------------------------------
(* What is in the memory from p to e is f, to whoever reads it.              *)
Shows(data, p, f, e) ==
  \A r \in Stream :
    /\ r.readable = p /\ e <= r.writable
    /\ \A q \in p..(e - 1) : q \in r.data <=> q \in data
    => Result(Get(r, f), Meant(f), r, [writable |-> e])

\* A field that was written is shown where it was.
LEMMA FieldShows ==
  ASSUME NEW s, Fits(s), Clean(s), NEW f, IsField(f), Lossless(f), NEW t, t = Put(s, f)
  PROVE  Shows(t.data, s.writable, f, t.writable)
<1> SUFFICES ASSUME NEW r \in Stream, r.readable = s.writable, t.writable <= r.writable,
                    \A q \in s.writable..(t.writable - 1) : q \in r.data <=> q \in t.data
             PROVE  Result(Get(r, f), Meant(f), r, [writable |-> t.writable])
  BY DEF Shows
<1>1. Reader(r, s, t)
  BY DEF Reader, Same
<1>2. Result(Get(r, f), Meant(f), r, t)
  BY <1>1, FieldRead
<1> QED
  BY <1>2 DEF Result

\* It is shown by whatever memory has the same bits there.
LEMMA ShowsSame ==
  ASSUME NEW data, NEW p, NEW f, NEW e, Shows(data, p, f, e), NEW other,
         \A q \in p..(e - 1) : q \in other <=> q \in data
  PROVE  Shows(other, p, f, e)
<1> SUFFICES ASSUME NEW r \in Stream, r.readable = p, e <= r.writable,
                    \A q \in p..(e - 1) : q \in r.data <=> q \in other
             PROVE  Result(Get(r, f), Meant(f), r, [writable |-> e])
  BY DEF Shows
<1>1. \A q \in p..(e - 1) : q \in r.data <=> q \in data
  OBVIOUS
<1> QED
  BY <1>1 DEF Shows

\* The entry of the script for a copy.
CopyOf(source, n) == [kind |-> "copy", bits |-> n, value |-> GetNumber(source, n).value]

\* What was copied is shown.
LEMMA CopyShows ==
  ASSUME NEW s, Fits(s), Clean(s), NEW source \in Stream, NEW n \in Nat, NEW t, t = PutCopy(s, source, n),
         NEW e, e = s.writable + n
  PROVE  Shows(t.data, s.writable, CopyOf(source, n), e)
<1> SUFFICES ASSUME NEW r \in Stream, r.readable = s.writable, e <= r.writable,
                    \A q \in s.writable..(e - 1) : q \in r.data <=> q \in t.data
             PROVE  Result(Get(r, CopyOf(source, n)), Meant(CopyOf(source, n)), r, [writable |-> e])
  BY DEF Shows
<1>1. Result(GetNumber(r, n), GetNumber(source, n).value, r, [t EXCEPT !.writable = e])
  BY CopyRead DEF Same
<1>2. Get(r, CopyOf(source, n)) = GetNumber(r, n) /\ Meant(CopyOf(source, n)) = GetNumber(source, n).value
  BY DEF Get, Meant, CopyOf
<1>3. [t EXCEPT !.writable = e].writable = e
  <2>1. t \in Stream
    BY CopyIs DEF Fits
  <2> QED
    BY <2>1 DEF Stream
<1> QED
  BY <1>1, <1>2, <1>3 DEF Result

-----------------------------------------------------------------------------
(* The bookkeeping of the owner.                                             *)

\* What may be in the script.
Entries == Fields \cup {CopyOf(c.source, c.bits) : c \in Sources}

TypeInv ==
  /\ Fits(stream) /\ stream.writable <= stream.allocated
  /\ script \in Seq(Entries) /\ Len(script) <= writes /\ read \in 0..Len(script)
  /\ mode \in {"open", "padded", "copied", "received"} /\ writes \in 0..MaxWrites

\* The entries of the script can be read.
LEMMA EntriesAre ==
  ASSUME NEW f \in Entries
  PROVE  IsEntry(f)
<1>1. CASE f \in Fields
  BY <1>1, FieldsAssumption DEF IsEntry
<1>2. CASE f \in {CopyOf(c.source, c.bits) : c \in Sources}
  <2>1. PICK c \in Sources : f = CopyOf(c.source, c.bits)
    BY <1>2
  <2>2. c.bits \in Nat
    BY FieldsAssumption
  <2> QED
    BY <2>1, <2>2 DEF IsEntry, CopyOf
<1> QED
  BY <1>1, <1>2 DEF Entries

\* A reader that moves leaves a stream that fits.
LEMMA MovesFits ==
  ASSUME NEW s, Fits(s), s.writable <= s.allocated, NEW t, Moves(s, t)
  PROVE  Fits(t) /\ t.writable <= t.allocated
<1>1. s \in Stream
  BY DEF Fits
<1>2. t \in Stream /\ t.data = s.data /\ t.writable = s.writable /\ t.allocated = s.allocated
  BY <1>1, MovesTyped
<1> QED
  BY <1>2 DEF Fits, Memory

\* A receiver has whole bytes, which are those that were sent.
LEMMA ReceivedIs ==
  ASSUME NEW s, Fits(s), NEW t, t = Received(s)
  PROVE  /\ Fits(t) /\ t.writable <= t.allocated /\ t.readable = 0
         /\ t.writable = RoundUp(s.writable) /\ s.writable <= t.writable /\ RoundUp(t.writable) = t.writable
         /\ \A p \in 0..(t.writable - 1) : p \in t.data <=> p \in s.data
<1> DEFINE size == RoundUp(s.writable)
           a == IF size <= StackBits THEN StackBits ELSE size
           d == {p \in s.data : p < size}
<1>1. s \in Stream /\ s.writable \in Nat /\ s.data \in SUBSET Nat
  BY FitsIs
<1>2. size \in Nat /\ s.writable <= size /\ RoundUp(size) = size
  BY <1>1, RoundIs
<1>3. a \in Nat /\ size <= a
  BY <1>2, BufferAssumption
<1>4. RoundUp(a) \in Nat /\ a <= RoundUp(a)
  <2> HIDE DEF a
  <2> QED
    BY <1>3, RoundIs
<1>5. t = [data |-> d, allocated |-> a, writable |-> size, readable |-> 0, heap |-> size > StackBits, junk |-> s.junk]
  BY DEF Received
<1> HIDE DEF size, a
<1>6. (size > StackBits) \in BOOLEAN /\ s.junk \in BOOLEAN
  BY <1>1 DEF Stream
<1>7. t \in Stream
  BY <1>1, <1>2, <1>3, <1>5, <1>6 DEF Stream
<1>8. t.data = d /\ t.allocated = a /\ t.writable = size /\ t.readable = 0
  BY <1>5
<1>9. \A p \in d : p \in 0..(RoundUp(a) - 1)
  BY <1>1, <1>2, <1>3, <1>4
<1>10. \A p \in 0..(size - 1) : p \in d <=> p \in s.data
  BY <1>2
<1>11. Fits(t)
  BY <1>2, <1>3, <1>4, <1>7, <1>8, <1>9 DEF Fits, Memory
<1> QED
  BY <1>2, <1>3, <1>8, <1>10, <1>11 DEF size

\* Positions that the owner sets to the start.
LEMMA StartFits ==
  ASSUME NEW s, Fits(s), s.writable <= s.allocated
  PROVE  /\ Fits([s EXCEPT !.readable = 0])
         /\ Fits([s EXCEPT !.writable = 0, !.readable = 0])
         /\ [s EXCEPT !.readable = 0].writable <= [s EXCEPT !.readable = 0].allocated
         /\ [s EXCEPT !.writable = 0, !.readable = 0].writable
              <= [s EXCEPT !.writable = 0, !.readable = 0].allocated
<1>1. s \in Stream /\ s.allocated \in Nat /\ RoundUp(s.allocated) \in Nat
  BY StreamIs DEF Fits
<1> DEFINE a == [s EXCEPT !.readable = 0]
           b == [s EXCEPT !.writable = 0, !.readable = 0]
<1>2. a \in Stream /\ a.data = s.data /\ a.writable = s.writable /\ a.allocated = s.allocated
  BY <1>1 DEF Stream
<1>3. b \in Stream /\ b.data = s.data /\ b.writable = 0 /\ b.allocated = s.allocated
  BY <1>1 DEF Stream
<1> HIDE DEF a, b
<1>4. Fits(a) /\ Fits(b)
  BY <1>1, <1>2, <1>3 DEF Fits, Memory
<1> QED
  BY <1>1, <1>2, <1>3, <1>4 DEF a, b

\* A new stream fits.
LEMMA EmptyFits ==
  ASSUME NEW junk \in BOOLEAN, NEW s, s = EmptyStream(junk)
  PROVE  /\ Fits(s) /\ s.writable = 0 /\ s.readable = 0 /\ s.writable <= s.allocated /\ s.data = {}
<1>1. StackBits \in Nat
  BY BufferAssumption
<1>2. s \in Stream /\ s.writable = 0 /\ s.readable = 0 /\ s.allocated = StackBits /\ s.data = {}
  BY <1>1 DEF EmptyStream, Stream
<1>3. RoundUp(StackBits) \in Nat
  BY <1>1, RoundIs
<1> QED
  BY <1>1, <1>2, <1>3 DEF Fits, Memory

\* The bookkeeping is right at the start,
LEMMA TypeInit == Init => TypeInv
<1> SUFFICES ASSUME Init PROVE TypeInv
  OBVIOUS
<1>1. PICK junk \in BOOLEAN : stream = EmptyStream(junk)
  BY DEF Init
<1>2. Fits(stream) /\ stream.writable <= stream.allocated
  BY <1>1, EmptyFits
<1>3. script = <<>> /\ read = 0 /\ mode = "open" /\ writes = 0
  BY DEF Init
<1>4. script \in Seq(Entries) /\ Len(script) = 0
  BY <1>3
<1> QED
  BY <1>2, <1>3, <1>4, FieldsAssumption DEF TypeInv

\* and after each call,
LEMMA TypeNext == TypeInv /\ [Next]_vars => TypeInv'
<1> SUFFICES ASSUME TypeInv, [Next]_vars PROVE TypeInv'
  OBVIOUS
<1>0. /\ Fits(stream) /\ stream.writable <= stream.allocated
      /\ script \in Seq(Entries) /\ Len(script) <= writes /\ read \in 0..Len(script) /\ Len(script) \in Nat
      /\ mode \in {"open", "padded", "copied", "received"} /\ writes \in 0..MaxWrites /\ MaxWrites \in Nat
  BY FieldsAssumption DEF TypeInv
<1>s. stream \in Stream
  BY <1>0 DEF Fits
<1>1. ASSUME NEW f \in Fields, Write(f) PROVE TypeInv'
  <2>1. Kept(stream, stream')
    BY <1>0, <1>1, FieldsAssumption, FieldFollows DEF Write
  <2>2. Fits(stream') /\ stream'.writable <= stream'.allocated
    BY <2>1 DEF Kept, Follows
  <2>3. f \in Entries
    BY DEF Entries
  <2>4. script' \in Seq(Entries) /\ Len(script') = Len(script) + 1
    BY <1>0, <1>1, <2>3 DEF Write
  <2>5. writes < MaxWrites /\ writes' = writes + 1 /\ read' = read /\ mode' = mode
    BY <1>1 DEF Write
  <2> QED
    BY <1>0, <2>2, <2>4, <2>5 DEF TypeInv
<1>2. CASE Read
  <2> DEFINE f == script[read + 1]
  <2>1. read < Len(script) /\ stream' = Get(stream, f).stream
        /\ read' = read + 1 /\ script' = script /\ mode' = mode /\ writes' = writes
    BY <1>2 DEF Read
  <2>2. f \in Entries
    BY <1>0, <2>1
  <2> HIDE DEF f
  <2>3. Moves(stream, stream')
    BY <1>s, <2>1, <2>2, EntriesAre, GetMoves
  <2>4. Fits(stream') /\ stream'.writable <= stream'.allocated
    BY <1>0, <2>3, MovesFits
  <2> QED
    BY <1>0, <2>1, <2>4 DEF TypeInv
<1>3. CASE Rewind
  <2>1. stream' = [stream EXCEPT !.readable = 0]
        /\ read' = 0 /\ script' = script /\ mode' = mode /\ writes' = writes
    BY <1>3 DEF Rewind
  <2>2. Fits(stream') /\ stream'.writable <= stream'.allocated
    BY <1>0, <2>1, StartFits
  <2> QED
    BY <1>0, <2>1, <2>2 DEF TypeInv
<1>4. CASE Reset
  <2>1. stream' = [stream EXCEPT !.writable = 0, !.readable = 0]
        /\ read' = 0 /\ script' = <<>> /\ mode' = "open" /\ writes' = writes
    BY <1>4 DEF Reset
  <2>2. Fits(stream') /\ stream'.writable <= stream'.allocated
    BY <1>0, <2>1, StartFits
  <2>3. script' \in Seq(Entries) /\ Len(script') = 0
    BY <2>1
  <2> QED
    BY <1>0, <2>1, <2>2, <2>3 DEF TypeInv
<1>5. CASE Receive
  <2>1. stream' = Received(stream)
        /\ read' = 0 /\ script' = script /\ mode' = "received" /\ writes' = writes
    BY <1>5 DEF Receive
  <2>2. Fits(stream') /\ stream'.writable <= stream'.allocated
    BY <1>0, <2>1, ReceivedIs
  <2> QED
    BY <1>0, <2>1, <2>2 DEF TypeInv
<1>6. ASSUME NEW bytes \in PadTo, Pad(bytes) PROVE TypeInv'
  <2>1. stream' = PadZeros(stream, bytes)
        /\ read' = read /\ script' = script /\ mode' = "padded" /\ writes' = writes
    BY <1>6 DEF Pad
  <2>2. bytes \in Nat
    BY FieldsAssumption
  <2>3. Fits(stream') /\ stream'.writable <= stream'.allocated
    BY <1>0, <2>1, <2>2, PadIs DEF Appends, Extends
  <2> QED
    BY <1>0, <2>1, <2>3 DEF TypeInv
<1>7. ASSUME NEW c \in Sources, Copy(c.source, c.bits) PROVE TypeInv'
  <2> DEFINE source == c.source
             n == c.bits
  <2>1. source \in Stream /\ n \in Nat
    BY FieldsAssumption
  <2>2. CopyOf(source, n) \in Entries
    BY DEF Entries
  <2>3. /\ writes < MaxWrites /\ stream' = PutCopy(stream, source, n)
        /\ script' = Append(script, CopyOf(source, n))
        /\ mode' = "copied" /\ writes' = writes + 1 /\ read' = read
    BY <1>7 DEF Copy, CopyOf
  <2> HIDE DEF source, n
  <2>4. Fits(stream') /\ stream'.writable <= stream'.allocated
    BY <1>0, <2>1, <2>3, CopyIs
  <2>5. script' \in Seq(Entries) /\ Len(script') = Len(script) + 1
    BY <1>0, <2>2, <2>3
  <2> QED
    BY <1>0, <2>3, <2>4, <2>5 DEF TypeInv
<1>8. CASE UNCHANGED vars
  BY <1>8 DEF vars, TypeInv
<1> QED
  BY <1>1, <1>2, <1>3, <1>4, <1>5, <1>6, <1>7, <1>8 DEF Next

\* and TypeOK is part of it.
LEMMA TypeInvImplies == TypeInv => TypeOK
<1> SUFFICES ASSUME TypeInv PROVE TypeOK
  OBVIOUS
<1>1. /\ stream.writable \in Nat /\ stream.readable \in Nat /\ stream.allocated \in Nat
  BY FitsIs DEF TypeInv
<1>2. \A p \in stream.data : p \in 0..(RoundUp(stream.allocated) - 1)
  BY DEF TypeInv, Fits, Memory
<1>3. Len(script) \in Nat /\ MaxWrites \in Nat /\ Len(script) <= writes /\ writes \in 0..MaxWrites
  BY FieldsAssumption DEF TypeInv
<1> QED
  BY <1>1, <1>2, <1>3 DEF TypeInv, TypeOK

\* The memory holds every bit of the stream and the bookkeeping of its owner is in
\* range, whatever is written, copied, padded, sent or read, lossless or not: no
\* writer of the code writes past the memory that AppendBitsCouldRealloc() made.
THEOREM AlwaysTypeOK == Spec => []TypeOK
<1>1. Spec => []TypeInv
  BY TypeInit, TypeNext, PTL DEF Spec
<1> QED
  BY <1>1, TypeInvImplies, PTL

-----------------------------------------------------------------------------
(* Where the fields are.                                                     *)

\* The entries of the script, each between its position and the next.
Shown(data, scr, at) == \A i \in 1..Len(scr) : Shows(data, at[i], scr[i], at[i + 1])

\* The memory from p to the end of the last byte is zeros.
Zeroed(s, p) == \A q \in p..(RoundUp(s.writable) - 1) : q \notin s.data

\* The reader is before the field that is read next, what follows the last is
\* the writer's, and is zeros until bits of another stream are copied.
Layout(at) ==
  LET n == Len(script) IN
  /\ at \in [1..(n + 1) -> Nat] /\ at[1] = 0
  /\ \A i \in 1..(n + 1) : at[i] <= at[n + 1]
  /\ Shown(stream.data, script, at)
  /\ at[n + 1] <= stream.writable
  /\ stream.readable = at[read + 1]
  /\ mode = "open" => at[n + 1] = stream.writable
  /\ ~Copied => Zeroed(stream, at[n + 1])
  /\ mode = "open" => ~Copied

LayoutInv == \E at : Layout(at)

\* The script is shown by whatever memory has the same bits up to its end.
LEMMA ShownSame ==
  ASSUME NEW scr, NEW n \in Nat, Len(scr) = n, NEW at \in [1..(n + 1) -> Nat],
         NEW e \in Nat, \A i \in 1..(n + 1) : at[i] <= e, NEW data, Shown(data, scr, at),
         NEW other, \A q \in 0..(e - 1) : q \in other <=> q \in data
  PROVE  Shown(other, scr, at)
<1> SUFFICES ASSUME NEW i \in 1..n PROVE Shows(other, at[i], scr[i], at[i + 1])
  BY DEF Shown
<1>1. i \in 1..(n + 1) /\ i + 1 \in 1..(n + 1)
  OBVIOUS
<1>2. at[i] \in Nat /\ at[i + 1] \in Nat /\ at[i + 1] <= e
  BY <1>1
<1>3. \A q \in at[i]..(at[i + 1] - 1) : q \in other <=> q \in data
  <2>1. \A q \in at[i]..(at[i + 1] - 1) : q \in 0..(e - 1)
    BY <1>2
  <2> QED
    BY <2>1
<1>4. Shows(data, at[i], scr[i], at[i + 1])
  BY DEF Shown
<1> QED
  BY <1>3, <1>4, ShowsSame

\* One more entry.
More(at, n, e) == [i \in 1..(n + 2) |-> IF i <= n + 1 THEN at[i] ELSE e]

\* The script is shown with one more entry if that is shown behind it.
LEMMA ShownMore ==
  ASSUME NEW S, NEW scr \in Seq(S), NEW n \in Nat, Len(scr) = n, NEW at \in [1..(n + 1) -> Nat],
         NEW e \in Nat, \A i \in 1..(n + 1) : at[i] <= e, NEW data, Shown(data, scr, at),
         NEW f \in S, Shows(data, at[n + 1], f, e), NEW new, new = More(at, n, e)
  PROVE  /\ new \in [1..(n + 2) -> Nat] /\ new[n + 2] = e /\ \A i \in 1..(n + 1) : new[i] = at[i]
         /\ \A i \in 1..(n + 2) : new[i] <= e
         /\ Len(Append(scr, f)) = n + 1 /\ Shown(data, Append(scr, f), new)
<1>1. \A i \in 1..(n + 2) : i \in 1..(n + 1) \/ (i = n + 2 /\ ~ i <= n + 1)
  OBVIOUS
<1>2. new \in [1..(n + 2) -> Nat] /\ new[n + 2] = e /\ \A i \in 1..(n + 1) : new[i] = at[i]
  <2>1. \A i \in 1..(n + 1) : at[i] \in Nat
    OBVIOUS
  <2> QED
    BY <1>1, <2>1 DEF More
<1>3. \A i \in 1..(n + 2) : new[i] <= e
  BY SMTT(30), <1>1, <1>2
<1>4. /\ Len(Append(scr, f)) = n + 1 /\ Append(scr, f)[n + 1] = f
      /\ \A i \in 1..n : Append(scr, f)[i] = scr[i]
  OBVIOUS
<1>5. ASSUME NEW i \in 1..(n + 1) PROVE Shows(data, new[i], Append(scr, f)[i], new[i + 1])
  <2>1. CASE i \in 1..n
    <3>1. i \in 1..(n + 1) /\ i + 1 \in 1..(n + 1)
      BY <2>1
    <3>2. new[i] = at[i] /\ new[i + 1] = at[i + 1] /\ Append(scr, f)[i] = scr[i]
      BY <1>2, <1>4, <2>1, <3>1
    <3>3. Shows(data, at[i], scr[i], at[i + 1])
      BY <2>1 DEF Shown
    <3> QED
      BY <3>2, <3>3
  <2>2. CASE i = n + 1
    <3>1. i + 1 = n + 2
      BY <2>2
    <3> QED
      BY <1>2, <1>4, <2>2, <3>1
  <2> QED
    BY <2>1, <2>2
<1>6. Shown(data, Append(scr, f), new)
  BY <1>4, <1>5 DEF Shown
<1> QED
  BY <1>2, <1>3, <1>4, <1>6

\* What is copied is an entry of its kind.
LEMMA CopiedMore ==
  ASSUME script \in Seq(Entries), NEW f, f.kind # "copy", script' = Append(script, f)
  PROVE  Copied' <=> Copied
<1>1. /\ DOMAIN script = 1..Len(script) /\ Len(script) \in Nat
      /\ DOMAIN script' = 1..(Len(script) + 1)
      /\ \A i \in 1..Len(script) : script'[i] = script[i]
      /\ script'[Len(script) + 1] = f
  OBVIOUS
<1>2. \A i \in 1..(Len(script) + 1) : i \in 1..Len(script) \/ i = Len(script) + 1
  BY <1>1
<1>3. \A i \in 1..Len(script) : i \in 1..(Len(script) + 1)
  BY <1>1
<1> QED
  BY <1>1, <1>2, <1>3 DEF Copied

\* A copy is one.
LEMMA CopiedCopy ==
  ASSUME script \in Seq(Entries), NEW f, f.kind = "copy", script' = Append(script, f)
  PROVE  Copied'
<1>1. DOMAIN script' = 1..(Len(script) + 1) /\ Len(script) \in Nat /\ script'[Len(script) + 1] = f
  OBVIOUS
<1>2. Len(script) + 1 \in DOMAIN script'
  BY <1>1
<1> QED
  BY <1>1, <1>2 DEF Copied

-----------------------------------------------------------------------------
(* A step of the owner.                                                      *)

\* An empty script has its place.
LEMMA LayoutInit == Init => LayoutInv
<1> SUFFICES ASSUME Init PROVE LayoutInv
  OBVIOUS
<1>1. PICK junk \in BOOLEAN : stream = EmptyStream(junk)
  BY DEF Init
<1>2. stream.writable = 0 /\ stream.readable = 0 /\ stream.data = {}
  BY <1>1, EmptyFits
<1>3. script = <<>> /\ read = 0 /\ mode = "open"
  BY DEF Init
<1>4. Len(script) = 0 /\ DOMAIN script = {}
  BY <1>3
<1> DEFINE at == [i \in 1..1 |-> 0]
<1>5. at \in [1..(0 + 1) -> Nat] /\ at[1] = 0 /\ at[0 + 1] = 0 /\ \A i \in 1..(0 + 1) : at[i] <= at[0 + 1]
  OBVIOUS
<1> HIDE DEF at
<1>6. Shown(stream.data, script, at) /\ Zeroed(stream, at[0 + 1]) /\ ~Copied
  <2>1. ~Copied
    BY <1>4 DEF Copied
  <2>2. Zeroed(stream, at[0 + 1])
    BY <1>2 DEF Zeroed
  <2>3. \A i \in 1..Len(script) : FALSE
    BY <1>4
  <2>4. Shown(stream.data, script, at)
    BY <2>3 DEF Shown
  <2> QED
    BY <2>1, <2>2, <2>4
<1>7. Layout(at)
  BY <1>2, <1>3, <1>4, <1>5, <1>6 DEF Layout
<1> QED
  BY <1>7 DEF LayoutInv

\* What the steps need of Layout: the writer is clean while it may write.
LEMMA LayoutIs ==
  ASSUME TypeInv, NEW n, n = Len(script), NEW at, Layout(at)
  PROVE  /\ n \in Nat /\ read \in 0..n /\ read + 1 \in 1..(n + 1) /\ n + 1 \in 1..(n + 1)
         /\ at \in [1..(n + 1) -> Nat] /\ at[1] = 0 /\ at[n + 1] \in Nat
         /\ \A i \in 1..(n + 1) : at[i] <= at[n + 1]
         /\ Shown(stream.data, script, at)
         /\ at[n + 1] <= stream.writable /\ stream.writable \in Nat
         /\ stream.readable = at[read + 1]
         /\ ~Copied => Zeroed(stream, at[n + 1])
         /\ mode = "open" => ~Copied /\ at[n + 1] = stream.writable /\ Clean(stream)
<1>1. n \in Nat /\ read \in 0..n
  BY DEF TypeInv
<1>2. /\ at \in [1..(n + 1) -> Nat] /\ at[1] = 0
      /\ \A i \in 1..(n + 1) : at[i] <= at[n + 1]
      /\ Shown(stream.data, script, at)
      /\ at[n + 1] <= stream.writable
      /\ stream.readable = at[read + 1]
      /\ mode = "open" => at[n + 1] = stream.writable
      /\ ~Copied => Zeroed(stream, at[n + 1])
      /\ mode = "open" => ~Copied
  BY DEF Layout
<1>3. read + 1 \in 1..(n + 1) /\ n + 1 \in 1..(n + 1)
  BY <1>1
<1>4. at[n + 1] \in Nat
  BY <1>2, <1>3
<1>5. stream.writable \in Nat
  BY FitsIs DEF TypeInv
<1>6. mode = "open" => Clean(stream)
  <2>1. SUFFICES ASSUME mode = "open" PROVE Clean(stream)
    OBVIOUS
  <2>2. Zeroed(stream, stream.writable)
    BY <1>2, <2>1
  <2> QED
    BY <2>2 DEF Zeroed, Clean
<1> QED
  BY <1>1, <1>2, <1>3, <1>4, <1>5, <1>6

\* A field is written behind the others, which stay as they are.
LEMMA LayoutWrite ==
  ASSUME \A g \in Fields : Lossless(g), TypeInv, LayoutInv, NEW f \in Fields, Write(f)
  PROVE  LayoutInv'
<1> DEFINE n == Len(script)
           s == stream
           t == stream'
           e == t.writable
<1>1. PICK at : Layout(at)
  BY DEF LayoutInv
<1> HIDE DEF n
<1>n. n = Len(script)
  BY DEF n
<1>2. /\ mode = "open" /\ t = Put(s, f) /\ script' = Append(script, f) /\ read' = read /\ mode' = mode
  BY DEF Write
<1>3. /\ n \in Nat /\ read \in 0..n /\ read + 1 \in 1..(n + 1) /\ n + 1 \in 1..(n + 1)
      /\ at \in [1..(n + 1) -> Nat] /\ at[1] = 0 /\ at[n + 1] \in Nat
      /\ \A i \in 1..(n + 1) : at[i] <= at[n + 1]
      /\ Shown(s.data, script, at)
      /\ stream.readable = at[read + 1]
      /\ ~Copied /\ at[n + 1] = s.writable /\ Clean(s)
  BY <1>1, <1>2, <1>n, LayoutIs
<1>4. Fits(s) /\ script \in Seq(Entries)
  BY DEF TypeInv
<1>5. IsField(f) /\ Lossless(f) /\ f \in Entries
  BY FieldsAssumption DEF Entries
<1>6. Kept(s, t)
  BY <1>2, <1>4, <1>5, FieldFollows
<1>7. /\ Fits(t) /\ t.readable = s.readable /\ s.writable <= e /\ Clean(t)
      /\ \A p \in 0..(s.writable - 1) : p \in t.data <=> p \in s.data
  BY <1>3, <1>6 DEF Kept, Follows
<1>8. Shows(t.data, s.writable, f, e)
  BY <1>2, <1>3, <1>4, <1>5, FieldShows
<1>9. e \in Nat
  BY <1>7, FitsIs
<1>10. Shown(t.data, script, at)
  BY <1>3, <1>7, <1>n, ShownSame
<1> HIDE DEF s, t, e
<1>11. PICK new : new = More(at, n, e)
  OBVIOUS
<1>12. \A i \in 1..(n + 1) : at[i] <= e
  <2>1. s.writable <= e /\ s.writable \in Nat
    BY <1>3, <1>7
  <2>2. \A i \in 1..(n + 1) : at[i] \in Nat /\ at[i] <= s.writable
    BY <1>3
  <2> QED
    BY <1>9, <2>1, <2>2
<1>13. Shows(t.data, at[n + 1], f, e)
  BY <1>3, <1>8
<1>14. /\ new \in [1..(n + 2) -> Nat] /\ new[n + 2] = e /\ \A i \in 1..(n + 1) : new[i] = at[i]
       /\ \A i \in 1..(n + 2) : new[i] <= e
       /\ Len(script') = n + 1 /\ Shown(t.data, script', new)
  <2> DEFINE data == t.data
  <2>1. script' = Append(script, f)
    BY <1>2
  <2>2. Shown(data, script, at) /\ Shows(data, at[n + 1], f, e)
    BY <1>10, <1>13
  <2>3. n \in Nat /\ Len(script) = n /\ at \in [1..(n + 1) -> Nat] /\ script \in Seq(Entries) /\ f \in Entries
    BY <1>3, <1>4, <1>5, <1>n
  <2> HIDE DEF data
  <2>4. /\ new \in [1..(n + 2) -> Nat] /\ new[n + 2] = e /\ \A i \in 1..(n + 1) : new[i] = at[i]
        /\ \A i \in 1..(n + 2) : new[i] <= e
        /\ Len(Append(script, f)) = n + 1 /\ Shown(data, Append(script, f), new)
    BY SMTT(90), <1>9, <1>11, <1>12, <2>2, <2>3, ShownMore
  <2> QED
    BY <2>1, <2>4 DEF data
<1>15. ~Copied'
  <2>1. f.kind # "copy"
    BY <1>5 DEF IsField
  <2> QED
    BY <1>2, <1>3, <1>4, <2>1, CopiedMore
<1>16. Zeroed(t, e)
  BY <1>7 DEF Zeroed, Clean, e
<1>17. new[1] = 0 /\ new[read + 1] = t.readable
  <2>1. 1 \in 1..(n + 1)
    BY <1>3
  <2> QED
    BY <1>3, <1>7, <1>14, <2>1 DEF s
<1>18. (n + 1) + 1 = n + 2
  BY <1>3
<1>19. Layout(new)'
  <2>1. (Len(script') + 1) = n + 2
    BY <1>14, <1>18
  <2>2. stream'.writable = e /\ stream' = t /\ e <= e
    BY <1>9 DEF e, t
  <2>3. /\ new \in [1..(Len(script') + 1) -> Nat] /\ new[1] = 0
        /\ \A i \in 1..(Len(script') + 1) : new[i] <= new[Len(script') + 1]
    BY <1>14, <1>17, <2>1
  <2>4. new[Len(script') + 1] <= stream'.writable /\ new[Len(script') + 1] = stream'.writable
    BY <1>14, <2>1, <2>2
  <2>5. Shown(stream'.data, script', new) /\ stream'.readable = new[read' + 1]
        /\ Zeroed(stream', new[Len(script') + 1])
    BY <1>2, <1>14, <1>16, <1>17, <2>1, <2>2
  <2> QED
    BY <1>15, <2>3, <2>4, <2>5 DEF Layout
<1> QED
  BY <1>19 DEF LayoutInv

\* So are the bits of another stream; zeros follow them no more.
LEMMA LayoutCopy ==
  ASSUME TypeInv, LayoutInv, NEW c \in Sources, Copy(c.source, c.bits)
  PROVE  LayoutInv'
<1> DEFINE n == Len(script)
           s == stream
           t == stream'
           source == c.source
           bits == c.bits
           f == CopyOf(source, bits)
           e == s.writable + bits
<1>1. PICK at : Layout(at)
  BY DEF LayoutInv
<1> HIDE DEF n
<1>n. n = Len(script)
  BY DEF n
<1>2. /\ mode = "open" /\ t = PutCopy(s, source, bits) /\ script' = Append(script, f) /\ read' = read
      /\ mode' = "copied"
  BY DEF Copy, CopyOf
<1>3. /\ n \in Nat /\ read \in 0..n /\ read + 1 \in 1..(n + 1) /\ n + 1 \in 1..(n + 1)
      /\ at \in [1..(n + 1) -> Nat] /\ at[1] = 0 /\ at[n + 1] \in Nat
      /\ \A i \in 1..(n + 1) : at[i] <= at[n + 1]
      /\ Shown(s.data, script, at)
      /\ s.readable = at[read + 1]
      /\ at[n + 1] = s.writable /\ Clean(s)
  BY <1>1, <1>2, <1>n, LayoutIs
<1>4. Fits(s) /\ script \in Seq(Entries)
  BY DEF TypeInv
<1>5. source \in Stream /\ bits \in Nat /\ f \in Entries /\ f.kind = "copy"
  BY FieldsAssumption DEF Entries, CopyOf
<1> HIDE DEF s, t, source, bits, f, e
<1>6. /\ Fits(t) /\ t.readable = s.readable /\ s.writable + bits <= t.writable
      /\ \A p \in 0..(s.writable - 1) : p \in t.data <=> p \in s.data
  <2>1. t = PutCopy(s, source, bits)
    BY <1>2
  <2>2. source \in Stream /\ bits \in Nat /\ Fits(s)
    BY <1>4, <1>5
  <2> QED
    BY <2>1, <2>2, CopyIs
<1>7. e = s.writable + bits /\ e \in Nat /\ s.writable <= e /\ e <= t.writable /\ s.writable \in Nat
  BY <1>3, <1>5, <1>6 DEF e
<1>8. Shows(t.data, s.writable, f, e)
  BY <1>2, <1>3, <1>4, <1>5, <1>7, CopyShows DEF f
<1>9. Shown(t.data, script, at)
  BY <1>3, <1>6, <1>7, <1>n, ShownSame
<1>10. PICK new : new = More(at, n, e)
  OBVIOUS
<1>11. \A i \in 1..(n + 1) : at[i] <= e
  <2>1. \A i \in 1..(n + 1) : at[i] \in Nat /\ at[i] <= s.writable
    BY <1>3
  <2> QED
    BY <1>7, <2>1
<1>12. Shows(t.data, at[n + 1], f, e)
  BY <1>3, <1>8
<1>13. /\ new \in [1..(n + 2) -> Nat] /\ new[n + 2] = e /\ \A i \in 1..(n + 1) : new[i] = at[i]
       /\ \A i \in 1..(n + 2) : new[i] <= e
       /\ Len(script') = n + 1 /\ Shown(t.data, script', new)
  <2> DEFINE data == t.data
  <2>1. script' = Append(script, f)
    BY <1>2
  <2>2. Shown(data, script, at) /\ Shows(data, at[n + 1], f, e) /\ e \in Nat
    BY <1>7, <1>9, <1>12
  <2>3. n \in Nat /\ Len(script) = n /\ at \in [1..(n + 1) -> Nat] /\ script \in Seq(Entries) /\ f \in Entries
    BY <1>3, <1>4, <1>5, <1>n
  <2> HIDE DEF data
  <2>4. /\ new \in [1..(n + 2) -> Nat] /\ new[n + 2] = e /\ \A i \in 1..(n + 1) : new[i] = at[i]
        /\ \A i \in 1..(n + 2) : new[i] <= e
        /\ Len(Append(script, f)) = n + 1 /\ Shown(data, Append(script, f), new)
    BY SMTT(90), <1>10, <1>11, <2>2, <2>3, ShownMore
  <2> QED
    BY <2>1, <2>4 DEF data
<1>14. Copied'
  BY <1>2, <1>4, <1>5, CopiedCopy
<1>15. new[1] = 0 /\ new[read + 1] = t.readable
  <2>1. 1 \in 1..(n + 1)
    BY <1>3
  <2> QED
    BY <1>3, <1>6, <1>13, <2>1
<1>16. Layout(new)'
  <2>1. (Len(script') + 1) = n + 2
    BY <1>3, <1>13
  <2>2. stream' = t
    BY DEF t
  <2>3. /\ new \in [1..(Len(script') + 1) -> Nat] /\ new[1] = 0
        /\ \A i \in 1..(Len(script') + 1) : new[i] <= new[Len(script') + 1]
    BY <1>13, <1>15, <2>1
  <2>4. new[Len(script') + 1] <= stream'.writable
    BY <1>7, <1>13, <2>1, <2>2
  <2>5. Shown(stream'.data, script', new) /\ stream'.readable = new[read' + 1] /\ mode' # "open"
    BY <1>2, <1>13, <1>15, <2>1, <2>2
  <2> QED
    BY <1>14, <2>3, <2>4, <2>5 DEF Layout
<1> QED
  BY <1>16 DEF LayoutInv

\* What a field's reader gets, and where it is then.
LEMMA ReadIs ==
  ASSUME TypeInv, NEW at, Layout(at), Read
  PROVE  /\ read + 2 \in 1..(Len(script) + 1)
         /\ stream' = MoveTo(stream, at[read + 2]) /\ last'.got = last'.written
<1> DEFINE n == Len(script)
           f == script[read + 1]
           g == Get(stream, f)
           e == at[read + 2]
<1> HIDE DEF n
<1>n. n = Len(script)
  BY DEF n
<1>1. /\ read < n /\ stream' = g.stream /\ last' = [written |-> Meant(f), got |-> g.value]
  BY <1>n DEF Read
<1>2. /\ n \in Nat /\ read \in 0..n
      /\ at \in [1..(n + 1) -> Nat] /\ \A i \in 1..(n + 1) : at[i] <= at[n + 1]
      /\ Shown(stream.data, script, at)
      /\ at[n + 1] <= stream.writable /\ stream.writable \in Nat /\ at[n + 1] \in Nat
      /\ stream.readable = at[read + 1]
  BY <1>n, LayoutIs
<1>3. read + 1 \in 1..n /\ (read + 1) + 1 = read + 2 /\ read + 2 \in 1..(n + 1)
  BY <1>1, <1>2
<1>4. Shows(stream.data, at[read + 1], f, e)
  BY <1>2, <1>3, <1>n DEF Shown
<1>5. e \in Nat /\ e <= stream.writable
  BY <1>2, <1>3
<1>6. stream \in Stream
  BY DEF TypeInv, Fits
<1> HIDE DEF f, g, e
<1>7. Result(Get(stream, f), Meant(f), stream, [writable |-> e])
  BY <1>2, <1>4, <1>5, <1>6 DEF Shows
<1>8. g.value = Meant(f) /\ g.stream = MoveTo(stream, e)
  BY <1>7 DEF Result, g
<1>9. last'.got = last'.written
  BY <1>1, <1>8
<1> QED
  BY <1>1, <1>3, <1>8, <1>9, <1>n DEF e

\* The script is kept, and what was written of the stream.
LEMMA LayoutKept ==
  ASSUME TypeInv, NEW at, Layout(at), script' = script, Fits(stream'),
         \A p \in 0..(at[Len(script) + 1] - 1) : p \in stream'.data <=> p \in stream.data,
         stream.writable <= stream'.writable, read' \in 0..Len(script), stream'.readable = at[read' + 1],
         mode' = "open" => mode = "open" /\ stream'.writable = stream.writable,
         ~Copied => Zeroed(stream', at[Len(script) + 1])
  PROVE  LayoutInv'
<1> DEFINE n == Len(script)
<1> HIDE DEF n
<1>n. n = Len(script)
  BY DEF n
<1>1. /\ n \in Nat /\ n + 1 \in 1..(n + 1)
      /\ at \in [1..(n + 1) -> Nat] /\ at[1] = 0 /\ at[n + 1] \in Nat
      /\ \A i \in 1..(n + 1) : at[i] <= at[n + 1]
      /\ Shown(stream.data, script, at)
      /\ at[n + 1] <= stream.writable /\ stream.writable \in Nat
      /\ mode = "open" => ~Copied /\ at[n + 1] = stream.writable
  BY <1>n, LayoutIs
<1>2. stream'.writable \in Nat
  BY FitsIs
<1>3. \A p \in 0..(at[n + 1] - 1) : p \in stream'.data <=> p \in stream.data
  BY <1>n
<1>4. Shown(stream'.data, script, at)
  BY <1>1, <1>3, <1>n, ShownSame
<1>5. Copied' <=> Copied
  BY DEF Copied
<1>6. at[n + 1] <= stream'.writable
  BY <1>1, <1>2
<1>7. Layout(at)'
  <2>1. Len(script') = n
    BY <1>n
  <2>2. /\ at \in [1..(n + 1) -> Nat] /\ at[1] = 0
        /\ \A i \in 1..(n + 1) : at[i] <= at[n + 1]
        /\ Shown(stream'.data, script', at)
        /\ at[n + 1] <= stream'.writable
        /\ stream'.readable = at[read' + 1]
        /\ mode' = "open" => at[n + 1] = stream'.writable
        /\ ~Copied' => Zeroed(stream', at[n + 1])
        /\ mode' = "open" => ~Copied'
    BY <1>1, <1>4, <1>5, <1>6, <1>n
  <2> QED
    BY <2>1, <2>2 DEF Layout
<1> QED
  BY <1>7 DEF LayoutInv

\* The reader goes to a place of the script.
LEMMA LayoutMoved ==
  ASSUME TypeInv, NEW at, Layout(at), script' = script, NEW q \in Nat, stream' = [stream EXCEPT !.readable = q],
         read' \in 0..Len(script), at[read' + 1] = q, mode' = mode
  PROVE  LayoutInv'
<1>1. Fits(stream) /\ stream.writable <= stream.allocated /\ stream \in Stream
  BY DEF TypeInv, Fits
<1>2. stream' = MoveTo(stream, q) /\ Moves(stream, stream')
  BY DEF MoveTo, Moves
<1>3. Fits(stream')
  BY <1>1, <1>2, MovesFits
<1>4. stream'.data = stream.data /\ stream'.writable = stream.writable /\ stream'.readable = q
  BY <1>1 DEF Stream
<1>5. stream.writable \in Nat
  BY <1>1, FitsIs
<1>6. ~Copied => Zeroed(stream', at[Len(script) + 1])
  <2>1. ~Copied => Zeroed(stream, at[Len(script) + 1])
    BY LayoutIs
  <2> QED
    BY <1>4, <2>1 DEF Zeroed
<1> QED
  BY <1>3, <1>4, <1>5, <1>6, LayoutKept

\* Nothing is left of the script: what the memory still holds is not part of it.
LEMMA LayoutReset ==
  ASSUME TypeInv, Reset
  PROVE  LayoutInv'
<1>1. /\ stream' = [stream EXCEPT !.writable = 0, !.readable = 0]
      /\ script' = <<>> /\ read' = 0 /\ mode' = "open"
  BY DEF Reset
<1>2. stream \in Stream
  BY DEF TypeInv, Fits
<1>3. stream'.writable = 0 /\ stream'.readable = 0
  BY <1>1, <1>2 DEF Stream
<1>4. Len(script') = 0 /\ DOMAIN script' = {}
  BY <1>1
<1> DEFINE at == [i \in 1..1 |-> 0]
<1>5. at \in [1..(0 + 1) -> Nat] /\ at[1] = 0 /\ at[0 + 1] = 0 /\ \A i \in 1..(0 + 1) : at[i] <= at[0 + 1]
  OBVIOUS
<1> HIDE DEF at
<1>6. Shown(stream'.data, script', at) /\ Zeroed(stream', at[0 + 1]) /\ ~Copied'
  <2>1. ~Copied'
    BY <1>4 DEF Copied
  <2>2. RoundUp(0) = 0
    BY BufferAssumption DEF RoundUp, BITS_TO_BYTES
  <2>3. Zeroed(stream', at[0 + 1])
    BY <1>3, <1>5, <2>2 DEF Zeroed
  <2>4. \A i \in 1..Len(script') : FALSE
    BY <1>4
  <2>5. Shown(stream'.data, script', at)
    BY <2>4 DEF Shown
  <2> QED
    BY <2>1, <2>3, <2>5
<1>7. Layout(at)'
  BY <1>1, <1>3, <1>4, <1>5, <1>6 DEF Layout
<1> QED
  BY <1>7 DEF LayoutInv

\* The receiver has the script in the same places, and zeros up to the end of its last byte.
LEMMA LayoutReceive ==
  ASSUME TypeInv, LayoutInv, Receive
  PROVE  LayoutInv'
<1> DEFINE n == Len(script)
           t == stream'
<1>1. PICK at : Layout(at)
  BY DEF LayoutInv
<1>2. t = Received(stream) /\ read' = 0 /\ script' = script /\ mode' = "received"
  BY DEF Receive
<1> HIDE DEF n, t
<1>n. n = Len(script)
  BY DEF n
<1>3. Fits(stream)
  BY DEF TypeInv
<1>4. /\ Fits(t) /\ t.readable = 0
      /\ t.writable = RoundUp(stream.writable) /\ stream.writable <= t.writable /\ RoundUp(t.writable) = t.writable
      /\ \A p \in 0..(t.writable - 1) : p \in t.data <=> p \in stream.data
  BY <1>2, <1>3, ReceivedIs
<1>5. /\ n \in Nat /\ at[1] = 0 /\ at[n + 1] \in Nat /\ at[n + 1] <= stream.writable /\ stream.writable \in Nat
      /\ ~Copied => Zeroed(stream, at[n + 1])
  BY <1>1, <1>n, LayoutIs
<1>6. t.writable \in Nat
  BY <1>4, FitsIs
<1>7. \A p \in 0..(at[n + 1] - 1) : p \in t.data <=> p \in stream.data
  <2>1. \A p \in 0..(at[n + 1] - 1) : p \in 0..(t.writable - 1)
    BY <1>4, <1>5, <1>6
  <2> QED
    BY <1>4, <2>1
<1>8. ~Copied => Zeroed(t, at[n + 1])
  <2>1. SUFFICES ASSUME ~Copied, NEW q \in at[n + 1]..(RoundUp(t.writable) - 1) PROVE q \notin t.data
    BY DEF Zeroed
  <2>2. q \in at[n + 1]..(RoundUp(stream.writable) - 1) /\ q \in 0..(t.writable - 1)
    BY <1>4, <1>5, <1>6
  <2>3. q \notin stream.data
    BY <1>5, <2>1, <2>2 DEF Zeroed
  <2> QED
    BY <1>4, <2>2, <2>3
<1>9. read' \in 0..Len(script) /\ t.readable = at[read' + 1]
  <2>1. 0 + 1 = 1 /\ 0 \in 0..n
    BY <1>5
  <2> QED
    BY <1>2, <1>4, <1>5, <1>n, <2>1
<1> QED
  BY <1>1, <1>2, <1>4, <1>7, <1>8, <1>9, <1>n, LayoutKept DEF t

\* Zeros follow the script.
LEMMA LayoutPad ==
  ASSUME TypeInv, LayoutInv, NEW bytes \in PadTo, Pad(bytes)
  PROVE  LayoutInv'
<1> DEFINE n == Len(script)
           t == stream'
<1>1. PICK at : Layout(at)
  BY DEF LayoutInv
<1>2. mode = "open" /\ t = PadZeros(stream, bytes) /\ read' = read /\ script' = script /\ mode' = "padded"
  BY DEF Pad
<1> HIDE DEF n, t
<1>n. n = Len(script)
  BY DEF n
<1>3. Fits(stream) /\ bytes \in Nat
  BY FieldsAssumption DEF TypeInv
<1>4. PICK m \in Nat : Appends(stream, t, m, {})
  BY <1>2, <1>3, PadIs
<1>5. /\ n \in Nat /\ read \in 0..n /\ at[n + 1] = stream.writable /\ stream.writable \in Nat
      /\ Clean(stream) /\ stream.readable = at[read + 1]
  BY <1>1, <1>2, <1>n, LayoutIs
<1>6. /\ Fits(t) /\ t.readable = stream.readable /\ t.writable = stream.writable + m
      /\ \A p \in 0..(stream.writable - 1) : p \in t.data <=> p \in stream.data
  BY <1>4 DEF Appends, Extends
<1>7. (\A j \in 0..(m - 1) : stream.writable + j \notin t.data) /\ Clean(t)
  BY <1>4, <1>5 DEF Appends
<1>8. Zeroed(t, stream.writable)
  <2>1. SUFFICES ASSUME NEW q \in stream.writable..(RoundUp(t.writable) - 1) PROVE q \notin t.data
    BY DEF Zeroed
  <2>2. t.writable \in Nat /\ RoundUp(t.writable) \in Nat
    BY <1>5, <1>6, RoundIs
  <2>3. CASE q < t.writable
    <3>1. q - stream.writable \in 0..(m - 1) /\ stream.writable + (q - stream.writable) = q
      BY <1>5, <1>6, <2>2, <2>3
    <3> QED
      BY <1>7, <3>1
  <2>4. CASE ~ q < t.writable
    <3>1. q \in t.writable..(RoundUp(t.writable) - 1)
      BY <1>5, <2>2, <2>4
    <3> QED
      BY <1>7, <3>1 DEF Clean
  <2> QED
    BY <2>3, <2>4
<1>9. stream.writable <= t.writable
  BY <1>5, <1>6
<1> QED
  BY <1>1, <1>2, <1>5, <1>6, <1>8, <1>9, <1>n, LayoutKept DEF t

\* Every call keeps the places of the script.
LEMMA LayoutNext ==
  ASSUME \A f \in Fields : Lossless(f), TypeInv, LayoutInv, [Next]_vars
  PROVE  LayoutInv'
<1>0. PICK at : Layout(at)
  BY DEF LayoutInv
<1>1. ASSUME NEW f \in Fields, Write(f) PROVE LayoutInv'
  BY <1>1, LayoutWrite
<1>2. CASE Read
  <2>1. /\ read + 2 \in 1..(Len(script) + 1) /\ stream' = MoveTo(stream, at[read + 2])
    BY <1>0, <1>2, ReadIs
  <2>2. read' = read + 1 /\ script' = script /\ mode' = mode
    BY <1>2 DEF Read
  <2>3. Len(script) \in Nat /\ read \in 0..Len(script) /\ at \in [1..(Len(script) + 1) -> Nat]
    <3>1. \A n : n = Len(script) => n \in Nat /\ read \in 0..n /\ at \in [1..(n + 1) -> Nat]
      BY <1>0, LayoutIs
    <3> QED
      BY <3>1
  <2>4. read' \in 0..Len(script) /\ read' + 1 = read + 2
    BY <2>1, <2>2, <2>3
  <2>5. at[read + 2] \in Nat
    BY <2>1, <2>3
  <2>6. stream' = [stream EXCEPT !.readable = at[read + 2]]
    BY <2>1 DEF MoveTo
  <2> QED
    BY <1>0, <2>2, <2>4, <2>5, <2>6, LayoutMoved
<1>3. CASE Rewind
  <2>1. stream' = [stream EXCEPT !.readable = 0] /\ read' = 0 /\ script' = script /\ mode' = mode
    BY <1>3 DEF Rewind
  <2>2. Len(script) \in Nat /\ at[1] = 0
    BY <1>0, LayoutIs
  <2>3. read' \in 0..Len(script) /\ at[read' + 1] = 0
    BY <2>1, <2>2
  <2> QED
    BY <1>0, <2>1, <2>3, LayoutMoved
<1>4. CASE Reset
  BY <1>4, LayoutReset
<1>5. CASE Receive
  BY <1>5, LayoutReceive
<1>6. ASSUME NEW bytes \in PadTo, Pad(bytes) PROVE LayoutInv'
  BY <1>6, LayoutPad
<1>7. ASSUME NEW c \in Sources, Copy(c.source, c.bits) PROVE LayoutInv'
  BY <1>7, LayoutCopy
<1>8. CASE UNCHANGED vars
  BY <1>8 DEF vars, LayoutInv, Layout, Copied
<1> QED
  BY <1>1, <1>2, <1>3, <1>4, <1>5, <1>6, <1>7, <1>8 DEF Next

\* What is read at its place is what was written there.
LEMMA ReadNext ==
  ASSUME TypeInv, LayoutInv, ReadsWhatWasWritten, [Next]_vars
  PROVE  ReadsWhatWasWritten'
<1>1. CASE Read
  <2>1. PICK at : Layout(at)
    BY DEF LayoutInv
  <2> QED
    BY <1>1, <2>1, ReadIs DEF ReadsWhatWasWritten
<1>2. CASE UNCHANGED vars
  BY <1>2 DEF vars, ReadsWhatWasWritten
<1>3. CASE last' = Nothing
  BY <1>3 DEF Nothing, ReadsWhatWasWritten
<1>4. Read \/ last' = Nothing \/ UNCHANGED vars
  BY DEF Next, Write, Rewind, Reset, Receive, Pad, Copy
<1> QED
  BY <1>1, <1>2, <1>3, <1>4

\* The places say where the reader and the writer are, and what is left.
LEMMA LayoutImplies ==
  ASSUME TypeInv, LayoutInv
  PROVE  PositionsAgree /\ TailIsZero
<1> DEFINE n == Len(script)
<1>1. PICK at : Layout(at)
  BY DEF LayoutInv
<1> HIDE DEF n
<1>n. n = Len(script)
  BY DEF n
<1>2. /\ n \in Nat /\ read \in 0..n /\ read + 1 \in 1..(n + 1)
      /\ at \in [1..(n + 1) -> Nat] /\ at[n + 1] \in Nat
      /\ \A i \in 1..(n + 1) : at[i] <= at[n + 1]
      /\ at[n + 1] <= stream.writable /\ stream.writable \in Nat
      /\ stream.readable = at[read + 1]
      /\ ~Copied => Zeroed(stream, at[n + 1])
      /\ mode = "open" => at[n + 1] = stream.writable
  BY <1>1, <1>n, LayoutIs
<1>3. stream.readable \in Nat /\ stream.readable <= stream.writable
  BY <1>2
<1>4. stream.writable <= stream.allocated
  BY DEF TypeInv
<1>5. PositionsAgree
  BY <1>2, <1>3, <1>4, <1>n DEF PositionsAgree
<1> DEFINE from == IF read = Len(script) THEN stream.readable ELSE stream.writable
<1>6. from \in Nat /\ at[n + 1] <= from
  BY <1>2, <1>3, <1>n
<1> HIDE DEF from
<1>7. RoundUp(stream.writable) \in Nat
  BY <1>2, RoundIs
<1>8. ASSUME ~Copied, NEW p \in from..(RoundUp(stream.writable) - 1) PROVE p \notin stream.data
  <2>1. p \in at[n + 1]..(RoundUp(stream.writable) - 1)
    BY <1>2, <1>6, <1>7
  <2> QED
    BY <1>2, <1>8, <2>1 DEF Zeroed
<1>9. TailIsZero
  BY <1>8 DEF TailIsZero, from
<1> QED
  BY <1>5, <1>9

Inv == TypeInv /\ LayoutInv /\ ReadsWhatWasWritten

\* The invariant of the three theorems.
LEMMA AlwaysInv ==
  ASSUME \A f \in Fields : Lossless(f)
  PROVE  Spec => []Inv
<1>1. Init => Inv
  BY TypeInit, LayoutInit DEF Inv, Init, Nothing, ReadsWhatWasWritten
<1>2. Inv /\ [Next]_vars => Inv'
  BY TypeNext, LayoutNext, ReadNext DEF Inv
<1> QED
  BY <1>1, <1>2, PTL DEF Spec

\* Fields that lose nothing are read as they were written, at both ends: after any
\* fields, before any, whatever malloc() returned and however often the buffer grew,
\* again from the start, and after reset() over the bytes of an earlier message.
THEOREM AlwaysReadsWhatWasWritten ==
  ASSUME \A f \in Fields : Lossless(f)
  PROVE  Spec => []ReadsWhatWasWritten
<1>1. Inv => ReadsWhatWasWritten
  BY DEF Inv
<1> QED
  BY <1>1, AlwaysInv, PTL

\* The reader of such fields never passes the writer, and is where the writer is
\* when it has read all: AssertStreamEmpty().
THEOREM AlwaysPositionsAgree ==
  ASSUME \A f \in Fields : Lossless(f)
  PROVE  Spec => []PositionsAgree
<1>1. Inv => PositionsAgree
  BY LayoutImplies DEF Inv
<1> QED
  BY <1>1, AlwaysInv, PTL

\* The rest of a byte that was begun is zeros whatever the memory held, so that the
\* next writer may OR into it; so are the last byte and the padding that a receiver
\* has left.
THEOREM AlwaysTailIsZero ==
  ASSUME \A f \in Fields : Lossless(f)
  PROVE  Spec => []TailIsZero
<1>1. Inv => TailIsZero
  BY LayoutImplies DEF Inv
<1> QED
  BY <1>1, AlwaysInv, PTL
===============================================================================
