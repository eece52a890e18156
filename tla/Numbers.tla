------------------------------ MODULE Numbers ------------------------------
(***************************************************************************)
(* Facts about quotients and remainders, which the provers know of single   *)
(* ones only, and about least elements.                                     *)
(***************************************************************************)
EXTENDS Integers, WellFoundedInduction, TLAPS

\* The quotient and the remainder of an integer.
LEMMA DivMod ==
  \A a \in Int, d \in Nat \ {0} :
    a \div d \in Int /\ a % d \in 0..(d - 1) /\ a = (a \div d) * d + (a % d)
OBVIOUS

\* Multiples are ordered as their factors are.
LEMMA TimesMonotone == \A x, y \in Int, d \in Nat : x <= y => x * d <= y * d
OBVIOUS

\* A quotient is at least q if the number is at least q times the divisor.
LEMMA DivIs == \A a, q \in Int, d \in Nat \ {0} : q * d <= a <=> q <= a \div d
<1> SUFFICES ASSUME NEW a \in Int, NEW q \in Int, NEW d \in Nat \ {0}
             PROVE  q * d <= a <=> q <= a \div d
  OBVIOUS
<1> DEFINE k == a \div d
<1>1. k \in Int /\ a % d \in 0..(d - 1) /\ a = k * d + (a % d)
  BY DivMod
<1> HIDE DEF k
<1>2. CASE q <= k
  <2>1. q * d <= k * d
    BY <1>1, <1>2, TimesMonotone
  <2> QED
    BY <1>1, <1>2, <2>1 DEF k
<1>3. CASE q > k
  <2>1. (k + 1) * d <= q * d /\ (k + 1) * d = k * d + d
    BY <1>1, <1>3, TimesMonotone
  <2> QED
    BY <1>1, <1>3, <2>1 DEF k
<1> QED
  BY <1>1, <1>2, <1>3

\* Quotient and remainder are unique.
LEMMA ModUnique ==
  ASSUME NEW a \in Int, NEW q \in Int, NEW r \in Int, NEW d \in Nat \ {0},
         a = q * d + r, 0 <= r, r < d
  PROVE  a % d = r /\ a \div d = q
<1> DEFINE k == a \div d
           p == q * d
<1>1. k \in Int /\ a % d \in 0..(d - 1) /\ a = k * d + (a % d) /\ p \in Int
  BY DivMod
<1>2. q <= k
  <2>1. p <= a
    BY <1>1
  <2> QED
    BY <2>1, DivIs
<1>3. ~(q + 1 <= k)
  <2>1. (q + 1) * d = p + d
    OBVIOUS
  <2>2. ~((q + 1) * d <= a)
    BY <1>1, <2>1
  <2> QED
    BY <2>2, DivIs
<1>4. q = k
  BY <1>1, <1>2, <1>3
<1>5. a % d = a - k * d
  BY <1>1
<1> QED
  BY <1>1, <1>4, <1>5

\* Adding a multiple of the divisor does not change the remainder.
LEMMA ModPlus == \A a, q \in Int, d \in Nat \ {0} : (a + q * d) % d = a % d
<1> SUFFICES ASSUME NEW a \in Int, NEW q \in Int, NEW d \in Nat \ {0}
             PROVE  (a + q * d) % d = a % d
  OBVIOUS
<1> DEFINE k == a \div d
           r == a % d
           b == a + q * d
<1>1. k \in Int /\ r \in 0..(d - 1) /\ a = k * d + r
  BY DivMod
<1>2. (k + q) * d = k * d + q * d /\ k + q \in Int /\ q * d \in Int /\ k * d \in Int
  BY <1>1
<1>3. b \in Int /\ b = (k + q) * d + r
  BY <1>1, <1>2
<1> HIDE DEF b, k, r
<1>4. b % d = r
  BY <1>1, <1>2, <1>3, ModUnique
<1> QED
  BY <1>4 DEF b, r

\* The remainder of a natural number is at most the number.
LEMMA ModLeq == \A x \in Nat, d \in Nat \ {0} : x % d <= x
<1> SUFFICES ASSUME NEW x \in Nat, NEW d \in Nat \ {0} PROVE x % d <= x
  OBVIOUS
<1>1. 0 * d <= x
  OBVIOUS
<1>2. 0 <= x \div d
  BY <1>1, DivIs
<1>3. PICK q \in Int : q = x \div d
  OBVIOUS
<1>4. 0 * d <= q * d
  BY <1>2, <1>3, TimesMonotone
<1>5. x = q * d + (x % d) /\ x % d \in Int
  BY <1>3, DivMod
<1>6. PICK p \in Int : p = q * d
  OBVIOUS
<1> QED
  BY <1>4, <1>5, <1>6

\* A number below the divisor is its own remainder.
LEMMA ModSmall == \A a \in Nat, d \in Nat \ {0} : a < d => a % d = a
<1> SUFFICES ASSUME NEW a \in Nat, NEW d \in Nat \ {0}, a < d PROVE a % d = a
  OBVIOUS
<1>1. a = 0 * d + a
  OBVIOUS
<1> QED
  BY <1>1, ModUnique

\* The remainder of a sum, when one term is a remainder already.
LEMMA ModSum == \A a, b \in Int, d \in Nat \ {0} : ((a % d) + b) % d = (a + b) % d
<1> SUFFICES ASSUME NEW a \in Int, NEW b \in Int, NEW d \in Nat \ {0}
             PROVE  ((a % d) + b) % d = (a + b) % d
  OBVIOUS
<1>1. PICK q \in Int, r \in Int : a = q * d + r /\ r = a % d
  <2>1. a \div d \in Int /\ a % d \in Int /\ a = (a \div d) * d + (a % d)
    BY DivMod
  <2> QED
    BY <2>1
<1>2. PICK m \in Int : m = q * d
  OBVIOUS
<1>3. r + b \in Int /\ a + b = (r + b) + q * d
  BY <1>1, <1>2
<1>4. ((r + b) + q * d) % d = (r + b) % d
  BY <1>3, ModPlus
<1> QED
  BY <1>1, <1>3, <1>4

\* A number is a multiple of the divisor if its remainder is zero.
LEMMA MultipleIs ==
  \A a \in Int, d \in Nat \ {0} : a % d = 0 <=> \E k \in Int : a = k * d
<1> SUFFICES ASSUME NEW a \in Int, NEW d \in Nat \ {0}
             PROVE  a % d = 0 <=> \E k \in Int : a = k * d
  OBVIOUS
<1>1. ASSUME a % d = 0 PROVE \E k \in Int : a = k * d
  <2>1. a \div d \in Int /\ a = (a \div d) * d + (a % d)
    BY DivMod
  <2>2. PICK q \in Int : q = a \div d
    BY <2>1
  <2>3. a = q * d
    BY <1>1, <2>1, <2>2
  <2> QED
    BY <2>3
<1>2. ASSUME NEW k \in Int, a = k * d PROVE a % d = 0
  <2>1. a = k * d + 0
    BY <1>2
  <2> QED
    BY <2>1, ModUnique
<1> QED
  BY <1>1, <1>2

\* Sums and differences of multiples are multiples.
LEMMA MultipleSum ==
  \A a, b \in Int, d \in Nat \ {0} :
    a % d = 0 /\ b % d = 0 => (a + b) % d = 0 /\ (a - b) % d = 0
<1> SUFFICES ASSUME NEW a \in Int, NEW b \in Int, NEW d \in Nat \ {0},
                    a % d = 0, b % d = 0
             PROVE  (a + b) % d = 0 /\ (a - b) % d = 0
  OBVIOUS
<1>1. PICK j \in Int, k \in Int : a = j * d /\ b = k * d
  BY MultipleIs
<1>2. (j + k) * d = j * d + k * d /\ (j - k) * d = j * d - k * d
  OBVIOUS
<1>3. /\ a + b \in Int /\ a - b \in Int /\ j + k \in Int /\ j - k \in Int
      /\ a + b = (j + k) * d /\ a - b = (j - k) * d
  BY <1>1, <1>2
<1> QED
  BY <1>3, MultipleIs

\* A multiple that is below another is below it by the divisor.
LEMMA MultipleLess ==
  \A a, b \in Int, d \in Nat \ {0} : a % d = 0 /\ b % d = 0 /\ a < b => a + d <= b
<1> SUFFICES ASSUME NEW a \in Int, NEW b \in Int, NEW d \in Nat \ {0},
                    a % d = 0, b % d = 0, a < b
             PROVE  a + d <= b
  OBVIOUS
<1>1. PICK j \in Int, k \in Int : a = j * d /\ b = k * d
  BY MultipleIs
<1>2. j + 1 <= k
  <2>1. ~(k * d <= j * d)
    BY <1>1
  <2>2. ~(k <= j)
    BY <2>1, TimesMonotone
  <2> QED
    BY <2>2
<1>3. (j + 1) * d <= k * d /\ (j + 1) * d = j * d + d
  BY <1>2, TimesMonotone
<1> QED
  BY <1>1, <1>3

\* The remainder by a multiple of the divisor has the same remainder.
LEMMA ModMod ==
  \A a \in Int, m, d \in Nat \ {0} : m % d = 0 => (a % m) % d = a % d
<1> SUFFICES ASSUME NEW a \in Int, NEW m \in Nat \ {0}, NEW d \in Nat \ {0}, m % d = 0
             PROVE  (a % m) % d = a % d
  OBVIOUS
<1>1. PICK q \in Int, r \in Int : a = q * m + r /\ r = a % m
  <2>1. a \div m \in Int /\ a % m \in Int /\ a = (a \div m) * m + (a % m)
    BY DivMod
  <2> QED
    BY <2>1
<1>2. PICK k \in Int : m = k * d
  BY MultipleIs
<1>3. PICK p \in Int : p = q * k
  OBVIOUS
<1>4. q * m = p * d
  BY <1>2, <1>3
<1>5. a = r + p * d
  <2>1. PICK x \in Int : x = q * m
    OBVIOUS
  <2> QED
    BY <1>1, <1>4, <2>1
<1>6. (r + p * d) % d = r % d
  BY ModPlus
<1> QED
  BY <1>1, <1>5, <1>6

\* Numbers less than a turn apart have different remainders.
LEMMA ModApart ==
  \A x \in Int, d \in Nat \ {0} : \A i, j \in 0..(d - 1) : (x + i) % d = (x + j) % d => i = j
<1> SUFFICES ASSUME NEW x \in Int, NEW d \in Nat \ {0}, NEW i \in 0..(d - 1),
                    NEW j \in 0..(d - 1), (x + i) % d = (x + j) % d
             PROVE  i = j
  OBVIOUS
<1>1. x + i \in Int /\ x + j \in Int /\ i \in Nat /\ j \in Nat /\ i < d /\ j < d
  OBVIOUS
<1>2. PICK r \in Int : r = (x + i) % d /\ r = (x + j) % d
  BY <1>1, DivMod
<1>3. PICK p \in Int : x + i = p * d + r
  BY <1>1, <1>2, DivMod
<1>4. PICK q \in Int : x + j = q * d + r
  BY <1>1, <1>2, DivMod
<1>5. (p - q) * d = i - j
  <2>1. (p - q) * d = p * d - q * d
    OBVIOUS
  <2>2. PICK m \in Int, n \in Int : m = p * d /\ n = q * d
    OBVIOUS
  <2> QED
    BY <1>1, <1>3, <1>4, <2>1, <2>2
<1>6. ~(1 <= p - q)
  <2>1. 1 * d <= (p - q) * d => d <= i - j
    BY <1>5
  <2> QED
    BY <1>1, <2>1, TimesMonotone
<1>7. ~(p - q <= 0 - 1)
  <2>1. (0 - 1) * d = 0 - d
    OBVIOUS
  <2>2. (p - q) * d <= (0 - 1) * d => i - j <= 0 - d
    BY <1>5, <2>1
  <2> QED
    BY <1>1, <2>2, TimesMonotone
<1>8. p - q = 0
  BY <1>6, <1>7
<1>9. 0 * d = 0
  OBVIOUS
<1> QED
  BY <1>1, <1>5, <1>8, <1>9

\* A set of natural numbers that is not empty has a least element.
LEMMA LeastNat == \A S \in SUBSET Nat : S # {} => \E m \in S : \A n \in S : m <= n
<1> SUFFICES ASSUME NEW S \in SUBSET Nat, S # {} PROVE \E m \in S : \A n \in S : m <= n
  OBVIOUS
<1>1. PICK m \in S : \A n \in S : ~(<<n, m>> \in OpToRel(<, Nat))
  <2> DEFINE R == OpToRel(<, Nat)
  <2>1. IsWellFoundedOn(R, Nat)
    BY NatLessThanWellFounded, Zenon
  <2> HIDE DEF R
  <2>2. \E x \in S : \A y \in S : ~(<<y, x>> \in R)
    BY <2>1, WFMin
  <2> QED
    BY <2>2, Zenon DEF R
<1>2. \A n \in S : n \in Nat /\ m \in Nat /\ ~(n < m)
  BY <1>1 DEF OpToRel
<1> QED
  BY <1>2

\* Induction, for a set.
LEMMA NatSet ==
  ASSUME NEW S \in SUBSET Nat, 0 \in S, \A n \in S : n + 1 \in S
  PROVE  S = Nat
<1> SUFFICES ASSUME Nat \ S # {} PROVE FALSE
  OBVIOUS
<1>1. PICK m \in Nat \ S : \A n \in Nat \ S : m <= n
  BY LeastNat
<1>2. m # 0 /\ m - 1 \in Nat /\ ~(m <= m - 1) /\ m - 1 + 1 = m
  BY <1>1
<1>3. m - 1 \in S
  BY <1>1, <1>2
<1> QED
  BY <1>1, <1>2, <1>3

\* What holds of 0, and of the next number whenever it holds of one, holds up to n.
LEMMA UpTo ==
  ASSUME NEW Good, NEW n \in Nat, 0 \in Good, \A k \in 0..(n - 1) : k \in Good => k + 1 \in Good
  PROVE  \A k \in 0..n : k \in Good
<1> DEFINE Bad == {k \in 0..n : k \notin Good}
<1>1. Bad \in SUBSET Nat
  OBVIOUS
<1>2. ASSUME Bad # {} PROVE FALSE
  <2> HIDE DEF Bad
  <2>1. PICK k \in Bad : \A m \in Bad : k <= m
    BY <1>1, <1>2, LeastNat
  <2> USE DEF Bad
  <2>2. k \in 1..n /\ k - 1 \in 0..(n - 1) /\ k - 1 \in 0..n /\ ~ k <= k - 1
    BY <2>1
  <2>3. k - 1 \in Good
    BY <2>1, <2>2
  <2>4. (k - 1) + 1 \in Good
    BY <2>2, <2>3
  <2> QED
    BY <2>1, <2>2, <2>4
<1> QED
  BY <1>2

=============================================================================
