-------------------------- MODULE WheelTimerProofs ---------------------------
(***************************************************************************)
(* Theorems about the timing wheels, for any number of wheels of any size,  *)
(* any timers and any times.                                                *)
(***************************************************************************)
EXTENDS WheelTimer, Numbers, TLAPS

-----------------------------------------------------------------------------
(* Where a timer goes.                                                       *)

\* The wheels and their ticks.
LEMMA WheelFacts ==
  /\ WheelNum \in Nat \ {0} /\ WHEEL_LEN \in Nat \ {0} /\ Jiffies(0) = 1
  /\ \A w \in Wheel : w \in Nat /\ Jiffies(w) \in Nat \ {0} /\ Jiffies(w + 1) \in Nat \ {0}
<1> USE ConstantsAssumption, PowersAssumption DEF Wheel
<1>1. \A w \in Wheel : w \in 0..WheelNum /\ w + 1 \in 0..WheelNum
  OBVIOUS
<1> HIDE DEF Wheel
<1> QED
  BY <1>1 DEF Wheel

\* get_wheel_idx() finds the wheel whose ticks and turn the timeout is between.
LEMMA WheelIdxIs ==
  ASSUME NEW timeout \in Nat \ {0}
  PROVE  /\ WheelIdx(timeout) \in Wheel
         /\ Jiffies(WheelIdx(timeout)) <= timeout
         /\ timeout < Jiffies(WheelIdx(timeout) + 1) \/ WheelIdx(timeout) = WheelNum - 1
<1> DEFINE Fits(w) == /\ Jiffies(w) <= timeout
                      /\ timeout < Jiffies(w + 1) \/ w = WheelNum - 1
           S == {w \in Wheel : w > 0 /\ timeout < Jiffies(w)}
<1>1. \E w \in Wheel : Fits(w)
  <2>1. CASE S = {}
    <3>1. WheelNum - 1 \in Wheel
      BY WheelFacts DEF Wheel
    <3>2. Jiffies(WheelNum - 1) <= timeout
      <4>1. CASE WheelNum - 1 = 0
        BY <4>1, WheelFacts
      <4>2. CASE WheelNum - 1 > 0
        <5>1. Jiffies(WheelNum - 1) \in Nat /\ ~(timeout < Jiffies(WheelNum - 1))
          BY <2>1, <3>1, <4>2, WheelFacts
        <5> QED
          BY <5>1
      <4> QED
        BY <4>1, <4>2, WheelFacts
    <3> QED
      BY <3>1, <3>2
  <2>2. CASE S # {}
    <3>1. S \in SUBSET Nat
      BY WheelFacts
    <3> HIDE DEF S
    <3>2. PICK m \in S : \A n \in S : m <= n
      BY <2>2, <3>1, LeastNat
    <3> USE DEF S
    <3>3. m \in Wheel /\ m > 0 /\ timeout < Jiffies(m) /\ m - 1 \in Wheel /\ m - 1 \notin S
      BY <3>2, WheelFacts DEF Wheel
    <3>4. Jiffies(m - 1) <= timeout
      <4>1. CASE m - 1 = 0
        BY <4>1, WheelFacts
      <4>2. CASE m - 1 > 0
        <5>1. Jiffies(m - 1) \in Nat /\ ~(timeout < Jiffies(m - 1))
          BY <3>3, <4>2, WheelFacts
        <5> QED
          BY <5>1
      <4> QED
        BY <3>3, <4>1, <4>2, WheelFacts
    <3>5. m - 1 + 1 = m
      BY <3>3, WheelFacts
    <3> QED
      BY <3>3, <3>4, <3>5
  <2> QED
    BY <2>1, <2>2
<1>2. WheelIdx(timeout) = CHOOSE w \in Wheel : Fits(w)
  BY DEF WheelIdx
<1> QED
  BY <1>1, <1>2

\* A slot index is one of the wheel's.
LEMMA SlotIdxType == \A w \in Wheel, when \in Int : SlotIdx(w, when) \in Slot
<1> SUFFICES ASSUME NEW w \in Wheel, NEW when \in Int PROVE SlotIdx(w, when) \in Slot
  OBVIOUS
<1>1. when \div Jiffies(w) \in Int
  BY WheelFacts
<1>2. \A a \in Int : a % WHEEL_LEN \in Slot
  BY WheelFacts DEF Slot
<1> QED
  BY <1>1, <1>2 DEF SlotIdx

-----------------------------------------------------------------------------
(* sche_timer(), stop_timer() and the masks.                                 *)

\* The timer goes to a slot of its wheel, or is expired.
Place(when) ==
  IF when > curtime THEN <<WheelIdx(when - curtime), SlotIdx(WheelIdx(when - curtime), when)>>
  ELSE Expired

\* The place is a slot for a time to come.
LEMMA PlaceType ==
  ASSUME curtime \in Nat, NEW when \in Nat
  PROVE  IF when > curtime THEN Place(when) \in Slots ELSE Place(when) = Expired
<1>1. CASE when > curtime
  <2>1. when - curtime \in Nat \ {0}
    BY <1>1
  <2>2. WheelIdx(when - curtime) \in Wheel
    BY <2>1, WheelIdxIs
  <2>3. SlotIdx(WheelIdx(when - curtime), when) \in Slot
    BY <2>2, SlotIdxType
  <2> QED
    BY <1>1, <2>2, <2>3 DEF Place, Slots
<1>2. CASE ~(when > curtime)
  BY <1>2 DEF Place
<1> QED
  BY <1>1, <1>2

\* What sche_timer() does to the lists and the masks.
LEMMA Scheduled ==
  ASSUME TypeOK, NEW t \in Timer, NEW when \in Nat, Schedule(t, when)
  PROVE  /\ expires' = [expires EXCEPT ![t] = when]
         /\ list' = [list EXCEPT ![t] = Place(when)]
         /\ bits' = [v \in Wheel |-> BitsWithout(t)[v] \cup
                       (IF Place(when)[1] = v THEN {Place(when)[2]} ELSE {})]
BY DEF Schedule, Place

\* Its effect keeps the types.
LEMMA ScheduleType ==
  ASSUME TypeOK, NEW t \in Timer, NEW when \in Nat, Schedule(t, when)
  PROVE  /\ expires' \in [Timer -> Nat]
         /\ list' \in [Timer -> Slots \cup {Expired, NoList}]
         /\ bits' \in [Wheel -> SUBSET Slot]
<1>1. Place(when) \in Slots \/ Place(when) = Expired
  BY PlaceType DEF TypeOK
<1>2. \A v \in Wheel : Place(when)[1] = v => Place(when)[2] \in Slot
  <2>1. CASE Place(when) \in Slots
    BY <2>1 DEF Slots
  <2>2. CASE Place(when) = Expired
    BY <2>2, WheelFacts DEF Expired, Wheel
  <2> QED
    BY <1>1, <2>1, <2>2
<1>3. \A v \in Wheel : BitsWithout(t)[v] \subseteq Slot
  BY DEF BitsWithout, TypeOK
<1>4. bits' \in [Wheel -> SUBSET Slot]
  BY <1>2, <1>3, Scheduled
<1> QED
  BY <1>1, <1>4, Scheduled DEF TypeOK

\* A mask stays exact when a timer leaves its list, or moves to a place that is marked.
LEMMA MoveKeepsBits ==
  ASSUME TypeOK, BitsExact, NEW t \in Timer, NEW place,
         place \in Slots \/ place \in {Expired, NoList},
         list' = [list EXCEPT ![t] = place],
         \A v \in Wheel :
           bits'[v] = BitsWithout(t)[v] \cup (IF place[1] = v THEN {place[2]} ELSE {})
  PROVE  BitsExact'
<1> SUFFICES ASSUME NEW w \in Wheel, NEW s \in Slot
             PROVE  s \in bits'[w] <=> In(<<w, s>>)' # {}
  BY DEF BitsExact
<1>1. s \in bits[w] <=> In(<<w, s>>) # {}
  BY DEF BitsExact
<1>2. s \in BitsWithout(t)[w] <=> s \in bits[w] /\ (list[t] = <<w, s>> => In(<<w, s>>) # {t})
  BY DEF BitsWithout
<1>3. place[1] = w /\ place[2] = s <=> place = <<w, s>>
  <2>1. CASE place \in Slots
    BY <2>1 DEF Slots
  <2>2. CASE place \in {Expired, NoList}
    BY <2>2, WheelFacts DEF Expired, NoList, Wheel
  <2> QED
    BY <2>1, <2>2
<1>4. s \in bits'[w] <=> s \in BitsWithout(t)[w] \/ place = <<w, s>>
  BY <1>3
<1>5. In(<<w, s>>)' = (In(<<w, s>>) \ {t}) \cup (IF place = <<w, s>> THEN {t} ELSE {})
  BY DEF In, TypeOK
<1>6. t \in In(<<w, s>>) <=> list[t] = <<w, s>>
  BY DEF In
<1> QED
  BY <1>1, <1>2, <1>4, <1>5, <1>6

\* In particular when it is scheduled.
LEMMA ScheduleKeepsBits ==
  ASSUME TypeOK, BitsExact, NEW t \in Timer, NEW when \in Nat, Schedule(t, when)
  PROVE  BitsExact'
<1>1. Place(when) \in Slots \/ Place(when) \in {Expired, NoList}
  BY PlaceType DEF TypeOK
<1>2. \A v \in Wheel :
        bits'[v] = BitsWithout(t)[v] \cup (IF Place(when)[1] = v THEN {Place(when)[2]} ELSE {})
  BY Scheduled
<1> QED
  BY <1>1, <1>2, Scheduled, MoveKeepsBits

\* And when it is stopped.
LEMMA StopKeepsBits ==
  ASSUME TypeOK, BitsExact, NEW t \in Timer,
         list' = [list EXCEPT ![t] = NoList], bits' = BitsWithout(t)
  PROVE  BitsExact'
<1>1. NoList[1] \notin Wheel
  BY WheelFacts DEF NoList, Wheel
<1>2. \A v \in Wheel :
        bits'[v] = BitsWithout(t)[v] \cup (IF NoList[1] = v THEN {NoList[2]} ELSE {})
  BY <1>1
<1> QED
  BY <1>2, MoveKeepsBits

\* A timer that is in no slot has no bit: nothing is cleared.
LEMMA OffWheelKeepsBits ==
  ASSUME TypeOK, BitsExact, NEW t \in Timer, list[t] \notin Slots,
         list' = [list EXCEPT ![t] = NoList], UNCHANGED bits
  PROVE  BitsExact'
<1> SUFFICES ASSUME NEW w \in Wheel, NEW s \in Slot
             PROVE  s \in bits'[w] <=> In(<<w, s>>)' # {}
  BY DEF BitsExact
<1>1. list[t] # <<w, s>> /\ NoList # <<w, s>>
  BY WheelFacts DEF Slots, NoList, Wheel
<1>2. In(<<w, s>>)' = In(<<w, s>>)
  <2> HIDE DEF NoList
  <2> QED
    BY <1>1 DEF In, TypeOK
<1> QED
  BY <1>2 DEF BitsExact

-----------------------------------------------------------------------------
(* The types.                                                                *)

\* A repeating timer is scheduled at its first multiple after its last firing and now.
LEMMA NextFiringIs ==
  ASSUME TypeOK, NEW t \in Timer, interval[t] > 0
  PROVE  /\ NextFiring(t) \in Nat
         /\ NextFiring(t) > curtime /\ NextFiring(t) > expires[t]
         /\ (NextFiring(t) - expires[t]) % interval[t] = 0
         /\ NextFiring(t) - interval[t] <= Larger(curtime, expires[t])
<1>1. PICK e \in Nat, i \in Nat \ {0}, c \in Nat :
        e = expires[t] /\ i = interval[t] /\ c = curtime
  BY DEF TypeOK
<1>2. NextFiring(t) = IF e + i > c THEN e + i ELSE c + (i - ((c - (e + i)) % i))
  BY <1>1 DEF NextFiring
<1>3. CASE e + i > c
  <2>1. i % i = 0
    <3>1. i = 1 * i + 0
      OBVIOUS
    <3> QED
      BY <3>1, ModUnique
  <2>2. PICK f \in Nat : f = NextFiring(t) /\ f = e + i
    BY <1>2, <1>3
  <2>3. f - e = i
    BY <2>2
  <2>4. f > c /\ f > e /\ f - i <= Larger(c, e)
    BY <1>3, <2>2 DEF Larger
  <2> QED
    BY <1>1, <2>1, <2>2, <2>3, <2>4
<1>4. CASE ~(e + i > c)
  <2>1. PICK k \in Int, r \in 0..(i - 1) :
          c - (e + i) = k * i + r /\ r = (c - (e + i)) % i
    <3>1. c - (e + i) \in Int
      OBVIOUS
    <3> QED
      BY <3>1, DivMod
  <2>2. PICK p \in Int : p = k * i
    OBVIOUS
  <2>3. NextFiring(t) = c + (i - r)
    BY <1>2, <1>4, <2>1
  <2>4. c = e + i + p + r
    BY <2>1, <2>2
  <2>5. PICK f \in Int : f = NextFiring(t) /\ f = e + i + i + p
    BY <2>3, <2>4
  <2>6. f - e = (k + 2) * i + 0
    <3>1. (k + 2) * i = k * i + 2 * i /\ 2 * i = i + i
      OBVIOUS
    <3> QED
      BY <2>2, <2>5, <3>1
  <2>7. (f - e) % i = 0
    BY <2>6, ModUnique
  <2>8. f \in Nat /\ f > c /\ f > e /\ f - i <= Larger(c, e)
    BY <1>4, <2>3, <2>5 DEF Larger
  <2> QED
    BY <1>1, <2>5, <2>7, <2>8
<1> QED
  BY <1>3, <1>4

\* The initial state has the types.
LEMMA InitType == Init => TypeOK
<1> SUFFICES ASSUME Init PROVE TypeOK
  OBVIOUS
<1>1. list \in [Timer -> Slots \cup {Expired, NoList}]
  BY DEF Init
<1>2. expires \in [Timer -> Nat] /\ interval \in [Timer -> Nat] /\ curtime \in Nat
  BY DEF Init
<1>3. flags \in [Timer -> SUBSET {"repeat", "abs"}] /\ bits \in [Wheel -> SUBSET Slot]
  BY DEF Init
<1> QED
  BY <1>1, <1>2, <1>3 DEF Init, TypeOK

\* Every step keeps them.
LEMMA NextType == TypeOK /\ [Next]_vars => TypeOK'
<1> SUFFICES ASSUME TypeOK, [Next]_vars PROVE TypeOK'
  OBVIOUS
<1>1. ASSUME NEW t \in Timer, NEW f \in Flags, InitTimer(t, f) PROVE TypeOK'
  BY <1>1, ConstantsAssumption DEF InitTimer, TypeOK
<1>2. ASSUME NEW t \in Timer, NEW timeout \in Timeouts, AddTimer(t, timeout) PROVE TypeOK'
  <2>1. timeout \in Nat /\ curtime \in Nat
    BY ConstantsAssumption DEF TypeOK
  <2>2. PICK when \in Nat : Schedule(t, when)
    BY <1>2, <2>1 DEF AddTimer
  <2>3. interval' \in [Timer -> Nat]
    BY <1>2, <2>1 DEF AddTimer, TypeOK, Larger
  <2>4. UNCHANGED <<flags, curtime, aborted>>
    BY <1>2 DEF AddTimer
  <2> QED
    BY <2>2, <2>3, <2>4, ScheduleType DEF TypeOK
<1>3. ASSUME NEW t \in Timer, StopTimer(t) PROVE TypeOK'
  <2>1. BitsWithout(t) \in [Wheel -> SUBSET Slot]
    BY DEF BitsWithout, TypeOK
  <2> QED
    BY <1>3, <2>1 DEF StopTimer, TypeOK
<1>4. ASSUME NEW t \in Timer, GetExpiredTimer(t) PROVE TypeOK'
  <2>1. CASE "repeat" \in flags[t] /\ interval[t] > 0
    <3>1. NextFiring(t) \in Nat
      BY <2>1, NextFiringIs
    <3>2. Schedule(t, NextFiring(t)) /\ UNCHANGED <<interval, flags, curtime, aborted>>
      BY <1>4, <2>1 DEF GetExpiredTimer
    <3> QED
      BY <3>1, <3>2, ScheduleType DEF TypeOK
  <2>2. CASE ~("repeat" \in flags[t] /\ interval[t] > 0)
    BY <1>4, <2>2 DEF GetExpiredTimer, TypeOK
  <2> QED
    BY <2>1, <2>2
<1>5. ASSUME NEW abstime \in curtime..MaxTime, Update(abstime) PROVE TypeOK'
  <2>1. abstime \in Nat
    BY ConstantsAssumption DEF TypeOK
  <2>2. list' \in [Timer -> Slots \cup {Expired, NoList}]
    BY <1>5 DEF Update, TypeOK
  <2>3. bits' \in [Wheel -> SUBSET Slot]
    BY <1>5 DEF Update, TypeOK
  <2> QED
    BY <1>5, <2>1, <2>2, <2>3 DEF Update, TypeOK
<1>6. ASSUME NEW clears \in BOOLEAN, Close(clears) PROVE TypeOK'
  BY <1>6 DEF Close, Reset, TypeOK
<1>7. CASE UNCHANGED vars
  BY <1>7 DEF vars, TypeOK
<1> QED
  BY <1>1, <1>2, <1>3, <1>4, <1>5, <1>6, <1>7 DEF Next

\* The variables of the timing wheels have their types.
THEOREM AlwaysTypeOK == Spec => []TypeOK
<1>1. Init => TypeOK
  BY InitType
<1>2. TypeOK /\ [Next]_vars => TypeOK'
  BY NextType
<1> QED
  BY <1>1, <1>2, PTL DEF Spec

-----------------------------------------------------------------------------
(* update(): the slots it sweeps.                                            *)

\* update() keeps the masks exact: a list it empties has its bit cleared.
LEMMA UpdateKeepsBits ==
  ASSUME TypeOK, BitsExact, NEW abstime \in Nat, Update(abstime)
  PROVE  BitsExact'
<1> SUFFICES ASSUME NEW w \in Wheel, NEW s \in Slot
             PROVE  s \in bits'[w] <=> In(<<w, s>>)' # {}
  BY DEF BitsExact
<1> DEFINE swept == [v \in Wheel |-> IF Reached(v, abstime)
                                       THEN bits[v] \cap Passed(v, abstime) ELSE {}]
           Gone(t) == \E v \in Wheel : \E r \in swept[v] : list[t] = <<v, r>>
<1>1. list' = [t \in Timer |-> IF Gone(t) THEN Expired ELSE list[t]]
  BY DEF Update
<1>2. bits' = [v \in Wheel |-> bits[v] \ swept[v]]
  BY DEF Update
<1> HIDE DEF swept
<1>3. Expired # <<w, s>>
  BY WheelFacts DEF Expired, Wheel
<1>4. \A t \in Timer : list[t] = <<w, s>> => (Gone(t) <=> s \in swept[w])
  OBVIOUS
<1> HIDE DEF Gone
<1>5. \A t \in Timer : list'[t] = <<w, s>> <=> list[t] = <<w, s>> /\ s \notin swept[w]
  BY <1>1, <1>3, <1>4
<1>6. s \in bits'[w] <=> s \in bits[w] /\ s \notin swept[w]
  BY <1>2
<1>7. s \in bits[w] <=> \E t \in Timer : list[t] = <<w, s>>
  BY DEF BitsExact, In
<1>8. In(<<w, s>>)' # {} <=> \E t \in Timer : list'[t] = <<w, s>>
  BY DEF In
<1> QED
  BY <1>5, <1>6, <1>7, <1>8

\* The ticks of a wheel between two times.
LEMMA TicksAre ==
  ASSUME NEW w \in Wheel, NEW a \in Nat, curtime \in Nat, curtime <= a
  PROVE  /\ Ticks(w, a) \in Nat
         /\ (a \div Jiffies(w)) - (curtime \div Jiffies(w)) - 1 <= Ticks(w, a)
         /\ w > 0 => 1 <= Ticks(w, a)
<1>1. PICK J \in Nat \ {0}, c \in Nat : J = Jiffies(w) /\ c = curtime
  BY WheelFacts
<1>2. PICK x \in Nat : x = Larger(a - c, IF w = 0 THEN 0 ELSE J) /\ a - c <= x
                       /\ (w > 0 => J <= x)
  BY <1>1, WheelFacts DEF Larger
<1>3. Ticks(w, a) = x \div J
  BY <1>1, <1>2 DEF Ticks
<1>4. PICK o \in Int, n \in Int : o = c \div J /\ n = a \div J
  OBVIOUS
<1>5. n * J <= a /\ ~((o + 1) * J <= c)
  <2>1. n * J <= a
    BY <1>4, DivIs
  <2>2. o + 1 \in Int /\ ~(o + 1 <= o)
    BY <1>4
  <2> QED
    BY <1>4, <2>1, <2>2, DivIs
<1>6. (n - o - 1) * J <= x
  <2>1. PICK p \in Int, q \in Int : p = n * J /\ q = (o + 1) * J
    OBVIOUS
  <2>2. (n - o - 1) * J = p - q
    BY <2>1
  <2> QED
    BY <1>2, <1>5, <2>1, <2>2
<1>7. n - o - 1 <= x \div J
  BY <1>6, DivIs
<1>8. 0 * J <= x
  OBVIOUS
<1>9. x \div J \in Int /\ 0 <= x \div J
  BY <1>8, DivIs
<1>10. w > 0 => 1 <= x \div J
  <2>1. w > 0 => 1 * J <= x
    BY <1>2
  <2> QED
    BY <2>1, DivIs
<1> QED
  BY <1>1, <1>3, <1>4, <1>7, <1>9, <1>10

\* The slots of all the ticks after the old one, up to the new one, are passed; so is the
\* old one on the wheels above the first.
LEMMA PassedAre ==
  ASSUME NEW w \in Wheel, NEW a \in Nat, curtime \in Nat, curtime <= a, NEW p \in Int,
         curtime \div Jiffies(w) < p \/ (w > 0 /\ curtime \div Jiffies(w) = p),
         p <= a \div Jiffies(w)
  PROVE  p % WHEEL_LEN \in Passed(w, a)
<1>1. PICK o \in Int, n \in Int, k \in Nat :
        o = curtime \div Jiffies(w) /\ n = a \div Jiffies(w) /\ k = Ticks(w, a)
  BY TicksAre, WheelFacts
<1>2. n - o - 1 <= k /\ (w > 0 => 1 <= k)
  BY <1>1, TicksAre
<1>3. Passed(w, a) = IF k >= WHEEL_LEN THEN Slot
                     ELSE SlotsFrom(o, k) \cup SlotsUpTo(n, k)
  BY <1>1 DEF Passed
<1>4. p % WHEEL_LEN \in Slot
  <2>1. \A x \in Int : x % WHEEL_LEN \in Slot
    BY WheelFacts DEF Slot
  <2> QED
    BY <2>1
<1>5. CASE o < p
  <2>1. n - p \in 0..k /\ n - (n - p) = p
    BY <1>1, <1>2, <1>5
  <2>2. (n - (n - p)) % WHEEL_LEN \in SlotsUpTo(n, k)
    BY <2>1 DEF SlotsUpTo
  <2> QED
    BY <1>3, <1>4, <2>1, <2>2
<1>6. CASE w > 0 /\ o = p
  <2>1. 0 \in 0..(k - 1) /\ o + 0 = p
    BY <1>2, <1>6
  <2>2. (o + 0) % WHEEL_LEN \in SlotsFrom(o, k)
    BY <2>1 DEF SlotsFrom
  <2> QED
    BY <1>3, <1>4, <2>1, <2>2
<1> QED
  BY <1>1, <1>5, <1>6

\* A wheel that ticks is reached: those below it have passed their slot 0.
LEMMA TickIsReached ==
  ASSUME NEW w \in Wheel, NEW a \in Nat, curtime \in Nat, curtime <= a,
         curtime \div Jiffies(w) < a \div Jiffies(w)
  PROVE  Reached(w, a)
<1> SUFFICES ASSUME NEW v \in 0..(w - 1) PROVE 0 \in Passed(v, a)
  BY DEF Reached
<1>1. v \in Wheel /\ w \in 0..WheelNum /\ w - v - 1 \in 0..WheelNum
  BY WheelFacts DEF Wheel
<1>2. PICK J \in Nat \ {0}, I \in Nat \ {0}, K \in Nat \ {0}, L \in Nat \ {0} :
        J = Jiffies(w) /\ I = Jiffies(v) /\ K = Jiffies(w - v - 1) /\ L = WHEEL_LEN
  <2>1. Jiffies(w) \in Nat \ {0} /\ Jiffies(v) \in Nat \ {0} /\ WHEEL_LEN \in Nat \ {0}
    BY <1>1, WheelFacts
  <2>2. Jiffies(w - v - 1) \in Nat \ {0}
    BY <1>1, PowersAssumption
  <2> QED
    BY <2>1, <2>2
<1>3. J = K * L * I
  BY <1>1, <1>2, PowersAssumption
<1>4. PICK n \in Int : n = a \div J
  OBVIOUS
<1>5. n * J <= a /\ ~(n * J <= curtime)
  <2>1. ~(n <= curtime \div J)
    BY <1>2, <1>4
  <2> QED
    BY <1>4, <2>1, DivIs
<1>6. PICK p \in Int : p = (n * K) * L
  OBVIOUS
<1>7. n * J = p * I
  BY <1>3, <1>6
<1>8. curtime \div I < p /\ p <= a \div I
  <2>1. p * I <= a /\ ~(p * I <= curtime)
    BY <1>5, <1>7
  <2>2. p <= a \div I /\ ~(p <= curtime \div I)
    BY <2>1, DivIs
  <2> QED
    BY <2>2
<1>9. p % L = 0
  <2>1. n * K \in Int /\ p = (n * K) * L + 0
    BY <1>6
  <2> QED
    BY <2>1, ModUnique
<1>10. p % WHEEL_LEN \in Passed(v, a)
  BY <1>1, <1>2, <1>8, PassedAre
<1> QED
  BY <1>2, <1>9, <1>10

\* update() sweeps the slot of every time its wheel reaches.
LEMMA SweepsWhatIsDue ==
  ASSUME NEW w \in Wheel, NEW a \in Nat, curtime \in Nat, curtime <= a, NEW e \in Nat,
         curtime \div Jiffies(w) < e \div Jiffies(w), e \div Jiffies(w) <= a \div Jiffies(w)
  PROVE  Reached(w, a) /\ SlotIdx(w, e) \in Passed(w, a)
<1>1. PICK o \in Int, n \in Int, d \in Int :
        /\ o = curtime \div Jiffies(w) /\ n = a \div Jiffies(w) /\ d = e \div Jiffies(w)
        /\ o < d /\ d <= n
  BY WheelFacts
<1>2. Reached(w, a)
  BY <1>1, TickIsReached
<1>3. PICK p \in Int : p = d - (IF w = 0 THEN 0 ELSE 1)
  BY <1>1
<1>4. (o < p \/ (w > 0 /\ o = p)) /\ p <= n
  BY <1>1, <1>3, WheelFacts
<1>5. SlotIdx(w, e) = p % WHEEL_LEN
  BY <1>1, <1>3 DEF SlotIdx
<1>6. p % WHEEL_LEN \in Passed(w, a)
  BY <1>1, <1>4, PassedAre
<1> QED
  BY <1>2, <1>5, <1>6

-----------------------------------------------------------------------------
(* Where the timers are.                                                     *)

\* A timer is scheduled for a tick to come; on a wheel that is not the last, for one of
\* its next turn.
LEMMA PlaceIs ==
  ASSUME curtime \in Nat, NEW when \in Nat, Place(when) \in Slots
  PROVE  LET w == Place(when)[1] IN
         /\ w \in Wheel
         /\ Place(when)[2] = SlotIdx(w, when)
         /\ curtime \div Jiffies(w) < when \div Jiffies(w)
         /\ w < WheelNum - 1 => when < curtime + Jiffies(w + 1)
<1> DEFINE w == WheelIdx(when - curtime)
<1>1. when > curtime
  BY WheelFacts DEF Place, Slots, Expired, Wheel
<1>2. Place(when) = <<w, SlotIdx(w, when)>>
  BY <1>1 DEF Place
<1>3. when - curtime \in Nat \ {0}
  BY <1>1
<1>4. /\ w \in Wheel /\ Jiffies(w) <= when - curtime
      /\ when - curtime < Jiffies(w + 1) \/ w = WheelNum - 1
  BY <1>3, WheelIdxIs
<1> HIDE DEF w
<1>5. PICK J \in Nat \ {0} : J = Jiffies(w)
  BY <1>4, WheelFacts
<1>6. curtime \div J < when \div J
  <2>1. PICK o \in Int : o = curtime \div J
    OBVIOUS
  <2>2. o * J <= curtime
    BY <2>1, DivIs
  <2>3. (o + 1) * J = o * J + J
    OBVIOUS
  <2>4. (o + 1) * J <= when
    <3>1. PICK q \in Int : q = o * J
      OBVIOUS
    <3> QED
      BY <1>4, <1>5, <2>2, <2>3, <3>1
  <2>5. o + 1 <= when \div J
    BY <2>4, DivIs
  <2> QED
    BY <2>1, <2>5
<1>7. w < WheelNum - 1 => when < curtime + Jiffies(w + 1)
  BY <1>4, WheelFacts
<1> QED
  BY <1>2, <1>4, <1>5, <1>6, <1>7

\* What PlacesExact says of a timer on a wheel.
PlaceExact(t) ==
  LET w == list[t][1] IN
  /\ list[t][2] = SlotIdx(w, expires[t])
  /\ curtime \div Jiffies(w) < expires[t] \div Jiffies(w)
  /\ w < WheelNum - 1 => expires[t] < curtime + Jiffies(w + 1)

\* A timer whose place, expiry and clock do not change stays in the slot of its expiry.
LEMMA StaysExact ==
  ASSUME PlacesExact, NEW t \in Timer, list'[t] \in Slots, list'[t] = list[t],
         expires'[t] = expires[t], curtime' = curtime
  PROVE  PlaceExact(t)'
<1>1. PlaceExact(t)
  BY DEF PlacesExact, PlaceExact, OnWheel
<1> QED
  BY <1>1 DEF PlaceExact, SlotIdx

\* sche_timer() puts the timer in the slot of its expiry.
LEMMA ScheduleKeepsPlaces ==
  ASSUME TypeOK, PlacesExact, NEW t \in Timer, NEW when \in Nat, Schedule(t, when),
         curtime' = curtime
  PROVE  PlacesExact'
<1> SUFFICES ASSUME NEW u \in Timer, list'[u] \in Slots PROVE PlaceExact(u)'
  BY DEF PlacesExact, PlaceExact, OnWheel
<1>1. CASE u = t
  <2>1. list'[t] = Place(when) /\ expires'[t] = when
    BY Scheduled DEF TypeOK
  <2>2. Place(when) \in Slots
    BY <1>1, <2>1
  <2> HIDE DEF Place
  <2> QED
    BY <1>1, <2>1, <2>2, PlaceIs DEF PlaceExact, SlotIdx, TypeOK
<1>2. CASE u # t
  <2>1. list'[u] = list[u] /\ expires'[u] = expires[u]
    BY <1>2, Scheduled DEF TypeOK
  <2> QED
    BY <2>1, StaysExact
<1> QED
  BY <1>1, <1>2

\* update() leaves on the wheels only timers whose tick is still to come.
LEMMA UpdateKeepsPlaces ==
  ASSUME TypeOK, BitsExact, PlacesExact, NEW abstime \in Nat, curtime <= abstime,
         Update(abstime)
  PROVE  PlacesExact'
<1> SUFFICES ASSUME NEW t \in Timer, list'[t] \in Slots PROVE PlaceExact(t)'
  BY DEF PlacesExact, PlaceExact, OnWheel
<1>1. Expired \notin Slots
  BY WheelFacts DEF Expired, Slots, Wheel
<1>2. list'[t] = list[t]
  BY <1>1 DEF Update
<1>3. PICK w \in Wheel, s \in Slot : list[t] = <<w, s>>
  BY <1>2 DEF Slots
<1>4. PICK e \in Nat : e = expires[t] /\ e = expires'[t]
  BY DEF TypeOK, Update
<1>5. /\ s = SlotIdx(w, e) /\ curtime \div Jiffies(w) < e \div Jiffies(w)
      /\ w < WheelNum - 1 => e < curtime + Jiffies(w + 1)
  <2>1. list[t][1] = w /\ list[t][2] = s /\ t \in OnWheel
    BY <1>2, <1>3 DEF OnWheel
  <2> QED
    BY <1>4, <2>1 DEF PlacesExact
<1>6. s \in bits[w]
  BY <1>3 DEF BitsExact, In
<1>7. ~(Reached(w, abstime) /\ s \in Passed(w, abstime))
  <2> SUFFICES ASSUME Reached(w, abstime), s \in Passed(w, abstime) PROVE list'[t] = Expired
    BY <1>1
  <2> QED
    BY <1>3, <1>6 DEF Update
<1>8. abstime \div Jiffies(w) < e \div Jiffies(w)
  <2>1. abstime \div Jiffies(w) \in Int /\ e \div Jiffies(w) \in Int
    BY WheelFacts
  <2>2. ~(e \div Jiffies(w) <= abstime \div Jiffies(w))
    BY <1>5, <1>7, SweepsWhatIsDue DEF TypeOK
  <2> QED
    BY <2>1, <2>2
<1>9. curtime' = abstime
  BY DEF Update
<1>10. w < WheelNum - 1 => e < abstime + Jiffies(w + 1)
  BY <1>5, WheelFacts DEF TypeOK
<1> QED
  BY <1>2, <1>3, <1>4, <1>5, <1>8, <1>9, <1>10 DEF PlaceExact, SlotIdx

-----------------------------------------------------------------------------
(* The inductive invariant.                                                  *)

\* Every step keeps it.
LEMMA NextWheelInv == TypeOK /\ WheelInv /\ [Next]_vars => WheelInv'
<1> SUFFICES ASSUME TypeOK, WheelInv, [Next]_vars PROVE WheelInv'
  OBVIOUS
<1> USE DEF WheelInv
<1>1. ASSUME NEW t \in Timer, NEW f \in Flags, InitTimer(t, f) PROVE WheelInv'
  <2>1. UNCHANGED <<list, bits, curtime>> /\ list[t] = NoList
    BY <1>1 DEF InitTimer
  <2>2. BitsExact'
    BY <2>1 DEF BitsExact, In
  <2>3. PlacesExact'
    <3> SUFFICES ASSUME NEW u \in Timer, list'[u] \in Slots PROVE PlaceExact(u)'
      BY DEF PlacesExact, PlaceExact, OnWheel
    <3>1. u # t
      BY <2>1, WheelFacts DEF NoList, Slots, Wheel
    <3>2. expires'[u] = expires[u]
      BY <1>1, <3>1 DEF InitTimer, TypeOK
    <3> QED
      BY <2>1, <3>2, StaysExact
  <2>4. IntervalsRepeat'
    BY <1>1 DEF InitTimer, IntervalsRepeat, TypeOK
  <2> QED
    BY <2>2, <2>3, <2>4
<1>2. ASSUME NEW t \in Timer, NEW timeout \in Timeouts, AddTimer(t, timeout) PROVE WheelInv'
  <2>1. PICK when \in Nat : Schedule(t, when) /\ UNCHANGED <<flags, curtime>>
    BY <1>2, ConstantsAssumption DEF AddTimer, TypeOK
  <2>2. BitsExact'
    BY <2>1, ScheduleKeepsBits
  <2>3. PlacesExact'
    BY <2>1, ScheduleKeepsPlaces
  <2>4. IntervalsRepeat'
    BY <1>2, <2>1 DEF AddTimer, IntervalsRepeat, TypeOK
  <2> QED
    BY <2>2, <2>3, <2>4
<1>3. ASSUME NEW t \in Timer, list' = [list EXCEPT ![t] = NoList],
             UNCHANGED <<expires, curtime>>
      PROVE  PlacesExact'
  <2> SUFFICES ASSUME NEW u \in Timer, list'[u] \in Slots PROVE PlaceExact(u)'
    BY DEF PlacesExact, PlaceExact, OnWheel
  <2>1. u # t
    BY <1>3, WheelFacts DEF NoList, Slots, Wheel, TypeOK
  <2>2. list'[u] = list[u] /\ expires'[u] = expires[u] /\ curtime' = curtime
    BY <1>3, <2>1 DEF TypeOK
  <2> QED
    BY <2>2, StaysExact
<1>4. ASSUME NEW t \in Timer, StopTimer(t) PROVE WheelInv'
  <2>1. /\ list' = [list EXCEPT ![t] = NoList] /\ bits' = BitsWithout(t)
        /\ UNCHANGED <<expires, interval, flags, curtime>>
    BY <1>4 DEF StopTimer
  <2>2. BitsExact'
    BY <2>1, StopKeepsBits
  <2>3. PlacesExact'
    BY <1>3, <2>1
  <2> QED
    BY <2>1, <2>2, <2>3 DEF IntervalsRepeat
<1>5. ASSUME NEW t \in Timer, GetExpiredTimer(t) PROVE WheelInv'
  <2>1. UNCHANGED <<interval, flags, curtime>>
    BY <1>5 DEF GetExpiredTimer
  <2>2. IntervalsRepeat'
    BY <2>1 DEF IntervalsRepeat
  <2>3. CASE "repeat" \in flags[t] /\ interval[t] > 0
    <3>1. NextFiring(t) \in Nat /\ Schedule(t, NextFiring(t))
      BY <1>5, <2>3, NextFiringIs DEF GetExpiredTimer
    <3> QED
      BY <2>1, <2>2, <3>1, ScheduleKeepsBits, ScheduleKeepsPlaces
  <2>4. CASE ~("repeat" \in flags[t] /\ interval[t] > 0)
    <3>1. list' = [list EXCEPT ![t] = NoList] /\ UNCHANGED <<expires, bits>>
      BY <1>5, <2>4 DEF GetExpiredTimer
    <3>2. list[t] \notin Slots
      BY <1>5, WheelFacts DEF GetExpiredTimer, In, Expired, Slots, Wheel
    <3>3. BitsExact'
      BY <3>1, <3>2, OffWheelKeepsBits
    <3>4. PlacesExact'
      BY <1>3, <2>1, <3>1
    <3> QED
      BY <2>2, <3>3, <3>4
  <2> QED
    BY <2>3, <2>4
<1>6. ASSUME NEW abstime \in curtime..MaxTime, Update(abstime) PROVE WheelInv'
  <2>1. abstime \in Nat /\ curtime <= abstime
    BY ConstantsAssumption DEF TypeOK
  <2>2. IntervalsRepeat'
    BY <1>6 DEF Update, IntervalsRepeat
  <2> QED
    BY <1>6, <2>1, <2>2, UpdateKeepsBits, UpdateKeepsPlaces
<1>7. ASSUME NEW clears \in BOOLEAN, Close(clears) PROVE WheelInv'
  <2>1. \A t \in Timer : list'[t] \notin Slots
    BY <1>7, WheelFacts DEF Close, Reset, NoList, Expired, Slots, Wheel
  <2>2. BitsExact'
    <3> SUFFICES ASSUME NEW w \in Wheel, NEW s \in Slot
                 PROVE  s \in bits'[w] <=> In(<<w, s>>)' # {}
      BY DEF BitsExact
    <3>1. bits'[w] = {}
      BY <1>7 DEF Close, Reset
    <3>2. \A t \in Timer : list'[t] # <<w, s>>
      BY <2>1 DEF Slots
    <3> QED
      BY <3>1, <3>2 DEF In
  <2>3. PlacesExact'
    BY <2>1 DEF PlacesExact, OnWheel
  <2>4. IntervalsRepeat'
    BY <1>7 DEF Close, Reset, IntervalsRepeat
  <2> QED
    BY <2>2, <2>3, <2>4
<1>8. CASE UNCHANGED vars
  <2>1. BitsExact' /\ IntervalsRepeat'
    BY <1>8 DEF vars, BitsExact, In, IntervalsRepeat
  <2>2. PlacesExact'
    BY <1>8 DEF vars, PlacesExact, OnWheel, SlotIdx
  <2> QED
    BY <2>1, <2>2
<1> QED
  BY <1>1, <1>2, <1>4, <1>5, <1>6, <1>7, <1>8 DEF Next

\* The initial state has it.
LEMMA InitWheelInv == Init => WheelInv
<1> SUFFICES ASSUME Init PROVE WheelInv
  OBVIOUS
<1>1. \A t \in Timer : list[t] = NoList /\ NoList \notin Slots
  BY WheelFacts DEF Init, NoList, Slots, Wheel
<1>2. \A t \in Timer : list[t] \notin Slots
  BY <1>1
<1>3. BitsExact
  <2> SUFFICES ASSUME NEW w \in Wheel, NEW s \in Slot
               PROVE  s \in bits[w] <=> In(<<w, s>>) # {}
    BY DEF BitsExact
  <2>1. bits[w] = {}
    BY DEF Init
  <2>2. \A t \in Timer : list[t] # <<w, s>>
    BY <1>2 DEF Slots
  <2> QED
    BY <2>1, <2>2 DEF In
<1>4. PlacesExact
  BY <1>2 DEF PlacesExact, OnWheel
<1>5. IntervalsRepeat
  BY DEF Init, IntervalsRepeat
<1> QED
  BY <1>3, <1>4, <1>5 DEF WheelInv

\* The masks, the slots, the expiries and the clock agree in every state: update() and
\* get_interval(), which look at the masks only, see every timer.
THEOREM AlwaysWheelInv == Spec => []WheelInv
<1>1. Init => WheelInv
  BY InitWheelInv
<1>2. TypeOK /\ WheelInv /\ [Next]_vars => WheelInv'
  BY NextWheelInv
<1> QED
  BY <1>1, <1>2, AlwaysTypeOK, PTL DEF Spec

-----------------------------------------------------------------------------
(* What the clients rely on.                                                 *)

\* A timer whose tick is to come has not expired.
LEMMA InvMissesNothing == TypeOK /\ WheelInv => NothingMissed
<1> SUFFICES ASSUME TypeOK, WheelInv, NEW t \in OnWheel PROVE expires[t] > curtime
  BY DEF NothingMissed
<1>1. PICK w \in Wheel, s \in Slot : list[t] = <<w, s>>
  BY DEF OnWheel, Slots
<1>2. PICK e \in Nat, c \in Nat, J \in Nat \ {0} :
        e = expires[t] /\ c = curtime /\ J = Jiffies(w)
  BY WheelFacts DEF TypeOK, OnWheel
<1>3. c \div J < e \div J
  <2>1. list[t][1] = w
    BY <1>1
  <2> QED
    BY <1>2, <2>1 DEF WheelInv, PlacesExact
<1>4. PICK q \in Int : q = e \div J
  OBVIOUS
<1>5. q * J <= e /\ ~(q <= c \div J)
  BY <1>3, <1>4, DivIs
<1>6. PICK p \in Int : p = q * J
  OBVIOUS
<1>7. ~(p <= c) /\ p <= e
  BY <1>5, <1>6, DivIs
<1> QED
  BY <1>2, <1>7

\* No timer stays on a wheel once its time has come, whatever the clock skipped.
THEOREM NothingEverMissed == Spec => []NothingMissed
<1>1. TypeOK /\ WheelInv => NothingMissed
  BY InvMissesNothing
<1> QED
  BY <1>1, AlwaysTypeOK, AlwaysWheelInv, PTL

\* A repeating timer that is collected is scheduled at its first multiple to come.
THEOREM PhaseIsKept == Spec => RepeatKeepsPhase
<1> DEFINE Keeps == \A t \in Timer : GetExpiredTimer(t) /\ interval[t] > 0 =>
                      /\ expires'[t] > curtime /\ expires'[t] > expires[t]
                      /\ (expires'[t] - expires[t]) % interval[t] = 0
                      /\ expires'[t] - interval[t] <= Larger(curtime, expires[t])
<1>1. TypeOK /\ WheelInv /\ [Next]_vars => [Keeps]_vars
  <2> SUFFICES ASSUME TypeOK, WheelInv, NEW t \in Timer, GetExpiredTimer(t), interval[t] > 0
               PROVE  /\ expires'[t] > curtime /\ expires'[t] > expires[t]
                      /\ (expires'[t] - expires[t]) % interval[t] = 0
                      /\ expires'[t] - interval[t] <= Larger(curtime, expires[t])
    OBVIOUS
  <2>1. "repeat" \in flags[t]
    BY DEF WheelInv, IntervalsRepeat
  <2>2. NextFiring(t) \in Nat /\ Schedule(t, NextFiring(t))
    BY <2>1, NextFiringIs DEF GetExpiredTimer
  <2>3. expires'[t] = NextFiring(t)
    BY <2>2, Scheduled DEF TypeOK
  <2> QED
    BY <2>3, NextFiringIs
<1>2. Spec => [][Keeps]_vars
  BY <1>1, AlwaysTypeOK, AlwaysWheelInv, PTL DEF Spec
<1> QED
  BY <1>2 DEF RepeatKeepsPhase

-----------------------------------------------------------------------------
(* get_interval().                                                           *)

\* The distances of the marked slots of a wheel from its current one.
Distances(w) == {(s - (curtime \div Jiffies(w))) % WHEEL_LEN : s \in bits[w]}

\* The slot of a time to come is no farther than the ticks until it; one of the next
\* turn is as far.
LEMMA SlotDistance ==
  ASSUME NEW o \in Int, NEW p \in Int, NEW L \in Nat \ {0}, o <= p
  PROVE  /\ ((p % L) - o) % L <= p - o
         /\ p - o < L => ((p % L) - o) % L = p - o
<1>1. PICK q \in Int, r \in 0..(L - 1) : p = q * L + r /\ r = p % L
  BY DivMod
<1>2. PICK x \in Nat : x = p - o
  OBVIOUS
<1>3. PICK k \in Int : k = 0 - q
  OBVIOUS
<1>4. r - o = x + k * L
  <2>1. k * L = 0 - q * L
    BY <1>3
  <2>2. PICK m \in Int : m = q * L
    OBVIOUS
  <2>3. k * L = 0 - m /\ p = m + r /\ r \in Int
    BY <1>1, <2>1, <2>2
  <2> QED
    BY <1>2, <2>3
<1>5. x % L <= x
  BY ModLeq
<1>6. x < L => x % L = x
  <2>1. x = 0 * L + x
    OBVIOUS
  <2> QED
    BY <2>1, ModUnique
<1>7. (r - o) % L = x % L
  <2>1. x \in Int
    OBVIOUS
  <2>2. (x + k * L) % L = x % L
    BY <2>1, ModPlus
  <2> QED
    BY <1>4, <2>2
<1> QED
  BY <1>1, <1>2, <1>5, <1>6, <1>7

\* The tick that a timer's slot stands for.
TickOf(t, w) == (expires[t] \div Jiffies(w)) - (IF w = 0 THEN 0 ELSE 1)

\* A marked slot is no farther than the ticks of its timers; as far, if they expire within
\* a turn of the wheel.
LEMMA DistanceOfTimer ==
  ASSUME TypeOK, WheelInv, NEW w \in Wheel, NEW s \in Slot, NEW t \in Timer,
         list[t] = <<w, s>>
  PROVE  LET o == curtime \div Jiffies(w)
             d == (s - o) % WHEEL_LEN
         IN /\ d \in Distances(w)
            /\ d <= TickOf(t, w) - o
            /\ expires[t] < curtime + Jiffies(w + 1) => d = TickOf(t, w) - o
<1>1. PICK e \in Nat, c \in Nat, J \in Nat \ {0}, L \in Nat \ {0} :
        e = expires[t] /\ c = curtime /\ J = Jiffies(w) /\ L = WHEEL_LEN
  BY WheelFacts DEF TypeOK
<1>2. PICK o \in Int, n \in Int : o = c \div J /\ n = e \div J
  OBVIOUS
<1>3. PICK p \in Int : p = n - (IF w = 0 THEN 0 ELSE 1) /\ p = TickOf(t, w)
  BY <1>1, <1>2 DEF TickOf
<1>4. s \in bits[w]
  BY DEF WheelInv, BitsExact, In
<1>5. (s - o) % L \in Distances(w)
  BY <1>1, <1>2, <1>4 DEF Distances
<1>6. s = p % L /\ o < n /\ o <= p
  <2>1. list[t][1] = w /\ list[t][2] = s /\ t \in OnWheel
    BY DEF OnWheel, Slots
  <2>2. s = SlotIdx(w, e) /\ curtime \div Jiffies(w) < e \div Jiffies(w)
    BY <1>1, <2>1 DEF WheelInv, PlacesExact
  <2>3. s = p % L /\ o < n
    BY <1>1, <1>2, <1>3, <2>2 DEF SlotIdx
  <2> QED
    BY <1>3, <2>3
<1>7. ASSUME e < c + Jiffies(w + 1) PROVE p - o < L
  <2>1. Jiffies(w + 1) = L * J
    <3>1. w + 1 \in 0..WheelNum /\ w \in 0..(w + 1 - 1) /\ w + 1 - w - 1 = 0
      BY WheelFacts DEF Wheel
    <3>2. Jiffies(w + 1) = Jiffies(0) * WHEEL_LEN * Jiffies(w)
      BY <3>1, PowersAssumption
    <3> QED
      BY <1>1, <3>2, WheelFacts
  <2>2. CASE w = 0
    <3>1. J = 1
      BY <1>1, <2>2, WheelFacts
    <3>2. p = e /\ o = c
      BY <1>2, <1>3, <2>2, <3>1
    <3> QED
      BY <1>7, <2>1, <3>1, <3>2
  <2>3. CASE w # 0
    <3>1. n * J <= e /\ ~((o + 1) * J <= c)
      <4>1. n * J <= e
        BY <1>2, DivIs
      <4>2. o + 1 \in Int /\ ~(o + 1 <= o)
        OBVIOUS
      <4> QED
        BY <1>2, <4>1, <4>2, DivIs
    <3>2. PICK x \in Int, y \in Int, z \in Int : x = n * J /\ y = (o + 1) * J /\ z = L * J
      OBVIOUS
    <3>3. x < y + z
      BY <1>7, <2>1, <3>1, <3>2
    <3>4. (o + 1 + L) * J = y + z
      BY <3>2
    <3>5. ~(o + 1 + L <= n)
      BY <3>2, <3>3, <3>4, TimesMonotone
    <3> QED
      BY <1>3, <2>3, <3>5
  <2> QED
    BY <2>2, <2>3
<1>8. /\ (s - o) % L <= p - o
      /\ p - o < L => (s - o) % L = p - o
  BY <1>6, SlotDistance
<1> QED
  BY <1>1, <1>2, <1>3, <1>5, <1>7, <1>8

\* The wait for a wheel is the one for the nearest of its marked slots.
LEMMA IntervalOfIs ==
  ASSUME TypeOK, NEW w \in Wheel, bits[w] # {}
  PROVE  \E z \in Nat :
           /\ z \in Distances(w) /\ \A d \in Distances(w) : z <= d
           /\ IntervalOf(w) = (z + (IF w = 0 THEN 0 ELSE 1)) * Jiffies(w)
                              - (curtime % Jiffies(w))
<1> DEFINE z == CHOOSE d \in Distances(w) : \A e \in Distances(w) : d <= e
<1>1. Distances(w) \in SUBSET Nat /\ Distances(w) # {}
  <2>1. curtime \div Jiffies(w) \in Int
    BY WheelFacts DEF TypeOK
  <2>2. \A x \in Int : x % WHEEL_LEN \in Nat
    BY WheelFacts
  <2>3. \A s \in bits[w] : s \in Int
    BY DEF TypeOK, Slot
  <2> QED
    BY <2>1, <2>2, <2>3 DEF Distances
<1>2. \E d \in Distances(w) : \A e \in Distances(w) : d <= e
  <2> HIDE DEF Distances
  <2> QED
    BY <1>1, LeastNat
<1>3. z \in Distances(w) /\ \A e \in Distances(w) : z <= e
  BY <1>2
<1>4. IntervalOf(w) = (z + (IF w = 0 THEN 0 ELSE 1)) * Jiffies(w) - (curtime % Jiffies(w))
  BY DEF IntervalOf, Distances
<1> HIDE DEF z
<1> QED
  BY <1>1, <1>3, <1>4

\* A wait, in the terms of the nearest slot, the current one and what is left of its tick.
LEMMA WaitIs ==
  ASSUME TypeOK, NEW w \in Wheel, bits[w] # {}
  PROVE  \E z \in Nat, o \in Int, r \in Int :
           /\ z \in Distances(w) /\ \A d \in Distances(w) : z <= d
           /\ o = curtime \div Jiffies(w) /\ 0 <= r /\ r < Jiffies(w)
           /\ curtime = o * Jiffies(w) + r
           /\ IntervalOf(w) = (z + (IF w = 0 THEN 0 ELSE 1)) * Jiffies(w) - r
<1>1. PICK z \in Nat :
        /\ z \in Distances(w) /\ \A d \in Distances(w) : z <= d
        /\ IntervalOf(w) = (z + (IF w = 0 THEN 0 ELSE 1)) * Jiffies(w)
                           - (curtime % Jiffies(w))
  BY IntervalOfIs
<1>2. PICK c \in Nat, J \in Nat \ {0} : c = curtime /\ J = Jiffies(w)
  BY WheelFacts DEF TypeOK
<1>3. c \div J \in Int /\ c % J \in 0..(J - 1) /\ c = (c \div J) * J + (c % J)
  BY DivMod
<1>4. c % J \in Int /\ 0 <= c % J /\ c % J < J
  BY <1>3
<1> QED
  BY <1>1, <1>2, <1>3, <1>4

\* The wait for a wheel is not longer than any of its timers has to wait.
LEMMA IntervalOfIsSafe ==
  ASSUME TypeOK, WheelInv, NEW w \in Wheel, bits[w] # {}
  PROVE  /\ IntervalOf(w) \in Nat
         /\ WheelNum > 1 => IntervalOf(w) > 0
         /\ \A t \in Timer, s \in Slot :
              list[t] = <<w, s>> => IntervalOf(w) <= expires[t] - curtime
<1>1. PICK c \in Nat, J \in Nat \ {0}, k \in Nat :
        c = curtime /\ J = Jiffies(w) /\ k = IF w = 0 THEN 0 ELSE 1
  BY WheelFacts DEF TypeOK
<1>2. PICK z \in Nat, o \in Int, r \in Int :
        /\ z \in Distances(w) /\ \A d \in Distances(w) : z <= d
        /\ o = c \div J /\ 0 <= r /\ r < J /\ c = o * J + r
        /\ IntervalOf(w) = (z + k) * J - r
  BY <1>1, WaitIs
<1>3. PICK x \in Int, m \in Int : x = (z + k) * J /\ m = o * J
  OBVIOUS
<1>4. IntervalOf(w) = x - r /\ c = m + r
  BY <1>2, <1>3
<1>5. ASSUME NEW t \in Timer, NEW s \in Slot, list[t] = <<w, s>>
      PROVE  IntervalOf(w) <= expires[t] - curtime
  <2>1. PICK e \in Nat : e = expires[t]
    BY DEF TypeOK
  <2>2. PICK n \in Int : n = e \div J
    OBVIOUS
  <2>3. z + k <= n - o
    <3>1. TickOf(t, w) = n - k
      BY <1>1, <2>1, <2>2 DEF TickOf
    <3>2. (s - o) % WHEEL_LEN \in Distances(w) /\ (s - o) % WHEEL_LEN <= n - k - o
      BY <1>1, <1>2, <1>5, <3>1, DistanceOfTimer
    <3>3. (s - o) % WHEEL_LEN \in Int
      BY WheelFacts DEF Slot
    <3> QED
      BY <1>2, <3>2, <3>3
  <2>4. (z + k) * J <= (n - o) * J
    BY <2>3, TimesMonotone
  <2>5. PICK y \in Int : y = n * J /\ y <= e
    <3>1. n * J \in Int /\ n * J <= e
      BY <2>2, DivIs
    <3> QED
      BY <3>1
  <2>6. (n - o) * J = y - m
    <3>1. (n - o) * J = n * J - o * J
      OBVIOUS
    <3> QED
      BY <1>3, <2>5, <3>1
  <2>7. x <= y - m
    BY <1>3, <2>4, <2>6
  <2>8. x - r <= e - c
    BY <1>4, <2>5, <2>7
  <2> QED
    BY <1>1, <1>4, <2>1, <2>8
<1>6. CASE w # 0
  <2>1. 1 * J <= (z + k) * J
    BY <1>1, <1>6, TimesMonotone
  <2>2. J <= x
    BY <1>3, <2>1
  <2>3. IntervalOf(w) \in Nat /\ IntervalOf(w) > 0
    BY <1>2, <1>4, <2>2
  <2> QED
    BY <1>5, <2>3
<1>7. CASE w = 0
  <2>1. J = 1 /\ k = 0
    BY <1>1, <1>7, WheelFacts
  <2>2. r = 0 /\ o = c
    BY <1>2, <2>1
  <2>3. IntervalOf(w) = z
    BY <1>3, <1>4, <2>1, <2>2
  <2>4. ASSUME WheelNum > 1 PROVE z > 0
    <3>1. PICK s \in bits[w] : z = (s - o) % WHEEL_LEN
      BY <1>1, <1>2 DEF Distances
    <3>2. s \in Slot
      BY DEF TypeOK
    <3>3. PICK t \in Timer : list[t] = <<w, s>>
      BY <3>1, <3>2 DEF WheelInv, BitsExact, In
    <3>4. curtime \div Jiffies(w) < expires[t] \div Jiffies(w)
          /\ expires[t] < curtime + Jiffies(w + 1)
      <4>1. list[t][1] = w /\ t \in OnWheel
        BY <3>2, <3>3 DEF OnWheel, Slots
      <4>2. w < WheelNum - 1
        BY <1>7, <2>4, WheelFacts
      <4> QED
        BY <4>1, <4>2 DEF WheelInv, PlacesExact
    <3>5. PICK e \in Nat : e = expires[t]
      BY DEF TypeOK
    <3>6. TickOf(t, w) = e
      BY <1>1, <1>7, <2>1, <3>5 DEF TickOf
    <3>7. z = e - o
      BY <1>1, <1>2, <3>1, <3>2, <3>3, <3>4, <3>6, DistanceOfTimer
    <3>8. c < e
      BY <1>1, <2>1, <3>4, <3>5
    <3> QED
      BY <2>2, <3>7, <3>8
  <2> QED
    BY <1>5, <2>3, <2>4
<1> QED
  BY <1>6, <1>7

\* The shortest of the wheels' waits is the one of some wheel.
LEMMA GetIntervalIs ==
  ASSUME TypeOK, WheelInv, PendingWheels # {}
  PROVE  /\ \E w \in PendingWheels : GetInterval = IntervalOf(w)
         /\ \A w \in PendingWheels : GetInterval <= IntervalOf(w)
<1> DEFINE S == {IntervalOf(v) : v \in PendingWheels}
<1>1. S \in SUBSET Nat /\ S # {}
  BY IntervalOfIsSafe DEF PendingWheels
<1>2. \A v \in PendingWheels : IntervalOf(v) \in S
  OBVIOUS
<1>3. \E i \in S : \A v \in PendingWheels : i <= IntervalOf(v)
  <2> HIDE DEF S
  <2>1. PICK i \in S : \A j \in S : i <= j
    BY <1>1, LeastNat
  <2> QED
    BY <1>2, <2>1
<1> QED
  BY <1>3 DEF GetInterval

\* The wheel of a timer has a wait.
LEMMA OnWheelIsPending ==
  ASSUME TypeOK, WheelInv, NEW t \in OnWheel
  PROVE  \E w \in PendingWheels, s \in Slot : list[t] = <<w, s>> /\ bits[w] # {}
<1>1. PICK w \in Wheel, s \in Slot : list[t] = <<w, s>> /\ t \in Timer
  BY DEF OnWheel, Slots
<1>2. w \in PendingWheels /\ bits[w] # {}
  BY <1>1 DEF WheelInv, BitsExact, In, PendingWheels
<1> QED
  BY <1>1, <1>2

\* get_interval() returns the shortest of the wheels' waits: it is safe for all timers.
LEMMA InvIntervalIsSafe == TypeOK /\ WheelInv /\ WheelNum > 1 => IntervalIsSafe
<1> SUFFICES ASSUME TypeOK, WheelInv, WheelNum > 1, NEW t \in OnWheel
             PROVE  0 < GetInterval /\ GetInterval <= expires[t] - curtime
  BY DEF IntervalIsSafe
<1>1. PICK w \in PendingWheels, s \in Slot : list[t] = <<w, s>> /\ bits[w] # {}
  BY OnWheelIsPending
<1>2. w \in Wheel /\ t \in Timer
  BY DEF PendingWheels, OnWheel
<1>3. IntervalOf(w) \in Nat /\ IntervalOf(w) <= expires[t] - curtime
  BY <1>1, <1>2, IntervalOfIsSafe
<1>4. PICK v \in PendingWheels : GetInterval = IntervalOf(v)
  BY <1>1, GetIntervalIs
<1>5. GetInterval \in Nat /\ GetInterval > 0
  BY <1>4, IntervalOfIsSafe DEF PendingWheels
<1>6. GetInterval <= IntervalOf(w)
  BY <1>1, GetIntervalIs
<1>7. expires[t] - curtime \in Int
  BY <1>2 DEF TypeOK
<1> QED
  BY <1>3, <1>5, <1>6, <1>7

\* With several wheels the caller's wait is never zero before a timer has expired, and
\* never longer than the one until the first timer.
THEOREM IntervalAlwaysSafe == ASSUME WheelNum > 1 PROVE Spec => []IntervalIsSafe
<1>1. TypeOK /\ WheelInv => IntervalIsSafe
  BY InvIntervalIsSafe
<1> QED
  BY <1>1, AlwaysTypeOK, AlwaysWheelInv, PTL

\* A tick of a wheel is at most one of the last wheel.
LEMMA LastIsLargest == \A w \in Wheel : Jiffies(w) <= Jiffies(WheelNum - 1)
<1> SUFFICES ASSUME NEW w \in Wheel PROVE Jiffies(w) <= Jiffies(WheelNum - 1)
  OBVIOUS
<1>1. CASE w = WheelNum - 1
  BY <1>1, WheelFacts
<1>2. CASE w # WheelNum - 1
  <2>1. /\ WheelNum - 1 \in 0..WheelNum /\ w \in 0..(WheelNum - 1 - 1)
        /\ WheelNum - 1 - w - 1 \in 0..WheelNum
    BY <1>2, WheelFacts DEF Wheel
  <2>2. PICK J \in Nat \ {0}, K \in Nat \ {0}, L \in Nat \ {0} :
          J = Jiffies(w) /\ K = Jiffies(WheelNum - 1 - w - 1) /\ L = WHEEL_LEN
    <3>1. Jiffies(WheelNum - 1 - w - 1) \in Nat \ {0}
      BY <2>1, PowersAssumption
    <3> QED
      BY <3>1, WheelFacts
  <2>3. Jiffies(WheelNum - 1) = K * L * J
    BY <2>1, <2>2, PowersAssumption
  <2>4. PICK q \in Int : q = K * L
    OBVIOUS
  <2>5. 1 <= q
    <3>1. 1 * L <= K * L
      BY TimesMonotone
    <3> QED
      BY <2>4, <3>1
  <2>6. 1 * J <= q * J
    BY <2>4, <2>5, TimesMonotone
  <2> QED
    BY <2>2, <2>3, <2>4, <2>6
<1> QED
  BY <1>1, <1>2

\* Some timer of the nearest slot of a wheel is due less than a tick after the wait.
LEMMA IntervalOfIsAccurate ==
  ASSUME TypeOK, WheelInv, NEW w \in Wheel, bits[w] # {},
         \A t \in OnWheel : expires[t] - curtime <= TIMEOUT_MAX
  PROVE  \E t \in OnWheel : expires[t] - curtime - IntervalOf(w) < Jiffies(w)
<1>1. PICK c \in Nat, J \in Nat \ {0}, k \in Nat :
        c = curtime /\ J = Jiffies(w) /\ k = IF w = 0 THEN 0 ELSE 1
  BY WheelFacts DEF TypeOK
<1>2. PICK z \in Nat, o \in Int, r \in Int :
        /\ z \in Distances(w) /\ \A d \in Distances(w) : z <= d
        /\ o = c \div J /\ 0 <= r /\ r < J /\ c = o * J + r
        /\ IntervalOf(w) = (z + k) * J - r
  BY <1>1, WaitIs
<1>3. PICK s \in bits[w] : z = (s - o) % WHEEL_LEN
  BY <1>1, <1>2 DEF Distances
<1>4. s \in Slot
  BY DEF TypeOK
<1>5. PICK t \in Timer : list[t] = <<w, s>>
  BY <1>3, <1>4 DEF WheelInv, BitsExact, In
<1>6. t \in OnWheel /\ list[t][1] = w
  BY <1>4, <1>5 DEF OnWheel, Slots
<1>7. PICK e \in Nat : e = expires[t]
  BY DEF TypeOK
<1>8. e < c + Jiffies(w + 1)
  <2>1. CASE w < WheelNum - 1
    BY <1>1, <1>6, <1>7, <2>1 DEF WheelInv, PlacesExact
  <2>2. CASE ~(w < WheelNum - 1)
    <3>1. w + 1 = WheelNum
      BY <2>2, WheelFacts DEF Wheel
    <3>2. TIMEOUT_MAX = Jiffies(w + 1) - 1
      BY <3>1 DEF TIMEOUT_MAX, Jiffies
    <3> QED
      BY <1>1, <1>6, <1>7, <3>2, WheelFacts
  <2> QED
    BY <2>1, <2>2
<1>9. PICK n \in Int, f \in Int : n = e \div J /\ 0 <= f /\ f < J /\ e = n * J + f
  <2>1. e \div J \in Int /\ e % J \in 0..(J - 1) /\ e = (e \div J) * J + (e % J)
    BY DivMod
  <2>2. e % J \in Int /\ 0 <= e % J /\ e % J < J
    BY <2>1
  <2> QED
    BY <2>1, <2>2
<1>10. z + k = n - o
  <2>1. TickOf(t, w) = n - k
    BY <1>1, <1>7, <1>9 DEF TickOf
  <2>2. z = n - k - o
    BY <1>1, <1>2, <1>3, <1>4, <1>5, <1>7, <1>8, <2>1, DistanceOfTimer
  <2> QED
    BY <2>2
<1>11. PICK y \in Int, m \in Int : y = n * J /\ m = o * J
  OBVIOUS
<1>12. (n - o) * J = y - m
  <2>1. (n - o) * J = n * J - o * J
    OBVIOUS
  <2> QED
    BY <1>11, <2>1
<1>13. IntervalOf(w) = y - m - r /\ c = m + r /\ e = y + f
  BY <1>2, <1>9, <1>10, <1>11, <1>12
<1>14. e - c - IntervalOf(w) = f
  BY <1>13
<1> QED
  BY <1>1, <1>6, <1>7, <1>9, <1>14

\* get_interval() is off by less than a tick of the last wheel.
LEMMA InvIntervalIsAccurate == TypeOK /\ WheelInv => IntervalIsAccurate
<1> SUFFICES ASSUME TypeOK, WheelInv, NEW u \in OnWheel,
                    \A t \in OnWheel : expires[t] - curtime <= TIMEOUT_MAX
             PROVE  \E t \in OnWheel :
                      expires[t] - curtime - GetInterval < Jiffies(WheelNum - 1)
  BY DEF IntervalIsAccurate
<1>1. PendingWheels # {}
  BY OnWheelIsPending
<1>2. PICK w \in PendingWheels : GetInterval = IntervalOf(w)
  BY <1>1, GetIntervalIs
<1>3. w \in Wheel /\ bits[w] # {}
  BY DEF PendingWheels
<1>4. PICK t \in OnWheel : expires[t] - curtime - IntervalOf(w) < Jiffies(w)
  BY <1>3, IntervalOfIsAccurate
<1>5. /\ expires[t] \in Nat /\ curtime \in Nat /\ IntervalOf(w) \in Nat
      /\ Jiffies(w) \in Nat /\ Jiffies(WheelNum - 1) \in Nat
  <2>1. WheelNum - 1 \in Wheel
    BY WheelFacts DEF Wheel
  <2> QED
    BY <1>3, <2>1, IntervalOfIsSafe, WheelFacts DEF TypeOK, OnWheel
<1>6. Jiffies(w) <= Jiffies(WheelNum - 1)
  BY <1>3, LastIsLargest
<1> QED
  BY <1>2, <1>4, <1>5, <1>6

\* While no timeout is larger than TIMEOUT_MAX the caller's wait is too short by less than
\* a tick of the last wheel.
THEOREM IntervalAlwaysAccurate == Spec => []IntervalIsAccurate
<1>1. TypeOK /\ WheelInv => IntervalIsAccurate
  BY InvIntervalIsAccurate
<1> QED
  BY <1>1, AlwaysTypeOK, AlwaysWheelInv, PTL

=============================================================================
