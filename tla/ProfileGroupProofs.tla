------------------------- MODULE ProfileGroupProofs -------------------------
(***************************************************************************)
(* Proofs about ProfileGroup, for any number of profiles, any depth of the  *)
(* scopes and any time.                                                     *)
(***************************************************************************)
EXTENDS ProfileGroupInv, FiniteSetTheorems, SequenceTheorems, TLAPS

-----------------------------------------------------------------------------
(* The stacks.                                                               *)

\* Taking the last element off a sequence.
LEMMA FrontProperties ==
  ASSUME NEW S, NEW s \in Seq(S), s # <<>>
  PROVE  /\ Front(s) \in Seq(S) /\ Len(Front(s)) = Len(s) - 1
         /\ \A i \in 1..(Len(s) - 1) : Front(s)[i] = s[i]
         /\ LastOf(s) \in S
         /\ Len(s) \in Nat \ {0}
<1>1. Len(s) \in Nat \ {0} /\ \A i \in 1..Len(s) : s[i] \in S
  BY EmptySeq, LenProperties, ElementOfSeq
<1>2. \A i \in 1..(Len(s) - 1) : s[i] \in S
  BY <1>1
<1> DEFINE front == SubSeq(s, 1, Len(s) - 1)
<1>3. /\ front \in Seq(S)
      /\ Len(front) = IF 1 <= Len(s) - 1 THEN (Len(s) - 1) - 1 + 1 ELSE 0
      /\ \A i \in 1..((Len(s) - 1) - 1 + 1) : front[i] = s[1 + i - 1]
  BY <1>1, <1>2, SubSeqProperties
<1>4. Front(s) = front
  BY DEF Front
<1> HIDE DEF front
<1>5. Len(front) = Len(s) - 1
  <2> DEFINE n == Len(s)
  <2>1. n \in Nat /\ n > 0
    BY <1>1
  <2>2. Len(front) = IF 1 <= n - 1 THEN (n - 1) - 1 + 1 ELSE 0
    BY <1>3
  <2> HIDE DEF n
  <2>3. (n - 1) - 1 + 1 = n - 1 /\ (1 <= n - 1 \/ n - 1 = 0)
    BY <2>1
  <2>4. Len(front) = n - 1
    BY <2>2, <2>3, Zenon
  <2> QED
    BY <2>4 DEF n
<1>6. \A i \in 1..(Len(s) - 1) : front[i] = s[i]
  BY <1>1, <1>3
<1>7. LastOf(s) \in S
  BY <1>1 DEF LastOf
<1> QED
  BY <1>1, <1>3, <1>4, <1>5, <1>6, <1>7

\* A sequence that grows or shrinks by its last element: the places of an element in it.
Places(s, e) == {i \in 1..Len(s) : s[i] = e}

\* The places of an element are finitely many.
LEMMA PlacesFinite ==
  ASSUME NEW S, NEW s \in Seq(S), NEW e
  PROVE  IsFiniteSet(Places(s, e)) /\ Cardinality(Places(s, e)) \in Nat
<1>1. IsFiniteSet(1..Len(s))
  BY FS_Interval, LenProperties
<1>2. IsFiniteSet(Places(s, e))
  BY <1>1, FS_Subset DEF Places
<1> QED
  BY <1>2, FS_CardinalityType

\* Appending an element adds one to its places and nothing to those of the others.
LEMMA PlacesAppend ==
  ASSUME NEW S, NEW s \in Seq(S), NEW x \in S, NEW e
  PROVE  Cardinality(Places(Append(s, x), e)) =
           IF e = x THEN Cardinality(Places(s, e)) + 1 ELSE Cardinality(Places(s, e))
<1> DEFINE n == Len(s)
           t == Append(s, x)
<1>1. n \in Nat /\ n + 1 \notin Places(s, e)
  BY LenProperties DEF Places
<1>2. Len(t) = n + 1 /\ (\A i \in 1..n : t[i] = s[i]) /\ t[n + 1] = x
  BY AppendProperties
<1> HIDE DEF n, t
<1>3. Places(t, e) = {i \in 1..(n + 1) : t[i] = e} /\ Places(s, e) = {i \in 1..n : s[i] = e}
  BY <1>2 DEF Places, n
<1>4. CASE e = x
  <2>1. Places(t, e) = Places(s, e) \cup {n + 1}
    BY <1>1, <1>2, <1>3, <1>4
  <2>2. IsFiniteSet(Places(s, e))
    BY PlacesFinite
  <2>3. Cardinality(Places(t, e)) = Cardinality(Places(s, e)) + 1
    BY <1>1, <2>1, <2>2, FS_AddElement
  <2> QED
    BY <1>4, <2>3 DEF t
<1>5. CASE e # x
  <2>1. Places(t, e) = Places(s, e)
    BY <1>1, <1>2, <1>3, <1>5
  <2> QED
    BY <1>5, <2>1 DEF t
<1> QED
  BY <1>4, <1>5

\* Dropping the last element takes one from its places and nothing from those of the
\* others.
LEMMA PlacesFront ==
  ASSUME NEW S, NEW s \in Seq(S), s # <<>>, NEW e
  PROVE  /\ Cardinality(Places(Front(s), e)) =
              IF e = LastOf(s) THEN Cardinality(Places(s, e)) - 1
              ELSE Cardinality(Places(s, e))
         /\ e = LastOf(s) => Cardinality(Places(s, e)) >= 1
<1> DEFINE n == Len(s)
           t == Front(s)
<1>1. n \in Nat \ {0} /\ Len(t) = n - 1 /\ (\A i \in 1..(n - 1) : t[i] = s[i])
      /\ t \in Seq(S) /\ LastOf(s) = s[n]
  BY FrontProperties DEF LastOf
<1> HIDE DEF n, t
<1>2. Places(t, e) = {i \in 1..(n - 1) : t[i] = e} /\ Places(s, e) = {i \in 1..n : s[i] = e}
  BY <1>1 DEF Places, n
<1>3. IsFiniteSet(Places(s, e)) /\ IsFiniteSet(Places(t, e))
      /\ Cardinality(Places(t, e)) \in Nat
  BY <1>1, PlacesFinite
<1>4. CASE e = LastOf(s)
  <2>1. Places(s, e) = Places(t, e) \cup {n} /\ n \notin Places(t, e)
    BY <1>1, <1>2, <1>4
  <2>2. Cardinality(Places(s, e)) = Cardinality(Places(t, e)) + 1
    BY <1>3, <2>1, FS_AddElement
  <2> QED
    BY <1>3, <1>4, <2>2 DEF t
<1>5. CASE e # LastOf(s)
  <2>1. Places(t, e) = Places(s, e)
    BY <1>1, <1>2, <1>5
  <2> QED
    BY <1>5, <2>1 DEF t
<1> QED
  BY <1>4, <1>5

\* The profile on top of the group's stack is that of the innermost scope.
LEMMA Innermost ==
  ASSUME TypeOK, StackMirrorsScopes
  PROVE  /\ stack # <<>> /\ LastOf(stack) \in All
         /\ scopes = <<>> => LastOf(stack) = RunningTime
         /\ scopes # <<>> => LastOf(stack) = LastOf(scopes)
<1>1. Len(scopes) \in Nat /\ Len(stack) = Len(scopes) + 1
  BY LenProperties DEF TypeOK, StackMirrorsScopes
<1>2. stack # <<>>
  BY <1>1, EmptySeq
<1>3. LastOf(stack) \in All
  BY <1>2, FrontProperties DEF TypeOK
<1>4. CASE scopes = <<>>
  BY <1>1, <1>2, <1>3, <1>4, EmptySeq DEF StackMirrorsScopes, LastOf
<1>5. CASE scopes # <<>>
  <2>1. Len(scopes) \in 1..Len(scopes)
    BY <1>1, <1>5, FrontProperties DEF TypeOK
  <2> QED
    BY <1>1, <1>2, <1>3, <1>5, <2>1 DEF StackMirrorsScopes, LastOf
<1> QED
  BY <1>4, <1>5

-----------------------------------------------------------------------------
(* What start() and stop() do to each profile.                               *)

ValRecord == [inProgress : Int, lastTime : 0..MaxTime, sumTime : 0..MaxTime,
              lastIntTime : 0..MaxTime, sumIntTime : 0..MaxTime]

(* Its fields without their bounds.                                          *)
Fields == [inProgress : Int, lastTime : Int, sumTime : Int, lastIntTime : Int,
           sumIntTime : Int]

(* v of the profile q becomes w when p starts at t, while top is innermost;   *)
(* and when p stops, and below becomes innermost.                                *)
StartMakes(t, v, w, p, q, top) ==
  /\ w.inProgress = IF q = p THEN v.inProgress + 1 ELSE v.inProgress
  /\ w.lastTime = IF q = p /\ v.inProgress = 0 THEN t ELSE v.lastTime
  /\ w.sumTime = v.sumTime
  /\ w.lastIntTime = IF q = p THEN t
                     ELSE IF q = top THEN t - v.lastIntTime ELSE v.lastIntTime
  /\ w.sumIntTime = IF q = top THEN v.sumIntTime + (t - v.lastIntTime) ELSE v.sumIntTime

StopMakes(t, v, w, p, q, below) ==
  /\ w.inProgress = IF q = p THEN v.inProgress - 1 ELSE v.inProgress
  /\ w.lastTime = IF q = p /\ v.inProgress = 1 THEN t - v.lastTime ELSE v.lastTime
  /\ w.sumTime = IF q = p /\ v.inProgress = 1 THEN v.sumTime + (t - v.lastTime)
                 ELSE v.sumTime
  /\ w.lastIntTime = IF q = below THEN t
                     ELSE IF q = p THEN t - v.lastIntTime ELSE v.lastIntTime
  /\ w.sumIntTime = IF q = p THEN v.sumIntTime + (t - v.lastIntTime) ELSE v.sumIntTime

\* start() of p, while another profile or p itself is innermost.
LEMMA StartedEffect ==
  ASSUME val \in [All -> Fields], now \in Int,
         NEW p \in All, stack # <<>>, LastOf(stack) \in All
  PROVE  /\ Started(val, p) \in [All -> Fields]
         /\ \A q \in All : StartMakes(now, val[q], Started(val, p)[q], p, q, LastOf(stack))
<1> DEFINE top == LastOf(stack)
           entered == [val EXCEPT ![p] = Entered(@)]
           credited == [entered EXCEPT ![top] = Credited(@)]
<1>1. Started(val, p) = [credited EXCEPT ![p] = [@ EXCEPT !.lastIntTime = now]]
  BY DEF Started
<1>2. entered \in [All -> Fields]
  <2> DEFINE v == val[p]
             nesting == v.inProgress + 1
             stamp == IF v.inProgress = 0 THEN now ELSE v.lastTime
             rec == [v EXCEPT !.inProgress = nesting, !.lastTime = stamp]
  <2>1. v \in Fields
    OBVIOUS
  <2>2. entered = [val EXCEPT ![p] = rec]
    BY DEF Entered
  <2> HIDE DEF v
  <2>3. nesting \in Int /\ stamp \in Int
    BY <2>1 DEF Fields
  <2> HIDE DEF nesting, stamp
  <2>4. rec \in Fields
    BY <2>1, <2>3 DEF Fields
  <2> HIDE DEF rec, entered
  <2> QED
    BY <2>2, <2>4
<1>3. \A q \in All :
        /\ entered[q].inProgress =
             IF q = p THEN val[q].inProgress + 1 ELSE val[q].inProgress
        /\ entered[q].lastTime =
             IF q = p /\ val[q].inProgress = 0 THEN now ELSE val[q].lastTime
        /\ entered[q].sumTime = val[q].sumTime
        /\ entered[q].lastIntTime = val[q].lastIntTime
        /\ entered[q].sumIntTime = val[q].sumIntTime
  BY DEF Entered, Fields
<1> HIDE DEF entered, top
<1>4. top \in All
  BY DEF top
<1>5. credited \in [All -> Fields]
  <2> DEFINE v == entered[top]
             since == now - v.lastIntTime
             sum == v.sumIntTime + (now - v.lastIntTime)
             rec == [v EXCEPT !.lastIntTime = since, !.sumIntTime = sum]
  <2>1. v \in Fields
    BY <1>2, <1>4
  <2>2. credited = [entered EXCEPT ![top] = rec]
    BY DEF Credited
  <2> HIDE DEF v
  <2>3. since \in Int /\ sum \in Int
    <3>1. v.lastIntTime \in Int /\ v.sumIntTime \in Int
      BY <2>1 DEF Fields
    <3> QED
      BY <3>1
  <2> HIDE DEF since, sum
  <2>4. rec \in Fields
    BY <2>1, <2>3 DEF Fields
  <2> HIDE DEF rec, credited
  <2> QED
    BY <1>2, <1>4, <2>2, <2>4
<1>6. \A q \in All :
        /\ credited[q].inProgress = entered[q].inProgress
        /\ credited[q].lastTime = entered[q].lastTime
        /\ credited[q].sumTime = entered[q].sumTime
        /\ credited[q].lastIntTime =
             IF q = top THEN now - entered[q].lastIntTime ELSE entered[q].lastIntTime
        /\ credited[q].sumIntTime =
             IF q = top THEN entered[q].sumIntTime + (now - entered[q].lastIntTime)
             ELSE entered[q].sumIntTime
  BY <1>2, <1>4 DEF Credited, Fields
<1> HIDE DEF credited
<1> DEFINE last == credited[p]
           rec == [last EXCEPT !.lastIntTime = now]
<1>7. /\ last \in Fields
      /\ Started(val, p) = [credited EXCEPT ![p] = rec]
  BY <1>1, <1>5
<1>8. /\ Started(val, p) \in [All -> Fields]
      /\ \A q \in All :
        /\ Started(val, p)[q].inProgress = credited[q].inProgress
        /\ Started(val, p)[q].lastTime = credited[q].lastTime
        /\ Started(val, p)[q].sumTime = credited[q].sumTime
        /\ Started(val, p)[q].lastIntTime = IF q = p THEN now ELSE credited[q].lastIntTime
        /\ Started(val, p)[q].sumIntTime = credited[q].sumIntTime
  <2> HIDE DEF last
  <2>1. /\ rec \in Fields
        /\ rec.inProgress = last.inProgress /\ rec.lastTime = last.lastTime
        /\ rec.sumTime = last.sumTime /\ rec.lastIntTime = now
        /\ rec.sumIntTime = last.sumIntTime
    BY <1>7 DEF Fields
  <2> HIDE DEF rec
  <2>2. /\ Started(val, p) \in [All -> Fields]
        /\ \A q \in All : Started(val, p)[q] = IF q = p THEN rec ELSE credited[q]
    BY <1>5, <1>7, <2>1
  <2> QED
    BY <2>1, <2>2 DEF last
<1>9. \A q \in All : StartMakes(now, val[q], Started(val, p)[q], p, q, top)
  BY <1>3, <1>6, <1>8 DEF StartMakes
<1> QED
  BY <1>8, <1>9 DEF top

\* stop() of the innermost profile p, while another one or p itself is below it.
LEMMA StoppedEffect ==
  ASSUME val \in [All -> Fields], now \in Int, NEW p \in All,
         Front(stack) # <<>>, LastOf(Front(stack)) \in All
  PROVE  /\ Stopped(p) \in [All -> Fields]
         /\ \A q \in All : StopMakes(now, val[q], Stopped(p)[q], p, q, LastOf(Front(stack)))
<1> DEFINE b == LastOf(Front(stack))
           v == val[p]
           left == Left(v)
           since == now - left.lastIntTime
           sum == left.sumIntTime + (now - left.lastIntTime)
           rec == [left EXCEPT !.lastIntTime = since, !.sumIntTime = sum]
           stopped == [val EXCEPT ![p] = rec]
           last == stopped[b]
           resumed == [last EXCEPT !.lastIntTime = now]
<1>1. /\ b \in All /\ v \in Fields
      /\ Stopped(p) = [stopped EXCEPT ![b] = resumed]
  BY DEF Stopped, Credited
<1> HIDE DEF v
<1>2. /\ left \in Fields
      /\ left.inProgress = v.inProgress - 1
      /\ left.lastTime = IF v.inProgress = 1 THEN now - v.lastTime ELSE v.lastTime
      /\ left.sumTime =
           IF v.inProgress = 1 THEN v.sumTime + (now - v.lastTime) ELSE v.sumTime
      /\ left.lastIntTime = v.lastIntTime /\ left.sumIntTime = v.sumIntTime
  <2>1. CASE v.inProgress = 1
    <3> DEFINE none == 0
               time == now - v.lastTime
               total == v.sumTime + (now - v.lastTime)
    <3>1. left = [v EXCEPT !.inProgress = none, !.lastTime = time, !.sumTime = total]
      BY <2>1 DEF Left
    <3>2. none \in Int /\ time \in Int /\ total \in Int
      BY <1>1 DEF Fields
    <3> HIDE DEF left, none, time, total
    <3>3. left \in Fields
      BY <1>1, <3>1, <3>2 DEF Fields
    <3>4. /\ left.inProgress = none /\ left.lastTime = time /\ left.sumTime = total
          /\ left.lastIntTime = v.lastIntTime /\ left.sumIntTime = v.sumIntTime
      BY <1>1, <3>1 DEF Fields
    <3> QED
      BY <2>1, <3>3, <3>4 DEF none, time, total
  <2>2. CASE v.inProgress # 1
    <3> DEFINE nesting == v.inProgress - 1
    <3>1. left = [v EXCEPT !.inProgress = nesting]
      BY <2>2 DEF Left
    <3>2. nesting \in Int
      BY <1>1 DEF Fields
    <3> HIDE DEF left, nesting
    <3>3. /\ left \in Fields
          /\ left.inProgress = nesting /\ left.lastTime = v.lastTime
          /\ left.sumTime = v.sumTime
          /\ left.lastIntTime = v.lastIntTime /\ left.sumIntTime = v.sumIntTime
      BY <1>1, <3>1, <3>2 DEF Fields
    <3> QED
      BY <2>2, <3>3 DEF nesting
  <2> QED
    BY <2>1, <2>2
<1> HIDE DEF left
<1>3. since \in Int /\ sum \in Int
  <2>1. left \in Fields
    BY <1>2
  <2>2. left.lastIntTime \in Int /\ left.sumIntTime \in Int
    BY <2>1 DEF Fields
  <2> QED
    BY <2>2
<1> HIDE DEF since, sum
<1>4. /\ rec \in Fields
      /\ rec.inProgress = left.inProgress /\ rec.lastTime = left.lastTime
      /\ rec.sumTime = left.sumTime
      /\ rec.lastIntTime = since /\ rec.sumIntTime = sum
  <2>1. left \in Fields
    BY <1>2
  <2>2. rec \in Fields
    BY <2>1, <1>3 DEF Fields
  <2>3. /\ rec.inProgress = left.inProgress /\ rec.lastTime = left.lastTime
        /\ rec.sumTime = left.sumTime
        /\ rec.lastIntTime = since /\ rec.sumIntTime = sum
    BY <2>1 DEF Fields
  <2> QED
    BY <2>2, <2>3
<1> HIDE DEF rec, b
<1>5. /\ stopped \in [All -> Fields]
      /\ \A q \in All : stopped[q] = IF q = p THEN rec ELSE val[q]
  BY <1>4
<1> HIDE DEF stopped
<1>6. last \in Fields
  BY <1>1, <1>5
<1> HIDE DEF last
<1>7. /\ resumed \in Fields
      /\ resumed.inProgress = last.inProgress /\ resumed.lastTime = last.lastTime
      /\ resumed.sumTime = last.sumTime
      /\ resumed.lastIntTime = now /\ resumed.sumIntTime = last.sumIntTime
  BY <1>6 DEF Fields
<1> HIDE DEF resumed
<1>8. /\ Stopped(p) \in [All -> Fields]
      /\ \A q \in All : Stopped(p)[q] = IF q = b THEN resumed ELSE stopped[q]
  BY <1>1, <1>5, <1>7
<1>9. \A q \in All :
        /\ Stopped(p)[q].inProgress = stopped[q].inProgress
        /\ Stopped(p)[q].lastTime = stopped[q].lastTime
        /\ Stopped(p)[q].sumTime = stopped[q].sumTime
        /\ Stopped(p)[q].lastIntTime = IF q = b THEN now ELSE stopped[q].lastIntTime
        /\ Stopped(p)[q].sumIntTime = stopped[q].sumIntTime
  BY <1>7, <1>8 DEF last
<1>10. \A q \in All : StopMakes(now, val[q], Stopped(p)[q], p, q, b)
  BY <1>2, <1>4, <1>5, <1>9 DEF StopMakes, since, sum, v
<1> QED
  BY <1>8, <1>10 DEF b

-----------------------------------------------------------------------------
(* The times.                                                                *)

(* TimesBounded and the types, for one profile at t, innermost or not.       *)
TimesOf(t, v, innermost) ==
  /\ 0 <= v.lastTime /\ v.lastTime <= t /\ 0 <= v.lastIntTime /\ v.lastIntTime <= t
  /\ 0 <= v.sumTime /\ v.sumTime <= IF v.inProgress > 0 THEN v.lastTime ELSE t
  /\ 0 <= v.sumIntTime /\ v.sumIntTime <= IF innermost THEN v.lastIntTime ELSE t

\* The types and the bounds of the times say the same as TimesOf of every profile.
LEMMA TimesExpand ==
  ASSUME TypeOK, TimesBounded
  PROVE  /\ val \in [All -> Fields] /\ now \in 0..MaxTime
         /\ \A q \in All : TimesOf(now, val[q], q = LastOf(stack))
<1>1. val \in [All -> ValRecord] /\ now \in 0..MaxTime
  BY DEF TypeOK, ValRecord
<1>2. MaxTime \in Nat
  BY ConstantsAssumption
<1>3. \A r \in ValRecord : r \in Fields
  BY <1>2 DEF ValRecord, Fields
<1>4. \A r \in ValRecord : /\ 0 <= r.lastTime /\ 0 <= r.lastIntTime
                           /\ 0 <= r.sumTime /\ 0 <= r.sumIntTime
  BY <1>2 DEF ValRecord
<1>5. val \in [All -> Fields]
  BY <1>1, <1>3
<1>6. ASSUME NEW q \in All PROVE TimesOf(now, val[q], q = LastOf(stack))
  <2>1. val[q] \in ValRecord
    BY <1>1
  <2> QED
    BY <2>1, <1>4 DEF TimesBounded, TimesOf
<1> QED
  BY <1>1, <1>5, <1>6

\* And so they do the other way round.
LEMMA TimesCollect ==
  ASSUME NEW f \in [All -> Fields], NEW t \in 0..MaxTime, NEW top,
         \A q \in All : TimesOf(t, f[q], q = top)
  PROVE  /\ f \in [All -> ValRecord]
         /\ \A q \in All :
              /\ f[q].lastTime <= t /\ f[q].lastIntTime <= t
              /\ f[q].sumTime <= IF f[q].inProgress > 0 THEN f[q].lastTime ELSE t
              /\ f[q].sumIntTime <= IF q = top THEN f[q].lastIntTime ELSE t
<1>1. MaxTime \in Nat
  BY ConstantsAssumption
<1>2. ASSUME NEW q \in All PROVE f[q] \in ValRecord
  <2> DEFINE r == f[q]
  <2>1. r \in Fields /\ TimesOf(t, r, q = top)
    OBVIOUS
  <2> HIDE DEF r
  <2>2. /\ r.inProgress \in Int /\ r.lastTime \in Int /\ r.sumTime \in Int
        /\ r.lastIntTime \in Int /\ r.sumIntTime \in Int
    BY <2>1 DEF Fields
  <2>3. /\ r.inProgress \in Int /\ r.lastTime \in 0..MaxTime
        /\ r.lastIntTime \in 0..MaxTime
        /\ r.sumTime \in 0..MaxTime /\ r.sumIntTime \in 0..MaxTime
    BY <1>1, <2>1, <2>2 DEF TimesOf
  <2>4. r \in ValRecord
    BY <2>1, <2>3 DEF Fields, ValRecord
  <2> QED
    BY <2>4 DEF r
<1>3. f \in [All -> ValRecord]
  BY <1>2
<1> QED
  BY <1>3 DEF TimesOf

\* start() keeps the times of every profile in their bounds.
LEMMA StartKeepsTimes ==
  ASSUME NEW t \in Nat, NEW v \in Fields, NEW w \in Fields, NEW p, NEW q, NEW top,
         TimesOf(t, v, q = top), StartMakes(t, v, w, p, q, top)
  PROVE  TimesOf(t, w, q = p)
<1>1. /\ v.inProgress \in Int /\ v.lastTime \in Int /\ v.sumTime \in Int
      /\ v.lastIntTime \in Int /\ v.sumIntTime \in Int
  BY DEF Fields
<1>2. CASE q = p /\ q = top
  BY <1>1, <1>2 DEF TimesOf, StartMakes
<1>3. CASE q = p /\ q # top
  BY <1>1, <1>3 DEF TimesOf, StartMakes
<1>4. CASE q # p /\ q = top
  BY <1>1, <1>4 DEF TimesOf, StartMakes
<1>5. CASE q # p /\ q # top
  BY <1>1, <1>5 DEF TimesOf, StartMakes
<1> QED
  BY <1>2, <1>3, <1>4, <1>5

\* stop() of the innermost profile keeps them too.
LEMMA StopKeepsTimes ==
  ASSUME NEW t \in Nat, NEW v \in Fields, NEW w \in Fields, NEW p, NEW q, NEW below,
         TimesOf(t, v, q = p), StopMakes(t, v, w, p, q, below)
  PROVE  TimesOf(t, w, q = below)
<1>1. /\ v.inProgress \in Int /\ v.lastTime \in Int /\ v.sumTime \in Int
      /\ v.lastIntTime \in Int /\ v.sumIntTime \in Int
  BY DEF Fields
<1>2. CASE q = p /\ q = below
  BY <1>1, <1>2 DEF TimesOf, StopMakes
<1>3. CASE q = p /\ q # below
  BY <1>1, <1>3 DEF TimesOf, StopMakes
<1>4. CASE q # p /\ q = below
  BY <1>1, <1>4 DEF TimesOf, StopMakes
<1>5. CASE q # p /\ q # below
  BY <1>1, <1>5 DEF TimesOf, StopMakes
<1> QED
  BY <1>2, <1>3, <1>4, <1>5

-----------------------------------------------------------------------------
(* What ProfileClock sees.                                                   *)

(* What a profile has measured at t, and what of it is internal time.        *)
Measured(t, v) == v.sumTime + (IF v.inProgress > 0 THEN t - v.lastTime ELSE 0)
MeasuredOwn(t, v, innermost) ==
  v.sumIntTime + (IF innermost THEN t - v.lastIntTime ELSE 0)

(* A number of each profile, but 0 of those that lost theirs.                *)
Masked(gone, f) == [q \in All |-> IF q \in gone THEN 0 ELSE f[q]]
Totals(t, vals) == [q \in All |-> Measured(t, vals[q])]
Owns(t, vals, top) == [q \in All |-> MeasuredOwn(t, vals[q], q = top)]

\* start() leaves what every profile has measured as it is.
LEMMA StartKeepsMeasured ==
  ASSUME NEW t \in Nat, NEW v \in Fields, NEW w \in Fields, NEW p, NEW q, NEW top,
         TimesOf(t, v, q = top), StartMakes(t, v, w, p, q, top)
  PROVE  /\ Measured(t, w) = Measured(t, v)
         /\ MeasuredOwn(t, w, q = p) = MeasuredOwn(t, v, q = top)
<1>1. /\ v.inProgress \in Int /\ v.lastTime \in Int /\ v.sumTime \in Int
      /\ v.lastIntTime \in Int /\ v.sumIntTime \in Int
  BY DEF Fields
<1>2. Measured(t, w) = Measured(t, v)
  <2>1. CASE q = p /\ v.inProgress = 0
    BY <1>1, <2>1 DEF StartMakes, Measured
  <2>2. CASE q = p /\ v.inProgress # 0
    BY <1>1, <2>2 DEF StartMakes, Measured, TimesOf
  <2>3. CASE q # p
    BY <1>1, <2>3 DEF StartMakes, Measured
  <2> QED
    BY <2>1, <2>2, <2>3
<1>3. MeasuredOwn(t, w, q = p) = MeasuredOwn(t, v, q = top)
  <2>1. CASE q = p /\ q = top
    BY <1>1, <2>1 DEF StartMakes, MeasuredOwn
  <2>2. CASE q = p /\ q # top
    BY <1>1, <2>2 DEF StartMakes, MeasuredOwn
  <2>3. CASE q # p /\ q = top
    BY <1>1, <2>3 DEF StartMakes, MeasuredOwn
  <2>4. CASE q # p /\ q # top
    BY <1>1, <2>4 DEF StartMakes, MeasuredOwn
  <2> QED
    BY <2>1, <2>2, <2>3, <2>4
<1> QED
  BY <1>2, <1>3

\* The same for stop() of the innermost profile.
LEMMA StopKeepsMeasured ==
  ASSUME NEW t \in Nat, NEW v \in Fields, NEW w \in Fields, NEW p, NEW q, NEW below,
         TimesOf(t, v, q = p), StopMakes(t, v, w, p, q, below)
  PROVE  /\ Measured(t, w) = Measured(t, v)
         /\ MeasuredOwn(t, w, q = below) = MeasuredOwn(t, v, q = p)
<1>1. /\ v.inProgress \in Int /\ v.lastTime \in Int /\ v.sumTime \in Int
      /\ v.lastIntTime \in Int /\ v.sumIntTime \in Int
  BY DEF Fields
<1>2. Measured(t, w) = Measured(t, v)
  <2>1. CASE q = p /\ v.inProgress = 1
    BY <1>1, <2>1 DEF StopMakes, Measured
  <2>2. CASE q = p /\ v.inProgress # 1
    BY <1>1, <2>2 DEF StopMakes, Measured
  <2>3. CASE q # p
    BY <1>1, <2>3 DEF StopMakes, Measured
  <2> QED
    BY <2>1, <2>2, <2>3
<1>3. MeasuredOwn(t, w, q = below) = MeasuredOwn(t, v, q = p)
  <2>1. CASE q = p /\ q = below
    BY <1>1, <2>1 DEF StopMakes, MeasuredOwn
  <2>2. CASE q = p /\ q # below
    BY <1>1, <2>2 DEF StopMakes, MeasuredOwn
  <2>3. CASE q # p /\ q = below
    BY <1>1, <2>3 DEF StopMakes, MeasuredOwn
  <2>4. CASE q # p /\ q # below
    BY <1>1, <2>4 DEF StopMakes, MeasuredOwn
  <2> QED
    BY <2>1, <2>2, <2>3, <2>4
<1> QED
  BY <1>2, <1>3

\* A stamp that passes adds one to a profile that is running, and to the internal time
\* of the innermost.
LEMMA AdvanceMeasures ==
  ASSUME NEW t \in Nat, NEW v \in Fields, NEW innermost \in BOOLEAN
  PROVE  /\ Measured(t + 1, v) =
              IF v.inProgress > 0 THEN Measured(t, v) + 1 ELSE Measured(t, v)
         /\ MeasuredOwn(t + 1, v, innermost) =
              IF innermost THEN MeasuredOwn(t, v, innermost) + 1
              ELSE MeasuredOwn(t, v, innermost)
<1>1. /\ v.inProgress \in Int /\ v.lastTime \in Int /\ v.sumTime \in Int
      /\ v.lastIntTime \in Int /\ v.sumIntTime \in Int
  BY DEF Fields
<1>2. Measured(t + 1, v) = IF v.inProgress > 0 THEN Measured(t, v) + 1 ELSE Measured(t, v)
  <2>1. CASE v.inProgress > 0
    BY <1>1, <2>1 DEF Measured
  <2>2. CASE ~(v.inProgress > 0)
    BY <1>1, <2>2 DEF Measured
  <2> QED
    BY <2>1, <2>2
<1>3. MeasuredOwn(t + 1, v, innermost) =
        IF innermost THEN MeasuredOwn(t, v, innermost) + 1 ELSE MeasuredOwn(t, v, innermost)
  <2>1. CASE innermost
    BY <1>1, <2>1 DEF MeasuredOwn
  <2>2. CASE ~innermost
    BY <1>1, <2>2 DEF MeasuredOwn
  <2> QED
    BY <2>1, <2>2
<1> QED
  BY <1>2, <1>3

\* A profile has an open scope exactly if Nesting counts one.
LEMMA NestingCounts ==
  ASSUME TypeOK, NEW q \in All
  PROVE  /\ Nesting(q) \in Nat
         /\ q \in Open <=> Nesting(q) > 0
<1>1. RunningTime \notin Profile /\ scopes \in Seq(Profile)
  BY ConstantsAssumption DEF TypeOK
<1>2. CASE q = RunningTime
  BY <1>2 DEF Open, Nesting
<1>3. CASE q # RunningTime
  <2>1. IsFiniteSet(Places(scopes, q)) /\ Cardinality(Places(scopes, q)) \in Nat
    BY <1>1, PlacesFinite
  <2>2. Nesting(q) = Cardinality(Places(scopes, q))
    BY <1>3 DEF Nesting, ScopesOf, Places
  <2>3. Cardinality(Places(scopes, q)) = 0 <=> Places(scopes, q) = {}
    BY <2>1, FS_EmptySet
  <2>4. Places(scopes, q) # {} <=> q \in Open
    BY <1>3 DEF Places, Open
  <2> QED
    BY <2>1, <2>2, <2>3, <2>4
<1> QED
  BY <1>2, <1>3

\* What ProfileClock sees of a state: the open profiles that were not reset inside a scope
\* are running, and the innermost is on top of the group's stack.
LEMMA ClockView ==
  ASSUME ProfileInv
  PROVE  /\ Clock!All = All /\ Clock!Innermost = LastOf(stack) /\ Clock!Open = Open
         /\ \A q \in All \ lost : q \in Open <=> val[q].inProgress > 0
         /\ measured = Masked(lost, Totals(now, val))
         /\ measuredOwn = Masked(lost, Owns(now, val, LastOf(stack)))
<1> USE DEF ProfileInv
<1>1. Clock!All = All /\ Clock!Open = Open
  BY DEF Clock!All, All, Clock!Open, Open
<1>2. Clock!Innermost = LastOf(stack)
  BY Innermost DEF Clock!Innermost, LastOf
<1>3. ASSUME NEW q \in All \ lost PROVE q \in Open <=> val[q].inProgress > 0
  <2>1. val[q].inProgress = Nesting(q)
    BY DEF NestingExact
  <2> QED
    BY <2>1, NestingCounts
<1>4. measured = Masked(lost, Totals(now, val))
  BY DEF measured, Measured, Masked, Totals
<1>5. measuredOwn = Masked(lost, Owns(now, val, LastOf(stack)))
  BY DEF measuredOwn, MeasuredOwn, Masked, Owns
<1> QED
  BY <1>1, <1>2, <1>3, <1>4, <1>5

-----------------------------------------------------------------------------
(* Every step keeps the invariant, and is one of ProfileClock.               *)

\* The constructor of ProfileGroup establishes the invariant.
LEMMA InitEstablishes ==
  ASSUME Init
  PROVE  ProfileInv
<1> DEFINE zero == [q \in All |-> Zero]
<1>1. MaxTime \in Nat /\ RunningTime \notin Profile /\ RunningTime \in All
      /\ Profile \subseteq All
  BY ConstantsAssumption DEF All
<1>2. /\ Len(stack) = 1 /\ stack[1] = RunningTime /\ LastOf(stack) = RunningTime
      /\ Len(scopes) = 0 /\ stack \in Seq(All) /\ scopes \in Seq(Profile) /\ lost = {}
  BY <1>1 DEF Init, LastOf
<1>3. /\ now = 0 /\ now \in 0..MaxTime /\ failed = FALSE
  BY <1>1 DEF Init
<1> DEFINE started == [Zero EXCEPT !.inProgress = 1]
<1>4. /\ Zero \in Fields /\ started \in Fields
      /\ Zero.inProgress = 0 /\ started.inProgress = 1
      /\ \A r \in {Zero, started} : /\ r.lastTime = 0 /\ r.sumTime = 0
                                   /\ r.lastIntTime = 0 /\ r.sumIntTime = 0
  BY DEF Zero, Fields
<1>5. val = [q \in All |-> IF q = RunningTime THEN started ELSE Zero]
  BY DEF Init
<1> HIDE DEF started
<1>6. /\ val \in [All -> Fields]
      /\ \A q \in All : TimesOf(0, val[q], q = RunningTime)
      /\ \A q \in Profile : val[q].inProgress = 0
      /\ val[RunningTime].inProgress = 1
  BY <1>1, <1>4, <1>5 DEF TimesOf
<1>7. /\ val \in [All -> ValRecord]
      /\ \A q \in All :
           /\ val[q].lastTime <= now /\ val[q].lastIntTime <= now
           /\ val[q].sumTime <= IF val[q].inProgress > 0 THEN val[q].lastTime ELSE now
           /\ val[q].sumIntTime <= IF q = RunningTime THEN val[q].lastIntTime ELSE now
  BY <1>3, <1>6, TimesCollect
<1>8. TypeOK
  BY <1>2, <1>3, <1>7 DEF TypeOK, ValRecord
<1>9. TimesBounded
  BY <1>2, <1>7 DEF TimesBounded
<1>10. StackMirrorsScopes
  BY <1>2 DEF StackMirrorsScopes
<1>11. NestingExact
  <2>1. ASSUME NEW q \in Profile PROVE Cardinality(ScopesOf(q)) = 0
    <3>1. ScopesOf(q) = {}
      BY <1>2 DEF ScopesOf
    <3> QED
      BY <3>1, FS_EmptySet
  <2> QED
    BY <1>1, <1>6, <2>1 DEF NestingExact, Nesting, All
<1> QED
  BY <1>3, <1>8, <1>9, <1>10, <1>11 DEF ProfileInv, NoAssertionFails

\* The group that was just constructed has measured nothing.
LEMMA InitImplements ==
  ASSUME Init
  PROVE  Clock!Init
<1>1. ProfileInv
  BY InitEstablishes
<1>2. \A q \in All : /\ Measured(now, val[q]) = 0
                     /\ MeasuredOwn(now, val[q], q = LastOf(stack)) = 0
  <2> TAKE q \in All
  <2> DEFINE started == [Zero EXCEPT !.inProgress = 1]
  <2>1. /\ now = 0 /\ val[q] = IF q = RunningTime THEN started ELSE Zero
    BY DEF Init
  <2>2. \A r \in {Zero, started} : /\ r.lastTime = 0 /\ r.sumTime = 0
                                 /\ r.lastIntTime = 0 /\ r.sumIntTime = 0
    BY DEF Zero
  <2> QED
    BY <2>1, <2>2 DEF Measured, MeasuredOwn
<1>3. /\ Clock!All = All
      /\ measured = Masked(lost, Totals(now, val))
      /\ measuredOwn = Masked(lost, Owns(now, val, LastOf(stack)))
  BY <1>1, ClockView
<1>4. measured = [q \in All |-> 0] /\ measuredOwn = [q \in All |-> 0]
  BY <1>2, <1>3 DEF Masked, Totals, Owns
<1> QED
  BY <1>3, <1>4 DEF Clock!Init, Init

\* The start of a ScopedProfile enters its profile.
LEMMA StartStep ==
  ASSUME ProfileInv, NEW p \in Profile, Start(p)
  PROVE  ProfileInv' /\ Clock!Enter(p)
<1> USE DEF ProfileInv
<1> DEFINE top == LastOf(stack)
<1>1. /\ p \in All /\ RunningTime \in All /\ RunningTime # p /\ Profile \subseteq All
      /\ MaxTime \in Nat
  BY ConstantsAssumption DEF All
<1>2. /\ val' = Started(val, p) /\ stack' = Append(stack, p) /\ scopes' = Append(scopes, p)
      /\ now' = now /\ failed' = failed /\ lost' = lost
  BY DEF Start
<1>3. stack # <<>> /\ top \in All
  BY Innermost
<1>4. /\ val \in [All -> Fields] /\ now \in 0..MaxTime
      /\ \A q \in All : TimesOf(now, val[q], q = top)
  BY TimesExpand
<1>5. now \in Nat /\ now \in Int
  BY <1>1, <1>4
<1>6. /\ val' \in [All -> Fields]
      /\ \A q \in All : StartMakes(now, val[q], val'[q], p, q, top)
  BY <1>1, <1>2, <1>3, <1>4, <1>5, StartedEffect
<1>7. /\ stack' \in Seq(All) /\ scopes' \in Seq(Profile)
      /\ Len(stack') = Len(stack) + 1 /\ Len(scopes') = Len(scopes) + 1
      /\ (\A i \in 1..Len(stack) : stack'[i] = stack[i]) /\ stack'[Len(stack) + 1] = p
      /\ (\A i \in 1..Len(scopes) : scopes'[i] = scopes[i])
      /\ scopes'[Len(scopes) + 1] = p
      /\ Len(stack) \in Nat /\ Len(scopes) \in Nat
  <2>1. stack \in Seq(All) /\ scopes \in Seq(Profile)
    BY DEF TypeOK
  <2>2. /\ stack' \in Seq(All) /\ Len(stack') = Len(stack) + 1
        /\ (\A i \in 1..Len(stack) : stack'[i] = stack[i]) /\ stack'[Len(stack) + 1] = p
        /\ Len(stack) \in Nat
    BY <1>1, <1>2, <2>1, AppendProperties, LenProperties
  <2>3. /\ scopes' \in Seq(Profile) /\ Len(scopes') = Len(scopes) + 1
        /\ (\A i \in 1..Len(scopes) : scopes'[i] = scopes[i])
        /\ scopes'[Len(scopes) + 1] = p
        /\ Len(scopes) \in Nat
    BY <1>2, <2>1, AppendProperties, LenProperties
  <2> QED
    BY <2>2, <2>3
<1>8. LastOf(stack)' = p
  BY <1>7 DEF LastOf
<1>9. \A q \in All : TimesOf(now, val'[q], q = p)
  <2> TAKE q \in All
  <2>1. val[q] \in Fields /\ val'[q] \in Fields
    BY <1>4, <1>6
  <2> QED
    BY <1>4, <1>5, <1>6, <2>1, StartKeepsTimes
<1>10. /\ val' \in [All -> ValRecord]
       /\ \A q \in All :
              /\ val'[q].lastTime <= now /\ val'[q].lastIntTime <= now
              /\ val'[q].sumTime <= IF val'[q].inProgress > 0 THEN val'[q].lastTime ELSE now
              /\ val'[q].sumIntTime <= IF q = p THEN val'[q].lastIntTime ELSE now
  BY <1>4, <1>6, <1>9, TimesCollect
<1>11. TypeOK'
  BY <1>2, <1>4, <1>7, <1>10 DEF TypeOK, ValRecord
<1>12. TimesBounded'
  BY <1>2, <1>8, <1>10 DEF TimesBounded
<1>13. StackMirrorsScopes'
  BY SMTT(30), <1>7 DEF StackMirrorsScopes
<1>14. NestingExact'
  <2>1. ASSUME NEW q \in All
        PROVE  Nesting(q)' = IF q = p THEN Nesting(q) + 1 ELSE Nesting(q)
    <3>1. Cardinality(Places(scopes', q)) =
            IF q = p THEN Cardinality(Places(scopes, q)) + 1
            ELSE Cardinality(Places(scopes, q))
      BY <1>2, PlacesAppend DEF TypeOK
    <3> QED
      BY <1>1, <3>1 DEF Nesting, ScopesOf, Places
  <2>2. ASSUME NEW q \in All
        PROVE  /\ val'[q].inProgress <= Nesting(q)'
               /\ q \notin lost => val'[q].inProgress = Nesting(q)'
    <3> DEFINE was == val[q].inProgress
               is == val'[q].inProgress
    <3>1. was \in Int /\ is = IF q = p THEN was + 1 ELSE was
      BY <1>4, <1>6 DEF StartMakes, Fields
    <3>2. was <= Nesting(q) /\ (q \notin lost => was = Nesting(q)) /\ Nesting(q) \in Nat
      BY NestingCounts DEF NestingExact
    <3> HIDE DEF was, is
    <3>3. is <= Nesting(q)' /\ (q \notin lost => is = Nesting(q)')
      BY <2>1, <3>1, <3>2
    <3> QED
      BY <3>3 DEF is
  <2> QED
    BY <1>2, <2>2 DEF NestingExact
<1>15. Clock!Enter(p)
  <2>1. ASSUME NEW q \in All
        PROVE  /\ Measured(now, val'[q]) = Measured(now, val[q])
               /\ MeasuredOwn(now, val'[q], q = p) = MeasuredOwn(now, val[q], q = top)
    <3>1. val[q] \in Fields /\ val'[q] \in Fields
      BY <1>4, <1>6
    <3> QED
      BY <1>4, <1>5, <1>6, <3>1, StartKeepsMeasured
  <2>2. /\ measured = Masked(lost, Totals(now, val))
        /\ measuredOwn = Masked(lost, Owns(now, val, top))
    BY ClockView
  <2>3. /\ measured' = Masked(lost, Totals(now, val'))
        /\ measuredOwn' = Masked(lost, Owns(now, val', p))
    BY <1>2, <1>8 DEF measured, measuredOwn, Measured, MeasuredOwn, Masked, Totals, Owns
  <2>4. Totals(now, val') = Totals(now, val) /\ Owns(now, val', p) = Owns(now, val, top)
    BY <2>1 DEF Totals, Owns
  <2> QED
    BY <1>2, <2>2, <2>3, <2>4 DEF Clock!Enter
<1> QED
  BY <1>2, <1>11, <1>12, <1>13, <1>14, <1>15 DEF NoAssertionFails

\* The end of the innermost ScopedProfile leaves its profile.
LEMMA StopStep ==
  ASSUME ProfileInv, Stop
  PROVE  ProfileInv' /\ Clock!Leave
<1> USE DEF ProfileInv
<1> DEFINE p == LastOf(scopes)
           b == LastOf(Front(stack))
<1>1. /\ RunningTime \in All /\ RunningTime \notin Profile /\ Profile \subseteq All
      /\ MaxTime \in Nat
  BY ConstantsAssumption DEF All
<1>2. scopes # <<>> /\ stack # <<>> /\ LastOf(stack) = p
  BY Innermost DEF Stop
<1>3. /\ val' = Stopped(p) /\ stack' = Front(stack) /\ scopes' = Front(scopes)
      /\ now' = now /\ failed' = failed /\ lost' = lost
  BY <1>2 DEF Stop
<1>4. /\ Len(scopes) \in Nat \ {0} /\ Len(stack) = Len(scopes) + 1
      /\ p \in Profile /\ p \in All
      /\ stack' \in Seq(All) /\ scopes' \in Seq(Profile)
      /\ Len(stack') = Len(stack) - 1 /\ Len(scopes') = Len(scopes) - 1
      /\ (\A i \in 1..(Len(stack) - 1) : stack'[i] = stack[i])
      /\ (\A i \in 1..(Len(scopes) - 1) : scopes'[i] = scopes[i])
  BY <1>1, <1>2, <1>3, FrontProperties DEF TypeOK, StackMirrorsScopes
<1>5. Front(stack) # <<>> /\ b \in All /\ LastOf(stack)' = b
  <2>1. Front(stack) # <<>>
    BY <1>3, <1>4, EmptySeq
  <2> QED
    BY <1>3, <1>4, <2>1, FrontProperties DEF LastOf
<1>6. /\ val \in [All -> Fields] /\ now \in 0..MaxTime
      /\ \A q \in All : TimesOf(now, val[q], q = p)
  BY <1>2, TimesExpand
<1>7. now \in Nat /\ now \in Int
  BY <1>1, <1>6
<1>8. /\ val' \in [All -> Fields]
      /\ \A q \in All : StopMakes(now, val[q], val'[q], p, q, b)
  BY <1>3, <1>4, <1>5, <1>6, <1>7, StoppedEffect
<1>9. \A q \in All : Nesting(q)' = IF q = p THEN Nesting(q) - 1 ELSE Nesting(q)
  <2> TAKE q \in All
  <2>1. scopes \in Seq(Profile)
    BY DEF TypeOK
  <2>2. Cardinality(Places(scopes', q)) =
          IF q = p THEN Cardinality(Places(scopes, q)) - 1
          ELSE Cardinality(Places(scopes, q))
    BY <1>2, <1>3, <2>1, PlacesFront
  <2> QED
    BY <1>1, <1>4, <2>2 DEF Nesting, ScopesOf, Places
<1> HIDE DEF p, b
<1>10. \A q \in All : TimesOf(now, val'[q], q = b)
  <2> TAKE q \in All
  <2>1. val[q] \in Fields /\ val'[q] \in Fields
    BY <1>6, <1>8
  <2> QED
    BY <1>6, <1>7, <1>8, <2>1, StopKeepsTimes
<1>11. /\ val' \in [All -> ValRecord]
       /\ \A q \in All :
              /\ val'[q].lastTime <= now /\ val'[q].lastIntTime <= now
              /\ val'[q].sumTime <= IF val'[q].inProgress > 0 THEN val'[q].lastTime ELSE now
              /\ val'[q].sumIntTime <= IF q = b THEN val'[q].lastIntTime ELSE now
  BY <1>6, <1>8, <1>10, TimesCollect
<1>12. TypeOK'
  BY <1>3, <1>4, <1>6, <1>11 DEF TypeOK, ValRecord
<1>13. TimesBounded'
  BY <1>3, <1>5, <1>11 DEF TimesBounded
<1>14. StackMirrorsScopes'
  BY <1>4 DEF StackMirrorsScopes
<1>15. NestingExact'
  <2>1. ASSUME NEW q \in All
        PROVE  /\ val'[q].inProgress <= Nesting(q)'
               /\ q \notin lost => val'[q].inProgress = Nesting(q)'
    <3> DEFINE was == val[q].inProgress
               is == val'[q].inProgress
    <3>1. was \in Int /\ is = IF q = p THEN was - 1 ELSE was
      BY <1>6, <1>8 DEF StopMakes, Fields
    <3>2. was <= Nesting(q) /\ (q \notin lost => was = Nesting(q)) /\ Nesting(q) \in Nat
      BY NestingCounts DEF NestingExact
    <3>3. Nesting(q)' = IF q = p THEN Nesting(q) - 1 ELSE Nesting(q)
      BY <1>9
    <3> HIDE DEF was, is
    <3>4. is <= Nesting(q)' /\ (q \notin lost => is = Nesting(q)')
      BY <3>1, <3>2, <3>3
    <3> QED
      BY <3>4 DEF is
  <2> QED
    BY <1>3, <2>1 DEF NestingExact
<1>16. Clock!Leave
  <2>1. ASSUME NEW q \in All
        PROVE  /\ Measured(now, val'[q]) = Measured(now, val[q])
               /\ MeasuredOwn(now, val'[q], q = b) = MeasuredOwn(now, val[q], q = p)
    <3>1. val[q] \in Fields /\ val'[q] \in Fields
      BY <1>6, <1>8
    <3> QED
      BY <1>6, <1>7, <1>8, <3>1, StopKeepsMeasured
  <2>2. /\ measured = Masked(lost, Totals(now, val))
        /\ measuredOwn = Masked(lost, Owns(now, val, p))
    BY <1>2, ClockView
  <2>3. /\ measured' = Masked(lost, Totals(now, val'))
        /\ measuredOwn' = Masked(lost, Owns(now, val', b))
    BY <1>3, <1>5 DEF measured, measuredOwn, Measured, MeasuredOwn, Masked, Totals, Owns
  <2>4. Totals(now, val') = Totals(now, val) /\ Owns(now, val', b) = Owns(now, val, p)
    BY <2>1 DEF Totals, Owns
  <2> QED
    BY <1>2, <1>3, <2>2, <2>3, <2>4 DEF Clock!Leave, Front
<1> QED
  BY <1>3, <1>12, <1>13, <1>14, <1>15, <1>16 DEF NoAssertionFails

\* reset() of a profile, running or not, forgets what it measured and no more.
LEMMA ResetStep ==
  ASSUME ProfileInv, NEW p \in All, ResetVal(p)
  PROVE  ProfileInv' /\ Clock!Forget(p)
<1> USE DEF ProfileInv
<1>1. MaxTime \in Nat
  BY ConstantsAssumption
<1>2. /\ val' = [val EXCEPT ![p] = Zero]
      /\ lost' = IF p \in Open THEN lost \cup {p} ELSE lost \ {p}
      /\ now' = now /\ stack' = stack /\ scopes' = scopes /\ failed' = failed
  BY DEF ResetVal
<1>3. /\ val \in [All -> Fields] /\ now \in 0..MaxTime
      /\ \A q \in All : TimesOf(now, val[q], q = LastOf(stack))
  BY TimesExpand
<1>4. Zero \in Fields /\ Zero.inProgress = 0 /\ \A o \in BOOLEAN : TimesOf(now, Zero, o)
  BY <1>1, <1>3 DEF Zero, Fields, TimesOf
<1>5. /\ val' \in [All -> Fields]
      /\ \A q \in All : val'[q] = IF q = p THEN Zero ELSE val[q]
  BY <1>2, <1>3, <1>4
<1>6. \A q \in All : TimesOf(now, val'[q], q = LastOf(stack))
  BY <1>3, <1>4, <1>5
<1>7. TypeOK' /\ TimesBounded'
  <2>1. /\ val' \in [All -> ValRecord]
        /\ \A q \in All :
              /\ val'[q].lastTime <= now /\ val'[q].lastIntTime <= now
              /\ val'[q].sumTime <= IF val'[q].inProgress > 0 THEN val'[q].lastTime ELSE now
              /\ val'[q].sumIntTime <= IF q = LastOf(stack) THEN val'[q].lastIntTime ELSE now
    BY <1>3, <1>5, <1>6, TimesCollect
  <2>2. LastOf(stack)' = LastOf(stack)
    BY <1>2 DEF LastOf
  <2>3. TypeOK'
    BY <1>2, <1>3, <2>1 DEF TypeOK, ValRecord
  <2>4. TimesBounded'
    BY <1>2, <2>1, <2>2 DEF TimesBounded
  <2> QED
    BY <2>3, <2>4
<1>8. StackMirrorsScopes'
  BY <1>2 DEF StackMirrorsScopes
<1>9. NestingExact'
  <2>1. ASSUME NEW q \in All
        PROVE  /\ val'[q].inProgress <= Nesting(q)
               /\ q \notin lost' => val'[q].inProgress = Nesting(q)
    <3>1. Nesting(q) \in Nat /\ (q \in Open <=> Nesting(q) > 0)
      BY NestingCounts
    <3>2. CASE q = p
      <4>1. val'[q].inProgress = 0
        BY <1>4, <1>5, <3>2
      <4> QED
        BY <1>2, <3>1, <3>2, <4>1
    <3>3. CASE q # p
      BY <1>2, <1>5, <3>3 DEF NestingExact
    <3> QED
      BY <3>2, <3>3
  <2>2. \A q \in All : Nesting(q)' = Nesting(q)
    BY <1>2 DEF Nesting, ScopesOf
  <2> QED
    BY <2>1, <2>2 DEF NestingExact
<1>10. Clock!Forget(p)
  <2>1. /\ Clock!Open = Open
        /\ measured = Masked(lost, Totals(now, val))
        /\ measuredOwn = Masked(lost, Owns(now, val, LastOf(stack)))
    BY ClockView
  <2>2. LastOf(stack)' = LastOf(stack)
    BY <1>2 DEF LastOf
  <2>3. /\ measured' = Masked(lost', Totals(now, val'))
        /\ measuredOwn' = Masked(lost', Owns(now, val', LastOf(stack)))
    BY <1>2, <2>2 DEF measured, measuredOwn, Measured, MeasuredOwn, Masked, Totals, Owns
  <2>4. p \notin Open => p # LastOf(stack)
    BY ClockView, <2>1 DEF Clock!Innermost, Open
  <2>5. p \notin lost' =>
          Measured(now, Zero) = 0 /\ MeasuredOwn(now, Zero, p = LastOf(stack)) = 0
    BY <1>2, <2>4 DEF Measured, MeasuredOwn, Zero
  <2>6. measured' = [measured EXCEPT ![p] = 0]
    BY <1>2, <1>5, <2>1, <2>3, <2>5 DEF Masked, Totals
  <2>7. measuredOwn' = [measuredOwn EXCEPT ![p] = 0]
    BY <1>2, <1>5, <2>1, <2>3, <2>5 DEF Masked, Owns
  <2> QED
    BY <1>2, <2>1, <2>6, <2>7 DEF Clock!Forget
<1> QED
  BY <1>2, <1>7, <1>8, <1>9, <1>10 DEF NoAssertionFails

\* A stamp that passes ticks the clock.
LEMMA AdvanceStep ==
  ASSUME ProfileInv, Advance
  PROVE  ProfileInv' /\ Clock!Tick
<1> USE DEF ProfileInv
<1>1. MaxTime \in Nat
  BY ConstantsAssumption
<1>2. /\ now < MaxTime /\ now' = now + 1
      /\ val' = val /\ stack' = stack /\ scopes' = scopes /\ failed' = failed
      /\ lost' = lost
  BY DEF Advance
<1>3. /\ val \in [All -> Fields] /\ now \in 0..MaxTime
      /\ \A q \in All : TimesOf(now, val[q], q = LastOf(stack))
  BY TimesExpand
<1>4. TypeOK'
  BY <1>1, <1>2, <1>3 DEF TypeOK
<1>5. TimesBounded'
  <2>1. LastOf(stack)' = LastOf(stack)
    BY <1>2 DEF LastOf
  <2>2. ASSUME NEW q \in All PROVE TimesOf(now + 1, val[q], q = LastOf(stack))
    <3> DEFINE r == val[q]
    <3>1. r \in Fields /\ TimesOf(now, r, q = LastOf(stack)) /\ now \in Int
      BY <1>1, <1>3
    <3> HIDE DEF r
    <3>2. /\ r.inProgress \in Int /\ r.lastTime \in Int /\ r.sumTime \in Int
          /\ r.lastIntTime \in Int /\ r.sumIntTime \in Int
      BY <3>1 DEF Fields
    <3>3. TimesOf(now + 1, r, q = LastOf(stack))
      BY <3>1, <3>2 DEF TimesOf
    <3> QED
      BY <3>3 DEF r
  <2> QED
    BY <1>2, <2>1, <2>2 DEF TimesBounded, TimesOf
<1>6. StackMirrorsScopes' /\ NestingExact'
  BY <1>2 DEF StackMirrorsScopes, NestingExact, Nesting, ScopesOf
<1>7. Clock!Tick
  <2>1. ASSUME NEW q \in All
        PROVE  /\ Measured(now + 1, val[q]) = IF val[q].inProgress > 0
                 THEN Measured(now, val[q]) + 1 ELSE Measured(now, val[q])
               /\ MeasuredOwn(now + 1, val[q], q = LastOf(stack)) = IF q = LastOf(stack)
                 THEN MeasuredOwn(now, val[q], q = LastOf(stack)) + 1
                 ELSE MeasuredOwn(now, val[q], q = LastOf(stack))
    <3>1. val[q] \in Fields /\ now \in Nat /\ (q = LastOf(stack)) \in BOOLEAN
      BY <1>1, <1>3
    <3> QED
      BY <3>1, AdvanceMeasures
  <2>2. LastOf(stack)' = LastOf(stack)
    BY <1>2 DEF LastOf
  <2>3. /\ Clock!All = All /\ Clock!Innermost = LastOf(stack) /\ Clock!Open = Open
        /\ \A q \in All \ lost : q \in Open <=> val[q].inProgress > 0
        /\ measured = Masked(lost, Totals(now, val))
        /\ measuredOwn = Masked(lost, Owns(now, val, LastOf(stack)))
    BY ClockView
  <2>4. /\ measured' = Masked(lost, Totals(now + 1, val))
        /\ measuredOwn' = Masked(lost, Owns(now + 1, val, LastOf(stack)))
    BY <1>2, <2>2 DEF measured, measuredOwn, Measured, MeasuredOwn, Masked, Totals, Owns
  <2>5. measured' = [q \in All |-> IF q \in Open \ lost THEN measured[q] + 1 ELSE measured[q]]
    BY <2>1, <2>3, <2>4 DEF Masked, Totals
  <2>6. measuredOwn' = [q \in All |-> IF q \in {LastOf(stack)} \ lost
                                     THEN measuredOwn[q] + 1 ELSE measuredOwn[q]]
    BY <2>1, <2>3, <2>4 DEF Masked, Owns
  <2> QED
    BY <1>2, <2>3, <2>5, <2>6 DEF Clock!Tick
<1> QED
  BY <1>2, <1>4, <1>5, <1>6, <1>7 DEF NoAssertionFails

\* ProfileInv is inductive.
THEOREM ProfileInvHolds == Spec => []ProfileInv
<1>1. Init => ProfileInv
  BY InitEstablishes
<1>2. ProfileInv /\ [Next]_vars => ProfileInv'
  <2> SUFFICES ASSUME ProfileInv, [Next]_vars PROVE ProfileInv'
    OBVIOUS
  <2>1. ASSUME NEW p \in Profile, Start(p) PROVE ProfileInv'
    BY <2>1, StartStep
  <2>2. ASSUME NEW p \in All, ResetVal(p) PROVE ProfileInv'
    BY <2>2, ResetStep
  <2>3. CASE Stop
    BY <2>3, StopStep
  <2>4. CASE Advance
    BY <2>4, AdvanceStep
  <2>5. CASE UNCHANGED vars
    BY ZenonT(60), <2>5 DEF vars, ProfileInv, TypeOK, StackMirrorsScopes, NestingExact, Nesting,
                ScopesOf, TimesBounded, NoAssertionFails, LastOf
  <2> QED
    BY <2>1, <2>2, <2>3, <2>4, <2>5 DEF Next
<1> QED
  BY <1>1, <1>2, PTL DEF Spec

\* The types: no time leaves the time that has passed, whatever turns from a stamp into
\* a duration and back.
THEOREM ProfileTypeCorrect == Spec => []TypeOK
<1>1. ProfileInv => TypeOK
  BY DEF ProfileInv
<1> QED
  BY <1>1, ProfileInvHolds, PTL

\* ProfileGroup: GECO_ASSERT of stop() never fails for clients that nest their scopes.
THEOREM AssertionNeverFails == Spec => []NoAssertionFails
<1>1. ProfileInv => NoAssertionFails
  BY DEF ProfileInv
<1> QED
  BY <1>1, ProfileInvHolds, PTL

\* running() is TRUE of a profile only while one of its scopes is open, and as long as one
\* is, unless the profile was reset inside a scope and not since.
THEOREM RunningIsExact == Spec => []RunningExact
<1>1. ProfileInv => RunningExact
  <2> SUFFICES ASSUME ProfileInv, NEW p \in All
               PROVE  /\ val[p].inProgress > 0 => p \in Open
                      /\ p \in Open \ lost => val[p].inProgress > 0
    BY DEF RunningExact
  <2>1. Nesting(p) \in Nat /\ (p \in Open <=> Nesting(p) > 0)
    BY NestingCounts DEF ProfileInv
  <2>2. val[p].inProgress <= Nesting(p) /\ (p \notin lost => val[p].inProgress = Nesting(p))
    BY DEF ProfileInv, NestingExact
  <2>3. val[p].inProgress \in Int
    BY DEF ProfileInv, TypeOK
  <2> QED
    BY <2>1, <2>2, <2>3
<1> QED
  BY <1>1, ProfileInvHolds, PTL

\* The times that start() and stop() keep by hand are those of a clock that counts every
\* stamp once for each profile that has an open scope, and once as internal time; a reset
\* inside an open scope takes its time from the profile that is reset and from no other.
THEOREM ProfilesKeepTheClock == Spec => ImplementsClock
<1>1. Init => Clock!Init
  BY InitImplements
<1>2. ProfileInv /\ [Next]_vars => [Clock!Next]_Clock!cvars
  <2> SUFFICES ASSUME ProfileInv, [Next]_vars PROVE [Clock!Next]_Clock!cvars
    OBVIOUS
  <2>1. ASSUME NEW p \in Profile, Start(p) PROVE Clock!Next
    BY <2>1, StartStep DEF Clock!Next
  <2>2. ASSUME NEW p \in All, ResetVal(p) PROVE Clock!Next
    BY <2>2, ResetStep DEF Clock!Next, Clock!All, All
  <2>3. CASE Stop
    BY <2>3, StopStep DEF Clock!Next
  <2>4. CASE Advance
    BY <2>4, AdvanceStep DEF Clock!Next
  <2>5. CASE UNCHANGED vars
    BY <2>5 DEF vars, Clock!cvars, measured, measuredOwn, LastOf
  <2> QED
    BY <2>1, <2>2, <2>3, <2>4, <2>5 DEF Next
<1> QED
  BY <1>1, <1>2, ProfileInvHolds, PTL DEF Spec, ImplementsClock, Clock!Spec
=============================================================================
