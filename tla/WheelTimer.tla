----------------------------- MODULE WheelTimer -----------------------------
(***************************************************************************)
(* The timing wheels of src/common/ultils/geco-ds-wheel-timer.{h,cpp}:      *)
(* wtimers_t, WheelNum wheels of 2^WheelBit lists of timers, a bit mask per *)
(* wheel that tells its non-empty lists, and the list of expired timers.    *)
(*                                                                          *)
(* A list is the set of its timers: list::merge() orders the expired list   *)
(* by the timers' addresses, so any of them may come first.  A rotation of  *)
(* a mask is modular arithmetic on the numbers of its slots.                *)
(***************************************************************************)
EXTENDS Integers, FiniteSets

CONSTANTS
  Timer,     \* the wtimer_t objects
  WheelBit,  \* WHEEL_BIT
  WheelNum,  \* WHEEL_NUM
  MaxTime,   \* bound on the current time
  MaxExpires, \* bound on the times at which timers are to expire
  Timeouts,  \* the timeouts clients pass to add_timer
  Flags      \* the flags clients pass to init: sets of "repeat" and "abs"

ASSUME ConstantsAssumption ==
  /\ WheelBit \in Nat \ {0} /\ WheelNum \in Nat \ {0}
  /\ MaxTime \in Nat /\ MaxExpires \in Nat /\ Timeouts \subseteq Nat
  /\ Flags \subseteq SUBSET {"repeat", "abs"}

WHEEL_LEN == 2^WheelBit
TIMEOUT_MAX == 2^(WheelBit * WheelNum) - 1
Wheel == 0..(WheelNum - 1)
Slot == 0..(WHEEL_LEN - 1)
Jiffies(w) == 2^(WheelBit * w)   \* of one slot of wheel w

(* What exponents add up to, which the proofs cannot compute.               *)
ASSUME PowersAssumption ==
  /\ WHEEL_LEN \in Nat \ {0} /\ Jiffies(0) = 1
  /\ \A w \in 0..WheelNum : Jiffies(w) \in Nat \ {0}
  /\ \A w \in 0..WheelNum : \A v \in 0..(w - 1) :
       Jiffies(w) = Jiffies(w - v - 1) * WHEEL_LEN * Jiffies(v)

(* What wtimer_t::pending points to: a slot, the expired list (which follows *)
(* the slots in memory), or nothing.                                         *)
Slots == Wheel \X Slot
Expired == <<WheelNum, 0>>
NoList == <<-1, 0>>

VARIABLES
  list,      \* wtimer_t::pending, and the lists themselves
  expires,   \* wtimer_t::abs_expires
  interval,  \* wtimer_t::interval
  flags,     \* wtimer_t::flags
  bits,      \* wtimers_t::pending: the marked slots of each wheel
  curtime,   \* wtimers_t::curtime
  aborted    \* close() called abort()

vars == <<list, expires, interval, flags, bits, curtime, aborted>>

In(place) == {t \in Timer : list[t] = place}
OnWheel == {t \in Timer : list[t] \in Slots}

Larger(a, b) == IF a >= b THEN a ELSE b

(* The definitions named ...Without... or ...Always are faults seeded in the *)
(* definitions they precede: the model does not use them, and the properties *)
(* reject them.                                                              *)

SlotIdxWithoutMask(w, when) == (when \div Jiffies(w)) - (IF w = 0 THEN 0 ELSE 1)

(* get_wheel_idx and get_slot_idx.                                           *)
WheelIdx(timeout) ==
  CHOOSE w \in Wheel :
    /\ Jiffies(w) <= timeout
    /\ timeout < Jiffies(w + 1) \/ w = WheelNum - 1
SlotIdx(w, when) == ((when \div Jiffies(w)) - (IF w = 0 THEN 0 ELSE 1)) % WHEEL_LEN

-----------------------------------------------------------------------------
Init ==
  /\ list = [t \in Timer |-> NoList]
  /\ expires = [t \in Timer |-> 0]
  /\ interval = [t \in Timer |-> 0]
  /\ flags = [t \in Timer |-> {}]
  /\ bits = [w \in Wheel |-> {}]
  /\ curtime = 0
  /\ aborted = FALSE

(* wtimer_t::init(flags), before the timer is added.                         *)
InitTimer(t, f) ==
  /\ list[t] = NoList
  /\ flags' = [flags EXCEPT ![t] = f]
  /\ expires' = [expires EXCEPT ![t] = 0]
  /\ interval' = [interval EXCEPT ![t] = 0]
  /\ UNCHANGED <<list, bits, curtime, aborted>>

BitsWithoutAlways(t) == [w \in Wheel |-> {s \in bits[w] : list[t] # <<w, s>>}]

(* The masks after stop_timer: the bit of a slot that is now empty is        *)
(* cleared.                                                                  *)
BitsWithout(t) ==
  [w \in Wheel |-> {s \in bits[w] : list[t] = <<w, s>> => In(<<w, s>>) # {t}}]

(* sche_timer: the timer leaves its list and goes where `when` puts it.      *)
Schedule(t, when) ==
  LET w == WheelIdx(when - curtime)
      place == IF when > curtime THEN <<w, SlotIdx(w, when)>> ELSE Expired
  IN
  /\ when <= MaxExpires
  /\ expires' = [expires EXCEPT ![t] = when]
  /\ list' = [list EXCEPT ![t] = place]
  /\ bits' = [v \in Wheel |->
       BitsWithout(t)[v] \cup (IF place[1] = v THEN {place[2]} ELSE {})]

AddTimer(t, timeout) ==
  /\ interval' = IF "repeat" \in flags[t]
                   THEN [interval EXCEPT ![t] = Larger(1, timeout)] ELSE interval
  /\ Schedule(t, IF "abs" \in flags[t] THEN timeout ELSE curtime + timeout)
  /\ UNCHANGED <<flags, curtime, aborted>>

StopTimer(t) ==
  /\ list' = [list EXCEPT ![t] = NoList]
  /\ bits' = BitsWithout(t)
  /\ UNCHANGED <<expires, interval, flags, curtime, aborted>>

NextFiringWithoutPhase(t) ==
  IF expires[t] + interval[t] > curtime THEN expires[t] + interval[t]
  ELSE curtime + interval[t]

(* get_expired_timer, and readd_timer for a repeating timer: if it missed    *)
(* its next firing, it is scheduled at the next multiple of its interval.    *)
NextFiring(t) ==
  LET next == expires[t] + interval[t] IN
  IF next > curtime THEN next
  ELSE curtime + (interval[t] - ((curtime - next) % interval[t]))

GetExpiredTimer(t) ==
  /\ t \in In(Expired)
  /\ IF "repeat" \in flags[t] /\ interval[t] > 0
       THEN Schedule(t, NextFiring(t))
       ELSE list' = [list EXCEPT ![t] = NoList] /\ UNCHANGED <<expires, bits>>
  /\ UNCHANGED <<interval, flags, curtime, aborted>>

(* The n slots from this one on, and this one with the n before it: what    *)
(* update() gets with rotl() and rotr().                                     *)
SlotsFrom(slot, n) == {(slot + i) % WHEEL_LEN : i \in 0..(n - 1)}
SlotsUpTo(slot, n) == {(slot - i) % WHEEL_LEN : i \in 0..n}

PassedWithoutNew(w, abstime) ==
  SlotsFrom(curtime \div Jiffies(w), (abstime - curtime) \div Jiffies(w))

(* update(abstime).  Wheel w has ticked Ticks(w) times, at least once if it  *)
(* is reached; the slots it passed, the old and the new one included, are    *)
(* Passed(w).  A wheel is reached if those below passed their slot 0.        *)
Ticks(w, abstime) ==
  Larger(abstime - curtime, IF w = 0 THEN 0 ELSE Jiffies(w)) \div Jiffies(w)
Passed(w, abstime) ==
  LET n == Ticks(w, abstime)
      oslot == curtime \div Jiffies(w)
      nslot == abstime \div Jiffies(w)
  IN IF n >= WHEEL_LEN THEN Slot
     ELSE SlotsFrom(oslot, n) \cup SlotsUpTo(nslot, n)
Reached(w, abstime) == \A v \in 0..(w - 1) : 0 \in Passed(v, abstime)

Update(abstime) ==
  LET swept == [w \in Wheel |-> IF Reached(w, abstime)
                                  THEN bits[w] \cap Passed(w, abstime) ELSE {}]
  IN
  /\ curtime' = abstime
  /\ list' = [t \in Timer |-> IF \E w \in Wheel : \E s \in swept[w] : list[t] = <<w, s>>
                                THEN Expired ELSE list[t]]
  /\ bits' = [w \in Wheel |-> bits[w] \ swept[w]]
  /\ UNCHANGED <<expires, interval, flags, aborted>>

(* reset(): the test that guards the clearing of the expired list reads a    *)
(* list outside the wheels, so it may come out either way.                   *)
Reset(clears) ==
  /\ list' = [t \in Timer |-> IF list[t] = Expired /\ ~clears THEN Expired ELSE NoList]
  /\ bits' = [w \in Wheel |-> {}]
  /\ UNCHANGED <<expires, interval, flags, curtime>>

(* close(): reset(), and abort() if a timer is left.                         *)
Close(clears) ==
  /\ Reset(clears)
  /\ aborted' = (In(Expired) # {} /\ ~clears)

-----------------------------------------------------------------------------
IntervalOfWithoutOffset(w) ==
  LET slot == curtime \div Jiffies(w)
      distance == {(s - slot) % WHEEL_LEN : s \in bits[w]}
      tzeros == CHOOSE d \in distance : \A e \in distance : d <= e
  IN (tzeros + (IF w = 0 THEN 0 ELSE 1)) * Jiffies(w)

IntervalOfWithoutTick(w) ==
  LET slot == curtime \div Jiffies(w)
      distance == {(s - slot) % WHEEL_LEN : s \in bits[w]}
      tzeros == CHOOSE d \in distance : \A e \in distance : d <= e
  IN tzeros * Jiffies(w) - (curtime % Jiffies(w))

(* get_interval() and timout(): how long the caller may wait.  NoTimeout is  *)
(* the largest value of timeout_t.                                           *)
IntervalOf(w) ==
  LET slot == curtime \div Jiffies(w)
      distance == {(s - slot) % WHEEL_LEN : s \in bits[w]}
      tzeros == CHOOSE d \in distance : \A e \in distance : d <= e
  IN (tzeros + (IF w = 0 THEN 0 ELSE 1)) * Jiffies(w) - (curtime % Jiffies(w))

PendingWheels == {w \in Wheel : bits[w] # {}}
GetInterval ==
  CHOOSE i \in {IntervalOf(w) : w \in PendingWheels} :
    \A w \in PendingWheels : i <= IntervalOf(w)

Next ==
  /\ ~aborted
  /\ \/ \E t \in Timer, f \in Flags : InitTimer(t, f)
     \/ \E t \in Timer, timeout \in Timeouts : AddTimer(t, timeout)
     \/ \E t \in Timer : StopTimer(t) \/ GetExpiredTimer(t)
     \/ \E abstime \in curtime..MaxTime : Update(abstime)
     \/ \E clears \in BOOLEAN : Close(clears)

Spec == Init /\ [][Next]_vars

-----------------------------------------------------------------------------
\* The type invariant.
TypeOK ==
  /\ list \in [Timer -> Slots \cup {Expired, NoList}]
  /\ expires \in [Timer -> Nat] /\ interval \in [Timer -> Nat]
  /\ flags \in [Timer -> SUBSET {"repeat", "abs"}]
  /\ bits \in [Wheel -> SUBSET Slot]
  /\ curtime \in Nat
  /\ aborted \in BOOLEAN

\* A slot is marked in the mask of its wheel exactly when its list is not empty:
\* update() and get_interval() see the masks only.
BitsExact == \A w \in Wheel, s \in Slot : s \in bits[w] <=> In(<<w, s>>) # {}

\* A timer is in the slot of its expiry, which its wheel has not reached; all but those on
\* the last wheel expire within a turn of theirs.
PlacesExact ==
  \A t \in OnWheel :
    LET w == list[t][1] IN
    /\ list[t][2] = SlotIdx(w, expires[t])
    /\ curtime \div Jiffies(w) < expires[t] \div Jiffies(w)
    /\ w < WheelNum - 1 => expires[t] < curtime + Jiffies(w + 1)

\* Only a repeating timer has an interval.
IntervalsRepeat == \A t \in Timer : interval[t] > 0 => "repeat" \in flags[t]

\* The inductive invariant.
WheelInv == BitsExact /\ PlacesExact /\ IntervalsRepeat

\* No timer stays on a wheel once its time has come (test-time.cc, "missed timeout").
NothingMissed == \A t \in OnWheel : expires[t] > curtime

\* get_interval(): "We should never return a timeout larger than the lowest actual
\* timeout"; and a caller that waits as long as it says makes progress: the wait is not
\* zero unless a timer has expired.
IntervalIsSafe ==
  \A t \in OnWheel : 0 < GetInterval /\ GetInterval <= expires[t] - curtime

\* A repeating timer keeps its phase however late it is collected: it is scheduled at
\* its first multiple after both its last firing and now.
RepeatKeepsPhase ==
  [][\A t \in Timer : GetExpiredTimer(t) /\ interval[t] > 0 =>
       /\ expires'[t] > curtime /\ expires'[t] > expires[t]
       /\ (expires'[t] - expires[t]) % interval[t] = 0
       /\ expires'[t] - interval[t] <= Larger(curtime, expires[t])]_vars

\* test-time.cc: no timer expires before its time.
NotEarly == \A t \in In(Expired) : expires[t] <= curtime

\* get_interval(): "Our timeout accuracy could be off by 2^(N*M)-1 units where N is the
\* wheel number and M is WHEEL_BIT": while no timeout is larger than TIMEOUT_MAX, it is
\* less than the lowest actual timeout by no more.
IntervalIsAccurate ==
  OnWheel # {} /\ (\A t \in OnWheel : expires[t] - curtime <= TIMEOUT_MAX) =>
    \E t \in OnWheel : expires[t] - curtime - GetInterval < Jiffies(WheelNum - 1)

=============================================================================
