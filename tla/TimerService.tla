---------------------------- MODULE TimerService ----------------------------
(***************************************************************************)
(* What TimeQueueT (src/common/debugging/timer_queue_t.h) promises of its   *)
(* timers: they fire in the order of their due times, a repeating timer is  *)
(* due again one period later, a one-shot timer fires once, and a timer     *)
(* that was cancelled is gone at once.                                      *)
(***************************************************************************)
EXTENDS Integers

CONSTANTS Timer, TimeMod

VARIABLES phase, due, period

svars == <<phase, due, period>>

Init ==
  /\ phase = [t \in Timer |-> "idle"]
  /\ due = [t \in Timer |-> 0]
  /\ period = [t \in Timer |-> 0]

Arm(t, start, interval) ==
  /\ phase[t] = "idle"
  /\ phase' = [phase EXCEPT ![t] = "armed"]
  /\ due' = [due EXCEPT ![t] = start]
  /\ period' = [period EXCEPT ![t] = interval]

SetPeriod(t, interval) ==
  /\ phase[t] # "idle"
  /\ period' = [period EXCEPT ![t] = interval]
  /\ UNCHANGED <<phase, due>>

\* Only a timer that no other armed timer precedes fires.
Fire(t) ==
  /\ phase[t] = "armed"
  /\ \A u \in Timer : phase[u] = "armed" => due[t] <= due[u]
  /\ phase' = [phase EXCEPT ![t] = "firing"]
  /\ UNCHANGED <<due, period>>

\* Only a repeating timer is armed again.
Rearm(t) ==
  /\ phase[t] = "firing" /\ period[t] # 0
  /\ phase' = [phase EXCEPT ![t] = "armed"]
  /\ due' = [due EXCEPT ![t] = (due[t] + period[t]) % TimeMod]
  /\ UNCHANGED period

\* Cancelled, dropped, or a one-shot timer that has fired.
Disarm(t) ==
  /\ phase[t] # "idle"
  /\ phase' = [phase EXCEPT ![t] = "idle"]
  /\ due' = [due EXCEPT ![t] = 0]
  /\ period' = [period EXCEPT ![t] = 0]

TimeStamp == 0..(TimeMod - 1)

Next ==
  \E t \in Timer :
    \/ \E start \in TimeStamp, interval \in TimeStamp : Arm(t, start, interval)
    \/ \E interval \in TimeStamp : SetPeriod(t, interval)
    \/ Fire(t) \/ Rearm(t) \/ Disarm(t)

Spec == Init /\ [][Next]_svars
=============================================================================
