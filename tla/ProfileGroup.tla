---------------------------- MODULE ProfileGroup ----------------------------
(***************************************************************************)
(* ProfileVal and ProfileGroup of src/network/networkstats.{h,cpp}: nested  *)
(* profiles that keep the time since they were started and the internal     *)
(* time, that of the profiles started meanwhile taken out.                  *)
(*                                                                          *)
(* Clients start and stop profiles through ScopedProfile, so a stop is      *)
(* always for the innermost open scope.  The counts and quantities that     *)
(* stop() adds up are read by nothing here and are left out.  A client may   *)
(* reset a profile at any time, inside its open scopes too; no nominee of    *)
(* ProfileGroupResetter resets the whole group.                              *)
(***************************************************************************)
EXTENDS Integers, Sequences

CONSTANTS
  Profile,     \* the ProfileVals of the group,
  RunningTime, \* and the first one, pRunningTime()
  MaxTime,     \* bound on gettimestamp()
  MaxScopes    \* bound on the scopes that are open

ASSUME ConstantsAssumption ==
  RunningTime \notin Profile /\ MaxTime \in Nat /\ MaxScopes \in Nat

All == Profile \cup {RunningTime}

VARIABLES
  now,    \* gettimestamp()
  val,    \* the ProfileVals
  stack,  \* ProfileGroup::stack_
  scopes, \* the ScopedProfiles on the call stack, the innermost last
  lost,   \* the profiles whose last reset() was inside one of their open scopes
  failed  \* GECO_ASSERT in stop() failed

vars == <<now, val, stack, scopes, lost, failed>>

Zero == [inProgress |-> 0, lastTime |-> 0, sumTime |-> 0, lastIntTime |-> 0, sumIntTime |-> 0]

LastOf(s) == s[Len(s)]
Front(s) == SubSeq(s, 1, Len(s) - 1)

(* The group's constructor starts pRunningTime().                            *)
Init ==
  /\ now = 0
  /\ val = [p \in All |-> IF p = RunningTime THEN [Zero EXCEPT !.inProgress = 1] ELSE Zero]
  /\ stack = <<RunningTime>>
  /\ scopes = <<>>
  /\ lost = {}
  /\ failed = FALSE

(* gettimestamp() moves on.                                                  *)
Advance ==
  /\ now < MaxTime
  /\ now' = now + 1
  /\ UNCHANGED <<val, stack, scopes, lost, failed>>

(* lastIntTime turns from the time the profile became innermost into the     *)
(* internal time since then, which is added up.                              *)
Credited(v) ==
  [v EXCEPT !.lastIntTime = now - @, !.sumIntTime = @ + (now - v.lastIntTime)]

(* The definitions named ...Without... are faults seeded in the definitions  *)
(* they precede: the model does not use them, and the properties reject them. *)

(* Only the outermost start of a profile sets its start time, and only the   *)
(* matching stop adds to its time.                                           *)
Entered(v) ==
  [v EXCEPT !.inProgress = @ + 1, !.lastTime = IF v.inProgress = 0 THEN now ELSE @]

LeftWithoutNesting(v) ==
  [v EXCEPT !.inProgress = 0, !.lastTime = now - @, !.sumTime = @ + (now - v.lastTime)]

Left(v) ==
  IF v.inProgress = 1
    THEN [v EXCEPT !.inProgress = 0, !.lastTime = now - @, !.sumTime = @ + (now - v.lastTime)]
    ELSE [v EXCEPT !.inProgress = @ - 1]

StartedWithoutCredit(vals, p) ==
  [vals EXCEPT ![p] = [Entered(@) EXCEPT !.lastIntTime = now]]

(* start(): the profile that was innermost is credited.                      *)
Started(vals, p) ==
  LET entered == [vals EXCEPT ![p] = Entered(@)]
      credited == IF stack = <<>> THEN entered
                  ELSE [entered EXCEPT ![LastOf(stack)] = Credited(@)]
  IN [credited EXCEPT ![p].lastIntTime = now]

StoppedWithoutResume(p) == [val EXCEPT ![p] = Credited(Left(@))]

(* stop(): the profile is credited, and the one below starts to count again. *)
Stopped(p) ==
  LET below == Front(stack)
      stopped == [val EXCEPT ![p] = Credited(Left(@))]
  IN IF below = <<>> THEN stopped
     ELSE [stopped EXCEPT ![LastOf(below)].lastIntTime = now]

(* A ScopedProfile is constructed.                                           *)
Start(p) ==
  /\ Len(scopes) < MaxScopes
  /\ val' = Started(val, p)
  /\ stack' = Append(stack, p)
  /\ scopes' = Append(scopes, p)
  /\ UNCHANGED <<now, lost, failed>>

StopWithoutPop ==
  /\ scopes # <<>>
  /\ scopes' = Front(scopes)
  /\ failed' = (LastOf(stack) # LastOf(scopes))
  /\ val' = Stopped(LastOf(scopes))
  /\ UNCHANGED <<now, stack, lost>>

(* The innermost ScopedProfile is destroyed.  The time of the profile is     *)
(* added up before the assertion is evaluated.                               *)
Stop ==
  /\ scopes # <<>>
  /\ scopes' = Front(scopes)
  /\ IF LastOf(stack) = LastOf(scopes)
       THEN /\ val' = Stopped(LastOf(scopes))
            /\ stack' = Front(stack)
            /\ UNCHANGED failed
       ELSE /\ val' = [val EXCEPT ![LastOf(scopes)] = Left(@)]
            /\ failed' = TRUE
            /\ UNCHANGED stack
  /\ UNCHANGED <<now, lost>>

(* The profiles that have been entered and not left; pRunningTime() always.  *)
Open == {RunningTime} \cup {scopes[i] : i \in 1..Len(scopes)}

(* reset(), at any time: the nesting of the scopes that are open is          *)
(* forgotten, and they take theirs from the zero when they end.              *)
ResetVal(p) ==
  /\ val' = [val EXCEPT ![p] = Zero]
  /\ lost' = IF p \in Open THEN lost \cup {p} ELSE lost \ {p}
  /\ UNCHANGED <<now, stack, scopes, failed>>

Next ==
  /\ ~failed
  /\ \/ \E p \in Profile : Start(p)
     \/ Stop
     \/ \E p \in All : ResetVal(p)
     \/ Advance

Spec == Init /\ [][Next]_vars

-----------------------------------------------------------------------------
\* The type invariant.
TypeOK ==
  /\ now \in 0..MaxTime
  /\ val \in [All -> [inProgress : Int, lastTime : 0..MaxTime, sumTime : 0..MaxTime,
                      lastIntTime : 0..MaxTime, sumIntTime : 0..MaxTime]]
  /\ stack \in Seq(All) /\ scopes \in Seq(Profile) /\ lost \subseteq All
  /\ failed \in BOOLEAN

\* "Attempting to bridge starts and stops will trigger an assertion": clients that start
\* and stop in a stack-like fashion never trigger it.
NoAssertionFails == ~failed

\* running(): "start has been called more times than stop".  It is never TRUE of a profile
\* that has no open scope, and is TRUE of every profile that has one, except those that
\* were reset inside a scope and not since: reset() forgets the scopes that are open.
RunningExact ==
  \A p \in All :
    /\ val[p].inProgress > 0 => p \in Open
    /\ p \in Open \ lost => val[p].inProgress > 0

\* The times are those of ProfileClock, what is being measured included: recursion counts
\* once, "only one profile from a group can be accumulating internal time at once", and
\* no stamp is lost, except to a profile that is reset inside its own scope: what such a
\* profile says is masked until it is reset outside of them, and nothing else is.
measured ==
  [p \in All |->
     IF p \in lost THEN 0
     ELSE val[p].sumTime + (IF val[p].inProgress > 0 THEN now - val[p].lastTime ELSE 0)]
measuredOwn ==
  [p \in All |->
     IF p \in lost THEN 0
     ELSE val[p].sumIntTime + (IF p = LastOf(stack) THEN now - val[p].lastIntTime ELSE 0)]
Clock == INSTANCE ProfileClock WITH total <- measured, own <- measuredOwn
ImplementsClock == Clock!Spec
=============================================================================
