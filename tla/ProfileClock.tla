---------------------------- MODULE ProfileClock ----------------------------
(***************************************************************************)
(* What the profiles of one ProfileGroup (src/network/networkstats.h)       *)
(* measure: every stamp that passes counts once for each profile that has   *)
(* an open scope, however often it was entered, and once as internal time,  *)
(* for the profile of the innermost scope only.  A profile that is reset     *)
(* while it has an open scope measures nothing until it is reset while it    *)
(* has none; no other profile loses anything by that.                        *)
(***************************************************************************)
EXTENDS Naturals, Sequences

CONSTANTS
  Profile,     \* the profiles that clients enter
  RunningTime  \* the group's own profile, always entered

VARIABLES
  scopes, \* the open scopes, the innermost last
  total,  \* the time each profile has been entered
  own,    \* its internal time
  lost    \* the profiles whose last reset was inside an open scope of theirs

cvars == <<scopes, total, own, lost>>

All == Profile \cup {RunningTime}

Open == {RunningTime} \cup {scopes[i] : i \in 1..Len(scopes)}
Innermost == IF scopes = <<>> THEN RunningTime ELSE scopes[Len(scopes)]

Init ==
  /\ scopes = <<>>
  /\ total = [p \in All |-> 0]
  /\ own = [p \in All |-> 0]
  /\ lost = {}

Enter(p) == scopes' = Append(scopes, p) /\ UNCHANGED <<total, own, lost>>

Leave ==
  /\ scopes # <<>>
  /\ scopes' = SubSeq(scopes, 1, Len(scopes) - 1)
  /\ UNCHANGED <<total, own, lost>>

Tick ==
  /\ total' = [p \in All |-> IF p \in Open \ lost THEN total[p] + 1 ELSE total[p]]
  /\ own' = [p \in All |-> IF p \in {Innermost} \ lost THEN own[p] + 1 ELSE own[p]]
  /\ UNCHANGED <<scopes, lost>>

Forget(p) ==
  /\ total' = [total EXCEPT ![p] = 0]
  /\ own' = [own EXCEPT ![p] = 0]
  /\ lost' = IF p \in Open THEN lost \cup {p} ELSE lost \ {p}
  /\ UNCHANGED scopes

Next == (\E p \in Profile : Enter(p)) \/ Leave \/ Tick \/ \E p \in All : Forget(p)

Spec == Init /\ [][Next]_cvars
=============================================================================
