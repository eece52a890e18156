-------------------------- MODULE ProfileGroupInv ---------------------------
(***************************************************************************)
(* The inductive invariant behind the properties of ProfileGroup, checked   *)
(* by TLC and proved in ProfileGroupProofs.                                 *)
(***************************************************************************)
EXTENDS ProfileGroup, FiniteSets

\* The group's stack is pRunningTime() and the profiles of the open scopes.
StackMirrorsScopes ==
  /\ Len(stack) = Len(scopes) + 1
  /\ stack[1] = RunningTime
  /\ \A i \in 1..Len(scopes) : stack[i + 1] = scopes[i]

\* inProgress_ counts the open scopes of a profile, and pRunningTime() is in one that never
\* ends.  reset() inside a scope leaves it too small, never too large.
ScopesOf(p) == {i \in 1..Len(scopes) : scopes[i] = p}
Nesting(p) == IF p = RunningTime THEN 1 ELSE Cardinality(ScopesOf(p))
NestingExact ==
  \A p \in All :
    /\ val[p].inProgress <= Nesting(p)
    /\ p \notin lost => val[p].inProgress = Nesting(p)

\* What a profile has measured fits in the time before its last start, and so in the
\* time that has passed; the same for its internal time and the last time it became
\* innermost.
TimesBounded ==
  \A p \in All :
    /\ val[p].lastTime <= now /\ val[p].lastIntTime <= now
    /\ val[p].sumTime <= IF val[p].inProgress > 0 THEN val[p].lastTime ELSE now
    /\ val[p].sumIntTime <= IF p = LastOf(stack) THEN val[p].lastIntTime ELSE now

\* All of it: the types, the stacks, the nesting and the times.
ProfileInv ==
  TypeOK /\ StackMirrorsScopes /\ NestingExact /\ TimesBounded /\ NoAssertionFails
=============================================================================
