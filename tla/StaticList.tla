----------------------------- MODULE StaticList -----------------------------
(***************************************************************************)
(* The static linked list of src/common/ds/arrlist.h: an array whose        *)
(* components form two chains by their cur fields, the free components from *)
(* component 0 and the elements from component MAXSIZE - 1; 0 ends a chain. *)
(***************************************************************************)
EXTENDS Integers, FiniteSets, Sequences

CONSTANTS
  MAXSIZE,   \* the components of the array
  Elem,      \* ElemType
  NoElem     \* the data of a component that was never used

VARIABLES data, cur

vars == <<data, cur>>

Index == 0..(MAXSIZE - 1)
Free == 0
Head0 == MAXSIZE - 1

(* InitList.                                                                 *)
Init ==
  /\ data = [i \in Index |-> NoElem]
  /\ cur = [i \in Index |-> IF i < MAXSIZE - 2 THEN i + 1 ELSE 0]

(* The component reached from k by following cur: Walk(k)[n] in n steps.     *)
Walk(k) ==
  LET walk[n \in 0..MAXSIZE] == IF n = 0 THEN k ELSE cur[walk[n - 1]] IN walk

(* The chain that starts after component `head`, up to a 0.                  *)
ChainLength(head) ==
  CHOOSE n \in 0..(MAXSIZE - 1) :
    Walk(head)[n + 1] = 0 /\ \A i \in 1..n : Walk(head)[i] # 0
Chain(head) == [i \in 1..ChainLength(head) |-> Walk(head)[i]]

ChainEnds(head) == \E n \in 1..MAXSIZE : Walk(head)[n] = 0

ListLength == ChainLength(Head0)

-----------------------------------------------------------------------------
(* ListInsert(array, pos, e): Malloc_SLL takes the first free component i,   *)
(* which is linked after component k, the one before the pos-th.             *)
ListInsert(pos, e) ==
  LET i == cur[Free]
      k == Walk(Head0)[pos - 1]
  IN
  /\ i # 0
  /\ data' = [data EXCEPT ![i] = e]
  /\ cur' = [cur EXCEPT ![Free] = cur[i], ![i] = cur[k], ![k] = i]

(* ListDelete(array, pos): component j, the one after k, goes back to the    *)
(* free chain (Free_SLL); k is linked to what component pos is linked to.    *)
ListDelete(pos) ==
  LET k == Walk(Head0)[pos - 1]
      j == cur[k]
      unlinked == [cur EXCEPT ![k] = cur[pos]]
  IN
  /\ cur' = [unlinked EXCEPT ![j] = unlinked[Free], ![Free] = j]
  /\ UNCHANGED data

(* Both count the list first, and do not return if it has no end.            *)
Next ==
  /\ ChainEnds(Head0)
  /\ \/ \E pos \in 1..(ListLength + 1), e \in Elem : ListInsert(pos, e)
     \/ \E pos \in 1..ListLength : ListDelete(pos)

Spec == Init /\ [][Next]_vars

-----------------------------------------------------------------------------
\* The array is a list: ListInsert puts the element before the pos-th one, ListDelete
\* deletes the pos-th one.
elements == [i \in 1..ListLength |-> data[Chain(Head0)[i]]]
List == INSTANCE BoundedList WITH
  list <- elements, Capacity <- MAXSIZE - 2
ImplementsList == List!Spec
=============================================================================
