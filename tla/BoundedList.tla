---------------------------- MODULE BoundedList -----------------------------
(***************************************************************************)
(* What the list of src/common/ds/arrlist.h promises: a sequence of at most *)
(* Capacity elements, where elements are inserted before the pos-th one and *)
(* the pos-th one is deleted.                                               *)
(***************************************************************************)
EXTENDS Integers, SequencesExt

CONSTANTS Elem, Capacity

VARIABLE list

Init == list = <<>>

Insert(pos, e) == Len(list) < Capacity /\ list' = InsertAt(list, pos, e)
Delete(pos) == list' = RemoveAt(list, pos)

Next ==
  \/ \E pos \in 1..(Len(list) + 1), e \in Elem : Insert(pos, e)
  \/ \E pos \in 1..Len(list) : Delete(pos)

Spec == Init /\ [][Next]_list
=============================================================================
