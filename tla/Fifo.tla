-------------------------------- MODULE Fifo --------------------------------
(***************************************************************************)
(* What spsc_queue_t (src/common/ds/spsc-queue.h) promises its two threads: *)
(* a bounded queue, whose elements are popped whole and in the order they   *)
(* were pushed.                                                             *)
(***************************************************************************)
EXTENDS Integers, Sequences

CONSTANTS Value, Capacity

VARIABLES
  queue,   \* the elements pushed and not popped
  offered, \* the element the producer has not yet pushed: a sequence of length 0 or 1
  taken    \* the last element popped: a sequence of length 0 or 1

fvars == <<queue, offered, taken>>

Init == queue = <<>> /\ offered = <<>> /\ taken = <<>>

Offer(v) == offered = <<>> /\ offered' = <<v>> /\ UNCHANGED <<queue, taken>>

Push ==
  /\ offered # <<>> /\ Len(queue) < Capacity
  /\ queue' = queue \o offered
  /\ offered' = <<>>
  /\ UNCHANGED taken

Pop ==
  /\ queue # <<>>
  /\ taken' = <<Head(queue)>>
  /\ queue' = Tail(queue)
  /\ UNCHANGED offered

Clear == queue' = <<>> /\ UNCHANGED <<offered, taken>>

Next == (\E v \in Value : Offer(v)) \/ Push \/ Pop \/ Clear

Spec == Init /\ [][Next]_fvars
=============================================================================
