--------------------------- MODULE TimerQueueInv ---------------------------
(***************************************************************************)
(* The inductive invariants behind the properties of TimerQueue, checked by *)
(* TLC and proved in TimerQueueProofs.                                      *)
(***************************************************************************)
EXTENDS TimerQueue

Bottom == IF depth = 0 THEN NoFrame ELSE frame[1]

\* The shapes of the call stack when callbacks do not reenter: a queue call at the
\* bottom, the callback it makes, and the cancel that a handleTimeout makes.
StackShape ==
  /\ depth <= 3
  /\ depth = 1 => frame[1].kind \in {"process", "fired", "clear", "clearing", "release"}
  /\ depth >= 2 => /\ frame[1].kind \in {"fired", "clearing"}
                  /\ frame[2].node = frame[1].node
  /\ depth = 2 => \/ frame[2].kind = "release"
                 \/ (frame[2].kind = "timeout" /\ frame[1].kind = "fired")
  /\ depth = 3 => /\ frame[1].kind = "fired"
                 /\ frame[2].kind = "timeout" /\ frame[3].kind = "release"

\* Where the nodes are: in the heap, or with the call that popped them.
NodePlaces ==
  /\ \A n \in heap : node[n].state \in {"PENDING", "CANCELLED"}
  /\ \A n \in Node : node[n].state = "PENDING" => n \in heap
  /\ \A n \in Node : node[n].state = "EXECUTING" =>
                      Bottom.kind = "fired" /\ Bottom.node = n
  /\ Bottom.kind \in {"fired", "clearing"} =>
       /\ Bottom.node \in Node /\ Bottom.node \notin heap
       /\ node[Bottom.node].state \in
            IF Bottom.kind = "fired" THEN {"EXECUTING", "CANCELLED"} ELSE {"CANCELLED"}
  /\ TopKind = "release" =>
       /\ frame[depth].node \in Node
       /\ Cancelled(frame[depth].node)

\* numCancelled_ counts the cancelled nodes in the heap, and the one being processed;
\* not yet the one whose cancel is waiting for onRelease to return.
OutCounted ==
  IF Bottom.kind = "fired" /\ Cancelled(Bottom.node) THEN 1 ELSE 0
Uncounted == IF TopKind = "release" THEN 1 ELSE 0
CountInv == numCancelled = Cardinality(CancelledInHeap) + OutCounted - Uncounted

\* onRelease has been called for every cancelled node.
HeldNotCancelled == \A n \in held : ~Cancelled(n)

SafeInv == StackShape /\ NodePlaces /\ CountInv /\ HeldNotCancelled /\ NoAssertionFails

\* legal() knows the node that is out of the heap only through pProcessingNode_.
ProcessingInv ==
  /\ Bottom.kind = "fired" => processing = Bottom.node
  /\ Bottom.kind \notin {"fired", "process"} => processing = NoNode

\* A timer that fired and is not cancelled when handleTimeout has returned repeats.
FiredRepeats ==
  TopKind = "fired" /\ ~Cancelled(frame[depth].node) => node[frame[depth].node].interval # 0

\* The bound behind AtMostHalfCancelled, which a node being processed shifts by one.
HalfInv ==
  /\ Bottom.kind \in {"none", "process"} =>
       2 * Cardinality(CancelledInHeap) <= Cardinality(heap)
  /\ Bottom.kind = "fired" /\ TopKind # "release" =>
       2 * Cardinality(CancelledInHeap)
         <= Cardinality(heap) + (IF Cancelled(Bottom.node) THEN 0 ELSE 1)

\* A handle is held exactly while its node waits to fire or executes.
HeldInv == held = {n \in Node : Live(n)}

\* clear() may still make as many cancels as there are nodes left to cancel.
LiveInHeap == {n \in heap : ~Cancelled(n)}
ClearInv ==
  /\ Bottom.kind \in {"clear", "clearing"} => "clear" \in TopOps
  /\ Bottom.kind = "clear" => Cardinality(LiveInHeap) <= Bottom.arg
  /\ Bottom.kind = "clearing" => Cardinality(LiveInHeap) <= Bottom.arg - 1

ServiceInv == ProcessingInv /\ FiredRepeats /\ HalfInv /\ HeldInv /\ ClearInv /\ RegistrationsExact

QueueInv == SafeInv /\ ServiceInv
=============================================================================
