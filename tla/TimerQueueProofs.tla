-------------------------- MODULE TimerQueueProofs --------------------------
(***************************************************************************)
(* Theorems about the timer queue, for every set of nodes, handlers, times, *)
(* intervals and stack depth: first its types, counts and assertions; then  *)
(* what its clients rely on (handles are live, registrations exact, at most *)
(* half of the queue cancelled), and that it implements TimerService.  For  *)
(* these the callbacks must not reenter, and clear() must cancel what it    *)
(* deletes.                                                                 *)
(***************************************************************************)
EXTENDS TimerQueueInv, FiniteSetTheorems, TLAPS

-----------------------------------------------------------------------------
(* Type correctness.                                                         *)

\* Adding two time stamps modulo TimeMod gives a time stamp.
LEMMA ModRange == \A a, b \in TimeStamp : (a + b) % TimeMod \in TimeStamp
<1> SUFFICES ASSUME NEW a \in TimeStamp, NEW b \in TimeStamp
             PROVE  (a + b) % TimeMod \in TimeStamp
  OBVIOUS
<1>1. a + b \in Nat /\ TimeMod \in Nat /\ TimeMod > 0
  BY ConstantsAssumption DEF TimeStamp
<1> HIDE DEF TimeStamp
<1>2. \A c, d \in Nat : d > 0 => c % d \in 0..(d - 1)
  OBVIOUS
<1> QED
  BY <1>1, <1>2 DEF TimeStamp

\* The heap and the cancelled timers in it are finite, so that their counts are numbers.
LEMMA HeapFinite ==
  ASSUME heap \subseteq Node
  PROVE  /\ IsFiniteSet(heap) /\ Cardinality(heap) \in Nat
         /\ IsFiniteSet(CancelledInHeap) /\ Cardinality(CancelledInHeap) \in Nat
<1>1. IsFiniteSet(heap)
  BY FS_Subset, ConstantsAssumption
<1>2. IsFiniteSet(CancelledInHeap)
  BY <1>1, FS_Subset DEF CancelledInHeap
<1> QED
  BY <1>1, <1>2, FS_CardinalityType

\* The frames the actions build are frames.
LEMMA FrameTypes ==
  /\ NoFrame \in Frame
  /\ \A t \in TimeStamp : MakeFrame("process", NoNode, t) \in Frame
  /\ \A n \in Node, t \in TimeStamp : MakeFrame("fired", n, t) \in Frame
  /\ \A n \in Node : /\ MakeFrame("timeout", n, 0) \in Frame
                    /\ MakeFrame("release", n, 0) \in Frame
  /\ \A a \in Int : MakeFrame("clear", NoNode, a) \in Frame
  /\ \A n \in Node, a \in Int : MakeFrame("clearing", n, a) \in Frame
BY DEF Frame, NoFrame, MakeFrame

(* What the frame on top holds.                                              *)
LEMMA TopFrame ==
  ASSUME TypeOK
  PROVE  /\ \A kind \in NodeKinds :
              At(kind) => depth \in 1..MaxDepth /\ frame[depth].node \in Node
         /\ At("process") \/ At("fired") =>
              depth \in 1..MaxDepth /\ frame[depth].arg \in TimeStamp
         /\ At("clear") \/ At("clearing") =>
              depth \in 1..MaxDepth /\ frame[depth].arg \in Int
<1>1. depth > 0 => depth \in 1..MaxDepth /\ frame[depth] \in Frame
  BY ConstantsAssumption DEF TypeOK
<1> QED
  BY <1>1 DEF At, TopKind, Frame, NodeKinds

\* A free node is a node record.
LEMMA FreeNodeType == FreeNode \in NodeRecord
BY ConstantsAssumption DEF FreeNode, NodeRecord, States, TimeStamp

\* The constructor sets up a state of the right types.
LEMMA TypeInit == Init => TypeOK
<1> USE ConstantsAssumption
<1> SUFFICES ASSUME Init PROVE TypeOK
  OBVIOUS
<1>1. node \in [Node -> NodeRecord]
  BY FreeNodeType DEF Init
<1>2. frame \in [1..MaxDepth -> Frame]
  BY FrameTypes DEF Init
<1> QED
  BY <1>1, <1>2 DEF Init, TypeOK, TimeStamp, Outcomes

\* Pushing, popping and replacing frames keep a stack of frames.
LEMMA StackType ==
  ASSUME TypeOK, NEW f \in Frame, NEW g \in Frame,
         \/ Push(f)
         \/ depth > 0 /\ (Pop \/ Replace(f) \/ ReplacePush(f, g))
  PROVE  frame' \in [1..MaxDepth -> Frame] /\ depth' \in 0..MaxDepth
BY FrameTypes, ConstantsAssumption DEF TypeOK, Push, Pop, Replace, ReplacePush

\* Releasing a node keeps the types of what it changes.
LEMMA ReleaseType ==
  ASSUME TypeOK, NEW n \in Node, Release(n)
  PROVE  /\ node' \in [Node -> NodeRecord]
         /\ registered' \in [Handler -> Int]
         /\ held' \subseteq Node
<1>1. [node[n] EXCEPT !.state = "CANCELLED"] \in NodeRecord
  BY DEF TypeOK, NodeRecord, States
<1>2. node' \in [Node -> NodeRecord]
  BY <1>1 DEF TypeOK, Release
<1>3. registered' \in [Handler -> Int]
  <2> DEFINE g == node[n].handler
  <2>1. registered' = [registered EXCEPT ![g] = registered[g] - 1]
    BY DEF Release
  <2>2. CASE g \in Handler
    <3>1. registered[g] - 1 \in Int
      BY <2>2 DEF TypeOK
    <3> QED
      BY <2>1, <3>1 DEF TypeOK
  <2>3. CASE g \notin Handler
    BY <2>1, <2>3 DEF TypeOK
  <2> QED
    BY <2>2, <2>3
<1> QED
  BY <1>2, <1>3 DEF TypeOK, Release

\* So does deleting the timer process() has popped.
LEMMA DeleteProcessedType ==
  ASSUME TypeOK, NEW n \in Node, DeleteProcessed(n)
  PROVE  /\ node' \in [Node -> NodeRecord]
         /\ numCancelled' \in Int
         /\ failed' \in Outcomes
<1>1. node' \in [Node -> NodeRecord]
  BY FreeNodeType DEF TypeOK, DeleteProcessed
<1>2. numCancelled' \in Int
  <2>1. numCancelled \in Int
    BY DEF TypeOK
  <2>2. numCancelled' \in {numCancelled, numCancelled - 1}
    BY DEF DeleteProcessed
  <2> QED
    BY <2>1, <2>2
<1>3. failed' \in Outcomes
  BY DEF DeleteProcessed, Outcomes
<1> QED
  BY <1>1, <1>2, <1>3

\* Every step keeps the types.
LEMMA TypeNext ==
  ASSUME TypeOK, [Next]_vars
  PROVE  TypeOK'
<1> USE ConstantsAssumption
<1>1. ASSUME NEW n \in Node, NEW start \in Times, NEW interval \in Intervals,
             NEW h \in Handler, Add(n, start, interval, h)
      PROVE  TypeOK'
  <2>1. [state |-> "PENDING", time |-> start, interval |-> interval, handler |-> h]
          \in NodeRecord
    BY DEF NodeRecord, States, TimeStamp
  <2>2. node' \in [Node -> NodeRecord] /\ registered' \in [Handler -> Int]
    BY <1>1, <2>1 DEF TypeOK, Add
  <2> QED
    BY <1>1, <2>2 DEF TypeOK, Add
<1>2. ASSUME NEW n \in Node, NEW interval \in Intervals, SetInterval(n, interval)
      PROVE  TypeOK'
  <2>1. [node[n] EXCEPT !.interval = interval] \in NodeRecord
    BY DEF TypeOK, NodeRecord, TimeStamp
  <2> QED
    BY <1>2, <2>1 DEF TypeOK, SetInterval
<1>3. ASSUME NEW n \in Node, Cancel(n)
      PROVE  TypeOK'
  BY <1>3, ReleaseType, StackType, FrameTypes DEF TypeOK, Cancel
<1>4. ASSUME NEW now \in Times, Process(now)
      PROVE  TypeOK'
  <2>1. MakeFrame("process", NoNode, now) \in Frame
    BY FrameTypes DEF TimeStamp
  <2> QED
    BY <1>4, <2>1, StackType DEF TypeOK, Process
<1>5. ASSUME NEW call \in BOOLEAN, Clear(call)
      PROVE  TypeOK'
  <2>1. Cardinality(heap) \in Int
    BY HeapFinite DEF TypeOK
  <2> QED
    BY <1>5, <2>1, StackType, FrameTypes DEF TypeOK, Clear
<1>6. ASSUME EndCancel
      PROVE  TypeOK'
  <2> DEFINE n == frame[depth].node
             count == numCancelled + 1
             purged == IF count * 2 > Cardinality(heap) THEN CancelledInHeap ELSE {}
  <2>1. Cardinality(purged) \in Nat
    BY HeapFinite, FS_EmptySet DEF TypeOK
  <2>2. node' \in [Node -> NodeRecord]
    <3>1. ASSUME NEW m \in Node
          PROVE  [node[m] EXCEPT !.handler = NoHandler] \in NodeRecord
      BY DEF TypeOK, NodeRecord
    <3>2. CASE node[n].state = "FREE"
      BY <1>6, <3>2 DEF TypeOK, EndCancel
    <3>3. CASE node[n].state # "FREE"
      <4>1. node' = [m \in Node |->
                       IF m \in purged THEN FreeNode
                       ELSE IF m = n THEN [node[n] EXCEPT !.handler = NoHandler]
                       ELSE node[m]]
        BY <1>6, <3>3 DEF EndCancel
      <4> HIDE DEF purged, n
      <4>2. \A m \in Node : node[m] \in NodeRecord
        BY DEF TypeOK
      <4> QED
        BY <3>1, <4>1, <4>2, FreeNodeType
    <3> QED
      BY <3>2, <3>3
  <2>3. numCancelled' \in Int /\ failed' \in Outcomes /\ heap' \subseteq Node
    <3>1. count - Cardinality(purged) \in Int
      BY <2>1 DEF TypeOK
    <3>2. CASE node[n].state = "FREE"
      BY <1>6, <3>2 DEF TypeOK, EndCancel, Outcomes
    <3>3. CASE node[n].state # "FREE"
      <4>1. /\ heap' = heap \ purged
            /\ numCancelled' = count - Cardinality(purged)
            /\ failed' \in {"assertion in purgeCancelledNodes", "none"}
        BY <1>6, <3>3 DEF EndCancel
      <4> QED
        BY <3>1, <4>1 DEF TypeOK, Outcomes
    <3> QED
      BY <3>2, <3>3
  <2>4. depth > 0 /\ Pop
    BY <1>6 DEF EndCancel, At
  <2> QED
    BY <1>6, <2>2, <2>3, <2>4, StackType, FrameTypes DEF TypeOK, EndCancel
<1>7. ASSUME TimeoutReturns
      PROVE  TypeOK'
  <2> DEFINE n == frame[depth].node
  <2>1. depth > 0 /\ n \in Node
    BY <1>7, TopFrame DEF TimeoutReturns, NodeKinds, At
  <2>2. CASE node[n].interval = 0 /\ ~Cancelled(n)
    BY <1>7, <2>1, <2>2, ReleaseType, StackType, FrameTypes
      DEF TypeOK, TimeoutReturns
  <2>3. CASE ~(node[n].interval = 0 /\ ~Cancelled(n))
    BY <1>7, <2>1, <2>3, StackType, FrameTypes DEF TypeOK, TimeoutReturns
  <2> QED
    BY <2>2, <2>3
<1>8. ASSUME NEW n \in Node, ProcessCancelled(n)
      PROVE  TypeOK'
  BY <1>8, DeleteProcessedType DEF TypeOK, ProcessCancelled
<1>9. ASSUME NEW n \in Node, ProcessDue(n)
      PROVE  TypeOK'
  <2>1. [node[n] EXCEPT !.state = "EXECUTING"] \in NodeRecord
    BY DEF TypeOK, NodeRecord, States
  <2>2. depth > 0 /\ frame[depth].arg \in TimeStamp
    BY <1>9, TopFrame DEF ProcessDue, At
  <2> QED
    BY <1>9, <2>1, <2>2, StackType, FrameTypes DEF TypeOK, ProcessDue
<1>10. ASSUME FinishFired
       PROVE  TypeOK'
  <2> DEFINE n == frame[depth].node
  <2>0. depth > 0 /\ frame[depth].arg \in TimeStamp /\ n \in Node
    BY <1>10, TopFrame DEF FinishFired, NodeKinds, At
  <2>1. frame' \in [1..MaxDepth -> Frame] /\ depth' \in 0..MaxDepth
    BY <1>10, <2>0, StackType, FrameTypes DEF FinishFired
  <2>2. CASE Cancelled(n)
    BY <1>10, <2>0, <2>1, <2>2, DeleteProcessedType DEF TypeOK, FinishFired
  <2>3. CASE ~Cancelled(n)
    <3>1. (node[n].time + node[n].interval) % TimeMod \in TimeStamp
      BY <2>0, ModRange DEF TypeOK, NodeRecord, TimeStamp
    <3> DEFINE rearmed == [node[n] EXCEPT !.state = "PENDING",
                             !.time = (node[n].time + node[n].interval) % TimeMod]
    <3>2. node' = [node EXCEPT ![n] = rearmed] /\ heap' = heap \cup {n}
      BY <1>10, <2>3 DEF FinishFired
    <3>3. UNCHANGED <<numCancelled, processing, lastProcessTime, registered, held, failed>>
      BY <1>10, <2>3 DEF FinishFired
    <3>4. node[n] \in NodeRecord
      BY <2>0 DEF TypeOK
    <3> HIDE DEF n
    <3>5. rearmed \in NodeRecord
      BY <3>1, <3>4 DEF NodeRecord, States
    <3> HIDE DEF rearmed
    <3>6. node' \in [Node -> NodeRecord] /\ heap' \subseteq Node
      BY <2>0, <3>2, <3>5 DEF TypeOK
    <3> QED
      BY <2>1, <3>3, <3>6 DEF TypeOK
  <2> QED
    BY <2>2, <2>3
<1>11. ASSUME ProcessReturns
       PROVE  TypeOK'
  <2>1. frame' \in [1..MaxDepth -> Frame] /\ depth' \in 0..MaxDepth
    BY <1>11, StackType, FrameTypes DEF ProcessReturns, At
  <2> QED
    BY <1>11, <2>1, TopFrame DEF TypeOK, ProcessReturns
<1>12. ASSUME NEW n \in Node, ClearCancel(n)
       PROVE  TypeOK'
  <2>1. depth > 0 /\ frame[depth].arg \in Int
    BY <1>12, TopFrame DEF ClearCancel, At
  <2>2. frame' \in [1..MaxDepth -> Frame] /\ depth' \in 0..MaxDepth
    BY <1>12, <2>1, StackType, FrameTypes DEF ClearCancel
  <2> QED
    BY <1>12, <2>2, ReleaseType DEF TypeOK, ClearCancel
<1>13. ASSUME NEW n \in Node, ClearDelete(n)
       PROVE  TypeOK'
  BY <1>13, FreeNodeType DEF TypeOK, ClearDelete
<1>14. ASSUME ClearCancelled
       PROVE  TypeOK'
  <2>1. depth > 0 /\ frame[depth].arg \in Int /\ frame[depth].node \in Node
    BY <1>14, TopFrame DEF ClearCancelled, NodeKinds, At
  <2>2. frame' \in [1..MaxDepth -> Frame] /\ depth' \in 0..MaxDepth
    BY <1>14, <2>1, StackType, FrameTypes DEF ClearCancelled
  <2> QED
    BY <1>14, <2>1, <2>2, FreeNodeType DEF TypeOK, ClearCancelled
<1>15. ASSUME ClearReturns
       PROVE  TypeOK'
  <2>1. frame' \in [1..MaxDepth -> Frame] /\ depth' \in 0..MaxDepth
    BY <1>15, StackType, FrameTypes DEF ClearReturns, At
  <2> QED
    BY <1>15, <2>1 DEF TypeOK, ClearReturns
<1>16. ASSUME UNCHANGED vars
       PROVE  TypeOK'
  BY <1>16 DEF TypeOK, vars
<1> QED
  BY <1>1, <1>2, <1>3, <1>4, <1>5, <1>6, <1>7, <1>8, <1>9, <1>10, <1>11, <1>12,
     <1>13, <1>14, <1>15, <1>16
    DEF Next, ClientCall, CallbackReturns, QueueStep

\* Every variable of the timer queue keeps its type, whatever its clients call.
THEOREM TypeCorrect == Spec => []TypeOK
BY TypeInit, TypeNext, PTL DEF Spec

-----------------------------------------------------------------------------
(* No assertion fails, when callbacks do not reenter.                        *)

\* The constructor establishes the inductive invariant.
LEMMA SafeInit == Init => SafeInv
<1> SUFFICES ASSUME Init PROVE SafeInv
  OBVIOUS
<1>1. Bottom = NoFrame /\ TopKind = "none"
  BY DEF Init, Bottom, TopKind
<1>2. CancelledInHeap = {} /\ Cardinality(CancelledInHeap) = 0
  BY FS_EmptySet DEF Init, CancelledInHeap
<1>3. CountInv
  BY <1>1, <1>2 DEF Init, CountInv, OutCounted, Uncounted, NoFrame
<1>4. StackShape
  BY DEF Init, StackShape
<1>5. NodePlaces
  BY <1>1 DEF Init, NodePlaces, NoFrame, FreeNode
<1> QED
  BY <1>3, <1>4, <1>5 DEF Init, SafeInv, HeldNotCancelled, NoAssertionFails

\* add() keeps it: a pending timer is not cancelled and in the heap only.
LEMMA SafeAdd ==
  ASSUME TypeOK, SafeInv,
         NEW n \in Node, NEW start \in Times, NEW interval \in Intervals,
         NEW h \in Handler, Add(n, start, interval, h)
  PROVE  SafeInv'
<1>0. UNCHANGED <<Bottom, TopKind, frame, depth, numCancelled, failed>>
  BY DEF Add, Bottom, TopKind
<1>1. n \notin heap /\ node[n].state = "FREE"
  BY DEF Add, SafeInv, NodePlaces
<1>2. \A m \in Node : m # n => node'[m] = node[m]
  BY DEF Add, TypeOK
<1>3. node'[n].state = "PENDING" /\ heap' = heap \cup {n}
  BY DEF Add, TypeOK
<1>4. CancelledInHeap' = CancelledInHeap
  BY <1>1, <1>2, <1>3 DEF CancelledInHeap, Cancelled, TypeOK
<1>5. NodePlaces'
  BY <1>0, <1>1, <1>2, <1>3 DEF SafeInv, NodePlaces, Cancelled, TypeOK
<1>6. OutCounted' = OutCounted
  BY <1>0, <1>1, <1>2 DEF SafeInv, NodePlaces, OutCounted, Cancelled
<1>7. CountInv'
  BY <1>0, <1>4, <1>6 DEF SafeInv, CountInv, Uncounted
<1>8. HeldNotCancelled'
  BY <1>2, <1>3 DEF Add, SafeInv, HeldNotCancelled, Cancelled, TypeOK
<1> QED
  BY <1>0, <1>5, <1>7, <1>8 DEF SafeInv, StackShape, NoAssertionFails

\* setInterval changes no state and no count.
LEMMA SafeSetInterval ==
  ASSUME TypeOK, SafeInv,
         NEW n \in Node, NEW interval \in Intervals, SetInterval(n, interval)
  PROVE  SafeInv'
<1>0. UNCHANGED <<Bottom, TopKind, frame, depth, heap, held, numCancelled, failed>>
  BY DEF SetInterval, Bottom, TopKind
<1>1. \A m \in Node : node'[m].state = node[m].state
  BY DEF SetInterval, TypeOK, NodeRecord
<1>2. CancelledInHeap' = CancelledInHeap
  BY <1>0, <1>1 DEF CancelledInHeap, Cancelled, TypeOK
<1>3. OutCounted' = OutCounted
  BY <1>0, <1>1 DEF SafeInv, NodePlaces, OutCounted, Cancelled
<1>4. NodePlaces'
  BY <1>0, <1>1 DEF SafeInv, NodePlaces, Cancelled, TypeOK
<1> QED
  BY <1>0, <1>1, <1>2, <1>3, <1>4
    DEF SafeInv, StackShape, CountInv, Uncounted, HeldNotCancelled, Cancelled,
        NoAssertionFails, TypeOK

(* The stack when client code, process() or clear() runs on top of it.       *)
LEMMA Contexts ==
  ASSUME TypeOK, SafeInv
  PROVE  /\ TopKind = "none" => depth = 0
         /\ TopKind = "timeout" => depth = 2 /\ frame[1].kind = "fired"
         /\ TopKind \in {"process", "fired", "clear", "clearing"} => depth = 1
         /\ depth \in 0..3
<1>1. depth \in 0..3
  BY ConstantsAssumption DEF TypeOK, SafeInv, StackShape
<1> QED
  BY <1>1 DEF SafeInv, StackShape, TopKind

\* The first half of cancel() leaves one cancellation uncounted.
LEMMA SafeCancel ==
  ASSUME TypeOK, SafeInv, CallbacksDoNotReenter, NEW n \in Node, Cancel(n)
  PROVE  SafeInv'
<1>0. /\ UNCHANGED <<heap, numCancelled, failed>>
      /\ TopKind \in {"none", "timeout"}
      /\ n \in held /\ node[n].state \in {"PENDING", "EXECUTING"}
      /\ depth + 1 <= MaxDepth /\ depth' = depth + 1
      /\ frame' = [frame EXCEPT ![depth + 1] = MakeFrame("release", n, 0)]
      /\ Release(n)
  <2>1. TopKind \in {"none", "timeout"}
    BY ConstantsAssumption DEF Cancel, MayCall, CallbacksDoNotReenter
  <2>2. node[n].state \in {"PENDING", "EXECUTING"}
    BY DEF Cancel, SafeInv, HeldNotCancelled, Cancelled, TypeOK, NodeRecord, States
  <2> QED
    BY <2>1, <2>2 DEF Cancel, Push
<1>1. /\ depth = 0 \/ (depth = 2 /\ frame[2].kind = "timeout" /\ frame[1].kind = "fired")
      /\ depth' = depth + 1
      /\ frame'[depth + 1] = [kind |-> "release", node |-> n, arg |-> 0]
      /\ depth = 2 => frame'[1] = frame[1] /\ frame'[2] = frame[2]
  <2>1. depth = 0 \/ (depth = 2 /\ frame[2].kind = "timeout" /\ frame[1].kind = "fired")
    <3>1. CASE TopKind = "none"
      BY <3>1, Contexts
    <3>2. CASE TopKind = "timeout"
      <4>1. depth = 2 /\ frame[1].kind = "fired"
        BY <3>2, Contexts
      <4> QED
        BY <3>2, <4>1 DEF TopKind
    <3> QED
      BY <1>0, <3>1, <3>2
  <2>2. depth + 1 \in 1..MaxDepth
    BY <1>0, <2>1, ConstantsAssumption
  <2> QED
    BY <1>0, <2>1, <2>2 DEF TypeOK, MakeFrame
<1>2. StackShape'
  BY <1>1 DEF SafeInv, StackShape
<1>3. /\ TopKind' = "release" /\ frame'[depth'].node = n
      /\ Bottom'.kind \in {"release", "fired"}
      /\ Bottom'.kind = "fired" <=> Bottom.kind = "fired"
      /\ Bottom.kind = "fired" => Bottom' = Bottom
  BY <1>1 DEF TopKind, Bottom, NoFrame
<1>4. /\ \A m \in Node : m # n => node'[m] = node[m]
      /\ node'[n].state = "CANCELLED"
  BY <1>0 DEF Release, TypeOK, NodeRecord
<1>5. NodePlaces'
  BY <1>0, <1>3, <1>4 DEF SafeInv, NodePlaces, Cancelled, TypeOK
<1>6. Uncounted = 0 /\ Uncounted' = 1
  BY <1>0, <1>3 DEF Uncounted
<1>7. CASE node[n].state = "PENDING"
  <2>1. n \in heap /\ n \notin CancelledInHeap
    BY <1>7 DEF SafeInv, NodePlaces, CancelledInHeap, Cancelled
  <2>2. CancelledInHeap' = CancelledInHeap \cup {n}
    BY <1>0, <1>4, <2>1 DEF CancelledInHeap, Cancelled, TypeOK
  <2>3. Cardinality(CancelledInHeap') = Cardinality(CancelledInHeap) + 1
    BY <2>1, <2>2, HeapFinite, FS_AddElement DEF TypeOK
  <2>4. OutCounted' = OutCounted
    BY <1>3, <1>4, <2>1 DEF OutCounted, Cancelled, SafeInv, NodePlaces
  <2> QED
    BY <1>0, <1>2, <1>4, <1>5, <1>6, <2>3, <2>4, HeapFinite
      DEF SafeInv, CountInv, HeldNotCancelled, Cancelled, Release, NoAssertionFails,
          TypeOK, OutCounted
<1>8. CASE node[n].state = "EXECUTING"
  <2>1. Bottom.kind = "fired" /\ Bottom.node = n /\ n \notin heap
    BY <1>8 DEF SafeInv, NodePlaces
  <2>2. CancelledInHeap' = CancelledInHeap
    BY <1>0, <1>4, <2>1 DEF CancelledInHeap, Cancelled, TypeOK
  <2>3. OutCounted = 0 /\ OutCounted' = 1
    BY <1>3, <1>4, <1>8, <2>1 DEF OutCounted, Cancelled
  <2> QED
    BY <1>0, <1>2, <1>4, <1>5, <1>6, <2>2, <2>3, HeapFinite
      DEF SafeInv, CountInv, HeldNotCancelled, Cancelled, Release, NoAssertionFails,
          TypeOK
<1> QED
  BY <1>0, <1>7, <1>8

\* The second half counts it, or purges the heap and counts afresh.
LEMMA SafeEndCancel ==
  ASSUME TypeOK, SafeInv, EndCancel
  PROVE  SafeInv'
<1> DEFINE n == frame[depth].node
           count == numCancelled + 1
           purge == count * 2 > Cardinality(heap)
           purged == IF purge THEN CancelledInHeap ELSE {}
<1>1. /\ TopKind = "release" /\ depth \in 1..3 /\ n \in Node /\ Cancelled(n)
      /\ Uncounted = 1
  <2>1. depth > 0 /\ TopKind = "release"
    BY DEF EndCancel, At
  <2>2. n \in Node /\ Cancelled(n)
    BY <2>1 DEF SafeInv, NodePlaces
  <2> QED
    BY <2>1, <2>2, Contexts DEF Uncounted
<1>2. /\ node' = [m \in Node |->
                    IF m \in purged THEN FreeNode
                    ELSE IF m = n THEN [node[n] EXCEPT !.handler = NoHandler]
                    ELSE node[m]]
      /\ heap' = heap \ purged
      /\ numCancelled' = count - Cardinality(purged)
      /\ failed' = IF purge /\ numCancelled' \notin {0, 1}
                     THEN "assertion in purgeCancelledNodes" ELSE "none"
      /\ held' = held
      /\ depth' = depth - 1 /\ frame' = [frame EXCEPT ![depth] = NoFrame]
  <2>1. node[n].state # "FREE"
    BY <1>1 DEF Cancelled
  <2> QED
    BY <2>1 DEF EndCancel, Pop
<1>3. \A m \in Node : node'[m].state = IF m \in purged THEN "FREE" ELSE node[m].state
  <2>1. \A m \in Node : node[m] \in NodeRecord
    BY DEF TypeOK
  <2> HIDE DEF purged, n
  <2> QED
    BY <1>1, <1>2, <2>1 DEF FreeNode, NodeRecord
<1>4. /\ depth' = depth - 1
      /\ depth >= 2 => frame'[1] = frame[1]
      /\ depth = 3 => frame'[2] = frame[2]
  <2>1. depth' = depth - 1 /\ frame' = [frame EXCEPT ![depth] = NoFrame]
    BY <1>2
  <2>2. depth \in 1..MaxDepth /\ frame \in [1..MaxDepth -> Frame]
    BY <1>1 DEF TypeOK
  <2> QED
    BY <1>1, <2>1, <2>2
<1>5. StackShape'
  BY <1>1, <1>4 DEF SafeInv, StackShape
<1>6. /\ depth = 1 => Bottom.kind = "release" /\ Bottom' = NoFrame
      /\ depth > 1 => Bottom' = Bottom /\ Bottom.kind \in {"fired", "clearing"}
  BY <1>1, <1>4 DEF Bottom, TopKind, SafeInv, StackShape
<1>7. TopKind' # "release" /\ Uncounted' = 0
  <2>1. TopKind' # "release"
    BY <1>1, <1>4 DEF TopKind, SafeInv, StackShape, TypeOK
  <2> QED
    BY <2>1 DEF Uncounted
<1>8. Bottom.kind \in {"fired", "clearing"} => Bottom.node \notin purged
  BY DEF SafeInv, NodePlaces, CancelledInHeap
<1>9. NodePlaces'
  <2>1. \A m \in heap' : node'[m].state \in {"PENDING", "CANCELLED"}
    <3>1. \A m \in heap : m \in Node /\ node[m].state \in {"PENDING", "CANCELLED"}
      BY DEF SafeInv, NodePlaces, TypeOK
    <3>2. heap' = heap \ purged
      BY <1>2
    <3> HIDE DEF purged
    <3> QED
      BY <1>3, <3>1, <3>2
  <2>2. \A m \in Node : node'[m].state = "PENDING" => m \in heap'
    <3>1. \A m \in Node : node[m].state = "PENDING" => m \in heap
      BY DEF SafeInv, NodePlaces
    <3>2. heap' = heap \ purged
      BY <1>2
    <3> HIDE DEF purged
    <3> QED
      BY <1>3, <3>1, <3>2
  <2>3. \A m \in Node : node'[m].state = "EXECUTING" => Bottom'.kind = "fired" /\ Bottom'.node = m
    BY <1>1, <1>3, <1>6 DEF SafeInv, NodePlaces
  <2>4. Bottom'.kind \in {"fired", "clearing"} => Bottom' = Bottom
    BY <1>1, <1>6 DEF NoFrame
  <2> HIDE DEF purged
  <2> QED
    BY <1>2, <1>3, <1>7, <1>8, <2>1, <2>2, <2>3, <2>4 DEF SafeInv, NodePlaces
<1>10. OutCounted' = OutCounted
  BY <1>1, <1>3, <1>6, <1>8 DEF OutCounted, Cancelled, NoFrame, SafeInv, NodePlaces
<1>11. count = Cardinality(CancelledInHeap) + OutCounted
  BY <1>1, HeapFinite DEF SafeInv, CountInv, TypeOK, OutCounted
<1>12. CountInv' /\ failed' = "none"
  <2>1. CASE purge
    <3>1. CancelledInHeap' = {}
      BY <1>2, <1>3, <2>1 DEF CancelledInHeap, Cancelled, TypeOK
    <3>2. Cardinality(CancelledInHeap)' = 0
      BY <3>1, FS_EmptySet
    <3>3. numCancelled' = OutCounted
      <4>1. numCancelled' = count - Cardinality(CancelledInHeap)
        BY <1>2, <2>1
      <4>2. OutCounted \in Int /\ Cardinality(CancelledInHeap) \in Int
        BY HeapFinite DEF OutCounted, TypeOK
      <4> QED
        BY <1>11, <4>1, <4>2
    <3>4. OutCounted \in {0, 1}
      BY DEF OutCounted
    <3> QED
      <4>1. failed' = "none"
        BY <1>2, <3>3, <3>4
      <4> QED
        BY <1>7, <1>10, <3>2, <3>3, <3>4, <4>1 DEF CountInv
  <2>2. CASE ~purge
    <3>1. CancelledInHeap' = CancelledInHeap
      BY <1>2, <1>3, <2>2 DEF CancelledInHeap, Cancelled, TypeOK
    <3>2. numCancelled' = count
      BY <1>2, <2>2, FS_EmptySet DEF TypeOK
    <3> QED
      BY <1>2, <1>7, <1>10, <1>11, <2>2, <3>1, <3>2 DEF CountInv, OutCounted, TypeOK
  <2> QED
    BY <2>1, <2>2
<1>13. HeldNotCancelled'
  <2>1. \A m \in held : m \in Node /\ node[m].state # "CANCELLED"
    BY DEF SafeInv, HeldNotCancelled, Cancelled, TypeOK
  <2>2. held' = held
    BY <1>2
  <2> HIDE DEF purged
  <2>3. \A m \in held' : node'[m].state # "CANCELLED"
    BY <1>3, <2>1, <2>2
  <2> QED
    BY <2>3 DEF HeldNotCancelled, Cancelled
<1> QED
  BY <1>5, <1>9, <1>12, <1>13 DEF SafeInv, NoAssertionFails

\* process(), clear() and the destructor start on an empty stack.
LEMMA SafeProcessCall ==
  ASSUME TypeOK, SafeInv, CallbacksDoNotReenter,
         NEW f \in Frame, f.kind \in {"process", "clear"},
         MayCall("process") \/ MayCall("clear") \/ MayCall("drop"), Push(f),
         UNCHANGED <<node, heap, numCancelled, processing, lastProcessTime,
                     registered, held, failed>>
  PROVE  SafeInv'
<1>1. depth = 0 /\ TopKind = "none" /\ Bottom = NoFrame
  BY Contexts, ConstantsAssumption DEF MayCall, CallbacksDoNotReenter, Bottom
<1>2. depth' = 1 /\ frame'[1] = f
  BY <1>1, ConstantsAssumption DEF Push, TypeOK
<1>3. TopKind' = f.kind /\ Bottom' = f
  BY <1>2 DEF TopKind, Bottom
<1>4. StackShape'
  BY <1>2 DEF StackShape
<1>5. NodePlaces'
  BY <1>1, <1>3 DEF SafeInv, NodePlaces, Cancelled, NoFrame
<1>6. OutCounted = 0 /\ OutCounted' = 0 /\ Uncounted = 0 /\ Uncounted' = 0
  BY <1>1, <1>3 DEF OutCounted, Uncounted, NoFrame
<1>7. CancelledInHeap' = CancelledInHeap
  BY DEF CancelledInHeap, Cancelled
<1>8. CountInv'
  BY <1>6, <1>7 DEF SafeInv, CountInv
<1> QED
  BY <1>4, <1>5, <1>8 DEF SafeInv, HeldNotCancelled, Cancelled, NoAssertionFails

\* The end of onTimeout settles whether the timer goes back.
LEMMA SafeTimeoutReturns ==
  ASSUME TypeOK, SafeInv, TimeoutReturns
  PROVE  SafeInv'
<1> DEFINE n == frame[2].node
<1>1. /\ depth = 2 /\ frame[2].kind = "timeout" /\ frame[1].kind = "fired"
      /\ frame[1].node = n /\ n \in Node /\ TopKind = "timeout" /\ Bottom = frame[1]
      /\ n \notin heap /\ node[n].state \in {"EXECUTING", "CANCELLED"}
  <2>1. depth = 2 /\ TopKind = "timeout"
    BY Contexts DEF TimeoutReturns, At
  <2> QED
    BY <2>1 DEF TopKind, Bottom, SafeInv, StackShape, NodePlaces
<1>2. UNCHANGED <<heap, numCancelled, failed>> /\ 1 \in 1..MaxDepth /\ 2 \in 1..MaxDepth
  BY <1>1, ConstantsAssumption DEF TimeoutReturns, TypeOK
<1>3. CASE node[n].interval = 0 /\ ~Cancelled(n)
  <2>1. Release(n) /\ depth' = 2
          /\ frame' = [frame EXCEPT ![2] = MakeFrame("release", n, 0)]
    BY <1>1, <1>3 DEF TimeoutReturns, Replace
  <2>2. frame'[1] = frame[1] /\ frame'[2] = [kind |-> "release", node |-> n, arg |-> 0]
    BY <1>2, <2>1 DEF MakeFrame, TypeOK
  <2>3. \A m \in Node : m # n => node'[m] = node[m]
    BY <2>1 DEF Release, TypeOK
  <2>4. node'[n].state = "CANCELLED" /\ node[n].state = "EXECUTING"
    BY <1>1, <1>3, <2>1 DEF Release, TypeOK, NodeRecord, Cancelled
  <2>5. TopKind' = "release" /\ Bottom' = Bottom /\ frame'[depth'].node = n
    BY <1>1, <2>1, <2>2 DEF TopKind, Bottom
  <2>6. StackShape'
    BY <1>1, <2>1, <2>2 DEF StackShape
  <2>7. NodePlaces'
    BY <1>1, <1>2, <2>3, <2>4, <2>5 DEF SafeInv, NodePlaces, Cancelled, TypeOK
  <2>8. CancelledInHeap' = CancelledInHeap
    BY <1>1, <1>2, <2>3 DEF CancelledInHeap, Cancelled, TypeOK
  <2>9. OutCounted = 0 /\ OutCounted' = 1 /\ Uncounted = 0 /\ Uncounted' = 1
    BY <1>1, <2>4, <2>5 DEF OutCounted, Uncounted, Cancelled
  <2>10. CountInv'
    BY <1>2, <2>8, <2>9, HeapFinite DEF SafeInv, CountInv, TypeOK
  <2>11. HeldNotCancelled'
    BY <2>1, <2>3 DEF SafeInv, HeldNotCancelled, Release, Cancelled, TypeOK
  <2> QED
    BY <1>2, <2>6, <2>7, <2>10, <2>11 DEF SafeInv, NoAssertionFails
<1>4. CASE ~(node[n].interval = 0 /\ ~Cancelled(n))
  <2>1. /\ UNCHANGED <<node, registered, held>>
        /\ depth' = 1 /\ frame' = [frame EXCEPT ![2] = NoFrame]
    BY <1>1, <1>4 DEF TimeoutReturns, Pop
  <2>2. frame'[1] = frame[1]
    BY <1>2, <2>1 DEF TypeOK
  <2>3. TopKind' = "fired" /\ Bottom' = Bottom
    BY <1>1, <2>1, <2>2 DEF TopKind, Bottom
  <2>4. StackShape'
    BY <1>1, <2>1, <2>2 DEF StackShape
  <2>5. NodePlaces'
    BY <1>2, <2>1, <2>3 DEF SafeInv, NodePlaces, Cancelled
  <2>6. CancelledInHeap' = CancelledInHeap /\ OutCounted' = OutCounted
          /\ Uncounted' = Uncounted
    BY <1>1, <1>2, <2>1, <2>3 DEF CancelledInHeap, Cancelled, OutCounted, Uncounted
  <2> QED
    BY <1>2, <2>1, <2>4, <2>5, <2>6
      DEF SafeInv, CountInv, HeldNotCancelled, Cancelled, NoAssertionFails
<1> QED
  BY <1>3, <1>4

(* process() and clear() run at the bottom of the stack, with no node out of *)
(* the heap but the one they hold.                                           *)
LEMMA BottomFrame ==
  ASSUME TypeOK, SafeInv,
         NEW kind \in {"process", "fired", "clear", "clearing"}, At(kind)
  PROVE  /\ depth = 1 /\ 1 \in 1..MaxDepth /\ TopKind = kind
         /\ Bottom = frame[1] /\ frame[1].kind = kind
<1>1. depth = 1 /\ TopKind = kind
  BY Contexts DEF At
<1> QED
  BY <1>1 DEF TypeOK, TopKind, Bottom

\* process() drops a cancelled timer with its count.
LEMMA SafeProcessCancelled ==
  ASSUME TypeOK, SafeInv, NEW n \in Node, ProcessCancelled(n)
  PROVE  SafeInv'
<1>1. /\ depth = 1 /\ TopKind = "process" /\ Bottom.kind = "process"
      /\ n \in heap /\ Cancelled(n)
  BY BottomFrame DEF ProcessCancelled, IsTop
<1>2. UNCHANGED <<frame, depth, held, Bottom, TopKind>> /\ heap' = heap \ {n}
        /\ node' = [node EXCEPT ![n] = FreeNode]
  BY DEF ProcessCancelled, DeleteProcessed, Bottom, TopKind
<1>3. n \in CancelledInHeap /\ CancelledInHeap' = CancelledInHeap \ {n}
  BY <1>1, <1>2 DEF CancelledInHeap, Cancelled, TypeOK
<1>4. Cardinality(CancelledInHeap') = Cardinality(CancelledInHeap) - 1
  BY <1>3, HeapFinite, FS_RemoveElement DEF TypeOK
<1>5. OutCounted = 0 /\ OutCounted' = 0 /\ Uncounted = 0 /\ Uncounted' = 0
  BY <1>1, <1>2 DEF OutCounted, Uncounted
<1>6. Cardinality(CancelledInHeap') \in Nat
  <2>1. IsFiniteSet(CancelledInHeap')
    BY <1>3, HeapFinite, FS_RemoveElement DEF TypeOK
  <2> QED
    BY <2>1, FS_CardinalityType
<1>7. numCancelled = Cardinality(CancelledInHeap) /\ numCancelled > 0
  BY <1>4, <1>5, <1>6, HeapFinite DEF SafeInv, CountInv, TypeOK
<1>8. failed' = "none" /\ numCancelled' = numCancelled - 1
  BY <1>7 DEF ProcessCancelled, DeleteProcessed
<1>9. CountInv'
  BY <1>4, <1>5, <1>7, <1>8 DEF CountInv, TypeOK
<1>10. NodePlaces'
  BY <1>1, <1>2 DEF SafeInv, NodePlaces, FreeNode, TypeOK
<1>11. HeldNotCancelled'
  BY <1>2 DEF SafeInv, HeldNotCancelled, Cancelled, FreeNode, TypeOK
<1> QED
  BY <1>2, <1>8, <1>9, <1>10, <1>11 DEF SafeInv, StackShape, NoAssertionFails

\* process() takes the due timer out of the heap and calls its handler.
LEMMA SafeProcessDue ==
  ASSUME TypeOK, SafeInv, NEW n \in Node, ProcessDue(n)
  PROVE  SafeInv'
<1>1. /\ depth = 1 /\ TopKind = "process" /\ Bottom.kind = "process"
      /\ n \in heap /\ ~Cancelled(n) /\ 1 \in 1..MaxDepth
  BY BottomFrame DEF ProcessDue, IsTop
<1>2. UNCHANGED <<held, numCancelled, failed>> /\ heap' = heap \ {n}
  BY DEF ProcessDue
<1>3. \A m \in Node : m # n => node'[m] = node[m]
  BY DEF ProcessDue, TypeOK
<1>4. node'[n].state = "EXECUTING" /\ node[n].state = "PENDING"
  BY <1>1 DEF ProcessDue, TypeOK, NodeRecord, SafeInv, NodePlaces, Cancelled
<1>5. /\ depth' = 2
      /\ frame'[1] = MakeFrame("fired", n, frame[1].arg)
      /\ frame'[2] = MakeFrame("timeout", n, 0)
  BY <1>1 DEF ProcessDue, ReplacePush, TypeOK
<1>6. TopKind' = "timeout" /\ Bottom' = MakeFrame("fired", n, frame[1].arg)
  BY <1>5 DEF TopKind, Bottom, MakeFrame
<1>7. StackShape'
  BY <1>5 DEF StackShape, MakeFrame
<1>8. NodePlaces'
  BY <1>1, <1>2, <1>3, <1>4, <1>6 DEF SafeInv, NodePlaces, MakeFrame, TypeOK, Cancelled
<1>9. CancelledInHeap' = CancelledInHeap
  BY <1>1, <1>2, <1>3 DEF CancelledInHeap, Cancelled, TypeOK
<1>10. OutCounted = 0 /\ OutCounted' = 0 /\ Uncounted = 0 /\ Uncounted' = 0
  BY <1>1, <1>4, <1>6 DEF OutCounted, Uncounted, MakeFrame, Cancelled
<1>11. HeldNotCancelled'
  BY <1>2, <1>3, <1>4 DEF SafeInv, HeldNotCancelled, Cancelled, TypeOK
<1> QED
  BY <1>2, <1>7, <1>8, <1>9, <1>10, <1>11 DEF SafeInv, CountInv, NoAssertionFails

\* After the callback the timer is pushed again or deleted.
LEMMA SafeFinishFired ==
  ASSUME TypeOK, SafeInv, FinishFired
  PROVE  SafeInv'
<1> DEFINE n == frame[1].node
<1>1. /\ depth = 1 /\ TopKind = "fired" /\ Bottom = frame[1] /\ Bottom.kind = "fired"
      /\ 1 \in 1..MaxDepth
  BY BottomFrame DEF FinishFired
<1>2. n \in Node /\ n \notin heap /\ node[n].state \in {"EXECUTING", "CANCELLED"}
  BY <1>1 DEF SafeInv, NodePlaces
<1>3. depth' = 1 /\ frame'[1] = MakeFrame("process", NoNode, frame[1].arg) /\ held' = held
  BY <1>1 DEF FinishFired, Replace, TypeOK
<1>4. TopKind' = "process" /\ Bottom'.kind = "process"
  BY <1>3 DEF TopKind, Bottom, MakeFrame
<1>5. StackShape'
  BY <1>3 DEF StackShape, MakeFrame
<1>6. OutCounted' = 0 /\ Uncounted = 0 /\ Uncounted' = 0
  BY <1>1, <1>4 DEF OutCounted, Uncounted
<1>7. CASE Cancelled(n)
  <2>1. heap' = heap /\ node' = [node EXCEPT ![n] = FreeNode]
    BY <1>1, <1>7 DEF FinishFired, DeleteProcessed
  <2>2. CancelledInHeap' = CancelledInHeap
    BY <1>2, <2>1 DEF CancelledInHeap, Cancelled, TypeOK
  <2>3. numCancelled = Cardinality(CancelledInHeap) + 1 /\ numCancelled > 0
    BY <1>1, <1>6, <1>7, HeapFinite DEF SafeInv, CountInv, OutCounted, TypeOK
  <2>4. failed' = "none" /\ numCancelled' = numCancelled - 1
    BY <1>1, <1>7, <2>3 DEF FinishFired, DeleteProcessed
  <2>5. CountInv'
    BY <1>6, <2>2, <2>3, <2>4, HeapFinite DEF CountInv, TypeOK
  <2>6. NodePlaces'
    BY <1>1, <1>2, <1>4, <2>1 DEF SafeInv, NodePlaces, FreeNode, TypeOK
  <2>7. HeldNotCancelled'
    BY <1>3, <2>1 DEF SafeInv, HeldNotCancelled, Cancelled, FreeNode, TypeOK
  <2> QED
    BY <1>5, <2>4, <2>5, <2>6, <2>7 DEF SafeInv, NoAssertionFails
<1>8. CASE ~Cancelled(n)
  <2>1. heap' = heap \cup {n} /\ UNCHANGED <<numCancelled, failed>>
    BY <1>1, <1>8 DEF FinishFired
  <2>2. \A m \in Node : m # n => node'[m] = node[m]
    BY <1>1, <1>8 DEF FinishFired, TypeOK
  <2>3. node'[n].state = "PENDING"
    <3>1. node[n] \in NodeRecord
      BY <1>2 DEF TypeOK
    <3>2. node' = [node EXCEPT ![n] = [node[n] EXCEPT !.state = "PENDING",
                     !.time = (node[n].time + node[n].interval) % TimeMod]]
      BY <1>1, <1>8 DEF FinishFired
    <3> QED
      BY <1>2, <3>1, <3>2 DEF TypeOK, NodeRecord
  <2>4. CancelledInHeap' = CancelledInHeap
    BY <1>2, <2>1, <2>2, <2>3 DEF CancelledInHeap, Cancelled, TypeOK
  <2>5. OutCounted = 0
    BY <1>1, <1>8 DEF OutCounted
  <2>6. NodePlaces'
    BY <1>1, <1>2, <1>4, <2>1, <2>2, <2>3 DEF SafeInv, NodePlaces, TypeOK
  <2>7. HeldNotCancelled'
    BY <1>3, <2>2, <2>3 DEF SafeInv, HeldNotCancelled, Cancelled, TypeOK
  <2> QED
    BY <1>5, <1>6, <2>1, <2>4, <2>5, <2>6, <2>7 DEF SafeInv, CountInv, NoAssertionFails
<1> QED
  BY <1>7, <1>8

\* process() and clear() return to an empty stack.
LEMMA SafeReturns ==
  ASSUME TypeOK, SafeInv, ProcessReturns \/ ClearReturns
  PROVE  SafeInv'
<1>1. /\ depth = 1 /\ TopKind \in {"process", "clear"} /\ Bottom.kind = TopKind
      /\ 1 \in 1..MaxDepth
  BY BottomFrame DEF ProcessReturns, ClearReturns
<1>2. depth' = 0 /\ UNCHANGED <<node, heap, held, failed>>
  BY <1>1 DEF ProcessReturns, ClearReturns, Pop
<1>3. TopKind' = "none" /\ Bottom' = NoFrame
  BY <1>2 DEF TopKind, Bottom
<1>4. CancelledInHeap' = CancelledInHeap
  BY <1>2 DEF CancelledInHeap, Cancelled
<1>5. OutCounted = 0 /\ OutCounted' = 0 /\ Uncounted = 0 /\ Uncounted' = 0
  BY <1>1, <1>3 DEF OutCounted, Uncounted, NoFrame
<1>6. CountInv'
  <2>1. CASE ProcessReturns
    BY <1>4, <1>5, <2>1 DEF ProcessReturns, SafeInv, CountInv
  <2>2. CASE ClearReturns
    <3>1. numCancelled' = 0 /\ CancelledInHeap = {}
      BY <2>2 DEF ClearReturns, CancelledInHeap
    <3>2. Cardinality(CancelledInHeap) = 0
      BY <3>1, FS_EmptySet
    <3> QED
      BY <1>4, <1>5, <3>1, <3>2 DEF CountInv
  <2> QED
    BY <2>1, <2>2
<1>7. NodePlaces'
  BY <1>1, <1>2, <1>3 DEF SafeInv, NodePlaces, NoFrame
<1>8. StackShape'
  BY <1>2 DEF StackShape
<1> QED
  BY <1>2, <1>6, <1>7, <1>8
    DEF SafeInv, HeldNotCancelled, Cancelled, NoAssertionFails

\* clear() cancels one timer, and counts it.
LEMMA SafeClearCancel ==
  ASSUME TypeOK, SafeInv, NEW n \in Node, ClearCancel(n)
  PROVE  SafeInv'
<1>1. /\ depth = 1 /\ TopKind = "clear" /\ Bottom.kind = "clear" /\ 1 \in 1..MaxDepth
      /\ n \in heap /\ ~Cancelled(n)
  BY BottomFrame DEF ClearCancel, IsBack
<1>2. /\ heap' = heap \ {n} /\ numCancelled' = numCancelled - 1 /\ failed' = failed
      /\ Release(n)
  BY DEF ClearCancel
<1>3. /\ depth' = 2
      /\ frame'[1] = MakeFrame("clearing", n, frame[1].arg)
      /\ frame'[2] = MakeFrame("release", n, 0)
  BY <1>1 DEF ClearCancel, ReplacePush, TypeOK
<1>4. /\ TopKind' = "release" /\ Bottom' = MakeFrame("clearing", n, frame[1].arg)
      /\ frame'[depth'].node = n
  BY <1>3 DEF TopKind, Bottom, MakeFrame
<1>5. StackShape'
  BY <1>3 DEF StackShape, MakeFrame
<1>6. \A m \in Node : m # n => node'[m] = node[m]
  BY <1>2 DEF Release, TypeOK
<1>7. node'[n].state = "CANCELLED"
  BY <1>2 DEF Release, TypeOK, NodeRecord
<1>8. NodePlaces'
  BY <1>1, <1>2, <1>4, <1>6, <1>7 DEF SafeInv, NodePlaces, MakeFrame, Cancelled, TypeOK
<1>9. CancelledInHeap' = CancelledInHeap
  BY <1>1, <1>2, <1>6 DEF CancelledInHeap, Cancelled, TypeOK
<1>10. OutCounted = 0 /\ OutCounted' = 0 /\ Uncounted = 0 /\ Uncounted' = 1
  BY <1>1, <1>4 DEF OutCounted, Uncounted, MakeFrame
<1>11. CountInv'
  BY <1>2, <1>9, <1>10, HeapFinite DEF SafeInv, CountInv, TypeOK
<1>12. HeldNotCancelled'
  BY <1>2, <1>6 DEF SafeInv, HeldNotCancelled, Release, Cancelled, TypeOK
<1> QED
  BY <1>2, <1>5, <1>8, <1>11, <1>12 DEF SafeInv, NoAssertionFails

\* clear() deletes a timer that was cancelled before.
LEMMA SafeClearCancelled ==
  ASSUME TypeOK, SafeInv, ClearCancelled
  PROVE  SafeInv'
<1> DEFINE n == frame[1].node
<1>1. /\ depth = 1 /\ TopKind = "clearing" /\ Bottom = frame[1]
      /\ Bottom.kind = "clearing" /\ 1 \in 1..MaxDepth
  BY BottomFrame DEF ClearCancelled
<1>2. n \in Node /\ n \notin heap
  BY <1>1 DEF SafeInv, NodePlaces
<1>3. /\ depth' = 1 /\ frame'[1] = MakeFrame("clear", NoNode, frame[1].arg - 1)
      /\ node' = [node EXCEPT ![n] = FreeNode]
      /\ UNCHANGED <<heap, numCancelled, held, failed>>
  BY <1>1 DEF ClearCancelled, Replace, TypeOK
<1>4. TopKind' = "clear" /\ Bottom'.kind = "clear"
  BY <1>3 DEF TopKind, Bottom, MakeFrame
<1>5. StackShape'
  BY <1>3 DEF StackShape, MakeFrame
<1>6. NodePlaces'
  BY <1>1, <1>2, <1>3, <1>4 DEF SafeInv, NodePlaces, FreeNode, TypeOK
<1>7. CancelledInHeap' = CancelledInHeap
  BY <1>2, <1>3 DEF CancelledInHeap, Cancelled, TypeOK
<1>8. OutCounted = 0 /\ OutCounted' = 0 /\ Uncounted = 0 /\ Uncounted' = 0
  BY <1>1, <1>4 DEF OutCounted, Uncounted
<1>9. HeldNotCancelled'
  BY <1>3 DEF SafeInv, HeldNotCancelled, Cancelled, FreeNode, TypeOK
<1> QED
  BY <1>3, <1>5, <1>6, <1>7, <1>8, <1>9 DEF SafeInv, CountInv, NoAssertionFails

\* clear() deletes the timer it has cancelled, which empties the heap one by one.
LEMMA SafeClearDelete ==
  ASSUME TypeOK, SafeInv, NEW n \in Node, ClearDelete(n)
  PROVE  SafeInv'
<1>1. depth = 1 /\ TopKind = "clear" /\ Bottom.kind = "clear" /\ n \in heap
  BY BottomFrame DEF ClearDelete, IsBack
<1>2. /\ UNCHANGED <<frame, depth, held, failed, Bottom, TopKind>>
      /\ heap' = heap \ {n} /\ node' = [node EXCEPT ![n] = FreeNode]
      /\ numCancelled' = IF Cancelled(n) THEN numCancelled - 1 ELSE numCancelled
  BY DEF ClearDelete, Bottom, TopKind
<1>3. CancelledInHeap' = CancelledInHeap \ {n}
  BY <1>1, <1>2 DEF CancelledInHeap, Cancelled, TypeOK
<1>4. Cardinality(CancelledInHeap') =
        IF n \in CancelledInHeap THEN Cardinality(CancelledInHeap) - 1
                                 ELSE Cardinality(CancelledInHeap)
  BY <1>3, HeapFinite, FS_RemoveElement DEF TypeOK
<1>5. n \in CancelledInHeap <=> Cancelled(n)
  BY <1>1 DEF CancelledInHeap
<1>6. OutCounted = 0 /\ OutCounted' = 0 /\ Uncounted = 0 /\ Uncounted' = 0
  BY <1>1, <1>2 DEF OutCounted, Uncounted
<1>7. numCancelled = Cardinality(CancelledInHeap)
  BY <1>6, HeapFinite DEF SafeInv, CountInv, TypeOK
<1>8. numCancelled' = Cardinality(CancelledInHeap')
  BY <1>2, <1>4, <1>5, <1>7
<1>9. numCancelled' \in Int
  BY <1>2, <1>7, HeapFinite DEF TypeOK
<1>10. CountInv'
  BY <1>6, <1>8, <1>9 DEF CountInv
<1>11. NodePlaces'
  BY <1>1, <1>2 DEF SafeInv, NodePlaces, FreeNode, TypeOK
<1>12. HeldNotCancelled'
  BY <1>2 DEF SafeInv, HeldNotCancelled, Cancelled, FreeNode, TypeOK
<1> QED
  BY <1>2, <1>10, <1>11, <1>12 DEF SafeInv, StackShape, NoAssertionFails

\* Every step keeps the inductive invariant.
LEMMA SafeNext ==
  ASSUME TypeOK, SafeInv, CallbacksDoNotReenter, [Next]_vars
  PROVE  SafeInv'
<1>1. ASSUME NEW now \in Times, Process(now)
      PROVE  SafeInv'
  <2>1. MakeFrame("process", NoNode, now) \in Frame
    BY FrameTypes, ConstantsAssumption DEF TimeStamp
  <2>2. MakeFrame("process", NoNode, now).kind = "process"
    BY DEF MakeFrame
  <2> QED
    BY <1>1, <2>1, <2>2, SafeProcessCall DEF Process
<1>2. ASSUME NEW call \in BOOLEAN, Clear(call)
      PROVE  SafeInv'
  <2> DEFINE f == MakeFrame("clear", NoNode, IF call THEN Cardinality(heap) ELSE 0)
  <2>1. f \in Frame
    BY FrameTypes, HeapFinite DEF TypeOK
  <2>2. f.kind = "clear"
    BY DEF MakeFrame
  <2>3. MayCall("clear") \/ MayCall("drop")
    BY <1>2 DEF Clear
  <2> QED
    BY <1>2, <2>1, <2>2, <2>3, SafeProcessCall DEF Clear
<1>3. CASE UNCHANGED vars
  <2>1. UNCHANGED <<Bottom, TopKind, CancelledInHeap>>
    BY <1>3 DEF vars, Bottom, TopKind, CancelledInHeap, Cancelled
  <2>2. UNCHANGED <<OutCounted, Uncounted>>
    BY <1>3, <2>1 DEF vars, OutCounted, Uncounted, Cancelled
  <2> QED
    BY <1>3, <2>1, <2>2
      DEF vars, SafeInv, StackShape, NodePlaces, CountInv, HeldNotCancelled,
          Cancelled, NoAssertionFails
<1> QED
  BY <1>1, <1>2, <1>3, SafeAdd, SafeSetInterval, SafeCancel, SafeEndCancel,
     SafeTimeoutReturns, SafeProcessCancelled, SafeProcessDue, SafeFinishFired,
     SafeReturns, SafeClearCancel, SafeClearCancelled, SafeClearDelete
    DEF Next, ClientCall, CallbackReturns, QueueStep

\* With callbacks that do not reenter, neither assertion of the queue fails, and
\* cancel() never returns into a node that was deleted during onRelease.
THEOREM NoAssertionEverFails ==
  ASSUME CallbacksDoNotReenter
  PROVE  Spec => []NoAssertionFails
<1>1. Init => TypeOK /\ SafeInv
  BY TypeInit, SafeInit
<1>2. TypeOK /\ SafeInv /\ [Next]_vars => (TypeOK /\ SafeInv)'
  BY TypeNext, SafeNext
<1>3. SafeInv => NoAssertionFails
  BY DEF SafeInv
<1> QED
  BY <1>1, <1>2, <1>3, PTL DEF Spec

\* Under the same assumption numCancelled_ is exact whenever no call is in progress.
THEOREM CancelledCountCorrect ==
  ASSUME CallbacksDoNotReenter
  PROVE  Spec => []CancelledCountExact
<1>1. Init => TypeOK /\ SafeInv
  BY TypeInit, SafeInit
<1>2. TypeOK /\ SafeInv /\ [Next]_vars => (TypeOK /\ SafeInv)'
  BY TypeNext, SafeNext
<1>3. TypeOK /\ SafeInv => CancelledCountExact
  <2> SUFFICES ASSUME TypeOK, SafeInv, depth = 0
               PROVE  numCancelled = Cardinality(CancelledInHeap)
    BY DEF CancelledCountExact
  <2>1. OutCounted = 0 /\ Uncounted = 0
    BY DEF OutCounted, Uncounted, Bottom, TopKind, NoFrame
  <2> QED
    BY <2>1, HeapFinite DEF SafeInv, CountInv, TypeOK
<1> QED
  BY <1>1, <1>2, <1>3, PTL DEF Spec

-----------------------------------------------------------------------------
(* What happens to a cancelled timer, and the service the queue implements.  *)

\* No step revives or fires a cancelled timer.
LEMMA CancelFinalStep ==
  ASSUME TypeOK, [Next]_vars, NEW n \in Node, Cancelled(n)
  PROVE  node'[n].state \in {"CANCELLED", "FREE"}
<1>0. node[n].state = "CANCELLED" /\ \A m \in Node : node[m] \in NodeRecord
  BY DEF Cancelled, TypeOK
<1>1. ASSUME NEW m \in Node, Release(m)
      PROVE  node'[n].state = "CANCELLED"
  BY <1>0, <1>1 DEF Release, TypeOK, NodeRecord
<1>2. ASSUME NEW m \in Node, node' = [node EXCEPT ![m] = FreeNode]
      PROVE  node'[n].state \in {"CANCELLED", "FREE"}
  BY <1>0, <1>2 DEF TypeOK, FreeNode
<1>3. ASSUME NEW m \in Node, m # n, NEW r, node' = [node EXCEPT ![m] = r]
      PROVE  node'[n].state = "CANCELLED"
  BY <1>0, <1>3 DEF TypeOK
<1>4. ASSUME NEW m \in Node, NEW start \in Times, NEW interval \in Intervals,
             NEW h \in Handler, Add(m, start, interval, h)
      PROVE  node'[n].state = "CANCELLED"
  BY <1>0, <1>4 DEF Add, TypeOK
<1>5. ASSUME NEW m \in Node, NEW interval \in Intervals, SetInterval(m, interval)
      PROVE  node'[n].state = "CANCELLED"
  BY <1>0, <1>5 DEF SetInterval, TypeOK, NodeRecord
<1>6. ASSUME EndCancel
      PROVE  node'[n].state \in {"CANCELLED", "FREE"}
  <2> DEFINE k == frame[depth].node
             purged == IF (numCancelled + 1) * 2 > Cardinality(heap)
                         THEN CancelledInHeap ELSE {}
  <2>1. CASE node[k].state = "FREE"
    BY <1>0, <1>6, <2>1 DEF EndCancel
  <2>2. CASE node[k].state # "FREE"
    <3>1. node' = [m \in Node |->
                     IF m \in purged THEN FreeNode
                     ELSE IF m = k THEN [node[k] EXCEPT !.handler = NoHandler]
                     ELSE node[m]]
      BY <1>6, <2>2 DEF EndCancel
    <3> HIDE DEF purged, k
    <3> QED
      BY <1>0, <3>1 DEF FreeNode, NodeRecord
  <2> QED
    BY <2>1, <2>2
<1>7. ASSUME TimeoutReturns
      PROVE  node'[n].state = "CANCELLED"
  <2>1. frame[depth].node \in Node
    BY <1>7, TopFrame DEF TimeoutReturns, NodeKinds
  <2> QED
    BY <1>0, <1>1, <1>7, <2>1 DEF TimeoutReturns
<1>8. ASSUME NEW m \in Node, ProcessDue(m)
      PROVE  node'[n].state = "CANCELLED"
  BY <1>0, <1>8 DEF ProcessDue, Cancelled, TypeOK
<1>9. ASSUME FinishFired
      PROVE  node'[n].state \in {"CANCELLED", "FREE"}
  <2>1. frame[depth].node \in Node
    BY <1>9, TopFrame DEF FinishFired, NodeKinds
  <2>2. CASE Cancelled(frame[depth].node)
    BY <1>2, <1>9, <2>1, <2>2 DEF FinishFired, DeleteProcessed
  <2>3. CASE ~Cancelled(frame[depth].node)
    BY <1>0, <1>9, <2>1, <2>3 DEF FinishFired, Cancelled, TypeOK
  <2> QED
    BY <2>2, <2>3
<1>10. ASSUME ClearCancelled
       PROVE  node'[n].state \in {"CANCELLED", "FREE"}
  <2>1. frame[depth].node \in Node
    BY <1>10, TopFrame DEF ClearCancelled, NodeKinds
  <2> QED
    BY <1>2, <1>10, <2>1 DEF ClearCancelled
<1>11. ASSUME node' = node
       PROVE  node'[n].state = "CANCELLED"
  BY <1>0, <1>11
<1> QED
  BY <1>1, <1>2, <1>4, <1>5, <1>6, <1>7, <1>8, <1>9, <1>10, <1>11
    DEF Next, ClientCall, CallbackReturns, QueueStep, vars, Cancel, Process, Clear,
        ProcessCancelled, DeleteProcessed, ProcessReturns, ClearCancel, ClearDelete,
        ClearReturns

\* Whatever clients do, a cancelled timer never fires and is never pending again.
THEOREM CancelNeverUndone == Spec => CancelIsFinal
<1>1. TypeOK /\ [Next]_vars =>
        [\A n \in Node : Cancelled(n) => node'[n].state \in {"CANCELLED", "FREE"}]_vars
  BY CancelFinalStep
<1> QED
  BY <1>1, TypeInit, TypeNext, PTL DEF Spec, CancelIsFinal

-----------------------------------------------------------------------------
(* What the conjuncts of ServiceInv depend on.                               *)

\* A step that leaves the handles and their handlers alone keeps the registrations.
LEMMA RegistrationsKept ==
  ASSUME RegistrationsExact, UNCHANGED <<held, registered>>,
         \A n \in held : node'[n].handler = node[n].handler
  PROVE  RegistrationsExact'
<1>1. \A h : {n \in held : node[n].handler = h}' = {n \in held : node[n].handler = h}
  OBVIOUS
<1> QED
  BY <1>1 DEF RegistrationsExact

\* The handles are finitely many, also those of one handler.
LEMMA HeldFinite ==
  ASSUME TypeOK, NEW h
  PROVE  /\ IsFiniteSet({n \in held : node[n].handler = h})
         /\ Cardinality({n \in held : node[n].handler = h}) \in Nat
<1>1. IsFiniteSet({n \in held : node[n].handler = h})
  BY FS_Subset, ConstantsAssumption DEF TypeOK
<1> QED
  BY <1>1, FS_CardinalityType

\* release() gives up a handle and its registration together.
LEMMA RegistrationsReleased ==
  ASSUME TypeOK, RegistrationsExact, NEW n \in held, Release(n)
  PROVE  RegistrationsExact'
<1> SUFFICES ASSUME NEW h \in Handler
             PROVE  registered'[h] = Cardinality({m \in held' : node'[m].handler = h})
  BY DEF RegistrationsExact
<1> DEFINE mine == {m \in held : node[m].handler = h}
<1>1. IsFiniteSet(mine) /\ registered[h] = Cardinality(mine)
  BY HeldFinite DEF RegistrationsExact
<1>2. {m \in held' : node'[m].handler = h} = mine \ {n}
  BY DEF Release, TypeOK
<1>3. Cardinality(mine \ {n}) =
        IF node[n].handler = h THEN Cardinality(mine) - 1 ELSE Cardinality(mine)
  <2>1. n \in mine <=> node[n].handler = h
    OBVIOUS
  <2> QED
    BY <1>1, <2>1, FS_RemoveElement
<1>4. registered'[h] = IF node[n].handler = h THEN registered[h] - 1 ELSE registered[h]
  BY DEF Release, TypeOK
<1> QED
  BY <1>1, <1>2, <1>3, <1>4

\* The timers in the heap that are not cancelled are finitely many.
LEMMA LiveFinite ==
  ASSUME TypeOK
  PROVE  IsFiniteSet(LiveInHeap) /\ Cardinality(LiveInHeap) \in Nat
<1>1. IsFiniteSet(LiveInHeap)
  BY HeapFinite, FS_Subset DEF TypeOK, LiveInHeap
<1> QED
  BY <1>1, FS_CardinalityType

\* A step that leaves the heap and the states in it alone keeps both counts.
LEMMA CountsKept ==
  ASSUME heap' = heap, \A n \in heap : node'[n].state = node[n].state
  PROVE  CancelledInHeap' = CancelledInHeap /\ LiveInHeap' = LiveInHeap
BY DEF CancelledInHeap, LiveInHeap, Cancelled

\* Live is a matter of the state of a node.
LEMMA LiveStates ==
  ASSUME TypeOK, NEW n \in Node
  PROVE  /\ Live(n) <=> node[n].state \notin {"FREE", "CANCELLED"}
         /\ Cancelled(n) => ~Live(n)
BY DEF TypeOK, NodeRecord, States, Live, Cancelled

-----------------------------------------------------------------------------
(* Each operation keeps ServiceInv.                                          *)

\* The constructor establishes it.
LEMMA ServiceInvInit == Init => ServiceInv
<1> SUFFICES ASSUME Init PROVE ServiceInv
  OBVIOUS
<1>1. Bottom = NoFrame /\ TopKind = "none"
  BY DEF Init, Bottom, TopKind
<1>2. CancelledInHeap = {} /\ heap = {}
  BY DEF Init, CancelledInHeap
<1>3. HalfInv
  BY <1>1, <1>2, FS_EmptySet DEF HalfInv, NoFrame
<1>4. RegistrationsExact
  <2>1. \A h : {n \in held : node[n].handler = h} = {}
    BY DEF Init
  <2> QED
    BY <2>1, FS_EmptySet DEF Init, RegistrationsExact
<1>5. HeldInv
  BY DEF Init, HeldInv, Live, FreeNode
<1> QED
  BY <1>1, <1>3, <1>4, <1>5
    DEF Init, ServiceInv, ProcessingInv, FiredRepeats, ClearInv, NoFrame

\* add(): one more handle, registration and timer in the heap; not while clear() runs.
LEMMA ServiceInvAdd ==
  ASSUME TypeOK, QueueInv, CallbacksDoNotReenter, ClearIsComplete,
         NEW n \in Node, NEW start \in Times, NEW interval \in Intervals,
         NEW h \in Handler, Add(n, start, interval, h)
  PROVE  ServiceInv'
<1>0. /\ UNCHANGED <<Bottom, TopKind, frame, depth, processing>>
      /\ n \notin heap /\ ~Live(n) /\ n \notin held
  BY DEF Add, Bottom, TopKind, QueueInv, SafeInv, NodePlaces, ServiceInv, HeldInv, Live
<1>1. /\ \A m \in Node : m # n => node'[m] = node[m]
      /\ node'[n].state = "PENDING" /\ node'[n].handler = h
      /\ heap' = heap \cup {n} /\ held' = held \cup {n}
      /\ registered' = [registered EXCEPT ![h] = @ + 1]
  BY DEF Add, TypeOK
<1>2. CancelledInHeap' = CancelledInHeap
  BY <1>0, <1>1 DEF CancelledInHeap, Cancelled, TypeOK
<1>3. Cardinality(heap') = Cardinality(heap) + 1
  BY <1>0, <1>1, HeapFinite, FS_AddElement DEF TypeOK
<1>4. Bottom.kind = "fired" => Bottom.node # n /\ Cancelled(Bottom.node)' = Cancelled(Bottom.node)
  <2>1. Bottom.kind = "fired" => Bottom.node \in Node /\ Bottom.node # n
    BY DEF QueueInv, SafeInv, NodePlaces, Add
  <2> QED
    BY <1>0, <1>1, <2>1 DEF Cancelled
<1>5. HalfInv'
  BY <1>0, <1>2, <1>3, <1>4, HeapFinite DEF QueueInv, ServiceInv, HalfInv, TypeOK, Cancelled
<1>6. HeldInv'
  BY <1>0, <1>1 DEF QueueInv, ServiceInv, HeldInv, Live
<1>7. TopKind # "fired"
  BY DEF Add, MayCall, ClientRuns
<1>8. Bottom.kind \notin {"clear", "clearing"}
  <2>1. CASE TopKind = "none"
    BY <2>1, Contexts DEF QueueInv, Bottom, NoFrame
  <2>2. CASE TopKind = "timeout"
    BY <2>2, Contexts DEF QueueInv, Bottom
  <2>3. CASE TopKind = "release"
    <3>1. depth \in 1..3
      BY <2>3, Contexts DEF QueueInv, TopKind
    <3>2. ASSUME Bottom.kind = "clearing"
          PROVE  FALSE
      <4>1. 1 \in 1..depth /\ frame[1].kind = "clearing"
        BY <3>1, <3>2 DEF Bottom
      <4>2. "add" \in ClearOps
        BY <2>3, <4>1 DEF Add, MayCall, Clearing
      <4>3. "clear" \in TopOps
        BY <3>2 DEF QueueInv, ServiceInv, ClearInv
      <4> QED
        BY <4>2, <4>3 DEF ClearIsComplete
    <3>3. Bottom.kind # "clear"
      BY <2>3, <3>1 DEF Bottom, TopKind, QueueInv, SafeInv, StackShape
    <3> QED
      BY <3>2, <3>3
  <2> QED
    BY <2>1, <2>2, <2>3 DEF Add, MayCall, ClientRuns
<1>9. ClearInv'
  BY <1>0, <1>8 DEF ClearInv
<1>10. RegistrationsExact'
  <2> SUFFICES ASSUME NEW g \in Handler
               PROVE  registered'[g] = Cardinality({m \in held' : node'[m].handler = g})
    BY DEF RegistrationsExact
  <2> DEFINE mine == {m \in held : node[m].handler = g}
  <2>1. IsFiniteSet(mine) /\ registered[g] = Cardinality(mine) /\ n \notin mine
    BY <1>0, HeldFinite DEF QueueInv, ServiceInv, RegistrationsExact
  <2>2. CASE g = h
    <3>1. {m \in held' : node'[m].handler = g} = mine \cup {n}
      BY <1>0, <1>1, <2>2 DEF TypeOK
    <3>2. Cardinality(mine \cup {n}) = Cardinality(mine) + 1
      BY <2>1, FS_AddElement
    <3> QED
      BY <1>1, <2>1, <2>2, <3>1, <3>2 DEF TypeOK
  <2>3. CASE g # h
    <3>1. {m \in held' : node'[m].handler = g} = mine
      BY <1>0, <1>1, <2>3 DEF TypeOK
    <3> QED
      BY <1>1, <2>1, <2>3, <3>1 DEF TypeOK
  <2> QED
    BY <2>2, <2>3
<1> QED
  BY <1>0, <1>5, <1>6, <1>7, <1>9, <1>10
    DEF QueueInv, ServiceInv, ProcessingInv, FiredRepeats

\* The interval of a timer matters only when its callback has returned.
LEMMA ServiceInvSetInterval ==
  ASSUME TypeOK, QueueInv,
         NEW n \in Node, NEW interval \in Intervals, SetInterval(n, interval)
  PROVE  ServiceInv'
<1>0. UNCHANGED <<Bottom, TopKind, frame, depth, heap, held, registered, processing>>
  BY DEF SetInterval, Bottom, TopKind
<1>1. \A m \in Node : node'[m].state = node[m].state /\ node'[m].handler = node[m].handler
  BY DEF SetInterval, TypeOK, NodeRecord
<1>2. CancelledInHeap' = CancelledInHeap /\ LiveInHeap' = LiveInHeap
  BY <1>0, <1>1, CountsKept DEF TypeOK
<1>3. TopKind # "fired"
  BY DEF SetInterval, MayCall, ClientRuns
<1>4. Bottom.kind = "fired" => Cancelled(Bottom.node)' = Cancelled(Bottom.node)
  BY <1>0, <1>1 DEF QueueInv, SafeInv, NodePlaces, Cancelled
<1>5. HalfInv'
  BY <1>0, <1>2, <1>4 DEF QueueInv, ServiceInv, HalfInv, Cancelled
<1>6. HeldInv'
  BY <1>0, <1>1 DEF QueueInv, ServiceInv, HeldInv, Live
<1>7. RegistrationsExact'
  BY <1>0, <1>1, RegistrationsKept DEF QueueInv, ServiceInv, TypeOK
<1> QED
  BY <1>0, <1>2, <1>3, <1>5, <1>6, <1>7
    DEF QueueInv, ServiceInv, ProcessingInv, FiredRepeats, ClearInv

\* The first half of cancel() gives up the handle and its registration.
LEMMA ServiceInvCancel ==
  ASSUME TypeOK, QueueInv, CallbacksDoNotReenter, NEW n \in Node, Cancel(n)
  PROVE  ServiceInv'
<1>0. /\ processing' = processing /\ heap' = heap
      /\ n \in held /\ Release(n)
      /\ depth + 1 <= MaxDepth /\ depth' = depth + 1
      /\ frame' = [frame EXCEPT ![depth + 1] = MakeFrame("release", n, 0)]
  BY DEF Cancel, Push
<1>1. depth = 0 \/ (depth = 2 /\ frame[1].kind = "fired")
  <2>1. TopKind \in {"none", "timeout"}
    BY ConstantsAssumption DEF Cancel, MayCall, CallbacksDoNotReenter
  <2> QED
    BY <2>1, Contexts DEF QueueInv
<1>2. /\ depth = 0 => Bottom.kind = "none" /\ Bottom'.kind = "release"
      /\ depth = 2 => Bottom.kind = "fired" /\ Bottom' = Bottom
      /\ TopKind' = "release"
  <2>1. depth + 1 \in 1..MaxDepth
    BY <1>0, <1>1, ConstantsAssumption
  <2>2. frame'[depth + 1].kind = "release" /\ (depth = 2 => frame'[1] = frame[1])
    BY <1>0, <1>1, <2>1 DEF TypeOK, MakeFrame
  <2> QED
    BY <1>0, <1>1, <2>2 DEF Bottom, TopKind, NoFrame
<1>3. ProcessingInv' /\ FiredRepeats' /\ HalfInv' /\ ClearInv'
  BY <1>0, <1>1, <1>2
    DEF QueueInv, ServiceInv, ProcessingInv, FiredRepeats, HalfInv, ClearInv
<1>4. HeldInv'
  <2>1. /\ \A m \in Node : m # n => node'[m] = node[m]
        /\ node'[n].state = "CANCELLED" /\ held' = held \ {n}
    BY <1>0 DEF Release, TypeOK, NodeRecord
  <2> QED
    BY <2>1 DEF QueueInv, ServiceInv, HeldInv, Live
<1>5. RegistrationsExact'
  BY <1>0, RegistrationsReleased DEF QueueInv, ServiceInv
<1> QED
  BY <1>3, <1>4, <1>5 DEF ServiceInv

\* The second half counts the node or purges the heap, so that at most half of the heap
\* is cancelled once it has run; it touches no live timer.
LEMMA ServiceInvEndCancel ==
  ASSUME TypeOK, QueueInv, EndCancel
  PROVE  ServiceInv'
<1> DEFINE n == frame[depth].node
           count == numCancelled + 1
           purge == count * 2 > Cardinality(heap)
           purged == IF purge THEN CancelledInHeap ELSE {}
<1>1. /\ TopKind = "release" /\ depth \in 1..3 /\ n \in Node /\ Cancelled(n)
      /\ Uncounted = 1
  <2>1. depth > 0 /\ TopKind = "release"
    BY DEF EndCancel, At
  <2>2. n \in Node /\ Cancelled(n)
    BY <2>1 DEF QueueInv, SafeInv, NodePlaces
  <2> QED
    BY <2>1, <2>2, Contexts DEF QueueInv, Uncounted
<1>2. /\ node' = [m \in Node |->
                    IF m \in purged THEN FreeNode
                    ELSE IF m = n THEN [node[n] EXCEPT !.handler = NoHandler]
                    ELSE node[m]]
      /\ heap' = heap \ purged
      /\ UNCHANGED <<held, registered, processing>>
      /\ depth' = depth - 1 /\ frame' = [frame EXCEPT ![depth] = NoFrame]
  <2>1. node[n].state # "FREE"
    BY <1>1 DEF Cancelled
  <2> QED
    BY <2>1 DEF EndCancel, Pop
<1>3. /\ \A m \in purged : m \in heap /\ Cancelled(m) /\ node'[m] = FreeNode
      /\ \A m \in Node \ purged : node'[m].state = node[m].state
      /\ \A m \in Node : ~Cancelled(m) => node'[m] = node[m]
  <2>1. \A m \in Node : node[m] \in NodeRecord
    BY DEF TypeOK
  <2>2. \A m \in purged : m \in heap /\ m \in Node /\ Cancelled(m)
    BY DEF CancelledInHeap, TypeOK
  <2> HIDE DEF purged, n
  <2> QED
    BY <1>1, <1>2, <2>1, <2>2 DEF NodeRecord
<1>4. /\ depth' = depth - 1
      /\ depth >= 2 => frame'[1] = frame[1]
      /\ depth = 3 => frame'[2] = frame[2]
  <2>1. depth \in 1..MaxDepth /\ frame \in [1..MaxDepth -> Frame]
    BY <1>1 DEF TypeOK
  <2> QED
    BY <1>1, <1>2, <2>1
<1>5. /\ depth = 1 => Bottom.kind = "release" /\ Bottom' = NoFrame
      /\ depth > 1 => Bottom' = Bottom /\ Bottom.kind \in {"fired", "clearing"}
  BY <1>1, <1>4 DEF Bottom, TopKind, QueueInv, SafeInv, StackShape
<1>6. ProcessingInv'
  <2>1. depth = 1 \/ depth > 1
    BY <1>1
  <2>2. CASE depth = 1
    BY <1>2, <1>5, <2>2 DEF QueueInv, ServiceInv, ProcessingInv, NoFrame
  <2>3. CASE depth > 1
    BY <1>2, <1>5, <2>3 DEF QueueInv, ServiceInv, ProcessingInv
  <2> QED
    BY <2>1, <2>2, <2>3
<1>7. Bottom.kind \in {"fired", "clearing"} => Bottom.node \in Node /\ Bottom.node \notin heap
  BY DEF QueueInv, SafeInv, NodePlaces
<1>8. FiredRepeats'
  <2> SUFFICES ASSUME TopKind' = "fired"
               PROVE  Cancelled(frame[depth].node)'
    BY DEF FiredRepeats
  <2>1. depth = 2
    BY <1>1, <1>4 DEF TopKind, QueueInv, SafeInv, StackShape
  <2>2. frame'[depth'].node = n /\ n \notin heap
    BY <1>4, <1>5, <1>7, <2>1 DEF QueueInv, SafeInv, StackShape, Bottom
  <2>3. n \notin purged
    BY <2>2 DEF CancelledInHeap
  <2>4. node'[n].state = "CANCELLED"
    <3> HIDE DEF purged, n
    <3> QED
      BY <1>1, <1>3, <2>3 DEF Cancelled
  <2> QED
    BY <2>2, <2>4 DEF Cancelled
<1>9. count = Cardinality(CancelledInHeap) + OutCounted
  BY <1>1, HeapFinite DEF QueueInv, SafeInv, CountInv, TypeOK, OutCounted
<1>10. HalfInv'
  <2>1. /\ IsFiniteSet(heap') /\ Cardinality(heap') \in Nat
    BY <1>2, HeapFinite, FS_Subset, FS_CardinalityType DEF TypeOK
  <2>2. CASE purge
    <3>1. CancelledInHeap' = {}
      <4>1. heap' = heap \ CancelledInHeap /\ \A m \in heap : ~Cancelled(m) => node'[m] = node[m]
        BY <1>2, <1>3, <2>2 DEF TypeOK
      <4> QED
        BY <4>1 DEF CancelledInHeap, Cancelled
    <3>2. Cardinality(CancelledInHeap') = 0
      BY <3>1, FS_EmptySet
    <3> QED
      BY <2>1, <3>2 DEF HalfInv
  <2>3. CASE ~purge
    <3>1. CancelledInHeap' = CancelledInHeap /\ heap' = heap
      BY <1>2, <1>3, <2>3 DEF CancelledInHeap, Cancelled, TypeOK
    <3>2. 2 * Cardinality(CancelledInHeap) <= Cardinality(heap)
      BY <1>9, <2>3, HeapFinite DEF OutCounted, TypeOK
    <3> QED
      BY <2>1, <3>1, <3>2, HeapFinite DEF HalfInv, TypeOK
  <2> QED
    BY <2>2, <2>3
<1>11. HeldInv'
  <2> HIDE DEF purged
  <2>1. \A m \in purged : ~Live(m) /\ ~Live(m)'
    BY <1>3 DEF Live, Cancelled, FreeNode
  <2>2. \A m \in Node : Live(m)' <=> Live(m)
    BY <1>3, <2>1 DEF Live
  <2> QED
    BY <1>2, <2>2 DEF QueueInv, ServiceInv, HeldInv
<1>12. ClearInv'
  <2>1. LiveInHeap' = LiveInHeap
    <3>1. heap \subseteq Node
      BY DEF TypeOK
    <3> HIDE DEF purged
    <3> QED
      BY <1>2, <1>3, <3>1 DEF LiveInHeap, Cancelled
  <2>2. Bottom'.kind \in {"clear", "clearing"} => Bottom' = Bottom
    BY <1>1, <1>5 DEF NoFrame
  <2> QED
    BY <2>1, <2>2 DEF QueueInv, ServiceInv, ClearInv
<1>13. RegistrationsExact'
  <2>1. \A m \in held : m \in Node /\ ~Cancelled(m)
    BY DEF QueueInv, SafeInv, HeldNotCancelled, TypeOK
  <2> HIDE DEF purged, n
  <2>2. \A m \in held : node'[m].handler = node[m].handler
    BY <1>3, <2>1
  <2> QED
    BY <1>2, <2>2, RegistrationsKept DEF QueueInv, ServiceInv
<1> QED
  BY <1>6, <1>8, <1>10, <1>11, <1>12, <1>13 DEF ServiceInv

\* process() and clear() start on an empty stack; clear() may cancel what is in the heap.
LEMMA ServiceInvCall ==
  ASSUME TypeOK, QueueInv, CallbacksDoNotReenter, ClearIsComplete,
         \/ \E now \in Times : Process(now)
         \/ \E call \in BOOLEAN : Clear(call)
  PROVE  ServiceInv'
<1>1. PICK f :
        /\ Push(f) /\ f.kind \in {"process", "clear"}
        /\ MayCall("process") \/ MayCall("clear")
        /\ f.kind = "clear" => MayCall("clear") /\ f.arg = Cardinality(heap)
  <2>1. ASSUME NEW now \in Times, Process(now)
        PROVE  Push(MakeFrame("process", NoNode, now)) /\ MayCall("process")
    BY <2>1 DEF Process
  <2>2. ASSUME NEW call \in BOOLEAN, Clear(call)
        PROVE  Push(MakeFrame("clear", NoNode, Cardinality(heap))) /\ MayCall("clear")
    <3>1. ~MayCall("drop")
      BY ConstantsAssumption DEF MayCall, ClearIsComplete, CallbacksDoNotReenter
    <3> QED
      BY <2>2, <3>1 DEF Clear
  <2>3. /\ \A now : MakeFrame("process", NoNode, now).kind = "process"
        /\ \A a : MakeFrame("clear", NoNode, a).kind = "clear"
                  /\ MakeFrame("clear", NoNode, a).arg = a
    BY DEF MakeFrame
  <2>4. CASE \E now \in Times : Process(now)
    BY <2>1, <2>3, <2>4
  <2>5. CASE \E call \in BOOLEAN : Clear(call)
    BY <2>2, <2>3, <2>5
  <2> QED
    BY <2>4, <2>5
<1>2. UNCHANGED <<node, heap, processing, registered, held>>
  BY DEF Process, Clear
<1>3. depth = 0 /\ Bottom = NoFrame
  BY <1>1, Contexts, ConstantsAssumption DEF MayCall, CallbacksDoNotReenter, Bottom, QueueInv
<1>4. TopKind' = f.kind /\ Bottom' = f
  BY <1>1, <1>3, ConstantsAssumption DEF Push, TypeOK, TopKind, Bottom
<1>5. CancelledInHeap' = CancelledInHeap /\ LiveInHeap' = LiveInHeap
  BY <1>2, CountsKept
<1>6. HalfInv'
  BY <1>1, <1>2, <1>3, <1>4, <1>5 DEF QueueInv, ServiceInv, HalfInv, NoFrame
<1>7. ClearInv'
  <2>1. Cardinality(LiveInHeap) <= Cardinality(heap)
    BY HeapFinite, FS_Subset DEF TypeOK, LiveInHeap
  <2>2. f.kind = "clear" => "clear" \in TopOps
    BY <1>1, ConstantsAssumption DEF MayCall, CallbacksDoNotReenter
  <2> QED
    BY <1>1, <1>4, <1>5, <2>1, <2>2 DEF ClearInv
<1>8. ProcessingInv' /\ FiredRepeats'
  BY <1>1, <1>2, <1>3, <1>4
    DEF QueueInv, ServiceInv, ProcessingInv, FiredRepeats, NoFrame
<1>9. HeldInv' /\ RegistrationsExact'
  BY <1>2 DEF QueueInv, ServiceInv, HeldInv, Live, RegistrationsExact
<1> QED
  BY <1>6, <1>7, <1>8, <1>9 DEF ServiceInv

\* handleTimeout returns: a one-shot timer is released, a repeating one keeps its handle.
LEMMA ServiceInvTimeoutReturns ==
  ASSUME TypeOK, QueueInv, TimeoutReturns
  PROVE  ServiceInv'
<1> DEFINE n == frame[2].node
<1>1. /\ depth = 2 /\ frame[2].kind = "timeout" /\ frame[1].kind = "fired"
      /\ frame[1].node = n /\ n \in Node /\ TopKind = "timeout" /\ Bottom = frame[1]
      /\ n \notin heap /\ node[n].state \in {"EXECUTING", "CANCELLED"}
  <2>1. depth = 2 /\ TopKind = "timeout"
    BY Contexts DEF QueueInv, TimeoutReturns, At
  <2> QED
    BY <2>1 DEF TopKind, Bottom, QueueInv, SafeInv, StackShape, NodePlaces
<1>2. UNCHANGED <<heap, processing>> /\ 1 \in 1..MaxDepth /\ 2 \in 1..MaxDepth
  BY <1>1, ConstantsAssumption DEF TimeoutReturns, TypeOK
<1>3. CASE node[n].interval = 0 /\ ~Cancelled(n)
  <2>1. Release(n) /\ depth' = 2
          /\ frame' = [frame EXCEPT ![2] = MakeFrame("release", n, 0)]
    BY <1>1, <1>3 DEF TimeoutReturns, Replace
  <2>2. frame'[1] = frame[1] /\ frame'[2].kind = "release"
    BY <1>2, <2>1 DEF MakeFrame, TypeOK
  <2>3. TopKind' = "release" /\ Bottom' = Bottom
    BY <1>1, <2>1, <2>2 DEF TopKind, Bottom
  <2>4. Live(n) /\ n \in held
    BY <1>1, <1>3 DEF QueueInv, ServiceInv, HeldInv, Live, Cancelled
  <2>5. /\ \A m \in Node : m # n => node'[m] = node[m]
        /\ node'[n].state = "CANCELLED" /\ held' = held \ {n}
    BY <1>1, <2>1 DEF Release, TypeOK, NodeRecord
  <2>6. HeldInv'
    BY <2>5 DEF QueueInv, ServiceInv, HeldInv, Live
  <2>7. RegistrationsExact'
    BY <2>1, <2>4, RegistrationsReleased DEF QueueInv, ServiceInv
  <2> QED
    BY <1>1, <1>2, <2>3, <2>6, <2>7
      DEF QueueInv, ServiceInv, ProcessingInv, FiredRepeats, HalfInv, ClearInv
<1>4. CASE ~(node[n].interval = 0 /\ ~Cancelled(n))
  <2>1. /\ UNCHANGED <<node, registered, held>>
        /\ depth' = 1 /\ frame' = [frame EXCEPT ![2] = NoFrame]
    BY <1>1, <1>4 DEF TimeoutReturns, Pop
  <2>2. frame'[1] = frame[1]
    BY <1>2, <2>1 DEF TypeOK
  <2>3. TopKind' = "fired" /\ Bottom' = Bottom
    BY <1>1, <2>1, <2>2 DEF TopKind, Bottom
  <2>4. CancelledInHeap' = CancelledInHeap
    BY <1>2, <2>1, CountsKept
  <2>5. FiredRepeats'
    <3>1. frame'[depth'].node = n
      BY <1>1, <2>1, <2>2
    <3> QED
      BY <1>4, <2>1, <3>1 DEF FiredRepeats, Cancelled
  <2>6. HalfInv'
    <3>1. 2 * Cardinality(CancelledInHeap)
            <= Cardinality(heap) + (IF Cancelled(Bottom.node) THEN 0 ELSE 1)
      BY <1>1 DEF QueueInv, ServiceInv, HalfInv
    <3>2. Cancelled(Bottom.node)' <=> Cancelled(Bottom.node)
      BY <2>1, <2>3 DEF Cancelled
    <3> QED
      BY <1>1, <1>2, <2>3, <2>4, <3>1, <3>2 DEF HalfInv
  <2>7. HeldInv' /\ RegistrationsExact'
    BY <2>1 DEF QueueInv, ServiceInv, HeldInv, Live, RegistrationsExact
  <2> QED
    BY <1>1, <1>2, <2>3, <2>5, <2>6, <2>7 DEF QueueInv, ServiceInv, ProcessingInv, ClearInv
<1> QED
  BY <1>3, <1>4

\* Deleting a cancelled node touches no handle, in the heap or out of it.
LEMMA CancelledDeleted ==
  ASSUME TypeOK, QueueInv, NEW n \in Node, Cancelled(n),
         node' = [node EXCEPT ![n] = FreeNode], UNCHANGED <<held, registered>>
  PROVE  HeldInv' /\ RegistrationsExact'
<1>1. \A m \in Node : m # n => node'[m] = node[m]
  BY DEF TypeOK
<1>2. node'[n].state = "FREE" /\ node[n].state = "CANCELLED"
  BY DEF TypeOK, FreeNode, Cancelled
<1>3. \A m \in Node : Live(m)' <=> Live(m)
  BY <1>1, <1>2 DEF Live
<1>4. HeldInv'
  BY <1>3 DEF QueueInv, ServiceInv, HeldInv
<1>5. n \notin held
  BY DEF QueueInv, SafeInv, HeldNotCancelled
<1>6. \A m \in held : node'[m].handler = node[m].handler
  BY <1>1, <1>5 DEF TypeOK
<1> QED
  BY <1>4, <1>6, RegistrationsKept DEF QueueInv, ServiceInv

\* process() drops a cancelled top: the heap loses one node, and one cancelled node.
LEMMA ServiceInvProcessCancelled ==
  ASSUME TypeOK, QueueInv, NEW n \in Node, ProcessCancelled(n)
  PROVE  ServiceInv'
<1>1. /\ TopKind = "process" /\ Bottom.kind = "process" /\ n \in heap /\ Cancelled(n)
  BY BottomFrame DEF QueueInv, ProcessCancelled, IsTop
<1>2. /\ UNCHANGED <<frame, depth, held, registered, Bottom, TopKind>>
      /\ heap' = heap \ {n} /\ node' = [node EXCEPT ![n] = FreeNode]
  BY DEF ProcessCancelled, DeleteProcessed, Bottom, TopKind
<1>3. n \in CancelledInHeap /\ CancelledInHeap' = CancelledInHeap \ {n}
  BY <1>1, <1>2 DEF CancelledInHeap, Cancelled, TypeOK
<1>4. /\ Cardinality(CancelledInHeap') = Cardinality(CancelledInHeap) - 1
      /\ Cardinality(heap') = Cardinality(heap) - 1
  BY <1>1, <1>2, <1>3, HeapFinite, FS_RemoveElement DEF TypeOK
<1>5. HalfInv'
  BY <1>1, <1>2, <1>4, HeapFinite DEF QueueInv, ServiceInv, HalfInv, TypeOK
<1>6. HeldInv' /\ RegistrationsExact'
  BY <1>1, <1>2, CancelledDeleted
<1> QED
  BY <1>1, <1>2, <1>5, <1>6 DEF ServiceInv, ProcessingInv, FiredRepeats, ClearInv

\* process() takes the due top out of the heap: the bound on cancelled nodes shifts by one.
LEMMA ServiceInvProcessDue ==
  ASSUME TypeOK, QueueInv, NEW n \in Node, ProcessDue(n)
  PROVE  ServiceInv'
<1>1. /\ depth = 1 /\ Bottom.kind = "process" /\ TopKind = "process"
      /\ n \in heap /\ ~Cancelled(n) /\ 1 \in 1..MaxDepth
  BY BottomFrame DEF QueueInv, ProcessDue, IsTop
<1>2. UNCHANGED <<held, registered>> /\ heap' = heap \ {n} /\ processing' = n
  BY DEF ProcessDue
<1>3. /\ \A m \in Node : m # n => node'[m] = node[m]
      /\ node'[n].state = "EXECUTING" /\ node'[n].handler = node[n].handler
  BY DEF ProcessDue, TypeOK, NodeRecord
<1>4. /\ depth' = 2
      /\ frame'[1] = MakeFrame("fired", n, frame[1].arg)
      /\ frame'[2] = MakeFrame("timeout", n, 0)
  BY <1>1 DEF ProcessDue, ReplacePush, TypeOK
<1>5. TopKind' = "timeout" /\ Bottom' = MakeFrame("fired", n, frame[1].arg)
  BY <1>4 DEF TopKind, Bottom, MakeFrame
<1>6. CancelledInHeap' = CancelledInHeap
  BY <1>1, <1>2, <1>3 DEF CancelledInHeap, Cancelled, TypeOK
<1>7. Cardinality(heap') = Cardinality(heap) - 1
  BY <1>1, <1>2, HeapFinite, FS_RemoveElement DEF TypeOK
<1>8. ~Cancelled(n)'
  BY <1>3 DEF Cancelled
<1>9. HalfInv'
  <2>1. 2 * Cardinality(CancelledInHeap) <= Cardinality(heap') + 1
    BY <1>1, <1>7, HeapFinite DEF QueueInv, ServiceInv, HalfInv, TypeOK
  <2>2. Bottom'.kind = "fired" /\ Bottom'.node = n
    BY <1>5 DEF MakeFrame
  <2> QED
    BY <1>6, <1>8, <2>1, <2>2 DEF HalfInv, Cancelled
<1>10. HeldInv'
  <2>1. Live(n)
    BY <1>1, LiveStates DEF QueueInv, SafeInv, NodePlaces, Cancelled
  <2> QED
    BY <1>2, <1>3, <2>1 DEF QueueInv, ServiceInv, HeldInv, Live
<1>11. RegistrationsExact'
  BY <1>2, <1>3, RegistrationsKept DEF QueueInv, ServiceInv, TypeOK
<1> QED
  BY <1>2, <1>5, <1>9, <1>10, <1>11
    DEF ServiceInv, ProcessingInv, FiredRepeats, ClearInv, MakeFrame

\* The timer that fired goes back on the heap, or is deleted.
LEMMA ServiceInvFinishFired ==
  ASSUME TypeOK, QueueInv, FinishFired
  PROVE  ServiceInv'
<1> DEFINE n == frame[1].node
<1>1. /\ depth = 1 /\ TopKind = "fired" /\ Bottom = frame[1] /\ Bottom.kind = "fired"
      /\ 1 \in 1..MaxDepth
  BY BottomFrame DEF QueueInv, FinishFired
<1>2. n \in Node /\ n \notin heap /\ node[n].state \in {"EXECUTING", "CANCELLED"}
  BY <1>1 DEF QueueInv, SafeInv, NodePlaces
<1>3. /\ depth' = 1 /\ frame'[1] = MakeFrame("process", NoNode, frame[1].arg)
      /\ UNCHANGED <<held, registered>>
  BY <1>1 DEF FinishFired, Replace, TypeOK
<1>4. TopKind' = "process" /\ Bottom'.kind = "process"
  BY <1>3 DEF TopKind, Bottom, MakeFrame
<1>5. 2 * Cardinality(CancelledInHeap)
        <= Cardinality(heap) + (IF Cancelled(n) THEN 0 ELSE 1)
  BY <1>1 DEF QueueInv, ServiceInv, HalfInv
<1>6. CASE Cancelled(n)
  <2>1. heap' = heap /\ node' = [node EXCEPT ![n] = FreeNode]
    BY <1>1, <1>6 DEF FinishFired, DeleteProcessed
  <2>2. CancelledInHeap' = CancelledInHeap
    BY <1>2, <2>1 DEF CancelledInHeap, Cancelled, TypeOK
  <2>3. HalfInv'
    BY <1>4, <1>5, <1>6, <2>1, <2>2, HeapFinite DEF HalfInv, TypeOK
  <2>4. HeldInv' /\ RegistrationsExact'
    BY <1>2, <1>3, <1>6, <2>1, CancelledDeleted
  <2> QED
    BY <1>4, <2>3, <2>4 DEF ServiceInv, ProcessingInv, FiredRepeats, ClearInv
<1>7. CASE ~Cancelled(n)
  <2>1. heap' = heap \cup {n}
    BY <1>1, <1>7 DEF FinishFired
  <2>2. \A m \in Node : m # n => node'[m] = node[m]
    BY <1>1, <1>7 DEF FinishFired, TypeOK
  <2>3. node'[n].state = "PENDING" /\ node'[n].handler = node[n].handler
    <3>1. node[n] \in NodeRecord
      BY <1>2 DEF TypeOK
    <3>2. node' = [node EXCEPT ![n] = [node[n] EXCEPT !.state = "PENDING",
                     !.time = (node[n].time + node[n].interval) % TimeMod]]
      BY <1>1, <1>7 DEF FinishFired
    <3> QED
      BY <1>2, <3>1, <3>2 DEF TypeOK, NodeRecord
  <2>4. CancelledInHeap' = CancelledInHeap
    BY <1>2, <2>1, <2>2, <2>3 DEF CancelledInHeap, Cancelled, TypeOK
  <2>5. Cardinality(heap') = Cardinality(heap) + 1
    BY <1>2, <2>1, HeapFinite, FS_AddElement DEF TypeOK
  <2>6. HalfInv'
    BY <1>4, <1>5, <1>7, <2>4, <2>5, HeapFinite DEF HalfInv, TypeOK
  <2>7. HeldInv'
    <3>1. node[n].state = "EXECUTING"
      BY <1>2, <1>7 DEF Cancelled
    <3>2. \A m \in Node : Live(m)' <=> Live(m)
      BY <2>2, <2>3, <3>1 DEF Live
    <3> QED
      BY <1>3, <3>2 DEF QueueInv, ServiceInv, HeldInv
  <2>8. RegistrationsExact'
    BY <1>3, <2>2, <2>3, RegistrationsKept DEF QueueInv, ServiceInv, TypeOK
  <2> QED
    BY <1>4, <2>6, <2>7, <2>8 DEF ServiceInv, ProcessingInv, FiredRepeats, ClearInv
<1> QED
  BY <1>6, <1>7

\* process() and clear() return; clear() has emptied the heap.
LEMMA ServiceInvReturns ==
  ASSUME TypeOK, QueueInv, ProcessReturns \/ ClearReturns
  PROVE  ServiceInv'
<1>1. /\ depth = 1 /\ Bottom.kind \in {"process", "clear"}
      /\ ProcessReturns => Bottom.kind = "process"
      /\ ClearReturns => Bottom.kind = "clear"
  BY BottomFrame DEF QueueInv, ProcessReturns, ClearReturns
<1>2. depth' = 0 /\ UNCHANGED <<node, heap, held, registered>>
  BY <1>1 DEF ProcessReturns, ClearReturns, Pop
<1>3. TopKind' = "none" /\ Bottom' = NoFrame
  BY <1>2 DEF TopKind, Bottom
<1>4. CancelledInHeap' = CancelledInHeap
  BY <1>2, CountsKept
<1>5. 2 * Cardinality(CancelledInHeap) <= Cardinality(heap)
  <2>1. CASE ProcessReturns
    BY <1>1, <2>1 DEF QueueInv, ServiceInv, HalfInv
  <2>2. CASE ClearReturns
    <3>1. heap = {} /\ CancelledInHeap = {}
      BY <2>2 DEF ClearReturns, CancelledInHeap
    <3> QED
      BY <3>1, FS_EmptySet
  <2> QED
    BY <2>1, <2>2
<1>6. HalfInv'
  BY <1>2, <1>3, <1>4, <1>5 DEF HalfInv, NoFrame
<1>7. processing' = NoNode
  BY <1>1 DEF ProcessReturns, ClearReturns, QueueInv, ServiceInv, ProcessingInv
<1>8. HeldInv' /\ RegistrationsExact'
  BY <1>2 DEF QueueInv, ServiceInv, HeldInv, Live, RegistrationsExact
<1> QED
  BY <1>3, <1>6, <1>7, <1>8 DEF ServiceInv, ProcessingInv, FiredRepeats, ClearInv, NoFrame

\* clear() cancels one live timer, which uses up one of its cancels.
LEMMA ServiceInvClearCancel ==
  ASSUME TypeOK, QueueInv, NEW n \in Node, ClearCancel(n)
  PROVE  ServiceInv'
<1>1. /\ depth = 1 /\ Bottom = frame[1] /\ Bottom.kind = "clear" /\ 1 \in 1..MaxDepth
      /\ n \in heap /\ ~Cancelled(n)
  BY BottomFrame DEF QueueInv, ClearCancel, IsBack
<1>2. heap' = heap \ {n} /\ processing' = processing /\ Release(n)
  BY DEF ClearCancel
<1>3. /\ depth' = 2
      /\ frame'[1] = MakeFrame("clearing", n, frame[1].arg)
      /\ frame'[2] = MakeFrame("release", n, 0)
  BY <1>1 DEF ClearCancel, ReplacePush, TypeOK
<1>4. /\ TopKind' = "release" /\ Bottom'.kind = "clearing" /\ Bottom'.arg = Bottom.arg
  BY <1>1, <1>3 DEF TopKind, Bottom, MakeFrame
<1>5. /\ \A m \in Node : m # n => node'[m] = node[m]
      /\ node'[n].state = "CANCELLED" /\ held' = held \ {n}
  BY <1>2 DEF Release, TypeOK, NodeRecord
<1>6. n \in LiveInHeap /\ LiveInHeap' = LiveInHeap \ {n}
  BY <1>1, <1>2, <1>5 DEF LiveInHeap, Cancelled, TypeOK
<1>7. Cardinality(LiveInHeap') = Cardinality(LiveInHeap) - 1
  BY <1>6, LiveFinite, FS_RemoveElement
<1>8. ClearInv'
  <2>1. "clear" \in TopOps /\ Cardinality(LiveInHeap) <= Bottom.arg
    BY <1>1 DEF QueueInv, ServiceInv, ClearInv
  <2>2. Bottom.arg \in Int
    BY <1>1, TopFrame DEF ClearCancel
  <2> QED
    BY <1>4, <1>7, <2>1, <2>2, LiveFinite DEF ClearInv
<1>9. HeldInv'
  BY <1>5 DEF QueueInv, ServiceInv, HeldInv, Live
<1>10. RegistrationsExact'
  <2>1. n \in held
    BY <1>1, LiveStates DEF QueueInv, SafeInv, NodePlaces, Cancelled, ServiceInv, HeldInv
  <2> QED
    BY <1>2, <2>1, RegistrationsReleased DEF QueueInv, ServiceInv
<1> QED
  BY <1>1, <1>2, <1>4, <1>8, <1>9, <1>10
    DEF QueueInv, ServiceInv, ProcessingInv, FiredRepeats, HalfInv

\* It deletes the timer it cancelled.
LEMMA ServiceInvClearCancelled ==
  ASSUME TypeOK, QueueInv, ClearCancelled
  PROVE  ServiceInv'
<1> DEFINE n == frame[1].node
<1>1. /\ depth = 1 /\ Bottom = frame[1] /\ Bottom.kind = "clearing" /\ 1 \in 1..MaxDepth
  BY BottomFrame DEF QueueInv, ClearCancelled
<1>2. n \in Node /\ n \notin heap /\ Cancelled(n)
  BY <1>1 DEF QueueInv, SafeInv, NodePlaces, Cancelled
<1>3. /\ depth' = 1 /\ frame'[1] = MakeFrame("clear", NoNode, frame[1].arg - 1)
      /\ node' = [node EXCEPT ![n] = FreeNode]
      /\ UNCHANGED <<heap, held, registered, processing>>
  BY <1>1 DEF ClearCancelled, Replace, TypeOK
<1>4. TopKind' = "clear" /\ Bottom'.kind = "clear" /\ Bottom'.arg = Bottom.arg - 1
  BY <1>1, <1>3 DEF TopKind, Bottom, MakeFrame
<1>5. LiveInHeap' = LiveInHeap
  BY <1>2, <1>3 DEF LiveInHeap, Cancelled, TypeOK
<1>6. HeldInv' /\ RegistrationsExact'
  BY <1>2, <1>3, CancelledDeleted
<1> QED
  BY <1>1, <1>3, <1>4, <1>5, <1>6
    DEF QueueInv, ServiceInv, ProcessingInv, FiredRepeats, HalfInv, ClearInv

\* What it deletes without a cancel was cancelled before: its cancels suffice.
LEMMA ServiceInvClearDelete ==
  ASSUME TypeOK, QueueInv, NEW n \in Node, ClearDelete(n)
  PROVE  ServiceInv'
<1>1. /\ depth = 1 /\ Bottom = frame[1] /\ Bottom.kind = "clear" /\ n \in heap
  BY BottomFrame DEF QueueInv, ClearDelete, IsBack
<1>2. /\ UNCHANGED <<frame, depth, held, registered, processing, Bottom, TopKind>>
      /\ heap' = heap \ {n} /\ node' = [node EXCEPT ![n] = FreeNode]
  BY DEF ClearDelete, Bottom, TopKind
<1>3. Cancelled(n)
  <2> SUFFICES ASSUME frame[1].arg = 0, n \in LiveInHeap PROVE FALSE
    BY <1>1 DEF ClearDelete, LiveInHeap
  <2>1. Cardinality(LiveInHeap) = 0
    BY <1>1, LiveFinite DEF QueueInv, ServiceInv, ClearInv
  <2> QED
    BY <2>1, LiveFinite, FS_EmptySet
<1>4. LiveInHeap' = LiveInHeap
  BY <1>2, <1>3 DEF LiveInHeap, Cancelled, TypeOK
<1>5. HeldInv' /\ RegistrationsExact'
  BY <1>2, <1>3, CancelledDeleted
<1> QED
  BY <1>1, <1>2, <1>4, <1>5, BottomFrame
    DEF ClearDelete, QueueInv, ServiceInv, ProcessingInv, FiredRepeats, HalfInv, ClearInv

\* So every step keeps it.
LEMMA ServiceInvNext ==
  ASSUME TypeOK, QueueInv, CallbacksDoNotReenter, ClearIsComplete, [Next]_vars
  PROVE  ServiceInv'
<1>1. CASE UNCHANGED vars
  <2>1. UNCHANGED <<Bottom, TopKind, CancelledInHeap, LiveInHeap>>
    BY <1>1 DEF vars, Bottom, TopKind, CancelledInHeap, LiveInHeap, Cancelled
  <2> QED
    BY <1>1, <2>1
      DEF vars, QueueInv, ServiceInv, ProcessingInv, FiredRepeats, HalfInv, HeldInv, ClearInv,
          RegistrationsExact, Cancelled, Live
<1> QED
  BY <1>1, ServiceInvAdd, ServiceInvSetInterval, ServiceInvCancel, ServiceInvCall,
     ServiceInvEndCancel, ServiceInvTimeoutReturns, ServiceInvProcessCancelled,
     ServiceInvProcessDue, ServiceInvFinishFired, ServiceInvReturns, ServiceInvClearCancel,
     ServiceInvClearCancelled, ServiceInvClearDelete
    DEF Next, ClientCall, CallbackReturns, QueueStep

-----------------------------------------------------------------------------
(* What clients may rely on.                                                 *)

\* The inductive invariant of the queue, behind every theorem below.
THEOREM AlwaysQueueInv ==
  ASSUME CallbacksDoNotReenter, ClearIsComplete
  PROVE  Spec => [](TypeOK /\ QueueInv)
<1>1. Init => TypeOK /\ QueueInv
  BY TypeInit, SafeInit, ServiceInvInit DEF QueueInv
<1>2. TypeOK /\ QueueInv /\ [Next]_vars => (TypeOK /\ QueueInv)'
  BY TypeNext, SafeNext, ServiceInvNext DEF QueueInv
<1> QED
  BY <1>1, <1>2, PTL DEF Spec

\* Between calls at most half of the queue is cancelled nodes: a purge is never missed.
THEOREM AlwaysAtMostHalfCancelled ==
  ASSUME CallbacksDoNotReenter, ClearIsComplete
  PROVE  Spec => []AtMostHalfCancelled
<1>1. QueueInv => AtMostHalfCancelled
  BY DEF QueueInv, ServiceInv, HalfInv, AtMostHalfCancelled, Bottom, NoFrame
<1> QED
  BY <1>1, AlwaysQueueInv, PTL

\* The node of a handle that was not released is pending in the heap, or executing in the
\* call of process() that popped it: cancel() and the interval reference reach a timer.
THEOREM AlwaysHandlesAreLive ==
  ASSUME CallbacksDoNotReenter, ClearIsComplete
  PROVE  Spec => []HandlesAreLive
<1>1. TypeOK /\ QueueInv => HandlesAreLive
  <2> SUFFICES ASSUME TypeOK, QueueInv, NEW n \in held
               PROVE  \/ n \in heap /\ node[n].state = "PENDING"
                      \/ /\ node[n].state = "EXECUTING"
                         /\ \E i \in 1..depth : frame[i].kind = "fired" /\ frame[i].node = n
    BY DEF HandlesAreLive
  <2>1. n \in Node /\ node[n].state \in {"PENDING", "EXECUTING"}
    BY DEF QueueInv, ServiceInv, HeldInv, Live
  <2>2. CASE node[n].state = "PENDING"
    BY <2>1, <2>2 DEF QueueInv, SafeInv, NodePlaces
  <2>3. CASE node[n].state = "EXECUTING"
    <3>1. Bottom.kind = "fired" /\ Bottom.node = n
      BY <2>1, <2>3 DEF QueueInv, SafeInv, NodePlaces
    <3>2. 1 \in 1..depth /\ Bottom = frame[1]
      BY <3>1, Contexts DEF QueueInv, Bottom, NoFrame
    <3> QED
      BY <2>3, <3>1, <3>2
  <2> QED
    BY <2>1, <2>2, <2>3
<1> QED
  BY <1>1, AlwaysQueueInv, PTL

\* A handler's count is the number of its timers that onRelease was not called for, so
\* that the assertion in ~TimerHandler() holds once they all are released.
THEOREM RegistrationsAlwaysExact ==
  ASSUME CallbacksDoNotReenter, ClearIsComplete
  PROVE  Spec => []RegistrationsExact
<1>1. QueueInv => RegistrationsExact
  BY DEF QueueInv, ServiceInv
<1> QED
  BY <1>1, AlwaysQueueInv, PTL

\* Whenever client code runs, legal() accepts every handle it holds and no dangling one.
THEOREM LegalAlwaysExact ==
  ASSUME CallbacksDoNotReenter, ClearIsComplete
  PROVE  Spec => []LegalIsExact
<1>1. TypeOK /\ QueueInv => LegalIsExact
  <2> SUFFICES ASSUME TypeOK, QueueInv, ClientRuns, NEW n \in Node
               PROVE  (n \in held => Legal(n)) /\ (Legal(n) => node[n].state # "FREE")
    BY DEF LegalIsExact
  <2>1. Bottom.kind # "process"
    BY Contexts DEF QueueInv, SafeInv, StackShape, ClientRuns, TopKind, Bottom, NoFrame
  <2>2. processing = IF Bottom.kind = "fired" THEN Bottom.node ELSE NoNode
    BY <2>1 DEF QueueInv, ServiceInv, ProcessingInv
  <2>3. n \in held => Legal(n)
    BY <2>2 DEF QueueInv, ServiceInv, HeldInv, Live, Legal, SafeInv, NodePlaces
  <2>4. Legal(n) => node[n].state # "FREE"
    BY <2>2, ConstantsAssumption DEF QueueInv, Legal, SafeInv, NodePlaces
  <2> QED
    BY <2>3, <2>4
<1> QED
  BY <1>1, AlwaysQueueInv, PTL

-----------------------------------------------------------------------------
(* The queue implements TimerService.                                        *)

\* What the service sees of one timer.
LEMMA ServiceView ==
  /\ DOMAIN servicePhase = Node /\ DOMAIN serviceDue = Node /\ DOMAIN servicePeriod = Node
  /\ \A n \in Node :
       /\ servicePhase[n] = "armed" <=> node[n].state = "PENDING"
       /\ servicePhase[n] = "firing" <=> node[n].state = "EXECUTING"
       /\ servicePhase[n] = "idle" <=> ~Live(n)
       /\ serviceDue[n] = IF Live(n) THEN node[n].time ELSE 0
       /\ servicePeriod[n] = IF Live(n) THEN node[n].interval ELSE 0
BY DEF servicePhase, serviceDue, servicePeriod, Live

\* A step that only changes nodes that are not live, before and after, is invisible.
LEMMA Invisible ==
  ASSUME \A n \in Node : node'[n] = node[n] \/ (~Live(n) /\ ~Live(n)')
  PROVE  UNCHANGED Service!svars
<1>1. \A n \in Node : /\ servicePhase'[n] = servicePhase[n]
                     /\ serviceDue'[n] = serviceDue[n]
                     /\ servicePeriod'[n] = servicePeriod[n]
  BY DEF servicePhase, serviceDue, servicePeriod, Live
<1>2. servicePhase' = servicePhase
  BY <1>1 DEF servicePhase
<1>3. serviceDue' = serviceDue
  BY <1>1 DEF serviceDue
<1>4. servicePeriod' = servicePeriod
  BY <1>1 DEF servicePeriod
<1> QED
  BY <1>2, <1>3, <1>4 DEF Service!svars

\* A step that changes one node changes what the service sees of that timer only.
LEMMA OneTimer ==
  ASSUME NEW n \in Node, \A m \in Node : m # n => node'[m] = node[m],
         NEW phase, NEW due, NEW period,
         servicePhase'[n] = phase, serviceDue'[n] = due, servicePeriod'[n] = period
  PROVE  /\ servicePhase' = [servicePhase EXCEPT ![n] = phase]
         /\ serviceDue' = [serviceDue EXCEPT ![n] = due]
         /\ servicePeriod' = [servicePeriod EXCEPT ![n] = period]
<1>1. \A m \in Node : m # n => /\ servicePhase'[m] = servicePhase[m]
                               /\ serviceDue'[m] = serviceDue[m]
                               /\ servicePeriod'[m] = servicePeriod[m]
  BY DEF servicePhase, serviceDue, servicePeriod, Live
<1>2. servicePhase' = [servicePhase EXCEPT ![n] = phase]
  <2>1. /\ servicePhase = [m \in Node |-> servicePhase[m]]
        /\ servicePhase' = [m \in Node |-> servicePhase'[m]]
    BY DEF servicePhase
  <2> QED
    BY <1>1, <2>1
<1>3. serviceDue' = [serviceDue EXCEPT ![n] = due]
  BY <1>1 DEF serviceDue
<1>4. servicePeriod' = [servicePeriod EXCEPT ![n] = period]
  BY <1>1 DEF servicePeriod
<1> QED
  BY <1>2, <1>3, <1>4

\* Releasing a live timer disarms it.
LEMMA ReleaseDisarms ==
  ASSUME TypeOK, NEW n \in Node, Live(n), Release(n)
  PROVE  Service!Next
<1>1. /\ \A m \in Node : m # n => node'[m] = node[m]
      /\ node'[n].state = "CANCELLED"
  BY DEF Release, TypeOK, NodeRecord
<1>2. ~Live(n)'
  BY <1>1 DEF Live
<1>3. servicePhase'[n] = "idle" /\ serviceDue'[n] = 0 /\ servicePeriod'[n] = 0
  BY <1>1, <1>2 DEF servicePhase, serviceDue, servicePeriod
<1>4. servicePhase[n] # "idle"
  BY ServiceView
<1>5. Service!Disarm(n)
  BY <1>1, <1>3, <1>4, OneTimer DEF Service!Disarm
<1> QED
  BY <1>5 DEF Service!Next

\* The new timer is armed.
LEMMA AddArms ==
  ASSUME TypeOK, NEW n \in Node, NEW start \in Times, NEW interval \in Intervals,
         NEW h \in Handler, Add(n, start, interval, h)
  PROVE  Service!Next
<1>1. /\ node[n].state = "FREE" /\ \A m \in Node : m # n => node'[m] = node[m]
      /\ node'[n].state = "PENDING" /\ node'[n].time = start
      /\ node'[n].interval = interval
  BY DEF Add, TypeOK
<1>2. servicePhase[n] = "idle"
  BY <1>1, ServiceView DEF Live
<1>3. servicePhase'[n] = "armed" /\ serviceDue'[n] = start /\ servicePeriod'[n] = interval
  BY <1>1 DEF servicePhase, serviceDue, servicePeriod, Live
<1>4. Service!Arm(n, start, interval)
  BY <1>1, <1>2, <1>3, OneTimer DEF Service!Arm
<1>5. start \in Service!TimeStamp /\ interval \in Service!TimeStamp
  BY ConstantsAssumption DEF Service!TimeStamp
<1> QED
  BY <1>4, <1>5 DEF Service!Next

\* The interval reference of a handle sets the period of its timer.
LEMMA IntervalSetsPeriod ==
  ASSUME TypeOK, QueueInv,
         NEW n \in Node, NEW interval \in Intervals, SetInterval(n, interval)
  PROVE  Service!Next
<1>1. /\ Live(n) /\ \A m \in Node : m # n => node'[m] = node[m]
      /\ node'[n].state = node[n].state /\ node'[n].time = node[n].time
      /\ node'[n].interval = interval
  BY DEF SetInterval, TypeOK, NodeRecord, QueueInv, ServiceInv, HeldInv
<1>2. Live(n)'
  BY <1>1 DEF Live
<1>3. servicePhase[n] # "idle"
  BY <1>1, ServiceView
<1>4. /\ servicePhase'[n] = servicePhase[n] /\ serviceDue'[n] = serviceDue[n]
      /\ servicePeriod'[n] = interval
  BY <1>1, <1>2 DEF servicePhase, serviceDue, servicePeriod
<1>5. /\ servicePhase' = [servicePhase EXCEPT ![n] = servicePhase[n]]
      /\ serviceDue' = [serviceDue EXCEPT ![n] = serviceDue[n]]
      /\ servicePeriod' = [servicePeriod EXCEPT ![n] = interval]
  BY <1>1, <1>4, OneTimer
<1>6. Service!SetPeriod(n, interval)
  BY <1>3, <1>5 DEF Service!SetPeriod, servicePhase, serviceDue
<1>7. interval \in Service!TimeStamp
  BY ConstantsAssumption DEF Service!TimeStamp
<1> QED
  BY <1>6, <1>7 DEF Service!Next

\* The top of the heap is due before every other armed timer: firing keeps the order.
LEMMA DueFires ==
  ASSUME TypeOK, QueueInv, NEW n \in Node, ProcessDue(n)
  PROVE  Service!Next
<1>1. /\ n \in heap /\ node[n].state = "PENDING"
      /\ \A m \in heap : node[n].time <= node[m].time
  BY DEF ProcessDue, IsTop, QueueInv, SafeInv, NodePlaces, Cancelled
<1>2. /\ \A m \in Node : m # n => node'[m] = node[m]
      /\ node'[n].state = "EXECUTING" /\ node'[n].time = node[n].time
      /\ node'[n].interval = node[n].interval
  BY DEF ProcessDue, TypeOK, NodeRecord
<1>3. servicePhase[n] = "armed"
  BY <1>1, ServiceView
<1>4. ASSUME NEW m \in Node, servicePhase[m] = "armed"
      PROVE  serviceDue[n] <= serviceDue[m]
  <2>1. m \in heap /\ Live(m) /\ Live(n)
    BY <1>1, <1>4, ServiceView DEF Live, QueueInv, SafeInv, NodePlaces
  <2> QED
    BY <1>1, <2>1 DEF serviceDue
<1>5. /\ servicePhase'[n] = "firing" /\ serviceDue'[n] = serviceDue[n]
      /\ servicePeriod'[n] = servicePeriod[n]
  BY <1>1, <1>2 DEF servicePhase, serviceDue, servicePeriod, Live
<1>6. /\ servicePhase' = [servicePhase EXCEPT ![n] = "firing"]
      /\ serviceDue' = [serviceDue EXCEPT ![n] = serviceDue[n]]
      /\ servicePeriod' = [servicePeriod EXCEPT ![n] = servicePeriod[n]]
  BY <1>2, <1>5, OneTimer
<1>7. Service!Fire(n)
  BY <1>3, <1>4, <1>6 DEF Service!Fire, serviceDue, servicePeriod
<1> QED
  BY <1>7 DEF Service!Next

\* A timer that fired and was not cancelled repeats, one period later.
LEMMA FiredRearms ==
  ASSUME TypeOK, QueueInv, FinishFired, ~Cancelled(frame[depth].node)
  PROVE  Service!Next
<1> DEFINE n == frame[depth].node
           time == (node[n].time + node[n].interval) % TimeMod
<1>1. TopKind = "fired" /\ depth = 1 /\ Bottom = frame[depth] /\ Bottom.kind = "fired"
  BY BottomFrame DEF QueueInv, FinishFired
<1>2. n \in Node /\ node[n].state = "EXECUTING" /\ node[n].interval # 0
  BY <1>1 DEF QueueInv, SafeInv, NodePlaces, ServiceInv, FiredRepeats, Cancelled
<1>3. /\ \A m \in Node : m # n => node'[m] = node[m]
      /\ node'[n].state = "PENDING" /\ node'[n].time = time
      /\ node'[n].interval = node[n].interval
  <2>1. node' = [node EXCEPT ![n] = [node[n] EXCEPT !.state = "PENDING", !.time = time]]
    BY DEF FinishFired
  <2>2. node[n] \in NodeRecord
    BY <1>2 DEF TypeOK
  <2> HIDE DEF n, time
  <2> QED
    BY <1>2, <2>1, <2>2 DEF TypeOK, NodeRecord
<1> SUFFICES ASSUME NEW k \in Node, k = n PROVE Service!Next
  BY <1>2
<1>4. /\ servicePhase[k] = "firing" /\ servicePeriod[k] # 0
      /\ serviceDue[k] = node[k].time /\ servicePeriod[k] = node[k].interval
  BY <1>2, ServiceView DEF Live
<1>5. /\ servicePhase'[k] = "armed" /\ serviceDue'[k] = time
      /\ servicePeriod'[k] = servicePeriod[k]
  BY <1>2, <1>3, <1>4 DEF servicePhase, serviceDue, servicePeriod, Live
<1>6. /\ servicePhase' = [servicePhase EXCEPT ![k] = "armed"]
      /\ serviceDue' = [serviceDue EXCEPT ![k] = time]
      /\ servicePeriod' = [servicePeriod EXCEPT ![k] = servicePeriod[k]]
  BY <1>3, <1>5, OneTimer
<1>7. Service!Rearm(k)
  BY <1>4, <1>6 DEF Service!Rearm, servicePeriod
<1> QED
  BY <1>7 DEF Service!Next

\* Deleting a node that is cancelled is invisible.
LEMMA DeleteInvisible ==
  ASSUME TypeOK, NEW n \in Node, Cancelled(n), node' = [node EXCEPT ![n] = FreeNode]
  PROVE  UNCHANGED Service!svars
<1>1. ~Live(n) /\ ~Live(n)' /\ \A m \in Node : m # n => node'[m] = node[m]
  BY LiveStates DEF TypeOK, Live, FreeNode
<1> QED
  BY <1>1, Invisible

\* So are the end of a cancel and the purge it may make.
LEMMA EndCancelInvisible ==
  ASSUME TypeOK, QueueInv, EndCancel
  PROVE  UNCHANGED Service!svars
<1> DEFINE n == frame[depth].node
           purged == IF (numCancelled + 1) * 2 > Cardinality(heap) THEN CancelledInHeap ELSE {}
<1>1. n \in Node /\ Cancelled(n)
  BY DEF EndCancel, At, QueueInv, SafeInv, NodePlaces
<1>2. node' = [m \in Node |->
                 IF m \in purged THEN FreeNode
                 ELSE IF m = n THEN [node[n] EXCEPT !.handler = NoHandler]
                 ELSE node[m]]
  BY <1>1 DEF EndCancel, Cancelled
<1>3. \A m \in purged : Cancelled(m)
  BY DEF CancelledInHeap
<1>4. node[n] \in NodeRecord
  BY <1>1 DEF TypeOK
<1> HIDE DEF n, purged
<1>5. \A m \in Node : m \in purged => ~Live(m) /\ ~Live(m)'
  BY <1>2, <1>3 DEF Live, Cancelled, FreeNode
<1>6. \A m \in Node : m = n /\ m \notin purged => ~Live(m) /\ ~Live(m)'
  BY <1>1, <1>2, <1>4 DEF Live, Cancelled, NodeRecord
<1>7. \A m \in Node : m \notin purged /\ m # n => node'[m] = node[m]
  BY <1>2
<1> QED
  BY <1>5, <1>6, <1>7, Invisible

\* Every step of the queue is a step of the service, or invisible.
LEMMA ServiceStep ==
  ASSUME TypeOK, QueueInv, CallbacksDoNotReenter, ClearIsComplete, [Next]_vars
  PROVE  [Service!Next]_(Service!svars)
<1>1. ASSUME node' = node
      PROVE  UNCHANGED Service!svars
  BY <1>1, Invisible
<1>2. ASSUME NEW n \in Node, Cancel(n)
      PROVE  Service!Next
  <2>1. Live(n) /\ Release(n)
    BY <1>2 DEF Cancel, QueueInv, ServiceInv, HeldInv
  <2> QED
    BY <2>1, ReleaseDisarms
<1>3. CASE TimeoutReturns
  <2>1. frame[depth].node \in Node
    BY <1>3, TopFrame DEF TimeoutReturns, NodeKinds
  <2>2. depth = 2 /\ TopKind = "timeout"
    BY <1>3, Contexts DEF QueueInv, TimeoutReturns, At
  <2>3. node[frame[depth].node].state \in {"EXECUTING", "CANCELLED"}
    BY <2>2 DEF QueueInv, SafeInv, StackShape, NodePlaces, Bottom, TopKind
  <2>4. CASE Release(frame[depth].node) /\ ~Cancelled(frame[depth].node)
    <3>1. Live(frame[depth].node)
      BY <2>3, <2>4 DEF Live, Cancelled
    <3> QED
      BY <2>1, <2>4, <3>1, ReleaseDisarms
  <2> QED
    BY <1>1, <1>3, <2>4 DEF TimeoutReturns
<1>4. ASSUME NEW n \in Node, ProcessCancelled(n)
      PROVE  UNCHANGED Service!svars
  BY <1>4, DeleteInvisible DEF ProcessCancelled, DeleteProcessed
<1>5. CASE FinishFired
  <2>1. frame[depth].node \in Node
    BY <1>5, TopFrame DEF FinishFired, NodeKinds
  <2>2. CASE Cancelled(frame[depth].node)
    BY <1>5, <2>1, <2>2, DeleteInvisible DEF FinishFired, DeleteProcessed
  <2>3. CASE ~Cancelled(frame[depth].node)
    BY <1>5, <2>3, FiredRearms
  <2> QED
    BY <2>2, <2>3
<1>6. ASSUME NEW n \in Node, ClearCancel(n)
      PROVE  Service!Next
  <2>1. Live(n) /\ Release(n)
    BY <1>6, LiveStates
      DEF ClearCancel, IsBack, QueueInv, SafeInv, NodePlaces, Cancelled
  <2> QED
    BY <2>1, ReleaseDisarms
<1>7. ASSUME NEW n \in Node, ClearDelete(n)
      PROVE  UNCHANGED Service!svars \/ Service!Next
  <2>1. CASE Cancelled(n)
    BY <1>7, <2>1, DeleteInvisible DEF ClearDelete
  <2>2. CASE ~Cancelled(n)
    <3>1. Bottom.kind = "clear" /\ Bottom = frame[1] /\ depth = 1
      BY <1>7, BottomFrame DEF ClearDelete, QueueInv
    <3>2. Cardinality(LiveInHeap) <= 0 /\ n \in LiveInHeap
      BY <1>7, <2>2, <3>1
        DEF ClearDelete, IsBack, QueueInv, ServiceInv, ClearInv, LiveInHeap
    <3> QED
      BY <3>2, LiveFinite, FS_EmptySet
  <2> QED
    BY <2>1, <2>2
<1>8. CASE ClearCancelled
  <2>1. frame[depth].node \in Node /\ Cancelled(frame[depth].node)
    BY <1>8, BottomFrame DEF ClearCancelled, QueueInv, SafeInv, NodePlaces, Cancelled
  <2> QED
    BY <1>8, <2>1, DeleteInvisible DEF ClearCancelled
<1>9. CASE UNCHANGED vars
  BY <1>1, <1>9 DEF vars
<1> QED
  BY <1>1, <1>2, <1>3, <1>4, <1>5, <1>6, <1>7, <1>8, <1>9, AddArms, IntervalSetsPeriod,
     EndCancelInvisible, DueFires
    DEF Next, ClientCall, CallbackReturns, QueueStep, Process, Clear, ProcessReturns,
        ClearReturns

\* The queue implements the service: whatever the heap, the callbacks and the purges do,
\* clients see timers that fire in order, repeat on time and stay cancelled.
THEOREM QueueImplementsService ==
  ASSUME CallbacksDoNotReenter, ClearIsComplete
  PROVE  Spec => ImplementsService
<1>1. Init => Service!Init
  BY DEF Init, Service!Init, servicePhase, serviceDue, servicePeriod, Live, FreeNode
<1>2. TypeOK /\ QueueInv /\ [Next]_vars => [Service!Next]_(Service!svars)
  BY ServiceStep
<1> QED
  BY <1>1, <1>2, AlwaysQueueInv, PTL DEF Spec, ImplementsService, Service!Spec

=============================================================================
