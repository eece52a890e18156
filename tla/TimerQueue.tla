----------------------------- MODULE TimerQueue -----------------------------
(***************************************************************************)
(* The timer queue of src/common/debugging/timer_queue_t.h: TimeQueueT, its *)
(* nodes, and the two callbacks of TimerHandler, through which client code  *)
(* may call back into the queue that is calling it.                         *)
(*                                                                          *)
(* The C++ call stack is explicit (frame, depth): one step runs up to the   *)
(* next place where client code gets control (handleTimeout or onRelease).  *)
(* The binary heap is the set of its nodes; its top is any node of least    *)
(* time, and its last leaf (unsafePopBack) any node that need not be the    *)
(* top.  Node addresses are reused after delete, as an allocator does.      *)
(***************************************************************************)
EXTENDS Integers, FiniteSets

CONSTANTS
  Node,        \* the addresses a TimeQueueT::Node may have
  Handler,     \* the TimerHandler objects
  NoNode,      \* the null Node pointer
  NoHandler,   \* the null TimerHandler pointer
  TimeMod,     \* 2^w, w the width of TIME_STAMP
  Times,       \* the start times and "now" values clients pass
  Intervals,   \* the intervals clients pass
  MaxDepth,    \* bound: frames of this component on the call stack
  MaxRegistered, \* bound: timers registered with one handler
  TopOps,      \* what clients call from outside any callback,
  TimeoutOps,  \* from handleTimeout,
  ReleaseOps,  \* from onRelease,
  ClearOps     \* and from onRelease while clear() cancels the timers

Ops == {"add", "cancel", "interval", "process", "clear", "drop"}

ASSUME ConstantsAssumption ==
  /\ IsFiniteSet(Node) /\ NoNode \notin Node
  /\ IsFiniteSet(Handler) /\ NoHandler \notin Handler
  /\ TimeMod \in Nat \ {0}
  /\ Times \subseteq 0..(TimeMod - 1) /\ Intervals \subseteq 0..(TimeMod - 1)
  /\ MaxDepth \in Nat /\ MaxRegistered \in Nat
  /\ TopOps \subseteq Ops /\ TimeoutOps \subseteq Ops
  /\ ReleaseOps \subseteq Ops /\ ClearOps \subseteq ReleaseOps

VARIABLES
  node,            \* the memory of each node (state "FREE": not allocated)
  heap,            \* timeQueue_: the nodes in the priority queue
  numCancelled,    \* numCancelled_
  processing,      \* pProcessingNode_
  lastProcessTime, \* lastProcessTime_
  registered,      \* TimerHandler::numTimesRegistered_
  held,            \* the TimerIDs clients hold: added, onRelease not yet called
  frame, depth,    \* the call stack
  failed           \* the assertion that stopped the program, or "none"

queueVars == <<node, heap, numCancelled, processing, lastProcessTime>>
vars == <<node, heap, numCancelled, processing, lastProcessTime,
          registered, held, frame, depth, failed>>

TimeStamp == 0..(TimeMod - 1)
States == {"FREE", "PENDING", "EXECUTING", "CANCELLED"}
NodeRecord == [state : States, time : TimeStamp, interval : TimeStamp,
               handler : Handler \cup {NoHandler}]
FreeNode == [state |-> "FREE", time |-> 0, interval |-> 0, handler |-> NoHandler]

(* What a frame is doing: in process() at the head of its loop, or while its *)
(* node is triggered ("fired"); in a callback; in clear(), or in the cancel  *)
(* that clear() makes.  arg is the argument `now` of process, or the cancels *)
(* that clear() may still make (maxLoopCount, 0 once shouldCallCancel is     *)
(* false).                                                                   *)
NodeKinds == {"fired", "timeout", "release", "clearing"}
Frame == [kind : {"none"}, node : {NoNode}, arg : {0}]
           \cup [kind : {"process"}, node : {NoNode}, arg : TimeStamp]
           \cup [kind : {"fired"}, node : Node, arg : TimeStamp]
           \cup [kind : {"timeout", "release"}, node : Node, arg : {0}]
           \cup [kind : {"clear"}, node : {NoNode}, arg : Int]
           \cup [kind : {"clearing"}, node : Node, arg : Int]
Outcomes == {"none", "assertion in process", "assertion in purgeCancelledNodes",
             "use of a deleted node in cancel"}
NoFrame == [kind |-> "none", node |-> NoNode, arg |-> 0]
MakeFrame(kind, n, arg) == [kind |-> kind, node |-> n, arg |-> arg]

Cancelled(n) == node[n].state = "CANCELLED"
CancelledInHeap == {n \in heap : Cancelled(n)}

(* The definitions named ...Without..., ...Unless... or ...Always are faults *)
(* seeded in the definitions they precede: the model does not use them, and  *)
(* the properties reject them.                                               *)

IsTopWithoutOrder(n) == n \in heap

(* timeQueue_.top() and container_.back().                                   *)
IsTop(n) == n \in heap /\ \A m \in heap : node[n].time <= node[m].time
IsBack(n) ==
  /\ n \in heap
  /\ heap # {n} => \E m \in heap \ {n} : node[m].time <= node[n].time

-----------------------------------------------------------------------------
(* The call stack.                                                           *)

TopKind == IF depth = 0 THEN "none" ELSE frame[depth].kind
At(kind) == failed = "none" /\ depth > 0 /\ TopKind = kind

Push(f) ==
  /\ depth + 1 <= MaxDepth
  /\ depth' = depth + 1
  /\ frame' = [frame EXCEPT ![depth + 1] = f]

Pop ==
  /\ depth' = depth - 1
  /\ frame' = [frame EXCEPT ![depth] = NoFrame]

Replace(f) ==
  /\ depth' = depth
  /\ frame' = [frame EXCEPT ![depth] = f]

(* The frame on top becomes f and calls a function whose frame is g.         *)
ReplacePush(f, g) ==
  /\ depth + 1 <= MaxDepth
  /\ depth' = depth + 1
  /\ frame' = [frame EXCEPT ![depth] = f, ![depth + 1] = g]

(* Client code runs: outside the queue, or in one of the two callbacks.      *)
ClientRuns == failed = "none" /\ TopKind \in {"none", "timeout", "release"}
Clearing == \E i \in 1..depth : frame[i].kind = "clearing"
MayCall(op) ==
  /\ ClientRuns
  /\ \/ TopKind = "none" /\ op \in TopOps
     \/ TopKind = "timeout" /\ op \in TimeoutOps
     \/ TopKind = "release" /\ op \in (IF Clearing THEN ClearOps ELSE ReleaseOps)

-----------------------------------------------------------------------------
Init ==
  /\ node = [n \in Node |-> FreeNode]
  /\ heap = {}
  /\ numCancelled = 0
  /\ processing = NoNode
  /\ lastProcessTime = 0
  /\ registered = [h \in Handler |-> 0]
  /\ held = {}
  /\ frame = [i \in 1..MaxDepth |-> NoFrame]
  /\ depth = 0
  /\ failed = "none"

(* add(): a new node, registered with its handler, is pushed on the heap.    *)
Add(n, start, interval, h) ==
  /\ MayCall("add") /\ registered[h] < MaxRegistered
  /\ node[n].state = "FREE"
  /\ node' = [node EXCEPT ![n] = [state |-> "PENDING", time |-> start,
                                  interval |-> interval, handler |-> h]]
  /\ heap' = heap \cup {n}
  /\ registered' = [registered EXCEPT ![h] = @ + 1]
  /\ held' = held \cup {n}
  /\ UNCHANGED <<numCancelled, processing, lastProcessTime, frame, depth, failed>>

(* timerIntervalTime(handle) = interval, through the reference it returns.   *)
SetInterval(n, interval) ==
  /\ MayCall("interval")
  /\ n \in held /\ node[n].state # "FREE"
  /\ node' = [node EXCEPT ![n].interval = interval]
  /\ UNCHANGED <<heap, numCancelled, processing, lastProcessTime, registered,
                 held, frame, depth, failed>>

ReleaseWithoutUnregister(n) ==
  /\ node' = [node EXCEPT ![n].state = "CANCELLED"]
  /\ held' = held \ {n}
  /\ UNCHANGED registered

(* The first half of TimeQueueNode::cancel(), up to the call of onRelease:   *)
(* the node is marked, and its handler's release() unregisters it.           *)
Release(n) ==
  /\ node' = [node EXCEPT ![n].state = "CANCELLED"]
  /\ registered' = [registered EXCEPT ![node[n].handler] = @ - 1]
  /\ held' = held \ {n}

(* TimerID::cancel() by a client that holds the handle.  (A client that calls *)
(* clear(false) knows that its handles are dead.)                            *)
Cancel(n) ==
  /\ MayCall("cancel")
  /\ n \in held /\ node[n].state # "FREE"
  /\ Release(n)
  /\ Push(MakeFrame("release", n, 0))
  /\ UNCHANGED <<heap, numCancelled, processing, lastProcessTime, failed>>

EndCancelWithoutCount ==
  /\ At("release")
  /\ node' = [node EXCEPT ![frame[depth].node].handler = NoHandler]
  /\ Pop
  /\ UNCHANGED <<heap, numCancelled, processing, lastProcessTime, registered, held, failed>>

EndCancelWithoutPurge ==
  /\ At("release")
  /\ node' = [node EXCEPT ![frame[depth].node].handler = NoHandler]
  /\ Pop
  /\ numCancelled' = numCancelled + 1
  /\ UNCHANGED <<heap, processing, lastProcessTime, registered, held, failed>>

(* The second half of cancel(): onRelease returns to it, the handler pointer *)
(* is cleared, and onCancel() counts the node; when more than half of the    *)
(* queue is cancelled, purgeCancelledNodes() deletes those nodes.  The node  *)
(* may have been deleted during the callback.                                *)
EndCancel ==
  LET n == frame[depth].node
      count == numCancelled + 1
      purge == count * 2 > Cardinality(heap)
      purged == IF purge THEN CancelledInHeap ELSE {}
      left == count - Cardinality(purged)
  IN
  /\ At("release")
  /\ IF node[n].state = "FREE"
       THEN /\ failed' = "use of a deleted node in cancel"
            /\ UNCHANGED <<node, heap, numCancelled>>
       ELSE /\ node' = [m \in Node |->
                          IF m \in purged THEN FreeNode
                          ELSE IF m = n THEN [node[n] EXCEPT !.handler = NoHandler]
                          ELSE node[m]]
            /\ heap' = heap \ purged
            /\ numCancelled' = left
            /\ failed' = IF purge /\ left \notin {0, 1}
                           THEN "assertion in purgeCancelledNodes" ELSE "none"
  /\ Pop
  /\ UNCHANGED <<processing, lastProcessTime, registered, held>>

-----------------------------------------------------------------------------
(* process(now).                                                             *)

Process(now) ==
  /\ MayCall("process")
  /\ depth + 2 <= MaxDepth
  /\ Push(MakeFrame("process", NoNode, now))
  /\ UNCHANGED <<node, heap, numCancelled, processing, lastProcessTime,
                 registered, held, failed>>

DeleteProcessedWithoutCount(n) ==
  /\ node' = [node EXCEPT ![n] = FreeNode]
  /\ UNCHANGED <<numCancelled, failed>>

(* The tail of the loop for a cancelled node: delete it and count it out.    *)
DeleteProcessed(n) ==
  /\ node' = [node EXCEPT ![n] = FreeNode]
  /\ numCancelled' = IF numCancelled > 0 THEN numCancelled - 1 ELSE numCancelled
  /\ failed' = IF numCancelled > 0 THEN "none" ELSE "assertion in process"

(* The top is cancelled: whatever its time, it is popped and deleted.        *)
ProcessCancelled(n) ==
  /\ At("process")
  /\ IsTop(n) /\ Cancelled(n)
  /\ heap' = heap \ {n}
  /\ processing' = n
  /\ DeleteProcessed(n)
  /\ UNCHANGED <<lastProcessTime, registered, held, frame, depth>>

ProcessDueWithoutProcessing(n) ==
  /\ At("process")
  /\ IsTop(n) /\ ~Cancelled(n) /\ node[n].time <= frame[depth].arg
  /\ heap' = heap \ {n}
  /\ node' = [node EXCEPT ![n].state = "EXECUTING"]
  /\ ReplacePush(MakeFrame("fired", n, frame[depth].arg), MakeFrame("timeout", n, 0))
  /\ UNCHANGED <<processing, numCancelled, lastProcessTime, registered, held, failed>>

(* The top is due: it is popped, and triggerTimer() calls handleTimeout.     *)
ProcessDue(n) ==
  /\ At("process")
  /\ IsTop(n) /\ ~Cancelled(n) /\ node[n].time <= frame[depth].arg
  /\ heap' = heap \ {n}
  /\ processing' = n
  /\ node' = [node EXCEPT ![n].state = "EXECUTING"]
  /\ ReplacePush(MakeFrame("fired", n, frame[depth].arg), MakeFrame("timeout", n, 0))
  /\ UNCHANGED <<numCancelled, lastProcessTime, registered, held, failed>>

(* handleTimeout returns to triggerTimer(), which cancels a one-shot timer.  *)
TimeoutReturns ==
  LET n == frame[depth].node IN
  /\ At("timeout")
  /\ IF node[n].interval = 0 /\ ~Cancelled(n)
       THEN Release(n) /\ Replace(MakeFrame("release", n, 0))
       ELSE Pop /\ UNCHANGED <<node, registered, held>>
  /\ UNCHANGED <<heap, numCancelled, processing, lastProcessTime, failed>>

Rearmed(time, pushed) ==
  LET n == frame[depth].node IN
  /\ node' = [node EXCEPT ![n] = [node[n] EXCEPT !.state = "PENDING", !.time = time]]
  /\ heap' = heap \cup pushed
  /\ Replace(MakeFrame("process", NoNode, frame[depth].arg))
  /\ UNCHANGED <<numCancelled, processing, lastProcessTime, registered, held, failed>>

RearmedTime == node[frame[depth].node].time + node[frame[depth].node].interval

FinishFiredUnlessCancelled ==
  At("fired") /\ Rearmed(RearmedTime % TimeMod, {frame[depth].node})

FinishFiredWithoutPush ==
  At("fired") /\ IF Cancelled(frame[depth].node)
                   THEN /\ DeleteProcessed(frame[depth].node)
                        /\ Replace(MakeFrame("process", NoNode, frame[depth].arg))
                        /\ UNCHANGED <<heap, processing, lastProcessTime, registered, held>>
                   ELSE Rearmed(RearmedTime % TimeMod, {})

FinishFiredWithoutAdvance ==
  At("fired") /\ IF Cancelled(frame[depth].node)
                   THEN /\ DeleteProcessed(frame[depth].node)
                        /\ Replace(MakeFrame("process", NoNode, frame[depth].arg))
                        /\ UNCHANGED <<heap, processing, lastProcessTime, registered, held>>
                   ELSE Rearmed(node[frame[depth].node].time, {frame[depth].node})

FinishFiredWithoutWrap ==
  At("fired") /\ ~Cancelled(frame[depth].node) /\ Rearmed(RearmedTime, {frame[depth].node})

(* triggerTimer() returns to process(): a node that was not cancelled has    *)
(* its time advanced and goes back on the heap, a cancelled one is deleted.  *)
FinishFired ==
  LET n == frame[depth].node
      r == node[n]
  IN
  /\ At("fired")
  /\ IF Cancelled(n)
       THEN DeleteProcessed(n) /\ UNCHANGED heap
       ELSE /\ node' = [node EXCEPT ![n] =
                 [r EXCEPT !.state = "PENDING", !.time = (r.time + r.interval) % TimeMod]]
            /\ heap' = heap \cup {n}
            /\ UNCHANGED <<numCancelled, failed>>
  /\ Replace(MakeFrame("process", NoNode, frame[depth].arg))
  /\ UNCHANGED <<processing, lastProcessTime, registered, held>>

(* Nothing is left to do for `now`.                                          *)
ProcessReturns ==
  /\ At("process")
  /\ \/ heap = {}
     \/ \E n \in heap : IsTop(n) /\ ~Cancelled(n) /\ node[n].time > frame[depth].arg
  /\ processing' = NoNode
  /\ lastProcessTime' = frame[depth].arg
  /\ Pop
  /\ UNCHANGED <<node, heap, numCancelled, registered, held, failed>>

-----------------------------------------------------------------------------
(* clear(shouldCallCancel); the destructor is clear(true).                   *)

Clear(shouldCallCancel) ==
  /\ MayCall(IF shouldCallCancel THEN "clear" ELSE "drop")
  /\ depth + 2 <= MaxDepth
  /\ Push(MakeFrame("clear", NoNode, IF shouldCallCancel THEN Cardinality(heap) ELSE 0))
  /\ UNCHANGED <<node, heap, numCancelled, processing, lastProcessTime,
                 registered, held, failed>>

ClearCancelWithoutCount(n) ==
  /\ At("clear")
  /\ IsBack(n) /\ ~Cancelled(n) /\ frame[depth].arg > 0
  /\ heap' = heap \ {n}
  /\ Release(n)
  /\ ReplacePush(MakeFrame("clearing", n, frame[depth].arg), MakeFrame("release", n, 0))
  /\ UNCHANGED <<numCancelled, processing, lastProcessTime, failed>>

(* One node is popped from the back and cancelled, which calls onRelease.    *)
ClearCancel(n) ==
  /\ At("clear")
  /\ IsBack(n) /\ ~Cancelled(n) /\ frame[depth].arg > 0
  /\ heap' = heap \ {n}
  /\ numCancelled' = numCancelled - 1
  /\ Release(n)
  /\ ReplacePush(MakeFrame("clearing", n, frame[depth].arg), MakeFrame("release", n, 0))
  /\ UNCHANGED <<processing, lastProcessTime, failed>>

(* That cancel returns; the node is deleted.                                 *)
ClearCancelled ==
  /\ At("clearing")
  /\ node' = [node EXCEPT ![frame[depth].node] = FreeNode]
  /\ Replace(MakeFrame("clear", NoNode, frame[depth].arg - 1))
  /\ UNCHANGED <<heap, numCancelled, processing, lastProcessTime, registered,
                 held, failed>>

(* A node that was cancelled before, or that is no longer to be cancelled,   *)
(* is only deleted.                                                          *)
ClearDelete(n) ==
  /\ At("clear")
  /\ IsBack(n) /\ (Cancelled(n) \/ frame[depth].arg = 0)
  /\ heap' = heap \ {n}
  /\ numCancelled' = IF Cancelled(n) THEN numCancelled - 1 ELSE numCancelled
  /\ node' = [node EXCEPT ![n] = FreeNode]
  /\ UNCHANGED <<processing, lastProcessTime, registered, held, frame, depth, failed>>

ClearReturns ==
  /\ At("clear")
  /\ heap = {}
  /\ numCancelled' = 0
  /\ Pop
  /\ UNCHANGED <<node, heap, processing, lastProcessTime, registered, held, failed>>

-----------------------------------------------------------------------------
ClientCall ==
  \/ \E n \in Node, start \in Times, interval \in Intervals, h \in Handler :
       Add(n, start, interval, h)
  \/ \E n \in Node, interval \in Intervals : SetInterval(n, interval)
  \/ \E n \in Node : Cancel(n)
  \/ \E now \in Times : Process(now)
  \/ \E call \in BOOLEAN : Clear(call)

CallbackReturns == EndCancel \/ TimeoutReturns

QueueStep ==
  \/ \E n \in Node : ProcessCancelled(n) \/ ProcessDue(n)
  \/ FinishFired \/ ProcessReturns
  \/ \E n \in Node : ClearCancel(n) \/ ClearDelete(n)
  \/ ClearCancelled \/ ClearReturns

Next == ClientCall \/ CallbackReturns \/ QueueStep

Spec == Init /\ [][Next]_vars

(* The queue runs on, and a callback that is entered returns: it may call    *)
(* the queue any number of times, but not for ever.                          *)
FairSpec ==
  Spec /\ WF_vars(QueueStep) /\ SF_vars(EndCancel) /\ SF_vars(TimeoutReturns)

-----------------------------------------------------------------------------
(* What clients must not do for the properties below to hold: README.md    *)
(* says what happens otherwise.                                              *)

\* No callback runs the queue, clears it, or cancels from onRelease.
CallbacksDoNotReenter ==
  /\ TimeoutOps \subseteq {"add", "cancel", "interval"}
  /\ ReleaseOps \subseteq {"add", "interval"}

\* Nothing is deleted without its handler being told.
ClearIsComplete ==
  /\ "drop" \notin TopOps
  /\ "clear" \in TopOps => "add" \notin ClearOps

-----------------------------------------------------------------------------
\* The type invariant.
TypeOK ==
  /\ node \in [Node -> NodeRecord]
  /\ heap \subseteq Node
  /\ numCancelled \in Int
  /\ processing \in Node \cup {NoNode}
  /\ lastProcessTime \in TimeStamp
  /\ registered \in [Handler -> Int]
  /\ held \subseteq Node
  /\ frame \in [1..MaxDepth -> Frame]
  /\ depth \in 0..MaxDepth
  /\ failed \in Outcomes

\* GECO_ASSERT in process() and in purgeCancelledNodes() never fires, and cancel()
\* never returns from onRelease into a node that was deleted meanwhile.
NoAssertionFails == failed = "none"

\* purgeCancelledNodes(): "numCancelled_ will be 1 when we're in the middle of
\* processing a once-off timer", asserted to be 0 or 1.
PurgeAssertion ==
  failed \notin {"assertion in purgeCancelledNodes", "use of a deleted node in cancel"}

\* Between calls, numCancelled_ is the number of cancelled nodes in the heap.
CancelledCountExact ==
  depth = 0 => numCancelled = Cardinality(CancelledInHeap)

\* Between calls, at most half of the queue is cancelled nodes ("If there are too
\* many cancelled timers in the queue (more than half), these are flushed").
AtMostHalfCancelled ==
  depth = 0 => 2 * Cardinality(CancelledInHeap) <= Cardinality(heap)

\* The node of a handle that was not released is allocated: pending in the heap, or
\* executing in the call of process() that popped it.
HandlesAreLive ==
  \A n \in held :
    \/ n \in heap /\ node[n].state = "PENDING"
    \/ node[n].state = "EXECUTING" /\ \E i \in 1..depth : frame[i].kind = "fired" /\ frame[i].node = n

\* A handler's registration count is the number of its timers whose onRelease has not
\* been called, so ~TimerHandler()'s assertion holds once they all are.
RegistrationsExact ==
  \A h \in Handler : registered[h] = Cardinality({n \in held : node[n].handler = h})

\* legal(handle), and its promise: whenever client code runs, a handle it holds is
\* legal, and a legal handle is not dangling.
Legal(n) == n = processing \/ n \in heap
LegalIsExact ==
  ClientRuns => \A n \in Node : /\ n \in held => Legal(n)
                               /\ Legal(n) => node[n].state # "FREE"

\* A cancelled timer never fires and is never pending again: the only thing that
\* happens to its node is its deletion.
CancelIsFinal ==
  [][\A n \in Node : Cancelled(n) => node'[n].state \in {"CANCELLED", "FREE"}]_vars

CallbackAdds ==
  /\ depth > 0
  /\ \E n \in Node, start \in Times, interval \in Intervals, h \in Handler :
       Add(n, start, interval, h)

\* The sum of a repeating timer's time and interval does not fit TIME_STAMP, and what is
\* left of it is no later than the `now` of the call that fires it: it is due at once.
WrapsToDue ==
  /\ At("fired") /\ ~Cancelled(frame[depth].node)
  /\ RearmedTime >= TimeMod /\ RearmedTime % TimeMod <= frame[depth].arg

\* process() and clear() return, unless for ever callbacks add timers or a timer wraps
\* to a time that is due: process() then never gets past its loop.  A timer that is late
\* by several intervals and does not wrap is caught up with, and the call returns.
CallsReturn == []<>(depth = 0) \/ []<><<CallbackAdds>>_vars \/ []<>WrapsToDue

-----------------------------------------------------------------------------
(* The service the queue implements: what a client sees of each timer.       *)
Live(n) == node[n].state \in {"PENDING", "EXECUTING"}
servicePhase ==
  [n \in Node |-> CASE node[n].state = "PENDING" -> "armed"
                  [] node[n].state = "EXECUTING" -> "firing"
                  [] OTHER -> "idle"]
serviceDue == [n \in Node |-> IF Live(n) THEN node[n].time ELSE 0]
servicePeriod == [n \in Node |-> IF Live(n) THEN node[n].interval ELSE 0]

Service == INSTANCE TimerService WITH
  Timer <- Node, phase <- servicePhase, due <- serviceDue, period <- servicePeriod

\* Every step of the queue is a step of the service or invisible: deleting cancelled
\* nodes late, purging them, and the order of the heap never show.
ImplementsService == Service!Spec

=============================================================================
