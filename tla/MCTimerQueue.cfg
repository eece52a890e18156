\* Callbacks add and cancel timers; onRelease adds new ones, except while the queue is
\* being cleared.  Times are modulo 4: with now = 2, a timer of interval 1 that is late is
\* caught up with, one of interval 2 wraps and is due again for ever (CallsReturn), and
\* one whose interval handleTimeout changes may wrap and then get past now.
CONSTANTS
  Node = {n1, n2, n3}
  Handler = {h1}
  NoNode = NoNode
  NoHandler = NoHandler
  TimeMod = 4
  Times = {0, 2}
  Intervals = {0, 1, 2}
  MaxDepth = 3
  MaxRegistered = 3
  TopOps = {"add", "cancel", "process", "clear"}
  TimeoutOps = {"add", "cancel", "interval"}
  ReleaseOps = {"add"}
  ClearOps = {}
SPECIFICATION FairSpec
INVARIANTS TypeOK QueueInv NoAssertionFails CancelledCountExact AtMostHalfCancelled
  HandlesAreLive RegistrationsExact LegalIsExact
PROPERTIES CancelIsFinal ImplementsService CallsReturn
