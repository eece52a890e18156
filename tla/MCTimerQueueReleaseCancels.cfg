\* onRelease cancels another timer.
CONSTANTS
  Node = {n1, n2, n3}
  Handler = {h1}
  NoNode = NoNode
  NoHandler = NoHandler
  TimeMod = 8
  Times = {0, 2}
  Intervals = {0, 1, 2}
  MaxDepth = 4
  MaxRegistered = 3
  TopOps = {"add", "cancel"}
  TimeoutOps = {}
  ReleaseOps = {"cancel"}
  ClearOps = {}
SPECIFICATION Spec
INVARIANTS PurgeAssertion
SYMMETRY Symmetry
