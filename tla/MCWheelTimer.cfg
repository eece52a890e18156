\* Two timers of any flags on two wheels; timeouts below, at and above the boundaries.
CONSTANTS
  Timer = {t1, t2}
  WheelBit = 2
  WheelNum = 2
  MaxTime = 17
  MaxExpires = 22
  Timeouts = {1, 4, 17}
  Flags <- AnyFlags
SPECIFICATION Spec
INVARIANTS TypeOK WheelInv NothingMissed IntervalIsSafe IntervalIsAccurate
PROPERTIES RepeatKeepsPhase
SYMMETRY Symmetry
CHECK_DEADLOCK FALSE
