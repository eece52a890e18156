\* A timer on a higher wheel.
CONSTANTS
  Timer = {t1}
  WheelBit = 2
  WheelNum = 2
  MaxTime = 18
  MaxExpires = 40
  Timeouts = {0, 1, 3, 4, 7, 17}
  Flags <- OneShot
SPECIFICATION Spec
INVARIANTS NotEarly
CHECK_DEADLOCK FALSE
