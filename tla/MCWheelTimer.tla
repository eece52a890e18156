---- MODULE MCWheelTimer ----
EXTENDS WheelTimer, TLC
Symmetry == Permutations(Timer)
OneShot == {{}, {"abs"}}
AnyFlags == SUBSET {"repeat", "abs"}
Repeats == {{"repeat"}}
====
