---- MODULE MCTimerQueue ----
EXTENDS TimerQueueInv, TLC
Symmetry == Permutations(Node) \cup Permutations(Handler)
====
