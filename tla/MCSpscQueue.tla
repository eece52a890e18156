---- MODULE MCSpscQueue ----
EXTENDS SpscQueue, TLC
Symmetry == Permutations(Value)
====
