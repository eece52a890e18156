---- MODULE MCProfileGroup ----
EXTENDS ProfileGroupInv, TLC
Symmetry == Permutations(Profile)
====
