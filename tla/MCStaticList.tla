---- MODULE MCStaticList ----
EXTENDS StaticList, TLC
Symmetry == Permutations(Elem)
====
