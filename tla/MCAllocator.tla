---- MODULE MCAllocator ----
EXTENDS AllocatorInv
====
