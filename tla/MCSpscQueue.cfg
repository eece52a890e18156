\* Elements of two bytes in a ring of four bytes; the indices wrap at every fourth element.
CONSTANTS
  Value = {a, b}
  Garbage = Garbage
  ElementSize = 2
  nSize = 4
  UintMod = 8
SPECIFICATION FairSpec
INVARIANTS TypeOK NoOverlap SpscInv
PROPERTIES ImplementsFifo SomeoneReturns
