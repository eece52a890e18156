\* Two free lists, of units of 4 and 8 bytes; 36 bytes come from malloc(), which may fail.
CONSTANTS
  ALIGN = 4
  NFREELISTS = 2
  ALLOC_UNITS_SIZE = 2
  Sizes = {1, 7, 36}
  MaxBlocks = 4
  MaxMemory = 73
SPECIFICATION Spec
INVARIANTS TypeOK Partition BlocksApart AllocInv
CHECK_DEADLOCK FALSE
