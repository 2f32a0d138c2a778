SPECIFICATION FairSpec
CONSTANTS
  mem_start_brk = 8
  MAX_HEAP = 64
  WORD_MOD = 1024
  CHUNKSIZE = 24
  Ids = {1, 2, 3}
  Sizes = {0, 4, 20}
  RawMem <- ZeroMem
  Passes = 2
INVARIANTS
  HeapConsistent
  AllocatedIsHeld
  LowestFit
  PayloadsDisjoint
  PayloadsInHeap
  PayloadIntact
  CopyAreasApart
  IInv
PROPERTIES
  CallsReturn
  ImplementsContract
