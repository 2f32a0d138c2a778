SPECIFICATION Spec
CONSTANTS
  mem_start_brk = 8
  MAX_HEAP = 64
  WORD_MOD = 256
  CHUNKSIZE = 16
  Ids = {1, 2}
  Sizes = {4, 240, 250}
  RawMem <- ZeroMem
  Passes = 1
INVARIANTS
  PayloadsInHeap
