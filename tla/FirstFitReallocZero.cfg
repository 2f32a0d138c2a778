SPECIFICATION Spec
CONSTANTS
  mem_start_brk = 8
  MAX_HEAP = 64
  WORD_MOD = 1024
  CHUNKSIZE = 16
  Ids = {1, 2}
  Sizes = {0, 4, 12}
  RawMem <- ZeroMem
  Passes = 1
INVARIANTS
  ReallocZeroFrees
