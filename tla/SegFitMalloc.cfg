SPECIFICATION FairSpec
CONSTANTS
  mem_start_brk = 8
  MAX_HEAP = 80
  WORD_MOD = 1024
  CHUNKSIZE = 16
  LISTS = 20
  BUFFER = 8
  ListStep = 0
  Ids = {1, 2}
  Sizes = {0, 4, 20}
  RawMem <- ZeroMem
PROPERTIES
  SearchEnds
