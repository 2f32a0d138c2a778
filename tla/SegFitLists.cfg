SPECIFICATION FairSpec
CONSTANTS
  mem_start_brk = 8
  MAX_HEAP = 96
  WORD_MOD = 1024
  CHUNKSIZE = 16
  LISTS = 6
  BUFFER = 8
  ListStep = 1
  Ids = {1, 2}
  Sizes = {0, 4, 44}
  RawMem <- ZeroMem
INVARIANTS
  TypeOK
  BlocksTileHeap
  ListsHoldFreeBlocks
  TagsHaveOwners
  PayloadIntact
  ReallocKeepsData
  FoundOnFirstList
PROPERTIES
  SearchEnds
