SPECIFICATION FairSpec
CONSTANTS
  mem_start_brk = 8
  MAX_HEAP = 40
  WORD_MOD = 1024
PROPERTIES
  CheckReturns
CHECK_DEADLOCK FALSE
