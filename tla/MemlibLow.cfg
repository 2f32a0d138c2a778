SPECIFICATION Spec
CONSTANTS
  mem_start_brk = 8
  MAX_HEAP = 8
  WORD_MOD = 32
  Increments <- AllInts
INVARIANTS
  TypeOK
  AreasDisjoint
  HeapIsHandedOut
PROPERTIES
  HeapNeverShrinks
