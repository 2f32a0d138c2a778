SPECIFICATION ProgSpec
CONSTANTS
  mem_start_brk = 8
  MAX_HEAP = 48
  WORD_MOD = 1024
  CHUNKSIZE = 16
  Allocators = {"any", "honest", "mm-firstfit"}
  TraceFiles <- Traces
  NumTraces <- CommandLine
  SpeedRuns = 2
  Increments = {0, 16, 32}
  Pointers = {4, 16, 24, 40}
  Ids = {0, 1, 2}
  Indices = {0, 1}
  Requests = {8, 24}
  LengthAny = 3
  FilesAny = 2
  LengthHonest = 4
INVARIANTS
  TypeOK
  NoFalseAlarm
  CallsAreLegal
  TotalIsInUse
  UtilAtMostOne
  RangesTrackBlocks
  RangesSound
  ErrorsAreInvalidTraces
PROPERTIES
  FirstFitIsHonest
