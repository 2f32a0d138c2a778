SPECIFICATION ProgSpec
CONSTANTS
  mem_start_brk = 8
  MAX_HEAP = 48
  WORD_MOD = 1024
  CHUNKSIZE = 16
  Allocators = {"any"}
  TraceFiles <- Traces
  NumTraces <- CommandLine
  SpeedRuns = 1
  Increments = {32}
  Pointers = {16, 24, 40}
  Ids = {0, 1, 2}
  Indices = {0, 1}
  Requests = {8, 24}
  LengthAny = 2
  FilesAny = 1
  LengthHonest = 4
INVARIANTS
  AcceptedApart
