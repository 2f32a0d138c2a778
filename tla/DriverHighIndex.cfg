SPECIFICATION ProgSpec
CONSTANTS
  mem_start_brk = 8
  MAX_HEAP = 48
  WORD_MOD = 1024
  CHUNKSIZE = 16
  Allocators = {"honest"}
  TraceFiles <- Traces
  NumTraces <- CommandLine
  SpeedRuns = 1
  Increments = {0, 32}
  Pointers = {24, 40}
  Ids = {0, 1, 2, 128}
  Indices = {128}
  Requests = {8, 16}
  LengthAny = 1
  FilesAny = 2
  LengthHonest = 2
INVARIANTS
  NoFalseAlarm
