SPECIFICATION FairSpec
CONSTANTS
  K = 3
  MAXSAMPLES = 4
  EPSILON = 1
  CACHE_BYTES = 64
  CACHE_BLOCK = 32
  Samples = {100, 101, 103, 110}
  Ks = {1, 2}
  MaxSamples = {0, 2, 5}
  Epsilons = {5}
  Sizes = {64, 128}
  Blocks = {64}
  Settings = 2
INVARIANTS
  TypeOK
  ValuesAreBest
  StopsWhenConverged
  NoSampleTooMany
  BufferFits
PROPERTIES
  Measured
