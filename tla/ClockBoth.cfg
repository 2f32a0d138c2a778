SPECIFICATION Spec
CONSTANTS
  WORD = 4
  Machines = {"x86", "alpha"}
  Starts = {14}
  Gaps = {1, 3}
  Horizon = 17
  NEVENT = 2
  THRESHOLD = 2
  RECORDTHRESH = 1
INVARIANTS
  CountsCycles
  CostIsSmallest
  TicksCovered
\* Time ends at the Horizon.
CHECK_DEADLOCK FALSE
