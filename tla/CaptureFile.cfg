SPECIFICATION FairSpec
CONSTANTS
  FileMode = TRUE
  Output = TRUE
  Threshold = 2
  Failures = {}
  Items = 5
INVARIANT QueueBound
INVARIANT MemoryBound
INVARIANT WholeFile
PROPERTY EndsOrHandshakeLost
CHECK_DEADLOCK FALSE
