SPECIFICATION Spec
CONSTANTS
  N = 3
  Lengths = {3, 8}
  HeaderSize = 2
  Capacity = 3
  CCs = 4
  MaxBody = 6
  TableHeader = 2
  EventHeader = 1
  SNs = 6
  FirstSn = 1
  MaxBurst = 4
  MaxLost = 4
  MaxRepeats = 1
INVARIANT DamagedDiscarded
CHECK_DEADLOCK FALSE
