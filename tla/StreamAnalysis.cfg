SPECIFICATION Spec
CONSTANTS
  NULL = NULL
  PacketSize = 2
  CCs = 3
  Lists <- MCLists
  Clocks = {64}
  Traffics <- MCTraffics
  MaxPackets = 4
  MaxChanges = 3
  MaxFaults = 1
  MaxBurst = 3
  MaxFailures = 1
INVARIANT EveryByteCounted
INVARIANT NewestKnows
INVARIANT DecodersBounded
INVARIANT GapsReported
CHECK_DEADLOCK FALSE
