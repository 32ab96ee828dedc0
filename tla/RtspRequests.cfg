SPECIFICATION FairSpec
CONSTANTS
  BusyLimit = 2
  CSeqs = 13
  DefaultTimeout = 2
  Expiry = 4
  MaxSlow = 2
  None = None
  q1 = q1
  q2 = q2
  Queries = {q1, q2}
  Refusals = TRUE
  Splits = FALSE
  WaitLimit = 2
INVARIANT Confirmed
INVARIANT ZapTimerOwned
INVARIANT Maintained
PROPERTY Recovers
CHECK_DEADLOCK FALSE
