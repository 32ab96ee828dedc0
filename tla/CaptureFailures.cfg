SPECIFICATION Spec
CONSTANTS
  FileMode = FALSE
  Output = TRUE
  Threshold = 2
  Failures = {"memory", "read", "write", "short", "process"}
  Items = 3
INVARIANT OneOwner
INVARIANT NotStranded
PROPERTY IsPipe
CHECK_DEADLOCK FALSE
