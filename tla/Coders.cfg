SPECIFICATION MCSpec
CONSTANTS
  NULL = NULL
  Contents <- MCContents
  Foreign <- MCForeign
  Memory = {0, 255}
  MaxPrograms = {0, 1, 2, 3, 252, 253, 254}
  MaxSections = 16
  MaxCalls = 4
 
INVARIANT TableArrives
 
CHECK_DEADLOCK FALSE
