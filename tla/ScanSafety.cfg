SPECIFICATION Spec
CONSTANTS
  Programs = {1, 2}
  Pid <- MCPid
  VideoPrograms = {1}
  Pats <- ChangingPats
  TableChanges = TRUE
  OldTraffic = FALSE
  NbSteps = {1}
  Inexact = {97, 161, 167, 193, 194, 195, 199}
  UserActions = {"pause", "stop", "step", "clean"}
  Carriers = {1, 2, 3}
  MaxFrequency = 3
  MaxEvents = 2
 
INVARIANT FiledUnderSource
INVARIANT SavedWhenDone
 
INVARIANT WayForward
