SPECIFICATION Spec
CONSTANTS
  Programs = {1, 2}
  Pid <- SharedPid
  VideoPrograms = {1}
  Pats <- SteadyPats
  TableChanges = FALSE
  OldTraffic = TRUE
  NbSteps = {0, 1}
  Inexact = {97, 161, 167, 193, 194, 195, 199}
  UserActions = {"pause", "stop", "auto", "setup"}
  Carriers = {1, 2, 3}
  MaxFrequency = 2
  MaxEvents = 1
INVARIANT Control
INVARIANT SsrcFilter
