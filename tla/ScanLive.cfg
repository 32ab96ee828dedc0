SPECIFICATION LiveSpec
CONSTANTS
  Programs = {1, 2}
  Pid <- MCPid
  VideoPrograms = {1}
  Pats <- SteadyPats
  TableChanges = FALSE
  OldTraffic = FALSE
  NbSteps = {2}
  Inexact = {97, 161, 167, 193, 194, 195, 199}
  UserActions = {}
  Carriers = {1, 3}
  MaxFrequency = 3
  MaxEvents = 2
 
PROPERTY ScanEnds
