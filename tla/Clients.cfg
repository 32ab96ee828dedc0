SPECIFICATION FairSpec
CONSTANTS
  NULL = NULL
  a = a
  b = b
  Keys <- MCKeys
  Programs = 2
  Events = {1}
  JobKinds = {"event", "rtsp", "test"}
  MaxDevices = 2
  MaxSessions = 2
  MaxJobs = 1
INVARIANTS
  UsesLive
  StoppedIsQuiet
  
PROPERTIES
  EveryProgramVisited
  RecordingEnds
CHECK_DEADLOCK FALSE
