SPECIFICATION FairSpec
CONSTANTS
  p1 = p1
  p2 = p2
  Processes <- TwoProcesses
  MaxRuns = 1
  MaxLeases = 2
  MaxDispatch = 2
  Modes <- BothModes
  MaxFaults = 2
  MaxStalls = 0
  MaxStale = 1
PROPERTY CancelEnds
PROPERTY RunSettles
CHECK_DEADLOCK FALSE
