CONSTANTS
  w1 = w1
  w2 = w2
  Workers = {w1, w2}
  MaxJobs = 2
  MaxTurns = 2
  MaxAttempts = 2
  MaxCas = 2
  MaxEpoch = 0
  MaxFaults = 1
  MaxSyncs = 0
  MayCancel = TRUE
  MayDelete = TRUE
SPECIFICATION Spec
SYMMETRY WorkerSymmetry
CHECK_DEADLOCK FALSE
INVARIANT NoTurnLost
PROPERTY TerminalStable
