CONSTANTS
  w1 = w1
  w2 = w2
  Workers = {w1, w2}
  MaxJobs = 1
  MaxTurns = 2
  MaxAttempts = 2
  MaxCas = 2
  MaxEpoch = 0
  MaxFaults = 2
  MaxSyncs = 0
  MayCancel = FALSE
  MayDelete = TRUE
SPECIFICATION FairSpec
CHECK_DEADLOCK FALSE
INVARIANT SwappedAtMostOnce
PROPERTIES
  ImplementsContextReplacement
  ActiveJobTerminates
  FenceCleared
