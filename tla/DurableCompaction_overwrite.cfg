CONSTANTS
  w1 = w1
  w2 = w2
  Workers = {w1, w2}
  MaxJobs = 1
  MaxTurns = 2
  MaxAttempts = 1
  MaxCas = 2
  MaxEpoch = 0
  MaxFaults = 0
  MaxSyncs = 1
  MayCancel = FALSE
  MayDelete = FALSE
SPECIFICATION Spec
PROPERTY OfferedContextUntouched
