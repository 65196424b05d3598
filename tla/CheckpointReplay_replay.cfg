SPECIFICATION ReplaySpec
CONSTANTS
    Kinds = {"conversation", "session"}  MaxSaved = 3  MaxReplacements = 3  MaxReplayCrashes = 2  MayForget = TRUE
INVARIANT ReplayKeepsTurns
CHECK_DEADLOCK FALSE
