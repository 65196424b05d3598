SPECIFICATION JournalSpec
CONSTANTS
    MaxHosts = 1  MaxCalls = 1  MaxLeases = 1  MaxFaults = 0  Phases = 1
INVARIANT SessionStopClosesCalls
CHECK_DEADLOCK FALSE
