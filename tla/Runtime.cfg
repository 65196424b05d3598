SPECIFICATION RuntimeSpec
CONSTANTS
    Lease = Lease  Loop = Loop  Replay = Replay  Repair = Repair  Prefix = Prefix
    Scopes = {Lease, Loop, Replay, Repair, Prefix}
    p1 = p1  p2 = p2  Processes = {p1, p2}
    MaxRuns = 2  MaxLeases = 2  MaxDispatch = 2  Modes <- BothModes  MaxFaults = 2  MaxStalls = 0  MaxStale = 1
    Window = 12  OutputRoom = 4  SummaryRoom = 2  Instruction = 1  Static = 2  Guide = 1  Paces = {1, 2}
    DefaultGrowth = 2  Corrections = {0, 1}  MaxTurns = 3  MaxRejections = 1
    Kinds = {"conversation", "session"}  MaxSaved = 3  MaxReplacements = 3  MaxReplayCrashes = 2  MayForget = TRUE
    Operators = {o1, o2}  Attempts = {1}  MaxRepairRuns = 1  MaxRevision = 2  MaxRepairJobs = 1  MaxChanges = 1
    Calls = {a, b}  Sizes = {1, 2}  RequestLimit = 5  MaxMessages = 4
SYMMETRY RuntimeSymmetry
INVARIANTS TypeOK RuntimeTypeOK OneActiveRun BackgroundSound ReplayExact RepairSound
PROPERTY OnlyHolderWrites
CHECK_DEADLOCK FALSE
