SPECIFICATION TurnSpec
CONSTANTS
    Queue = Queue  Memory = Memory  Journal = Journal  Workspace = Workspace
    Scopes = {Workspace, Memory, Journal}
    UserMessages = {u1}  Updates = {t1}  Executors = {e1}  Deliverers = {d1}  MaxRuns = 2  MaxLosses = 1
    NoRun = NoRun  NoOne = NoOne
    MemoryRuns = {r1, r2}  MemoryWorkers = {b1, b2}  NoWorker = NoWorker  BatchSize = 2  MaxAttempts = 1
    PreferenceLimit = 2  MaxMemoryCrashes = 1
    Writers = {w1, w2}  NoWriter = NoWriter  Paths = {p1, p2, p3}  SharedPaths = {p1, p2}  OwnPaths = {p2, p3}
    SharedSet = SharedSet  Members = {w1}  TeamRoots = {}  MaxFiles = 2
    MaxHosts = 2  MaxCalls = 2  MaxLeases = 2  MaxFaults = 1  Phases = 1
INVARIANTS StoresTypeOK PathsWithinCapacity DecidedOnce EffectsAsReported ResultsPaired
PROPERTIES BegunIsEnded
CHECK_DEADLOCK FALSE
