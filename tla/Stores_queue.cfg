SPECIFICATION InputsSpec
CONSTANTS
    Queue = Queue  Memory = Memory  Journal = Journal  Workspace = Workspace
    Scopes = {Queue, Memory}
    UserMessages = {u1}  Updates = {t1}  Executors = {e1}  Deliverers = {d1}  MaxRuns = 2  MaxLosses = 1
    NoRun = NoRun  NoOne = NoOne
    MemoryRuns = {r1, r2}  MemoryWorkers = {b1}  NoWorker = NoWorker  BatchSize = 2  MaxAttempts = 2
    PreferenceLimit = 2  MaxMemoryCrashes = 1
    Writers = {w1, w2}  NoWriter = NoWriter  Paths = {p1, p2, p3}  SharedPaths = {p1, p2}  OwnPaths = {p2, p3}
    SharedSet = SharedSet  Members = {w1}  TeamRoots = {}  MaxFiles = 2
    MaxHosts = 2  MaxCalls = 2  MaxLeases = 2  MaxFaults = 1  Phases = 1
INVARIANTS StoresTypeOK InputAccounted MemoryOfCompletedTurns
PROPERTIES ReceiptFinal PutByIsWorkedOff
CHECK_DEADLOCK FALSE
