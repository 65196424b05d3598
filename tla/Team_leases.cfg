SPECIFICATION SharesSpec
CONSTANTS
    Leases = Leases  Budget = Budget  Tasks = Tasks  Supervision = Supervision
    Scopes = {Leases, Budget}
    Agents = {a1}  Tickets = {k1, k2}  NoTicket = NoTicket
    Generations = 2  SlotCount = 1  MaxTeamRuns = 1  MaxLapses = 1  MaxTorn = 0
    Calls = {c1, c2}  MaxToolCalls = 1  MaxExecutions = 3
    MaxTasks = 2  TeamMembers = {m1}  Schedulers = {s1}  Editors = {e1}  MaxCommands = 3  MaxTaskCrashes = 1
    MaxTeamEvents = 2  Sweeps = {v1, v2}  NoSweep = NoSweep  SweepLimit = 2  MaxSupervisionFaults = 1
INVARIANTS TeamTypeOK RevokedNotWritten BudgetExact
PROPERTIES StoppedUntilReopened SharesRecovered
CONSTRAINT LateReplay
CHECK_DEADLOCK FALSE
