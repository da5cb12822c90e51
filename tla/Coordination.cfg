\* The leader and a scheduler that still takes itself for the leader; or two
\* executors that start at the same time
CONSTANTS
    Schedulers = {s1, s2}
    Executors = {e1, e2}
    Teams <- MCTeams
    Threads <- MCThreads
    Procs <- MCThreads
    ProcOf <- MCProcOf
    Paths <- MCPaths
    Data = {"nil", "ports", "empty", "new"}
    MaxRetries = 2
    MaxFaults = 2
    MaxSessions = 1
    MaxPersists = 2
SPECIFICATION Spec
INVARIANTS TypeOK EnsureTolerates MadeNodeIsOwn PersistTolerates
PROPERTY PersistIsRegister
CHECK_DEADLOCK FALSE
