\* Two schedulers, each of which may be restarted or cut off once
CONSTANTS
    Procs = {s1, s2}
    Threads = {s1, s2}
    ProcOf <- MCProcOf
    Paths = {"SchedulerState", "uri"}
    Data = {"fw1", "fw2", "fw3", "fw4", "empty", "uri"}
    Ids <- MCIds
    MaxRetries = 0
    MaxFaults = 1
    MaxSessions = 1
SPECIFICATION FairSpec
INVARIANTS TypeOK LeaderOwnsUri
PROPERTY StandbyTakesOver
CHECK_DEADLOCK FALSE
