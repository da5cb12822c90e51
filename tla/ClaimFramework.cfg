\* A leader and its standby, with nothing lost
CONSTANTS
    Procs = {s1, s2}
    Threads = {s1, s2}
    ProcOf <- MCProcOf
    Paths = {"SchedulerState", "uri"}
    Data = {"fw1", "fw2", "fw3", "fw4", "empty", "uri"}
    Ids <- MCIds
    MaxRetries = 1
    MaxFaults = 0
    MaxSessions = 0
SPECIFICATION Spec
PROPERTY SameFrameworkId
CHECK_DEADLOCK FALSE
