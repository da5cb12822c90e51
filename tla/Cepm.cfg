\* A node that moves from one executor to the next while it is looked up
CONSTANTS
    first = first
    second = second
    query = query
    here = here
    there = there
    Procs = {here, there}
    Registrations = {first, second}
    Queries = {query}
    Threads <- MCThreads
    ProcOf <- MCProcOf
    NameOf <- MCNameOf
    PortOf <- MCPortOf
    Paths = {"riak"}
    Data = {"port1", "port2"}
    MaxRetries = 1
    MaxFaults = 1
    MaxSessions = 0
SPECIFICATION FairSpec
INVARIANTS TypeOK NameHasKeeper
PROPERTY NameIsForgotten
CHECK_DEADLOCK FALSE
