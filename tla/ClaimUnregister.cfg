\* The same, with every answer delivered
CONSTANTS
    first = first
    second = second
    query = query
    here = here
    there = there
    Procs = {here, there}
    Registrations = {first, second}
    Queries = {query}
    Threads <- MCThreads
    ProcOf <- MCProcOf
    NameOf <- MCNameOf
    PortOf <- MCPortOf
    Paths = {"riak"}
    Data = {"port1", "port2"}
    MaxRetries = 2
    MaxFaults = 0
    MaxSessions = 0
SPECIFICATION Spec
INVARIANT RegisteredUntilDisconnect
CHECK_DEADLOCK FALSE
