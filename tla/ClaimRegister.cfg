\* The same, with one lost answer
CONSTANTS
    first = first
    second = second
    query = query
    here = here
    there = there
    Procs = {here, there}
    Registrations = {first, second}
    Queries = {query}
    Threads <- MCThreads
    ProcOf <- MCProcOf
    NameOf <- MCNameOf
    PortOf <- MCPortOf
    Paths = {"riak"}
    Data = {"port1", "port2"}
    MaxRetries = 2
    MaxFaults = 1
    MaxSessions = 1
SPECIFICATION Spec
INVARIANT RegistrationIsWritten
CHECK_DEADLOCK FALSE
