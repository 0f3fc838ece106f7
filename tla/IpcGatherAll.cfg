CONSTANTS
    Workers = {1, 2, 3}
    Requests = {"gather", "get"}
    Owner <- MCOwner
    Target <- MCTarget
    Everyone = 0
    Timed = {"get"}
    Late = {}
    Addresses = {"x", "y"}
    MaxExits = 1
SPECIFICATION FairSpec
INVARIANT WaitsForAllWorkers
\* calls end, or wait for ever
CHECK_DEADLOCK FALSE
