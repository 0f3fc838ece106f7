CONSTANTS
    Workers = {1, 2, 3}
    Requests = {"gather", "get"}
    Owner <- MCOwner
    Target <- MCTarget
    Everyone = 0
    Timed = {"gather"}
    Late = {3}
    Addresses = {"x", "y"}
    MaxExits = 1
SPECIFICATION FairSpec
INVARIANTS TypeOK AnswersBelong GatherComplete
PROPERTIES NoAnswerAfterTimeout CallsReturn
\* calls end, or wait for ever
CHECK_DEADLOCK FALSE
