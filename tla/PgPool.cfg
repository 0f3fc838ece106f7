CONSTANTS
    Clients = {c1, c2, c3}
    Conns = {x, y}
    KeepAlive = 4
    Slack = 1
    Horizon = 1
    MinSleep = 3
    Batch = 2
    AutoCommit = TRUE
SPECIFICATION FairSpec
INVARIANTS PoolSound NoDirtyReuse
PROPERTIES NotClosedEarly IdleEnds
