CONSTANTS
    Syncs = {a, b, t}
    Timed = {t}
    Notifiers = {p, q}
    MaxWaiting = 3
SPECIFICATION FairSpec
INVARIANT WaiterStillActive
\* the process may panic, or block for ever
CHECK_DEADLOCK FALSE
