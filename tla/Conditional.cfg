CONSTANTS
    Syncs = {a, b, t}
    Timed = {t}
    Notifiers = {p, q}
    MaxWaiting = 3
SPECIFICATION FairSpec
INVARIANT WaitersReachable
PROPERTIES OldestFirst NotifyWakes
\* the process may panic, or block for ever
CHECK_DEADLOCK FALSE
