\* three callers, one with a timeout; the fifth ticket overflows the int
CONSTANTS
    Procs = {a, b, c}
    Timed = {b}
    MaxTickets = 5
    IntRange = 8
    CounterRange = 16
SPECIFICATION FairSpec
INVARIANTS TypeOK MutualExclusion
PROPERTIES NoOvertaking LostTicketStops EveryTicketServed ImplementsMutex
\* the ticket bound, a lost ticket or a dead holder may leave nothing to do
CHECK_DEADLOCK FALSE
