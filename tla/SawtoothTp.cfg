CONSTANTS
    Txns = {"t1", "t2"}
    Handlers = 2
    MaxFaults = 1
    MaxRequests = 2
SPECIFICATION FairSpec
INVARIANTS NothingVanishes RepliesInOrder
PROPERTIES SubmittedIsAnswered RegistersAgain
\* everything may have been answered
CHECK_DEADLOCK FALSE
