\* two senders, three messages, one kind without and one with a body of
\* two chunks, and a pipe that holds less than one such message
CONSTANTS
    Senders = {s1, s2}
    Kinds = {"ping", "get"}
    Chunks <- MCChunks
    PipeCap = 2
    MaxSends <- MCMaxSends
SPECIFICATION FairSpec
INVARIANTS TypeOK BodiesIntact SenderOrder FragmentIsLast
PROPERTY SendReturns
\* the bound on sends, an exited receiver or a lost lock leave nothing to do
CHECK_DEADLOCK FALSE
