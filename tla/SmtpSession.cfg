CONSTANTS
    Addresses = {"a", "b"}
    Bytes = {"r", "n", ".", "x"}
    Bodies <- MCBodies
    MaxRcpts = 2
    MaxMails = 2
SPECIFICATION Spec
INVARIANTS AuthBeforeMail MessageFramed EnvelopeKept
\* a session ends
CHECK_DEADLOCK FALSE
