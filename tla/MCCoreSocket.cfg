SPECIFICATION SocketFairSpec

CONSTANTS
    Interval = 1
    Grace = 0
    QueryTimeout = 2
    ConnectTimeout = 1
    MaxInbox = 1
    Prompt = FALSE
    Faults = TRUE
    CanDisconnect = TRUE
INVARIANTS SilenceBounded
PROPERTIES NoOpenAfterClose CloseReported QueryEnds
