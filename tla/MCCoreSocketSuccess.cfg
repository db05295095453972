SPECIFICATION SocketFairSpec
CONSTANTS
    Interval = 2
    Grace = 0
    QueryTimeout = 4
    ConnectTimeout = 2
    MaxInbox = 0
    Prompt = TRUE
    Faults = FALSE
    CanDisconnect = FALSE
PROPERTY SuccessOpens
