SPECIFICATION SyncSpec
CONSTANTS
    m = m
    h1 = h1
    h2 = h2
    Messages <- MCMessages
    Handlers <- MCHandlers
    EarlierViews <- MCEarlierViews
    MaxEvents = 3
INVARIANT  UnreadTold
PROPERTY SyncEnds
CHECK_DEADLOCK FALSE
