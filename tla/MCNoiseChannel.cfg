CONSTANTS
    Base = 4
    Half = 2
    PackedMax = 3
    OwnNodes <- MCOwnNodes
    ServerNodes <- MCServerNodes
    Compressed <- MCCompressed
    Length <- WireLength
    MaxSent = 2
    MaxFailures = 1
SPECIFICATION ChannelSpec
INVARIANTS SendsInStep SameNodes
PROPERTIES ImplementsFifo NodesGiven
CHECK_DEADLOCK FALSE
