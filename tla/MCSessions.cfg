CONSTANTS
    Tasks = {a, b}
    NoTask = none
    Operations <- MCOperations
    MaxOps = 3
    MaxFaults = 1
SPECIFICATION Spec
INVARIANTS TrustedHaveSession
PROPERTIES MadeUpOnce OperationsEnd
CHECK_DEADLOCK FALSE
