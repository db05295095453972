SPECIFICATION Spec
CONSTANTS
    Sends = {s1, s2}
    Devices = {d1, d2}
    None = none
    Absent = absent
    Torn = torn
    Files <- MCFiles
    MaxStates = 2
    MaxKeys = 2
    MaxFuture = 3
    Attempts = 2
    MaxFaults = 2
    MaxCrashes = 1
INVARIANTS NoKeyReuse RememberedHaveKey ReadersFindData
PROPERTIES OpenedOnce
CHECK_DEADLOCK FALSE
