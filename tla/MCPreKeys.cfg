SPECIFICATION FairSpec

CONSTANTS
    Uploaders = {u1, u2}
    Retriers = {r1}
    NoTask = NoTask
    Counts = {1, 2}
    Stores = {TRUE, FALSE}
    MaxAttempts = 1
    MaxId = 3
    MaxCalls = 2
    MaxFaults = 2
INVARIANTS PublishedStored NoIdReuse SingleFlight
PROPERTIES UploadReturns
