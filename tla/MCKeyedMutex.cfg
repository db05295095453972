SPECIFICATION FairSpec
CONSTANTS
    Tasks = {t1, t2, t3, t4}
    Keys = {a, b}
    LockIds = {l1, l2, l3}
    NoLock = NoLock
    NoTask = NoTask
    NoKey = NoKey
INVARIANTS MutualExclusion CountsCallers
PROPERTIES WaiterServed ImplementsKeyedLine
