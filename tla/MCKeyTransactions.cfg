SPECIFICATION FairSpec
CONSTANTS
    Tasks = {t1, t2}
    t1 = t1
    k1 = k1
    NoTask = NoTask
    Records = {r1, r2}
    Keys = {k1, k2}
    NoKey = NoKey
    KeysOf <- MCKeysOf
    Absent = Absent
    MaxAttempts = 2
    MaxUpdates = 1
    MaxLate = 1
INVARIANTS ReadsCurrent
PROPERTIES ImplementsAtomicStore TransactionEnds
