CONSTANTS
    Int64Min <- MinInt64
    Int64Max = 3
    Modulus = 16
    NoItem = NoItem
    k1 = k1
    k2 = k2
    Threads = {t1, t2}
    Keys = {k1}
    Requests <- WindowRequests
    NoThread = NoThread
    NoRequest = NoRequest
    MaxCalls = 2
    MaxTime = 3
SPECIFICATION Spec
SYMMETRY AnyThread
INVARIANTS
    TypeOK
    ReadStillCurrent
PROPERTIES
    CountersMoveExactly
    FixedWindow
