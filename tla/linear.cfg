CONSTANTS
    Int64Min <- MinInt64
    Int64Max = 3
    Modulus = 16
    NoItem = NoItem
    k1 = k1
    k2 = k2
    Threads = {t1, t2}
    Keys = {k1, k2}
    Requests <- LockedRequests
    NoThread = NoThread
    NoRequest = NoRequest
    Nobody = Nobody
    MaxCalls = 2
    MaxTime = 2
SPECIFICATION FairSpecL
PROPERTIES
    Linearizable
    EveryCallReturns
