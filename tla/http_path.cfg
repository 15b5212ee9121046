SPECIFICATION Spec
CONSTANTS
    o1 = o1
    o2 = o2
    Objects = {o1}
    WarmKeys <- MCWarmKeys
    Keys <- MCKeys
    Workers = {1, 2}
    Concurrency = 2
    None = None
    MaxFaults = 1
INVARIANTS
    BodyIsOfTheObject
    EveryRequestCounted
    DeltaCoversMisses
PROPERTIES
    ClientEnds
CHECK_DEADLOCK FALSE
