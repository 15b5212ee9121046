SPECIFICATION Spec
CONSTANTS
    Objects = 2
    Requests = 4
    Warmup = 1
    BatchSize = 3
    Workers = {1, 2}
    MaxFaults = 1
INVARIANTS
    ProbeIsRight
    ClientAgreesWithServer
    OriginLoadExplained
PROPERTIES
    ClientEnds
CHECK_DEADLOCK FALSE
