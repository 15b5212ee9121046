CONSTANTS
    Handlers = {h1, h2}
    MaxCalls = 3
    MaxScrapes = 2
    MaxSignals = 2
SPECIFICATION PatientSpec
INVARIANTS
    CacheOutlivesUsers
    CleanExit
PROPERTIES
    StopsAfterSignal
