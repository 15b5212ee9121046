CONSTANTS
    Keys <- FourKeys
    Buckets = 3
    BucketOf <- TwoBuckets
    Places <- FourPlaces
    Matching <- ThreeMatch
    NoKey = NoKey
    Counts <- PageSizes
    DefaultCount = 2
    MaxCount = 3
    MaxChanges = 2
SPECIFICATION Spec
INVARIANTS
    SteadyKeysReturned
    NoKeyTwice
    FlushExact
PROPERTIES
    ScanFinishes
