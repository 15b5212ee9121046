CONSTANTS
    Int64Min <- MinInt64
    Int64Max = 3
    Modulus = 16
    NoItem = NoItem
    NoThread = NoThread
    NoRequest = NoRequest
    EmptyKey = EmptyKey
    k1 = k1
    Keys = {k1, EmptyKey}
    Threads = {s1, t1}
    Streams = {s1}
    Frames <- SomeFrames
    Requests <- Asked
    OtherRequests <- Deletes
    Window = 1
    MaxFrames = 3
    MaxCalls = 3
    MaxTime = 1
SPECIFICATION FairSpecP
INVARIANTS
    ResponsesInOrder
    OwnWritesSeen
PROPERTIES
    StreamEnds
