CONSTANTS
    Int64Min <- MinInt64
    Int64Max = 3
    Modulus = 16
    NoItem = NoItem
    NoThread = NoThread
    NoRequest = NoRequest
    NoMessage = NoMessage
    NoAnswer = NoAnswer
    EmptyKey = EmptyKey
    k1 = k1
    Keys = {k1, EmptyKey}
    Threads = {t1, t2}
    Messages <- AllMessages
    Requests <- AllRequests
    MaxRpcs = 3
    MaxCalls = 9
    MaxTime = 1
SPECIFICATION SpecS
SYMMETRY AnyThread
INVARIANTS
    AnswersWereTrue
    AnswersTellEffects
PROPERTIES
    DeadlineAsAsked
