SPECIFICATION FairSpec
CONSTANTS
    Jobs <- MCJobs
    Outcomes <- MCOutcomes
    GROUPS <- MCGroups
    Edition = "release"
    NoResult = NoResult
    Torn = Torn
    NoFile = NoFile
    NoDoc = NoDoc
    MaxFaults = 1
    MaxEdits = 1
INVARIANTS
    NoForgottenContainer
    MeasuredOnce
    FinishedMeansMeasured
    ValidMeansMeasured
    OneHarness
    ResultsBehindRuns
    CheckedClaimsBacked
    SummaryAgrees
PROPERTIES
    VerdictsAreFinal
    FinishesUnlessDied
CHECK_DEADLOCK FALSE
