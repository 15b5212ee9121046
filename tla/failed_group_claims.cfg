SPECIFICATION Spec
CONSTANTS
    Jobs <- MCJobs
    Outcomes <- MCOutcomes
    GROUPS <- MCGroups
    Edition = "landscape"
    NoResult = NoResult
    Torn = Torn
    NoFile = NoFile
    NoDoc = NoDoc
    MaxFaults = 1
    MaxEdits = 1
INVARIANT
    FailedGroupsClaimNothing
CHECK_DEADLOCK FALSE
