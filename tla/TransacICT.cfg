SPECIFICATION IctFairSpec
CONSTANTS
    MaxTold = 2
    SendMayFail = TRUE
INVARIANT OutcomeOnce
INVARIANT AckOnlyForFailure
PROPERTY ImplementsClientTransac
PROPERTY WaitsEnd
CHECK_DEADLOCK FALSE
