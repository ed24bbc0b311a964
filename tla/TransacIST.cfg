SPECIFICATION IstFairSpec
CONSTANTS
    MaxTold = 2
    SendMayFail = TRUE
INVARIANT OneFinal
INVARIANT ResponsesCease
INVARIANT MissingAckReported
PROPERTY FinalStatesEnd
CHECK_DEADLOCK FALSE
