SPECIFICATION NictSpec
CONSTANTS
    MaxTold = 2
    SendMayFail = TRUE
INVARIANT OutcomeOnce
INVARIANT NoRetransmissionAfterFinal
PROPERTY ImplementsClientTransac
CHECK_DEADLOCK FALSE
