SPECIFICATION FairSpec
CONSTANTS
    MaxDialogs = 3
    MaxStops = 1
    Sorts <- MCSorts
CHECK_DEADLOCK FALSE
INVARIANT RegistrationsLast
INVARIANT SilentGone
PROPERTY SignalReachesAll
PROPERTY StopReturns
