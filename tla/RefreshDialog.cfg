SPECIFICATION FairSpec
CONSTANTS
    Leases = {1, 3, 5}
    Wanted = 2
    MinExpires = 3
    LongLease = 3
    Margin = 2
    ShutdownTimeout = 2
INVARIANT RefreshInTime
PROPERTY NoRevival
PROPERTY ShutdownEnds
PROPERTY ImplementsDialogLife
CHECK_DEADLOCK FALSE
