SPECIFICATION FairSpec
CONSTANTS
    Timers = {t1, t2}
    None = None
    MaxTime = 2
INVARIANT SemaphoreCounts
INVARIANT CancelInTime
PROPERTY TimerEnds
PROPERTY StopReturns
CHECK_DEADLOCK FALSE
