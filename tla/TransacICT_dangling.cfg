SPECIFICATION IctSpec
CONSTANTS
    MaxTold = 2
    SendMayFail = FALSE
INVARIANT CommentTimersCancelledOnTerminated
CHECK_DEADLOCK FALSE
