SPECIFICATION FairSpec
CONSTANTS
    MaxEvents = 6
INVARIANT ConnectedTogether
PROPERTY EndsTogether
PROPERTY HangupEnds
PROPERTY SessionTimerEnds
PROPERTY ImplementsDialogLife
CHECK_DEADLOCK FALSE
