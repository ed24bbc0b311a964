SPECIFICATION FairSpec
CONSTANTS
    MaxHeard = 3
    MaxAgain = 1
    MaxLost = 2
INVARIANT HandledOnce
INVARIANT AnswerKept
PROPERTY Concludes
PROPERTY ImplementsExchange
CHECK_DEADLOCK FALSE
