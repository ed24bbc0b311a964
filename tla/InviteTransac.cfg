SPECIFICATION FairSpec
CONSTANTS
    MaxHeard = 1
    MaxLost = 1
INVARIANT AckMeansTold
PROPERTY CallerLearns
PROPERTY CalleeLearns
PROPERTY ImplementsExchange
CHECK_DEADLOCK FALSE
