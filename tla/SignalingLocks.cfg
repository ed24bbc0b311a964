SPECIFICATION FairSpec
CONSTANT Threads = {p1, p2, p3}
INVARIANT DialogEndsOnce
INVARIANT NoOrphanTransaction
INVARIANT OnlyDialogLockDeadlocks
PROPERTY CallsReturn
CHECK_DEADLOCK FALSE
