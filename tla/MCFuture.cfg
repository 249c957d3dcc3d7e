CONSTANTS
    Threads = {t1, t2}
    States = {1, 2, 3}
    MaxWaiters = 1
SPECIFICATION FutureSpec
INVARIANTS
    ContinuationInOnePlace
PROPERTIES
    ResolutionReaches
CHECK_DEADLOCK FALSE
