\* Three threads make up to two calls each and hold up to two locks of a kind.
SPECIFICATION FairSpec
CONSTANTS
    Thread = {t1, t2, t3}
    NoThread = NoThread
    MaxHeld = 2
    MaxCalls = 2
INVARIANTS
    LocksBacked
    Exclusion
PROPERTIES
    EveryCallReturns
    PromiseKept
\* Threads stop when they have made their calls.
CHECK_DEADLOCK FALSE
