\* Three threads make up to two calls each.
SPECIFICATION TimedSpec
CONSTANTS
    Thread = {t1, t2, t3}
    NoThread = NoThread
    MaxHeld = 2
    MaxCalls = 2
INVARIANTS
    Exclusion
CHECK_DEADLOCK FALSE
