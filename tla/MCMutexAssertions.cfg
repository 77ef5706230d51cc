\* Two threads make up to two calls each.
SPECIFICATION Spec
CONSTANTS
    Thread = {t1, t2}
    NoThread = NoThread
    MaxHeld = 2
    MaxCalls = 2
INVARIANTS
    AssertionsHold
CHECK_DEADLOCK FALSE
