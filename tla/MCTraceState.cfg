\* One request with a trace state, the span it starts and one more.
SPECIFICATION StartSpec
CONSTANTS
    Headers <- MCHeaders
    corrupted = corrupted
    Foreign = Foreign
    MaxReceived = 1
    MaxSpans = 2
    MaxReferences = 1
PROPERTY TraceStateKept
CHECK_DEADLOCK FALSE
