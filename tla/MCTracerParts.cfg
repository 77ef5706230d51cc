\* Five spans and up to two failures of emitBatch in a row; half a credit a second up to a credit and
\* a half; five uses of a span by two threads; one operation tracked unasked, three
\* polls, two calls of close(), the same for restrictions; one span with up to three
\* references and one more.
SPECIFICATION PartsSpec
CONSTANTS
    small1 = small1
    small2 = small2
    middle = middle
    big = big
    oversized = oversized
    Span <- MCSpan
    SpanSize <- MCSpanSize
    ProcessSize = 10
    maxPacketSize = 100
    Transporter = "HTTPTransporter"
    MaxFailed = 2
    CreditsPerSecond = 1
    MaxBalance = 3
    Cost = {1, 2, 4}
    MaxTime = 4
    Caller = {t1, t2}
    MaxUses = 5
    o1 = o1
    o2 = o2
    Operation = {o1, o2, o3}
    Closer = {c1, c2}
    Answer <- MCAnswer
    MaxOperations = 1
    MaxRate = 2
    MaxPolls = 3
    Restricter = {c1, c2}
    NoSuccess = NoSuccess
    k1 = k1
    k2 = k2
    KeyRestrictionMaps <- MCKeyRestrictionMaps
    BaggageKey = {k1, k2}
    kDefaultMaxValueLength = 3
    MaxUpdates = 3
    Headers <- MCHeaders
    corrupted = corrupted
    Foreign = Foreign
    MaxReceived = 2
    MaxSpans = 2
    MaxReferences = 3
INVARIANTS
    PartsOK
    BatchFits
    CounterBounded
    EachSpanOnce
    RateKept
    ReportedOnce
    FinishedIsFrozen
    OperationsBounded
    ParentChosen
    TraceShared
PROPERTIES
    LossIsNoticed
    RefusesOnlyBeyondRate
    SampledIsReported
    PollsKeepState
    CloseEndsPolling
\* A span's uses and the spans of a tracer are bounded.
CHECK_DEADLOCK FALSE
