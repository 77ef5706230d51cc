\* The program only lets go of the tracer (Chapter15/customer).
SPECIFICATION FairAlive
CONSTANTS
    t1 = t1
    t2 = t2
    c1 = c1
    c2 = c2
    destructor = destructor
    small1 = small1
    small2 = small2
    middle = middle
    Thread <- MCThread
    Closer <- MCCloser
    Span <- MCSpan
    SpanSize <- MCSpanSize
    ProcessSize = 10
    maxPacketSize = 100
    Transporter = "HTTPTransporter"
    MaxFailed = 1
    fixedQueueSize = 2
    ClosesTracer = FALSE
PROPERTIES
    DestructorFlushes
