----------------------------- MODULE MCTraceState -----------------------------
EXTENDS SpanStart

\* A request with the headers of W3C.
MCHeaders == {
    ("traceparent" :> [trace |-> 101, span |-> 102, parent |-> 0, sampled |-> TRUE,
                       debug |-> FALSE]) @@ ("tracestate" :> TRUE)}
=============================================================================
