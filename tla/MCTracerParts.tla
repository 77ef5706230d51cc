---------------------------- MODULE MCTracerParts ----------------------------
(* The constants of the parts of a tracer for TLC.                          *)
EXTENDS TracerParts, TLC

CONSTANTS small1, small2, middle, big, oversized

\* Packets of 100 bytes, 60 of them for spans.  Two small spans leave room for a
\* third, a small and a middle one fill a batch to the byte, a big one does not share
\* a batch, an oversized one is rejected.
MCSpan == {small1, small2, middle, big, oversized}
MCSpanSize == (small1 :> 20) @@ (small2 :> 20) @@ (middle :> 40) @@
              (big :> 60) @@ (oversized :> 61)

-----------------------------------------------------------------------------
CONSTANTS o1, o2

\* Rates are halves: 3 is beyond 1.0.  The agent names one operation, with either of
\* two lower bounds, two operations, or none.
MCAnswer == {
    [kind |-> "probabilistic", rate |-> 3],
    [kind |-> "rateLimiting", rate |-> 1],
    [kind |-> "operations", rate |-> 1, lowerBound |-> 1, rates |-> << >>],
    [kind |-> "operations", rate |-> 1, lowerBound |-> 1, rates |-> (o1 :> 3)],
    [kind |-> "operations", rate |-> 2, lowerBound |-> 2, rates |-> (o1 :> 1) @@ (o2 :> 1)]}

-----------------------------------------------------------------------------
\* Requests from elsewhere: a sampled span with an escaped space, and an escaped tab below
\* a key that is another's in upper case, one in the headers of W3C, one that is not
\* sampled with a header for debugging, that header alone, baggage with a key in upper
\* case alone, and a context that is corrupted.
Remote(flag) == [trace |-> 101, span |-> 102, parent |-> 0, sampled |-> flag, debug |-> FALSE]
b == <<98>>
B == <<66>>
c == <<99>>
escapedTab == <<37, 48, 57>>
escapedSpace == <<37, 50, 48>>
MCHeaders == {
    ("uber-trace-id" :> Remote(TRUE)) @@
        ("uberctx-" :> {[key |-> c, value |-> escapedSpace], [key |-> b, value |-> b],
                        [key |-> B, value |-> escapedTab]}),
    ("traceparent" :> Remote(TRUE)) @@ ("tracestate" :> TRUE),
    ("uber-trace-id" :> Remote(FALSE)) @@ ("jaeger-debug-id" :> TRUE),
    "jaeger-debug-id" :> TRUE,
    "jaeger-baggage" :> {[key |-> B, value |-> b]},
    ("uber-trace-id" :> corrupted) @@ ("uberctx-" :> {[key |-> b, value |-> b]})}

-----------------------------------------------------------------------------
CONSTANTS k1, k2

\* The agent allows one key, or both, or the same key with a shorter value, or none.
MCKeyRestrictionMaps == {k1 :> 2, (k1 :> 2) @@ (k2 :> 1), k1 :> 1, << >>}
=============================================================================
