----------------------------- MODULE Propagation -----------------------------
(***************************************************************************)
(* jaeger-client-cpp: how a span's context gets into the headers of a      *)
(* request and out of them again: headers of HTTP and a map of text in the *)
(* format of Jaeger, headers of W3C, and the binary format.                *)
(*                                                                         *)
(* Headers are a function from the names that are there to their values;   *)
(* all headers that start with uberctx- are one of them, the items of      *)
(* baggage with their keys and values as they are sent.  jaeger-baggage is *)
(* the items that its value lists.  A header that names a context has the  *)
(* context's ids and flags, or is corrupted.  The id for debugging is      *)
(* there or not.                                                           *)
(***************************************************************************)
EXTENDS URI

CONSTANT corrupted

\* Keys and values of baggage are strings; a context has one item for a key.
Item == [key : Seq(Int), value : Seq(Int)]

\* The ids and flags of a context, as a header has them.
ContextIds == [trace : Nat, span : Nat, parent : Nat, sampled : BOOLEAN, debug : BOOLEAN]

\* "jaeger" is HTTP's headers, "text" any other map of text.
Format == {"jaeger", "text", "w3c", "binary"}

\* SpanContext()
NoContext == [trace |-> 0, span |-> 0, parent |-> 0, sampled |-> FALSE, debug |-> FALSE,
              baggage |-> {}, debugID |-> FALSE, traceState |-> FALSE]

IsValid(ctx) == ctx.trace # 0 /\ ctx.span # 0

Ids(ctx) == [trace |-> ctx.trace, span |-> ctx.span, parent |-> ctx.parent,
             sampled |-> ctx.sampled, debug |-> ctx.debug]

-----------------------------------------------------------------------------
\* Only for headers of HTTP are values escaped, and keys taken in lower case.
tolower(ch) == IF ch \in 65..90 THEN ch + 32 ELSE ch

normalizeKey(key, format) ==
    IF format = "jaeger" THEN [i \in 1..Len(key) |-> tolower(key[i])] ELSE key

encodeValue(value, format) == IF format = "jaeger" THEN queryEscape(value) ELSE value

\* Mutant of decodeValue: the escapes stay in.
decodeValue_AsIs(value, format) == value

decodeValue(value, format) == IF format = "jaeger" THEN queryUnescape(value) ELSE value

Encoded(item, format) == [item EXCEPT !.value = encodeValue(@, format)]

Received(item, format) ==
    [key |-> normalizeKey(item.key, format), value |-> decodeValue(item.value, format)]

\* The maps that items make: of those with the same key it takes the one it meets last,
\* and may meet them in any order.
Merged(items) == {map \in SUBSET items :
    /\ \A item \in items : \E kept \in map : kept.key = item.key
    /\ \A a, b \in map : a.key = b.key => a = b}

\* The parent's id has no place in traceparent, and baggage none in the headers of W3C.
doInject(ctx, format) ==
    CASE format \in {"jaeger", "text"} -> [name \in {"uber-trace-id", "uberctx-"} |->
             IF name = "uber-trace-id" THEN Ids(ctx)
             ELSE {Encoded(item, format) : item \in ctx.baggage}]
      [] format = "w3c" -> [name \in {"traceparent"} \cup {n \in {"tracestate"} : ctx.traceState} |->
             IF name = "traceparent" THEN [Ids(ctx) EXCEPT !.parent = 0] ELSE TRUE]
      [] format = "binary" -> [name \in {"stream", "baggage"} |->
             IF name = "stream" THEN Ids(ctx) ELSE ctx.baggage]

ValueOf(headers, name, default) == IF name \in DOMAIN headers THEN headers[name] ELSE default

\* A corrupted context, or one without a trace, takes everything else with it.
Decoded(headers, name, ctx) ==
    LET ids == ValueOf(headers, name, Ids(NoContext))
    IN  IF name \in DOMAIN headers /\ (ids = corrupted \/ ids.trace = 0) THEN NoContext
        ELSE [ctx EXCEPT !.trace = ids.trace, !.span = ids.span, !.parent = ids.parent,
                         !.sampled = ids.sampled, !.debug = ids.debug]

\* The baggage found in headers of Jaeger.
Baggages(headers, format) ==
    Merged({Received(item, format) : item \in ValueOf(headers, "uberctx-", {})}
           \cup ValueOf(headers, "jaeger-baggage", {}))

\* Mutant of doExtract: the flags are not read from traceparent.
doExtract_NoFlags(headers, format) ==
    IF format = "w3c"
      THEN {[Decoded(headers, "traceparent",
                     [NoContext EXCEPT !.traceState = "tracestate" \in DOMAIN headers])
                EXCEPT !.sampled = FALSE]}
      ELSE {Decoded(headers, "uber-trace-id", [NoContext EXCEPT !.baggage = map]) :
               map \in Baggages(headers, format)}

\* The contexts that may come out.
doExtract(headers, format) ==
    CASE format \in {"jaeger", "text"} ->
             {Decoded(headers, "uber-trace-id", [NoContext EXCEPT !.baggage = map]) :
                 map \in Baggages(headers, format)}
      [] format = "w3c" -> {Decoded(headers, "traceparent",
             [NoContext EXCEPT !.traceState = "tracestate" \in DOMAIN headers])}
      [] format = "binary" ->
             {[NoContext EXCEPT !.trace = headers["stream"].trace, !.span = headers["stream"].span,
                                !.parent = headers["stream"].parent,
                                !.sampled = headers["stream"].sampled,
                                !.debug = headers["stream"].debug, !.baggage = headers["baggage"]]}

\* The header for debugging counts in all formats of headers, whatever is beside it.
Debugged(ctx, debugID) ==
    IF ctx.trace = 0 /\ ctx.baggage = {} /\ ~debugID THEN NoContext
    ELSE [ctx EXCEPT !.sampled = @ \/ debugID, !.debug = @ \/ debugID, !.debugID = debugID]

extract(headers, format) ==
    {Debugged(ctx, "jaeger-debug-id" \in DOMAIN headers) : ctx \in doExtract(headers, format)}
=============================================================================
