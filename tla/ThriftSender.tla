----------------------------- MODULE ThriftSender -----------------------------
(***************************************************************************)
(* jaegertracing/ThriftSender: spans are serialized into a buffer and go   *)
(* out in one batch when the next span would make the batch too long for a *)
(* packet, or when flush() is called.  The length of the buffer is not     *)
(* measured but counted along, in _byteBufferSize.                         *)
(*                                                                         *)
(* A span is a model value with the length its serialization has.          *)
(*                                                                         *)
(* What becomes of a batch depends on the transport: emitBatch returns     *)
(* ("taken") or throws with the batch not gone out whole ("refused").      *)
(* HTTPTransporter also throws when the batch has gone out whole and the   *)
(* answer to it cannot be read ("unanswered"); a datagram has no answer.   *)
(* The sender cannot tell one exception from the other.                    *)
(***************************************************************************)
EXTENDS Integers, Sequences

CONSTANTS
    Span,
    SpanSize,      \* calcSizeOfSerializedThrift of each span
    ProcessSize,   \* the same of the process: service name and tracer tags
    maxPacketSize,
    Transporter,   \* utils::Transport: what Config::makeReporter chose
    MaxFailed      \* bound: calls of emitBatch that throw, one after another

kEmitBatchOverhead == 30

ASSUME SizeAssumption ==
    /\ SpanSize \in [Span -> Nat \ {0}]
    /\ ProcessSize \in Nat \ {0}
    /\ maxPacketSize \in Nat /\ maxPacketSize >= ProcessSize + kEmitBatchOverhead
    /\ Transporter \in {"UDPTransporter", "HTTPTransporter"}
    /\ MaxFailed \in Nat

VARIABLES
    appended,        \* history: the spans append() was called with
    processByteSize,
    byteBufferSize,
    spanBuffer,
    spanBytes,       \* history: the length of what spanBuffer holds
    delivered,       \* what has gone out, in the order sent, repetitions included
    taken,           \* history: the spans of the batches emitBatch returned for
    unanswered,      \* history: those of batches that went out though it threw
    lost,            \* spans that append() did not keep
    failure,         \* sum of the numFailed of the exceptions thrown
    failed           \* history: batches emitBatch threw for since it last returned

vars == <<appended, processByteSize, byteBufferSize, spanBuffer, spanBytes,
          delivered, taken, unanswered, lost, failure, failed>>

Outcome == {"taken", "refused"} \cup
           (IF Transporter = "HTTPTransporter" THEN {"unanswered"} ELSE {})

\* _maxSpanBytes once the process is known.
maxSpanBytes == maxPacketSize - ProcessSize - kEmitBatchOverhead

Init ==
    /\ appended = {} /\ lost = {} /\ failure = 0 /\ failed = 0
    /\ delivered = <<>> /\ taken = {} /\ unanswered = {}
    /\ processByteSize = 0 /\ byteBufferSize = 0
    /\ spanBuffer = <<>> /\ spanBytes = 0

-----------------------------------------------------------------------------
Members(spans) == {spans[i] : i \in DOMAIN spans}

\* The buffer holds these spans, bytes long, and is counted as size.
Buffer(spans, bytes, size) ==
    /\ spanBuffer' = spans /\ spanBytes' = bytes /\ byteBufferSize' = size

\* Mutant of resetBuffers: the buffer is counted as empty but not cleared.
resetBuffers_KeepsSpans == Buffer(spanBuffer, 0, processByteSize')

\* Mutant of resetBuffers: the counter goes down by what was sent.
resetBuffers_Subtracts == Buffer(<<>>, 0, byteBufferSize - spanBytes - processByteSize')

resetBuffers == Buffer(<<>>, 0, processByteSize')

\* emitBatch returns.
Emit(spans) ==
    /\ delivered' = delivered \o spans /\ taken' = taken \cup Members(spans)
    /\ failed' = 0
    /\ UNCHANGED <<unanswered, failure>>

\* Mutant of Fail: the exception does not say how many spans it is about.
Fail_CountsNone(spans, outcome) ==
    /\ failed < MaxFailed /\ failed' = failed + 1
    /\ UNCHANGED <<delivered, taken, unanswered, failure>>

\* emitBatch throws, and numFailed is the batch's length whatever went out.
Fail(spans, outcome) ==
    /\ failed < MaxFailed /\ failed' = failed + 1
    /\ failure' = failure + Len(spans)
    /\ IF outcome = "unanswered"
         THEN delivered' = delivered \o spans /\ unanswered' = unanswered \cup Members(spans)
         ELSE UNCHANGED <<delivered, unanswered>>
    /\ UNCHANGED taken

\* flush() when the buffer holds at least one span: only what emitBatch returned
\* for leaves the buffer, so a batch that went unanswered is sent again.
Send(spans, bytes, size, outcome) ==
    IF outcome = "taken" THEN Emit(spans) /\ resetBuffers
                         ELSE Fail(spans, outcome) /\ Buffer(spans, bytes, size)

\* Nothing is sent.
Quiet == UNCHANGED <<delivered, taken, unanswered, failure, failed>>

flush(outcome) ==
    /\ UNCHANGED <<appended, processByteSize, lost>>
    /\ IF spanBuffer = <<>>
         THEN Quiet /\ UNCHANGED <<spanBuffer, spanBytes, byteBufferSize>>
         ELSE Send(spanBuffer, spanBytes, byteBufferSize, outcome)

-----------------------------------------------------------------------------
\* What append() adds the span up to.
Larger(s) == byteBufferSize + SpanSize[s]

\* Mutant of TooLarge: any span that fits a packet by itself is taken.
TooLarge_Never(s) == FALSE

TooLarge(s) == SpanSize[s] > maxSpanBytes

Reject(s) ==
    /\ lost' = lost \cup {s} /\ failure' = failure + 1
    /\ UNCHANGED <<byteBufferSize, spanBuffer, spanBytes, delivered, taken, unanswered, failed>>

\* A span that fills the batch to the byte is sent with it.
Store(s, outcome) ==
    LET spans == Append(spanBuffer, s)
        bytes == spanBytes + SpanSize[s]
    IN  /\ IF Larger(s) < maxSpanBytes
             THEN Buffer(spans, bytes, Larger(s)) /\ Quiet
             ELSE Send(spans, bytes, Larger(s), outcome)
        /\ UNCHANGED lost

\* Mutant of FlushThenStore: the counter goes on from where it was.
FlushThenStore_AddsUp(s, outcome) ==
    /\ IF spanBuffer = <<>> THEN Quiet ELSE Emit(spanBuffer)
    /\ Buffer(<<s>>, SpanSize[s], Larger(s) + ProcessSize)
    /\ UNCHANGED lost

\* What is buffered goes out before the span is stored.  When it does not, the
\* exception leaves append(): the span has been counted and is not stored.
FlushThenStore(s, outcome) ==
    IF outcome = "taken" \/ spanBuffer = <<>>
      THEN /\ IF spanBuffer = <<>> THEN Quiet ELSE Emit(spanBuffer)
           /\ Buffer(<<s>>, SpanSize[s], SpanSize[s] + ProcessSize)
           /\ UNCHANGED lost
      ELSE /\ Fail(spanBuffer, outcome)
           /\ Buffer(spanBuffer, spanBytes, Larger(s))
           /\ lost' = lost \cup {s}

append(s, outcome) ==
    /\ appended' = appended \cup {s}
    /\ processByteSize' = ProcessSize
    /\ IF TooLarge(s) THEN Reject(s)
       ELSE IF Larger(s) <= maxSpanBytes THEN Store(s, outcome)
       ELSE FlushThenStore(s, outcome)

-----------------------------------------------------------------------------
\* Every span is appended once, in any order; flush() is called at any time.
Next == \E outcome \in Outcome :
    \/ flush(outcome)
    \/ \E s \in Span \ appended : append(s, outcome)

Spec == Init /\ [][Next]_vars

-----------------------------------------------------------------------------
TypeOK ==
    /\ appended \subseteq Span /\ lost \subseteq Span
    /\ processByteSize \in {0, ProcessSize}
    /\ byteBufferSize \in Nat /\ spanBytes \in Nat
    /\ spanBuffer \in Seq(Span) /\ delivered \in Seq(Span)
    /\ taken \subseteq Span /\ unanswered \subseteq Span
    /\ failure \in Nat /\ failed \in 0 .. MaxFailed

\* The batch that flush() would send never exceeds a packet, so the transport
\* never has cause for its "Data does not fit within one UDP packet": although
\* the first batch is counted without the process and the later ones count the
\* process twice, and although a failed append leaves its span counted.
BatchFits == spanBuffer # <<>> =>
    ProcessSize + spanBytes + kEmitBatchOverhead <= maxPacketSize

\* Failed appends are the only thing that lets the counter run away: one packet
\* for each batch failed in a row.  The code's int overflows no sooner than
\* after (2^31 - 1) \div maxPacketSize - 1 failures without a success between.
CounterBounded == byteBufferSize <= (failed + 1) * maxPacketSize

Bytes(spans) ==
    LET sum[n \in 0 .. Len(spans)] == IF n = 0 THEN 0 ELSE sum[n - 1] + SpanSize[spans[n]]
    IN  sum[Len(spans)]

\* Across failed flushes, retries and rejected spans, a span that append() was
\* given was taken by the transport, waits in the buffer, or was thrown away,
\* and never two of these.  So it goes out once, unless a batch it was in went
\* unanswered: then it is still in the buffer and goes out again, the same span
\* twice.  What has gone out is never given up, and no datagram is repeated.
EachSpanOnce ==
    LET buffered == Members(spanBuffer)
    IN  /\ appended = taken \cup buffered \cup lost
        /\ taken \cap buffered = {} /\ (taken \cup buffered) \cap lost = {}
        /\ \A i, j \in DOMAIN spanBuffer : spanBuffer[i] = spanBuffer[j] => i = j
        /\ Members(delivered) = taken \cup unanswered /\ unanswered \subseteq taken \cup buffered
        /\ \A i, j \in DOMAIN delivered :
               delivered[i] = delivered[j] => i = j \/ delivered[i] \in unanswered
        /\ Transporter = "UDPTransporter" => unanswered = {}
        /\ spanBytes = Bytes(spanBuffer)

\* append() may drop a span only with an exception that RemoteReporter counts,
\* be it for the spans buffered before the one that is gone.
LossIsNoticed == [][lost' # lost => failure' > failure]_vars
===============================================================================
