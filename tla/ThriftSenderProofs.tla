-------------------------- MODULE ThriftSenderProofs --------------------------
(***************************************************************************)
(* BatchFits, CounterBounded and EachSpanOnce for spans, processes and     *)
(* packets of any size, any number of batches that failed and either       *)
(* transport.  A batch fits because the counter never runs behind the      *)
(* buffer (Covered), and what is stored was either covered by the counter  *)
(* or alone in the buffer.  EachSpanOnce is inductive once it tells what   *)
(* was taken from what went out; its byte count is the sum of what is      *)
(* buffered because a sum over a longer sequence only adds what was        *)
(* appended.                                                               *)
(***************************************************************************)
EXTENDS ThriftSender, InductionLemmas

\* The counter is never smaller than what it stands for, which is never more
\* than the room the packet has; an empty buffer has no length.
Covered ==
    /\ spanBytes <= byteBufferSize
    /\ spanBytes <= maxSpanBytes
    /\ spanBuffer = <<>> => spanBytes = 0
    /\ spanBuffer # <<>> => processByteSize = ProcessSize

IInv == TypeOK /\ Covered /\ CounterBounded

\* The sizes the comparisons are about are numbers, and the process fits.
LEMMA Sizes ==
    /\ kEmitBatchOverhead = 30
    /\ ProcessSize \in Nat /\ ProcessSize > 0
    /\ maxPacketSize \in Nat /\ MaxFailed \in Nat
    /\ maxSpanBytes \in Nat /\ maxSpanBytes + ProcessSize <= maxPacketSize
    /\ \A s \in Span : SpanSize[s] \in Nat /\ SpanSize[s] > 0
BY SizeAssumption DEF kEmitBatchOverhead, maxSpanBytes

\* One more failure allows for one more packet.
LEMMA OneMore ==
    ASSUME NEW r \in Nat, NEW m \in Nat, NEW b \in Nat, NEW n \in Nat,
           b <= (r + 1) * m, n <= m
    PROVE  b + n <= (r + 2) * m
<1>1. (r + 2) * m = (r + 1) * m + m
  OBVIOUS
<1>2. (r + 1) * m \in Nat
  OBVIOUS
<1> QED BY <1>1, <1>2

\* One packet is within any number of them.
LEMMA OnePacket ==
    ASSUME NEW r \in Nat, NEW m \in Nat, NEW b \in Nat, b <= m
    PROVE  b <= (r + 1) * m /\ b <= (r + 2) * m
<1>1. (r + 1) * m = r * m + m /\ (r + 2) * m = r * m + 2 * m
  OBVIOUS
<1>2. r * m \in Nat
  OBVIOUS
<1> QED BY <1>1, <1>2

\* The invariant holds of a sender that has had no span yet.
LEMMA InitInv == Init => IInv
<1> SUFFICES ASSUME Init PROVE IInv
  OBVIOUS
<1>1. TypeOK
  BY Sizes DEF Init, TypeOK
<1>2. Covered
  BY Sizes DEF Init, Covered
<1>3. CounterBounded
  BY Sizes DEF Init, CounterBounded
<1> QED BY <1>1, <1>2, <1>3 DEF IInv

\* What has gone out are spans, whether they were taken or not.
LEMMA SendTyped ==
    ASSUME NEW spans \in Seq(Span), NEW outcome, TypeOK, Emit(spans) \/ Fail(spans, outcome)
    PROVE  /\ delivered' \in Seq(Span) /\ taken' \subseteq Span /\ unanswered' \subseteq Span
           /\ failure' \in Nat /\ failed' \in 0 .. MaxFailed
<1>1. Members(spans) \subseteq Span /\ delivered \o spans \in Seq(Span) /\ Len(spans) \in Nat
  BY DEF Members, TypeOK
<1>2. CASE Emit(spans)
  BY <1>1, <1>2, Sizes DEF Emit, TypeOK
<1>3. CASE Fail(spans, outcome)
  <2>1. failure' \in Nat /\ failed' \in 0 .. MaxFailed
    BY <1>1, <1>3, Sizes DEF Fail, TypeOK
  <2>2. taken' \subseteq Span /\ unanswered' \subseteq Span
    BY <1>1, <1>3 DEF Fail, TypeOK
  <2>3. delivered' \in Seq(Span)
    BY <1>1, <1>3 DEF Fail, TypeOK
  <2> QED BY <2>1, <2>2, <2>3
<1> QED BY <1>2, <1>3

\* Sending or keeping a buffer that is within the limit, and counted within the
\* packets that one more failure allows for, keeps every part of IInv.
LEMMA SendInv ==
    ASSUME NEW spans \in Seq(Span), NEW bytes \in Nat, NEW size \in Nat,
           NEW outcome \in Outcome,
           IInv, Send(spans, bytes, size, outcome), processByteSize' = ProcessSize,
           spans # <<>>, bytes <= size, bytes <= maxSpanBytes,
           size <= (failed + 2) * maxPacketSize
    PROVE  /\ spanBuffer' \in Seq(Span) /\ delivered' \in Seq(Span)
           /\ taken' \subseteq Span /\ unanswered' \subseteq Span
           /\ byteBufferSize' \in Nat /\ spanBytes' \in Nat
           /\ failure' \in Nat /\ failed' \in 0 .. MaxFailed
           /\ Covered' /\ CounterBounded'
<1> USE Sizes DEF IInv, TypeOK
<1>1. CASE outcome = "taken"
  <2>1. /\ spanBuffer' = <<>> /\ spanBytes' = 0 /\ byteBufferSize' = ProcessSize
        /\ Emit(spans) /\ failed' = 0
    BY <1>1 DEF Send, Emit, resetBuffers, Buffer
  <2>2. Covered'
    BY <2>1 DEF Covered, maxSpanBytes
  <2>3. CounterBounded'
    BY <2>1 DEF CounterBounded
  <2>4. /\ delivered' \in Seq(Span) /\ taken' \subseteq Span /\ unanswered' \subseteq Span
        /\ failure' \in Nat /\ failed' \in 0 .. MaxFailed
    BY <2>1, SendTyped
  <2> QED BY <2>1, <2>2, <2>3, <2>4
<1>2. CASE outcome # "taken"
  <2>1. /\ spanBuffer' = spans /\ spanBytes' = bytes /\ byteBufferSize' = size
        /\ Fail(spans, outcome) /\ failed' = failed + 1
    BY <1>2 DEF Send, Fail, Buffer
  <2>2. /\ delivered' \in Seq(Span) /\ taken' \subseteq Span /\ unanswered' \subseteq Span
        /\ failure' \in Nat /\ failed' \in 0 .. MaxFailed
    BY <2>1, SendTyped
  <2>3. Covered'
    BY <2>1 DEF Covered, maxSpanBytes
  <2>4. CounterBounded'
    BY <2>1 DEF CounterBounded
  <2> QED BY <2>1, <2>2, <2>3, <2>4
<1> QED BY <1>1, <1>2

\* append() and flush() keep it, whatever the transport does.
LEMMA NextInv == IInv /\ [Next]_vars => IInv'
<1> SUFFICES ASSUME IInv, [Next]_vars PROVE IInv'
  OBVIOUS
<1> USE Sizes DEF IInv, TypeOK
<1>1. ASSUME NEW outcome \in Outcome, flush(outcome) PROVE IInv'
  <2>1. CASE spanBuffer = <<>>
    BY <1>1, <2>1 DEF flush, Quiet, Covered, CounterBounded, maxSpanBytes
  <2>2. CASE spanBuffer # <<>>
    <3>1. Send(spanBuffer, spanBytes, byteBufferSize, outcome) /\ processByteSize' = ProcessSize
      BY <1>1, <2>2 DEF flush, Covered
    <3>2. byteBufferSize <= (failed + 2) * maxPacketSize
      BY OneMore, 0 \in Nat, failed \in Nat DEF CounterBounded
    <3>3. spanBytes <= byteBufferSize /\ spanBytes <= maxSpanBytes
      BY DEF Covered
    <3>4. appended' = appended /\ lost' = lost
      BY <1>1 DEF flush
    <3> QED BY <2>2, <3>1, <3>2, <3>3, <3>4, SendInv
  <2> QED BY <2>1, <2>2
<1>2. ASSUME NEW s \in Span, NEW outcome \in Outcome, append(s, outcome) PROVE IInv'
  <2>1. appended' \subseteq Span /\ processByteSize' = ProcessSize
    BY <1>2 DEF append
  <2>2. SpanSize[s] \in Nat /\ SpanSize[s] > 0 /\ SpanSize[s] = SpanSize[s]
    OBVIOUS
  <2>3. CASE TooLarge(s)
    <3>1. Reject(s)
      BY <1>2, <2>3 DEF append
    <3> QED BY <2>1, <3>1 DEF Reject, Covered, CounterBounded, maxSpanBytes
  <2>4. CASE ~TooLarge(s) /\ Larger(s) <= maxSpanBytes
    <3>1. Store(s, outcome)
      BY <1>2, <2>4 DEF append
    <3> DEFINE spans == Append(spanBuffer, s)
               bytes == spanBytes + SpanSize[s]
    <3>2. spans \in Seq(Span) /\ spans # <<>> /\ lost' = lost
      BY <3>1 DEF Store
    <3>3. /\ bytes \in Nat /\ Larger(s) \in Nat /\ bytes <= Larger(s) /\ bytes <= maxSpanBytes
      BY <2>2, <2>4 DEF Larger, Covered
    <3>4. Larger(s) <= maxPacketSize
      BY <2>4, <3>3 DEF maxSpanBytes
    <3>5. CASE Larger(s) < maxSpanBytes
      <4>1. /\ spanBuffer' = spans /\ spanBytes' = bytes /\ byteBufferSize' = Larger(s)
            /\ delivered' = delivered /\ taken' = taken /\ unanswered' = unanswered
            /\ failure' = failure /\ failed' = failed
        BY <3>1, <3>5 DEF Store, Quiet, Buffer
      <4>2. Covered'
        BY <2>1, <3>2, <3>3, <4>1 DEF Covered, maxSpanBytes
      <4>3. Larger(s) <= (failed + 1) * maxPacketSize
        BY <3>3, <3>4, OnePacket, failed \in Nat
      <4>4. CounterBounded'
        BY <4>1, <4>3 DEF CounterBounded
      <4> QED BY <2>1, <3>2, <3>3, <4>1, <4>2, <4>4
    <3>6. CASE ~(Larger(s) < maxSpanBytes)
      <4>1. Send(spans, bytes, Larger(s), outcome)
        BY <3>1, <3>6 DEF Store
      <4>2. Larger(s) <= (failed + 2) * maxPacketSize
        BY <3>3, <3>4, OnePacket, failed \in Nat
      <4> HIDE DEF spans, bytes
      <4> QED BY <2>1, <3>2, <3>3, <4>1, <4>2, SendInv
    <3> QED BY <3>5, <3>6
  <2>5. CASE ~TooLarge(s) /\ ~(Larger(s) <= maxSpanBytes)
    <3>1. FlushThenStore(s, outcome)
      BY <1>2, <2>5 DEF append
    <3>2. SpanSize[s] <= maxSpanBytes
      BY <2>2, <2>5 DEF TooLarge
    <3>3. CASE outcome = "taken" \/ spanBuffer = <<>>
      <4>1. /\ spanBuffer' = <<s>> /\ spanBytes' = SpanSize[s]
            /\ byteBufferSize' = SpanSize[s] + ProcessSize /\ lost' = lost
        BY <3>1, <3>3 DEF FlushThenStore, Buffer
      <4>2. /\ delivered' \in Seq(Span) /\ taken' \subseteq Span /\ unanswered' \subseteq Span
            /\ failure' \in Nat /\ failed' \in 0 .. MaxFailed
        <5>1. CASE spanBuffer = <<>>
          BY <3>1, <3>3, <5>1 DEF FlushThenStore, Quiet
        <5>2. CASE spanBuffer # <<>>
          <6>1. Emit(spanBuffer)
            BY <3>1, <3>3, <5>2 DEF FlushThenStore
          <6> QED BY <6>1, SendTyped
        <5> QED BY <5>1, <5>2
      <4>3. Covered'
        BY <2>1, <2>2, <3>2, <4>1 DEF Covered, maxSpanBytes
      <4>4. byteBufferSize' \in Nat /\ byteBufferSize' <= maxPacketSize
        BY <2>2, <3>2, <4>1
      <4>5. CounterBounded'
        BY <4>2, <4>4, OnePacket, failed' \in Nat DEF CounterBounded
      <4> QED BY <2>1, <2>2, <4>1, <4>2, <4>3, <4>5
    <3>4. CASE ~(outcome = "taken" \/ spanBuffer = <<>>)
      <4>1. /\ spanBuffer' = spanBuffer /\ spanBytes' = spanBytes /\ byteBufferSize' = Larger(s)
            /\ lost' = lost \cup {s} /\ Fail(spanBuffer, outcome) /\ failed' = failed + 1
        BY <3>1, <3>4 DEF FlushThenStore, Fail, Buffer
      <4>2. /\ delivered' \in Seq(Span) /\ taken' \subseteq Span /\ unanswered' \subseteq Span
            /\ failure' \in Nat /\ failed' \in 0 .. MaxFailed
        BY <4>1, SendTyped
      <4>3. Larger(s) \in Nat /\ byteBufferSize <= Larger(s)
        BY <2>2 DEF Larger
      <4>4. Covered'
        BY <2>1, <4>1, <4>3 DEF Covered, maxSpanBytes
      <4>5. SpanSize[s] <= maxPacketSize
        BY <2>2, <3>2 DEF maxSpanBytes
      <4>6. Larger(s) <= (failed + 2) * maxPacketSize
        BY <2>2, <4>5, OneMore, failed \in Nat DEF Larger, CounterBounded
      <4>7. CounterBounded'
        BY <4>1, <4>6 DEF CounterBounded
      <4> QED BY <2>1, <4>1, <4>2, <4>3, <4>4, <4>7
    <3> QED BY <3>3, <3>4
  <2> QED BY <2>3, <2>4, <2>5
<1>3. CASE UNCHANGED vars
  BY <1>3 DEF vars, Covered, CounterBounded, maxSpanBytes
<1> QED BY <1>1, <1>2, <1>3 DEF Next

\* What the counter covers fits a packet.
LEMMA Fits == IInv => BatchFits
BY Sizes DEF IInv, TypeOK, Covered, BatchFits, maxSpanBytes

\* IInv is an invariant of the sender.
THEOREM Invariance == Spec => []IInv
BY InitInv, NextInv, PTL DEF Spec

\* No flush, whatever was buffered, rejected or failed before, sends a batch
\* that does not fit a packet.
THEOREM NoBatchTooLong == Spec => []BatchFits
BY Fits, Invariance, PTL

\* How far the counter of append() can be from what is buffered.
THEOREM CounterIsBounded == Spec => []CounterBounded
<1>1. IInv => CounterBounded
  BY DEF IInv
<1> QED BY <1>1, Invariance, PTL

\* append() gives a span up only with an exception that counts some span: the
\* one that is too long, or those buffered before the one that is gone.
THEOREM LossesAreNoticed == Spec => LossIsNoticed
<1>1. ASSUME IInv, [Next]_vars, lost' # lost PROVE failure' > failure
  <2>1. /\ failure \in Nat /\ spanBuffer \in Seq(Span)
        /\ spanBuffer # <<>> => Len(spanBuffer) > 0
    BY <1>1 DEF IInv, TypeOK
  <2>2. PICK outcome \in Outcome, s \in Span : append(s, outcome)
    BY <1>1 DEF Next, vars, flush
  <2>3. CASE Reject(s)
    BY <2>1, <2>3 DEF Reject
  <2>4. CASE Store(s, outcome)
    BY <1>1, <2>4 DEF Store
  <2>5. CASE FlushThenStore(s, outcome)
    BY <1>1, <2>1, <2>5 DEF FlushThenStore, Fail
  <2> QED BY <2>2, <2>3, <2>4, <2>5 DEF append
<1>2. IInv /\ [Next]_vars => [lost' # lost => failure' > failure]_vars
  BY <1>1
<1> QED BY <1>2, Invariance, PTL DEF Spec, LossIsNoticed
-----------------------------------------------------------------------------
(* EachSpanOnce.  Its last part adds up lengths, so it needs what Bytes is: *)
(* the recursive function it is defined by exists, and the sums over a      *)
(* sequence and over a longer one agree as far as both go.                  *)

\* What the sums of lengths up to n are, for one that g stands for.
Summed(g, spans, n) ==
    g = [i \in 0 .. n |-> IF i = 0 THEN 0 ELSE g[i - 1] + SpanSize[spans[i]]]

LEMMA SumsExist ==
    ASSUME NEW spans \in Seq(Span)
    PROVE  \E g : Summed(g, spans, Len(spans))
<1> DEFINE T == {n \in Nat : \E g : Summed(g, spans, n)}
<1>1. 0 \in T
  <2> DEFINE g == [i \in 0 .. 0 |-> 0]
  <2>1. Summed(g, spans, 0)
    BY DEF Summed
  <2> QED BY <2>1
<1>2. ASSUME NEW n \in Nat, n \in T PROVE n + 1 \in T
  <2>1. PICK g : g = [i \in 0 .. n |-> IF i = 0 THEN 0 ELSE g[i - 1] + SpanSize[spans[i]]]
    BY <1>2 DEF Summed
  <2> DEFINE h == [i \in 0 .. n + 1 |-> IF i = n + 1 THEN g[n] + SpanSize[spans[i]] ELSE g[i]]
  <2>2. ASSUME NEW i \in 0 .. n + 1
        PROVE  h[i] = IF i = 0 THEN 0 ELSE h[i - 1] + SpanSize[spans[i]]
    <3>1. CASE i \in 0 .. n
      <4>1. h[i] = g[i] /\ (i # 0 => h[i - 1] = g[i - 1])
        BY <3>1
      <4> QED BY <2>1, <3>1, <4>1
    <3>2. CASE i = n + 1
      BY <3>2
    <3> QED BY <3>1, <3>2
  <2>3. h = [i \in 0 .. n + 1 |-> IF i = 0 THEN 0 ELSE h[i - 1] + SpanSize[spans[i]]]
    BY <2>2
  <2>4. Summed(h, spans, n + 1)
    BY <2>3 DEF Summed
  <2> HIDE DEF h
  <2> QED BY <2>4
<1>3. Len(spans) \in T
  <2> HIDE DEF T
  <2> QED BY <1>1, <1>2, SetInduction
<1> QED BY <1>3

\* Bytes is the last of these sums.
LEMMA BytesIsSum ==
    ASSUME NEW spans \in Seq(Span)
    PROVE  \E g : Summed(g, spans, Len(spans)) /\ Bytes(spans) = g[Len(spans)]
BY SumsExist DEF Bytes, Summed

LEMMA BytesOfAppend ==
    ASSUME NEW spans \in Seq(Span), NEW s \in Span
    PROVE  Bytes(Append(spans, s)) = Bytes(spans) + SpanSize[s]
<1> DEFINE longer == Append(spans, s)
<1>1. /\ longer \in Seq(Span) /\ Len(spans) \in Nat /\ Len(longer) = Len(spans) + 1
      /\ \A i \in 1 .. Len(spans) : longer[i] = spans[i]
      /\ longer[Len(spans) + 1] = s
  OBVIOUS
<1> HIDE DEF longer
<1>2. PICK g : Summed(g, spans, Len(spans)) /\ Bytes(spans) = g[Len(spans)]
  BY BytesIsSum
<1>3. PICK h : Summed(h, longer, Len(longer)) /\ Bytes(longer) = h[Len(longer)]
  BY <1>1, BytesIsSum
<1> DEFINE T == {n \in Nat : h[n] = g[n]}
<1>4. 0 \in T
  BY <1>1, <1>2, <1>3 DEF Summed
<1>5. ASSUME NEW n \in 0 .. Len(spans) - 1, n \in T PROVE n + 1 \in T
  <2>1. g[n + 1] = g[n] + SpanSize[spans[n + 1]]
    BY <1>1, <1>2 DEF Summed
  <2>2. h[n + 1] = h[n] + SpanSize[longer[n + 1]]
    BY <1>1, <1>3 DEF Summed
  <2> QED BY <1>1, <1>5, <2>1, <2>2
<1>6. h[Len(spans)] = g[Len(spans)]
  <2>1. \A n \in 0 .. Len(spans) : n \in T
    <3> HIDE DEF T
    <3> QED BY <1>1, <1>4, <1>5, Induction
  <2> QED BY <1>1, <2>1
<1>7. h[Len(spans) + 1] = h[Len(spans)] + SpanSize[longer[Len(spans) + 1]]
  BY <1>1, <1>3 DEF Summed
<1>8. Bytes(longer) = Bytes(spans) + SpanSize[s]
  BY <1>1, <1>2, <1>3, <1>6, <1>7
<1> QED BY <1>8 DEF longer

\* An empty buffer has no length, one span has its own.
LEMMA BytesOfOne ==
    /\ Bytes(<<>>) = 0
    /\ \A s \in Span : Bytes(<<s>>) = SpanSize[s]
<1>1. Bytes(<<>>) = 0
  <2>1. PICK g : Summed(g, <<>>, 0) /\ Bytes(<<>>) = g[0]
    BY BytesIsSum, <<>> \in Seq(Span), Len(<<>>) = 0
  <2> QED BY <2>1 DEF Summed
<1>2. ASSUME NEW s \in Span PROVE Bytes(<<s>>) = SpanSize[s]
  <2>1. Append(<<>>, s) = <<s>> /\ <<>> \in Seq(Span)
    OBVIOUS
  <2>2. Bytes(Append(<<>>, s)) = Bytes(<<>>) + SpanSize[s]
    BY <2>1, BytesOfAppend
  <2> QED BY <1>1, <2>1, <2>2, SizeAssumption
<1> QED BY <1>1, <1>2

\* What the sets and sequences of EachSpanOnce say of where the spans are, and
\* of what has gone out.
Apart(given, accepted, buffer, gone) ==
    /\ given = accepted \cup Members(buffer) \cup gone
    /\ accepted \cap Members(buffer) = {} /\ (accepted \cup Members(buffer)) \cap gone = {}
    /\ \A i, j \in DOMAIN buffer : buffer[i] = buffer[j] => i = j

RepeatsOnly(out, accepted, again) ==
    /\ Members(out) = accepted \cup again
    /\ \A i, j \in DOMAIN out : out[i] = out[j] => i = j \/ out[i] \in again

LEMMA OnceDef ==
    EachSpanOnce <=>
        /\ Apart(appended, taken, spanBuffer, lost)
        /\ RepeatsOnly(delivered, taken, unanswered)
        /\ unanswered \subseteq taken \cup Members(spanBuffer)
        /\ Transporter = "UDPTransporter" => unanswered = {}
        /\ spanBytes = Bytes(spanBuffer)
BY DEF EachSpanOnce, Apart, RepeatsOnly

\* An empty buffer has no members, and one more span is one more member.
LEMMA MembersOfAppend ==
    /\ Members(<<>>) = {}
    /\ \A spans \in Seq(Span), s \in Span : Members(Append(spans, s)) = Members(spans) \cup {s}
<1>1. ASSUME NEW spans \in Seq(Span), NEW s \in Span
      PROVE  Members(Append(spans, s)) = Members(spans) \cup {s}
  <2> DEFINE longer == Append(spans, s)
  <2>1. /\ Len(spans) \in Nat /\ DOMAIN spans = 1 .. Len(spans)
        /\ DOMAIN longer = 1 .. Len(spans) + 1
        /\ \A i \in DOMAIN spans : longer[i] = spans[i]
        /\ longer[Len(spans) + 1] = s
    OBVIOUS
  <2> HIDE DEF longer
  <2>2. Members(longer) = Members(spans) \cup {s}
    BY <2>1 DEF Members
  <2> QED BY <2>2 DEF longer
<1>2. Members(<<>>) = {}
  BY DEF Members
<1> QED BY <1>1, <1>2

\* A span that is new is stored once.
LEMMA OnceStored ==
    ASSUME NEW given, NEW accepted, NEW buffer \in Seq(Span), NEW gone, NEW s \in Span,
           Apart(given, accepted, buffer, gone), s \notin given
    PROVE  Apart(given \cup {s}, accepted, Append(buffer, s), gone)
<1> DEFINE longer == Append(buffer, s)
<1>1. /\ Len(buffer) \in Nat /\ DOMAIN buffer = 1 .. Len(buffer)
      /\ DOMAIN longer = 1 .. Len(buffer) + 1
      /\ \A i \in DOMAIN buffer : longer[i] = buffer[i]
      /\ longer[Len(buffer) + 1] = s
  OBVIOUS
<1>2. Members(longer) = Members(buffer) \cup {s}
  BY MembersOfAppend
<1> HIDE DEF longer
<1>3. s \notin Members(buffer) /\ s \notin gone /\ s \notin accepted
  BY DEF Apart
<1>4. ASSUME NEW i \in DOMAIN longer, NEW j \in DOMAIN longer, longer[i] = longer[j] PROVE i = j
  BY <1>1, <1>3, <1>4 DEF Apart, Members
<1>5. Apart(given \cup {s}, accepted, longer, gone)
  BY <1>2, <1>3, <1>4 DEF Apart
<1> QED BY <1>5 DEF longer

\* A span that is new and given up is nowhere else.
LEMMA OnceLost ==
    ASSUME NEW given, NEW accepted, NEW buffer, NEW gone, NEW s,
           Apart(given, accepted, buffer, gone), s \notin given
    PROVE  Apart(given \cup {s}, accepted, buffer, gone \cup {s})
BY DEF Apart

\* When a batch is taken, its spans move from the buffer to what is accepted.
LEMMA OnceTaken ==
    ASSUME NEW given, NEW accepted, NEW buffer, NEW gone,
           Apart(given, accepted, buffer, gone)
    PROVE  Apart(given, accepted \cup Members(buffer), <<>>, gone)
BY MembersOfAppend DEF Apart

\* A buffer that goes out repeats only what had gone out in vain, be it taken
\* or not this time.
LEMMA OutAgain ==
    ASSUME NEW out \in Seq(Span), NEW buffer \in Seq(Span), NEW given, NEW accepted, NEW again,
           NEW gone, Apart(given, accepted, buffer, gone), RepeatsOnly(out, accepted, again)
    PROVE  /\ RepeatsOnly(out \o buffer, accepted \cup Members(buffer), again)
           /\ RepeatsOnly(out \o buffer, accepted, again \cup Members(buffer))
<1> DEFINE all == out \o buffer
<1>1. /\ Len(out) \in Nat /\ Len(buffer) \in Nat
      /\ DOMAIN out = 1 .. Len(out) /\ DOMAIN buffer = 1 .. Len(buffer)
      /\ DOMAIN all = 1 .. Len(out) + Len(buffer)
      /\ \A i \in 1 .. Len(out) : all[i] = out[i]
      /\ \A i \in Len(out) + 1 .. Len(out) + Len(buffer) : all[i] = buffer[i - Len(out)]
      /\ \A i \in 1 .. Len(buffer) : all[i + Len(out)] = buffer[i]
  OBVIOUS
<1> HIDE DEF all
<1>2. ASSUME NEW i \in DOMAIN all, i \notin DOMAIN out PROVE all[i] \in Members(buffer)
  <2>1. i - Len(out) \in DOMAIN buffer /\ all[i] = buffer[i - Len(out)]
    BY <1>1, <1>2
  <2> QED BY <2>1 DEF Members
<1>3. Members(all) = Members(out) \cup Members(buffer)
  <2>1. ASSUME NEW i \in DOMAIN all PROVE all[i] \in Members(out) \cup Members(buffer)
    BY <1>1, <1>2 DEF Members
  <2>2. Members(out) \subseteq Members(all)
    BY <1>1 DEF Members
  <2>3. ASSUME NEW j \in DOMAIN buffer PROVE buffer[j] \in Members(all)
    <3>1. j + Len(out) \in DOMAIN all /\ all[j + Len(out)] = buffer[j]
      BY <1>1
    <3> QED BY <3>1 DEF Members
  <2>4. Members(buffer) \subseteq Members(all)
    BY <2>3 DEF Members
  <2>5. Members(all) \subseteq Members(out) \cup Members(buffer)
    BY <2>1 DEF Members
  <2> QED BY <2>2, <2>4, <2>5
<1>4. ASSUME NEW i \in DOMAIN all, NEW j \in DOMAIN all, all[i] = all[j]
      PROVE  i = j \/ all[i] \in again
  <2>1. CASE i \in DOMAIN out /\ j \in DOMAIN out
    BY <1>1, <1>4, <2>1 DEF RepeatsOnly
  <2>2. CASE i \notin DOMAIN out /\ j \notin DOMAIN out
    <3>1. /\ i - Len(out) \in DOMAIN buffer /\ j - Len(out) \in DOMAIN buffer
          /\ buffer[i - Len(out)] = buffer[j - Len(out)]
      BY <1>1, <1>4, <2>2
    <3>2. i - Len(out) = j - Len(out)
      BY <3>1 DEF Apart
    <3> QED BY <1>1, <3>2
  <2>3. CASE i \in DOMAIN out /\ j \notin DOMAIN out
    <3>1. all[i] \in Members(out) /\ all[i] \in Members(buffer)
      BY <1>1, <1>2, <1>4, <2>3 DEF Members
    <3> QED BY <3>1 DEF Apart, RepeatsOnly
  <2>4. CASE i \notin DOMAIN out /\ j \in DOMAIN out
    <3>1. all[j] \in Members(out) /\ all[i] \in Members(buffer)
      BY <1>1, <1>2, <1>4, <2>4 DEF Members
    <3> QED BY <1>4, <3>1 DEF Apart, RepeatsOnly
  <2> QED BY <2>1, <2>2, <2>3, <2>4
<1>5. /\ RepeatsOnly(all, accepted \cup Members(buffer), again)
      /\ RepeatsOnly(all, accepted, again \cup Members(buffer))
  BY <1>3, <1>4 DEF RepeatsOnly
<1> QED BY <1>5 DEF all

\* A batch that failed has gone out or not, and by HTTP only if no answer came.
LEMMA OnceFailed ==
    ASSUME NEW spans \in Seq(Span), NEW given, NEW outcome \in Outcome, outcome # "taken",
           TypeOK, Fail(spans, outcome), Apart(given, taken, spans, lost),
           RepeatsOnly(delivered, taken, unanswered),
           unanswered \subseteq taken \cup Members(spans),
           Transporter = "UDPTransporter" => unanswered = {}
    PROVE  /\ taken' = taken /\ RepeatsOnly(delivered', taken, unanswered')
           /\ unanswered' \subseteq taken \cup Members(spans)
           /\ Transporter = "UDPTransporter" => unanswered' = {}
<1>1. taken' = taken
  BY DEF Fail
<1>2. CASE outcome = "unanswered"
  <2>1. delivered' = delivered \o spans /\ unanswered' = unanswered \cup Members(spans)
    BY <1>2 DEF Fail
  <2>2. Transporter # "UDPTransporter"
    BY <1>2 DEF Outcome
  <2>3. RepeatsOnly(delivered', taken, unanswered')
    BY <2>1, OutAgain DEF TypeOK
  <2> QED BY <1>1, <2>1, <2>2, <2>3
<1>3. CASE outcome # "unanswered"
  <2>1. delivered' = delivered /\ unanswered' = unanswered
    BY <1>3 DEF Fail
  <2> QED BY <1>1, <2>1
<1> QED BY <1>2, <1>3

\* Sending a buffer, taken or not, leaves each of its spans in one place.
LEMMA OnceSent ==
    ASSUME NEW spans \in Seq(Span), NEW bytes, NEW size, NEW outcome \in Outcome,
           TypeOK, Send(spans, bytes, size, outcome), bytes = Bytes(spans), lost' = lost,
           Apart(appended', taken, spans, lost),
           RepeatsOnly(delivered, taken, unanswered),
           unanswered \subseteq taken \cup Members(spans),
           Transporter = "UDPTransporter" => unanswered = {}
    PROVE  EachSpanOnce'
<1>1. CASE outcome = "taken"
  <2>1. /\ delivered' = delivered \o spans /\ taken' = taken \cup Members(spans)
        /\ unanswered' = unanswered /\ spanBuffer' = <<>> /\ spanBytes' = 0
    BY <1>1 DEF Send, Emit, resetBuffers, Buffer
  <2>2. RepeatsOnly(delivered', taken', unanswered')
    BY <2>1, OutAgain DEF TypeOK
  <2>3. Apart(appended', taken', spanBuffer', lost')
    BY <2>1, OnceTaken
  <2> QED BY <2>1, <2>2, <2>3, BytesOfOne DEF EachSpanOnce, Apart, RepeatsOnly
<1>2. CASE outcome # "taken"
  <2>1. Fail(spans, outcome) /\ spanBuffer' = spans /\ spanBytes' = bytes
    BY <1>2 DEF Send, Buffer
  <2>2. /\ taken' = taken /\ RepeatsOnly(delivered', taken, unanswered')
        /\ unanswered' \subseteq taken \cup Members(spans)
        /\ Transporter = "UDPTransporter" => unanswered' = {}
    BY <1>2, <2>1, OnceFailed
  <2> QED BY <2>1, <2>2 DEF EachSpanOnce, Apart, RepeatsOnly
<1> QED BY <1>1, <1>2

\* At first there are no spans.
LEMMA OnceInit == Init => EachSpanOnce
BY MembersOfAppend, BytesOfOne DEF Init, EachSpanOnce

\* And every step leaves each in one place.
LEMMA OnceKept == TypeOK /\ EachSpanOnce /\ [Next]_vars => EachSpanOnce'
<1> SUFFICES ASSUME TypeOK, EachSpanOnce, [Next]_vars PROVE EachSpanOnce'
  OBVIOUS
<1>0. /\ delivered \in Seq(Span) /\ spanBuffer \in Seq(Span)
      /\ Apart(appended, taken, spanBuffer, lost)
      /\ RepeatsOnly(delivered, taken, unanswered)
      /\ unanswered \subseteq taken \cup Members(spanBuffer)
      /\ Transporter = "UDPTransporter" => unanswered = {}
      /\ spanBytes = Bytes(spanBuffer)
  BY OnceDef DEF TypeOK
<1>1. ASSUME NEW outcome \in Outcome, flush(outcome) PROVE EachSpanOnce'
  <2>1. appended' = appended /\ lost' = lost
    BY <1>1 DEF flush
  <2>2. CASE spanBuffer = <<>>
    BY <1>1, <2>1, <2>2 DEF flush, Quiet, EachSpanOnce
  <2>3. CASE spanBuffer # <<>>
    <3>1. Send(spanBuffer, spanBytes, byteBufferSize, outcome)
      BY <1>1, <2>3 DEF flush
    <3> QED BY <1>0, <2>1, <3>1, OnceSent
  <2> QED BY <2>2, <2>3
<1>2. ASSUME NEW s \in Span \ appended, NEW outcome \in Outcome, append(s, outcome)
      PROVE  EachSpanOnce'
  <2>1. appended' = appended \cup {s} /\ s \in Span /\ s \notin appended
    BY <1>2 DEF append
  <2>2. CASE Reject(s)
    <3>1. Apart(appended', taken, spanBuffer, lost \cup {s})
      BY <1>0, <2>1, OnceLost
    <3> QED BY <1>0, <2>2, <3>1 DEF Reject, EachSpanOnce, Apart, RepeatsOnly
  <2>3. CASE Store(s, outcome)
    <3> DEFINE spans == Append(spanBuffer, s)
               bytes == spanBytes + SpanSize[s]
    <3>1. /\ spans \in Seq(Span) /\ bytes = Bytes(spans) /\ lost' = lost
          /\ Apart(appended', taken, spans, lost)
          /\ unanswered \subseteq taken \cup Members(spans)
      BY <1>0, <2>1, <2>3, BytesOfAppend, MembersOfAppend, OnceStored DEF Store
    <3>2. CASE Larger(s) < maxSpanBytes
      <4>1. /\ spanBuffer' = spans /\ spanBytes' = bytes /\ Quiet
        BY <2>3, <3>2 DEF Store, Buffer
      <4> HIDE DEF spans, bytes
      <4> QED BY <1>0, <3>1, <4>1 DEF Quiet, EachSpanOnce, Apart, RepeatsOnly
    <3>3. CASE ~(Larger(s) < maxSpanBytes)
      <4>1. Send(spans, bytes, Larger(s), outcome)
        BY <2>3, <3>3 DEF Store
      <4> HIDE DEF spans, bytes
      <4> QED BY <1>0, <3>1, <4>1, OnceSent
    <3> QED BY <3>2, <3>3
  <2>4. CASE FlushThenStore(s, outcome)
    <3>1. CASE outcome = "taken" \/ spanBuffer = <<>>
      <4>1. spanBuffer' = <<s>> /\ spanBytes' = SpanSize[s] /\ lost' = lost
        BY <2>4, <3>1 DEF FlushThenStore, Buffer
      <4>2. /\ taken' = taken \cup Members(spanBuffer) /\ unanswered' = unanswered
            /\ RepeatsOnly(delivered', taken', unanswered')
        <5>1. CASE spanBuffer = <<>>
          BY <1>0, <2>4, <3>1, <5>1, MembersOfAppend DEF FlushThenStore, Quiet
        <5>2. CASE spanBuffer # <<>>
          <6>1. Emit(spanBuffer)
            BY <2>4, <3>1, <5>2 DEF FlushThenStore
          <6> QED BY <1>0, <6>1, OutAgain DEF Emit
        <5> QED BY <5>1, <5>2
      <4>3. Apart(appended', taken', <<s>>, lost)
        <5>1. Apart(appended, taken', <<>>, lost)
          BY <1>0, <4>2, OnceTaken
        <5>2. <<>> \in Seq(Span) /\ Append(<<>>, s) = <<s>>
          OBVIOUS
        <5>3. Apart(appended \cup {s}, taken', Append(<<>>, s), lost)
          BY <2>1, <5>1, <5>2, OnceStored
        <5> QED BY <2>1, <5>2, <5>3
      <4> QED BY <1>0, <2>1, <4>1, <4>2, <4>3, BytesOfOne DEF EachSpanOnce, Apart, RepeatsOnly
    <3>2. CASE ~(outcome = "taken" \/ spanBuffer = <<>>)
      <4>1. /\ spanBuffer' = spanBuffer /\ spanBytes' = spanBytes
            /\ Fail(spanBuffer, outcome) /\ lost' = lost \cup {s}
        BY <2>4, <3>2 DEF FlushThenStore, Buffer
      <4>2. /\ taken' = taken /\ RepeatsOnly(delivered', taken, unanswered')
            /\ unanswered' \subseteq taken \cup Members(spanBuffer)
            /\ Transporter = "UDPTransporter" => unanswered' = {}
        BY <1>0, <3>2, <4>1, OnceFailed
      <4>3. Apart(appended', taken, spanBuffer, lost \cup {s})
        BY <1>0, <2>1, OnceLost
      <4> QED BY <1>0, <4>1, <4>2, <4>3 DEF EachSpanOnce, Apart, RepeatsOnly
    <3> QED BY <3>1, <3>2
  <2> QED BY <1>2, <2>2, <2>3, <2>4 DEF append
<1>3. CASE UNCHANGED vars
  BY <1>3 DEF vars, EachSpanOnce
<1> QED BY <1>1, <1>2, <1>3 DEF Next

\* With either transport, whatever failed, was retried or was too long: a span is
\* taken, waits, or is given up, in one of these places only.  It has gone out more
\* than once only if no answer came to a batch it was in, and never by UDP.
THEOREM SpansAreKeptOnce == Spec => []EachSpanOnce
<1>1. IInv => TypeOK
  BY DEF IInv
<1> QED BY <1>1, Invariance, OnceInit, OnceKept, PTL DEF Spec
===============================================================================
