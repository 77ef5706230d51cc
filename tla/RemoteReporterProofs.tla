------------------------- MODULE RemoteReporterProofs -------------------------
(***************************************************************************)
(* RemoteReporter's safety for any number of threads, spans and calls of   *)
(* close() and any queue size; that it uses its sender as                  *)
(* ThriftSenderProofs assumes, so that what is proved there holds here;    *)
(* that it implements SpanChannel; and, since TracerLifetime's programs    *)
(* take no steps but the reporter's, that all this holds in them and that  *)
(* one which closes its tracer never destroys it on the sweeper.           *)
(***************************************************************************)
EXTENDS TracerLifetime, FiniteSetTheorems, SequenceTheorems, TLAPS

SenderProofs == INSTANCE ThriftSenderProofs

Active(c) == closer[c] \in {"notifying", "joining", "flushing", "closed"}

\* The sender is in order, and each span it was given is in one place.
SenderInv == SenderProofs!IInv /\ SenderProofs!EachSpanOnce

\* The one that told the sweeper to stop is the only one to wait for it and to
\* flush; it flushes after the sweeper has gone, and then all is sent or emitBatch threw.
CloseOrder ==
    /\ \A c \in Closer : Active(c) => ~running
    /\ \A c, d \in Closer : Active(c) /\ Active(d) => c = d
    /\ \A c \in Closer : closer[c] \in {"flushing", "closed"} => sweeper = "stopped"
    /\ \A c \in Closer : closer[c] = "closed" => spanBuffer = <<>> \/ failed > 0
    /\ sweeper = "stopped" => ~running

\* What was queued in time is on its way to the sender, which has it when the
\* sweeper is gone.
EarlyOnItsWay ==
    /\ early \subseteq Members(queue) \cup Members(inHand) \cup appended
    /\ sweeper = "stopped" => early \subseteq appended

IInv ==
    /\ TypeOK /\ SenderInv
    /\ QueueLengthTracked /\ EachReportedOnce /\ CloseOrder /\ EarlyOnItsWay

-----------------------------------------------------------------------------
\* The two instances of ThriftSender are one.
LEMMA SameSteps ==
    /\ Sender!Outcome = SenderProofs!Outcome
    /\ \A outcome : Sender!flush(outcome) <=> SenderProofs!flush(outcome)
    /\ \A s, outcome : Sender!append(s, outcome) <=> SenderProofs!append(s, outcome)
BY DEF SenderProofs!Outcome, Sender!Outcome, SenderProofs!flush, Sender!flush,
    SenderProofs!append, Sender!append, SenderProofs!Send, Sender!Send,
    SenderProofs!Emit, Sender!Emit, SenderProofs!Fail, Sender!Fail,
    SenderProofs!Quiet, Sender!Quiet, SenderProofs!Members, Sender!Members,
    SenderProofs!Buffer, Sender!Buffer, SenderProofs!resetBuffers, Sender!resetBuffers,
    SenderProofs!Reject, Sender!Reject, SenderProofs!Store, Sender!Store,
    SenderProofs!FlushThenStore, Sender!FlushThenStore,
    SenderProofs!TooLarge, Sender!TooLarge, SenderProofs!Larger, Sender!Larger,
    SenderProofs!maxSpanBytes, Sender!maxSpanBytes,
    SenderProofs!kEmitBatchOverhead, Sender!kEmitBatchOverhead

\* What is assumed of the sizes holds in both instances.
LEMMA SenderSizes == SenderProofs!SizeAssumption
BY SenderAssumption DEF SenderProofs!SizeAssumption, Sender!SizeAssumption,
    SenderProofs!kEmitBatchOverhead, Sender!kEmitBatchOverhead

\* The sender starts in its invariant.
LEMMA SenderInit == Sender!Init => SenderInv
<1> SUFFICES ASSUME Sender!Init PROVE SenderInv
  OBVIOUS
<1>1. SenderProofs!Init
  BY DEF Sender!Init, SenderProofs!Init
<1>2. SenderProofs!EachSpanOnce
  BY <1>1, SenderProofs!OnceInit, SenderSizes
<1> QED BY <1>1, <1>2, SenderProofs!InitInv, SenderSizes DEF SenderInv

\* A step of the sender's, or none, keeps it.
LEMMA SenderKeeps == SenderInv /\ [SenderProofs!Next]_SenderProofs!vars => SenderInv'
<1> SUFFICES ASSUME SenderInv, [SenderProofs!Next]_SenderProofs!vars PROVE SenderInv'
  OBVIOUS
<1>1. SenderProofs!TypeOK
  BY DEF SenderInv, SenderProofs!IInv
<1>2. SenderProofs!EachSpanOnce'
  BY <1>1, SenderProofs!OnceKept, SenderSizes DEF SenderInv
<1>3. SenderProofs!IInv'
  BY SenderProofs!NextInv, SenderSizes DEF SenderInv
<1> QED BY <1>2, <1>3 DEF SenderInv

\* A span that the sender has not seen, and a flush, keep the sender in order.
LEMMA SenderStep ==
    ASSUME SenderInv, NEW outcome \in Sender!Outcome,
           \/ Sender!flush(outcome)
           \/ \E s \in Span \ appended : Sender!append(s, outcome)
    PROVE  SenderInv' /\ Sender!Next
<1>1. Sender!Next
  BY DEF Sender!Next
<1>2. SenderProofs!Next
  BY SameSteps DEF SenderProofs!Next
<1> QED BY <1>1, <1>2, SenderKeeps

\* It stays there while nobody uses it.
LEMMA SenderStays == SenderInv /\ UNCHANGED senderVars => SenderInv'
<1> SUFFICES ASSUME SenderInv, UNCHANGED senderVars PROVE SenderInv'
  OBVIOUS
<1>1. UNCHANGED SenderProofs!vars
  BY DEF senderVars, SenderProofs!vars
<1> QED BY <1>1, SenderKeeps

\* What the callers see of the sender's steps.
LEMMA FlushEffect ==
    ASSUME NEW outcome \in Sender!Outcome, Sender!flush(outcome), failed \in Nat
    PROVE  appended' = appended /\ (spanBuffer' = <<>> \/ failed' > 0)
BY DEF Sender!flush, Sender!Send, Sender!Emit, Sender!Fail, Sender!Quiet, Sender!Buffer, Sender!resetBuffers

\* Whatever becomes of the span, the sender has had it.
LEMMA AppendEffect ==
    ASSUME NEW outcome, NEW s, Sender!append(s, outcome)
    PROVE  appended' = appended \cup {s}
BY DEF Sender!append

\* The span in the sweeper's hands is one, and new to the sender.
LEMMA InHand ==
    ASSUME TypeOK, EachReportedOnce, sweeper = "sending"
    PROVE  inHand[1] \in Span \ appended /\ Members(inHand) = {inHand[1]}
<1>1. inHand \in Seq(Span) /\ Len(inHand) = 1
  BY DEF TypeOK
<1>2. Members(inHand) = {inHand[1]}
  BY <1>1 DEF Members
<1>3. inHand[1] \in Span
  BY <1>1
<1> QED BY <1>2, <1>3 DEF EachReportedOnce

\* Each step of the reporter is a step of the sender or leaves it alone.
LEMMA SenderKept ==
    ASSUME IInv, [Next]_vars
    PROVE  SenderInv' /\ [Sender!Next]_Sender!vars
<1>1. ASSUME NEW outcome \in Sender!Outcome, sendSpan(outcome)
      PROVE  SenderInv' /\ Sender!Next
  <2>1. Sender!append(inHand[1], outcome) /\ inHand[1] \in Span \ appended
    BY <1>1, InHand DEF sendSpan, IInv
  <2> QED BY <2>1, SenderStep DEF IInv
<1>2. ASSUME NEW outcome \in Sender!Outcome, Sender!flush(outcome)
      PROVE  SenderInv' /\ Sender!Next
  BY <1>2, SenderStep DEF IInv
<1>3. CASE UNCHANGED senderVars
  <2>1. UNCHANGED Sender!vars
    BY <1>3 DEF senderVars, Sender!vars
  <2> QED BY <1>3, <2>1, SenderStays DEF IInv
<1>4. CASE \E t \in Thread : Reporting(t)
  BY <1>4, <1>3 DEF Reporting, report, reportNotify, reportCount
<1>5. CASE Sweeping
  BY <1>5, <1>1, <1>2, <1>3 DEF Sweeping, sweepWait, sweepStop, sweepTake, sweepTimeout
<1>6. CASE \E c \in Closer : Closing(c)
  BY <1>6, <1>2, <1>3 DEF Closing, close, closeNotify, closeJoin, closeFlush
<1>7. CASE Over \/ UNCHANGED vars
  BY <1>7, <1>3 DEF Over, vars
<1> QED BY <1>4, <1>5, <1>6, <1>7 DEF Next

\* The reporter starts in its invariant.
LEMMA InitInv == Init => IInv
<1> SUFFICES ASSUME Init PROVE IInv
  OBVIOUS
<1> USE DEF Init
<1>1. SenderInv
  BY SenderInit
<1>2. Sender!TypeOK
  BY <1>1 DEF SenderInv, SenderProofs!IInv, SenderProofs!TypeOK, Sender!TypeOK
<1>3. TypeOK
  <2>1. queue \in Seq(Span) /\ Len(queue) <= fixedQueueSize /\ queueLength \in Int
    BY QueueAssumption
  <2>2. inHand \in Seq(Span) /\ Len(inHand) = (IF sweeper = "sending" THEN 1 ELSE 0)
    OBVIOUS
  <2>3. running \in BOOLEAN /\ thread \in [Thread -> {"idle", "notifying", "counting"}]
    OBVIOUS
  <2>4. /\ reported \subseteq Span /\ dropped \subseteq Span /\ early \subseteq Span
        /\ sweeper \in {"checking", "waiting", "sending", "stopped"}
        /\ closer \in [Closer -> {"open", "notifying", "joining", "flushing", "closed", "returned"}]
    OBVIOUS
  <2> HIDE DEF Init
  <2> QED BY <1>2, <2>1, <2>2, <2>3, <2>4 DEF TypeOK
<1>4. Busy = {}
  BY DEF Busy
<1>5. QueueLengthTracked
  <2>1. Cardinality({}) = 0
    BY FS_EmptySet
  <2>2. queueLength + Cardinality(Busy) = 0 + 0
    BY <1>4, <2>1
  <2> QED BY <2>2 DEF QueueLengthTracked
<1>6. appended = {} /\ Members(queue) = {} /\ Members(inHand) = {}
  BY DEF Members, Sender!Init
<1>7. EachReportedOnce
  BY <1>6 DEF EachReportedOnce
<1>8. CloseOrder
  BY DEF CloseOrder, Active
<1>9. EarlyOnItsWay
  BY DEF EarlyOnItsWay
<1> QED BY <1>1, <1>3, <1>5, <1>7, <1>8, <1>9 DEF IInv

-----------------------------------------------------------------------------
\* A step keeps the types, and the queue within its bound.
LEMMA TypeKept ==
    ASSUME IInv, [Next]_vars
    PROVE  TypeOK'
<1>1. Sender!TypeOK'
  BY SenderKept DEF SenderInv, SenderProofs!IInv, SenderProofs!TypeOK, Sender!TypeOK
<1> USE DEF IInv, TypeOK
<1>2. appended \subseteq Span
  BY DEF Sender!TypeOK
<1>3. ASSUME NEW t \in Thread, NEW s \in Span, report(t, s) PROVE TypeOK'
  <2>1. CASE HasRoom
    <3>1. queue' = Append(queue, s) /\ Len(queue) < fixedQueueSize
      BY <1>3, <2>1 DEF report, HasRoom
    <3>2. queue' \in Seq(Span) /\ Len(queue') <= fixedQueueSize
      BY <3>1, QueueAssumption
    <3> QED BY <1>1, <1>3, <2>1, <3>2 DEF report
  <2>2. CASE ~HasRoom
    BY <1>1, <1>3, <2>2 DEF report
  <2> QED BY <2>1, <2>2
<1>4. ASSUME NEW t \in Thread, reportNotify(t) \/ reportCount(t) PROVE TypeOK'
  BY <1>1, <1>4 DEF reportNotify, reportCount, Wake
<1>5. CASE sweepWait \/ sweepStop
  BY <1>1, <1>5 DEF sweepWait, sweepStop
<1>6. CASE sweepTake
  <2>1. /\ queue' \in Seq(Span) /\ Len(queue') <= fixedQueueSize
        /\ inHand' \in Seq(Span) /\ Len(inHand') = 1 /\ sweeper' = "sending"
    BY <1>6, QueueAssumption DEF sweepTake
  <2> QED BY <1>1, <1>6, <2>1 DEF sweepTake
<1>7. ASSUME NEW outcome \in Sender!Outcome, sendSpan(outcome) \/ sweepTimeout(outcome) PROVE TypeOK'
  <2>1. CASE sendSpan(outcome)
    <3>1. inHand' = <<>> /\ sweeper' = "checking"
      BY <2>1 DEF sendSpan
    <3>2. inHand' \in Seq(Span) /\ Len(inHand') = 0
      BY <3>1
    <3> QED BY <1>1, <2>1, <3>1, <3>2 DEF sendSpan
  <2>2. CASE sweepTimeout(outcome)
    BY <1>1, <2>2 DEF sweepTimeout
  <2> QED BY <1>7, <2>1, <2>2
<1>8. ASSUME NEW c \in Closer, close(c) PROVE TypeOK'
  <2>1. Members(queue) \subseteq Span
    BY DEF Members
  <2>2. early' \subseteq Span
    BY <1>2, <1>8, <2>1 DEF close
  <2> QED BY <1>1, <1>8, <2>2 DEF close
<1>9. ASSUME NEW c \in Closer, closeNotify(c) \/ closeJoin(c) PROVE TypeOK'
  BY <1>1, <1>9 DEF closeNotify, closeJoin, Wake
<1>10. ASSUME NEW c \in Closer, NEW outcome \in Sender!Outcome, closeFlush(c, outcome) PROVE TypeOK'
  BY <1>1, <1>10 DEF closeFlush
<1>11. CASE Over \/ UNCHANGED vars
  BY <1>1, <1>11 DEF Over, vars
<1> QED BY <1>3, <1>4, <1>5, <1>6, <1>7, <1>8, <1>9, <1>10, <1>11
        DEF Next, Reporting, Sweeping, Closing

\* A step changes queueLength, the queue and Busy together.
LEMMA LengthKept ==
    ASSUME IInv, [Next]_vars
    PROVE  QueueLengthTracked'
<1> USE DEF IInv, TypeOK
<1>0. IsFiniteSet(Busy) /\ Cardinality(Busy) \in Nat
  BY QueueAssumption, FS_Subset, FS_CardinalityType DEF Busy
<1>1. ASSUME NEW t \in Thread, NEW s \in Span, report(t, s) PROVE QueueLengthTracked'
  <2>1. CASE HasRoom
    <3>1. Busy' = Busy \cup {t} /\ t \notin Busy
      BY <1>1, <2>1 DEF report, Busy
    <3>2. Cardinality(Busy') = Cardinality(Busy) + 1
      BY <1>0, <3>1, FS_AddElement
    <3>3. queue' = Append(queue, s) /\ queueLength' = queueLength
      BY <1>1, <2>1 DEF report
    <3>4. Len(queue') = Len(queue) + 1
      BY <3>3
    <3> QED BY <1>0, <3>2, <3>3, <3>4 DEF QueueLengthTracked
  <2>2. CASE ~HasRoom
    BY <1>1, <2>2 DEF report, QueueLengthTracked, Busy
  <2> QED BY <2>1, <2>2
<1>2. ASSUME NEW t \in Thread, reportNotify(t) PROVE QueueLengthTracked'
  <2>1. Busy' = Busy
    BY <1>2 DEF reportNotify, Busy
  <2> QED BY <1>2, <2>1 DEF reportNotify, QueueLengthTracked
<1>3. ASSUME NEW t \in Thread, reportCount(t) PROVE QueueLengthTracked'
  <2>1. Busy' = Busy \ {t} /\ t \in Busy
    BY <1>3 DEF reportCount, Busy
  <2>2. Cardinality(Busy') = Cardinality(Busy) - 1
    BY <1>0, <2>1, FS_RemoveElement
  <2>3. queue' = queue /\ queueLength' = queueLength + 1
    BY <1>3 DEF reportCount
  <2> QED BY <1>0, <2>2, <2>3 DEF QueueLengthTracked
<1>4. CASE sweepTake
  <2>1. Busy' = Busy
    BY <1>4 DEF sweepTake, Busy
  <2>2. Len(queue') = Len(queue) - 1 /\ queueLength' = queueLength - 1
    BY <1>4 DEF sweepTake
  <2> QED BY <1>0, <2>1, <2>2 DEF QueueLengthTracked
<1>5. CASE UNCHANGED <<thread, queue, queueLength>>
  BY <1>5 DEF QueueLengthTracked, Busy
<1>6. CASE Sweeping
  BY <1>4, <1>5, <1>6 DEF Sweeping, sweepWait, sweepStop, sendSpan, sweepTimeout
<1>7. ASSUME NEW c \in Closer, Closing(c) PROVE QueueLengthTracked'
  BY <1>5, <1>7 DEF Closing, close, closeNotify, closeJoin, closeFlush
<1>8. CASE Over \/ UNCHANGED vars
  BY <1>5, <1>8 DEF Over, vars
<1> QED BY <1>1, <1>2, <1>3, <1>6, <1>7, <1>8 DEF Next, Reporting

-----------------------------------------------------------------------------
\* Appending adds one member.
LEMMA MembersAppend ==
    ASSUME NEW q \in Seq(Span), NEW x \in Span
    PROVE  Members(Append(q, x)) = Members(q) \cup {x}
<1>1. /\ Len(Append(q, x)) = Len(q) + 1 /\ DOMAIN Append(q, x) = 1 .. Len(q) + 1
      /\ \A i \in 1 .. Len(q) : Append(q, x)[i] = q[i]
      /\ Append(q, x)[Len(q) + 1] = x
  OBVIOUS
<1>2. DOMAIN q = 1 .. Len(q) /\ Len(q) \in Nat
  OBVIOUS
<1>3. ASSUME NEW y \in Members(Append(q, x)) PROVE y \in Members(q) \cup {x}
  <2>1. PICK i \in 1 .. Len(q) + 1 : y = Append(q, x)[i]
    BY <1>1 DEF Members
  <2>2. CASE i = Len(q) + 1
    BY <1>1, <2>1, <2>2
  <2>3. CASE i \in 1 .. Len(q)
    BY <1>1, <1>2, <2>1, <2>3 DEF Members
  <2> QED BY <1>2, <2>1, <2>2, <2>3
<1>4. ASSUME NEW y \in Members(q) PROVE y \in Members(Append(q, x))
  <2>1. PICK i \in 1 .. Len(q) : y = q[i]
    BY <1>2 DEF Members
  <2> QED BY <1>1, <1>2, <2>1 DEF Members
<1>5. x \in Members(Append(q, x))
  BY <1>1, <1>2 DEF Members
<1> QED BY <1>3, <1>4, <1>5

Distinct(q) == \A i, j \in DOMAIN q : q[i] = q[j] => i = j

\* Appending something new, or taking off the head, keeps a sequence without
\* repetitions, and the head is then gone from it.
LEMMA DistinctAppend ==
    ASSUME NEW q \in Seq(Span), NEW x \in Span, Distinct(q), x \notin Members(q)
    PROVE  Distinct(Append(q, x))
<1>1. /\ DOMAIN Append(q, x) = 1 .. Len(q) + 1
      /\ \A i \in 1 .. Len(q) : Append(q, x)[i] = q[i]
      /\ Append(q, x)[Len(q) + 1] = x
      /\ DOMAIN q = 1 .. Len(q) /\ Len(q) \in Nat
  OBVIOUS
<1>2. \A i \in 1 .. Len(q) : q[i] # x
  BY <1>1 DEF Members
<1> QED BY <1>1, <1>2 DEF Distinct

LEMMA TakeHead ==
    ASSUME NEW q \in Seq(Span), q # <<>>, Distinct(q)
    PROVE  /\ Head(q) \in Members(q)
           /\ Members(Tail(q)) = Members(q) \ {Head(q)}
           /\ Distinct(Tail(q))
<1>1. /\ DOMAIN q = 1 .. Len(q) /\ Len(q) \in Nat /\ Len(q) > 0 /\ Head(q) = q[1]
      /\ DOMAIN Tail(q) = 1 .. Len(q) - 1
      /\ \A i \in 1 .. Len(q) - 1 : Tail(q)[i] = q[i + 1]
  OBVIOUS
<1>2. Head(q) \in Members(q)
  BY <1>1 DEF Members
<1>3. ASSUME NEW y \in Members(Tail(q)) PROVE y \in Members(q) \ {Head(q)}
  <2>1. PICK i \in 1 .. Len(q) - 1 : y = q[i + 1]
    BY <1>1 DEF Members
  <2>2. i + 1 \in DOMAIN q /\ 1 \in DOMAIN q /\ i + 1 # 1
    BY <1>1
  <2> QED BY <1>1, <2>1, <2>2 DEF Members, Distinct
<1>4. ASSUME NEW y \in Members(q), y # Head(q) PROVE y \in Members(Tail(q))
  <2>1. PICK i \in 1 .. Len(q) : y = q[i]
    BY <1>1 DEF Members
  <2>2. i - 1 \in 1 .. Len(q) - 1 /\ (i - 1) + 1 = i
    BY <1>1, <1>4, <2>1
  <2>3. Tail(q)[i - 1] = y
    BY <1>1, <2>1, <2>2
  <2> QED BY <1>1, <2>2, <2>3 DEF Members
<1>5. Distinct(Tail(q))
  <2>1. SUFFICES ASSUME NEW i \in 1 .. Len(q) - 1, NEW j \in 1 .. Len(q) - 1,
                        q[i + 1] = q[j + 1]
                 PROVE  i = j
    BY <1>1 DEF Distinct
  <2>2. i + 1 \in DOMAIN q /\ j + 1 \in DOMAIN q
    BY <1>1
  <2>3. i + 1 = j + 1
    BY <2>1, <2>2 DEF Distinct
  <2> QED BY <1>1, <2>3
<1> QED BY <1>2, <1>3, <1>4, <1>5

\* A span moves from one place to the next and is copied to none.
LEMMA OnceKept ==
    ASSUME IInv, [Next]_vars
    PROVE  EachReportedOnce'
<1>0. /\ queue \in Seq(Span) /\ Distinct(queue)
      /\ sweeper # "sending" => Members(inHand) = {}
  BY DEF IInv, TypeOK, EachReportedOnce, Distinct, Members
<1> DEFINE kept == Members(queue) \cup Members(inHand)
<1>1. /\ reported = kept \cup appended \cup dropped
      /\ kept \cap (appended \cup dropped) = {} /\ appended \cap dropped = {}
      /\ Members(queue) \cap Members(inHand) = {}
  BY DEF IInv, EachReportedOnce
<1>2. EachReportedOnce' <=>
        /\ reported' = kept' \cup appended' \cup dropped'
        /\ kept' \cap (appended' \cup dropped') = {} /\ appended' \cap dropped' = {}
        /\ Members(queue') \cap Members(inHand') = {}
        /\ Distinct(queue')
  BY DEF EachReportedOnce, Distinct, Members
<1>3. ASSUME NEW t \in Thread, NEW s \in Span, report(t, s) PROVE EachReportedOnce'
  <2>1. /\ reported' = reported \cup {s} /\ s \notin reported
        /\ appended' = appended /\ inHand' = inHand
    BY <1>3 DEF report, senderVars
  <2>2. CASE HasRoom
    <3>1. queue' = Append(queue, s) /\ dropped' = dropped
      BY <1>3, <2>2 DEF report
    <3>2. s \notin Members(queue)
      BY <1>1, <2>1
    <3>3. Members(queue') = Members(queue) \cup {s} /\ Distinct(queue')
      BY <1>0, <3>1, <3>2, MembersAppend, DistinctAppend
    <3>4. Members(inHand') = Members(inHand)
      BY <2>1 DEF Members
    <3> QED BY <1>1, <1>2, <2>1, <3>1, <3>3, <3>4
  <2>3. CASE ~HasRoom
    <3>1. queue' = queue /\ dropped' = dropped \cup {s}
      BY <1>3, <2>3 DEF report
    <3>2. Members(queue') = Members(queue) /\ Members(inHand') = Members(inHand)
      BY <2>1, <3>1 DEF Members
    <3>3. Distinct(queue')
      BY <1>0, <3>1
    <3> QED BY <1>1, <1>2, <2>1, <3>1, <3>2, <3>3
  <2> QED BY <2>2, <2>3
<1>4. CASE sweepTake
  <2>1. /\ sweeper # "sending" /\ queue # <<>> /\ queue' = Tail(queue) /\ inHand' = <<Head(queue)>>
        /\ reported' = reported /\ dropped' = dropped /\ appended' = appended
    BY <1>4 DEF sweepTake, senderVars
  <2>2. Members(inHand') = {Head(queue)}
    BY <2>1 DEF Members
  <2>3. /\ Head(queue) \in Members(queue) /\ Distinct(queue')
        /\ Members(queue') = Members(queue) \ {Head(queue)}
    BY <1>0, <2>1, TakeHead
  <2> QED BY <1>0, <1>1, <1>2, <2>1, <2>2, <2>3
<1>5. ASSUME NEW outcome \in Sender!Outcome, sendSpan(outcome) PROVE EachReportedOnce'
  <2>1. /\ sweeper = "sending" /\ inHand' = <<>> /\ queue' = queue /\ reported' = reported
        /\ dropped' = dropped /\ Sender!append(inHand[1], outcome)
    BY <1>5 DEF sendSpan
  <2>2. appended' = appended \cup {inHand[1]} /\ Members(inHand) = {inHand[1]}
    BY <2>1, AppendEffect, InHand DEF IInv
  <2>3. Members(inHand') = {} /\ Members(queue') = Members(queue) /\ Distinct(queue')
    BY <1>0, <2>1 DEF Members
  <2> QED BY <1>1, <1>2, <2>1, <2>2, <2>3
<1>6. CASE UNCHANGED <<reported, queue, inHand, appended, dropped>>
  BY <1>0, <1>1, <1>2, <1>6 DEF Members
<1>7. ASSUME NEW outcome \in Sender!Outcome, Sender!flush(outcome) PROVE appended' = appended
  BY <1>7 DEF Sender!flush
<1>8. ASSUME NEW t \in Thread, reportNotify(t) \/ reportCount(t) PROVE EachReportedOnce'
  BY <1>6, <1>8 DEF reportNotify, reportCount, senderVars
<1>9. CASE Sweeping
  BY <1>4, <1>5, <1>6, <1>7, <1>9 DEF Sweeping, sweepWait, sweepStop, sweepTimeout, senderVars
<1>10. ASSUME NEW c \in Closer, Closing(c) PROVE EachReportedOnce'
  BY <1>6, <1>7, <1>10 DEF Closing, close, closeNotify, closeJoin, closeFlush, senderVars
<1>11. CASE Over \/ UNCHANGED vars
  BY <1>6, <1>11 DEF Over, vars, senderVars
<1> QED BY <1>3, <1>8, <1>9, <1>10, <1>11 DEF Next, Reporting

-----------------------------------------------------------------------------
\* While the sweeper is gone only a close() that flushes uses the sender.
LEMMA OrderKept ==
    ASSUME IInv, [Next]_vars
    PROVE  CloseOrder'
<1> USE DEF CloseOrder, Active
<1>0. closer \in [Closer -> {"open", "notifying", "joining", "flushing", "closed", "returned"}]
  BY DEF IInv, TypeOK
<1>1. CloseOrder /\ failed \in Nat
  BY DEF IInv, TypeOK, Sender!TypeOK
<1> HIDE DEF CloseOrder
<1>2. CASE UNCHANGED <<closer, running, sweeper, spanBuffer, failed>>
  BY <1>1, <1>2 DEF CloseOrder
<1>3. ASSUME NEW t \in Thread, Reporting(t) PROVE CloseOrder'
  <2>1. CASE reportNotify(t)
    BY <1>1, <2>1 DEF reportNotify, Wake, senderVars, CloseOrder
  <2>2. CASE reportCount(t) \/ \E s \in Span : report(t, s)
    BY <1>2, <2>2 DEF reportCount, report, senderVars
  <2> QED BY <1>3, <2>1, <2>2 DEF Reporting
<1>4. CASE Sweeping
  <2>1. /\ sweeper # "stopped" /\ closer' = closer /\ running' = running
        /\ sweeper' = "stopped" => ~running
    BY <1>4 DEF Sweeping, sweepWait, sweepStop, sweepTake, sendSpan, sweepTimeout
  <2>2. \A c \in Closer : closer[c] \notin {"flushing", "closed"}
    BY <1>1, <2>1 DEF CloseOrder
  <2> QED BY <1>1, <2>1, <2>2 DEF CloseOrder
<1>5. ASSUME NEW c \in Closer, close(c) PROVE CloseOrder'
  <2>1. /\ closer[c] = "open" /\ running' = FALSE /\ sweeper' = sweeper
        /\ spanBuffer' = spanBuffer /\ failed' = failed
    BY <1>5 DEF close, senderVars
  <2>2. CASE running
    <3>1. closer' = [closer EXCEPT ![c] = "notifying"]
      BY <1>5, <2>2 DEF close
    <3>2. \A d \in Closer : ~Active(d)
      BY <1>1, <2>2 DEF CloseOrder
    <3> QED BY <1>0, <1>1, <2>1, <3>1, <3>2 DEF CloseOrder
  <2>3. CASE ~running
    <3>1. closer' = [closer EXCEPT ![c] = "returned"]
      BY <1>5, <2>3 DEF close
    <3> QED BY <1>0, <1>1, <2>1, <3>1 DEF CloseOrder
  <2> QED BY <2>2, <2>3, <1>1
<1>6. ASSUME NEW c \in Closer, closeNotify(c) PROVE CloseOrder'
  <2>1. /\ closer[c] = "notifying" /\ closer' = [closer EXCEPT ![c] = "joining"]
        /\ running' = running /\ spanBuffer' = spanBuffer /\ failed' = failed
        /\ sweeper = "stopped" => sweeper' = "stopped"
    BY <1>6 DEF closeNotify, Wake, senderVars
  <2> QED BY <1>0, <1>1, <2>1 DEF CloseOrder
<1>7. ASSUME NEW c \in Closer, closeJoin(c) PROVE CloseOrder'
  <2>1. /\ closer[c] = "joining" /\ closer' = [closer EXCEPT ![c] = "flushing"]
        /\ sweeper = "stopped" /\ sweeper' = sweeper
        /\ running' = running /\ spanBuffer' = spanBuffer /\ failed' = failed
    BY <1>7 DEF closeJoin, senderVars
  <2> QED BY <1>0, <1>1, <2>1 DEF CloseOrder
<1>8. ASSUME NEW c \in Closer, NEW outcome \in Sender!Outcome, closeFlush(c, outcome) PROVE CloseOrder'
  <2>1. /\ closer[c] = "flushing" /\ closer' = [closer EXCEPT ![c] = "closed"]
        /\ running' = running /\ sweeper' = sweeper /\ Sender!flush(outcome)
    BY <1>8 DEF closeFlush
  <2>2. spanBuffer' = <<>> \/ failed' > 0
    BY <1>1, <2>1, FlushEffect
  <2> QED BY <1>0, <1>1, <2>1, <2>2 DEF CloseOrder
<1>9. CASE Over \/ UNCHANGED vars
  BY <1>2, <1>9 DEF Over, vars, senderVars
<1> QED BY <1>3, <1>4, <1>5, <1>6, <1>7, <1>8, <1>9 DEF Next, Closing

\* A span queued in time is not left behind.
LEMMA EarlyKept ==
    ASSUME IInv, [Next]_vars
    PROVE  EarlyOnItsWay'
<1>0. /\ queue \in Seq(Span) /\ Distinct(queue)
      /\ sweeper # "sending" => inHand = <<>> /\ Members(inHand) = {}
  BY DEF IInv, TypeOK, EachReportedOnce, Distinct, Members
<1>1. EarlyOnItsWay
  BY DEF IInv
<1>2. CASE UNCHANGED <<early, queue, inHand, sweeper, appended>>
  BY <1>1, <1>2 DEF EarlyOnItsWay, Members
<1>3. ASSUME NEW t \in Thread, NEW s \in Span, report(t, s) PROVE EarlyOnItsWay'
  <2>1. /\ queue' = queue \/ queue' = Append(queue, s)
        /\ UNCHANGED <<early, inHand, sweeper, appended>>
    BY <1>3 DEF report, senderVars
  <2>2. Members(queue) \subseteq Members(queue')
    BY <1>0, <2>1, MembersAppend
  <2>3. Members(inHand') = Members(inHand)
    BY <2>1 DEF Members
  <2> QED BY <1>1, <2>1, <2>2, <2>3 DEF EarlyOnItsWay
<1>4. ASSUME NEW t \in Thread, reportNotify(t) \/ reportCount(t) PROVE EarlyOnItsWay'
  <2>1. /\ UNCHANGED <<early, queue, inHand, appended>>
        /\ sweeper' = "stopped" => sweeper = "stopped"
    BY <1>4 DEF reportNotify, reportCount, Wake, senderVars
  <2> QED BY <1>1, <2>1 DEF EarlyOnItsWay, Members
<1>5. CASE sweepStop
  <2>1. queue = <<>> /\ Members(queue) = {} /\ Members(inHand) = {}
    BY <1>0, <1>5 DEF sweepStop, Members
  <2>2. early' = early /\ appended' = appended
    BY <1>5 DEF sweepStop, senderVars
  <2> QED BY <1>1, <2>1, <2>2 DEF EarlyOnItsWay
<1>6. CASE sweepWait
  BY <1>1, <1>6 DEF sweepWait, senderVars, EarlyOnItsWay, Members
<1>7. CASE sweepTake
  <2>1. /\ queue # <<>> /\ queue' = Tail(queue) /\ inHand' = <<Head(queue)>>
        /\ sweeper = "checking" /\ sweeper' = "sending"
        /\ early' = early /\ appended' = appended
    BY <1>7 DEF sweepTake, senderVars
  <2>2. Members(inHand') = {Head(queue)}
    BY <2>1 DEF Members
  <2>3. Members(queue') = Members(queue) \ {Head(queue)}
    BY <1>0, <2>1, TakeHead
  <2> QED BY <1>0, <1>1, <2>1, <2>2, <2>3 DEF EarlyOnItsWay
<1>8. ASSUME NEW outcome \in Sender!Outcome, sendSpan(outcome) PROVE EarlyOnItsWay'
  <2>1. /\ sweeper = "sending" /\ sweeper' = "checking" /\ queue' = queue /\ early' = early
        /\ Sender!append(inHand[1], outcome)
    BY <1>8 DEF sendSpan
  <2>2. appended' = appended \cup {inHand[1]} /\ Members(inHand) = {inHand[1]}
    BY <2>1, AppendEffect, InHand DEF IInv
  <2>3. Members(queue') = Members(queue)
    BY <2>1 DEF Members
  <2> QED BY <1>1, <2>1, <2>2, <2>3 DEF EarlyOnItsWay
<1>9. ASSUME NEW outcome \in Sender!Outcome, Sender!flush(outcome) PROVE appended' = appended
  BY <1>9 DEF Sender!flush
<1>10. ASSUME NEW outcome \in Sender!Outcome, sweepTimeout(outcome) PROVE EarlyOnItsWay'
  <2>1. appended' = appended
    BY <1>9, <1>10 DEF sweepTimeout, senderVars
  <2>2. /\ UNCHANGED <<early, queue, inHand>> /\ sweeper' = "checking"
    BY <1>10 DEF sweepTimeout
  <2> QED BY <1>1, <2>1, <2>2 DEF EarlyOnItsWay, Members
<1>11. ASSUME NEW c \in Closer, close(c) PROVE EarlyOnItsWay'
  <2>1. /\ UNCHANGED <<queue, inHand, sweeper, appended>> /\ sweeper # "sending"
        /\ running => early' = Members(queue) \cup appended
        /\ ~running => early' = early
    BY <1>11 DEF close, senderVars, Locked
  <2>2. sweeper = "stopped" => ~running
    BY DEF IInv, CloseOrder
  <2> QED BY <1>1, <2>1, <2>2 DEF EarlyOnItsWay, Members
<1>12. ASSUME NEW c \in Closer, closeNotify(c) PROVE EarlyOnItsWay'
  <2>1. /\ UNCHANGED <<early, queue, inHand, appended>>
        /\ sweeper' = "stopped" => sweeper = "stopped"
    BY <1>12 DEF closeNotify, Wake, senderVars
  <2> QED BY <1>1, <2>1 DEF EarlyOnItsWay, Members
<1>13. ASSUME NEW c \in Closer, closeJoin(c) PROVE EarlyOnItsWay'
  BY <1>2, <1>13 DEF closeJoin, senderVars
<1>14. ASSUME NEW c \in Closer, NEW outcome \in Sender!Outcome, closeFlush(c, outcome) PROVE EarlyOnItsWay'
  BY <1>2, <1>9, <1>14 DEF closeFlush
<1>15. CASE Over \/ UNCHANGED vars
  BY <1>2, <1>15 DEF Over, vars, senderVars
<1> QED BY <1>3, <1>4, <1>5, <1>6, <1>7, <1>8, <1>10, <1>11, <1>12, <1>13, <1>14, <1>15
        DEF Next, Reporting, Sweeping, Closing

\* Every step keeps the invariant.
LEMMA NextInv == IInv /\ [Next]_vars => IInv'
BY SenderKept, TypeKept, LengthKept, OnceKept, OrderKept, EarlyKept DEF IInv

\* IInv is an invariant of the reporter.
THEOREM Invariance == Spec => []IInv
BY InitInv, NextInv, PTL DEF Spec

-----------------------------------------------------------------------------
\* The reporter's variables keep their types, and its queue its bound.
THEOREM TypeCorrect == Spec => []TypeOK
<1>1. IInv => TypeOK
  BY DEF IInv
<1> QED BY <1>1, Invariance, PTL

\* _queueLength is off by exactly the threads between their push and their
\* count.
THEOREM QueueLengthIsTracked == Spec => []QueueLengthTracked
<1>1. IInv => QueueLengthTracked
  BY DEF IInv
<1> QED BY <1>1, Invariance, PTL

\* No span that report() was given disappears or shows up twice.
THEOREM ReportedOnce == Spec => []EachReportedOnce
<1>1. IInv => EachReportedOnce
  BY DEF IInv
<1> QED BY <1>1, Invariance, PTL

\* close() uses the sender after the sweeper's last use of it.
THEOREM SenderNotShared == Spec => []OneSenderUser
<1>1. IInv => OneSenderUser
  BY DEF IInv, CloseOrder, Active, OneSenderUser
<1> QED BY <1>1, Invariance, PTL

\* close() flushes what was queued before it.
THEOREM PendingFlushed == Spec => []CloseFlushes
<1>1. ASSUME IInv, NEW c \in Closer, closer[c] = "closed"
      PROVE  early \subseteq appended /\ (failed = 0 => early \cap Members(spanBuffer) = {})
  <2>1. sweeper = "stopped" /\ (spanBuffer = <<>> \/ failed > 0)
    BY <1>1 DEF IInv, CloseOrder
  <2>2. early \subseteq appended
    BY <1>1, <2>1 DEF IInv, EarlyOnItsWay
  <2>3. failed = 0 => spanBuffer = <<>>
    BY <2>1
  <2>4. spanBuffer = <<>> => Members(spanBuffer) = {}
    BY DEF Members
  <2> QED BY <2>2, <2>3, <2>4
<1>2. IInv => CloseFlushes
  BY <1>1 DEF CloseFlushes
<1> QED BY <1>2, Invariance, PTL

\* The reporter implements ThriftSender's specification: the sender is used
\* sequentially and never given a span twice.
THEOREM UsesSenderAsSpecified == Spec => SenderContract
<1>1. Init => Sender!Init
  BY DEF Init
<1>2. IInv /\ [Next]_vars => [Sender!Next]_Sender!vars
  BY SenderKept
<1> QED BY <1>1, <1>2, Invariance, PTL DEF Spec, SenderContract, Sender!Spec

\* So no batch the reporter's threads send is longer than the transport takes.
THEOREM BatchesFit == Spec => []Sender!BatchFits
<1>1. SenderInv => Sender!BatchFits
  <2>1. SenderInv => SenderProofs!BatchFits
    BY SenderProofs!Fits, SenderSizes DEF SenderInv
  <2> QED BY <2>1 DEF SenderProofs!BatchFits, Sender!BatchFits, SenderProofs!kEmitBatchOverhead,
                      Sender!kEmitBatchOverhead
<1>2. IInv => Sender!BatchFits
  BY <1>1 DEF IInv
<1> QED BY <1>2, Invariance, PTL
-----------------------------------------------------------------------------
(***************************************************************************)
(* The reporter with its sender implements SpanChannel.  What is pending   *)
(* are the spans with the sender, in the sweeper's hands and queued, in    *)
(* this order, so moving a span from one place to the next is a stutter;   *)
(* a batch that goes out is a prefix of what is pending, which stays when  *)
(* no answer comes, and a span that append() gives up is taken out of its  *)
(* middle.                                                                 *)
(***************************************************************************)
Pending == spanBuffer \o inHand \o queue

\* What one sequence or the other has, both together have.
LEMMA MembersOfConcat ==
    ASSUME NEW X \in Seq(Span), NEW Y \in Seq(Span)
    PROVE  X \o Y \in Seq(Span) /\ Members(X \o Y) = Members(X) \cup Members(Y)
<1> DEFINE Z == X \o Y
<1>1. /\ Z \in Seq(Span) /\ Len(X) \in Nat /\ Len(Y) \in Nat
      /\ DOMAIN X = 1 .. Len(X) /\ DOMAIN Y = 1 .. Len(Y) /\ DOMAIN Z = 1 .. Len(X) + Len(Y)
      /\ \A i \in 1 .. Len(X) : Z[i] = X[i]
      /\ \A i \in Len(X) + 1 .. Len(X) + Len(Y) : Z[i] = Y[i - Len(X)]
      /\ \A i \in 1 .. Len(Y) : Z[i + Len(X)] = Y[i]
  OBVIOUS
<1> HIDE DEF Z
<1>2. ASSUME NEW i \in DOMAIN Z PROVE Z[i] \in Members(X) \cup Members(Y)
  <2>1. CASE i \in DOMAIN X
    BY <1>1, <2>1 DEF Members
  <2>2. CASE i \notin DOMAIN X
    <3>1. i - Len(X) \in DOMAIN Y /\ Z[i] = Y[i - Len(X)]
      BY <1>1, <2>2
    <3> QED BY <3>1 DEF Members
  <2> QED BY <2>1, <2>2
<1>3. Members(X) \subseteq Members(Z)
  BY <1>1 DEF Members
<1>4. ASSUME NEW i \in DOMAIN Y PROVE Y[i] \in Members(Z)
  <2>1. i + Len(X) \in DOMAIN Z /\ Z[i + Len(X)] = Y[i]
    BY <1>1
  <2> QED BY <2>1 DEF Members
<1>5. Members(Z) \subseteq Members(X) \cup Members(Y) /\ Members(Y) \subseteq Members(Z)
  BY <1>2, <1>4 DEF Members
<1> QED BY <1>1, <1>3, <1>5 DEF Z

\* A concatenation is cut where it was put together.
LEMMA CutConcat ==
    ASSUME NEW X \in Seq(Span), NEW Y \in Seq(Span)
    PROVE  /\ SubSeq(X \o Y, 1, Len(X)) = X
           /\ SubSeq(X \o Y, Len(X) + 1, Len(X \o Y)) = Y
<1>1. /\ Len(X) \in Nat /\ Len(Y) \in Nat /\ Len(X \o Y) = Len(X) + Len(Y)
      /\ X # <<>> => Len(X) > 0
      /\ Y # <<>> => Len(Y) > 0
  OBVIOUS
<1>2. CASE X = <<>>
  <2>1. SubSeq(X \o Y, 1, Len(X)) = <<>>
    BY <1>2, SubSeqEmpty
  <2>2. X \o Y = Y /\ Len(X) = 0
    BY <1>2, ConcatEmptySeq
  <2> QED BY <1>2, <2>1, <2>2, SubSeqFull
<1>3. CASE X # <<>>
  <2>1. 1 \in 1 .. Len(X) /\ Len(X) \in 1 .. Len(X)
    BY <1>1, <1>3
  <2>2. SubSeq(X \o Y, 1, Len(X)) = X
    BY <2>1, SubSeqOfConcat1, SubSeqFull
  <2>3. CASE Y = <<>>
    BY <1>1, <2>2, <2>3, SubSeqEmpty
  <2>4. CASE Y # <<>>
    <3>1. /\ Len(X) + 1 \in Len(X) + 1 .. Len(X) + Len(Y)
          /\ Len(X) + Len(Y) \in Len(X) + 1 .. Len(X) + Len(Y)
      BY <1>1, <2>4
    <3>2. SubSeq(X \o Y, Len(X) + 1, Len(X) + Len(Y))
            = SubSeq(Y, Len(X) + 1 - Len(X), Len(X) + Len(Y) - Len(X))
      BY <3>1, SubSeqOfConcat2
    <3>3. Len(X) + 1 - Len(X) = 1 /\ Len(X) + Len(Y) - Len(X) = Len(Y)
      BY <1>1
    <3> QED BY <1>1, <2>2, <3>2, <3>3, SubSeqFull
  <2> QED BY <2>3, <2>4
<1> QED BY <1>2, <1>3

\* What is sent in front is delivered.
LEMMA PrefixDelivered ==
    ASSUME NEW X \in Seq(Span), NEW Y \in Seq(Span), X # <<>>,
           Pending = X \o Y, Pending' = Y, delivered' = delivered \o X, lost' = lost
    PROVE  Channel!Next
<1>1. Len(X) \in 1 .. Len(Pending)
  BY DEF Pending
<1>2. Channel!Deliver(Len(X))
  <2>1. SubSeq(Pending, 1, Len(X)) = X
    BY CutConcat
  <2>2. SubSeq(Pending, Len(X) + 1, Len(Pending)) = Y
    BY CutConcat
  <2>3. delivered' = delivered \o SubSeq(Pending, 1, Len(X)) /\ lost' = lost
    BY <2>1
  <2>4. Pending' = SubSeq(Pending, Len(X) + 1, Len(Pending))
    BY <2>2
  <2> QED BY <2>3, <2>4 DEF Channel!Deliver, Channel!GoOut, Pending
<1> QED BY <1>1, <1>2 DEF Channel!Next, Pending

\* What is sent in front and not answered stays.
LEMMA PrefixRepeated ==
    ASSUME NEW X \in Seq(Span), NEW Y \in Seq(Span), X # <<>>,
           Pending = X \o Y, Pending' = Pending, delivered' = delivered \o X, lost' = lost,
           Transporter = "HTTPTransporter"
    PROVE  Channel!Next
<1>1. Len(X) \in 1 .. Len(Pending)
  BY DEF Pending
<1>2. SubSeq(Pending, 1, Len(X)) = X
  BY CutConcat
<1>3. Channel!Attempt(Len(X))
  BY <1>2 DEF Channel!Attempt, Channel!GoOut, Pending
<1> QED BY <1>1, <1>3 DEF Channel!Next, Pending

\* What is taken out of the middle is lost.
LEMMA MiddleLost ==
    ASSUME NEW X \in Seq(Span), NEW Y \in Seq(Span), NEW s \in Span,
           Pending = Append(X, s) \o Y, Pending' = X \o Y,
           lost' = lost \cup {s}, s \notin Members(delivered),
           \/ delivered' = delivered
           \/ /\ Transporter = "HTTPTransporter"
              /\ X # <<>> /\ delivered' = delivered \o X
    PROVE  Channel!Next
<1> DEFINE i == Len(X) + 1
<1>1. /\ Append(X, s) \in Seq(Span) /\ Len(Append(X, s)) = i
      /\ i \in 1 .. Len(Append(X, s) \o Y) /\ Len(X) \in Nat /\ i - 1 = Len(X)
      /\ (Append(X, s) \o Y)[i] = s
  OBVIOUS
<1>2. SubSeq(Append(X, s) \o Y, i + 1, Len(Append(X, s) \o Y)) = Y
  BY <1>1, CutConcat
<1>3. SubSeq(Append(X, s) \o Y, 1, i - 1) = X
  <2>1. Append(X, s) = X \o <<s>> /\ <<s>> \in Seq(Span)
    BY AppendIsConcat
  <2>2. (X \o <<s>>) \o Y = X \o (<<s>> \o Y) /\ <<s>> \o Y \in Seq(Span)
    BY <2>1, ConcatAssociative
  <2> QED BY <1>1, <2>1, <2>2, CutConcat
<1>4. \/ UNCHANGED delivered
      \/ Transporter = "HTTPTransporter" /\ \E n \in 1 .. i - 1 : Channel!GoOut(n)
  <2>1. X # <<>> => Len(X) \in 1 .. i - 1
    BY <1>1
  <2> QED BY <1>1, <1>3, <2>1 DEF Channel!GoOut, Pending
<1>5. Pending[i] = s /\ s \notin Channel!Members(delivered)
  BY <1>1 DEF Members, Channel!Members
<1> HIDE DEF i
<1>6. Channel!Lose(i)
  BY <1>2, <1>3, <1>4, <1>5 DEF Channel!Lose, Pending
<1> QED BY <1>1, <1>6 DEF Channel!Next, Pending

\* A batch that fails has gone out or not, which only HTTP leaves open.
LEMMA FailEffect ==
    ASSUME NEW spans, NEW outcome \in Sender!Outcome, Sender!Fail(spans, outcome)
    PROVE  \/ delivered' = delivered
           \/ Transporter = "HTTPTransporter" /\ delivered' = delivered \o spans
BY DEF Sender!Fail, Sender!Outcome

\* What the sender has sent, it was given; what is new has never gone out.
LEMMA GivenBefore ==
    ASSUME SenderInv
    PROVE  Members(spanBuffer) \cup Members(delivered) \cup lost \subseteq appended
BY DEF SenderInv, SenderProofs!EachSpanOnce, SenderProofs!Members, Members

\* A flush delivers what is in front, or nothing.
LEMMA FlushOnChannel ==
    ASSUME IInv, NEW outcome \in Sender!Outcome, Sender!flush(outcome), UNCHANGED <<inHand, queue>>
    PROVE  [Channel!Next]_Channel!vars
<1>1. spanBuffer \in Seq(Span) /\ inHand \in Seq(Span) /\ queue \in Seq(Span)
  BY DEF IInv, TypeOK, Sender!TypeOK
<1>2. CASE UNCHANGED <<spanBuffer, delivered>>
  BY <1>2 DEF Sender!flush, Channel!vars
<1>3. ASSUME spanBuffer # <<>>, Sender!Send(spanBuffer, spanBytes, byteBufferSize, outcome),
             lost' = lost
      PROVE  [Channel!Next]_Channel!vars
  <2>1. Pending = spanBuffer \o (inHand \o queue) /\ inHand \o queue \in Seq(Span)
    BY <1>1, ConcatAssociative DEF Pending
  <2>2. CASE outcome = "taken"
    <3>1. spanBuffer' = <<>> /\ delivered' = delivered \o spanBuffer
      BY <1>3, <2>2 DEF Sender!Send, Sender!Emit, Sender!resetBuffers, Sender!Buffer
    <3>2. Pending' = inHand \o queue
      BY <1>1, <3>1, ConcatEmptySeq DEF Pending
    <3> QED BY <1>1, <1>3, <2>1, <3>1, <3>2, PrefixDelivered
  <2>3. CASE outcome # "taken"
    <3>1. Sender!Fail(spanBuffer, outcome) /\ spanBuffer' = spanBuffer
      BY <1>3, <2>3 DEF Sender!Send, Sender!Buffer
    <3>2. Pending' = Pending
      BY <3>1 DEF Pending
    <3>3. CASE delivered' = delivered
      BY <1>3, <3>2, <3>3 DEF Channel!vars, Pending
    <3>4. CASE Transporter = "HTTPTransporter" /\ delivered' = delivered \o spanBuffer
      BY <1>1, <1>3, <2>1, <3>2, <3>4, PrefixRepeated
    <3> QED BY <3>1, <3>3, <3>4, FailEffect
  <2> QED BY <2>2, <2>3
<1> QED BY <1>2, <1>3 DEF Sender!flush, Sender!Quiet

\* Giving the sender the next span moves it, delivers what is in front with it
\* or without it, or loses it.
LEMMA AppendOnChannel ==
    ASSUME IInv, NEW outcome \in Sender!Outcome, sendSpan(outcome)
    PROVE  [Channel!Next]_Channel!vars
<1> DEFINE s == inHand[1]
<1>0. s \notin appended
  BY InHand DEF IInv, sendSpan
<1>1. /\ spanBuffer \in Seq(Span) /\ queue \in Seq(Span)
      /\ inHand \in Seq(Span) /\ Len(inHand) = 1 /\ s \in Span
  BY InHand DEF IInv, TypeOK, Sender!TypeOK, sendSpan
<1>2. Sender!append(s, outcome) /\ inHand' = <<>> /\ queue' = queue
  BY DEF sendSpan
<1>3. inHand = <<s>>
  BY <1>1
<1> HIDE DEF s
<1>4. /\ Append(spanBuffer, s) \in Seq(Span) /\ Append(spanBuffer, s) # <<>>
      /\ Append(spanBuffer, s) = spanBuffer \o <<s>>
  BY <1>1, AppendIsConcat
<1>5. Pending = Append(spanBuffer, s) \o queue
  BY <1>3, <1>4 DEF Pending
<1>6. ASSUME NEW B \in Seq(Span), spanBuffer' = B
      PROVE  Pending' = B \o queue
  <2>1. B \o <<>> = B
    BY ConcatEmptySeq
  <2> QED BY <1>2, <1>6, <2>1 DEF Pending
<1>7. CASE spanBuffer' = Append(spanBuffer, s) /\ UNCHANGED <<delivered, lost>>
  <2>1. Pending' = Pending
    BY <1>4, <1>5, <1>6, <1>7
  <2> QED BY <1>7, <2>1 DEF Channel!vars, Pending
<1>8. CASE /\ spanBuffer' = spanBuffer /\ lost' = lost \cup {s}
           /\ \/ delivered' = delivered
              \/ /\ Transporter = "HTTPTransporter"
                 /\ spanBuffer # <<>> /\ delivered' = delivered \o spanBuffer
  <2>1. Pending' = spanBuffer \o queue
    BY <1>1, <1>6, <1>8
  <2>2. s \notin Members(delivered)
    BY <1>0, GivenBefore DEF IInv
  <2> QED BY <1>1, <1>5, <1>8, <2>1, <2>2, MiddleLost
<1>9. CASE /\ spanBuffer' = <<>> /\ delivered' = delivered \o Append(spanBuffer, s)
           /\ lost' = lost
  <2>1. <<>> \o queue = queue /\ <<>> \in Seq(Span)
    BY <1>1, ConcatEmptySeq
  <2>2. Pending' = queue
    BY <1>6, <1>9, <2>1
  <2> QED BY <1>1, <1>4, <1>5, <1>9, <2>2, PrefixDelivered
<1>10. CASE /\ spanBuffer # <<>> /\ spanBuffer' = <<s>>
            /\ delivered' = delivered \o spanBuffer /\ lost' = lost
  <2>1. <<s>> \in Seq(Span) /\ <<s>> \o queue \in Seq(Span)
    BY <1>1
  <2>2. Pending' = <<s>> \o queue
    BY <1>6, <1>10, <2>1
  <2>3. Pending = spanBuffer \o (<<s>> \o queue)
    BY <1>1, <1>4, <1>5, <2>1, ConcatAssociative
  <2> QED BY <1>1, <1>10, <2>1, <2>2, <2>3, PrefixDelivered
<1>11. CASE spanBuffer = <<>> /\ spanBuffer' = <<s>> /\ UNCHANGED <<delivered, lost>>
  <2>1. Append(spanBuffer, s) = <<s>>
    BY <1>11
  <2> QED BY <1>7, <1>11, <2>1
<1>12. CASE /\ spanBuffer' = Append(spanBuffer, s) /\ lost' = lost
            /\ Transporter = "HTTPTransporter"
            /\ delivered' = delivered \o Append(spanBuffer, s)
  <2>1. Pending' = Pending
    BY <1>4, <1>5, <1>6, <1>12
  <2> QED BY <1>1, <1>4, <1>5, <1>12, <2>1, PrefixRepeated
<1>13. CASE Sender!TooLarge(s)
  BY <1>2, <1>8, <1>13 DEF Sender!append, Sender!Reject
<1>14. CASE Sender!Store(s, outcome)
  <2>1. lost' = lost
    BY <1>14 DEF Sender!Store
  <2>2. CASE Sender!Larger(s) < Sender!maxSpanBytes
    BY <1>7, <1>14, <2>1, <2>2 DEF Sender!Store, Sender!Quiet, Sender!Buffer
  <2>3. CASE ~(Sender!Larger(s) < Sender!maxSpanBytes)
    <3>1. Sender!Send(Append(spanBuffer, s), spanBytes + SpanSize[s], Sender!Larger(s), outcome)
      BY <1>14, <2>3 DEF Sender!Store
    <3>2. CASE outcome = "taken"
      BY <1>9, <2>1, <3>1, <3>2
      DEF Sender!Send, Sender!Emit, Sender!resetBuffers, Sender!Buffer
    <3>3. CASE outcome # "taken"
      <4>1. /\ Sender!Fail(Append(spanBuffer, s), outcome)
            /\ spanBuffer' = Append(spanBuffer, s)
        BY <3>1, <3>3 DEF Sender!Send, Sender!Buffer
      <4> QED BY <1>7, <1>12, <2>1, <4>1, FailEffect
    <3> QED BY <3>2, <3>3
  <2> QED BY <2>2, <2>3
<1>15. CASE Sender!FlushThenStore(s, outcome)
  <2>1. CASE outcome = "taken" \/ spanBuffer = <<>>
    BY <1>10, <1>11, <1>15, <2>1
    DEF Sender!FlushThenStore, Sender!Emit, Sender!Quiet, Sender!Buffer
  <2>2. CASE ~(outcome = "taken" \/ spanBuffer = <<>>)
    <3>1. /\ Sender!Fail(spanBuffer, outcome) /\ spanBuffer' = spanBuffer
          /\ lost' = lost \cup {s}
      BY <1>15, <2>2 DEF Sender!FlushThenStore, Sender!Buffer
    <3> QED BY <1>8, <2>2, <3>1, FailEffect
  <2> QED BY <2>1, <2>2
<1> QED BY <1>2, <1>13, <1>14, <1>15 DEF Sender!append

\* Every step of the reporter is a step of the channel or leaves it alone.
LEMMA ChannelStep == IInv /\ [Next]_vars => [Channel!Next]_Channel!vars
<1> SUFFICES ASSUME IInv, [Next]_vars PROVE [Channel!Next]_Channel!vars
  OBVIOUS
<1>1. spanBuffer \in Seq(Span) /\ inHand \in Seq(Span) /\ queue \in Seq(Span)
  BY DEF IInv, TypeOK, Sender!TypeOK
<1>2. CASE UNCHANGED <<inHand, queue, senderVars>>
  BY <1>2 DEF senderVars, Channel!vars
<1>3. ASSUME NEW t \in Thread, NEW s \in Span, report(t, s)
      PROVE  [Channel!Next]_Channel!vars
  <2>1. CASE UNCHANGED queue
    BY <1>2, <1>3, <2>1 DEF report
  <2>2. CASE queue' = Append(queue, s)
    <3>1. spanBuffer \o inHand \in Seq(Span) /\ <<s>> \in Seq(Span)
      BY <1>1
    <3>2. Append(queue, s) = queue \o <<s>> /\ Append(Pending, s) = Pending \o <<s>>
      BY <1>1, <3>1, AppendIsConcat, ConcatProperties DEF Pending
    <3>3. (spanBuffer \o inHand) \o (queue \o <<s>>) = Pending \o <<s>>
      BY <1>1, <3>1, ConcatAssociative DEF Pending
    <3>4. Pending' = Append(Pending, s) /\ UNCHANGED <<delivered, lost>>
      BY <1>3, <2>2, <3>2, <3>3 DEF report, Pending, senderVars
    <3>5. s \notin Channel!Members(Pending) \cup Channel!Members(delivered) \cup lost
      <4>1. s \notin reported /\ SenderInv
        BY <1>3 DEF report, IInv
      <4>2. s \notin Members(queue) \cup Members(inHand) \cup appended
        BY <4>1 DEF IInv, EachReportedOnce
      <4>3. Members(Pending) = Members(spanBuffer) \cup Members(inHand) \cup Members(queue)
        <5>1. Members(spanBuffer \o inHand) = Members(spanBuffer) \cup Members(inHand)
          BY <1>1, MembersOfConcat
        <5>2. Members((spanBuffer \o inHand) \o queue)
              = Members(spanBuffer \o inHand) \cup Members(queue)
          BY <1>1, <3>1, MembersOfConcat
        <5> QED BY <5>1, <5>2 DEF Pending
      <4> QED BY <4>1, <4>2, <4>3, GivenBefore DEF Members, Channel!Members
    <3>6. Channel!Accept(s)
      BY <3>4, <3>5 DEF Channel!Accept, Pending
    <3> QED BY <3>6 DEF Channel!Next
  <2> QED BY <1>3, <2>1, <2>2 DEF report
<1>4. CASE sweepTake
  <2>1. inHand = <<>>
    BY <1>1, <1>4 DEF sweepTake, IInv, TypeOK
  <2>2. queue = <<Head(queue)>> \o Tail(queue) /\ Head(queue) \in Span
        /\ <<Head(queue)>> \in Seq(Span) /\ Tail(queue) \in Seq(Span)
    BY <1>1, <1>4 DEF sweepTake
  <2>3. (spanBuffer \o <<Head(queue)>>) \o Tail(queue) = spanBuffer \o queue
    BY <1>1, <2>2, ConcatAssociative
  <2>4. spanBuffer \o inHand = spanBuffer
    BY <1>1, <2>1, ConcatEmptySeq
  <2>5. Pending' = Pending /\ UNCHANGED <<delivered, lost>>
    BY <1>4, <2>3, <2>4 DEF sweepTake, Pending, senderVars
  <2> QED BY <2>5 DEF Channel!vars, Pending
<1>5. ASSUME NEW outcome \in Sender!Outcome, sendSpan(outcome) PROVE [Channel!Next]_Channel!vars
  BY <1>5, AppendOnChannel
<1>6. ASSUME NEW outcome \in Sender!Outcome, sweepTimeout(outcome) PROVE [Channel!Next]_Channel!vars
  BY <1>2, <1>6, FlushOnChannel DEF sweepTimeout
<1>7. ASSUME NEW c \in Closer, NEW outcome \in Sender!Outcome, closeFlush(c, outcome)
      PROVE  [Channel!Next]_Channel!vars
  BY <1>7, FlushOnChannel DEF closeFlush
<1>8. CASE \E t \in Thread : Reporting(t)
  BY <1>2, <1>3, <1>8 DEF Reporting, reportNotify, reportCount
<1>9. CASE Sweeping
  BY <1>2, <1>4, <1>5, <1>6, <1>9 DEF Sweeping, sweepWait, sweepStop
<1>10. CASE \E c \in Closer : Closing(c)
  BY <1>2, <1>7, <1>10 DEF Closing, close, closeNotify, closeJoin
<1>11. CASE Over \/ UNCHANGED vars
  BY <1>2, <1>11 DEF Over, vars
<1> QED BY <1>8, <1>9, <1>10, <1>11 DEF Next

\* Spans go out in the order in which report() took them, or in the open not at all,
\* whatever fails and whichever thread flushes: each once by UDP, and by HTTP again,
\* with all that is still pending before it, only while no answer has come.
THEOREM Implements == Spec => KeepsOrder
<1>1. Init => Channel!Init
  <2> SUFFICES ASSUME Init PROVE Channel!Init
    OBVIOUS
  <2>1. spanBuffer = <<>> /\ inHand = <<>> /\ queue = <<>> /\ delivered = <<>> /\ lost = {}
    BY DEF Init, Sender!Init
  <2> QED BY <2>1 DEF Channel!Init
<1> QED BY <1>1, ChannelStep, Invariance, PTL DEF Spec, KeepsOrder, Channel!Spec
-----------------------------------------------------------------------------
(***************************************************************************)
(* TracerLifetime.                                                         *)
(***************************************************************************)
\* Whatever a program does with its tracer, the reporter does not notice.
LEMMA AliveStep == [NextAlive]_allVars => [Next]_vars
BY LifetimeAssumption
DEF NextAlive, Finish, Close, Sweep, Release, Destroy, Through, allVars, Next

\* So the reporter's properties hold in every program of TracerLifetime.
THEOREM AliveInvariance == SpecAlive => []IInv
<1>1. InitAlive => IInv
  BY InitInv DEF InitAlive
<1>2. IInv /\ [NextAlive]_allVars => IInv'
  BY AliveStep, NextInv
<1> QED BY <1>1, <1>2, PTL DEF SpecAlive

\* When the handle is gone the sweeper has gone before it: a Close() of the
\* program has returned, be it because another one of the program, and not the
\* destructor's, had told the sweeper to stop and has waited for it.
StoppedBefore ==
    /\ held => closer[destructor] = "open"
    /\ ~running => \E c \in Closer : Active(c)
    /\ \A c \in Closer : closer[c] = "returned" => ~running
    /\ ~held => sweeper = "stopped"
    /\ ~selfClosing

\* A call of close() that goes on is Active unless it found another one to be.
LEMMA CloseAdvances ==
    ASSUME TypeOK, StoppedBefore, NEW c \in Closer, Closing(c)
    PROVE  /\ ~running' => \E d \in Closer : Active(d)'
           /\ \A d \in Closer : closer'[d] = "returned" => ~running'
           /\ \A d \in Closer : d # c => closer'[d] = closer[d]
           /\ sweeper = "stopped" => sweeper' = "stopped"
<1>1. closer \in [Closer -> {"open", "notifying", "joining", "flushing", "closed", "returned"}]
  BY DEF TypeOK
<1>2. CASE close(c)
  <2>1. CASE running
    BY <1>1, <1>2, <2>1 DEF close, Active, StoppedBefore
  <2>2. CASE ~running
    BY <1>1, <1>2, <2>2 DEF close, Active, StoppedBefore
  <2> QED BY <2>1, <2>2
<1>3. CASE closeNotify(c)
  BY <1>1, <1>3 DEF closeNotify, Wake, Active, StoppedBefore
<1>4. CASE closeJoin(c)
  BY <1>1, <1>4 DEF closeJoin, Active, StoppedBefore
<1>5. ASSUME NEW outcome \in Sender!Outcome, closeFlush(c, outcome)
      PROVE  /\ ~running' => \E d \in Closer : Active(d)'
             /\ \A d \in Closer : closer'[d] = "returned" => ~running'
             /\ \A d \in Closer : d # c => closer'[d] = closer[d]
             /\ sweeper = "stopped" => sweeper' = "stopped"
  BY <1>1, <1>5 DEF closeFlush, Active, StoppedBefore
<1> QED BY <1>2, <1>3, <1>4, <1>5 DEF Closing

\* A program that closes its tracer keeps to that order.
LEMMA StoppedStep ==
    ASSUME ClosesTracer, Closer # {destructor}, IInv, StoppedBefore, [NextAlive]_allVars
    PROVE  StoppedBefore'
<1>1. TypeOK /\ CloseOrder
  BY DEF IInv
<1>2. CASE UNCHANGED allVars
  BY <1>2 DEF allVars, vars, StoppedBefore, Active
<1>3. ASSUME NEW t \in Thread, Finish(t) PROVE StoppedBefore'
  <2>1. /\ UNCHANGED <<held, selfClosing, running, closer>>
        /\ sweeper = "stopped" => sweeper' = "stopped"
    BY <1>3 DEF Finish, Reporting, report, reportNotify, reportCount, Wake
  <2> QED BY <2>1 DEF StoppedBefore, Active
<1>4. ASSUME NEW c \in Closer, Close(c) PROVE StoppedBefore'
  <2>1. held /\ held' /\ c # destructor /\ ~selfClosing' /\ Closing(c)
    BY <1>4 DEF Close, StoppedBefore
  <2>2. closer'[destructor] = closer[destructor]
    BY <1>1, <2>1, CloseAdvances, LifetimeAssumption
  <2> QED BY <1>1, <2>1, <2>2, CloseAdvances DEF StoppedBefore
<1>5. CASE Sweep
  <2>1. UNCHANGED <<held, running, closer>> /\ sweeper # "stopped"
    BY <1>5 DEF Sweep, Sweeping, sweepWait, sweepStop, sweepTake, sendSpan, sweepTimeout
  <2>2. held'
    BY <2>1 DEF StoppedBefore
  <2>3. ~selfClosing'
    BY <1>5, <2>2 DEF Sweep, Referenced
  <2> QED BY <2>1, <2>2, <2>3 DEF StoppedBefore, Active
<1>6. CASE Release
  <2>1. UNCHANGED <<running, closer, sweeper, selfClosing>> /\ ~held' /\ held
    BY <1>6 DEF Release, vars
  <2>2. PICK c \in Closer : c # destructor
    BY LifetimeAssumption
  <2>3. \A d \in Closer : d # destructor => closer[d] \in {"closed", "returned"}
    BY <1>6 DEF Release
  <2>4. PICK d \in Closer : closer[d] = "closed"
    <3>1. CASE closer[c] = "closed"
      BY <3>1
    <3>2. CASE closer[c] = "returned"
      <4>1. PICK d \in Closer : Active(d)
        BY <3>2 DEF StoppedBefore
      <4>2. d # destructor
        BY <2>1, <4>1 DEF StoppedBefore, Active
      <4> QED BY <2>3, <4>1, <4>2 DEF Active
    <3> QED BY <2>2, <2>3, <3>1, <3>2
  <2>5. sweeper = "stopped"
    BY <1>1, <2>4 DEF CloseOrder
  <2> QED BY <2>1, <2>5 DEF StoppedBefore, Active
<1>7. CASE Destroy
  <2>1. ~held /\ ~held' /\ ~selfClosing' /\ Closing(destructor)
    BY <1>7 DEF Destroy, Referenced
  <2> QED BY <1>1, <2>1, CloseAdvances, LifetimeAssumption DEF StoppedBefore
<1>8. CASE Through
  BY <1>2, <1>8 DEF Through
<1> QED BY <1>2, <1>3, <1>4, <1>5, <1>6, <1>7, <1>8 DEF NextAlive

\* A program that closes its tracer before it lets go of it never leaves the
\* last reference to the sweeper, whatever its threads are still finishing and
\* however many of them close.
THEOREM ClosingIsSafe ==
    ASSUME ClosesTracer, Closer # {destructor}
    PROVE  SpecAlive => []NeverSelfClosing
<1>1. InitAlive => StoppedBefore
  BY LifetimeAssumption DEF InitAlive, Init, StoppedBefore
<1>2. StoppedBefore => NeverSelfClosing
  BY DEF StoppedBefore, NeverSelfClosing
<1>3. IInv /\ StoppedBefore /\ [NextAlive]_allVars => StoppedBefore'
  BY StoppedStep
<1> QED BY <1>1, <1>2, <1>3, AliveInvariance, PTL DEF SpecAlive
===============================================================================
