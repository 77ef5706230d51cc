---------------------------- MODULE RemoteReporter ----------------------------
(***************************************************************************)
(* jaegertracing/reporters/RemoteReporter: any thread reports the spans it *)
(* finishes into a bounded queue; one thread of the reporter's own, the    *)
(* sweeper, takes them out and gives them to a ThriftSender; close() stops *)
(* the sweeper, waits for it and flushes what is left.                     *)
(*                                                                         *)
(* What happens under _mutex is one step, except that the sweeper keeps    *)
(* the mutex while it sends: between sweepTake and sendSpan no one else    *)
(* can take it.  What happens outside of it (notify_one, the counting of   *)
(* _queueLength, join, the last flush) is a step each.                     *)
(***************************************************************************)
EXTENDS Integers, Sequences, FiniteSets

CONSTANTS
    Thread,          \* the threads that finish spans
    Closer,          \* calls of close(): Tracer::Close() and the destructors
    fixedQueueSize,
    Span, SpanSize, ProcessSize, maxPacketSize, Transporter, MaxFailed  \* of ThriftSender

ASSUME QueueAssumption == fixedQueueSize \in Nat \ {0} /\ IsFiniteSet(Thread)

VARIABLES
    reported,        \* history: the spans report() was called with
    queue, queueLength, running,
    dropped,         \* the spans reporterDropped() counts
    thread,          \* where in report() each thread is
    sweeper,         \* where sweepQueue() is
    inHand,          \* the span the sweeper has taken, as a sequence
    closer,          \* where each call of close() is
    early,           \* history: the spans queued before close() began
    appended, processByteSize, byteBufferSize, spanBuffer, spanBytes,
    delivered, taken, unanswered, lost, failure, failed

senderVars == <<appended, processByteSize, byteBufferSize, spanBuffer, spanBytes,
                delivered, taken, unanswered, lost, failure, failed>>
vars == <<reported, queue, queueLength, running, dropped, thread, sweeper, inHand,
          closer, early, senderVars>>

Sender == INSTANCE ThriftSender

ASSUME SenderAssumption == Sender!SizeAssumption

Members(spans) == {spans[i] : i \in DOMAIN spans}

\* Threads that have queued a span and not yet counted it.
Busy == {t \in Thread : thread[t] # "idle"}

\* The sweeper holds _mutex.
Locked == sweeper = "sending"

Init ==
    /\ reported = {} /\ queue = <<>> /\ queueLength = 0 /\ running = TRUE
    /\ dropped = {} /\ early = {}
    /\ thread = [t \in Thread |-> "idle"]
    /\ sweeper = "checking" /\ inHand = <<>>
    /\ closer = [c \in Closer |-> "open"]
    /\ Sender!Init

-----------------------------------------------------------------------------
(* report()                                                                *)

HasRoom == Len(queue) < fixedQueueSize

\* Mutant of report: a dropped span is counted and notified like a queued one.
report_CountsDropped(t, s) ==
    /\ thread[t] = "idle" /\ s \notin reported /\ ~Locked
    /\ reported' = reported \cup {s}
    /\ thread' = [thread EXCEPT ![t] = "notifying"]
    /\ queue' = IF HasRoom THEN Append(queue, s) ELSE queue
    /\ dropped' = IF HasRoom THEN dropped ELSE dropped \cup {s}
    /\ UNCHANGED <<queueLength, running, sweeper, inHand, closer, early, senderVars>>

report(t, s) ==
    /\ thread[t] = "idle" /\ s \notin reported /\ ~Locked
    /\ reported' = reported \cup {s}
    /\ IF HasRoom
         THEN /\ queue' = Append(queue, s)
              /\ thread' = [thread EXCEPT ![t] = "notifying"]
              /\ UNCHANGED dropped
         ELSE /\ dropped' = dropped \cup {s}
              /\ UNCHANGED <<queue, thread>>
    /\ UNCHANGED <<queueLength, running, sweeper, inHand, closer, early, senderVars>>

Wake == sweeper' = IF sweeper = "waiting" THEN "checking" ELSE sweeper

reportNotify(t) ==
    /\ thread[t] = "notifying"
    /\ thread' = [thread EXCEPT ![t] = "counting"]
    /\ Wake
    /\ UNCHANGED <<reported, queue, queueLength, running, dropped, inHand, closer, early, senderVars>>

reportCount(t) ==
    /\ thread[t] = "counting"
    /\ thread' = [thread EXCEPT ![t] = "idle"]
    /\ queueLength' = queueLength + 1
    /\ UNCHANGED <<reported, queue, running, dropped, sweeper, inHand, closer, early, senderVars>>

-----------------------------------------------------------------------------
(* sweepQueue()                                                            *)

sweepWait ==
    /\ sweeper = "checking" /\ running /\ queue = <<>>
    /\ sweeper' = "waiting"
    /\ UNCHANGED <<reported, queue, queueLength, running, dropped, thread, inHand, closer, early, senderVars>>

\* Mutant of sweepStop: the loop ends as soon as it sees that it shall.
sweepStop_AtOnce ==
    /\ sweeper = "checking" /\ ~running
    /\ sweeper' = "stopped"
    /\ UNCHANGED <<reported, queue, queueLength, running, dropped, thread, inHand, closer, early, senderVars>>

sweepStop ==
    /\ sweeper = "checking" /\ ~running /\ queue = <<>>
    /\ sweeper' = "stopped"
    /\ UNCHANGED <<reported, queue, queueLength, running, dropped, thread, inHand, closer, early, senderVars>>

\* Mutant of sweepTake: the newest span is taken.
sweepTake_Newest ==
    /\ sweeper = "checking" /\ queue # <<>>
    /\ sweeper' = "sending"
    /\ inHand' = <<queue[Len(queue)]>> /\ queue' = SubSeq(queue, 1, Len(queue) - 1)
    /\ queueLength' = queueLength - 1
    /\ UNCHANGED <<reported, running, dropped, thread, closer, early, senderVars>>

\* Mutant of sweepTake: the queue keeps the span until it is sent.
sweepTake_Keeps ==
    /\ sweeper = "checking" /\ queue # <<>>
    /\ sweeper' = "sending"
    /\ inHand' = <<Head(queue)>> /\ UNCHANGED queue
    /\ queueLength' = queueLength - 1
    /\ UNCHANGED <<reported, running, dropped, thread, closer, early, senderVars>>

sweepTake ==
    /\ sweeper = "checking" /\ queue # <<>>
    /\ sweeper' = "sending"
    /\ inHand' = <<Head(queue)>> /\ queue' = Tail(queue)
    /\ queueLength' = queueLength - 1
    /\ UNCHANGED <<reported, running, dropped, thread, closer, early, senderVars>>

sendSpan(outcome) ==
    /\ sweeper = "sending"
    /\ sweeper' = "checking"
    /\ inHand' = <<>>
    /\ Sender!append(inHand[1], outcome)
    /\ UNCHANGED <<reported, queue, queueLength, running, dropped, thread, closer, early>>

\* Mutant of sweepTimeout: the loop only looks for new spans.
sweepTimeout_NoFlush(outcome) ==
    /\ sweeper = "waiting"
    /\ sweeper' = "checking"
    /\ UNCHANGED <<reported, queue, queueLength, running, dropped, thread, inHand, closer, early, senderVars>>

\* wait_until() gives up: a flush is due unless the loop has other work.
sweepTimeout(outcome) ==
    /\ sweeper = "waiting"
    /\ sweeper' = "checking"
    /\ IF running /\ queue = <<>> THEN Sender!flush(outcome) ELSE UNCHANGED senderVars
    /\ UNCHANGED <<reported, queue, queueLength, running, dropped, thread, inHand, closer, early>>

-----------------------------------------------------------------------------
(* close()                                                                 *)

\* Mutant of close: the sweeper is woken but not told to stop.
close_KeepsRunning(c) ==
    /\ closer[c] = "open" /\ ~Locked
    /\ closer' = [closer EXCEPT ![c] = "notifying"]
    /\ UNCHANGED <<reported, queue, queueLength, running, dropped, thread, sweeper, inHand, early, senderVars>>

close(c) ==
    /\ closer[c] = "open" /\ ~Locked
    /\ running' = FALSE
    /\ IF running
         THEN closer' = [closer EXCEPT ![c] = "notifying"] /\ early' = Members(queue) \cup appended
         ELSE closer' = [closer EXCEPT ![c] = "returned"] /\ UNCHANGED early
    /\ UNCHANGED <<reported, queue, queueLength, dropped, thread, sweeper, inHand, senderVars>>

closeNotify(c) ==
    /\ closer[c] = "notifying"
    /\ closer' = [closer EXCEPT ![c] = "joining"]
    /\ Wake
    /\ UNCHANGED <<reported, queue, queueLength, running, dropped, thread, inHand, early, senderVars>>

\* Mutant of closeJoin: the sweeper is left to finish by itself.
closeJoin_Detach(c) ==
    /\ closer[c] = "joining"
    /\ closer' = [closer EXCEPT ![c] = "flushing"]
    /\ UNCHANGED <<reported, queue, queueLength, running, dropped, thread, sweeper, inHand, early, senderVars>>

closeJoin(c) ==
    /\ closer[c] = "joining" /\ sweeper = "stopped"
    /\ closer' = [closer EXCEPT ![c] = "flushing"]
    /\ UNCHANGED <<reported, queue, queueLength, running, dropped, thread, sweeper, inHand, early, senderVars>>

closeFlush(c, outcome) ==
    /\ closer[c] = "flushing"
    /\ closer' = [closer EXCEPT ![c] = "closed"]
    /\ Sender!flush(outcome)
    /\ UNCHANGED <<reported, queue, queueLength, running, dropped, thread, sweeper, inHand, early>>

-----------------------------------------------------------------------------
\* Nothing more to report, and every close() has returned.
Over ==
    /\ reported = Span /\ \A t \in Thread : thread[t] = "idle"
    /\ \A c \in Closer : closer[c] \in {"closed", "returned"}
    /\ UNCHANGED vars

Reporting(t) == (\E s \in Span : report(t, s)) \/ reportNotify(t) \/ reportCount(t)

Sweeping ==
    \/ sweepWait \/ sweepStop \/ sweepTake
    \/ \E outcome \in Sender!Outcome : sendSpan(outcome) \/ sweepTimeout(outcome)

Closing(c) ==
    \/ close(c) \/ closeNotify(c) \/ closeJoin(c)
    \/ \E outcome \in Sender!Outcome : closeFlush(c, outcome)

Next ==
    \/ \E t \in Thread : Reporting(t)
    \/ Sweeping
    \/ \E c \in Closer : Closing(c)
    \/ Over

Spec == Init /\ [][Next]_vars

\* Threads that are not blocked run on; whether a span is finished or close()
\* is called at all is up to the program.
FairSpec ==
    /\ Spec
    /\ WF_vars(Sweeping)
    /\ \A t \in Thread : WF_vars(reportNotify(t) \/ reportCount(t))
    /\ \A c \in Closer : WF_vars(closer[c] # "open" /\ Closing(c))

-----------------------------------------------------------------------------
TypeOK ==
    /\ reported \subseteq Span /\ dropped \subseteq Span /\ early \subseteq Span
    /\ queue \in Seq(Span) /\ Len(queue) <= fixedQueueSize
    /\ queueLength \in Int /\ running \in BOOLEAN
    /\ thread \in [Thread -> {"idle", "notifying", "counting"}]
    /\ sweeper \in {"checking", "waiting", "sending", "stopped"}
    /\ inHand \in Seq(Span) /\ Len(inHand) = (IF sweeper = "sending" THEN 1 ELSE 0)
    /\ closer \in [Closer -> {"open", "notifying", "joining", "flushing", "closed", "returned"}]
    /\ Sender!TypeOK

\* _queueLength is counted up after the mutex is released and down before the
\* span is sent, so it may run behind the queue and below zero, but never by
\* more than the threads that are inside report().
QueueLengthTracked == queueLength + Cardinality(Busy) = Len(queue)

\* Every span that was reported is in one place and there once: it is queued,
\* in the sweeper's hands, with the sender, or counted as dropped.
EachReportedOnce ==
    LET held == Members(queue) \cup Members(inHand)
    IN  /\ reported = held \cup appended \cup dropped
        /\ held \cap (appended \cup dropped) = {} /\ appended \cap dropped = {}
        /\ Members(queue) \cap Members(inHand) = {}
        /\ \A i, j \in DOMAIN queue : queue[i] = queue[j] => i = j

\* The sender has no lock of its own: close() uses it only when the sweeper has
\* used it for the last time, and only one close() does.
OneSenderUser ==
    \A c \in Closer : closer[c] \in {"flushing", "closed"} =>
        /\ sweeper = "stopped"
        /\ \A d \in Closer : closer[d] \in {"notifying", "joining", "flushing", "closed"} => d = c

\* When close() returns from its flush, every span queued before it began has
\* gone to the sender, and was taken by the transport or given up unless
\* emitBatch threw for the last batch.  (CHANGELOG.md:74, "Flush pending spans in
\* RemoteReporter destructor".)
CloseFlushes ==
    (\E c \in Closer : closer[c] = "closed") =>
        /\ early \subseteq appended
        /\ failed = 0 => early \cap Members(spanBuffer) = {}

\* The sweeper and close() use ThriftSender as a sequential object that is
\* given each span once, which is what its own properties are proved for.
SenderContract == Sender!Spec

\* The reporter with its sender is a queue that loses spans but does not
\* reorder them, and that repeats them over HTTP only: all that waits up to
\* some span, as long as no answer to a batch of them could be read.
Channel == INSTANCE SpanChannel WITH
    pending <- spanBuffer \o inHand \o queue,
    MayRepeat <- Transporter = "HTTPTransporter"
KeepsOrder == Channel!Spec

\* A span that was queued while the reporter runs is sent or given up, or
\* emitBatch threw at close()'s last attempt to send it: no wake-up is lost and
\* the flush interval gets its turn.
EventuallySent == \A s \in Span :
    (running /\ s \in Members(queue)) ~>
        \/ s \in Members(delivered) \cup lost
        \/ s \in Members(spanBuffer) /\ \E c \in Closer : closer[c] = "closed"

\* close() does not wait forever for the sweeper.
CloseReturns == \A c \in Closer :
    (closer[c] # "open") ~> (closer[c] \in {"closed", "returned"})
===============================================================================
