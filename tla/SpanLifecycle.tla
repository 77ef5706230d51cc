---------------------------- MODULE SpanLifecycle ----------------------------
(***************************************************************************)
(* jaeger-client-cpp, Span: several threads set the name, tags, logs,      *)
(* baggage and sampling priority of one span, and finish it.  _mutex is    *)
(* held within each call, but FinishWithOptions() releases it before the   *)
(* span is looked at again, copied and reported.                           *)
(*                                                                         *)
(* What a call puts into the span is the number of the call.               *)
(***************************************************************************)
EXTENDS Integers, Sequences

CONSTANTS
    Caller,    \* the threads that may finish the span
    MaxUses    \* bound: calls of the span's member functions

VARIABLES
    span,           \* the fields of the span
    finishing,      \* where each thread is in FinishWithOptions()
    spansFinished,  \* metric
    reports,        \* the copies that were reported
    uses,           \* history: calls so far
    atFinish,       \* history: the span as it was finished
    resampled       \* history: whether it is sampled has changed since

spanVars == <<span, finishing, spansFinished, reports, uses, atFinish, resampled>>

SpanInit ==
    /\ span \in [name : {0}, tags : {<<>>}, logs : {<<>>}, baggage : {0},
                 sampled : BOOLEAN, finished : {FALSE}]
    /\ finishing = [c \in Caller |-> "idle"]
    /\ spansFinished = 0 /\ reports = <<>> /\ uses = 0
    /\ atFinish = span /\ resampled = FALSE

-----------------------------------------------------------------------------
Use == uses < MaxUses /\ uses' = uses + 1

\* The call has changed the span, or left it alone.
Changed(fields) ==
    /\ span' = fields
    /\ UNCHANGED <<finishing, spansFinished, reports, atFinish, resampled>>

\* logFieldsNoLocking(), for a sampled span.
Logged(fields) == IF span.sampled THEN [fields EXCEPT !.logs = Append(@, uses')] ELSE fields

SetOperationName ==
    /\ Use
    /\ Changed(IF span.finished THEN span ELSE [span EXCEPT !.name = uses'])

\* Mutant of SetTag: the span may be finished.
SetTag_Late ==
    /\ Use
    /\ Changed(IF span.sampled THEN [span EXCEPT !.tags = Append(@, uses')] ELSE span)

SetTag ==
    /\ Use
    /\ Changed(IF span.finished \/ ~span.sampled THEN span
               ELSE [span EXCEPT !.tags = Append(@, uses')])

\* SetTag() with the key sampling.priority.
setSamplingPriority(priority) ==
    /\ Use
    /\ span' = [span EXCEPT !.sampled = priority]
    /\ resampled' = (resampled \/ (span.finished /\ span.sampled # priority))
    /\ UNCHANGED <<finishing, spansFinished, reports, atFinish>>

Log == Use /\ Changed(Logged(span))

SetBaggageItem == Use /\ Changed(Logged([span EXCEPT !.baggage = uses']))

-----------------------------------------------------------------------------
\* Mutant of FinishWithOptions: it is not looked at whether the span is finished.
FinishWithOptions_Again(c, records) ==
    /\ finishing[c] = "idle" /\ Use
    /\ span' = [span EXCEPT !.finished = TRUE, !.logs = @ \o records]
    /\ atFinish' = span' /\ resampled' = FALSE
    /\ finishing' = [finishing EXCEPT ![c] = "finished"]
    /\ UNCHANGED <<spansFinished, reports>>

\* records are the log records that come with the call.
FinishWithOptions(c, records) ==
    /\ finishing[c] = "idle" /\ Use
    /\ \/ /\ span.finished
          /\ UNCHANGED <<span, finishing, atFinish>>
       \/ /\ ~span.finished
          /\ span' = [span EXCEPT !.finished = TRUE, !.logs = @ \o records]
          /\ atFinish' = span'
          /\ finishing' = [finishing EXCEPT ![c] = "finished"]
    /\ UNCHANGED <<spansFinished, reports, resampled>>

\* Mutant of reportSpan: the span is reported if it was sampled and is no more.
reportSpan_Inverted(c) ==
    /\ finishing[c] = "finished"
    /\ spansFinished' = spansFinished + 1
    /\ finishing' = [finishing EXCEPT ![c] = IF ~span.sampled THEN "reporting" ELSE "idle"]
    /\ UNCHANGED <<span, reports, uses, atFinish, resampled>>

\* Tracer::reportSpan()
reportSpan(c) ==
    /\ finishing[c] = "finished"
    /\ spansFinished' = spansFinished + 1
    /\ finishing' = [finishing EXCEPT ![c] = IF span.sampled THEN "reporting" ELSE "idle"]
    /\ UNCHANGED <<span, reports, uses, atFinish, resampled>>

\* The reporter takes a copy (Span(const Span&)).
report(c) ==
    /\ finishing[c] = "reporting"
    /\ reports' = Append(reports, span)
    /\ finishing' = [finishing EXCEPT ![c] = "idle"]
    /\ UNCHANGED <<span, spansFinished, uses, atFinish, resampled>>

Finishing(c) == reportSpan(c) \/ report(c)

Setting ==
    \/ SetOperationName \/ SetTag \/ Log \/ SetBaggageItem
    \/ \E priority \in BOOLEAN : setSamplingPriority(priority)

SpanNext ==
    \/ Setting
    \/ \E c \in Caller : Finishing(c)
    \/ \E c \in Caller, records \in {<<>>, <<uses + 1>>} : FinishWithOptions(c, records)

SpanSpec == SpanInit /\ [][SpanNext]_spanVars
FairSpan == SpanSpec /\ \A c \in Caller : WF_spanVars(Finishing(c))

-----------------------------------------------------------------------------
\* However many threads finish the span, and however their calls overlap, it is
\* counted and reported at most once; and if it was not sampled when it was finished,
\* or is not when it is reported, its sampling priority has been set too late.
ReportedOnce ==
    /\ spansFinished <= 1 /\ Len(reports) <= 1
    /\ resampled \/ \A i \in DOMAIN reports : atFinish.sampled /\ reports[i].sampled

\* The same name and tags as when the span was finished, and every log of then.
AsFinished(s) ==
    /\ s.finished /\ s.name = atFinish.name /\ s.tags = atFinish.tags
    /\ Len(atFinish.logs) <= Len(s.logs)
    /\ \A i \in DOMAIN atFinish.logs : s.logs[i] = atFinish.logs[i]

\* Once it is finished a span keeps its name and tags and loses no log, and so does
\* the copy that is reported, although it is taken when the mutex has been released:
\* only logs, baggage and sampling priority may still come in between.
FinishedIsFrozen ==
    /\ span.finished => AsFinished(span)
    /\ \A i \in DOMAIN reports : AsFinished(reports[i])

\* A sampled span that is finished is reported, by whichever thread.
SampledIsReported ==
    span.finished /\ span.sampled ~> reports # <<>> \/ resampled
=============================================================================
