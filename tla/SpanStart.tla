------------------------------ MODULE SpanStart ------------------------------
(***************************************************************************)
(* jaeger-client-cpp, Tracer::StartSpanWithOptions: which trace and which  *)
(* parent a new span gets from the references it is started with, whether  *)
(* it is sampled, and what it inherits.                                    *)
(*                                                                         *)
(* Random ids are fresh: they are numbers counted up.  The 64 upper bits   *)
(* of a trace id are left out.                                             *)
(***************************************************************************)
EXTENDS Propagation

CONSTANTS
    Headers,        \* requests from elsewhere
    Foreign,        \* a reference to something that is no jaegertracing::SpanContext
    MaxReceived,    \* bound: contexts received from elsewhere
    MaxSpans,       \* bound: spans
    MaxReferences   \* bound: references of the first span; later ones have at most one

\* A header that names a context has ids and flags in it, or something else; baggage
\* is items.
ASSUME HeadersAssumption ==
    /\ corrupted \notin ContextIds
    /\ \A headers \in Headers : \A name \in {"uber-trace-id", "traceparent"} \cap DOMAIN headers :
        headers[name] \in ContextIds \cup {corrupted}
    /\ \A headers \in Headers : \A name \in {"uberctx-", "jaeger-baggage"} \cap DOMAIN headers :
        headers[name] \subseteq Item
    /\ MaxReferences \in Nat

VARIABLES
    contexts,   \* of the spans that have been started, in this order
    received,   \* contexts extracted from requests from elsewhere
    hops,       \* which span's context was handed on between tracers of ours, in which
                \* format, and what came out
    request,    \* the last list of references and the parent chosen from it
    ids         \* the random ids drawn so far

startVars == <<contexts, received, hops, request, ids>>

StartInit ==
    /\ contexts = <<>> /\ ids = 0
    /\ received = {} /\ hops = {}
    /\ request = [references |-> <<>>, parent |-> NoContext]

-----------------------------------------------------------------------------
(* Inject() and Extract()                                                  *)

\* Extract() returns no context for SpanContext().
Receive(headers, format) ==
    /\ contexts = <<>> /\ Cardinality(received) < MaxReceived
    /\ \E ctx \in extract(headers, format) : received' = received \cup ({ctx} \ {NoContext})
    /\ UNCHANGED <<contexts, hops, request, ids>>

\* What one tracer injects another extracts.
Hop(i, format) ==
    /\ hops = {}
    /\ \E ctx \in extract(doInject(contexts[i], format), format) :
        hops' = {[from |-> i, format |-> format, context |-> ctx]}
    /\ UNCHANGED <<contexts, received, request, ids>>

Hopped == {h.context : h \in hops}

-----------------------------------------------------------------------------
(* analyzeReferences()                                                     *)

IsDebugIDContainerOnly(ctx) == ctx.trace = 0 /\ ctx.debugID

Usable(ref) ==
    /\ ref.context # Foreign
    /\ IsValid(ref.context) \/ IsDebugIDContainerOnly(ref.context) \/ ref.context.baggage # {}

Selves(refs) == {i \in DOMAIN refs : Usable(refs[i]) /\ refs[i].type = "Self"}
References(refs) == {i \in DOMAIN refs : Usable(refs[i]) /\ refs[i].type # "Self"}

\* The one the loop comes to last; NoContext stands for a null pointer.
SelfContext(refs) == IF Selves(refs) = {} THEN NoContext ELSE refs[Max(Selves(refs))].context

NoCandidate == [context |-> NoContext, hasParent |-> FALSE]

\* One turn of the loop.
Consider(found, ref) ==
    IF found.hasParent \/ ~Usable(ref) \/ ref.type = "Self" THEN found
    ELSE [context |-> ref.context, hasParent |-> ref.type = "ChildOf"]

\* Mutant of Candidate: a later reference takes the place of the parent.
Candidate_Last(refs) ==
    FoldLeft(LAMBDA found, ref :
                IF ~Usable(ref) \/ ref.type = "Self" THEN found
                ELSE [context |-> ref.context, hasParent |-> ref.type = "ChildOf"],
             NoCandidate, refs)

\* The parent as the loop leaves it.
Candidate(refs) == FoldLeft(Consider, NoCandidate, refs)

\* No usable reference is equal to NoContext.
Parent(refs) ==
    LET found == Candidate(refs)
    IN  IF found.hasParent \/ IsValid(found.context) THEN found.context ELSE NoContext

-----------------------------------------------------------------------------
(* StartSpanWithOptions() and startSpanInternal()                          *)

\* Mutant of Child: only what is sampled goes by the parent.
Child_LosesDebug(parent) ==
    [NoContext EXCEPT !.trace = parent.trace, !.span = ids + 1, !.parent = parent.span,
                      !.sampled = parent.sampled, !.baggage = parent.baggage]

Child(parent) ==
    [NoContext EXCEPT !.trace = parent.trace, !.span = ids + 1, !.parent = parent.span,
                      !.sampled = parent.sampled, !.debug = parent.debug,
                      !.baggage = parent.baggage]

Root(trace, id, parent, drawn) ==
    [NoContext EXCEPT !.trace = trace, !.span = id, !.sampled = drawn,
                      !.debug = IsDebugIDContainerOnly(parent), !.baggage = parent.baggage]

\* A null pointer is returned: nothing has been started.
NotStarted(refs) ==
    /\ Selves(refs) # {} /\ References(refs) # {}
    /\ request' = [references |-> refs, parent |-> NoContext]
    /\ UNCHANGED <<contexts, received, hops, ids>>

Started(refs, parent, context) ==
    /\ contexts' = Append(contexts, context)
    /\ request' = [references |-> refs, parent |-> parent]
    /\ UNCHANGED <<received, hops>>

StartChild(refs) ==
    LET parent == Parent(refs)
    IN  /\ IsValid(parent)
        /\ ids' = ids + 1
        /\ Started(refs, parent, Child(parent))

StartRoot(refs) ==
    LET parent == Parent(refs)
        self == SelfContext(refs)
        trace == IF self = NoContext THEN ids + 1 ELSE self.trace
        id == IF self = NoContext THEN ids + 1 ELSE self.span
    IN  /\ ~IsValid(parent)
        /\ ids' = IF self = NoContext THEN ids + 1 ELSE ids
        /\ \/ /\ IsDebugIDContainerOnly(parent)
              /\ Started(refs, parent, Root(trace, id, parent, TRUE))
           \/ /\ ~IsDebugIDContainerOnly(parent)
              /\ \E drawn \in BOOLEAN :
                   Started(refs, parent, Root(trace, id, parent, drawn))

StartSpanWithOptions(refs) ==
    \/ NotStarted(refs)
    \/ /\ Selves(refs) = {} \/ References(refs) = {}
       /\ StartChild(refs) \/ StartRoot(refs)

Reference ==
    [type : {"ChildOf", "FollowsFrom", "Self"}, context : received \cup Hopped \cup Range(contexts)]
        \cup {[type |-> "ChildOf", context |-> Foreign]}

StartNext ==
    \/ \E headers \in Headers, format \in Format \ {"binary"} : Receive(headers, format)
    \/ \E i \in DOMAIN contexts, format \in Format : Hop(i, format)
    \/ /\ Len(contexts) < MaxSpans
       /\ \E n \in 0..(IF contexts = <<>> THEN MaxReferences ELSE 1) :
            \E refs \in [1..n -> Reference] : StartSpanWithOptions(refs)

StartSpec == StartInit /\ [][StartNext]_startVars

-----------------------------------------------------------------------------
Positions(type) ==
    {i \in DOMAIN request.references :
        Usable(request.references[i]) /\ request.references[i].type = type}

\* The parent is the first span the new one is a child of, or else the last it
\* follows from, whatever other references stand around them.
ParentChosen ==
    \/ Selves(request.references) # {}
    \/ Positions("ChildOf") # {}
       /\ request.parent = request.references[Min(Positions("ChildOf"))].context
    \/ Positions("ChildOf") = {} /\ Positions("FollowsFrom") # {}
       /\ LET last == request.references[Max(Positions("FollowsFrom"))].context
          IN  request.parent = IF IsValid(last) THEN last ELSE NoContext
    \/ Positions("ChildOf") \cup Positions("FollowsFrom") = {} /\ request.parent = NoContext

\* Items that lower case and escaping leave alone: visible ASCII, and the space, below
\* a key in lower case that no other key becomes.
Plain(baggage) == {item \in baggage :
    /\ normalizeKey(item.key, "jaeger") = item.key
    /\ \A other \in baggage : normalizeKey(other.key, "jaeger") = item.key => other = item
    /\ item.value \in Seq(16..127)}

Keys(baggage) == {item.key : item \in baggage}

\* What a hop leaves of baggage.
Kept(after, before, format) ==
    CASE format = "w3c" -> after = {}
      [] format = "jaeger" ->
            /\ Plain(before) \subseteq after
            /\ Keys(after) = {normalizeKey(key, "jaeger") : key \in Keys(before)}
      [] format \in {"text", "binary"} -> after = before

\* A span's parent, whether in this process or on the other side of a request, is in
\* the same trace and has the same fate: both are sampled or neither, for debugging
\* or not.  The baggage is the same if the parent is in this process; through a map of
\* text or in binary all of it comes, through headers of Jaeger every key in lower
\* case and the plain items as they are, through headers of W3C nothing.
TraceShared == \A i \in DOMAIN contexts : contexts[i].parent # 0 =>
    \E p \in received \cup {contexts[j] : j \in 1..i - 1} :
        /\ p.span = contexts[i].parent /\ p.trace = contexts[i].trace
        /\ p.sampled = contexts[i].sampled /\ p.debug = contexts[i].debug
        /\ \/ contexts[i].baggage = p.baggage
           \/ \E h \in hops :
                contexts[h.from] = p /\ Kept(contexts[i].baggage, p.baggage, h.format)

\* CHANGELOG.md:13: "Add support for W3C traceparent/tracestate propagation (#255)".
\* A span that continues a trace hands the trace state on.
TraceStateKept ==
    [][Len(contexts') > Len(contexts) =>
        Last(contexts').traceState = request'.parent.traceState]_startVars
=============================================================================
