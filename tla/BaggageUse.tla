------------------------------ MODULE BaggageUse ------------------------------
(***************************************************************************)
(* A thread walks through the baggage of a span by the reference that      *)
(* context() returns, as Tracer::Inject() does, while the span is used by  *)
(* others.  forEachBaggageItem() holds SpanContext::_mutex; the span's own *)
(* calls hold Span::_mutex, and assign to its context without the other.   *)
(***************************************************************************)
EXTENDS SpanLifecycle

VARIABLES
    walking,    \* a thread is inside forEachBaggageItem()
    assigning   \* a thread is inside SetBaggageItem(), before the assignment

useVars == <<spanVars, walking, assigning>>

UseInit == SpanInit /\ walking = FALSE /\ assigning = FALSE

forEachBaggageItem ==
    /\ walking' = ~walking
    /\ UNCHANGED <<spanVars, assigning>>

\* The one place where the span waits for SpanContext::_mutex.
withBaggage ==
    /\ ~assigning /\ ~walking
    /\ assigning' = TRUE
    /\ UNCHANGED <<spanVars, walking>>

assign ==
    /\ assigning /\ SetBaggageItem
    /\ assigning' = FALSE
    /\ UNCHANGED walking

UseNext ==
    \/ forEachBaggageItem \/ withBaggage \/ assign
    \/ /\ ~assigning
       /\ SetOperationName \/ SetTag \/ Log
       /\ UNCHANGED <<walking, assigning>>

UseSpec == UseInit /\ [][UseNext]_useVars

-----------------------------------------------------------------------------
\* SpanContext.h:218: "mutable std::mutex _mutex;  // Protects _baggage."
\* CHANGELOG.md:77: "Fix potential race condition in concurrent baggage access
\* (#83)".  Nobody replaces the baggage while somebody walks through it.
BaggageProtected == [][span'.baggage # span.baggage => ~walking]_useVars
===============================================================================
