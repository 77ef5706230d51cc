----------------------------- MODULE TracerParts -----------------------------
(***************************************************************************)
(* The parts of a tracer that keep their state to themselves, side by      *)
(* side: each behaviour is one of the part that part names, and the others *)
(* stand still.                                                            *)
(***************************************************************************)
EXTENDS ThriftSender, RateLimiter, SpanLifecycle, SamplerPolling, BaggageRestrictions,
        SpanStart

VARIABLE part

partsVars == <<vars, limiterVars, spanVars, samplingVars, startVars, restrictionVars, part>>

PartsInit ==
    /\ part \in {"sender", "limiter", "span", "sampling", "starting", "restrictions"}
    /\ Init /\ LimiterInit /\ SpanInit /\ SamplingInit /\ StartInit
    /\ RestrictionInit
    /\ part # "span" => span.sampled
    /\ part # "restrictions" => denyBaggage

Sender == part = "sender" /\ Next /\ UNCHANGED <<limiterVars, spanVars>>
Limiter == part = "limiter" /\ LimiterNext /\ UNCHANGED <<vars, spanVars>>
Lifecycle == part = "span" /\ SpanNext /\ UNCHANGED <<vars, limiterVars>>

Sampler == part = "sampling" /\ SamplingNext /\ UNCHANGED <<startVars, restrictionVars>>
Start == part = "starting" /\ StartNext /\ UNCHANGED <<samplingVars, restrictionVars>>
Restriction ==
    /\ part = "restrictions" /\ RestrictionNext
    /\ UNCHANGED <<samplingVars, startVars>>

PartsNext ==
    /\ UNCHANGED part
    /\ \/ /\ Sender \/ Limiter \/ Lifecycle
          /\ UNCHANGED <<samplingVars, startVars, restrictionVars>>
       \/ /\ Sampler \/ Start \/ Restriction
          /\ UNCHANGED <<vars, limiterVars, spanVars>>

\* Each part with its own fairness.
PartsSpec ==
    /\ PartsInit /\ [][PartsNext]_partsVars
    /\ \A c \in Caller : WF_spanVars(part = "span" /\ Finishing(c))
    /\ WF_samplingVars(part = "sampling" /\ Polling)
    /\ \A c \in Closer : WF_samplingVars(part = "sampling" /\ Closing(c))
    /\ WF_restrictionVars(part = "restrictions" /\ Updating)
    /\ \A c \in Restricter :
        WF_restrictionVars(part = "restrictions" /\ ManagerClosing(c))

-----------------------------------------------------------------------------
\* The sender's buffer, the limiter's balance and the sampler's rates are well formed.
PartsOK == TypeOK /\ BalanceOK /\ SamplerOK

\* A poll that fails leaves the samplers, or the baggage that may be set, as they were;
\* the answer of last time does not give limiters their credit anew.
PollsKeepState == SamplerKept /\ FailureKeepsRestrictions

\* close() returns, and then no poll takes effect, of the sampler and of the manager.
CloseEndsPolling == PollsUntilClosed /\ RestrictionsUntilClosed
=============================================================================
