---------------------------- MODULE SamplerPolling ----------------------------
(***************************************************************************)
(* jaeger-client-cpp, samplers::RemotelyControlledSampler: a thread asks   *)
(* the agent for a sampling strategy every refresh interval, while other   *)
(* threads sample and, at the end, close.  With it AdaptiveSampler and     *)
(* GuaranteedThroughputProbabilisticSampler, which an answer updates in    *)
(* place.                                                                  *)
(*                                                                         *)
(* _mutex protects the sampler, so what is done with it held is one step.  *)
(* Time stands still: a limiter has its credit or has spent it.            *)
(***************************************************************************)
EXTENDS Integers, FiniteSets

CONSTANTS
    Closer,          \* the threads that call close()
    Operation,
    MaxOperations,   \* _maxOperations
    Answer,          \* strategies the agent may answer with
    MaxRate,         \* the sampling rate 1.0
    MaxPolls         \* bound: polls

\* A strategy names its kind, and the rates of finitely many operations if any.
ASSUME AnswerAssumption ==
    /\ MaxOperations \in Nat /\ MaxRate \in Nat /\ MaxPolls \in Nat
    /\ \A a \in Answer :
        /\ a.kind \in {"probabilistic", "rateLimiting", "operations"} /\ a.rate \in Nat
        /\ a.kind = "operations" =>
            /\ a.lowerBound \in Nat
            /\ IsFiniteSet(DOMAIN a.rates) /\ DOMAIN a.rates \subseteq Operation
            /\ \A o \in DOMAIN a.rates : a.rates[o] \in Nat

VARIABLES
    running, sampler,
    poller, answer,     \* the polling thread and the response it holds
    closer,             \* where each caller of close() is
    retrieved, updated, updateFailure, queryFailure,   \* metrics
    lastAnswer, named   \* history: the last answer applied, operations answers named

metrics == <<retrieved, updated, updateFailure, queryFailure>>
history == <<lastAnswer, named>>
samplingVars == <<running, sampler, poller, answer, closer, metrics, history>>

SamplingInit ==
    /\ running = TRUE /\ sampler = [kind |-> "initial"]
    /\ poller = "head" /\ answer = [kind |-> "none"]
    /\ closer = [c \in Closer |-> "idle"]
    /\ retrieved = 0 /\ updated = 0 /\ updateFailure = 0 /\ queryFailure = 0
    /\ lastAnswer = [kind |-> "none"] /\ named = {}

-----------------------------------------------------------------------------
(* The samplers                                                            *)

Clamped(rate) == IF rate < MaxRate THEN rate ELSE MaxRate

GuaranteedThroughput(lowerBound, rate) ==
    [rate |-> Clamped(rate), lowerBound |-> lowerBound, spent |-> FALSE]

\* Mutant of GuaranteedThroughputUpdate: every update makes a new limiter.
GuaranteedThroughputUpdate_Resets(s, lowerBound, rate) ==
    GuaranteedThroughput(lowerBound, rate)

GuaranteedThroughputUpdate(s, lowerBound, rate) ==
    [rate |-> IF s.rate = rate THEN s.rate ELSE Clamped(rate),
     lowerBound |-> lowerBound,
     spent |-> s.lowerBound = lowerBound /\ s.spent]

Adaptive(strategies) ==
    [kind |-> "adaptive", rate |-> Clamped(strategies.rate), lowerBound |-> strategies.lowerBound,
     samplers |-> [o \in DOMAIN strategies.rates |->
        GuaranteedThroughput(strategies.lowerBound, strategies.rates[o])]]

\* The default sampler and the lower bound of operations to come stay as they are.
AdaptiveUpdate(strategies) ==
    [sampler EXCEPT !.samplers = [o \in DOMAIN @ \cup DOMAIN strategies.rates |->
        IF o \notin DOMAIN strategies.rates THEN @[o]
        ELSE IF o \in DOMAIN @
          THEN GuaranteedThroughputUpdate(@[o], strategies.lowerBound, strategies.rates[o])
          ELSE GuaranteedThroughput(strategies.lowerBound, strategies.rates[o])]]

Extended(samplers, o, s) == [p \in DOMAIN samplers \cup {o} |-> IF p = o THEN s ELSE samplers[p]]

\* Mutant of AtLimit: one operation too many.
AtLimit_OffByOne == Cardinality(DOMAIN sampler.samplers) > MaxOperations

AtLimit == Cardinality(DOMAIN sampler.samplers) >= MaxOperations

\* Sampling spends the credit of the limiter that is asked, whoever decides.
isSampled(o) ==
    /\ \/ /\ sampler.kind = "rateLimiting"
          /\ sampler' = [sampler EXCEPT !.spent = TRUE]
       \/ /\ sampler.kind = "adaptive" /\ o \in DOMAIN sampler.samplers
          /\ sampler' = [sampler EXCEPT !.samplers[o].spent = TRUE]
       \/ /\ sampler.kind = "adaptive" /\ o \notin DOMAIN sampler.samplers /\ ~AtLimit
          /\ sampler' = [sampler EXCEPT !.samplers = Extended(@, o,
                [GuaranteedThroughput(sampler.lowerBound, sampler.rate) EXCEPT !.spent = TRUE])]
       \/ /\ sampler.kind \in {"initial", "probabilistic"} \/
                (sampler.kind = "adaptive" /\ o \notin DOMAIN sampler.samplers /\ AtLimit)
          /\ UNCHANGED sampler
    /\ UNCHANGED <<running, poller, answer, closer, metrics, history>>

-----------------------------------------------------------------------------
(* The polling thread                                                      *)

Polls == retrieved + queryFailure

pollHead ==
    /\ poller = "head"
    /\ poller' = IF running THEN "query" ELSE "stopped"
    /\ UNCHANGED <<running, sampler, answer, closer, metrics, history>>

\* An answer, none that can be used (no connection, or a status other than 200), or
\* an exception.
getSamplingStrategy ==
    /\ poller = "query"
    /\ Polls < MaxPolls \/ ~running
    /\ \/ /\ answer' \in Answer \cup {[kind |-> "empty"]}
          /\ poller' = "update" /\ UNCHANGED queryFailure
       \/ /\ queryFailure' = queryFailure + 1
          /\ poller' = "wait" /\ UNCHANGED answer
    /\ UNCHANGED <<running, sampler, closer, retrieved, updated, updateFailure, history>>

Sampling(a) ==
    IF a.kind = "probabilistic" THEN [kind |-> "probabilistic", rate |-> Clamped(a.rate)]
    ELSE [kind |-> "rateLimiting", rate |-> a.rate, spent |-> FALSE]

\* Mutant of updateSampler: the sampler is let go of before the answer is looked at.
updateSampler_Early ==
    /\ poller = "update" /\ poller' = "wait"
    /\ retrieved' = retrieved + 1
    /\ sampler' = IF answer.kind = "empty" THEN [kind |-> "initial"] ELSE Sampling(answer)
    /\ updateFailure' = updateFailure + 1
    /\ UNCHANGED <<running, answer, closer, updated, queryFailure, history>>

updateSampler ==
    /\ poller = "update" /\ poller' = "wait"
    /\ retrieved' = retrieved + 1
    /\ IF answer.kind = "empty"
         THEN updateFailure' = updateFailure + 1 /\ UNCHANGED <<sampler, updated, history>>
         ELSE /\ sampler' = IF answer.kind # "operations" THEN Sampling(answer)
                            ELSE IF sampler.kind = "adaptive" THEN AdaptiveUpdate(answer)
                            ELSE Adaptive(answer)
              /\ updated' = updated + 1 /\ UNCHANGED updateFailure
              /\ lastAnswer' = answer
              /\ named' = IF answer.kind = "operations" THEN named \cup DOMAIN answer.rates
                                                        ELSE named
    /\ UNCHANGED <<running, answer, closer, queryFailure>>

\* _shutdownCV.wait_for looks at _running before it waits.
pollWait ==
    /\ poller = "wait"
    /\ poller' = IF running THEN "waiting" ELSE "head"
    /\ UNCHANGED <<running, sampler, answer, closer, metrics, history>>

pollTimeout ==
    /\ poller = "waiting"
    /\ poller' = "head"
    /\ UNCHANGED <<running, sampler, answer, closer, metrics, history>>

-----------------------------------------------------------------------------
(* close()                                                                 *)

At(c, label) == closer' = [closer EXCEPT ![c] = label]

close(c) ==
    /\ closer[c] = "idle"
    /\ running' = FALSE
    /\ At(c, IF running THEN "notify" ELSE "returned")
    /\ UNCHANGED <<sampler, poller, answer, metrics, history>>

closeNotify(c) ==
    /\ closer[c] = "notify" /\ At(c, "join")
    /\ poller' = IF poller = "waiting" THEN "head" ELSE poller
    /\ UNCHANGED <<running, sampler, answer, metrics, history>>

\* Mutant of closeJoin: the thread is not waited for.
closeJoin_Detach(c) ==
    /\ closer[c] = "join" /\ At(c, "closed")
    /\ UNCHANGED <<running, sampler, poller, answer, metrics, history>>

closeJoin(c) ==
    /\ closer[c] = "join" /\ poller = "stopped" /\ At(c, "closed")
    /\ UNCHANGED <<running, sampler, poller, answer, metrics, history>>

-----------------------------------------------------------------------------
Polling == pollHead \/ getSamplingStrategy \/ updateSampler \/ pollWait
Closing(c) == closeNotify(c) \/ closeJoin(c)

SamplingNext ==
    \/ Polling \/ pollTimeout
    \/ \E o \in Operation : isSampled(o)
    \/ \E c \in Closer : close(c) \/ Closing(c)

SamplingSpec == SamplingInit /\ [][SamplingNext]_samplingVars

\* The agent answers or the request fails; nothing is asked of the refresh interval.
FairSampling ==
    /\ SamplingSpec
    /\ WF_samplingVars(Polling) /\ \A c \in Closer : WF_samplingVars(Closing(c))

-----------------------------------------------------------------------------
Limited == [rate : 0..MaxRate, lowerBound : Nat, spent : BOOLEAN]

\* Whatever the answers, a rate in force is one a sampler may have.
SamplerOK ==
    /\ running \in BOOLEAN
    /\ poller \in {"head", "query", "update", "wait", "waiting", "stopped"}
    /\ closer \in [Closer -> {"idle", "notify", "join", "closed", "returned"}]
    /\ retrieved \in 0..MaxPolls + 1 /\ updateFailure \in 0..retrieved /\ updated \in 0..retrieved
    /\ queryFailure \in 0..MaxPolls + 1
    /\ sampler.kind = "probabilistic" => sampler.rate \in 0..MaxRate
    /\ sampler.kind = "adaptive" =>
        /\ DOMAIN sampler.samplers \subseteq Operation
        /\ \A o \in DOMAIN sampler.samplers : sampler.samplers[o] \in Limited

\* Operations nobody has configured are tracked up to the limit only, however often
\* the agent has added others by its updates.
OperationsBounded == sampler.kind = "adaptive" =>
    Cardinality(DOMAIN sampler.samplers \ named) <= MaxOperations

\* A poll that fails, at whichever point, leaves the sampler as it was.
FailureKeepsSampler ==
    [][queryFailure' # queryFailure \/ updateFailure' # updateFailure => sampler' = sampler]_samplingVars

\* An answer that says what the last one said changes nothing: the limiters that
\* guarantee each operation its throughput do not get their credit anew.
SameAnswerSameSampler ==
    [][updateSampler /\ answer = lastAnswer /\ answer.kind = "operations" => sampler' = sampler]_samplingVars

\* Only an answer that says something new changes the sampler in force.
SamplerKept == FailureKeepsSampler /\ SameAnswerSameSampler

\* The first call of close() returns, and from then on no poll takes effect.
SamplingPromise == INSTANCE PollUntilClosed WITH
    polls <- Polls, called <- ~running, closed <- \E c \in Closer : closer[c] = "closed"
PollsUntilClosed == SamplingPromise!Spec
=============================================================================
