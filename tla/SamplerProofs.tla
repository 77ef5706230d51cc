---------------------------- MODULE SamplerProofs ----------------------------
(***************************************************************************)
(* Proofs about the samplers and what polls beside them: the limiter for   *)
(* every rate, balance and history of costs and times, the adaptive        *)
(* sampler and the restrictions of baggage for every sequence of answers   *)
(* of the agent and of calls of close().                                   *)
(***************************************************************************)
EXTENDS RateLimiter, SamplerPolling, BaggageRestrictions, FiniteSetTheorems, TLAPS

-----------------------------------------------------------------------------
(* The leaky bucket                                                        *)

\* The balance is what no window has used yet, ...
BalanceSafe == \A call \in calls :
    (granted - call.granted) + balance =< Allowance(call, lastTick)

\* ... and no less: one window, the one since the balance was last full, has used
\* everything else.
BalanceTight == \E call \in calls :
    (granted - call.granted) + balance = Allowance(call, lastTick)

LimiterInv == BalanceOK /\ BalanceSafe /\ BalanceTight

\* What flows in between two times adds to the allowance of every window.
LEMMA AllowanceGrows ==
    ASSUME NEW call \in [time : Int, granted : Int], NEW t \in Int, NEW u \in Int
    PROVE  /\ Allowance(call, t) \in Int
           /\ (u - t) * CreditsPerSecond \in Int
           /\ Allowance(call, u) = Allowance(call, t) + (u - t) * CreditsPerSecond
  BY RateAssumption DEF Allowance

LEMMA RefilledTyped ==
    ASSUME BalanceOK
    PROVE  Refilled \in 0..MaxBalance
<1>1. now - lastTick \in Nat  BY DEF BalanceOK
<1>2. (now - lastTick) * CreditsPerSecond \in Nat  BY <1>1, RateAssumption
<1> QED  BY <1>2, RateAssumption DEF Refilled, Lesser, BalanceOK

LEMMA LimiterInitInv == LimiterInit => LimiterInv
<1> SUFFICES ASSUME LimiterInit PROVE LimiterInv  OBVIOUS
<1> USE RateAssumption DEF LimiterInit
<1>1. BalanceOK  BY DEF BalanceOK
<1>2. CreditsPerSecond * (0 - 0) = 0  OBVIOUS
<1>3. BalanceSafe /\ BalanceTight  BY <1>2 DEF BalanceSafe, BalanceTight, Allowance
<1> QED  BY <1>1, <1>3 DEF LimiterInv

\* The invariant over the balance before an item is paid for.
LEMMA RefillKeeps ==
    ASSUME LimiterInv,
           NEW all, all = calls \cup {[time |-> now, granted |-> granted]}
    PROVE  /\ \A call \in all : (granted - call.granted) + Refilled =< Allowance(call, now)
           /\ \E call \in all : (granted - call.granted) + Refilled = Allowance(call, now)
<1> DEFINE fresh == [time |-> now, granted |-> granted]
           inflow == (now - lastTick) * CreditsPerSecond
<1>1. BalanceOK  BY DEF LimiterInv
<1>2. now \in Int /\ lastTick \in Int /\ granted \in Int /\ balance \in Int
    BY <1>1 DEF BalanceOK
<1>3. \A call \in calls : call \in [time : Int, granted : Int]
    BY <1>1 DEF BalanceOK
<1>4. \A call \in calls :
        /\ Allowance(call, lastTick) \in Int /\ inflow \in Int
        /\ Allowance(call, now) = Allowance(call, lastTick) + inflow
    BY <1>2, <1>3, AllowanceGrows
<1>5. Allowance(fresh, now) = MaxBalance
    BY <1>2, RateAssumption DEF Allowance
<1>6. Refilled =< MaxBalance /\ Refilled \in Int
    BY <1>1, RefilledTyped, RateAssumption
<1>7. inflow \in Int /\ Refilled = Lesser(MaxBalance, balance + inflow)
    BY <1>2, RateAssumption DEF Refilled
<1>8. \A call \in calls : (granted - call.granted) + Refilled =< Allowance(call, now)
    <2> SUFFICES ASSUME NEW call \in calls
                 PROVE  (granted - call.granted) + Refilled =< Allowance(call, now)
        OBVIOUS
    <2>1. (granted - call.granted) + balance =< Allowance(call, lastTick)
        BY DEF LimiterInv, BalanceSafe
    <2>2. call.granted \in Int  BY <1>3
    <2>3. Refilled =< balance + inflow  BY <1>2, <1>6, <1>7, RateAssumption DEF Lesser
    <2> QED  BY <1>2, <1>4, <1>6, <1>7, <2>1, <2>2, <2>3
<1>9. granted - fresh.granted + Refilled =< Allowance(fresh, now)
    BY <1>2, <1>5, <1>6, RateAssumption
<1>10. CASE Refilled = MaxBalance
    BY <1>2, <1>5, <1>8, <1>9, <1>10, RateAssumption
<1>11. CASE Refilled = balance + inflow
    <2>1. PICK call \in calls : (granted - call.granted) + balance = Allowance(call, lastTick)
        BY DEF LimiterInv, BalanceTight
    <2>2. call.granted \in Int  BY <1>3
    <2>3. (granted - call.granted) + Refilled = Allowance(call, now)
        BY <1>2, <1>4, <1>7, <1>11, <2>1, <2>2
    <2> QED  BY <1>8, <1>9, <2>3
<1> QED  BY <1>7, <1>10, <1>11 DEF Lesser

LEMMA CheckKeeps ==
    ASSUME LimiterInv, NEW cost \in Cost, checkCredit(cost)
    PROVE  LimiterInv'
<1>1. BalanceOK  BY DEF LimiterInv
<1>2. Refilled \in 0..MaxBalance /\ cost \in Nat /\ MaxBalance \in Nat
    BY <1>1, RefilledTyped, RateAssumption
<1>3. /\ balance' \in 0..MaxBalance /\ granted' \in Nat /\ granted' >= granted
      /\ granted' + balance' = granted + Refilled
    BY <1>1, <1>2 DEF checkCredit, BalanceOK
<1>4. BalanceOK'
    <2>1. now' = now /\ lastTick' = now /\ now \in Nat /\ lastTick \in 0..now
        BY <1>1 DEF checkCredit, BalanceOK
    <2>2. [time |-> now, granted |-> granted] \in [time : 0..lastTick', granted : 0..granted']
        BY <1>1, <1>3, <2>1 DEF BalanceOK
    <2>3. [time : 0..lastTick, granted : 0..granted]
            \subseteq [time : 0..lastTick', granted : 0..granted']
        BY <1>1, <1>3, <2>1 DEF BalanceOK
    <2>4. calls' \subseteq [time : 0..lastTick', granted : 0..granted']
        <3>1. calls \subseteq [time : 0..lastTick, granted : 0..granted]
            BY <1>1 DEF BalanceOK
        <3>2. calls' = calls \cup {[time |-> now, granted |-> granted]}
            BY DEF checkCredit
        <3> QED  BY <2>2, <2>3, <3>1, <3>2, Zenon
    <2> QED  BY <1>3, <2>1, <2>4 DEF BalanceOK
<1>5. \A call \in calls' : call.granted \in Int /\ call.time \in Int
    BY <1>4 DEF BalanceOK
<1>6. \A call \in calls' :
        (granted' - call.granted) + balance' = (granted - call.granted) + Refilled
    <2>1. granted \in Int /\ Refilled \in Int /\ granted' \in Int /\ balance' \in Int
        BY <1>1, <1>2, <1>3 DEF BalanceOK
    <2>2. granted' + balance' = granted + Refilled
        BY <1>3
    <2>3. \A call \in calls' : call.granted \in Int
        BY <1>5
    <2>4. PICK r \in Int : r = Refilled  BY <2>1
    <2>5. PICK g \in Int : g = granted'  BY <2>1
    <2>6. PICK b \in Int : b = balance'  BY <2>1
    <2>7. g + b = granted + r  BY <2>2, <2>4, <2>5, <2>6
    <2>8. \A n \in Int : (g - n) + b = (granted - n) + r  BY <2>1, <2>7
    <2> QED  BY <2>3, <2>4, <2>5, <2>6, <2>8
<1>7. lastTick' = now /\ calls' = calls \cup {[time |-> now, granted |-> granted]}
    BY DEF checkCredit
<1>8. /\ \A call \in calls' : (granted - call.granted) + Refilled =< Allowance(call, now)
      /\ \E call \in calls' : (granted - call.granted) + Refilled = Allowance(call, now)
    BY <1>7, RefillKeeps
<1>9. BalanceSafe' /\ BalanceTight'
    BY <1>6, <1>7, <1>8 DEF BalanceSafe, BalanceTight, Allowance
<1> QED  BY <1>4, <1>9 DEF LimiterInv

LEMMA LimiterNextInv == LimiterInv /\ [LimiterNext]_limiterVars => LimiterInv'
<1> SUFFICES ASSUME LimiterInv, [LimiterNext]_limiterVars PROVE LimiterInv'  OBVIOUS
<1> USE DEF LimiterInv, BalanceOK, BalanceSafe, BalanceTight, Allowance
<1>1. CASE UNCHANGED limiterVars  BY <1>1 DEF limiterVars
<1>2. CASE Elapse  BY <1>2 DEF Elapse
<1>3. ASSUME NEW cost \in Cost, checkCredit(cost) PROVE LimiterInv'  BY <1>3, CheckKeeps
<1> QED  BY <1>1, <1>2, <1>3 DEF LimiterNext

LEMMA LimiterSpecInv == LimiterSpec => []LimiterInv
  BY LimiterInitInv, LimiterNextInv, PTL DEF LimiterSpec

\* The balance never leaves its range, whatever the times of the calls.
THEOREM BalanceInRange == LimiterSpec => []BalanceOK
<1>1. LimiterInv => BalanceOK  BY DEF LimiterInv
<1> QED  BY LimiterSpecInv, <1>1, PTL

\* In every window the limiter grants at most a full balance and what flows in.
THEOREM RateIsKept == LimiterSpec => []RateKept
<1>1. ASSUME LimiterInv PROVE RateKept
    <2> SUFFICES ASSUME NEW call \in calls
                 PROVE  granted - call.granted =< Allowance(call, lastTick)
        BY DEF RateKept
    <2>1. (granted - call.granted) + balance =< Allowance(call, lastTick)
        BY <1>1 DEF LimiterInv, BalanceSafe
    <2>2. call \in [time : Int, granted : Int] /\ lastTick \in Int /\ granted \in Int
        BY <1>1 DEF LimiterInv, BalanceOK
    <2>3. Allowance(call, lastTick) \in Int  BY <2>2, AllowanceGrows
    <2>4. balance \in Nat  BY <1>1 DEF LimiterInv, BalanceOK
    <2> QED  BY <2>1, <2>2, <2>3, <2>4
<1> QED  BY LimiterSpecInv, <1>1, PTL

\* A call is refused only when granting it would break the rate for some window.
THEOREM RefusalIsDue == LimiterSpec => RefusesOnlyBeyondRate
<1>1. ASSUME LimiterInv, NEW cost \in Cost, checkCredit(cost), granted' = granted
      PROVE  \E call \in calls' : granted + cost - call.granted > Allowance(call, now)
    <2>1. BalanceOK  BY <1>1 DEF LimiterInv
    <2>2. Refilled \in 0..MaxBalance /\ cost \in Nat \ {0} /\ granted \in Nat
        BY <2>1, RefilledTyped, RateAssumption DEF BalanceOK
    <2>3. Refilled < cost  BY <1>1, <2>2 DEF checkCredit
    <2>4. calls' = calls \cup {[time |-> now, granted |-> granted]}
        BY <1>1 DEF checkCredit
    <2>5. PICK call \in calls' : (granted - call.granted) + Refilled = Allowance(call, now)
        BY <1>1, <2>4, RefillKeeps
    <2>6. call.granted \in Int  BY <2>1, <2>4, <2>5 DEF BalanceOK
    <2> QED  BY <2>2, <2>3, <2>5, <2>6
<1>2. LimiterInv /\ [LimiterNext]_limiterVars =>
        [\A cost \in Cost : checkCredit(cost) /\ granted' = granted =>
            \E call \in calls' : granted + cost - call.granted > Allowance(call, now)]_limiterVars
    BY <1>1
<1> QED  BY LimiterSpecInv, <1>2, PTL DEF LimiterSpec, RefusesOnlyBeyondRate

-----------------------------------------------------------------------------
(* The sampler and its updates                                             *)

\* What the sampler may be.
Tracked == UNION {[S -> Limited] : S \in {T \in SUBSET Operation : IsFiniteSet(T)}}
SamplerShape ==
    \/ sampler = [kind |-> "initial"]
    \/ \E r \in 0 .. MaxRate : sampler = [kind |-> "probabilistic", rate |-> r]
    \/ \E r \in Nat, spent \in BOOLEAN :
        sampler = [kind |-> "rateLimiting", rate |-> r, spent |-> spent]
    \/ \E r \in 0 .. MaxRate, l \in Nat, f \in Tracked :
        sampler = [kind |-> "adaptive", rate |-> r, lowerBound |-> l, samplers |-> f]

\* The answer that the thread is about to apply has come from the agent.
AnswerShape ==
    /\ answer \in Answer \cup {[kind |-> "empty"], [kind |-> "none"]}
    /\ poller = "update" => answer \in Answer \cup {[kind |-> "empty"]}
    /\ lastAnswer \in Answer \cup {[kind |-> "none"]}

\* Every operation of the last answer is tracked as that answer says.
LastApplied == lastAnswer.kind = "operations" =>
    /\ sampler.kind = "adaptive"
    /\ \A o \in DOMAIN lastAnswer.rates :
        /\ o \in DOMAIN sampler.samplers
        /\ sampler.samplers[o].rate = Clamped(lastAnswer.rates[o])
        /\ sampler.samplers[o].lowerBound = lastAnswer.lowerBound

\* One call of close() has cleared running, and it returns when the thread has stopped.
OneCloser ==
    /\ \A c \in Closer : closer[c] \in {"notify", "join", "closed"} => ~running
    /\ \A c, d \in Closer :
        closer[c] \in {"notify", "join", "closed"} /\ closer[d] \in {"notify", "join", "closed"}
            => c = d
    /\ \A c \in Closer : closer[c] = "closed" => poller = "stopped"
    /\ poller = "stopped" => ~running

LEMMA InShape ==
    ASSUME NEW f \in Tracked
    PROVE  /\ DOMAIN f \subseteq Operation /\ IsFiniteSet(DOMAIN f)
           /\ f \in [DOMAIN f -> Limited]
BY DEF Tracked

LEMMA OfShape ==
    ASSUME NEW S, S \subseteq Operation, IsFiniteSet(S), NEW f \in [S -> Limited]
    PROVE  f \in Tracked
BY DEF Tracked

LEMMA ClampedIs ==
    ASSUME NEW r \in Nat
    PROVE  Clamped(r) \in 0 .. MaxRate /\ (r \in 0 .. MaxRate => Clamped(r) = r)
BY AnswerAssumption DEF Clamped

LEMMA GuaranteedIs ==
    ASSUME NEW l \in Nat, NEW r \in Nat
    PROVE  /\ GuaranteedThroughput(l, r) \in Limited
           /\ GuaranteedThroughput(l, r).rate = Clamped(r)
           /\ GuaranteedThroughput(l, r).lowerBound = l
BY ClampedIs DEF GuaranteedThroughput, Limited

LEMMA UpdateIs ==
    ASSUME NEW s \in Limited, NEW l \in Nat, NEW r \in Nat
    PROVE  /\ GuaranteedThroughputUpdate(s, l, r) \in Limited
           /\ GuaranteedThroughputUpdate(s, l, r).rate = Clamped(r)
           /\ GuaranteedThroughputUpdate(s, l, r).lowerBound = l
           /\ s.rate = Clamped(r) /\ s.lowerBound = l => GuaranteedThroughputUpdate(s, l, r) = s
<1>1. Clamped(r) \in 0 .. MaxRate /\ Clamped(Clamped(r)) = Clamped(r)
  BY ClampedIs, AnswerAssumption
<1>2. s.rate = r => Clamped(r) = r
  BY ClampedIs DEF Limited
<1>3. s = [rate |-> s.rate, lowerBound |-> s.lowerBound, spent |-> s.spent] /\ s.spent \in BOOLEAN
  BY DEF Limited
<1> QED BY <1>1, <1>2, <1>3 DEF GuaranteedThroughputUpdate, Limited

SamplerSound == SamplerShape /\ LastApplied /\ OperationsBounded

\* A sampler that is adaptive, as a record.
AdaptiveIs(r, l, f) == sampler = [kind |-> "adaptive", rate |-> r, lowerBound |-> l, samplers |-> f]

LEMMA AdaptiveShape ==
    ASSUME SamplerShape, sampler.kind = "adaptive"
    PROVE  \E r \in 0 .. MaxRate, l \in Nat, f \in Tracked : AdaptiveIs(r, l, f)
BY DEF SamplerShape, AdaptiveIs

\* Sampling adds an operation only below the limit, and spends a limiter's credit.
LEMMA IsSampledKeeps ==
    ASSUME SamplerSound, NEW o \in Operation, isSampled(o), named \subseteq Operation
    PROVE  SamplerSound'
<1>1. lastAnswer' = lastAnswer /\ named' = named
  BY DEF isSampled, history
<1>2. CASE UNCHANGED sampler
  BY <1>1, <1>2 DEF SamplerSound, SamplerShape, LastApplied, OperationsBounded
<1>3. CASE sampler.kind = "rateLimiting" /\ sampler' = [sampler EXCEPT !.spent = TRUE]
  <2>1. PICK r \in Nat, spent \in BOOLEAN :
            sampler = [kind |-> "rateLimiting", rate |-> r, spent |-> spent]
    BY <1>3 DEF SamplerSound, SamplerShape
  <2>2. sampler' = [kind |-> "rateLimiting", rate |-> r, spent |-> TRUE]
    BY <1>3, <2>1
  <2>3. sampler'.kind # "adaptive" /\ lastAnswer.kind # "operations"
    BY <1>3, <2>2 DEF SamplerSound, LastApplied
  <2> QED BY <1>1, <2>2, <2>3 DEF SamplerSound, SamplerShape, LastApplied, OperationsBounded
<1>4. CASE /\ sampler.kind = "adaptive" /\ o \in DOMAIN sampler.samplers
           /\ sampler' = [sampler EXCEPT !.samplers[o].spent = TRUE]
  <2>1. PICK r \in 0 .. MaxRate, l \in Nat, f \in Tracked : AdaptiveIs(r, l, f)
    BY <1>4, AdaptiveShape DEF SamplerSound
  <2> DEFINE g == [f EXCEPT ![o].spent = TRUE]
  <2>2. o \in DOMAIN f /\ f \in [DOMAIN f -> Limited] /\ f[o] \in Limited
    BY <1>4, <2>1, InShape DEF AdaptiveIs
  <2>3. [f[o] EXCEPT !.spent = TRUE] \in Limited
    BY <2>2 DEF Limited
  <2>4. /\ g \in [DOMAIN f -> Limited] /\ DOMAIN g = DOMAIN f
        /\ \A p \in DOMAIN f : g[p].rate = f[p].rate /\ g[p].lowerBound = f[p].lowerBound
    BY <2>2, <2>3 DEF Limited
  <2>5. AdaptiveIs(r, l, g)' /\ g \in Tracked
    BY <1>4, <2>1, <2>4, InShape, OfShape DEF AdaptiveIs
  <2> HIDE DEF g
  <2>6. SamplerShape'
    BY <2>5 DEF SamplerShape, AdaptiveIs
  <2>7. LastApplied'
    BY <1>1, <2>1, <2>4, <2>5 DEF SamplerSound, LastApplied, AdaptiveIs
  <2>8. OperationsBounded'
    BY <1>1, <2>1, <2>4, <2>5 DEF SamplerSound, OperationsBounded, AdaptiveIs
  <2> QED BY <2>6, <2>7, <2>8 DEF SamplerSound
<1>5. CASE /\ sampler.kind = "adaptive" /\ o \notin DOMAIN sampler.samplers /\ ~AtLimit
           /\ sampler' = [sampler EXCEPT !.samplers = Extended(@, o,
                [GuaranteedThroughput(sampler.lowerBound, sampler.rate) EXCEPT !.spent = TRUE])]
  <2>1. PICK r \in 0 .. MaxRate, l \in Nat, f \in Tracked : AdaptiveIs(r, l, f)
    BY <1>5, AdaptiveShape DEF SamplerSound
  <2> DEFINE s == [GuaranteedThroughput(l, r) EXCEPT !.spent = TRUE]
             g == Extended(f, o, s)
  <2>2. /\ f \in [DOMAIN f -> Limited] /\ DOMAIN f \subseteq Operation /\ IsFiniteSet(DOMAIN f)
        /\ o \notin DOMAIN f /\ Cardinality(DOMAIN f) < MaxOperations
    <3>1. Cardinality(DOMAIN f) \in Nat
      BY InShape, FS_CardinalityType
    <3> QED BY <1>5, <2>1, <3>1, InShape, AnswerAssumption DEF AdaptiveIs, AtLimit
  <2>3. s \in Limited
    <3>1. GuaranteedThroughput(l, r) \in Limited
      BY GuaranteedIs, AnswerAssumption
    <3> HIDE DEF g
    <3> QED BY <3>1 DEF Limited
  <2>4. /\ DOMAIN g = DOMAIN f \cup {o} /\ g \in [DOMAIN f \cup {o} -> Limited]
        /\ \A p \in DOMAIN f : g[p] = f[p]
    <3> HIDE DEF s
    <3> QED BY <2>2, <2>3 DEF Extended
  <2>5. IsFiniteSet(DOMAIN g) /\ Cardinality(DOMAIN g) <= MaxOperations
    <3>1. Cardinality(DOMAIN f) \in Nat
      BY <2>2, FS_CardinalityType
    <3>2. IsFiniteSet(DOMAIN f \cup {o}) /\ Cardinality(DOMAIN f \cup {o}) = Cardinality(DOMAIN f) + 1
      BY <2>2, FS_AddElement
    <3> HIDE DEF g, s
    <3> QED BY <2>2, <2>4, <3>1, <3>2, AnswerAssumption
  <2>6. AdaptiveIs(r, l, g)'
    BY <1>5, <2>1 DEF AdaptiveIs
  <2> HIDE DEF g, s
  <2>7. SamplerShape'
    BY <2>2, <2>4, <2>5, <2>6, OfShape DEF SamplerShape, AdaptiveIs
  <2>8. LastApplied'
    BY <1>1, <2>1, <2>4, <2>6 DEF SamplerSound, LastApplied, AdaptiveIs
  <2>9. OperationsBounded'
    <3>1. /\ DOMAIN g \ named \in SUBSET DOMAIN g
          /\ Cardinality(DOMAIN g \ named) \in Nat /\ Cardinality(DOMAIN g) \in Nat
          /\ Cardinality(DOMAIN g \ named) <= Cardinality(DOMAIN g)
      BY <2>5, FS_Subset, FS_CardinalityType
    <3> QED BY <1>1, <2>5, <2>6, <3>1, AnswerAssumption DEF OperationsBounded, AdaptiveIs
  <2> QED BY <2>7, <2>8, <2>9 DEF SamplerSound
<1> QED BY <1>2, <1>3, <1>4, <1>5 DEF isSampled

\* An update keeps what is tracked, and so do an answer that says nothing new.
LEMMA AdaptiveUpdateKeeps ==
    ASSUME SamplerSound, sampler.kind = "adaptive",
           NEW a \in Answer, a.kind = "operations",
           sampler' = AdaptiveUpdate(a), lastAnswer' = a, named' = named \cup DOMAIN a.rates
    PROVE  SamplerSound' /\ (lastAnswer = a => sampler' = sampler)
<1>1. PICK r \in 0 .. MaxRate, l \in Nat, f \in Tracked : AdaptiveIs(r, l, f)
  BY AdaptiveShape DEF SamplerSound
<1> DEFINE new == DOMAIN a.rates
           Of(o) == IF o \notin new THEN f[o]
                    ELSE IF o \in DOMAIN f
                      THEN GuaranteedThroughputUpdate(f[o], a.lowerBound, a.rates[o])
                      ELSE GuaranteedThroughput(a.lowerBound, a.rates[o])
           g == [o \in DOMAIN f \cup new |-> Of(o)]
<1>2. AdaptiveIs(r, l, g)'
  BY <1>1 DEF AdaptiveIs, AdaptiveUpdate
<1>3. /\ f \in [DOMAIN f -> Limited] /\ DOMAIN f \subseteq Operation /\ IsFiniteSet(DOMAIN f)
      /\ new \subseteq Operation /\ IsFiniteSet(new)
      /\ a.lowerBound \in Nat /\ \A o \in new : a.rates[o] \in Nat
  BY InShape, AnswerAssumption
<1>4. \A o \in DOMAIN f \cup new : Of(o) \in Limited
  <2> TAKE o \in DOMAIN f \cup new
  <2>1. CASE o \notin new
    BY <1>3, <2>1
  <2>2. CASE o \in new /\ o \in DOMAIN f
    <3>1. f[o] \in Limited /\ a.rates[o] \in Nat
      BY <1>3, <2>2
    <3> QED BY <1>3, <2>2, <3>1, UpdateIs
  <2>3. CASE o \in new /\ o \notin DOMAIN f
    BY <1>3, <2>3, GuaranteedIs
  <2> QED BY <2>1, <2>2, <2>3
<1>5. \A o \in new : Of(o).rate = Clamped(a.rates[o]) /\ Of(o).lowerBound = a.lowerBound
  <2> TAKE o \in new
  <2>1. CASE o \in DOMAIN f
    <3>1. f[o] \in Limited /\ a.rates[o] \in Nat
      BY <1>3, <2>1
    <3>2. /\ GuaranteedThroughputUpdate(f[o], a.lowerBound, a.rates[o]).rate = Clamped(a.rates[o])
          /\ GuaranteedThroughputUpdate(f[o], a.lowerBound, a.rates[o]).lowerBound = a.lowerBound
      <4> DEFINE t == f[o]  q == a.rates[o]  lb == a.lowerBound
      <4>1. lb \in Nat /\ t \in Limited /\ q \in Nat
        BY <1>3, <3>1
      <4> HIDE DEF new, t, q, lb, Of, g
      <4>2. /\ GuaranteedThroughputUpdate(t, lb, q).rate = Clamped(q)
            /\ GuaranteedThroughputUpdate(t, lb, q).lowerBound = lb
        BY <4>1, UpdateIs
      <4> QED BY <4>2 DEF t, q, lb
    <3>3. Of(o) = GuaranteedThroughputUpdate(f[o], a.lowerBound, a.rates[o])
      BY <2>1
    <3> HIDE DEF Of
    <3> QED BY <3>2, <3>3
  <2>2. CASE o \notin DOMAIN f
    BY <1>3, <2>2, GuaranteedIs
  <2> QED BY <2>1, <2>2
<1>6. ASSUME lastAnswer = a
      PROVE  g = f
  <2>1. \A o \in new : /\ o \in DOMAIN f /\ f[o].rate = Clamped(a.rates[o])
                       /\ f[o].lowerBound = a.lowerBound
    BY <1>1, <1>6 DEF SamplerSound, LastApplied, AdaptiveIs
  <2>2. \A o \in DOMAIN f : Of(o) = f[o]
    <3> TAKE o \in DOMAIN f
    <3>1. CASE o \notin new
      BY <3>1
    <3>2. CASE o \in new
      <4>1. f[o] \in Limited /\ a.rates[o] \in Nat
        BY <1>3, <3>2
      <4> QED BY <1>3, <2>1, <3>2, <4>1, UpdateIs
    <3> QED BY <3>1, <3>2
  <2>3. DOMAIN f \cup new = DOMAIN f
    BY <2>1
  <2> HIDE DEF Of
  <2> QED BY <1>3, <2>2, <2>3
<1>7. /\ g \in [DOMAIN f \cup new -> Limited] /\ DOMAIN g = DOMAIN f \cup new
      /\ \A o \in DOMAIN g : g[o] = Of(o)
  <2> HIDE DEF Of
  <2> QED BY <1>4
<1>8. SamplerShape'
  <2>1. g \in Tracked
    <3>1. IsFiniteSet(DOMAIN f \cup new)
      BY <1>3, FS_Union
    <3> HIDE DEF g
    <3> QED BY <1>3, <1>7, <3>1, OfShape
  <2> HIDE DEF g
  <2> QED BY <1>2, <2>1 DEF SamplerShape, AdaptiveIs
<1>9. LastApplied'
  <2> HIDE DEF g, Of
  <2> QED BY <1>2, <1>5, <1>7 DEF LastApplied, AdaptiveIs
<1>10. OperationsBounded'
  <2> DEFINE before == DOMAIN f \ named
             after == DOMAIN g \ (named \cup new)
  <2>1. after \subseteq before
    BY <1>7
  <2>2. IsFiniteSet(before)
    BY <1>3, FS_Subset
  <2>3. /\ Cardinality(after) \in Nat /\ Cardinality(before) \in Nat
        /\ Cardinality(after) <= Cardinality(before)
    BY <2>1, <2>2, FS_Subset, FS_CardinalityType
  <2>4. Cardinality(before) <= MaxOperations
    BY <1>1 DEF SamplerSound, OperationsBounded, AdaptiveIs
  <2>5. Cardinality(after) <= MaxOperations
    BY <2>3, <2>4, AnswerAssumption
  <2> HIDE DEF g, before
  <2> QED BY <1>2, <2>5 DEF OperationsBounded, AdaptiveIs
<1>11. lastAnswer = a => sampler' = sampler
  <2> HIDE DEF g
  <2> QED BY <1>1, <1>2, <1>6 DEF AdaptiveIs
<1> QED BY <1>8, <1>9, <1>10, <1>11 DEF SamplerSound

\* An adaptive sampler that an answer makes tracks what the answer names, all of it.
LEMMA AdaptiveStarts ==
    ASSUME NEW a \in Answer, a.kind = "operations",
           sampler' = Adaptive(a), lastAnswer' = a, named' = named \cup DOMAIN a.rates
    PROVE  SamplerSound'
<1> DEFINE new == DOMAIN a.rates
           g == [o \in new |-> GuaranteedThroughput(a.lowerBound, a.rates[o])]
<1>1. /\ new \subseteq Operation /\ IsFiniteSet(new) /\ a.rate \in Nat
      /\ a.lowerBound \in Nat /\ \A o \in new : a.rates[o] \in Nat
  BY AnswerAssumption
<1>2. AdaptiveIs(Clamped(a.rate), a.lowerBound, g)' /\ Clamped(a.rate) \in 0 .. MaxRate
  BY <1>1, ClampedIs DEF AdaptiveIs, Adaptive
<1>3. /\ g \in [new -> Limited] /\ DOMAIN g = new
      /\ \A o \in new : g[o].rate = Clamped(a.rates[o]) /\ g[o].lowerBound = a.lowerBound
  BY <1>1, GuaranteedIs
<1> HIDE DEF g
<1>4. SamplerShape'
  BY <1>1, <1>2, <1>3, OfShape DEF SamplerShape, AdaptiveIs
<1>5. LastApplied'
  BY <1>2, <1>3 DEF LastApplied, AdaptiveIs
<1>6. OperationsBounded'
  <2>1. DOMAIN g \ (named \cup new) = {}
    BY <1>3
  <2>2. Cardinality({}) = 0 /\ 0 <= MaxOperations
    BY FS_EmptySet, AnswerAssumption
  <2>3. sampler'.samplers = g /\ named' = named \cup new
    BY <1>2 DEF AdaptiveIs
  <2>4. Cardinality(DOMAIN sampler'.samplers \ named') <= MaxOperations
    BY <2>1, <2>2, <2>3
  <2> QED BY <2>4 DEF OperationsBounded
<1> QED BY <1>4, <1>5, <1>6 DEF SamplerSound

LEMMA UpdateSamplerKeeps ==
    ASSUME SamplerSound, AnswerShape, updateSampler
    PROVE  SamplerSound' /\ AnswerShape'
<1>1. AnswerShape'
  BY DEF AnswerShape, updateSampler, history
<1>2. CASE answer.kind = "empty"
  <2>1. UNCHANGED <<sampler, lastAnswer, named>>
    BY <1>2 DEF updateSampler, history
  <2> QED BY <1>1, <2>1 DEF SamplerSound, SamplerShape, LastApplied, OperationsBounded
<1>3. CASE answer.kind # "empty"
  <2>1. answer \in Answer /\ lastAnswer' = answer
    BY <1>3 DEF AnswerShape, updateSampler
  <2>2. CASE answer.kind # "operations"
    <3>1. sampler' = Sampling(answer) /\ answer.rate \in Nat
      BY <1>3, <2>1, <2>2, AnswerAssumption DEF updateSampler
    <3>2. Clamped(answer.rate) \in 0 .. MaxRate
      BY <3>1, ClampedIs
    <3>3. SamplerShape'
      BY <3>1, <3>2 DEF SamplerShape, Sampling
    <3>4. LastApplied' /\ OperationsBounded'
      BY <2>1, <2>2, <3>1 DEF LastApplied, OperationsBounded, Sampling
    <3> QED BY <1>1, <3>3, <3>4 DEF SamplerSound
  <2>3. CASE answer.kind = "operations"
    <3>1. named' = named \cup DOMAIN answer.rates
      BY <1>3, <2>3 DEF updateSampler
    <3>2. CASE sampler.kind = "adaptive"
      BY <1>1, <1>3, <2>1, <2>3, <3>1, <3>2, AdaptiveUpdateKeeps DEF updateSampler
    <3>3. CASE sampler.kind # "adaptive"
      BY <1>1, <1>3, <2>1, <2>3, <3>1, <3>3, AdaptiveStarts DEF updateSampler
    <3> QED BY <3>2, <3>3
  <2> QED BY <2>2, <2>3
<1> QED BY <1>2, <1>3

\* Polls are bounded as the guard of getSamplingStrategy says, but for one that is
\* under way when the sampler is closed; every one that got an answer used it or failed.
PollsBounded ==
    /\ retrieved \in Nat /\ queryFailure \in Nat /\ updated \in Nat /\ updateFailure \in Nat
    /\ retrieved = updated + updateFailure
    /\ Polls <= MaxPolls + 1
    /\ running \/ poller \in {"query", "update"} => Polls <= MaxPolls
    /\ running /\ poller = "update" => Polls < MaxPolls

ControlOK ==
    /\ running \in BOOLEAN /\ named \subseteq Operation
    /\ poller \in {"head", "query", "update", "wait", "waiting", "stopped"}
    /\ closer \in [Closer -> {"idle", "notify", "join", "closed", "returned"}]

SamplingInv == ControlOK /\ PollsBounded /\ OneCloser /\ AnswerShape /\ SamplerSound

LEMMA SamplingInitInv == SamplingInit => SamplingInv
<1> SUFFICES ASSUME SamplingInit PROVE SamplingInv
  OBVIOUS
<1>1. ControlOK /\ PollsBounded /\ OneCloser /\ AnswerShape
  BY AnswerAssumption
  DEF SamplingInit, ControlOK, PollsBounded, OneCloser, AnswerShape, Polls
<1>2. SamplerSound
  BY DEF SamplingInit, SamplerSound, SamplerShape, LastApplied, OperationsBounded
<1> QED BY <1>1, <1>2 DEF SamplingInv

LEMMA SamplingNextInv == SamplingInv /\ [SamplingNext]_samplingVars => SamplingInv'
<1> SUFFICES ASSUME SamplingInv, [SamplingNext]_samplingVars PROVE SamplingInv'
  OBVIOUS
<1> USE DEF SamplingInv
<1>1. ControlOK' /\ OneCloser'
  <2>1. CASE \/ Polling \/ pollTimeout \/ \E o \in Operation : isSampled(o)
             \/ UNCHANGED samplingVars
    <3>1. UNCHANGED <<running, closer>> /\ (poller = "stopped" => poller' = "stopped")
      BY <2>1 DEF Polling, pollHead, getSamplingStrategy, updateSampler, pollWait,
        pollTimeout, isSampled, samplingVars
    <3>2. poller' = "stopped" => poller = "stopped" \/ ~running
      BY <2>1 DEF Polling, pollHead, getSamplingStrategy, updateSampler, pollWait,
        pollTimeout, isSampled, samplingVars
    <3>3. poller' \in {"head", "query", "update", "wait", "waiting", "stopped"}
      BY <2>1 DEF ControlOK, Polling, pollHead, getSamplingStrategy, updateSampler, pollWait,
        pollTimeout, isSampled, samplingVars
    <3>4. named' \subseteq Operation
      <4>1. CASE UNCHANGED named
        BY <4>1 DEF ControlOK
      <4>2. CASE updateSampler
        BY <4>2, AnswerAssumption DEF updateSampler, ControlOK, AnswerShape, history
      <4> QED BY <2>1, <4>1, <4>2 DEF Polling, pollHead, getSamplingStrategy, pollWait,
        pollTimeout, isSampled, samplingVars, history
    <3> QED BY <3>1, <3>2, <3>3, <3>4 DEF ControlOK, OneCloser
  <2>2. ASSUME NEW c \in Closer, close(c) \/ Closing(c)
        PROVE  ControlOK' /\ OneCloser'
    <3>1. CASE close(c)
      BY <3>1 DEF ControlOK, OneCloser, close, At, history
    <3>2. CASE closeNotify(c)
      BY <3>2 DEF ControlOK, OneCloser, closeNotify, At, history
    <3>3. CASE closeJoin(c)
      BY <3>3 DEF ControlOK, OneCloser, closeJoin, At, history
    <3> QED BY <2>2, <3>1, <3>2, <3>3 DEF Closing
  <2> QED BY <2>1, <2>2 DEF SamplingNext
<1>2. PollsBounded'
  BY AnswerAssumption DEF ControlOK, PollsBounded, Polls, SamplingNext, Polling, pollHead,
    getSamplingStrategy, updateSampler, pollWait, pollTimeout, isSampled, close, Closing,
    closeNotify, closeJoin, metrics, samplingVars
<1>3. AnswerShape' /\ SamplerSound'
  <2>1. CASE updateSampler
    BY <2>1, UpdateSamplerKeeps
  <2>2. ASSUME NEW o \in Operation, isSampled(o)
        PROVE  AnswerShape' /\ SamplerSound'
    <3>1. SamplerSound'
      BY <2>2, IsSampledKeeps DEF ControlOK
    <3> QED BY <2>2, <3>1 DEF AnswerShape, isSampled, history
  <2>3. CASE \/ pollHead \/ getSamplingStrategy \/ pollWait \/ pollTimeout
             \/ \E c \in Closer : close(c) \/ Closing(c)
             \/ UNCHANGED samplingVars
    <3>1. UNCHANGED <<sampler, lastAnswer, named>>
      BY <2>3 DEF pollHead, getSamplingStrategy, pollWait, pollTimeout, close, Closing,
        closeNotify, closeJoin, samplingVars, history
    <3>2. AnswerShape'
      BY <2>3, <3>1 DEF AnswerShape, pollHead, getSamplingStrategy, pollWait, pollTimeout,
        close, Closing, closeNotify, closeJoin, samplingVars
    <3> QED BY <3>1, <3>2
      DEF SamplerSound, SamplerShape, LastApplied, OperationsBounded
  <2> QED BY <2>1, <2>2, <2>3 DEF SamplingNext, Polling
<1> QED BY <1>1, <1>2, <1>3

LEMMA SamplingSpecInv == SamplingSpec => []SamplingInv
<1> QED BY SamplingInitInv, SamplingNextInv, PTL DEF SamplingSpec

LEMMA SamplingInvOK == SamplingInv => SamplerOK /\ OperationsBounded
<1> SUFFICES ASSUME SamplingInv PROVE SamplerOK /\ OperationsBounded
  OBVIOUS
<1>1. retrieved \in 0..MaxPolls + 1 /\ updateFailure \in 0..retrieved /\ updated \in 0..retrieved
      /\ queryFailure \in 0..MaxPolls + 1
  BY AnswerAssumption DEF SamplingInv, PollsBounded, Polls
<1>2. sampler.kind = "probabilistic" => sampler.rate \in 0..MaxRate
  BY DEF SamplingInv, SamplerSound, SamplerShape
<1>3. ASSUME sampler.kind = "adaptive"
      PROVE  /\ DOMAIN sampler.samplers \subseteq Operation
             /\ \A o \in DOMAIN sampler.samplers : sampler.samplers[o] \in Limited
  <2>1. PICK r \in 0 .. MaxRate, l \in Nat, f \in Tracked : AdaptiveIs(r, l, f)
    BY <1>3, AdaptiveShape DEF SamplingInv, SamplerSound
  <2> QED BY <2>1, InShape DEF AdaptiveIs
<1> QED BY <1>1, <1>2, <1>3 DEF SamplingInv, SamplerOK, ControlOK, SamplerSound

\* Every rate in force is one a sampler may have, whatever the agent answers.
THEOREM SamplersWellFormed == SamplingSpec => []SamplerOK
<1> QED BY SamplingSpecInv, SamplingInvOK, PTL

\* However calls of isSampled() and answers of the agent alternate, the sampler tracks
\* no more operations unasked than it may.
THEOREM OperationsStayBounded == SamplingSpec => []OperationsBounded
<1> QED BY SamplingSpecInv, SamplingInvOK, PTL

LEMMA SameAnswer ==
    ASSUME SamplingInv, updateSampler, answer = lastAnswer, answer.kind = "operations"
    PROVE  sampler' = sampler
<1>1. answer \in Answer /\ sampler.kind = "adaptive"
  BY DEF SamplingInv, AnswerShape, SamplerSound, LastApplied
<1>2. /\ sampler' = AdaptiveUpdate(answer) /\ lastAnswer' = answer
      /\ named' = named \cup DOMAIN answer.rates
  BY <1>1 DEF updateSampler
<1> QED BY <1>1, <1>2, AdaptiveUpdateKeeps DEF SamplingInv

\* A poll that fails changes nothing, and neither does an answer that is the last one
\* over again: no limiter gets its credit anew.
THEOREM SamplerIsKept == SamplingSpec => SamplerKept
<1>1. ASSUME SamplingInv, [SamplingNext]_samplingVars
      PROVE  [queryFailure' # queryFailure \/ updateFailure' # updateFailure
                => sampler' = sampler]_samplingVars
  BY <1>1 DEF SamplingInv, PollsBounded, SamplingNext, Polling, pollHead, getSamplingStrategy,
    updateSampler, pollWait, pollTimeout, isSampled, close, Closing, closeNotify, closeJoin,
    metrics, history, samplingVars
<1>2. ASSUME SamplingInv
      PROVE  [updateSampler /\ answer = lastAnswer /\ answer.kind = "operations"
                => sampler' = sampler]_samplingVars
  BY <1>2, SameAnswer
<1> QED BY <1>1, <1>2, SamplingSpecInv, PTL
  DEF SamplingSpec, SamplerKept, FailureKeepsSampler, SameAnswerSameSampler

\* What a step of the polling thread, or of another that does not close, is to the promise.
LEMMA PollingStepPromised ==
    ASSUME SamplingInv,
           \/ Polling \/ pollTimeout \/ \E o \in Operation : isSampled(o)
           \/ UNCHANGED samplingVars
    PROVE  [SamplingPromise!Next]_(SamplingPromise!vars)
<1>1. UNCHANGED <<running, closer>>
  BY DEF Polling, pollHead, getSamplingStrategy, updateSampler, pollWait, pollTimeout,
    isSampled, samplingVars
<1>2. CASE UNCHANGED Polls
  BY <1>1, <1>2 DEF SamplingPromise!vars
<1>3. CASE ~UNCHANGED Polls
  <2>1. poller \in {"query", "update"} /\ Polls' = Polls + 1
    BY <1>3 DEF Polls, SamplingInv, PollsBounded, Polling, pollHead, getSamplingStrategy,
      updateSampler, pollWait, pollTimeout, isSampled, metrics, samplingVars
  <2>2. ~ \E c \in Closer : closer[c] = "closed"
    BY <2>1 DEF SamplingInv, OneCloser
  <2> QED BY <1>1, <2>1, <2>2 DEF SamplingPromise!Next, SamplingPromise!Poll
<1> QED BY <1>2, <1>3

\* The first call of close() is the call of the promise, and it closes when it joins.
LEMMA ClosingStepPromised ==
    ASSUME SamplingInv, NEW c \in Closer, close(c) \/ Closing(c)
    PROVE  [SamplingPromise!Next]_(SamplingPromise!vars)
<1>1. UNCHANGED Polls
  BY DEF Polls, close, Closing, closeNotify, closeJoin, metrics
<1> DEFINE closed == \E d \in Closer : closer[d] = "closed"
<1>2. CASE close(c)
  <2>1. closed' <=> closed
    BY <1>2 DEF SamplingInv, ControlOK, close, At
  <2> QED BY <1>1, <1>2, <2>1 DEF close, SamplingInv, ControlOK, SamplingPromise!vars,
    SamplingPromise!Next, SamplingPromise!Call
<1>3. CASE closeNotify(c)
  <2>1. closed' <=> closed
    BY <1>3 DEF SamplingInv, ControlOK, closeNotify, At
  <2> QED BY <1>1, <1>3, <2>1 DEF closeNotify, SamplingPromise!vars
<1>4. CASE closeJoin(c)
  <2>1. closed' /\ ~closed /\ ~running
    BY <1>4 DEF SamplingInv, ControlOK, OneCloser, closeJoin, At
  <2> QED BY <1>1, <1>4, <2>1 DEF closeJoin, SamplingPromise!Next, SamplingPromise!Close
<1> QED BY <1>2, <1>3, <1>4 DEF Closing

\* Nothing that was polled takes effect when a call of close() has waited for the thread.
THEOREM SamplerPollsUntilClosed == SamplingSpec => SamplingPromise!SafeSpec
<1>1. SamplingInit => SamplingPromise!Init
  BY DEF SamplingInit, SamplingPromise!Init, Polls
<1>2. SamplingInv /\ [SamplingNext]_samplingVars
        => [SamplingPromise!Next]_(SamplingPromise!vars)
  BY PollingStepPromised, ClosingStepPromised DEF SamplingNext
<1> QED BY <1>1, <1>2, SamplingSpecInv, PTL DEF SamplingSpec, SamplingPromise!SafeSpec

-----------------------------------------------------------------------------
(* The restrictions of baggage                                             *)

RestrictionsTyped ==
    /\ initialized \in BOOLEAN /\ restricting \in BOOLEAN /\ updateSuccess \in Nat
    /\ restricter \in [Restricter -> {"idle", "notify", "join", "closed", "returned"}]

\* One call of close() has cleared restricting, and it returns when the thread has stopped.
OneRestricter ==
    /\ \A c \in Restricter : restricter[c] \in {"notify", "join", "closed"} => ~restricting
    /\ \A c, d \in Restricter :
        /\ restricter[c] \in {"notify", "join", "closed"}
        /\ restricter[d] \in {"notify", "join", "closed"}
        => c = d
    /\ \A c \in Restricter : restricter[c] = "closed" => updater = "stopped"
    /\ updater = "stopped" => ~restricting

RestrictionInv == RestrictionsTyped /\ OneRestricter

LEMMA RestrictionSpecInv == RestrictionSpec => []RestrictionInv
<1> USE DEF RestrictionInv
<1>1. RestrictionInit => RestrictionInv
  <2> SUFFICES ASSUME RestrictionInit PROVE RestrictionInv
    OBVIOUS
  <2>1. initialized \in BOOLEAN /\ restricting \in BOOLEAN
    BY Zenon DEF RestrictionInit
  <2>2. restricting = TRUE /\ updater = "request" /\ updateSuccess = 0
    BY DEF RestrictionInit
  <2>3. restricter = [c \in Restricter |-> "idle"]
    BY DEF RestrictionInit
  <2> QED BY <2>1, <2>2, <2>3 DEF RestrictionsTyped, OneRestricter
<1>2. RestrictionInv /\ [RestrictionNext]_restrictionVars => RestrictionInv'
  <2> SUFFICES ASSUME RestrictionInv, [RestrictionNext]_restrictionVars
               PROVE  RestrictionInv'
    OBVIOUS
  <2>1. CASE Updating \/ updateTimeout \/ UNCHANGED restrictionVars
    <3>1. /\ UNCHANGED <<restricting, restricter>>
          /\ updateSuccess' \in Nat
      BY <2>1 DEF RestrictionsTyped, Updating, requestRestrictions, updateRestrictions, updateWait,
        updateTimeout, metered, restrictionVars
    <3>2. initialized' = initialized \/ initialized' = TRUE
      BY <2>1, Zenon DEF Updating, requestRestrictions, updateRestrictions, updateWait, updateTimeout,
        restricted, restrictionVars
    <3>3. /\ updater = "stopped" => updater' = "stopped"
          /\ updater' = "stopped" => updater = "stopped" \/ ~restricting
      BY <2>1 DEF Updating, requestRestrictions, updateRestrictions, updateWait, updateTimeout,
        restrictionVars
    <3> QED BY <3>1, <3>2, <3>3 DEF RestrictionsTyped, OneRestricter
  <2>2. ASSUME NEW c \in Restricter, managerClose(c) \/ ManagerClosing(c)
        PROVE  RestrictionInv'
    <3>1. RestrictionsTyped'
      BY <2>2 DEF RestrictionsTyped, managerClose, ManagerClosing, managerNotify, managerJoin,
        Reaches, restricted, metered
    <3>2. OneRestricter'
      BY <2>2 DEF RestrictionsTyped, OneRestricter, managerClose, ManagerClosing,
        managerNotify, managerJoin, Reaches
    <3> QED BY <3>1, <3>2
  <2> QED BY <2>1, <2>2 DEF RestrictionNext
<1> QED BY <1>1, <1>2, PTL DEF RestrictionSpec

\* What may be set changes with a usable answer only, and then altogether.
THEOREM RestrictionsAreKept == RestrictionSpec => FailureKeepsRestrictions
<1> DEFINE Kept == \A key \in BaggageKey :
        getRestriction(key)' = IF updateSuccess' = updateSuccess THEN getRestriction(key)
            ELSE IF key \in DOMAIN response THEN response[key] ELSE 0
<1>1. ASSUME RestrictionInv, [RestrictionNext]_restrictionVars
      PROVE  [Kept]_restrictionVars
  <2>1. CASE UNCHANGED <<restricted, updateSuccess>>
    BY <2>1 DEF getRestriction, restricted
  <2>2. CASE updateRestrictions /\ response # NoSuccess
    <3>1. /\ updateSuccess' # updateSuccess /\ initialized'
          /\ restrictions' = response
      BY <1>1, <2>2 DEF updateRestrictions, RestrictionInv, RestrictionsTyped
    <3> QED BY <3>1 DEF getRestriction
  <2>3. CASE updateRestrictions /\ response = NoSuccess
    BY <2>1, <2>3 DEF updateRestrictions, restricted
  <2> QED BY <1>1, <2>1, <2>2, <2>3 DEF RestrictionNext, Updating, requestRestrictions, updateWait,
    updateTimeout, managerClose, ManagerClosing, managerNotify, managerJoin, metered
<1> QED BY <1>1, RestrictionSpecInv, PTL DEF RestrictionSpec, FailureKeepsRestrictions

\* The manager keeps the promise of the sampler.
THEOREM ManagerPollsUntilClosed == RestrictionSpec => ManagerPromise!SafeSpec
<1>1. RestrictionInit => ManagerPromise!Init
  BY DEF RestrictionInit, ManagerPromise!Init
<1>2. ASSUME RestrictionInv, [RestrictionNext]_restrictionVars
      PROVE  [ManagerPromise!Next]_(ManagerPromise!vars)
  <2> DEFINE closed == \E d \in Restricter : restricter[d] = "closed"
  <2>1. CASE Updating \/ updateTimeout \/ UNCHANGED restrictionVars
    <3>1. UNCHANGED <<restricting, restricter>>
      BY <2>1 DEF Updating, requestRestrictions, updateRestrictions, updateWait, updateTimeout,
        restrictionVars
    <3>2. \/ UNCHANGED answers
          \/ answers' = answers + 1 /\ updater # "stopped"
      BY <2>1 DEF Updating, requestRestrictions, updateRestrictions, updateWait, updateTimeout,
        metered, restrictionVars
    <3>3. updater # "stopped" => ~closed
      BY <1>2 DEF RestrictionInv, OneRestricter
    <3> QED BY <3>1, <3>2, <3>3
      DEF ManagerPromise!vars, ManagerPromise!Next, ManagerPromise!Poll
  <2>2. ASSUME NEW c \in Restricter, managerClose(c) \/ ManagerClosing(c)
        PROVE  [ManagerPromise!Next]_(ManagerPromise!vars)
    <3>1. UNCHANGED answers
      BY <2>2 DEF managerClose, ManagerClosing, managerNotify, managerJoin, metered
    <3>2. CASE managerClose(c)
      <4>1. closed' <=> closed
        BY <1>2, <3>2 DEF RestrictionInv, RestrictionsTyped, managerClose, Reaches
      <4> QED BY <1>2, <3>1, <3>2, <4>1 DEF managerClose, RestrictionInv, RestrictionsTyped,
        ManagerPromise!vars, ManagerPromise!Next, ManagerPromise!Call
    <3>3. CASE managerNotify(c)
      <4>1. closed' <=> closed
        BY <1>2, <3>3 DEF RestrictionInv, RestrictionsTyped, managerNotify, Reaches
      <4> QED BY <3>1, <3>3, <4>1 DEF managerNotify, ManagerPromise!vars
    <3>4. CASE managerJoin(c)
      <4>1. closed' /\ ~closed /\ ~restricting
        BY <1>2, <3>4 DEF RestrictionInv, RestrictionsTyped, OneRestricter, managerJoin, Reaches
      <4> QED BY <3>1, <3>4, <4>1 DEF managerJoin, ManagerPromise!Next, ManagerPromise!Close
    <3> QED BY <2>2, <3>2, <3>3, <3>4 DEF ManagerClosing
  <2> QED BY <1>2, <2>1, <2>2 DEF RestrictionNext
<1> QED BY <1>1, <1>2, RestrictionSpecInv, PTL DEF RestrictionSpec, ManagerPromise!SafeSpec
=============================================================================
