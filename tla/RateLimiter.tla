----------------------------- MODULE RateLimiter -----------------------------
(***************************************************************************)
(* jaeger-client-cpp, utils::RateLimiter: credits flow in with time, up to *)
(* a limit, and each item that is let through takes its cost.  Credits are *)
(* counted in a unit small enough for every amount to be whole.            *)
(*                                                                         *)
(* checkCredit() reads the clock and works with _mutex held: calls of      *)
(* several threads are steps of one sequence, in the order of their times. *)
(***************************************************************************)
EXTENDS Integers

CONSTANTS
    CreditsPerSecond,
    MaxBalance,
    Cost,       \* what items may cost
    MaxTime     \* bound: the clock stops there

ASSUME RateAssumption ==
    CreditsPerSecond \in Nat /\ MaxBalance \in Nat /\ Cost \subseteq Nat \ {0} /\ MaxTime \in Nat

VARIABLES
    now,        \* Clock::now(), in seconds
    balance,
    lastTick,
    granted,    \* history: the cost of all that has been let through
    calls       \* history: for each call, its time and what was granted before it

limiterVars == <<now, balance, lastTick, granted, calls>>

LimiterInit ==
    /\ now = 0 /\ lastTick = 0
    /\ balance = MaxBalance
    /\ granted = 0
    /\ calls = {[time |-> 0, granted |-> 0]}

Elapse ==
    /\ now < MaxTime
    /\ now' = now + 1
    /\ UNCHANGED <<balance, lastTick, granted, calls>>

Lesser(a, b) == IF a < b THEN a ELSE b

\* Mutant of Refilled: the balance is not capped.
Refilled_Uncapped == balance + (now - lastTick) * CreditsPerSecond

Refilled == Lesser(MaxBalance, balance + (now - lastTick) * CreditsPerSecond)

\* Mutant of checkCredit: a refused call moves the clock on but leaves the balance.
checkCredit_RefusalForfeits(cost) ==
    /\ lastTick' = now
    /\ calls' = calls \cup {[time |-> now, granted |-> granted]}
    /\ \/ /\ Refilled >= cost
          /\ balance' = Refilled - cost /\ granted' = granted + cost
       \/ /\ Refilled < cost
          /\ UNCHANGED <<balance, granted>>
    /\ UNCHANGED now

checkCredit(cost) ==
    /\ lastTick' = now
    /\ calls' = calls \cup {[time |-> now, granted |-> granted]}
    /\ \/ /\ Refilled >= cost
          /\ balance' = Refilled - cost /\ granted' = granted + cost
       \/ /\ Refilled < cost
          /\ balance' = Refilled /\ UNCHANGED granted
    /\ UNCHANGED now

LimiterNext == Elapse \/ \E cost \in Cost : checkCredit(cost)

LimiterSpec == LimiterInit /\ [][LimiterNext]_limiterVars

-----------------------------------------------------------------------------
\* No clock runs backwards and the balance stays between nothing and its limit.
BalanceOK ==
    /\ now \in Nat /\ lastTick \in 0..now
    /\ balance \in 0..MaxBalance
    /\ granted \in Nat
    /\ calls \subseteq [time : 0..lastTick, granted : 0..granted]

\* The most that a call's successors may be granted between its time and t.
Allowance(call, t) == MaxBalance + CreditsPerSecond * (t - call.time)

\* Whatever the calls and their times, what is granted in any window of time is at
\* most a full balance and what flows in during the window.
RateKept == \A call \in calls : granted - call.granted <= Allowance(call, lastTick)

\* The limiter refuses nothing that the rate allows: a call is refused only when the
\* item would break the rate for some window.
RefusesOnlyBeyondRate ==
    [][\A cost \in Cost : checkCredit(cost) /\ granted' = granted =>
        \E call \in calls' : granted + cost - call.granted > Allowance(call, now)]_limiterVars
=============================================================================
