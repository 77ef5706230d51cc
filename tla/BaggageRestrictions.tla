------------------------- MODULE BaggageRestrictions -------------------------
(***************************************************************************)
(* jaeger-client-cpp, baggage::RemoteRestrictionManager: a thread asks the *)
(* agent which baggage may be set, first at once and then whenever the     *)
(* refresh interval is over, while other threads look restrictions up and  *)
(* close the manager.  (Tracer has a DefaultRestrictionManager, that keeps *)
(* nothing; this one is used by its test only.)                            *)
(*                                                                         *)
(* _mutex protects the restrictions, so what is done with it held is one   *)
(* step; the request is made without it.                                   *)
(***************************************************************************)
EXTENDS Naturals, FiniteSets

CONSTANTS
    Restricter,   \* the threads that call close()
    KeyRestrictionMaps, \* restrictions the agent may answer with: lengths of values by key
    BaggageKey,
    NoSuccess,    \* a response without restrictions
    kDefaultMaxValueLength,
    MaxUpdates    \* bound: answers of the agent

VARIABLES
    denyBaggage,        \* _denyBaggageOnInitializationFailure
    restrictions, initialized, restricting,   \* _running
    updater, response,  \* the polling thread and the response it holds
    restricter,         \* where each caller of close() is
    updateSuccess, failedUpdates,   \* metrics
    answers             \* history: responses that have come

metered == <<updateSuccess, failedUpdates, answers>>
restricted == <<denyBaggage, restrictions, initialized>>
restrictionVars == <<restricted, restricting, updater, response, restricter, metered>>

RestrictionInit ==
    /\ denyBaggage \in BOOLEAN
    /\ restrictions = << >> /\ initialized = FALSE /\ restricting = TRUE
    /\ updater = "request" /\ response = NoSuccess
    /\ restricter = [c \in Restricter |-> "idle"]
    /\ updateSuccess = 0 /\ failedUpdates = 0 /\ answers = 0

-----------------------------------------------------------------------------
\* The length a value with that key is cut to, or 0 if the key is not allowed.
getRestriction(key) ==
    CASE ~initialized -> IF denyBaggage THEN 0 ELSE kDefaultMaxValueLength
      [] initialized -> IF key \in DOMAIN restrictions THEN restrictions[key] ELSE 0

\* The agent answers with status 200, or with another; or the request throws.
requestRestrictions ==
    /\ updater = "request" /\ (answers < MaxUpdates \/ ~restricting)
    /\ answers' = answers + 1
    /\ \/ /\ response' \in KeyRestrictionMaps \cup {NoSuccess} /\ updater' = "update"
          /\ UNCHANGED failedUpdates
       \/ updater' = "wait" /\ UNCHANGED <<response, failedUpdates>>
       \/ updater' = "wait" /\ failedUpdates' = failedUpdates + 1 /\ UNCHANGED response
    /\ UNCHANGED <<restricted, restricting, restricter, updateSuccess>>

\* Mutant of updateRestrictions: the restrictions of last time go before the response
\* is looked at.
updateRestrictions_Early ==
    /\ updater = "update" /\ updater' = "wait"
    /\ restrictions' = IF response = NoSuccess THEN << >> ELSE response
    /\ initialized' = TRUE
    /\ updateSuccess' = updateSuccess + (IF response = NoSuccess THEN 0 ELSE 1)
    /\ failedUpdates' = failedUpdates + (IF response = NoSuccess THEN 1 ELSE 0)
    /\ UNCHANGED <<denyBaggage, restricting, response, restricter, answers>>

updateRestrictions ==
    /\ updater = "update" /\ updater' = "wait"
    /\ \/ /\ response # NoSuccess
          /\ restrictions' = response /\ initialized' = TRUE
          /\ updateSuccess' = updateSuccess + 1
          /\ UNCHANGED failedUpdates
       \/ /\ response = NoSuccess /\ failedUpdates' = failedUpdates + 1
          /\ UNCHANGED <<restrictions, initialized, updateSuccess>>
    /\ UNCHANGED <<denyBaggage, restricting, response, restricter, answers>>

\* wait_until looks at _running before it waits and after.
updateWait ==
    /\ updater = "wait"
    /\ updater' = IF restricting THEN "waiting" ELSE "stopped"
    /\ UNCHANGED <<restricted, restricting, response, restricter, metered>>

updateTimeout ==
    /\ updater = "waiting"
    /\ updater' = IF restricting THEN "request" ELSE "stopped"
    /\ UNCHANGED <<restricted, restricting, response, restricter, metered>>

-----------------------------------------------------------------------------
(* close()                                                                 *)

Reaches(c, label) == restricter' = [restricter EXCEPT ![c] = label]

managerClose(c) ==
    /\ restricter[c] = "idle"
    /\ restricting' = FALSE
    /\ Reaches(c, IF restricting THEN "notify" ELSE "returned")
    /\ UNCHANGED <<restricted, updater, response, metered>>

managerNotify(c) ==
    /\ restricter[c] = "notify" /\ Reaches(c, "join")
    /\ updater' = IF updater = "waiting" THEN "stopped" ELSE updater
    /\ UNCHANGED <<restricted, restricting, response, metered>>

managerJoin(c) ==
    /\ restricter[c] = "join" /\ updater = "stopped" /\ Reaches(c, "closed")
    /\ UNCHANGED <<restricted, restricting, updater, response, metered>>

-----------------------------------------------------------------------------
Updating == requestRestrictions \/ updateRestrictions \/ updateWait
ManagerClosing(c) == managerNotify(c) \/ managerJoin(c)

RestrictionNext ==
    \/ Updating \/ updateTimeout
    \/ \E c \in Restricter : managerClose(c) \/ ManagerClosing(c)

RestrictionSpec == RestrictionInit /\ [][RestrictionNext]_restrictionVars

\* The agent answers or the request fails; nothing is asked of the refresh interval.
FairRestrictions ==
    /\ RestrictionSpec
    /\ WF_restrictionVars(Updating)
    /\ \A c \in Restricter : WF_restrictionVars(ManagerClosing(c))

-----------------------------------------------------------------------------
\* A poll without a usable answer leaves the baggage that may be set as it was,
\* default or not; one with an answer replaces all of it, keys that are gone included.
FailureKeepsRestrictions ==
    [][ \A key \in BaggageKey :
          getRestriction(key)' = IF updateSuccess' = updateSuccess THEN getRestriction(key)
            ELSE IF key \in DOMAIN response THEN response[key] ELSE 0
      ]_restrictionVars

\* The first call of close() returns, and from then on no poll takes effect.
ManagerPromise == INSTANCE PollUntilClosed WITH
    polls <- answers, called <- ~restricting,
    closed <- \E c \in Restricter : restricter[c] = "closed"
RestrictionsUntilClosed == ManagerPromise!Spec
=============================================================================
