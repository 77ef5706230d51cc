------------------------------ MODULE TimedMutex ------------------------------
(***************************************************************************)
(* RecursiveSharedMutex with the calls that wait up to a point in time:    *)
(* try_lock_until(), try_nonrecursive_lock_until() and                     *)
(* try_lock_shared_until().  The point may come at any moment.             *)
(***************************************************************************)
EXTENDS RecursiveSharedMutex

VARIABLES
    timed,    \* where each thread is in a timed call for a write lock
    won,      \* retval of that call
    twice     \* whether the lock it asks for is recursive

timedVars == <<timed, won, twice>>
allVars == <<vars, timedVars>>

TimedInit ==
    /\ Init
    /\ timed = [t \in Thread |-> "idle"]
    /\ won = [t \in Thread |-> FALSE]
    /\ twice = [t \in Thread |-> TRUE]

Upto(t, label) == timed' = [timed EXCEPT ![t] = label]

-----------------------------------------------------------------------------
(* try_lock_until() and try_nonrecursive_lock_until()                      *)

\* A reader steps back; the nonrecursive call and a second reader are refused.
try_lock_until(t, recursive) ==
    /\ Call(t) /\ timed[t] = "idle" /\ ~Owns(t)
    /\ \/ /\ readlockCount[t] > 0 /\ recursive /\ ~suspended
          /\ Suspend(t) /\ baseReaders' = baseReaders \ {t}
          /\ UNCHANGED <<writelockCount, nonrecursive, readlockCount>>
       \/ /\ readlockCount[t] = 0
          /\ UNCHANGED <<state, mine, baseReaders>>
    /\ Upto(t, "try")
    /\ won' = [won EXCEPT ![t] = FALSE] /\ twice' = [twice EXCEPT ![t] = recursive]
    /\ UNCHANGED <<baseWriter, pc, given, asserted>>

\* base_class::try_lock_until() returns.
baseTry(t) ==
    /\ timed[t] = "try" /\ Upto(t, "tried")
    /\ \/ /\ baseWriter = NoThread /\ baseReaders = {}
          /\ baseWriter' = t /\ won' = [won EXCEPT ![t] = TRUE]
       \/ /\ won' = [won EXCEPT ![t] = FALSE] /\ UNCHANGED baseWriter
    /\ UNCHANGED <<baseReaders, state, pc, mine, given, calls, asserted, twice>>

\* base_class::unlock() for the thread with dibs.  That is undefined if t has not
\* locked the base mutex: it is left alone, or loses its writer (whose flag the
\* Microsoft library clears), or a reader (whom the POSIX lock counts off).
tryYield(t) ==
    /\ timed[t] = "tried" /\ HasDibs(t) /\ Upto(t, "try")
    /\ IF baseWriter = t
         THEN baseWriter' = NoThread /\ UNCHANGED baseReaders
         ELSE \/ UNCHANGED base
              \/ baseWriter # NoThread /\ baseWriter' = NoThread /\ UNCHANGED baseReaders
              \/ \E u \in baseReaders : baseReaders' = baseReaders \ {u} /\ UNCHANGED baseWriter
    /\ UNCHANGED <<state, pc, mine, given, calls, asserted, won, twice>>

\* The loop ends by its break, or at its head because the time has come.
tryEnd(t) ==
    /\ timed[t] = "try" \/ (timed[t] = "tried" /\ ~HasDibs(t))
    /\ Upto(t, "idle")
    /\ \/ /\ won[t]
          /\ Asserts(writelockCount = 0)
          /\ Written(t, ~twice[t]) /\ mine' = [mine EXCEPT ![t] = FALSE]
          /\ UNCHANGED <<suspended, pc>>
       \/ /\ ~won[t] /\ mine[t]
          /\ At(t, "restore") /\ mine' = [mine EXCEPT ![t] = FALSE]
          /\ UNCHANGED <<state, given, asserted>>
       \/ /\ ~won[t] /\ ~mine[t]
          /\ UNCHANGED <<state, given, pc, mine, asserted>>
    /\ UNCHANGED <<base, calls, won, twice>>

\* A timed call gives up where lock_shared() goes on waiting.
sharedTimeout(t) ==
    /\ pc[t] = "lock_shared" /\ At(t, "idle")
    /\ UNCHANGED <<base, state, mine, given, calls, asserted, timedVars>>

TimedNext ==
    \/ \E t \in Thread :
        /\ timed[t] = "idle" /\ UNCHANGED timedVars
        /\ Locking(t) \/ baseLock(t) \/ baseShare(t) \/ Continuing(t) \/ Unlocking(t)
    \/ \E t \in Thread, recursive \in BOOLEAN : try_lock_until(t, recursive)
    \/ \E t \in Thread : baseTry(t) \/ tryYield(t) \/ tryEnd(t) \/ sharedTimeout(t)

TimedSpec == TimedInit /\ [][TimedNext]_allVars
=============================================================================
