------------------------- MODULE RecursiveSharedMutex -------------------------
(***************************************************************************)
(* SaferCPlusPlus, mse::recursive_shared_timed_mutex (mseasyncshared.h): a *)
(* readers-writer lock whose owner may lock it again and whose readers may *)
(* upgrade.  It is built on a std::shared_timed_mutex, the base mutex,     *)
(* that has neither.                                                       *)
(*                                                                         *)
(* A thread holds m_state_mutex1 throughout a call except while it waits   *)
(* for the base mutex (unlock_guard), so a call is one step up to such a   *)
(* wait, one step that gets the base mutex, and one step after it.         *)
(***************************************************************************)
EXTENDS Integers, FiniteSets

CONSTANTS
    Thread,
    NoThread,   \* the default std::thread::id
    MaxHeld,    \* bound: locks of one kind that a thread holds at once
    MaxCalls    \* bound: calls to lock, of any kind, that each thread makes

ASSUME ThreadAssumption == NoThread \notin Thread /\ MaxHeld \in Nat /\ MaxCalls \in Nat

VARIABLES
    baseWriter, baseReaders,   \* the base mutex
    owner,          \* m_writelock_or_suspended_shared_lock_thread_id
    writelockCount, nonrecursive,
    readlockCount,  \* m_thread_id_readlock_count_map; m_readlock_count is its sum
    suspended,      \* m_a_shared_lock_is_suspended_to_allow_an_exclusive_lock
    pc,             \* where each thread is
    mine,           \* the_shared_lock_of_this_thread_is_suspended...
    reads, writes,  \* history: the locks each thread has been given
    calls,          \* history: calls each thread has made
    asserted        \* history: every assert() so far has held

base == <<baseWriter, baseReaders>>
state == <<owner, writelockCount, nonrecursive, readlockCount, suspended>>
given == <<reads, writes>>
vars == <<base, state, pc, mine, given, calls, asserted>>

Init ==
    /\ baseWriter = NoThread /\ baseReaders = {}
    /\ owner = NoThread /\ writelockCount = 0 /\ nonrecursive = FALSE
    /\ readlockCount = [t \in Thread |-> 0] /\ suspended = FALSE
    /\ pc = [t \in Thread |-> "idle"] /\ mine = [t \in Thread |-> FALSE]
    /\ reads = [t \in Thread |-> 0] /\ writes = [t \in Thread |-> 0]
    /\ calls = [t \in Thread |-> 0] /\ asserted = TRUE

-----------------------------------------------------------------------------
Owns(t) == writelockCount > 0 /\ owner = t
Reading == \E t \in Thread : readlockCount[t] > 0

At(t, label) == pc' = [pc EXCEPT ![t] = label]
Asserts(condition) == asserted' = (asserted /\ condition)

\* A call to lock in one way or another.
Call(t) ==
    /\ pc[t] = "idle" /\ calls[t] < MaxCalls
    /\ calls' = [calls EXCEPT ![t] = @ + 1]

\* The call has given t a write lock.
Written(t, exclusive) ==
    /\ owner' = t /\ writelockCount' = writelockCount + 1 /\ nonrecursive' = exclusive
    /\ writes' = [writes EXCEPT ![t] = @ + 1]
    /\ UNCHANGED <<readlockCount, reads>>

\* The call has given t a read lock.
ReadGiven(t) ==
    /\ readlockCount' = [readlockCount EXCEPT ![t] = @ + 1]
    /\ reads' = [reads EXCEPT ![t] = @ + 1]
    /\ UNCHANGED <<writelockCount, nonrecursive, writes>>

\* t gives up its shared lock of the base mutex for as long as it writes.
Suspend(t) ==
    /\ mine' = [mine EXCEPT ![t] = TRUE]
    /\ owner' = t /\ suspended' = TRUE

Throw(t) == UNCHANGED <<base, state, pc, mine, given>>

-----------------------------------------------------------------------------
(* lock() and nonrecursive_lock()                                          *)

MayLock(t) == writes[t] < MaxHeld /\ ~(Owns(t) /\ nonrecursive)

\* Mutant of WouldDeadlock: a second reader may wait for a write lock as well.
WouldDeadlock_Never(t) == FALSE

\* Another reader already waits for this one to give way.
WouldDeadlock(t) == suspended

\* Mutant of lock: the upgrading reader does not register that it has stepped back.
lock_Unregistered(t) ==
    /\ Call(t) /\ MayLock(t)
    /\ Asserts(~Owns(t) /\ Reading => writelockCount = 0)
    /\ \/ /\ Owns(t) /\ Written(t, FALSE)
          /\ UNCHANGED <<base, suspended, pc, mine>>
       \/ /\ ~Owns(t) /\ At(t, "lock")
          /\ baseReaders' = baseReaders \ {t}
          /\ UNCHANGED <<baseWriter, given, state, mine>>

lock(t) ==
    /\ Call(t) /\ MayLock(t)
    /\ Asserts(~Owns(t) /\ Reading => writelockCount = 0)
    /\ \/ /\ Owns(t) /\ Written(t, FALSE)
          /\ UNCHANGED <<base, suspended, pc, mine>>
       \/ /\ ~Owns(t) /\ readlockCount[t] > 0 /\ WouldDeadlock(t)
          /\ Throw(t)
       \/ /\ ~Owns(t) /\ readlockCount[t] > 0 /\ ~WouldDeadlock(t)
          /\ Suspend(t) /\ At(t, "lock")
          /\ baseReaders' = baseReaders \ {t}
          /\ UNCHANGED <<baseWriter, writelockCount, nonrecursive, readlockCount, given>>
       \/ /\ ~Owns(t) /\ readlockCount[t] = 0
          /\ At(t, "lock")
          /\ UNCHANGED <<base, state, mine, given>>

nonrecursive_lock(t) ==
    /\ Call(t)
    /\ Asserts(TRUE)
    /\ IF Owns(t) \/ readlockCount[t] > 0
         THEN Throw(t)
         ELSE At(t, "nonrecursive_lock") /\ UNCHANGED <<base, state, mine, given>>

\* base_class::lock() returns.
baseLock(t) ==
    /\ pc[t] \in {"lock", "nonrecursive_lock"}
    /\ baseWriter = NoThread /\ baseReaders = {}
    /\ baseWriter' = t
    /\ pc' = [pc EXCEPT ![t] = IF @ = "lock" THEN "locked" ELSE "nonrecursive_locked"]
    /\ UNCHANGED <<baseReaders, state, mine, given, calls, asserted>>

\* Mutant of HasDibs: whoever gets the base mutex first keeps it.
HasDibs_Nobody(t) == FALSE

\* A reader that has stepped back comes first.
HasDibs(t) == suspended /\ ~mine[t]

lockYield(t) ==
    /\ pc[t] \in {"locked", "nonrecursive_locked"} /\ HasDibs(t)
    /\ baseWriter' = NoThread
    /\ pc' = [pc EXCEPT ![t] = IF @ = "locked" THEN "lock" ELSE "nonrecursive_lock"]
    /\ UNCHANGED <<baseReaders, state, mine, given, calls, asserted>>

lockReturn(t) ==
    /\ pc[t] \in {"locked", "nonrecursive_locked"} /\ ~HasDibs(t)
    /\ Asserts(writelockCount = 0)
    /\ Written(t, pc[t] = "nonrecursive_locked")
    /\ mine' = [mine EXCEPT ![t] = FALSE] /\ At(t, "idle")
    /\ UNCHANGED <<base, suspended, calls>>

-----------------------------------------------------------------------------
(* try_lock() and try_nonrecursive_lock(); the base mutex may refuse even  *)
(* though it is free.                                                      *)

BaseFree(readers) == baseWriter = NoThread /\ readers = {}

tryLockOwned(t) ==
    /\ Call(t) /\ MayLock(t) /\ Owns(t) /\ ~suspended
    /\ Written(t, FALSE)
    /\ UNCHANGED <<base, suspended, pc, mine, asserted>>

\* t holds no lock; it gets one that is exclusive within the thread or not.
tryLockFree(t, exclusive) ==
    /\ Call(t) /\ ~suspended /\ ~Owns(t) /\ readlockCount[t] = 0
    /\ BaseFree(baseReaders) /\ baseWriter' = t
    /\ Asserts(writelockCount = 0)
    /\ Written(t, exclusive)
    /\ UNCHANGED <<baseReaders, suspended, pc, mine>>

\* t holds a read lock: it steps back from the base mutex and tries to write.
tryUpgrade(t) ==
    /\ Call(t) /\ ~suspended /\ ~Owns(t) /\ readlockCount[t] > 0
    /\ Asserts(writelockCount = 0)
    /\ suspended' = TRUE /\ baseReaders' = baseReaders \ {t}
    /\ \/ /\ BaseFree(baseReaders \ {t}) /\ baseWriter' = t
          /\ Written(t, FALSE) /\ UNCHANGED <<pc, mine>>
       \/ /\ owner' = t /\ At(t, "restore")
          /\ UNCHANGED <<baseWriter, writelockCount, nonrecursive, readlockCount, mine, given>>

\* The upgrade has failed and t has its shared lock of the base mutex back.
restored(t) ==
    /\ pc[t] = "restored"
    /\ Asserts(suspended)
    /\ suspended' = FALSE /\ At(t, "idle")
    /\ UNCHANGED <<base, owner, writelockCount, nonrecursive, readlockCount, mine, given, calls>>

-----------------------------------------------------------------------------
(* lock_shared() and try_lock_shared()                                     *)

MayRead(t) == reads[t] < MaxHeld /\ ~(Owns(t) /\ nonrecursive)

\* Both calls, when t has a lock already.
lockSharedAgain(t) ==
    /\ Call(t) /\ MayRead(t)
    /\ \/ /\ readlockCount[t] > 0
          /\ UNCHANGED <<owner, suspended, asserted>>
       \/ /\ readlockCount[t] = 0 /\ Owns(t)
          /\ Asserts(~suspended)
          /\ owner' = t /\ suspended' = TRUE
    /\ ReadGiven(t)
    /\ UNCHANGED <<base, pc, mine>>

lock_shared(t) ==
    /\ Call(t) /\ readlockCount[t] = 0 /\ ~Owns(t)
    /\ At(t, "lock_shared")
    /\ UNCHANGED <<base, state, mine, given, asserted>>

lockSharedReturn(t) ==
    /\ pc[t] = "shared"
    /\ ReadGiven(t) /\ At(t, "idle")
    /\ UNCHANGED <<base, owner, suspended, mine, calls, asserted>>

try_lock_shared(t) ==
    /\ Call(t) /\ readlockCount[t] = 0 /\ ~Owns(t)
    /\ baseWriter = NoThread /\ baseReaders' = baseReaders \cup {t}
    /\ ReadGiven(t)
    /\ UNCHANGED <<baseWriter, owner, suspended, pc, mine, asserted>>

\* base_class::lock_shared() returns, in lock_shared(), unlock() or try_lock().
baseShare(t) ==
    /\ pc[t] \in {"lock_shared", "unlock", "restore"}
    /\ baseWriter = NoThread
    /\ baseReaders' = baseReaders \cup {t}
    /\ pc' = [pc EXCEPT ![t] = CASE @ = "lock_shared" -> "shared"
                                 [] @ = "unlock" -> "unlocked"
                                 [] @ = "restore" -> "restored"]
    /\ UNCHANGED <<baseWriter, state, mine, given, calls, asserted>>

-----------------------------------------------------------------------------
(* unlock(), nonrecursive_unlock() and unlock_shared(), called only by a   *)
(* thread that holds what it gives back.                                   *)

\* Mutant of unlock: the shared lock is not taken back.
unlock_ForgetsShared(t) ==
    /\ pc[t] = "idle" /\ writes[t] > 0
    /\ writes' = [writes EXCEPT ![t] = @ - 1]
    /\ writelockCount' = writelockCount - 1 /\ nonrecursive' = FALSE
    /\ baseWriter' = IF writelockCount = 1 THEN NoThread ELSE baseWriter
    /\ suspended' = (suspended /\ writelockCount > 1)
    /\ UNCHANGED <<baseReaders, owner, readlockCount, pc, mine, reads, calls, asserted>>

unlock(t) ==
    /\ pc[t] = "idle" /\ writes[t] > 0
    /\ Asserts(writelockCount = 1 /\ suspended => owner = t)
    /\ writes' = [writes EXCEPT ![t] = @ - 1]
    /\ nonrecursive' = (nonrecursive /\ writelockCount > 1)
    /\ IF writelockCount > 1
         THEN writelockCount' = writelockCount - 1 /\ UNCHANGED <<baseWriter, pc>>
         ELSE /\ baseWriter' = NoThread
              /\ IF suspended THEN At(t, "unlock") /\ UNCHANGED writelockCount
                              ELSE writelockCount' = 0 /\ UNCHANGED pc
    /\ UNCHANGED <<baseReaders, owner, readlockCount, suspended, mine, reads, calls>>

\* The shared lock that made way for the write lock has been taken back.
unlockReturn(t) ==
    /\ pc[t] = "unlocked"
    /\ suspended' = FALSE /\ writelockCount' = writelockCount - 1 /\ At(t, "idle")
    /\ UNCHANGED <<base, owner, nonrecursive, readlockCount, mine, given, calls, asserted>>

unlock_shared(t) ==
    /\ pc[t] = "idle" /\ reads[t] > 0
    /\ reads' = [reads EXCEPT ![t] = @ - 1]
    /\ readlockCount' = [readlockCount EXCEPT ![t] = @ - 1]
    /\ IF readlockCount[t] = 1
         THEN IF suspended /\ owner = t
                THEN suspended' = FALSE /\ UNCHANGED baseReaders
                ELSE baseReaders' = baseReaders \ {t} /\ UNCHANGED suspended
         ELSE UNCHANGED <<suspended, baseReaders>>
    /\ UNCHANGED <<baseWriter, owner, writelockCount, nonrecursive, pc, mine, writes, calls, asserted>>

-----------------------------------------------------------------------------
Locking(t) ==
    \/ lock(t) \/ nonrecursive_lock(t)
    \/ tryLockOwned(t) \/ (\E exclusive \in BOOLEAN : tryLockFree(t, exclusive)) \/ tryUpgrade(t)
    \/ lockSharedAgain(t) \/ lock_shared(t) \/ try_lock_shared(t)

\* What follows a wait for the base mutex.
Continuing(t) ==
    lockYield(t) \/ lockReturn(t) \/ lockSharedReturn(t) \/ unlockReturn(t) \/ restored(t)

Unlocking(t) == unlock(t) \/ unlock_shared(t)

Next == \E t \in Thread :
    Locking(t) \/ baseLock(t) \/ baseShare(t) \/ Continuing(t) \/ Unlocking(t)

Spec == Init /\ [][Next]_vars

\* A thread keeps running, gives back what it holds, and gets the base mutex in
\* the end if it finds it free again and again.
FairSpec ==
    /\ Spec
    /\ \A t \in Thread :
        /\ WF_vars(Continuing(t)) /\ WF_vars(Unlocking(t))
        /\ SF_vars(baseLock(t)) /\ SF_vars(baseShare(t))

-----------------------------------------------------------------------------
Label == {"idle", "lock", "locked", "nonrecursive_lock", "nonrecursive_locked",
          "restore", "restored", "lock_shared", "shared", "unlock", "unlocked"}

\* The state a call leaves is one the fields can hold: a thread is registered as
\* owner before anything is counted, and no count goes below zero.
TypeOK ==
    /\ baseWriter \in Thread \cup {NoThread} /\ baseReaders \in SUBSET Thread
    /\ owner \in Thread \cup {NoThread} /\ writelockCount \in Nat
    /\ nonrecursive \in BOOLEAN /\ suspended \in BOOLEAN
    /\ readlockCount \in [Thread -> Nat]
    /\ pc \in [Thread -> Label] /\ mine \in [Thread -> BOOLEAN]
    /\ reads \in [Thread -> Nat] /\ writes \in [Thread -> Nat]
    /\ calls \in [Thread -> Nat] /\ asserted \in BOOLEAN

\* Every write lock is backed by the base mutex and recorded for its owner.
WriterHasBase == \A t \in Thread : writes[t] > 0 =>
    baseWriter = t /\ owner = t /\ writelockCount = writes[t] /\ pc[t] = "idle"

\* Every read lock is backed by a share of the base mutex, or by the one note that
\* the share was given up for a write lock of the same thread.  (The note stands
\* while lock() and unlock() wait for the base mutex with m_state_mutex1 released.)
ReaderHasBase == \A t \in Thread : reads[t] > 0 =>
    t \in baseReaders \/ (suspended /\ owner = t)

\* The note of a suspended share always belongs to a thread that reads.
NoteHasReader == suspended => owner \in Thread /\ reads[owner] > 0

\* What a thread has been given is always backed by the base mutex, or noted.
LocksBacked == WriterHasBase /\ ReaderHasBase /\ NoteHasReader

\* While a thread holds a write lock no other thread holds any (README.md, "will
\* not simultaneously co-exist with any lock pointer ... in any other thread").
Exclusion == \A t \in Thread : writes[t] > 0 =>
    \A u \in Thread \ {t} : writes[u] = 0 /\ reads[u] = 0

Promise == INSTANCE ReadWriteLock

\* The mutex keeps the promise of the lock pointers: no reader is passed by another
\* writer while it waits for its upgrade, or while it comes back from it.
PromiseKept == Promise!Spec

\* Every call that waits comes back: threads that read and wait for a write lock
\* do not wait for each other (lock() throws instead), and a thread that yields
\* the base mutex does so only as long as an upgrade is under way.
EveryCallReturns == \A t \in Thread : pc[t] # "idle" ~> pc[t] = "idle"

\* The assertions in the code hold.
AssertionsHold == asserted
=============================================================================
