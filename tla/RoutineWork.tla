----------------------------- MODULE RoutineWork -----------------------------
(***************************************************************************)
(* Chapter11/coroutines/main_1.cpp: main() blocks in sync_wait while       *)
(* do_routine_work, resumed on a static_thread_pool, schedules WORK_ITEMS  *)
(* fill_number tasks on the same pool, waits for all of them and returns   *)
(* the vector they filled.  vector and async_mutex are locals of           *)
(* do_routine_work's coroutine frame; the tasks hold references to them.   *)
(*                                                                         *)
(* cppcoro is not part of the repository.  What the program relies on is   *)
(* modelled: a scheduled coroutine is resumed by some pool thread; a task  *)
(* that finds the mutex locked is suspended and gives its thread back;     *)
(* unlock() resumes one waiting task inside the call, on the unlocking     *)
(* thread, and returns when that task suspends or ends; the last task to   *)
(* complete resumes the coroutine that awaits when_all_ready, also inline. *)
(***************************************************************************)
EXTENDS Integers, Sequences, FiniteSets

CONSTANTS
    WORK_ITEMS, \* number of fill_number tasks
    Threads     \* the threads of static_thread_pool

ASSUME WorkAssumption ==
    /\ WORK_ITEMS \in Nat \ {0}
    /\ Threads # {}

VARIABLES
    main,      \* where main() is
    routine,   \* where do_routine_work is
    item,      \* item[i]: where fill_number(i) is
    queue,     \* coroutines handed to the pool that no thread has taken yet
    stack,     \* stack[t]: coroutines resumed on thread t, innermost first
    locked,    \* the async_mutex is held
    waiters,   \* tasks suspended in co_await mutex.scoped_lock_async()
    ints,      \* the vector the tasks append to
    finish,    \* finish[i]: end of ints as emplace_back(i) has read it
    remaining, \* the counter of when_all_ready: tasks and the awaiting frame
    result     \* what sync_wait hands to main()

workVars == <<main, routine, item, queue, stack, locked, waiters, ints, finish,
          remaining, result>>

-----------------------------------------------------------------------------
Items == 0 .. WORK_ITEMS - 1
Routine == -1   \* do_routine_work among the coroutines
Coroutines == Items \cup {Routine}

Running(t, c) == stack[t] # <<>> /\ Head(stack[t]) = c
Leave(t) == stack' = [stack EXCEPT ![t] = Tail(@)]
Enter(t, c) == stack' = [stack EXCEPT ![t] = <<c>> \o @]

\* Tasks that hold the mutex: between the lock's construction and destruction.
Holds(i) == item[i] \in {"locked", "emplacing", "emplaced"}

\* Tasks that have not reported to when_all_ready yet.
Outstanding == {i \in Items : item[i] # "done"}

-----------------------------------------------------------------------------
\* Nothing has run yet; when_all_ready will count n events before it resumes.
Counting(n) ==
    /\ main = "started" /\ routine = "created"
    /\ item = [i \in Items |-> "created"]
    /\ queue = {}
    /\ stack = [t \in Threads |-> <<>>]
    /\ locked = FALSE /\ waiters = {}
    /\ ints = <<>> /\ finish = [i \in Items |-> 0]
    /\ remaining = n
    /\ result = <<>>

\* Mutant of WorkInit: the counter leaves out the awaiting frame.
WorkInit_TasksOnly == Counting(WORK_ITEMS)

WorkInit == Counting(WORK_ITEMS + 1)

\* sync_wait(work) runs do_routine_work on the main thread as far as
\* co_await thread_pool.schedule() and blocks.
SyncWait ==
    /\ main = "started"
    /\ main' = "waiting"
    /\ routine' = "spawning"
    /\ queue' = queue \cup {Routine}
    /\ UNCHANGED <<item, stack, locked, waiters, ints, finish, remaining, result>>

\* An idle pool thread resumes a scheduled coroutine.
Take(t, c) ==
    /\ stack[t] = <<>> /\ c \in queue
    /\ queue' = queue \ {c}
    /\ Enter(t, c)
    /\ item' = IF c = Routine THEN item ELSE [item EXCEPT ![c] = "producing"]
    /\ UNCHANGED <<main, routine, locked, waiters, ints, finish, remaining, result>>

\* when_all_ready starts the tasks one after another; each runs on the
\* routine's thread up to schedule_on's co_await and is then in the pool's
\* hands, while the routine goes on with the next.
Spawn(t, i) ==
    /\ Running(t, Routine) /\ routine = "spawning"
    /\ item[i] = "created" /\ \A j \in Items : j < i => item[j] # "created"
    /\ item' = [item EXCEPT ![i] = "queued"]
    /\ queue' = queue \cup {i}
    /\ UNCHANGED <<main, routine, stack, locked, waiters, ints, finish, remaining, result>>

\* All are started: the routine suspends unless they are all complete already.
AwaitAll(t) ==
    /\ Running(t, Routine) /\ routine = "spawning"
    /\ \A i \in Items : item[i] # "created"
    /\ remaining' = remaining - 1
    /\ IF remaining = 1
         THEN routine' = "resumed" /\ UNCHANGED stack
         ELSE routine' = "suspended" /\ Leave(t)
    /\ UNCHANGED <<main, item, queue, locked, waiters, ints, finish, result>>

\* Mutant of Lock: a mutex that blocks the thread instead of the task.
Lock_BlocksThread(t, i) ==
    /\ Running(t, i) /\ item[i] = "producing"
    /\ \/ /\ ~locked
          /\ locked' = TRUE
          /\ item' = [item EXCEPT ![i] = "locked"]
          /\ UNCHANGED waiters
       \/ /\ locked
          /\ waiters' = waiters \cup {i}
          /\ item' = [item EXCEPT ![i] = "waiting"]
          /\ UNCHANGED locked
    /\ UNCHANGED <<main, routine, queue, stack, ints, finish, remaining, result>>

\* The sleep is over: co_await mutex.scoped_lock_async().
Lock(t, i) ==
    /\ Running(t, i) /\ item[i] = "producing"
    /\ \/ /\ ~locked
          /\ locked' = TRUE
          /\ item' = [item EXCEPT ![i] = "locked"]
          /\ UNCHANGED <<waiters, stack>>
       \/ /\ locked
          /\ waiters' = waiters \cup {i}
          /\ item' = [item EXCEPT ![i] = "waiting"]
          /\ Leave(t)
          /\ UNCHANGED locked
    /\ UNCHANGED <<main, routine, queue, ints, finish, remaining, result>>

\* ints.emplace_back(i) reads where the vector ends ...
EmplaceBegin(t, i) ==
    /\ Running(t, i) /\ item[i] = "locked"
    /\ item' = [item EXCEPT ![i] = "emplacing"]
    /\ finish' = [finish EXCEPT ![i] = Len(ints)]
    /\ UNCHANGED <<main, routine, queue, stack, locked, waiters, ints, remaining, result>>

\* ... constructs the element there and moves the end behind it.  The
\* capacity reserved by do_routine_work suffices, so nothing is reallocated.
EmplaceEnd(t, i) ==
    /\ Running(t, i) /\ item[i] = "emplacing"
    /\ item' = [item EXCEPT ![i] = "emplaced"]
    /\ ints' = SubSeq(ints, 1, finish[i]) \o <<i>>
    /\ UNCHANGED <<main, routine, queue, stack, locked, waiters, finish, remaining, result>>

\* The scope of the lock ends: unlock() releases the mutex, or passes it to a
\* waiting task and resumes that task on this thread.
Unlock(t, i) ==
    /\ Running(t, i) /\ item[i] = "emplaced"
    /\ \/ /\ waiters = {}
          /\ locked' = FALSE
          /\ item' = [item EXCEPT ![i] = "produced"]
          /\ UNCHANGED <<waiters, stack>>
       \/ \E w \in waiters :
          /\ waiters' = waiters \ {w}
          /\ item' = [item EXCEPT ![i] = "produced", ![w] = "locked"]
          /\ Enter(t, w)
          /\ UNCHANGED locked
    /\ UNCHANGED <<main, routine, queue, ints, finish, remaining, result>>

\* co_return: the task reports to when_all_ready; the last report resumes
\* do_routine_work inside the call.
Complete(t, i) ==
    /\ Running(t, i) /\ item[i] = "produced"
    /\ item' = [item EXCEPT ![i] = "done"]
    /\ remaining' = remaining - 1
    /\ IF remaining = 1
         THEN /\ routine' = "resumed"
              /\ stack' = [stack EXCEPT ![t] = <<Routine>> \o Tail(@)]
         ELSE Leave(t) /\ UNCHANGED routine
    /\ UNCHANGED <<main, queue, locked, waiters, ints, finish, result>>

\* co_return ints: the vector is moved to the awaiting main(), the locals are
\* destroyed and sync_wait's event is set.
Return(t) ==
    /\ Running(t, Routine) /\ routine = "resumed"
    /\ routine' = "returned"
    /\ result' = ints /\ ints' = <<>>
    /\ Leave(t)
    /\ UNCHANGED <<main, item, queue, locked, waiters, finish, remaining>>

\* Mutant of WorkDone: the work is started but not waited for.
WorkDone_NotAwaited ==
    /\ main = "waiting"
    /\ main' = "printed"
    /\ UNCHANGED <<routine, item, queue, stack, locked, waiters, ints, finish, remaining, result>>

\* sync_wait returns and main() prints the result.
WorkDone ==
    /\ main = "waiting" /\ routine = "returned"
    /\ main' = "printed"
    /\ UNCHANGED <<routine, item, queue, stack, locked, waiters, ints, finish, remaining, result>>

\* The destructor of static_thread_pool joins the threads.
Join ==
    /\ main = "printed" /\ \A t \in Threads : stack[t] = <<>>
    /\ main' = "exited"
    /\ UNCHANGED <<routine, item, queue, stack, locked, waiters, ints, finish, remaining, result>>

-----------------------------------------------------------------------------
Fill(t, i) ==
    \/ Spawn(t, i) \/ Lock(t, i) \/ EmplaceBegin(t, i) \/ EmplaceEnd(t, i)
    \/ Unlock(t, i) \/ Complete(t, i)

Thread(t) ==
    \/ \E c \in Coroutines : Take(t, c)
    \/ \E i \in Items : Fill(t, i)
    \/ AwaitAll(t) \/ Return(t)

Main == SyncWait \/ WorkDone \/ Join

Exited == main = "exited" /\ UNCHANGED workVars

WorkNext == Main \/ (\E t \in Threads : Thread(t)) \/ Exited

\* The operating system runs every thread that can run.
Fairness == WF_workVars(Main) /\ \A t \in Threads : WF_workVars(Thread(t))

WorkSpec == WorkInit /\ [][WorkNext]_workVars
FairWork == WorkSpec /\ Fairness

-----------------------------------------------------------------------------
WorkOK ==
    /\ main \in {"started", "waiting", "printed", "exited"}
    /\ routine \in {"created", "spawning", "suspended", "resumed", "returned"}
    /\ item \in [Items -> {"created", "queued", "producing", "waiting", "locked",
                           "emplacing", "emplaced", "produced", "done"}]
    /\ queue \subseteq Coroutines
    /\ stack \in [Threads -> Seq(Coroutines)]
    /\ locked \in BOOLEAN
    /\ waiters \subseteq Items
    /\ ints \in Seq(Items)
    /\ finish \in [Items -> Nat]
    /\ remaining \in Nat
    /\ result \in Seq(Items)

\* Never two tasks between the construction and the destruction of `lock`,
\* whatever thread they are on and whoever handed them the mutex; the mutex is
\* locked exactly while some task is there.
MutualExclusion ==
    /\ \A i, j \in Items : Holds(i) /\ Holds(j) => i = j
    /\ locked <=> \E i \in Items : Holds(i)

\* The vector the tasks share, or what main() got once it was moved there.
Output == IF routine = "returned" THEN result ELSE ints

\* No emplace_back is lost, overwritten or done twice: at every moment the
\* vector holds each task that is past its emplace_back once, and no other.
NothingLost ==
    /\ \A i \in Items :
        item[i] \in {"emplaced", "produced", "done"} <=>
            \E k \in DOMAIN Output : Output[k] = i
    /\ \A k, l \in DOMAIN Output : Output[k] = Output[l] => k = l

\* do_routine_work goes on after when_all_ready, and destroys the mutex and the
\* vector, only when no task will touch them any more: all have completed, the
\* mutex is free and nobody waits for it.
FrameOutlivesTasks ==
    routine \in {"resumed", "returned"} =>
        Outstanding = {} /\ ~locked /\ waiters = {}

\* A coroutine that has resumed another inside a call of its own has released
\* the mutex before, and no coroutine is on two threads, on a thread and in the
\* queue, or on a thread while it waits for the mutex.
StackDiscipline ==
    \A t \in Threads : \A k \in DOMAIN stack[t] :
        LET c == stack[t][k] IN
        /\ k > 1 => c \in Items /\ item[c] = "produced"
        /\ c \notin queue \cup waiters
        /\ \A u \in Threads : \A l \in DOMAIN stack[u] :
            stack[u][l] = c => u = t /\ l = k

\* main() ends: no task waits for a mutex nobody will release, and no wake-up
\* of do_routine_work or of main() is lost.
Finishes == <>(main = "exited")

\* The program implements what it promises.
Promise == INSTANCE ProducedOnce WITH
    out <- Output, reported <- main \in {"printed", "exited"}

PromiseKept == Promise!AbsSpec
=============================================================================
