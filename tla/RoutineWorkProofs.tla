-------------------------- MODULE RoutineWorkProofs --------------------------
(***************************************************************************)
(* Proofs about RoutineWork for every number of tasks and every set of     *)
(* threads.                                                                *)
(***************************************************************************)
EXTENDS RoutineWork, FiniteSetTheorems, SequenceTheorems, TLAPS

-----------------------------------------------------------------------------
\* The tasks are numbered, and the coroutine that starts them is none of them.
LEMMA CoroutineFacts ==
    /\ Routine \notin Items /\ Items \subseteq Coroutines /\ Routine \in Coroutines
    /\ IsFiniteSet(Items) /\ Cardinality(Items) = WORK_ITEMS
    /\ Items \subseteq Int
<1>1. IsFiniteSet(Items) /\ Cardinality(Items) = WORK_ITEMS
    BY FS_Interval, WorkAssumption DEF Items
<1> QED
    BY <1>1, WorkAssumption DEF Items, Routine, Coroutines

\* The counter of when_all_ready counts finitely many.
LEMMA OutstandingFinite == IsFiniteSet(Outstanding) /\ Cardinality(Outstanding) \in Nat
<1>1. Outstanding \in SUBSET Items
    BY DEF Outstanding
<1> QED
    BY <1>1, CoroutineFacts, FS_Subset, FS_CardinalityType

\* A thread's stack stays a stack of coroutines when one leaves or enters.
LEMMA StackLemma ==
    ASSUME WorkOK, NEW t \in Threads, NEW c \in Coroutines
    PROVE  /\ stack[t] # <<>> => [stack EXCEPT ![t] = Tail(@)] \in [Threads -> Seq(Coroutines)]
           /\ [stack EXCEPT ![t] = <<c>> \o @] \in [Threads -> Seq(Coroutines)]
           /\ stack[t] # <<>> =>
                [stack EXCEPT ![t] = <<c>> \o Tail(@)] \in [Threads -> Seq(Coroutines)]
BY DEF WorkOK

(***************************************************************************)
(* The inductive invariant.  NothingLost needs to know that the end of the *)
(* vector an emplace_back has read is still its end, which is what mutual  *)
(* exclusion gives; FrameOutlivesTasks that the counter of when_all_ready  *)
(* counts the outstanding tasks and the frame that has not suspended yet.  *)
(***************************************************************************)
EndIsCurrent == \A i \in Items : item[i] = "emplacing" => finish[i] = Len(ints)

PlacesMatch ==
    /\ \A i \in waiters : item[i] = "waiting"
    /\ \A i \in Items : i \in queue => item[i] = "queued"
    /\ main = "started" => routine = "created"

NotSuspended == IF routine \in {"created", "spawning"} THEN 1 ELSE 0
CounterExact == remaining = Cardinality(Outstanding) + NotSuspended

IInv ==
    /\ WorkOK /\ MutualExclusion /\ EndIsCurrent /\ PlacesMatch
    /\ CounterExact /\ NothingLost /\ FrameOutlivesTasks

Pcs == {"created", "queued", "producing", "waiting", "locked",
        "emplacing", "emplaced", "produced", "done"}

\* The counter is not zero while someone has yet to count it down.
LEMMA CounterPositive ==
    ASSUME WorkOK, CounterExact,
           routine \in {"created", "spawning"} \/ \E i \in Items : item[i] # "done"
    PROVE  remaining \in Nat /\ remaining > 0
<1>1. CASE routine \in {"created", "spawning"}
    BY <1>1, OutstandingFinite DEF CounterExact, NotSuspended
<1>2. CASE \E i \in Items : item[i] # "done"
    <2>1. Outstanding # {}
        BY <1>2 DEF Outstanding
    <2>2. Cardinality(Outstanding) # 0
        BY <2>1, OutstandingFinite, FS_EmptySet
    <2> QED
        BY <2>2, OutstandingFinite DEF CounterExact, NotSuspended
<1> QED
    BY <1>1, <1>2

\* Only the last outstanding task finds the counter at one, and only once the
\* awaiting routine has suspended.
LEMMA LastReport ==
    ASSUME CounterExact, remaining = 1, NEW i \in Items, item[i] # "done"
    PROVE  Outstanding = {i} /\ routine \notin {"created", "spawning"}
<1>1. Outstanding # {} /\ i \in Outstanding
    BY DEF Outstanding
<1>2. Cardinality(Outstanding) # 0
    BY <1>1, OutstandingFinite, FS_EmptySet
<1>3. Cardinality(Outstanding) = 1 /\ routine \notin {"created", "spawning"}
    BY <1>2, OutstandingFinite DEF CounterExact, NotSuspended
<1>4. PICK j : Outstanding = {j}
    BY <1>3, OutstandingFinite, FS_Singleton
<1> QED
    BY <1>1, <1>3, <1>4

\* A step keeps the types.
LEMMA TypeStep == IInv /\ [WorkNext]_workVars => WorkOK'
<1> SUFFICES ASSUME IInv, [WorkNext]_workVars PROVE WorkOK'
    OBVIOUS
<1>a. /\ WorkOK /\ CounterExact /\ EndIsCurrent
      /\ item \in [Items -> Pcs] /\ waiters \subseteq Items
    BY DEF IInv, WorkOK, Pcs
<1>1. CASE UNCHANGED workVars
    BY <1>a, <1>1 DEF workVars, WorkOK
<1>2. CASE Main
    BY <1>a, <1>2, CoroutineFacts DEF Main, SyncWait, WorkDone, Join, WorkOK
<1>3. ASSUME NEW t \in Threads, NEW c \in Coroutines, Take(t, c) PROVE WorkOK'
    <2>1. stack' \in [Threads -> Seq(Coroutines)]
        BY <1>a, <1>3, StackLemma DEF Take, Enter
    <2>2. item' \in [Items -> Pcs]
        BY <1>a, <1>3 DEF Take, Coroutines, Pcs
    <2> QED
        BY <1>a, <1>3, <2>1, <2>2 DEF Take, WorkOK, Pcs
<1>4. ASSUME NEW t \in Threads, AwaitAll(t) PROVE WorkOK'
    <2>1. stack' \in [Threads -> Seq(Coroutines)]
        <3>1. CASE Leave(t)
            BY <1>a, <1>4, <3>1, StackLemma, CoroutineFacts DEF AwaitAll, Leave, Running
        <3>2. CASE UNCHANGED stack
            BY <1>a, <3>2 DEF WorkOK
        <3> QED
            BY <1>4, <3>1, <3>2 DEF AwaitAll
    <2>2. remaining' \in Nat
        BY <1>a, <1>4, CounterPositive DEF AwaitAll
    <2> QED
        BY <1>a, <1>4, <2>1, <2>2 DEF AwaitAll, WorkOK
<1>5. ASSUME NEW t \in Threads, Return(t) PROVE WorkOK'
    <2>1. stack' \in [Threads -> Seq(Coroutines)]
        BY <1>a, <1>5, StackLemma, CoroutineFacts DEF Return, Leave, Running
    <2> QED
        BY <1>a, <1>5, <2>1 DEF Return, WorkOK
<1>6. ASSUME NEW t \in Threads, NEW i \in Items, Fill(t, i) PROVE WorkOK'
    <2>1. CASE Spawn(t, i)
        BY <1>a, <2>1, CoroutineFacts DEF Spawn, WorkOK
    <2>2. CASE Lock(t, i)
        <3>1. stack' \in [Threads -> Seq(Coroutines)]
            <4>1. CASE Leave(t)
                BY <1>a, <2>2, <4>1, StackLemma, CoroutineFacts DEF Lock, Leave, Running
            <4>2. CASE UNCHANGED stack
                BY <1>a, <4>2 DEF WorkOK
            <4> QED
                BY <2>2, <4>1, <4>2 DEF Lock
        <3> QED
            BY <1>a, <2>2, <3>1 DEF Lock, WorkOK
    <2>3. CASE EmplaceBegin(t, i)
        BY <1>a, <2>3 DEF EmplaceBegin, WorkOK
    <2>4. CASE EmplaceEnd(t, i)
        <3>1. ints \in Seq(Items) /\ finish[i] = Len(ints)
            BY <1>a, <2>4 DEF EmplaceEnd, EndIsCurrent, WorkOK
        <3>2. ints' \in Seq(Items)
            BY <2>4, <3>1 DEF EmplaceEnd
        <3> QED
            BY <1>a, <2>4, <3>2 DEF EmplaceEnd, WorkOK
    <2>5. CASE Unlock(t, i)
        <3>1. CASE UNCHANGED <<waiters, stack>>
            BY <1>a, <2>5, <3>1 DEF Unlock, WorkOK
        <3>2. ASSUME NEW w \in waiters, Enter(t, w), waiters' = waiters \ {w},
                     item' = [item EXCEPT ![i] = "produced", ![w] = "locked"],
                     UNCHANGED locked
              PROVE  WorkOK'
            <4>1. w \in Coroutines
                BY <1>a, CoroutineFacts
            <4>2. stack' \in [Threads -> Seq(Coroutines)]
                BY <1>a, <3>2, <4>1, StackLemma DEF Enter
            <4>3. item' \in [Items -> Pcs]
                BY <1>a, <3>2 DEF Pcs
            <4> QED
                BY <1>a, <2>5, <3>2, <4>2, <4>3 DEF Unlock, WorkOK, Pcs
        <3> QED
            BY <2>5, <3>1, <3>2 DEF Unlock
    <2>6. CASE Complete(t, i)
        <3>1. stack' \in [Threads -> Seq(Coroutines)]
            <4>1. CASE Leave(t)
                BY <1>a, <2>6, <4>1, StackLemma, CoroutineFacts DEF Complete, Leave, Running
            <4>2. CASE stack' = [stack EXCEPT ![t] = <<Routine>> \o Tail(@)]
                BY <1>a, <2>6, <4>2, StackLemma, CoroutineFacts DEF Complete, Running
            <4> QED
                BY <2>6, <4>1, <4>2 DEF Complete
        <3>2. remaining' \in Nat
            BY <1>a, <2>6, CounterPositive DEF Complete
        <3> QED
            BY <1>a, <2>6, <3>1, <3>2 DEF Complete, WorkOK
    <2> QED
        BY <1>6, <2>1, <2>2, <2>3, <2>4, <2>5, <2>6 DEF Fill
<1> QED
    BY <1>1, <1>2, <1>3, <1>4, <1>5, <1>6 DEF WorkNext, Thread, Exited

-----------------------------------------------------------------------------
\* Who holds the mutex is read off the coroutines' places alone.
LEMMA SameHolders ==
    ASSUME MutualExclusion, locked' = locked,
           \A j \in Items : Holds(j)' <=> Holds(j)
    PROVE  MutualExclusion'
BY DEF MutualExclusion

\* A step leaves at most one coroutine in the critical section.
LEMMA MutexStep == IInv /\ [WorkNext]_workVars => MutualExclusion'
<1> SUFFICES ASSUME IInv, [WorkNext]_workVars PROVE MutualExclusion'
    OBVIOUS
<1>a. /\ MutualExclusion /\ PlacesMatch
      /\ item \in [Items -> Pcs] /\ waiters \subseteq Items
    BY DEF IInv, WorkOK, Pcs
<1>1. CASE UNCHANGED <<item, locked>>
    BY <1>a, <1>1, SameHolders DEF Holds
<1>2. ASSUME NEW t \in Threads, NEW c \in Coroutines, Take(t, c)
      PROVE  MutualExclusion'
    BY <1>a, <1>2, SameHolders DEF Take, Holds, PlacesMatch, Coroutines
<1>3. ASSUME NEW t \in Threads, NEW i \in Items, Fill(t, i)
      PROVE  MutualExclusion'
    <2>1. CASE Spawn(t, i)
        BY <1>a, <2>1, SameHolders DEF Spawn, Holds
    <2>2. CASE Lock(t, i)
        BY <1>a, <2>2 DEF Lock, Holds, MutualExclusion
    <2>3. CASE EmplaceBegin(t, i)
        BY <1>a, <2>3, SameHolders DEF EmplaceBegin, Holds
    <2>4. CASE EmplaceEnd(t, i)
        BY <1>a, <2>4, SameHolders DEF EmplaceEnd, Holds
    <2>5. CASE Unlock(t, i)
        <3>1. /\ Holds(i) /\ locked
              /\ \A j \in Items : Holds(j) => j = i
            BY <1>a, <2>5 DEF Unlock, Holds, MutualExclusion
        <3>2. CASE waiters = {} /\ locked' = FALSE /\ item' = [item EXCEPT ![i] = "produced"]
            BY <1>a, <3>1, <3>2 DEF Holds, MutualExclusion
        <3>3. ASSUME NEW w \in waiters, locked' = locked,
                     item' = [item EXCEPT ![i] = "produced", ![w] = "locked"]
              PROVE  MutualExclusion'
            <4>1. w \in Items /\ w # i
                BY <1>a, <2>5 DEF PlacesMatch, Unlock
            <4>2. \A j \in Items : Holds(j)' <=> j = w
                BY <1>a, <3>1, <3>3, <4>1 DEF Holds
            <4> QED
                BY <3>1, <3>3, <4>1, <4>2 DEF MutualExclusion
        <3> QED
            BY <2>5, <3>2, <3>3 DEF Unlock
    <2>6. CASE Complete(t, i)
        BY <1>a, <2>6, SameHolders DEF Complete, Holds
    <2> QED
        BY <1>3, <2>1, <2>2, <2>3, <2>4, <2>5, <2>6 DEF Fill
<1> QED
    BY <1>1, <1>2, <1>3
    DEF WorkNext, Main, SyncWait, WorkDone, Join, Exited, Thread, AwaitAll, Return, workVars

\* A step keeps threads and coroutines in agreement on who runs where.
LEMMA PlacesStep == IInv /\ [WorkNext]_workVars => PlacesMatch'
<1> SUFFICES ASSUME IInv, [WorkNext]_workVars PROVE PlacesMatch'
    OBVIOUS
<1>a. /\ PlacesMatch /\ item \in [Items -> Pcs] /\ waiters \subseteq Items
      /\ queue \subseteq Coroutines
    BY DEF IInv, WorkOK, Pcs
<1> USE <1>a DEF PlacesMatch
<1>1. CASE UNCHANGED workVars
    BY <1>1 DEF workVars
<1>2. CASE Main
    BY <1>2, CoroutineFacts DEF Main, SyncWait, WorkDone, Join
<1>3. ASSUME NEW t \in Threads, NEW c \in Coroutines, Take(t, c) PROVE PlacesMatch'
    BY <1>3, CoroutineFacts DEF Take, Coroutines
<1>4. ASSUME NEW t \in Threads, AwaitAll(t) \/ Return(t) PROVE PlacesMatch'
    BY <1>4 DEF AwaitAll, Return
<1>5. ASSUME NEW t \in Threads, NEW i \in Items, Fill(t, i) PROVE PlacesMatch'
    <2>1. CASE Spawn(t, i)
        BY <2>1 DEF Spawn
    <2>2. CASE Lock(t, i)
        BY <2>2 DEF Lock
    <2>3. CASE EmplaceBegin(t, i) \/ EmplaceEnd(t, i)
        BY <2>3 DEF EmplaceBegin, EmplaceEnd
    <2>4. CASE Unlock(t, i)
        BY <2>4 DEF Unlock
    <2>5. CASE Complete(t, i)
        <3>1. main = "started" => remaining # 1
            BY <2>5, LastReport DEF IInv, Complete
        <3> QED
            BY <2>5, <3>1 DEF Complete
    <2> QED
        BY <1>5, <2>1, <2>2, <2>3, <2>4, <2>5 DEF Fill
<1> QED
    BY <1>1, <1>2, <1>3, <1>4, <1>5 DEF WorkNext, Thread, Exited

\* No emplace_back begins or ends inside another one.
LEMMA EndStep == IInv /\ [WorkNext]_workVars => EndIsCurrent'
<1> SUFFICES ASSUME IInv, [WorkNext]_workVars PROVE EndIsCurrent'
    OBVIOUS
<1>a. /\ EndIsCurrent /\ MutualExclusion /\ PlacesMatch /\ FrameOutlivesTasks
      /\ item \in [Items -> Pcs] /\ waiters \subseteq Items
      /\ finish \in [Items -> Nat]
    BY DEF IInv, WorkOK, Pcs
<1> USE <1>a DEF EndIsCurrent
<1>1. CASE UNCHANGED <<item, ints, finish>>
    BY <1>1
<1>2. ASSUME NEW t \in Threads, NEW c \in Coroutines, Take(t, c) PROVE EndIsCurrent'
    BY <1>2 DEF Take, Coroutines
<1>3. ASSUME NEW t \in Threads, Return(t) PROVE EndIsCurrent'
    BY <1>3 DEF Return, FrameOutlivesTasks, Outstanding
<1>4. ASSUME NEW t \in Threads, NEW i \in Items, Fill(t, i) PROVE EndIsCurrent'
    <2>1. CASE Spawn(t, i) \/ Lock(t, i) \/ Unlock(t, i) \/ Complete(t, i)
        BY <2>1 DEF Spawn, Lock, Unlock, Complete, PlacesMatch
    <2>2. CASE EmplaceBegin(t, i)
        BY <2>2 DEF EmplaceBegin
    <2>3. CASE EmplaceEnd(t, i)
        BY <2>3 DEF EmplaceEnd, MutualExclusion, Holds
    <2> QED
        BY <1>4, <2>1, <2>2, <2>3 DEF Fill
<1> QED
    BY <1>1, <1>2, <1>3, <1>4
    DEF WorkNext, Main, SyncWait, WorkDone, Join, Exited, Thread, AwaitAll, workVars

-----------------------------------------------------------------------------
\* What is outstanding is read off the coroutines' places alone.
LEMMA SameOutstanding ==
    ASSUME CounterExact, Outstanding' = Outstanding, remaining' = remaining,
           NotSuspended' = NotSuspended
    PROVE  CounterExact'
BY DEF CounterExact

\* A step keeps the counter exact.
LEMMA CounterStep == IInv /\ [WorkNext]_workVars => CounterExact'
<1> SUFFICES ASSUME IInv, [WorkNext]_workVars PROVE CounterExact'
    OBVIOUS
<1>a. /\ CounterExact /\ PlacesMatch
      /\ item \in [Items -> Pcs] /\ waiters \subseteq Items
      /\ remaining \in Nat
    BY DEF IInv, WorkOK, Pcs
<1>1. CASE UNCHANGED <<item, routine, remaining>>
    BY <1>a, <1>1, SameOutstanding DEF Outstanding, NotSuspended
<1>2. CASE SyncWait
    BY <1>a, <1>2, SameOutstanding DEF SyncWait, PlacesMatch, Outstanding, NotSuspended
<1>3. ASSUME NEW t \in Threads, NEW c \in Coroutines, Take(t, c) PROVE CounterExact'
    <2>1. \A j \in Items : item[j] = "done" <=> item'[j] = "done"
        BY <1>a, <1>3 DEF Take, PlacesMatch, Coroutines
    <2> QED
        BY <1>a, <1>3, <2>1, SameOutstanding DEF Take, Outstanding, NotSuspended
<1>4. ASSUME NEW t \in Threads, AwaitAll(t) PROVE CounterExact'
    <2>1. NotSuspended = 1 /\ NotSuspended' = 0 /\ Outstanding' = Outstanding
        BY <1>4 DEF AwaitAll, NotSuspended, Outstanding
    <2> QED
        BY <1>a, <1>4, <2>1, OutstandingFinite DEF AwaitAll, CounterExact
<1>5. ASSUME NEW t \in Threads, Return(t) PROVE CounterExact'
    BY <1>a, <1>5, SameOutstanding DEF Return, Outstanding, NotSuspended
<1>6. ASSUME NEW t \in Threads, NEW i \in Items, Fill(t, i) PROVE CounterExact'
    <2>1. CASE Spawn(t, i) \/ Lock(t, i) \/ EmplaceBegin(t, i) \/ EmplaceEnd(t, i)
               \/ Unlock(t, i)
        <3>1. \A j \in Items : item[j] = "done" <=> item'[j] = "done"
            BY <1>a, <2>1 DEF Spawn, Lock, EmplaceBegin, EmplaceEnd, Unlock, PlacesMatch
        <3>2. UNCHANGED <<routine, remaining>>
            BY <2>1 DEF Spawn, Lock, EmplaceBegin, EmplaceEnd, Unlock
        <3> QED
            BY <1>a, <3>1, <3>2, SameOutstanding DEF Outstanding, NotSuspended
    <2>2. CASE Complete(t, i)
        <3>1. i \in Outstanding /\ Outstanding' = Outstanding \ {i}
            BY <1>a, <2>2 DEF Complete, Outstanding
        <3>2. Cardinality(Outstanding') = Cardinality(Outstanding) - 1
            BY <3>1, OutstandingFinite, FS_RemoveElement
        <3>3. NotSuspended' = NotSuspended
            BY <1>a, <2>2, LastReport DEF Complete, NotSuspended
        <3>4. remaining' = remaining - 1
            BY <2>2 DEF Complete
        <3>5. NotSuspended \in Int
            BY DEF NotSuspended
        <3> QED
            BY <1>a, <3>2, <3>3, <3>4, <3>5, OutstandingFinite DEF CounterExact
    <2> QED
        BY <1>6, <2>1, <2>2 DEF Fill
<1> QED
    BY <1>1, <1>2, <1>3, <1>4, <1>5, <1>6
    DEF WorkNext, Main, WorkDone, Join, Exited, Thread, workVars

\* When every task is done the mutex is free and nobody waits for it.
LEMMA AllDone ==
    ASSUME MutualExclusion, PlacesMatch, waiters \subseteq Items, Outstanding = {}
    PROVE  ~locked /\ waiters = {}
BY DEF MutualExclusion, PlacesMatch, Holds, Outstanding

\* A step does not end the frame its tasks refer to.
LEMMA FrameStep == IInv /\ [WorkNext]_workVars => FrameOutlivesTasks'
<1> SUFFICES ASSUME IInv, [WorkNext]_workVars, routine' \in {"resumed", "returned"}
             PROVE  (Outstanding = {} /\ ~locked /\ waiters = {})'
    BY DEF FrameOutlivesTasks
<1>a. /\ CounterExact /\ PlacesMatch /\ FrameOutlivesTasks
      /\ item \in [Items -> Pcs] /\ waiters \subseteq Items
    BY DEF IInv, WorkOK, Pcs
<1>b. (MutualExclusion /\ PlacesMatch /\ waiters \subseteq Items)'
    BY MutexStep, PlacesStep, TypeStep DEF WorkOK
<1>c. SUFFICES Outstanding' = {}
    BY <1>b, AllDone DEF MutualExclusion, PlacesMatch, Holds, Outstanding
<1>1. CASE UNCHANGED <<item, routine>>
    BY <1>a, <1>1 DEF FrameOutlivesTasks, Outstanding
<1>2. CASE SyncWait
    BY <1>2 DEF SyncWait
<1>3. ASSUME NEW t \in Threads, NEW c \in Coroutines, Take(t, c) PROVE Outstanding' = {}
    BY <1>a, <1>3 DEF Take, FrameOutlivesTasks, Outstanding, PlacesMatch, Coroutines
<1>4. ASSUME NEW t \in Threads, AwaitAll(t) PROVE Outstanding' = {}
    <2>1. Cardinality(Outstanding) = 0
        BY <1>a, <1>4, OutstandingFinite DEF AwaitAll, CounterExact, NotSuspended
    <2> QED
        BY <1>4, <2>1, OutstandingFinite, FS_EmptySet DEF AwaitAll, Outstanding
<1>5. ASSUME NEW t \in Threads, Return(t) PROVE Outstanding' = {}
    BY <1>a, <1>5 DEF Return, FrameOutlivesTasks, Outstanding
<1>6. ASSUME NEW t \in Threads, NEW i \in Items, Fill(t, i) PROVE Outstanding' = {}
    <2>1. CASE Spawn(t, i) \/ Lock(t, i) \/ EmplaceBegin(t, i) \/ EmplaceEnd(t, i)
               \/ Unlock(t, i)
        <3>1. i \in Outstanding /\ routine' = routine
            BY <2>1 DEF Spawn, Lock, EmplaceBegin, EmplaceEnd, Unlock, Outstanding
        <3> QED
            BY <1>a, <3>1 DEF FrameOutlivesTasks
    <2>2. CASE Complete(t, i)
        <3>1. i \in Outstanding
            BY <2>2 DEF Complete, Outstanding
        <3>2. remaining = 1
            BY <1>a, <2>2, <3>1 DEF Complete, FrameOutlivesTasks
        <3>3. Outstanding = {i}
            BY <1>a, <2>2, <3>2, LastReport DEF Complete
        <3> QED
            BY <1>a, <2>2, <3>3 DEF Complete, Outstanding
    <2> QED
        BY <1>6, <2>1, <2>2 DEF Fill
<1> QED
    BY <1>1, <1>2, <1>3, <1>4, <1>5, <1>6
    DEF WorkNext, Main, WorkDone, Join, Exited, Thread, workVars

-----------------------------------------------------------------------------
Past(i) == item[i] \in {"emplaced", "produced", "done"}

\* What is lost is read off the output and the tasks' places alone.
LEMMA SameOutput ==
    ASSUME NothingLost, Output' = Output, \A i \in Items : Past(i)' <=> Past(i)
    PROVE  NothingLost'
BY DEF NothingLost, Past

\* The end of an emplace_back appends the task's number, and nothing else
\* happens to the numbers already there.
LEMMA EmplaceAppends ==
    ASSUME IInv, NEW t \in Threads, NEW i \in Items, EmplaceEnd(t, i)
    PROVE  /\ ints \in Seq(Items) /\ Output = ints
           /\ Output' = Append(Output, i)
<1>1. ints \in Seq(Items) /\ finish[i] = Len(ints)
    BY DEF IInv, WorkOK, EndIsCurrent, EmplaceEnd
<1>2. SubSeq(ints, 1, Len(ints)) = ints
    BY <1>1, SubSeqFull
<1>3. ints' = Append(ints, i)
    BY <1>1, <1>2, AppendIsConcat DEF EmplaceEnd
<1>4. routine # "returned" /\ routine' = routine
    BY DEF IInv, FrameOutlivesTasks, Outstanding, EmplaceEnd
<1> QED
    BY <1>1, <1>3, <1>4 DEF Output

\* A step loses nothing that was emplaced.
LEMMA LostStep == IInv /\ [WorkNext]_workVars => NothingLost'
<1> SUFFICES ASSUME IInv, [WorkNext]_workVars PROVE NothingLost'
    OBVIOUS
<1>a. /\ NothingLost /\ PlacesMatch /\ FrameOutlivesTasks
      /\ item \in [Items -> Pcs] /\ waiters \subseteq Items
      /\ ints \in Seq(Items)
    BY DEF IInv, WorkOK, Pcs
<1>1. CASE UNCHANGED <<item, routine, ints, result>>
    BY <1>a, <1>1, SameOutput DEF Output, Past
<1>2. CASE SyncWait
    BY <1>a, <1>2, SameOutput DEF SyncWait, PlacesMatch, Output, Past
<1>3. ASSUME NEW t \in Threads, NEW c \in Coroutines, Take(t, c) PROVE NothingLost'
    <2>1. \A i \in Items : Past(i)' <=> Past(i)
        BY <1>a, <1>3 DEF Take, PlacesMatch, Past, Coroutines
    <2> QED
        BY <1>a, <1>3, <2>1, SameOutput DEF Take, Output
<1>4. ASSUME NEW t \in Threads, AwaitAll(t) PROVE NothingLost'
    BY <1>a, <1>4, SameOutput DEF AwaitAll, Output, Past
<1>5. ASSUME NEW t \in Threads, Return(t) PROVE NothingLost'
    BY <1>a, <1>5, SameOutput DEF Return, Output, Past
<1>6. ASSUME NEW t \in Threads, NEW i \in Items, Fill(t, i) PROVE NothingLost'
    <2>1. CASE Spawn(t, i) \/ Lock(t, i) \/ EmplaceBegin(t, i) \/ Unlock(t, i)
        <3>1. \A j \in Items : Past(j)' <=> Past(j)
            BY <1>a, <2>1 DEF Spawn, Lock, EmplaceBegin, Unlock, PlacesMatch, Past
        <3>2. UNCHANGED <<routine, ints, result>>
            BY <2>1 DEF Spawn, Lock, EmplaceBegin, Unlock
        <3> QED
            BY <1>a, <3>1, <3>2, SameOutput DEF Output
    <2>2. CASE EmplaceEnd(t, i)
        <3>1. /\ Output \in Seq(Items) /\ Output' = Append(Output, i)
            BY <2>2, EmplaceAppends
        <3>2. \A j \in Items : Past(j)' <=> Past(j) \/ j = i
            BY <1>a, <2>2 DEF EmplaceEnd, Past
        <3>3. ~Past(i)
            BY <2>2 DEF EmplaceEnd, Past
        <3>4. /\ DOMAIN Output = 1 .. Len(Output) /\ Len(Output) \in Nat
              /\ DOMAIN Output' = 1 .. Len(Output) + 1
              /\ Output'[Len(Output) + 1] = i
              /\ \A k \in DOMAIN Output : Output'[k] = Output[k]
            BY <3>1, AppendProperties, LenProperties
        <3>5. \A j \in Items : Past(j)' <=> \E k \in DOMAIN Output' : Output'[k] = j
            BY <1>a, <3>2, <3>4 DEF NothingLost, Past
        <3>6. \A k \in DOMAIN Output : Output[k] # i
            BY <1>a, <3>3 DEF NothingLost, Past
        <3>7. \A k, l \in DOMAIN Output' : Output'[k] = Output'[l] => k = l
            BY <1>a, <3>4, <3>6 DEF NothingLost
        <3> QED
            BY <3>5, <3>7 DEF NothingLost, Past
    <2>3. CASE Complete(t, i)
        <3>1. \A j \in Items : Past(j)' <=> Past(j)
            BY <1>a, <2>3 DEF Complete, Past
        <3>2. routine # "returned" /\ routine' # "returned"
            BY <1>a, <2>3 DEF Complete, FrameOutlivesTasks, Outstanding
        <3> QED
            BY <1>a, <2>3, <3>1, <3>2, SameOutput DEF Complete, Output
    <2> QED
        BY <1>6, <2>1, <2>2, <2>3 DEF Fill
<1> QED
    BY <1>1, <1>2, <1>3, <1>4, <1>5, <1>6
    DEF WorkNext, Main, WorkDone, Join, Exited, Thread, workVars

-----------------------------------------------------------------------------
\* The invariant holds at the start.
LEMMA InitHolds == WorkInit => IInv
<1> SUFFICES ASSUME WorkInit PROVE IInv
    OBVIOUS
<1> USE DEF WorkInit, Counting
<1>1. WorkOK
    <2>1. locked \in BOOLEAN
        OBVIOUS
    <2> QED
        BY <2>1, WorkAssumption DEF WorkOK
<1>2. MutualExclusion /\ EndIsCurrent /\ PlacesMatch /\ FrameOutlivesTasks
    BY DEF MutualExclusion, Holds, EndIsCurrent, PlacesMatch, FrameOutlivesTasks
<1>3. CounterExact
    <2>1. Outstanding = Items
        BY DEF Outstanding
    <2> QED
        BY <2>1, CoroutineFacts DEF CounterExact, NotSuspended
<1>4. NothingLost
    BY DEF NothingLost, Output
<1> QED
    BY <1>1, <1>2, <1>3, <1>4 DEF IInv

\* Every step keeps it.
LEMMA NextHolds == IInv /\ [WorkNext]_workVars => IInv'
BY TypeStep, MutexStep, EndStep, PlacesStep, CounterStep, LostStep, FrameStep DEF IInv

\* IInv is an invariant of the work pool.
THEOREM Invariance == WorkSpec => []IInv
BY InitHolds, NextHolds, PTL DEF WorkSpec

\* No two tasks are between the construction and the destruction of `lock`.
THEOREM MutexCorrect == WorkSpec => []MutualExclusion
BY Invariance, PTL DEF IInv

\* The vector holds exactly the tasks that are past their emplace_back.
THEOREM NothingIsLost == WorkSpec => []NothingLost
BY Invariance, PTL DEF IInv

\* do_routine_work's frame is not destroyed under a task.
THEOREM FrameIsSafe == WorkSpec => []FrameOutlivesTasks
BY Invariance, PTL DEF IInv

-----------------------------------------------------------------------------
\* Every step of the program is a step of ProducedOnce or leaves its state alone.
LEMMA PromiseStep ==
    IInv /\ [WorkNext]_workVars => [Promise!AbsNext]_(Promise!absVars)
<1> SUFFICES ASSUME IInv, [WorkNext]_workVars, ~UNCHANGED Promise!absVars
             PROVE  Promise!AbsNext
    OBVIOUS
<1> DEFINE Told == main \in {"printed", "exited"}
<1>a. /\ NothingLost /\ FrameOutlivesTasks /\ PlacesMatch
      /\ Output \in Seq(Items) /\ item \in [Items -> Pcs]
    BY DEF IInv, WorkOK, Pcs, Output
<1>b. ~(Output' = Output /\ Told' = Told)
    BY DEF Promise!absVars
<1>c. Promise!Numbers = Items
    BY DEF Promise!Numbers, Items
<1>1. CASE UNCHANGED <<main, routine, ints, result>>
    BY <1>b, <1>1 DEF Output
<1>2. CASE SyncWait \/ Join \/ \E t \in Threads : AwaitAll(t) \/ Return(t)
    <2>1. CASE SyncWait
        BY <1>a, <1>b, <2>1 DEF SyncWait, PlacesMatch, Output
    <2>2. CASE Join
        BY <1>b, <2>2 DEF Join, Output
    <2>3. CASE \E t \in Threads : AwaitAll(t) \/ Return(t)
        BY <1>b, <2>3 DEF AwaitAll, Return, Output
    <2> QED
        BY <1>2, <2>1, <2>2, <2>3
<1>3. CASE WorkDone
    <2>1. Output' = Output /\ Told' = TRUE /\ Told = FALSE
        BY <1>3 DEF WorkDone, Output
    <2>2. \A i \in Items : \E k \in DOMAIN Output : Output[k] = i
        BY <1>a, <1>3 DEF WorkDone, FrameOutlivesTasks, NothingLost, Outstanding
    <2>3. Promise!Missing = {}
        BY <1>c, <2>2 DEF Promise!Missing
    <2> QED
        BY <2>1, <2>3 DEF Promise!AbsNext, Promise!Report
<1>4. ASSUME NEW t \in Threads, NEW i \in Items, Fill(t, i)
      PROVE  Promise!AbsNext
    <2>1. CASE EmplaceEnd(t, i)
        <3>1. Output' = Append(Output, i) /\ Told' = Told
            BY <2>1, EmplaceAppends DEF EmplaceEnd
        <3>2. \A k \in DOMAIN Output : Output[k] # i
            BY <1>a, <2>1 DEF EmplaceEnd, NothingLost
        <3>3. i \in Promise!Missing
            BY <1>c, <3>2 DEF Promise!Missing
        <3> QED
            BY <1>c, <3>1, <3>3 DEF Promise!AbsNext, Promise!Produce
    <2>2. CASE Complete(t, i)
        BY <1>a, <1>b, <2>2 DEF Complete, FrameOutlivesTasks, Outstanding, Output
    <2>3. CASE Spawn(t, i) \/ Lock(t, i) \/ EmplaceBegin(t, i) \/ Unlock(t, i)
        BY <1>1, <2>3 DEF Spawn, Lock, EmplaceBegin, Unlock
    <2> QED
        BY <1>4, <2>1, <2>2, <2>3 DEF Fill
<1> QED
    BY <1>1, <1>2, <1>3, <1>4 DEF WorkNext, Main, Thread, Take, Exited, workVars

\* The program implements ProducedOnce: each task's number is appended once,
\* none is disturbed later, and main() goes on only when all are there.
THEOREM Implements == WorkSpec => PromiseKept
<1>1. WorkInit => Promise!AbsInit
    BY DEF WorkInit, Counting, Promise!AbsInit, Output
<1> QED
    BY <1>1, Invariance, PromiseStep, PTL DEF WorkSpec, PromiseKept, Promise!AbsSpec
-----------------------------------------------------------------------------
(***************************************************************************)
(* Which coroutines are on the threads' stacks.  StackDiscipline is not    *)
(* inductive: that a coroutine which enters a stack was on none needs to   *)
(* know in which places the coroutines on the stacks can be.               *)
(***************************************************************************)
InPlace(c, k) ==
    /\ k > 1 => c \in Items /\ item[c] = "produced"
    /\ c \in Items => item[c] \notin {"created", "queued", "waiting", "done"}
    /\ c = Routine => routine \in {"spawning", "resumed"}
    /\ c \notin queue

OnOneStack ==
    \A t, u \in Threads : \A k \in DOMAIN stack[t], l \in DOMAIN stack[u] :
        stack[t][k] = stack[u][l] => t = u /\ k = l

StackInv ==
    /\ OnOneStack
    /\ \A t \in Threads : \A k \in DOMAIN stack[t] : InPlace(stack[t][k], k)
    /\ Routine \in queue => routine = "spawning"

\* A coroutine that leaves is on no stack any more.
LEMMA LeaveStack ==
    ASSUME WorkOK, OnOneStack, NEW t \in Threads, stack[t] # <<>>, Leave(t)
    PROVE  /\ OnOneStack'
           /\ \A u \in Threads : \A k \in DOMAIN stack'[u] :
                /\ stack'[u][k] # Head(stack[t])
                /\ \E j \in DOMAIN stack[u] : j >= k /\ stack[u][j] = stack'[u][k]
<1>1. stack \in [Threads -> Seq(Coroutines)]
    BY DEF WorkOK
<1> DEFINE At(u, k) == IF u = t THEN k + 1 ELSE k
<1>2. \A u \in Threads : \A k \in DOMAIN stack'[u] :
        /\ k \in Nat /\ k >= 1
        /\ At(u, k) \in DOMAIN stack[u] /\ stack'[u][k] = stack[u][At(u, k)]
    BY <1>1 DEF Leave
<1>3. 1 \in DOMAIN stack[t] /\ Head(stack[t]) = stack[t][1]
    BY <1>1
<1>4. OnOneStack'
    BY <1>2 DEF OnOneStack
<1>5. \A u \in Threads : \A k \in DOMAIN stack'[u] : stack'[u][k] # Head(stack[t])
    BY <1>2, <1>3 DEF OnOneStack
<1>6. \A u \in Threads : \A k \in DOMAIN stack'[u] :
        \E j \in DOMAIN stack[u] : j >= k /\ stack[u][j] = stack'[u][k]
    BY <1>2
<1> QED
    BY <1>4, <1>5, <1>6

\* A coroutine that enters is on one stack if it was on none before.
LEMMA EnterStack ==
    ASSUME WorkOK, OnOneStack, NEW t \in Threads, NEW c \in Coroutines, Enter(t, c),
           \A u \in Threads : \A k \in DOMAIN stack[u] : stack[u][k] # c
    PROVE  /\ OnOneStack'
           /\ \A u \in Threads : \A k \in DOMAIN stack'[u] :
                \/ k = 1 /\ stack'[u][k] = c
                \/ \E j \in DOMAIN stack[u] :
                     /\ stack[u][j] = stack'[u][k]
                     /\ k = j \/ (u = t /\ k = j + 1)
<1>1. stack \in [Threads -> Seq(Coroutines)]
    BY DEF WorkOK
<1>2. \A u \in Threads : u # t => stack'[u] = stack[u]
    BY <1>1 DEF Enter
<1>3. \A k \in DOMAIN stack'[t] :
        /\ k \in Nat /\ k >= 1
        /\ k = 1 => stack'[t][k] = c
        /\ k > 1 => k - 1 \in DOMAIN stack[t] /\ stack'[t][k] = stack[t][k - 1]
    BY <1>1 DEF Enter
<1>4. \A u \in Threads : \A k \in DOMAIN stack[u] : k \in Nat
    BY <1>1
<1>5. OnOneStack'
    BY <1>2, <1>3, <1>4 DEF OnOneStack
<1>6. ASSUME NEW u \in Threads, NEW k \in DOMAIN stack'[u], ~(k = 1 /\ stack'[u][k] = c)
      PROVE  \E j \in DOMAIN stack[u] :
                /\ stack[u][j] = stack'[u][k]
                /\ k = j \/ (u = t /\ k = j + 1)
    <2>1. CASE u = t
        BY <1>3, <1>6, <2>1
    <2>2. CASE u # t
        BY <1>2, <1>6, <2>2
    <2> QED
        BY <2>1, <2>2
<1> QED
    BY <1>5, <1>6

\* A coroutine takes the place of the innermost one.
Swap(t, c) == stack' = [stack EXCEPT ![t] = <<c>> \o Tail(@)]

\* It is on one stack then, and the other one on none.
LEMMA SwapStack ==
    ASSUME WorkOK, OnOneStack, NEW t \in Threads, NEW c \in Coroutines, stack[t] # <<>>, Swap(t, c),
           \A u \in Threads : \A k \in DOMAIN stack[u] : stack[u][k] # c
    PROVE  /\ OnOneStack'
           /\ \A u \in Threads : \A k \in DOMAIN stack'[u] :
                \/ k = 1 /\ stack'[u][k] = c
                \/ /\ k \in DOMAIN stack[u] /\ stack[u][k] = stack'[u][k]
                   /\ stack[u][k] # Head(stack[t])
<1>1. stack \in [Threads -> Seq(Coroutines)]
    BY DEF WorkOK
<1>2. \A u \in Threads : u # t => stack'[u] = stack[u]
    BY <1>1 DEF Swap
<1>3. \A k \in DOMAIN stack'[t] :
        /\ k \in Nat /\ k >= 1
        /\ k = 1 => stack'[t][k] = c
        /\ k > 1 => k \in DOMAIN stack[t] /\ stack'[t][k] = stack[t][k]
    <2>1. stack[t] \in Seq(Coroutines) /\ stack'[t] = <<c>> \o Tail(stack[t])
        BY <1>1 DEF Swap
    <2>2. Tail(stack[t]) \in Seq(Coroutines) /\ Len(Tail(stack[t])) = Len(stack[t]) - 1
        BY <2>1
    <2>3. \A j \in 1 .. Len(stack[t]) - 1 : Tail(stack[t])[j] = stack[t][j + 1]
        BY <2>1
    <2> QED
        BY <2>1, <2>2, <2>3
<1>4. \A u \in Threads : \A k \in DOMAIN stack[u] : k \in Nat
    BY <1>1
<1>5. 1 \in DOMAIN stack[t] /\ Head(stack[t]) = stack[t][1]
    BY <1>1
<1>6. OnOneStack'
    BY <1>2, <1>3, <1>4 DEF OnOneStack
<1>7. ASSUME NEW u \in Threads, NEW k \in DOMAIN stack'[u], ~(k = 1 /\ stack'[u][k] = c)
      PROVE  /\ k \in DOMAIN stack[u] /\ stack[u][k] = stack'[u][k]
             /\ stack[u][k] # Head(stack[t])
    <2>1. CASE u = t
        <3>1. k > 1
            BY <1>3, <1>7, <2>1
        <3> QED
            BY <1>3, <1>5, <2>1, <3>1 DEF OnOneStack
    <2>2. CASE u # t
        BY <1>2, <1>5, <1>7, <2>2 DEF OnOneStack
    <2> QED
        BY <2>1, <2>2
<1> QED
    BY <1>6, <1>7

\* The coroutines that stay on the stacks are in place if those places and the
\* queue are as they were.
LEMMA SameStacks ==
    ASSUME StackInv, stack' = stack, queue' = queue, routine' = routine,
           \A i \in Items : item[i] \notin {"created", "queued", "waiting", "done"} =>
              item'[i] \notin {"created", "queued", "waiting", "done"},
           \A i \in Items : item[i] = "produced" => item'[i] = "produced"
    PROVE  StackInv'
BY DEF StackInv, OnOneStack, InPlace

\* A step keeps every coroutine on one stack at most, and in place there.
LEMMA StackStep == IInv /\ StackInv /\ [WorkNext]_workVars => StackInv'
<1> SUFFICES ASSUME IInv, StackInv, [WorkNext]_workVars PROVE StackInv'
    OBVIOUS
<1>a. /\ WorkOK /\ PlacesMatch /\ CounterExact /\ FrameOutlivesTasks /\ OnOneStack
      /\ item \in [Items -> Pcs] /\ waiters \subseteq Items
      /\ stack \in [Threads -> Seq(Coroutines)] /\ queue \subseteq Coroutines
      /\ \A t \in Threads : \A k \in DOMAIN stack[t] : InPlace(stack[t][k], k)
      /\ Routine \in queue => routine = "spawning"
    BY DEF IInv, StackInv, WorkOK, Pcs
<1>b. \A t \in Threads : \A c : Running(t, c) =>
        /\ stack[t] # <<>> /\ Head(stack[t]) = c
        /\ 1 \in DOMAIN stack[t] /\ stack[t][1] = c
    BY <1>a DEF Running
<1>c. \A t \in Threads : \A k \in DOMAIN stack[t] : k \in Nat
    BY <1>a
<1>1. CASE UNCHANGED <<routine, item, queue, stack>>
    BY <1>a, <1>1, SameStacks
<1>2. CASE SyncWait
    <2>1. routine = "created"
        BY <1>a, <1>2 DEF SyncWait, PlacesMatch
    <2> QED
        BY <1>a, <1>2, <2>1, CoroutineFacts DEF SyncWait, StackInv, OnOneStack, InPlace
<1>3. ASSUME NEW t \in Threads, NEW c \in Coroutines, Take(t, c) PROVE StackInv'
    <2>1. \A u \in Threads : \A k \in DOMAIN stack[u] : stack[u][k] # c
        BY <1>a, <1>3 DEF Take, InPlace
    <2>2. /\ OnOneStack'
          /\ \A u \in Threads : \A k \in DOMAIN stack'[u] :
                \/ k = 1 /\ stack'[u][k] = c
                \/ \E j \in DOMAIN stack[u] :
                     /\ stack[u][j] = stack'[u][k]
                     /\ k = j \/ (u = t /\ k = j + 1)
        BY <1>a, <1>3, <2>1, EnterStack DEF Take
    <2>3. ASSUME NEW u \in Threads, NEW k \in DOMAIN stack'[u]
          PROVE  InPlace(stack[u][k], k)'
        <3>1. CASE k = 1 /\ stack'[u][k] = c
            BY <1>a, <1>3, <3>1, CoroutineFacts DEF Take, InPlace, PlacesMatch
        <3>2. ASSUME NEW j \in DOMAIN stack[u], stack[u][j] = stack'[u][k],
                     k = j \/ (u = t /\ k = j + 1)
              PROVE  InPlace(stack[u][k], k)'
            <4>1. u # t
                BY <1>a, <1>3, <3>2 DEF Take
            <4>2. stack[u][j] # c /\ InPlace(stack[u][j], k)
                BY <1>a, <2>1, <3>2, <4>1
            <4> QED
                BY <1>a, <1>3, <3>2, <4>2 DEF Take, InPlace
        <3> QED
            BY <2>2, <3>1, <3>2
    <2> QED
        BY <1>a, <1>3, <2>2, <2>3 DEF StackInv, Take
<1>4. ASSUME NEW t \in Threads, AwaitAll(t) PROVE StackInv'
    <2>1. CASE routine' = "resumed" /\ UNCHANGED stack
        <3>1. Routine \notin queue
            BY <1>4, <1>a, <1>b DEF AwaitAll, InPlace
        <3> QED
            BY <1>4, <1>a, <2>1, <3>1 DEF AwaitAll, StackInv, OnOneStack, InPlace
    <2>2. CASE routine' = "suspended" /\ Leave(t)
        <3>1. Routine \notin queue
            BY <1>4, <1>a, <1>b DEF AwaitAll, InPlace
        <3>2. /\ OnOneStack'
              /\ \A u \in Threads : \A k \in DOMAIN stack'[u] :
                    /\ stack'[u][k] # Routine
                    /\ \E j \in DOMAIN stack[u] : j >= k /\ stack[u][j] = stack'[u][k]
            BY <1>4, <1>a, <1>b, <2>2, LeaveStack DEF AwaitAll
        <3>3. \A u \in Threads : \A k \in DOMAIN stack'[u] : InPlace(stack[u][k], k)'
            <4> SUFFICES ASSUME NEW u \in Threads, NEW k \in DOMAIN stack'[u]
                         PROVE  InPlace(stack[u][k], k)'
                OBVIOUS
            <4>1. PICK j \in DOMAIN stack[u] : j >= k /\ stack[u][j] = stack'[u][k]
                BY <3>2
            <4>2. stack'[u] \in Seq(Coroutines) /\ k \in Nat /\ j \in Nat
                BY <1>a, <1>b, <1>4, <1>c, <2>2 DEF Leave, AwaitAll
            <4> QED
                BY <1>4, <1>a, <3>2, <4>1, <4>2 DEF AwaitAll, InPlace
        <3> QED
            BY <1>4, <3>1, <3>2, <3>3 DEF AwaitAll, StackInv
    <2> QED
        BY <1>4, <2>1, <2>2 DEF AwaitAll
<1>5. ASSUME NEW t \in Threads, Return(t) PROVE StackInv'
    <2>1. Routine \notin queue
        BY <1>5, <1>a, <1>b DEF Return, InPlace
    <2>2. /\ OnOneStack'
          /\ \A u \in Threads : \A k \in DOMAIN stack'[u] :
                /\ stack'[u][k] # Routine
                /\ \E j \in DOMAIN stack[u] : j >= k /\ stack[u][j] = stack'[u][k]
        BY <1>5, <1>a, <1>b, LeaveStack DEF Return
    <2>3. \A u \in Threads : \A k \in DOMAIN stack'[u] : InPlace(stack[u][k], k)'
        <3> SUFFICES ASSUME NEW u \in Threads, NEW k \in DOMAIN stack'[u]
                     PROVE  InPlace(stack[u][k], k)'
            OBVIOUS
        <3>1. PICK j \in DOMAIN stack[u] : j >= k /\ stack[u][j] = stack'[u][k]
            BY <2>2
        <3>2. stack'[u] \in Seq(Coroutines) /\ k \in Nat /\ j \in Nat
            BY <1>a, <1>b, <1>5, <1>c DEF Leave, Return
        <3> QED
            BY <1>5, <1>a, <2>2, <3>1, <3>2 DEF Return, InPlace
    <2> QED
        BY <1>5, <2>1, <2>2, <2>3 DEF Return, StackInv
<1>6. ASSUME NEW t \in Threads, NEW i \in Items, Fill(t, i) PROVE StackInv'
    <2>1. CASE Spawn(t, i)
        <3>1. \A u \in Threads : \A k \in DOMAIN stack[u] : stack[u][k] # i
            BY <1>a, <2>1 DEF Spawn, InPlace
        <3> QED
            BY <1>a, <2>1, <3>1, CoroutineFacts DEF Spawn, StackInv, OnOneStack, InPlace
    <2>2. CASE EmplaceBegin(t, i) \/ EmplaceEnd(t, i)
        BY <1>a, <2>2, SameStacks DEF EmplaceBegin, EmplaceEnd
    <2>3. CASE Lock(t, i) /\ UNCHANGED stack
        BY <1>a, <2>3, <1>b, SameStacks DEF Lock, Leave
    <2>4. CASE Lock(t, i) /\ Leave(t) /\ item' = [item EXCEPT ![i] = "waiting"]
        <3>2. /\ OnOneStack'
              /\ \A u \in Threads : \A k \in DOMAIN stack'[u] :
                    /\ stack'[u][k] # i
                    /\ \E j \in DOMAIN stack[u] : j >= k /\ stack[u][j] = stack'[u][k]
            BY <1>a, <1>b, <2>4, LeaveStack DEF Lock
        <3>3. \A u \in Threads : \A k \in DOMAIN stack'[u] : InPlace(stack[u][k], k)'
            <4> SUFFICES ASSUME NEW u \in Threads, NEW k \in DOMAIN stack'[u]
                         PROVE  InPlace(stack[u][k], k)'
                OBVIOUS
            <4>1. PICK j \in DOMAIN stack[u] : j >= k /\ stack[u][j] = stack'[u][k]
                BY <3>2
            <4>2. stack'[u] \in Seq(Coroutines) /\ k \in Nat /\ j \in Nat
                BY <1>a, <1>b, <1>c, <2>4 DEF Leave, Lock
            <4> QED
                BY <1>a, <2>4, <3>2, <4>1, <4>2 DEF Lock, InPlace
        <3> QED
            BY <1>a, <2>4, <3>2, <3>3 DEF Lock, StackInv
    <2>5. CASE Unlock(t, i) /\ UNCHANGED <<stack>> /\ item' = [item EXCEPT ![i] = "produced"]
        BY <1>a, <2>5, SameStacks DEF Unlock
    <2>6. ASSUME NEW w \in waiters, Unlock(t, i), Enter(t, w),
                 item' = [item EXCEPT ![i] = "produced", ![w] = "locked"]
          PROVE  StackInv'
        <3>1. \A u \in Threads : \A k \in DOMAIN stack[u] : stack[u][k] # w
            BY <1>a, <2>6 DEF InPlace, PlacesMatch
        <3>2. w \in Coroutines /\ w # i /\ w # Routine /\ w \notin queue
            BY <1>a, <2>6, CoroutineFacts DEF PlacesMatch, Unlock
        <3>3. /\ OnOneStack'
              /\ \A u \in Threads : \A k \in DOMAIN stack'[u] :
                    \/ k = 1 /\ stack'[u][k] = w
                    \/ \E j \in DOMAIN stack[u] :
                         /\ stack[u][j] = stack'[u][k]
                         /\ k = j \/ (u = t /\ k = j + 1)
            BY <1>a, <2>6, <3>1, <3>2, EnterStack
        <3>4. ASSUME NEW u \in Threads, NEW k \in DOMAIN stack'[u]
              PROVE  InPlace(stack[u][k], k)'
            <4>1. CASE k = 1 /\ stack'[u][k] = w
                BY <1>a, <2>6, <3>2, <4>1 DEF Unlock, InPlace
            <4>2. ASSUME NEW j \in DOMAIN stack[u], stack[u][j] = stack'[u][k],
                         k = j \/ (u = t /\ k = j + 1)
                  PROVE  InPlace(stack[u][k], k)'
                <5>1. InPlace(stack[u][j], j) /\ stack[u][j] # w /\ j \in Nat /\ j >= 1
                    BY <1>a, <3>1
                <5>2. k > 1 => stack[u][j] = i \/ (stack[u][j] \in Items /\ item[stack[u][j]] = "produced")
                    BY <1>b, <2>6, <4>2, <5>1 DEF Unlock, InPlace
                <5> QED
                    BY <1>a, <2>6, <3>2, <4>2, <5>1, <5>2 DEF Unlock, InPlace
            <4> QED
                BY <3>3, <4>1, <4>2
        <3> QED
            BY <1>a, <2>6, <3>3, <3>4 DEF Unlock, StackInv
    <2>7. CASE Complete(t, i) /\ Leave(t) /\ UNCHANGED routine
        <3>2. /\ OnOneStack'
              /\ \A u \in Threads : \A k \in DOMAIN stack'[u] :
                    /\ stack'[u][k] # i
                    /\ \E j \in DOMAIN stack[u] : j >= k /\ stack[u][j] = stack'[u][k]
            BY <1>a, <1>b, <2>7, LeaveStack DEF Complete
        <3>3. \A u \in Threads : \A k \in DOMAIN stack'[u] : InPlace(stack[u][k], k)'
            <4> SUFFICES ASSUME NEW u \in Threads, NEW k \in DOMAIN stack'[u]
                         PROVE  InPlace(stack[u][k], k)'
                OBVIOUS
            <4>1. PICK j \in DOMAIN stack[u] : j >= k /\ stack[u][j] = stack'[u][k]
                BY <3>2
            <4>2. stack'[u] \in Seq(Coroutines) /\ k \in Nat /\ j \in Nat
                BY <1>a, <1>b, <1>c, <2>7 DEF Leave, Complete
            <4> QED
                BY <1>a, <2>7, <3>2, <4>1, <4>2 DEF Complete, InPlace
        <3> QED
            BY <1>a, <2>7, <3>2, <3>3 DEF Complete, StackInv
    <2>8. CASE Complete(t, i) /\ remaining = 1
        <3>1. /\ routine' = "resumed"
              /\ stack' = [stack EXCEPT ![t] = <<Routine>> \o Tail(@)]
              /\ item' = [item EXCEPT ![i] = "done"] /\ queue' = queue
              /\ item[i] = "produced"
            BY <2>8 DEF Complete
        <3>2. routine \notin {"created", "spawning", "resumed", "returned"}
            BY <1>a, <2>8, <3>1, LastReport DEF FrameOutlivesTasks, Outstanding
        <3>3. /\ Routine \notin queue
              /\ \A u \in Threads : \A k \in DOMAIN stack[u] : stack[u][k] # Routine
            BY <1>a, <3>2 DEF InPlace
        <3>4. /\ OnOneStack'
              /\ \A u \in Threads : \A k \in DOMAIN stack'[u] :
                    \/ k = 1 /\ stack'[u][k] = Routine
                    \/ /\ k \in DOMAIN stack[u] /\ stack[u][k] = stack'[u][k]
                       /\ stack[u][k] # i
            <4>1. stack[t] # <<>> /\ Head(stack[t]) = i
                BY <1>b, <2>8 DEF Complete
            <4>2. WorkOK /\ OnOneStack /\ Routine \in Coroutines
                BY <1>a, CoroutineFacts
            <4>3. Swap(t, Routine)
                BY <3>1 DEF Swap
            <4> QED
                BY <3>3, <4>1, <4>2, <4>3, SwapStack
        <3>5. ASSUME NEW u \in Threads, NEW k \in DOMAIN stack'[u]
              PROVE  InPlace(stack[u][k], k)'
            <4>1. CASE k = 1 /\ stack'[u][k] = Routine
                BY <3>1, <3>3, <4>1, CoroutineFacts DEF InPlace
            <4>2. CASE k \in DOMAIN stack[u] /\ stack[u][k] = stack'[u][k] /\ stack[u][k] # i
                BY <1>a, <3>1, <4>2 DEF InPlace
            <4> QED
                BY <3>4, <4>1, <4>2
        <3> QED
            BY <3>1, <3>3, <3>4, <3>5 DEF StackInv
    <2> QED
        BY <1>6, <2>1, <2>2, <2>3, <2>4, <2>5, <2>6, <2>7, <2>8
        DEF Fill, Lock, Unlock, Complete
<1> QED
    BY <1>1, <1>2, <1>3, <1>4, <1>5, <1>6
    DEF WorkNext, Main, WorkDone, Join, Exited, Thread, workVars

\* The stacks are empty at the start.
LEMMA StackInit == WorkInit => StackInv
BY CoroutineFacts DEF WorkInit, Counting, StackInv, OnOneStack, InPlace

LEMMA StackOK == IInv /\ StackInv => StackDiscipline
BY DEF IInv, WorkOK, StackInv, OnOneStack, InPlace, StackDiscipline, PlacesMatch

\* No coroutine runs in two places, and none that is on a stack can be resumed.
THEOREM StacksAreSound == WorkSpec => []StackDiscipline
BY StackInit, StackOK, Invariance, StackStep, PTL DEF WorkSpec
=============================================================================
