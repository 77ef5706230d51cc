---------------------------- MODULE ReadWriteLock ----------------------------
(***************************************************************************)
(* What the lock pointers of SaferCPlusPlus promise (README.md, section    *)
(* TAsyncSharedV2ReadWriteAccessRequester): a write lock does not coexist  *)
(* with any lock of another thread, it does coexist with locks of its own  *)
(* thread, and a thread that holds a read lock may get and give back a     *)
(* write lock without surrendering the read lock in between.               *)
(***************************************************************************)
EXTENDS Naturals

CONSTANT Thread

VARIABLES
    reads,   \* the read locks each thread holds
    writes   \* the write locks each thread holds

vars == <<reads, writes>>

Init ==
    /\ reads = [t \in Thread |-> 0]
    /\ writes = [t \in Thread |-> 0]

Read(t) ==
    /\ \A u \in Thread \ {t} : writes[u] = 0
    /\ reads' = [reads EXCEPT ![t] = @ + 1]
    /\ UNCHANGED writes

Write(t) ==
    /\ \A u \in Thread \ {t} : writes[u] = 0 /\ reads[u] = 0
    /\ writes' = [writes EXCEPT ![t] = @ + 1]
    /\ UNCHANGED reads

EndRead(t) ==
    /\ reads[t] > 0
    /\ reads' = [reads EXCEPT ![t] = @ - 1]
    /\ UNCHANGED writes

EndWrite(t) ==
    /\ writes[t] > 0
    /\ writes' = [writes EXCEPT ![t] = @ - 1]
    /\ UNCHANGED reads

Next == \E t \in Thread : Read(t) \/ Write(t) \/ EndRead(t) \/ EndWrite(t)

Spec == Init /\ [][Next]_vars
=============================================================================
