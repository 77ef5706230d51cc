---------------------- MODULE RecursiveSharedMutexProofs ----------------------
(***************************************************************************)
(* A write lock excludes the locks of every other thread, whatever number  *)
(* of threads takes and gives back locks, and the mutex implements         *)
(* ReadWriteLock.                                                          *)
(***************************************************************************)
EXTENDS RecursiveSharedMutex, TLAPS

\* The map of the read locks is what the threads have been given.
Counted == readlockCount = reads

BaseExcludes == baseReaders # {} => baseWriter = NoThread

\* A thread that counts as owner writes, or is on its way out of unlock().
OwnerWrites == writelockCount > 0 =>
    /\ owner \in Thread
    /\ writes[owner] > 0 \/ pc[owner] \in {"unlock", "unlocked"}

\* What a thread knows between two steps of its call.
InLock(t) == pc[t] \in {"locked", "nonrecursive_locked"} =>
    baseWriter = t /\ writes[t] = 0
InUnlock(t) == pc[t] \in {"unlock", "unlocked"} =>
    suspended /\ owner = t /\ writelockCount = 1
InRestore(t) == pc[t] \in {"restore", "restored"} =>
    suspended /\ owner = t /\ writelockCount = 0
Shares(t) == pc[t] \in {"shared", "unlocked", "restored"} => t \in baseReaders
Upgrades(t) == mine[t] => suspended /\ owner = t /\ pc[t] \in {"lock", "locked"}

InCall == \A t \in Thread :
    InLock(t) /\ InUnlock(t) /\ InRestore(t) /\ Shares(t) /\ Upgrades(t)

IInv ==
    /\ TypeOK /\ Counted /\ BaseExcludes /\ OwnerWrites
    /\ WriterHasBase /\ ReaderHasBase /\ NoteHasReader /\ InCall

-----------------------------------------------------------------------------
(* Each action keeps each part of the invariant.                           *)

LEMMA lock_Step ==
    ASSUME IInv, NEW t \in Thread, lock(t)
    PROVE  IInv'
<1> USE DEF IInv, base, state, given, lock, Owns, Reading, At, Asserts, Call, MayLock, Written, Suspend, Throw, WouldDeadlock
<1>1. TypeOK'
    <2>1. (baseWriter \in Thread \cup {NoThread} /\ baseReaders \in SUBSET Thread)'  BY DEF TypeOK, Label
    <2>2. (owner \in Thread \cup {NoThread} /\ writelockCount \in Nat)'  BY DEF TypeOK, Label, Counted, InCall, InUnlock
    <2>3. (nonrecursive \in BOOLEAN /\ suspended \in BOOLEAN /\ asserted \in BOOLEAN)'  BY DEF TypeOK, Label
    <2>4. (readlockCount \in [Thread -> Nat] /\ reads \in [Thread -> Nat] /\ writes \in [Thread -> Nat])'  BY DEF TypeOK, Label, Counted, InCall, InUnlock
    <2>5. (pc \in [Thread -> Label])'  BY DEF TypeOK, Label
    <2>6. (mine \in [Thread -> BOOLEAN])'  BY DEF TypeOK, Label
    <2>7. (calls \in [Thread -> Nat])'  BY DEF TypeOK, Label
    <2> QED  BY <2>1, <2>2, <2>3, <2>4, <2>5, <2>6, <2>7 DEF TypeOK
<1>2. Counted'
    BY ThreadAssumption DEF TypeOK, Counted
<1>3. BaseExcludes'
    BY ThreadAssumption DEF TypeOK, BaseExcludes
<1>4. OwnerWrites'
    BY ThreadAssumption DEF TypeOK, Counted, BaseExcludes, OwnerWrites, WriterHasBase, ReaderHasBase, InCall, InLock, InUnlock, InRestore, Upgrades
<1>5. WriterHasBase'
    BY ThreadAssumption DEF TypeOK, Counted, BaseExcludes, OwnerWrites, WriterHasBase, ReaderHasBase, InCall, InLock, InUnlock, InRestore, Upgrades
<1>6. ReaderHasBase'
    BY ThreadAssumption DEF TypeOK, Counted, ReaderHasBase, Shares, InCall, InLock, InUnlock, InRestore, Upgrades
<1>7. NoteHasReader'
    BY ThreadAssumption DEF TypeOK, Counted, OwnerWrites, WriterHasBase, NoteHasReader, InCall, InLock, InUnlock, InRestore, Upgrades
<1>8. InCall'
    BY ThreadAssumption DEF TypeOK, Counted, OwnerWrites, WriterHasBase, ReaderHasBase, NoteHasReader, BaseExcludes, Shares, InCall, InLock, InUnlock, InRestore, Upgrades
<1> QED  BY <1>1, <1>2, <1>3, <1>4, <1>5, <1>6, <1>7, <1>8

LEMMA nonrecursive_lock_Step ==
    ASSUME IInv, NEW t \in Thread, nonrecursive_lock(t)
    PROVE  IInv'
<1> USE DEF IInv, base, state, given, nonrecursive_lock, Owns, At, Asserts, Call, Throw
<1>1. TypeOK'
    <2>1. (baseWriter \in Thread \cup {NoThread} /\ baseReaders \in SUBSET Thread)'  BY DEF TypeOK, Label
    <2>2. (owner \in Thread \cup {NoThread} /\ writelockCount \in Nat)'  BY DEF TypeOK, Label, Counted, InCall, InUnlock
    <2>3. (nonrecursive \in BOOLEAN /\ suspended \in BOOLEAN /\ asserted \in BOOLEAN)'  BY DEF TypeOK, Label
    <2>4. (readlockCount \in [Thread -> Nat] /\ reads \in [Thread -> Nat] /\ writes \in [Thread -> Nat])'  BY DEF TypeOK, Label, Counted, InCall, InUnlock
    <2>5. (pc \in [Thread -> Label])'  BY DEF TypeOK, Label
    <2>6. (mine \in [Thread -> BOOLEAN])'  BY DEF TypeOK, Label
    <2>7. (calls \in [Thread -> Nat])'  BY DEF TypeOK, Label
    <2> QED  BY <2>1, <2>2, <2>3, <2>4, <2>5, <2>6, <2>7 DEF TypeOK
<1>2. Counted'
    BY ThreadAssumption DEF TypeOK, Counted
<1>3. BaseExcludes'
    BY ThreadAssumption DEF TypeOK, BaseExcludes
<1>4. OwnerWrites'
    BY ThreadAssumption DEF TypeOK, Counted, BaseExcludes, OwnerWrites, WriterHasBase, ReaderHasBase, InCall, InLock, InUnlock, InRestore, Upgrades
<1>5. WriterHasBase'
    BY ThreadAssumption DEF TypeOK, Counted, BaseExcludes, OwnerWrites, WriterHasBase, ReaderHasBase, InCall, InLock, InUnlock, InRestore, Upgrades
<1>6. ReaderHasBase'
    BY ThreadAssumption DEF TypeOK, Counted, ReaderHasBase, Shares, InCall, InLock, InUnlock, InRestore, Upgrades
<1>7. NoteHasReader'
    BY ThreadAssumption DEF TypeOK, Counted, OwnerWrites, WriterHasBase, NoteHasReader, InCall, InLock, InUnlock, InRestore, Upgrades
<1>8. InCall'
    BY ThreadAssumption DEF TypeOK, Counted, OwnerWrites, WriterHasBase, ReaderHasBase, NoteHasReader, BaseExcludes, Shares, InCall, InLock, InUnlock, InRestore, Upgrades
<1> QED  BY <1>1, <1>2, <1>3, <1>4, <1>5, <1>6, <1>7, <1>8

LEMMA baseLock_Step ==
    ASSUME IInv, NEW t \in Thread, baseLock(t)
    PROVE  IInv'
<1> USE DEF IInv, base, state, given, baseLock
<1>1. TypeOK'
    <2>1. (baseWriter \in Thread \cup {NoThread} /\ baseReaders \in SUBSET Thread)'  BY DEF TypeOK, Label
    <2>2. (owner \in Thread \cup {NoThread} /\ writelockCount \in Nat)'  BY DEF TypeOK, Label, Counted, InCall, InUnlock
    <2>3. (nonrecursive \in BOOLEAN /\ suspended \in BOOLEAN /\ asserted \in BOOLEAN)'  BY DEF TypeOK, Label
    <2>4. (readlockCount \in [Thread -> Nat] /\ reads \in [Thread -> Nat] /\ writes \in [Thread -> Nat])'  BY DEF TypeOK, Label, Counted, InCall, InUnlock
    <2>5. (pc \in [Thread -> Label])'  BY DEF TypeOK, Label
    <2>6. (mine \in [Thread -> BOOLEAN])'  BY DEF TypeOK, Label
    <2>7. (calls \in [Thread -> Nat])'  BY DEF TypeOK, Label
    <2> QED  BY <2>1, <2>2, <2>3, <2>4, <2>5, <2>6, <2>7 DEF TypeOK
<1>2. Counted'
    BY ThreadAssumption DEF TypeOK, Counted
<1>3. BaseExcludes'
    BY ThreadAssumption DEF TypeOK, BaseExcludes
<1>4. OwnerWrites'
    BY ThreadAssumption DEF TypeOK, Counted, BaseExcludes, OwnerWrites, WriterHasBase, ReaderHasBase, InCall, InLock, InUnlock, InRestore, Upgrades
<1>5. WriterHasBase'
    BY ThreadAssumption DEF TypeOK, Counted, BaseExcludes, OwnerWrites, WriterHasBase, ReaderHasBase, InCall, InLock, InUnlock, InRestore, Upgrades
<1>6. ReaderHasBase'
    BY ThreadAssumption DEF TypeOK, Counted, ReaderHasBase, Shares, InCall, InLock, InUnlock, InRestore, Upgrades
<1>7. NoteHasReader'
    BY ThreadAssumption DEF TypeOK, Counted, OwnerWrites, WriterHasBase, NoteHasReader, InCall, InLock, InUnlock, InRestore, Upgrades
<1>8. InCall'
    BY ThreadAssumption DEF TypeOK, Counted, OwnerWrites, WriterHasBase, ReaderHasBase, NoteHasReader, BaseExcludes, Shares, InCall, InLock, InUnlock, InRestore, Upgrades
<1> QED  BY <1>1, <1>2, <1>3, <1>4, <1>5, <1>6, <1>7, <1>8

LEMMA lockYield_Step ==
    ASSUME IInv, NEW t \in Thread, lockYield(t)
    PROVE  IInv'
<1> USE DEF IInv, base, state, given, lockYield, HasDibs
<1>1. TypeOK'
    <2>1. (baseWriter \in Thread \cup {NoThread} /\ baseReaders \in SUBSET Thread)'  BY DEF TypeOK, Label
    <2>2. (owner \in Thread \cup {NoThread} /\ writelockCount \in Nat)'  BY DEF TypeOK, Label, Counted, InCall, InUnlock
    <2>3. (nonrecursive \in BOOLEAN /\ suspended \in BOOLEAN /\ asserted \in BOOLEAN)'  BY DEF TypeOK, Label
    <2>4. (readlockCount \in [Thread -> Nat] /\ reads \in [Thread -> Nat] /\ writes \in [Thread -> Nat])'  BY DEF TypeOK, Label, Counted, InCall, InUnlock
    <2>5. (pc \in [Thread -> Label])'  BY DEF TypeOK, Label
    <2>6. (mine \in [Thread -> BOOLEAN])'  BY DEF TypeOK, Label
    <2>7. (calls \in [Thread -> Nat])'  BY DEF TypeOK, Label
    <2> QED  BY <2>1, <2>2, <2>3, <2>4, <2>5, <2>6, <2>7 DEF TypeOK
<1>2. Counted'
    BY ThreadAssumption DEF TypeOK, Counted
<1>3. BaseExcludes'
    BY ThreadAssumption DEF TypeOK, BaseExcludes
<1>4. OwnerWrites'
    BY ThreadAssumption DEF TypeOK, Counted, BaseExcludes, OwnerWrites, WriterHasBase, ReaderHasBase, InCall, InLock, InUnlock, InRestore, Upgrades
<1>5. WriterHasBase'
    BY ThreadAssumption DEF TypeOK, Counted, BaseExcludes, OwnerWrites, WriterHasBase, ReaderHasBase, InCall, InLock, InUnlock, InRestore, Upgrades
<1>6. ReaderHasBase'
    BY ThreadAssumption DEF TypeOK, Counted, ReaderHasBase, Shares, InCall, InLock, InUnlock, InRestore, Upgrades
<1>7. NoteHasReader'
    BY ThreadAssumption DEF TypeOK, Counted, OwnerWrites, WriterHasBase, NoteHasReader, InCall, InLock, InUnlock, InRestore, Upgrades
<1>8. InCall'
    BY ThreadAssumption DEF TypeOK, Counted, OwnerWrites, WriterHasBase, ReaderHasBase, NoteHasReader, BaseExcludes, Shares, InCall, InLock, InUnlock, InRestore, Upgrades
<1> QED  BY <1>1, <1>2, <1>3, <1>4, <1>5, <1>6, <1>7, <1>8

LEMMA lockReturn_Step ==
    ASSUME IInv, NEW t \in Thread, lockReturn(t)
    PROVE  IInv'
<1> USE DEF IInv, base, state, given, lockReturn, HasDibs, Asserts, Written, At
<1>1. TypeOK'
    <2>1. (baseWriter \in Thread \cup {NoThread} /\ baseReaders \in SUBSET Thread)'  BY DEF TypeOK, Label
    <2>2. (owner \in Thread \cup {NoThread} /\ writelockCount \in Nat)'  BY DEF TypeOK, Label, Counted, InCall, InUnlock
    <2>3. (nonrecursive \in BOOLEAN /\ suspended \in BOOLEAN /\ asserted \in BOOLEAN)'  BY DEF TypeOK, Label
    <2>4. (readlockCount \in [Thread -> Nat] /\ reads \in [Thread -> Nat] /\ writes \in [Thread -> Nat])'  BY DEF TypeOK, Label, Counted, InCall, InUnlock
    <2>5. (pc \in [Thread -> Label])'  BY DEF TypeOK, Label
    <2>6. (mine \in [Thread -> BOOLEAN])'  BY DEF TypeOK, Label
    <2>7. (calls \in [Thread -> Nat])'  BY DEF TypeOK, Label
    <2> QED  BY <2>1, <2>2, <2>3, <2>4, <2>5, <2>6, <2>7 DEF TypeOK
<1>2. Counted'
    BY ThreadAssumption DEF TypeOK, Counted
<1>3. BaseExcludes'
    BY ThreadAssumption DEF TypeOK, BaseExcludes
<1>4. OwnerWrites'
    BY ThreadAssumption DEF TypeOK, Counted, BaseExcludes, OwnerWrites, WriterHasBase, ReaderHasBase, InCall, InLock, InUnlock, InRestore, Upgrades
<1>5. WriterHasBase'
    BY ThreadAssumption DEF TypeOK, Counted, BaseExcludes, OwnerWrites, WriterHasBase, ReaderHasBase, InCall, InLock, InUnlock, InRestore, Upgrades
<1>6. ReaderHasBase'
    BY ThreadAssumption DEF TypeOK, Counted, ReaderHasBase, Shares, InCall, InLock, InUnlock, InRestore, Upgrades
<1>7. NoteHasReader'
    BY ThreadAssumption DEF TypeOK, Counted, OwnerWrites, WriterHasBase, NoteHasReader, InCall, InLock, InUnlock, InRestore, Upgrades
<1>8. InCall'
    BY ThreadAssumption DEF TypeOK, Counted, OwnerWrites, WriterHasBase, ReaderHasBase, NoteHasReader, BaseExcludes, Shares, InCall, InLock, InUnlock, InRestore, Upgrades
<1> QED  BY <1>1, <1>2, <1>3, <1>4, <1>5, <1>6, <1>7, <1>8

LEMMA tryLockOwned_Step ==
    ASSUME IInv, NEW t \in Thread, tryLockOwned(t)
    PROVE  IInv'
<1> USE DEF IInv, base, state, given, tryLockOwned, Owns, Call, MayLock, Written
<1>1. TypeOK'
    <2>1. (baseWriter \in Thread \cup {NoThread} /\ baseReaders \in SUBSET Thread)'  BY DEF TypeOK, Label
    <2>2. (owner \in Thread \cup {NoThread} /\ writelockCount \in Nat)'  BY DEF TypeOK, Label, Counted, InCall, InUnlock
    <2>3. (nonrecursive \in BOOLEAN /\ suspended \in BOOLEAN /\ asserted \in BOOLEAN)'  BY DEF TypeOK, Label
    <2>4. (readlockCount \in [Thread -> Nat] /\ reads \in [Thread -> Nat] /\ writes \in [Thread -> Nat])'  BY DEF TypeOK, Label, Counted, InCall, InUnlock
    <2>5. (pc \in [Thread -> Label])'  BY DEF TypeOK, Label
    <2>6. (mine \in [Thread -> BOOLEAN])'  BY DEF TypeOK, Label
    <2>7. (calls \in [Thread -> Nat])'  BY DEF TypeOK, Label
    <2> QED  BY <2>1, <2>2, <2>3, <2>4, <2>5, <2>6, <2>7 DEF TypeOK
<1>2. Counted'
    BY ThreadAssumption DEF TypeOK, Counted
<1>3. BaseExcludes'
    BY ThreadAssumption DEF TypeOK, BaseExcludes
<1>4. OwnerWrites'
    BY ThreadAssumption DEF TypeOK, Counted, BaseExcludes, OwnerWrites, WriterHasBase, ReaderHasBase, InCall, InLock, InUnlock, InRestore, Upgrades
<1>5. WriterHasBase'
    BY ThreadAssumption DEF TypeOK, Counted, BaseExcludes, OwnerWrites, WriterHasBase, ReaderHasBase, InCall, InLock, InUnlock, InRestore, Upgrades
<1>6. ReaderHasBase'
    BY ThreadAssumption DEF TypeOK, Counted, ReaderHasBase, Shares, InCall, InLock, InUnlock, InRestore, Upgrades
<1>7. NoteHasReader'
    BY ThreadAssumption DEF TypeOK, Counted, OwnerWrites, WriterHasBase, NoteHasReader, InCall, InLock, InUnlock, InRestore, Upgrades
<1>8. InCall'
    BY ThreadAssumption DEF TypeOK, Counted, OwnerWrites, WriterHasBase, ReaderHasBase, NoteHasReader, BaseExcludes, Shares, InCall, InLock, InUnlock, InRestore, Upgrades
<1> QED  BY <1>1, <1>2, <1>3, <1>4, <1>5, <1>6, <1>7, <1>8

LEMMA tryLockFree_Step ==
    ASSUME IInv, NEW t \in Thread, NEW exclusive \in BOOLEAN, tryLockFree(t, exclusive)
    PROVE  IInv'
<1> USE DEF IInv, base, state, given, tryLockFree, Owns, Call, BaseFree, Asserts, Written
<1>1. TypeOK'
    <2>1. (baseWriter \in Thread \cup {NoThread} /\ baseReaders \in SUBSET Thread)'  BY DEF TypeOK, Label
    <2>2. (owner \in Thread \cup {NoThread} /\ writelockCount \in Nat)'  BY DEF TypeOK, Label, Counted, InCall, InUnlock
    <2>3. (nonrecursive \in BOOLEAN /\ suspended \in BOOLEAN /\ asserted \in BOOLEAN)'  BY DEF TypeOK, Label
    <2>4. (readlockCount \in [Thread -> Nat] /\ reads \in [Thread -> Nat] /\ writes \in [Thread -> Nat])'  BY DEF TypeOK, Label, Counted, InCall, InUnlock
    <2>5. (pc \in [Thread -> Label])'  BY DEF TypeOK, Label
    <2>6. (mine \in [Thread -> BOOLEAN])'  BY DEF TypeOK, Label
    <2>7. (calls \in [Thread -> Nat])'  BY DEF TypeOK, Label
    <2> QED  BY <2>1, <2>2, <2>3, <2>4, <2>5, <2>6, <2>7 DEF TypeOK
<1>2. Counted'
    BY ThreadAssumption DEF TypeOK, Counted
<1>3. BaseExcludes'
    BY ThreadAssumption DEF TypeOK, BaseExcludes
<1>4. OwnerWrites'
    BY ThreadAssumption DEF TypeOK, Counted, BaseExcludes, OwnerWrites, WriterHasBase, ReaderHasBase, InCall, InLock, InUnlock, InRestore, Upgrades
<1>5. WriterHasBase'
    BY ThreadAssumption DEF TypeOK, Counted, BaseExcludes, OwnerWrites, WriterHasBase, ReaderHasBase, InCall, InLock, InUnlock, InRestore, Upgrades
<1>6. ReaderHasBase'
    BY ThreadAssumption DEF TypeOK, Counted, ReaderHasBase, Shares, InCall, InLock, InUnlock, InRestore, Upgrades
<1>7. NoteHasReader'
    BY ThreadAssumption DEF TypeOK, Counted, OwnerWrites, WriterHasBase, NoteHasReader, InCall, InLock, InUnlock, InRestore, Upgrades
<1>8. InCall'
    BY ThreadAssumption DEF TypeOK, Counted, OwnerWrites, WriterHasBase, ReaderHasBase, NoteHasReader, BaseExcludes, Shares, InCall, InLock, InUnlock, InRestore, Upgrades
<1> QED  BY <1>1, <1>2, <1>3, <1>4, <1>5, <1>6, <1>7, <1>8

LEMMA tryUpgrade_Step ==
    ASSUME IInv, NEW t \in Thread, tryUpgrade(t)
    PROVE  IInv'
<1> USE DEF IInv, base, state, given, tryUpgrade, Owns, Call, BaseFree, Asserts, Written, At
<1>1. TypeOK'
    <2>1. (baseWriter \in Thread \cup {NoThread} /\ baseReaders \in SUBSET Thread)'  BY DEF TypeOK, Label
    <2>2. (owner \in Thread \cup {NoThread} /\ writelockCount \in Nat)'  BY DEF TypeOK, Label, Counted, InCall, InUnlock
    <2>3. (nonrecursive \in BOOLEAN /\ suspended \in BOOLEAN /\ asserted \in BOOLEAN)'  BY DEF TypeOK, Label
    <2>4. (readlockCount \in [Thread -> Nat] /\ reads \in [Thread -> Nat] /\ writes \in [Thread -> Nat])'  BY DEF TypeOK, Label, Counted, InCall, InUnlock
    <2>5. (pc \in [Thread -> Label])'  BY DEF TypeOK, Label
    <2>6. (mine \in [Thread -> BOOLEAN])'  BY DEF TypeOK, Label
    <2>7. (calls \in [Thread -> Nat])'  BY DEF TypeOK, Label
    <2> QED  BY <2>1, <2>2, <2>3, <2>4, <2>5, <2>6, <2>7 DEF TypeOK
<1>2. Counted'
    BY ThreadAssumption DEF TypeOK, Counted
<1>3. BaseExcludes'
    BY ThreadAssumption DEF TypeOK, BaseExcludes
<1>4. OwnerWrites'
    BY ThreadAssumption DEF TypeOK, Counted, BaseExcludes, OwnerWrites, WriterHasBase, ReaderHasBase, InCall, InLock, InUnlock, InRestore, Upgrades
<1>5. WriterHasBase'
    BY ThreadAssumption DEF TypeOK, Counted, BaseExcludes, OwnerWrites, WriterHasBase, ReaderHasBase, InCall, InLock, InUnlock, InRestore, Upgrades
<1>6. ReaderHasBase'
    BY ThreadAssumption DEF TypeOK, Counted, ReaderHasBase, Shares, InCall, InLock, InUnlock, InRestore, Upgrades
<1>7. NoteHasReader'
    BY ThreadAssumption DEF TypeOK, Counted, OwnerWrites, WriterHasBase, NoteHasReader, InCall, InLock, InUnlock, InRestore, Upgrades
<1>8. InCall'
    BY ThreadAssumption DEF TypeOK, Counted, OwnerWrites, WriterHasBase, ReaderHasBase, NoteHasReader, BaseExcludes, Shares, InCall, InLock, InUnlock, InRestore, Upgrades
<1> QED  BY <1>1, <1>2, <1>3, <1>4, <1>5, <1>6, <1>7, <1>8

LEMMA restored_Step ==
    ASSUME IInv, NEW t \in Thread, restored(t)
    PROVE  IInv'
<1> USE DEF IInv, base, state, given, restored, Asserts, At
<1>1. TypeOK'
    <2>1. (baseWriter \in Thread \cup {NoThread} /\ baseReaders \in SUBSET Thread)'  BY DEF TypeOK, Label
    <2>2. (owner \in Thread \cup {NoThread} /\ writelockCount \in Nat)'  BY DEF TypeOK, Label, Counted, InCall, InUnlock
    <2>3. (nonrecursive \in BOOLEAN /\ suspended \in BOOLEAN /\ asserted \in BOOLEAN)'  BY DEF TypeOK, Label
    <2>4. (readlockCount \in [Thread -> Nat] /\ reads \in [Thread -> Nat] /\ writes \in [Thread -> Nat])'  BY DEF TypeOK, Label, Counted, InCall, InUnlock
    <2>5. (pc \in [Thread -> Label])'  BY DEF TypeOK, Label
    <2>6. (mine \in [Thread -> BOOLEAN])'  BY DEF TypeOK, Label
    <2>7. (calls \in [Thread -> Nat])'  BY DEF TypeOK, Label
    <2> QED  BY <2>1, <2>2, <2>3, <2>4, <2>5, <2>6, <2>7 DEF TypeOK
<1>2. Counted'
    BY ThreadAssumption DEF TypeOK, Counted
<1>3. BaseExcludes'
    BY ThreadAssumption DEF TypeOK, BaseExcludes
<1>4. OwnerWrites'
    BY ThreadAssumption DEF TypeOK, Counted, BaseExcludes, OwnerWrites, WriterHasBase, ReaderHasBase, InCall, InLock, InUnlock, InRestore, Upgrades
<1>5. WriterHasBase'
    BY ThreadAssumption DEF TypeOK, Counted, BaseExcludes, OwnerWrites, WriterHasBase, ReaderHasBase, InCall, InLock, InUnlock, InRestore, Upgrades
<1>6. ReaderHasBase'
    BY ThreadAssumption DEF TypeOK, Counted, ReaderHasBase, Shares, InCall, InLock, InUnlock, InRestore, Upgrades
<1>7. NoteHasReader'
    BY ThreadAssumption DEF TypeOK, Counted, OwnerWrites, WriterHasBase, NoteHasReader, InCall, InLock, InUnlock, InRestore, Upgrades
<1>8. InCall'
    BY ThreadAssumption DEF TypeOK, Counted, OwnerWrites, WriterHasBase, ReaderHasBase, NoteHasReader, BaseExcludes, Shares, InCall, InLock, InUnlock, InRestore, Upgrades
<1> QED  BY <1>1, <1>2, <1>3, <1>4, <1>5, <1>6, <1>7, <1>8

LEMMA lockSharedAgain_Step ==
    ASSUME IInv, NEW t \in Thread, lockSharedAgain(t)
    PROVE  IInv'
<1> USE DEF IInv, base, state, given, lockSharedAgain, Owns, Call, MayRead, Asserts, ReadGiven
<1>1. TypeOK'
    <2>1. (baseWriter \in Thread \cup {NoThread} /\ baseReaders \in SUBSET Thread)'  BY DEF TypeOK, Label
    <2>2. (owner \in Thread \cup {NoThread} /\ writelockCount \in Nat)'  BY DEF TypeOK, Label, Counted, InCall, InUnlock
    <2>3. (nonrecursive \in BOOLEAN /\ suspended \in BOOLEAN /\ asserted \in BOOLEAN)'  BY DEF TypeOK, Label
    <2>4. (readlockCount \in [Thread -> Nat] /\ reads \in [Thread -> Nat] /\ writes \in [Thread -> Nat])'  BY DEF TypeOK, Label, Counted, InCall, InUnlock
    <2>5. (pc \in [Thread -> Label])'  BY DEF TypeOK, Label
    <2>6. (mine \in [Thread -> BOOLEAN])'  BY DEF TypeOK, Label
    <2>7. (calls \in [Thread -> Nat])'  BY DEF TypeOK, Label
    <2> QED  BY <2>1, <2>2, <2>3, <2>4, <2>5, <2>6, <2>7 DEF TypeOK
<1>2. Counted'
    BY ThreadAssumption DEF TypeOK, Counted
<1>3. BaseExcludes'
    BY ThreadAssumption DEF TypeOK, BaseExcludes
<1>4. OwnerWrites'
    BY ThreadAssumption DEF TypeOK, Counted, BaseExcludes, OwnerWrites, WriterHasBase, ReaderHasBase, InCall, InLock, InUnlock, InRestore, Upgrades
<1>5. WriterHasBase'
    BY ThreadAssumption DEF TypeOK, Counted, BaseExcludes, OwnerWrites, WriterHasBase, ReaderHasBase, InCall, InLock, InUnlock, InRestore, Upgrades
<1>6. ReaderHasBase'
    BY ThreadAssumption DEF TypeOK, Counted, ReaderHasBase, Shares, InCall, InLock, InUnlock, InRestore, Upgrades
<1>7. NoteHasReader'
    <2>1. reads' \in [Thread -> Nat] /\ reads'[t] > 0
        BY DEF TypeOK
    <2>2. \A u \in Thread : reads[u] > 0 => reads'[u] > 0
        BY DEF TypeOK
    <2>3. suspended' => suspended \/ owner' = t
        OBVIOUS
    <2>4. owner' = owner \/ owner' = t
        OBVIOUS
    <2> QED  BY <2>1, <2>2, <2>3, <2>4 DEF NoteHasReader
<1>8. InCall'
    BY ThreadAssumption DEF TypeOK, Counted, OwnerWrites, WriterHasBase, ReaderHasBase, NoteHasReader, BaseExcludes, Shares, InCall, InLock, InUnlock, InRestore, Upgrades
<1> QED  BY <1>1, <1>2, <1>3, <1>4, <1>5, <1>6, <1>7, <1>8

LEMMA lock_shared_Step ==
    ASSUME IInv, NEW t \in Thread, lock_shared(t)
    PROVE  IInv'
<1> USE DEF IInv, base, state, given, lock_shared, Owns, Call, At
<1>1. TypeOK'
    <2>1. (baseWriter \in Thread \cup {NoThread} /\ baseReaders \in SUBSET Thread)'  BY DEF TypeOK, Label
    <2>2. (owner \in Thread \cup {NoThread} /\ writelockCount \in Nat)'  BY DEF TypeOK, Label, Counted, InCall, InUnlock
    <2>3. (nonrecursive \in BOOLEAN /\ suspended \in BOOLEAN /\ asserted \in BOOLEAN)'  BY DEF TypeOK, Label
    <2>4. (readlockCount \in [Thread -> Nat] /\ reads \in [Thread -> Nat] /\ writes \in [Thread -> Nat])'  BY DEF TypeOK, Label, Counted, InCall, InUnlock
    <2>5. (pc \in [Thread -> Label])'  BY DEF TypeOK, Label
    <2>6. (mine \in [Thread -> BOOLEAN])'  BY DEF TypeOK, Label
    <2>7. (calls \in [Thread -> Nat])'  BY DEF TypeOK, Label
    <2> QED  BY <2>1, <2>2, <2>3, <2>4, <2>5, <2>6, <2>7 DEF TypeOK
<1>2. Counted'
    BY ThreadAssumption DEF TypeOK, Counted
<1>3. BaseExcludes'
    BY ThreadAssumption DEF TypeOK, BaseExcludes
<1>4. OwnerWrites'
    BY ThreadAssumption DEF TypeOK, Counted, BaseExcludes, OwnerWrites, WriterHasBase, ReaderHasBase, InCall, InLock, InUnlock, InRestore, Upgrades
<1>5. WriterHasBase'
    BY ThreadAssumption DEF TypeOK, Counted, BaseExcludes, OwnerWrites, WriterHasBase, ReaderHasBase, InCall, InLock, InUnlock, InRestore, Upgrades
<1>6. ReaderHasBase'
    BY ThreadAssumption DEF TypeOK, Counted, ReaderHasBase, Shares, InCall, InLock, InUnlock, InRestore, Upgrades
<1>7. NoteHasReader'
    BY ThreadAssumption DEF TypeOK, Counted, OwnerWrites, WriterHasBase, NoteHasReader, InCall, InLock, InUnlock, InRestore, Upgrades
<1>8. InCall'
    BY ThreadAssumption DEF TypeOK, Counted, OwnerWrites, WriterHasBase, ReaderHasBase, NoteHasReader, BaseExcludes, Shares, InCall, InLock, InUnlock, InRestore, Upgrades
<1> QED  BY <1>1, <1>2, <1>3, <1>4, <1>5, <1>6, <1>7, <1>8

LEMMA lockSharedReturn_Step ==
    ASSUME IInv, NEW t \in Thread, lockSharedReturn(t)
    PROVE  IInv'
<1> USE DEF IInv, base, state, given, lockSharedReturn, ReadGiven, At
<1>1. TypeOK'
    <2>1. (baseWriter \in Thread \cup {NoThread} /\ baseReaders \in SUBSET Thread)'  BY DEF TypeOK, Label
    <2>2. (owner \in Thread \cup {NoThread} /\ writelockCount \in Nat)'  BY DEF TypeOK, Label, Counted, InCall, InUnlock
    <2>3. (nonrecursive \in BOOLEAN /\ suspended \in BOOLEAN /\ asserted \in BOOLEAN)'  BY DEF TypeOK, Label
    <2>4. (readlockCount \in [Thread -> Nat] /\ reads \in [Thread -> Nat] /\ writes \in [Thread -> Nat])'  BY DEF TypeOK, Label, Counted, InCall, InUnlock
    <2>5. (pc \in [Thread -> Label])'  BY DEF TypeOK, Label
    <2>6. (mine \in [Thread -> BOOLEAN])'  BY DEF TypeOK, Label
    <2>7. (calls \in [Thread -> Nat])'  BY DEF TypeOK, Label
    <2> QED  BY <2>1, <2>2, <2>3, <2>4, <2>5, <2>6, <2>7 DEF TypeOK
<1>2. Counted'
    BY ThreadAssumption DEF TypeOK, Counted
<1>3. BaseExcludes'
    BY ThreadAssumption DEF TypeOK, BaseExcludes
<1>4. OwnerWrites'
    BY ThreadAssumption DEF TypeOK, Counted, BaseExcludes, OwnerWrites, WriterHasBase, ReaderHasBase, InCall, InLock, InUnlock, InRestore, Upgrades
<1>5. WriterHasBase'
    BY ThreadAssumption DEF TypeOK, Counted, BaseExcludes, OwnerWrites, WriterHasBase, ReaderHasBase, InCall, InLock, InUnlock, InRestore, Upgrades
<1>6. ReaderHasBase'
    BY ThreadAssumption DEF TypeOK, Counted, ReaderHasBase, Shares, InCall, InLock, InUnlock, InRestore, Upgrades
<1>7. NoteHasReader'
    BY ThreadAssumption DEF TypeOK, Counted, OwnerWrites, WriterHasBase, NoteHasReader, InCall, InLock, InUnlock, InRestore, Upgrades
<1>8. InCall'
    BY ThreadAssumption DEF TypeOK, Counted, OwnerWrites, WriterHasBase, ReaderHasBase, NoteHasReader, BaseExcludes, Shares, InCall, InLock, InUnlock, InRestore, Upgrades
<1> QED  BY <1>1, <1>2, <1>3, <1>4, <1>5, <1>6, <1>7, <1>8

LEMMA try_lock_shared_Step ==
    ASSUME IInv, NEW t \in Thread, try_lock_shared(t)
    PROVE  IInv'
<1> USE DEF IInv, base, state, given, try_lock_shared, Owns, Call, ReadGiven
<1>1. TypeOK'
    <2>1. (baseWriter \in Thread \cup {NoThread} /\ baseReaders \in SUBSET Thread)'  BY DEF TypeOK, Label
    <2>2. (owner \in Thread \cup {NoThread} /\ writelockCount \in Nat)'  BY DEF TypeOK, Label, Counted, InCall, InUnlock
    <2>3. (nonrecursive \in BOOLEAN /\ suspended \in BOOLEAN /\ asserted \in BOOLEAN)'  BY DEF TypeOK, Label
    <2>4. (readlockCount \in [Thread -> Nat] /\ reads \in [Thread -> Nat] /\ writes \in [Thread -> Nat])'  BY DEF TypeOK, Label, Counted, InCall, InUnlock
    <2>5. (pc \in [Thread -> Label])'  BY DEF TypeOK, Label
    <2>6. (mine \in [Thread -> BOOLEAN])'  BY DEF TypeOK, Label
    <2>7. (calls \in [Thread -> Nat])'  BY DEF TypeOK, Label
    <2> QED  BY <2>1, <2>2, <2>3, <2>4, <2>5, <2>6, <2>7 DEF TypeOK
<1>2. Counted'
    BY ThreadAssumption DEF TypeOK, Counted
<1>3. BaseExcludes'
    BY ThreadAssumption DEF TypeOK, BaseExcludes
<1>4. OwnerWrites'
    BY ThreadAssumption DEF TypeOK, Counted, BaseExcludes, OwnerWrites, WriterHasBase, ReaderHasBase, InCall, InLock, InUnlock, InRestore, Upgrades
<1>5. WriterHasBase'
    BY ThreadAssumption DEF TypeOK, Counted, BaseExcludes, OwnerWrites, WriterHasBase, ReaderHasBase, InCall, InLock, InUnlock, InRestore, Upgrades
<1>6. ReaderHasBase'
    BY ThreadAssumption DEF TypeOK, Counted, ReaderHasBase, Shares, InCall, InLock, InUnlock, InRestore, Upgrades
<1>7. NoteHasReader'
    BY ThreadAssumption DEF TypeOK, Counted, OwnerWrites, WriterHasBase, NoteHasReader, InCall, InLock, InUnlock, InRestore, Upgrades
<1>8. InCall'
    BY ThreadAssumption DEF TypeOK, Counted, OwnerWrites, WriterHasBase, ReaderHasBase, NoteHasReader, BaseExcludes, Shares, InCall, InLock, InUnlock, InRestore, Upgrades
<1> QED  BY <1>1, <1>2, <1>3, <1>4, <1>5, <1>6, <1>7, <1>8

LEMMA baseShare_Step ==
    ASSUME IInv, NEW t \in Thread, baseShare(t)
    PROVE  IInv'
<1> USE DEF IInv, base, state, given, baseShare
<1>1. TypeOK'
    <2>1. (baseWriter \in Thread \cup {NoThread} /\ baseReaders \in SUBSET Thread)'  BY DEF TypeOK, Label
    <2>2. (owner \in Thread \cup {NoThread} /\ writelockCount \in Nat)'  BY DEF TypeOK, Label, Counted, InCall, InUnlock
    <2>3. (nonrecursive \in BOOLEAN /\ suspended \in BOOLEAN /\ asserted \in BOOLEAN)'  BY DEF TypeOK, Label
    <2>4. (readlockCount \in [Thread -> Nat] /\ reads \in [Thread -> Nat] /\ writes \in [Thread -> Nat])'  BY DEF TypeOK, Label, Counted, InCall, InUnlock
    <2>5. (pc \in [Thread -> Label])'  BY DEF TypeOK, Label
    <2>6. (mine \in [Thread -> BOOLEAN])'  BY DEF TypeOK, Label
    <2>7. (calls \in [Thread -> Nat])'  BY DEF TypeOK, Label
    <2> QED  BY <2>1, <2>2, <2>3, <2>4, <2>5, <2>6, <2>7 DEF TypeOK
<1>2. Counted'
    BY ThreadAssumption DEF TypeOK, Counted
<1>3. BaseExcludes'
    BY ThreadAssumption DEF TypeOK, BaseExcludes
<1>4. OwnerWrites'
    BY ThreadAssumption DEF TypeOK, Counted, BaseExcludes, OwnerWrites, WriterHasBase, ReaderHasBase, InCall, InLock, InUnlock, InRestore, Upgrades
<1>5. WriterHasBase'
    BY ThreadAssumption DEF TypeOK, Counted, BaseExcludes, OwnerWrites, WriterHasBase, ReaderHasBase, InCall, InLock, InUnlock, InRestore, Upgrades
<1>6. ReaderHasBase'
    BY ThreadAssumption DEF TypeOK, Counted, ReaderHasBase, Shares, InCall, InLock, InUnlock, InRestore, Upgrades
<1>7. NoteHasReader'
    BY ThreadAssumption DEF TypeOK, Counted, OwnerWrites, WriterHasBase, NoteHasReader, InCall, InLock, InUnlock, InRestore, Upgrades
<1>8. InCall'
    BY ThreadAssumption DEF TypeOK, Counted, OwnerWrites, WriterHasBase, ReaderHasBase, NoteHasReader, BaseExcludes, Shares, InCall, InLock, InUnlock, InRestore, Upgrades
<1> QED  BY <1>1, <1>2, <1>3, <1>4, <1>5, <1>6, <1>7, <1>8

LEMMA unlock_Step ==
    ASSUME IInv, NEW t \in Thread, unlock(t)
    PROVE  IInv'
<1> USE DEF IInv, base, state, given, unlock, Asserts, At
<1>1. TypeOK'
    <2>1. (baseWriter \in Thread \cup {NoThread} /\ baseReaders \in SUBSET Thread)'  BY DEF TypeOK, Label
    <2>2. (owner \in Thread \cup {NoThread} /\ writelockCount \in Nat)'  BY DEF TypeOK, Label, Counted, InCall, InUnlock
    <2>3. (nonrecursive \in BOOLEAN /\ suspended \in BOOLEAN /\ asserted \in BOOLEAN)'  BY DEF TypeOK, Label
    <2>4. (readlockCount \in [Thread -> Nat] /\ reads \in [Thread -> Nat] /\ writes \in [Thread -> Nat])'  BY DEF TypeOK, Label, Counted, InCall, InUnlock
    <2>5. (pc \in [Thread -> Label])'  BY DEF TypeOK, Label
    <2>6. (mine \in [Thread -> BOOLEAN])'  BY DEF TypeOK, Label
    <2>7. (calls \in [Thread -> Nat])'  BY DEF TypeOK, Label
    <2> QED  BY <2>1, <2>2, <2>3, <2>4, <2>5, <2>6, <2>7 DEF TypeOK
<1>2. Counted'
    BY ThreadAssumption DEF TypeOK, Counted
<1>3. BaseExcludes'
    BY ThreadAssumption DEF TypeOK, BaseExcludes
<1>4. OwnerWrites'
    BY ThreadAssumption DEF TypeOK, Counted, BaseExcludes, OwnerWrites, WriterHasBase, ReaderHasBase, InCall, InLock, InUnlock, InRestore, Upgrades
<1>5. WriterHasBase'
    BY ThreadAssumption DEF TypeOK, Counted, BaseExcludes, OwnerWrites, WriterHasBase, ReaderHasBase, InCall, InLock, InUnlock, InRestore, Upgrades
<1>6. ReaderHasBase'
    BY ThreadAssumption DEF TypeOK, Counted, ReaderHasBase, Shares, InCall, InLock, InUnlock, InRestore, Upgrades
<1>7. NoteHasReader'
    BY ThreadAssumption DEF TypeOK, Counted, OwnerWrites, WriterHasBase, NoteHasReader, InCall, InLock, InUnlock, InRestore, Upgrades
<1>8. InCall'
    BY ThreadAssumption DEF TypeOK, Counted, OwnerWrites, WriterHasBase, ReaderHasBase, NoteHasReader, BaseExcludes, Shares, InCall, InLock, InUnlock, InRestore, Upgrades
<1> QED  BY <1>1, <1>2, <1>3, <1>4, <1>5, <1>6, <1>7, <1>8

LEMMA unlockReturn_Step ==
    ASSUME IInv, NEW t \in Thread, unlockReturn(t)
    PROVE  IInv'
<1> USE DEF IInv, base, state, given, unlockReturn, At
<1>1. TypeOK'
    <2>1. (baseWriter \in Thread \cup {NoThread} /\ baseReaders \in SUBSET Thread)'  BY DEF TypeOK, Label
    <2>2. (owner \in Thread \cup {NoThread} /\ writelockCount \in Nat)'  BY DEF TypeOK, Label, Counted, InCall, InUnlock
    <2>3. (nonrecursive \in BOOLEAN /\ suspended \in BOOLEAN /\ asserted \in BOOLEAN)'  BY DEF TypeOK, Label
    <2>4. (readlockCount \in [Thread -> Nat] /\ reads \in [Thread -> Nat] /\ writes \in [Thread -> Nat])'  BY DEF TypeOK, Label, Counted, InCall, InUnlock
    <2>5. (pc \in [Thread -> Label])'  BY DEF TypeOK, Label
    <2>6. (mine \in [Thread -> BOOLEAN])'  BY DEF TypeOK, Label
    <2>7. (calls \in [Thread -> Nat])'  BY DEF TypeOK, Label
    <2> QED  BY <2>1, <2>2, <2>3, <2>4, <2>5, <2>6, <2>7 DEF TypeOK
<1>2. Counted'
    BY ThreadAssumption DEF TypeOK, Counted
<1>3. BaseExcludes'
    BY ThreadAssumption DEF TypeOK, BaseExcludes
<1>4. OwnerWrites'
    BY ThreadAssumption DEF TypeOK, Counted, BaseExcludes, OwnerWrites, WriterHasBase, ReaderHasBase, InCall, InLock, InUnlock, InRestore, Upgrades
<1>5. WriterHasBase'
    BY ThreadAssumption DEF TypeOK, Counted, BaseExcludes, OwnerWrites, WriterHasBase, ReaderHasBase, InCall, InLock, InUnlock, InRestore, Upgrades
<1>6. ReaderHasBase'
    BY ThreadAssumption DEF TypeOK, Counted, ReaderHasBase, Shares, InCall, InLock, InUnlock, InRestore, Upgrades
<1>7. NoteHasReader'
    BY ThreadAssumption DEF TypeOK, Counted, OwnerWrites, WriterHasBase, NoteHasReader, InCall, InLock, InUnlock, InRestore, Upgrades
<1>8. InCall'
    BY ThreadAssumption DEF TypeOK, Counted, OwnerWrites, WriterHasBase, ReaderHasBase, NoteHasReader, BaseExcludes, Shares, InCall, InLock, InUnlock, InRestore, Upgrades
<1> QED  BY <1>1, <1>2, <1>3, <1>4, <1>5, <1>6, <1>7, <1>8

LEMMA unlock_shared_Step ==
    ASSUME IInv, NEW t \in Thread, unlock_shared(t)
    PROVE  IInv'
<1> USE DEF IInv, base, state, given, unlock_shared
<1>1. TypeOK'
    <2>1. (baseWriter \in Thread \cup {NoThread} /\ baseReaders \in SUBSET Thread)'  BY DEF TypeOK, Label
    <2>2. (owner \in Thread \cup {NoThread} /\ writelockCount \in Nat)'  BY DEF TypeOK, Label, Counted, InCall, InUnlock
    <2>3. (nonrecursive \in BOOLEAN /\ suspended \in BOOLEAN /\ asserted \in BOOLEAN)'  BY DEF TypeOK, Label
    <2>4. (readlockCount \in [Thread -> Nat] /\ reads \in [Thread -> Nat] /\ writes \in [Thread -> Nat])'  BY DEF TypeOK, Label, Counted, InCall, InUnlock
    <2>5. (pc \in [Thread -> Label])'  BY DEF TypeOK, Label
    <2>6. (mine \in [Thread -> BOOLEAN])'  BY DEF TypeOK, Label
    <2>7. (calls \in [Thread -> Nat])'  BY DEF TypeOK, Label
    <2> QED  BY <2>1, <2>2, <2>3, <2>4, <2>5, <2>6, <2>7 DEF TypeOK
<1>2. Counted'
    BY ThreadAssumption DEF TypeOK, Counted
<1>3. BaseExcludes'
    BY ThreadAssumption DEF TypeOK, BaseExcludes
<1>4. OwnerWrites'
    BY ThreadAssumption DEF TypeOK, Counted, BaseExcludes, OwnerWrites, WriterHasBase, ReaderHasBase, InCall, InLock, InUnlock, InRestore, Upgrades
<1>5. WriterHasBase'
    BY ThreadAssumption DEF TypeOK, Counted, BaseExcludes, OwnerWrites, WriterHasBase, ReaderHasBase, InCall, InLock, InUnlock, InRestore, Upgrades
<1>6. ReaderHasBase'
    BY ThreadAssumption DEF TypeOK, Counted, ReaderHasBase, Shares, InCall, InLock, InUnlock, InRestore, Upgrades
<1>7. NoteHasReader'
    <2>1. owner' = owner /\ (suspended' => suspended)
        OBVIOUS
    <2>2. \A u \in Thread \ {t} : reads'[u] = reads[u]
        BY DEF TypeOK
    <2>3. suspended' /\ owner = t => readlockCount[t] # 1
        OBVIOUS
    <2>4. suspended' /\ owner = t => reads'[t] > 0
        BY <2>3 DEF TypeOK, Counted
    <2> QED  BY <2>1, <2>2, <2>4 DEF NoteHasReader
<1>8. InCall'
    BY ThreadAssumption DEF TypeOK, Counted, OwnerWrites, WriterHasBase, ReaderHasBase, NoteHasReader, BaseExcludes, Shares, InCall, InLock, InUnlock, InRestore, Upgrades
<1> QED  BY <1>1, <1>2, <1>3, <1>4, <1>5, <1>6, <1>7, <1>8

-----------------------------------------------------------------------------
LEMMA InitIInv == Init => IInv
<1> SUFFICES ASSUME Init PROVE IInv  OBVIOUS
<1> USE ThreadAssumption DEF Init
<1>1. TypeOK  BY DEF TypeOK, Label
<1>2. Counted /\ BaseExcludes /\ OwnerWrites  BY DEF Counted, BaseExcludes, OwnerWrites
<1>3. WriterHasBase /\ ReaderHasBase /\ NoteHasReader
    BY DEF WriterHasBase, ReaderHasBase, NoteHasReader
<1>4. InCall  BY DEF InCall, InLock, InUnlock, InRestore, Shares, Upgrades
<1> QED  BY <1>1, <1>2, <1>3, <1>4 DEF IInv

LEMMA NextIInv == IInv /\ [Next]_vars => IInv'
<1> SUFFICES ASSUME IInv, [Next]_vars PROVE IInv'  OBVIOUS
<1>1. CASE UNCHANGED vars
    BY <1>1 DEF IInv, vars, base, state, given, TypeOK, Counted, BaseExcludes, OwnerWrites,
       WriterHasBase, ReaderHasBase, NoteHasReader, InCall, InLock, InUnlock, InRestore,
       Shares, Upgrades
<1>2. ASSUME NEW t \in Thread, Locking(t) PROVE IInv'
    BY <1>2, lock_Step, nonrecursive_lock_Step, tryLockOwned_Step, tryLockFree_Step,
       tryUpgrade_Step, lockSharedAgain_Step, lock_shared_Step, try_lock_shared_Step
       DEF Locking
<1>3. ASSUME NEW t \in Thread, baseLock(t) \/ baseShare(t) PROVE IInv'
    BY <1>3, baseLock_Step, baseShare_Step
<1>4. ASSUME NEW t \in Thread, Continuing(t) PROVE IInv'
    BY <1>4, lockYield_Step, lockReturn_Step, lockSharedReturn_Step, unlockReturn_Step,
       restored_Step DEF Continuing
<1>5. ASSUME NEW t \in Thread, Unlocking(t) PROVE IInv'
    BY <1>5, unlock_Step, unlock_shared_Step DEF Unlocking
<1> QED  BY <1>1, <1>2, <1>3, <1>4, <1>5 DEF Next

LEMMA Invariance == Spec => []IInv
  BY InitIInv, NextIInv, PTL DEF Spec

\* The fields stay within their types and the notes in them within the calls that
\* make them.
THEOREM TypeCorrect == Spec => []TypeOK
<1>1. IInv => TypeOK  BY DEF IInv
<1> QED  BY Invariance, <1>1, PTL

\* Every write lock is backed by the base mutex and every read lock by a share of
\* it or by the note that stands for one.
THEOREM LocksAreBacked == Spec => []LocksBacked
<1>1. IInv => LocksBacked  BY DEF IInv, LocksBacked
<1> QED  BY Invariance, <1>1, PTL

LEMMA IInvExcludes == IInv => Exclusion
<1> SUFFICES ASSUME IInv, NEW t \in Thread, writes[t] > 0, NEW u \in Thread \ {t}
             PROVE  writes[u] = 0 /\ reads[u] = 0
    BY DEF Exclusion
<1>1. baseWriter = t /\ owner = t  BY DEF IInv, WriterHasBase
<1>2. writes[u] = 0  BY <1>1 DEF IInv, WriterHasBase, TypeOK
<1>3. baseReaders = {}  BY <1>1, ThreadAssumption DEF IInv, BaseExcludes
<1>4. reads[u] = 0  BY <1>1, <1>3 DEF IInv, ReaderHasBase, TypeOK
<1> QED  BY <1>2, <1>4

\* While a thread holds a write lock no other thread holds any lock.
THEOREM WritersExclude == Spec => []Exclusion
  BY Invariance, IInvExcludes, PTL

-----------------------------------------------------------------------------
(* A step that gives or takes back a lock is one that ReadWriteLock        *)
(* allows: the locks given are those that exclude what must be excluded.   *)

Given(t) ==
    \/ given' = given
    \/ reads' = [reads EXCEPT ![t] = @ + 1] /\ writes' = writes
    \/ writes' = [writes EXCEPT ![t] = @ + 1] /\ reads' = reads
    \/ reads[t] > 0 /\ reads' = [reads EXCEPT ![t] = @ - 1] /\ writes' = writes
    \/ writes[t] > 0 /\ writes' = [writes EXCEPT ![t] = @ - 1] /\ reads' = reads

LEMMA NextGives == Next => \E t \in Thread : Given(t)
<1> USE DEF Given, given, state, base
<1> SUFFICES ASSUME NEW t \in Thread,
                    Locking(t) \/ baseLock(t) \/ baseShare(t) \/ Continuing(t) \/ Unlocking(t)
             PROVE  Given(t)
    BY DEF Next
<1>1. CASE lock(t) \/ nonrecursive_lock(t)
    BY <1>1 DEF lock, nonrecursive_lock, Written, Throw
<1>2. CASE tryLockOwned(t) \/ \E exclusive \in BOOLEAN : tryLockFree(t, exclusive)
    BY <1>2 DEF tryLockOwned, tryLockFree, Written
<1>3. CASE tryUpgrade(t)
    BY <1>3 DEF tryUpgrade, Written
<1>4. CASE lockSharedAgain(t) \/ lock_shared(t) \/ try_lock_shared(t)
    BY <1>4 DEF lockSharedAgain, lock_shared, try_lock_shared, ReadGiven
<1>5. CASE baseLock(t) \/ baseShare(t)
    BY <1>5 DEF baseLock, baseShare
<1>6. CASE Continuing(t)
    BY <1>6 DEF Continuing, lockYield, lockReturn, lockSharedReturn, unlockReturn, restored,
       Written, ReadGiven
<1>7. CASE Unlocking(t)
    BY <1>7 DEF Unlocking, unlock, unlock_shared
<1> QED  BY <1>1, <1>2, <1>3, <1>4, <1>5, <1>6, <1>7 DEF Locking

LEMMA StepAllowed == IInv /\ IInv' /\ [Next]_vars => [Promise!Next]_<<reads, writes>>
<1> SUFFICES ASSUME IInv, IInv', Next PROVE [Promise!Next]_<<reads, writes>>
    BY DEF vars, given
<1>1. PICK t \in Thread : Given(t)  BY NextGives
<1>2. Exclusion'  BY IInvExcludes, PTL
<1>3. reads \in [Thread -> Nat] /\ writes \in [Thread -> Nat]  BY DEF IInv, TypeOK
<1>4. CASE given' = given  BY <1>4 DEF given
<1>5. CASE reads' = [reads EXCEPT ![t] = @ + 1] /\ writes' = writes
    <2>1. \A u \in Thread \ {t} : writes[u] = 0
        <3> SUFFICES ASSUME NEW u \in Thread \ {t}, writes[u] # 0 PROVE FALSE  OBVIOUS
        <3>1. writes'[u] > 0  BY <1>3, <1>5
        <3>2. reads'[t] = 0  BY <1>2, <3>1 DEF Exclusion
        <3> QED  BY <1>3, <1>5, <3>2
    <2> QED  BY <1>5, <2>1 DEF Promise!Next, Promise!Read
<1>6. CASE writes' = [writes EXCEPT ![t] = @ + 1] /\ reads' = reads
    <2>1. writes'[t] > 0  BY <1>3, <1>6
    <2>2. \A u \in Thread \ {t} : writes'[u] = 0 /\ reads'[u] = 0
        BY <1>2, <2>1 DEF Exclusion
    <2> QED  BY <1>3, <1>6, <2>2 DEF Promise!Next, Promise!Write
<1>7. CASE reads[t] > 0 /\ reads' = [reads EXCEPT ![t] = @ - 1] /\ writes' = writes
    BY <1>7 DEF Promise!Next, Promise!EndRead
<1>8. CASE writes[t] > 0 /\ writes' = [writes EXCEPT ![t] = @ - 1] /\ reads' = reads
    BY <1>8 DEF Promise!Next, Promise!EndWrite
<1> QED  BY <1>1, <1>4, <1>5, <1>6, <1>7, <1>8 DEF Given

\* The mutex implements ReadWriteLock: a reader that waits for its upgrade, or that
\* comes back from it, is passed by no other writer.
THEOREM Implements == Spec => PromiseKept
<1>1. Init => Promise!Init  BY DEF Init, Promise!Init
<1>2. IInv /\ IInv' /\ [Next]_vars => [Promise!Next]_Promise!vars
    BY StepAllowed DEF Promise!vars
<1> QED  BY <1>1, <1>2, Invariance, PTL DEF Spec, PromiseKept, Promise!Spec
=============================================================================
