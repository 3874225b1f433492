---------------------------- MODULE RWLockProofs ----------------------------
(***************************************************************************)
(* Theorems about RWLock, for any finite set of threads: LockInv is an     *)
(* inductive invariant, readers and writers exclude each other, and the    *)
(* lock implements AbstractRWLock.                                         *)
(***************************************************************************)
EXTENDS RWLock, FiniteSetTheorems, TLAPS

(* The counter is the size of a finite set, so a thread that is counted    *)
(* keeps it above 0 and two of them above 1.                               *)
LEMMA CountedBounds ==
  ASSUME LockInv
  PROVE  /\ IsFiniteSet(Counted)
         /\ \A t \in Counted : readerCount >= 1
         /\ \A t, u \in Counted : t # u => readerCount >= 2
<1>1. IsFiniteSet(Counted)
  BY ThreadAssumption, FS_Subset DEF Counted
<1>2. ASSUME NEW t \in Counted PROVE readerCount >= 1
  <2>1. Cardinality({t}) = 1 /\ {t} \subseteq Counted
    BY <1>2, FS_Singleton
  <2> QED BY <1>1, <2>1, FS_Subset, FS_CardinalityType DEF LockInv, CountsReaders
<1>3. ASSUME NEW t \in Counted, NEW u \in Counted, t # u PROVE readerCount >= 2
  <2>1. IsFiniteSet({u}) /\ Cardinality({u}) = 1
    BY FS_Singleton
  <2>2. Cardinality({u} \cup {t}) = 2
    BY <1>3, <2>1, FS_AddElement
  <2>3. {u} \cup {t} \subseteq Counted
    OBVIOUS
  <2> QED BY <1>1, <2>2, <2>3, FS_Subset, FS_CardinalityType DEF LockInv, CountsReaders
<1> QED BY <1>1, <1>2, <1>3

(* While a writer owns the Write_Lock, or nobody does, no reader has got   *)
(* past its first test: this is what the count is for.                     *)
LEMMA NoReaderInside ==
  ASSUME LockInv, ~ReadersOwn,
         NEW t \in Thread
  PROVE  pc[t] \notin {"r_unlockInit", "r_unlockQueue", "reading", "u_last"}
<1>1. pc[t] # "u_last"
  BY DEF ReadersOwn, AtLast
<1>2. SUFFICES ASSUME pc[t] \in {"r_unlockInit", "r_unlockQueue", "reading"} PROVE FALSE
  BY <1>1
<1>3. t \in Counted
  BY <1>2 DEF Counted
<1>4. readerCount >= 1 /\ readerCount \in Nat
  BY <1>3, CountedBounds DEF LockInv, TypeOK
<1>5. PICK u \in AtFirst : readerCount = 1
  BY <1>4 DEF ReadersOwn
<1>6. u \in Counted /\ u # t
  BY <1>2, <1>5 DEF AtFirst, Counted
<1> QED BY <1>3, <1>5, <1>6, CountedBounds

LEMMA InitLockInv == RW_Lock_Init => LockInv
<1> SUFFICES ASSUME RW_Lock_Init PROVE LockInv
  OBVIOUS
<1> USE ThreadAssumption DEF RW_Lock_Init
<1>1. TypeOK
  BY DEF TypeOK, Label
<1>2. Counted = {} /\ AtFirst = {} /\ AtLast = {} /\ Writers = {}
  BY DEF Counted, AtFirst, AtLast, Writers
<1>3. CountsReaders
  BY <1>2, FS_EmptySet DEF CountsReaders
<1>4. MutexesOwned
  BY DEF MutexesOwned, HoldsServiceQ, HoldsReadInit
<1>5. WriteLockOwned
  BY <1>2 DEF WriteLockOwned, ReadersOwn
<1> QED BY <1>1, <1>3, <1>4, <1>5 DEF LockInv

(* A step keeps the types and leaves each inner mutex with the thread      *)
(* whose position says that it holds it.                                   *)
LEMMA StepTypeOK == LockInv /\ [Next]_vars => TypeOK' /\ MutexesOwned'
<1> SUFFICES ASSUME LockInv, [Next]_vars PROVE TypeOK' /\ MutexesOwned'
  OBVIOUS
<1> USE ThreadAssumption DEF LockInv
<1>1. CASE UNCHANGED vars
  BY <1>1 DEF vars, TypeOK, MutexesOwned
<1>2. ASSUME NEW t \in Thread, CallRead_Lock(t) PROVE TypeOK' /\ MutexesOwned'
  BY <1>2 DEF CallRead_Lock, Go, TypeOK, Label, MutexesOwned, HoldsServiceQ, HoldsReadInit
<1>3. ASSUME NEW t \in Thread, CallWrite_Lock(t) PROVE TypeOK' /\ MutexesOwned'
  BY <1>3 DEF CallWrite_Lock, Go, TypeOK, Label, MutexesOwned, HoldsServiceQ, HoldsReadInit
<1>4. ASSUME NEW t \in Thread, Read_Lock(t) PROVE TypeOK' /\ MutexesOwned'
  BY <1>4 DEF Read_Lock, ReadTakesQueue, ReadCountsItself, FirstReaderTakesWrite,
     ReadReleasesInit, ReadReleasesQueue, Acquire, Release,
     Go, TypeOK, Label, MutexesOwned, HoldsServiceQ, HoldsReadInit
<1>5. ASSUME NEW t \in Thread, Read_Unlock(t) PROVE TypeOK' /\ MutexesOwned'
  <2>1. CASE UnlockUncounts(t)
    <3>1. t \in Counted /\ readerCount >= 1
      BY <2>1, CountedBounds DEF UnlockUncounts, Go, Counted
    <3> QED BY <2>1, <3>1 DEF UnlockUncounts, Acquire, Go, TypeOK, Label, MutexesOwned,
          HoldsServiceQ, HoldsReadInit
  <2>2. CASE LastReaderReleasesWrite(t) \/ UnlockReleasesInit(t)
    BY <2>2 DEF LastReaderReleasesWrite, UnlockReleasesInit, Acquire, Release,
       Go, TypeOK, Label, MutexesOwned, HoldsServiceQ, HoldsReadInit
  <2> QED BY <1>5, <2>1, <2>2 DEF Read_Unlock
<1>6. ASSUME NEW t \in Thread, Write_Lock(t) \/ Write_Unlock(t) PROVE TypeOK' /\ MutexesOwned'
  BY <1>6 DEF Write_Lock, WriteTakesQueue, WriteTakesWrite, WriteReleasesQueue,
     Write_Unlock, Acquire, Release,
     Go, TypeOK, Label, MutexesOwned, HoldsServiceQ, HoldsReadInit
<1> QED BY <1>1, <1>2, <1>3, <1>4, <1>5, <1>6 DEF Next, Step

(* The counter follows the set it counts: one thread joins it where the    *)
(* counter goes up, one leaves it where it goes down, and no other step    *)
(* changes either.                                                         *)
LEMMA StepCountsReaders == LockInv /\ [Next]_vars => CountsReaders'
<1> SUFFICES ASSUME LockInv, [Next]_vars PROVE CountsReaders'
  OBVIOUS
<1>1. IsFiniteSet(Counted) /\ readerCount = Cardinality(Counted) /\ readerCount \in Nat
  BY CountedBounds DEF LockInv, CountsReaders, TypeOK
<1>2. ASSUME NEW t \in Thread, ReadCountsItself(t) PROVE CountsReaders'
  <2>1. t \notin Counted /\ Counted' = Counted \cup {t}
    BY <1>2 DEF ReadCountsItself, Go, Counted, LockInv, TypeOK
  <2> QED BY <1>1, <1>2, <2>1, FS_AddElement DEF ReadCountsItself, CountsReaders
<1>3. ASSUME NEW t \in Thread, UnlockUncounts(t) PROVE CountsReaders'
  <2>1. t \in Counted /\ Counted' = Counted \ {t}
    BY <1>3 DEF UnlockUncounts, Go, Counted, LockInv, TypeOK
  <2> QED BY <1>1, <1>3, <2>1, FS_RemoveElement DEF UnlockUncounts, CountsReaders
<1>4. CASE Counted' = Counted /\ readerCount' = readerCount
  BY <1>1, <1>4 DEF CountsReaders
<1>5. ASSUME NEW t \in Thread,
             CallRead_Lock(t) \/ CallWrite_Lock(t) \/ Step(t),
             ~ReadCountsItself(t), ~UnlockUncounts(t)
      PROVE  Counted' = Counted /\ readerCount' = readerCount
  BY <1>5 DEF CallRead_Lock, CallWrite_Lock, Step, Read_Lock, ReadTakesQueue,
     FirstReaderTakesWrite, ReadReleasesInit, ReadReleasesQueue, Read_Unlock,
     LastReaderReleasesWrite, UnlockReleasesInit, Write_Lock, WriteTakesQueue,
     WriteTakesWrite, WriteReleasesQueue, Write_Unlock, Go, Counted, LockInv, TypeOK
<1>6. CASE UNCHANGED vars
  BY <1>4, <1>6 DEF vars, Counted
<1> QED BY <1>2, <1>3, <1>4, <1>5, <1>6 DEF Next

(* Who owns the Write_Lock.  Only four actions matter: the reader that     *)
(* counts itself and may become the first, the first reader's lock, the    *)
(* last reader's unlock, and the writer's.  All others leave the count,    *)
(* the Write_Lock and the three sets as they are.                          *)
LEMMA StepWriteLockOwned == LockInv /\ [Next]_vars => WriteLockOwned'
<1> SUFFICES ASSUME LockInv, [Next]_vars PROVE WriteLockOwned'
  OBVIOUS
<1>1. WriteLockOwned /\ TypeOK /\ MutexesOwned
  BY DEF LockInv
<1> USE ThreadAssumption
<1>2. ASSUME NEW t \in Thread, ReadCountsItself(t) PROVE WriteLockOwned'
  <2>1. AtFirst = {} /\ AtLast = {}
    BY <1>1, <1>2 DEF ReadCountsItself, Acquire, MutexesOwned, HoldsReadInit, AtFirst, AtLast
  <2>2. AtFirst' = {t} /\ AtLast' = {} /\ Writers' = Writers
    BY <1>1, <1>2, <2>1 DEF ReadCountsItself, Go, TypeOK, AtFirst, AtLast, Writers
  <2> QED BY <1>1, <1>2, <2>1, <2>2 DEF ReadCountsItself, TypeOK, WriteLockOwned, ReadersOwn
<1>3. ASSUME NEW t \in Thread, FirstReaderTakesWrite(t) PROVE WriteLockOwned'
  <2>1. AtFirst = {t} /\ AtLast = {}
    BY <1>1, <1>3 DEF FirstReaderTakesWrite, Go, MutexesOwned, HoldsReadInit, AtFirst, AtLast
  <2>2. AtFirst' = {} /\ AtLast' = {} /\ Writers' = Writers
    BY <1>1, <1>3, <2>1 DEF FirstReaderTakesWrite, Go, TypeOK, AtFirst, AtLast, Writers
  <2>3. readerCount >= 1
    BY <2>1, CountedBounds DEF AtFirst, Counted
  <2> QED BY <1>1, <1>3, <2>1, <2>2, <2>3
      DEF FirstReaderTakesWrite, Acquire, TypeOK, WriteLockOwned, ReadersOwn
<1>4. ASSUME NEW t \in Thread, UnlockUncounts(t) PROVE WriteLockOwned'
  <2>1. AtFirst = {} /\ AtLast = {}
    BY <1>1, <1>4 DEF UnlockUncounts, Acquire, MutexesOwned, HoldsReadInit, AtFirst, AtLast
  <2>2. AtFirst' = {} /\ AtLast' = {t} /\ Writers' = Writers
    BY <1>1, <1>4, <2>1 DEF UnlockUncounts, Go, TypeOK, AtFirst, AtLast, Writers
  <2>3. readerCount >= 1
    BY <1>4, CountedBounds DEF UnlockUncounts, Go, Counted
  <2> QED BY <1>1, <1>4, <2>1, <2>2, <2>3
      DEF UnlockUncounts, TypeOK, WriteLockOwned, ReadersOwn
<1>5. ASSUME NEW t \in Thread, LastReaderReleasesWrite(t) PROVE WriteLockOwned'
  <2>1. AtFirst = {} /\ AtLast = {t}
    BY <1>1, <1>5 DEF LastReaderReleasesWrite, Go, MutexesOwned, HoldsReadInit, AtFirst, AtLast
  <2>2. AtFirst' = {} /\ AtLast' = {} /\ Writers' = Writers
    BY <1>1, <1>5, <2>1 DEF LastReaderReleasesWrite, Go, TypeOK, AtFirst, AtLast, Writers
  <2> QED BY <1>1, <1>5, <2>1, <2>2
      DEF LastReaderReleasesWrite, Release, TypeOK, WriteLockOwned, ReadersOwn
<1>6. ASSUME NEW t \in Thread, WriteTakesWrite(t) PROVE WriteLockOwned'
  <2>1. AtFirst' = AtFirst /\ AtLast' = AtLast
    BY <1>1, <1>6 DEF WriteTakesWrite, Go, TypeOK, AtFirst, AtLast
  <2>2. Writers = {} /\ ~ReadersOwn
    BY <1>1, <1>6 DEF WriteTakesWrite, Acquire, WriteLockOwned
  <2>3. Writers' = {t}
    BY <1>1, <1>6, <2>2 DEF WriteTakesWrite, Go, TypeOK, Writers
  <2> QED BY <1>1, <1>6, <2>1, <2>2, <2>3
      DEF WriteTakesWrite, Acquire, WriteLockOwned, ReadersOwn
<1>7. ASSUME NEW t \in Thread, Write_Unlock(t) PROVE WriteLockOwned'
  <2>1. AtFirst' = AtFirst /\ AtLast' = AtLast
    BY <1>1, <1>7 DEF Write_Unlock, Go, TypeOK, AtFirst, AtLast
  <2>2. Writers = {t} /\ ~ReadersOwn
    BY <1>1, <1>7 DEF Write_Unlock, Go, Writers, WriteLockOwned
  <2>3. Writers' = {}
    BY <1>1, <1>7, <2>2 DEF Write_Unlock, Go, TypeOK, Writers
  <2> QED BY <1>1, <1>7, <2>1, <2>2, <2>3
      DEF Write_Unlock, Release, WriteLockOwned, ReadersOwn
<1>8. CASE /\ AtFirst' = AtFirst /\ AtLast' = AtLast /\ Writers' = Writers
           /\ writeLock' = writeLock /\ readerCount' = readerCount
  BY <1>1, <1>8 DEF WriteLockOwned, ReadersOwn
<1>9. ASSUME NEW t \in Thread,
             \/ CallRead_Lock(t) \/ CallWrite_Lock(t)
             \/ ReadTakesQueue(t) \/ ReadReleasesInit(t) \/ ReadReleasesQueue(t)
             \/ UnlockReleasesInit(t) \/ WriteTakesQueue(t) \/ WriteReleasesQueue(t)
      PROVE  WriteLockOwned'
  BY <1>1, <1>8, <1>9 DEF CallRead_Lock, CallWrite_Lock, ReadTakesQueue, ReadReleasesInit,
     ReadReleasesQueue, UnlockReleasesInit, WriteTakesQueue, WriteReleasesQueue,
     Go, TypeOK, AtFirst, AtLast, Writers
<1>10. CASE UNCHANGED vars
  BY <1>8, <1>10 DEF vars, AtFirst, AtLast, Writers
<1> QED BY <1>2, <1>3, <1>4, <1>5, <1>6, <1>7, <1>9, <1>10
    DEF Next, Step, Read_Lock, Read_Unlock, Write_Lock

-----------------------------------------------------------------------------
(* LockInv holds in every state: the counter is exact, each mutex is held  *)
(* by the thread whose position says so, and the Write_Lock belongs to the *)
(* readers or to one writer.                                               *)
THEOREM LockInvariant == Spec => []LockInv
<1>1. RW_Lock_Init => LockInv
  BY InitLockInv
<1>2. LockInv /\ [Next]_vars => LockInv'
  BY StepTypeOK, StepCountsReaders, StepWriteLockOwned DEF LockInv
<1> QED BY <1>1, <1>2, PTL DEF Spec

(* Type correctness, a part of LockInv; the counter is a natural number    *)
(* only because it counts.                                                 *)
THEOREM TypeCorrectness == Spec => []TypeOK
<1>1. LockInv => TypeOK
  BY DEF LockInv
<1> QED BY <1>1, LockInvariant, PTL

(* Read_Lock and Write_Lock exclude each other: whoever is inside as a     *)
(* writer is inside alone.                                                 *)
THEOREM MutualExclusion == Spec => []Exclusion
<1>1. LockInv => Exclusion
  <2> SUFFICES ASSUME LockInv,
                      NEW t \in Thread, NEW u \in Thread, pc[t] = "writing", t # u
               PROVE  pc[u] \notin {"reading", "writing"}
    BY DEF Exclusion
  <2>1. t \in Writers /\ ~ReadersOwn
    BY DEF LockInv, WriteLockOwned, Writers
  <2>2. pc[u] # "reading"
    BY <2>1, NoReaderInside
  <2>3. pc[u] # "writing"
    BY <2>1 DEF LockInv, WriteLockOwned, Writers
  <2> QED BY <2>2, <2>3
<1> QED BY <1>1, LockInvariant, PTL

(* The lock implements the abstract one: its steps admit and release       *)
(* threads as AbstractRWLock does, or are invisible there.                 *)
THEOREM Implementation == Spec => ImplementsAbstract
<1> DEFINE readers == {t \in Thread : pc[t] \in {"r_unlockInit", "r_unlockQueue", "reading", "u_last"}}
<1>1. RW_Lock_Init => Abstract!Init
  BY DEF RW_Lock_Init, Abstract!Init, Writers
<1>2. LockInv /\ [Next]_vars => [Abstract!Next]_Abstract!vars
  <2> SUFFICES ASSUME LockInv, [Next]_vars PROVE [Abstract!Next]_Abstract!vars
    OBVIOUS
  <2>1. TypeOK /\ MutexesOwned /\ WriteLockOwned
    BY DEF LockInv
  <2> USE <2>1, ThreadAssumption
  <2>2. ASSUME NEW t \in Thread, ReadTakesQueue(t) \/ WriteTakesQueue(t) PROVE Abstract!BecomeHead(t)
    BY <2>2 DEF ReadTakesQueue, WriteTakesQueue, Acquire, Go, TypeOK, Writers, Abstract!BecomeHead
  <2>3. ASSUME NEW t \in Thread, FirstReaderTakesWrite(t) PROVE Abstract!BeginRead(t)
    <3>1. AtFirst = {t} /\ serviceQ = t /\ readerCount >= 1
      BY <2>3, CountedBounds DEF FirstReaderTakesWrite, Go, MutexesOwned, HoldsReadInit,
         HoldsServiceQ, AtFirst, Counted
    <3>2. Writers = {}
      BY <2>3, <3>1 DEF FirstReaderTakesWrite, Acquire, TypeOK, WriteLockOwned, ReadersOwn
    <3>3. readers' = readers \cup {t} /\ t \notin readers /\ Writers' = Writers
      BY <2>3 DEF FirstReaderTakesWrite, Go, TypeOK, Writers
    <3> QED BY <2>3, <3>1, <3>2, <3>3 DEF FirstReaderTakesWrite, Abstract!BeginRead
  <2>4. ASSUME NEW t \in Thread, WriteTakesWrite(t) PROVE Abstract!BeginWrite(t)
    <3>1. serviceQ = t /\ Writers = {} /\ ~ReadersOwn
      BY <2>4 DEF WriteTakesWrite, Acquire, Go, MutexesOwned, HoldsServiceQ, WriteLockOwned
    <3>2. readers = {}
      BY <3>1, NoReaderInside
    <3>3. readers' = readers /\ Writers' = {t}
      BY <2>4, <3>1 DEF WriteTakesWrite, Go, TypeOK, Writers
    <3> QED BY <2>4, <3>1, <3>2, <3>3 DEF WriteTakesWrite, Abstract!BeginWrite
  <2>5. ASSUME NEW t \in Thread, ReadReleasesQueue(t) \/ WriteReleasesQueue(t)
        PROVE  Abstract!LeaveQueue(t)
    <3>1. serviceQ = t /\ t \in readers \cup Writers
      BY <2>5 DEF ReadReleasesQueue, WriteReleasesQueue, Go, MutexesOwned, HoldsServiceQ, Writers
    <3>2. readers' = readers /\ Writers' = Writers
      BY <2>5 DEF ReadReleasesQueue, WriteReleasesQueue, Go, TypeOK, Writers
    <3> QED BY <2>5, <3>1, <3>2 DEF ReadReleasesQueue, WriteReleasesQueue, Release, Abstract!LeaveQueue
  <2>6. ASSUME NEW t \in Thread, LastReaderReleasesWrite(t) PROVE Abstract!EndRead(t)
    <3>1. serviceQ # t /\ t \in readers
      BY <2>6 DEF LastReaderReleasesWrite, Go, MutexesOwned, HoldsServiceQ
    <3>2. readers' = readers \ {t} /\ Writers' = Writers
      BY <2>6 DEF LastReaderReleasesWrite, Go, TypeOK, Writers
    <3> QED BY <2>6, <3>1, <3>2 DEF LastReaderReleasesWrite, Abstract!EndRead
  <2>7. ASSUME NEW t \in Thread, Write_Unlock(t) PROVE Abstract!EndWrite(t)
    <3>1. serviceQ # t /\ t \in Writers
      BY <2>7 DEF Write_Unlock, Go, MutexesOwned, HoldsServiceQ, Writers
    <3>2. readers' = readers /\ Writers' = Writers \ {t}
      BY <2>7 DEF Write_Unlock, Go, TypeOK, Writers
    <3> QED BY <2>7, <3>1, <3>2 DEF Write_Unlock, Abstract!EndWrite
  <2>8. ASSUME NEW t \in Thread,
               \/ CallRead_Lock(t) \/ CallWrite_Lock(t) \/ ReadCountsItself(t)
               \/ ReadReleasesInit(t) \/ UnlockUncounts(t) \/ UnlockReleasesInit(t)
        PROVE  UNCHANGED Abstract!vars
    BY <2>8 DEF CallRead_Lock, CallWrite_Lock, ReadCountsItself, ReadReleasesInit,
       UnlockUncounts, UnlockReleasesInit, Go, TypeOK, Writers, Abstract!vars
  <2>9. CASE UNCHANGED vars
    BY <2>9 DEF vars, Writers, Abstract!vars
  <2> QED BY <2>2, <2>3, <2>4, <2>5, <2>6, <2>7, <2>8, <2>9
      DEF Next, Step, Read_Lock, Read_Unlock, Write_Lock,
          Abstract!Next, Abstract!Enter, Abstract!Leave
<1> QED BY <1>1, <1>2, LockInvariant, PTL DEF Spec, ImplementsAbstract, Abstract!Spec
=============================================================================
