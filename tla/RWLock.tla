------------------------------- MODULE RWLock -------------------------------
(***************************************************************************)
(* Reader_Writer_Lock of src/Storage Server/Trie.c: three pthread mutexes  *)
(* and a counter.  One action per pthread call; the statements between two *)
(* calls go with the call they follow.  Threads use the lock in matched    *)
(* pairs, which is what READ, WRITE and INFO of the storage server mean to *)
(* do; FileTrie and FileService have the callers that do not.              *)
(***************************************************************************)
EXTENDS Naturals, FiniteSets

CONSTANTS Thread, NoThread

ASSUME ThreadAssumption == IsFiniteSet(Thread) /\ NoThread \notin Thread

VARIABLES pc,           \* the call each thread is about to make
          serviceQ,     \* Service_Q_Lock: the thread that holds it, or NoThread
          readInit,     \* Read_Init_Lock
          writeLock,    \* Write_Lock: the thread that locked it
          readerCount   \* Reader_Count

vars == <<pc, serviceQ, readInit, writeLock, readerCount>>

Label == {"idle",
          "r_queue", "r_init", "r_first", "r_unlockInit", "r_unlockQueue",
          "reading", "u_last", "u_unlockInit",
          "w_queue", "w_write", "w_unlockQueue", "writing"}

(* Threads that the counter counts, that hold each mutex, or that have     *)
(* passed the Write_Lock as writers.                                       *)
Counted == {t \in Thread : pc[t] \in {"r_first", "r_unlockInit", "r_unlockQueue", "reading"}}
AtFirst == {t \in Thread : pc[t] = "r_first"}
AtLast  == {t \in Thread : pc[t] = "u_last"}
Writers == {t \in Thread : pc[t] \in {"w_unlockQueue", "writing"}}
HoldsServiceQ == {"r_init", "r_first", "r_unlockInit", "r_unlockQueue", "w_write", "w_unlockQueue"}
HoldsReadInit == {"r_first", "r_unlockInit", "u_last", "u_unlockInit"}

Go(t, from, to) == pc[t] = from /\ pc' = [pc EXCEPT ![t] = to]
Acquire(mutex, t) == mutex = NoThread /\ mutex' = t
Release(mutex) == mutex' = NoThread

RW_Lock_Init ==
  /\ pc = [t \in Thread |-> "idle"]
  /\ serviceQ = NoThread /\ readInit = NoThread /\ writeLock = NoThread
  /\ readerCount = 0

-----------------------------------------------------------------------------
(* Read_Lock                                                               *)

CallRead_Lock(t) ==
  Go(t, "idle", "r_queue") /\ UNCHANGED <<serviceQ, readInit, writeLock, readerCount>>

\* Fault: a reader does not go through the queue.
ReadSkipsQueue(t) ==
  Go(t, "r_queue", "r_init") /\ UNCHANGED <<serviceQ, readInit, writeLock, readerCount>>

ReadTakesQueue(t) ==
  /\ Go(t, "r_queue", "r_init") /\ Acquire(serviceQ, t)
  /\ UNCHANGED <<readInit, writeLock, readerCount>>

ReadCountsItself(t) ==
  /\ Go(t, "r_init", "r_first") /\ Acquire(readInit, t)
  /\ readerCount' = readerCount + 1
  /\ UNCHANGED <<serviceQ, writeLock>>

\* Fault: the count is tested against its value before the increment.
FirstReaderOffByOne(t) ==
  /\ Go(t, "r_first", "r_unlockInit")
  /\ IF readerCount = 0 THEN Acquire(writeLock, t) ELSE UNCHANGED writeLock
  /\ UNCHANGED <<serviceQ, readInit, readerCount>>

FirstReaderTakesWrite(t) ==
  /\ Go(t, "r_first", "r_unlockInit")
  /\ IF readerCount = 1 THEN Acquire(writeLock, t) ELSE UNCHANGED writeLock
  /\ UNCHANGED <<serviceQ, readInit, readerCount>>

ReadReleasesInit(t) ==
  /\ Go(t, "r_unlockInit", "r_unlockQueue") /\ Release(readInit)
  /\ UNCHANGED <<serviceQ, writeLock, readerCount>>

ReadReleasesQueue(t) ==
  /\ Go(t, "r_unlockQueue", "reading") /\ Release(serviceQ)
  /\ UNCHANGED <<readInit, writeLock, readerCount>>

-----------------------------------------------------------------------------
(* Read_Unlock                                                             *)

UnlockUncounts(t) ==
  /\ Go(t, "reading", "u_last") /\ Acquire(readInit, t)
  /\ readerCount' = readerCount - 1
  /\ UNCHANGED <<serviceQ, writeLock>>

\* Fault: the last but one reader gives the Write_Lock back.
LastReaderOffByOne(t) ==
  /\ Go(t, "u_last", "u_unlockInit")
  /\ IF readerCount <= 1 THEN Release(writeLock) ELSE UNCHANGED writeLock
  /\ UNCHANGED <<serviceQ, readInit, readerCount>>

LastReaderReleasesWrite(t) ==
  /\ Go(t, "u_last", "u_unlockInit")
  /\ IF readerCount = 0 THEN Release(writeLock) ELSE UNCHANGED writeLock
  /\ UNCHANGED <<serviceQ, readInit, readerCount>>

\* Fault: the thread unlocks once more, as trie_insert does.
UnlocksAgain(t) ==
  /\ Go(t, "u_unlockInit", "reading") /\ Release(readInit)
  /\ UNCHANGED <<serviceQ, writeLock, readerCount>>

UnlockReleasesInit(t) ==
  /\ Go(t, "u_unlockInit", "idle") /\ Release(readInit)
  /\ UNCHANGED <<serviceQ, writeLock, readerCount>>

-----------------------------------------------------------------------------
(* Write_Lock and Write_Unlock                                             *)

CallWrite_Lock(t) ==
  Go(t, "idle", "w_queue") /\ UNCHANGED <<serviceQ, readInit, writeLock, readerCount>>

WriteTakesQueue(t) ==
  /\ Go(t, "w_queue", "w_write") /\ Acquire(serviceQ, t)
  /\ UNCHANGED <<readInit, writeLock, readerCount>>

\* Fault: the writer looks at the count where it should take the mutex.
WriteTestsCount(t) ==
  /\ Go(t, "w_write", "w_unlockQueue")
  /\ readerCount = 0 /\ Writers = {} /\ writeLock' = t
  /\ UNCHANGED <<serviceQ, readInit, readerCount>>

WriteTakesWrite(t) ==
  /\ Go(t, "w_write", "w_unlockQueue") /\ Acquire(writeLock, t)
  /\ UNCHANGED <<serviceQ, readInit, readerCount>>

WriteReleasesQueue(t) ==
  /\ Go(t, "w_unlockQueue", "writing") /\ Release(serviceQ)
  /\ UNCHANGED <<readInit, writeLock, readerCount>>

Write_Unlock(t) ==
  /\ Go(t, "writing", "idle") /\ Release(writeLock)
  /\ UNCHANGED <<serviceQ, readInit, readerCount>>

-----------------------------------------------------------------------------
(* The steps a thread takes once it has called; only the calls are optional. *)
Read_Lock(t) == \/ ReadTakesQueue(t) \/ ReadCountsItself(t) \/ FirstReaderTakesWrite(t)
                \/ ReadReleasesInit(t) \/ ReadReleasesQueue(t)
Read_Unlock(t) == UnlockUncounts(t) \/ LastReaderReleasesWrite(t) \/ UnlockReleasesInit(t)
Write_Lock(t) == WriteTakesQueue(t) \/ WriteTakesWrite(t) \/ WriteReleasesQueue(t)
Step(t) == Read_Lock(t) \/ Read_Unlock(t) \/ Write_Lock(t) \/ Write_Unlock(t)

Next == \E t \in Thread : CallRead_Lock(t) \/ CallWrite_Lock(t) \/ Step(t)

Spec == RW_Lock_Init /\ [][Next]_vars

(* A runnable thread keeps running and a thread that is inside leaves.  A  *)
(* thread blocked on a mutex gets no more than that: POSIX gives a mutex   *)
(* no queue, so whoever runs when it is free may take it.                  *)
LiveSpec == Spec /\ \A t \in Thread : WF_vars(Step(t))

(* On mutexes that let every waiter through in the end, the same thread    *)
(* would also get every lock that is free again and again.                 *)
FairMutexes == \A t \in Thread : SF_vars(Step(t))

-----------------------------------------------------------------------------
TypeOK ==
  /\ pc \in [Thread -> Label]
  /\ {serviceQ, readInit, writeLock} \subseteq Thread \cup {NoThread}
  /\ readerCount \in Nat

\* Readers and a writer are never inside together, nor two writers.
Exclusion ==
  \A t, u \in Thread : pc[t] = "writing" /\ t # u => pc[u] \notin {"reading", "writing"}

(* The counter counts the readers that are inside or on their way in, also *)
(* while others come and go.                                               *)
CountsReaders == readerCount = Cardinality(Counted)

(* The Write_Lock is locked exactly when a writer or the group of readers  *)
(* owns it, and never by both: the first reader takes it for the group and *)
(* the last one, maybe another thread, gives it back.                      *)
ReadersOwn == AtLast # {} \/ (readerCount > 0 /\ ~(AtFirst # {} /\ readerCount = 1))
WriteLockOwned ==
  /\ writeLock # NoThread <=> (ReadersOwn \/ Writers # {})
  /\ ~(ReadersOwn /\ Writers # {})
  /\ \A t, u \in Writers : t = u

(* Each inner mutex is held by the thread whose pc says so and nobody else. *)
MutexesOwned ==
  \A t \in Thread : /\ serviceQ = t <=> pc[t] \in HoldsServiceQ
                    /\ readInit = t <=> pc[t] \in HoldsReadInit

LockInv == TypeOK /\ MutexesOwned /\ CountsReaders /\ WriteLockOwned

-----------------------------------------------------------------------------
(* "the lock maintains a service queue to prevent starvation": every thread *)
(* that asks for the lock gets it.                                         *)
NoStarvation ==
  \A t \in Thread : pc[t] \in {"r_queue", "w_queue"} ~> pc[t] \in {"reading", "writing"}

(* The service queue is a mutex, and keeps that promise if mutexes do.     *)
NoStarvationOnFairMutexes == FairMutexes => NoStarvation

(* The lock implements the abstract one.  A reader is inside from the step *)
(* that makes the group own the Write_Lock until it uncounts itself, a     *)
(* writer from taking the Write_Lock until it releases it.                 *)
Abstract == INSTANCE AbstractRWLock WITH
  readers <- {t \in Thread : pc[t] \in {"r_unlockInit", "r_unlockQueue", "reading", "u_last"}},
  writers <- Writers,
  head    <- serviceQ

ImplementsAbstract == Abstract!Spec
ImplementsAbstractLive == Abstract!LiveSpec
=============================================================================
