---------------------- MODULE ConnectionPoolBuilderProofs ----------------------
(***************************************************************************)
(* For any number of threads and keys: build() returns one pool for each   *)
(* key, the HashMap is never read or written beside a put(), and a pool is *)
(* never replaced.                                                         *)
(***************************************************************************)
EXTENDS ConnectionPoolBuilder, TLAPS

\* The initial states: nobody holds a lock and nothing is in the map.
LEMMA InitIInv == Init => IInv
  BY ThreadsAssumption
     DEF Init, IInv, TypeOK, Locked, OnePoolPerKey, Reading, Writing

\* A thread that starts a call holds no lock.
LEMMA BuildKeeps ==
  ASSUME IInv, NEW t \in Threads, NEW k \in Keys, Build(t, k)
  PROVE  IInv'
<1>1. TypeOK'
  BY DEF IInv, TypeOK, Goto, Build
<1>2. Locked' /\ OnePoolPerKey'
  BY DEF IInv, TypeOK, Locked, OnePoolPerKey, Reading, Writing, Goto, Build
<1> QED
  BY <1>1, <1>2 DEF IInv

\* A thread that parks in the queue of the read-write lock holds no lock either.
LEMMA QueueKeeps ==
  ASSUME IInv, NEW t \in Threads, ReadQueue(t) \/ WriteQueue(t)
  PROVE  IInv'
<1>1. queue' \in Seq(Threads)
  <2>1. queue \in Seq(Threads) /\ queue' = Append(queue, t)
    BY DEF IInv, TypeOK, ReadQueue, WriteQueue
  <2> QED
    BY <2>1
<1>2. TypeOK'
  BY <1>1 DEF IInv, TypeOK, Goto, ReadQueue, WriteQueue
<1>3. Locked'
  BY DEF IInv, TypeOK, Locked, Reading, Writing, Goto, ReadQueue, WriteQueue
<1>4. OnePoolPerKey'
  BY DEF IInv, OnePoolPerKey, ReadQueue, WriteQueue
<1> QED
  BY <1>2, <1>3, <1>4 DEF IInv

\* The read lock is taken while nobody writes, and given back.
LEMMA ReadKeeps ==
  ASSUME IInv, NEW t \in Threads,
         ReadLock(t) \/ ReadFromQueue(t) \/ Get(t) \/ UnlockRead(t)
  PROVE  IInv'
<1>1. CASE ReadLock(t)
  BY <1>1 DEF IInv, TypeOK, Locked, OnePoolPerKey, Reading, Writing, Goto, ReadLock
<1>2. CASE ReadFromQueue(t)
  <2>1. queue' \in Seq(Threads)
    <3>1. queue \in Seq(Threads) /\ queue # <<>> /\ queue' = Tail(queue)
      BY <1>2 DEF IInv, TypeOK, ReadFromQueue
    <3> QED
      BY <3>1
  <2>2. TypeOK'
    BY <1>2, <2>1 DEF IInv, TypeOK, Goto, ReadFromQueue
  <2>3. Locked' /\ OnePoolPerKey'
    BY <1>2 DEF IInv, TypeOK, Locked, OnePoolPerKey, Reading, Writing, Goto,
                ReadFromQueue
  <2> QED
    BY <2>2, <2>3 DEF IInv
<1>3. CASE Get(t)
  BY <1>3 DEF IInv, TypeOK, Locked, OnePoolPerKey, Reading, Writing, Goto, Get
<1>4. CASE UnlockRead(t)
  BY <1>4 DEF IInv, TypeOK, Locked, OnePoolPerKey, Reading, Writing, Goto, UnlockRead
<1> QED
  BY <1>1, <1>2, <1>3, <1>4

\* The write lock is taken while nobody reads or writes, and given back; the
\* second look at the map sees what no other thread can change.
LEMMA WriteKeeps ==
  ASSUME IInv, NEW t \in Threads,
         WriteLock(t) \/ WriteFromQueue(t) \/ Recheck(t) \/ UnlockWrite(t)
  PROVE  IInv'
<1>1. CASE WriteLock(t)
  BY <1>1, ThreadsAssumption
     DEF IInv, TypeOK, Locked, OnePoolPerKey, Reading, Writing, Goto, WriteLock
<1>2. CASE WriteFromQueue(t)
  <2>1. queue' \in Seq(Threads)
    <3>1. queue \in Seq(Threads) /\ queue # <<>> /\ queue' = Tail(queue)
      BY <1>2 DEF IInv, TypeOK, WriteFromQueue
    <3> QED
      BY <3>1
  <2>2. TypeOK'
    BY <1>2, <2>1 DEF IInv, TypeOK, Goto, WriteFromQueue
  <2>3. Locked' /\ OnePoolPerKey'
    BY <1>2, ThreadsAssumption
       DEF IInv, TypeOK, Locked, OnePoolPerKey, Reading, Writing, Goto, WriteFromQueue
  <2> QED
    BY <2>2, <2>3 DEF IInv
<1>3. CASE Recheck(t)
  BY <1>3 DEF IInv, TypeOK, Locked, OnePoolPerKey, Reading, Writing, Goto, Recheck
<1>4. CASE UnlockWrite(t)
  BY <1>4, ThreadsAssumption
     DEF IInv, TypeOK, Locked, OnePoolPerKey, Reading, Writing, Goto, UnlockWrite
<1> QED
  BY <1>1, <1>2, <1>3, <1>4

\* put() meets an empty entry, and its pool is newer than every other.
LEMMA PutKeeps ==
  ASSUME IInv, NEW t \in Threads, Put(t)
  PROVE  IInv'
<1>1. TypeOK'
  BY DEF IInv, TypeOK, Goto, Put
<1>2. Locked'
  BY DEF IInv, TypeOK, Locked, Reading, Writing, Goto, Put
<1>3. OnePoolPerKey'
  <2>1. ASSUME NEW u \in Threads, answer'[u] # 0 PROVE answer'[u] = pools'[key'[u]]
    BY <2>1 DEF IInv, TypeOK, Locked, OnePoolPerKey, Put
  <2>2. ASSUME NEW k \in Keys, NEW l \in Keys, pools'[k] = pools'[l], pools'[k] # 0
        PROVE  k = l
    BY <2>2 DEF IInv, TypeOK, OnePoolPerKey, Put
  <2> QED
    BY <2>1, <2>2 DEF OnePoolPerKey
<1> QED
  BY <1>1, <1>2, <1>3 DEF IInv

\* Every step of build() keeps the inductive invariant.
LEMMA StepIInv == IInv /\ [Next]_vars => IInv'
<1> SUFFICES ASSUME IInv, [Next]_vars PROVE IInv'
  OBVIOUS
<1>1. CASE UNCHANGED vars
  BY <1>1 DEF vars, IInv, TypeOK, Locked, OnePoolPerKey, Reading, Writing
<1>2. CASE Next
  BY <1>2, BuildKeeps, QueueKeeps, ReadKeeps, WriteKeeps, PutKeeps DEF Next, Step, TypeOK, IInv
<1> QED
  BY <1>1, <1>2

\* The inductive invariant of the builder.
THEOREM Invariance == Spec => []IInv
<1>1. IInv /\ [Next]_vars => IInv'
  BY StepIInv
<1> QED
  BY InitIInv, <1>1, PTL DEF Spec

\* Every key has no pool or one of those that were made; the lock has one
\* writer or none.
THEOREM TypeCorrect == Spec => []TypeOK
<1>1. IInv => TypeOK
  BY DEF IInv
<1> QED
  BY <1>1, Invariance, PTL

\* All calls of build() for one key return one pool (OnePoolPerKey).
THEOREM OnePool == Spec => []OnePoolPerKey
<1>1. IInv => OnePoolPerKey
  BY DEF IInv
<1> QED
  BY Invariance, <1>1, PTL

\* No get() or put() of the HashMap meets a put() (MapIsGuarded).
THEOREM Guarded == Spec => []MapIsGuarded
<1>1. IInv => MapIsGuarded
  BY ThreadsAssumption DEF IInv, Locked, MapIsGuarded, Reading, Writing
<1> QED
  BY Invariance, <1>1, PTL

\* A pool stays in the map for good (PoolsStay).
THEOREM Forever == Spec => PoolsStay
<1>1. IInv /\ [Next]_vars => [\A k \in Keys : pools[k] # 0 => pools'[k] = pools[k]]_vars
  <2> SUFFICES ASSUME IInv, [Next]_vars, NEW k \in Keys, pools[k] # 0
               PROVE  pools'[k] = pools[k]
    OBVIOUS
  <2>1. ASSUME NEW t \in Threads, Put(t) PROVE pools'[k] = pools[k]
    BY <2>1 DEF IInv, TypeOK, Locked, Put
  <2> QED
    BY <2>1 DEF Next, Step, vars, Build, ReadLock, ReadQueue, ReadFromQueue, Get,
                UnlockRead, WriteLock, WriteQueue, WriteFromQueue, Recheck, UnlockWrite
<1> QED
  BY Invariance, <1>1, PTL DEF Spec, PoolsStay
================================================================================
