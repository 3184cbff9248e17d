------------------------- MODULE TestSemaphoreProofs -------------------------
(***************************************************************************)
(* Proofs about TestSemaphore for every finite set of threads, any number  *)
(* of permits and any pool at least as large.                              *)
(***************************************************************************)
EXTENDS TestSemaphore, FiniteSetTheorems, TLAPS

\* The sets that the invariant counts are finite.
LEMMA CountedSetsFinite ==
    ASSUME IInv
    PROVE  /\ IsFiniteSet(free) /\ Cardinality(free) \in Nat
           /\ IsFiniteSet(Holding) /\ Cardinality(Holding) \in Nat
           /\ IsFiniteSet(Inside) /\ Cardinality(Inside) \in Nat
           /\ IsFiniteSet(interrupted) /\ Cardinality(interrupted) \in Nat
<1>1. IsFiniteSet({instances}) /\ IsFiniteSet(1 .. PoolSize)
  <2>1. 1 \in Int /\ PoolSize \in Int
    BY PoolAssumption
  <2>2. IsFiniteSet(1 .. PoolSize)
    BY <2>1, FS_Interval
  <2> QED
    BY <2>2, FS_Singleton
<1>2. IsFiniteSet({instances} \X (1 .. PoolSize))
  BY <1>1, FS_Product
<1>3. IsFiniteSet(free)
  BY <1>2, FS_Subset DEF IInv, FreeInv
<1>4. /\ Holding \in SUBSET Threads /\ Inside \in SUBSET Threads
      /\ interrupted \in SUBSET Threads
  BY DEF Holding, Inside, IInv, TypeOK
<1> QED
  BY <1>3, <1>4, ThreadsAssumption, FS_Subset, FS_CardinalityType

\* Steps that touch neither permits, connections nor the pool.
LEMMA KeepQuiet ==
    ASSUME IInv,
           CountDown \/ \E t \in Threads : Await(t) \/ CheckInstance(t) \/ ReturnInstance(t)
    PROVE  IInv'
<1> USE DEF Goto, history
<1>1. TypeOK' /\ OnePool'
  BY DEF IInv, TypeOK, OnePool, Places, CountDown, Await, CheckInstance, ReturnInstance
<1>2. PlaceInv'
  BY DEF IInv, TypeOK, PlaceInv, OnePool, CountDown, Await, CheckInstance, ReturnInstance
<1>3. ConnectionsAreExclusive' /\ FreeInv'
  BY DEF IInv, ConnectionsAreExclusive, FreeInv, CountDown, Await, CheckInstance, ReturnInstance
<1>4. Inside' = Inside /\ Holding' = Holding
  BY DEF IInv, TypeOK, Inside, Holding, CountDown, Await, CheckInstance, ReturnInstance
<1>5. UNCHANGED <<permits, instances, free, refused, interrupted>>
  BY DEF CountDown, Await, CheckInstance, ReturnInstance
<1> QED
  BY <1>1, <1>2, <1>3, <1>4, <1>5 DEF IInv, Conserved, PermitInv, NeverRefused

\* acquire() takes one permit and lets one thread in.
LEMMA KeepAcquire ==
    ASSUME IInv, NEW t \in Threads, Acquire(t)
    PROVE  IInv'
<1> USE DEF Goto, history
<1>1. TypeOK' /\ OnePool'
  BY DEF IInv, TypeOK, OnePool, Places, Acquire
<1>2. PlaceInv'
  BY DEF IInv, TypeOK, PlaceInv, Acquire
<1>3. ConnectionsAreExclusive' /\ FreeInv'
  BY DEF IInv, ConnectionsAreExclusive, FreeInv, Acquire
<1>4. Conserved'
  <2>1. Holding' = Holding
    BY DEF IInv, TypeOK, Holding, Acquire
  <2> QED
    BY <2>1 DEF IInv, Conserved, Acquire
<1>5. PermitInv'
  <2>1. t \notin Inside /\ Inside' = Inside \cup {t}
    BY DEF IInv, TypeOK, Inside, Acquire
  <2>2. Cardinality(Inside') = Cardinality(Inside) + 1
    BY <2>1, CountedSetsFinite, FS_AddElement
  <2> QED
    BY <2>2, CountedSetsFinite, PermitsAssumption
    DEF IInv, TypeOK, PermitInv, Acquire
<1>6. NeverRefused'
  BY DEF IInv, NeverRefused, Acquire
<1> QED
  BY <1>1, <1>2, <1>3, <1>4, <1>5, <1>6 DEF IInv

\* An interrupted thread goes to its finally block without a permit, and it
\* has no connection.
LEMMA KeepInterrupt ==
    ASSUME IInv, NEW t \in Threads, Interrupt(t)
    PROVE  IInv'
<1> USE DEF Goto
<1>1. TypeOK' /\ OnePool'
  BY DEF IInv, TypeOK, OnePool, Places, Interrupt
<1>2. PlaceInv'
  BY DEF IInv, TypeOK, PlaceInv, Interrupt
<1>3. ConnectionsAreExclusive' /\ FreeInv'
  BY DEF IInv, ConnectionsAreExclusive, FreeInv, Interrupt
<1>4. Conserved'
  <2>1. Holding' = Holding
    BY DEF IInv, TypeOK, Holding, Interrupt
  <2> QED
    BY <2>1 DEF IInv, Conserved, Interrupt
<1>5. t \notin Inside /\ Inside' = Inside \cup {t}
  BY DEF IInv, TypeOK, Inside, Interrupt
<1>6. Cardinality(Inside') = Cardinality(Inside) + 1
  BY <1>5, CountedSetsFinite, FS_AddElement
<1>7. t \notin interrupted /\ interrupted' = interrupted \cup {t}
  BY DEF IInv, PlaceInv, Interrupt
<1>8. Cardinality(interrupted') = Cardinality(interrupted) + 1
  BY <1>7, CountedSetsFinite, FS_AddElement
<1>9. PermitInv'
  BY <1>6, <1>8, CountedSetsFinite, PermitsAssumption
  DEF IInv, TypeOK, PermitInv, Interrupt
<1>10. NeverRefused'
  BY <1>8, CountedSetsFinite, PermitsAssumption, PoolAssumption
  DEF IInv, NeverRefused, Interrupt
<1> QED
  BY <1>1, <1>2, <1>3, <1>4, <1>9, <1>10 DEF IInv

\* The first thread in the monitor creates the pool, the others do nothing.
LEMMA KeepCreateInstance ==
    ASSUME IInv, NEW t \in Threads, CreateInstance(t)
    PROVE  IInv'
<1> USE DEF Goto, history
<1>1. Inside' = Inside /\ Holding' = Holding
  BY DEF IInv, TypeOK, Inside, Holding, CreateInstance
<1>2. PermitInv' /\ NeverRefused'
  BY <1>1 DEF IInv, PermitInv, NeverRefused, CreateInstance
<1>3. CASE instances # 0
  <2>1. TypeOK' /\ OnePool'
    BY <1>3 DEF IInv, TypeOK, OnePool, Places, CreateInstance
  <2>2. PlaceInv'
    BY <1>3 DEF IInv, TypeOK, OnePool, PlaceInv, CreateInstance
  <2>3. ConnectionsAreExclusive' /\ FreeInv' /\ Conserved'
    BY <1>1, <1>3 DEF IInv, ConnectionsAreExclusive, FreeInv, Conserved, CreateInstance
  <2> QED
    BY <1>2, <2>1, <2>2, <2>3 DEF IInv
<1>4. CASE instances = 0
  <2>1. instances' = 1 /\ free' = free \cup ({1} \X (1 .. PoolSize))
    BY <1>4 DEF CreateInstance
  <2>2. Holding = {} /\ \A u \in Threads : connection[u] = NoConnection
    BY <1>4 DEF IInv, PlaceInv, Holding
  <2>3. free = {}
    <3>1. Cardinality(free) = 0
      BY <1>4, <2>2, CountedSetsFinite, FS_EmptySet, PoolAssumption DEF IInv, Conserved
    <3> QED
      BY <3>1, CountedSetsFinite, FS_EmptySet
  <2>4. free' = {1} \X (1 .. PoolSize)
    BY <2>1, <2>3
  <2>5. Cardinality(free') = PoolSize
    <3>1. 1 \in Int /\ PoolSize \in Int /\ PoolSize \in Nat
      BY PoolAssumption
    <3>2. IsFiniteSet(1 .. PoolSize) /\ Cardinality(1 .. PoolSize) = PoolSize
      BY <3>1, FS_Interval
    <3>3. IsFiniteSet({1}) /\ Cardinality({1}) = 1
      BY FS_Singleton
    <3>4. Cardinality({1} \X (1 .. PoolSize)) = Cardinality({1}) * Cardinality(1 .. PoolSize)
      BY <3>2, <3>3, FS_Product
    <3> QED
      BY <2>4, <3>1, <3>2, <3>3, <3>4
  <2>6. TypeOK' /\ OnePool'
    BY <2>1, <2>4 DEF IInv, TypeOK, OnePool, Places, Connection, CreateInstance
  <2>7. PlaceInv'
    BY <2>1, <2>2, <1>4 DEF IInv, TypeOK, PlaceInv, CreateInstance
  <2>8. ConnectionsAreExclusive' /\ FreeInv'
    BY <2>1, <2>2, <2>4 DEF ConnectionsAreExclusive, FreeInv, CreateInstance
  <2>9. Conserved'
    BY <1>1, <2>1, <2>2, <2>5, FS_EmptySet, PoolAssumption DEF Conserved
  <2> QED
    BY <1>2, <2>6, <2>7, <2>8, <2>9 DEF IInv
<1> QED
  BY <1>3, <1>4

\* poll() moves one connection from the pool to the thread.
LEMMA KeepGetConnection ==
    ASSUME IInv, NEW t \in Threads, GetConnection(t)
    PROVE  IInv'
<1> USE DEF Goto, history
<1>1. PICK c \in FreeIn(pool[t]) :
          connection' = [connection EXCEPT ![t] = c] /\ free' = free \ {c}
  BY DEF GetConnection
<1>2. /\ c \in free /\ c \in Connection /\ c[1] = instances /\ instances = 1
      /\ c # NoConnection
  BY <1>1 DEF IInv, TypeOK, PlaceInv, FreeInv, FreeIn, Connection, NoConnection, GetConnection
<1>3. TypeOK' /\ OnePool'
  BY <1>1, <1>2 DEF IInv, TypeOK, OnePool, Places, GetConnection
<1>4. PlaceInv'
  BY <1>1, <1>2 DEF IInv, TypeOK, PlaceInv, GetConnection
<1>5. ConnectionsAreExclusive' /\ FreeInv'
  BY <1>1, <1>2 DEF IInv, TypeOK, ConnectionsAreExclusive, FreeInv, GetConnection
<1>6. Conserved'
  <2>1. t \notin Holding /\ Holding' = Holding \cup {t}
    BY DEF IInv, TypeOK, Holding, GetConnection
  <2>2. Cardinality(Holding') = Cardinality(Holding) + 1
    BY <2>1, CountedSetsFinite, FS_AddElement
  <2>3. Cardinality(free') = Cardinality(free) - 1
    BY <1>1, <1>2, CountedSetsFinite, FS_RemoveElement
  <2> QED
    BY <2>2, <2>3, CountedSetsFinite, PoolAssumption DEF IInv, TypeOK, Conserved, GetConnection
<1>7. PermitInv'
  <2>1. Inside' = Inside
    BY DEF IInv, TypeOK, Inside, GetConnection
  <2> QED
    BY <2>1 DEF IInv, PermitInv, GetConnection
<1>8. NeverRefused'
  BY DEF IInv, NeverRefused, GetConnection
<1> QED
  BY <1>3, <1>4, <1>5, <1>6, <1>7, <1>8 DEF IInv

\* A thread that asks for a connection while the permits and the interrupted
\* threads together are no more than the connections finds one: the threads
\* inside are no more either, it is one of them, and it holds no connection.
LEMMA PoolNotEmpty ==
    ASSUME IInv, Permits + Cardinality(interrupted) <= PoolSize,
           NEW t \in Threads, pc[t] = "getConnection"
    PROVE  FreeIn(pool[t]) # {}
<1>1. instances = 1 /\ pool[t] = 1
  BY DEF IInv, PlaceInv
<1>2. Holding \in SUBSET (Inside \ {t}) /\ t \in Inside
  BY DEF Holding, Inside
<1>3. IsFiniteSet(Inside \ {t}) /\ Cardinality(Inside \ {t}) = Cardinality(Inside) - 1
  BY <1>2, CountedSetsFinite, FS_RemoveElement
<1>4. Cardinality(Holding) <= Cardinality(Inside) - 1
  BY <1>2, <1>3, FS_Subset
<1>5. Cardinality(Inside) <= PoolSize
  BY CountedSetsFinite, PermitsAssumption, PoolAssumption DEF IInv, TypeOK, PermitInv
<1>6. Cardinality(free) > 0
  BY <1>1, <1>4, <1>5, CountedSetsFinite, PoolAssumption DEF IInv, Conserved
<1>7. PICK c : c \in free
  BY <1>6, FS_EmptySet
<1>8. c[1] = 1
  BY <1>1, <1>7 DEF IInv, FreeInv
<1> QED
  BY <1>1, <1>7, <1>8 DEF FreeIn

\* So getConnection() throws only when too many threads were interrupted.
LEMMA KeepNoConnectionException ==
    ASSUME IInv, NEW t \in Threads, NoConnectionException(t)
    PROVE  IInv'
<1> USE DEF Goto
<1>1. ~(Permits + Cardinality(interrupted) <= PoolSize)
  BY PoolNotEmpty DEF NoConnectionException
<1>2. TypeOK' /\ OnePool'
  BY DEF IInv, TypeOK, OnePool, Places, NoConnectionException
<1>3. PlaceInv'
  BY DEF IInv, TypeOK, PlaceInv, NoConnectionException
<1>4. ConnectionsAreExclusive' /\ FreeInv' /\ NeverRefused'
  BY <1>1 DEF IInv, ConnectionsAreExclusive, FreeInv, NeverRefused, NoConnectionException
<1>5. Holding' = Holding /\ Inside' = Inside
  BY DEF IInv, TypeOK, Holding, Inside, NoConnectionException
<1> QED
  BY <1>2, <1>3, <1>4, <1>5 DEF IInv, Conserved, PermitInv, NoConnectionException

\* close() moves the connection back.
LEMMA KeepClose ==
    ASSUME IInv, NEW t \in Threads, Close(t)
    PROVE  IInv'
<1> USE DEF Goto, history
<1>1. /\ connection[t] \in Connection /\ connection[t] # NoConnection
      /\ connection[t][1] = instances /\ instances = 1
      /\ connection[t] \notin free
  BY DEF IInv, TypeOK, PlaceInv, ConnectionsAreExclusive, Close
<1>2. TypeOK' /\ OnePool'
  BY <1>1 DEF IInv, TypeOK, OnePool, Places, Close
<1>3. PlaceInv'
  BY DEF IInv, TypeOK, PlaceInv, Close
<1>4. ConnectionsAreExclusive'
  BY <1>1 DEF IInv, TypeOK, ConnectionsAreExclusive, Close
<1>5. FreeInv'
  BY <1>1 DEF IInv, FreeInv, Connection, Close
<1>6. Conserved'
  <2>1. t \in Holding /\ Holding' = Holding \ {t}
    BY DEF IInv, TypeOK, Holding, Close
  <2>2. Cardinality(Holding') = Cardinality(Holding) - 1
    BY <2>1, CountedSetsFinite, FS_RemoveElement
  <2>3. Cardinality(free') = Cardinality(free) + 1
    BY <1>1, CountedSetsFinite, FS_AddElement DEF Close
  <2> QED
    BY <2>2, <2>3, CountedSetsFinite, PoolAssumption DEF IInv, TypeOK, Conserved, Close
<1>7. PermitInv'
  <2>1. Inside' = Inside
    BY DEF IInv, TypeOK, Inside, Close
  <2> QED
    BY <2>1 DEF IInv, PermitInv, Close
<1>8. NeverRefused'
  BY DEF IInv, NeverRefused, Close
<1> QED
  BY <1>2, <1>3, <1>4, <1>5, <1>6, <1>7, <1>8 DEF IInv

\* release() gives one permit back and the thread is no longer inside.
LEMMA KeepRelease ==
    ASSUME IInv, NEW t \in Threads, Release(t)
    PROVE  IInv'
<1> USE DEF Goto, history
<1>1. TypeOK' /\ OnePool'
  BY DEF IInv, TypeOK, OnePool, Places, Release
<1>2. PlaceInv'
  BY DEF IInv, TypeOK, PlaceInv, Release
<1>3. ConnectionsAreExclusive' /\ FreeInv'
  BY DEF IInv, ConnectionsAreExclusive, FreeInv, Release
<1>4. Conserved'
  <2>1. Holding' = Holding
    BY DEF IInv, TypeOK, Holding, Release
  <2> QED
    BY <2>1 DEF IInv, Conserved, Release
<1>5. PermitInv'
  <2>1. t \in Inside /\ Inside' = Inside \ {t}
    BY DEF IInv, TypeOK, Inside, Release
  <2>2. Cardinality(Inside') = Cardinality(Inside) - 1
    BY <2>1, CountedSetsFinite, FS_RemoveElement
  <2> QED
    BY <2>2, CountedSetsFinite, PermitsAssumption
    DEF IInv, TypeOK, PermitInv, Release
<1>6. NeverRefused'
  BY DEF IInv, NeverRefused, Release
<1> QED
  BY <1>1, <1>2, <1>3, <1>4, <1>5, <1>6 DEF IInv

-----------------------------------------------------------------------------

\* The inductive invariant holds before main counts down.
LEMMA InitIInv == Init => IInv
<1> SUFFICES ASSUME Init PROVE IInv
  OBVIOUS
<1>1. Holding = {} /\ Inside = {} /\ free = {} /\ interrupted = {}
  BY DEF Init, Holding, Inside
<1>2. TypeOK /\ OnePool
  <2>1. permits \in Nat /\ instances \in Nat /\ OnePool
    BY PermitsAssumption DEF Init, OnePool
  <2>2. /\ latchOpen \in BOOLEAN /\ free \subseteq Connection
        /\ refused \subseteq Threads /\ interrupted \subseteq Threads
    BY DEF Init
  <2>3. pool \in [Threads -> Nat] /\ pc \in [Threads -> Places]
    BY DEF Init, Places
  <2>4. connection \in [Threads -> Connection \cup {NoConnection}]
    BY DEF Init
  <2> QED
    BY <2>1, <2>2, <2>3, <2>4 DEF TypeOK
<1>4. ConnectionsAreExclusive /\ PlaceInv /\ FreeInv
  BY DEF Init, ConnectionsAreExclusive, PlaceInv, FreeInv
<1>3. Conserved /\ PermitInv /\ NeverRefused
  <2>1. /\ Cardinality(Holding) = 0 /\ Cardinality(Inside) = 0
        /\ Cardinality(free) = 0 /\ Cardinality(interrupted) = 0
    BY <1>1, FS_EmptySet
  <2> QED
    BY <2>1, PermitsAssumption, PoolAssumption
    DEF Init, Conserved, PermitInv, NeverRefused
<1> QED
  BY <1>2, <1>3, <1>4 DEF IInv

\* Every step of main and of the GetConnectionRunnables preserves it.
LEMMA StepIInv == IInv /\ [Next]_vars => IInv'
<1> SUFFICES ASSUME IInv, [Next]_vars PROVE IInv'
  OBVIOUS
<1>1. CASE UNCHANGED vars
  BY <1>1 DEF vars, history, IInv, TypeOK, OnePool, ConnectionsAreExclusive, PlaceInv,
              FreeInv, Conserved, PermitInv, NeverRefused, Holding, Inside
<1>2. CASE CountDown
  BY <1>2, KeepQuiet
<1>3. ASSUME NEW t \in Threads, Run(t) PROVE IInv'
  BY <1>3, KeepQuiet, KeepAcquire, KeepCreateInstance, KeepGetConnection,
     KeepNoConnectionException, KeepClose, KeepRelease DEF Run
<1>4. ASSUME NEW t \in Threads, Interrupt(t) PROVE IInv'
  BY <1>4, KeepInterrupt
<1> QED
  BY <1>1, <1>2, <1>3, <1>4 DEF Next

\* Every reachable state of TestSemaphore satisfies the inductive invariant.
THEOREM Invariance == Spec => []IInv
  BY InitIInv, StepIInv, PTL DEF Spec

\* The permits and the free connections of the pool stay in their sets.
THEOREM TypeCorrect == Spec => []TypeOK
<1>1. IInv => TypeOK
  BY DEF IInv
<1> QED
  BY <1>1, Invariance, PTL

\* With as many permits as connections or fewer, and nobody interrupted,
\* getConnection() never throws NoConnectionException; each connection more
\* than permits makes up for one interrupted thread.
THEOREM NobodyRefused == Spec => []NeverRefused
<1>1. IInv => NeverRefused
  BY DEF IInv
<1> QED
  BY <1>1, Invariance, PTL

\* No two threads ever hold the same connection, interrupted or not.
THEOREM Exclusive == Spec => []ConnectionsAreExclusive
<1>1. IInv => ConnectionsAreExclusive
  BY DEF IInv
<1> QED
  BY <1>1, Invariance, PTL

\* The double-checked locking creates one pool.
THEOREM SinglePool == Spec => []OnePool
<1>1. IInv => OnePool
  BY DEF IInv
<1> QED
  BY <1>1, Invariance, PTL

\* Nothing is kept: after the last thread has ended, every connection is in the
\* pool and every permit in the semaphore.
THEOREM EverythingIsBack == Spec => []BackWhenDone
<1>1. IInv => BackWhenDone
  <2> SUFFICES ASSUME IInv, Done PROVE AllIsBack
    BY DEF BackWhenDone
  <2>1. Inside = {} /\ Holding = {}
    BY DEF Done, Inside, Holding
  <2>2. Cardinality({}) = 0
    BY FS_EmptySet
  <2>3. /\ permits + 0 = Permits + Cardinality(interrupted)
        /\ Cardinality(free) + 0 = PoolSize * instances
    BY <2>1, <2>2 DEF IInv, Conserved, PermitInv
  <2>4. permits \in Nat /\ Cardinality(free) \in Nat
    BY CountedSetsFinite DEF IInv, TypeOK
  <2> QED
    BY <2>3, <2>4 DEF AllIsBack
<1> QED
  BY <1>1, Invariance, PTL
==============================================================================
