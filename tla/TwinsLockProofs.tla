--------------------------- MODULE TwinsLockProofs ---------------------------
(***************************************************************************)
(* Proofs about TwinsLock for every finite set of threads, every Count and *)
(* both kinds of synchronizer, and about who passes whom in TwinsLock with *)
(* its history, TwinsLockOvertaking.                                       *)
(***************************************************************************)
EXTENDS TwinsLockOvertaking, SequenceTheorems, FiniteSetTheorems, TLAPS

CONSTANTS GetThreads, TryGetThreads, TryBlockGetThreads
VARIABLE stage
Driver == INSTANCE TestTwinsLock

-----------------------------------------------------------------------------
(* What the queue operations do to a queue of threads. *)

\* A thread that joins the queue is its last member.
LEMMA JoinQueue ==
    ASSUME NEW q \in Seq(Threads), NEW t \in Threads
    PROVE  /\ Append(q, t) \in Seq(Threads)
           /\ Append(q, t) # <<>>
           /\ Len(Append(q, t)) = Len(q) + 1
           /\ Append(q, t)[Len(q) + 1] = t
           /\ \A i \in 1 .. Len(q) : Append(q, t)[i] = q[i]
           /\ q # <<>> => Head(Append(q, t)) = Head(q)
           /\ q = <<>> => Head(Append(q, t)) = t
  BY AppendProperties, EmptySeq

\* The head of a queue that is not empty is its first member.
LEMMA FirstInQueue ==
    ASSUME NEW q \in Seq(Threads)
    PROVE  /\ q # <<>> <=> Len(q) > 0
           /\ Len(q) \in Nat
           /\ q # <<>> => Head(q) = q[1] /\ Head(q) \in Threads
           /\ \A i \in 1 .. Len(q) : q[i] \in Threads
  BY EmptySeq, HeadTailProperties

\* A queue without its member i (cancelAcquire, and setHead for i = 1).
LEMMA LeaveQueue ==
    ASSUME NEW q \in Seq(Threads), NEW i \in 1 .. Len(q)
    PROVE  /\ RemoveAt(q, i) \in Seq(Threads)
           /\ Len(RemoveAt(q, i)) = Len(q) - 1
           /\ \A j \in 1 .. Len(q) - 1 :
                 RemoveAt(q, i)[j] = IF j < i THEN q[j] ELSE q[j + 1]
<1> DEFINE front == SubSeq(q, 1, i - 1)
           back  == SubSeq(q, i + 1, Len(q))
<1>1. Len(q) \in Nat /\ \A j \in 1 .. Len(q) : q[j] \in Threads
  BY FirstInQueue
<1>2. /\ front \in Seq(Threads)
      /\ Len(front) = i - 1
      /\ \A j \in 1 .. i - 1 : front[j] = q[j]
  BY <1>1, SubSeqProperties
<1>3. /\ back \in Seq(Threads)
      /\ Len(back) = Len(q) - i
      /\ \A j \in 1 .. Len(q) - i : back[j] = q[i + j]
  BY <1>1, SubSeqProperties
<1> HIDE DEF front, back
<1>4. /\ front \o back \in Seq(Threads)
      /\ Len(front \o back) = Len(front) + Len(back)
      /\ \A j \in 1 .. Len(front) + Len(back) : (front \o back)[j] =
            IF j <= Len(front) THEN front[j] ELSE back[j - Len(front)]
  BY <1>2, <1>3, ConcatProperties
<1>5. RemoveAt(q, i) = front \o back
  BY DEF RemoveAt, front, back
<1>6. ASSUME NEW j \in 1 .. Len(q) - 1
      PROVE  (front \o back)[j] = IF j < i THEN q[j] ELSE q[j + 1]
  <2>1. CASE j < i
    BY <1>1, <1>2, <1>3, <1>4, <2>1
  <2>2. CASE ~(j < i)
    <3>1. (front \o back)[j] = back[j - (i - 1)]
      BY <1>1, <1>2, <1>3, <1>4, <2>2
    <3>2. j - (i - 1) \in 1 .. Len(q) - i /\ i + (j - (i - 1)) = j + 1
      BY <1>1, <2>2
    <3> QED
      BY <1>3, <2>2, <3>1, <3>2
  <2> QED
    BY <2>1, <2>2
<1>7. Len(front \o back) = Len(q) - 1
  BY <1>1, <1>2, <1>3, <1>4
<1> QED
  BY <1>4, <1>5, <1>6, <1>7, Zenon

Distinct(q) == \A j, k \in 1 .. Len(q) : q[j] = q[k] => j = k
Has(q, u) == \E j \in 1 .. Len(q) : q[j] = u

\* The thread that leaves is the only one that does, the order of the others
\* stays, and the second takes the place of a first that leaves.
LEMMA LeaveQueueMembers ==
    ASSUME NEW q \in Seq(Threads), NEW i \in 1 .. Len(q),
           Distinct(q),
           NEW r, r = RemoveAt(q, i)
    PROVE  /\ Distinct(r)
           /\ \A u : Has(r, u) <=> u # q[i] /\ Has(q, u)
           /\ r # <<>> => /\ Len(q) > 1
                          /\ Head(r) = IF i = 1 THEN q[2] ELSE Head(q)
<1>1. Len(q) \in Nat /\ r \in Seq(Threads) /\ Len(r) = Len(q) - 1
  BY FirstInQueue, LeaveQueue
<1>2. \A j \in 1 .. Len(q) - 1 : r[j] = IF j < i THEN q[j] ELSE q[j + 1]
  BY LeaveQueue
<1>3. Distinct(r)
  BY <1>1, <1>2 DEF Distinct
<1>4. ASSUME NEW u, NEW j \in 1 .. Len(r), r[j] = u
      PROVE  u # q[i] /\ \E k \in 1 .. Len(q) : q[k] = u
  BY <1>1, <1>2, <1>4 DEF Distinct
<1>5. ASSUME NEW u, u # q[i], NEW j \in 1 .. Len(q), q[j] = u
      PROVE  \E k \in 1 .. Len(r) : r[k] = u
  <2>1. CASE j < i
    <3>1. j \in 1 .. Len(r) /\ r[j] = u
      BY <1>1, <1>2, <1>5, <2>1
    <3> QED
      BY <3>1
  <2>2. CASE j > i
    <3>1. j - 1 \in 1 .. Len(r) /\ r[j - 1] = q[(j - 1) + 1] /\ (j - 1) + 1 = j
      BY <1>1, <1>2, <2>2
    <3> QED
      BY <1>5, <3>1
  <2>3. j # i
    BY <1>5
  <2> QED
    BY <1>1, <2>1, <2>2, <2>3
<1>6. ASSUME r # <<>>
      PROVE  Len(q) > 1 /\ Head(r) = IF i = 1 THEN q[2] ELSE Head(q)
  <2>1. Len(q) > 1 /\ Head(r) = r[1] /\ Head(q) = q[1]
    BY <1>1, <1>6, FirstInQueue
  <2>2. 1 \in 1 .. Len(q) - 1 /\ 1 + 1 = 2
    BY <1>1, <2>1
  <2>3. CASE i = 1
    BY <1>2, <2>1, <2>2, <2>3
  <2>4. CASE i # 1
    <3>1. 1 < i
      BY <1>1, <2>4
    <3> QED
      BY <1>2, <2>1, <2>2, <2>4, <3>1
  <2> QED
    BY <2>3, <2>4
<1> QED
  BY <1>3, <1>4, <1>5, <1>6 DEF Has

\* The first leaves: Tail is the queue without its member 1.
LEMMA FirstLeaves ==
    ASSUME NEW q \in Seq(Threads), q # <<>>
    PROVE  Tail(q) = RemoveAt(q, 1) /\ 1 \in 1 .. Len(q)
<1>1. Len(q) \in Nat /\ Len(q) > 0 /\ Tail(q) = SubSeq(q, 2, Len(q))
  BY FirstInQueue, TailIsSubSeq
<1>2. SubSeq(q, 1, 1 - 1) = <<>> /\ 1 + 1 = 2
  BY SubSeqEmpty
<1>3. SubSeq(q, 2, Len(q)) \in Seq(Threads)
  BY <1>1, HeadTailProperties
<1>4. <<>> \o SubSeq(q, 2, Len(q)) = SubSeq(q, 2, Len(q))
  BY <1>3, ConcatEmptySeq
<1> QED
  BY <1>1, <1>2, <1>4 DEF RemoveAt

-----------------------------------------------------------------------------
(* Counting permits. *)

\* The threads that occupy a permit are finitely many.
LEMMA OccupyingFinite ==
    /\ IsFiniteSet(Occupying)
    /\ Cardinality(Occupying) \in Nat
    /\ IsFiniteSet(Occupying')
    /\ Cardinality(Occupying') \in Nat
<1>1. Occupying \in SUBSET Threads /\ Occupying' \in SUBSET Threads
  BY DEF Occupying
<1> QED
  BY <1>1, ThreadsAssumption, FS_Subset, FS_CardinalityType

\* One more thread occupies a permit.
LEMMA OccupyOne ==
    ASSUME NEW t, t \notin Occupying, Occupying' = Occupying \cup {t}
    PROVE  Cardinality(Occupying') = Cardinality(Occupying) + 1
  BY OccupyingFinite, FS_AddElement

\* One thread less occupies a permit.
LEMMA VacateOne ==
    ASSUME NEW t, t \in Occupying, Occupying' = Occupying \ {t}
    PROVE  Cardinality(Occupying') = Cardinality(Occupying) - 1
  BY OccupyingFinite, FS_RemoveElement

\* The first waiter is a thread, and it is in the queue.
LEMMA HeadWaits ==
    ASSUME TypeOK, queue # <<>>
    PROVE  Head(queue) \in Threads /\ InQueue(Head(queue)) /\ queue[1] = Head(queue)
           /\ Len(queue) \in Nat \ {0}
  BY FirstInQueue DEF TypeOK, InQueue

-----------------------------------------------------------------------------

\* shouldAcquire() answers yes: only the place of the thread changes, and a
\* thread at getState keeps the queue awake as one at shouldAcquire does.
LEMMA KeepMayCompete ==
    ASSUME IInv, NEW t \in Threads, MayCompete(t)
    PROVE  IInv'
<1> USE DEF Goto
<1>1. TypeOK'
  BY DEF IInv, TypeOK, Places, MayCompete
<1>2. PlaceInv'
  BY DEF IInv, TypeOK, Places, PlaceInv, InQueue, MayCompete
<1>3. NoDuplicates'
  BY DEF IInv, NoDuplicates, MayCompete
<1>4. PermitConservation'
  <2>1. Occupying' = Occupying
    BY DEF IInv, TypeOK, PlaceInv, Occupying, MayCompete
  <2> QED
    BY <2>1 DEF IInv, PermitConservation, MayCompete
<1>5. NoLostWakeup'
  BY HeadWaits DEF IInv, TypeOK, Places, PlaceInv, InQueue, NoLostWakeup, MayCompete
<1> QED
  BY <1>1, <1>2, <1>3, <1>4, <1>5 DEF IInv

\* The read of the permits: what was seen is positive, and stays so until the
\* compare-and-set.
LEMMA KeepGetState ==
    ASSUME IInv, NEW t \in Threads, GetState(t)
    PROVE  IInv'
<1> USE DEF Goto
<1>1. TypeOK'
  BY DEF IInv, TypeOK, Places, GetState
<1>2. PlaceInv'
  BY DEF IInv, TypeOK, Places, PlaceInv, InQueue, GetState
<1>3. NoDuplicates'
  BY DEF IInv, NoDuplicates, GetState
<1>4. PermitConservation'
  <2>1. Occupying' = Occupying
    BY DEF IInv, TypeOK, PlaceInv, Occupying, GetState
  <2> QED
    BY <2>1 DEF IInv, PermitConservation, GetState
<1>5. NoLostWakeup'
  BY HeadWaits DEF IInv, TypeOK, Places, PlaceInv, InQueue, NoLostWakeup, GetState
<1> QED
  BY <1>1, <1>2, <1>3, <1>4, <1>5 DEF IInv

\* A compare-and-set that fails sends the thread back to the read.
LEMMA KeepCasAcquireFails ==
    ASSUME IInv, NEW t \in Threads, CasAcquireFails(t)
    PROVE  IInv'
<1> USE DEF Goto
<1>1. TypeOK'
  BY DEF IInv, TypeOK, Places, CasAcquireFails
<1>2. PlaceInv'
  BY DEF IInv, TypeOK, Places, PlaceInv, InQueue, CasAcquireFails
<1>3. NoDuplicates'
  BY DEF IInv, NoDuplicates, CasAcquireFails
<1>4. PermitConservation'
  <2>1. Occupying' = Occupying
    BY DEF IInv, TypeOK, PlaceInv, Occupying, CasAcquireFails
  <2> QED
    BY <2>1 DEF IInv, PermitConservation, CasAcquireFails
<1>5. NoLostWakeup'
  BY HeadWaits DEF IInv, TypeOK, Places, PlaceInv, InQueue, NoLostWakeup, CasAcquireFails
<1> QED
  BY <1>1, <1>2, <1>3, <1>4, <1>5 DEF IInv

\* An interrupt of lock() only adds a park permit.
LEMMA KeepInterrupt ==
    ASSUME IInv, NEW t \in Threads, Interrupt(t)
    PROVE  IInv'
<1> USE DEF Goto
<1>1. TypeOK'
  BY DEF IInv, TypeOK, Places, Interrupt
<1>2. PlaceInv'
  BY DEF IInv, TypeOK, Places, PlaceInv, InQueue, Interrupt
<1>3. NoDuplicates'
  BY DEF IInv, NoDuplicates, Interrupt
<1>4. PermitConservation'
  <2>1. Occupying' = Occupying
    BY DEF IInv, TypeOK, PlaceInv, Occupying, Interrupt
  <2> QED
    BY <2>1 DEF IInv, PermitConservation, Interrupt
<1>5. NoLostWakeup'
  BY HeadWaits DEF IInv, TypeOK, Places, PlaceInv, InQueue, NoLostWakeup, Interrupt
<1> QED
  BY <1>1, <1>2, <1>3, <1>4, <1>5 DEF IInv

\* Re-entry counts within the thread and touches no permit.
LEMMA KeepReenter ==
    ASSUME IInv, NEW t \in Threads, Reenter(t)
    PROVE  IInv'
<1> USE DEF Goto
<1>1. TypeOK'
  BY MaxHoldAssumption DEF IInv, TypeOK, Places, Reenter
<1>2. PlaceInv'
  BY DEF IInv, TypeOK, Places, PlaceInv, InQueue, Reenter
<1>3. NoDuplicates'
  BY DEF IInv, NoDuplicates, Reenter
<1>4. PermitConservation'
  <2>1. Occupying' = Occupying
    BY DEF IInv, TypeOK, PlaceInv, Occupying, Reenter
  <2> QED
    BY <2>1 DEF IInv, PermitConservation, Reenter
<1>5. NoLostWakeup'
  BY HeadWaits DEF IInv, TypeOK, Places, PlaceInv, InQueue, NoLostWakeup, Reenter
<1> QED
  BY <1>1, <1>2, <1>3, <1>4, <1>5 DEF IInv

\* An inner unlock() leaves the permit occupied.
LEMMA KeepExitInner ==
    ASSUME IInv, NEW t \in Threads, ExitInner(t)
    PROVE  IInv'
<1> USE DEF Goto
<1>1. TypeOK'
  BY MaxHoldAssumption DEF IInv, TypeOK, Places, ExitInner
<1>2. PlaceInv'
  BY DEF IInv, TypeOK, Places, PlaceInv, InQueue, ExitInner
<1>3. NoDuplicates'
  BY DEF IInv, NoDuplicates, ExitInner
<1>4. PermitConservation'
  <2>1. Occupying' = Occupying
    BY DEF IInv, TypeOK, PlaceInv, Occupying, ExitInner
  <2> QED
    BY <2>1 DEF IInv, PermitConservation, ExitInner
<1>5. NoLostWakeup'
  BY HeadWaits DEF IInv, TypeOK, Places, PlaceInv, InQueue, NoLostWakeup, ExitInner
<1> QED
  BY <1>1, <1>2, <1>3, <1>4, <1>5 DEF IInv

\* The outer unlock() drops the Counter; the permit stays occupied by the place
\* of the thread until it is put back.
LEMMA KeepExitOuter ==
    ASSUME IInv, NEW t \in Threads, ExitOuter(t)
    PROVE  IInv'
<1> USE DEF Goto
<1>1. TypeOK'
  BY MaxHoldAssumption DEF IInv, TypeOK, Places, ExitOuter
<1>2. PlaceInv'
  BY DEF IInv, TypeOK, Places, PlaceInv, InQueue, ExitOuter
<1>3. NoDuplicates'
  BY DEF IInv, NoDuplicates, ExitOuter
<1>4. PermitConservation'
  <2>1. Occupying' = Occupying
    BY DEF IInv, TypeOK, PlaceInv, Occupying, ExitOuter
  <2> QED
    BY <2>1 DEF IInv, PermitConservation, ExitOuter
<1>5. NoLostWakeup'
  BY HeadWaits DEF IInv, TypeOK, Places, PlaceInv, InQueue, NoLostWakeup, ExitOuter
<1> QED
  BY <1>1, <1>2, <1>3, <1>4, <1>5 DEF IInv

\* The read before the releasing compare-and-set.
LEMMA KeepReleaseGet ==
    ASSUME IInv, NEW t \in Threads, ReleaseGet(t)
    PROVE  IInv'
<1> USE DEF Goto
<1>1. TypeOK'
  BY DEF IInv, TypeOK, Places, ReleaseGet
<1>2. PlaceInv'
  BY DEF IInv, TypeOK, Places, PlaceInv, InQueue, ReleaseGet
<1>3. NoDuplicates'
  BY DEF IInv, NoDuplicates, ReleaseGet
<1>4. PermitConservation'
  <2>1. Occupying' = Occupying
    BY DEF IInv, TypeOK, PlaceInv, Occupying, ReleaseGet
  <2> QED
    BY <2>1 DEF IInv, PermitConservation, ReleaseGet
<1>5. NoLostWakeup'
  BY HeadWaits DEF IInv, TypeOK, Places, PlaceInv, InQueue, NoLostWakeup, ReleaseGet
<1> QED
  BY <1>1, <1>2, <1>3, <1>4, <1>5 DEF IInv

\* A releasing compare-and-set that fails is tried again with the permit still
\* occupied.
LEMMA KeepReleaseCasFails ==
    ASSUME IInv, NEW t \in Threads, ReleaseCasFails(t)
    PROVE  IInv'
<1> USE DEF Goto
<1>1. TypeOK'
  BY DEF IInv, TypeOK, Places, ReleaseCasFails
<1>2. PlaceInv'
  BY DEF IInv, TypeOK, Places, PlaceInv, InQueue, ReleaseCasFails
<1>3. NoDuplicates'
  BY DEF IInv, NoDuplicates, ReleaseCasFails
<1>4. PermitConservation'
  <2>1. Occupying' = Occupying
    BY DEF IInv, TypeOK, PlaceInv, Occupying, ReleaseCasFails
  <2> QED
    BY <2>1 DEF IInv, PermitConservation, ReleaseCasFails
<1>5. NoLostWakeup'
  BY HeadWaits DEF IInv, TypeOK, Places, PlaceInv, InQueue, NoLostWakeup, ReleaseCasFails
<1> QED
  BY <1>1, <1>2, <1>3, <1>4, <1>5 DEF IInv

\* A queued thread uses its park permit: the first one goes to look, which is
\* what the wake-up was for, and another one loses nothing that the first needs.
LEMMA KeepRetry ==
    ASSUME IInv, NEW t \in Threads, Retry(t)
    PROVE  IInv'
<1> USE DEF Goto
<1>1. TypeOK'
  BY DEF IInv, TypeOK, Places, Retry
<1>2. PlaceInv'
  <2>1. CASE Head(queue) = t
    BY <2>1 DEF IInv, TypeOK, Places, PlaceInv, InQueue, Retry
  <2>2. CASE Head(queue) # t
    <3>1. pc' = pc
      BY <2>2 DEF IInv, TypeOK, Retry
    <3> QED
      BY <3>1 DEF IInv, PlaceInv, InQueue, Retry
  <2> QED
    BY <2>1, <2>2
<1>3. NoDuplicates'
  BY DEF IInv, NoDuplicates, Retry
<1>4. PermitConservation'
  <2>1. Occupying' = Occupying
    BY DEF IInv, TypeOK, PlaceInv, Occupying, Retry
  <2> QED
    BY <2>1 DEF IInv, PermitConservation, Retry
<1>5. NoLostWakeup'
  BY HeadWaits DEF IInv, TypeOK, Places, PlaceInv, InQueue, NoLostWakeup, Retry
<1> QED
  BY <1>1, <1>2, <1>3, <1>4, <1>5 DEF IInv

\* A call begins for a thread that is neither inside nor in the queue.
LEMMA KeepAcquire ==
    ASSUME IInv, NEW t \in Threads, NEW c \in Calls, Acquire(t, c)
    PROVE  IInv'
<1> USE DEF Goto
<1>1. TypeOK'
  BY DEF IInv, TypeOK, Places, Acquire
<1>2. PlaceInv'
  BY DEF IInv, TypeOK, Places, PlaceInv, InQueue, Acquire
<1>3. NoDuplicates'
  BY DEF IInv, NoDuplicates, Acquire
<1>4. PermitConservation'
  <2>1. Occupying' = Occupying
    BY DEF IInv, TypeOK, PlaceInv, Occupying, Acquire
  <2> QED
    BY <2>1 DEF IInv, PermitConservation, Acquire
<1>5. NoLostWakeup'
  BY HeadWaits DEF IInv, TypeOK, Places, PlaceInv, InQueue, NoLostWakeup, Acquire
<1> QED
  BY <1>1, <1>2, <1>3, <1>4, <1>5 DEF IInv

\* The compare-and-set takes a permit: one less in the word, one more occupied;
\* a thread of the queue goes on to wake its successor.
LEMMA KeepCasAcquire ==
    ASSUME IInv, NEW t \in Threads, CasAcquire(t)
    PROVE  IInv'
<1> USE DEF Goto
<1>1. TypeOK'
  <2>1. state' \in 0 .. Count
    BY CountAssumption DEF IInv, TypeOK, PlaceInv, CasAcquire
  <2>2. counter' \in [Threads -> 0 .. MaxHold] /\ seen' \in [Threads -> 0 .. Count]
    BY MaxHoldAssumption, CountAssumption DEF IInv, TypeOK, CasAcquire
  <2> QED
    BY <2>1, <2>2 DEF IInv, TypeOK, Places, CasAcquire
<1>2. PlaceInv'
  <2>1. /\ queue' = queue /\ call' = call
        /\ counter'[t] = 1 /\ pc'[t] = IF InQueue(t) THEN "setHead" ELSE "idle"
    BY DEF IInv, TypeOK, CasAcquire
  <2>2. \A u \in Threads \ {t} :
          counter'[u] = counter[u] /\ seen'[u] = seen[u] /\ pc'[u] = pc[u]
    BY DEF IInv, TypeOK, CasAcquire
  <2>3. \A u \in Threads : InQueue(u)' <=> InQueue(u)
    BY <2>1 DEF InQueue
  <2>4. /\ pc[t] = "casState"
        /\ InQueue(t) => call[t] # "tryLock" /\ Head(queue) = t
    BY DEF IInv, PlaceInv, CasAcquire
  <2> QED
    BY <2>1, <2>2, <2>3, <2>4 DEF IInv, PlaceInv
<1>3. NoDuplicates'
  BY DEF IInv, NoDuplicates, CasAcquire
<1>4. PermitConservation'
  <2>1. t \notin Occupying
    BY DEF IInv, TypeOK, PlaceInv, Occupying, CasAcquire
  <2>2. Occupying' = Occupying \cup {t}
    BY DEF IInv, TypeOK, PlaceInv, Occupying, CasAcquire
  <2>3. Cardinality(Occupying') = Cardinality(Occupying) + 1
    BY <2>1, <2>2, OccupyOne
  <2>4. state' = state - 1
    BY DEF CasAcquire
  <2> QED
    BY <2>3, <2>4, OccupyingFinite, CountAssumption DEF IInv, TypeOK, PermitConservation
<1>5. NoLostWakeup'
  <2>1. CASE InQueue(t)
    <3>1. Head(queue) = t /\ pc'[t] = "setHead" /\ queue' = queue
      BY <2>1 DEF IInv, TypeOK, PlaceInv, CasAcquire
    <3> QED
      BY <3>1 DEF NoLostWakeup
  <2>2. CASE ~InQueue(t)
    <3>1. state > 0
      BY DEF IInv, TypeOK, PlaceInv, CasAcquire
    <3>2. \A u \in Threads \ {t} : pc'[u] = pc[u]
      BY DEF IInv, TypeOK, CasAcquire
    <3>3. queue' = queue /\ token' = token /\ pc[t] = "casState"
      BY DEF CasAcquire
    <3>4. queue # <<>> => Head(queue) \in Threads /\ Head(queue) # t
      BY <2>2, HeadWaits DEF IInv
    <3> QED
      BY <3>1, <3>2, <3>3, <3>4 DEF IInv, NoLostWakeup
  <2> QED
    BY <2>1, <2>2
<1> QED
  BY <1>1, <1>2, <1>3, <1>4, <1>5 DEF IInv

\* The permit is back in the word, and the thread goes on to wake the first.
LEMMA KeepReleaseCas ==
    ASSUME IInv, NEW t \in Threads, ReleaseCas(t)
    PROVE  IInv'
<1> USE DEF Goto
<1>4. PermitConservation' /\ state' \in 0 .. Count
  <2>1. t \in Occupying
    BY DEF Occupying, ReleaseCas
  <2>2. Occupying' = Occupying \ {t}
    BY DEF IInv, TypeOK, PlaceInv, Occupying, ReleaseCas
  <2>3. Cardinality(Occupying') = Cardinality(Occupying) - 1
    BY <2>1, <2>2, VacateOne
  <2>4. state' = state + 1
    BY DEF ReleaseCas
  <2> QED
    BY <2>3, <2>4, OccupyingFinite, CountAssumption DEF IInv, TypeOK, PermitConservation
<1>1. TypeOK'
  BY <1>4, CountAssumption DEF IInv, TypeOK, Places, ReleaseCas
<1>2. PlaceInv'
  BY DEF IInv, TypeOK, Places, PlaceInv, InQueue, ReleaseCas
<1>3. NoDuplicates'
  BY DEF IInv, NoDuplicates, ReleaseCas
<1>5. NoLostWakeup'
  <2>1. pc'[t] = "wake"
    BY DEF IInv, TypeOK, ReleaseCas
  <2> QED
    BY <2>1 DEF NoLostWakeup
<1> QED
  BY <1>1, <1>2, <1>3, <1>4, <1>5 DEF IInv

\* After doReleaseShared the first of the queue has a park permit.
LEMMA KeepWake ==
    ASSUME IInv, NEW t \in Threads, Wake(t)
    PROVE  IInv'
<1> USE DEF Goto
<1>1. TypeOK'
  BY DEF IInv, TypeOK, Places, Wake
<1>2. PlaceInv'
  BY DEF IInv, TypeOK, Places, PlaceInv, InQueue, Wake
<1>3. NoDuplicates'
  BY DEF IInv, NoDuplicates, Wake
<1>4. PermitConservation'
  <2>1. Occupying' = Occupying
    BY DEF IInv, TypeOK, PlaceInv, Occupying, Wake
  <2> QED
    BY <2>1 DEF IInv, PermitConservation, Wake
<1>5. NoLostWakeup'
  BY HeadWaits DEF IInv, NoLostWakeup, Wake
<1> QED
  BY <1>1, <1>2, <1>3, <1>4, <1>5 DEF IInv

\* The served thread leaves the queue and goes on to wake the next first.
LEMMA KeepSetHead ==
    ASSUME IInv, NEW t \in Threads, SetHead(t)
    PROVE  IInv'
<1> USE DEF Goto
<1>1. queue \in Seq(Threads) /\ queue # <<>> /\ Head(queue) = t /\ queue[1] = t
  <2>1. InQueue(t) /\ pc[t] = "setHead"
    BY DEF IInv, PlaceInv, SetHead
  <2>2. Head(queue) = t /\ queue \in Seq(Threads)
    BY <2>1 DEF IInv, TypeOK, PlaceInv
  <2>3. queue # <<>>
    BY <2>1, <2>2, FirstInQueue DEF InQueue
  <2> QED
    BY <2>2, <2>3, FirstInQueue
<1>2. queue' = RemoveAt(queue, 1) /\ 1 \in 1 .. Len(queue)
  BY <1>1, FirstLeaves DEF SetHead
<1>3. queue' \in Seq(Threads)
  BY <1>1, <1>2, LeaveQueue
<1>4. NoDuplicates' /\ \A u : InQueue(u)' <=> u # t /\ InQueue(u)
  <2>1. Distinct(queue)
    BY DEF IInv, NoDuplicates, Distinct
  <2>2. Distinct(queue') /\ \A u : Has(queue', u) <=> u # t /\ Has(queue, u)
    BY <1>1, <1>2, <2>1, LeaveQueueMembers
  <2> QED
    BY <2>2, Zenon DEF NoDuplicates, InQueue, Distinct, Has
<1>5. TypeOK'
  BY <1>3 DEF IInv, TypeOK, Places, SetHead
<1>6. PlaceInv'
  <2>1. \A u \in Threads : InQueue(u) /\ u # t => pc[u] = "queued"
    BY <1>1 DEF IInv, PlaceInv
  <2>2. pc' = [pc EXCEPT ![t] = "wake"] /\ counter' = counter /\ seen' = seen
        /\ call' = call
    BY DEF SetHead
  <2>3. ~InQueue(t)' /\ pc'[t] = "wake"
    BY <1>4, <2>2 DEF IInv, TypeOK
  <2>4. \A u \in Threads \ {t} : pc'[u] = pc[u] /\ (InQueue(u)' <=> InQueue(u))
    BY <1>4, <2>2 DEF IInv, TypeOK
  <2>5. \A u \in Threads \ {t} : pc[u] # "setHead"
    BY <1>1 DEF IInv, PlaceInv
  <2> QED
    BY <2>1, <2>2, <2>3, <2>4, <2>5 DEF IInv, PlaceInv
<1>7. PermitConservation'
  <2>1. Occupying' = Occupying
    BY DEF IInv, TypeOK, PlaceInv, Occupying, SetHead
  <2> QED
    BY <2>1 DEF IInv, PermitConservation, SetHead
<1>8. NoLostWakeup'
  <2>1. pc'[t] = "wake"
    BY DEF IInv, TypeOK, SetHead
  <2> QED
    BY <2>1 DEF NoLostWakeup
<1> QED
  BY <1>4, <1>5, <1>6, <1>7, <1>8 DEF IInv

\* A thread that times out or is interrupted leaves the queue from anywhere; if
\* it was the first, its successor gets a park permit.
LEMMA KeepCancel ==
    ASSUME IInv, NEW t \in Threads, Cancel(t)
    PROVE  IInv'
<1> USE DEF Goto
<1>1. PICK i \in 1 .. Len(queue) :
          /\ queue[i] = t
          /\ queue' = RemoveAt(queue, i)
          /\ token' = [u \in Threads |->
                         token[u] \/ (i = 1 /\ Len(queue) > 1 /\ queue[2] = u)]
  BY DEF Cancel
<1>2. queue \in Seq(Threads) /\ queue # <<>> /\ queue' \in Seq(Threads)
  BY <1>1, LeaveQueue, FirstInQueue, EmptySeq DEF IInv, TypeOK
<1>3. NoDuplicates' /\ \A u : InQueue(u)' <=> u # t /\ InQueue(u)
  <2>1. Distinct(queue)
    BY DEF IInv, NoDuplicates, Distinct
  <2>2. Distinct(queue') /\ \A u : Has(queue', u) <=> u # t /\ Has(queue, u)
    BY <1>1, <1>2, <2>1, LeaveQueueMembers
  <2> QED
    BY <2>2, Zenon DEF NoDuplicates, InQueue, Distinct, Has
<1>4. queue' # <<>> =>
        /\ Len(queue) > 1
        /\ Head(queue') = IF i = 1 THEN queue[2] ELSE Head(queue)
  BY <1>1, <1>2, LeaveQueueMembers DEF IInv, NoDuplicates, Distinct
<1>5. TypeOK'
  BY <1>1, <1>2 DEF IInv, TypeOK, Places, Cancel
<1>6. PlaceInv'
  <2>1. pc' = [pc EXCEPT ![t] = "idle"] /\ counter' = counter /\ seen' = seen
        /\ call' = call /\ pc[t] = "queued"
    BY DEF Cancel
  <2>2. ~InQueue(t)' /\ pc'[t] = "idle"
    BY <1>3, <2>1 DEF IInv, TypeOK
  <2>3. \A u \in Threads \ {t} : pc'[u] = pc[u] /\ (InQueue(u)' <=> InQueue(u))
    BY <1>3, <2>1 DEF IInv, TypeOK
  <2>4. ASSUME NEW u \in Threads \ {t}, InQueue(u), pc[u] # "queued"
        PROVE  Head(queue)' = u
    <3>1. Head(queue) = u /\ InQueue(u)'
      BY <2>3, <2>4 DEF IInv, PlaceInv
    <3>2. i # 1
      BY <1>1, <1>2, <3>1, FirstInQueue
    <3>3. queue' # <<>>
      BY <1>2, <3>1, FirstInQueue DEF InQueue
    <3> QED
      BY <1>4, <3>1, <3>2, <3>3
  <2> QED
    BY <2>1, <2>2, <2>3, <2>4 DEF IInv, PlaceInv
<1>7. PermitConservation'
  <2>1. Occupying' = Occupying
    BY DEF IInv, TypeOK, PlaceInv, Occupying, Cancel
  <2> QED
    BY <2>1 DEF IInv, PermitConservation, Cancel
<1>8. NoLostWakeup'
  <2>1. SUFFICES ASSUME state > 0, queue' # <<>>
                 PROVE  \/ token'[Head(queue')]
                        \/ pc'[Head(queue')] \in {"shouldAcquire", "getState",
                                                  "casState", "setHead"}
                        \/ \E u \in Threads : pc'[u] = "wake"
    BY DEF NoLostWakeup, Cancel
  <2>2. CASE i = 1
    <3>1. Head(queue') = queue[2] /\ queue[2] \in Threads
      BY <1>2, <1>4, <2>1, <2>2, FirstInQueue
    <3> QED
      BY <1>1, <1>4, <2>1, <2>2, <3>1
  <2>3. CASE i # 1
    <3>1. Head(queue') = Head(queue) /\ Head(queue) = queue[1] /\ Head(queue) \in Threads
      BY <1>2, <1>4, <2>1, <2>3, FirstInQueue
    <3>2. Head(queue) # t
      BY <1>1, <1>2, <2>3, <3>1, FirstInQueue DEF IInv, NoDuplicates
    <3>3. token[Head(queue)] => token'[Head(queue)]
      BY <1>1, <3>1
    <3>4. \A u \in Threads \ {t} : pc'[u] = pc[u]
      BY DEF IInv, TypeOK, Cancel
    <3>5. pc[t] = "queued"
      BY DEF Cancel
    <3> QED
      BY <1>2, <2>1, <3>1, <3>2, <3>3, <3>4, <3>5 DEF IInv, NoLostWakeup
  <2> QED
    BY <2>2, <2>3
<1> QED
  BY <1>3, <1>5, <1>6, <1>7, <1>8 DEF IInv

\* A failed try keeps the invariant, if a first waiter only fails for want of
\* a permit.
LEMMA KeepFailed ==
    ASSUME IInv, NEW t \in Threads, pc[t] \in {"shouldAcquire", "getState"},
           InQueue(t) => state = 0,
           Failed(t), UNCHANGED <<state, counter, seen, call>>
    PROVE  IInv'
<1> USE DEF Goto
<1>1. PermitConservation' /\ pc' \in [Threads -> Places]
  <2>1. Occupying' = Occupying /\ pc' \in [Threads -> Places]
    BY DEF IInv, TypeOK, PlaceInv, Places, Occupying, Failed
  <2> QED
    BY <2>1 DEF IInv, PermitConservation
<1>2. CASE call[t] = "tryLock"
  <2>1. ~InQueue(t)
    BY <1>2 DEF IInv, PlaceInv
  <2>2. Goto(t, "idle") /\ UNCHANGED <<queue, token>>
    BY <1>2, <2>1 DEF Failed
  <2>3. TypeOK' /\ NoDuplicates'
    BY <1>1, <2>2 DEF IInv, TypeOK, NoDuplicates
  <2>4. PlaceInv'
    BY <2>1, <2>2 DEF IInv, TypeOK, PlaceInv, InQueue
  <2>5. NoLostWakeup'
    <3>1. queue # <<>> => Head(queue) \in Threads /\ Head(queue) # t
      BY <2>1, HeadWaits DEF IInv
    <3> QED
      BY <2>2, <3>1 DEF IInv, TypeOK, NoLostWakeup
  <2> QED
    BY <1>1, <2>3, <2>4, <2>5 DEF IInv
<1>3. CASE call[t] # "tryLock" /\ ~InQueue(t)
  <2>1. /\ queue' = Append(queue, t)
        /\ token' = [token EXCEPT ![t] = TRUE]
        /\ pc' = [pc EXCEPT ![t] = "queued"]
    BY <1>3 DEF Failed
  <2>2. queue \in Seq(Threads) /\ Len(queue) \in Nat
    BY FirstInQueue DEF IInv, TypeOK
  <2>3. /\ queue' \in Seq(Threads)
        /\ Len(queue') = Len(queue) + 1
        /\ queue'[Len(queue) + 1] = t
        /\ \A i \in 1 .. Len(queue) : queue'[i] = queue[i]
        /\ queue # <<>> => Head(queue') = Head(queue)
        /\ queue = <<>> => Head(queue') = t
    BY <2>1, <2>2, JoinQueue
  <2>4. NoDuplicates'
    BY <1>3, <2>2, <2>3 DEF IInv, NoDuplicates, InQueue
  <2>5. \A u : InQueue(u)' <=> u = t \/ InQueue(u)
    BY <2>2, <2>3 DEF InQueue
  <2>6. TypeOK'
    BY <1>1, <2>1, <2>3 DEF IInv, TypeOK
  <2>7. PlaceInv'
    <3>1. \A u \in Threads \ {t} : pc'[u] = pc[u] /\ (InQueue(u)' <=> InQueue(u))
      BY <2>1, <2>5 DEF IInv, TypeOK
    <3>2. pc'[t] = "queued" /\ InQueue(t)' /\ counter[t] = 0
      BY <2>1, <2>5 DEF IInv, TypeOK, PlaceInv
    <3>3. \A u \in Threads : InQueue(u) => queue # <<>>
      BY <2>2, FirstInQueue DEF InQueue
    <3> QED
      BY <1>3, <2>3, <3>1, <3>2, <3>3 DEF IInv, PlaceInv
  <2>8. NoLostWakeup'
    <3>1. CASE queue = <<>>
      BY <2>1, <2>3, <3>1 DEF IInv, TypeOK, NoLostWakeup
    <3>2. CASE queue # <<>>
      <4>1. Head(queue') = Head(queue) /\ Head(queue) \in Threads /\ Head(queue) # t
        BY <1>3, <2>3, <3>2, HeadWaits DEF IInv
      <4>2. \A u \in Threads \ {t} : pc'[u] = pc[u] /\ token'[u] = token[u]
        BY <2>1 DEF IInv, TypeOK
      <4> QED
        BY <3>2, <4>1, <4>2 DEF IInv, NoLostWakeup
    <3> QED
      BY <3>1, <3>2
  <2> QED
    BY <1>1, <2>4, <2>6, <2>7, <2>8 DEF IInv
<1>4. CASE call[t] # "tryLock" /\ InQueue(t)
  <2>1. Goto(t, "queued") /\ UNCHANGED <<queue, token>> /\ state = 0
    BY <1>4 DEF Failed
  <2>2. TypeOK' /\ NoDuplicates'
    BY <1>1, <2>1 DEF IInv, TypeOK, NoDuplicates
  <2>3. PlaceInv'
    BY <1>4, <2>1 DEF IInv, TypeOK, PlaceInv, InQueue
  <2>4. NoLostWakeup'
    BY <2>1 DEF NoLostWakeup
  <2> QED
    BY <1>1, <2>2, <2>3, <2>4 DEF IInv
<1> QED
  BY <1>2, <1>3, <1>4

\* shouldAcquire() answers no.
LEMMA KeepMustWait ==
    ASSUME IInv, NEW t \in Threads, MustWait(t)
    PROVE  IInv'
<1>1. ~InQueue(t)
  BY DEF IInv, PlaceInv, MustWait, ShouldAcquire, HasQueuedPredecessors
<1> QED
  BY <1>1, KeepFailed DEF MustWait

\* There is no permit.
LEMMA KeepNoPermit ==
    ASSUME IInv, NEW t \in Threads, NoPermit(t)
    PROVE  IInv'
<1>1. state = 0
  BY CountAssumption DEF IInv, TypeOK, NoPermit
<1> QED
  BY <1>1, KeepFailed DEF NoPermit

-----------------------------------------------------------------------------
(* The theorems. *)

\* At the start all permits are in the word and nobody waits.
LEMMA InitIInv == Init => IInv
<1> SUFFICES ASSUME Init PROVE IInv
  OBVIOUS
<1>1. Occupying = {}
  BY DEF Init, Occupying
<1>2. TypeOK
  BY CountAssumption, MaxHoldAssumption, EmptySeq DEF Init, TypeOK, Places
<1>3. PlaceInv /\ NoDuplicates /\ NoLostWakeup
  BY EmptySeq DEF Init, PlaceInv, NoDuplicates, NoLostWakeup, InQueue
<1>4. PermitConservation
  BY <1>1, FS_EmptySet, CountAssumption DEF Init, PermitConservation
<1> QED
  BY <1>2, <1>3, <1>4 DEF IInv

\* Every step keeps the inductive invariant: one lemma per action.
LEMMA StepIInv == IInv /\ [Next]_vars => IInv'
<1> SUFFICES ASSUME IInv, [Next]_vars PROVE IInv'
  OBVIOUS
<1>1. CASE UNCHANGED vars
  BY <1>1 DEF vars, IInv, TypeOK, PlaceInv, NoDuplicates, PermitConservation,
              Occupying, NoLostWakeup, InQueue
<1>2. ASSUME NEW t \in Threads, NEW c \in Calls, Acquire(t, c) PROVE IInv'
  BY <1>2, KeepAcquire
<1>3. ASSUME NEW t \in Threads, Reenter(t) \/ Unlock(t) PROVE IInv'
  BY <1>3, KeepReenter, KeepExitInner, KeepExitOuter DEF Unlock
<1>4. ASSUME NEW t \in Threads, Cancel(t) \/ Interrupt(t) PROVE IInv'
  BY <1>4, KeepCancel, KeepInterrupt
<1>5. ASSUME NEW t \in Threads, Step(t) PROVE IInv'
  BY <1>5, KeepMayCompete, KeepMustWait, KeepGetState, KeepNoPermit,
     KeepCasAcquire, KeepCasAcquireFails, KeepRetry, KeepSetHead, KeepWake,
     KeepReleaseGet, KeepReleaseCas, KeepReleaseCasFails DEF Step
<1> QED
  BY <1>1, <1>2, <1>3, <1>4, <1>5 DEF Next

\* For any finite set of threads, any Count and both synchronizers: every
\* reachable state of the lock satisfies the inductive invariant.
THEOREM Invariance == Spec => []IInv
  BY InitIInv, StepIInv, PTL DEF Spec

\* Every variable of the lock keeps its type; in particular the AQS word
\* stays between 0 and Count.
THEOREM TypeCorrect == Spec => []TypeOK
<1>1. IInv => TypeOK
  BY DEF IInv
<1> QED
  BY <1>1, Invariance, PTL

\* No permit is lost or made by the compare-and-set loops of
\* tryAcquireShared and tryReleaseShared, by re-entry or by cancellation.
THEOREM PermitsConserved == Spec => []PermitConservation
<1>1. IInv => PermitConservation
  BY DEF IInv
<1> QED
  BY <1>1, Invariance, PTL

\* The wake-up owed to the first waiter is never lost, whatever happens
\* between a release, an acquire that propagates and a cancellation.
THEOREM WakeupsKept == Spec => []NoLostWakeup
<1>1. IInv => NoLostWakeup
  BY DEF IInv
<1> QED
  BY <1>1, Invariance, PTL

\* The cardinality that CountedLock counts with is the one of FiniteSets.
LEMMA SameCardinality == \A S : Abstract!Cardinality(S) = Cardinality(S)
  BY DEF Abstract!Cardinality, Cardinality

\* A thread enters only where a permit is left, so fewer than Count threads
\* were inside.
LEMMA RoomToEnter ==
    ASSUME IInv, state >= 1
    PROVE  Cardinality(Abstract!Inside) < Count
<1>1. Abstract!Inside \in SUBSET Occupying
  BY DEF Abstract!Inside, Occupying
<1>2. Cardinality(Abstract!Inside) <= Cardinality(Occupying)
      /\ Cardinality(Abstract!Inside) \in Nat
  BY <1>1, OccupyingFinite, FS_Subset, FS_CardinalityType
<1> QED
  BY <1>2, OccupyingFinite, CountAssumption DEF IInv, TypeOK, PermitConservation

\* TwinsLock implements CountedLock: what its callers see is a lock that at
\* most Count threads hold at a time and that only holders give back.
THEOREM Refinement == Spec => AbstractSpec
<1>1. Init => Abstract!Init
  BY DEF Init, Abstract!Init
<1>2. IInv /\ [Next]_vars => [Abstract!Next]_counter
  <2> SUFFICES ASSUME IInv, [Next]_vars PROVE [Abstract!Next]_counter
    OBVIOUS
  <2>1. CASE UNCHANGED vars
    BY <2>1 DEF vars
  <2>2. ASSUME NEW t \in Threads, NEW c \in Calls, Acquire(t, c)
        PROVE  counter' = counter
    BY <2>2 DEF Acquire
  <2>3. ASSUME NEW t \in Threads, Reenter(t) PROVE Abstract!Reenter(t)
    BY <2>3 DEF Reenter, Abstract!Reenter
  <2>4. ASSUME NEW t \in Threads, Unlock(t) PROVE Abstract!Leave(t)
    BY <2>4 DEF IInv, TypeOK, Unlock, ExitInner, ExitOuter, Abstract!Leave
  <2>5. ASSUME NEW t \in Threads, CasAcquire(t) PROVE Abstract!Enter(t)
    <3>1. state >= 1 /\ counter[t] = 0
      BY <2>5 DEF IInv, PlaceInv, CasAcquire
    <3> QED
      BY <2>5, <3>1, RoomToEnter, SameCardinality DEF CasAcquire, Abstract!Enter
  <2>6. ASSUME NEW t \in Threads, Step(t), ~CasAcquire(t) PROVE counter' = counter
    BY <2>6 DEF Step, MayCompete, MustWait, GetState, NoPermit, CasAcquireFails,
                Retry, SetHead, Wake, ReleaseGet, ReleaseCas, ReleaseCasFails
  <2>7. ASSUME NEW t \in Threads, Cancel(t) \/ Interrupt(t) PROVE counter' = counter
    BY <2>7 DEF Cancel, Interrupt
  <2> QED
    BY <2>1, <2>2, <2>3, <2>4, <2>5, <2>6, <2>7 DEF Next, Abstract!Next
<1> QED
  BY <1>1, <1>2, Invariance, PTL DEF Spec, AbstractSpec, Abstract!Spec
-----------------------------------------------------------------------------
(* Who passed whom *)

\* A thread that competes has not waited, unless it is the first in the queue,
\* and then nobody else takes it out of the queue.
LEMMA StaysQueued ==
    ASSUME IInv, NEW u \in Threads, InQueue(u), pc[u] \in Competing,
           NEW t \in Threads, t # u,
           SetHead(t) \/ Cancel(t)
    PROVE  InQueue(u)'
<1>1. queue \in Seq(Threads) /\ Len(queue) \in Nat /\ Distinct(queue) /\ Has(queue, u)
  BY FirstInQueue DEF IInv, TypeOK, NoDuplicates, Distinct, InQueue, Has
<1>2. Head(queue) = u
  BY DEF IInv, PlaceInv, Competing
<1>3. ~SetHead(t)
  BY <1>2 DEF IInv, PlaceInv, SetHead
<1>4. PICK i \in 1 .. Len(queue) : queue[i] = t /\ queue' = RemoveAt(queue, i)
  BY <1>3 DEF Cancel
<1>5. PICK r : r = queue'
  OBVIOUS
<1>6. Has(r, u)
  BY <1>1, <1>4, <1>5, LeaveQueueMembers
<1> QED
  BY <1>5, <1>6 DEF Has, InQueue

\* Who competes after a step without waiting competed before it and did not
\* take a permit, or was let past the question while nobody waited.
LEMMA HowToCompete ==
    ASSUME IInv, NEW u \in Threads, Next,
           pc'[u] \in Competing, ~InQueue(u)'
    PROVE  /\ counter'[u] = counter[u]
           /\ ~InQueue(u)
           /\ pc[u] \in Competing \/ MayCompete(u)
<1>1. ASSUME NEW t \in Threads, NEW c \in Calls, Acquire(t, c)
      PROVE  t # u /\ pc'[u] = pc[u] /\ counter'[u] = counter[u] /\ queue' = queue
  BY <1>1 DEF IInv, TypeOK, Acquire, Goto, Competing
<1>2. ASSUME NEW t \in Threads, Reenter(t) \/ Unlock(t)
      PROVE  t # u /\ pc'[u] = pc[u] /\ counter'[u] = counter[u] /\ queue' = queue
  BY <1>2 DEF IInv, TypeOK, Reenter, Unlock, ExitInner, ExitOuter, Goto, Competing
<1>3. ASSUME NEW t \in Threads, Cancel(t)
      PROVE  t # u /\ pc'[u] = pc[u] /\ counter'[u] = counter[u]
  BY <1>3 DEF IInv, TypeOK, Cancel, Goto, Competing
<1>4. ASSUME NEW t \in Threads, SetHead(t)
      PROVE  t # u /\ pc'[u] = pc[u] /\ counter'[u] = counter[u]
  BY <1>4 DEF IInv, TypeOK, SetHead, Goto, Competing
<1>5. ASSUME NEW t \in Threads, Interrupt(t) \/ Retry(t) \/ Wake(t) \/ ReleaseGet(t)
                                   \/ ReleaseCas(t) \/ ReleaseCasFails(t)
      PROVE  t # u /\ pc'[u] = pc[u] /\ counter'[u] = counter[u] /\ queue' = queue
  BY <1>5 DEF IInv, TypeOK, Interrupt, Retry, Wake, ReleaseGet, ReleaseCas,
              ReleaseCasFails, Goto, Competing
<1>6. ASSUME NEW t \in Threads, Failed(t), UNCHANGED counter
      PROVE  /\ t # u /\ pc'[u] = pc[u] /\ counter'[u] = counter[u]
             /\ InQueue(u) => InQueue(u)'
  <2>1. t # u /\ pc'[u] = pc[u] /\ counter'[u] = counter[u]
    BY <1>6 DEF IInv, TypeOK, Failed, Goto, Competing
  <2>2. queue' = queue \/ queue' = Append(queue, t)
    BY <1>6 DEF Failed
  <2>3. queue \in Seq(Threads) /\ Len(queue) \in Nat
    BY FirstInQueue DEF IInv, TypeOK
  <2>4. ASSUME queue' = Append(queue, t), InQueue(u) PROVE InQueue(u)'
    <3>1. Len(queue') = Len(queue) + 1 /\ \A i \in 1 .. Len(queue) : queue'[i] = queue[i]
      BY <2>3, <2>4, JoinQueue
    <3> QED
      BY <2>3, <2>4, <3>1 DEF InQueue
  <2> QED
    BY <2>1, <2>2, <2>4 DEF InQueue
<1>7. ASSUME NEW t \in Threads, GetState(t) \/ CasAcquireFails(t)
      PROVE  /\ counter'[u] = counter[u] /\ queue' = queue
             /\ pc[u] \in Competing
  BY <1>7 DEF IInv, TypeOK, GetState, CasAcquireFails, Goto, Competing
<1>8. ASSUME NEW t \in Threads, CasAcquire(t)
      PROVE  t # u /\ pc'[u] = pc[u] /\ counter'[u] = counter[u] /\ queue' = queue
  BY <1>8 DEF IInv, TypeOK, CasAcquire, Goto, Competing
<1>9. ASSUME NEW t \in Threads, MayCompete(t)
      PROVE  /\ counter'[u] = counter[u] /\ queue' = queue
             /\ t = u \/ pc'[u] = pc[u]
  BY <1>9 DEF IInv, TypeOK, MayCompete, Goto
<1>10. PICK t \in Threads :
          \/ \E c \in Calls : Acquire(t, c)
          \/ Reenter(t) \/ Unlock(t)
          \/ Cancel(t) \/ SetHead(t)
          \/ Interrupt(t) \/ Retry(t) \/ Wake(t)
          \/ ReleaseGet(t) \/ ReleaseCas(t) \/ ReleaseCasFails(t)
          \/ Failed(t) /\ UNCHANGED counter
          \/ GetState(t) \/ CasAcquireFails(t)
          \/ CasAcquire(t) \/ MayCompete(t)
  BY DEF Next, Step, MustWait, NoPermit
<1>11. queue' = queue => ~InQueue(u)
  BY DEF InQueue
<1>12. CASE Cancel(t) \/ SetHead(t)
  BY <1>3, <1>4, <1>12, StaysQueued
<1>13. CASE Failed(t) /\ UNCHANGED counter
  BY <1>6, <1>13
<1>14. CASE MayCompete(t)
  BY <1>9, <1>11, <1>14
<1> QED
  BY <1>1, <1>2, <1>5, <1>7, <1>8, <1>10, <1>11, <1>12, <1>13, <1>14

LEMMA InitOInv == OInit => OInv
<1> SUFFICES ASSUME OInit PROVE OInv
  OBVIOUS
<1>1. PassedAreWaiting /\ PassedNoneYet
  BY DEF OInit, PassedAreWaiting, PassedNoneYet
<1> QED
  BY <1>1, InitIInv DEF OInit, OInv

LEMMA StepOInv == OInv /\ [ONext]_ovars => OInv'
<1> SUFFICES ASSUME OInv, [ONext]_ovars PROVE OInv'
  OBVIOUS
<1>1. IInv'
  BY StepIInv DEF OInv, ONext, ovars, vars
<1>2. CASE UNCHANGED ovars
  <2>1. Waiting' = Waiting
    BY <1>2 DEF ovars, Waiting, InQueue
  <2> QED
    BY <1>1, <1>2, <2>1 DEF OInv, ovars, PassedAreWaiting, PassedNoneYet, InQueue
<1>3. CASE ONext
  <2>1. \A u \in Threads :
           overtook'[u] = (overtook[u] \cup (IF Barges(u) THEN Waiting ELSE {})) \cap Waiting'
    BY <1>3 DEF ONext
  <2>2. PassedAreWaiting'
    BY <2>1 DEF PassedAreWaiting
  <2>3. ASSUME Fair, NEW u \in Threads, pc'[u] \in Competing, ~InQueue(u)'
        PROVE  overtook'[u] = {}
    <3>1. /\ counter'[u] = counter[u]
          /\ ~InQueue(u)
          /\ pc[u] \in Competing \/ MayCompete(u)
      BY <1>3, <2>3, HowToCompete DEF OInv, ONext
    <3>2. ~Barges(u)
      BY <3>1 DEF Barges
    <3>3. CASE pc[u] \in Competing /\ ~InQueue(u)
      BY <2>1, <2>3, <3>2, <3>3 DEF OInv, PassedNoneYet, Competing
    <3>4. CASE MayCompete(u) /\ ~InQueue(u)
      <4>1. queue = <<>>
        BY <2>3, <3>4, HeadWaits
           DEF OInv, IInv, MayCompete, ShouldAcquire, HasQueuedPredecessors
      <4>2. Waiting = {}
        BY <4>1 DEF Waiting, InQueue
      <4> QED
        BY <2>1, <3>2, <4>2 DEF OInv, PassedAreWaiting
    <3> QED
      BY <3>1, <3>3, <3>4
  <2> QED
    BY <1>1, <2>2, <2>3 DEF OInv, PassedNoneYet, Competing
<1> QED
  BY <1>2, <1>3

\* With FairSync no thread passes the same waiting thread twice, whatever the
\* number of threads and permits: it passes only those who joined the queue
\* after it had asked.
THEOREM PassedOnce == Fair => (OSpec => NoSecondOvertaking)
<1>1. OInv /\ [ONext]_ovars =>
         [Fair => \A u \in Threads : Barges(u) => Waiting \cap overtook[u] = {}]_ovars
  <2> SUFFICES ASSUME OInv, ONext, Fair, NEW u \in Threads, Barges(u)
               PROVE  overtook[u] = {}
    OBVIOUS
  <2>1. pc[u] = "casState" /\ ~InQueue(u)
    <3>1. PICK t \in Threads : CasAcquire(t) \/ Reenter(t) \/ counter' = counter \/ Unlock(t)
      BY DEF ONext, Next, Step, Acquire, MayCompete, MustWait, GetState, NoPermit,
             CasAcquireFails, Retry, SetHead, Wake, ReleaseGet, ReleaseCas,
             ReleaseCasFails, Cancel, Interrupt
    <3>2. counter \in [Threads -> 0 .. MaxHold] /\ counter[u] = 0 /\ counter'[u] = 1
      BY DEF OInv, IInv, TypeOK, Barges
    <3>3. ~Reenter(t)
      BY <3>2, MaxHoldAssumption DEF Reenter
    <3>4. ~Unlock(t)
      BY <3>2, MaxHoldAssumption DEF Unlock, ExitInner, ExitOuter
    <3>5. CasAcquire(u)
      BY <3>1, <3>2, <3>3, <3>4 DEF CasAcquire
    <3> QED
      BY <3>5 DEF CasAcquire, Barges
  <2> QED
    BY <2>1 DEF OInv, PassedNoneYet, Competing
<1>2. OSpec => [][Fair => \A u \in Threads : Barges(u) => Waiting \cap overtook[u] = {}]_ovars
  BY <1>1, InitOInv, StepOInv, PTL DEF OSpec
<1> QED
  <2> SUFFICES ASSUME Fair PROVE OSpec => NoSecondOvertaking
    OBVIOUS
  <2>1. [Fair => \A u \in Threads : Barges(u) => Waiting \cap overtook[u] = {}]_ovars
          => [\A u \in Threads : Barges(u) => Waiting \cap overtook[u] = {}]_ovars
    OBVIOUS
  <2> QED
    BY <1>2, <2>1, PTL DEF NoSecondOvertaking

-----------------------------------------------------------------------------
(* The driver: its threads are callers of the lock *)

\* The driver's lock is the lock: TestTwinsLock extends the same module.
LEMMA SameLock ==
    /\ Driver!Init <=> Init
    /\ \A t : Driver!InQueue(t) <=> InQueue(t)
    /\ \A t, c : Driver!Acquire(t, c) <=> Acquire(t, c)
    /\ \A t : Driver!Step(t) <=> Step(t)
    /\ \A t : Driver!Cancel(t) <=> Cancel(t)
    /\ \A t : Driver!Unlock(t) <=> Unlock(t)
<1>1. \A t : Driver!InQueue(t) <=> InQueue(t)
  BY Zenon DEF Driver!InQueue, InQueue
<1>2. \A t, place : Driver!Goto(t, place) <=> Goto(t, place)
  BY Zenon DEF Driver!Goto, Goto
<1>3. \A t : Driver!Failed(t) <=> Failed(t)
  BY <1>1, <1>2, Zenon DEF Driver!Failed, Failed
<1>4. \A t, c : Driver!Acquire(t, c) <=> Acquire(t, c)
  BY <1>2, Zenon DEF Driver!Acquire, Acquire
<1>5. ASSUME NEW t
      PROVE  Driver!Step(t) <=> Step(t)
  <2>1. Driver!MayCompete(t) <=> MayCompete(t)
    BY <1>2, Zenon DEF Driver!MayCompete, MayCompete, Driver!ShouldAcquire, ShouldAcquire,
       Driver!HasQueuedPredecessors, HasQueuedPredecessors
  <2>2. Driver!MustWait(t) <=> MustWait(t)
    BY <1>3, Zenon DEF Driver!MustWait, MustWait, Driver!ShouldAcquire, ShouldAcquire,
       Driver!HasQueuedPredecessors, HasQueuedPredecessors
  <2>3. (Driver!GetState(t) <=> GetState(t)) /\ (Driver!NoPermit(t) <=> NoPermit(t))
    BY <1>2, <1>3, Zenon DEF Driver!GetState, GetState, Driver!NoPermit, NoPermit
  <2>4. Driver!CasAcquire(t) <=> CasAcquire(t)
    BY DEF Driver!CasAcquire, CasAcquire, Driver!InQueue, InQueue, Driver!Goto, Goto
  <2>5. Driver!CasAcquireFails(t) <=> CasAcquireFails(t)
    BY <1>2, Zenon DEF Driver!CasAcquireFails, CasAcquireFails
  <2>6. (Driver!Retry(t) <=> Retry(t)) /\ (Driver!SetHead(t) <=> SetHead(t))
    BY <1>2, Zenon DEF Driver!Retry, Retry, Driver!SetHead, SetHead
  <2>7. Driver!Wake(t) <=> Wake(t)
    BY <1>2, Zenon DEF Driver!Wake, Wake
  <2>8. (Driver!ReleaseGet(t) <=> ReleaseGet(t)) /\ (Driver!ReleaseCas(t) <=> ReleaseCas(t))
    BY <1>2, Zenon DEF Driver!ReleaseGet, ReleaseGet, Driver!ReleaseCas, ReleaseCas
  <2>9. Driver!ReleaseCasFails(t) <=> ReleaseCasFails(t)
    BY <1>2, Zenon DEF Driver!ReleaseCasFails, ReleaseCasFails
  <2> QED
    BY <2>1, <2>2, <2>3, <2>4, <2>5, <2>6, <2>7, <2>8, <2>9, Zenon DEF Driver!Step, Step
<1>6. \A t : Driver!Cancel(t) <=> Cancel(t)
  BY <1>2, Zenon DEF Driver!Cancel, Cancel, Driver!RemoveAt, RemoveAt
<1>7. \A t : Driver!Unlock(t) <=> Unlock(t)
  BY <1>2, Zenon DEF Driver!Unlock, Unlock, Driver!ExitInner, ExitInner,
                     Driver!ExitOuter, ExitOuter
<1>8. Driver!Init <=> Init
  BY Zenon DEF Driver!Init, Init
<1> QED
  BY <1>1, <1>4, <1>5, <1>6, <1>7, <1>8
\* What the driver's threads are: each of one kind, and each kind calls a method.
LEMMA CallOfKind ==
    ASSUME Driver!KindsAssumption, NEW t \in Threads
    PROVE  /\ Driver!CallOf(t) \in Calls
           /\ t \in GetThreads => Driver!CallOf(t) = "lock"
<1>1. CASE t \in GetThreads
  BY <1>1, Zenon DEF Driver!KindsAssumption, Driver!CallOf
<1>2. CASE t \in TryGetThreads
  BY <1>2, Zenon DEF Driver!KindsAssumption, Driver!CallOf
<1>3. CASE t \in TryBlockGetThreads
  BY <1>3, Zenon DEF Driver!KindsAssumption, Driver!CallOf
<1> QED
  BY <1>1, <1>2, <1>3 DEF Driver!KindsAssumption

\* A step of the driver is a step of the lock, or throws before any change.
LEMMA DriverStep ==
    ASSUME Driver!KindsAssumption, [Driver!TNext]_(Driver!tvars)
    PROVE  [Next]_vars
<1>1. CASE UNCHANGED Driver!tvars
  BY <1>1 DEF Driver!tvars, vars
<1>2. ASSUME NEW t \in Threads, Driver!RunStep(t) \/ Driver!TimedOut(t)
      PROVE  [Next]_vars
  <2>1. CASE Driver!Start(t)
    <3>1. Acquire(t, Driver!CallOf(t))
      BY <2>1, SameLock, Zenon DEF Driver!Start
    <3> QED
      BY <3>1, CallOfKind DEF Next
  <2>2. CASE Driver!Acquiring(t) \/ Driver!Unlocking(t)
    <3>1. Step(t)
      BY <2>2, SameLock, Zenon DEF Driver!Acquiring, Driver!Unlocking
    <3> QED
      BY <3>1, Zenon DEF Next
  <2>3. CASE Driver!Finally(t)
    <3>1. Unlock(t)
      BY <2>3, SameLock, Zenon DEF Driver!Finally
    <3> QED
      BY <3>1, Zenon DEF Next
  <2>4. CASE Driver!FinallyWithoutLock(t)
    BY <2>4 DEF Driver!FinallyWithoutLock, Driver!vars, vars
  <2>5. CASE Driver!TimedOut(t)
    <3>1. Cancel(t)
      BY <2>5, SameLock, Zenon DEF Driver!TimedOut
    <3> QED
      BY <3>1, Zenon DEF Next
  <2> QED
    BY <1>2, <2>1, <2>2, <2>3, <2>4, <2>5, Zenon DEF Driver!RunStep
<1> QED
  BY <1>1, <1>2, Zenon DEF Driver!TNext

\* The threads of TestTwinsLock only do what the lock's specification lets its
\* callers do, so that all that is proved of the lock is true of the driver.
THEOREM DriverUsesLock == Driver!KindsAssumption => (Driver!TSpec => Spec)
<1> SUFFICES ASSUME Driver!KindsAssumption PROVE Driver!TSpec => Spec
  OBVIOUS
<1>1. Driver!TInit => Init
  BY SameLock, Zenon DEF Driver!TInit
<1> QED
  BY <1>1, DriverStep, PTL DEF Driver!TSpec, Spec

\* A step inside an acquiring call goes on with the call, or ends it: with the
\* lock, or, unless the call was lock(), without it.
LEMMA StepOfCall ==
    ASSUME IInv, NEW t \in Threads, Step(t) \/ Cancel(t),
           pc[t] \in {"shouldAcquire", "getState", "casState", "queued", "setHead", "wake"},
           pc[t] = "wake" => counter[t] = 1
    PROVE  /\ call'[t] = call[t]
           /\ pc'[t] \in {"shouldAcquire", "getState", "casState", "queued", "setHead",
                          "wake", "idle"}
           /\ pc'[t] = "wake" => counter'[t] = 1
           /\ pc'[t] = "idle" => /\ counter'[t] \in {0, 1}
                                 /\ call[t] = "lock" => counter'[t] = 1
<1> USE DEF IInv, TypeOK, Goto
<1>1. CASE Cancel(t)
  BY <1>1 DEF Cancel, PlaceInv
<1>2. CASE MustWait(t) \/ NoPermit(t)
  <2>1. Failed(t) /\ UNCHANGED <<counter, call>> /\ counter[t] = 0
    BY <1>2 DEF MustWait, NoPermit, PlaceInv
  <2> QED
    BY <2>1 DEF Failed
<1>3. CASE MayCompete(t) \/ GetState(t) \/ CasAcquire(t) \/ CasAcquireFails(t)
  BY <1>3 DEF MayCompete, GetState, CasAcquire, CasAcquireFails
<1>4. CASE Retry(t) \/ SetHead(t) \/ Wake(t)
  BY <1>4 DEF Retry, SetHead, Wake, PlaceInv
<1>5. ~ReleaseGet(t) /\ ~ReleaseCas(t) /\ ~ReleaseCasFails(t)
  BY DEF ReleaseGet, ReleaseCas, ReleaseCasFails
<1> QED
  BY <1>1, <1>2, <1>3, <1>4, <1>5, Zenon DEF Step

\* A step after the outermost unlock() gives the permit back, and ends the call.
LEMMA StepOfUnlock ==
    ASSUME IInv, NEW t \in Threads, Step(t),
           pc[t] \in {"releaseGet", "releaseCas", "wake"}
    PROVE  counter'[t] = counter[t] /\ pc'[t] \in {"releaseGet", "releaseCas", "wake", "idle"}
<1> USE DEF IInv, TypeOK, Goto
<1>1. CASE ReleaseGet(t) \/ ReleaseCas(t) \/ ReleaseCasFails(t) \/ Wake(t)
  BY <1>1 DEF ReleaseGet, ReleaseCas, ReleaseCasFails, Wake
<1> QED
  BY <1>1 DEF Step, MayCompete, MustWait, GetState, NoPermit, CasAcquire, CasAcquireFails,
              Retry, SetHead

\* A step of one thread leaves the place of the others in the lock alone.
LEMMA OthersStay ==
    ASSUME IInv, NEW t \in Threads,
           Step(t) \/ Cancel(t) \/ Unlock(t) \/ (\E c \in Calls : Acquire(t, c))
    PROVE  \A u \in Threads \ {t} :
              pc'[u] = pc[u] /\ counter'[u] = counter[u] /\ call'[u] = call[u]
<1> USE DEF IInv, TypeOK, Goto
<1>1. CASE Step(t)
  <2>1. CASE MustWait(t) \/ NoPermit(t)
    <3>1. Failed(t) /\ UNCHANGED <<counter, call>>
      BY <2>1 DEF MustWait, NoPermit
    <3> QED
      BY <3>1 DEF Failed
  <2>2. CASE MayCompete(t) \/ GetState(t) \/ CasAcquire(t) \/ CasAcquireFails(t)
    BY <2>2 DEF MayCompete, GetState, CasAcquire, CasAcquireFails
  <2>3. CASE Retry(t) \/ SetHead(t) \/ Wake(t)
    BY <2>3 DEF Retry, SetHead, Wake
  <2>4. CASE ReleaseGet(t) \/ ReleaseCas(t) \/ ReleaseCasFails(t)
    BY <2>4 DEF ReleaseGet, ReleaseCas, ReleaseCasFails
  <2> QED
    BY <1>1, <2>1, <2>2, <2>3, <2>4, Zenon DEF Step
<1>2. CASE Cancel(t) \/ Unlock(t)
  BY <1>2 DEF Cancel, Unlock, ExitInner, ExitOuter
<1>3. ASSUME NEW c \in Calls, Acquire(t, c)
      PROVE  \A u \in Threads \ {t} :
                pc'[u] = pc[u] /\ counter'[u] = counter[u] /\ call'[u] = call[u]
  BY <1>3 DEF Acquire
<1> QED
  BY <1>1, <1>2, <1>3, Zenon
LEMMA DriverInit ==
    ASSUME Driver!KindsAssumption, Driver!TInit
    PROVE  Driver!TInv
<1>1. Init
  BY SameLock, Zenon DEF Driver!TInit
<1>2. stage = [t \in Threads |-> "start"]
  BY Zenon DEF Driver!TInit
<1>3. stage \in [Threads -> Driver!Stages]
  BY <1>2 DEF Driver!Stages
<1>4. ASSUME NEW t \in Threads PROVE Driver!RunIs(t)
  BY <1>1, <1>2 DEF Init, Driver!RunIs
<1>5. ASSUME NEW t \in GetThreads PROVE stage[t] # "nullPointer"
  BY <1>2, <1>5 DEF Driver!KindsAssumption
<1> QED
  BY <1>3, <1>4, <1>5 DEF Driver!TInv

\* The thread that takes a step of its run(), and the place it comes to.
LEMMA OwnStep ==
    ASSUME IInv, Driver!KindsAssumption, NEW t \in Threads,
           stage \in [Threads -> Driver!Stages], Driver!RunIs(t),
           Driver!RunStep(t) \/ Driver!TimedOut(t)
    PROVE  /\ stage' \in [Threads -> Driver!Stages]
           /\ \A u \in Threads \ {t} : stage'[u] = stage[u]
           /\ t \in GetThreads => stage'[t] # "nullPointer" \/ stage[t] = "nullPointer"
           /\ Driver!RunIs(t)'
<1>1. CASE Driver!Start(t)
  <2>1. Acquire(t, Driver!CallOf(t)) /\ stage[t] = "start"
        /\ stage' = [stage EXCEPT ![t] = "acquiring"]
    BY <1>1, SameLock, Zenon DEF Driver!Start
  <2>2. PICK c : c = Driver!CallOf(t)
    OBVIOUS
  <2>3. pc'[t] = "shouldAcquire" /\ call'[t] = c
    BY <2>1, <2>2 DEF Acquire, Goto, IInv, TypeOK
  <2>4. stage'[t] = "acquiring" /\ stage' \in [Threads -> Driver!Stages]
    BY <2>1 DEF Driver!Stages
  <2>5. Driver!CallOf(t)' = Driver!CallOf(t)
    BY Zenon DEF Driver!CallOf
  <2>6. Driver!RunIs(t)'
    BY <2>2, <2>3, <2>4, <2>5 DEF Driver!RunIs
  <2> QED
    BY <2>1, <2>4, <2>6
<1>2. CASE Driver!Acquiring(t) \/ Driver!TimedOut(t)
  <2>1. /\ Step(t) \/ Cancel(t)
        /\ stage[t] = "acquiring"
        /\ stage' = IF pc'[t] = "idle" THEN [stage EXCEPT ![t] = "sleeping"] ELSE stage
    BY <1>2, SameLock, Zenon DEF Driver!Acquiring, Driver!TimedOut, Driver!After
  <2>2. /\ call[t] = Driver!CallOf(t)
        /\ pc[t] \in {"shouldAcquire", "getState", "casState", "queued", "setHead", "wake"}
        /\ pc[t] = "wake" => counter[t] = 1
    BY <2>1 DEF Driver!RunIs
  <2>3. /\ call'[t] = call[t]
        /\ pc'[t] \in {"shouldAcquire", "getState", "casState", "queued", "setHead",
                       "wake", "idle"}
        /\ pc'[t] = "wake" => counter'[t] = 1
        /\ pc'[t] = "idle" => /\ counter'[t] \in {0, 1}
                              /\ call[t] = "lock" => counter'[t] = 1
    BY <2>1, <2>2, StepOfCall, Zenon
  <2>4. Driver!CallOf(t)' = Driver!CallOf(t) /\ (t \in GetThreads => call[t] = "lock")
    BY <2>2, CallOfKind, Zenon DEF Driver!CallOf
  <2>5. CASE pc'[t] = "idle"
    <3>1. stage'[t] = "sleeping" /\ stage' \in [Threads -> Driver!Stages]
          /\ \A u \in Threads \ {t} : stage'[u] = stage[u]
      BY <2>1, <2>5 DEF Driver!Stages
    <3>2. Driver!RunIs(t)'
      BY <2>3, <2>4, <2>5, <3>1 DEF Driver!RunIs
    <3> QED
      BY <3>1, <3>2
  <2>6. CASE pc'[t] # "idle"
    <3>1. stage' = stage
      BY <2>1, <2>6
    <3>2. Driver!RunIs(t)'
      BY <2>1, <2>2, <2>3, <2>4, <2>6, <3>1 DEF Driver!RunIs
    <3> QED
      BY <3>1, <3>2
  <2> QED
    BY <2>5, <2>6
<1>3. CASE Driver!Finally(t)
  <2>1. Unlock(t) /\ stage[t] = "sleeping" /\ counter[t] > 0
        /\ stage' = [stage EXCEPT ![t] = "unlocking"]
    BY <1>3, SameLock, Zenon DEF Driver!Finally
  <2>2. counter[t] = 1
    BY <2>1 DEF Driver!RunIs
  <2>3. ExitOuter(t)
    BY <2>1, <2>2 DEF Unlock, ExitInner
  <2>4. counter'[t] = 0 /\ pc'[t] = "releaseGet"
    BY <2>3 DEF ExitOuter, Goto, IInv, TypeOK
  <2>5. stage'[t] = "unlocking" /\ stage' \in [Threads -> Driver!Stages]
        /\ \A u \in Threads \ {t} : stage'[u] = stage[u]
    BY <2>1 DEF Driver!Stages
  <2>6. Driver!RunIs(t)'
    BY <2>4, <2>5 DEF Driver!RunIs
  <2> QED
    BY <2>5, <2>6
<1>4. CASE Driver!FinallyWithoutLock(t)
  <2>1. /\ stage[t] = "sleeping" /\ counter[t] = 0 /\ counter' = counter /\ pc' = pc
        /\ stage' = [stage EXCEPT ![t] = "nullPointer"]
    BY <1>4 DEF Driver!FinallyWithoutLock, Driver!vars
  <2>2. t \notin GetThreads /\ pc[t] = "idle"
    BY <2>1 DEF Driver!RunIs
  <2>3. stage'[t] = "nullPointer" /\ stage' \in [Threads -> Driver!Stages]
        /\ \A u \in Threads \ {t} : stage'[u] = stage[u]
    BY <2>1 DEF Driver!Stages
  <2>4. Driver!RunIs(t)'
    BY <2>1, <2>2, <2>3 DEF Driver!RunIs
  <2> QED
    BY <2>2, <2>3, <2>4
<1>5. CASE Driver!Unlocking(t)
  <2>1. /\ Step(t) /\ stage[t] = "unlocking"
        /\ stage' = IF pc'[t] = "idle" THEN [stage EXCEPT ![t] = "done"] ELSE stage
    BY <1>5, SameLock, Zenon DEF Driver!Unlocking, Driver!After
  <2>2. counter[t] = 0 /\ pc[t] \in {"releaseGet", "releaseCas", "wake"}
    BY <2>1 DEF Driver!RunIs
  <2>3. counter'[t] = 0 /\ pc'[t] \in {"releaseGet", "releaseCas", "wake", "idle"}
    BY <2>1, <2>2, StepOfUnlock
  <2>4. CASE pc'[t] = "idle"
    <3>1. stage'[t] = "done" /\ stage' \in [Threads -> Driver!Stages]
          /\ \A u \in Threads \ {t} : stage'[u] = stage[u]
      BY <2>1, <2>4 DEF Driver!Stages
    <3>2. Driver!RunIs(t)'
      BY <2>3, <2>4, <3>1 DEF Driver!RunIs
    <3> QED
      BY <3>1, <3>2
  <2>5. CASE pc'[t] # "idle"
    <3>1. stage' = stage
      BY <2>1, <2>5
    <3>2. Driver!RunIs(t)'
      BY <2>1, <2>3, <2>5, <3>1 DEF Driver!RunIs
    <3> QED
      BY <3>1, <3>2
  <2> QED
    BY <2>4, <2>5
<1> QED
  BY <1>1, <1>2, <1>3, <1>4, <1>5, Zenon DEF Driver!RunStep

\* The other threads are where they were, in run() and in the lock.
LEMMA OthersAreThere ==
    ASSUME IInv, Driver!KindsAssumption, NEW t \in Threads, NEW u \in Threads \ {t},
           stage'[u] = stage[u], Driver!RunIs(u),
           Driver!RunStep(t) \/ Driver!TimedOut(t)
    PROVE  Driver!RunIs(u)'
<1>1. pc'[u] = pc[u] /\ counter'[u] = counter[u] /\ call'[u] = call[u]
  <2>1. CASE Driver!FinallyWithoutLock(t)
    BY <2>1 DEF Driver!FinallyWithoutLock, Driver!vars
  <2>2. CASE ~Driver!FinallyWithoutLock(t)
    <3>1. Step(t) \/ Cancel(t) \/ Unlock(t) \/ Acquire(t, Driver!CallOf(t))
      BY <2>2, SameLock, Zenon
         DEF Driver!RunStep, Driver!Start, Driver!Acquiring, Driver!Finally,
             Driver!Unlocking, Driver!TimedOut
    <3>2. Driver!CallOf(t) \in Calls
      BY CallOfKind
    <3> QED
      BY <3>1, <3>2, OthersStay, Zenon
  <2> QED
    BY <2>1, <2>2
<1>2. Driver!CallOf(u)' = Driver!CallOf(u)
  BY Zenon DEF Driver!CallOf
<1> QED
  BY <1>1, <1>2 DEF Driver!RunIs

LEMMA DriverStepTInv ==
    ASSUME Driver!KindsAssumption, IInv, Driver!TInv, [Driver!TNext]_(Driver!tvars)
    PROVE  Driver!TInv'
<1>1. stage \in [Threads -> Driver!Stages] /\ \A t \in Threads : Driver!RunIs(t)
  BY Zenon DEF Driver!TInv
<1>2. CASE UNCHANGED Driver!tvars
  <2>1. /\ pc' = pc /\ counter' = counter /\ call' = call /\ stage' = stage
    BY <1>2 DEF Driver!tvars
  <2>2. \A t \in Threads : Driver!RunIs(t)'
    <3> SUFFICES ASSUME NEW t \in Threads PROVE Driver!RunIs(t)'
      OBVIOUS
    <3>1. Driver!CallOf(t)' = Driver!CallOf(t) /\ Driver!RunIs(t)
      BY <1>1, Zenon DEF Driver!CallOf
    <3> QED
      BY <2>1, <3>1 DEF Driver!RunIs
  <2> QED
    BY <1>1, <2>1, <2>2 DEF Driver!TInv, Driver!Stages
<1>3. ASSUME NEW t \in Threads, Driver!RunStep(t) \/ Driver!TimedOut(t)
      PROVE  Driver!TInv'
  <2>1. /\ stage' \in [Threads -> Driver!Stages]
        /\ \A u \in Threads \ {t} : stage'[u] = stage[u]
        /\ t \in GetThreads => stage'[t] # "nullPointer" \/ stage[t] = "nullPointer"
        /\ Driver!RunIs(t)'
    BY <1>1, <1>3, OwnStep, Zenon
  <2>2. \A u \in Threads \ {t} : Driver!RunIs(u)'
    BY <1>1, <1>3, <2>1, OthersAreThere, Zenon
  <2>3. \A u \in Threads : Driver!RunIs(u)'
    BY <2>1, <2>2, Zenon
  <2>4. \A u \in GetThreads : stage'[u] # "nullPointer"
    BY <2>1 DEF Driver!TInv, Driver!KindsAssumption
  <2> QED
    BY <2>1, <2>3, <2>4, Zenon DEF Driver!TInv, Driver!Stages
<1> QED
  BY <1>2, <1>3, Zenon DEF Driver!TNext

\* When the threads of TestTwinsLock have ended, every permit is back, and none
\* that called lock() has died in the finally block.
THEOREM DriverKeepsNothing == Driver!KindsAssumption => (Driver!TSpec => []Driver!NothingIsKept)
<1> SUFFICES ASSUME Driver!KindsAssumption PROVE Driver!TSpec => []Driver!NothingIsKept
  OBVIOUS
<1>1. IInv /\ Driver!TInv => Driver!NothingIsKept
  <2> SUFFICES ASSUME IInv, Driver!TInv, \A t \in Threads : Driver!Ended(t)
               PROVE  state = Count
    BY DEF Driver!TInv, Driver!NothingIsKept
  <2>1. ASSUME NEW t \in Threads PROVE counter[t] = 0 /\ pc[t] = "idle"
    <3>1. Driver!RunIs(t) /\ Driver!Ended(t)
      BY Zenon DEF Driver!TInv
    <3> QED
      BY <3>1 DEF Driver!RunIs, Driver!Ended
  <2>2. Occupying = {}
    BY <2>1 DEF Occupying
  <2>3. Cardinality(Occupying) = 0
    BY <2>2, FS_EmptySet
  <2> QED
    BY <2>3, CountAssumption DEF IInv, TypeOK, PermitConservation
<1>2. Driver!TInit => IInv /\ Driver!TInv
  BY SameLock, InitIInv, DriverInit, Zenon DEF Driver!TInit
<1>3. IInv /\ Driver!TInv /\ [Driver!TNext]_(Driver!tvars) => (IInv /\ Driver!TInv)'
  BY DriverStep, StepIInv, DriverStepTInv, Zenon
<1> QED
  BY <1>1, <1>2, <1>3, PTL DEF Driver!TSpec
==============================================================================
