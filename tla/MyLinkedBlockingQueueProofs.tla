-------------------- MODULE MyLinkedBlockingQueueProofs --------------------
(***************************************************************************)
(* Proofs about MyLinkedBlockingQueue for every queue size, every set of   *)
(* threads and elements, with and without spurious wake-ups.               *)
(***************************************************************************)
EXTENDS MyLinkedBlockingQueue, SequenceTheorems, FiniteSetTheorems, TLAPS

-----------------------------------------------------------------------------
(* Bounded sets of indices. *)

\* A set of array indices that is not empty has a least member: among the
\* sets of members below a member, one has no proper subset.
LEMMA LeastIndex ==
    ASSUME NEW n \in Nat, NEW T \in SUBSET (0 .. n), T # {}
    PROVE  \E i \in T : \A j \in T : i <= j
<1> DEFINE Below(i) == {j \in T : j < i}
           sets == {Below(i) : i \in T}
<1>1. sets \subseteq FiniteSubsetsOf(0 .. n)
  <2>1. 0 \in Int /\ n \in Int
    OBVIOUS
  <2>2. IsFiniteSet(0 .. n)
    BY <2>1, FS_Interval
  <2>3. FiniteSubsetsOf(0 .. n) = SUBSET (0 .. n)
    <3>1. \A U \in SUBSET (0 .. n) : IsFiniteSet(U)
      BY <2>2, FS_Subset, Zenon
    <3> QED
      BY <3>1, Zenon DEF FiniteSubsetsOf
  <2>4. \A i \in T : Below(i) \in SUBSET (0 .. n)
    OBVIOUS
  <2> HIDE DEF Below
  <2>5. \A i \in T : Below(i) \in FiniteSubsetsOf(0 .. n)
    BY <2>3, <2>4, Zenon
  <2> QED
    BY <2>5, Zenon
<1>2. sets # {}
  OBVIOUS
<1>3. PICK s \in sets : \A r \in sets : <<r, s>> \notin StrictSubsetOrdering(0 .. n)
  <2>1. IsWellFoundedOn(StrictSubsetOrdering(0 .. n), FiniteSubsetsOf(0 .. n))
    BY FS_StrictSubsetOrderingWellFounded
  <2> HIDE DEF sets
  <2> QED
    BY <1>1, <1>2, <2>1, WFMin, Zenon
<1>4. PICK i \in T : s = Below(i)
  OBVIOUS
<1>5. ASSUME NEW j \in T, j < i
      PROVE  FALSE
  <2>1. i \in Int /\ j \in Int /\ ~(j < j) /\ \A k \in T : k \in Int
    OBVIOUS
  <2>2. \A k \in T : k < j => k < i
    BY <1>5, <2>1
  <2>3. Below(j) \subseteq Below(i) /\ j \in Below(i) /\ j \notin Below(j)
    BY <1>5, <2>1, <2>2, Zenon
  <2>4. <<Below(j), Below(i)>> \in StrictSubsetOrdering(0 .. n)
    BY <2>3, Zenon DEF StrictSubsetOrdering
  <2> QED
    BY <1>3, <1>4, <2>4
<1> QED
  BY <1>5

\* It has a greatest member too: count down from n.
LEMMA GreatestIndex ==
    ASSUME NEW n \in Nat, NEW T \in SUBSET (0 .. n), T # {}
    PROVE  \E i \in T : \A j \in T : j <= i
<1> DEFINE D == {n - i : i \in T}
<1>1. D \in SUBSET (0 .. n) /\ D # {}
  OBVIOUS
<1>2. PICK d \in D : \A j \in D : d <= j
  <2> HIDE DEF D
  <2> QED
    BY <1>1, LeastIndex
<1>3. PICK i \in T : d = n - i
  OBVIOUS
<1>4. ASSUME NEW j \in T
      PROVE  j <= i
  <2>1. n - j \in D
    OBVIOUS
  <2>2. n - i <= n - j
    BY <1>2, <1>3, <2>1
  <2> QED
    BY <2>2
<1> QED
  BY <1>4

-----------------------------------------------------------------------------
(* The window of elements between two indices. *)

Values == Elements \cup {Null}

WindowOf(stored, first, next) ==
    [i \in 1 .. next - first |-> stored[first + i - 1]]

\* A window is a sequence, as long as the indices are apart.
LEMMA WindowIsSeq ==
    ASSUME NEW stored \in [Slots -> Values],
           NEW first \in 0 .. QueueSize, NEW next \in first .. QueueSize
    PROVE  /\ WindowOf(stored, first, next) \in Seq(Values)
           /\ Len(WindowOf(stored, first, next)) = next - first
           /\ \A i \in 1 .. next - first :
                 WindowOf(stored, first, next)[i] = stored[first + i - 1]
<1> DEFINE w == WindowOf(stored, first, next)
<1>1. QueueSize \in Nat /\ first \in Nat /\ next \in Nat /\ next - first \in Nat
  BY QueueSizeAssumption
<1>2. \A i \in 1 .. next - first : first + i - 1 \in Slots
  BY <1>1 DEF Slots
<1>3. \A i \in 1 .. next - first : stored[first + i - 1] \in Values
  BY <1>2
<1>4. w \in [1 .. next - first -> Values]
  BY <1>3 DEF WindowOf
<1>5. \A i \in 1 .. next - first : w[i] = stored[first + i - 1]
  BY DEF WindowOf
<1> HIDE DEF w
<1>6. w \in Seq(Values) /\ Len(w) = next - first
  BY <1>1, <1>4
<1> QED
  BY <1>5, <1>6 DEF w

\* A store at next, with next then one more, appends to the window.
LEMMA StoreAppends ==
    ASSUME NEW stored \in [Slots -> Values],
           NEW first \in 0 .. QueueSize, NEW next \in first .. QueueSize - 1,
           NEW e \in Values
    PROVE  WindowOf([stored EXCEPT ![next] = e], first, next + 1)
             = Append(WindowOf(stored, first, next), e)
<1> DEFINE new == [stored EXCEPT ![next] = e]
           w == WindowOf(stored, first, next)
           v == WindowOf(new, first, next + 1)
           a == Append(w, e)
<1>1. QueueSize \in Nat /\ first \in Nat /\ next \in Nat /\ next \in Slots
  BY QueueSizeAssumption DEF Slots
<1>2. /\ new \in [Slots -> Values]
      /\ new[next] = e
      /\ \A i \in Slots : i # next => new[i] = stored[i]
  BY <1>1
<1> HIDE DEF new
<1>3. /\ w \in Seq(Values)
      /\ Len(w) = next - first
      /\ \A i \in 1 .. next - first : w[i] = stored[first + i - 1]
  <2>1. next \in first .. QueueSize
    BY <1>1
  <2> QED
    BY <2>1, WindowIsSeq
<1>4. /\ v \in Seq(Values)
      /\ Len(v) = next - first + 1
      /\ \A i \in 1 .. next - first + 1 : v[i] = new[first + i - 1]
  <2> DEFINE m == next + 1
  <2>1. m \in first .. QueueSize /\ m - first = next - first + 1
    BY <1>1
  <2> HIDE DEF m
  <2>2. /\ WindowOf(new, first, m) \in Seq(Values)
        /\ Len(WindowOf(new, first, m)) = m - first
        /\ \A i \in 1 .. m - first : WindowOf(new, first, m)[i] = new[first + i - 1]
    BY <1>2, <2>1, WindowIsSeq
  <2>3. v = WindowOf(new, first, m)
    BY DEF m
  <2> HIDE DEF v
  <2> QED
    BY <2>1, <2>2, <2>3
<1> HIDE DEF w, v
<1>5. /\ a \in Seq(Values)
      /\ Len(a) = Len(w) + 1
      /\ \A i \in 1 .. Len(w) : a[i] = w[i]
      /\ a[Len(w) + 1] = e
  BY <1>3, AppendProperties
<1> HIDE DEF a
<1>6. Len(v) = Len(a)
  BY <1>3, <1>4, <1>5
<1>7. ASSUME NEW i \in 1 .. Len(v)
      PROVE  v[i] = a[i]
  <2>1. CASE i = next - first + 1
    BY <1>1, <1>2, <1>3, <1>4, <1>5, <2>1
  <2>2. CASE i # next - first + 1
    <3>1. i \in 1 .. next - first /\ first + i - 1 \in Slots /\ first + i - 1 # next
      BY <1>1, <1>4, <2>2 DEF Slots
    <3>2. v[i] = stored[first + i - 1]
      BY <1>2, <1>4, <3>1
    <3> QED
      BY <1>3, <1>5, <3>1, <3>2
  <2> QED
    BY <2>1, <2>2
<1>8. v = a
  BY <1>4, <1>5, <1>6, <1>7, SeqEqual
<1> QED
  BY <1>8 DEF v, w, a, new

\* With first one more, the window loses its head.
LEMMA AdvanceTakes ==
    ASSUME NEW stored \in [Slots -> Values],
           NEW first \in 0 .. QueueSize, NEW next \in first .. QueueSize,
           first # next
    PROVE  /\ WindowOf(stored, first, next) # <<>>
           /\ WindowOf(stored, first + 1, next) = Tail(WindowOf(stored, first, next))
<1> DEFINE w == WindowOf(stored, first, next)
           v == WindowOf(stored, first + 1, next)
           r == Tail(w)
<1>1. QueueSize \in Nat /\ first \in Nat /\ next \in Nat /\ first < next
  BY QueueSizeAssumption
<1>2. /\ w \in Seq(Values)
      /\ Len(w) = next - first
      /\ \A i \in 1 .. next - first : w[i] = stored[first + i - 1]
  BY WindowIsSeq
<1>3. /\ v \in Seq(Values)
      /\ Len(v) = next - (first + 1)
      /\ \A i \in 1 .. next - (first + 1) : v[i] = stored[first + 1 + i - 1]
  <2>1. first + 1 \in 0 .. QueueSize /\ next \in first + 1 .. QueueSize
    BY <1>1
  <2> QED
    BY <2>1, WindowIsSeq
<1> HIDE DEF w, v
<1>4. w # <<>>
  BY <1>1, <1>2, EmptySeq
<1>5. /\ r \in Seq(Values)
      /\ Len(r) = Len(w) - 1
      /\ \A i \in 1 .. Len(r) : r[i] = w[i + 1]
  BY <1>2, <1>4, HeadTailProperties
<1> HIDE DEF r
<1>6. Len(v) = Len(r)
  BY <1>1, <1>2, <1>3, <1>5
<1>7. ASSUME NEW i \in 1 .. Len(v)
      PROVE  v[i] = r[i]
  <2>1. /\ i + 1 \in 1 .. next - first
        /\ first + 1 + i - 1 = first + (i + 1) - 1
    BY <1>1, <1>3
  <2>2. w[i + 1] = stored[first + (i + 1) - 1]
    BY <1>2, <2>1
  <2> QED
    BY <1>3, <1>5, <1>6, <2>1, <2>2
<1>8. v = r
  BY <1>3, <1>5, <1>6, <1>7, SeqEqual
<1> QED
  BY <1>4, <1>8 DEF v, r, w

\* Moving the slots behind the slot last down by one removes one member.
LEMMA ShiftRemoves ==
    ASSUME NEW stored \in [Slots -> Values],
           NEW first \in 0 .. QueueSize, NEW next \in first .. QueueSize - 1,
           NEW last \in first .. next - 1,
           NEW new \in [Slots -> Values],
           \A i \in Slots : new[i] = IF i \in last .. next - 1
                                     THEN stored[i + 1] ELSE stored[i]
    PROVE  /\ last - first + 1 \in 1 .. Len(WindowOf(stored, first, next))
           /\ WindowOf(new, first, next - 1)
                = Fifo!RemoveAt(WindowOf(stored, first, next), last - first + 1)
<1> DEFINE w == WindowOf(stored, first, next)
           v == WindowOf(new, first, next - 1)
           k == last - first + 1
           front == SubSeq(w, 1, k - 1)
           back == SubSeq(w, k + 1, Len(w))
           r == front \o back
<1>1. /\ QueueSize \in Nat /\ first \in Nat /\ next \in Nat /\ last \in Nat
      /\ first <= last /\ last < next /\ next < QueueSize
      /\ k \in 1 .. next - first
      /\ first + k - 1 = last
  BY QueueSizeAssumption
<1>2. /\ w \in Seq(Values)
      /\ Len(w) = next - first
      /\ \A i \in 1 .. next - first : w[i] = stored[first + i - 1]
  <2>1. next \in first .. QueueSize
    BY <1>1
  <2> QED
    BY <2>1, WindowIsSeq
<1>3. /\ v \in Seq(Values)
      /\ Len(v) = next - 1 - first
      /\ \A i \in 1 .. next - 1 - first : v[i] = new[first + i - 1]
  <2>1. next - 1 \in first .. QueueSize
    BY <1>1
  <2> QED
    BY <2>1, WindowIsSeq
<1> HIDE DEF w, v, k
<1>4. \A i \in 1 .. Len(w) : w[i] \in Values
  BY <1>2, ElementOfSeq
<1>5. /\ front \in Seq(Values)
      /\ Len(front) = k - 1
      /\ \A i \in 1 .. k - 1 : front[i] = w[i]
  BY <1>1, <1>2, <1>4, SubSeqProperties
<1>6. /\ back \in Seq(Values)
      /\ Len(back) = Len(w) - k
      /\ \A i \in 1 .. Len(w) - k : back[i] = w[k + i]
  BY <1>1, <1>2, <1>4, SubSeqProperties
<1>7. r = Fifo!RemoveAt(w, k)
  BY DEF Fifo!RemoveAt
<1> HIDE DEF front, back
<1>8. /\ r \in Seq(Values)
      /\ Len(r) = Len(front) + Len(back)
      /\ \A i \in 1 .. Len(front) + Len(back) :
            r[i] = IF i <= Len(front) THEN front[i] ELSE back[i - Len(front)]
  BY <1>5, <1>6, ConcatProperties
<1> HIDE DEF r
<1>9. Len(v) = Len(r)
  BY <1>1, <1>2, <1>3, <1>5, <1>6, <1>8
<1>10. ASSUME NEW i \in 1 .. Len(v)
       PROVE  v[i] = r[i]
  <2>1. /\ i \in 1 .. Len(front) + Len(back)
        /\ i \in 1 .. next - first
        /\ i + 1 \in 1 .. next - first
        /\ first + i - 1 \in Slots
        /\ first + i - 1 + 1 = first + (i + 1) - 1
    BY <1>1, <1>2, <1>3, <1>8, <1>9 DEF Slots
  <2>2. v[i] = new[first + i - 1]
    BY <1>3
  <2>3. w[i] = stored[first + i - 1] /\ w[i + 1] = stored[first + (i + 1) - 1]
    BY <1>2, <2>1
  <2>4. CASE i < k
    <3>1. first + i - 1 \notin last .. next - 1
      BY <1>1, <2>1, <2>4
    <3>2. v[i] = w[i]
      BY <2>1, <2>2, <2>3, <3>1
    <3>3. i <= Len(front) /\ i \in 1 .. k - 1
      BY <1>1, <1>5, <2>1, <2>4
    <3> QED
      BY <1>5, <1>8, <2>1, <3>2, <3>3
  <2>5. CASE ~(i < k)
    <3>1. first + i - 1 \in last .. next - 1
      BY <1>1, <1>3, <2>1, <2>5
    <3>2. v[i] = w[i + 1]
      BY <2>1, <2>2, <2>3, <3>1
    <3>3. /\ ~(i <= Len(front))
          /\ i - Len(front) \in 1 .. Len(w) - k
          /\ k + (i - Len(front)) = i + 1
      BY <1>1, <1>2, <1>5, <1>6, <2>1, <2>5
    <3>4. r[i] = back[i - Len(front)]
      BY <1>8, <2>1, <3>3
    <3> QED
      BY <1>6, <3>2, <3>3, <3>4
  <2> QED
    BY <2>4, <2>5
<1>11. v = r
  BY <1>3, <1>8, <1>9, <1>10, SeqEqual
<1>12. k \in 1 .. Len(w)
  BY <1>1, <1>2
<1> QED
  BY <1>7, <1>11, <1>12 DEF v, w, k

-----------------------------------------------------------------------------
(* The invariant. *)

\* A store is of an element, into a slot of the array.
LEMMA AddKeeps ==
    ASSUME IInv, NEW e \in Elements, TryAdd(e)
    PROVE  /\ elements' \in [Slots -> Values]
           /\ insertIndex' \in startIndex .. QueueSize
           /\ \A i \in 0 .. insertIndex' - 1 : elements'[i] # Null
<1>1. /\ QueueSize \in Nat /\ startIndex \in Nat /\ insertIndex \in Nat
      /\ startIndex <= insertIndex /\ insertIndex <= QueueSize
      /\ elements \in [Slots -> Values]
      /\ e \in Values /\ e # Null
      /\ \A i \in 0 .. insertIndex - 1 : elements[i] # Null
  BY QueueSizeAssumption, NullAssumption DEF IInv, TypeOK, NoHole, Values
<1>2. CASE HasPosition /\ AddElement(e)
  <2> DEFINE stored == [elements EXCEPT ![insertIndex] = e]
  <2>1. /\ insertIndex < QueueSize /\ insertIndex \in Slots
        /\ elements' = CleanArray(stored) /\ insertIndex' = insertIndex + 1
    BY <1>1, <1>2 DEF HasPosition, AddElement, Slots
  <2>2. /\ stored \in [Slots -> Values]
        /\ \A i \in 0 .. insertIndex : stored[i] # Null
    BY <1>1, <2>1 DEF Slots
  <2> HIDE DEF stored
  <2>3. CASE insertIndex + 1 < QueueSize
    <3>1. elements' = stored
      BY <2>1, <2>3 DEF CleanArray
    <3> QED
      BY <1>1, <2>1, <2>2, <3>1
  <2>4. CASE ~(insertIndex + 1 < QueueSize)
    <3>1. elements' = [i \in Slots |-> IF i < QueueSize - startIndex
                                       THEN stored[startIndex + i] ELSE stored[i]]
      BY <2>1, <2>4 DEF CleanArray
    <3>2. insertIndex + 1 = QueueSize
      BY <1>1, <2>1, <2>4
    <3>3. \A i \in Slots :
            /\ i < QueueSize - startIndex => startIndex + i \in 0 .. insertIndex
            /\ i \in 0 .. insertIndex
            /\ 0 .. insertIndex = Slots
      BY <1>1, <3>2 DEF Slots
    <3>4. \A i \in Slots : elements'[i] \in Values /\ elements'[i] # Null
      BY <2>2, <3>1, <3>3
    <3>5. elements' \in [Slots -> Values]
      BY <3>1, <3>4
    <3> QED
      BY <1>1, <2>1, <3>2, <3>4, <3>5 DEF Slots
  <2> QED
    BY <2>3, <2>4
<1>3. CASE UNCHANGED <<elements, insertIndex>>
  BY <1>1, <1>3
<1> QED
  BY <1>2, <1>3 DEF TryAdd

\* remove(o) finds the index it looks for.
LEMMA LastIndexFound ==
    ASSUME TypeOK, NEW o, \E i \in startIndex .. insertIndex - 1 : elements[i] = o
    PROVE  /\ LastIndexOf(o) \in startIndex .. insertIndex - 1
           /\ elements[LastIndexOf(o)] = o
<1> DEFINE T == {i \in startIndex .. insertIndex - 1 : elements[i] = o}
<1>1. QueueSize \in Nat /\ startIndex \in Nat /\ insertIndex \in startIndex .. QueueSize
  BY QueueSizeAssumption DEF TypeOK
<1>2. T \in SUBSET (0 .. QueueSize) /\ T # {}
  BY <1>1
<1>3. PICK i \in T : \A j \in T : j <= i
  <2> HIDE DEF T
  <2> QED
    BY <1>1, <1>2, GreatestIndex
<1>4. \A j \in i + 1 .. insertIndex - 1 : elements[j] # o
  BY <1>1, <1>3
<1>5. \E k \in startIndex .. insertIndex - 1 :
        elements[k] = o /\ \A j \in k + 1 .. insertIndex - 1 : elements[j] # o
  BY <1>3, <1>4
<1> QED
  BY <1>5 DEF LastIndexOf

\* The invariant holds at first and every step keeps it.
LEMMA InitIInv == Init => IInv
<1>1. QueueSize \in Nat \ {0}
  BY QueueSizeAssumption
<1> QED
  BY <1>1 DEF Init, IInv, TypeOK, NoHole, ArgInv, Slots

LEMMA StepIInv == IInv /\ [Next]_vars => IInv'
<1> SUFFICES ASSUME IInv, [Next]_vars
             PROVE  IInv'
  OBVIOUS
<1> USE DEF Values
<1>1. /\ QueueSize \in Nat /\ startIndex \in 0 .. QueueSize
      /\ insertIndex \in startIndex .. QueueSize
      /\ elements \in [Slots -> Values]
  BY QueueSizeAssumption DEF IInv, TypeOK
<1>2. ASSUME NEW t \in Threads, NEW e \in Elements, Offer(t, e)
      PROVE  IInv'
  <2>1. TryAdd(e) /\ UNCHANGED <<startIndex, pc, arg>>
    BY <1>2 DEF Offer
  <2> QED
    BY <2>1, AddKeeps DEF IInv, TypeOK, NoHole, ArgInv
<1>3. ASSUME NEW t \in Threads, NEW e \in Elements, AwaitFull(t, e)
      PROVE  IInv'
  BY <1>3 DEF AwaitFull, IInv, TypeOK, NoHole, ArgInv
<1>4. ASSUME NEW t \in Threads, NEW e \in Elements, RemoveObject(t, e)
      PROVE  IInv'
  <2>1. /\ insertIndex < QueueSize
        /\ insertIndex' = insertIndex - 1
        /\ elements' = [i \in Slots |->
                          IF i \in LastIndexOf(e) .. insertIndex - 1
                          THEN elements[i + 1] ELSE elements[i]]
        /\ UNCHANGED <<startIndex, pc, arg>>
    BY <1>4 DEF RemoveObject
  <2>2. LastIndexOf(e) \in startIndex .. insertIndex - 1
    BY <1>4, LastIndexFound DEF RemoveObject, IInv
  <2>3. insertIndex' \in startIndex .. QueueSize
    BY <1>1, <2>1, <2>2
  <2>4. \A i \in LastIndexOf(e) .. insertIndex - 1 : i + 1 \in Slots
    BY <1>1, <2>1, <2>2 DEF Slots
  <2>5. elements' \in [Slots -> Values]
    BY <1>1, <2>1, <2>4
  <2>6. \A i \in 0 .. insertIndex' - 1 : elements'[i] # Null
    <3>1. \A i \in 0 .. insertIndex' - 1 :
            i \in Slots /\ i \in 0 .. insertIndex - 1 /\ i + 1 \in 0 .. insertIndex - 1
      BY <1>1, <2>1, <2>2 DEF Slots
    <3>2. \A i \in 0 .. insertIndex - 1 : elements[i] # Null
      BY DEF IInv, NoHole
    <3> QED
      BY <2>1, <3>1, <3>2
  <2> QED
    BY <2>1, <2>3, <2>5, <2>6 DEF IInv, TypeOK, NoHole, ArgInv
<1>5. ASSUME TryGet
      PROVE  startIndex' \in 0 .. QueueSize /\ insertIndex \in startIndex' .. QueueSize
  BY <1>1, <1>5 DEF TryGet, IsEmpty
<1>6. ASSUME NEW t \in Threads, Poll(t)
      PROVE  IInv'
  <2>1. TryGet /\ UNCHANGED <<elements, insertIndex, pc, arg>>
    BY <1>6 DEF Poll
  <2> QED
    BY <1>5, <2>1 DEF IInv, TypeOK, NoHole, ArgInv
<1>7. ASSUME NEW t \in Threads, AwaitEmpty(t)
      PROVE  IInv'
  BY <1>7 DEF AwaitEmpty, IInv, TypeOK, NoHole, ArgInv
<1>8. ASSUME NEW t \in Threads, DrainTo(t)
      PROVE  IInv'
  <2>1. startIndex' = insertIndex /\ UNCHANGED <<elements, insertIndex, pc, arg>>
    BY <1>8 DEF DrainTo
  <2>2. startIndex' \in 0 .. QueueSize /\ insertIndex \in startIndex' .. QueueSize
    BY <1>1, <2>1
  <2> QED
    BY <2>1, <2>2 DEF IInv, TypeOK, NoHole, ArgInv
<1>9. ASSUME NEW t \in Threads, GiveUp(t)
      PROVE  IInv'
  BY <1>9 DEF GiveUp, IInv, TypeOK, NoHole, ArgInv
<1>10. ASSUME NEW t \in Threads, WakeFull(t)
       PROVE  IInv'
  <2>1. /\ TryAdd(arg[t]) /\ arg[t] \in Elements /\ UNCHANGED startIndex
        /\ pc' = [pc EXCEPT ![t] = "running"] /\ arg' = [arg EXCEPT ![t] = Null]
    BY <1>10 DEF WakeFull, IInv, ArgInv
  <2>2. /\ elements' \in [Slots -> Values]
        /\ insertIndex' \in startIndex .. QueueSize
        /\ \A i \in 0 .. insertIndex' - 1 : elements'[i] # Null
    BY <2>1, AddKeeps
  <2>3. ArgInv'
    BY <2>1 DEF IInv, TypeOK, ArgInv
  <2> QED
    BY <2>1, <2>2, <2>3 DEF IInv, TypeOK, NoHole
<1>11. ASSUME NEW t \in Threads, WakeEmpty(t)
       PROVE  IInv'
  <2>1. /\ TryGet /\ UNCHANGED <<elements, insertIndex, arg>>
        /\ pc' = [pc EXCEPT ![t] = "running"]
    BY <1>11 DEF WakeEmpty
  <2> QED
    BY <1>5, <2>1 DEF IInv, TypeOK, NoHole, ArgInv
<1>12. CASE UNCHANGED vars
  BY <1>12 DEF vars, IInv, TypeOK, NoHole, ArgInv
<1> QED
  BY <1>2, <1>3, <1>4, <1>6, <1>7, <1>8, <1>9, <1>10, <1>11, <1>12 DEF Next

LEMMA Invariance == Spec => []IInv
  BY InitIInv, StepIInv, PTL DEF Spec

\* The indices stay in the array and the first does not pass the second,
\* whatever the threads call and however they come back from an await.
THEOREM TypeCorrect == Spec => []TypeOK
<1>1. IInv => TypeOK
  BY DEF IInv
<1> QED
  BY <1>1, Invariance, PTL

\* contains(o) finds whatever is in the queue: the first slot it stops at is
\* not beyond the one that holds o, and no slot up to there is empty.
THEOREM Found == Spec => []EveryElementIsFound
<1>1. ASSUME IInv, NEW i \in 1 .. Len(Window)
      PROVE  Contains(Window[i]) = "yes"
  <2> DEFINE o == Window[i]
             stops == {j \in Slots : elements[j] \in {o, Null}}
             first == CHOOSE j \in stops : \A k \in stops : j <= k
  <2>1. /\ QueueSize \in Nat \ {0} /\ startIndex \in 0 .. QueueSize
        /\ insertIndex \in startIndex .. QueueSize
        /\ elements \in [Slots -> Values]
        /\ \A j \in 0 .. insertIndex - 1 : elements[j] # Null
    BY <1>1, QueueSizeAssumption DEF IInv, TypeOK, NoHole, Values
  <2>2. Window = WindowOf(elements, startIndex, insertIndex)
    BY DEF Window, WindowOf
  <2>3. Len(Window) = insertIndex - startIndex
    BY <2>1, <2>2, WindowIsSeq
  <2>4. o = elements[startIndex + i - 1]
    BY <2>1, <2>2, <2>3, WindowIsSeq
  <2> HIDE DEF o
  <2>5. startIndex + i - 1 \in 0 .. insertIndex - 1 /\ startIndex + i - 1 \in Slots
    BY <2>1, <2>3 DEF Slots
  <2>6. startIndex + i - 1 \in stops
    BY <2>4, <2>5
  <2>7. \E j \in stops : \A k \in stops : j <= k
    <3>1. QueueSize - 1 \in Nat /\ stops \in SUBSET (0 .. QueueSize - 1) /\ stops # {}
      BY <2>1, <2>6 DEF Slots
    <3> HIDE DEF stops
    <3> QED
      BY <3>1, LeastIndex
  <2>8. first \in stops /\ first <= startIndex + i - 1
    <3> HIDE DEF stops
    <3> QED
      BY <2>6, <2>7
  <2> HIDE DEF first
  <2>9. first \in 0 .. insertIndex - 1 /\ elements[first] \in {o, Null}
    BY <2>1, <2>5, <2>8 DEF Slots
  <2>10. elements[first] = o
    BY <2>1, <2>9
  <2>11. Contains(o) = IF elements[first] = o THEN "yes" ELSE "NullPointerException"
    BY <2>6 DEF Contains, first
  <2> QED
    BY <2>10, <2>11 DEF o
<1>2. IInv => EveryElementIsFound
  BY <1>1 DEF EveryElementIsFound, IInv
<1> QED
  BY <1>2, Invariance, PTL

-----------------------------------------------------------------------------
(* What the steps do. *)

\* A queue whose last slot was taken never accepts an element again.
THEOREM StaysClosed == Spec => ClosedForever
<1>1. ASSUME IInv, [Next]_vars, ~HasPosition
      PROVE  insertIndex' = insertIndex
  BY <1>1 DEF Next, vars, Offer, AwaitFull, RemoveObject, Poll, AwaitEmpty,
              DrainTo, GiveUp, WakeFull, WakeEmpty, TryAdd, HasPosition
<1>2. IInv /\ [Next]_vars => [~HasPosition => ~HasPosition']_vars
  BY <1>1 DEF HasPosition
<1> QED
  BY <1>2, Invariance, PTL DEF Spec, ClosedForever

\* offer(e) on a queue that does not compact.
LEMMA AddPuts ==
    ASSUME IInv, NEW e \in Elements, TryAdd(e), UNCHANGED startIndex, ~Compacts
    PROVE  Fifo!Put(e) \/ UNCHANGED Window
<1>1. /\ QueueSize \in Nat /\ startIndex \in 0 .. QueueSize
      /\ insertIndex \in startIndex .. QueueSize
      /\ elements \in [Slots -> Values] /\ e \in Values
  BY QueueSizeAssumption DEF IInv, TypeOK, Values
<1>2. CASE HasPosition /\ AddElement(e)
  <2> DEFINE stored == [elements EXCEPT ![insertIndex] = e]
  <2>1. /\ insertIndex \in startIndex .. QueueSize - 1
        /\ elements' = CleanArray(stored) /\ insertIndex' = insertIndex + 1
    BY <1>1, <1>2 DEF HasPosition, AddElement
  <2>2. insertIndex + 1 < QueueSize \/ startIndex = 0
    BY <1>1, <2>1 DEF Compacts
  <2>3. elements' = stored
    <3>1. stored \in [Slots -> Values]
      BY <1>1
    <3> HIDE DEF stored
    <3>2. CASE insertIndex + 1 < QueueSize
      BY <2>1, <3>2 DEF CleanArray
    <3>3. CASE ~(insertIndex + 1 < QueueSize)
      <4>1. elements' = [i \in Slots |-> IF i < QueueSize - startIndex
                                         THEN stored[startIndex + i] ELSE stored[i]]
        BY <2>1, <3>3 DEF CleanArray
      <4>2. \A i \in Slots : startIndex + i = i
        BY <2>2, <3>3 DEF Slots
      <4>3. elements' = [i \in Slots |-> stored[i]]
        BY <4>1, <4>2
      <4> QED
        BY <3>1, <4>3
    <3> QED
      BY <3>2, <3>3
  <2>4. Window' = WindowOf(stored, startIndex, insertIndex + 1)
    BY <2>1, <2>3 DEF Window, WindowOf
  <2>5. Window = WindowOf(elements, startIndex, insertIndex)
    BY DEF Window, WindowOf
  <2>6. Window' = Append(Window, e)
    BY <1>1, <2>1, <2>4, <2>5, StoreAppends
  <2>7. Len(Window) = insertIndex - startIndex
    BY <1>1, <2>5, WindowIsSeq
  <2>8. Len(Window) < QueueSize
    BY <1>1, <2>1, <2>7
  <2> QED
    BY <2>6, <2>8 DEF Fifo!Put
<1>3. CASE UNCHANGED <<elements, insertIndex>>
  BY <1>3 DEF Window
<1> QED
  BY <1>2, <1>3 DEF TryAdd

\* poll() takes the oldest element.
LEMMA GetTakes ==
    ASSUME IInv, TryGet, UNCHANGED <<elements, insertIndex>>
    PROVE  Fifo!Take \/ UNCHANGED Window
<1>1. CASE ~IsEmpty /\ startIndex' = startIndex + 1
  <2>1. /\ startIndex \in 0 .. QueueSize /\ insertIndex \in startIndex .. QueueSize
        /\ elements \in [Slots -> Values] /\ startIndex # insertIndex
    BY <1>1 DEF IInv, TypeOK, Values, IsEmpty
  <2>2. /\ Window = WindowOf(elements, startIndex, insertIndex)
        /\ Window' = WindowOf(elements, startIndex + 1, insertIndex)
    BY <1>1 DEF Window, WindowOf
  <2> QED
    BY <2>1, <2>2, AdvanceTakes DEF Fifo!Take
<1>2. CASE UNCHANGED startIndex
  BY <1>2 DEF Window
<1> QED
  BY <1>1, <1>2 DEF TryGet

\* remove(o) takes out one element equal to o.
LEMMA RemoveObjectRemoves ==
    ASSUME IInv, NEW t \in Threads, NEW o \in Elements, RemoveObject(t, o)
    PROVE  Fifo!RemoveOne(o)
<1> DEFINE last == LastIndexOf(o)
<1>1. /\ QueueSize \in Nat /\ startIndex \in 0 .. QueueSize
      /\ insertIndex \in startIndex .. QueueSize
      /\ elements \in [Slots -> Values]
  BY QueueSizeAssumption DEF IInv, TypeOK, Values
<1>2. /\ insertIndex < QueueSize
      /\ insertIndex' = insertIndex - 1
      /\ elements' = [i \in Slots |-> IF i \in last .. insertIndex - 1
                                      THEN elements[i + 1] ELSE elements[i]]
      /\ startIndex' = startIndex
  BY DEF RemoveObject
<1>3. last \in startIndex .. insertIndex - 1 /\ elements[last] = o
  BY LastIndexFound DEF RemoveObject, IInv
<1> HIDE DEF last
<1>4. insertIndex \in startIndex .. QueueSize - 1
  BY <1>1, <1>2
<1>5. elements' \in [Slots -> Values]
  <2>1. \A i \in last .. insertIndex - 1 : i + 1 \in Slots
    BY <1>1, <1>3, <1>4 DEF Slots
  <2> QED
    BY <1>1, <1>2, <2>1
<1>6. /\ Window = WindowOf(elements, startIndex, insertIndex)
      /\ Window' = WindowOf(elements', startIndex, insertIndex - 1)
  BY <1>2 DEF Window, WindowOf
<1>7. \A i \in Slots : elements'[i] = IF i \in last .. insertIndex - 1
                                      THEN elements[i + 1] ELSE elements[i]
  BY <1>2
<1>8. /\ last - startIndex + 1 \in 1 .. Len(Window)
      /\ Window[last - startIndex + 1] = o
      /\ Window' = Fifo!RemoveAt(Window, last - startIndex + 1)
  <2>1. PICK new : new = elements'
    OBVIOUS
  <2>2. /\ startIndex \in 0 .. QueueSize /\ last \in startIndex .. insertIndex - 1
        /\ elements \in [Slots -> Values] /\ new \in [Slots -> Values]
        /\ \A i \in Slots : new[i] = IF i \in last .. insertIndex - 1
                                      THEN elements[i + 1] ELSE elements[i]
    BY <1>1, <1>3, <1>5, <1>7, <2>1
  <2>3. /\ last - startIndex + 1 \in 1 .. Len(WindowOf(elements, startIndex, insertIndex))
        /\ WindowOf(elements, startIndex, insertIndex)[last - startIndex + 1]
             = elements[last]
        /\ WindowOf(new, startIndex, insertIndex - 1)
             = Fifo!RemoveAt(WindowOf(elements, startIndex, insertIndex),
                             last - startIndex + 1)
    <3>1. last - startIndex + 1 \in 1 .. Len(WindowOf(elements, startIndex, insertIndex))
      BY <1>4, <2>2, ShiftRemoves
    <3>2. WindowOf(elements, startIndex, insertIndex)[last - startIndex + 1]
             = elements[last]
      <4>1. /\ startIndex + (last - startIndex + 1) - 1 = last
            /\ last - startIndex + 1 \in 1 .. insertIndex - startIndex
        BY <1>1, <1>3
      <4> QED
        BY <1>1, <4>1, WindowIsSeq
    <3>3. WindowOf(new, startIndex, insertIndex - 1)
             = Fifo!RemoveAt(WindowOf(elements, startIndex, insertIndex),
                             last - startIndex + 1)
      BY <1>4, <2>2, ShiftRemoves
    <3> QED
      BY <3>1, <3>2, <3>3
  <2> QED
    BY <1>3, <1>6, <2>1, <2>3
<1> QED
  BY <1>8 DEF Fifo!RemoveOne

\* Every step that does not move the elements away from under the indices is
\* a step of a bounded FIFO queue.
THEOREM StepsOfFifo == Spec => FifoStepUnlessCompacting
<1>1. ASSUME IInv, Next, ~Compacts
      PROVE  Fifo!Next \/ UNCHANGED Window
  <2>1. ASSUME NEW t \in Threads, NEW e \in Elements, Offer(t, e)
        PROVE  Fifo!Next \/ UNCHANGED Window
    <3>1. TryAdd(e) /\ UNCHANGED startIndex
      BY <2>1 DEF Offer
    <3> QED
      BY <1>1, <3>1, AddPuts DEF Fifo!Next
  <2>2. ASSUME NEW t \in Threads, NEW e \in Elements, RemoveObject(t, e)
        PROVE  Fifo!Next
    BY <1>1, <2>2, RemoveObjectRemoves DEF Fifo!Next
  <2>3. ASSUME NEW t \in Threads, Poll(t)
        PROVE  Fifo!Next \/ UNCHANGED Window
    <3>1. TryGet /\ UNCHANGED <<elements, insertIndex>>
      BY <2>3 DEF Poll
    <3> QED
      BY <1>1, <3>1, GetTakes DEF Fifo!Next
  <2>4. ASSUME NEW t \in Threads, DrainTo(t)
        PROVE  Fifo!Next
    <3>1. insertIndex' - startIndex' = 0
      BY <1>1, <2>4 DEF DrainTo, IInv, TypeOK
    <3>2. Window' = <<>>
      BY <3>1 DEF Window
    <3> QED
      BY <3>2 DEF Fifo!Next, Fifo!Drain
  <2>5. ASSUME NEW t \in Threads, WakeFull(t)
        PROVE  Fifo!Next \/ UNCHANGED Window
    <3>1. TryAdd(arg[t]) /\ arg[t] \in Elements /\ UNCHANGED startIndex
      BY <1>1, <2>5 DEF WakeFull, IInv, ArgInv
    <3> QED
      BY <1>1, <3>1, AddPuts DEF Fifo!Next
  <2>6. ASSUME NEW t \in Threads, WakeEmpty(t)
        PROVE  Fifo!Next \/ UNCHANGED Window
    <3>1. TryGet /\ UNCHANGED <<elements, insertIndex>>
      BY <2>6 DEF WakeEmpty
    <3> QED
      BY <1>1, <3>1, GetTakes DEF Fifo!Next
  <2>7. ASSUME UNCHANGED <<elements, startIndex, insertIndex>>
        PROVE  UNCHANGED Window
    BY <2>7 DEF Window
  <2>8. ASSUME NEW t \in Threads,
               (\E e \in Elements : AwaitFull(t, e)) \/ AwaitEmpty(t) \/ GiveUp(t)
        PROVE  UNCHANGED Window
    BY <2>7, <2>8 DEF AwaitFull, AwaitEmpty, GiveUp
  <2> QED
    BY <1>1, <2>1, <2>2, <2>3, <2>4, <2>5, <2>6, <2>8 DEF Next
<1>2. IInv /\ [Next]_vars => [~Compacts => Fifo!Next \/ UNCHANGED Window]_vars
  BY <1>1
<1> QED
  BY <1>2, Invariance, PTL DEF Spec, FifoStepUnlessCompacting
==============================================================================
