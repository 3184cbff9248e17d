------------------------- MODULE ConnectionPoolProofs -------------------------
(***************************************************************************)
(* Proofs about ConnectionPool for any number of threads and connections,  *)
(* whatever the unsynchronized HashSet loses and whatever SQL fails.       *)
(***************************************************************************)
EXTENDS ConnectionPool, SequenceTheorems, FiniteSetTheorems, TLAPS

-----------------------------------------------------------------------------
(* The free queue. *)

\* A function on 1 .. n is a sequence.
LEMMA FunctionIsSeq ==
    ASSUME NEW n \in Nat, NEW S, NEW f \in [1 .. n -> S]
    PROVE  f \in Seq(S)
  OBVIOUS

\* A connection offered to the queue is its last member.
LEMMA OfferedIsLast ==
    ASSUME NEW S, NEW q \in Seq(S), NEW c \in S
    PROVE  /\ Append(q, c) \in Seq(S)
           /\ Len(q) \in Nat
           /\ Len(Append(q, c)) = Len(q) + 1
           /\ \A i \in 1 .. Len(q) : Append(q, c)[i] = q[i]
           /\ Append(q, c)[Len(q) + 1] = c
  BY AppendProperties, LenProperties

\* The connection polled from the queue was its first member.
LEMMA PolledIsFirst ==
    ASSUME NEW S, NEW q \in Seq(S), q # <<>>
    PROVE  /\ Tail(q) \in Seq(S)
           /\ Len(q) \in Nat \ {0}
           /\ Len(Tail(q)) = Len(q) - 1
           /\ \A i \in 1 .. Len(q) - 1 : Tail(q)[i] = q[i + 1]
           /\ Head(q) = q[1]
           /\ Head(q) \in S
  BY HeadTailProperties, EmptySeq

\* A queue in which no connection is twice has as many connections as members.
LEMMA FreeCardinality ==
    ASSUME TypeOK, Apart
    PROVE  Cardinality(Free) = Len(free)
<1>1. free \in Seq(1 .. created) /\ Len(free) \in Nat
  BY LenProperties DEF TypeOK
<1>2. 1 \in Int /\ Len(free) \in Int
  BY <1>1
<1>3. /\ IsFiniteSet(1 .. Len(free))
      /\ Cardinality(1 .. Len(free)) = Len(free)
  BY <1>1, <1>2, FS_Interval
<1>4. free \in [1 .. Len(free) -> Free]
  BY <1>1, LenProperties DEF Free
<1>5. free \in Surjection(1 .. Len(free), Free)
  BY <1>4 DEF Surjection, Free
<1>6. free \in Injection(1 .. Len(free), Free)
  BY <1>4 DEF Injection, IsInjective, Apart
<1> QED
  BY <1>3, <1>5, <1>6, FS_Surjection

-----------------------------------------------------------------------------
(* The invariant. *)

\* The invariant holds at first.
LEMMA InitIInv == Init => IInv
<1> SUFFICES ASSUME Init
             PROVE  IInv
  OBVIOUS
<1>1. created = 0 /\ free = <<>> /\ Len(free) = 0 /\ free \in Seq(1 .. created)
  BY EmptySeq DEF Init
<1>2. MaxConnectionCount \in Nat \ {0} /\ MaxCreated \in Nat
  BY CountAssumption, CreatedAssumption
<1>3. TypeOK
  BY <1>1, <1>2 DEF Init, TypeOK
<1>4. Apart /\ PlaceInv /\ NoOpenTransactionInPool
  BY <1>1 DEF Init, Apart, PlaceInv, NoOpenTransactionInPool
<1> QED
  BY <1>3, <1>4 DEF IInv

\* Steps that only move a thread on, or change permits and overlap, between
\* places where the connection has the same standing.
LEMMA KeepsInPlace ==
    ASSUME IInv, NEW t \in Threads, NEW place,
           pc' = [pc EXCEPT ![t] = place],
           UNCHANGED <<used, free, created, connection, open, unrolled, raced>>,
           permits' \in Nat, overlap' \subseteq Threads,
           \/ pc[t] \in {"start", "poll", "create"} /\ place \in {"start", "poll", "create"}
           \/ pc[t] = "add" /\ place = "adding"
           \/ pc[t] = "release" /\ place = "remove"
           \/ pc[t] = "remove" /\ place = "offer"
    PROVE  IInv'
<1>1. TypeOK'
  BY DEF IInv, TypeOK
<1>2. Apart'
  BY DEF IInv, Apart
<1>3. PlaceInv'
  BY DEF IInv, TypeOK, PlaceInv
<1>4. NoOpenTransactionInPool'
  BY DEF IInv, NoOpenTransactionInPool, Free
<1> QED
  BY <1>1, <1>2, <1>3, <1>4 DEF IInv

\* The connection polled from the free queue is nobody's, and has no open
\* work on it unless its rollback failed.
LEMMA PollFreeKeeps ==
    ASSUME IInv, NEW t \in Threads, PollFree(t), free # <<>>
    PROVE  IInv'
<1> DEFINE c == Head(free)
<1>1. /\ pc[t] = "poll"
      /\ connection' = [connection EXCEPT ![t] = c]
      /\ free' = Tail(free)
      /\ pc' = [pc EXCEPT ![t] = "add"]
      /\ UNCHANGED <<permits, used, created, open, unrolled, overlap, raced>>
  BY DEF PollFree, Goto
<1>2. free \in Seq(1 .. created) /\ created \in Nat /\ Len(free) <= MaxConnectionCount
  BY DEF IInv, TypeOK
<1>3. /\ free' \in Seq(1 .. created)
      /\ Len(free) \in Nat \ {0}
      /\ Len(free') = Len(free) - 1
      /\ \A i \in 1 .. Len(free) - 1 : free'[i] = free[i + 1]
      /\ c = free[1]
      /\ c \in 1 .. created
  BY <1>1, <1>2, PolledIsFirst
<1> HIDE DEF c
<1>4. MaxConnectionCount \in Nat
  BY CountAssumption
<1>5. TypeOK'
  <2>1. Len(free') <= MaxConnectionCount
    BY <1>2, <1>3, <1>4
  <2>2. connection' \in [Threads -> 0 .. created]
    BY <1>1, <1>3 DEF IInv, TypeOK
  <2> QED
    BY <1>1, <1>3, <2>1, <2>2 DEF IInv, TypeOK
<1>6. \A u \in Threads : connection'[u] = IF u = t THEN c ELSE connection[u]
  BY <1>1 DEF IInv, TypeOK
<1>7. \A i \in 1 .. Len(free') : i + 1 \in 1 .. Len(free) /\ i + 1 # 1 /\ free'[i] = free[i + 1]
  BY <1>3
<1>8. 1 \in 1 .. Len(free)
  BY <1>3
<1>9. Apart'
  <2>1. \A u \in Threads : connection[u] # c
    BY <1>3, <1>8 DEF IInv, Apart
  <2>2. \A u, v \in Threads :
          connection'[u] # 0 /\ connection'[u] = connection'[v] => u = v
    BY <1>6, <2>1 DEF IInv, Apart
  <2>3. \A u \in Threads, i \in 1 .. Len(free') : free'[i] # connection'[u]
    BY <1>3, <1>6, <1>7, <1>8 DEF IInv, Apart
  <2>4. \A i, j \in 1 .. Len(free') : free'[i] = free'[j] => i = j
    <3> SUFFICES ASSUME NEW i \in 1 .. Len(free'), NEW j \in 1 .. Len(free'),
                        free'[i] = free'[j]
                 PROVE  i = j
      OBVIOUS
    <3>1. i + 1 = j + 1
      BY <1>7 DEF IInv, Apart
    <3> QED
      BY <3>1
  <2> QED
    BY <2>2, <2>3, <2>4 DEF Apart
<1>10. PlaceInv'
  <2>1. c \notin open \ unrolled
    BY <1>3, <1>8 DEF IInv, NoOpenTransactionInPool, Free
  <2>2. c # 0
    BY <1>3
  <2> QED
    BY <1>1, <1>6, <2>1, <2>2 DEF IInv, TypeOK, PlaceInv
<1>11. NoOpenTransactionInPool'
  BY <1>1, <1>7 DEF IInv, NoOpenTransactionInPool, Free
<1> QED
  BY <1>5, <1>9, <1>10, <1>11 DEF IInv

\* A new connection is nobody's and has no work on it.
LEMMA CreateKeeps ==
    ASSUME IInv, NEW t \in Threads, Create(t)
    PROVE  IInv'
<1>1. /\ pc[t] = "create"
      /\ created < MaxCreated
      /\ created' = created + 1
      /\ connection' = [connection EXCEPT ![t] = created + 1]
      /\ pc' = [pc EXCEPT ![t] = "add"]
      /\ UNCHANGED <<permits, used, free, open, unrolled, overlap, raced>>
  BY DEF Create, Goto
<1>2. created \in Nat /\ MaxCreated \in Nat /\ 1 .. created \subseteq 1 .. created'
  BY <1>1, CreatedAssumption DEF IInv, TypeOK
<1>3. free \in Seq(1 .. created) /\ Len(free) \in Nat
  BY LenProperties DEF IInv, TypeOK
<1>4. \A i \in 1 .. Len(free) : free[i] \in 1 .. created
  BY <1>3, ElementOfSeq
<1>5. free \in Seq(1 .. created')
  <2>1. \A i \in 1 .. Len(free) : free[i] \in 1 .. created'
    BY <1>2, <1>4, Zenon
  <2>2. free \in [1 .. Len(free) -> 1 .. created']
    BY <1>3, <2>1, LenProperties
  <2> QED
    BY <1>3, <2>2, FunctionIsSeq, Zenon
<1>6. \A u \in Threads : connection'[u] = IF u = t THEN created + 1 ELSE connection[u]
  BY <1>1 DEF IInv, TypeOK
<1>7. TypeOK'
  <2>1. connection' \in [Threads -> 0 .. created']
    <3>1. created + 1 \in 0 .. created' /\ 0 .. created \subseteq 0 .. created'
      BY <1>1, <1>2
    <3> QED
      BY <1>1, <3>1 DEF IInv, TypeOK
  <2>2. created' \in 0 .. MaxCreated
    BY <1>1, <1>2
  <2> QED
    BY <1>1, <1>2, <1>5, <2>1, <2>2 DEF IInv, TypeOK
<1>8. \A u \in Threads : connection[u] # created + 1
  BY <1>2 DEF IInv, TypeOK
<1>9. Apart'
  <2>1. \A i \in 1 .. Len(free) : free[i] # created + 1
    BY <1>2, <1>4
  <2> QED
    BY <1>1, <1>6, <1>8, <2>1 DEF IInv, Apart
<1>10. PlaceInv'
  <2>1. created + 1 \notin open /\ created + 1 # 0
    BY <1>2 DEF IInv, TypeOK
  <2> QED
    BY <1>1, <1>6, <2>1 DEF IInv, TypeOK, PlaceInv
<1>11. NoOpenTransactionInPool'
  BY <1>1 DEF IInv, NoOpenTransactionInPool, Free
<1> QED
  BY <1>7, <1>9, <1>10, <1>11 DEF IInv

\* usedConnectionSet.add: what the set loses is counted as raced.
LEMMA EndAddKeeps ==
    ASSUME IInv, NEW t \in Threads, EndAdd(t)
    PROVE  IInv'
<1>1. PICK gone \in SUBSET (used \cup {connection[t]}) :
        /\ used' = (used \cup {connection[t]}) \ gone
        /\ raced' = raced \cup gone
  BY DEF EndAdd
<1>2. /\ pc[t] = "adding"
      /\ overlap' = overlap \ {t}
      /\ pc' = [pc EXCEPT ![t] = "work"]
      /\ UNCHANGED <<permits, free, created, connection, open, unrolled>>
  BY DEF EndAdd, Goto
<1>3. connection[t] \in 1 .. created
  BY <1>2 DEF IInv, TypeOK, PlaceInv
<1>4. /\ used' \subseteq 1 .. created
      /\ raced' \subseteq 1 .. created
  BY <1>1, <1>3 DEF IInv, TypeOK
<1>5. used \cup raced \cup {connection[t]} \subseteq used' \cup raced'
  BY <1>1
<1>6. TypeOK'
  BY <1>2, <1>4 DEF IInv, TypeOK
<1>7. Apart' /\ NoOpenTransactionInPool'
  BY <1>2 DEF IInv, Apart, NoOpenTransactionInPool, Free
<1>8. PlaceInv'
  BY <1>2, <1>5 DEF IInv, TypeOK, PlaceInv
<1> QED
  BY <1>6, <1>7, <1>8 DEF IInv

\* A transaction touches the work on its own connection only.
LEMMA TransactionKeeps ==
    ASSUME IInv, NEW t \in Threads, Transaction(t)
    PROVE  IInv'
<1>1. /\ UNCHANGED <<permits, used, free, created, connection, overlap, raced>>
      /\ pc[t] \in {"work", "commit"}
      /\ \/ /\ pc[t] = "work"
            /\ open' = open \cup {connection[t]} /\ unrolled' = unrolled
            /\ pc' = [pc EXCEPT ![t] = "commit"]
         \/ /\ open' = open \ {connection[t]}
            /\ unrolled' = unrolled \ {connection[t]}
            /\ pc' = [pc EXCEPT ![t] = "release"]
         \/ /\ open' = open
            /\ unrolled' = unrolled \cup (open \cap {connection[t]})
            /\ pc' = [pc EXCEPT ![t] = "release"]
  BY DEF Transaction, Work, Commit, SqlFails, RollbackFails, Close, Goto
<1>2. connection[t] \in 1 .. created /\ connection[t] # 0
  BY <1>1 DEF IInv, TypeOK, PlaceInv
<1>3. TypeOK'
  BY <1>1, <1>2 DEF IInv, TypeOK
<1>4. Apart'
  BY <1>1 DEF IInv, Apart
<1>5. PlaceInv'
  <2>1. \A u \in Threads : u # t => connection[u] # connection[t]
    BY <1>2 DEF IInv, Apart
  <2>2. \A u \in Threads \ {t} :
          connection[u] \in open' \ unrolled' => connection[u] \in open \ unrolled
    BY <1>1, <2>1
  <2>3. pc'[t] # "commit" => connection[t] \notin open' \ unrolled'
    BY <1>1 DEF IInv, TypeOK
  <2>4. \A u \in Threads \ {t} : pc'[u] = pc[u]
    BY <1>1 DEF IInv, TypeOK
  <2>5. pc'[t] \in {"commit", "release"}
    BY <1>1 DEF IInv, TypeOK
  <2> QED
    BY <1>1, <1>2, <2>2, <2>3, <2>4, <2>5 DEF IInv, PlaceInv
<1>6. NoOpenTransactionInPool'
  <2>1. connection[t] \notin Free
    BY DEF IInv, Apart, Free
  <2>2. Free' = Free
    BY <1>1 DEF Free
  <2> QED
    BY <1>1, <2>1, <2>2 DEF IInv, NoOpenTransactionInPool
<1> QED
  BY <1>3, <1>4, <1>5, <1>6 DEF IInv

\* A thread that leaves without a connection for the queue.
LEMMA LeaveKeeps ==
    ASSUME IInv, NEW t \in Threads, Leave(t),
           UNCHANGED <<permits, used, free, created, open, unrolled, overlap, raced>>
    PROVE  IInv'
<1>1. /\ connection' = [connection EXCEPT ![t] = 0]
      /\ pc' = [pc EXCEPT ![t] = "start"]
  BY DEF Leave, Goto
<1>2. \A u \in Threads : connection'[u] = IF u = t THEN 0 ELSE connection[u]
  BY <1>1 DEF IInv, TypeOK
<1>3. TypeOK'
  <2>1. 0 \in 0 .. created
    BY DEF IInv, TypeOK
  <2> QED
    BY <1>1, <2>1 DEF IInv, TypeOK
<1>4. free \in Seq(1 .. created)
  BY DEF IInv, TypeOK
<1>5. \A i \in 1 .. Len(free) : free[i] # 0
  <2>1. \A i \in 1 .. Len(free) : free[i] \in 1 .. created
    BY <1>4, ElementOfSeq
  <2>2. 0 \notin 1 .. created
    BY DEF IInv, TypeOK
  <2> QED
    BY <2>1, <2>2, Zenon
<1>6. Apart'
  BY <1>2, <1>5 DEF IInv, Apart
<1>7. PlaceInv'
  BY <1>1, <1>2, <1>3 DEF IInv, TypeOK, PlaceInv
<1>8. NoOpenTransactionInPool'
  BY DEF IInv, NoOpenTransactionInPool, Free
<1> QED
  BY <1>3, <1>6, <1>7, <1>8 DEF IInv

\* A connection that goes back to the free queue has no open work on it, or
\* work that could not be rolled back.
LEMMA OfferKeeps ==
    ASSUME IInv, NEW t \in Threads, Offer(t)
    PROVE  IInv'
<1>1. CASE ~(Len(free) < MaxConnectionCount)
  BY <1>1, LeaveKeeps DEF Offer
<1>2. CASE Len(free) < MaxConnectionCount
  <2> DEFINE c == connection[t]
  <2>1. /\ pc[t] = "offer"
        /\ free' = Append(free, c)
        /\ connection' = [connection EXCEPT ![t] = 0]
        /\ pc' = [pc EXCEPT ![t] = "start"]
        /\ UNCHANGED <<permits, used, created, open, unrolled, overlap, raced>>
    BY <1>2 DEF Offer, Leave, Goto
  <2>2. c \in 1 .. created /\ c \notin open \ unrolled
    BY <2>1 DEF IInv, TypeOK, PlaceInv
  <2>3. free \in Seq(1 .. created)
    BY DEF IInv, TypeOK
  <2>4. \A u \in Threads \ {t} : connection[u] # c
    BY <2>2 DEF IInv, Apart
  <2> HIDE DEF c
  <2>5. /\ free' \in Seq(1 .. created)
        /\ Len(free) \in Nat
        /\ Len(free') = Len(free) + 1
        /\ \A i \in 1 .. Len(free) : free'[i] = free[i]
        /\ free'[Len(free) + 1] = c
    BY <2>1, <2>2, <2>3, OfferedIsLast
  <2>6. \A i \in 1 .. Len(free') :
          \/ i = Len(free) + 1 /\ free'[i] = c
          \/ i \in 1 .. Len(free) /\ free'[i] = free[i]
    BY <2>5
  <2>7. \A i \in 1 .. Len(free') : free'[i] # 0
    <3>1. \A i \in 1 .. Len(free') : free'[i] \in 1 .. created
      BY <2>5, ElementOfSeq
    <3>2. 0 \notin 1 .. created
      BY DEF IInv, TypeOK
    <3> QED
      BY <3>1, <3>2, Zenon
  <2>8. \A u \in Threads : connection'[u] = IF u = t THEN 0 ELSE connection[u]
    BY <2>1 DEF IInv, TypeOK
  <2>9. TypeOK'
    <3>1. Len(free') <= MaxConnectionCount
      BY <1>2, <2>5, CountAssumption
    <3>2. 0 \in 0 .. created
      BY DEF IInv, TypeOK
    <3> QED
      BY <2>1, <2>5, <3>1, <3>2 DEF IInv, TypeOK
  <2>10. Apart'
    <3>1. \A i \in 1 .. Len(free) : free[i] # c
      BY DEF IInv, Apart, c
    <3>2. \A i, j \in 1 .. Len(free') : free'[i] = free'[j] => i = j
      BY <2>6, <3>1 DEF IInv, Apart
    <3>3. \A u \in Threads, i \in 1 .. Len(free') : free'[i] # connection'[u]
      BY <2>4, <2>6, <2>7, <2>8 DEF IInv, Apart
    <3>4. \A u, v \in Threads :
            connection'[u] # 0 /\ connection'[u] = connection'[v] => u = v
      BY <2>8 DEF IInv, Apart
    <3> QED
      BY <3>2, <3>3, <3>4 DEF Apart
  <2>11. PlaceInv'
    <3>1. 0 \notin open
      BY DEF IInv, TypeOK
    <3> QED
      BY <2>1, <2>8, <3>1 DEF IInv, TypeOK, PlaceInv
  <2>12. NoOpenTransactionInPool'
    <3>1. Free' \subseteq Free \cup {c}
      BY <2>6 DEF Free
    <3> QED
      BY <2>1, <2>2, <3>1 DEF IInv, NoOpenTransactionInPool
  <2> QED
    BY <2>9, <2>10, <2>11, <2>12 DEF IInv
<1> QED
  BY <1>1, <1>2

\* Every step keeps the invariant.
LEMMA StepIInv == IInv /\ [Next]_vars => IInv'
<1> SUFFICES ASSUME IInv, [Next]_vars
             PROVE  IInv'
  OBVIOUS
<1>1. permits \in Nat /\ overlap \subseteq Threads
  BY DEF IInv, TypeOK
<1>2. ASSUME NEW t \in Threads, TryAcquire(t)
      PROVE  IInv'
  <2>1. /\ pc[t] = "start" /\ pc' = [pc EXCEPT ![t] = "poll"]
        /\ permits' \in Nat
        /\ UNCHANGED <<used, free, created, connection, open, unrolled, overlap, raced>>
    BY <1>1, <1>2 DEF TryAcquire, Goto
  <2> QED
    BY <1>1, <2>1, KeepsInPlace
<1>3. ASSUME NEW t \in Threads, PollFree(t)
      PROVE  IInv'
  <2>1. CASE free # <<>>
    BY <1>3, <2>1, PollFreeKeeps
  <2>2. CASE free = <<>>
    <3>1. /\ pc[t] = "poll" /\ pc' = [pc EXCEPT ![t] = "create"]
          /\ UNCHANGED <<permits, used, free, created, connection, open,
                         unrolled, overlap, raced>>
      BY <1>3, <2>2 DEF PollFree, Goto
    <3> QED
      BY <1>1, <3>1, KeepsInPlace
  <2> QED
    BY <2>1, <2>2
<1>4. ASSUME NEW t \in Threads, CreateFails(t)
      PROVE  IInv'
  <2>1. /\ pc[t] = "create" /\ pc' = [pc EXCEPT ![t] = "start"]
        /\ UNCHANGED <<permits, used, free, created, connection, open,
                       unrolled, overlap, raced>>
    BY <1>4 DEF CreateFails, Goto
  <2> QED
    BY <1>1, <2>1, KeepsInPlace
<1>5. ASSUME NEW t \in Threads, BeginAdd(t)
      PROVE  IInv'
  <2>1. /\ pc[t] = "add" /\ pc' = [pc EXCEPT ![t] = "adding"]
        /\ overlap' \subseteq Threads
        /\ UNCHANGED <<permits, used, free, created, connection, open,
                       unrolled, raced>>
    BY <1>1, <1>5 DEF BeginAdd, Goto
  <2> QED
    BY <1>1, <2>1, KeepsInPlace
<1>6. ASSUME NEW t \in Threads, ReleasePermit(t)
      PROVE  IInv'
  <2>1. /\ pc[t] = "release" /\ pc' = [pc EXCEPT ![t] = "remove"]
        /\ permits' \in Nat
        /\ UNCHANGED <<used, free, created, connection, open, unrolled, overlap, raced>>
    BY <1>1, <1>6 DEF ReleasePermit, Goto
  <2> QED
    BY <1>1, <2>1, KeepsInPlace
<1>7. ASSUME NEW t \in Threads, RemoveItself(t)
      PROVE  IInv'
  <2>1. /\ pc[t] = "remove" /\ pc' = [pc EXCEPT ![t] = "offer"]
        /\ UNCHANGED <<permits, used, free, created, connection, open,
                       unrolled, overlap, raced>>
    BY <1>7 DEF RemoveItself, Goto
  <2> QED
    BY <1>1, <2>1, KeepsInPlace
<1>8. ASSUME NEW t \in Threads, NotContained(t) \/ RemoveThrows(t)
      PROVE  IInv'
  BY <1>8, LeaveKeeps DEF NotContained, RemoveThrows
<1>9. CASE UNCHANGED vars
  BY <1>9 DEF vars, IInv, TypeOK, Apart, PlaceInv, NoOpenTransactionInPool, Free
<1> QED
  BY <1>2, <1>3, <1>4, <1>5, <1>6, <1>7, <1>8, <1>9, CreateKeeps, EndAddKeeps,
     TransactionKeeps, OfferKeeps DEF Next, GetConnection, ReleaseConnection

LEMMA Invariance == Spec => []IInv
  BY InitIInv, StepIInv, PTL DEF Spec

\* The variables have their types; in particular the free queue never holds
\* more than maxConnectionCount connections.
THEOREM TypeCorrect == Spec => []TypeOK
<1>1. IInv => TypeOK
  BY DEF IInv
<1> QED
  BY <1>1, Invariance, PTL

\* getConnection() hands a connection to one thread at a time, and none that
\* is still in the free queue, with any number of threads and whatever the
\* unsynchronized HashSet loses.
THEOREM Exclusive == Spec => []OneThreadPerConnection
<1>1. IInv => OneThreadPerConnection
  <2> SUFFICES ASSUME IInv
               PROVE  OneThreadPerConnection
    OBVIOUS
  <2>1. Held \cap Free = {}
    BY DEF IInv, Apart, Held, Free
  <2>2. Cardinality(Free) = Len(free)
    BY FreeCardinality DEF IInv
  <2> QED
    BY <2>1, <2>2 DEF IInv, Apart, OneThreadPerConnection
<1> QED
  BY <1>1, Invariance, PTL

\* Every way through run() closes the transaction before the connection goes
\* back to the pool, unless the rollback itself fails.
THEOREM PoolIsClean == Spec => []NoOpenTransactionInPool
<1>1. IInv => NoOpenTransactionInPool
  BY DEF IInv
<1> QED
  BY <1>1, Invariance, PTL

-----------------------------------------------------------------------------
(* How a connection is lost. *)

\* A step that takes nothing from the free queue and leaves the thread with
\* its connection loses none.
LEMMA KeptOrLost ==
    ASSUME IInv, [Next]_vars, NEW c \in 1 .. created, c \in Held \cup Free,
           c \notin Held' \cup Free'
    PROVE  \/ Len(free) = MaxConnectionCount
           \/ c \in raced
           \/ \E t \in Threads : connection[t] = c /\ AddRunsBeside(t)
<1>1. ASSUME NEW t \in Threads, Leave(t), UNCHANGED free
      PROVE  c = connection[t]
  <2>1. \A u \in Threads : connection'[u] = IF u = t THEN 0 ELSE connection[u]
    BY <1>1 DEF Leave, IInv, TypeOK
  <2>2. Free' = Free
    BY <1>1 DEF Free
  <2> QED
    BY <2>1, <2>2 DEF Held
<1>2. ASSUME NEW t \in Threads, NotContained(t)
      PROVE  connection[t] = c /\ (AddRunsBeside(t) \/ c \in raced)
  <2>1. c = connection[t]
    BY <1>1, <1>2 DEF NotContained
  <2>2. connection[t] \in used \cup raced
    BY <1>2 DEF NotContained, IInv, PlaceInv
  <2> QED
    BY <1>2, <2>1, <2>2 DEF NotContained
<1>3. ASSUME NEW t \in Threads, RemoveThrows(t)
      PROVE  connection[t] = c /\ AddRunsBeside(t)
  BY <1>1, <1>3 DEF RemoveThrows
<1>4. ASSUME NEW t \in Threads, Offer(t)
      PROVE  Len(free) = MaxConnectionCount
  <2>1. CASE Len(free) < MaxConnectionCount
    <3>1. free' = Append(free, connection[t]) /\ Leave(t)
      BY <1>4, <2>1 DEF Offer
    <3>2. connection[t] \in 1 .. created /\ free \in Seq(1 .. created)
      BY <1>4 DEF Offer, IInv, TypeOK, PlaceInv
    <3>3. /\ Len(free) \in Nat /\ Len(free') = Len(free) + 1
          /\ \A i \in 1 .. Len(free) : free'[i] = free[i]
          /\ free'[Len(free) + 1] = connection[t]
      BY <3>1, <3>2, OfferedIsLast
    <3>4. Free \cup {connection[t]} \subseteq Free'
      <4>1. \A i \in 1 .. Len(free) : i \in 1 .. Len(free') /\ free'[i] = free[i]
        BY <3>3
      <4>2. Len(free) + 1 \in 1 .. Len(free')
        BY <3>3
      <4> QED
        BY <3>3, <4>1, <4>2 DEF Free
    <3>5. \A u \in Threads : connection'[u] = IF u = t THEN 0 ELSE connection[u]
      BY <3>1 DEF Leave, IInv, TypeOK
    <3> QED
      BY <3>4, <3>5 DEF Held
  <2>2. Len(free) <= MaxConnectionCount /\ Len(free) \in Nat
    BY LenProperties DEF IInv, TypeOK
  <2> QED
    BY <2>1, <2>2, CountAssumption
<1>5. ASSUME NEW t \in Threads, PollFree(t)
      PROVE  FALSE
  <2>1. CASE free # <<>>
    <3>1. free' = Tail(free) /\ connection' = [connection EXCEPT ![t] = Head(free)]
      BY <1>5, <2>1 DEF PollFree
    <3>2. free \in Seq(1 .. created) /\ connection[t] = 0
      BY <1>5 DEF PollFree, IInv, TypeOK, PlaceInv
    <3>3. /\ Len(free) \in Nat \ {0} /\ Len(free') = Len(free) - 1
          /\ \A i \in 1 .. Len(free) - 1 : free'[i] = free[i + 1]
          /\ Head(free) = free[1] /\ Head(free) \in 1 .. created
      <4>1. /\ Len(free) \in Nat \ {0} /\ Len(Tail(free)) = Len(free) - 1
            /\ \A i \in 1 .. Len(free) - 1 : Tail(free)[i] = free[i + 1]
            /\ Head(free) = free[1] /\ Head(free) \in 1 .. created
        <5>1. free \in Seq(1 .. created)
          BY <3>2
        <5> QED
          BY <2>1, <5>1, PolledIsFirst, Zenon
      <4> QED
        BY <3>1, <4>1, Zenon
    <3>4. \A u \in Threads : connection'[u] = IF u = t THEN Head(free) ELSE connection[u]
      BY <3>1 DEF IInv, TypeOK
    <3>5. Free \subseteq Free' \cup {Head(free)}
      <4>1. ASSUME NEW i \in 1 .. Len(free), i # 1
            PROVE  i - 1 \in 1 .. Len(free') /\ free'[i - 1] = free[i]
        <5>1. i - 1 \in 1 .. Len(free) - 1 /\ (i - 1) + 1 = i
          BY <3>3, <4>1
        <5> QED
          BY <3>3, <5>1
      <4> QED
        BY <3>3, <4>1 DEF Free
    <3>6. Head(free) # 0
      BY <3>3
    <3> QED
      BY <3>2, <3>4, <3>5, <3>6 DEF Held
  <2>2. CASE free = <<>>
    <3>1. UNCHANGED <<free, connection>>
      BY <1>5, <2>2 DEF PollFree
    <3> QED
      BY <3>1 DEF Held, Free
  <2> QED
    BY <2>1, <2>2
<1>6. ASSUME NEW t \in Threads, Create(t)
      PROVE  FALSE
  <2>1. \A u \in Threads : u # t => connection'[u] = connection[u]
    BY <1>6 DEF Create, IInv, TypeOK
  <2>2. connection[t] = 0 /\ free' = free
    BY <1>6 DEF Create, IInv, PlaceInv
  <2> QED
    BY <2>1, <2>2 DEF Held, Free
<1>7. ASSUME UNCHANGED <<free, connection>>
      PROVE  FALSE
  BY <1>7 DEF Held, Free
<1>8. ASSUME NEW t \in Threads,
             \/ TryAcquire(t) \/ CreateFails(t) \/ BeginAdd(t) \/ EndAdd(t)
             \/ Transaction(t) \/ ReleasePermit(t) \/ RemoveItself(t)
      PROVE  UNCHANGED <<free, connection>>
  BY <1>8 DEF TryAcquire, CreateFails, BeginAdd, EndAdd, Transaction, Work, Commit,
              SqlFails, RollbackFails, ReleasePermit, RemoveItself
<1>9. CASE UNCHANGED vars
  BY <1>7, <1>9 DEF vars
<1> QED
  BY <1>2, <1>3, <1>4, <1>5, <1>6, <1>7, <1>8, <1>9
     DEF Next, GetConnection, ReleaseConnection

\* A connection is created into the hands of a thread.
LEMMA CreatedIsHeld ==
    ASSUME IInv, [Next]_vars, NEW c \in 1 .. created', c \notin 1 .. created
    PROVE  c \in Held'
<1>1. ASSUME created' = created
      PROVE  FALSE
  BY <1>1
<1>2. PICK t \in Threads : Create(t)
  BY <1>1 DEF Next, vars, GetConnection, Transaction, ReleaseConnection, TryAcquire,
     PollFree, CreateFails, BeginAdd, EndAdd, Work, Commit, SqlFails, RollbackFails,
     NotContained, ReleasePermit, RemoveItself, RemoveThrows, Offer
<1>3. created \in Nat /\ created' = created + 1 /\ connection'[t] = created + 1
  BY <1>2 DEF Create, IInv, TypeOK
<1>4. c = created + 1
  BY <1>3
<1> QED
  BY <1>3, <1>4 DEF Held

\* A connection disappears from the pool only when the free queue is full or
\* when two threads meet in the unsynchronized HashSet.
THEOREM LossesExplained == Spec => LostOnlyWhenFullOrRacing
<1>1. ASSUME IInv, [Next]_vars, NEW c \in Lost' \ Lost
      PROVE  \/ Len(free) = MaxConnectionCount
             \/ c \in raced
             \/ \E t \in Threads : connection[t] = c /\ AddRunsBeside(t)
  <2>1. c \in 1 .. created' /\ c \notin Held' \cup Free'
    BY <1>1 DEF Lost
  <2>2. c \in 1 .. created
    BY <1>1, <2>1, CreatedIsHeld
  <2>3. c \in Held \cup Free
    BY <1>1, <2>2 DEF Lost
  <2> QED
    BY <1>1, <2>1, <2>2, <2>3, KeptOrLost
<1>2. IInv /\ [Next]_vars =>
        [\A c \in Lost' \ Lost :
            \/ Len(free) = MaxConnectionCount
            \/ c \in raced
            \/ \E t \in Threads : connection[t] = c /\ AddRunsBeside(t)]_vars
  BY <1>1
<1> QED
  BY <1>2, Invariance, PTL DEF Spec, LostOnlyWhenFullOrRacing
===============================================================================
