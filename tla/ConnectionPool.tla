---------------------------- MODULE ConnectionPool ----------------------------
(***************************************************************************)
(* com.matcha.db.ConnectionPool and the transactions that run on it (the   *)
(* run() methods of the Insert-, Query- and UpdateTransactionIsolation-    *)
(* Runnable, which have the same shape).                                   *)
(*                                                                         *)
(* getConnection() and releaseConnection() take no lock: the semaphore,    *)
(* the LinkedBlockingQueue and the HashSet are separate steps.  The        *)
(* HashSet is not synchronized: when two add()s overlap each may move the  *)
(* elements to a table of its own, and the table that stays may lack any   *)
(* of them; while an add() runs, contains() may miss an element that is    *)
(* on its way to a larger table and the iteration in hashCode() may throw  *)
(* a ConcurrentModificationException.                                      *)
(*                                                                         *)
(* A thread here runs one transaction after another.  Nobody interrupts    *)
(* it, so the null that an interrupted getConnection() returns is absent.  *)
(***************************************************************************)
EXTENDS Integers, Sequences, FiniteSets, SequencesExt

CONSTANTS
    Threads,
    MaxConnectionCount,  \* the maxConnectionCount of the constructor
    MaxCreated           \* bound: connections the database server grants

ASSUME CountAssumption == MaxConnectionCount \in Nat \ {0}
ASSUME CreatedAssumption == MaxCreated \in Nat

VARIABLES
    permits,    \* of the semaphore
    used,       \* the usedConnectionSet
    free,       \* the freeConnectionQueue
    created,    \* connections are numbered in the order of their creation
    connection, \* the local connection of a thread, 0 for null
    open,       \* connections with work neither committed nor rolled back
    unrolled,   \* history: those of them whose rollback() has failed
    pc,
    overlap,    \* the threads whose add() to the used set met another one
    raced       \* history: connections lost in the used set

vars == <<permits, used, free, created, connection, open, unrolled, pc,
          overlap, raced>>

Init ==
    /\ permits = MaxConnectionCount
    /\ used = {}
    /\ free = <<>>
    /\ created = 0
    /\ connection = [t \in Threads |-> 0]
    /\ open = {}
    /\ unrolled = {}
    /\ pc = [t \in Threads |-> "start"]
    /\ overlap = {}
    /\ raced = {}

Goto(t, place) == pc' = [pc EXCEPT ![t] = place]

\* Another thread is inside usedConnectionSet.add() with a new element.
AddRunsBeside(t) ==
    \E u \in Threads \ {t} : pc[u] = "adding" /\ connection[u] \notin used

-----------------------------------------------------------------------------
(* getConnection() *)

\* semaphore.tryAcquire: its answer is ignored.
TryAcquire(t) ==
    /\ pc[t] = "start"
    /\ permits' = IF permits > 0 THEN permits - 1 ELSE permits
    /\ Goto(t, "poll")
    /\ UNCHANGED <<used, free, created, connection, open, unrolled, overlap,
                   raced>>

PeekFree(t) ==                   \* slip: peek() where poll() is
    /\ pc[t] = "poll"
    /\ IF free # <<>>
       THEN /\ connection' = [connection EXCEPT ![t] = Head(free)]
            /\ Goto(t, "add")
       ELSE /\ Goto(t, "create")
            /\ UNCHANGED connection
    /\ UNCHANGED <<permits, used, free, created, open, unrolled, overlap, raced>>

PollFree(t) ==
    /\ pc[t] = "poll"
    /\ IF free # <<>>
       THEN /\ connection' = [connection EXCEPT ![t] = Head(free)]
            /\ free' = Tail(free)
            /\ Goto(t, "add")
       ELSE /\ Goto(t, "create")
            /\ UNCHANGED <<connection, free>>
    /\ UNCHANGED <<permits, used, created, open, unrolled, overlap, raced>>

Create(t) ==
    /\ pc[t] = "create"
    /\ created < MaxCreated
    /\ created' = created + 1
    /\ connection' = [connection EXCEPT ![t] = created + 1]
    /\ Goto(t, "add")
    /\ UNCHANGED <<permits, used, free, open, unrolled, overlap, raced>>

\* The server refuses: a RuntimeException leaves getConnection(), and run()
\* with it, without the permit being given back.
CreateFails(t) ==
    /\ pc[t] = "create"
    /\ Goto(t, "start")
    /\ UNCHANGED <<permits, used, free, created, connection, open, unrolled, overlap,
                   raced>>

BeginAdd(t) ==
    /\ pc[t] = "add"
    /\ LET adders == {t} \cup {u \in Threads : pc[u] = "adding"}
       IN overlap' = IF adders # {t} /\ \E u \in adders : connection[u] \notin used
                     THEN overlap \cup adders ELSE overlap
    /\ Goto(t, "adding")
    /\ UNCHANGED <<permits, used, free, created, connection, open, unrolled, raced>>

AddIsSkipped(t) ==               \* slip: getConnection() forgets the set
    /\ pc[t] = "adding"
    /\ Goto(t, "work")
    /\ UNCHANGED <<permits, used, free, created, connection, open, unrolled, overlap,
                   raced>>

EndAdd(t) ==
    /\ pc[t] = "adding"
    /\ \E gone \in SUBSET (used \cup {connection[t]}) :
          /\ gone # {} => t \in overlap
          /\ used' = (used \cup {connection[t]}) \ gone
          /\ raced' = raced \cup gone
    /\ overlap' = overlap \ {t}
    /\ Goto(t, "work")
    /\ UNCHANGED <<permits, free, created, connection, open, unrolled>>

-----------------------------------------------------------------------------
(* run(): one transaction with autocommit off. *)

Work(t) ==
    /\ pc[t] = "work"
    /\ open' = open \cup {connection[t]}
    /\ Goto(t, "commit")
    /\ UNCHANGED <<permits, used, free, created, connection, unrolled, overlap,
                   raced>>

\* The work on t's connection is committed or rolled back.
Close(t) ==
    /\ open' = open \ {connection[t]}
    /\ unrolled' = unrolled \ {connection[t]}

Commit(t) ==
    /\ pc[t] = "commit"
    /\ Close(t)
    /\ Goto(t, "release")
    /\ UNCHANGED <<permits, used, free, created, connection, overlap, raced>>

SqlFailsWithoutRollback(t) ==    \* slip: a catch clause that only rethrows
    /\ pc[t] \in {"work", "commit"}
    /\ Goto(t, "release")
    /\ UNCHANGED <<permits, used, free, created, connection, open, unrolled, overlap,
                   raced>>

\* A statement or the commit throws SQLException: the catch clause rolls back.
SqlFails(t) ==
    /\ pc[t] \in {"work", "commit"}
    /\ Close(t)
    /\ Goto(t, "release")
    /\ UNCHANGED <<permits, used, free, created, connection, overlap, raced>>

\* rollback() throws as well: the inner catch clause swallows that.
RollbackFails(t) ==
    /\ pc[t] \in {"work", "commit"}
    /\ unrolled' = unrolled \cup (open \cap {connection[t]})
    /\ Goto(t, "release")
    /\ UNCHANGED <<permits, used, free, created, connection, open, overlap, raced>>

-----------------------------------------------------------------------------
(* releaseConnection(), called from the finally block. *)

\* run() ends and its local connection is gone.
Leave(t) ==
    /\ connection' = [connection EXCEPT ![t] = 0]
    /\ Goto(t, "start")

\* contains() answers false: the connection is neither free nor closed.
NotContained(t) ==
    /\ pc[t] = "release"
    /\ connection[t] \notin used \/ AddRunsBeside(t)
    /\ Leave(t)
    /\ UNCHANGED <<permits, used, free, created, open, unrolled, overlap, raced>>

ReleasePermit(t) ==
    /\ pc[t] = "release"
    /\ connection[t] \in used
    /\ permits' = permits + 1
    /\ Goto(t, "remove")
    /\ UNCHANGED <<used, free, created, connection, open, unrolled, overlap,
                   raced>>

\* usedConnectionSet.remove(usedConnectionSet): the set is no element of
\* itself, so nothing is removed, but its hashCode() walks over the elements.
RemoveItself(t) ==
    /\ pc[t] = "remove"
    /\ Goto(t, "offer")
    /\ UNCHANGED <<permits, used, free, created, connection, open, unrolled, overlap,
                   raced>>

RemoveThrows(t) ==
    /\ pc[t] = "remove"
    /\ AddRunsBeside(t)
    /\ Leave(t)
    /\ UNCHANGED <<permits, used, free, created, open, unrolled, overlap, raced>>

OfferBeyond(t) ==                \* slip: a queue without a capacity
    /\ pc[t] = "offer"
    /\ free' = Append(free, connection[t])
    /\ Leave(t)
    /\ UNCHANGED <<permits, used, created, open, unrolled, overlap, raced>>

\* freeConnectionQueue.offer(): false when the queue is full.
Offer(t) ==
    /\ pc[t] = "offer"
    /\ free' = IF Len(free) < MaxConnectionCount
               THEN Append(free, connection[t]) ELSE free
    /\ Leave(t)
    /\ UNCHANGED <<permits, used, created, open, unrolled, overlap, raced>>

-----------------------------------------------------------------------------

GetConnection(t) ==
    \/ TryAcquire(t) \/ PollFree(t) \/ Create(t) \/ CreateFails(t)
    \/ BeginAdd(t) \/ EndAdd(t)

Transaction(t) == Work(t) \/ Commit(t) \/ SqlFails(t) \/ RollbackFails(t)

ReleaseConnection(t) ==
    \/ NotContained(t) \/ ReleasePermit(t)
    \/ RemoveItself(t) \/ RemoveThrows(t) \/ Offer(t)

Next ==
    \E t \in Threads : GetConnection(t) \/ Transaction(t) \/ ReleaseConnection(t)

Spec == Init /\ [][Next]_vars

-----------------------------------------------------------------------------
(* Properties *)

Held == {connection[t] : t \in Threads} \ {0}
Free == {free[i] : i \in 1 .. Len(free)}

TypeOK ==
    /\ permits \in Nat
    /\ used \subseteq 1 .. created
    /\ free \in Seq(1 .. created)
    /\ Len(free) <= MaxConnectionCount
    /\ created \in 0 .. MaxCreated
    /\ connection \in [Threads -> 0 .. created]
    /\ open \subseteq 1 .. created
    /\ unrolled \subseteq open
    /\ overlap \subseteq Threads
    /\ raced \subseteq 1 .. created
    /\ pc \in [Threads -> {"start", "poll", "create", "add", "adding", "work",
                           "commit", "release", "remove", "offer"}]

\* getConnection() hands a connection to one thread at a time, and none that
\* is still in the free queue, although used connections stay in the used set
\* for good and threads pass without a permit.
OneThreadPerConnection ==
    /\ \A t, u \in Threads :
          connection[t] # 0 /\ connection[t] = connection[u] => t = u
    /\ Held \cap Free = {}
    /\ Cardinality(Free) = Len(free)

\* The next user of a pooled connection does not find the work of the last
\* one on it: every way through run() commits or rolls back before the
\* finally block releases the connection.  The exception is the connection
\* whose rollback() failed: it goes back to the pool as it is.
NoOpenTransactionInPool == open \cap Free \subseteq unrolled

\* A connection disappears from the pool only when the free queue is full or
\* when two threads meet in the unsynchronized HashSet.
Lost == (1 .. created) \ (Held \cup Free)
LostOnlyWhenFullOrRacing ==
    [][\A c \in Lost' \ Lost :
          \/ Len(free) = MaxConnectionCount
          \/ c \in raced
          \/ \E t \in Threads : connection[t] = c /\ AddRunsBeside(t)]_vars

\* What the theorems need beyond TypeOK: where each connection is, and what a
\* place says of the connection there.
Apart ==
    /\ \A t, u \in Threads :
          connection[t] # 0 /\ connection[t] = connection[u] => t = u
    /\ \A t \in Threads, i \in 1 .. Len(free) : free[i] # connection[t]
    /\ \A i, j \in 1 .. Len(free) : free[i] = free[j] => i = j

PlaceInv ==
    \A t \in Threads :
        /\ connection[t] = 0 <=> pc[t] \in {"start", "poll", "create"}
        /\ pc[t] # "commit" => connection[t] \notin open \ unrolled
        /\ pc[t] \in {"work", "commit", "release", "remove", "offer"} =>
              connection[t] \in used \cup raced

IInv == TypeOK /\ Apart /\ PlaceInv /\ NoOpenTransactionInPool
===============================================================================
