---------------------------- MODULE TestSemaphore ----------------------------
(***************************************************************************)
(* com.matcha.semaphore: GetConnectionRunnables wait for a latch, pass a   *)
(* java.util.concurrent.Semaphore and take a connection from the pool that *)
(* the first of them creates (SimulateConnectionPool, a singleton created  *)
(* by double-checked locking).  Nothing but the Semaphore keeps them from  *)
(* finding the pool empty, and getConnection() throws when they do.        *)
(***************************************************************************)
EXTENDS Integers, FiniteSets

CONSTANTS
    Threads,      \* the GetConnectionRunnables
    Permits,      \* of the Semaphore: 10 in TestSemaphore
    PoolSize      \* of SimulateConnectionPool: 10

ASSUME ThreadsAssumption == IsFiniteSet(Threads)
ASSUME PermitsAssumption == Permits \in Nat \ {0}
ASSUME PoolAssumption == PoolSize \in Nat /\ Permits <= PoolSize

VARIABLES
    latchOpen,   \* main has called countDown()
    permits,     \* of the Semaphore
    instances,   \* how often "instance" was assigned; it refers to the last
    free,        \* the concurrentLinkedQueue of every instance
    pool,        \* the local connectionPool, 0 before it is assigned
    connection,  \* the local connection of a thread, NoConnection for null
    pc,          \* where in run() a thread is
    refused,     \* history: the threads that got a NoConnectionException
    interrupted  \* history: the threads interrupted in await() or acquire()

history == <<refused, interrupted>>
vars == <<latchOpen, permits, instances, free, pool, connection, pc, history>>

\* A connection is a number and the pool it was created for.
Connection == (Nat \ {0}) \X (1 .. PoolSize)
NoConnection == <<0, 0>>

Init ==
    /\ latchOpen = FALSE
    /\ permits = Permits
    /\ instances = 0
    /\ free = {}
    /\ pool = [t \in Threads |-> 0]
    /\ connection = [t \in Threads |-> NoConnection]
    /\ pc = [t \in Threads |-> "await"]
    /\ refused = {}
    /\ interrupted = {}

Goto(t, place) == pc' = [pc EXCEPT ![t] = place]

\* main: countDownLatch.countDown(), once every thread is started.
CountDown ==
    /\ ~latchOpen
    /\ latchOpen' = TRUE
    /\ UNCHANGED <<permits, instances, free, pool, connection, pc, history>>

\* countDownLatch.await()
Await(t) ==
    /\ pc[t] = "await"
    /\ latchOpen
    /\ Goto(t, "acquire")
    /\ UNCHANGED <<latchOpen, permits, instances, free, pool, connection, history>>

AcquireUnguarded(t) ==           \* slip: an acquire that never waits
    /\ pc[t] = "acquire"
    /\ permits' = permits - 1
    /\ Goto(t, "getInstance")
    /\ UNCHANGED <<latchOpen, instances, free, pool, connection, history>>

\* semaphore.acquire()
Acquire(t) ==
    /\ pc[t] = "acquire"
    /\ permits > 0
    /\ permits' = permits - 1
    /\ Goto(t, "getInstance")
    /\ UNCHANGED <<latchOpen, instances, free, pool, connection, history>>

\* await() or acquire() throws: the finally block releases a permit that the
\* thread has not got.
Interrupt(t) ==
    /\ pc[t] \in {"await", "acquire"}
    /\ interrupted' = interrupted \cup {t}
    /\ Goto(t, "release")
    /\ UNCHANGED <<latchOpen, permits, instances, free, pool, connection, refused>>

\* getInstance(): the check outside the monitor.
CheckInstance(t) ==
    /\ pc[t] = "getInstance"
    /\ Goto(t, IF instances = 0 THEN "createInstance" ELSE "returnInstance")
    /\ UNCHANGED <<latchOpen, permits, instances, free, pool, connection, history>>

\* createInstance(): synchronized, and the volatile write comes last, so no
\* thread sees a pool that is not filled.
CreateUnchecked(t) ==            \* slip: no second check inside the monitor
    /\ pc[t] = "createInstance"
    /\ instances' = instances + 1
    /\ free' = free \cup ({instances + 1} \X (1 .. PoolSize))
    /\ Goto(t, "returnInstance")
    /\ UNCHANGED <<latchOpen, permits, pool, connection, history>>

CreateInstance(t) ==
    /\ pc[t] = "createInstance"
    /\ \/ /\ instances = 0
          /\ instances' = instances + 1
          /\ free' = free \cup ({instances + 1} \X (1 .. PoolSize))
       \/ /\ instances # 0
          /\ UNCHANGED <<instances, free>>
    /\ Goto(t, "returnInstance")
    /\ UNCHANGED <<latchOpen, permits, pool, connection, history>>

ReturnInstance(t) ==
    /\ pc[t] = "returnInstance"
    /\ pool' = [pool EXCEPT ![t] = instances]
    /\ Goto(t, "getConnection")
    /\ UNCHANGED <<latchOpen, permits, instances, free, connection, history>>

FreeIn(p) == {c \in free : c[1] = p}

\* getConnection(): concurrentLinkedQueue.poll() finds a connection ...
PollWithoutRemoving(t) ==        \* slip: peek() where poll() is
    /\ pc[t] = "getConnection"
    /\ \E c \in FreeIn(pool[t]) : connection' = [connection EXCEPT ![t] = c]
    /\ Goto(t, "close")
    /\ UNCHANGED <<latchOpen, permits, instances, free, pool, history>>

GetConnection(t) ==
    /\ pc[t] = "getConnection"
    /\ \E c \in FreeIn(pool[t]) :
          /\ connection' = [connection EXCEPT ![t] = c]
          /\ free' = free \ {c}
    /\ Goto(t, "close")
    /\ UNCHANGED <<latchOpen, permits, instances, pool, history>>

\* ... or null, and NoConnectionException leaves "connection" null.
NoConnectionException(t) ==
    /\ pc[t] = "getConnection"
    /\ FreeIn(pool[t]) = {}
    /\ refused' = refused \cup {t}
    /\ Goto(t, "release")
    /\ UNCHANGED <<latchOpen, permits, instances, free, pool, connection, interrupted>>

CloseNothing(t) ==               \* slip: close() that drops the connection
    /\ pc[t] = "close"
    /\ connection' = [connection EXCEPT ![t] = NoConnection]
    /\ Goto(t, "release")
    /\ UNCHANGED <<latchOpen, permits, instances, free, pool, history>>

\* finally: connection.close() offers the connection to its pool again; no
\* statement after it reads the local variable.
Close(t) ==
    /\ pc[t] = "close"
    /\ free' = free \cup {connection[t]}
    /\ connection' = [connection EXCEPT ![t] = NoConnection]
    /\ Goto(t, "release")
    /\ UNCHANGED <<latchOpen, permits, instances, pool, history>>

\* finally: semaphore.release(), whether or not acquire() succeeded.
Release(t) ==
    /\ pc[t] = "release"
    /\ permits' = permits + 1
    /\ Goto(t, "done")
    /\ UNCHANGED <<latchOpen, instances, free, pool, connection, history>>

Run(t) ==
    \/ Await(t) \/ Acquire(t)
    \/ CheckInstance(t) \/ CreateInstance(t) \/ ReturnInstance(t)
    \/ GetConnection(t) \/ NoConnectionException(t)
    \/ Close(t) \/ Release(t)

Next == CountDown \/ \E t \in Threads : Run(t) \/ Interrupt(t)

Spec == Init /\ [][Next]_vars

\* main opens the latch and a thread that can go on does.  A thread passes
\* the Semaphore once, so that no more than this is asked of it.
Fairness == WF_vars(CountDown) /\ \A t \in Threads : WF_vars(Run(t))

FairSpec == Spec /\ Fairness

-----------------------------------------------------------------------------
(* Properties *)

Places == {"await", "acquire", "getInstance", "createInstance",
           "returnInstance", "getConnection", "close", "release", "done"}

TypeOK ==
    /\ latchOpen \in BOOLEAN
    /\ permits \in Nat
    /\ instances \in Nat
    /\ free \subseteq Connection
    /\ pool \in [Threads -> Nat]
    /\ connection \in [Threads -> Connection \cup {NoConnection}]
    /\ pc \in [Threads -> Places]
    /\ refused \subseteq Threads
    /\ interrupted \subseteq Threads

\* The threads between acquire() and release(), and those with a connection.
Inside == {t \in Threads : pc[t] \notin {"await", "acquire", "done"}}
Holding == {t \in Threads : pc[t] = "close"}

\* The permits are taken before the pool is asked and given back after it, so
\* getConnection() throws no NoConnectionException, as long as the permits that
\* interrupted threads release without having them leave enough connections.
NeverRefused ==
    Permits + Cardinality(interrupted) <= PoolSize => refused = {}

\* A connection is in the hands of one thread, and not in the pool meanwhile.
ConnectionsAreExclusive ==
    \A t \in Threads : connection[t] # NoConnection =>
        /\ connection[t] \notin free
        /\ \A u \in Threads : connection[u] = connection[t] => u = t

\* The double-checked locking of getInstance() creates one pool.
OnePool == instances <= 1

\* A thread holds a connection exactly where its place says so, and from
\* returnInstance on there is a pool.
PlaceInv ==
    \A t \in Threads :
        /\ connection[t] # NoConnection <=> pc[t] = "close"
        /\ pc[t] = "close" => connection[t][1] = instances
        /\ pc[t] \in {"returnInstance", "getConnection", "close"} => instances = 1
        /\ pc[t] = "getConnection" => pool[t] = 1
        /\ pc[t] \in {"await", "acquire"} => t \notin interrupted

FreeInv == free \subseteq {instances} \X (1 .. PoolSize)

\* No connection is lost.
Conserved == Cardinality(free) + Cardinality(Holding) = PoolSize * instances

\* A thread gives back the permit it took, and an interrupted one makes one.
PermitInv == permits + Cardinality(Inside) = Permits + Cardinality(interrupted)

\* The strengthening that every step preserves.
IInv ==
    /\ TypeOK
    /\ OnePool
    /\ ConnectionsAreExclusive
    /\ PlaceInv
    /\ FreeInv
    /\ Conserved
    /\ PermitInv
    /\ NeverRefused

\* When all threads have ended, all connections are back and all permits too,
\* with one more for each thread that was interrupted.
Done == \A t \in Threads : pc[t] = "done"
AllIsBack ==
    /\ permits = Permits + Cardinality(interrupted)
    /\ Cardinality(free) = PoolSize * instances
BackWhenDone == Done => AllIsBack

\* Every thread ends, and leaves everything as it should be.
AllComeBack == <>[](Done /\ AllIsBack)
==============================================================================
