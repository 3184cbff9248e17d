------------------------ MODULE ConnectionPoolBuilder ------------------------
(***************************************************************************)
(* com.matcha.db.ConnectionPoolBuilder: one static HashMap from the key    *)
(* "url@user" to its ConnectionPool, read under the read lock and filled   *)
(* under the write lock of a nonfair ReentrantReadWriteLock.  build()      *)
(* gives the read lock up before it asks for the write lock, so the map    *)
(* may change between the two and is looked at again.                      *)
(*                                                                         *)
(* A key is an opaque value; threads with different builders may use the   *)
(* same one.  Pools are numbered in the order of their construction.       *)
(***************************************************************************)
EXTENDS Integers, Sequences

CONSTANTS Threads, Keys

ASSUME ThreadsAssumption == 0 \notin Threads

VARIABLES
    pools,    \* connectionPoolMap: 0 for a key without a pool
    made,     \* pools constructed so far
    readers,  \* threads that hold the read lock
    writer,   \* the thread that holds the write lock, or 0
    queue,    \* threads parked for one of the two locks, in order of arrival
    key,      \* the dbKey of a thread's call
    answer,   \* the local connectionPool of a thread's call, 0 for null
    pc

vars == <<pools, made, readers, writer, queue, key, answer, pc>>

Init ==
    /\ pools = [k \in Keys |-> 0]
    /\ made = 0
    /\ readers = {}
    /\ writer = 0
    /\ queue = <<>>
    /\ key \in [Threads -> Keys]
    /\ answer = [t \in Threads |-> 0]
    /\ pc = [t \in Threads |-> "idle"]

Goto(t, place) == pc' = [pc EXCEPT ![t] = place]

-----------------------------------------------------------------------------
(* build() *)

Build(t, k) ==
    /\ pc[t] = "idle"
    /\ key' = [key EXCEPT ![t] = k]
    /\ answer' = [answer EXCEPT ![t] = 0]
    /\ Goto(t, "readLock")
    /\ UNCHANGED <<pools, made, readers, writer, queue>>

\* readLock.lock() does not pass a writer that is first in the queue.
FirstIsWriter == queue # <<>> /\ pc[Head(queue)] = "writeQueued"

ReadLockUnguarded(t) ==          \* slip: read without a lock
    /\ pc[t] = "readLock"
    /\ readers' = readers \cup {t}
    /\ Goto(t, "get")
    /\ UNCHANGED <<pools, made, writer, queue, key, answer>>

ReadLock(t) ==
    /\ pc[t] = "readLock"
    /\ writer = 0 /\ ~FirstIsWriter
    /\ readers' = readers \cup {t}
    /\ Goto(t, "get")
    /\ UNCHANGED <<pools, made, writer, queue, key, answer>>

ReadQueue(t) ==
    /\ pc[t] = "readLock"
    /\ writer # 0 \/ FirstIsWriter
    /\ queue' = Append(queue, t)
    /\ Goto(t, "readQueued")
    /\ UNCHANGED <<pools, made, readers, writer, key, answer>>

ReadFromQueue(t) ==
    /\ pc[t] = "readQueued"
    /\ queue # <<>> /\ t = Head(queue)
    /\ writer = 0
    /\ queue' = Tail(queue)
    /\ readers' = readers \cup {t}
    /\ Goto(t, "get")
    /\ UNCHANGED <<pools, made, writer, key, answer>>

Get(t) ==
    /\ pc[t] = "get"
    /\ answer' = [answer EXCEPT ![t] = pools[key[t]]]
    /\ Goto(t, "unlockRead")
    /\ UNCHANGED <<pools, made, readers, writer, queue, key>>

UnlockReadOnlyIfFound(t) ==      \* slip: the lock is upgraded in place
    /\ pc[t] = "unlockRead"
    /\ readers' = IF answer[t] # 0 THEN readers \ {t} ELSE readers
    /\ Goto(t, IF answer[t] # 0 THEN "idle" ELSE "writeLock")
    /\ UNCHANGED <<pools, made, writer, queue, key, answer>>

\* The finally block; build() returns the pool or goes on to
\* buildConnectionPool().
UnlockRead(t) ==
    /\ pc[t] = "unlockRead"
    /\ readers' = readers \ {t}
    /\ Goto(t, IF answer[t] # 0 THEN "idle" ELSE "writeLock")
    /\ UNCHANGED <<pools, made, writer, queue, key, answer>>

-----------------------------------------------------------------------------
(* buildConnectionPool() *)

\* writeLock.lock() takes a free lock without a look at the queue.
WriteLock(t) ==
    /\ pc[t] = "writeLock"
    /\ writer = 0 /\ readers = {}
    /\ writer' = t
    /\ Goto(t, "recheck")
    /\ UNCHANGED <<pools, made, readers, queue, key, answer>>

WriteQueue(t) ==
    /\ pc[t] = "writeLock"
    /\ writer # 0 \/ readers # {}
    /\ queue' = Append(queue, t)
    /\ Goto(t, "writeQueued")
    /\ UNCHANGED <<pools, made, readers, writer, key, answer>>

WriteFromQueue(t) ==
    /\ pc[t] = "writeQueued"
    /\ queue # <<>> /\ t = Head(queue)
    /\ writer = 0 /\ readers = {}
    /\ queue' = Tail(queue)
    /\ writer' = t
    /\ Goto(t, "recheck")
    /\ UNCHANGED <<pools, made, readers, key, answer>>

NoRecheck(t) ==                  \* slip: the map is not looked at again
    /\ pc[t] = "recheck"
    /\ Goto(t, "put")
    /\ UNCHANGED <<pools, made, readers, writer, queue, key, answer>>

Recheck(t) ==
    /\ pc[t] = "recheck"
    /\ answer' = [answer EXCEPT ![t] = pools[key[t]]]
    /\ Goto(t, IF pools[key[t]] # 0 THEN "unlockWrite" ELSE "put")
    /\ UNCHANGED <<pools, made, readers, writer, queue, key>>

PutBeforeMade(t) ==              \* slip: put() before the constructor has run
    /\ pc[t] = "put"
    /\ pools' = [pools EXCEPT ![key[t]] = made + 1]
    /\ Goto(t, "unlockWrite")
    /\ UNCHANGED <<made, readers, writer, queue, key, answer>>

\* new ConnectionPool(...) and put().
Put(t) ==
    /\ pc[t] = "put"
    /\ made' = made + 1
    /\ pools' = [pools EXCEPT ![key[t]] = made + 1]
    /\ answer' = [answer EXCEPT ![t] = made + 1]
    /\ Goto(t, "unlockWrite")
    /\ UNCHANGED <<readers, writer, queue, key>>

UnlockWrite(t) ==
    /\ pc[t] = "unlockWrite"
    /\ writer' = 0
    /\ Goto(t, "idle")
    /\ UNCHANGED <<pools, made, readers, queue, key, answer>>

Step(t) ==
    \/ ReadLock(t) \/ ReadQueue(t) \/ ReadFromQueue(t) \/ Get(t) \/ UnlockRead(t)
    \/ WriteLock(t) \/ WriteQueue(t) \/ WriteFromQueue(t)
    \/ Recheck(t) \/ Put(t) \/ UnlockWrite(t)

Next == \E t \in Threads : Step(t) \/ \E k \in Keys : Build(t, k)

Spec == Init /\ [][Next]_vars

\* A thread inside build() runs; whether it calls build() again is its choice.
FairSpec == Spec /\ \A t \in Threads : WF_vars(Step(t))

-----------------------------------------------------------------------------
(* Properties *)

TypeOK ==
    /\ made \in Nat
    /\ pools \in [Keys -> 0 .. made]
    /\ readers \subseteq Threads
    /\ writer \in Threads \cup {0}
    /\ queue \in Seq(Threads)
    /\ key \in [Threads -> Keys]
    /\ answer \in [Threads -> 0 .. made]
    /\ pc \in [Threads -> {"idle", "readLock", "readQueued", "get", "unlockRead",
                           "writeLock", "writeQueued", "recheck", "put",
                           "unlockWrite"}]

\* All calls of build() for one key return the same pool, the one in the
\* map, and calls for different keys different ones, although two threads may
\* both have read null before either takes the write lock.
OnePoolPerKey ==
    /\ \A t \in Threads : answer[t] # 0 => answer[t] = pools[key[t]]
    /\ \A k, l \in Keys : pools[k] = pools[l] /\ pools[k] # 0 => k = l

\* No get() runs while a put() changes the HashMap, and no two put()s meet.
MapIsGuarded ==
    \A t, u \in Threads :
        pc[t] = "put" /\ pc[u] \in {"get", "recheck", "put"} => t = u

\* A pool stays in the map for good.
PoolsStay == [][\A k \in Keys : pools[k] # 0 => pools'[k] = pools[k]]_vars

\* Every build() returns: no thread waits for the write lock with its own
\* read lock still held.
EveryBuildReturns == \A t \in Threads : pc[t] # "idle" ~> pc[t] = "idle"

-----------------------------------------------------------------------------
(* The strengthening that makes the two invariants inductive. *)

Reading == {"get", "unlockRead"}
Writing == {"recheck", "put", "unlockWrite"}

Locked ==
    /\ writer # 0 => readers = {}
    /\ \A t \in Threads : pc[t] \in Reading => t \in readers
    /\ \A t \in Threads : pc[t] \in Writing <=> writer = t
    /\ \A t \in Threads : pc[t] = "put" => pools[key[t]] = 0

IInv == TypeOK /\ Locked /\ OnePoolPerKey
==============================================================================
