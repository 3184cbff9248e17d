# TLA+ specifications of LearnJava

The repository is a collection of Java programs, most of them small studies of
concurrency: a lock built on `AbstractQueuedSynchronizer`, a blocking queue, two
connection pools, hand-offs between threads, servers and clients. There is no single
program; what the parts share is a shape. A `main` starts threads, the threads meet in
a shared object, and the object (or `main`) decides who goes on. The specifications
model those shared objects with the threads that use them, step by step where another
thread can get in between.

Paths are relative to the root of the repository; `J/` stands for
`Test/src/com/matcha/`.

## 1. The parts, their state and what makes them correct

| Part | State | Operations | How it interacts | What is hard about it |
| --- | --- | --- | --- | --- |
| `J/lock/app/TwinsLock` | the AQS word (permits left), a `ThreadLocal` `Counter` per thread, the AQS queue | `lock`, `lockInterruptibly`, `tryLock`, timed `tryLock`, `unlock` | called by any number of threads; `FairSync` and `NonFairSync` are called back by AQS | compare-and-set loops of several threads, lost wake-ups, time-outs that race a release, re-entry, overtaking |
| `J/lock/TestTwinsLock` | three lists of threads | one acquire, a sleep, one `unlock` each | drives `TwinsLock` | `unlock()` by a thread that did not get the lock |
| `J/lock/app/MyLinkedBlockingQueue` | an array, `startIndex`, `insertIndex`, one fair lock, two conditions | the `BlockingQueue` interface | producers and consumers | the end of the array, conditions that nobody signals, spurious wake-ups |
| `J/semaphore` | latch, semaphore, singleton pool with its queue of connections | `acquire`, `getInstance`, `getConnection`, `close`, `release` | ten permits keep more threads away from ten connections | double-checked locking, an empty pool, interrupts |
| `J/db/ConnectionPool`, `J/db/*TransactionIsolationRunnable` | semaphore, used set, free queue | `getConnection`, `releaseConnection`, one transaction | three transactions share a pool | no lock around the two collections, an ignored `tryAcquire`, failing SQL |
| `J/db/ConnectionPoolBuilder` | a static `HashMap` behind a read-write lock | `build` | every thread that wants a pool | the gap between the read lock and the write lock |
| `TestConcurrentLinkedQueue`, `TestConcurrentLinkedDeque` | counter, queue or deque, latch, a stop flag per poller | offer, poll, count down, stop | offerers, pollers and `main` | the last element, the moment of stopping |
| `J/lock/factory/ReadWriteThreadFacotry`, `J/lock/app/Cache` | a latch in a field, replaced when it is opened; a map behind a fair read-write lock | start all threads; get, put | the threads read the field when they run, and share one `Cache` | a thread that reads the latch after it was replaced; a `Cache` that is published without a barrier |
| `J/lock/factory/DefaultThreadFacotry`, `J/lock/thread/ReentrantLockTryCallable` | a latch in a field of a singleton, an index | make threads, start all threads; try a lock | several callers share the factory | check, replace and read of the latch by two callers; `unlock()` decided by a flag |
| `J/lock/LockAwaitTestClass`, `J/lock/TestLockInterruptibly` | a lock, a condition | await, signal; lock, interrupt | two or four threads | a signal before the await; a thread that ends with the lock |
| `J/threadtest/factory`, `J/threadtest/ThreadGroupTest2` | thread groups, a latch | wait on, destroy | `main` and its groups | waiting for a notification that does not come |
| `J/threadtest/TestProviderAndCustomer` | a queue per customer, a thread group | offer, take, interrupt | a provider and customers | the interrupt that means "finish" |
| `J/threadtest/pool/MatchaThreadPool` | a queue of five jobs, five workers | submit, run | callers, jobs that submit, workers | the full queue, a job that throws, a job that interrupts its worker |
| `J/cyclicbarrier`, `J/forkjoin` | two sums and a barrier; a tree of tasks | count; compute | two threads and a barrier action; a pool of its own | the answer before the merge; the split that loses a number |
| `J/callable`, schedules | what the JDK class keeps | | | small |
| `NIOAppServer` | selector, session map behind a read-write lock | accept; session get, put, contains | one server thread | `Session` unlocks the wrong lock |
| `TestServer` | a listening socket, a pool of three threads, a servlet singleton | accept, dispatch, answer | clients over TCP | clients that crash, `accept()` that fails, sockets left open |
| `TestNIO` datagrams | the connected client's address, the connected channel | connect, print, disconnect | one client at a time over UDP | lost, repeated and reordered datagrams; a session that nobody ends |
| `TestNIO` `TestSelectStatus` | a selector, one buffer for all connections | accept, read, close | clients over TCP | a text in several pieces, the shared buffer |
| `TestNIO` others | stream server, pipes, file locks | | | small |
| `J/security` | a remote service, a login module | one request, one answer | | nothing is exchanged |
| `TestGeneric`, `TestExternalizable` | growing arrays; single objects | add, get, remove; serialize | | growth one too early or too late |
| other demos, `XML`, `XSD`, `UML` | none | | | |

`PROJECT.json` lists them all, with the hazards of the code at their lines.

For each modelled part, what makes it correct is:

* **TwinsLock**: permits are neither lost nor made; while there is a permit and a
  waiter, somebody is about to use one or wake the other; at most `Count` threads are
  inside, re-entry costs nothing and only the outermost `unlock` gives back; with
  `FairSync` a waiter is passed at most once by each other thread, and is served.
* **MyLinkedBlockingQueue**: an element that is in the queue is found; each operation
  does what a bounded FIFO queue does.
* **semaphore**: a connection is in one pair of hands; no thread finds the pool empty;
  there is one pool; everything is given back.
* **ConnectionPool**: a connection is in one pair of hands, goes back without open
  work, and is not lost.
* **ConnectionPoolBuilder**: one pool per key, forever; the map is never touched beside
  a `put`; every `build` returns.
* **hand-off**: everybody offered is delivered once; the pollers stop only afterwards;
  every thread ends.
* **thread factories**: a thread waits on a latch that is yet to be opened; there is one
  `Cache`, and its map is not touched beside a writer; a thread unlocks what it locked.
* **waiting and notifying**: whoever waits is still to be woken; a group is destroyed
  when it is empty; a customer leaves with all that was offered to it.
* **MatchaThreadPool**: jobs begin once, in the order in which they were accepted; none
  is lost; a `FutureTask` costs no worker its thread.
* **datagram server**: one client at a time has the session, whatever the network does,
  and what it takes to leave a session that nobody ends.
* **Session**: a `put` is alone in the map; only the timed `get` leaves a lock behind.
* **TestServer** and the **selector server**: every client gets its answer, or its text
  printed, unmixed with another's; no path through `dispatchRequest()` leaves a socket open,
  and the one before it does so only for a thread that read the servlet's field too early.
* **growing arrays**: they are lists.

## 2. The modules

| Module | Models | Uses |
| --- | --- | --- |
| `CountedLock` | what a `TwinsLock` promises its callers (abstract) | |
| `TwinsLock` | `TwinsLock.java`, with AQS as an external part | `CountedLock` by refinement |
| `TwinsLockOvertaking` | `TwinsLock` with a history of who passed whom | extends `TwinsLock` |
| `TestTwinsLock` | the driver: each thread's `run()` around the lock's steps | extends `TwinsLock` |
| `BoundedFifo` | what `BlockingQueue` promises of the elements (abstract) | |
| `MyLinkedBlockingQueue` | `MyLinkedBlockingQueue.java` | `BoundedFifo` by refinement |
| `TestSemaphore` | the package `semaphore` | |
| `ConnectionPool` | `ConnectionPool.java` and the three transactions on it | |
| `ConnectionPoolBuilder` | `ConnectionPoolBuilder.java` | |
| `HandOff` | both hand-off programs | |
| `ReadWriteThreadFacotry` | the factory, `TestReadWriteLock` and the `Cache` its threads use | |
| `DefaultThreadFacotry` | the factory, `LockTestClass2` and `ReentrantLockTryCallable` | |
| `LockAwaitTestClass`, `TestLockInterruptibly` | the demos of those names | |
| `ThreadGroupThreadFactory` | the factory and `ThreadGroupTest2` | |
| `TestProviderAndCustomer` | the program of that name | |
| `JobPool` | what a pool of threads promises of its jobs (abstract) | |
| `MatchaThreadPool` | `MatchaThreadPool.java` | `JobPool` by refinement |
| `CountHelper`, `CountTask` | the barrier and the fork-join sums | |
| `GrowingList` | a list (abstract) | |
| `GenericArrayWithT` | the growing arrays of `TestGeneric` | `GrowingList` by refinement |
| `ExclusiveSession` | what the datagram server promises whatever the network does (abstract) | |
| `DatagramServer` | `StartDatagramSocketServer`, its clients and the network | `ExclusiveSession` by refinement |
| `Session` | `Session.java` of the NIO application server | |
| `StartServer` | `TestServer`: accept loop, pool, servlet, clients | |
| `ServerThread` | the server and the clients of `TestSelectStatus` | |
| `Programs` | ten small programs, one per behaviour | extends `MatchaThreadPool`, instantiates nine others |
| `ServerPrograms` | four servers, one per behaviour | extends `DatagramServer`, instantiates three others |
| `TestSemaphoreProofs`, `ConnectionPoolBuilderProofs`, `HandOffProofs`, `MyLinkedBlockingQueueProofs`, `ConnectionPoolProofs` | theorems and proofs | extend the module they are about |
| `TwinsLockProofs` | theorems and proofs about the lock, its history and its driver | extends `TwinsLockOvertaking`, instantiates `TestTwinsLock` |
| `ProgramsProofs`, `ServerProgramsProofs` | theorems and proofs about the small programs and servers, one by one and together | extend `Programs`, `ServerPrograms` |
| `MC...` | instances for TLC | extend the module they are about |

In most modules a thread has a place (`pc`, or `stage`, `offerer`, `poller`) and the
locals that outlive a step; a place names the statement that runs next. A step ends
where another thread can see, or change, what the code reads next: an atomic variable,
a compare-and-set, a lock, a queue operation. Operators commented `slip:` are not part
of a specification: each is the form an action would have with a plausible mistake in
it, and shows that a property would notice.

### TwinsLock

`state` is the AQS word and `counter[t]` the thread's `Counter` (0 for the `null` of the
`ThreadLocal`). `shouldAcquire()`, the read `getState()` and `compareAndSetState()` of
`tryAcquireShared` are separate steps, and so are the read and the compare-and-set of
`tryReleaseShared`. As in the code, `shouldAcquire()` is asked once per call, before the
loop: a thread whose compare-and-set failed goes back to the read and not to the
question (`CasAcquireFails`).

AQS is not in the repository; it is modelled as `TwinsLock` uses it: a FIFO `queue`
whose first member alone may try, one park permit (`token`) per thread, `setHead` that
propagates because the answer of `tryAcquireShared` was positive, and a wake-up after a
release that answered `true`. A queued thread looks once more before it parks, which is
why it joins with a park permit. `Cancel` is the time-out or the interrupt of the two
methods that end by them; `Interrupt` is that of `lock()`, which only looks again.

`TwinsLockOvertaking` adds a history, for each thread the waiting threads it has passed.
`TestTwinsLock` puts each thread's `run()` around the lock: its actions are conjunctions
of an action of `TwinsLock` and a move of the driver. `unlock()` by a thread without a
`Counter` changes nothing and kills the thread (`FinallyWithoutLock`).

### MyLinkedBlockingQueue

Each method holds the lock from start to end, so it is one step, except where it
awaits. `elements` is the whole array, with what was left behind the indices:
`contains(o)` and the copy loop of `remove(o)` see it. `CleanArray` is the code that
runs after every store: when the last slot is taken it moves the window to the front
and leaves both indices where they are. Nothing signals a condition, so a waiting
thread comes back by its time-out or an interrupt (`GiveUp`) or by a spurious wake-up
(`WakeFull`, `WakeEmpty`) and then goes on without a second look, as the `if` in the
code does. `remove(o)` is enabled where it does not throw: below the end of the array
it copies one slot more than lies behind the removed one, and at the end `arraycopy`
throws before anything changes.

### TestSemaphore

`latchOpen`, `permits`, `instances` (how often the singleton was assigned), `free`, and
the locals of the threads. The check outside the monitor, the monitor and the read
after it are three steps. `Interrupt` is an `InterruptedException` out of `await()` or
`acquire()`: the `finally` block then releases a permit the thread never had.
`refused` and `interrupted` are histories.

### ConnectionPool

Every statement of `getConnection` and `releaseConnection` that touches the semaphore,
the set or the queue is a step. The `HashSet` is not synchronized: two `add()`s that
overlap (`overlap`) may lose any of the elements, `contains()` beside an `add()` may
miss one, and `hashCode()` beside an `add()` may throw; the choice is
nondeterministic. `remove(usedConnectionSet)` removes nothing. The three `run()`
methods have the same control and are one: work, commit or roll back, release.
`Commit`, `SqlFails` and `RollbackFails` are the three ways a transaction may end.

### ConnectionPoolBuilder

Pools are numbered as they are constructed. The nonfair `ReentrantReadWriteLock` is
modelled with its queue: a reader does not pass a writer that is first in the queue, a
writer takes a free lock at once. `Recheck` is the second look under the write lock.

### HandOff

A person is the value of the counter that let it be offered. The lock-free collection
is a sequence with atomic operations at both ends. With no offerer at the head and all
pollers there it is the `ConcurrentLinkedQueue`; the proofs are for every such choice.

### ReadWriteThreadFacotry and DefaultThreadFacotry

Both factories keep a latch in a field and replace it, at different moments. In
`ReadWriteThreadFacotry` a thread reads the field when it runs, and `startAllThread()`
opens the latch and then replaces it (`CountDown`, `Replace`): latches are numbered, and
a thread remembers the one it found. A thread that reads after the last call waits for
one that is never opened, which the liveness property names. The `Cache` behind it is
made by a double-checked lock on a field that is not volatile: a thread that has not been
in `createInstance()` may read `null`, the whole object, or one whose lock it does not see
yet; then it dies of a `NullPointerException`.

In `DefaultThreadFacotry`, `newThread()` looks whether the latch is open, replaces it,
makes the thread and reads the latch, one step each; two callers may both replace, and
the thread of the first waits on a latch that is in no field any more. `StrandedByRace`
says that nothing else strands a thread. `getLock` is true until `tryLock()` has
answered, so that an interrupt leads to an `unlock()` without the lock.

### LockAwaitTestClass, TestLockInterruptibly

Both are a few steps each. `LockAwaitTestClass` may signal before the other thread
awaits; there is no condition to look at, so the signal is lost and the thread waits for
good (line 50), with the lock free. The fourth thread of
`TestLockInterruptibly` interrupts the second and the third; a thread that got the lock
ends with it, and the first or the third may then wait for good.

### ThreadGroupThreadFactory, TestProviderAndCustomer

Of `java.lang.ThreadGroup` the model has what the code relies on: `activeCount()` counts
the threads of child groups, a thread that leaves notifies only its own group and only
as the last one, `destroy()` throws for a group with threads. `wait()` may return
spuriously. Destroying the second group before the first is what keeps the loop of
`destroyThreadGroup` from waiting for a notification that nobody sends
(`NotificationToCome`); `main` has no such care when it waits for the first group, and
may miss its notification.

In `TestProviderAndCustomer` the interrupt of the group is all that tells a customer to
finish. A customer that is not in `take()` keeps it as its flag; `InterruptIsKept` and
`ReturnsWithAll` say that it is neither lost nor too early. `main` waits for the group
once and without a loop; woken spuriously, it destroys a group with threads.

### MatchaThreadPool

`jobQueue` holds the numbers of the accepted jobs. `add()` is enabled when there is room;
a refused caller has changed nothing. A job may submit jobs, interrupt its worker, end,
or, when it is a plain `Runnable`, end with an exception that takes the worker with it
(`Break`). A worker that carries an interrupt ends at its next `take()`. The constructor
of the pool is private and the repository has no caller, so the callers are any.

### CountHelper, CountTask, GenericArrayWithT

`CountHelper` adds as the two `CountRunnable`s do, meets at the barrier, and merges in
the thread that came last, before the latch is opened. `CountTask` is the tree of
subtasks that `compute()` forks and joins, in any order of execution. `GenericArrayWithT`
is `add`, `get`, `remove` and the copy of `iterator()` over an array with what
`arraycopy` leaves behind its end.

### DatagramServer

A datagram is its sender and its number; the number tells the method, since a run sends
`CONNECT`, two `PRINT`s and `DISCONNECT`. `network` is a sequence from which the head is
delivered, lost or delivered twice, or from whose middle one is delivered first; these
faults are counted. `socket` is what has come and was not received. Once the channel is
connected the kernel drops what comes from others, and whether `connect()` throws away
what is in the socket already depends on the release of the JDK: both are allowed
(`Connect`). The real client has one address; several in the model stand for clients on
several hosts, and a client that runs again comes from the same address.

### Session, StartServer, ServerThread

`Session` has the nonfair `ReentrantReadWriteLock` with its queue, and the timed `get`
that takes the read lock and unlocks the write lock: it throws, and the read lock is
taken for good (line 102).

`StartServer` has the accept loop, the pool's queue, the workers with the servlet's
steps, and clients that connect, send, wait and may crash at any moment. When `accept()`
fails the server stops listening, and `shutdownNow()` drops the sockets that wait in the
queue: they stay open until the process ends. The servlet singleton has the same
unpublished field as the `Cache`, and `getInstance()` reads it twice
(`SimulateServlet.java:40` and `:42`). A thread that has not been in `createInstance()`
may find the object first and `null` then (`FindNull`): `DispatchRequestRunnable.java:23`
throws before `dispatchRequest()` and its `finally` are entered, the socket is left open
(`stranded`), and the thread goes on with its next task, since `submit()` keeps the
exception in a `Future`. Or it sees the object without its `Random` (`AnswerFails`), and
then the `finally` block closes the socket. The model lets either happen to every such
thread; the locks of the queue and of `System.out` that would order some of them behind
the first one are not counted on. A garbage collector may close a stranded socket and need
not (`Collect`, without fairness).

`ServerThread` is the selector server: `select()` collects the ready channels, each of
them is served in turn, and one buffer serves all. A text comes in up to `Pieces` pieces,
each of them whole characters or a part of one; `Inside` are the pieces that end inside a
character, of which the clients' Chinese text has many. `new String(bytes)` decodes what
one `read()` has brought by itself (line 93): `Decode` lets through what lies between the
beginning of a character and the end of one, and turns the rest, the parts of a character
that this `read()` or the last one ended in, into `Garbage`. As in UTF-8, a cut does not
disturb the next character; how many replacement signs a part becomes is left out. A
client that comes before `bind()` is refused.

## 3. The runs

| Run | Instance | Checks | Result |
| --- | --- | --- | --- |
| `twins_safety` | 3 threads, 2 permits, fair, re-entry to depth 2, all four methods | `TypeOK`, `PermitConservation`, `NoLostWakeup`, `AbstractSpec` | hold; the lock implements `CountedLock` |
| `twins_fair` | 3 threads, 1 permit, fair, `lock` and timed `tryLock` | `NoSecondOvertaking`, `QueuedLockIsServed` | hold; `FairSync` lets a newcomer pass a waiter, but only once each |
| `test_twins` | 4 threads of the three kinds, 2 permits | `EveryThreadEnds` | holds |
| `queue_steps` | 3 threads, 2 elements, 5 slots, spurious wake-ups | `TypeOK`, `EveryElementIsFound`, `FifoStepUnlessCompacting`, `ClosedForever` | hold |
| `queue_fifo` | the same, 3 slots | `FifoSpec` | violated: see below |
| `queue_taker` | the same, 2 slots | `TakerIsServed` | violated: see below |
| `semaphore` | 5 threads, 1 permit, 2 connections, interrupts | `NeverRefused`, `OnePool`, `ConnectionsAreExclusive`, `AllComeBack` | hold |
| `pool` | 3 threads, pool of 2, the server grants 3 | `TypeOK`, `OneThreadPerConnection`, `NoOpenTransactionInPool`, `LostOnlyWhenFullOrRacing` | hold |
| `builder` | 3 threads, 2 keys | `OnePoolPerKey`, `MapIsGuarded`, `PoolsStay`, `EveryBuildReturns` | hold |
| `handoff` | 3 offerers, 2 pollers, 4 people | `NobodyLostOrDoubled`, `StopComesLast`, `EveryThreadEnds` | hold |
| `programs` | ten programs, see below | `SharedDataOK`, `NothingThrows`, `WakeUpToCome`, `OnlyRunnablesBreak`, `PoolSpec`, `EveryJobBegins`, `EveryProgramEnds`, `ListSpec` | hold |
| `servers` | four servers, see below | `ServersOK`, `OrphanedByLoss`, `SessionSpec`, `OrphanShutsOut`, `LeakIsForGood`, `EveryCallEnds` | hold |

The type invariants of `TestSemaphore`, `ConnectionPoolBuilder` and `HandOff` are proved
and not run.

`programs` and `servers` run systems that share nothing: `program` picks one at the
start, and the variables of the others keep their initial values. Their properties are
conjunctions, one conjunct per module, put together by what they say: `SharedDataOK` (what
threads share is whole), `NothingThrows` (no call comes too early or too often),
`WakeUpToCome` (what is waited for is yet to come), `EveryProgramEnds`; `ServersOK`,
`LeakIsForGood`, `EveryCallEnds`. Each conjunct is defined, with its comment, in the
module it is about, and has a mutant of its own in `PROJECT.json` where it is more than
a type.

What the violated runs say of the code:

* **queue_fifo**: when the last slot is taken after something was polled, the elements
  move and the indices do not; the queue loses and repeats elements. `queue_steps`
  shows that this one step is the only departure, and that afterwards (in fact, once
  the last slot is taken at all) the queue refuses every element for good.
* **queue_taker**: `take()` on an empty queue never returns by itself: no method signals
  the condition.

What the passing runs say of the code beside what they prove right. Each of these is part
of a property, which would fail if the code did worse:

* `TestTwinsLock` calls `unlock()` in its `finally` blocks whatever `tryLock()` returned
  (lines 80 and 116), and `tryReleaseShared` does not ask whether the thread has a
  `Counter` (`TwinsLock.java:129`): a thread that did not get the lock dies of a
  `NullPointerException`. `test_twins` shows that nothing else suffers from it.
* `ConnectionPool.getConnection` ignores the answer of `tryAcquire` (line 58), so three
  threads use a pool for two. `pool` shows what remains true: exclusivity rests on the
  free queue alone, and connections are lost only when that queue is full or when two
  threads meet in the `HashSet`.
* The session of the datagram server may be left to nobody although the network loses
  nothing: `connect()` may throw away the rest of the run, `DISCONNECT` included
  (the commented-out `sleep` in `StartDatagramSocketClient.java:68` seems to be about
  this), and so may the connection of another client. There is no time-out: everybody
  else is shut out until the same client runs again (`OrphanShutsOut`).
* A thread of `TestServer` that reads the servlet's field before it is ordered behind
  `createInstance()` may leave its socket open for as long as the server listens, with the
  client in `readLine()`. `servers` shows that this is the only way to leave a socket, and
  the only way for a client to wait for good (`NoSocketLeft`, `EveryClientEnds`); no thread
  comes back to such a socket (`StrandedIsAlone`).
* The selector server garbles every character that a `read()` happens to end in, and no
  other (`NothingIsMixed`, `EveryTextIsPrinted`).
* After one timed `get()` of a `Session` no untimed `put()` returns any more, and with one
  waiting at the front nobody new comes into the map (`LeakIsForGood`).
* `MatchaThreadPool` gets smaller with every `Runnable` that throws, and is never
  refilled; the jobs of a pool without workers wait for good (`EveryJobBegins` names it).
* `LockAwaitTestClass`, `TestLockInterruptibly`, `ThreadGroupTest2` and the two thread
  factories may each leave a thread waiting, in exactly the ways their liveness
  properties name.

### Bounds, and why they are enough

* Threads: in every lock one more than can be inside together, so that one waits
  behind a waiter, or two newcomers race. TwinsLock needs the third thread for the
  wake-up that must pass from a cancelled waiter to its successor, and for
  overtaking. Five threads in `semaphore` are what it takes to run out of connections:
  two are interrupted and three go on.
* `MaxHold` bounds re-entry (an `int` in the code). Depth 2 has an inner and an outer
  `unlock`; the proofs are for any bound.
* `QueueSize` 5 lets a window start in the middle, be compacted and still hold two
  different elements, and lets `remove(o)` act before and behind it. The violated runs
  use the least array that shows them.
* `MaxCreated` bounds the connections the database server grants: one more than the
  pool has room for, which is what fills the free queue.
* `MaxCount` 4 people for 3 offerers: each is let through once and one twice, and the
  counter passes the maximum.
* Threads that are alike are permuted (`SYMMETRY`) in the runs without liveness.
* `programs`: three customers and four missions, so that one customer gets two; five
  threads in two groups, so that one group has more than one; a pool of two workers with
  a queue of two and five jobs, which fills the queue behind two running jobs and has a
  job left after both workers have ended; five turns of `CountHelper`; two getters and
  one putter in two rounds, so that a thread may read the latch of either round, or come
  after both; two callers of the factory that make two threads and one; tasks up to
  the number 10 with threshold 2, split to the third level; an array of one slot that
  grows to four.
* `servers`: two clients, two runs and two datagrams on the way, with one fault: a
  datagram of a run may meet the session of the other client or of the earlier run of
  its own (the same with three runs was checked once, by hand); three threads and four
  calls of the `Session`, so that one call follows a leak and another waits behind; three
  clients on two workers, so that one waits in the queue, one of them crashing; two
  clients with texts of three pieces, the last two of them one character.

`CHECK_DEADLOCK FALSE` stands in the runs of programs that end: `TestTwinsLock`,
`TestSemaphore`, `HandOff`, and those of `programs` and `servers`. The others must not deadlock and are checked for it.

### Fairness

* `TwinsLock`, `TwinsLockOvertaking`: a thread that is inside a call takes its next step
  (a started Java thread is scheduled again), and a holder unlocks, which the `finally`
  blocks of the drivers do. Nothing obliges a thread to call, a time-out to expire or
  an interrupt to arrive.
* `TestTwinsLock`: the same for the whole `run()`, whose sleep ends; time-outs need not
  expire.
* `MyLinkedBlockingQueue`: a producer that can offer goes on offering; awaits have no
  fairness at all, since nothing in the code ends them.
* `TestSemaphore`, `HandOff`: every started thread runs, `main` included. The semaphore
  is passed once per thread, so that no thread can be passed for ever.
* `ConnectionPoolBuilder`: a thread inside `build()` takes its next step; no thread is
  obliged to call `build()`.
* `programs`: every thread that was started takes its next step, and every job of the
  pool ends; time-outs need not expire and nobody need interrupt or wake spuriously.
* `servers`: the server threads run, the network delivers what it does not lose, and a
  client that has begun a run goes on with it; no client is obliged to begin one, to
  crash, or to come after `bind()`. What `EveryCallEnds` says of the `Session` holds for
  finitely many calls, `Calls` in all: its lock is not fair, and where callers never stop
  coming they may pass a waiting `put()` again and again. The run cannot show that
  starvation, and does not exclude it.

No liveness is claimed of `ConnectionPool`, none of `TwinsLock` with `NonFairSync`, under
which a waiter may starve, and none of the `Session` for callers without end.

## 4. The proofs

The theorems hold for every value of the constants that satisfies the assumptions named
in the modules: finite sets of threads, positive numbers of permits, and so on. All of
them follow one argument: an inductive invariant `IInv`, defined beside the properties
of the module, holds at first (`InitIInv`), is kept by each action (one lemma per
action or group of alike actions) and implies the property.

| Theorem | Says | Needs, beyond the property itself |
| --- | --- | --- |
| `TwinsLockProofs!TypeCorrect`, `PermitsConserved`, `WakeupsKept` | the three invariants, for `FairSync` and `NonFairSync` | `PlaceInv`: what a place says of the locals and of the queue, in particular that a queued thread that is trying is the first; `NoDuplicates`: a thread waits once |
| `TwinsLockProofs!Refinement` | `TwinsLock` implements `CountedLock` | a permit that was seen and is still there leaves room for one more: `PermitsConserved` with the place of the thread |
| `TestSemaphoreProofs!NobodyRefused` | no thread finds the pool empty as long as permits and interrupted threads together are no more than the connections | the exact counts: `permits + inside = Permits + interrupted`, `free + holding = PoolSize` |
| `TestSemaphoreProofs!Exclusive`, `SinglePool` | connections are exclusive; one pool | `PlaceInv`: from `returnInstance` on there is a pool |
| `ConnectionPoolBuilderProofs!OnePool`, `Guarded`, `Forever` | one pool per key; no `get` or `put` beside a `put`; no pool is replaced | `Locked`: who is between `lock` and `unlock` holds the lock, and a writer about to put found nothing |
| `HandOffProofs!EverybodyOnce`, `StopIsLast` | everybody is in one place; stopping comes last | `LatchCounts`: the latch is `MaxCount` less the people counted |
| `MyLinkedBlockingQueueProofs!TypeCorrect`, `Found` | the indices stay in order and in the array; no hole below `insertIndex`, and `contains(o)` finds whatever is in the queue | `ArgInv`: a thread that awaits `full` has an element to store; that a bounded set of indices has a least and a greatest member |
| `MyLinkedBlockingQueueProofs!StepsOfFifo`, `StaysClosed` | every step but a compaction with `startIndex > 0` is a step of `BoundedFifo`; a full array stays full | what a store, an advance and a shift of the array do to the window between the indices |
| `ConnectionPoolProofs!TypeCorrect`, `Exclusive`, `PoolIsClean` | one thread per connection; no open work on a pooled connection unless its rollback failed | `Apart`: hands and free queue share no connection; `PlaceInv`: outside `commit` a thread's connection has no open work, and its connection is in the used set or was lost there |
| `TestSemaphoreProofs!TypeCorrect`, `ConnectionPoolBuilderProofs!TypeCorrect`, `HandOffProofs!TypeCorrect` | the variables have their types | nothing: `TypeOK` is inductive there |
| `TwinsLockProofs!PassedOnce` | with `FairSync` no thread passes the same waiting thread twice | `PassedNoneYet`: who competes without having waited was let past the question when nobody waited, and so has passed none of those who wait by now |
| `TwinsLockProofs!DriverUsesLock`, `DriverKeepsNothing` | every behaviour of `TestTwinsLock` is one of `TwinsLock`; when all threads have ended all permits are back, and only a thread that did not call `lock()` dies in `unlock()` | `RunIs`: what the place of a thread in `run()` says of its place in the lock |
| `TestSemaphoreProofs!EverythingIsBack` | when all threads have ended, connections and permits are back | the exact counts again, with nobody inside |
| `ProgramsProofs!TypeCorrect`, `NoJobLost` | a job that was accepted and is gone either came to its end, or broke as one of the `Runnable`s that throw, and took its worker along | `QueueInv`: the queue holds the numbers after the last job begun, in order; `JobInv`: the jobs in the workers' hands are distinct and were begun |
| `ProgramsProofs!Refinement` | `MatchaThreadPool` implements `JobPool` | a worker that waits leaves fewer jobs running than there are live workers, which is a count over the map from workers to their jobs |
| `ProgramsProofs!GroupsAreDestroyedEmpty` | `destroy()` finds an empty group; `main` waits for a notification that is to come | `StartsInOrder`, `SecondIsDestroyed`: which threads exist, and which group is gone, at each step of `main` |
| `ProgramsProofs!CustomersReturnWithAll` | a customer leaves with the sum of its missions, the interrupt is kept, the group is empty when it is destroyed | `MissionsAreAdded`: a customer's queue and its sum together are what was offered to it; `LatchCounts`, `InterruptsAreKept`, `LoopsBegin` |
| `ProgramsProofs!CacheIsOne` | one `Cache`, its map guarded, nobody stranded but after the last call | `OldLatchesAreOpen`: a replaced latch was opened; `LocksAreHeld`, `ParkedAreQueued`, `CallsAreLeft` |
| `ProgramsProofs!UnlockedByItsOwner` | `unlock()` without the lock follows an interrupt only; a stranded thread follows a race of two callers only | `ThreadsAreCounted`: the factory numbers its threads without a gap, whoever calls it, which is a count of the calls; `LatchesAreOpened`: without a race only the latch in the field may be closed; `FinallyKnows`: who is in the `finally` block has the lock, was interrupted, or knows of the time-out |
| `ProgramsProofs!CountAnswersWhole` | `CountHelper` answers with the whole sum | `SumsSoFar`: twice the sum after n turns is n (2 start + n - 1), which takes the place of an induction over the turns; `MergedOnce`: who merges came last |
| `ProgramsProofs!SignalIsToCome` | the thread that awaits has its signal to come, or it was given too early | `LockIsOwned`, `SignalIsNoted` |
| `ProgramsProofs!ArrayHasRoom`, `ArrayIsList` | the growing array has a slot for the next member, and implements `GrowingList` | what a copy, a store and a shift do to the members in use |
| `ProgramsProofs!SharedDataIsOK`, `NoCallThrows`, `WakeUpComes`, `ListImplemented` | the properties of the run `programs` | `ProgramsInv`, the conjunction of the invariants above |
| `ServerProgramsProofs!TypeCorrect`, `Refinement` | the datagram server is an `ExclusiveSession`, whatever the network does to the datagrams | `TypeOK` is enough: the server decides by the datagram in its hand and its own table |
| `ServerProgramsProofs!ShutOut` | a session that no client can end any more keeps every other client out | `TypeOK` |
| `ServerProgramsProofs!Orphans` | a session is orphaned only after a fault of the network, or because the socket dropped the run's DISCONNECT | `WasSent`: nothing is under way that was not sent; with no fault of the network, `NetworkInOrder` and `SocketInOrder`: what a client sent later is behind what it sent before; `SessionHasEnd`: the end of an open session is still under way, or still to be sent |
| `ServerProgramsProofs!TimedGetLeaks`, `PutBlocked`, `SessionClosed` | only a timed `get` leaves a read lock behind; then no `put` returns any more, and with one at the front nobody comes in | `WaitsOnce`: a thread is in the queue once; `WriterInv`, `ReaderInv`: the locks are with the threads in the map; `ReadsInv`: a thread takes at most one read lock in each call |
| `ServerProgramsProofs!EveryClientIsAnswered` | a client that ends without an answer met a failure; a socket stays open only with its task, after a failed `accept()`, or because its task got `null` for a servlet, and then no thread comes back to it | `TaskInv`: a thread of the pool has a task while it is not idle; `EndsByFailure`: what ends the accept loop, leaves a socket or closes one without an answer is a failure; `OnePlace`, `OneTask`: a client waits or has its socket open, its task is in the queue once or with one thread |
| `ServerProgramsProofs!TextsAreNotMixed` | what is printed for a client is its text as far as it was read, with garbage for the characters a `read()` has cut, and only for those | `ReadsWhatArrives`; `CutsAreRead`: what was read ends inside a character only if that is a cut; `PrintsWhatIsRead`: what was printed is the pieces read so far, and the buffer is empty between two channels |
| `ServerProgramsProofs!ServersAreOK`, `LeakStays` | the properties of the run `servers` | `ServersInv`, the conjunction of the invariants above |
| `ConnectionPoolProofs!LossesExplained` | a connection is lost only by a full free queue or the race in the `HashSet` | the same invariant |

The invariants of `TwinsLock` are not inductive one by one: `NoLostWakeup` survives
`SetHead` only because the thread goes on to `wake`, and `Cancel` only because the
second waiter becomes the first, which needs `NoDuplicates` and `PlaceInv`.
`TwinsLockProofs` therefore begins with lemmas about queues: joining, leaving from
the middle, leaving at the head.

`MatchaThreadPool` needs more than its properties for another reason: `OnlyRunnablesBreak`
speaks of jobs one by one, and whether two workers may hold the same job is a question
about the queue. `DatagramServer` is the opposite case. The refinement is a matter of the
server alone and holds with faults; `OrphanedByLoss` is a matter of the network, and its
invariant is about the order of the datagrams.

`Programs` and `ServerPrograms` compose modules that share no variable. A step of the
composition is a step of one part and leaves the variables of the others alone
(`ProgramsStep` in both proof modules), so the conjunction of the parts' invariants is inductive
without another word. What is assumed is that the constants of each part satisfy that
part's assumptions, which are the named `ASSUME`s of the two modules.

`PassedOnce` has the hypothesis `Fair`, since `NonFairSync` does not promise it, and the two
theorems about the driver have `KindsAssumption`, which says that each thread is of one of
the three kinds; TLC evaluates it in the run `test_twins`.

Three of the theorems are what remains of a liveness property when one does not ask
whether the end comes: `DriverKeepsNothing`, `EverythingIsBack` and `CountAnswersWhole` say
that it is as it should be when it comes.

Only model-checked:

* all liveness, which the prover does not reach: `QueuedLockIsServed`, the two
  `EveryThreadEnds`, `AllComeBack`, `EveryBuildReturns`, `EveryJobBegins`,
  `EveryProgramEnds`, `EveryCallEnds`. Every other property of a passing run is stated by a
  theorem.
* `CountTask` and `TestLockInterruptibly`, whose only property is a conjunct of
  `EveryProgramEnds`. That the halves of a task add up to its sum is an induction over
  the range of numbers, and `SumSet` is a fold; nothing else about `CountTask` is worth a
  theorem.
* The violated runs, `FifoSpec` and `TakerIsServed`.

## 5. What is not modelled

* In the modelled parts: `TwinsLock.newCondition()` (a condition of a shared-mode
  synchronizer, which nobody can await); the observers of the queue (`size`, `peek`,
  `element`, `toArray`, which read what the properties read), its bounded
  `drainTo(c, max)` and the methods whose body returns a constant; the contents of the
  SQL tables; an interrupted `getConnection`; the setters of `ConnectionPoolBuilder`: a
  builder is taken to belong to one thread, so that the key `build` computes and the one
  `buildConnectionPool` computes are the same.
* The JDK: `AbstractQueuedSynchronizer`, `ReentrantReadWriteLock`, `HashSet`,
  `Semaphore`, `CountDownLatch` and the concurrent collections are modelled by what the
  code uses of them and marked external.
* `ReentrantLockCallable`, which is the `run()` of `ReentrantLockTryCallable` with `lock()`
  for `tryLock()`; `TestLockDown` (one thread takes and releases two locks),
  `TestSynchronized` (two threads assign one field under one monitor) and
  `LockTestClass` (threads that lock and unlock): one critical section each, without a
  condition and without shared data that a property could relate to it.
* The callable and schedule demos: one task handed to an executor of the JDK, and its
  result printed.
* `MatchaNIOServer` and `DispatchServlet`, which are unfinished: the server registers
  connections for reading and reads nothing. Of this program only `Session` is modelled.
* The one-shot `StartServer` and `StartClient` of the NIO demos, which serve one request
  after the other; `TestPipe` (one writer, one reader); `TestSelector2`, which closes a
  selector under a thread that waits in it, where the outcome is the JDK's.
* The file locks: each thread asks once, does one access and ends. The writer locks the
  whole file and writes at its beginning, the reader locks and reads bytes 30 to 49, so
  that the accesses never meet whatever the locks do; which of the two `tryLock()`
  calls fails is decided by the JDK and the operating system.
* The remote Fibonacci service and the login: serialization and JAAS around one request,
  which never leaves the client.
* The demos of serialization, reflection, class loading, proxies and I/O, which have no
  state beyond one call.
* Vendored files, among them the two copies of jQuery under `TestHttp`: they are not this
  program's code, and nothing here says anything of them.

## 6. Plan

Done, in this order: the lock with its abstract specification and proofs; its driver;
the queue; the semaphore; the two pools; the hand-offs; the start gates and the condition
demos; the thread groups, the provider and its customers; the thread pool with its
abstract specification and proofs; the barrier and the fork-join task; the growing array;
the datagram server over a faulty network with its abstract specification and proofs; the
session of the NIO server; the accept loop and the selector server; then the inductive
invariants and proofs of all of them but `CountTask` and `TestLockInterruptibly`, the
compositions, the overtaking and the driver of the lock.

Left, by what it would add:

1. **A bound on waiting in `TwinsLock`.** `PassedOnce` bounds how often each thread passes a
   waiter; that a waiter at the front is passed by at most as many threads as have asked
   before it came is the next step, and a safety property.
2. **`CountTask`, proved**, should the sum of a range be stated without a fold.
3. **`ReentrantLockCallable`** beside `DefaultThreadFacotry`, as a second kind of thread on
   the same locks, should the demo ever mix both kinds.
4. **`MatchaNIOServer`**, once it reads from the connections it accepts.
