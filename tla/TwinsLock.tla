------------------------------ MODULE TwinsLock ------------------------------
(***************************************************************************)
(* com.matcha.lock.app.TwinsLock: a re-entrant lock that up to Count       *)
(* threads hold at a time, fair or not, built on the shared mode of        *)
(* AbstractQueuedSynchronizer (AQS).                                       *)
(*                                                                         *)
(* The steps of tryAcquireShared and tryReleaseShared that read or write   *)
(* the synchronizer's shared word are actions of their own, so that other  *)
(* threads interleave between the read and the compare-and-set.  The JDK's *)
(* AQS is modelled as TwinsLock uses it: a FIFO queue of waiting threads,  *)
(* of which only the first may try, and one park permit per thread.        *)
(***************************************************************************)
EXTENDS Integers, Sequences, FiniteSets, SequencesExt

CONSTANTS
    Threads,   \* the threads that share the lock
    Count,     \* how many of them may hold it at a time
    Fair,      \* TRUE for FairSync, FALSE for NonFairSync
    Calls,     \* the ways they acquire it, a subset of AllCalls
    MaxHold    \* bound: how deep a thread re-enters

\* lock(), lockInterruptibly(), tryLock() and tryLock(time, unit)
AllCalls == {"lock", "lockInterruptibly", "tryLock", "timedTryLock"}

ASSUME ThreadsAssumption == IsFiniteSet(Threads)
ASSUME CountAssumption == Count \in Nat \ {0}
ASSUME FairAssumption == Fair \in BOOLEAN
ASSUME CallsAssumption == Calls \subseteq AllCalls
ASSUME MaxHoldAssumption == MaxHold \in Nat \ {0}

VARIABLES
    state,     \* the AQS word: permits that are left
    counter,   \* the thread's Counter, 0 where the ThreadLocal holds null
    seen,      \* the local variable "state" of the two CAS loops
    queue,     \* AQS: the waiting threads, first come first
    token,     \* AQS: the park permit, set by unpark and consumed by park
    call,      \* which acquiring method the thread is in
    pc         \* where in that method, or in unlock(), the thread is

vars == <<state, counter, seen, queue, token, call, pc>>

Places == {"idle", "shouldAcquire", "getState", "casState", "queued",
           "setHead", "wake", "releaseGet", "releaseCas"}

Init ==
    /\ state = Count
    /\ counter = [t \in Threads |-> 0]
    /\ seen = [t \in Threads |-> 0]
    /\ queue = <<>>
    /\ token = [t \in Threads |-> FALSE]
    /\ call = [t \in Threads |-> "none"]
    /\ pc = [t \in Threads |-> "idle"]

Goto(t, place) == pc' = [pc EXCEPT ![t] = place]

InQueue(t) == \E i \in 1 .. Len(queue) : queue[i] = t

HasQueuedPredecessors(t) == queue # <<>> /\ Head(queue) # t

ShouldAcquireAlways(t) == TRUE   \* slip: FairSync that does not ask
ShouldAcquire(t) == Fair => ~HasQueuedPredecessors(t)

-----------------------------------------------------------------------------
(* Acquiring: one call of tryAcquireShared(1), from the caller itself or,  *)
(* once it is queued, from the AQS loop.                                   *)

\* A thread without a Counter calls one of the four acquiring methods.
Acquire(t, c) ==
    /\ pc[t] = "idle"
    /\ counter[t] = 0
    /\ call' = [call EXCEPT ![t] = c]
    /\ Goto(t, "shouldAcquire")
    /\ UNCHANGED <<state, counter, seen, queue, token>>

\* A thread with a Counter only counts: no other thread sees the step.
Reenter(t) ==
    /\ pc[t] = "idle"
    /\ counter[t] \in 1 .. MaxHold - 1
    /\ counter' = [counter EXCEPT ![t] = @ + 1]
    /\ UNCHANGED <<state, seen, queue, token, call, pc>>

\* tryAcquireShared returned a negative number: tryLock() gives up, the
\* others join the queue, where a thread tries once more before it parks.
Failed(t) ==
    \/ /\ call[t] = "tryLock"
       /\ Goto(t, "idle")
       /\ UNCHANGED <<queue, token>>
    \/ /\ call[t] # "tryLock"
       /\ ~InQueue(t)
       /\ queue' = Append(queue, t)
       /\ token' = [token EXCEPT ![t] = TRUE]
       /\ Goto(t, "queued")
    \/ /\ InQueue(t)
       /\ Goto(t, "queued")
       /\ UNCHANGED <<queue, token>>

MayCompete(t) ==
    /\ pc[t] = "shouldAcquire"
    /\ ShouldAcquire(t)
    /\ Goto(t, "getState")
    /\ UNCHANGED <<state, counter, seen, queue, token, call>>

MustWait(t) ==
    /\ pc[t] = "shouldAcquire"
    /\ ~ShouldAcquire(t)
    /\ Failed(t)
    /\ UNCHANGED <<state, counter, seen, call>>

GetStateUnguarded(t) ==          \* slip: newState < -1 where newState < 0 is
    /\ pc[t] = "getState"
    /\ state - 1 >= -1
    /\ seen' = [seen EXCEPT ![t] = state]
    /\ Goto(t, "casState")
    /\ UNCHANGED <<state, counter, queue, token, call>>

GetState(t) ==
    /\ pc[t] = "getState"
    /\ state - 1 >= 0
    /\ seen' = [seen EXCEPT ![t] = state]
    /\ Goto(t, "casState")
    /\ UNCHANGED <<state, counter, queue, token, call>>

NoPermit(t) ==
    /\ pc[t] = "getState"
    /\ state - 1 < 0
    /\ Failed(t)
    /\ UNCHANGED <<state, counter, seen, call>>

CasAcquireUnchecked(t) ==        \* slip: setState where compareAndSetState is
    /\ pc[t] = "casState"
    /\ state' = seen[t] - 1
    /\ counter' = [counter EXCEPT ![t] = 1]
    /\ seen' = [seen EXCEPT ![t] = 0]
    /\ Goto(t, IF InQueue(t) THEN "setHead" ELSE "idle")
    /\ UNCHANGED <<queue, token, call>>

CasAcquire(t) ==
    /\ pc[t] = "casState"
    /\ state = seen[t]
    /\ state' = seen[t] - 1
    /\ counter' = [counter EXCEPT ![t] = 1]
    /\ seen' = [seen EXCEPT ![t] = 0]
    /\ Goto(t, IF InQueue(t) THEN "setHead" ELSE "idle")
    /\ UNCHANGED <<queue, token, call>>

CasAcquireFails(t) ==
    /\ pc[t] = "casState"
    /\ state # seen[t]
    /\ Goto(t, "getState")
    /\ UNCHANGED <<state, counter, seen, queue, token, call>>

-----------------------------------------------------------------------------
(* The AQS queue.                                                          *)

\* A queued thread with a park permit looks again: the first one tries, the
\* others park.
Retry(t) ==
    /\ pc[t] = "queued"
    /\ token[t]
    /\ token' = [token EXCEPT ![t] = FALSE]
    /\ Goto(t, IF Head(queue) = t THEN "shouldAcquire" ELSE "queued")
    /\ UNCHANGED <<state, counter, seen, queue, call>>

\* setHeadAndPropagate: tryAcquireShared returned 1 > 0, so the thread that
\* leaves the queue wakes the next one.
SetHead(t) ==
    /\ pc[t] = "setHead"
    /\ queue' = Tail(queue)
    /\ Goto(t, "wake")
    /\ UNCHANGED <<state, counter, seen, token, call>>

\* doReleaseShared: unpark the first thread of the queue.
Wake(t) ==
    /\ pc[t] = "wake"
    /\ token' = [u \in Threads |->
                   token[u] \/ (queue # <<>> /\ Head(queue) = u)]
    /\ Goto(t, "idle")
    /\ UNCHANGED <<state, counter, seen, queue, call>>

\* The timeout expires or the thread is interrupted: it leaves the queue,
\* and if it was the first it wakes its successor.
Cancel(t) ==
    /\ pc[t] = "queued"
    /\ call[t] \in {"lockInterruptibly", "timedTryLock"}
    /\ \E i \in 1 .. Len(queue) :
          /\ queue[i] = t
          /\ queue' = RemoveAt(queue, i)
          /\ token' = [u \in Threads |->
                         token[u] \/ (i = 1 /\ Len(queue) > 1 /\ queue[2] = u)]
    /\ Goto(t, "idle")
    /\ UNCHANGED <<state, counter, seen, call>>

\* An interrupt of lock(): the thread only looks once more.
Interrupt(t) ==
    /\ pc[t] = "queued"
    /\ call[t] = "lock"
    /\ token' = [token EXCEPT ![t] = TRUE]
    /\ UNCHANGED <<state, counter, seen, queue, call, pc>>

-----------------------------------------------------------------------------
(* Releasing: tryReleaseShared(1), by a thread that has a Counter.  Without *)
(* one counter.decrementAndGet() throws a NullPointerException before any  *)
(* change; TestTwinsLock is about that.                                    *)

ExitInnerReleasing(t) ==         \* slip: no early return while count > 0
    /\ pc[t] = "idle"
    /\ counter[t] > 1
    /\ counter' = [counter EXCEPT ![t] = @ - 1]
    /\ Goto(t, "releaseGet")
    /\ UNCHANGED <<state, seen, queue, token, call>>

ExitInner(t) ==
    /\ pc[t] = "idle"
    /\ counter[t] > 1
    /\ counter' = [counter EXCEPT ![t] = @ - 1]
    /\ UNCHANGED <<state, seen, queue, token, call, pc>>

ExitOuter(t) ==
    /\ pc[t] = "idle"
    /\ counter[t] = 1
    /\ counter' = [counter EXCEPT ![t] = 0]
    /\ Goto(t, "releaseGet")
    /\ UNCHANGED <<state, seen, queue, token, call>>

Unlock(t) == ExitInner(t) \/ ExitOuter(t)

ReleaseGet(t) ==
    /\ pc[t] = "releaseGet"
    /\ seen' = [seen EXCEPT ![t] = state]
    /\ Goto(t, "releaseCas")
    /\ UNCHANGED <<state, counter, queue, token, call>>

ReleaseCasReturningFalse(t) ==   \* slip: AQS is not told to signal
    /\ pc[t] = "releaseCas"
    /\ state = seen[t]
    /\ state' = seen[t] + 1
    /\ seen' = [seen EXCEPT ![t] = 0]
    /\ Goto(t, "idle")
    /\ UNCHANGED <<counter, queue, token, call>>

ReleaseCas(t) ==
    /\ pc[t] = "releaseCas"
    /\ state = seen[t]
    /\ state' = seen[t] + 1
    /\ seen' = [seen EXCEPT ![t] = 0]
    /\ Goto(t, "wake")
    /\ UNCHANGED <<counter, queue, token, call>>

ReleaseCasFails(t) ==
    /\ pc[t] = "releaseCas"
    /\ state # seen[t]
    /\ Goto(t, "releaseGet")
    /\ UNCHANGED <<state, counter, seen, queue, token, call>>

-----------------------------------------------------------------------------

\* The steps a thread takes inside a call, without anybody's help.
Step(t) ==
    \/ MayCompete(t) \/ MustWait(t)
    \/ GetState(t) \/ NoPermit(t)
    \/ CasAcquire(t) \/ CasAcquireFails(t)
    \/ Retry(t) \/ SetHead(t) \/ Wake(t)
    \/ ReleaseGet(t) \/ ReleaseCas(t) \/ ReleaseCasFails(t)

Next ==
    \E t \in Threads :
        \/ \E c \in Calls : Acquire(t, c)
        \/ Reenter(t)
        \/ Step(t)
        \/ Cancel(t) \/ Interrupt(t)
        \/ Unlock(t)

Spec == Init /\ [][Next]_vars

\* A running thread is scheduled again, and a holder leaves after its sleep
\* (the finally blocks of TestTwinsLock); nothing obliges a thread to come,
\* a timeout to expire or an interrupt to arrive.
Fairness == \A t \in Threads : WF_vars(Step(t)) /\ WF_vars(Unlock(t))

FairSpec == Spec /\ Fairness

-----------------------------------------------------------------------------
(* Properties                                                              *)

TypeOK ==
    /\ state \in 0 .. Count
    /\ counter \in [Threads -> 0 .. MaxHold]
    /\ seen \in [Threads -> 0 .. Count]
    /\ queue \in Seq(Threads)
    /\ token \in [Threads -> BOOLEAN]
    /\ call \in [Threads -> Calls \cup {"none"}]
    /\ pc \in [Threads -> Places]

\* The threads whose permit is not in the AQS word: those with a Counter and
\* those that dropped it and have not yet put the permit back.
Occupying == {t \in Threads : counter[t] > 0 \/ pc[t] \in {"releaseGet", "releaseCas"}}

\* No permit of TwinsLock is lost or made by racing compare-and-set loops of
\* tryAcquireShared and tryReleaseShared, by re-entry or by cancellation:
\* the word and the threads that occupy a permit always add up to Count.
PermitConservation == state + Cardinality(Occupying) = Count

\* The wake-up that AQS owes to the queue is never lost: while there are
\* permits and a thread waits, the first waiter has a park permit, is trying,
\* or a releasing thread is about to unpark it.
NoLostWakeup ==
    state > 0 /\ queue # <<>> =>
        \/ token[Head(queue)]
        \/ pc[Head(queue)] \in {"shouldAcquire", "getState", "casState", "setHead"}
        \/ \E u \in Threads : pc[u] = "wake"

\* What the place of a thread says of its locals and of the queue.
PlaceInv ==
    \A t \in Threads :
        /\ pc[t] \in {"shouldAcquire", "getState", "casState", "queued",
                     "releaseGet", "releaseCas"} => counter[t] = 0
        /\ pc[t] = "casState" => seen[t] >= 1
        /\ pc[t] = "setHead" => counter[t] = 1
        /\ pc[t] \in {"queued", "setHead"} => InQueue(t)
        /\ InQueue(t) =>
              /\ call[t] # "tryLock"
              /\ \/ pc[t] = "queued"
                 \/ /\ pc[t] \in {"shouldAcquire", "getState", "casState", "setHead"}
                    /\ Head(queue) = t

\* A thread waits in one place only.
NoDuplicates ==
    \A i, j \in 1 .. Len(queue) : queue[i] = queue[j] => i = j

\* The strengthening that every step preserves.
IInv ==
    /\ TypeOK
    /\ PlaceInv
    /\ NoDuplicates
    /\ PermitConservation
    /\ NoLostWakeup

\* The lock is what its callers expect: seen through the Counters alone it
\* is a CountedLock, so at most Count threads hold it at a time.
Abstract == INSTANCE CountedLock WITH depth <- counter
AbstractSpec == Abstract!Spec

\* With FairSync a thread that called lock() and is queued gets the lock,
\* however many others come, leave and come again.
QueuedLockIsServed ==
    \A t \in Threads : (InQueue(t) /\ call[t] = "lock") ~> counter[t] > 0
==============================================================================
