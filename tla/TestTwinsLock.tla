---------------------------- MODULE TestTwinsLock ----------------------------
(***************************************************************************)
(* com.matcha.lock.TestTwinsLock: threads of three kinds each acquire a    *)
(* fair TwinsLock once, by lock(), tryLock() or tryLock(1, SECONDS), sleep *)
(* and call unlock() in a finally block, without looking at what tryLock   *)
(* returned.                                                               *)
(***************************************************************************)
EXTENDS TwinsLock

CONSTANTS GetThreads, TryGetThreads, TryBlockGetThreads

ASSUME KindsAssumption ==
    /\ Threads = GetThreads \cup TryGetThreads \cup TryBlockGetThreads
    /\ GetThreads \cap (TryGetThreads \cup TryBlockGetThreads) = {}
    /\ TryGetThreads \cap TryBlockGetThreads = {}
    /\ Calls = {"lock", "tryLock", "timedTryLock"}

VARIABLE stage   \* where in its run() each thread is

tvars == <<state, counter, seen, queue, token, call, pc, stage>>

CallOf(t) ==
    CASE t \in GetThreads -> "lock"
      [] t \in TryGetThreads -> "tryLock"
      [] t \in TryBlockGetThreads -> "timedTryLock"

TInit == Init /\ stage = [t \in Threads |-> "start"]

\* run() enters the acquiring method of its kind.
Start(t) ==
    /\ stage[t] = "start"
    /\ Acquire(t, CallOf(t))
    /\ stage' = [stage EXCEPT ![t] = "acquiring"]

\* When the call a thread is in returns, run() goes on.
After(t, next) ==
    stage' = IF pc'[t] = "idle" THEN [stage EXCEPT ![t] = next] ELSE stage

Acquiring(t) ==
    /\ stage[t] = "acquiring"
    /\ Step(t)
    /\ After(t, "sleeping")

\* Nobody interrupts these threads; the second of a timed call may pass.
TimedOut(t) ==
    /\ stage[t] = "acquiring"
    /\ Cancel(t)
    /\ After(t, "sleeping")

\* finally: unlock() by a thread that holds the lock.
Finally(t) ==
    /\ stage[t] = "sleeping"
    /\ counter[t] > 0
    /\ Unlock(t)
    /\ stage' = [stage EXCEPT ![t] = "unlocking"]

\* finally: unlock() by a thread that does not.  counterHolder.get() is null
\* and counter.decrementAndGet() throws before anything changes.
FinallyWithoutLock(t) ==
    /\ stage[t] = "sleeping"
    /\ counter[t] = 0
    /\ stage' = [stage EXCEPT ![t] = "nullPointer"]
    /\ UNCHANGED vars

Unlocking(t) ==
    /\ stage[t] = "unlocking"
    /\ Step(t)
    /\ After(t, "done")

RunStep(t) ==
    \/ Start(t) \/ Acquiring(t) \/ Finally(t) \/ FinallyWithoutLock(t)
    \/ Unlocking(t)

TNext == \E t \in Threads : RunStep(t) \/ TimedOut(t)

\* main starts every thread, sleep(100) ends and a running thread is
\* scheduled again; a timeout need not expire.
TSpec == TInit /\ [][TNext]_tvars /\ \A t \in Threads : WF_tvars(RunStep(t))

Ended(t) == stage[t] \in {"done", "nullPointer"}

\* Every GetThread gets the lock and gives it back, and when all threads have
\* ended all permits are back: the unlock() of a thread without the lock
\* neither adds a permit nor keeps anybody out.
EveryThreadEnds ==
    <>[](/\ \A t \in Threads : Ended(t)
         /\ \A t \in GetThreads : stage[t] = "done"
         /\ state = Count)

\* What is true of the end whether or not it comes: the permits are back, and
\* only a thread that did not wait for the lock can have died in unlock().
NothingIsKept ==
    /\ (\A t \in Threads : Ended(t)) => state = Count
    /\ \A t \in GetThreads : stage[t] # "nullPointer"

\* What the place in run() says of the place in the lock: a thread that has come
\* out of lock() has it, and one that gave it back has nothing of it left.
RunIs(t) ==
    /\ stage[t] \in {"start", "sleeping", "done", "nullPointer"} => pc[t] = "idle"
    /\ stage[t] \in {"start", "unlocking", "done", "nullPointer"} => counter[t] = 0
    /\ stage[t] = "acquiring" =>
          /\ call[t] = CallOf(t)
          /\ pc[t] \in {"shouldAcquire", "getState", "casState", "queued",
                       "setHead", "wake"}
          /\ pc[t] = "wake" => counter[t] = 1
    /\ stage[t] = "sleeping" =>
          /\ counter[t] \in {0, 1}
          /\ t \in GetThreads => counter[t] = 1
    /\ stage[t] = "unlocking" => pc[t] \in {"releaseGet", "releaseCas", "wake"}

Stages == {"start", "acquiring", "sleeping", "unlocking", "done", "nullPointer"}

\* The strengthening that every step preserves, beside that of the lock.
TInv ==
    /\ stage \in [Threads -> Stages]
    /\ \A t \in Threads : RunIs(t)
    /\ \A t \in GetThreads : stage[t] # "nullPointer"
==============================================================================
