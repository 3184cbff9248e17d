------------------------- MODULE DefaultThreadFacotry -------------------------
(***************************************************************************)
(* DefaultThreadFacotry and the ReentrantLockTryCallable that its threads  *)
(* run, driven as in LockTestClass2: a caller makes threads with           *)
(* newThread(), starts them, and calls startAllThread().  The factory is a *)
(* singleton, so several callers may do that at a time.                    *)
(*                                                                         *)
(* newThread() puts a new latch into the field when it finds the old one   *)
(* open; the thread gets the latch it then finds there.  The run() of a    *)
(* thread with an even index tries the lock for a while, the others lock;  *)
(* its finally block decides by getLock, which is true until tryLock() has *)
(* answered.  In what order waiting threads get the lock does not matter   *)
(* here and is left open.                                                  *)
(***************************************************************************)
EXTENDS Integers, FiniteSets

CONSTANTS
    Callers,
    Batches,        \* bound: calls of startAllThread() of each caller
    BatchSize,      \* newThread() calls before each; one batch of 8 in LockTestClass2
    Interruptible   \* the threads that are interrupted some time

CallersAssumption == IsFiniteSet(Callers) /\ 0 \notin Callers
BatchAssumption == Batches \in [Callers -> Nat \ {0}] /\ BatchSize \in Nat \ {0}

\* The calls of newThread(): the caller, with the batch and the place in it.
NewThreadCalls == UNION {{c} \X ((1 .. Batches[c]) \X (1 .. BatchSize)) : c \in Callers}

Threads == 1 .. Cardinality(NewThreadCalls)

VARIABLES
    latchField,     \* the field countDownLatch: latches are numbered
    latchesMade,
    opened,         \* the latches that were counted down
    threadIndex,    \* threads made so far
    caller,         \* where a caller is
    toMake,         \* newThread() calls left in its batch
    batch,          \* its batches that are left
    found,          \* the latch that a caller has read
    run,            \* where in run() a thread is
    latchOf,        \* the latch a thread was given
    getLock,        \* its local getLock
    owner,          \* the thread that holds the lock, 0 for none
    hit,            \* history: the threads that were interrupted
    raced           \* history: latches replaced by two callers at a time

vars == <<latchField, latchesMade, opened, threadIndex, caller, toMake, batch,
          found, run, latchOf, getLock, owner, hit, raced>>

callerVars == <<latchField, latchesMade, opened, threadIndex, caller, toMake,
                batch, found, latchOf, raced>>
runVars == <<getLock, owner, hit>>

Init ==
    /\ latchField = 1 /\ latchesMade = 1 /\ opened = {}
    /\ threadIndex = 0
    /\ caller = [c \in Callers |-> "check"]
    /\ toMake = [c \in Callers |-> BatchSize]
    /\ batch = Batches
    /\ found = [c \in Callers |-> 0]
    /\ run = [t \in Threads |-> "none"]
    /\ latchOf = [t \in Threads |-> 0]
    /\ getLock = [t \in Threads |-> TRUE]
    /\ owner = 0
    /\ hit = {} /\ raced = {}

CallerTo(c, place) == caller' = [caller EXCEPT ![c] = place]
RunTo(t, place) == run' = [run EXCEPT ![t] = place]

-----------------------------------------------------------------------------
(* newThread(), start() and startAllThread() *)

CheckAlways(c) ==                \* slip: the latch is replaced for every thread
    /\ caller[c] = "check"
    /\ CallerTo(c, "replace")
    /\ UNCHANGED <<latchField, latchesMade, opened, threadIndex, toMake, batch,
                   found, latchOf, raced, run, runVars>>

CheckCount(c) ==
    /\ caller[c] = "check"
    /\ CallerTo(c, IF latchField \in opened THEN "replace" ELSE "make")
    /\ UNCHANGED <<latchField, latchesMade, opened, threadIndex, toMake, batch,
                   found, latchOf, raced, run, runVars>>

ReplaceLatch(c) ==
    /\ caller[c] = "replace"
    /\ latchesMade' = latchesMade + 1
    /\ latchField' = latchesMade + 1
    /\ raced' = IF \E d \in Callers \ {c} : caller[d] = "replace"
                THEN raced \cup {latchesMade + 1} ELSE raced
    /\ CallerTo(c, "make")
    /\ UNCHANGED <<opened, threadIndex, toMake, batch, found, latchOf, run, runVars>>

\* The thread is made with the latch in the field, and started.
MakeThread(c) ==
    /\ caller[c] = "make"
    /\ threadIndex' = threadIndex + 1
    /\ latchOf' = [latchOf EXCEPT ![threadIndex + 1] = latchField]
    /\ RunTo(threadIndex + 1, "await")
    /\ toMake' = [toMake EXCEPT ![c] = @ - 1]
    /\ CallerTo(c, IF toMake[c] > 1 THEN "check" ELSE "read")
    /\ UNCHANGED <<latchField, latchesMade, opened, batch, found, raced, runVars>>

ReadField(c) ==
    /\ caller[c] = "read"
    /\ found' = [found EXCEPT ![c] = latchField]
    /\ CallerTo(c, "countDown")
    /\ UNCHANGED <<latchField, latchesMade, opened, threadIndex, toMake, batch,
                   latchOf, raced, run, runVars>>

CountDown(c) ==
    /\ caller[c] = "countDown"
    /\ opened' = opened \cup {found[c]}
    /\ batch' = [batch EXCEPT ![c] = @ - 1]
    /\ toMake' = [toMake EXCEPT ![c] = BatchSize]
    /\ CallerTo(c, IF batch[c] > 1 THEN "check" ELSE "ended")
    /\ UNCHANGED <<latchField, latchesMade, threadIndex, found, latchOf, raced, run,
                   runVars>>

Caller(c) == CheckCount(c) \/ ReplaceLatch(c) \/ MakeThread(c) \/ ReadField(c)
             \/ CountDown(c)

-----------------------------------------------------------------------------
(* ReentrantLockTryCallable.run() *)

\* needTry(flag, index) with the flag as it is: index t - 1 is even.
NeedTry(t) == (t - 1) % 2 = 0

Await(t) ==
    /\ run[t] = "await" /\ latchOf[t] \in opened
    /\ RunTo(t, "lock")
    /\ UNCHANGED <<callerVars, runVars>>

TakeLock(t) ==
    /\ run[t] = "lock" /\ owner = 0
    /\ owner' = t
    /\ RunTo(t, "finally")
    /\ UNCHANGED <<callerVars, getLock, hit>>

TimeOut(t) ==
    /\ run[t] = "lock" /\ NeedTry(t) /\ owner # 0
    /\ getLock' = [getLock EXCEPT ![t] = FALSE]
    /\ RunTo(t, "finally")
    /\ UNCHANGED <<callerVars, owner, hit>>

\* await() and tryLock() throw, lock() does not; getLock is still true.
Interrupt(t) ==
    /\ t \in Interruptible
    /\ run[t] = "await" \/ (run[t] = "lock" /\ NeedTry(t))
    /\ hit' = hit \cup {t}
    /\ RunTo(t, "finally")
    /\ UNCHANGED <<callerVars, getLock, owner>>

FinallyAlways(t) ==              \* slip: unlock() whatever tryLock() has answered
    /\ run[t] = "finally"
    /\ IF owner = t THEN owner' = 0 /\ RunTo(t, "ended")
                    ELSE RunTo(t, "illegal") /\ UNCHANGED owner
    /\ UNCHANGED <<callerVars, getLock, hit>>

FinallyUnlessTry(t) ==           \* slip: who needs to try does not unlock
    /\ run[t] = "finally"
    /\ IF NeedTry(t) THEN RunTo(t, "ended") /\ UNCHANGED owner
       ELSE owner' = 0 /\ RunTo(t, "ended")
    /\ UNCHANGED <<callerVars, getLock, hit>>

\* unlock() by a thread that is not the owner throws IllegalMonitorStateException.
Finally(t) ==
    /\ run[t] = "finally"
    /\ IF NeedTry(t) /\ ~getLock[t] THEN RunTo(t, "ended") /\ UNCHANGED owner
       ELSE IF owner = t THEN owner' = 0 /\ RunTo(t, "ended")
       ELSE RunTo(t, "illegal") /\ UNCHANGED owner
    /\ UNCHANGED <<callerVars, getLock, hit>>

Thread(t) == Await(t) \/ TakeLock(t) \/ TimeOut(t) \/ Finally(t)

Next ==
    \/ \E c \in Callers : Caller(c)
    \/ \E t \in Threads : Thread(t) \/ Interrupt(t)

Spec == Init /\ [][Next]_vars

\* Every caller and every started thread runs.
Fairness ==
    /\ \A c \in Callers : WF_vars(Caller(c))
    /\ \A t \in Threads : WF_vars(Thread(t))

FairSpec == Spec /\ Fairness

-----------------------------------------------------------------------------
(* Properties *)

TypeOK ==
    /\ latchField \in 1 .. latchesMade /\ latchesMade \in Nat
    /\ opened \subseteq 1 .. latchesMade
    /\ threadIndex \in 0 .. Cardinality(Threads)
    /\ caller \in [Callers -> {"check", "replace", "make", "read", "countDown", "ended"}]
    /\ toMake \in [Callers -> 0 .. BatchSize] /\ batch \in [Callers -> Nat]
    /\ found \in [Callers -> 0 .. latchesMade]
    /\ run \in [Threads -> {"none", "await", "lock", "finally", "ended", "illegal"}]
    /\ latchOf \in [Threads -> 0 .. latchesMade]
    /\ getLock \in [Threads -> BOOLEAN]
    /\ owner \in {0} \cup {t \in Threads : run[t] = "finally"}
    /\ hit \subseteq Threads /\ raced \subseteq 1 .. latchesMade

\* unlock() throws only in a thread that was interrupted before it had the lock.
UnlockIsLegal == \A t \in Threads : run[t] = "illegal" => t \in hit

\* A thread waits on a latch that is neither open nor in the field only when
\* two calls of newThread() have replaced the open latch at the same time.
Stranded(t) == run[t] = "await" /\ latchOf[t] \notin opened \cup {latchField}
StrandedByRace == \A t \in Threads : Stranded(t) => raced # {}

\* But for that race every thread that was made ends, and leaves the lock.
EveryThreadEnds ==
    <>[](/\ owner = 0
         /\ \A t \in Threads : run[t] \in {"ended", "illegal"} \/ Stranded(t))

-----------------------------------------------------------------------------
(* The invariant that is inductive *)

\* The calls of newThread() that have made a thread
CallsMade ==
    {call \in NewThreadCalls :
        \/ call[2][1] > batch[call[1]]
        \/ call[2][1] = batch[call[1]] /\ call[2][2] > toMake[call[1]]}

\* The factory numbers its threads without a gap, whoever calls it.
ThreadsAreCounted ==
    /\ threadIndex = Cardinality(CallsMade)
    /\ \A t \in Threads : t > threadIndex => run[t] = "none"
    /\ \A c \in Callers :
          /\ batch[c] <= Batches[c]
          /\ caller[c] # "ended" => batch[c] >= 1
          /\ caller[c] \in {"check", "replace", "make"} => toMake[c] >= 1
          /\ caller[c] \in {"read", "countDown"} => toMake[c] = 0

\* Without a race only the latch in the field may be closed, and it is not
\* replaced before it is open.
LatchesAreOpened ==
    /\ raced = {} =>
          /\ 1 .. latchesMade \subseteq opened \cup {latchField}
          /\ \A c \in Callers : caller[c] = "replace" => latchField \in opened
    /\ \A c \in Callers : caller[c] = "countDown" => found[c] >= 1
    /\ \A t \in Threads : run[t] = "await" => latchOf[t] >= 1

\* Whoever is in the finally block has the lock, was interrupted, or knows that
\* tryLock() has timed out; and the owner has not been told so.
FinallyKnows ==
    \A t \in Threads :
        /\ run[t] \in {"none", "await", "lock"} \/ owner = t => getLock[t]
        /\ run[t] = "finally" => owner = t \/ t \in hit \/ (NeedTry(t) /\ ~getLock[t])

IInv == TypeOK /\ ThreadsAreCounted /\ LatchesAreOpened /\ FinallyKnows /\ UnlockIsLegal
==============================================================================
