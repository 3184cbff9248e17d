------------------------------- MODULE Session -------------------------------
(***************************************************************************)
(* The Session of the NIO application server: a map behind a nonfair       *)
(* ReentrantReadWriteLock.  put() takes the write lock, get(),             *)
(* containsKey() and containsValue() the read lock, and there is a put()   *)
(* and a get() that wait for a limited time only.                          *)
(*                                                                         *)
(* The get() with a time limit takes the read lock and unlocks the write   *)
(* lock: it throws IllegalMonitorStateException, and its read lock stays   *)
(* taken for good.                                                         *)
(*                                                                         *)
(* The lock: a writer takes it when it is free, also past threads that     *)
(* wait; a reader does so when no writer has it, but not past a writer     *)
(* that waits at the front, unless it has a read lock already.             *)
(***************************************************************************)
EXTENDS Integers, Sequences, SequencesExt

CONSTANTS
    Threads,
    Calls   \* bound: calls of all threads together

CallsAssumption == Calls \in Nat

Writes == {"put", "timedPut"}
Timed == {"timedPut", "timedGet"}
\* containsKey() and containsValue() lock and unlock like get().
Methods == Writes \cup {"get", "timedGet"}

VARIABLES
    at,         \* where a thread is: outside, entering, waiting or in the map
    method,     \* the method it calls or has called last
    reads,      \* the read locks that it has
    writer,     \* the threads that have the write lock
    waiting,    \* the threads in the queue of the lock
    callsMade   \* the calls so far

vars == <<at, method, reads, writer, waiting, callsMade>>

Init ==
    /\ at = [t \in Threads |-> "outside"]
    /\ method = [t \in Threads |-> "get"]
    /\ reads = [t \in Threads |-> 0]
    /\ writer = {} /\ waiting = <<>>
    /\ callsMade = 0

Move(t, place) == at' = [at EXCEPT ![t] = place]

Writing(t) == method[t] \in Writes

-----------------------------------------------------------------------------
(* The lock *)

Free(t) ==
    /\ writer = {}
    /\ Writing(t) => \A u \in Threads : reads[u] = 0

Behind(t) == ~Writing(t) /\ reads[t] = 0 /\ waiting # <<>> /\ Writing(Head(waiting))

TakeBoth(t) ==                   \* slip: put() under the read lock
    /\ writer = {}
    /\ reads' = [reads EXCEPT ![t] = @ + 1]
    /\ UNCHANGED writer

Take(t) ==
    /\ Free(t)
    /\ IF Writing(t) THEN writer' = {t} /\ UNCHANGED reads
                     ELSE reads' = [reads EXCEPT ![t] = @ + 1] /\ UNCHANGED writer

-----------------------------------------------------------------------------
(* The methods *)

Call(t, m) ==
    /\ at[t] = "outside" /\ callsMade < Calls
    /\ callsMade' = callsMade + 1
    /\ method' = [method EXCEPT ![t] = m]
    /\ Move(t, "entering")
    /\ UNCHANGED <<reads, writer, waiting>>

Enter(t) ==
    /\ at[t] = "entering" /\ ~Behind(t)
    /\ Take(t)
    /\ Move(t, "map")
    /\ UNCHANGED <<method, waiting, callsMade>>

Wait(t) ==
    /\ at[t] = "entering" /\ (Behind(t) \/ ~Free(t))
    /\ waiting' = Append(waiting, t)
    /\ Move(t, "waiting")
    /\ UNCHANGED <<method, reads, writer, callsMade>>

EnterFromQueue(t) ==
    /\ at[t] = "waiting" /\ t = Head(waiting)
    /\ Take(t)
    /\ waiting' = Tail(waiting)
    /\ Move(t, "map")
    /\ UNCHANGED <<method, callsMade>>

LeaveQueue(t) == \E i \in 1 .. Len(waiting) :
    waiting[i] = t /\ waiting' = RemoveAt(waiting, i)

TimeOutAny(t) ==                 \* slip: every method gives up after a time
    /\ at[t] = "waiting"
    /\ LeaveQueue(t)
    /\ Move(t, "outside")
    /\ UNCHANGED <<method, reads, writer, callsMade>>

\* The time is over, or the thread is interrupted: null, the default value or
\* MatchaUnCheckException, and nothing to unlock.
TimeOut(t) ==
    /\ at[t] = "waiting" /\ method[t] \in Timed
    /\ LeaveQueue(t)
    /\ Move(t, "outside")
    /\ UNCHANGED <<method, reads, writer, callsMade>>

LeakEveryRead(t) ==              \* slip: every get() unlocks the write lock
    /\ at[t] = "map"
    /\ writer' = writer \ {t}
    /\ Move(t, "outside")
    /\ UNCHANGED <<method, reads, waiting, callsMade>>

LeaveLocked(t) ==                \* slip: put() with a time limit does not unlock
    /\ at[t] = "map"
    /\ writer' = IF method[t] = "timedPut" THEN writer ELSE writer \ {t}
    /\ reads' = [reads EXCEPT ![t] = IF method[t] = "get" THEN @ - 1 ELSE @]
    /\ Move(t, "outside")
    /\ UNCHANGED <<method, waiting, callsMade>>

\* The finally block.  unlock() of the write lock throws in a timed get().
Leave(t) ==
    /\ at[t] = "map"
    /\ writer' = writer \ {t}
    /\ reads' = [reads EXCEPT ![t] = IF method[t] = "get" THEN @ - 1 ELSE @]
    /\ Move(t, "outside")
    /\ UNCHANGED <<method, waiting, callsMade>>

Step(t) == Enter(t) \/ Wait(t) \/ EnterFromQueue(t) \/ TimeOut(t) \/ Leave(t)

Next == \E t \in Threads : Step(t) \/ \E m \in Methods : Call(t, m)

Spec == Init /\ [][Next]_vars

\* A thread inside a call goes on; nobody has to call.
Fairness == \A t \in Threads : WF_vars(Step(t))

FairSpec == Spec /\ Fairness

-----------------------------------------------------------------------------
(* Properties *)

InMap == {t \in Threads : at[t] = "map"}
Leaked == {t \in Threads : reads[t] > (IF at[t] = "map" /\ ~Writing(t) THEN 1 ELSE 0)}

TypeOK ==
    /\ at \in [Threads -> {"outside", "entering", "waiting", "map"}]
    /\ method \in [Threads -> Methods]
    /\ reads \in [Threads -> 0 .. Calls]
    /\ writer \subseteq Threads
    /\ waiting \in Seq(Threads) /\ ToSet(waiting) = {t \in Threads : at[t] = "waiting"}
    /\ callsMade \in 0 .. Calls

\* A put() is alone in the map, and none is in it after a timed get() was.
MapIsGuarded ==
    \A t \in InMap : Writing(t) => InMap = {t} /\ Leaked = {}

\* Only a timed get() leaves a lock behind.
OnlyTimedGetLeaks ==
    [][\A t \in Threads : t \in Leaked' \ Leaked => method[t] = "timedGet"]_vars

\* Once a lock was left behind, a put() without a time limit never returns.
Blocked(t) == Leaked # {} /\ at[t] = "waiting" /\ method[t] = "put"
BlockedForGood == [][\A t \in Threads : Blocked(t) => Blocked(t)']_vars

\* With such a put() at the front of the queue the session is closed: a thread
\* without a read lock left behind does not come into the map any more.
Closed == waiting # <<>> /\ Blocked(Head(waiting))
ClosedForGood ==
    [][Closed => Closed' /\ \A t \in Threads : at'[t] = "map" /\ at[t] # "map" => t \in Leaked]_vars

\* A call returns, unless a lock was left behind; one with a time limit does anyway.
\* This is for Calls calls in all: where callers never stop coming, they may pass a
\* put() that waits again and again, since the lock is not fair.
Returns ==
    \A t \in Threads :
        at[t] # "outside" ~> at[t] = "outside" \/ (Leaked # {} /\ method[t] \notin Timed)

-----------------------------------------------------------------------------
(* The invariant that is inductive *)

\* A thread waits once.
WaitsOnce == \A i, j \in 1 .. Len(waiting) : waiting[i] = waiting[j] => i = j

\* The write lock is with the put() in the map, and then nobody has a read lock.
WriterInv ==
    /\ writer = {t \in InMap : Writing(t)}
    /\ \A t \in writer : InMap = {t} /\ \A u \in Threads : reads[u] = 0

\* Whoever reads the map has a read lock.
ReaderInv == \A t \in InMap : Writing(t) \/ reads[t] > 0

\* A thread has taken at most one read lock in each call.
ReadsInv ==
    \A t \in Threads :
        /\ reads[t] <= callsMade
        /\ at[t] \in {"entering", "waiting"} => reads[t] < callsMade

IInv == TypeOK /\ WaitsOnce /\ WriterInv /\ ReaderInv /\ ReadsInv
==============================================================================
