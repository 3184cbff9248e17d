------------------------ MODULE ReadWriteThreadFacotry ------------------------
(***************************************************************************)
(* ReadWriteThreadFacotry, its driver TestReadWriteLock, and the Cache that*)
(* its threads use.  Every thread reads the field countDownLatch when it   *)
(* runs, and awaits the latch it has found there; startAllThread() opens   *)
(* the latch and then puts a new one into the field.  The threads of later *)
(* rounds exist from the start here: until it reads the field a thread     *)
(* might as well not have been created.                                    *)
(*                                                                         *)
(* Cache.getInstance() reads a field that is neither volatile nor read     *)
(* under the monitor: a thread that has not been inside createInstance()   *)
(* may read null after the field was set, and may get a Cache whose lock   *)
(* fields it does not see yet; it then dies of a NullPointerException.     *)
(* The lock of the Cache is a fair ReentrantReadWriteLock.                 *)
(***************************************************************************)
EXTENDS Integers, Sequences

CONSTANTS
    Getters, Putters,
    Rounds,     \* calls of startAllThread(), 1 in TestReadWriteLock
    Calls       \* get() or set() calls of a thread, 3 in the code

RoundsAssumption == Rounds \in Nat
CallsAssumption == Calls \in Nat \ {0}

Threads == Getters \cup Putters

VARIABLES
    current,    \* the countDownLatch in the field: latches are numbered
    open,       \* the latches that were counted down
    starter,    \* where the caller of startAllThread() is
    pc,         \* where a thread is
    awaited,    \* the latch it has read
    caches,     \* how many Caches were made
    entered,    \* the threads that have been inside createInstance()
    readers, writers,   \* the holders of the two locks of the Cache
    parked,     \* the threads that wait for one of them
    calls       \* calls of a thread that are left

vars == <<current, open, starter, pc, awaited, caches, entered, readers, writers,
          parked, calls>>

gateVars == <<current, open, starter, awaited>>
cacheVars == <<caches, entered>>
lockVars == <<readers, writers, parked, calls>>

Init ==
    /\ current = 1 /\ open = {}
    /\ starter = "countDown"
    /\ pc = [t \in Threads |-> "read"]
    /\ awaited = [t \in Threads |-> 0]
    /\ caches = 0 /\ entered = {}
    /\ readers = {} /\ writers = {} /\ parked = <<>>
    /\ calls = [t \in Threads |-> Calls]

Goto(t, place) == pc' = [pc EXCEPT ![t] = place]

-----------------------------------------------------------------------------
(* startAllThread() *)

ReplaceUnopened ==               \* slip: replace, then countDown()
    /\ current <= Rounds
    /\ current' = current + 1
    /\ open' = open \cup {current + 1}
    /\ UNCHANGED <<starter, awaited, pc, cacheVars, lockVars>>

CountDown ==
    /\ starter = "countDown" /\ current <= Rounds
    /\ open' = open \cup {current}
    /\ starter' = "replace"
    /\ UNCHANGED <<current, awaited, pc, cacheVars, lockVars>>

Replace ==
    /\ starter = "replace"
    /\ current' = current + 1
    /\ starter' = "countDown"
    /\ UNCHANGED <<open, awaited, pc, cacheVars, lockVars>>

Starter == CountDown \/ Replace

-----------------------------------------------------------------------------
(* GetRunnable.run() and PutRunnable.run() *)

ReadLatch(t) ==
    /\ pc[t] = "read"
    /\ awaited' = [awaited EXCEPT ![t] = current]
    /\ Goto(t, "await")
    /\ UNCHANGED <<current, open, starter, cacheVars, lockVars>>

Await(t) ==
    /\ pc[t] = "await" /\ awaited[t] \in open
    /\ Goto(t, "getInstance")
    /\ UNCHANGED <<gateVars, cacheVars, lockVars>>

\* Cache.getInstance()
CheckInstance(t) ==
    /\ pc[t] = "getInstance"
    /\ \/ Goto(t, "createInstance")
       \/ caches > 0 /\ Goto(t, "use")
    /\ UNCHANGED <<gateVars, cacheVars, lockVars>>

CreateUnchecked(t) ==            \* slip: no second check inside the monitor
    /\ pc[t] = "createInstance"
    /\ caches' = caches + 1
    /\ entered' = entered \cup {t}
    /\ Goto(t, "use")
    /\ UNCHANGED <<gateVars, lockVars>>

CreateInstance(t) ==
    /\ pc[t] = "createInstance"
    /\ caches' = IF caches = 0 THEN 1 ELSE caches
    /\ entered' = entered \cup {t}
    /\ Goto(t, "use")
    /\ UNCHANGED <<gateVars, lockVars>>

UseCache(t) ==
    /\ pc[t] = "use"
    /\ Goto(t, "lock") \/ (t \notin entered /\ Goto(t, "failed"))
    /\ UNCHANGED <<gateVars, cacheVars, lockVars>>

-----------------------------------------------------------------------------
(* Cache.get() and Cache.set(): lock, use the map, unlock *)

AcquireBesideReaders(t) ==       \* slip: set() under the read lock
    /\ writers = {}
    /\ readers' = readers \cup {t}
    /\ UNCHANGED writers

Acquire(t) ==
    IF t \in Getters
    THEN writers = {} /\ readers' = readers \cup {t} /\ UNCHANGED writers
    ELSE writers = {} /\ readers = {} /\ writers' = {t} /\ UNCHANGED readers

\* A fair lock: who comes while others wait, waits behind them.
Lock(t) ==
    /\ pc[t] = "lock" /\ parked = <<>>
    /\ Acquire(t)
    /\ Goto(t, "map")
    /\ UNCHANGED <<gateVars, cacheVars, parked, calls>>

Park(t) ==
    /\ pc[t] = "lock"
    /\ parked # <<>> \/ writers # {} \/ (t \in Putters /\ readers # {})
    /\ parked' = Append(parked, t)
    /\ Goto(t, "parked")
    /\ UNCHANGED <<gateVars, cacheVars, readers, writers, calls>>

LockFromQueue(t) ==
    /\ pc[t] = "parked" /\ t = Head(parked)
    /\ Acquire(t)
    /\ parked' = Tail(parked)
    /\ Goto(t, "map")
    /\ UNCHANGED <<gateVars, cacheVars, calls>>

UseMapUnlockingWriters(t) ==     \* slip: get() does not unlock
    /\ pc[t] = "map"
    /\ writers' = writers \ {t}
    /\ calls' = [calls EXCEPT ![t] = @ - 1]
    /\ Goto(t, IF calls[t] > 1 THEN "lock" ELSE "ended")
    /\ UNCHANGED <<gateVars, cacheVars, readers, parked>>

\* The map was used; the finally block unlocks, and the next call begins.
UseMap(t) ==
    /\ pc[t] = "map"
    /\ readers' = readers \ {t} /\ writers' = writers \ {t}
    /\ calls' = [calls EXCEPT ![t] = @ - 1]
    /\ Goto(t, IF calls[t] > 1 THEN "lock" ELSE "ended")
    /\ UNCHANGED <<gateVars, cacheVars, parked>>

Runner(t) ==
    \/ ReadLatch(t) \/ Await(t)
    \/ CheckInstance(t) \/ CreateInstance(t) \/ UseCache(t)
    \/ Lock(t) \/ Park(t) \/ LockFromQueue(t) \/ UseMap(t)

Next == Starter \/ \E t \in Threads : Runner(t)

Spec == Init /\ [][Next]_vars

\* Every started thread runs.
Fairness == WF_vars(Starter) /\ \A t \in Threads : WF_vars(Runner(t))

FairSpec == Spec /\ Fairness

-----------------------------------------------------------------------------
(* Properties *)

TypeOK ==
    /\ current \in 1 .. Rounds + 1 /\ open \subseteq 1 .. Rounds
    /\ starter \in {"countDown", "replace"}
    /\ pc \in [Threads -> {"read", "await", "getInstance", "createInstance", "use",
                           "lock", "parked", "map", "ended", "failed"}]
    /\ awaited \in [Threads -> 0 .. Rounds + 1]
    /\ caches \in Nat /\ entered \subseteq Threads
    /\ readers \subseteq Getters /\ writers \subseteq Putters
    /\ parked \in Seq(Threads)
    /\ calls \in [Threads -> 0 .. Calls]

\* Whoever waits, waits on the latch that the next startAllThread() opens: no
\* latch leaves the field before it is open.
NobodyIsStranded ==
    \A t \in Threads : pc[t] = "await" /\ awaited[t] \notin open => awaited[t] = current

\* The threads that race for the first Cache make one.
OneCache == caches <= 1

\* The HashMap is never put into beside another access.
MapIsGuarded ==
    \A t, u \in Threads :
        t # u /\ pc[t] = "map" /\ pc[u] = "map" => {t, u} \subseteq Getters

\* Every thread ends, by a NullPointerException if it has lost the race for the
\* Cache, unless it reads the field after the last startAllThread().
EveryThreadEnds ==
    \A t \in Threads : \/ <>(pc[t] \in {"ended", "failed"})
                       \/ <>[](pc[t] = "await" /\ awaited[t] = Rounds + 1)

-----------------------------------------------------------------------------
(* The invariant that is inductive *)

\* The latches that have left the field are open, and startAllThread() opens the
\* one in the field before it puts the next there.
OldLatchesAreOpen ==
    /\ 1 .. current - 1 \subseteq open
    /\ starter = "replace" => current \in open
    /\ \A t \in Threads : /\ awaited[t] <= current
                          /\ pc[t] = "await" => awaited[t] >= 1

\* The locks of the Cache are with the threads in its map.
LocksAreHeld ==
    /\ readers = {t \in Getters : pc[t] = "map"}
    /\ writers = {t \in Threads \ Getters : pc[t] = "map"}
    /\ \A t \in writers : writers = {t} /\ readers = {}

\* Who waits for a lock is in the queue.
ParkedAreQueued ==
    \A t \in Threads : pc[t] = "parked" => \E i \in 1 .. Len(parked) : parked[i] = t

CallsAreLeft == \A t \in Threads : pc[t] # "ended" => calls[t] >= 1

IInv == /\ TypeOK /\ OldLatchesAreOpen /\ LocksAreHeld /\ ParkedAreQueued /\ CallsAreLeft
        /\ OneCache
==============================================================================
