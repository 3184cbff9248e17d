------------------------- MODULE TwinsLockOvertaking -------------------------
(***************************************************************************)
(* FairSync asks hasQueuedPredecessors() once, before the loop that takes  *)
(* a permit, so a thread may still pass others that queue up after it      *)
(* asked.  This module records whom it passed, to state how unfair the     *)
(* fair lock can get.                                                      *)
(***************************************************************************)
EXTENDS TwinsLock

VARIABLE overtook   \* history: the waiting threads that u passed, per u

ovars == <<state, counter, seen, queue, token, call, pc, overtook>>

\* In the queue and not yet served: the thread in setHead has its permit.
Waiting == {t \in Threads : InQueue(t) /\ counter[t] = 0}

\* u takes a permit without having waited, while others wait.
Barges(u) == counter[u] = 0 /\ counter'[u] = 1 /\ ~InQueue(u)

OInit == Init /\ overtook = [u \in Threads |-> {}]

ONext ==
    /\ Next
    /\ overtook' = [u \in Threads |->
                      (overtook[u] \cup (IF Barges(u) THEN Waiting ELSE {}))
                          \cap Waiting']

OSpec == OInit /\ [][ONext]_ovars /\ Fairness

\* With FairSync no thread passes the same waiting thread twice: a thread
\* that slipped by between its check and its compare-and-set finds the
\* waiter in the queue when it comes again (shouldAcquire in FairSync).
NoSecondOvertaking ==
    [][\A u \in Threads : Barges(u) => Waiting \cap overtook[u] = {}]_ovars

\* Whoever was passed is still waiting.
PassedAreWaiting == \A u \in Threads : overtook[u] \subseteq Waiting

\* The places between the answer of shouldAcquire() and the compare-and-set.
Competing == {"getState", "casState"}

\* With FairSync a newcomer was let past the question while nobody waited,
\* so it has passed none of those who wait by now.
PassedNoneYet ==
    Fair =>
        \A u \in Threads :
            pc[u] \in Competing /\ ~InQueue(u) => overtook[u] = {}

\* The strengthening that every step preserves.
OInv == IInv /\ PassedAreWaiting /\ PassedNoneYet
==============================================================================
