----------------------------- MODULE CountedLock -----------------------------
(***************************************************************************)
(* What a TwinsLock promises its callers, whatever its queue and its       *)
(* compare-and-set loops do: at most Count threads are inside at a time,   *)
(* each of them any number of times, and only a thread that is inside      *)
(* leaves.  depth[t] is how often t entered and has not left.              *)
(***************************************************************************)
EXTENDS Integers, FiniteSets

CONSTANTS Threads, Count

VARIABLE depth

Inside == {t \in Threads : depth[t] > 0}

Init == depth = [t \in Threads |-> 0]

\* A thread comes in: a place is free, and it takes one.
Enter(t) ==
    /\ depth[t] = 0
    /\ Cardinality(Inside) < Count
    /\ depth' = [depth EXCEPT ![t] = 1]

\* A thread that is inside comes in again: it needs no further place.
Reenter(t) ==
    /\ depth[t] > 0
    /\ depth' = [depth EXCEPT ![t] = @ + 1]

Leave(t) ==
    /\ depth[t] > 0
    /\ depth' = [depth EXCEPT ![t] = @ - 1]

Next == \E t \in Threads : Enter(t) \/ Reenter(t) \/ Leave(t)

Spec == Init /\ [][Next]_depth
==============================================================================
