------------------------------- MODULE JobPool -------------------------------
(* What a pool of threads promises of its jobs: they are started in the order *)
(* in which they were accepted, each of them once, and never more at a time   *)
(* than there are live threads.                                               *)
EXTENDS Integers, FiniteSets

CONSTANTS Size, Capacity

VARIABLES
    live,       \* number of threads that can still take jobs
    accepted,   \* jobs 1 .. accepted were accepted
    begun,      \* jobs 1 .. begun were started
    running     \* those of them that are not over

vars == <<live, accepted, begun, running>>

Init == live = Size /\ accepted = 0 /\ begun = 0 /\ running = {}

\* A job may also be submitted by a running one.
Accept ==
    /\ accepted - begun < Capacity
    /\ accepted' = accepted + 1
    /\ UNCHANGED <<live, begun, running>>

Begin ==
    /\ begun < accepted /\ Cardinality(running) < live
    /\ begun' = begun + 1
    /\ running' = running \cup {begun + 1}
    /\ UNCHANGED <<live, accepted>>

Finish ==
    /\ \E j \in running : running' = running \ {j}
    /\ UNCHANGED <<live, accepted, begun>>

\* A job that fails takes its thread with it; a thread may also end without a job.
Crash ==
    /\ \E j \in running : running' = running \ {j}
    /\ live' = live - 1
    /\ UNCHANGED <<accepted, begun>>

Retire ==
    /\ Cardinality(running) < live
    /\ live' = live - 1
    /\ UNCHANGED <<accepted, begun, running>>

Next == Accept \/ Begin \/ Finish \/ Crash \/ Retire

Spec == Init /\ [][Next]_vars
==============================================================================
