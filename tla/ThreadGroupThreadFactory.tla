---------------------- MODULE ThreadGroupThreadFactory ----------------------
(***************************************************************************)
(* ThreadGroupThreadFactory and its driver ThreadGroupTest2.  The factory  *)
(* puts its threads alternately into a first group and into a second one   *)
(* that is a child of the first; main() starts the threads, waits on both  *)
(* groups and destroys them.                                               *)
(*                                                                         *)
(* Of java.lang.ThreadGroup: activeCount() counts the threads of the       *)
(* children too; a thread that leaves notifies only its own group, when    *)
(* that group has no thread left; destroy() throws for a group with        *)
(* threads and destroys the children as well.  Of wait(): it may return    *)
(* although nobody notified.                                               *)
(***************************************************************************)
EXTENDS Integers, FiniteSets

CONSTANT ThreadCount    \* 10 in the code

CountAssumption == ThreadCount \in Nat \ {0}

Threads == 1 .. ThreadCount
Groups == {"first", "second"}

\* newThread(): thread t has the id t - 1, and even ids go to the first group.
GroupOf(t) == IF (t - 1) % 2 = 0 THEN "first" ELSE "second"

VARIABLES
    step,       \* where main() is
    group,      \* the group it waits on or destroys
    started,    \* threads 1 .. started are started
    gate,       \* the CountDownLatch
    thread,     \* where a thread is
    destroyed   \* the groups that are destroyed

vars == <<step, group, started, gate, thread, destroyed>>

Init ==
    /\ step = "start" /\ group = "first"
    /\ started = 0
    /\ gate = 1
    /\ thread = [t \in Threads |-> "new"]
    /\ destroyed = {}

\* The threads that a group counts as its own, and its children.
Own(g) == {t \in Threads : GroupOf(t) = g /\ thread[t] \notin {"new", "ended"}}
Children(g) == IF g = "first" THEN {"second"} \ destroyed ELSE {}

\* activeCount(), as far as it is asked for
HasActive(g) == Own(g) # {} \/ \E child \in Children(g) : Own(child) # {}

-----------------------------------------------------------------------------
(* main() *)

StartBeyond ==                   \* slip: <= where < is
    /\ step = "start"
    /\ started' = started + 1
    /\ thread' = [thread EXCEPT ![started + 1] = "await"]
    /\ step' = IF started = ThreadCount THEN "wait" ELSE "start"
    /\ UNCHANGED <<group, gate, destroyed>>

\* newThread() and start(); the count-down thread is the last to be started.
Start ==
    /\ step = "start"
    /\ started' = started + 1
    /\ thread' = [thread EXCEPT ![started + 1] = "await"]
    /\ step' = IF started + 1 = ThreadCount THEN "wait" ELSE "start"
    /\ UNCHANGED <<group, gate, destroyed>>

WaitedThenFirst ==               \* slip: the first group is destroyed first
    IF group = "first" THEN step' = "wait" /\ group' = "second"
                       ELSE step' = "destroy" /\ group' = "first"

\* From waitOnThreadGroup(true) to waitOnThreadGroup(false) to destroyThreadGroup().
Waited ==
    /\ step' = IF group = "first" THEN "wait" ELSE "destroy"
    /\ group' = "second"

\* waitOnThreadGroup(group): one test and one wait(), in the monitor that the
\* threads of the group need to leave it.
Wait ==
    /\ step = "wait"
    /\ IF HasActive(group) THEN step' = "waiting" /\ UNCHANGED group ELSE Waited
    /\ UNCHANGED <<started, gate, thread, destroyed>>

\* ThreadGroup.destroy(), the second group before the first, and after both
\* createNewThreadGroup().
Destroyed ==
    IF HasActive(group)
    THEN step' = "failed" /\ UNCHANGED <<group, destroyed>>
    ELSE IF group = "second"
    THEN step' = "destroy" /\ group' = "first" /\ destroyed' = {"second"}
    ELSE step' = "ended" /\ group' = "first" /\ destroyed' = {}

\* The loop of destroyThreadGroup(group)
Destroy ==
    /\ step = "destroy"
    /\ IF HasActive(group) THEN step' = "destroying" /\ UNCHANGED <<group, destroyed>>
                           ELSE Destroyed
    /\ UNCHANGED <<started, gate, thread>>

Main == Start \/ Wait \/ Destroy

ReturnWithoutTest ==             \* slip: if where while is
    \/ step = "waiting" /\ Waited /\ UNCHANGED destroyed
    \/ step = "destroying" /\ Destroyed

\* wait() returns, in waitOnThreadGroup or in the loop.
Return ==
    \/ step = "waiting" /\ Waited /\ UNCHANGED destroyed
    \/ step = "destroying" /\ step' = "destroy" /\ UNCHANGED <<group, destroyed>>

SpuriousWakeup == Return /\ UNCHANGED <<started, gate, thread>>

-----------------------------------------------------------------------------
(* The threads *)

\* The count-down thread
CountDown ==
    /\ started = ThreadCount /\ gate = 1
    /\ gate' = 0
    /\ UNCHANGED <<step, group, started, thread, destroyed>>

PassGate(t) ==
    /\ thread[t] = "await" /\ gate = 0
    /\ thread' = [thread EXCEPT ![t] = "sleep"]
    /\ UNCHANGED <<step, group, started, gate, destroyed>>

\* The thread leaves its group, and the last one notifies who waits on it.
Leave(t) ==
    /\ thread[t] = "sleep"
    /\ thread' = [thread EXCEPT ![t] = "ended"]
    /\ IF step \in {"waiting", "destroying"} /\ Own(group) = {t}
       THEN Return ELSE UNCHANGED <<step, group, destroyed>>
    /\ UNCHANGED <<started, gate>>

Next ==
    \/ Main \/ SpuriousWakeup \/ CountDown
    \/ \E t \in Threads : PassGate(t) \/ Leave(t)

Spec == Init /\ [][Next]_vars

\* Every started thread runs; nothing makes wait() return early.
Fairness ==
    /\ WF_vars(Main) /\ WF_vars(CountDown)
    /\ \A t \in Threads : WF_vars(PassGate(t) \/ Leave(t))

FairSpec == Spec /\ Fairness

-----------------------------------------------------------------------------
(* Properties *)

TypeOK ==
    /\ step \in {"start", "wait", "waiting", "destroy", "destroying", "ended",
                 "failed"}
    /\ group \in Groups
    /\ started \in 0 .. ThreadCount
    /\ gate \in {0, 1}
    /\ thread \in [Threads -> {"new", "await", "sleep", "ended"}]
    /\ destroyed \subseteq Groups

\* destroy() never meets a group with threads, spurious wake-ups or not.
DestroyIsLegal == step # "failed"

\* main() waits in the loop of destroyThreadGroup, or on the second group, only
\* while a thread is in that very group, so that the notification is yet to
\* come.  The second group is destroyed first for this: the first one counts
\* the threads of its child and is not notified by them.
NotificationToCome ==
    step = "destroying" \/ (step = "waiting" /\ group = "second") => Own(group) # {}

\* wait() on the first group may begin when only threads of the second are
\* left, and then nobody notifies.
Missed == step = "waiting" /\ group = "first" /\ Own("first") = {}

\* main() ends, or it has missed the notification of the first group and waits
\* for good.
MainEnds == <>(step = "ended") \/ <>[]Missed

-----------------------------------------------------------------------------
(* The invariant that is inductive *)

\* Threads are started in their order while main() is in the loop of start().
StartsInOrder ==
    /\ step = "start" => started < ThreadCount /\ group = "first"
    /\ \A t \in Threads : thread[t] = "new" <=> t > started

\* Only between the two calls of destroyThreadGroup is a group destroyed.
SecondIsDestroyed ==
    destroyed = IF step \in {"destroy", "destroying"} /\ group = "first" THEN {"second"} ELSE {}

IInv == TypeOK /\ StartsInOrder /\ SecondIsDestroyed /\ DestroyIsLegal /\ NotificationToCome
=============================================================================
