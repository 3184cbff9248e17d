------------------------- MODULE TestLockInterruptibly -------------------------
(* The four threads of TestLockInterruptibly.  The first three pass a latch   *)
(* and take the lock, the second of them with lockInterruptibly(), and none   *)
(* unlocks; the fourth interrupts the second and the third.  The lock is fair *)
(* but nobody gives it back, so the order of its queue does not matter.       *)

EXTENDS Integers

VARIABLES
    latchIsOpen,    \* countDownLatch.countDown() was called
    place,          \* where a thread is
    owning,         \* the thread that has the lock, 0 for none
    interrupted     \* the interrupt status of a thread

vars == <<latchIsOpen, place, owning, interrupted>>

Lockers == 1 .. 3
Interrupter == 4

Init ==
    /\ latchIsOpen = FALSE
    /\ place = [t \in 1 .. 4 |-> "latch"]
    /\ owning = 0
    /\ interrupted = [t \in 1 .. 4 |-> FALSE]

To(t, where) == place' = [place EXCEPT ![t] = where]

CountDown ==
    /\ ~latchIsOpen
    /\ latchIsOpen' = TRUE
    /\ UNCHANGED <<place, owning, interrupted>>

\* await() throws when the thread is interrupted, and clears its status.
Await(t) ==
    /\ place[t] = "latch"
    /\ \/ interrupted[t] /\ To(t, "thrown")
       \/ ~interrupted[t] /\ latchIsOpen /\ To(t, "passed")
    /\ interrupted' = [interrupted EXCEPT ![t] = FALSE]
    /\ UNCHANGED <<latchIsOpen, owning>>

Take(t) ==
    /\ t \in Lockers /\ place[t] = "passed" /\ owning = 0
    /\ t = 2 => ~interrupted[t]
    /\ owning' = t
    /\ To(t, "ended")
    /\ UNCHANGED <<latchIsOpen, interrupted>>

GiveUpUnlocked(t) ==             \* slip: who waits for the lock is not interrupted
    /\ t = 2 /\ place[t] = "passed" /\ interrupted[t] /\ owning = 0
    /\ interrupted' = [interrupted EXCEPT ![t] = FALSE]
    /\ To(t, "thrown")
    /\ UNCHANGED <<latchIsOpen, owning>>

\* lockInterruptibly() throws, before or while it waits; lock() does not.
GiveUp(t) ==
    /\ t = 2 /\ place[t] = "passed" /\ interrupted[t]
    /\ interrupted' = [interrupted EXCEPT ![t] = FALSE]
    /\ To(t, "thrown")
    /\ UNCHANGED <<latchIsOpen, owning>>

\* The fourth thread interrupts one thread, then the other.
Interrupt ==
    \/ /\ place[Interrupter] = "passed"
       /\ interrupted' = [interrupted EXCEPT ![2] = TRUE]
       /\ To(Interrupter, "one")
       /\ UNCHANGED <<latchIsOpen, owning>>
    \/ /\ place[Interrupter] = "one"
       /\ interrupted' = [interrupted EXCEPT ![3] = TRUE]
       /\ To(Interrupter, "ended")
       /\ UNCHANGED <<latchIsOpen, owning>>

Locker(t) == Await(t) \/ Take(t) \/ GiveUp(t)

Next == CountDown \/ Interrupt \/ \E t \in 1 .. 4 : Locker(t)

Spec == Init /\ [][Next]_vars

\* The threads were started and run, and main() opens the latch.
Fairness ==
    WF_vars(CountDown) /\ WF_vars(Interrupt) /\ \A t \in 1 .. 4 : WF_vars(Locker(t))

FairSpec == Spec /\ Fairness

-----------------------------------------------------------------------------
(* Properties *)

Left(t) == place[t] \in {"ended", "thrown"}
Stuck(t) == place[t] = "passed" /\ owning # 0 /\ t \in {1, 3} /\ place[owning] = "ended"

\* The second and the fourth thread end.  The first and the third end too, or
\* wait for good for a lock that a thread has taken with it.
InterruptiblyEnds == <>(Left(2) /\ Left(4) /\ \A t \in {1, 3} : Left(t) \/ Stuck(t))
================================================================================
