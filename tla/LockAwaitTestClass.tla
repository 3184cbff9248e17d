-------------------------- MODULE LockAwaitTestClass --------------------------
(* The two threads of LockAwaitTestClass: both pass a latch, the first awaits *)
(* a condition of a lock, the second signals it once.  An await gives the     *)
(* lock back, may wake up for no reason, and returns with the lock.           *)

VARIABLES
    latchOpen,
    waiter,     \* thread 1
    signaller,  \* thread 2
    holder,     \* which of them has the lock, "nobody" for neither
    signalled,  \* the waiter was moved from the condition to the lock
    missed      \* history: signal() has found nobody

vars == <<latchOpen, waiter, signaller, holder, signalled, missed>>

Init ==
    /\ latchOpen = FALSE
    /\ waiter = "latch" /\ signaller = "latch"
    /\ holder = "nobody"
    /\ signalled = FALSE /\ missed = FALSE

\* main(), after both threads were started
CountDown ==
    /\ ~latchOpen
    /\ latchOpen' = TRUE
    /\ UNCHANGED <<waiter, signaller, holder, signalled, missed>>

WaiterLock ==
    /\ waiter = "latch" /\ latchOpen /\ holder = "nobody"
    /\ waiter' = "locked" /\ holder' = "waiter"
    /\ UNCHANGED <<latchOpen, signaller, signalled, missed>>

AwaitLocked ==                   \* slip: the lock is kept while waiting
    /\ waiter = "locked"
    /\ waiter' = "waiting"
    /\ UNCHANGED <<latchOpen, signaller, holder, signalled, missed>>

Await ==
    /\ waiter = "locked"
    /\ waiter' = "waiting" /\ holder' = "nobody"
    /\ UNCHANGED <<latchOpen, signaller, signalled, missed>>

SpuriousWakeup ==
    /\ waiter = "waiting" /\ ~signalled
    /\ signalled' = TRUE
    /\ UNCHANGED <<latchOpen, waiter, signaller, holder, missed>>

\* await() returns with the lock, and the finally block unlocks.
WaiterReturns ==
    /\ waiter = "waiting" /\ signalled /\ holder = "nobody"
    /\ waiter' = "returned" /\ holder' = "waiter"
    /\ UNCHANGED <<latchOpen, signaller, signalled, missed>>

WaiterUnlock ==
    /\ waiter = "returned"
    /\ waiter' = "ended" /\ holder' = "nobody"
    /\ UNCHANGED <<latchOpen, signaller, signalled, missed>>

SignallerLock ==
    /\ signaller = "latch" /\ latchOpen /\ holder = "nobody"
    /\ signaller' = "locked" /\ holder' = "signaller"
    /\ UNCHANGED <<latchOpen, waiter, signalled, missed>>

\* A signal is not kept for an await() that comes after it.
Signal ==
    /\ signaller = "locked"
    /\ signaller' = "signalled"
    /\ IF waiter = "waiting" THEN signalled' = TRUE /\ UNCHANGED missed
                             ELSE missed' = TRUE /\ UNCHANGED signalled
    /\ UNCHANGED <<latchOpen, waiter, holder>>

SignallerUnlock ==
    /\ signaller = "signalled"
    /\ signaller' = "ended" /\ holder' = "nobody"
    /\ UNCHANGED <<latchOpen, waiter, signalled, missed>>

Waiter == WaiterLock \/ Await \/ WaiterReturns \/ WaiterUnlock
Signaller == SignallerLock \/ Signal \/ SignallerUnlock

Next == CountDown \/ Waiter \/ SpuriousWakeup \/ Signaller

Spec == Init /\ [][Next]_vars

\* Both threads were started and run, and main() opens the latch; the fair lock
\* serves both.  Nothing promises a spurious wake-up.
Fairness == WF_vars(CountDown) /\ WF_vars(Waiter) /\ WF_vars(Signaller)

FairSpec == Spec /\ Fairness

-----------------------------------------------------------------------------
(* Properties *)

Ended == waiter = "ended" /\ signaller = "ended"
WaitsInVain == waiter = "waiting" /\ ~signalled /\ signaller = "ended" /\ missed

\* Both threads end, unless the signal came before the await: then the second
\* ends and the first waits, and leaves the lock free.
EndsUnlessMissed == <>(Ended \/ (WaitsInVain /\ holder = "nobody"))

\* While the first thread waits and was not signalled, the signal is still to come
\* and the lock is not kept from the second thread; else the signal was given
\* before the await, and found nobody.
SignalToCome ==
    waiter = "waiting" /\ ~signalled =>
        missed \/ (signaller \in {"latch", "locked"} /\ holder # "waiter")

\* The strengthening that every step preserves: the lock has the owner whose place
\* says so, and a signal was noted in one way or the other.
LockIsOwned ==
    /\ holder = "waiter" <=> waiter \in {"locked", "returned"}
    /\ holder = "signaller" <=> signaller \in {"locked", "signalled"}
SignalIsNoted ==
    /\ signaller \in {"latch", "locked", "signalled", "ended"}
    /\ signaller \in {"signalled", "ended"} => missed \/ signalled

IInv == LockIsOwned /\ SignalIsNoted
===============================================================================
