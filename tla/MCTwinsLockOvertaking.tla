------------------------ MODULE MCTwinsLockOvertaking ------------------------
(* Two threads that may pass each other, and a third that waits. *)
EXTENDS TwinsLockOvertaking

CONSTANTS t1, t2, t3

ThreeThreads == {t1, t2, t3}
LockAndTimed == {"lock", "timedTryLock"}
==============================================================================
