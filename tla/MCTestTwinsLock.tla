-------------------------- MODULE MCTestTwinsLock --------------------------
(* TestTwinsLock starts three threads of each kind on two permits; the     *)
(* instance has two that block, one that tries and one that tries for a    *)
(* second: more threads of every mix than permits.                         *)
EXTENDS TestTwinsLock

CONSTANTS g1, g2, n1, b1

MCGet == {g1, g2}
MCTryGet == {n1}
MCTryBlockGet == {b1}
MCThreads == MCGet \cup MCTryGet \cup MCTryBlockGet
MCCalls == {"lock", "tryLock", "timedTryLock"}
============================================================================
