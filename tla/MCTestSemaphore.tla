-------------------------- MODULE MCTestSemaphore --------------------------
(* More threads than connections, and one connection more than permits, so  *)
(* that the pool stands one interrupt and not two.                          *)
EXTENDS TestSemaphore

CONSTANTS t1, t2, t3, t4, t5

FiveThreads == {t1, t2, t3, t4, t5}
============================================================================
