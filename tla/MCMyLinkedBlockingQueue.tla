---------------------- MODULE MCMyLinkedBlockingQueue ----------------------
(* Three threads, two elements and an array of five slots: a window can    *)
(* start in the middle and still hold two different elements when the last *)
(* slot is taken.                                                          *)
EXTENDS MyLinkedBlockingQueue, TLC

CONSTANTS t1, t2, t3, a, b

MCThreads == {t1, t2, t3}
MCElements == {a, b}
Symmetry == Permutations(MCThreads) \cup Permutations(MCElements)
============================================================================
