---------------------------- MODULE MCTwinsLock ----------------------------
(* Instances of TwinsLock for TLC: three threads on one or two permits, so  *)
(* that there are always more threads than permits.                        *)
EXTENDS TwinsLock, TLC

CONSTANTS t1, t2, t3

ThreeThreads == {t1, t2, t3}
Symmetry == Permutations(ThreeThreads)
=============================================================================
