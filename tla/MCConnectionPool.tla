-------------------------- MODULE MCConnectionPool --------------------------
(* TestTransactionIsolation runs three threads; a pool for one or two       *)
(* connections makes them compete for permits and for room in the queue.    *)
EXTENDS ConnectionPool, TLC

CONSTANTS insert, query, update

MCThreads == {insert, query, update}
Symmetry == Permutations(MCThreads)
=============================================================================
