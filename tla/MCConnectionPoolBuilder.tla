----------------------- MODULE MCConnectionPoolBuilder -----------------------
(* Three threads, so that two may wait for the write lock while one holds   *)
(* it, and two keys, so that pools may be mixed up.                          *)
EXTENDS ConnectionPoolBuilder

CONSTANTS t1, t2, t3, matcha, riven

MCThreads == {t1, t2, t3}
MCKeys == {matcha, riven}
==============================================================================
