------------------------------ MODULE MCPrograms ------------------------------
(* Instances of Programs for TLC.  The first of two callers of newThread()    *)
(* makes two batches of threads, so that batches of both overlap.             *)
EXTENDS Programs

TwoAndOne == <<2, 1>>
===============================================================================
