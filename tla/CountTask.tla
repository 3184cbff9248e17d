------------------------------ MODULE CountTask ------------------------------
(* The fork-join task CountTask(start, end), which TestForkJoin submits.  A   *)
(* task is its range; the pool runs any forked task at any time.  TestForkJoin*)
(* adds 1 to 1000: neither middle nor sum leaves the range of an int.         *)
EXTENDS Integers, FiniteSetsExt

CONSTANTS
    Ends,           \* the upper bounds to be tried, 1000 in TestForkJoin
    THERE_SHOULD

EndsAssumption == Ends \subseteq Nat \ {0} /\ THERE_SHOULD \in Nat \ {0}

VARIABLES
    root,       \* the task that was submitted
    forked,     \* tasks that nobody has begun
    joining,    \* tasks that wait for their two halves
    sum         \* sum[t]: the result of a task that is over

vars == <<root, forked, joining, sum>>

Init ==
    /\ root \in {<<1, end>> : end \in Ends}
    /\ forked = {root} /\ joining = {}
    /\ sum = [t \in {} |-> 0]

Over(t, n) == sum' = [u \in DOMAIN sum \cup {t} |-> IF u = t THEN n ELSE sum[u]]

CanCompute(t) == t[2] - t[1] <= THERE_SHOULD

Compute(t) ==
    /\ t \in forked /\ CanCompute(t)
    /\ forked' = forked \ {t}
    /\ Over(t, SumSet(t[1] .. t[2]))
    /\ UNCHANGED <<root, joining>>

HalvesSharing(t) ==              \* slip: the middle is in both halves
    LET middle == (t[1] + t[2]) \div 2 IN {<<t[1], middle>>, <<middle, t[2]>>}

Halves(t) ==
    LET middle == (t[1] + t[2]) \div 2 IN {<<t[1], middle>>, <<middle + 1, t[2]>>}

Fork(t) ==
    /\ t \in forked /\ ~CanCompute(t)
    /\ forked' = (forked \ {t}) \cup Halves(t)
    /\ joining' = joining \cup {t}
    /\ UNCHANGED <<root, sum>>

Join(t) ==
    /\ t \in joining /\ Halves(t) \subseteq DOMAIN sum
    /\ joining' = joining \ {t}
    /\ Over(t, MapThenSumSet(LAMBDA half : sum[half], Halves(t)))
    /\ UNCHANGED <<root, forked>>

Next == \E t \in forked \cup joining : Compute(t) \/ Fork(t) \/ Join(t)

Spec == Init /\ [][Next]_vars

\* The pool runs what was forked, and a joining task goes on.
Fairness == WF_vars(Next)

FairSpec == Spec /\ Fairness

-----------------------------------------------------------------------------
(* Properties *)

\* The task that was submitted ends with the sum of the numbers from 1 on, and
\* leaves no task behind.
Whole(n) == (n * (n + 1)) \div 2
SumIsWhole ==
    <>(/\ forked = {} /\ joining = {} /\ root \in DOMAIN sum
       /\ sum[root] = Whole(root[2]))
==============================================================================
