----------------------------- MODULE CountHelper -----------------------------
(***************************************************************************)
(* CountHelper.count(): two CountRunnables add up their numbers and meet   *)
(* at a CyclicBarrier; the one that arrives last runs the MergeRunnable,   *)
(* which adds the two sums and opens the latch that the caller awaits.     *)
(* Additions of int are modelled without their wrap-around, which gives    *)
(* the same answer in every order.                                         *)
(***************************************************************************)
EXTENDS Integers

CONSTANTS
    StartA, StartB,
    Turns           \* 5 in the code

StartAssumption == StartA \in Int /\ StartB \in Int
TurnsAssumption == Turns \in Nat

Runnables == {1, 2}
Other(r) == 3 - r
StartOf(r) == IF r = 1 THEN StartA ELSE StartB

VARIABLES
    turn,       \* the loop variable i of a CountRunnable
    sum,        \* its sum
    counter,    \* where its thread is
    merged,     \* the sum of the MergeRunnable
    opened,     \* the latch is open
    answer      \* what count() returns, once it has returned
vars == <<turn, sum, counter, merged, opened, answer>>

Init ==
    /\ turn = [r \in Runnables |-> 0]
    /\ sum = [r \in Runnables |-> 0]
    /\ counter = [r \in Runnables |-> "add"]
    /\ merged = 0 /\ opened = FALSE
    /\ answer = <<>>

Add(r) ==
    /\ counter[r] = "add" /\ turn[r] < Turns
    /\ sum' = [sum EXCEPT ![r] = @ + StartOf(r) + turn[r]]
    /\ turn' = [turn EXCEPT ![r] = @ + 1]
    /\ UNCHANGED <<counter, merged, opened, answer>>

ArriveUncounted(r) ==            \* slip: new CyclicBarrier(1, mergeRunnable)
    /\ counter[r] = "add" /\ turn[r] = Turns
    /\ counter' = [counter EXCEPT ![r] = "merge"]
    /\ UNCHANGED <<turn, sum, merged, opened, answer>>

\* cyclicBarrier.await(): the first waits, the second runs the barrier action.
Arrive(r) ==
    /\ counter[r] = "add" /\ turn[r] = Turns
    /\ counter' = [counter EXCEPT ![r] =
                     IF counter[Other(r)] = "wait" THEN "merge" ELSE "wait"]
    /\ UNCHANGED <<turn, sum, merged, opened, answer>>

Merge(r) ==
    /\ counter[r] = "merge"
    /\ merged' = merged + sum[1] + sum[2]
    /\ counter' = [counter EXCEPT ![r] = "open"]
    /\ UNCHANGED <<turn, sum, opened, answer>>

\* The latch is opened; then the barrier lets both threads go on to their end.
Open(r) ==
    /\ counter[r] = "open"
    /\ opened' = TRUE
    /\ counter' = [counter EXCEPT ![r] = "ended",
                     ![Other(r)] = IF @ = "wait" THEN "ended" ELSE @]
    /\ UNCHANGED <<turn, sum, merged, answer>>

Answer ==
    /\ opened /\ answer = <<>>
    /\ answer' = <<merged>>
    /\ UNCHANGED <<turn, sum, counter, merged, opened>>

Counter(r) == Add(r) \/ Arrive(r) \/ Merge(r) \/ Open(r)

Next == Answer \/ \E r \in Runnables : Counter(r)

Spec == Init /\ [][Next]_vars

Fairness == WF_vars(Answer) /\ \A r \in Runnables : WF_vars(Counter(r))

FairSpec == Spec /\ Fairness

-----------------------------------------------------------------------------
(* Properties *)

\* count() returns the sum of all numbers of both threads, and both end.
Whole == Turns * (StartA + StartB + Turns - 1)
CountIsWhole ==
    <>[](answer = <<Whole>> /\ \A r \in Runnables : counter[r] = "ended")

\* count() does not return before the merge of two complete sums: whatever the
\* threads do meanwhile, its answer is the whole one.
AnswerIsWhole == answer # <<>> => answer = <<Whole>>

-----------------------------------------------------------------------------
(* The invariant that is inductive *)

TypeOK ==
    /\ turn \in [Runnables -> 0 .. Turns]
    /\ sum \in [Runnables -> Int]
    /\ counter \in [Runnables -> {"add", "wait", "merge", "open", "ended"}]
    /\ merged \in Int
    /\ opened \in BOOLEAN

\* After n turns a thread has added its first number n times, and 0 .. n - 1.
SumsSoFar ==
    \A r \in Runnables : 2 * sum[r] = turn[r] * (2 * StartOf(r) + turn[r] - 1)

\* Who is past the barrier came last, so that both threads have added everything,
\* and it merges before it opens the latch.
MergedOnce ==
    /\ \A r \in Runnables : counter[r] # "add" => turn[r] = Turns
    /\ \A r \in Runnables :
          counter[r] \in {"merge", "open"} => counter[Other(r)] = "wait"
    /\ \A r \in Runnables : counter[r] = "ended" <=> opened
    /\ merged = IF opened \/ \E r \in Runnables : counter[r] = "open"
                THEN sum[1] + sum[2] ELSE 0
    /\ answer # <<>> => opened /\ answer = <<merged>>

IInv == TypeOK /\ SumsSoFar /\ MergedOnce
==============================================================================
