----------------------------- MODULE GrowingList -----------------------------
(* What an IGenericArray promises: a list without an upper bound.  An index   *)
(* behind the end gives null, and its removal removes nothing; all such       *)
(* indices are alike, and Len(items) stands for them.                         *)
EXTENDS Integers, SequencesExt

CONSTANTS Members, Null

VARIABLES items, result

vars == <<items, result>>

Init == items = <<>> /\ result = Null

Add(m) == items' = Append(items, m) /\ UNCHANGED result

At(i) == IF i < Len(items) THEN items[i + 1] ELSE Null

Get(i) == result' = At(i) /\ UNCHANGED items

TakeOut(i) ==
    /\ result' = At(i)
    /\ items' = IF i < Len(items) THEN RemoveAt(items, i + 1) ELSE items

Next ==
    \/ \E m \in Members \cup {Null} : Add(m)
    \/ \E i \in 0 .. Len(items) : Get(i) \/ TakeOut(i)

Spec == Init /\ [][Next]_vars
==============================================================================
