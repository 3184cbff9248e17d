----------------------------- MODULE BoundedFifo -----------------------------
(***************************************************************************)
(* What the java.util.concurrent.BlockingQueue interface promises of the   *)
(* elements in a queue: new ones go to the end of at most Capacity, the    *)
(* oldest one leaves first, remove(Object) takes out one element equal to  *)
(* its argument and drainTo takes out all.                                 *)
(***************************************************************************)
EXTENDS Integers, Sequences, SequencesExt

CONSTANTS Elements, Capacity

VARIABLE items

Init == items = <<>>

Put(e) == Len(items) < Capacity /\ items' = Append(items, e)

Take == items # <<>> /\ items' = Tail(items)

RemoveOne(e) ==
    \E i \in 1 .. Len(items) : items[i] = e /\ items' = RemoveAt(items, i)

Drain == items' = <<>>

Next ==
    \/ \E e \in Elements : Put(e) \/ RemoveOne(e)
    \/ Take
    \/ Drain

Spec == Init /\ [][Next]_items
==============================================================================
