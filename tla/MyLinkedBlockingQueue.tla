------------------------ MODULE MyLinkedBlockingQueue ------------------------
(***************************************************************************)
(* com.matcha.lock.app.MyLinkedBlockingQueue: a bounded queue in an array, *)
(* guarded by one fair lock with the conditions "empty" and "full".        *)
(*                                                                         *)
(* Every method holds the lock from its first to its last statement, so it *)
(* is one step, except where it awaits a condition and gives the lock up.  *)
(* No method signals a condition: an awaiting thread comes back by an      *)
(* interrupt, by its timeout or by a spurious wake-up only.                *)
(***************************************************************************)
EXTENDS Integers, Sequences

CONSTANTS
    Threads,     \* the threads that call the queue
    Elements,    \* the elements they put in it
    Null,        \* an array slot nothing was stored in
    QueueSize,   \* the queueSize of the constructor
    Spurious     \* TRUE where Condition.await may return for no reason

ASSUME QueueSizeAssumption == QueueSize \in Nat \ {0}
ASSUME NullAssumption == Null \notin Elements
ASSUME SpuriousAssumption == Spurious \in BOOLEAN

VARIABLES
    elements,      \* the array
    startIndex,    \* the index of the oldest element
    insertIndex,   \* the index the next element goes to
    pc,            \* which condition a thread awaits, if any, and in what call
    arg            \* the element of the put or offer that a thread waits in

vars == <<elements, startIndex, insertIndex, pc, arg>>

Slots == 0 .. QueueSize - 1

Init ==
    /\ elements = [i \in Slots |-> Null]
    /\ startIndex = 0
    /\ insertIndex = 0
    /\ pc = [t \in Threads |-> "running"]
    /\ arg = [t \in Threads |-> Null]

HasPositionAtEnd == insertIndex <= QueueSize   \* slip: <= where < is
HasPosition == insertIndex < QueueSize

IsEmpty == startIndex = insertIndex

\* slip: moving one store too early, if(insertIndex < queueSize - 1) return
CleanArrayTooEarly(stored) ==
    IF insertIndex + 1 < QueueSize - 1
    THEN stored
    ELSE [i \in Slots |->
            IF i < QueueSize - startIndex THEN stored[startIndex + i] ELSE stored[i]]

\* cleanArray() on the array that addElement just stored into: when the last
\* slot is taken, move what is between the indices to the front.  The indices
\* themselves stay as they are.
CleanArray(stored) ==
    IF insertIndex + 1 < QueueSize
    THEN stored
    ELSE [i \in Slots |->
            IF i < QueueSize - startIndex THEN stored[startIndex + i] ELSE stored[i]]

\* slip: elements[++insertIndex] where elements[insertIndex++] is
AddElementOnePast(e) ==
    /\ elements' = CleanArray([i \in Slots |-> IF i = insertIndex + 1 THEN e ELSE elements[i]])
    /\ insertIndex' = insertIndex + 1

AddElement(e) ==
    /\ elements' = CleanArray([elements EXCEPT ![insertIndex] = e])
    /\ insertIndex' = insertIndex + 1

\* offer(e): true after it stored e, false (add: "Queue full") otherwise.
TryAdd(e) ==
    \/ HasPosition /\ AddElement(e)
    \/ ~HasPosition /\ UNCHANGED <<elements, insertIndex>>

\* poll(): the oldest element, null (remove: NoSuchElementException) if none.
TryGet ==
    \/ ~IsEmpty /\ startIndex' = startIndex + 1
    \/ IsEmpty /\ UNCHANGED startIndex

-----------------------------------------------------------------------------

\* add(e), offer(e), and put(e) and offer(e, time, unit) that find a position.
Offer(t, e) ==
    /\ pc[t] = "running"
    /\ TryAdd(e)
    /\ UNCHANGED <<startIndex, pc, arg>>

\* put(e) and offer(e, time, unit) that await "full".
AwaitFull(t, e) ==
    /\ pc[t] = "running"
    /\ ~HasPosition
    /\ pc' = [pc EXCEPT ![t] = "awaitFull"]
    /\ arg' = [arg EXCEPT ![t] = e]
    /\ UNCHANGED <<elements, startIndex, insertIndex>>

\* poll(), remove(), and take() and poll(time, unit) that find an element.
Poll(t) ==
    /\ pc[t] = "running"
    /\ TryGet
    /\ UNCHANGED <<elements, insertIndex, pc, arg>>

\* take() and poll(time, unit) that await "empty".
AwaitEmpty(t) ==
    /\ pc[t] = "running"
    /\ IsEmpty
    /\ pc' = [pc EXCEPT ![t] = "awaitEmpty"]
    /\ UNCHANGED <<elements, startIndex, insertIndex, arg>>

\* The awaiting thread is interrupted or its timeout expires: the method
\* throws, or returns false or null, and nothing is stored or taken.
GiveUp(t) ==
    /\ pc[t] \in {"awaitFull", "awaitEmpty"}
    /\ pc' = [pc EXCEPT ![t] = "running"]
    /\ arg' = [arg EXCEPT ![t] = Null]
    /\ UNCHANGED <<elements, startIndex, insertIndex>>

\* await returns for no reason: put and offer go on with offer(e), whatever
\* that answers, take and poll with poll().
WakeFull(t) ==
    /\ Spurious
    /\ pc[t] = "awaitFull"
    /\ TryAdd(arg[t])
    /\ pc' = [pc EXCEPT ![t] = "running"]
    /\ arg' = [arg EXCEPT ![t] = Null]
    /\ UNCHANGED startIndex

WakeEmpty(t) ==
    /\ Spurious
    /\ pc[t] = "awaitEmpty"
    /\ TryGet
    /\ pc' = [pc EXCEPT ![t] = "running"]
    /\ UNCHANGED <<elements, insertIndex, arg>>

\* remove(o): the last element equal to o goes and those behind it move up by
\* one, together with the slot at insertIndex.  Where there is no such slot
\* System.arraycopy throws before it moves anything.
LastIndexOf(o) ==
    CHOOSE i \in startIndex .. insertIndex - 1 :
        /\ elements[i] = o
        /\ \A j \in i + 1 .. insertIndex - 1 : elements[j] # o

RemoveObjectWithinWindow(t, o) ==   \* slip: length = insertIndex - srcPos
    /\ pc[t] = "running"
    /\ \E i \in startIndex .. insertIndex - 1 : elements[i] = o
    /\ elements' = [i \in Slots |->
                      IF i \in LastIndexOf(o) .. insertIndex - 2
                      THEN elements[i + 1] ELSE elements[i]]
    /\ insertIndex' = insertIndex - 1
    /\ UNCHANGED <<startIndex, pc, arg>>

RemoveObject(t, o) ==
    /\ pc[t] = "running"
    /\ \E i \in startIndex .. insertIndex - 1 : elements[i] = o
    /\ insertIndex < QueueSize
    /\ elements' = [i \in Slots |->
                      IF i \in LastIndexOf(o) .. insertIndex - 1
                      THEN elements[i + 1] ELSE elements[i]]
    /\ insertIndex' = insertIndex - 1
    /\ UNCHANGED <<startIndex, pc, arg>>

\* drainTo(c): c gets the elements and the queue is empty.
DrainTo(t) ==
    /\ pc[t] = "running"
    /\ startIndex' = insertIndex
    /\ UNCHANGED <<elements, insertIndex, pc, arg>>

Next ==
    \E t \in Threads :
        \/ \E e \in Elements : Offer(t, e) \/ AwaitFull(t, e) \/ RemoveObject(t, e)
        \/ Poll(t) \/ AwaitEmpty(t) \/ DrainTo(t)
        \/ GiveUp(t) \/ WakeFull(t) \/ WakeEmpty(t)

Spec == Init /\ [][Next]_vars

\* Producers go on offering while the queue takes elements; no thread is
\* obliged to interrupt another, and no timeout is set.
Fairness == \A t \in Threads : WF_vars(\E e \in Elements : Offer(t, e))

FairSpec == Spec /\ Fairness

-----------------------------------------------------------------------------
(* What the callers see. *)

\* The elements in the queue, the oldest first: toArray().
Window == [i \in 1 .. insertIndex - startIndex |-> elements[startIndex + i - 1]]

\* contains(o) walks the whole array: TRUE at the first slot equal to o, a
\* NullPointerException at a slot nothing was stored in, FALSE at the end.
Contains(o) ==
    LET stops == {i \in Slots : elements[i] \in {o, Null}}
    IN  IF stops = {} THEN "no"
        ELSE IF elements[CHOOSE i \in stops : \A j \in stops : i <= j] = o
             THEN "yes" ELSE "NullPointerException"

TypeOK ==
    /\ elements \in [Slots -> Elements \cup {Null}]
    /\ startIndex \in 0 .. QueueSize
    /\ insertIndex \in startIndex .. QueueSize
    /\ pc \in [Threads -> {"running", "awaitFull", "awaitEmpty"}]
    /\ arg \in [Threads -> Elements \cup {Null}]

NoHole == \A i \in 0 .. insertIndex - 1 : elements[i] # Null

\* The array has no hole below insertIndex, although remove(o) moves a slot
\* from beyond it and cleanArray moves the whole window: the loops of
\* remove(o) and contains(o) meet no null before the last element, so
\* contains(o) finds whatever is in the queue.
EveryElementIsFound ==
    /\ NoHole
    /\ \A i \in 1 .. Len(Window) : Contains(Window[i]) = "yes"

\* A put or offer that awaits "full" has an element to store when it wakes.
ArgInv == \A t \in Threads : pc[t] = "awaitFull" => arg[t] \in Elements

IInv == TypeOK /\ NoHole /\ ArgInv

Fifo == INSTANCE BoundedFifo WITH items <- Window, Capacity <- QueueSize

\* The last slot is taken while startIndex is not 0: cleanArray moves the
\* elements away from under the indices.
Compacts == insertIndex < QueueSize /\ insertIndex' = QueueSize /\ startIndex > 0

\* Every other step of the queue is a step of a bounded FIFO queue: what
\* offer, put, poll, take, remove and drainTo do to the elements, also in
\* the hands of threads that come back from an await.
FifoStepUnlessCompacting == [][~Compacts => Fifo!Next \/ UNCHANGED Window]_vars

\* A queue whose last slot was taken never accepts an element again: poll and
\* drainTo do not lower insertIndex, and remove(o) throws.
ClosedForever == [][~HasPosition => ~HasPosition']_vars

\* What BlockingQueue promises, of every step.
FifoSpec == Fifo!Spec

\* A thread that awaits "empty" in take() goes on once there is an element.
TakerIsServed ==
    \A t \in Threads :
        pc[t] = "awaitEmpty" /\ ~IsEmpty ~> pc[t] = "running" \/ IsEmpty
==============================================================================
