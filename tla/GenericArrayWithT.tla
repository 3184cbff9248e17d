-------------------------- MODULE GenericArrayWithT --------------------------
(* GenericArrayWithT, GenericArrayWithObject and GenericArrayWithFT, which    *)
(* differ in how they allocate the array and in nothing else.  The array is a *)
(* sequence: members[i] of the code is members[i + 1] here.                   *)
EXTENDS Integers, Sequences

CONSTANTS
    Members, Null,
    InitialSize,    \* 10 in DefaultGenericArrayFacotry
    MaxSize         \* bound: members in the array at a time

InitialAssumption == InitialSize \in Nat \ {0} /\ MaxSize \in Nat

VARIABLES
    members, size,
    result      \* what the last get() or remove() returned

vars == <<members, size, result>>

Nulls(n) == [i \in 1 .. n |-> Null]

Init == members = Nulls(InitialSize) /\ size = 0 /\ result = Null

Grow == members \o Nulls(Len(members))

RoomAtLength(m) ==               \* slip: the array grows one add() too late
    IF size = Len(members) + 1 THEN Grow ELSE members

\* The array that add() stores into.
Room(m) == IF size = Len(members) - 1 THEN Grow ELSE members

Add(m) ==
    /\ size < MaxSize
    /\ members' = [Room(m) EXCEPT ![size + 1] = m]
    /\ size' = size + 1
    /\ UNCHANGED result

Get(i) ==
    /\ result' = IF i >= size THEN Null ELSE members[i + 1]
    /\ UNCHANGED <<members, size>>

MoveOneTooFew(array, startIndex, newSize) ==    \* slip: one member stays behind
    [j \in DOMAIN array |->
        IF j - 1 \in startIndex .. newSize - 2 THEN array[j + 1] ELSE array[j]]

\* System.arraycopy(members, startIndex + 1, members, startIndex, size - startIndex)
MoveMembers(array, startIndex, newSize) ==
    [j \in DOMAIN array |->
        IF j - 1 \in startIndex .. newSize - 1 THEN array[j + 1] ELSE array[j]]

RemoveNothing(i) ==
    /\ i >= size
    /\ result' = Null
    /\ UNCHANGED <<members, size>>

\* The condition "index != size--" is true for every index that gets there.
RemoveMember(i) ==
    /\ i < size
    /\ result' = members[i + 1]
    /\ size' = size - 1
    /\ members' = MoveMembers([members EXCEPT ![i + 1] = Null], i, size - 1)

Next ==
    \/ \E m \in Members \cup {Null} : Add(m)
    \/ \E i \in 0 .. MaxSize : Get(i) \/ RemoveNothing(i) \/ RemoveMember(i)

Spec == Init /\ [][Next]_vars

-----------------------------------------------------------------------------
(* Properties *)

\* There is always a slot for the next member, so that no add() throws.
RoomIsLeft == size < Len(members)

\* What iterator() copies.
Contents == SubSeq(members, 1, size)

\* The array is a list that grows: the copies that arraycopy leaves behind the
\* end, and the doubled length, are never seen.
List == INSTANCE GrowingList WITH items <- Contents

ListSpec == List!Spec

-----------------------------------------------------------------------------
(* The invariant that is inductive *)

TypeOK ==
    /\ members \in Seq(Members \cup {Null}) /\ size \in Nat
    /\ result \in Members \cup {Null}

IInv == TypeOK /\ RoomIsLeft
==============================================================================
