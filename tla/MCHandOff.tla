------------------------------ MODULE MCHandOff ------------------------------
(* Three offerers and two pollers, the first of each at the head of the      *)
(* deque and the others at its tail: offers and polls meet at both ends.     *)
EXTENDS HandOff

First == {1}
==============================================================================
