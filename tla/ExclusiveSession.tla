--------------------------- MODULE ExclusiveSession ---------------------------
(* What the datagram server promises whatever the network does: at most one   *)
(* client has a session, it begins when there is none, only the client ends   *)
(* it, and while it lasts no other client has anything printed.               *)

CONSTANTS Clients, Nobody

VARIABLES session, printed     \* printed[c]: the texts of client c

vars == <<session, printed>>

Init == session = Nobody /\ printed = [c \in Clients |-> {}]

Begin(c) ==
    /\ session = Nobody
    /\ session' = c
    /\ UNCHANGED printed

\* A client without a session may have something printed when nobody has one.
PrintText(c) ==
    /\ session \in {c, Nobody}
    /\ printed[c] \subseteq printed'[c]
    /\ \A d \in Clients \ {c} : printed'[d] = printed[d]
    /\ UNCHANGED session

End(c) ==
    /\ session = c
    /\ session' = Nobody
    /\ UNCHANGED printed

Next == \E c \in Clients : Begin(c) \/ End(c) \/ PrintText(c)

Spec == Init /\ [][Next]_vars
===============================================================================
