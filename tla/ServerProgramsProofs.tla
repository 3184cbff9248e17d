------------------------- MODULE ServerProgramsProofs -------------------------
(***************************************************************************)
(* Proofs about the datagram server, for every set of clients, every       *)
(* number of runs, datagrams on the way and faults of the network, and     *)
(* about the other servers of ServerPrograms.                              *)
(***************************************************************************)
EXTENDS ServerPrograms, SequenceTheorems, FiniteSetTheorems, TLAPS

-----------------------------------------------------------------------------
(* What the sequences of datagrams hold *)

LEMMA MemberIsDatagram ==
    ASSUME NEW s \in Seq(Datagrams)
    PROVE  /\ Len(s) \in Nat
           /\ ToSet(s) = {s[i] : i \in 1 .. Len(s)}
           /\ ToSet(s) \subseteq Datagrams
BY DEF ToSet

LEMMA ToSetOfAppend ==
    ASSUME NEW s \in Seq(Datagrams), NEW d \in Datagrams
    PROVE  /\ Append(s, d) \in Seq(Datagrams)
           /\ Len(Append(s, d)) = Len(s) + 1
           /\ \A i \in 1 .. Len(s) : Append(s, d)[i] = s[i]
           /\ Append(s, d)[Len(s) + 1] = d
           /\ ToSet(Append(s, d)) = ToSet(s) \cup {d}
<1> DEFINE t == Append(s, d)
<1>1. /\ t \in Seq(Datagrams) /\ Len(t) = Len(s) + 1
      /\ \A i \in 1 .. Len(s) : t[i] = s[i]
      /\ t[Len(s) + 1] = d
  BY AppendProperties
<1> HIDE DEF t
<1>2. /\ ToSet(t) = {t[i] : i \in 1 .. Len(t)}
      /\ ToSet(s) = {s[i] : i \in 1 .. Len(s)}
      /\ Len(s) \in Nat
  BY <1>1, MemberIsDatagram
<1>3. 1 .. Len(t) = (1 .. Len(s)) \cup {Len(s) + 1}
  BY <1>1, <1>2
<1>4. ToSet(t) = ToSet(s) \cup {d}
  <2>1. ASSUME NEW i \in 1 .. Len(t)
        PROVE  t[i] \in ToSet(s) \cup {d}
    BY <1>1, <1>2, <1>3, <2>1
  <2>2. ASSUME NEW i \in 1 .. Len(s)
        PROVE  s[i] \in ToSet(t)
    <3>1. i \in 1 .. Len(t) /\ t[i] = s[i]
      BY <1>1, <1>3
    <3> QED
      BY <1>2, <3>1, Zenon
  <2>3. d \in ToSet(t)
    <3>1. Len(s) + 1 \in 1 .. Len(t)
      BY <1>3
    <3> QED
      BY <1>1, <1>2, <3>1, Zenon
  <2> QED
    BY <1>2, <2>1, <2>2, <2>3, Zenon
<1> QED
  BY <1>1, <1>4 DEF t

LEMMA ToSetOfTail ==
    ASSUME NEW s \in Seq(Datagrams), s # <<>>
    PROVE  /\ Len(s) \in Nat /\ Len(s) > 0
           /\ Head(s) \in Datagrams /\ Head(s) = s[1]
           /\ Tail(s) \in Seq(Datagrams)
           /\ Len(Tail(s)) = Len(s) - 1
           /\ \A i \in 1 .. Len(Tail(s)) : Tail(s)[i] = s[i + 1]
           /\ ToSet(s) = {Head(s)} \cup ToSet(Tail(s))
<1> DEFINE t == Tail(s)
<1>1. /\ Head(s) \in Datagrams /\ t \in Seq(Datagrams) /\ Len(t) = Len(s) - 1
      /\ \A i \in 1 .. Len(t) : t[i] = s[i + 1]
  BY HeadTailProperties
<1>2. Len(s) \in Nat /\ Len(s) > 0 /\ Head(s) = s[1]
  BY EmptySeq
<1> HIDE DEF t
<1>3. /\ ToSet(t) = {t[i] : i \in 1 .. Len(t)}
      /\ ToSet(s) = {s[i] : i \in 1 .. Len(s)}
  BY <1>1, MemberIsDatagram
<1>4. ToSet(t) = {s[i] : i \in 2 .. Len(s)}
  <2>1. \A i \in 1 .. Len(t) : i + 1 \in 2 .. Len(s)
    BY <1>1, <1>2
  <2>2. \A j \in 2 .. Len(s) : j - 1 \in 1 .. Len(t) /\ (j - 1) + 1 = j
    BY <1>1, <1>2
  <2> QED
    <3>1. \A i \in 1 .. Len(t) : \E j \in 2 .. Len(s) : t[i] = s[j]
      BY <1>1, <2>1, Zenon
    <3>2. \A j \in 2 .. Len(s) : \E i \in 1 .. Len(t) : t[i] = s[j]
      BY <1>1, <2>2
    <3>3. ToSet(t) \subseteq {s[i] : i \in 2 .. Len(s)}
      BY <1>3, <3>1, Zenon
    <3>4. {s[i] : i \in 2 .. Len(s)} \subseteq ToSet(t)
      BY <1>3, <3>2, Zenon
    <3> QED
      BY <3>3, <3>4, Zenon
<1>5. 1 .. Len(s) = {1} \cup (2 .. Len(s))
  BY <1>2
<1>6. ToSet(s) = {Head(s)} \cup ToSet(t)
  BY <1>2, <1>3, <1>4, <1>5
<1> QED
  BY <1>1, <1>2, <1>6 DEF t

LEMMA ToSetOfRemoveAt ==
    ASSUME NEW s \in Seq(Datagrams), NEW k \in 1 .. Len(s)
    PROVE  /\ RemoveAt(s, k) \in Seq(Datagrams)
           /\ ToSet(RemoveAt(s, k)) \subseteq ToSet(s)
<1> DEFINE front == SubSeq(s, 1, k - 1)
           back == SubSeq(s, k + 1, Len(s))
           r == RemoveAt(s, k)
<1>1. Len(s) \in Nat /\ k \in Nat /\ 1 <= k /\ k <= Len(s)
  OBVIOUS
<1>2. \A i \in 1 .. Len(s) : s[i] \in Datagrams
  OBVIOUS
<1>3. /\ front \in Seq(Datagrams) /\ Len(front) = k - 1
      /\ \A i \in 1 .. k - 1 : front[i] = s[i]
  <2>1. 1 \in Int /\ k - 1 \in Int /\ \A i \in 1 .. k - 1 : s[i] \in Datagrams
    BY <1>1, <1>2
  <2>2. /\ front \in Seq(Datagrams)
        /\ Len(front) = IF 1 <= k - 1 THEN (k - 1) - 1 + 1 ELSE 0
        /\ \A i \in 1 .. (k - 1) - 1 + 1 : front[i] = s[1 + i - 1]
    BY <2>1, SubSeqProperties
  <2> HIDE DEF front
  <2> QED
    BY <1>1, <2>2
<1>4. /\ back \in Seq(Datagrams) /\ Len(back) = Len(s) - k
      /\ \A i \in 1 .. Len(s) - k : back[i] = s[k + i]
  <2>1. k + 1 \in Int /\ Len(s) \in Int /\ \A i \in k + 1 .. Len(s) : s[i] \in Datagrams
    BY <1>1, <1>2
  <2>2. /\ back \in Seq(Datagrams)
        /\ Len(back) = IF k + 1 <= Len(s) THEN Len(s) - (k + 1) + 1 ELSE 0
        /\ \A i \in 1 .. Len(s) - (k + 1) + 1 : back[i] = s[(k + 1) + i - 1]
    BY <2>1, SubSeqProperties
  <2> HIDE DEF back
  <2> QED
    BY <1>1, <2>2
<1>5. r = front \o back
  BY DEF RemoveAt
<1> HIDE DEF front, back, r
<1>6. /\ r \in Seq(Datagrams) /\ Len(r) = Len(front) + Len(back)
      /\ \A i \in 1 .. Len(front) + Len(back) :
            r[i] = IF i <= Len(front) THEN front[i] ELSE back[i - Len(front)]
  BY <1>3, <1>4, <1>5, ConcatProperties
<1>7. ASSUME NEW i \in 1 .. Len(r)
      PROVE  \E j \in 1 .. Len(s) : r[i] = s[j]
  <2>1. CASE i <= k - 1
    <3>1. i \in 1 .. k - 1 /\ i \in 1 .. Len(s)
      BY <1>1, <2>1
    <3> QED
      BY <1>1, <1>3, <1>4, <1>6, <2>1, <3>1
  <2>2. CASE i > k - 1
    <3>1. i - (k - 1) \in 1 .. Len(s) - k /\ k + (i - (k - 1)) \in 1 .. Len(s)
      BY <1>1, <1>3, <1>4, <1>6, <2>2
    <3> QED
      BY <1>1, <1>3, <1>4, <1>6, <2>2, <3>1
  <2> QED
    BY <1>1, <2>1, <2>2
<1>8. /\ ToSet(r) = {r[i] : i \in 1 .. Len(r)}
      /\ ToSet(s) = {s[i] : i \in 1 .. Len(s)}
  BY <1>6, MemberIsDatagram
<1>9. ToSet(r) \subseteq ToSet(s)
  BY <1>7, <1>8, Zenon
<1> QED
  BY <1>6, <1>9 DEF r

-----------------------------------------------------------------------------
(* The effects of the actions *)

\* What is served, a session and its begin stay as they are while something is
\* sent or comes.
OutsideVars == <<connectedClientAddress, peer, begunBy, printed>>

LEMMA SendEffect ==
    ASSUME TypeOK, NEW c \in Clients, Send(c)
    PROVE  LET d == [from |-> c, number |-> sent[c] + 1]
           IN  /\ d \in Datagrams
               /\ sent' \in [Clients -> Nat] /\ sent'[c] = sent[c] + 1
               /\ \A e \in Clients \ {c} : sent'[e] = sent[e]
               /\ network' = Append(network, d)
               /\ network' \in Seq(Datagrams)
               /\ ToSet(network') = ToSet(network) \cup {d}
               /\ UNCHANGED <<socket, OutsideVars, faults, dropped>>
<1> DEFINE d == [from |-> c, number |-> sent[c] + 1]
<1>1. sent \in [Clients -> Nat] /\ network \in Seq(Datagrams) /\ sent[c] \in Nat
  BY DEF TypeOK
<1>2. d \in Datagrams
  BY <1>1 DEF Datagrams
<1>3. sent' = [sent EXCEPT ![c] = @ + 1]
  BY DEF Send
<1>4. /\ sent' \in [Clients -> Nat] /\ sent'[c] = sent[c] + 1
      /\ \A e \in Clients \ {c} : sent'[e] = sent[e]
  BY <1>1, <1>3
<1>5. network' = Append(network, d) /\ UNCHANGED <<socket, OutsideVars, faults, dropped>>
  BY DEF Send, OutsideVars
<1> HIDE DEF d
<1>6. network' \in Seq(Datagrams) /\ ToSet(network') = ToSet(network) \cup {d}
  BY <1>1, <1>2, <1>5, ToSetOfAppend
<1> QED
  BY <1>2, <1>4, <1>5, <1>6 DEF d

\* A datagram that arrives is in the socket, or it was dropped.
LEMMA ArriveEffect ==
    ASSUME TypeOK, NEW d \in Datagrams, Arrive(d)
    PROVE  /\ socket' \in Seq(Datagrams) /\ dropped' \subseteq Datagrams
           /\ dropped \cup ToSet(socket) \cup {d} = dropped' \cup ToSet(socket')
           /\ dropped \subseteq dropped' /\ ToSet(socket) \subseteq ToSet(socket')
           /\ peer \in {Nobody, d.from} => socket' = Append(socket, d) /\ dropped' = dropped
           /\ peer \notin {Nobody, d.from} => socket' = socket
<1>1. socket \in Seq(Datagrams) /\ dropped \subseteq Datagrams
  BY DEF TypeOK
<1>2. CASE peer \in {Nobody, d.from}
  <2>1. socket' = Append(socket, d) /\ dropped' = dropped
    BY <1>2 DEF Arrive
  <2>2. socket' \in Seq(Datagrams) /\ ToSet(socket') = ToSet(socket) \cup {d}
    BY <1>1, <2>1, ToSetOfAppend
  <2> QED
    BY <1>1, <1>2, <2>1, <2>2
<1>3. CASE peer \notin {Nobody, d.from}
  BY <1>1, <1>3 DEF Arrive
<1> QED
  BY <1>2, <1>3

\* Whatever the network does, what comes was on the way.
NetworkStep == Deliver \/ Lose \/ Repeat \/ Overtake

LEMMA NetworkEffect ==
    ASSUME TypeOK, NetworkStep
    PROVE  /\ network' \in Seq(Datagrams) /\ ToSet(network') \subseteq ToSet(network)
           /\ socket' \in Seq(Datagrams) /\ dropped' \subseteq Datagrams
           /\ faults' \in 0 .. Faults
           /\ sent' = sent /\ UNCHANGED OutsideVars
           /\ \/ socket' = socket
              \/ \E d \in ToSet(network) :
                    /\ peer \in {Nobody, d.from}
                    /\ socket' = Append(socket, d)
                    /\ ToSet(socket') = ToSet(socket) \cup {d}
<1> DEFINE Came == \/ socket' = socket
                   \/ \E d \in ToSet(network) :
                         /\ peer \in {Nobody, d.from}
                         /\ socket' = Append(socket, d)
                         /\ ToSet(socket') = ToSet(socket) \cup {d}
           Goal == socket' \in Seq(Datagrams) /\ dropped' \subseteq Datagrams /\ Came
           Fewer == network' \in Seq(Datagrams) /\ ToSet(network') \subseteq ToSet(network)
           Still == faults' \in 0 .. Faults /\ sent' = sent /\ UNCHANGED OutsideVars
<1>1. /\ network \in Seq(Datagrams) /\ socket \in Seq(Datagrams)
      /\ dropped \subseteq Datagrams /\ faults \in 0 .. Faults /\ Faults \in Nat
  BY BoundAssumption DEF TypeOK
<1>2. ASSUME NEW d \in ToSet(network), Arrive(d)
      PROVE  Goal
  <2>1. d \in Datagrams
    BY <1>1, MemberIsDatagram
  <2>2. /\ socket' \in Seq(Datagrams) /\ dropped' \subseteq Datagrams
        /\ peer \in {Nobody, d.from} => socket' = Append(socket, d)
        /\ peer \notin {Nobody, d.from} => socket' = socket
    BY <1>2, <2>1, ArriveEffect
  <2>3. ToSet(Append(socket, d)) = ToSet(socket) \cup {d}
    BY <1>1, <2>1, ToSetOfAppend
  <2> QED
    BY <2>2, <2>3
<1>3. ASSUME network # <<>>
      PROVE  /\ Head(network) \in ToSet(network)
             /\ Tail(network) \in Seq(Datagrams) /\ ToSet(Tail(network)) \subseteq ToSet(network)
  BY <1>1, <1>3, ToSetOfTail
<1>4. ASSUME Fault
      PROVE  Still
  BY <1>1, <1>4 DEF Fault, OutsideVars
<1>5. CASE Deliver
  <2>1. /\ network # <<>> /\ Arrive(Head(network)) /\ network' = Tail(network)
        /\ sent' = sent /\ faults' = faults /\ UNCHANGED OutsideVars
    BY <1>5 DEF Deliver, OutsideVars
  <2>2. Goal
    BY <1>2, <1>3, <2>1
  <2>3. Fewer /\ Still
    BY <1>1, <1>3, <2>1
  <2> QED
    BY <2>2, <2>3
<1>6. CASE Lose
  <2>1. /\ network # <<>> /\ network' = Tail(network) /\ Fault
        /\ socket' = socket /\ dropped' = dropped
    BY <1>6 DEF Lose
  <2> QED
    BY <1>1, <1>3, <1>4, <2>1
<1>7. CASE Repeat
  <2>1. /\ network # <<>> /\ Arrive(Head(network)) /\ network' = network /\ Fault
    BY <1>7 DEF Repeat
  <2>2. Goal
    BY <1>2, <1>3, <2>1
  <2> QED
    BY <1>1, <1>4, <2>1, <2>2
<1>8. CASE Overtake
  <2>1. PICK i \in 2 .. Len(network) : Arrive(network[i]) /\ network' = RemoveAt(network, i)
    BY <1>8 DEF Overtake
  <2>2. i \in 1 .. Len(network) /\ network[i] \in ToSet(network)
    BY <1>1, MemberIsDatagram
  <2>3. Fewer
    BY <1>1, <2>1, <2>2, ToSetOfRemoveAt
  <2>4. Goal
    BY <1>2, <2>1, <2>2
  <2>5. Still
    BY <1>4, <1>8 DEF Overtake
  <2> QED
    BY <2>3, <2>4, <2>5
<1> QED
  BY <1>5, <1>6, <1>7, <1>8 DEF NetworkStep

\* The four things that serving a datagram can do to the session.
Ignored(d) == peer \notin {Nobody, d.from} /\ UNCHANGED OutsideVars
Begun(d) ==
    /\ peer = Nobody /\ Method(d) = "CONNECT"
    /\ peer' = d.from /\ connectedClientAddress' = d.from /\ begunBy' = d
    /\ printed' = printed
Kept(d) ==
    /\ peer \in {Nobody, d.from} /\ Method(d) # "DISCONNECT"
    /\ peer' = peer /\ connectedClientAddress' = connectedClientAddress
    /\ begunBy' = begunBy
    /\ printed' \in {printed, [printed EXCEPT ![d.from] = @ \cup {d.number}]}
Ended(d) ==
    /\ peer \in {Nobody, d.from}
    /\ peer' = Nobody /\ connectedClientAddress' = Nobody /\ begunBy' = NoDatagram
    /\ printed' = printed

LEMMA ReceiveEffect ==
    ASSUME TypeOK, Receive
    PROVE  /\ socket # <<>>
           /\ sent' = sent /\ network' = network /\ faults' = faults
           /\ \/ socket' = Tail(socket) /\ dropped' = dropped
              \/ socket' = <<>> /\ dropped' = dropped \cup ToSet(Tail(socket))
           /\ LET d == Head(socket) IN Ignored(d) \/ Begun(d) \/ Kept(d) \/ Ended(d)
<1> DEFINE d == Head(socket)
           Effect == Ignored(d) \/ Begun(d) \/ Kept(d) \/ Ended(d)
           Out == \/ socket' = Tail(socket) /\ dropped' = dropped
                  \/ socket' = <<>> /\ dropped' = dropped \cup ToSet(Tail(socket))
<1>1. socket # <<>> /\ sent' = sent /\ network' = network /\ faults' = faults
  BY DEF Receive
<1>2. \/ Ignore(d)
      \/ Serves(d) /\ peer = Nobody /\ Connect(d)
      \/ Serves(d) /\ peer # Nobody /\ ConnectAgain(d)
      \/ Serves(d) /\ PrintText(d)
      \/ Serves(d) /\ Disconnect(d)
  BY Zenon DEF Receive
<1>3. connectedClientAddress = peer
  BY DEF TypeOK
<1> HIDE DEF d
<1>4. CASE Ignore(d)
  BY <1>1, <1>3, <1>4 DEF Ignore, Serves, Ignored, OutsideVars, d
<1>5. CASE peer = Nobody /\ Connect(d)
  BY <1>1, <1>5 DEF Connect, Begun, d
<1>6. CASE Serves(d) /\ ConnectAgain(d)
  BY <1>1, <1>3, <1>6 DEF Serves, ConnectAgain, Kept, d
<1>7. CASE Serves(d) /\ PrintText(d)
  BY <1>1, <1>3, <1>7 DEF Serves, PrintText, Kept, d
<1>8. CASE Serves(d) /\ Disconnect(d)
  BY <1>1, <1>3, <1>8 DEF Serves, Disconnect, Ended, d
<1> QED
  BY <1>2, <1>4, <1>5, <1>6, <1>7, <1>8

\* A datagram leaves the socket in its turn; the rest stay or are dropped.
LEMMA SocketAfterReceive ==
    ASSUME TypeOK, Receive
    PROVE  /\ Head(socket) \in Datagrams
           /\ socket' \in Seq(Datagrams) /\ dropped' \subseteq Datagrams
           /\ dropped \subseteq dropped' /\ ToSet(socket') \subseteq ToSet(socket)
           /\ ToSet(socket) \subseteq {Head(socket)} \cup ToSet(socket') \cup dropped'
<1>1. socket \in Seq(Datagrams) /\ dropped \subseteq Datagrams
  BY DEF TypeOK
<1>2. /\ socket # <<>>
      /\ \/ socket' = Tail(socket) /\ dropped' = dropped
         \/ socket' = <<>> /\ dropped' = dropped \cup ToSet(Tail(socket))
  BY ReceiveEffect
<1>3. /\ Head(socket) \in Datagrams /\ Tail(socket) \in Seq(Datagrams)
      /\ ToSet(socket) = {Head(socket)} \cup ToSet(Tail(socket))
  BY <1>1, <1>2, ToSetOfTail
<1>4. <<>> \in Seq(Datagrams) /\ ToSet(<<>>) = {}
  BY DEF ToSet
<1>5. ToSet(Tail(socket)) \subseteq Datagrams
  BY <1>3, MemberIsDatagram
<1> QED
  BY <1>1, <1>2, <1>3, <1>4, <1>5

-----------------------------------------------------------------------------
(* Types *)

LEMMA TypeInit == Init => TypeOK
<1> SUFFICES ASSUME Init PROVE TypeOK
  OBVIOUS
<1>1. <<>> \in Seq(Datagrams)
  OBVIOUS
<1>2. 0 \in 0 .. Faults
  BY BoundAssumption
<1>3. NoDatagram.from = Nobody
  BY DEF NoDatagram
<1> QED
  BY <1>1, <1>2, <1>3 DEF Init, TypeOK

LEMMA TypeStep ==
    ASSUME TypeOK, [Next]_vars
    PROVE  TypeOK'
<1>1. ASSUME NEW c \in Clients, Send(c)
      PROVE  TypeOK'
  <2>1. /\ sent' \in [Clients -> Nat] /\ network' \in Seq(Datagrams)
        /\ UNCHANGED <<socket, OutsideVars, faults, dropped>>
    BY <1>1, SendEffect
  <2> QED
    BY <2>1 DEF TypeOK, OutsideVars
<1>2. CASE NetworkStep
  <2>1. /\ network' \in Seq(Datagrams) /\ socket' \in Seq(Datagrams)
        /\ dropped' \subseteq Datagrams /\ faults' \in 0 .. Faults
        /\ sent' = sent /\ UNCHANGED OutsideVars
    BY <1>2, NetworkEffect
  <2> QED
    BY <2>1 DEF TypeOK, OutsideVars
<1>3. CASE Receive
  <2> DEFINE d == Head(socket)
  <2>1. /\ sent' = sent /\ network' = network /\ faults' = faults
        /\ Ignored(d) \/ Begun(d) \/ Kept(d) \/ Ended(d)
    BY <1>3, ReceiveEffect
  <2>2. d \in Datagrams /\ socket' \in Seq(Datagrams) /\ dropped' \subseteq Datagrams
    BY <1>3, SocketAfterReceive
  <2> HIDE DEF d
  <2>3. d.from \in Clients /\ d.number \in Nat
    BY <2>2 DEF Datagrams
  <2>4. NoDatagram.from = Nobody
    BY DEF NoDatagram
  <2>5. /\ connectedClientAddress' \in Clients \cup {Nobody} /\ peer' = connectedClientAddress'
        /\ begunBy' \in Datagrams \cup {NoDatagram} /\ begunBy'.from = peer'
    BY <2>1, <2>2, <2>3, <2>4 DEF TypeOK, Ignored, Begun, Kept, Ended, OutsideVars
  <2>6. printed' \in [Clients -> SUBSET Nat]
    BY <2>1, <2>3 DEF TypeOK, Ignored, Begun, Kept, Ended, OutsideVars
  <2> QED
    BY <2>1, <2>2, <2>5, <2>6 DEF TypeOK
<1>4. CASE UNCHANGED vars
  BY <1>4 DEF vars, TypeOK
<1> QED
  BY <1>1, <1>2, <1>3, <1>4 DEF Next, NetworkStep

\* The variables of the server stay in their sets; the channel is connected to
\* the client whose address the server remembers, and to nobody else.
THEOREM TypeCorrect == Spec => []TypeOK
BY TypeInit, TypeStep, PTL DEF Spec

-----------------------------------------------------------------------------
(* The session is exclusive *)

LEMMA SessionStep ==
    ASSUME TypeOK, [Next]_vars
    PROVE  [Exclusive!Next]_(Exclusive!vars)
<1>1. ASSUME UNCHANGED OutsideVars
      PROVE  UNCHANGED Exclusive!vars
  BY <1>1 DEF OutsideVars, Exclusive!vars
<1>2. ASSUME NEW c \in Clients, Send(c)
      PROVE  UNCHANGED OutsideVars
  BY <1>2, SendEffect
<1>3. CASE NetworkStep
  BY <1>1, <1>3, NetworkEffect
<1>4. CASE Receive
  <2> DEFINE d == Head(socket)
  <2>1. Ignored(d) \/ Begun(d) \/ Kept(d) \/ Ended(d)
    BY <1>4, ReceiveEffect
  <2>2. d.from \in Clients
    BY <1>4, SocketAfterReceive DEF Datagrams
  <2> HIDE DEF d
  <2>3. CASE Ignored(d)
    BY <1>1, <2>3 DEF Ignored
  <2>4. CASE Begun(d)
    <3>1. Exclusive!Begin(d.from)
      BY <2>4 DEF Begun, Exclusive!Begin
    <3> QED
      BY <2>2, <3>1 DEF Exclusive!Next
  <2>5. CASE Kept(d)
    <3>1. printed \in [Clients -> SUBSET Nat]
      BY DEF TypeOK
    <3>2. Exclusive!PrintText(d.from)
      BY <2>2, <2>5, <3>1 DEF Kept, Exclusive!PrintText
    <3> QED
      BY <2>2, <3>2 DEF Exclusive!Next
  <2>6. CASE Ended(d)
    <3>1. CASE peer = Nobody
      BY <2>6, <3>1 DEF Ended, Exclusive!vars
    <3>2. CASE peer = d.from
      <4>1. Exclusive!End(d.from)
        BY <2>6, <3>2 DEF Ended, Exclusive!End
      <4> QED
        BY <2>2, <4>1 DEF Exclusive!Next
    <3> QED
      BY <2>6, <3>1, <3>2 DEF Ended
  <2> QED
    BY <2>1, <2>3, <2>4, <2>5, <2>6
<1>5. CASE UNCHANGED vars
  BY <1>5 DEF vars, Exclusive!vars
<1> QED
  BY <1>1, <1>2, <1>3, <1>4, <1>5 DEF Next, NetworkStep

\* StartDatagramSocketServer implements an exclusive session, however many
\* datagrams are lost, repeated or overtaken.
THEOREM Refinement == Spec => SessionSpec
<1>1. Init => Exclusive!Init
  BY DEF Init, Exclusive!Init
<1> QED
  BY <1>1, SessionStep, TypeCorrect, PTL DEF Spec, SessionSpec, Exclusive!Spec

-----------------------------------------------------------------------------
(* The session that nobody ends *)

LEMMA OrphanStep ==
    ASSUME TypeOK, [Next]_vars, NEW c \in Clients, Orphaned(c)
    PROVE  Orphaned(c)' \/ sent[c]' # sent[c]
<1>1. peer = c /\ sent[c] % 4 = 0 /\ \A d \in OnTheWay : d.from # c
  BY DEF Orphaned
<1>2. Nobody # c
  BY NobodyAssumption
<1>3. ASSUME sent'[c] = sent[c], peer' = peer, \A d \in OnTheWay' : d.from # c
      PROVE  Orphaned(c)'
  BY <1>1, <1>3 DEF Orphaned
<1>4. ASSUME NEW e \in Clients, Send(e)
      PROVE  Orphaned(c)' \/ sent[c]' # sent[c]
  <2> DEFINE d == [from |-> e, number |-> sent[e] + 1]
  <2>1. /\ sent'[e] = sent[e] + 1
        /\ \A f \in Clients \ {e} : sent'[f] = sent[f]
        /\ ToSet(network') = ToSet(network) \cup {d}
        /\ UNCHANGED <<socket, OutsideVars, faults, dropped>>
    BY <1>4, SendEffect
  <2>2. sent[e] \in Nat /\ d.from = e
    BY DEF TypeOK
  <2> HIDE DEF d
  <2>3. CASE e = c
    BY <2>1, <2>2, <2>3
  <2>4. CASE e # c
    <3>1. \A g \in OnTheWay' : g.from # c
      BY <1>1, <2>1, <2>2, <2>4 DEF OnTheWay
    <3> QED
      BY <1>3, <2>1, <2>4, <3>1 DEF OutsideVars
  <2> QED
    BY <2>3, <2>4
<1>5. CASE NetworkStep
  <2>1. /\ ToSet(network') \subseteq ToSet(network)
        /\ sent' = sent /\ UNCHANGED OutsideVars
        /\ \/ socket' = socket
           \/ \E d \in ToSet(network) : ToSet(socket') = ToSet(socket) \cup {d}
    BY <1>5, NetworkEffect
  <2>2. OnTheWay' \subseteq OnTheWay
    BY <2>1 DEF OnTheWay
  <2> QED
    BY <1>1, <1>3, <2>1, <2>2 DEF OutsideVars
<1>6. CASE Receive
  <2> DEFINE d == Head(socket)
  <2>1. /\ socket # <<>> /\ sent' = sent /\ network' = network
        /\ Ignored(d) \/ Begun(d) \/ Kept(d) \/ Ended(d)
    BY <1>6, ReceiveEffect
  <2>2. ToSet(socket') \subseteq ToSet(socket)
    BY <1>6, SocketAfterReceive
  <2>3. d \in ToSet(socket)
    BY <2>1, ToSetOfTail DEF TypeOK
  <2> HIDE DEF d
  <2>4. d.from # c
    BY <1>1, <2>3 DEF OnTheWay
  <2>5. Ignored(d)
    BY <1>1, <1>2, <2>1, <2>4 DEF Begun, Kept, Ended
  <2>6. OnTheWay' \subseteq OnTheWay
    BY <2>1, <2>2 DEF OnTheWay
  <2> QED
    BY <1>1, <1>3, <2>1, <2>5, <2>6 DEF Ignored, OutsideVars
<1>7. CASE UNCHANGED vars
  BY <1>1, <1>7 DEF vars, Orphaned, OnTheWay
<1> QED
  BY <1>4, <1>5, <1>6, <1>7 DEF Next, NetworkStep

\* receive() has no timeout: a session of which nothing is on the way any more
\* is ended by nobody but a further run of the same client.
THEOREM ShutOut == Spec => OrphanShutsOut
<1>1. TypeOK /\ [Next]_vars =>
        [\A c \in Clients : Orphaned(c) => Orphaned(c)' \/ sent[c]' # sent[c]]_vars
  BY OrphanStep
<1> QED
  BY <1>1, TypeCorrect, PTL DEF Spec, OrphanShutsOut

-----------------------------------------------------------------------------
(* Where the end of a session may be *)

\* The client sends its four methods in turn.
LEMMA MethodOf ==
    ASSUME NEW d \in Datagrams
    PROVE  /\ Method(d) = "CONNECT" => d.number % 4 = 1
           /\ d.number % 4 = 0 => Method(d) = "DISCONNECT"
<1>1. d.number \in Nat /\ d.number > 0
  BY DEF Datagrams
<1>2. PICK r \in 0 .. 3 : r = (d.number - 1) % 4 /\ d.number % 4 = (r + 1) % 4
  BY <1>1
<1>3. Method(d) = Methods[r + 1]
  BY <1>2 DEF Method
<1> QED
  BY <1>2, <1>3 DEF Methods

\* The end of a session is a datagram of the client that has it.
LEMMA EndOfSession ==
    ASSUME TypeOK, peer # Nobody
    PROVE  /\ begunBy \in Datagrams
           /\ Ahead(3) = [from |-> peer, number |-> begunBy.number + 3]
<1>1. begunBy \in Datagrams /\ begunBy.from = peer
  BY DEF TypeOK, NoDatagram
<1> QED
  BY <1>1 DEF Ahead, Datagrams

LEMMA WasSentStep ==
    ASSUME TypeOK, WasSent, [Next]_vars
    PROVE  WasSent'
<1>1. \A d \in OnTheWay : d \in Datagrams /\ d.from \in Clients /\ d.number \in Nat
  BY MemberIsDatagram DEF TypeOK, OnTheWay, Datagrams
<1>2. ASSUME NEW c \in Clients, Send(c)
      PROVE  WasSent'
  <2> DEFINE d == [from |-> c, number |-> sent[c] + 1]
  <2>1. /\ sent'[c] = sent[c] + 1
        /\ \A e \in Clients \ {c} : sent'[e] = sent[e]
        /\ ToSet(network') = ToSet(network) \cup {d}
        /\ socket' = socket
    BY <1>2, SendEffect
  <2>2. d.from = c /\ d.number = sent[c] + 1 /\ sent \in [Clients -> Nat]
    BY DEF TypeOK
  <2> HIDE DEF d
  <2>3. OnTheWay' = OnTheWay \cup {d}
    BY <2>1 DEF OnTheWay
  <2>4. \A e \in Clients : sent[e] <= sent'[e] /\ sent[e] \in Nat /\ sent'[e] \in Nat
    BY <2>1, <2>2
  <2>5. ASSUME NEW e \in OnTheWay
        PROVE  e.number <= sent'[e.from]
    BY <1>1, <2>4 DEF WasSent
  <2>6. d.number <= sent'[d.from]
    BY <2>1, <2>2
  <2> QED
    BY <2>3, <2>5, <2>6 DEF WasSent
<1>3. CASE NetworkStep
  <2>1. /\ ToSet(network') \subseteq ToSet(network) /\ sent' = sent
        /\ \/ socket' = socket
           \/ \E d \in ToSet(network) : ToSet(socket') = ToSet(socket) \cup {d}
    BY <1>3, NetworkEffect
  <2>2. OnTheWay' \subseteq OnTheWay
    BY <2>1 DEF OnTheWay
  <2> QED
    BY <2>1, <2>2 DEF WasSent
<1>4. CASE Receive
  <2>1. sent' = sent /\ network' = network
    BY <1>4, ReceiveEffect
  <2>2. ToSet(socket') \subseteq ToSet(socket)
    BY <1>4, SocketAfterReceive
  <2>3. OnTheWay' \subseteq OnTheWay
    BY <2>1, <2>2 DEF OnTheWay
  <2> QED
    BY <2>1, <2>3 DEF WasSent
<1>5. CASE UNCHANGED vars
  BY <1>5 DEF vars, WasSent, OnTheWay
<1> QED
  BY <1>2, <1>3, <1>4, <1>5 DEF Next, NetworkStep

\* What the invariant says of a network without faults.
InOrder == NetworkInOrder /\ SocketInOrder /\ SessionHasEnd

LEMMA SendKeepsOrder ==
    ASSUME TypeOK, WasSent, InOrder, NEW c \in Clients, Send(c)
    PROVE  InOrder'
<1> DEFINE d == [from |-> c, number |-> sent[c] + 1]
<1>1. /\ d \in Datagrams
      /\ sent' \in [Clients -> Nat] /\ sent'[c] = sent[c] + 1
      /\ \A e \in Clients \ {c} : sent'[e] = sent[e]
      /\ network' = Append(network, d)
      /\ ToSet(network') = ToSet(network) \cup {d}
      /\ UNCHANGED <<socket, OutsideVars, faults, dropped>>
  BY SendEffect
<1>2. /\ network \in Seq(Datagrams) /\ socket \in Seq(Datagrams)
      /\ sent \in [Clients -> Nat]
  BY DEF TypeOK
<1>3. d.from = c /\ d.number = sent[c] + 1 /\ d.number > sent[c] /\ sent[c] \in Nat
  BY <1>2
<1>4. ASSUME NEW x \in OnTheWay, NEW e \in Later(x, sent')
      PROVE  e \in Later(x, sent) \cup {d}
  <2>1. x \in Datagrams /\ x.from \in Clients /\ x.number \in Nat
    BY <1>2, MemberIsDatagram DEF OnTheWay, Datagrams
  <2>2. PICK m \in x.number + 1 .. sent'[x.from] : e = [from |-> x.from, number |-> m]
    BY <1>4 DEF Later
  <2>3. m \in Nat /\ sent[x.from] \in Nat /\ sent'[x.from] \in Nat
    BY <1>1, <1>2, <2>1, <2>2
  <2>4. CASE m <= sent[x.from]
    BY <2>1, <2>2, <2>3, <2>4 DEF Later
  <2>5. CASE m > sent[x.from]
    <3>1. x.from = c
      BY <1>1, <2>1, <2>2, <2>3, <2>5
    <3>2. m = sent[c] + 1
      BY <1>1, <2>1, <2>2, <2>3, <2>5, <3>1
    <3> QED
      BY <2>2, <3>1, <3>2
  <2> QED
    BY <2>3, <2>4, <2>5
<1>5. Later(d, sent') = {}
  BY <1>1, <1>3 DEF Later
<1> HIDE DEF d
<1>6. /\ Len(network') = Len(network) + 1 /\ Len(network) \in Nat
      /\ \A i \in 1 .. Len(network) : network'[i] = network[i]
      /\ network'[Len(network) + 1] = d
  BY <1>1, <1>2, ToSetOfAppend
<1>7. /\ \A i \in 1 .. Len(network) : network[i] \in OnTheWay
      /\ \A i \in 1 .. Len(socket) : socket[i] \in OnTheWay
  BY <1>2, MemberIsDatagram DEF OnTheWay
<1>8. NetworkInOrder'
  <2>1. ASSUME NEW i \in 1 .. Len(network), NEW e \in Later(network'[i], sent')
        PROVE  \E j \in i + 1 .. Len(network') : network'[j] = e
    <3>1. network'[i] = network[i] /\ network[i] \in OnTheWay
      BY <1>6, <1>7
    <3>2. e \in Later(network[i], sent) \cup {d}
      BY <1>4, <2>1, <3>1
    <3>3. CASE e \in Later(network[i], sent)
      <4>1. PICK j \in i + 1 .. Len(network) : network[j] = e
        BY <3>3 DEF InOrder, NetworkInOrder
      <4>2. j \in 1 .. Len(network) /\ j \in i + 1 .. Len(network')
        BY <1>6
      <4> QED
        BY <1>6, <4>1, <4>2
    <3>4. CASE e = d
      <4>1. Len(network) + 1 \in i + 1 .. Len(network')
        BY <1>6
      <4> QED
        BY <1>6, <3>4, <4>1
    <3> QED
      BY <3>2, <3>3, <3>4
  <2>2. Later(network'[Len(network) + 1], sent') = {}
    BY <1>5, <1>6
  <2>3. \A i \in 1 .. Len(network') : i \in 1 .. Len(network) \/ i = Len(network) + 1
    BY <1>6
  <2>4. \A i \in 1 .. Len(network') : \A e \in Later(network'[i], sent') :
           \E j \in i + 1 .. Len(network') : network'[j] = e
    BY <2>1, <2>2, <2>3
  <2> QED
    BY <2>4 DEF NetworkInOrder
<1>9. SocketInOrder'
  <2>1. ASSUME NEW i \in 1 .. Len(socket), NEW e \in Later(socket[i], sent')
        PROVE  \/ e \in dropped \cup ToSet(network')
               \/ \E j \in i + 1 .. Len(socket) : socket[j] = e
    <3>1. e \in Later(socket[i], sent) \cup {d}
      BY <1>4, <1>7, <2>1
    <3>2. CASE e \in Later(socket[i], sent)
      BY <1>1, <3>2 DEF InOrder, SocketInOrder
    <3>3. CASE e = d
      BY <1>1, <3>3
    <3> QED
      BY <3>1, <3>2, <3>3
  <2>2. socket' = socket /\ dropped' = dropped
    BY <1>1
  <2> QED
    BY <2>1, <2>2 DEF SocketInOrder
<1>10. SessionHasEnd'
  <2> SUFFICES ASSUME peer' # Nobody
               PROVE  /\ begunBy'.number % 4 = 1 /\ begunBy'.number <= sent'[peer']
                      /\ begunBy'.number + 3 <= sent'[peer']
                            => Ahead(3)' \in dropped' \cup OnTheWay'
    BY DEF SessionHasEnd
  <2>1. peer' = peer /\ begunBy' = begunBy /\ Ahead(3)' = Ahead(3) /\ dropped' = dropped
    BY <1>1 DEF OutsideVars, Ahead
  <2>2. /\ begunBy.number % 4 = 1 /\ begunBy.number <= sent[peer]
        /\ begunBy.number + 3 <= sent[peer] => Ahead(3) \in dropped \cup OnTheWay
    BY <2>1 DEF InOrder, SessionHasEnd
  <2>3. /\ Ahead(3) = [from |-> peer, number |-> begunBy.number + 3]
        /\ begunBy.number \in Nat /\ peer \in Clients
    BY <2>1, EndOfSession DEF Datagrams, TypeOK
  <2>4. OnTheWay' = OnTheWay \cup {d}
    BY <1>1 DEF OnTheWay
  <2>5. sent[peer] \in Nat /\ sent'[peer] \in Nat /\ sent[peer] <= sent'[peer]
    <3>1. sent[peer] \in Nat /\ sent'[peer] \in Nat
      BY <1>1, <1>2, <2>3
    <3>2. sent'[peer] = sent[peer] \/ sent'[peer] = sent[peer] + 1
      BY <1>1, <2>3
    <3> QED
      BY <3>1, <3>2
  <2>6. ASSUME begunBy.number + 3 <= sent'[peer], begunBy.number + 3 > sent[peer]
        PROVE  Ahead(3) = d
    <3>1. peer = c
      BY <1>1, <2>3, <2>5, <2>6
    <3>2. begunBy.number + 3 = sent[c] + 1
      BY <1>1, <1>3, <2>3, <2>5, <2>6, <3>1
    <3> QED
      BY <2>3, <3>1, <3>2 DEF d
  <2>7. begunBy.number <= sent'[peer]
    BY <2>2, <2>3, <2>5
  <2>8. begunBy.number + 3 <= sent'[peer] => Ahead(3) \in dropped \cup OnTheWay'
    BY <2>2, <2>3, <2>4, <2>5, <2>6
  <2> QED
    BY <2>1, <2>2, <2>7, <2>8
<1> QED
  BY <1>8, <1>9, <1>10 DEF InOrder

LEMMA DeliverKeepsOrder ==
    ASSUME TypeOK, InOrder, Deliver
    PROVE  InOrder'
<1> DEFINE h == Head(network)
<1>1. /\ network # <<>> /\ Arrive(h) /\ network' = Tail(network)
      /\ sent' = sent /\ peer' = peer /\ begunBy' = begunBy
  BY DEF Deliver
<1>2. /\ network \in Seq(Datagrams) /\ socket \in Seq(Datagrams)
  BY DEF TypeOK
<1>3. /\ Len(network) \in Nat /\ Len(network) > 0 /\ h \in Datagrams /\ h = network[1]
      /\ network' \in Seq(Datagrams) /\ Len(network') = Len(network) - 1
      /\ \A i \in 1 .. Len(network') : network'[i] = network[i + 1]
      /\ ToSet(network) = {h} \cup ToSet(network')
  BY <1>1, <1>2, ToSetOfTail
<1> HIDE DEF h
<1>4. /\ dropped \cup ToSet(socket) \cup {h} = dropped' \cup ToSet(socket')
      /\ dropped \subseteq dropped'
      /\ \/ socket' = socket /\ h \in dropped'
         \/ socket' = Append(socket, h)
  <2>1. /\ dropped \cup ToSet(socket) \cup {h} = dropped' \cup ToSet(socket')
        /\ dropped \subseteq dropped'
        /\ peer \in {Nobody, h.from} => socket' = Append(socket, h)
    BY <1>1, <1>3, ArriveEffect
  <2>2. peer \notin {Nobody, h.from} => socket' = socket /\ h \in dropped'
    BY <1>1 DEF Arrive
  <2> QED
    BY <2>1, <2>2
<1>5. ASSUME NEW i \in 1 .. Len(network'), NEW e \in Later(network'[i], sent')
      PROVE  \E j \in i + 1 .. Len(network') : network'[j] = e
  <2>1. i + 1 \in 1 .. Len(network) /\ e \in Later(network[i + 1], sent)
    BY <1>1, <1>3, <1>5
  <2>2. PICK j \in (i + 1) + 1 .. Len(network) : network[j] = e
    BY <2>1 DEF InOrder, NetworkInOrder
  <2>3. j - 1 \in i + 1 .. Len(network') /\ j - 1 \in 1 .. Len(network') /\ (j - 1) + 1 = j
    BY <1>3, <2>1, <2>2
  <2> QED
    BY <1>3, <2>2, <2>3
<1>6. \A e \in Later(h, sent') : e \in ToSet(network')
  <2> SUFFICES ASSUME NEW e \in Later(h, sent')
               PROVE  e \in ToSet(network')
    OBVIOUS
  <2>1. 1 \in 1 .. Len(network) /\ e \in Later(network[1], sent)
    BY <1>1, <1>3
  <2>2. PICK j \in 1 + 1 .. Len(network) : network[j] = e
    BY <2>1 DEF InOrder, NetworkInOrder
  <2>3. j - 1 \in 1 .. Len(network') /\ (j - 1) + 1 = j
    BY <1>3, <2>2
  <2> QED
    BY <1>3, <2>2, <2>3, MemberIsDatagram
<1>7. ASSUME NEW i \in 1 .. Len(socket), NEW e \in Later(socket[i], sent')
      PROVE  \/ e \in dropped \cup {h} \cup ToSet(network')
             \/ \E j \in i + 1 .. Len(socket) : socket[j] = e
  BY <1>1, <1>3, <1>7 DEF InOrder, SocketInOrder
<1>8. SocketInOrder'
  <2>1. CASE socket' = socket /\ h \in dropped'
    BY <1>4, <1>7, <2>1 DEF SocketInOrder
  <2>2. CASE socket' = Append(socket, h)
    <3>1. /\ Len(socket') = Len(socket) + 1 /\ Len(socket) \in Nat
          /\ \A i \in 1 .. Len(socket) : socket'[i] = socket[i]
          /\ socket'[Len(socket) + 1] = h
      BY <1>2, <1>3, <2>2, ToSetOfAppend
    <3>2. ASSUME NEW i \in 1 .. Len(socket), NEW e \in Later(socket'[i], sent')
          PROVE  \/ e \in dropped' \cup ToSet(network')
                 \/ \E j \in i + 1 .. Len(socket') : socket'[j] = e
      <4>1. e \in Later(socket[i], sent')
        BY <3>1, <3>2
      <4>2. CASE e = h
        <5>1. Len(socket) + 1 \in i + 1 .. Len(socket')
          BY <3>1
        <5> QED
          BY <3>1, <4>2, <5>1
      <4>3. CASE \E j \in i + 1 .. Len(socket) : socket[j] = e
        <5>1. PICK j \in i + 1 .. Len(socket) : socket[j] = e
          BY <4>3
        <5>2. j \in 1 .. Len(socket) /\ j \in i + 1 .. Len(socket')
          BY <3>1
        <5> QED
          BY <3>1, <5>1, <5>2
      <4> QED
        BY <1>4, <1>7, <4>1, <4>2, <4>3
    <3>3. \A e \in Later(socket'[Len(socket) + 1], sent') : e \in ToSet(network')
      BY <1>6, <3>1
    <3>4. \A i \in 1 .. Len(socket') : i \in 1 .. Len(socket) \/ i = Len(socket) + 1
      BY <3>1
    <3>5. \A i \in 1 .. Len(socket') : \A e \in Later(socket'[i], sent') :
             \/ e \in dropped' \cup ToSet(network')
             \/ \E j \in i + 1 .. Len(socket') : socket'[j] = e
      BY <3>2, <3>3, <3>4
    <3> QED
      BY <3>5 DEF SocketInOrder
  <2> QED
    BY <1>4, <2>1, <2>2
<1>9. NetworkInOrder'
  BY <1>5 DEF NetworkInOrder
<1>10. SessionHasEnd'
  <2>1. dropped \cup OnTheWay \subseteq dropped' \cup OnTheWay'
    BY <1>3, <1>4 DEF OnTheWay
  <2>2. Ahead(3)' = Ahead(3)
    BY <1>1 DEF Ahead
  <2> QED
    BY <1>1, <2>1, <2>2 DEF InOrder, SessionHasEnd
<1> QED
  BY <1>8, <1>9, <1>10 DEF InOrder

LEMMA ReceiveKeepsOrder ==
    ASSUME TypeOK, WasSent, InOrder, Receive
    PROVE  InOrder'
<1> DEFINE d == Head(socket)
<1>1. /\ socket # <<>> /\ sent' = sent /\ network' = network
      /\ \/ socket' = Tail(socket) /\ dropped' = dropped
         \/ socket' = <<>> /\ dropped' = dropped \cup ToSet(Tail(socket))
      /\ Ignored(d) \/ Begun(d) \/ Kept(d) \/ Ended(d)
  BY ReceiveEffect
<1>2. /\ d \in Datagrams /\ dropped \subseteq dropped'
      /\ ToSet(socket) \subseteq {d} \cup ToSet(socket') \cup dropped'
  BY SocketAfterReceive
<1>3. /\ Len(socket) \in Nat /\ Len(socket) > 0 /\ d = socket[1]
      /\ Len(Tail(socket)) = Len(socket) - 1
      /\ \A i \in 1 .. Len(Tail(socket)) : Tail(socket)[i] = socket[i + 1]
      /\ ToSet(socket) = {socket[i] : i \in 1 .. Len(socket)}
  BY <1>1, ToSetOfTail, MemberIsDatagram DEF TypeOK
<1>4. d \in OnTheWay
  BY <1>3 DEF OnTheWay
<1> HIDE DEF d
<1>5. dropped \cup OnTheWay \subseteq {d} \cup dropped' \cup OnTheWay'
  BY <1>1, <1>2 DEF OnTheWay
<1>6. NetworkInOrder'
  <2>1. network' = network /\ sent' = sent
    BY <1>1
  <2>2. NetworkInOrder
    BY DEF InOrder
  <2> QED
    BY <2>1, <2>2 DEF NetworkInOrder
<1>7. SocketInOrder'
  <2>1. CASE socket' = <<>>
    BY <2>1 DEF SocketInOrder
  <2>2. CASE socket' = Tail(socket)
    <3>1. ASSUME NEW i \in 1 .. Len(socket'), NEW e \in Later(socket'[i], sent')
          PROVE  \/ e \in dropped' \cup ToSet(network')
                 \/ \E j \in i + 1 .. Len(socket') : socket'[j] = e
      <4>1. i + 1 \in 1 .. Len(socket) /\ socket'[i] = socket[i + 1]
        BY <1>3, <2>2
      <4>2. e \in Later(socket[i + 1], sent)
        BY <1>1, <3>1, <4>1
      <4>3. \/ e \in dropped \cup ToSet(network)
            \/ \E j \in (i + 1) + 1 .. Len(socket) : socket[j] = e
        BY <4>1, <4>2 DEF InOrder, SocketInOrder
      <4>4. ASSUME NEW j \in (i + 1) + 1 .. Len(socket), socket[j] = e
            PROVE  \E k \in i + 1 .. Len(socket') : socket'[k] = e
        <5>1. /\ j - 1 \in i + 1 .. Len(socket') /\ j - 1 \in 1 .. Len(socket')
              /\ (j - 1) + 1 = j
          BY <1>3, <2>2, <4>1
        <5> QED
          BY <1>3, <2>2, <4>4, <5>1
      <4> QED
        BY <1>1, <1>2, <4>3, <4>4
    <3> QED
      BY <3>1 DEF SocketInOrder
  <2> QED
    BY <1>1, <2>1, <2>2
<1>8. SessionHasEnd'
  <2>1. CASE peer # Nobody /\ begunBy' = begunBy /\ peer' = peer /\ d # Ahead(3)
    <3>1. Ahead(3)' = Ahead(3)
      BY <2>1 DEF Ahead
    <3> QED
      BY <1>1, <1>5, <2>1, <3>1 DEF InOrder, SessionHasEnd
  <2>2. CASE Ignored(d)
    <3>1. peer # Nobody /\ begunBy' = begunBy /\ peer' = peer /\ d.from # peer
      BY <2>2 DEF Ignored, OutsideVars
    <3>2. Ahead(3).from = peer
      BY <3>1, EndOfSession
    <3> QED
      BY <2>1, <3>1, <3>2
  <2>3. CASE Kept(d)
    <3>1. begunBy' = begunBy /\ peer' = peer /\ Method(d) # "DISCONNECT"
      BY <2>3 DEF Kept
    <3>2. CASE peer = Nobody
      BY <3>1, <3>2 DEF SessionHasEnd
    <3>3. CASE peer # Nobody
      <4>1. /\ Ahead(3).number = begunBy.number + 3
            /\ begunBy.number \in Nat /\ begunBy.number % 4 = 1
        BY <3>3, EndOfSession DEF InOrder, SessionHasEnd, Datagrams
      <4>2. Ahead(3).number % 4 = 0
        BY <4>1
      <4>3. d # Ahead(3)
        BY <1>2, <3>1, <4>2, MethodOf
      <4> QED
        BY <2>1, <3>1, <3>3, <4>3
    <3> QED
      BY <3>2, <3>3
  <2>4. CASE Ended(d)
    BY <2>4 DEF Ended, SessionHasEnd
  <2>5. CASE Begun(d)
    <3> DEFINE e == [from |-> d.from, number |-> d.number + 3]
    <3>1. peer' = d.from /\ begunBy' = d /\ Method(d) = "CONNECT"
      BY <2>5 DEF Begun
    <3>2. d.number \in Nat /\ d.from \in Clients /\ sent[d.from] \in Nat
      BY <1>2 DEF Datagrams, TypeOK
    <3>3. d.number % 4 = 1 /\ d.number <= sent[d.from]
      BY <1>2, <1>4, <3>1, MethodOf DEF WasSent
    <3>4. Ahead(3)' = e /\ e # d
      BY <1>2, <3>1, <3>2 DEF Ahead, Datagrams
    <3>5. ASSUME d.number + 3 <= sent[d.from]
          PROVE  e \in dropped \cup OnTheWay
      <4>1. d.number + 3 \in d.number + 1 .. sent[d.from]
        BY <3>2, <3>5
      <4>2. e \in Later(d, sent)
        BY <4>1 DEF Later
      <4> HIDE DEF e
      <4>3. 1 \in 1 .. Len(socket) /\ e \in Later(socket[1], sent)
        BY <1>3, <4>2
      <4>4. \/ e \in dropped \cup ToSet(network)
            \/ \E j \in 1 + 1 .. Len(socket) : socket[j] = e
        BY <4>3 DEF InOrder, SocketInOrder
      <4>5. \A j \in 1 + 1 .. Len(socket) : socket[j] \in ToSet(socket)
        BY <1>3
      <4> QED
        BY <4>4, <4>5 DEF OnTheWay
    <3> HIDE DEF e
    <3> QED
      BY <1>1, <1>5, <3>1, <3>3, <3>4, <3>5 DEF SessionHasEnd
  <2> QED
    BY <1>1, <2>2, <2>3, <2>4, <2>5
<1> QED
  BY <1>6, <1>7, <1>8 DEF InOrder

LEMMA InitIInv == Init => IInv
<1> SUFFICES ASSUME Init PROVE IInv
  OBVIOUS
<1>1. network = <<>> /\ socket = <<>> /\ peer = Nobody
  BY DEF Init
<1>2. Len(network) = 0 /\ Len(socket) = 0 /\ OnTheWay = {}
  BY <1>1 DEF OnTheWay, ToSet
<1> QED
  BY <1>1, <1>2, TypeInit
     DEF IInv, WasSent, NetworkInOrder, SocketInOrder, SessionHasEnd

LEMMA StepIInv == IInv /\ [Next]_vars => IInv'
<1> SUFFICES ASSUME IInv, [Next]_vars PROVE IInv'
  OBVIOUS
<1>1. TypeOK /\ WasSent /\ TypeOK' /\ WasSent'
  BY TypeStep, WasSentStep DEF IInv
<1>2. ASSUME faults' = 0
      PROVE  InOrder'
  <2>1. faults \in Nat
    BY <1>1 DEF TypeOK
  <2>2. ASSUME faults = 0
        PROVE  InOrder
    BY <2>2 DEF IInv, InOrder
  <2>3. ASSUME NEW c \in Clients, Send(c)
        PROVE  InOrder'
    <3>1. faults = 0
      BY <1>2, <2>3 DEF Send
    <3> QED
      BY <1>1, <2>2, <2>3, <3>1, SendKeepsOrder
  <2>4. CASE Deliver
    <3>1. faults = 0
      BY <1>2, <2>4 DEF Deliver
    <3> QED
      BY <1>1, <2>2, <2>4, <3>1, DeliverKeepsOrder
  <2>5. CASE Lose \/ Repeat \/ Overtake
    <3>1. faults' = faults + 1
      BY <2>5 DEF Lose, Repeat, Overtake, Fault
    <3> QED
      BY <1>2, <2>1, <3>1
  <2>6. CASE Receive
    <3>1. faults = 0
      BY <1>2, <2>6 DEF Receive
    <3> QED
      BY <1>1, <2>2, <2>6, <3>1, ReceiveKeepsOrder
  <2>7. CASE UNCHANGED vars
    <3>1. faults = 0
      BY <1>2, <2>7 DEF vars
    <3>2. InOrder
      BY <2>2, <3>1
    <3>3. /\ network' = network /\ socket' = socket /\ sent' = sent /\ dropped' = dropped
          /\ peer' = peer /\ begunBy' = begunBy
      BY <2>7 DEF vars
    <3>4. Ahead(3)' = Ahead(3) /\ OnTheWay' = OnTheWay
      BY <3>3 DEF Ahead, OnTheWay
    <3> QED
      BY <3>2, <3>3, <3>4 DEF InOrder, NetworkInOrder, SocketInOrder, SessionHasEnd
  <2> QED
    BY <2>3, <2>4, <2>5, <2>6, <2>7 DEF Next
<1> QED
  BY <1>1, <1>2 DEF IInv, InOrder

THEOREM Invariance == Spec => []IInv
BY InitIInv, StepIInv, PTL DEF Spec

\* A session that nobody will end is left behind only when the network lost,
\* repeated or overtook something, or when the socket dropped the DISCONNECT of
\* the very run that began it.
THEOREM Orphans == Spec => []OrphanedByLoss
<1>1. ASSUME IInv, NEW c \in Clients, Orphaned(c), faults = 0
      PROVE  Ahead(3) \in dropped
  <2>1. peer = c /\ peer # Nobody /\ sent[c] % 4 = 0 /\ \A d \in OnTheWay : d.from # c
    BY <1>1, NobodyAssumption DEF Orphaned
  <2>2. /\ begunBy.number % 4 = 1 /\ begunBy.number <= sent[c]
        /\ begunBy.number + 3 <= sent[c] => Ahead(3) \in dropped \cup OnTheWay
    BY <1>1, <2>1 DEF IInv, SessionHasEnd
  <2>3. begunBy.number \in Nat /\ sent[c] \in Nat /\ Ahead(3).from = c
    BY <1>1, <2>1, EndOfSession DEF IInv, TypeOK, Datagrams
  <2>4. begunBy.number + 3 <= sent[c]
    BY <2>1, <2>2, <2>3
  <2> QED
    BY <2>1, <2>2, <2>3, <2>4
<1>2. IInv => OrphanedByLoss
  <2> SUFFICES ASSUME IInv, NEW c \in Clients, Orphaned(c)
               PROVE  faults > 0 \/ Ahead(3) \in dropped
    BY DEF OrphanedByLoss
  <2>1. faults \in Nat
    BY DEF IInv, TypeOK
  <2> QED
    BY <1>1, <2>1
<1> QED
  BY <1>2, Invariance, PTL

-----------------------------------------------------------------------------
(* The Session of the NIO application server: who waits for a lock, who holds *)
(* it, and what is left behind by a timed get()                               *)

-----------------------------------------------------------------------------
(* The queue of waiting threads *)

\* A sequence with one more member, and the first of one that is not empty.
LEMMA QueueFacts ==
    ASSUME NEW S, NEW q \in Seq(S)
    PROVE  /\ Len(q) \in Nat /\ (q # <<>> <=> Len(q) > 0)
           /\ \A i \in 1 .. Len(q) : q[i] \in S
           /\ q # <<>> => /\ Head(q) = q[1] /\ 1 \in 1 .. Len(q)
                          /\ Tail(q) \in Seq(S) /\ Len(Tail(q)) = Len(q) - 1
                          /\ \A i \in 1 .. Len(q) - 1 : Tail(q)[i] = q[i + 1]
BY EmptySeq, HeadTailProperties

\* The set of the members, with their places.
LEMMA SetOfMembers ==
    ASSUME NEW S, NEW q \in Seq(S)
    PROVE  \A e : e \in Sessions!ToSet(q) <=> \E i \in 1 .. Len(q) : q[i] = e
<1>1. DOMAIN q = 1 .. Len(q)
  OBVIOUS
<1> QED
  BY <1>1, Zenon DEF Sessions!ToSet

LEMMA RemoveOne ==
    ASSUME NEW S, NEW q \in Seq(S), NEW i \in 1 .. Len(q)
    PROVE  /\ Sessions!RemoveAt(q, i) \in Seq(S)
           /\ Len(Sessions!RemoveAt(q, i)) = Len(q) - 1
           /\ \A j \in 1 .. Len(q) - 1 :
                 Sessions!RemoveAt(q, i)[j] = IF j < i THEN q[j] ELSE q[j + 1]
<1> DEFINE front == SubSeq(q, 1, i - 1)
           back  == SubSeq(q, i + 1, Len(q))
<1>1. Len(q) \in Nat /\ \A j \in 1 .. Len(q) : q[j] \in S
  BY QueueFacts
<1>2. /\ front \in Seq(S)
      /\ Len(front) = i - 1
      /\ \A j \in 1 .. i - 1 : front[j] = q[j]
  BY <1>1, SubSeqProperties
<1>3. /\ back \in Seq(S)
      /\ Len(back) = Len(q) - i
      /\ \A j \in 1 .. Len(q) - i : back[j] = q[i + j]
  BY <1>1, SubSeqProperties
<1> HIDE DEF front, back
<1>4. /\ front \o back \in Seq(S)
      /\ Len(front \o back) = Len(front) + Len(back)
      /\ \A j \in 1 .. Len(front) + Len(back) : (front \o back)[j] =
            IF j <= Len(front) THEN front[j] ELSE back[j - Len(front)]
  BY <1>2, <1>3, ConcatProperties
<1>5. Sessions!RemoveAt(q, i) = front \o back
  BY DEF Sessions!RemoveAt, front, back
<1>6. ASSUME NEW j \in 1 .. Len(q) - 1
      PROVE  (front \o back)[j] = IF j < i THEN q[j] ELSE q[j + 1]
  <2>1. CASE j < i
    BY <1>1, <1>2, <1>3, <1>4, <2>1
  <2>2. CASE ~(j < i)
    <3>1. (front \o back)[j] = back[j - (i - 1)]
      BY <1>1, <1>2, <1>3, <1>4, <2>2
    <3>2. j - (i - 1) \in 1 .. Len(q) - i /\ i + (j - (i - 1)) = j + 1
      BY <1>1, <2>2
    <3> QED
      BY <1>3, <2>2, <3>1, <3>2
  <2> QED
    BY <2>1, <2>2
<1>7. Len(front \o back) = Len(q) - 1
  BY <1>1, <1>2, <1>3, <1>4
<1> QED
  BY <1>4, <1>5, <1>6, <1>7, Zenon

Distinct(q) == \A j, k \in 1 .. Len(q) : q[j] = q[k] => j = k

\* A sequence of different members with a further one at its end.
LEMMA AddMember ==
    ASSUME NEW S, NEW q \in Seq(S), Distinct(q), NEW e \in S, e \notin Sessions!ToSet(q),
           NEW r \in Seq(S), Len(r) = Len(q) + 1, r[Len(q) + 1] = e,
           \A j \in 1 .. Len(q) : r[j] = q[j]
    PROVE  /\ r # <<>>
           /\ Sessions!ToSet(r) = Sessions!ToSet(q) \cup {e}
           /\ Distinct(r)
           /\ q # <<>> => Head(r) = Head(q)
<1>1. Len(r) = Len(q) + 1
  OBVIOUS
<1>2. Len(q) \in Nat /\ r # <<>>
  BY QueueFacts
<1>3. /\ \A x : x \in Sessions!ToSet(q) <=> \E j \in 1 .. Len(q) : q[j] = x
      /\ \A x : x \in Sessions!ToSet(r) <=> \E j \in 1 .. Len(r) : r[j] = x
  BY <1>1, SetOfMembers, Zenon
<1>4. Distinct(r)
  BY <1>1, <1>2, <1>3 DEF Distinct
<1>5. Sessions!ToSet(r) = Sessions!ToSet(q) \cup {e}
  BY <1>1, <1>2, <1>3
<1>6. q # <<>> => Head(r) = Head(q)
  <2>1. q # <<>> => Head(q) = q[1] /\ 1 \in 1 .. Len(q)
    BY QueueFacts
  <2>2. Head(r) = r[1]
    BY <1>1, <1>2, QueueFacts
  <2> QED
    BY <1>1, <2>1, <2>2
<1> QED
  BY <1>1, <1>2, <1>4, <1>5, <1>6

\* A sequence of different members without its member i: the order of the
\* others stays.
LEMMA DropMember ==
    ASSUME NEW S, NEW q \in Seq(S), Distinct(q), NEW i \in 1 .. Len(q),
           NEW r, r = Sessions!RemoveAt(q, i)
    PROVE  /\ r \in Seq(S)
           /\ Sessions!ToSet(r) = Sessions!ToSet(q) \ {q[i]}
           /\ Distinct(r)
           /\ q # <<>> /\ i # 1 => r # <<>> /\ Head(r) = Head(q)
<1>1. /\ r \in Seq(S) /\ Len(r) = Len(q) - 1
      /\ \A j \in 1 .. Len(q) - 1 : r[j] = IF j < i THEN q[j] ELSE q[j + 1]
  BY RemoveOne
<1>2. Len(q) \in Nat
  BY QueueFacts
<1>3. /\ \A x : x \in Sessions!ToSet(q) <=> \E j \in 1 .. Len(q) : q[j] = x
      /\ \A x : x \in Sessions!ToSet(r) <=> \E j \in 1 .. Len(r) : r[j] = x
  BY <1>1, SetOfMembers, Zenon
<1>4. Distinct(r)
  BY <1>1, <1>2 DEF Distinct
<1>5. \A j \in 1 .. Len(r) : r[j] \in Sessions!ToSet(q) /\ r[j] # q[i]
  BY <1>1, <1>2, <1>3 DEF Distinct
<1>6. ASSUME NEW j \in 1 .. Len(q), q[j] # q[i]
      PROVE  \E k \in 1 .. Len(r) : r[k] = q[j]
  <2>1. CASE j < i
    <3>1. j \in 1 .. Len(r) /\ r[j] = q[j]
      BY <1>1, <1>2, <2>1
    <3> QED
      BY <3>1
  <2>2. CASE j > i
    <3>1. j - 1 \in 1 .. Len(r) /\ r[j - 1] = q[(j - 1) + 1] /\ (j - 1) + 1 = j
      BY <1>1, <1>2, <2>2
    <3> QED
      BY <3>1
  <2> QED
    BY <1>2, <1>6, <2>1, <2>2
<1>7. Sessions!ToSet(r) = Sessions!ToSet(q) \ {q[i]}
  BY <1>3, <1>5, <1>6
<1>8. ASSUME q # <<>>, i # 1
      PROVE  r # <<>> /\ Head(r) = Head(q)
  <2>1. Head(q) = q[1] /\ 1 \in 1 .. Len(q) - 1 /\ 1 < i
    BY <1>2, <1>8, QueueFacts
  <2>2. r # <<>> /\ Head(r) = r[1]
    BY <1>1, <1>2, <2>1, QueueFacts
  <2> QED
    BY <1>1, <2>1, <2>2
<1> QED
  BY <1>1, <1>4, <1>7, <1>8

\* A thread joins the queue, at its end.
LEMMA SessionJoins ==
    ASSUME Sessions!TypeOK, Sessions!WaitsOnce, NEW t \in Threads, at[t] # "waiting",
           waiting' = Append(waiting, t), at' = [at EXCEPT ![t] = "waiting"]
    PROVE  /\ waiting' \in Seq(Threads)
           /\ Sessions!ToSet(waiting)' = {u \in Threads : at[u] = "waiting"}'
           /\ Sessions!WaitsOnce'
           /\ waiting # <<>> => waiting' # <<>> /\ Head(waiting') = Head(waiting)
<1>1. Distinct(waiting) /\ t \notin Sessions!ToSet(waiting) /\ waiting \in Seq(Threads)
  BY DEF Distinct, Sessions!WaitsOnce, Sessions!TypeOK
<1>2. /\ waiting' \in Seq(Threads) /\ waiting' # <<>>
      /\ Sessions!ToSet(waiting') = Sessions!ToSet(waiting) \cup {t}
      /\ Distinct(waiting')
      /\ waiting # <<>> => Head(waiting') = Head(waiting)
  <2>1. \E r \in Seq(Threads) :
           /\ waiting' = r /\ Len(r) = Len(waiting) + 1 /\ r[Len(waiting) + 1] = t
           /\ \A j \in 1 .. Len(waiting) : r[j] = waiting[j]
    BY <1>1, AppendProperties
  <2>2. PICK r \in Seq(Threads) :
           /\ waiting' = r /\ Len(r) = Len(waiting) + 1 /\ r[Len(waiting) + 1] = t
           /\ \A j \in 1 .. Len(waiting) : r[j] = waiting[j]
    BY <2>1
  <2>3. /\ r # <<>> /\ Sessions!ToSet(r) = Sessions!ToSet(waiting) \cup {t} /\ Distinct(r)
        /\ waiting # <<>> => Head(r) = Head(waiting)
    BY <1>1, <2>2, AddMember
  <2> QED
    BY <2>2, <2>3
<1>3. Sessions!ToSet(waiting)' = Sessions!ToSet(waiting') /\ Sessions!WaitsOnce'
  BY <1>2 DEF Sessions!ToSet, Distinct, Sessions!WaitsOnce
<1>4. {u \in Threads : at[u] = "waiting"}' = {u \in Threads : at[u] = "waiting"} \cup {t}
  BY DEF Sessions!TypeOK
<1> QED
  BY <1>2, <1>3, <1>4 DEF Sessions!TypeOK

\* A thread leaves the queue, from the place i at which it waits.
LEMMA SessionLeaves ==
    ASSUME Sessions!TypeOK, Sessions!WaitsOnce, NEW t \in Threads,
           NEW i \in 1 .. Len(waiting), waiting[i] = t,
           waiting' = Sessions!RemoveAt(waiting, i),
           NEW p \in {"outside", "map"}, at' = [at EXCEPT ![t] = p]
    PROVE  /\ waiting' \in Seq(Threads)
           /\ Sessions!ToSet(waiting)' = {u \in Threads : at[u] = "waiting"}'
           /\ Sessions!WaitsOnce'
           /\ waiting # <<>> /\ i # 1 => waiting' # <<>> /\ Head(waiting') = Head(waiting)
<1>1. Distinct(waiting) /\ waiting \in Seq(Threads)
  BY DEF Distinct, Sessions!WaitsOnce, Sessions!TypeOK
<1>2. /\ waiting' \in Seq(Threads)
      /\ Sessions!ToSet(waiting') = Sessions!ToSet(waiting) \ {t}
      /\ Distinct(waiting')
      /\ waiting # <<>> /\ i # 1 => waiting' # <<>> /\ Head(waiting') = Head(waiting)
  BY <1>1, DropMember
<1>3. Sessions!ToSet(waiting)' = Sessions!ToSet(waiting') /\ Sessions!WaitsOnce'
  BY <1>2 DEF Sessions!ToSet, Distinct, Sessions!WaitsOnce
<1>4. {u \in Threads : at[u] = "waiting"}' = {u \in Threads : at[u] = "waiting"} \ {t}
  BY DEF Sessions!TypeOK
<1> QED
  BY <1>2, <1>3, <1>4 DEF Sessions!TypeOK

\* The first leaves.
LEMMA FirstIsOut ==
    ASSUME Sessions!TypeOK, NEW t \in Threads, at[t] = "waiting", t = Head(waiting)
    PROVE  /\ Tail(waiting) = Sessions!RemoveAt(waiting, 1)
           /\ 1 \in 1 .. Len(waiting) /\ waiting[1] = t
<1>1. waiting \in Seq(Threads) /\ waiting # <<>>
  <2>1. t \in Sessions!ToSet(waiting)
    BY DEF Sessions!TypeOK
  <2>2. waiting # <<>>
    BY <2>1, EmptySeq, SetOfMembers DEF Sessions!TypeOK
  <2> QED
    BY <2>2 DEF Sessions!TypeOK
<1>2. Len(waiting) \in Nat /\ 1 \in 1 .. Len(waiting) /\ waiting[1] = t
  BY <1>1, QueueFacts
<1>3. Tail(waiting) = SubSeq(waiting, 2, Len(waiting)) /\ Tail(waiting) \in Seq(Threads)
  BY <1>1, TailIsSubSeq, HeadTailProperties
<1>4. SubSeq(waiting, 1, 1 - 1) = <<>> /\ 1 + 1 = 2
  BY SubSeqEmpty
<1>5. <<>> \o Tail(waiting) = Tail(waiting)
  BY <1>3, ConcatEmptySeq
<1> QED
  BY <1>2, <1>3, <1>4, <1>5 DEF Sessions!RemoveAt

-----------------------------------------------------------------------------
(* One lemma per action *)

LEMMA SessionInitIInv == Sessions!Init => Sessions!IInv
<1> SUFFICES ASSUME Sessions!Init PROVE Sessions!IInv
  OBVIOUS
<1> USE SessionsAssumption DEF Sessions!CallsAssumption, Sessions!Init
<1>1. waiting \in Seq(Threads) /\ Len(waiting) = 0 /\ Sessions!ToSet(waiting) = {}
  BY EmptySeq DEF Sessions!ToSet
<1>2. Sessions!TypeOK
  BY <1>1 DEF Sessions!TypeOK, Sessions!Methods, Sessions!Writes
<1>3. Sessions!WaitsOnce
  BY <1>1 DEF Sessions!WaitsOnce
<1> QED
  BY <1>2, <1>3
     DEF Sessions!IInv, Sessions!WriterInv, Sessions!ReaderInv, Sessions!ReadsInv,
         Sessions!InMap

LEMMA CallIInv ==
    ASSUME Sessions!IInv, NEW t \in Threads, NEW m \in Sessions!Methods, Sessions!Call(t, m)
    PROVE  Sessions!IInv'
<1> USE SessionsAssumption DEF Sessions!CallsAssumption, Sessions!IInv, Sessions!Call, Sessions!Move
<1>1. Sessions!TypeOK'
  BY DEF Sessions!TypeOK
<1>2. Sessions!WaitsOnce'
  BY DEF Sessions!WaitsOnce
<1>3. Sessions!InMap' = Sessions!InMap /\ t \notin Sessions!InMap
  BY DEF Sessions!InMap, Sessions!TypeOK
<1>4. Sessions!WriterInv' /\ Sessions!ReaderInv'
  BY <1>3
     DEF Sessions!WriterInv, Sessions!ReaderInv, Sessions!Writing, Sessions!TypeOK,
         Sessions!InMap
<1>5. Sessions!ReadsInv'
  BY DEF Sessions!ReadsInv, Sessions!TypeOK
<1> QED
  BY <1>1, <1>2, <1>4, <1>5

\* What taking the lock means for the invariant, from the queue or not.
LEMMA TakeInv ==
    ASSUME Sessions!IInv, NEW t \in Threads, at[t] \in {"entering", "waiting"}, Sessions!Take(t),
           at' = [at EXCEPT ![t] = "map"], UNCHANGED <<method, callsMade>>
    PROVE  /\ Sessions!WriterInv' /\ Sessions!ReaderInv' /\ Sessions!ReadsInv'
           /\ reads' \in [Threads -> 0 .. Calls] /\ writer' \subseteq Threads
<1> USE SessionsAssumption DEF Sessions!CallsAssumption, Sessions!IInv
<1>1. Sessions!InMap' = Sessions!InMap \cup {t} /\ t \notin Sessions!InMap
  BY DEF Sessions!InMap, Sessions!TypeOK
<1>2. CASE Sessions!Writing(t)
  <2>1. writer' = {t} /\ reads' = reads /\ \A u \in Threads : reads[u] = 0
    BY <1>2 DEF Sessions!Take, Sessions!Free
  <2>2. Sessions!InMap = {}
    BY <1>2, <2>1
       DEF Sessions!Take, Sessions!Free, Sessions!WriterInv, Sessions!ReaderInv,
           Sessions!InMap, Sessions!TypeOK
  <2>3. Sessions!WriterInv'
    BY <1>1, <1>2, <2>1, <2>2 DEF Sessions!WriterInv, Sessions!Writing
  <2>4. Sessions!ReaderInv'
    BY <1>1, <1>2, <2>2 DEF Sessions!ReaderInv, Sessions!Writing
  <2> QED
    BY <2>1, <2>3, <2>4 DEF Sessions!ReadsInv, Sessions!TypeOK
<1>3. CASE ~Sessions!Writing(t)
  <2>1. writer = {} /\ writer' = writer /\ reads' = [reads EXCEPT ![t] = @ + 1]
    BY <1>3 DEF Sessions!Take, Sessions!Free
  <2>2. reads[t] < callsMade /\ reads[t] \in Nat /\ reads'[t] \in 0 .. Calls
    BY <2>1 DEF Sessions!ReadsInv, Sessions!TypeOK
  <2>3. reads' \in [Threads -> 0 .. Calls]
    BY <2>1, <2>2 DEF Sessions!TypeOK
  <2>4. Sessions!ReadsInv'
    BY <2>1, <2>2 DEF Sessions!ReadsInv, Sessions!TypeOK
  <2>5. Sessions!ReaderInv'
    BY <1>1, <2>1, <2>2 DEF Sessions!ReaderInv, Sessions!Writing, Sessions!TypeOK, Sessions!InMap
  <2>6. Sessions!WriterInv'
    BY <1>1, <1>3, <2>1 DEF Sessions!WriterInv, Sessions!Writing
  <2> QED
    BY <2>1, <2>3, <2>4, <2>5, <2>6
<1> QED
  BY <1>2, <1>3

LEMMA EnterIInv ==
    ASSUME Sessions!IInv, NEW t \in Threads, Sessions!Enter(t)
    PROVE  Sessions!IInv'
<1> USE DEF Sessions!Enter, Sessions!Move
<1>1. /\ Sessions!WriterInv' /\ Sessions!ReaderInv' /\ Sessions!ReadsInv'
      /\ reads' \in [Threads -> 0 .. Calls] /\ writer' \subseteq Threads
  BY TakeInv
<1>2. Sessions!TypeOK'
  <2>1. {u \in Threads : at[u] = "waiting"}' = {u \in Threads : at[u] = "waiting"}
    BY DEF Sessions!IInv, Sessions!TypeOK
  <2> QED
    BY <1>1, <2>1 DEF Sessions!IInv, Sessions!TypeOK, Sessions!ToSet
<1>3. Sessions!WaitsOnce'
  BY DEF Sessions!IInv, Sessions!WaitsOnce
<1> QED
  BY <1>1, <1>2, <1>3 DEF Sessions!IInv

LEMMA WaitIInv ==
    ASSUME Sessions!IInv, NEW t \in Threads, Sessions!Wait(t)
    PROVE  Sessions!IInv'
<1> USE DEF Sessions!Wait, Sessions!Move
<1>1. /\ waiting' \in Seq(Threads)
      /\ Sessions!ToSet(waiting)' = {u \in Threads : at[u] = "waiting"}'
      /\ Sessions!WaitsOnce'
  BY SessionJoins DEF Sessions!IInv
<1>2. Sessions!TypeOK'
  BY <1>1 DEF Sessions!IInv, Sessions!TypeOK
<1>3. Sessions!InMap' = Sessions!InMap
  BY DEF Sessions!IInv, Sessions!TypeOK, Sessions!InMap
<1>4. Sessions!WriterInv' /\ Sessions!ReaderInv'
  BY <1>3 DEF Sessions!IInv, Sessions!WriterInv, Sessions!ReaderInv, Sessions!Writing
<1>5. Sessions!ReadsInv'
  BY DEF Sessions!IInv, Sessions!TypeOK, Sessions!ReadsInv
<1> QED
  BY <1>1, <1>2, <1>4, <1>5 DEF Sessions!IInv

LEMMA EnterFromQueueIInv ==
    ASSUME Sessions!IInv, NEW t \in Threads, Sessions!EnterFromQueue(t)
    PROVE  Sessions!IInv'
<1> USE DEF Sessions!EnterFromQueue, Sessions!Move
<1>1. /\ Sessions!WriterInv' /\ Sessions!ReaderInv' /\ Sessions!ReadsInv'
      /\ reads' \in [Threads -> 0 .. Calls] /\ writer' \subseteq Threads
  BY TakeInv
<1>2. /\ waiting' = Sessions!RemoveAt(waiting, 1)
      /\ 1 \in 1 .. Len(waiting) /\ waiting[1] = t
  BY FirstIsOut DEF Sessions!IInv
<1>3. /\ waiting' \in Seq(Threads)
      /\ Sessions!ToSet(waiting)' = {u \in Threads : at[u] = "waiting"}'
      /\ Sessions!WaitsOnce'
  BY <1>2, SessionLeaves DEF Sessions!IInv
<1>4. Sessions!TypeOK'
  BY <1>1, <1>3 DEF Sessions!IInv, Sessions!TypeOK
<1> QED
  BY <1>1, <1>3, <1>4 DEF Sessions!IInv

LEMMA TimeOutIInv ==
    ASSUME Sessions!IInv, NEW t \in Threads, Sessions!TimeOut(t)
    PROVE  Sessions!IInv'
<1> USE DEF Sessions!TimeOut, Sessions!Move
<1>1. PICK i \in 1 .. Len(waiting) : waiting[i] = t /\ waiting' = Sessions!RemoveAt(waiting, i)
  BY DEF Sessions!LeaveQueue
<1>2. /\ waiting' \in Seq(Threads)
      /\ Sessions!ToSet(waiting)' = {u \in Threads : at[u] = "waiting"}'
      /\ Sessions!WaitsOnce'
  BY <1>1, SessionLeaves DEF Sessions!IInv
<1>3. Sessions!TypeOK'
  BY <1>2 DEF Sessions!IInv, Sessions!TypeOK
<1>4. Sessions!InMap' = Sessions!InMap
  BY DEF Sessions!IInv, Sessions!TypeOK, Sessions!InMap
<1>5. Sessions!WriterInv' /\ Sessions!ReaderInv'
  BY <1>4 DEF Sessions!IInv, Sessions!WriterInv, Sessions!ReaderInv, Sessions!Writing
<1>6. Sessions!ReadsInv'
  BY DEF Sessions!IInv, Sessions!TypeOK, Sessions!ReadsInv
<1> QED
  BY <1>2, <1>3, <1>5, <1>6 DEF Sessions!IInv

LEMMA LeaveIInv ==
    ASSUME Sessions!IInv, NEW t \in Threads, Sessions!Leave(t)
    PROVE  Sessions!IInv'
<1> USE SessionsAssumption DEF Sessions!CallsAssumption, Sessions!IInv, Sessions!Leave,
      Sessions!Move
<1>1. Sessions!InMap' = Sessions!InMap \ {t} /\ t \in Sessions!InMap
  BY DEF Sessions!InMap, Sessions!TypeOK
<1>2. method[t] = "get" => ~Sessions!Writing(t) /\ reads[t] > 0
  BY <1>1 DEF Sessions!ReaderInv, Sessions!Writing, Sessions!Writes
<1>3. reads' \in [Threads -> 0 .. Calls] /\ \A u \in Threads : reads'[u] <= reads[u]
  <2>1. reads \in [Threads -> 0 .. Calls] /\ reads[t] \in 0 .. Calls
    BY DEF Sessions!TypeOK
  <2>2. (IF method[t] = "get" THEN reads[t] - 1 ELSE reads[t]) \in 0 .. reads[t]
    BY <1>2, <2>1
  <2> QED
    BY <2>1, <2>2
<1>4. Sessions!TypeOK'
  <2>1. {u \in Threads : at[u] = "waiting"}' = {u \in Threads : at[u] = "waiting"}
    BY DEF Sessions!TypeOK
  <2> QED
    BY <1>3, <2>1 DEF Sessions!TypeOK, Sessions!ToSet
<1>5. Sessions!WaitsOnce'
  BY DEF Sessions!WaitsOnce
<1>6. Sessions!WriterInv'
  <2>1. writer' = {u \in Sessions!InMap : Sessions!Writing(u)}'
    BY <1>1 DEF Sessions!WriterInv, Sessions!Writing
  <2>2. ASSUME NEW u \in writer'
        PROVE  Sessions!InMap' = {u} /\ \A v \in Threads : reads'[v] = 0
    BY <1>1, <2>2 DEF Sessions!WriterInv
  <2> QED
    BY <2>1, <2>2 DEF Sessions!WriterInv
<1>7. Sessions!ReaderInv'
  BY <1>1 DEF Sessions!ReaderInv, Sessions!Writing, Sessions!InMap, Sessions!TypeOK
<1>8. Sessions!ReadsInv'
  BY <1>3 DEF Sessions!ReadsInv, Sessions!TypeOK
<1> QED
  BY <1>4, <1>5, <1>6, <1>7, <1>8

LEMMA SessionNextIInv ==
    ASSUME Sessions!IInv, [Sessions!Next]_(Sessions!vars)
    PROVE  Sessions!IInv'
<1>1. CASE UNCHANGED Sessions!vars
  BY <1>1
     DEF Sessions!vars, Sessions!IInv, Sessions!TypeOK, Sessions!WaitsOnce, Sessions!WriterInv,
         Sessions!ReaderInv, Sessions!ReadsInv, Sessions!InMap, Sessions!Writing,
             Sessions!ToSet
<1>2. CASE Sessions!Next
  BY <1>2, CallIInv, EnterIInv, WaitIInv, EnterFromQueueIInv, TimeOutIInv, LeaveIInv
     DEF Sessions!Next, Sessions!Step
<1> QED
  BY <1>1, <1>2

-----------------------------------------------------------------------------

LEMMA SessionInvariant == Sessions!Spec => []Sessions!IInv
<1>1. Sessions!Init => Sessions!IInv
  BY SessionInitIInv
<1>2. Sessions!IInv /\ [Sessions!Next]_(Sessions!vars) => Sessions!IInv'
  BY SessionNextIInv
<1> QED
  BY <1>1, <1>2, PTL DEF Sessions!Spec

LEMMA GuardedByIInv == Sessions!IInv => Sessions!MapIsGuarded
<1> SUFFICES ASSUME Sessions!IInv, NEW t \in Sessions!InMap, Sessions!Writing(t)
             PROVE  Sessions!InMap = {t} /\ Sessions!Leaked = {}
  BY DEF Sessions!MapIsGuarded
<1>1. Sessions!InMap = {t} /\ \A u \in Threads : reads[u] = 0
  BY DEF Sessions!IInv, Sessions!WriterInv
<1> QED
  BY <1>1 DEF Sessions!Leaked

-----------------------------------------------------------------------------
(* Locks that are left behind *)

\* The lock that a thread has for its present call does not count as left behind.
LEMMA LeakedBy ==
    ASSUME NEW t \in Threads
    PROVE  t \in Sessions!Leaked <=>
             reads[t] > (IF at[t] = "map" /\ method[t] \notin Sessions!Writes THEN 1 ELSE 0)
BY DEF Sessions!Leaked, Sessions!Writing

\* What was left behind stays, and only a timed get() leaves more.
LEMMA LeakStep ==
    ASSUME Sessions!IInv, [Sessions!Next]_(Sessions!vars)
    PROVE  /\ Sessions!Leaked \subseteq Sessions!Leaked'
           /\ \A t \in Threads : t \in Sessions!Leaked' \ Sessions!Leaked => method[t] = "timedGet"
<1> DEFINE Own(p, m) == IF p = "map" /\ m \notin Sessions!Writes THEN 1 ELSE 0
<1> SUFFICES ASSUME NEW u \in Threads
             PROVE  /\ reads[u] > Own(at[u], method[u]) => reads'[u] > Own(at'[u], method'[u])
                    /\ reads'[u] > Own(at'[u], method'[u]) /\ ~(reads[u] > Own(at[u], method[u]))
                       => method[u] = "timedGet"
  BY DEF Sessions!Leaked, Sessions!Writing
<1> USE DEF Sessions!Move
<1>t. /\ at \in [Threads -> {"outside", "entering", "waiting", "map"}]
      /\ method \in [Threads -> Sessions!Methods] /\ reads \in [Threads -> Int]
      /\ \A t \in Threads : reads[t] >= 0
  BY DEF Sessions!IInv, Sessions!TypeOK
<1>1. ASSUME NEW t \in Threads, at[t] \in {"entering", "waiting"}, Sessions!Take(t),
             at' = [at EXCEPT ![t] = "map"], method' = method
      PROVE  /\ reads[u] > Own(at[u], method[u]) => reads'[u] > Own(at'[u], method'[u])
             /\ reads'[u] > Own(at'[u], method'[u]) => reads[u] > Own(at[u], method[u])
  <2>1. CASE Sessions!Writing(t)
    <3>1. reads' = reads /\ reads[u] = 0
      BY <1>1, <2>1 DEF Sessions!Take, Sessions!Free
    <3> QED
      BY <3>1
  <2>2. CASE ~Sessions!Writing(t)
    <3>1. reads' = [reads EXCEPT ![t] = @ + 1] /\ method[t] \notin Sessions!Writes
      BY <1>1, <2>2 DEF Sessions!Take, Sessions!Writing
    <3>2. CASE u = t
      BY <1>1, <1>t, <3>1, <3>2
    <3>3. CASE u # t
      BY <1>1, <1>t, <3>1, <3>3
    <3> QED
      BY <3>2, <3>3
  <2> QED
    BY <2>1, <2>2
<1>2. ASSUME NEW t \in Threads, Sessions!Enter(t) \/ Sessions!EnterFromQueue(t)
      PROVE  /\ reads[u] > Own(at[u], method[u]) => reads'[u] > Own(at'[u], method'[u])
             /\ reads'[u] > Own(at'[u], method'[u]) => reads[u] > Own(at[u], method[u])
  <2> HIDE DEF Own
  <2> QED
    BY <1>1, <1>2 DEF Sessions!Enter, Sessions!EnterFromQueue
<1>3. ASSUME NEW t \in Threads, NEW m \in Sessions!Methods, Sessions!Call(t, m)
             \/ Sessions!Wait(t) \/ Sessions!TimeOut(t)
      PROVE  Own(at'[u], method'[u]) = Own(at[u], method[u]) /\ reads' = reads
  BY <1>3, <1>t DEF Sessions!Call, Sessions!Wait, Sessions!TimeOut
<1>4. ASSUME NEW t \in Threads, Sessions!Leave(t)
      PROVE  /\ reads[u] > Own(at[u], method[u]) => reads'[u] > Own(at'[u], method'[u])
             /\ reads'[u] > Own(at'[u], method'[u]) /\ ~(reads[u] > Own(at[u], method[u]))
                => method[u] = "timedGet"
  <2>1. CASE u # t
    BY <1>4, <1>t, <2>1 DEF Sessions!Leave
  <2>2. CASE u = t
    <3>1. at'[u] = "outside" /\ at[u] = "map" /\ method' = method
      BY <1>4, <1>t, <2>2 DEF Sessions!Leave
    <3>2. method[u] \in Sessions!Writes => reads[u] = 0 /\ reads'[u] = 0
      BY <1>4, <1>t, <2>2, <3>1
         DEF Sessions!Leave, Sessions!IInv, Sessions!WriterInv, Sessions!InMap,
             Sessions!Writing, Sessions!Writes
    <3>3. method[u] = "get" => reads'[u] = reads[u] - 1 /\ method[u] \notin Sessions!Writes
      BY <1>4, <1>t, <2>2 DEF Sessions!Leave, Sessions!Writes
    <3>4. method[u] # "get" => reads'[u] = reads[u]
      BY <1>4, <1>t, <2>2 DEF Sessions!Leave
    <3>5. method[u] \in Sessions!Writes \/ method[u] = "get"
            \/ (method[u] = "timedGet" /\ method[u] \notin Sessions!Writes)
      BY <1>t DEF Sessions!Methods, Sessions!Writes
    <3> QED
      BY <1>t, <3>1, <3>2, <3>3, <3>4, <3>5
  <2> QED
    BY <2>1, <2>2
<1>5. CASE UNCHANGED Sessions!vars
  BY <1>5 DEF Sessions!vars
<1> HIDE DEF Own
<1> QED
  BY <1>2, <1>3, <1>4, <1>5 DEF Sessions!Next, Sessions!Step, Sessions!Methods

\* A put() that waits beside a lock left behind waits on: the writer that takes
\* the lock finds no read lock.
LEMMA BlockedStep ==
    ASSUME Sessions!IInv, [Sessions!Next]_(Sessions!vars), NEW t \in Threads, Sessions!Blocked(t)
    PROVE  Sessions!Blocked(t)'
<1>1. PICK l \in Threads : l \in Sessions!Leaked /\ reads[l] > 0
  BY DEF Sessions!Blocked, Sessions!Leaked, Sessions!IInv, Sessions!TypeOK
<1>2. Sessions!Leaked' # {}
  BY <1>1, LeakStep
<1>3. at[t] = "waiting" /\ method[t] = "put" /\ Sessions!Writing(t)
  BY DEF Sessions!Blocked, Sessions!Writing, Sessions!Writes
<1>4. ~Sessions!Take(t)
  BY <1>1, <1>3 DEF Sessions!Take, Sessions!Free
<1>5. at'[t] = "waiting" /\ method'[t] = "put"
  <2>1. CASE UNCHANGED Sessions!vars
    BY <1>3, <2>1 DEF Sessions!vars
  <2>2. ASSUME NEW u \in Threads, NEW m \in Sessions!Methods, Sessions!Call(u, m)
               \/ Sessions!Enter(u) \/ Sessions!Wait(u) \/ Sessions!Leave(u)
        PROVE  at'[t] = "waiting" /\ method'[t] = "put"
    BY <1>3, <2>2
       DEF Sessions!Call, Sessions!Enter, Sessions!Wait, Sessions!Leave, Sessions!Move,
           Sessions!IInv, Sessions!TypeOK
  <2>3. ASSUME NEW u \in Threads, Sessions!EnterFromQueue(u) \/ Sessions!TimeOut(u)
        PROVE  at'[t] = "waiting" /\ method'[t] = "put"
    BY <1>3, <1>4, <2>3
       DEF Sessions!EnterFromQueue, Sessions!TimeOut, Sessions!Timed, Sessions!Move,
           Sessions!IInv, Sessions!TypeOK
  <2> QED
    BY <2>1, <2>2, <2>3 DEF Sessions!Next, Sessions!Step, Sessions!Methods
<1> QED
  BY <1>2, <1>5 DEF Sessions!Blocked

\* With such a put() at the front nobody leaves the queue before it, and nobody
\* comes in past it but by a read lock left behind.
LEMMA ClosedStep ==
    ASSUME Sessions!IInv, [Sessions!Next]_(Sessions!vars), Sessions!Closed
    PROVE  Sessions!Closed' /\ \A t \in Threads : at'[t] = "map" /\ at[t] # "map" =>
             t \in Sessions!Leaked
<1>0. PICK h \in Threads : h = Head(waiting)
  BY QueueFacts DEF Sessions!Closed, Sessions!IInv, Sessions!TypeOK
<1>1. /\ waiting \in Seq(Threads) /\ waiting # <<>> /\ h = waiting[1]
      /\ Len(waiting) \in Nat
  BY <1>0, QueueFacts DEF Sessions!Closed, Sessions!IInv, Sessions!TypeOK
<1>2. Sessions!Blocked(h) /\ at[h] = "waiting" /\ method[h] = "put" /\ Sessions!Writing(h)
  BY <1>0 DEF Sessions!Closed, Sessions!Blocked, Sessions!Writing, Sessions!Writes
<1>3. Sessions!Blocked(h)'
  BY <1>2, BlockedStep
<1>4. PICK l \in Threads : reads[l] > 0
  BY <1>2 DEF Sessions!Blocked, Sessions!Leaked, Sessions!IInv, Sessions!TypeOK
<1>5. waiting' # <<>> /\ Head(waiting') = h
  <2>1. CASE UNCHANGED Sessions!vars
    BY <1>0, <1>1, <2>1 DEF Sessions!vars
  <2>2. ASSUME NEW u \in Threads, NEW m \in Sessions!Methods, Sessions!Call(u, m)
               \/ Sessions!Enter(u) \/ Sessions!Leave(u)
        PROVE  waiting' = waiting
    BY <2>2 DEF Sessions!Call, Sessions!Enter, Sessions!Leave
  <2>3. ASSUME NEW u \in Threads, Sessions!Wait(u)
        PROVE  waiting' # <<>> /\ Head(waiting') = h
    <3>1. at[u] # "waiting" /\ waiting' = Append(waiting, u) /\ at' = [at EXCEPT ![u] = "waiting"]
      BY <2>3 DEF Sessions!Wait, Sessions!Move
    <3> QED
      BY <1>0, <1>1, <3>1, SessionJoins DEF Sessions!IInv
  <2>4. ASSUME NEW u \in Threads, Sessions!EnterFromQueue(u)
        PROVE  FALSE
    BY <1>0, <1>2, <1>4, <2>4 DEF Sessions!EnterFromQueue, Sessions!Take, Sessions!Free
  <2>5. ASSUME NEW u \in Threads, Sessions!TimeOut(u)
        PROVE  waiting' # <<>> /\ Head(waiting') = h
    <3>1. PICK i \in 1 .. Len(waiting) : waiting[i] = u /\ waiting' = Sessions!RemoveAt(waiting, i)
      BY <2>5 DEF Sessions!TimeOut, Sessions!LeaveQueue
    <3>2. i # 1 /\ at' = [at EXCEPT ![u] = "outside"]
      BY <1>1, <1>2, <2>5, <3>1 DEF Sessions!TimeOut, Sessions!Timed, Sessions!Move
    <3> QED
      BY <1>1, <3>1, <3>2, <1>0, SessionLeaves DEF Sessions!IInv
  <2> QED
    BY <1>0, <1>1, <2>1, <2>2, <2>3, <2>4, <2>5 DEF Sessions!Next, Sessions!Step, Sessions!Methods
<1>6. Sessions!Closed'
  BY <1>3, <1>5 DEF Sessions!Closed
<1>7. ASSUME NEW t \in Threads, at'[t] = "map", at[t] # "map"
      PROVE  t \in Sessions!Leaked
  <2>1. Sessions!Enter(t) \/ Sessions!EnterFromQueue(t)
    BY <1>7
       DEF Sessions!Next, Sessions!Step, Sessions!Call, Sessions!Enter, Sessions!Wait,
           Sessions!EnterFromQueue, Sessions!TimeOut, Sessions!Leave, Sessions!Move,
           Sessions!vars,
                Sessions!IInv, Sessions!TypeOK
  <2>2. Sessions!Enter(t) /\ ~Sessions!Writing(t)
    BY <1>0, <1>2, <1>4, <2>1
       DEF Sessions!Enter, Sessions!EnterFromQueue, Sessions!Take, Sessions!Free
  <2>3. reads[t] # 0 /\ at[t] = "entering"
    BY <1>0, <1>1, <1>2, <2>2 DEF Sessions!Enter, Sessions!Behind
  <2>4. reads[t] > 0
    BY <2>3 DEF Sessions!IInv, Sessions!TypeOK
  <2> QED
    BY <2>3, <2>4 DEF Sessions!Leaked
<1> QED
  BY <1>6, <1>7

\* Only a timed get() leaves a lock behind.
THEOREM TimedGetLeaks == Sessions!Spec => Sessions!OnlyTimedGetLeaks
<1>1. Sessions!IInv /\ [Sessions!Next]_(Sessions!vars) =>
        [\A t \in Threads : t \in Sessions!Leaked' \ Sessions!Leaked =>
        method[t] = "timedGet"]_(Sessions!vars)
  BY LeakStep
<1> QED
  BY <1>1, SessionInvariant, PTL DEF Sessions!Spec, Sessions!OnlyTimedGetLeaks

\* Once a lock was left behind, a put() without a time limit never returns.
THEOREM PutBlocked == Sessions!Spec => Sessions!BlockedForGood
<1>1. Sessions!IInv /\ [Sessions!Next]_(Sessions!vars) =>
        [\A t \in Threads : Sessions!Blocked(t) => Sessions!Blocked(t)']_(Sessions!vars)
  BY BlockedStep
<1> QED
  BY <1>1, SessionInvariant, PTL DEF Sessions!Spec, Sessions!BlockedForGood

\* With such a put() first in the queue no other thread comes into the map.
THEOREM SessionClosed == Sessions!Spec => Sessions!ClosedForGood
<1>1. Sessions!IInv /\ [Sessions!Next]_(Sessions!vars) =>
        [Sessions!Closed => Sessions!Closed' /\ \A t \in Threads : at'[t] = "map"
          /\ at[t] # "map" => t \in Sessions!Leaked]_(Sessions!vars)
  BY ClosedStep
<1> QED
  BY <1>1, SessionInvariant, PTL DEF Sessions!Spec, Sessions!ClosedForGood

-----------------------------------------------------------------------------
(* TestServer with its clients: every client is at one place, and a socket is *)
(* closed whichever way its task ends                                         *)

\* The set of the members, with their places.
LEMMA ServerSetOfMembers ==
    ASSUME NEW S, NEW q \in Seq(S)
    PROVE  \A e : e \in Server!ToSet(q) <=> \E i \in 1 .. Len(q) : q[i] = e
<1>1. DOMAIN q = 1 .. Len(q)
  OBVIOUS
<1> QED
  BY <1>1, Zenon DEF Server!ToSet


\* The clients in the queue of the pool, before and after a step.
LEMMA ServerAccepted ==
    ASSUME NEW S, NEW q \in Seq(S), NEW e \in S
    PROVE  Append(q, e) \in Seq(S) /\ Server!ToSet(Append(q, e)) = Server!ToSet(q) \cup {e}
<1>1. /\ Append(q, e) \in Seq(S) /\ Len(Append(q, e)) = Len(q) + 1
      /\ \A i \in 1 .. Len(q) : Append(q, e)[i] = q[i]
      /\ Append(q, e)[Len(q) + 1] = e
  BY AppendProperties
<1>2. Len(q) \in Nat /\ \A x : x \in Server!ToSet(q) <=> \E i \in 1 .. Len(q) : q[i] = x
  BY QueueFacts, ServerSetOfMembers
<1>3. PICK r \in Seq(S) : r = Append(q, e)
  BY <1>1
<1>4. \A x : x \in Server!ToSet(r) <=> \E i \in 1 .. Len(r) : r[i] = x
  BY ServerSetOfMembers
<1>5. Server!ToSet(r) = Server!ToSet(q) \cup {e}
  BY <1>1, <1>2, <1>3, <1>4
<1> QED
  BY <1>1, <1>3, <1>5

LEMMA ServerServed ==
    ASSUME NEW S, NEW q \in Seq(S), q # <<>>
    PROVE  Head(q) \in S /\ Tail(q) \in Seq(S)
             /\ Server!ToSet(q) = Server!ToSet(Tail(q)) \cup {Head(q)}
<1>1. /\ Len(q) \in Nat /\ 1 \in 1 .. Len(q) /\ Head(q) = q[1] /\ Head(q) \in S
      /\ Tail(q) \in Seq(S) /\ Len(Tail(q)) = Len(q) - 1
      /\ \A i \in 1 .. Len(q) - 1 : Tail(q)[i] = q[i + 1]
  BY QueueFacts
<1>2. PICK r \in Seq(S) : r = Tail(q)
  BY <1>1
<1>3. /\ \A x : x \in Server!ToSet(q) <=> \E i \in 1 .. Len(q) : q[i] = x
      /\ \A x : x \in Server!ToSet(r) <=> \E i \in 1 .. Len(r) : r[i] = x
  BY ServerSetOfMembers
<1>4. ASSUME NEW x \in Server!ToSet(q), x # Head(q)
      PROVE  x \in Server!ToSet(r)
  <2>1. PICK i \in 1 .. Len(q) : q[i] = x
    BY <1>3
  <2>2. i - 1 \in 1 .. Len(q) - 1 /\ (i - 1) + 1 = i
    BY <1>1, <1>4, <2>1
  <2>3. r[i - 1] = x /\ i - 1 \in 1 .. Len(r)
    BY <1>1, <1>2, <2>1, <2>2
  <2> QED
    BY <1>3, <2>3
<1>5. ASSUME NEW x \in Server!ToSet(r)
      PROVE  x \in Server!ToSet(q)
  <2>1. PICK i \in 1 .. Len(r) : r[i] = x
    BY <1>3
  <2>2. i + 1 \in 1 .. Len(q) /\ q[i + 1] = x
    BY <1>1, <1>2, <2>1
  <2> QED
    BY <1>3, <2>2
<1>6. Head(q) \in Server!ToSet(q)
  BY <1>1, <1>3
<1>7. Server!ToSet(q) = Server!ToSet(r) \cup {Head(q)}
  BY <1>4, <1>5, <1>6
<1> QED
  BY <1>1, <1>2, <1>7

LEMMA ServerInitIInv == Server!Init => Server!IInv
<1> SUFFICES ASSUME Server!Init PROVE Server!IInv
  OBVIOUS
<1>1. Server!TypeOK
  <2>1. tasks \in Seq(ServerClients)
    BY EmptySeq DEF Server!Init
  <2> QED
    BY <2>1 DEF Server!Init, Server!TypeOK
<1> QED
  BY <1>1
     DEF Server!Init, Server!IInv, Server!TaskInv, Server!EndsByFailure,
         Server!AnsweredUnlessFailed, Server!NoSocketLeft, Server!OnePlace, Server!OneTask

LEMMA ClientIInv ==
    ASSUME Server!IInv, NEW c \in ServerClients, Server!Client(c) \/ Server!Crash(c)
    PROVE  Server!IInv'
<1> USE DEF Server!IInv, Server!Client, Server!Connect, Server!SendRequest, Server!ReadAnswer,
      Server!Crash, Server!ClientTo, Server!acceptVars, Server!servletVars
<1>1. Server!TypeOK'
  <2>1. /\ client' \in [ServerClients ->
                {"new", "connected", "sent", "answered", "failed", "crashed"}]
        /\ request' \in [ServerClients -> {"nothing", "line", "end"}]
    BY DEF Server!TypeOK
  <2>2. accepting' \subseteq ServerClients
    BY DEF Server!TypeOK
  <2>3. UNCHANGED <<answer, listening, tasks, abandoned, worker, task, open, made, entered,
                    stranded, failures>>
    OBVIOUS
  <2> QED
    BY <2>1, <2>2, <2>3 DEF Server!TypeOK
<1>2. Server!TaskInv' /\ Server!EndsByFailure' /\ Server!NoSocketLeft'
  BY DEF Server!TaskInv, Server!EndsByFailure, Server!NoSocketLeft, Server!ToSet
<1>3. Server!AnsweredUnlessFailed'
  BY DEF Server!TypeOK, Server!AnsweredUnlessFailed, Server!EndsByFailure
<1>4. Server!OnePlace'
  BY DEF Server!TypeOK, Server!OnePlace
<1>5. Server!OneTask'
  BY DEF Server!OneTask
<1> QED
  BY <1>1, <1>2, <1>3, <1>4, <1>5

LEMMA AcceptIInv ==
    ASSUME Server!IInv, Server!Accept
    PROVE  Server!IInv'
<1> USE DEF Server!IInv, Server!Accept, Server!clientVars, Server!servletVars
<1>1. PICK c \in accepting : accepting' = accepting \ {c} /\ tasks' = Append(tasks, c)
             /\ open' = open \cup {c}
  OBVIOUS
<1>2. c \in ServerClients /\ tasks' \in Seq(ServerClients)
        /\ Server!ToSet(tasks)' = Server!ToSet(tasks) \cup {c}
  <2>1. c \in ServerClients /\ tasks \in Seq(ServerClients)
    BY DEF Server!TypeOK
  <2>2. tasks' \in Seq(ServerClients) /\ Server!ToSet(tasks') = Server!ToSet(tasks) \cup {c}
    BY <1>1, <2>1, ServerAccepted
  <2> QED
    BY <2>1, <2>2 DEF Server!ToSet
<1>3. Server!TypeOK'
  BY <1>1, <1>2 DEF Server!TypeOK
<1>4. Server!NoSocketLeft'
  BY <1>1, <1>2 DEF Server!NoSocketLeft
<1>5. Server!TaskInv' /\ Server!EndsByFailure' /\ Server!AnsweredUnlessFailed'
  BY DEF Server!TaskInv, Server!EndsByFailure, Server!AnsweredUnlessFailed
<1>6. Server!OnePlace'
  BY <1>1, <1>2 DEF Server!OnePlace
<1>7. Server!OneTask'
  <2>1. c \notin open /\ c \notin stranded
    BY DEF Server!OnePlace
  <2>2. /\ \A i \in 1 .. Len(tasks) : tasks[i] # c
        /\ \A w \in Workers : task[w] # c
    BY <1>2, <2>1, ServerAssumptions DEF Server!OneTask, Server!TaskInv, Server!NoneAssumption
  <2>3. Len(tasks) \in Nat /\ Len(tasks') = Len(tasks) + 1 /\ tasks'[Len(tasks) + 1] = c
          /\ \A i \in 1 .. Len(tasks) : tasks'[i] = tasks[i]
    BY <1>1, <1>2, AppendProperties DEF Server!TypeOK
  <2>4. listening'
    OBVIOUS
  <2>5. /\ \A i \in 1 .. Len(tasks') : tasks'[i] \in open' \ stranded'
        /\ \A i, j \in 1 .. Len(tasks') : tasks'[i] = tasks'[j] => i = j
    BY <1>1, <2>1, <2>2, <2>3 DEF Server!OneTask
  <2>6. ASSUME NEW w \in Workers, worker[w] # "idle"
        PROVE  /\ task[w] \in open' \ stranded'
               /\ \A i \in 1 .. Len(tasks') : tasks'[i] # task[w]
               /\ \A v \in Workers \ {w} : task[v] # task[w]
    BY <1>1, <2>2, <2>3, <2>6 DEF Server!OneTask
  <2> QED
    BY <2>4, <2>5, <2>6 DEF Server!OneTask
<1> QED
  BY <1>3, <1>4, <1>5, <1>6, <1>7

LEMMA AcceptFailsIInv ==
    ASSUME Server!IInv, Server!AcceptFails
    PROVE  Server!IInv'
<1> USE DEF Server!IInv, Server!AcceptFails, Server!clientVars, Server!servletVars
<1>1. failures' # {} /\ failures' \subseteq {"accept", "unseen", "null"}
  BY DEF Server!TypeOK
<1>2. Server!ToSet(tasks) \subseteq ServerClients /\ Server!ToSet(tasks)' = {}
        /\ tasks' \in Seq(ServerClients)
  <2>1. tasks \in Seq(ServerClients) /\ tasks' = <<>> /\ <<>> \in Seq(ServerClients)
    BY EmptySeq DEF Server!TypeOK
  <2>2. Server!ToSet(tasks) \subseteq ServerClients
    BY <2>1, ServerSetOfMembers, QueueFacts
  <2>3. Server!ToSet(tasks)' = {}
    BY <2>1 DEF Server!ToSet
  <2> QED
    BY <2>1, <2>2, <2>3
<1>3. Server!TypeOK'
  BY <1>1, <1>2 DEF Server!TypeOK, Server!Closed
<1>4. Server!TaskInv' /\ Server!EndsByFailure' /\ Server!AnsweredUnlessFailed'
  BY <1>1 DEF Server!TaskInv, Server!EndsByFailure, Server!AnsweredUnlessFailed
<1>5. Server!NoSocketLeft'
  BY <1>2 DEF Server!NoSocketLeft, Server!TaskInv
<1>6. Server!OnePlace'
  BY DEF Server!OnePlace, Server!Closed
<1>7. Server!OneTask'
  <2>1. tasks' = <<>> /\ Len(tasks') = 0
    OBVIOUS
  <2> QED
    BY <2>1 DEF Server!OneTask
<1> QED
  BY <1>3, <1>4, <1>5, <1>6, <1>7

LEMMA ExitIInv ==
    ASSUME Server!IInv, Server!Exit
    PROVE  Server!IInv'
<1> USE DEF Server!IInv, Server!Exit, Server!clientVars, Server!servletVars
<1>1. failures # {}
  BY DEF Server!EndsByFailure
<1>2. Server!TypeOK'
  BY DEF Server!TypeOK, Server!Closed
<1> QED
  BY <1>1, <1>2
     DEF Server!TaskInv, Server!EndsByFailure, Server!AnsweredUnlessFailed, Server!NoSocketLeft,
         Server!OnePlace, Server!OneTask, Server!Closed

\* What closes a socket that null has left takes it from nobody.
LEMMA CollectIInv ==
    ASSUME Server!IInv, Server!Collect
    PROVE  Server!IInv'
<1> USE DEF Server!IInv, Server!Collect, Server!clientVars, Server!acceptVars
<1>1. PICK c \in stranded : /\ stranded' = stranded \ {c} /\ open' = open \ {c}
                            /\ answer' = Server!Closed({c})
  OBVIOUS
<1>2. failures # {}
  BY DEF Server!EndsByFailure
<1>3. Server!TypeOK'
  BY <1>1 DEF Server!TypeOK, Server!Closed
<1>4. Server!TaskInv' /\ Server!EndsByFailure' /\ Server!AnsweredUnlessFailed'
  BY <1>2 DEF Server!TaskInv, Server!EndsByFailure, Server!AnsweredUnlessFailed
<1>5. Server!NoSocketLeft'
  BY <1>1 DEF Server!NoSocketLeft, Server!ToSet
<1>6. Server!OnePlace'
  BY <1>1 DEF Server!OnePlace, Server!Closed, Server!TypeOK
<1>7. Server!OneTask'
  BY <1>1 DEF Server!OneTask
<1> QED
  BY <1>3, <1>4, <1>5, <1>6, <1>7

LEMMA BeginIInv ==
    ASSUME Server!IInv, NEW w \in Workers, Server!Begin(w)
    PROVE  Server!IInv'
<1> USE DEF Server!IInv, Server!Begin, Server!clientVars, Server!servletVars, Server!WorkerTo
<1>1. /\ Head(tasks) \in ServerClients /\ tasks' \in Seq(ServerClients)
      /\ Server!ToSet(tasks) = Server!ToSet(tasks)' \cup {Head(tasks)}
  <2>1. tasks \in Seq(ServerClients) /\ tasks # <<>> /\ tasks' = Tail(tasks)
    BY DEF Server!TypeOK
  <2>2. Server!ToSet(tasks)' = Server!ToSet(Tail(tasks))
    BY <2>1 DEF Server!ToSet
  <2> QED
    BY <2>1, <2>2, ServerServed
<1>2. Server!TypeOK'
  BY <1>1 DEF Server!TypeOK
<1>3. Server!TaskInv'
  BY <1>1 DEF Server!TaskInv, Server!TypeOK
<1>4. Server!NoSocketLeft'
  <2>1. ASSUME NEW c \in open, c \notin abandoned, c \notin Server!ToSet(tasks)',
               c \notin stranded
        PROVE  \E v \in Workers : task'[v] = c
    <3>1. CASE c = Head(tasks)
      BY <3>1 DEF Server!TypeOK
    <3>2. CASE c # Head(tasks)
      <4>1. PICK v \in Workers : task[v] = c
        BY <1>1, <2>1, <3>2 DEF Server!NoSocketLeft
      <4>2. v # w
        BY <2>1, <4>1, ServerAssumptions DEF Server!TaskInv, Server!TypeOK, Server!NoneAssumption
      <4> QED
        BY <4>1, <4>2 DEF Server!TypeOK
    <3> QED
      BY <3>1, <3>2
  <2> QED
    BY <2>1 DEF Server!NoSocketLeft
<1>5. Server!EndsByFailure' /\ Server!AnsweredUnlessFailed'
  BY DEF Server!EndsByFailure, Server!AnsweredUnlessFailed
<1>6. Server!OnePlace'
  BY DEF Server!OnePlace
<1>7. Server!OneTask'
  <2>1. /\ Len(tasks) \in Nat /\ 1 \in 1 .. Len(tasks) /\ Head(tasks) = tasks[1]
        /\ Len(tasks') = Len(tasks) - 1
        /\ \A i \in 1 .. Len(tasks) - 1 : tasks'[i] = tasks[i + 1]
    BY QueueFacts DEF Server!TypeOK
  <2>2. /\ task' \in [Workers -> ServerClients \cup {None}] /\ task'[w] = tasks[1]
        /\ \A v \in Workers \ {w} : task'[v] = task[v] /\ worker'[v] = worker[v]
    BY <1>2, <2>1 DEF Server!TypeOK
  <2>3. \A i \in 1 .. Len(tasks') : i + 1 \in 1 .. Len(tasks) /\ tasks'[i] = tasks[i + 1]
    BY <2>1
  <2>4. /\ \A i \in 1 .. Len(tasks') : tasks'[i] \in open \ stranded
        /\ \A i, j \in 1 .. Len(tasks') : tasks'[i] = tasks'[j] => i = j
    BY <2>1, <2>3 DEF Server!OneTask
  <2>5. \A i \in 1 .. Len(tasks') : tasks'[i] # tasks[1]
    BY <2>1, <2>3 DEF Server!OneTask
  <2>6. tasks[1] \in open \ stranded /\ \A v \in Workers \ {w} : task[v] # tasks[1]
    BY <1>1, <2>1, ServerAssumptions DEF Server!OneTask, Server!TaskInv, Server!NoneAssumption
  <2>7. ASSUME NEW v \in Workers, worker'[v] # "idle"
        PROVE  /\ task'[v] \in open \ stranded
               /\ \A i \in 1 .. Len(tasks') : tasks'[i] # task'[v]
               /\ \A u \in Workers \ {v} : task'[u] # task'[v]
    <3>1. CASE v = w
      BY <2>2, <2>5, <2>6, <3>1
    <3>2. CASE v # w
      <4>1. worker[v] # "idle" /\ task'[v] = task[v]
        BY <2>2, <2>7, <3>2
      <4>2. \A i \in 1 .. Len(tasks') : tasks'[i] # task[v]
        BY <2>3, <4>1 DEF Server!OneTask
      <4> QED
        BY <2>2, <2>6, <3>2, <4>1, <4>2 DEF Server!OneTask
    <3> QED
      BY <3>1, <3>2
  <2>8. ~listening' => tasks' = <<>>
    BY DEF Server!OneTask
  <2> QED
    BY <2>4, <2>7, <2>8 DEF Server!OneTask
<1> QED
  BY <1>2, <1>3, <1>4, <1>5, <1>6, <1>7

\* The steps of a thread of the pool that keep its socket.
LEMMA ServeIInv ==
    ASSUME Server!IInv, NEW w \in Workers,
           Server!CreateInstance(w) \/ Server!FindInstance(w) \/ Server!ReadLine(w)
    PROVE  Server!IInv'
<1> USE DEF Server!IInv, Server!CreateInstance, Server!FindInstance, Server!ReadLine,
      Server!clientVars, Server!acceptVars, Server!servletVars, Server!WorkerTo
<1>1. Server!TypeOK'
  BY DEF Server!TypeOK
<1>2. Server!TaskInv'
  BY DEF Server!TaskInv, Server!TypeOK
<1>3. Server!EndsByFailure' /\ Server!AnsweredUnlessFailed' /\ Server!NoSocketLeft'
  BY DEF Server!EndsByFailure, Server!AnsweredUnlessFailed, Server!NoSocketLeft, Server!ToSet
<1>4. Server!OnePlace' /\ Server!OneTask'
  BY DEF Server!OnePlace, Server!OneTask, Server!TypeOK
<1> QED
  BY <1>1, <1>2, <1>3, <1>4

\* Those that give it up: one leaves its socket, the others close it.
LEMMA GivesUp ==
    ASSUME Server!IInv, NEW w \in Workers, worker[w] # "idle",
           worker' = [worker EXCEPT ![w] = "idle"], task' = [task EXCEPT ![w] = None],
           UNCHANGED <<tasks, abandoned, accepting, listening>>,
           \/ open' = open \ {task[w]} /\ stranded' = stranded
           \/ open' = open /\ stranded' = stranded \cup {task[w]}
    PROVE  Server!TaskInv' /\ Server!NoSocketLeft' /\ Server!OneTask'
<1> USE DEF Server!IInv
<1>1. Server!TaskInv'
  BY DEF Server!TaskInv, Server!TypeOK
<1>2. \A v \in Workers : worker'[v] # "idle" =>
         v # w /\ worker[v] # "idle" /\ task'[v] = task[v] /\ task[v] # task[w]
  BY DEF Server!TypeOK, Server!OneTask
<1>3. Server!NoSocketLeft'
  <2>1. ASSUME NEW c \in open, c # task[w], c \notin abandoned, c \notin Server!ToSet(tasks),
               c \notin stranded
        PROVE  \E v \in Workers : task'[v] = c
    <3>1. PICK v \in Workers : task[v] = c
      BY <2>1 DEF Server!NoSocketLeft
    <3> QED
      BY <2>1, <3>1 DEF Server!TypeOK
  <2>2. Server!ToSet(tasks)' = Server!ToSet(tasks)
    BY DEF Server!ToSet
  <2> QED
    BY <2>1, <2>2 DEF Server!NoSocketLeft
<1>4. Server!OneTask'
  <2>1. \A i \in 1 .. Len(tasks) : tasks[i] # task[w]
    BY DEF Server!OneTask
  <2>2. task[w] # None
    BY ServerAssumptions DEF Server!TaskInv, Server!NoneAssumption
  <2>3. ASSUME NEW v \in Workers, worker'[v] # "idle"
        PROVE  /\ task'[v] \in open' \ stranded'
               /\ \A i \in 1 .. Len(tasks) : tasks[i] # task'[v]
               /\ \A u \in Workers \ {v} : task'[u] # task'[v]
    <3>1. v # w /\ worker[v] # "idle" /\ task'[v] = task[v] /\ task[v] # task[w]
      BY <1>2, <2>3
    <3>2. task[v] \in ServerClients /\ None \notin ServerClients
      BY <3>1, ServerAssumptions DEF Server!TaskInv, Server!NoneAssumption
    <3>3. \A u \in Workers \ {v} : task'[u] # task[v]
      BY <3>1, <3>2 DEF Server!OneTask, Server!TypeOK
    <3> QED
      BY <3>1, <3>3 DEF Server!OneTask
  <2>4. \A i \in 1 .. Len(tasks) : tasks[i] \in open' \ stranded'
    BY <2>1 DEF Server!OneTask
  <2> QED
    BY <2>3, <2>4 DEF Server!OneTask
<1> QED
  BY <1>1, <1>3, <1>4

LEMMA FindNullIInv ==
    ASSUME Server!IInv, NEW w \in Workers, Server!FindNull(w)
    PROVE  Server!IInv'
<1> USE DEF Server!IInv, Server!FindNull, Server!WorkerTo, Server!clientVars, Server!acceptVars
<1>1. task[w] \in ServerClients /\ task[w] \in open
  BY DEF Server!TaskInv, Server!OneTask
<1>2. Server!TypeOK'
  BY <1>1 DEF Server!TypeOK
<1>3. failures' # {}
  OBVIOUS
<1>4. Server!EndsByFailure' /\ Server!AnsweredUnlessFailed'
  BY <1>3 DEF Server!EndsByFailure, Server!AnsweredUnlessFailed
<1>5. Server!OnePlace'
  BY <1>1 DEF Server!OnePlace
<1>6. Server!TaskInv' /\ Server!NoSocketLeft' /\ Server!OneTask'
  BY GivesUp
<1> QED
  BY <1>2, <1>4, <1>5, <1>6

LEMMA AnswerIInv ==
    ASSUME Server!IInv, NEW w \in Workers, Server!Answer(w) \/ Server!AnswerFails(w)
    PROVE  Server!IInv'
<1> USE DEF Server!IInv, Server!Answer, Server!AnswerFails, Server!Close, Server!clientVars,
      Server!acceptVars, Server!servletVars, Server!WorkerTo
<1>1. task[w] \in ServerClients
  BY DEF Server!TaskInv
<1>2. Server!TypeOK'
  <2>1. answer' \in [ServerClients -> {"nothing", "line", "end"}]
    <3>1. CASE Server!Answer(w)
      BY <1>1, <3>1 DEF Server!TypeOK
    <3>2. CASE Server!AnswerFails(w)
      BY <3>2 DEF Server!TypeOK, Server!Closed
    <3> QED
      BY <3>1, <3>2
  <2>2. /\ worker' \in [Workers -> {"idle", "getInstance", "readLine", "answer"}]
        /\ task' \in [Workers -> ServerClients \cup {None}]
        /\ open' \subseteq ServerClients /\ failures' \subseteq {"accept", "unseen", "null"}
    BY DEF Server!TypeOK
  <2> QED
    BY <2>1, <2>2 DEF Server!TypeOK
<1>3. Server!TaskInv' /\ Server!NoSocketLeft' /\ Server!OneTask'
  BY GivesUp
<1>4. Server!EndsByFailure' /\ Server!AnsweredUnlessFailed'
  <2>1. CASE Server!Answer(w)
    BY <1>1, <2>1 DEF Server!EndsByFailure, Server!AnsweredUnlessFailed, Server!TypeOK
  <2>2. CASE Server!AnswerFails(w)
    <3>1. failures' # {}
      BY <2>2
    <3> QED
      BY <3>1 DEF Server!EndsByFailure, Server!AnsweredUnlessFailed
  <2> QED
    BY <2>1, <2>2
<1>5. Server!OnePlace'
  <2>1. task[w] \in open \ stranded
    BY DEF Server!OneTask
  <2>2. \A c \in ServerClients : c # task[w] => answer'[c] = answer[c]
    BY DEF Server!TypeOK, Server!Closed
  <2>3. stranded' \subseteq open' /\ accepting' \cap open' = {}
    BY <2>1 DEF Server!OnePlace
  <2>4. client[task[w]] # "new" /\ task[w] \notin accepting \cup open'
    BY <2>1 DEF Server!OnePlace
  <2> QED
    BY <2>2, <2>3, <2>4 DEF Server!OnePlace
<1> QED
  BY <1>2, <1>3, <1>4, <1>5

LEMMA ServerNextIInv ==
    ASSUME Server!IInv, [Server!Next]_(Server!vars)
    PROVE  Server!IInv'
<1>1. CASE UNCHANGED Server!vars
  BY <1>1
     DEF Server!vars, Server!IInv, Server!TypeOK, Server!TaskInv, Server!EndsByFailure,
         Server!AnsweredUnlessFailed, Server!NoSocketLeft, Server!OnePlace, Server!OneTask,
         Server!ToSet
<1>2. CASE Server!Next
  BY <1>2, ClientIInv, AcceptIInv, AcceptFailsIInv, ExitIInv, CollectIInv, BeginIInv, ServeIInv,
     FindNullIInv, AnswerIInv
     DEF Server!Next, Server!Worker
<1> QED
  BY <1>1, <1>2

\* A socket that null has left is with nobody, and nothing is to be read from it.
LEMMA IInvLeavesAlone == Server!IInv => Server!StrandedIsAlone
<1> SUFFICES ASSUME Server!IInv, NEW c \in stranded
             PROVE  /\ c \in open /\ answer[c] = "nothing"
                    /\ c \notin Server!ToSet(tasks) /\ \A w \in Workers : task[w] # c
  BY DEF Server!StrandedIsAlone
<1>1. c \in ServerClients /\ c \in open /\ answer[c] = "nothing"
  BY DEF Server!IInv, Server!TypeOK, Server!OnePlace
<1>2. c \notin Server!ToSet(tasks)
  <2>1. tasks \in Seq(ServerClients)
    BY DEF Server!IInv, Server!TypeOK
  <2>2. \A e : e \in Server!ToSet(tasks) <=> \E i \in 1 .. Len(tasks) : tasks[i] = e
    BY <2>1, ServerSetOfMembers
  <2> QED
    BY <2>2 DEF Server!IInv, Server!OneTask
<1>3. \A w \in Workers : task[w] # c
  BY <1>1, ServerAssumptions
     DEF Server!IInv, Server!TaskInv, Server!OneTask, Server!NoneAssumption
<1> QED
  BY <1>1, <1>2, <1>3

\* A client ends without an answer only when something has failed; a socket is left
\* open only by a task that got null for a servlet, and no thread comes back to it.
THEOREM EveryClientIsAnswered ==
    Server!Spec =>
        [](Server!AnsweredUnlessFailed /\ Server!NoSocketLeft /\ Server!StrandedIsAlone)
<1>1. Server!IInv /\ [Server!Next]_(Server!vars) => Server!IInv'
  BY ServerNextIInv
<1>2. Server!IInv => Server!AnsweredUnlessFailed /\ Server!NoSocketLeft /\ Server!StrandedIsAlone
  BY IInvLeavesAlone DEF Server!IInv
<1> QED
  BY ServerInitIInv, <1>1, <1>2, PTL DEF Server!Spec

-----------------------------------------------------------------------------
(* The selector server: what was read, is in the buffer and is yet to come    *)
(* are one text                                                               *)

\* A piece of what one read() brings is printed as it is unless the character it
\* belongs to goes on before the first piece or after the last.
LEMMA Decoded ==
    ASSUME NEW c, NEW n \in Nat, NEW m \in Nat, NEW j \in 1 .. m
    PROVE  Select!IsWhole([i \in 1 .. m |-> <<c, n + i>>], j) <=>
              /\ \E first \in 1 .. j : n + first - 1 \notin Inside
              /\ \E last \in j .. m : n + last \notin Inside
<1> DEFINE bytes == [i \in 1 .. m |-> <<c, n + i>>]
<1>1. Len(bytes) = m /\ \A i \in 1 .. m : bytes[i] = <<c, n + i>>
  OBVIOUS
<1>2. \A i \in 1 .. m : bytes[i][1] = c /\ bytes[i][2] = n + i
  BY <1>1
<1> HIDE DEF bytes
<1>3. ASSUME NEW first \in 1 .. j, NEW last \in j .. m
      PROVE  Select!Connected(bytes, first, last)
  <2>1. \A k \in first .. last - 1 :
           k \in 1 .. m /\ k + 1 \in 1 .. m /\ n + (k + 1) = (n + k) + 1
    OBVIOUS
  <2>2. \A k \in first .. last - 1 : bytes[k + 1] = <<bytes[k][1], bytes[k][2] + 1>>
    BY <1>1, <1>2, <2>1
  <2> QED
    BY <2>2, Zenon DEF Select!Connected
<1>4. \A first \in 1 .. j, last \in j .. m :
         bytes[first][2] = n + first /\ bytes[last][2] = n + last
  BY <1>2
<1>5. Select!IsWhole(bytes, j) <=>
         \E first \in 1 .. j, last \in j .. m :
            n + first - 1 \notin Inside /\ n + last \notin Inside
  <2>1. ASSUME Select!IsWhole(bytes, j)
        PROVE  \E first \in 1 .. j, last \in j .. m :
                  n + first - 1 \notin Inside /\ n + last \notin Inside
    <3>1. PICK first \in 1 .. j, last \in j .. m :
             bytes[first][2] - 1 \notin Inside /\ bytes[last][2] \notin Inside
      BY <1>1, <2>1, Zenon DEF Select!IsWhole
    <3>2. bytes[first][2] = n + first /\ bytes[last][2] = n + last
      BY <1>4, Zenon
    <3> QED
      BY <3>1, <3>2
  <2>2. ASSUME NEW first \in 1 .. j, NEW last \in j .. m,
               n + first - 1 \notin Inside, n + last \notin Inside
        PROVE  Select!IsWhole(bytes, j)
    <3>1. bytes[first][2] = n + first /\ bytes[last][2] = n + last
      BY <1>4, Zenon
    <3>2. bytes[first][2] - 1 \notin Inside /\ bytes[last][2] \notin Inside
      BY <2>2, <3>1
    <3>3. Select!Connected(bytes, first, last)
      BY <1>3, Zenon
    <3> QED
      BY <1>1, <3>2, <3>3, Zenon DEF Select!IsWhole
  <2> QED
    BY <2>1, <2>2, Zenon
<1>6. Select!IsWhole(bytes, j) <=>
         /\ \E first \in 1 .. j : n + first - 1 \notin Inside
         /\ \E last \in j .. m : n + last \notin Inside
  BY <1>5, Zenon
<1> QED
  BY <1>6, Zenon DEF bytes

\* The pieces that are not whole are those of the characters that a read() ended in:
\* the last one, or this one.
LEMMA NewCuts ==
    ASSUME NEW n \in Nat, NEW m \in Nat, NEW j \in 1 .. m, NEW cuts \in SUBSET Inside,
           \A k \in cuts : k <= n, n \in Inside => n \in cuts
    PROVE  Select!IsCut(n + j, cuts \cup ({n + m} \cap Inside)) <=>
              \/ \A first \in 1 .. j : n + first - 1 \in Inside
              \/ \A last \in j .. m : n + last \in Inside
<1> DEFINE new == cuts \cup ({n + m} \cap Inside)
<1>0. \A i \in Inside : i \in Int
  BY SelectAssumptions DEF Select!InsideAssumption, Select!NoneAssumption
<1>1. ASSUME \A first \in 1 .. j : n + first - 1 \in Inside
      PROVE  Select!IsCut(n + j, new)
  <2>1. n \in Inside /\ n \in new
    <3>1. 1 \in 1 .. j /\ n + 1 - 1 = n
      OBVIOUS
    <3> QED
      BY <1>1, <3>1
  <2>2. ASSUME NEW x \in (n + j .. n) \cup (n .. n + j - 1)
        PROVE  x \in Inside
    <3>1. x - n + 1 \in 1 .. j /\ n + (x - n + 1) - 1 = x
      BY <2>2
    <3> QED
      BY <1>1, <3>1
  <2> QED
    BY <2>1, <2>2 DEF Select!IsCut
<1>2. ASSUME \A last \in j .. m : n + last \in Inside
      PROVE  Select!IsCut(n + j, new)
  <2>1. n + m \in new
    BY <1>2
  <2>2. ASSUME NEW x \in (n + j .. n + m) \cup (n + m .. n + j - 1)
        PROVE  x \in Inside
    <3>1. x - n \in j .. m /\ n + (x - n) = x
      BY <2>2
    <3> QED
      BY <1>2, <3>1
  <2> QED
    BY <2>1, <2>2 DEF Select!IsCut
<1>3. ASSUME Select!IsCut(n + j, new)
      PROVE  \/ \A first \in 1 .. j : n + first - 1 \in Inside
             \/ \A last \in j .. m : n + last \in Inside
  <2>1. PICK k \in new : (n + j .. k) \cup (k .. n + j - 1) \subseteq Inside
    BY <1>3 DEF Select!IsCut
  <2>2. CASE k \in cuts
    <3>1. k \in Int /\ k <= n
      BY <1>0, <2>2
    <3>2. \A first \in 1 .. j : n + first - 1 \in k .. n + j - 1
      BY <3>1
    <3> QED
      BY <2>1, <3>2
  <2>3. CASE k = n + m
    <3>1. \A last \in j .. m : n + last \in n + j .. n + m
      OBVIOUS
    <3> QED
      BY <2>1, <2>3, <3>1
  <2> QED
    BY <2>2, <2>3
<1> QED
  BY <1>1, <1>2, <1>3

\* What has been printed is not cut by what is read later.
LEMMA OldCuts ==
    ASSUME NEW n \in Nat, NEW m \in Nat, NEW i \in 1 .. n, NEW cuts \in SUBSET Inside,
           n \in Inside => n \in cuts
    PROVE  Select!IsCut(i, cuts \cup ({n + m} \cap Inside)) <=> Select!IsCut(i, cuts)
<1>1. ASSUME n + m \in Inside, (i .. n + m) \cup (n + m .. i - 1) \subseteq Inside
      PROVE  Select!IsCut(i, cuts)
  <2>1. n \in i .. n + m /\ n \in cuts
    BY <1>1
  <2>2. ASSUME NEW x \in (i .. n) \cup (n .. i - 1)
        PROVE  x \in Inside
    <3>1. x \in i .. n + m
      BY <2>2
    <3> QED
      BY <1>1, <3>1
  <2> QED
    BY <2>1, <2>2 DEF Select!IsCut
<1> QED
  BY <1>1 DEF Select!IsCut

\* The cuts of a text of which n pieces are read
CutsUpTo(cuts, n) ==
    cuts \in SUBSET Inside /\ (\A k \in cuts : k <= n) /\ (n \in Inside => n \in cuts)

\* The n pieces as they were printed, and m new ones decoded, are n + m pieces.
ReadsOn(c, n, m, cuts) ==
    Select!Shown(c, n, cuts) \o Select!Decode(<<>> \o [i \in 1 .. m |-> <<c, n + i>>])
       = Select!Shown(c, n + m, cuts \cup ({n + m} \cap Inside))

\* What one read() brings is printed behind what was printed before.
LEMMA NextPieces ==
    ASSUME NEW c, NEW n \in Nat, NEW m \in Nat, NEW cuts, CutsUpTo(cuts, n)
    PROVE  ReadsOn(c, n, m, cuts)
<1> DEFINE S == {<<c, i>> : i \in Nat} \cup {Select!Garbage}
           bytes == [i \in 1 .. m |-> <<c, n + i>>]
           next == Select!Decode(bytes)
           old == Select!Shown(c, n, cuts)
           new == cuts \cup ({n + m} \cap Inside)
           all == Select!Shown(c, n + m, new)
<1>0. cuts \in SUBSET Inside /\ (\A k \in cuts : k <= n) /\ (n \in Inside => n \in cuts)
  BY DEF CutsUpTo
<1>1. old \in Seq(S) /\ Len(old) = n
        /\ \A i \in 1 .. n : old[i] = IF Select!IsCut(i, cuts) THEN Select!Garbage ELSE <<c, i>>
  BY DEF Select!Shown
<1>2. /\ all \in Seq(S) /\ Len(all) = n + m
      /\ \A i \in 1 .. n + m :
            all[i] = IF Select!IsCut(i, new) THEN Select!Garbage ELSE <<c, i>>
  BY DEF Select!Shown
<1>3. /\ bytes \in Seq(S) /\ Len(bytes) = m /\ \A j \in 1 .. m : bytes[j] = <<c, n + j>>
  OBVIOUS
<1>4. /\ next \in Seq(S) /\ Len(next) = m
      /\ \A j \in 1 .. m :
            next[j] = IF Select!IsWhole(bytes, j) THEN <<c, n + j>> ELSE Select!Garbage
  <2>1. (\A j \in 1 .. m : bytes[j] \in S) /\ Select!Garbage \in S
    OBVIOUS
  <2> HIDE DEF bytes, S
  <2>2. next = [j \in 1 .. m |->
                   IF Select!IsWhole(bytes, j) THEN bytes[j] ELSE Select!Garbage]
    BY <1>3 DEF Select!Decode
  <2>3. ASSUME NEW f \in [1 .. m -> S]
        PROVE  f \in Seq(S) /\ Len(f) = m
    OBVIOUS
  <2> HIDE DEF next
  <2>4. next \in [1 .. m -> S]
    BY <2>1, <2>2
  <2>5. \A j \in 1 .. m :
           next[j] = IF Select!IsWhole(bytes, j) THEN bytes[j] ELSE Select!Garbage
    BY <2>2
  <2> QED
    BY <1>3, <2>3, <2>4, <2>5
<1>5. <<>> \o bytes = bytes
  BY <1>3, ConcatEmptySeq
<1>6. ASSUME NEW j \in 1 .. m
      PROVE  next[j] = all[n + j]
  <2>1. Select!IsWhole(bytes, j) <=>
           /\ \E first \in 1 .. j : n + first - 1 \notin Inside
           /\ \E last \in j .. m : n + last \notin Inside
    BY Decoded, Zenon
  <2>2. Select!IsCut(n + j, new) <=>
           \/ \A first \in 1 .. j : n + first - 1 \in Inside
           \/ \A last \in j .. m : n + last \in Inside
    BY <1>0, NewCuts, Zenon
  <2>3. n + j \in 1 .. n + m
    OBVIOUS
  <2> HIDE DEF bytes, next, new, all
  <2>4. Select!IsWhole(bytes, j) <=> ~Select!IsCut(n + j, new)
    BY <2>1, <2>2, Zenon
  <2> QED
    BY <1>2, <1>4, <2>3, <2>4
<1>7. ASSUME NEW i \in 1 .. n
      PROVE  old[i] = all[i]
  <2>1. Select!IsCut(i, new) <=> Select!IsCut(i, cuts)
    BY <1>0, OldCuts, Zenon
  <2>2. i \in 1 .. n + m
    OBVIOUS
  <2> HIDE DEF old, new, all
  <2> QED
    BY <1>1, <1>2, <2>1, <2>2
<1> HIDE DEF bytes, next, old, new, all, S
<1>8. /\ old \o next \in Seq(S) /\ Len(old \o next) = n + m
      /\ \A i \in 1 .. n + m : (old \o next)[i] = IF i <= n THEN old[i] ELSE next[i - n]
  <2>1. ASSUME NEW p \in Seq(S), NEW q \in Seq(S), Len(p) = n, Len(q) = m
        PROVE  /\ p \o q \in Seq(S) /\ Len(p \o q) = n + m
               /\ \A i \in 1 .. n + m : (p \o q)[i] = IF i <= n THEN p[i] ELSE q[i - n]
    BY <2>1, ConcatProperties
  <2> QED
    BY <1>1, <1>4, <2>1, Zenon
<1>9. ASSUME NEW i \in 1 .. n + m
      PROVE  (old \o next)[i] = all[i]
  <2>1. CASE i <= n
    <3>1. i \in 1 .. n /\ (old \o next)[i] = old[i]
      BY <1>8, <2>1
    <3> QED
      BY <1>7, <3>1, Zenon
  <2>2. CASE ~(i <= n)
    <3>1. i - n \in 1 .. m /\ n + (i - n) = i /\ (old \o next)[i] = next[i - n]
      BY <1>8, <2>2
    <3>2. next[i - n] = all[n + (i - n)]
      BY <1>6, <3>1, Zenon
    <3> QED
      BY <3>1, <3>2
  <2> QED
    BY <2>1, <2>2
<1>10. old \o next = all
  BY <1>2, <1>8, <1>9, SeqEqual
<1> QED
  BY <1>5, <1>10, Zenon DEF bytes, next, old, new, all, ReadsOn

LEMMA IInvMixesNothing == Select!IInv => Select!NothingIsMixed
BY DEF Select!IInv, Select!PrintsWhatIsRead, Select!NothingIsMixed

LEMMA SelectInitIInv == Select!Init => Select!IInv
<1> SUFFICES ASSUME Select!Init PROVE Select!IInv
  OBVIOUS
<1>1. Select!ReadsWhatArrives
  BY SelectAssumptions DEF Select!Init, Select!ReadsWhatArrives, Select!NoneAssumption
<1>2. Select!CutsAreRead
  BY SelectAssumptions
     DEF Select!Init, Select!CutsAreRead, Select!NoneAssumption, Select!InsideAssumption
<1>3. ASSUME NEW c \in SelectClients PROVE Select!Shown(c, read[c], cut[c]) = <<>>
  BY DEF Select!Shown, Select!Init
<1> QED
  BY <1>1, <1>2, <1>3 DEF Select!IInv, Select!Init, Select!PrintsWhatIsRead

\* One call of read() prints the pieces that have arrived since the last one.
LEMMA ReadIInv ==
    ASSUME Select!IInv, NEW c \in SelectClients, Select!Read(c)
    PROVE  Select!IInv'
<1> DEFINE n == read[c]
           m == arrived[c] - read[c]
<1>1. n \in Nat /\ m \in Nat /\ n + m = arrived[c] /\ arrived[c] \in 0 .. Pieces
  BY SelectAssumptions DEF Select!IInv, Select!ReadsWhatArrives, Select!Read, Select!NoneAssumption
<1>2. Select!ReadsWhatArrives'
  BY <1>1 DEF Select!IInv, Select!ReadsWhatArrives, Select!Read, Select!clientVars
<1>0. \A k \in Inside : k \in Int
  BY SelectAssumptions DEF Select!InsideAssumption, Select!NoneAssumption
<1>3. CutsUpTo(cut[c], n)
  BY DEF Select!IInv, Select!CutsAreRead, CutsUpTo
<1>4. Select!CutsAreRead'
  <2>1. cut' \in [SelectClients -> SUBSET Inside]
    BY DEF Select!IInv, Select!CutsAreRead, Select!Read
  <2>2. ASSUME NEW d \in SelectClients
        PROVE  /\ \A k \in cut'[d] : k <= read'[d]
               /\ read'[d] \in Inside => read'[d] \in cut'[d]
    <3>1. CASE d = c
      <4>0. read'[c] = arrived[c] /\ cut'[c] = cut[c] \cup ({arrived[c]} \cap Inside)
        BY DEF Select!IInv, Select!ReadsWhatArrives, Select!CutsAreRead, Select!Read
      <4>2. (\A k \in cut[c] : k \in Int) /\ (\A k \in cut[c] : k <= n)
        BY <1>0, <1>3, Zenon DEF CutsUpTo
      <4> HIDE DEF n, m
      <4>1. read'[c] = n + m /\ cut'[c] = cut[c] \cup ({n + m} \cap Inside)
        BY <1>1, <4>0
      <4>3. \A k \in cut[c] : k <= n + m
        BY <1>1, <4>2
      <4>4. n + m <= n + m
        BY <1>1
      <4> QED
        BY <3>1, <4>1, <4>3, <4>4, Zenon
    <3>2. CASE d # c
      <4>1. read'[d] = read[d] /\ cut'[d] = cut[d]
        BY <3>2 DEF Select!IInv, Select!ReadsWhatArrives, Select!CutsAreRead, Select!Read
      <4> QED
        BY <4>1 DEF Select!IInv, Select!CutsAreRead
    <3> QED
      BY <3>1, <3>2
  <2> QED
    BY <2>1, <2>2 DEF Select!CutsAreRead
<1>5. shown[c] \o Select!Decode(Select!Flipped(c))
         = Select!Shown(c, arrived[c], cut[c] \cup ({arrived[c]} \cap Inside))
  <2>1. shown[c] = Select!Shown(c, n, cut[c]) /\ byteBuffer = <<>>
    BY DEF Select!IInv, Select!PrintsWhatIsRead
  <2>2. Select!Flipped(c) = <<>> \o [i \in 1 .. m |-> <<c, n + i>>]
    BY <2>1 DEF Select!Flipped
  <2> HIDE DEF n, m
  <2>3. Select!Shown(c, n, cut[c]) \o Select!Decode(<<>> \o [i \in 1 .. m |-> <<c, n + i>>])
           = Select!Shown(c, n + m, cut[c] \cup ({n + m} \cap Inside))
    <3>1. ReadsOn(c, n, m, cut[c])
      BY <1>1, <1>3, NextPieces, Zenon
    <3> QED
      BY <3>1, Zenon DEF ReadsOn
  <2> QED
    BY <1>1, <2>1, <2>2, <2>3, Zenon
<1>6. Select!PrintsWhatIsRead'
  <2> HIDE DEF n, m
  <2>1. byteBuffer' = <<>> /\ read' = [read EXCEPT ![c] = arrived[c]]
          /\ cut' = [cut EXCEPT ![c] = cut[c] \cup ({arrived[c]} \cap Inside)]
    BY DEF Select!Read
  <2>2. shown' = [shown EXCEPT ![c] =
           Select!Shown(c, arrived[c], cut[c] \cup ({arrived[c]} \cap Inside))]
    BY <1>5 DEF Select!Read
  <2>3. shown' = [d \in SelectClients |-> Select!Shown(d, read'[d], cut'[d])]
    BY <2>1, <2>2
       DEF Select!IInv, Select!PrintsWhatIsRead, Select!ReadsWhatArrives, Select!CutsAreRead
  <2> QED
    BY <2>1, <2>3 DEF Select!PrintsWhatIsRead
<1> QED
  BY <1>2, <1>4, <1>6 DEF Select!IInv

LEMMA SelectNextIInv ==
    ASSUME Select!IInv, [Select!Next]_(Select!vars)
    PROVE  Select!IInv'
<1>1. CASE UNCHANGED <<read, byteBuffer, shown, cut, arrived>>
  BY <1>1 DEF Select!IInv, Select!ReadsWhatArrives, Select!CutsAreRead, Select!PrintsWhatIsRead
<1>2. ASSUME NEW c \in SelectClients, Select!Arrive(c)
      PROVE  Select!IInv'
  <2>1. Select!ReadsWhatArrives'
    BY <1>2, SelectAssumptions
       DEF Select!IInv, Select!ReadsWhatArrives, Select!Arrive, Select!NoneAssumption
  <2> QED
    BY <1>2, <2>1
       DEF Select!IInv, Select!CutsAreRead, Select!PrintsWhatIsRead, Select!Arrive,
           Select!printVars
<1>3. ASSUME NEW c \in SelectClients, Select!Read(c)
      PROVE  Select!IInv'
  BY <1>3, ReadIInv
<1>4. CASE Select!Bind \/ Select!Select \/ Select!Accept
  BY <1>1, <1>4 DEF Select!Bind, Select!Select, Select!Accept, Select!clientVars, Select!printVars
<1>5. ASSUME NEW c \in SelectClients, Select!Client(c) \/ Select!Close(c)
      PROVE  Select!IInv'
  BY <1>1, <1>5
     DEF Select!Client, Select!Connect, Select!Refused, Select!WriteAndClose, Select!Close,
         Select!clientVars, Select!printVars
<1> QED
  BY <1>1, <1>2, <1>3, <1>4, <1>5 DEF Select!Next, Select!Server, Select!vars

\* What the selector server prints for a client is its text as far as it was read,
\* with garbage for the characters that a read() has cut, and only for those.
THEOREM TextsAreNotMixed == Select!Spec => [](Select!NothingIsMixed)
<1>1. Select!IInv /\ [Select!Next]_(Select!vars) => Select!IInv'
  BY SelectNextIInv
<1>2. Select!IInv => Select!NothingIsMixed
  BY IInvMixesNothing
<1> QED
  BY SelectInitIInv, <1>1, <1>2, PTL DEF Select!Spec

-----------------------------------------------------------------------------
(* The servers together: a step is a step of one of them and a stutter of the  *)
(* others, so the conjunction of their invariants is inductive                 *)

LEMMA ProgramsStep ==
    ASSUME [ProgramsNext]_programsVars
    PROVE  /\ [Next]_vars /\ [Sessions!Next]_(Sessions!vars)
           /\ [Server!Next]_(Server!vars) /\ [Select!Next]_(Select!vars)
<1>1. /\ [Next]_datagramVars /\ [Sessions!Next]_sessionVars
      /\ [Server!Next]_serverVars /\ [Select!Next]_selectVars
  BY Zenon DEF ProgramsNext, programsVars, RunDatagrams, RunSession, RunServer, RunSelect
<1> QED
  BY <1>1, Zenon DEF datagramVars, sessionVars, Sessions!vars, serverVars, Server!vars,
                     selectVars, Select!vars

ServersInv == IInv /\ Sessions!IInv /\ Server!IInv /\ Select!IInv

LEMMA ServersInitInv == ProgramsInit => ServersInv
BY InitIInv, SessionInitIInv, ServerInitIInv, SelectInitIInv, Zenon
   DEF ProgramsInit, ServersInv

LEMMA ServersStepInv == ServersInv /\ [ProgramsNext]_programsVars => ServersInv'
BY ProgramsStep, StepIInv, SessionNextIInv, ServerNextIInv, SelectNextIInv, Zenon
   DEF ServersInv

THEOREM ServersInvariance == ProgramsSpec => []ServersInv
BY ServersInitInv, ServersStepInv, PTL DEF ProgramsSpec

\* The types; a put() is alone in the map of the Session; the clients of TestServer
\* are answered unless something failed, and no socket is left open but by a null
\* servlet; the selector server mixes no texts, and garbles none but where it cuts.
THEOREM ServersAreOK == ProgramsSpec => []ServersOK
<1>1. ServersInv => ServersOK
  BY GuardedByIInv, IInvLeavesAlone, IInvMixesNothing, Zenon
     DEF ServersInv, ServersOK, IInv, Sessions!IInv, Server!IInv
<1> QED
  BY <1>1, ServersInvariance, PTL

\* Only the timed get() of the Session leaves a lock behind, and what it then
\* blocks and closes stays so.
THEOREM LeakStays == ProgramsSpec => LeakIsForGood
<1> DEFINE
      Leaks == [\A t \in Threads :
                   t \in Sessions!Leaked' \ Sessions!Leaked =>
                     method[t] = "timedGet"]_(Sessions!vars)
      Blocks == [\A t \in Threads : Sessions!Blocked(t) => Sessions!Blocked(t)']_(Sessions!vars)
      Closes == [Sessions!Closed =>
                    /\ Sessions!Closed'
                    /\ \A t \in Threads :
                          at'[t] = "map" /\ at[t] # "map" => t \in Sessions!Leaked]_(Sessions!vars)
<1>1. ServersInv /\ [ProgramsNext]_programsVars => Leaks /\ Blocks /\ Closes
  BY ProgramsStep, LeakStep, BlockedStep, ClosedStep DEF ServersInv
<1> QED
  BY <1>1, ServersInvariance, PTL
     DEF ProgramsSpec, LeakIsForGood, Sessions!OnlyTimedGetLeaks, Sessions!BlockedForGood,
         Sessions!ClosedForGood
===============================================================================
