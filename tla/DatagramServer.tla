---------------------------- MODULE DatagramServer ----------------------------
(***************************************************************************)
(* StartDatagramSocketServer and runs of StartDatagramSocketClient.  A run *)
(* of a client sends CONNECT, two PRINTs and DISCONNECT; the server is one *)
(* thread that receives a datagram and serves it.  The client here has one *)
(* address; the server distinguishes clients by theirs, so that there are  *)
(* several in the model, and each may run again when its run has ended.    *)
(*                                                                         *)
(* The network delivers a datagram to the socket of the server, once, or   *)
(* twice, or never, in any order.  Once the socket is connected the kernel *)
(* drops what comes from elsewhere; what is in the socket already stays,   *)
(* unless connect() of the channel throws it away, which depends on the    *)
(* release of the JDK and is left open.                                    *)
(***************************************************************************)
EXTENDS Integers, Sequences, SequencesExt

CONSTANTS
    Clients, Nobody,
    Runs,       \* bound: runs of all clients together
    InFlight,   \* bound: datagrams on the way at a time
    Faults      \* bound: datagrams lost, repeated or overtaken by the network

ASSUME NobodyAssumption == Nobody \notin Clients
ASSUME BoundAssumption == Runs \in Nat /\ InFlight \in Nat /\ Faults \in Nat

Methods == <<"CONNECT", "PRINT", "PRINT", "DISCONNECT">>

VARIABLES
    sent,       \* sent[c]: datagrams client c has sent, in all its runs
    network,    \* the datagrams on the way, in the order they were sent
    socket,     \* the datagrams in the socket of the server
    connectedClientAddress,
    peer,       \* whom the channel or socket is connected to
    begunBy,    \* history: the CONNECT that the session began with
    printed,    \* printed[c]: the texts of c that the server has printed
    faults,     \* history: faults of the network so far
    dropped     \* history: what came to the socket and was thrown away unseen

vars == <<sent, network, socket, connectedClientAddress, peer, begunBy, printed, faults, dropped>>

NoDatagram == [from |-> Nobody, number |-> 0]

Init ==
    /\ sent = [c \in Clients |-> 0]
    /\ network = <<>> /\ socket = <<>>
    /\ connectedClientAddress = Nobody /\ peer = Nobody
    /\ begunBy = NoDatagram
    /\ printed = [c \in Clients |-> {}]
    /\ faults = 0 /\ dropped = {}

\* The number of a datagram among those of its client tells its method.
Method(d) == Methods[((d.number - 1) % 4) + 1]

-----------------------------------------------------------------------------
(* The client and the network *)

RunsBegun == FoldFunction(LAMBDA n, sum : sum + (n + 3) \div 4, 0, sent)

\* sendMessage() of the next datagram, of a further run after DISCONNECT.
Send(c) ==
    /\ sent[c] % 4 # 0 \/ RunsBegun < Runs
    /\ Len(network) < InFlight
    /\ sent' = [sent EXCEPT ![c] = @ + 1]
    /\ network' = Append(network, [from |-> c, number |-> sent[c] + 1])
    /\ UNCHANGED <<socket, connectedClientAddress, peer, begunBy, printed, faults, dropped>>

Arrive(d) ==
    IF peer \in {Nobody, d.from}
    THEN socket' = Append(socket, d) /\ UNCHANGED dropped
    ELSE dropped' = dropped \cup {d} /\ UNCHANGED socket

Deliver ==
    /\ network # <<>>
    /\ Arrive(Head(network))
    /\ network' = Tail(network)
    /\ UNCHANGED <<sent, connectedClientAddress, peer, begunBy, printed, faults>>

Fault ==
    /\ faults < Faults
    /\ faults' = faults + 1
    /\ UNCHANGED <<sent, connectedClientAddress, peer, begunBy, printed>>

Lose ==
    /\ network # <<>>
    /\ network' = Tail(network)
    /\ UNCHANGED <<socket, dropped>>
    /\ Fault

Repeat ==
    /\ network # <<>>
    /\ Arrive(Head(network))
    /\ UNCHANGED network
    /\ Fault

Overtake ==
    /\ \E i \in 2 .. Len(network) :
          Arrive(network[i]) /\ network' = RemoveAt(network, i)
    /\ Fault

-----------------------------------------------------------------------------
(* The server: receive() and server() *)

Connect(d) ==
    /\ Method(d) = "CONNECT"
    /\ peer' = d.from /\ connectedClientAddress' = d.from
    /\ begunBy' = d
    /\ \/ socket' = Tail(socket) /\ UNCHANGED dropped
       \/ socket' = <<>> /\ dropped' = dropped \cup ToSet(Tail(socket))
    /\ UNCHANGED printed

ConnectAgain(d) ==
    /\ Method(d) = "CONNECT"
    /\ socket' = Tail(socket)
    /\ UNCHANGED <<connectedClientAddress, peer, begunBy, printed, dropped>>

PrintText(d) ==
    /\ Method(d) = "PRINT"
    /\ printed' = [printed EXCEPT ![d.from] = @ \cup {d.number}]
    /\ socket' = Tail(socket)
    /\ UNCHANGED <<connectedClientAddress, peer, begunBy, dropped>>

KeepPeer(d) ==                   \* slip: the channel is not disconnected
    /\ Method(d) = "DISCONNECT"
    /\ connectedClientAddress' = Nobody
    /\ socket' = Tail(socket)
    /\ UNCHANGED <<peer, begunBy, printed, dropped>>

Disconnect(d) ==
    /\ Method(d) = "DISCONNECT"
    /\ connectedClientAddress' = Nobody /\ peer' = Nobody
    /\ begunBy' = NoDatagram
    /\ socket' = Tail(socket)
    /\ UNCHANGED <<printed, dropped>>

ServeAnybody(d) == TRUE          \* slip: the sender is not looked at

\* The sender of what is served: the connected client, or anybody.
Serves(d) == connectedClientAddress \in {Nobody, d.from}

Ignore(d) ==
    /\ ~Serves(d)
    /\ socket' = Tail(socket)
    /\ UNCHANGED <<connectedClientAddress, peer, begunBy, printed, dropped>>

Receive ==
    /\ socket # <<>>
    /\ LET d == Head(socket) IN
          \/ Ignore(d)
          \/ /\ Serves(d)
             /\ \/ peer = Nobody /\ Connect(d)
                \/ peer # Nobody /\ ConnectAgain(d)
                \/ PrintText(d)
                \/ Disconnect(d)
    /\ UNCHANGED <<sent, network, faults>>

Next == (\E c \in Clients : Send(c)) \/ Deliver \/ Lose \/ Repeat \/ Overtake \/ Receive

Spec == Init /\ [][Next]_vars

\* The server receives without end, the network delivers what it does not lose,
\* and a run of a client that has begun goes on to its end.
Fairness ==
    /\ WF_vars(Receive) /\ WF_vars(Deliver)
    /\ \A c \in Clients : WF_vars(sent[c] % 4 # 0 /\ Send(c))

FairSpec == Spec /\ Fairness

-----------------------------------------------------------------------------
(* Properties *)

Datagrams == [from : Clients, number : Nat \ {0}]

TypeOK ==
    /\ sent \in [Clients -> Nat]
    /\ network \in Seq(Datagrams) /\ socket \in Seq(Datagrams)
    /\ connectedClientAddress \in Clients \cup {Nobody} /\ peer = connectedClientAddress
    /\ begunBy \in Datagrams \cup {NoDatagram} /\ begunBy.from = peer
    /\ printed \in [Clients -> SUBSET Nat]
    /\ faults \in 0 .. Faults /\ dropped \subseteq Datagrams

\* The server implements an exclusive session whatever the network does.
Exclusive == INSTANCE ExclusiveSession WITH session <- peer

SessionSpec == Exclusive!Spec

OnTheWay == ToSet(network) \cup ToSet(socket)

\* The session of a client whose run has ended, and of which nothing is on the way.
Orphaned(c) == peer = c /\ sent[c] % 4 = 0 /\ \A d \in OnTheWay : d.from # c

\* An orphaned session ends no more, but by another run of the same client: the
\* server has no timeout, and drops what the others send.
OrphanShutsOut ==
    [][\A c \in Clients : Orphaned(c) => Orphaned(c)' \/ sent[c]' # sent[c]]_vars

Ahead(i) == [begunBy EXCEPT !.number = @ + i]

\* The network need not lose anything to leave one: it is enough that the socket
\* drops the DISCONNECT of the run, in connect() or because another client was
\* connected when it came.  But it takes one of the two.
OrphanedByLoss == \A c \in Clients : Orphaned(c) => faults > 0 \/ Ahead(3) \in dropped

\* Without either, both texts of the run that began a session are printed, and
\* the session ends.
Run(c, n) == {[from |-> c, number |-> n + i] : i \in 0 .. 3}
Served(c, n) ==
    {n + 1, n + 2} \subseteq printed[c] /\ begunBy # [from |-> c, number |-> n]
Disturbed(c, n) == faults > 0 \/ Run(c, n) \cap dropped # {}
SessionIsServed ==
    \A c \in Clients : \A n \in {4 * k + 1 : k \in 0 .. Runs - 1} :
        begunBy = [from |-> c, number |-> n] ~> Served(c, n) \/ Disturbed(c, n)

\* The inductive invariant.  Nothing is on the way that was not sent;
\* while the network makes no fault, whatever a client sent after a datagram on
\* the way is behind it, or was dropped; and so is the end of a session.
Later(d, count) == {[from |-> d.from, number |-> m] : m \in d.number + 1 .. count[d.from]}

WasSent == \A d \in OnTheWay : d.number <= sent[d.from]
NetworkInOrder ==
    \A i \in 1 .. Len(network) : \A e \in Later(network[i], sent) :
        \E j \in i + 1 .. Len(network) : network[j] = e
SocketInOrder ==
    \A i \in 1 .. Len(socket) : \A e \in Later(socket[i], sent) :
        \/ e \in dropped \cup ToSet(network)
        \/ \E j \in i + 1 .. Len(socket) : socket[j] = e
SessionHasEnd ==
    peer # Nobody =>
        /\ begunBy.number % 4 = 1 /\ begunBy.number <= sent[peer]
        /\ begunBy.number + 3 <= sent[peer] => Ahead(3) \in dropped \cup OnTheWay

IInv ==
    /\ TypeOK /\ WasSent
    /\ faults = 0 => NetworkInOrder /\ SocketInOrder /\ SessionHasEnd
===============================================================================
