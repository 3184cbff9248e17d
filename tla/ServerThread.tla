----------------------------- MODULE ServerThread -----------------------------
(***************************************************************************)
(* TestSelectStatus: a ServerThread, which serves all its connections with *)
(* one Selector and one ByteBuffer, and the ClientThreads, which connect,  *)
(* write a text and close.  All are started at the same time, so that a    *)
(* client may come before the server is bound and is refused.              *)
(*                                                                         *)
(* TCP brings a text in pieces, in their order, and then the end.  A piece *)
(* is whole characters or a part of one: most characters of the text have  *)
(* several bytes.  The server decodes what each read() brings by itself,   *)
(* so that a character that a read() ends in is printed as garbage, before *)
(* and after the cut; as in UTF-8, its neighbours are not touched.         *)
(*                                                                         *)
(* The buffer has room for several texts.  The server sends nothing, hence *)
(* a connection ends in order and neither accept() nor read() throws.      *)
(***************************************************************************)
EXTENDS Integers, SequencesExt

CONSTANTS
    Clients, None,
    Pieces,     \* bound: pieces a text may come in
    Inside      \* those that end inside a character

NoneAssumption == None \notin Clients /\ Pieces \in Nat \ {0}
InsideAssumption == Inside \subseteq 1 .. Pieces - 1

VARIABLES
    bound,
    client,
    backlog,        \* connections nobody has accepted yet
    arrived,        \* arrived[c]: pieces of c's text that have reached the server
    ended,          \* the connections whose end has
    registered,     \* channels that are registered with the selector
    selectedKeys,   \* channels whose key is selected, None for the server's own
    read,           \* read[c]: pieces of c's text that the server has read
    byteBuffer,     \* the pieces in the buffer
    printed,        \* printed[c]: what was printed while c's key was served
    cut             \* history: cut[c]: the pieces inside a character that a read() ended with

vars == <<bound, client, backlog, arrived, ended, registered, selectedKeys, read,
          byteBuffer, printed, cut>>

clientVars == <<client, arrived, ended>>
printVars == <<byteBuffer, printed, cut>>

Init ==
    /\ bound = FALSE
    /\ client = [c \in Clients |-> "new"]
    /\ backlog = <<>> /\ registered = {} /\ selectedKeys = {}
    /\ arrived = [c \in Clients |-> 0] /\ ended = {}
    /\ read = [c \in Clients |-> 0]
    /\ byteBuffer = <<>>
    /\ printed = [c \in Clients |-> <<>>] /\ cut = [c \in Clients |-> {}]

-----------------------------------------------------------------------------
(* ClientThread.run() and the network *)

Connect(c) ==
    /\ client[c] = "new" /\ bound
    /\ client' = [client EXCEPT ![c] = "connected"]
    /\ backlog' = Append(backlog, c)
    /\ UNCHANGED <<bound, arrived, ended, registered, selectedKeys, read, printVars>>

\* Nobody listens: connect() throws, and the thread ends.
Refused(c) ==
    /\ client[c] = "new" /\ ~bound
    /\ client' = [client EXCEPT ![c] = "refused"]
    /\ UNCHANGED <<bound, backlog, arrived, ended, registered, selectedKeys, read,
                   printVars>>

\* write() takes the whole text, and the channel is closed.
WriteAndClose(c) ==
    /\ client[c] = "connected"
    /\ client' = [client EXCEPT ![c] = "closed"]
    /\ UNCHANGED <<bound, backlog, arrived, ended, registered, selectedKeys, read,
                   printVars>>

Client(c) == Connect(c) \/ Refused(c) \/ WriteAndClose(c)

Arrive(c) ==
    /\ client[c] = "closed" /\ c \notin ended
    /\ IF arrived[c] < Pieces
       THEN arrived' = [arrived EXCEPT ![c] = @ + 1] /\ UNCHANGED ended
       ELSE ended' = ended \cup {c} /\ UNCHANGED arrived
    /\ UNCHANGED <<bound, client, backlog, registered, selectedKeys, read, printVars>>

-----------------------------------------------------------------------------
(* ServerThread.run() and server() *)

Bind ==
    /\ ~bound
    /\ bound' = TRUE
    /\ UNCHANGED <<clientVars, backlog, registered, selectedKeys, read, printVars>>

Readable == {c \in registered : read[c] < arrived[c] \/ c \in ended}
Acceptable == IF backlog = <<>> THEN {} ELSE {None}

\* A select() that finds nothing changes nothing and is left out.
Select ==
    /\ bound /\ selectedKeys = {}
    /\ Readable \cup Acceptable # {}
    /\ selectedKeys' = Readable \cup Acceptable
    /\ UNCHANGED <<clientVars, bound, backlog, registered, read, printVars>>

AcceptAll ==                     \* slip: the connections behind the first are forgotten
    /\ None \in selectedKeys
    /\ registered' = registered \cup {Head(backlog)}
    /\ backlog' = <<>>
    /\ selectedKeys' = selectedKeys \ {None}
    /\ UNCHANGED <<clientVars, bound, read, printVars>>

Accept ==
    /\ None \in selectedKeys
    /\ registered' = registered \cup {Head(backlog)}
    /\ backlog' = Tail(backlog)
    /\ selectedKeys' = selectedKeys \ {None}
    /\ UNCHANGED <<clientVars, bound, read, printVars>>

Flipped(c) == byteBuffer \o [i \in 1 .. arrived[c] - read[c] |-> <<c, read[c] + i>>]

Garbage == <<None, 0>>

\* The bytes that are next to each other from one to the other
Connected(bytes, first, last) ==
    \A k \in first .. last - 1 : bytes[k + 1] = <<bytes[k][1], bytes[k][2] + 1>>

\* The piece is among whole characters: from the beginning of one to the end of one.
IsWhole(bytes, j) ==
    \E first \in 1 .. j, last \in j .. Len(bytes) :
        /\ Connected(bytes, first, last)
        /\ bytes[first][2] - 1 \notin Inside /\ bytes[last][2] \notin Inside

\* new String(bytes), piece by piece
Decode(bytes) ==
    [j \in 1 .. Len(bytes) |-> IF IsWhole(bytes, j) THEN bytes[j] ELSE Garbage]

ReadUncleared(c) ==              \* slip: the buffer is not cleared
    /\ c \in selectedKeys /\ read[c] < arrived[c]
    /\ read' = [read EXCEPT ![c] = arrived[c]]
    /\ printed' = [printed EXCEPT ![c] = @ \o Decode(Flipped(c))]
    /\ cut' = [cut EXCEPT ![c] = @ \cup ({arrived[c]} \cap Inside)]
    /\ byteBuffer' = Flipped(c)
    /\ selectedKeys' = selectedKeys \ {c}
    /\ UNCHANGED <<clientVars, bound, backlog, registered>>

\* read(), flip(), get(), clear(): whatever has arrived by now is printed.
Read(c) ==
    /\ c \in selectedKeys /\ read[c] < arrived[c]
    /\ read' = [read EXCEPT ![c] = arrived[c]]
    /\ printed' = [printed EXCEPT ![c] = @ \o Decode(Flipped(c))]
    /\ cut' = [cut EXCEPT ![c] = @ \cup ({arrived[c]} \cap Inside)]
    /\ byteBuffer' = <<>>
    /\ selectedKeys' = selectedKeys \ {c}
    /\ UNCHANGED <<clientVars, bound, backlog, registered>>

\* read() gives -1.
Close(c) ==
    /\ c \in selectedKeys /\ read[c] = arrived[c]
    /\ registered' = registered \ {c}
    /\ selectedKeys' = selectedKeys \ {c}
    /\ UNCHANGED <<clientVars, bound, backlog, read, printVars>>

Server == Bind \/ Select \/ Accept \/ \E c \in Clients : Read(c) \/ Close(c)

Next == Server \/ \E c \in Clients : Client(c) \/ Arrive(c)

Spec == Init /\ [][Next]_vars

\* All threads run, and the network delivers.
Fairness ==
    /\ WF_vars(Server)
    /\ \A c \in Clients : WF_vars(Client(c)) /\ WF_vars(Arrive(c))

FairSpec == Spec /\ Fairness

-----------------------------------------------------------------------------
(* Properties *)

\* Piece i of a text belongs to a character that one of the cuts divides: all the
\* pieces between the two end inside that character.
IsCut(i, cuts) == \E k \in cuts : (i .. k) \cup (k .. i - 1) \subseteq Inside

\* The first n pieces of c's text, as they are printed
Shown(c, n, cuts) == [i \in 1 .. n |-> IF IsCut(i, cuts) THEN Garbage ELSE <<c, i>>]

\* The clients share the buffer, and still what is printed for one is its own text
\* as far as it was read, piece by piece, and nothing of another's; garbage stands
\* for the characters that a read() has cut, and for no others.
NothingIsMixed == \A c \in Clients : printed[c] = Shown(c, read[c], cut[c])

\* A client that came after bind() has its text printed, but for the characters
\* that a read() has cut, and its channel does not stay with the selector.
EveryTextIsPrinted ==
    \A c \in Clients :
        <>[](client[c] = "refused" \/ 
              (printed[c] = Shown(c, Pieces, cut[c]) /\ c \notin registered))

-----------------------------------------------------------------------------
(* The invariant that is inductive *)

\* The server has read what has arrived, or less.
ReadsWhatArrives ==
    /\ arrived \in [Clients -> 0 .. Pieces] /\ read \in [Clients -> 0 .. Pieces]
    /\ \A c \in Clients : read[c] <= arrived[c]

\* A text is cut within what was read of it; what was read ends inside a character
\* only if that is a cut.
CutsAreRead ==
    /\ cut \in [Clients -> SUBSET Inside]
    /\ \A c \in Clients :
          /\ \A k \in cut[c] : k <= read[c]
          /\ read[c] \in Inside => read[c] \in cut[c]

\* Between two calls of read() the buffer is empty, and all that was read is printed.
PrintsWhatIsRead ==
    /\ byteBuffer = <<>>
    /\ printed = [c \in Clients |-> Shown(c, read[c], cut[c])]

IInv == ReadsWhatArrives /\ CutsAreRead /\ PrintsWhatIsRead
===============================================================================
