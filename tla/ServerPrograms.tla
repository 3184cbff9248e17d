---------------------------- MODULE ServerPrograms ----------------------------
(* The servers: the datagram server with its clients, the Session of the NIO  *)
(* application server, the TestServer with its clients, and the server of     *)
(* TestSelectStatus with its clients.  They share nothing: each behaviour     *)
(* runs one of them.  The datagram server is the module extended, the others  *)
(* are instances.                                                             *)
EXTENDS DatagramServer, FiniteSets

CONSTANTS
    Threads, Calls,                             \* Session
    ServerClients, Workers, None, Crashing,     \* StartServer
    SelectClients, Pieces, Inside               \* ServerThread

VARIABLES
    program,
    at, method, reads, writer, waiting, callsMade,
    client, request, answer, listening, accepting, tasks, worker, task, open, abandoned,
    stranded, made, entered, failures,
    bound, connection, backlog, arrived, ended, registered, selectedKeys, read, byteBuffer,
    shown, cut

datagramVars == vars
sessionVars == <<at, method, reads, writer, waiting, callsMade>>
serverVars == <<client, request, answer, listening, accepting, tasks, worker, task, open,
                abandoned, stranded, made, entered, failures>>
selectVars == <<bound, connection, backlog, arrived, ended, registered, selectedKeys, read,
                byteBuffer, shown, cut>>

Sessions == INSTANCE Session
Server == INSTANCE StartServer WITH Clients <- ServerClients, dropped <- abandoned
Select == INSTANCE ServerThread
          WITH Clients <- SelectClients, client <- connection, printed <- shown

ASSUME SessionsAssumption == Sessions!CallsAssumption
ASSUME ServerAssumptions == Server!NoneAssumption /\ Server!CrashingAssumption
ASSUME SelectAssumptions == Select!NoneAssumption /\ Select!InsideAssumption

ProgramsInit ==
    /\ program \in {"datagrams", "session", "server", "select"}
    /\ Init /\ Sessions!Init /\ Server!Init /\ Select!Init

RunDatagrams ==
    /\ program = "datagrams" /\ Next
    /\ UNCHANGED <<program, sessionVars, serverVars, selectVars>>

RunSession ==
    /\ program = "session" /\ Sessions!Next
    /\ UNCHANGED <<program, datagramVars, serverVars, selectVars>>

RunServer ==
    /\ program = "server" /\ Server!Next
    /\ UNCHANGED <<program, datagramVars, sessionVars, selectVars>>

RunSelect ==
    /\ program = "select" /\ Select!Next
    /\ UNCHANGED <<program, datagramVars, sessionVars, serverVars>>

ProgramsNext == RunDatagrams \/ RunSession \/ RunServer \/ RunSelect

programsVars == <<program, datagramVars, sessionVars, serverVars, selectVars>>

\* The Fairness of the program that runs, action by action.
ProgramsSpec ==
    /\ ProgramsInit /\ [][ProgramsNext]_programsVars
    /\ WF_datagramVars(program = "datagrams" /\ Receive)
    /\ WF_datagramVars(program = "datagrams" /\ Deliver)
    /\ \A c \in Clients :
          WF_datagramVars(program = "datagrams" /\ sent[c] % 4 # 0 /\ Send(c))
    /\ \A t \in Threads : WF_sessionVars(program = "session" /\ Sessions!Step(t))
    /\ \A c \in ServerClients : WF_serverVars(program = "server" /\ Server!Client(c))
    /\ \A w \in Workers : WF_serverVars(program = "server" /\ Server!Worker(w))
    /\ WF_serverVars(program = "server" /\ Server!Accept)
    /\ WF_serverVars(program = "server" /\ Server!Exit)
    /\ WF_selectVars(program = "select" /\ Select!Server)
    /\ \A c \in SelectClients :
          /\ WF_selectVars(program = "select" /\ Select!Client(c))
          /\ WF_selectVars(program = "select" /\ Select!Arrive(c))

-----------------------------------------------------------------------------
(* Properties: those of the datagram server's session are its own, the others  *)
(* are put together here                                                       *)

\* The variables have their types; a put() is alone in the map of the Session;
\* a client of TestServer ends without an answer only when something has failed,
\* and a socket is left open only by a task that got null for a servlet, and then
\* left alone; what the selector server prints for a client is its text as far as
\* it was read, with garbage for the characters that a read() has cut.
ServersOK ==
    /\ TypeOK /\ Sessions!TypeOK /\ Server!TypeOK
    /\ Sessions!MapIsGuarded
    /\ Server!AnsweredUnlessFailed /\ Server!NoSocketLeft /\ Server!StrandedIsAlone
    /\ Select!NothingIsMixed

\* Session: only the timed get() leaves a lock behind; then a put() without a time
\* limit never returns, and with one first in the queue the session is closed to
\* all the others.
LeakIsForGood ==
    Sessions!OnlyTimedGetLeaks /\ Sessions!BlockedForGood /\ Sessions!ClosedForGood

\* Whoever turns to a server is served: the run that began a session, unless a
\* datagram of it was lost; a call of the Session, one of no more than Calls, unless
\* a lock was left behind; every client of TestServer, one way or the other, but for
\* one whose socket was left by a task that got null for a servlet; and every client
\* of the selector server that was not refused.
EveryCallEnds ==
    /\ program = "datagrams" => SessionIsServed
    /\ program = "session" => Sessions!Returns
    /\ program = "server" => Server!EveryClientEnds
    /\ program = "select" => Select!EveryTextIsPrinted
===============================================================================
