----------------------------- MODULE StartServer -----------------------------
(***************************************************************************)
(* The TestServer: an accept loop that hands sockets to a pool of threads, *)
(* the SimulateServlet that answers one line with one line, and the        *)
(* SimulateClients that send a line and read one.  The pool has a queue    *)
(* without bound.  A client may crash at any time; accept() may fail, and  *)
(* then the server stops listening, drops what waits in the queue, and     *)
(* leaves the open sockets to the end of the process.                      *)
(*                                                                         *)
(* SimulateServlet.getInstance() reads a field twice that is not volatile. *)
(* A thread that has not been in createInstance() may find the servlet at  *)
(* the first read and null at the second; its task then ends with a        *)
(* NullPointerException before dispatchRequest() is entered, and the code  *)
(* never closes the socket.  Or it sees a servlet without its Random, and  *)
(* the NullPointerException comes within dispatchRequest().  The locks of  *)
(* the queue and of System.out may rule this out for a thread that they    *)
(* order behind the first one; the model does not count on them.           *)
(***************************************************************************)
EXTENDS Integers, Sequences, SequencesExt

CONSTANTS
    Clients, Workers, None,
    Crashing    \* bound: the clients that may crash

NoneAssumption == None \notin Clients
CrashingAssumption == Crashing \subseteq Clients

VARIABLES
    client,     \* where a client is, and how it has ended
    request,    \* what the server can read from a client: nothing, a line, the end
    answer,     \* what the client can read: nothing, a line, the end
    listening,  \* the ServerSocket is open
    accepting,  \* connected and not accepted
    tasks,      \* the queue of the pool
    worker,     \* where a thread of the pool is
    task,       \* the client it serves
    open,       \* the accepted sockets that the server has not closed
    dropped,    \* the sockets of the tasks that shutdownNow() has dropped
    stranded,   \* those of the tasks that got null for a servlet
    made,       \* the servlet exists
    entered,    \* the threads that have been in createInstance()
    failures    \* history: what has gone wrong on the server

vars == <<client, request, answer, listening, accepting, tasks, worker, task, open,
          dropped, stranded, made, entered, failures>>

clientVars == <<client, request>>
acceptVars == <<listening, accepting, tasks, dropped>>
servletVars == <<made, entered, stranded>>

Init ==
    /\ client = [c \in Clients |-> "new"]
    /\ request = [c \in Clients |-> "nothing"] /\ answer = [c \in Clients |-> "nothing"]
    /\ listening = TRUE /\ accepting = {} /\ tasks = <<>>
    /\ worker = [w \in Workers |-> "idle"] /\ task = [w \in Workers |-> None]
    /\ open = {} /\ dropped = {} /\ stranded = {}
    /\ made = FALSE /\ entered = {}
    /\ failures = {}

ClientTo(c, place) == client' = [client EXCEPT ![c] = place]
WorkerTo(w, place) == worker' = [worker EXCEPT ![w] = place]

-----------------------------------------------------------------------------
(* SimulateClient.sendRequest() *)

Connect(c) ==
    /\ client[c] = "new"
    /\ IF listening THEN accepting' = accepting \cup {c} /\ ClientTo(c, "connected")
                    ELSE ClientTo(c, "failed") /\ UNCHANGED accepting
    /\ UNCHANGED <<request, answer, listening, tasks, dropped, worker, task, open,
                   servletVars, failures>>

SendRequest(c) ==
    /\ client[c] = "connected"
    /\ request' = [request EXCEPT ![c] = "line"]
    /\ ClientTo(c, "sent")
    /\ UNCHANGED <<answer, acceptVars, worker, task, open, servletVars, failures>>

\* readLine() returns the answer; at the end of the stream null, or it throws.
ReadAnswer(c) ==
    /\ client[c] = "sent" /\ answer[c] # "nothing"
    /\ ClientTo(c, IF answer[c] = "line" THEN "answered" ELSE "failed")
    /\ UNCHANGED <<request, answer, acceptVars, worker, task, open, servletVars, failures>>

Crash(c) ==
    /\ c \in Crashing /\ client[c] \in {"connected", "sent"}
    /\ ClientTo(c, "crashed")
    /\ request' = [request EXCEPT ![c] = IF @ = "line" THEN @ ELSE "end"]
    /\ UNCHANGED <<answer, acceptVars, worker, task, open, servletVars, failures>>

Client(c) == Connect(c) \/ SendRequest(c) \/ ReadAnswer(c)

-----------------------------------------------------------------------------
(* StartServer.main() *)

\* accept() and submit()
Accept ==
    /\ listening
    /\ \E c \in accepting :
          /\ accepting' = accepting \ {c}
          /\ tasks' = Append(tasks, c)
          /\ open' = open \cup {c}
    /\ UNCHANGED <<clientVars, answer, listening, dropped, worker, task, servletVars, failures>>

\* What a client finds whose socket was closed: no answer comes any more.
Closed(closing) ==
    [c \in Clients |-> IF c \in closing /\ answer[c] = "nothing" THEN "end" ELSE answer[c]]

\* The ServerSocket is closed, and shutdownNow() empties the queue.  The threads
\* of the pool are interrupted, which a read from a socket does not notice.
AcceptFails ==
    /\ listening
    /\ listening' = FALSE
    /\ answer' = Closed(accepting) /\ accepting' = {}
    /\ dropped' = ToSet(tasks) /\ tasks' = <<>>
    /\ failures' = failures \cup {"accept"}
    /\ UNCHANGED <<clientVars, worker, task, open, servletVars>>

\* The last thread has ended: the process ends and its sockets are closed.
Exit ==
    /\ ~listening /\ \A w \in Workers : worker[w] = "idle"
    /\ open # {}
    /\ answer' = Closed(open) /\ open' = {} /\ dropped' = {} /\ stranded' = {}
    /\ UNCHANGED <<clientVars, listening, accepting, tasks, worker, task, made, entered,
                   failures>>

\* The garbage collector may close a socket that null has left, and need not.
Collect ==
    /\ \E c \in stranded :
          /\ stranded' = stranded \ {c} /\ open' = open \ {c}
          /\ answer' = Closed({c})
    /\ UNCHANGED <<clientVars, acceptVars, worker, task, made, entered, failures>>

-----------------------------------------------------------------------------
(* DispatchRequestRunnable.run() *)

Begin(w) ==
    /\ worker[w] = "idle" /\ tasks # <<>>
    /\ task' = [task EXCEPT ![w] = Head(tasks)]
    /\ tasks' = Tail(tasks)
    /\ WorkerTo(w, "getInstance")
    /\ UNCHANGED <<clientVars, answer, listening, accepting, dropped, open, servletVars, failures>>

CreateInstance(w) ==
    /\ worker[w] = "getInstance" /\ w \notin entered
    /\ made' = TRUE /\ entered' = entered \cup {w}
    /\ WorkerTo(w, "readLine")
    /\ UNCHANGED <<clientVars, answer, acceptVars, task, open, stranded, failures>>

FindInstance(w) ==
    /\ worker[w] = "getInstance" /\ made
    /\ WorkerTo(w, "readLine")
    /\ UNCHANGED <<clientVars, answer, acceptVars, task, open, servletVars, failures>>

\* The second read gives null: the exception is kept in the Future of submit(),
\* which nobody looks at, and the thread takes its next task.
FindNull(w) ==
    /\ worker[w] = "getInstance" /\ made /\ w \notin entered
    /\ stranded' = stranded \cup {task[w]} /\ failures' = failures \cup {"null"}
    /\ WorkerTo(w, "idle") /\ task' = [task EXCEPT ![w] = None]
    /\ UNCHANGED <<clientVars, answer, acceptVars, open, made, entered>>

\* readLine() returns at the end of the stream too.
ReadLine(w) ==
    /\ worker[w] = "readLine" /\ request[task[w]] # "nothing"
    /\ WorkerTo(w, "answer")
    /\ UNCHANGED <<clientVars, answer, acceptVars, task, open, servletVars, failures>>

CloseNothing(w) ==               \* slip: the sockets are left to the garbage collector
    /\ WorkerTo(w, "idle") /\ task' = [task EXCEPT ![w] = None]
    /\ UNCHANGED <<open, clientVars, acceptVars, servletVars>>

\* The finally block of dispatchRequest()
Close(w) ==
    /\ WorkerTo(w, "idle") /\ task' = [task EXCEPT ![w] = None]
    /\ open' = open \ {task[w]}
    /\ UNCHANGED <<clientVars, acceptVars, servletVars>>

AnswerUnflushed(w) ==            \* slip: without flush() the reader closes the socket first
    /\ worker[w] = "answer"
    /\ answer' = Closed({task[w]})
    /\ UNCHANGED failures
    /\ Close(w)

\* To a client that has crashed the answer may be lost or throw.
Answer(w) ==
    /\ worker[w] = "answer"
    /\ answer' = [answer EXCEPT ![task[w]] = "line"]
    /\ UNCHANGED failures
    /\ Close(w)

AnswerQuietly(w) ==              \* slip: the NullPointerException skips the finally block
    /\ worker[w] = "answer" /\ w \notin entered
    /\ failures' = failures \cup {"unseen"}
    /\ WorkerTo(w, "idle") /\ task' = [task EXCEPT ![w] = None]
    /\ UNCHANGED <<answer, open, clientVars, acceptVars, servletVars>>

\* The Random of the servlet is null.
AnswerFails(w) ==
    /\ worker[w] = "answer" /\ w \notin entered
    /\ failures' = failures \cup {"unseen"}
    /\ answer' = Closed({task[w]})
    /\ Close(w)

Worker(w) == Begin(w) \/ CreateInstance(w) \/ FindInstance(w) \/ FindNull(w)
             \/ ReadLine(w) \/ Answer(w) \/ AnswerFails(w)

Next ==
    \/ \E c \in Clients : Client(c) \/ Crash(c)
    \/ Accept \/ AcceptFails \/ Exit \/ Collect
    \/ \E w \in Workers : Worker(w)

Spec == Init /\ [][Next]_vars

\* Clients and threads run, and the main thread accepts; failures need not come.
Fairness ==
    /\ \A c \in Clients : WF_vars(Client(c))
    /\ \A w \in Workers : WF_vars(Worker(w))
    /\ WF_vars(Accept) /\ WF_vars(Exit)

FairSpec == Spec /\ Fairness

-----------------------------------------------------------------------------
(* Properties *)

TypeOK ==
    /\ client \in [Clients -> {"new", "connected", "sent", "answered", "failed", "crashed"}]
    /\ request \in [Clients -> {"nothing", "line", "end"}]
    /\ answer \in [Clients -> {"nothing", "line", "end"}]
    /\ listening \in BOOLEAN /\ made \in BOOLEAN
    /\ accepting \subseteq Clients /\ tasks \in Seq(Clients)
    /\ open \subseteq Clients /\ dropped \subseteq Clients /\ stranded \subseteq Clients
    /\ worker \in [Workers -> {"idle", "getInstance", "readLine", "answer"}]
    /\ task \in [Workers -> Clients \cup {None}]
    /\ entered \subseteq Workers /\ failures \subseteq {"accept", "unseen", "null"}

\* A client ends without an answer only when accept() has failed, or a thread has
\* used the servlet without seeing it, or all of it.
AnsweredUnlessFailed == \A c \in Clients : client[c] = "failed" => failures # {}

\* The server keeps a socket open only while its request waits or is served, or
\* was dropped, or because getInstance() gave its task null: no path through
\* dispatchRequest() leaves one behind.
NoSocketLeft ==
    open \subseteq ToSet(tasks) \cup dropped \cup {task[w] : w \in Workers} \cup stranded

\* No thread comes back to a socket that null has left: it stays open, in nobody's
\* hands, and its client reads nothing.
StrandedIsAlone ==
    \A c \in stranded :
        /\ c \in open /\ answer[c] = "nothing"
        /\ c \notin ToSet(tasks) /\ \A w \in Workers : task[w] # c

\* Every client ends, one whose request was dropped with the server process; only
\* one whose socket null has left may wait for good, as long as the server listens.
EveryClientEnds ==
    \A c \in Clients :
        <>[](\/ client[c] \in {"answered", "failed", "crashed"}
             \/ c \in stranded /\ listening /\ client[c] = "sent")

-----------------------------------------------------------------------------
(* The invariant that is inductive *)

\* A thread of the pool has a task while it is not idle; sockets are dropped when
\* the server does not listen any more.
TaskInv ==
    /\ \A w \in Workers :
          IF worker[w] = "idle" THEN task[w] = None ELSE task[w] \in Clients
    /\ listening => dropped = {}

\* What ends the loop, leaves a socket, or closes one without an answer, is a failure.
EndsByFailure ==
    /\ ~listening \/ stranded # {} => failures # {}
    /\ \A c \in Clients : answer[c] = "end" => failures # {}

\* A client waits for accept(), or its socket is open, or neither; what it reads
\* comes only when it has no place any more.
OnePlace ==
    /\ accepting \cap open = {} /\ stranded \subseteq open
    /\ \A c \in accepting \cup open : client[c] # "new"
    /\ \A c \in Clients : client[c] = "new" \/ c \in accepting \cup open => answer[c] = "nothing"

\* A task is in the queue once, or with one thread.
OneTask ==
    /\ \A i \in 1 .. Len(tasks) : tasks[i] \in open \ stranded
    /\ \A i, j \in 1 .. Len(tasks) : tasks[i] = tasks[j] => i = j
    /\ \A w \in Workers : worker[w] # "idle" =>
          /\ task[w] \in open \ stranded
          /\ \A i \in 1 .. Len(tasks) : tasks[i] # task[w]
          /\ \A v \in Workers \ {w} : task[v] # task[w]
    /\ ~listening => tasks = <<>>

IInv ==
    /\ TypeOK /\ TaskInv /\ EndsByFailure
    /\ AnsweredUnlessFailed /\ NoSocketLeft /\ OnePlace /\ OneTask
===============================================================================
