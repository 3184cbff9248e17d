--------------------------- MODULE MatchaThreadPool ---------------------------
(***************************************************************************)
(* com.matcha.threadtest.pool.MatchaThreadPool.  Workers take jobs from a  *)
(* bounded LinkedBlockingQueue and run them.  submit(Runnable) add()s to   *)
(* the queue, which throws when the queue is full; submit(Callable) does   *)
(* the same with a FutureTask, which keeps the exception of its job for    *)
(* the future.  An exception of a plain Runnable leaves Worker.run() and   *)
(* ends the worker's thread; nobody replaces it.                           *)
(*                                                                         *)
(* The repository has no user of the pool, so the callers are any: threads *)
(* outside of it, and the jobs themselves.  A job here may submit jobs,    *)
(* interrupt its own thread, and end with or without an exception.  The id *)
(* of a Job is read by nobody; jobs are numbered as they are accepted.     *)
(***************************************************************************)
EXTENDS Integers, Sequences, FiniteSets

CONSTANTS
    NumWorkers,     \* 5 in the code
    Capacity,       \* 5 in the code
    MaxJobs         \* bound: jobs that are ever accepted

ASSUME WorkersAssumption == NumWorkers \in Nat \ {0}
ASSUME CapacityAssumption == Capacity \in Nat \ {0}
ASSUME MaxJobsAssumption == MaxJobs \in Nat

Workers == 1 .. NumWorkers
Jobs == 1 .. MaxJobs

VARIABLES
    jobQueue,
    worker,     \* where a worker is
    job,        \* the local job of a worker, 0 for null
    interrupt,  \* the interrupt status of its thread
    submitted,  \* number of jobs accepted
    tasks,      \* those of them that are FutureTasks
    over,       \* history: jobs that were run to their end
    broken      \* history: those that ended their worker

vars == <<jobQueue, worker, job, interrupt, submitted, tasks, over, broken>>

Init ==
    /\ jobQueue = <<>>
    /\ worker = [w \in Workers |-> "take"]
    /\ job = [w \in Workers |-> 0]
    /\ interrupt = [w \in Workers |-> FALSE]
    /\ submitted = 0
    /\ tasks = {} /\ over = {} /\ broken = {}

-----------------------------------------------------------------------------
(* submit(Runnable) and submit(Callable) *)

HasRoom == Len(jobQueue) < Capacity

AddPastEnd(isTask) ==            \* slip: the queue has no bound
    /\ submitted < MaxJobs
    /\ submitted' = submitted + 1
    /\ jobQueue' = Append(jobQueue, submitted + 1)
    /\ tasks' = IF isTask THEN tasks \cup {submitted + 1} ELSE tasks

\* jobQueue.add(new Job(runnable)), when there is room
Add(isTask) ==
    /\ submitted < MaxJobs /\ HasRoom
    /\ submitted' = submitted + 1
    /\ jobQueue' = Append(jobQueue, submitted + 1)
    /\ tasks' = IF isTask THEN tasks \cup {submitted + 1} ELSE tasks

\* By a thread outside of the pool, which is told when the queue is full.
Submit(isTask) ==
    /\ Add(isTask)
    /\ UNCHANGED <<worker, job, interrupt, over, broken>>

\* By the job that worker w runs.
SubmitFromJob(w, isTask) ==
    /\ worker[w] = "run"
    /\ Add(isTask)
    /\ UNCHANGED <<worker, job, interrupt, over, broken>>

-----------------------------------------------------------------------------
(* Worker.run() *)

PeekJob(w) ==                    \* slip: peek() where take() is
    /\ worker[w] = "take" /\ ~interrupt[w] /\ jobQueue # <<>>
    /\ job' = [job EXCEPT ![w] = Head(jobQueue)]
    /\ worker' = [worker EXCEPT ![w] = "run"]
    /\ UNCHANGED <<jobQueue, interrupt, submitted, tasks, over, broken>>

Take(w) ==
    /\ worker[w] = "take" /\ ~interrupt[w] /\ jobQueue # <<>>
    /\ job' = [job EXCEPT ![w] = Head(jobQueue)]
    /\ jobQueue' = Tail(jobQueue)
    /\ worker' = [worker EXCEPT ![w] = "run"]
    /\ UNCHANGED <<interrupt, submitted, tasks, over, broken>>

\* take() throws InterruptedException: the worker prints it and ends.
TakeInterrupted(w) ==
    /\ worker[w] = "take" /\ interrupt[w]
    /\ interrupt' = [interrupt EXCEPT ![w] = FALSE]
    /\ worker' = [worker EXCEPT ![w] = "interrupted"]
    /\ UNCHANGED <<jobQueue, job, submitted, tasks, over, broken>>

InterruptSelf(w) ==
    /\ worker[w] = "run" /\ ~interrupt[w]
    /\ interrupt' = [interrupt EXCEPT ![w] = TRUE]
    /\ UNCHANGED <<jobQueue, worker, job, submitted, tasks, over, broken>>

EndJob(w, next) ==
    /\ worker[w] = "run"
    /\ over' = over \cup {job[w]}
    /\ job' = [job EXCEPT ![w] = 0]
    /\ worker' = [worker EXCEPT ![w] = next]
    /\ UNCHANGED <<jobQueue, interrupt, submitted, tasks>>

FinishForGood(w) ==              \* slip: the loop is forgotten
    EndJob(w, "ended") /\ UNCHANGED broken

\* runnable.run() returns; of a FutureTask it always does.
Finish(w) == EndJob(w, "take") /\ UNCHANGED broken

BreakAny(w) ==                   \* slip: submit(Callable) without a FutureTask
    /\ EndJob(w, "broken")
    /\ broken' = broken \cup {job[w]}

\* A plain Runnable throws, for instance because its own submit() was refused.
Break(w) ==
    /\ job[w] \notin tasks
    /\ EndJob(w, "broken")
    /\ broken' = broken \cup {job[w]}

Worker(w) == Take(w) \/ TakeInterrupted(w) \/ Finish(w) \/ Break(w)

Next ==
    \/ \E isTask \in BOOLEAN : Submit(isTask)
    \/ \E w \in Workers, isTask \in BOOLEAN : SubmitFromJob(w, isTask)
    \/ \E w \in Workers : Worker(w) \/ InterruptSelf(w)

Spec == Init /\ [][Next]_vars

\* Every worker runs, and every job ends.
Fairness == \A w \in Workers : WF_vars(Worker(w))

FairSpec == Spec /\ Fairness

-----------------------------------------------------------------------------
(* Properties *)

TypeOK ==
    /\ jobQueue \in Seq(Jobs) /\ Len(jobQueue) <= Capacity
    /\ worker \in [Workers -> {"take", "run", "interrupted", "broken"}]
    /\ job \in [Workers -> Jobs \cup {0}]
    /\ interrupt \in [Workers -> BOOLEAN]
    /\ submitted \in 0 .. MaxJobs
    /\ tasks \subseteq Jobs /\ over \subseteq Jobs /\ broken \subseteq Jobs

Broken == {w \in Workers : worker[w] = "broken"}
Live == {w \in Workers : worker[w] \notin {"interrupted", "broken"}}
Begun == submitted - Len(jobQueue)
Running == {w \in Workers : worker[w] = "run"}
RunningJobs == {job[w] : w \in Running}

\* A FutureTask never costs a worker its thread, a Runnable costs at most one,
\* and no job is lost: the jobs that have left the queue are over or running.
OnlyRunnablesBreak ==
    /\ broken \subseteq over \ tasks /\ Cardinality(broken) = Cardinality(Broken)
    /\ over \cap RunningJobs = {}
    /\ over \cup RunningJobs = 1 .. Begun

\* The inductive invariant: the queue holds the accepted jobs that were not
\* begun, in their order; a worker has a job of its own exactly while it runs.
QueueInv ==
    /\ Len(jobQueue) <= submitted
    /\ \A i \in 1 .. Len(jobQueue) : jobQueue[i] = Begun + i
    /\ tasks \subseteq 1 .. submitted
JobInv ==
    /\ \A w \in Running : job[w] \in 1 .. Begun
    /\ \A v, w \in Running : job[v] = job[w] => v = w
IInv == TypeOK /\ QueueInv /\ JobInv /\ OnlyRunnablesBreak

\* The pool keeps its promise: jobs are started once, in the order in which
\* they were accepted, by live workers, and the queue never exceeds its bound.
Pool == INSTANCE JobPool WITH
    Size <- NumWorkers,
    live <- Cardinality(Live), accepted <- submitted,
    begun <- Begun, running <- RunningJobs
PoolSpec == Pool!Spec

\* As long as a worker is left, every accepted job is begun.
EveryJobBegins ==
    \A j \in Jobs : (submitted >= j) ~> (Begun >= j \/ Live = {})
==============================================================================
