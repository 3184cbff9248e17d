---------------------------- MODULE ProgramsProofs ----------------------------
(***************************************************************************)
(* Proofs about MatchaThreadPool, for every number of workers, every       *)
(* capacity of the queue and every number of jobs, and about the other     *)
(* programs of Programs.                                                   *)
(***************************************************************************)
EXTENDS Programs, SequenceTheorems, FiniteSetTheorems, TLAPS

-----------------------------------------------------------------------------
(* Counting *)

\* The abstract pool counts as the detailed one does.
LEMMA SameCount == \A S : Pool!Cardinality(S) = Cardinality(S)
BY Zenon DEF Pool!Cardinality, Cardinality

LEMMA FiniteSets ==
    ASSUME TypeOK
    PROVE  /\ IsFiniteSet(Workers) /\ Cardinality(Workers) = NumWorkers
           /\ IsFiniteSet(Live) /\ Cardinality(Live) \in Nat
           /\ IsFiniteSet(Broken) /\ Cardinality(Broken) \in Nat
           /\ IsFiniteSet(broken) /\ Cardinality(broken) \in Nat
<1>1. 1 \in Int /\ NumWorkers \in Int /\ NumWorkers > 0 /\ MaxJobs \in Int
  BY WorkersAssumption, MaxJobsAssumption
<1>2. IsFiniteSet(Workers) /\ Cardinality(Workers) = NumWorkers
  BY <1>1, FS_Interval DEF Workers
<1>3. IsFiniteSet(Jobs)
  BY <1>1, FS_Interval, Zenon DEF Jobs
<1>4. Live \in SUBSET Workers /\ Broken \in SUBSET Workers /\ broken \in SUBSET Jobs
  BY DEF Live, Broken, TypeOK
<1>5. IsFiniteSet(Live) /\ IsFiniteSet(Broken) /\ IsFiniteSet(broken)
  BY <1>2, <1>3, <1>4, FS_Subset, Zenon
<1> QED
  BY <1>2, <1>5, FS_CardinalityType

\* A worker that waits for a job leaves fewer jobs running than threads alive.
LEMMA IdleWorker ==
    ASSUME IInv, NEW w \in Workers, worker[w] = "take"
    PROVE  /\ w \in Live
           /\ IsFiniteSet(RunningJobs)
           /\ Cardinality(RunningJobs) < Cardinality(Live)
<1> DEFINE f == [v \in Running |-> job[v]]
<1>1. w \in Live /\ w \notin Running /\ Running \in SUBSET Live
  BY DEF Live, Running
<1>2. IsFiniteSet(Live) /\ Cardinality(Live) \in Nat
  BY FiniteSets DEF IInv
<1>3. IsFiniteSet(Running) /\ Cardinality(Running) <= Cardinality(Live)
      /\ Cardinality(Running) # Cardinality(Live)
  BY <1>1, <1>2, FS_Subset
<1>4. f \in Surjection(Running, RunningJobs)
  BY DEF Surjection, RunningJobs
<1> HIDE DEF f
<1>5. IsFiniteSet(RunningJobs) /\ Cardinality(RunningJobs) <= Cardinality(Running)
  BY <1>3, <1>4, FS_Surjection
<1>6. Cardinality(RunningJobs) \in Nat /\ Cardinality(Running) \in Nat
  BY <1>3, <1>5, FS_CardinalityType
<1> QED
  BY <1>1, <1>2, <1>3, <1>5, <1>6

\* A live worker that ends for good leaves one live worker less.
LEMMA OneLess ==
    ASSUME TypeOK, NEW w \in Live, NEW next \in {"interrupted", "broken"},
           worker' = [worker EXCEPT ![w] = next]
    PROVE  /\ Live' = Live \ {w}
           /\ Cardinality(Live') = Cardinality(Live) - 1
           /\ Broken' = IF next = "broken" THEN Broken \cup {w} ELSE Broken
<1>1. Live' = Live \ {w}
  BY DEF Live, TypeOK
<1>2. Cardinality(Live \ {w}) = Cardinality(Live) - 1
  BY FiniteSets, FS_RemoveElement
<1>3. Broken' = IF next = "broken" THEN Broken \cup {w} ELSE Broken
  BY DEF Broken, Live, TypeOK
<1> QED
  BY <1>1, <1>2, <1>3

-----------------------------------------------------------------------------
(* One lemma per action: it keeps the invariant and is a step of the pool   *)
(* that was promised.                                                       *)

\* The numbers that the abstract pool sees.
LEMMA BegunType ==
    ASSUME IInv
    PROVE  /\ Len(jobQueue) \in Nat /\ submitted \in Nat /\ Begun \in Nat
           /\ Begun = submitted - Len(jobQueue) /\ Begun <= submitted
BY DEF IInv, TypeOK, QueueInv, Begun

LEMMA AddStep ==
    ASSUME IInv, NEW isTask \in BOOLEAN, Add(isTask),
           UNCHANGED <<worker, job, interrupt, over, broken>>
    PROVE  IInv' /\ Pool!Accept
<1>1. /\ submitted + 1 \in Jobs /\ submitted' = submitted + 1
      /\ submitted' \in 0 .. MaxJobs /\ Jobs \subseteq Nat
  BY BegunType, MaxJobsAssumption DEF Add, Jobs, IInv, TypeOK
<1>2. jobQueue \in Seq(Jobs) /\ jobQueue' = Append(jobQueue, submitted + 1)
  BY DEF IInv, TypeOK, Add
<1>3. /\ jobQueue' \in Seq(Jobs)
      /\ Len(jobQueue') = Len(jobQueue) + 1
      /\ \A i \in 1 .. Len(jobQueue) : jobQueue'[i] = jobQueue[i]
      /\ jobQueue'[Len(jobQueue) + 1] = submitted + 1
  BY <1>1, <1>2, AppendProperties
<1>4. Begun' = Begun /\ Len(jobQueue) < Capacity
  BY <1>1, <1>3, BegunType DEF Begun, Add, HasRoom
<1>5. /\ Running' = Running /\ RunningJobs' = RunningJobs
      /\ Live' = Live /\ Broken' = Broken
  BY DEF Running, RunningJobs, Live, Broken
<1>6. tasks' \subseteq tasks \cup {submitted + 1} /\ tasks' \subseteq 1 .. submitted'
  <2>1. tasks \subseteq 1 .. submitted /\ submitted \in Nat
    BY BegunType DEF IInv, QueueInv
  <2>2. tasks' \subseteq tasks \cup {submitted + 1}
    BY DEF Add
  <2>3. tasks \cup {submitted + 1} \subseteq 1 .. submitted + 1
    BY <2>1
  <2> QED
    BY <1>1, <2>2, <2>3
<1>7. TypeOK'
  <2>1. Len(jobQueue') <= Capacity
    BY <1>3, <1>4, BegunType, CapacityAssumption
  <2>2. tasks' \subseteq Jobs
    BY <1>1, <1>6 DEF IInv, TypeOK
  <2> QED
    BY <1>1, <1>3, <2>1, <2>2 DEF IInv, TypeOK
<1>8. QueueInv'
  <2>1. Len(jobQueue') <= submitted'
    BY <1>1, <1>3, BegunType
  <2>2. ASSUME NEW i \in 1 .. Len(jobQueue')
        PROVE  jobQueue'[i] = Begun + i
    <3>1. CASE i \in 1 .. Len(jobQueue)
      BY <1>3, <3>1 DEF IInv, QueueInv
    <3>2. CASE i = Len(jobQueue) + 1
      BY <1>3, <3>2, BegunType
    <3> QED
      BY <1>3, <3>1, <3>2, BegunType
  <2> QED
    BY <1>4, <1>6, <2>1, <2>2 DEF QueueInv
<1>9. JobInv'
  BY <1>4, <1>5 DEF IInv, JobInv
<1>10. OnlyRunnablesBreak'
  <2>1. submitted + 1 \notin over
    BY BegunType DEF IInv, OnlyRunnablesBreak
  <2>2. broken' \subseteq over' \ tasks'
    BY <1>6, <2>1 DEF IInv, OnlyRunnablesBreak
  <2> QED
    BY <1>4, <1>5, <2>2 DEF IInv, OnlyRunnablesBreak
<1>11. Pool!Accept
  BY <1>1, <1>4, <1>5, BegunType DEF Pool!Accept
<1> QED
  BY <1>7, <1>8, <1>9, <1>10, <1>11 DEF IInv

LEMMA TakeStep ==
    ASSUME IInv, NEW w \in Workers, Take(w)
    PROVE  IInv' /\ Pool!Begin
<1>1. /\ worker[w] = "take" /\ jobQueue # <<>> /\ jobQueue \in Seq(Jobs)
      /\ worker' = [worker EXCEPT ![w] = "run"]
      /\ job' = [job EXCEPT ![w] = Head(jobQueue)]
      /\ jobQueue' = Tail(jobQueue)
      /\ UNCHANGED <<interrupt, submitted, tasks, over, broken>>
  BY DEF Take, IInv, TypeOK
<1>2. /\ Head(jobQueue) \in Jobs /\ jobQueue' \in Seq(Jobs)
      /\ Len(jobQueue') = Len(jobQueue) - 1
      /\ \A i \in 1 .. Len(jobQueue') : jobQueue'[i] = jobQueue[i + 1]
  BY <1>1, HeadTailProperties
<1>3. Len(jobQueue) > 0 /\ Head(jobQueue) = jobQueue[1]
  BY <1>1, EmptySeq, HeadTailProperties
<1>4. Head(jobQueue) = Begun + 1
  BY <1>3, BegunType DEF IInv, QueueInv
<1>5. Begun' = Begun + 1 /\ Begun < submitted
  BY <1>1, <1>2, <1>3, BegunType DEF Begun
<1>6. /\ worker \in [Workers -> {"take", "run", "interrupted", "broken"}]
      /\ job \in [Workers -> Jobs \cup {0}]
  BY DEF IInv, TypeOK
<1>7. Live' = Live /\ Broken' = Broken /\ Running' = Running \cup {w} /\ w \notin Running
  BY <1>1, <1>6 DEF Live, Broken, Running
<1>8. job'[w] = Begun + 1 /\ \A v \in Running : job'[v] = job[v]
  BY <1>1, <1>4, <1>6 DEF Running
<1>9. RunningJobs' = RunningJobs \cup {Begun + 1}
  BY <1>7, <1>8 DEF RunningJobs
<1>10. TypeOK'
  <2>1. /\ jobQueue' \in Seq(Jobs) /\ Len(jobQueue') <= Capacity
    BY <1>2, <1>3, BegunType, CapacityAssumption DEF IInv, TypeOK
  <2>2. worker' \in [Workers -> {"take", "run", "interrupted", "broken"}]
    BY <1>1, <1>6
  <2>3. job' \in [Workers -> Jobs \cup {0}]
    BY <1>1, <1>2, <1>6
  <2> QED
    BY <1>1, <2>1, <2>2, <2>3 DEF IInv, TypeOK
<1>11. QueueInv'
  <2>1. ASSUME NEW i \in 1 .. Len(jobQueue')
        PROVE  jobQueue'[i] = Begun' + i
    <3>1. i + 1 \in 1 .. Len(jobQueue) /\ i \in Nat
      BY <1>2, BegunType
    <3>2. jobQueue[i + 1] = Begun + (i + 1)
      BY <3>1 DEF IInv, QueueInv
    <3> QED
      BY <1>2, <1>5, <3>1, <3>2, BegunType
  <2> QED
    BY <1>1, <1>2, <2>1, BegunType DEF IInv, QueueInv
<1>12. JobInv'
  <2>1. \A v \in Running : job[v] \in 1 .. Begun
    BY DEF IInv, JobInv
  <2>2. \A v \in Running' : job'[v] \in 1 .. Begun'
    <3>1. 1 .. Begun \subseteq 1 .. Begun' /\ Begun + 1 \in 1 .. Begun'
      BY <1>5, BegunType
    <3> QED
      BY <1>7, <1>8, <2>1, <3>1
  <2>3. \A v \in Running : job'[v] # job'[w]
    BY <1>8, <2>1, BegunType
  <2>4. \A u, v \in Running' : job'[u] = job'[v] => u = v
    BY <1>7, <1>8, <2>3 DEF IInv, JobInv
  <2> QED
    BY <2>2, <2>4 DEF JobInv
<1>13. OnlyRunnablesBreak'
  <2>1. over \cup RunningJobs = 1 .. Begun /\ over \cap RunningJobs = {}
    BY DEF IInv, OnlyRunnablesBreak
  <2>2. Begun + 1 \notin over
    BY <2>1, BegunType
  <2>3. 1 .. Begun' = (1 .. Begun) \cup {Begun + 1}
    BY <1>5, BegunType
  <2>4. over' \cup RunningJobs' = 1 .. Begun' /\ over' \cap RunningJobs' = {}
    BY <1>1, <1>9, <2>1, <2>2, <2>3
  <2> QED
    BY <1>1, <1>7, <2>4 DEF IInv, OnlyRunnablesBreak
<1>14. Pool!Begin
  <2>1. Cardinality(RunningJobs) < Cardinality(Live)
    BY <1>1, IdleWorker
  <2> QED
    BY <1>1, <1>5, <1>7, <1>9, <2>1, SameCount DEF Pool!Begin
<1> QED
  BY <1>10, <1>11, <1>12, <1>13, <1>14 DEF IInv

LEMMA InterruptedStep ==
    ASSUME IInv, NEW w \in Workers, TakeInterrupted(w)
    PROVE  IInv' /\ Pool!Retire
<1>1. /\ worker[w] = "take"
      /\ worker' = [worker EXCEPT ![w] = "interrupted"]
      /\ interrupt' = [interrupt EXCEPT ![w] = FALSE]
      /\ UNCHANGED <<jobQueue, job, submitted, tasks, over, broken>>
  BY DEF TakeInterrupted
<1>2. worker \in [Workers -> {"take", "run", "interrupted", "broken"}]
  BY DEF IInv, TypeOK
<1>3. w \in Live /\ Cardinality(RunningJobs) < Cardinality(Live)
  BY <1>1, IdleWorker
<1>4. Cardinality(Live') = Cardinality(Live) - 1 /\ Broken' = Broken
  BY <1>1, <1>3, OneLess DEF IInv
<1>5. Running' = Running /\ RunningJobs' = RunningJobs /\ Begun' = Begun
  BY <1>1, <1>2 DEF Running, RunningJobs, Begun
<1>6. TypeOK'
  BY <1>1, <1>2 DEF IInv, TypeOK
<1>7. QueueInv' /\ JobInv' /\ OnlyRunnablesBreak'
  BY <1>1, <1>4, <1>5 DEF IInv, QueueInv, JobInv, OnlyRunnablesBreak
<1> QED
  BY <1>1, <1>3, <1>4, <1>5, <1>6, <1>7, SameCount DEF IInv, Pool!Retire

\* What the end of a job does whichever way it ends.
LEMMA EndJobStep ==
    ASSUME IInv, NEW w \in Workers, NEW next \in {"take", "broken"}, EndJob(w, next),
           broken' \subseteq Jobs
    PROVE  /\ TypeOK' /\ QueueInv' /\ JobInv'
           /\ job[w] \in RunningJobs /\ RunningJobs' = RunningJobs \ {job[w]}
           /\ Begun' = Begun
           /\ over' = over \cup {job[w]} /\ job[w] \notin over
           /\ over' \cap RunningJobs' = {}
           /\ over' \cup RunningJobs' = 1 .. Begun'
<1>1. /\ worker[w] = "run"
      /\ over' = over \cup {job[w]}
      /\ job' = [job EXCEPT ![w] = 0]
      /\ worker' = [worker EXCEPT ![w] = next]
      /\ UNCHANGED <<jobQueue, interrupt, submitted, tasks>>
  BY DEF EndJob
<1>2. /\ worker \in [Workers -> {"take", "run", "interrupted", "broken"}]
      /\ job \in [Workers -> Jobs \cup {0}]
  BY DEF IInv, TypeOK
<1>3. w \in Running /\ Running' = Running \ {w} /\ Begun' = Begun
  BY <1>1, <1>2 DEF Running, Begun
<1>4. \A v \in Running' : job'[v] = job[v]
  BY <1>1, <1>2, <1>3 DEF Running
<1>5. \A v \in Running' : job[v] # job[w]
  BY <1>3 DEF IInv, JobInv
<1>6. job[w] \in RunningJobs /\ RunningJobs' = RunningJobs \ {job[w]}
  BY <1>3, <1>4, <1>5 DEF RunningJobs
<1>7. over \cap RunningJobs = {} /\ over \cup RunningJobs = 1 .. Begun
  BY DEF IInv, OnlyRunnablesBreak
<1>8. job[w] \in Jobs
  BY <1>2, <1>3, BegunType DEF IInv, JobInv
<1>9. TypeOK'
  BY <1>1, <1>2, <1>8 DEF IInv, TypeOK
<1>10. QueueInv'
  BY <1>1, <1>3 DEF IInv, QueueInv
<1>11. JobInv'
  BY <1>3, <1>4 DEF IInv, JobInv
<1> QED
  BY <1>1, <1>3, <1>6, <1>7, <1>9, <1>10, <1>11

LEMMA FinishStep ==
    ASSUME IInv, NEW w \in Workers, Finish(w)
    PROVE  IInv' /\ Pool!Finish
<1>1. EndJob(w, "take") /\ broken' = broken /\ broken' \subseteq Jobs
  BY DEF Finish, IInv, TypeOK
<1>2. /\ TypeOK' /\ QueueInv' /\ JobInv'
      /\ job[w] \in RunningJobs /\ RunningJobs' = RunningJobs \ {job[w]}
      /\ Begun' = Begun
      /\ over' = over \cup {job[w]}
      /\ over' \cap RunningJobs' = {}
      /\ over' \cup RunningJobs' = 1 .. Begun'
  BY <1>1, EndJobStep
<1>3. Live' = Live /\ Broken' = Broken /\ tasks' = tasks /\ submitted' = submitted
  BY <1>1 DEF EndJob, Live, Broken, IInv, TypeOK
<1>4. OnlyRunnablesBreak'
  BY <1>1, <1>2, <1>3 DEF IInv, OnlyRunnablesBreak
<1> QED
  BY <1>2, <1>3, <1>4 DEF IInv, Pool!Finish

LEMMA BreakStep ==
    ASSUME IInv, NEW w \in Workers, Break(w)
    PROVE  IInv' /\ Pool!Crash
<1>1. /\ EndJob(w, "broken") /\ broken' = broken \cup {job[w]} /\ job[w] \notin tasks
      /\ worker[w] = "run" /\ worker' = [worker EXCEPT ![w] = "broken"]
      /\ tasks' = tasks /\ submitted' = submitted
  BY DEF Break, EndJob
<1>2. w \in Running /\ w \in Live /\ w \notin Broken
  BY <1>1 DEF Running, Live, Broken
<1>3. broken' \subseteq Jobs
  <2>1. job[w] \in 1 .. Begun /\ broken \subseteq Jobs
    BY <1>2 DEF IInv, JobInv, TypeOK
  <2>2. Begun <= MaxJobs /\ Begun \in Nat
    BY BegunType, MaxJobsAssumption DEF IInv, TypeOK
  <2>3. job[w] \in Jobs
    BY <2>1, <2>2, MaxJobsAssumption DEF Jobs
  <2> QED
    BY <1>1, <2>1, <2>3
<1>4. /\ TypeOK' /\ QueueInv' /\ JobInv'
      /\ job[w] \in RunningJobs /\ RunningJobs' = RunningJobs \ {job[w]}
      /\ Begun' = Begun
      /\ over' = over \cup {job[w]} /\ job[w] \notin over
      /\ over' \cap RunningJobs' = {}
      /\ over' \cup RunningJobs' = 1 .. Begun'
  BY <1>1, <1>3, EndJobStep
<1>5. Cardinality(Live') = Cardinality(Live) - 1 /\ Broken' = Broken \cup {w}
  BY <1>1, <1>2, OneLess DEF IInv
<1>6. broken \subseteq over \ tasks /\ Cardinality(broken) = Cardinality(Broken)
  BY DEF IInv, OnlyRunnablesBreak
<1>7. Cardinality(broken') = Cardinality(Broken')
  <2>1. job[w] \notin broken
    BY <1>4, <1>6
  <2>2. IsFiniteSet(broken) /\ IsFiniteSet(Broken)
    BY FiniteSets DEF IInv
  <2>3. Cardinality(broken \cup {job[w]}) = Cardinality(broken) + 1
    BY <2>1, <2>2, FS_AddElement
  <2>4. Cardinality(Broken \cup {w}) = Cardinality(Broken) + 1
    BY <1>2, <2>2, FS_AddElement
  <2> QED
    BY <1>1, <1>5, <1>6, <2>3, <2>4
<1>8. OnlyRunnablesBreak'
  BY <1>1, <1>4, <1>6, <1>7 DEF OnlyRunnablesBreak
<1> QED
  BY <1>1, <1>4, <1>5, <1>8 DEF IInv, Pool!Crash

-----------------------------------------------------------------------------
(* The theorems *)

LEMMA InitInv == Init => IInv /\ Pool!Init
<1> SUFFICES ASSUME Init PROVE IInv /\ Pool!Init
  OBVIOUS
<1>1. /\ jobQueue = <<>> /\ submitted = 0 /\ tasks = {} /\ over = {} /\ broken = {}
      /\ worker = [w \in Workers |-> "take"]
  BY DEF Init
<1>2. jobQueue \in Seq(Jobs) /\ Len(jobQueue) = 0
  BY <1>1
<1>3. TypeOK
  BY <1>2, CapacityAssumption, MaxJobsAssumption DEF Init, TypeOK
<1>4. Running = {} /\ RunningJobs = {} /\ Broken = {} /\ Live = Workers /\ Begun = 0
  <2>1. \A w \in Workers : worker[w] = "take"
    BY <1>1
  <2>2. Running = {} /\ Broken = {} /\ Live = Workers
    BY <2>1 DEF Running, Broken, Live
  <2>3. RunningJobs = {}
    BY <2>2 DEF RunningJobs
  <2>4. Begun = 0
    <3>1. submitted = 0 /\ Len(jobQueue) = 0
      BY <1>1, <1>2, Zenon
    <3>2. 0 - 0 = 0
      OBVIOUS
    <3> QED
      BY <3>1, <3>2, Zenon DEF Begun
  <2> QED
    BY <2>2, <2>3, <2>4
<1>5. QueueInv /\ JobInv /\ OnlyRunnablesBreak
  BY <1>1, <1>2, <1>4 DEF QueueInv, JobInv, OnlyRunnablesBreak
<1>6. Pool!Init
  BY <1>1, <1>3, <1>4, FiniteSets DEF Pool!Init
<1> QED
  BY <1>3, <1>5, <1>6 DEF IInv

LEMMA StepInv == IInv /\ [Next]_vars => IInv' /\ [Pool!Next]_(Pool!vars)
<1> SUFFICES ASSUME IInv, [Next]_vars
             PROVE  IInv' /\ [Pool!Next]_(Pool!vars)
  OBVIOUS
<1>1. CASE \E isTask \in BOOLEAN : Submit(isTask)
  BY <1>1, AddStep DEF Submit, Pool!Next
<1>2. CASE \E w \in Workers, isTask \in BOOLEAN : SubmitFromJob(w, isTask)
  BY <1>2, AddStep DEF SubmitFromJob, Pool!Next
<1>3. CASE \E w \in Workers : Take(w)
  BY <1>3, TakeStep DEF Pool!Next
<1>4. CASE \E w \in Workers : TakeInterrupted(w)
  BY <1>4, InterruptedStep DEF Pool!Next
<1>5. CASE \E w \in Workers : Finish(w)
  BY <1>5, FinishStep DEF Pool!Next
<1>6. CASE \E w \in Workers : Break(w)
  BY <1>6, BreakStep DEF Pool!Next
<1>7. CASE (\E w \in Workers : InterruptSelf(w)) \/ UNCHANGED vars
  <2>1. UNCHANGED <<jobQueue, worker, job, submitted, tasks, over, broken>>
    BY <1>7 DEF InterruptSelf, vars
  <2>2. interrupt' \in [Workers -> BOOLEAN]
    BY <1>7 DEF InterruptSelf, vars, IInv, TypeOK
  <2>3. /\ Begun' = Begun /\ Running' = Running /\ RunningJobs' = RunningJobs
        /\ Live' = Live /\ Broken' = Broken
    BY <2>1 DEF Begun, Running, RunningJobs, Live, Broken
  <2>4. TypeOK'
    BY <2>1, <2>2 DEF IInv, TypeOK
  <2>5. QueueInv' /\ JobInv' /\ OnlyRunnablesBreak'
    BY <2>1, <2>3 DEF IInv, QueueInv, JobInv, OnlyRunnablesBreak
  <2>6. UNCHANGED Pool!vars
    BY <2>1, <2>3 DEF Pool!vars
  <2> QED
    BY <2>4, <2>5, <2>6 DEF IInv
<1> QED
  BY <1>1, <1>2, <1>3, <1>4, <1>5, <1>6, <1>7 DEF Next, Worker

THEOREM Invariance == Spec => []IInv
BY InitInv, StepInv, PTL DEF Spec

\* The variables of the pool stay in their sets; the queue keeps to its bound.
THEOREM TypeCorrect == Spec => []TypeOK
<1>1. IInv => TypeOK
  BY DEF IInv
<1> QED
  BY <1>1, Invariance, PTL

\* Worker.run(): only plain Runnables end a worker, each of them at most one,
\* and a job that has left the queue is over or still running.
THEOREM NoJobLost == Spec => []OnlyRunnablesBreak
<1>1. IInv => OnlyRunnablesBreak
  BY DEF IInv
<1> QED
  BY <1>1, Invariance, PTL

\* The pool implements JobPool: submit() accepts only what the queue has room
\* for, and jobs are begun once, in that order, by workers that are alive.
THEOREM Refinement == Spec => PoolSpec
BY InitInv, StepInv, Invariance, PTL DEF Spec, PoolSpec, Pool!Spec

-----------------------------------------------------------------------------
(* The thread groups: who is in them, and when they are destroyed *)

\* A group without living children counts its own threads only.
LEMMA ActiveAreOwn ==
    ASSUME NEW g \in Groups!Groups, g = "second" \/ destroyed = {"second"}, Groups!HasActive(g)
    PROVE  Groups!Own(g) # {}
BY DEF Groups!HasActive, Groups!Children, Groups!Groups

LEMMA GroupInitIInv == Groups!Init => Groups!IInv
BY GroupsAssumption
   DEF Groups!Init, Groups!IInv, Groups!TypeOK, Groups!StartsInOrder, Groups!SecondIsDestroyed,
     Groups!DestroyIsLegal, Groups!NotificationToCome,
       Groups!Groups, Groups!Threads, Groups!CountAssumption

LEMMA StartIInv ==
    ASSUME Groups!IInv, Groups!Start
    PROVE  Groups!IInv'
<1> USE GroupsAssumption DEF Groups!IInv, Groups!Start, Groups!CountAssumption
<1>1. started + 1 \in Groups!Threads
  BY DEF Groups!StartsInOrder, Groups!TypeOK, Groups!Threads
<1>2. Groups!TypeOK'
  BY <1>1 DEF Groups!TypeOK, Groups!Threads
<1>3. Groups!StartsInOrder'
  BY <1>1 DEF Groups!StartsInOrder, Groups!TypeOK, Groups!Threads
<1>4. step' \in {"start", "wait"} /\ group' = "first" /\ destroyed' = {}
  BY DEF Groups!StartsInOrder, Groups!SecondIsDestroyed
<1> QED
  BY <1>2, <1>3, <1>4 DEF Groups!SecondIsDestroyed, Groups!DestroyIsLegal, Groups!NotificationToCome

LEMMA WaitIInv ==
    ASSUME Groups!IInv, Groups!Wait
    PROVE  Groups!IInv'
<1> USE DEF Groups!IInv, Groups!Wait, Groups!Waited
<1>1. Groups!TypeOK' /\ Groups!StartsInOrder'
  BY DEF Groups!TypeOK, Groups!StartsInOrder, Groups!Groups
<1>2. Groups!SecondIsDestroyed' /\ Groups!DestroyIsLegal'
  BY DEF Groups!SecondIsDestroyed, Groups!DestroyIsLegal
<1>3. Groups!NotificationToCome'
  <2>1. CASE Groups!HasActive(group) /\ group = "second"
    <3>1. Groups!Own(group) # {} /\ group' = group
      BY <2>1, ActiveAreOwn DEF Groups!TypeOK
    <3>2. Groups!Own(group)' = Groups!Own(group)
      BY <3>1 DEF Groups!Own
    <3> QED
      BY <3>1, <3>2 DEF Groups!NotificationToCome
  <2>2. CASE Groups!HasActive(group) /\ group # "second"
    BY <2>2 DEF Groups!NotificationToCome
  <2>3. CASE ~Groups!HasActive(group)
    BY <2>3 DEF Groups!NotificationToCome
  <2> QED
    BY <2>1, <2>2, <2>3
<1> QED
  BY <1>1, <1>2, <1>3

LEMMA DestroyIInv ==
    ASSUME Groups!IInv, Groups!Destroy
    PROVE  Groups!IInv'
<1> USE DEF Groups!IInv, Groups!Destroy, Groups!Destroyed
<1>1. Groups!TypeOK' /\ Groups!StartsInOrder'
  BY DEF Groups!TypeOK, Groups!StartsInOrder, Groups!Groups
<1>2. Groups!SecondIsDestroyed' /\ Groups!DestroyIsLegal'
  BY DEF Groups!SecondIsDestroyed, Groups!DestroyIsLegal, Groups!TypeOK, Groups!Groups
<1>3. Groups!NotificationToCome'
  <2>1. CASE Groups!HasActive(group)
    <3>1. Groups!Own(group) # {}
      BY <2>1, ActiveAreOwn DEF Groups!SecondIsDestroyed, Groups!TypeOK, Groups!Groups
    <3>2. Groups!Own(group)' = Groups!Own(group)
      BY <2>1 DEF Groups!Own
    <3> QED
      BY <3>1, <3>2 DEF Groups!NotificationToCome
  <2>2. CASE ~Groups!HasActive(group)
    BY <2>2 DEF Groups!NotificationToCome
  <2> QED
    BY <2>1, <2>2
<1> QED
  BY <1>1, <1>2, <1>3

\* What wait() does when it returns, and nothing is left to be notified of.
LEMMA ReturnIInv ==
    ASSUME Groups!IInv, Groups!Return, UNCHANGED <<started, thread>>, gate' \in {0, 1}
    PROVE  Groups!IInv'
<1> USE DEF Groups!IInv, Groups!Return, Groups!Waited
<1>1. Groups!TypeOK' /\ Groups!StartsInOrder'
  BY DEF Groups!TypeOK, Groups!StartsInOrder, Groups!Groups
<1>2. Groups!SecondIsDestroyed' /\ Groups!DestroyIsLegal' /\ Groups!NotificationToCome'
  BY DEF Groups!SecondIsDestroyed, Groups!DestroyIsLegal, Groups!NotificationToCome
<1> QED
  BY <1>1, <1>2

LEMMA PassGateIInv ==
    ASSUME Groups!IInv, NEW t \in Groups!Threads, Groups!PassGate(t)
    PROVE  Groups!IInv'
<1> USE DEF Groups!IInv, Groups!PassGate
<1>1. \A g \in Groups!Groups : Groups!Own(g)' = Groups!Own(g)
  BY DEF Groups!Own, Groups!TypeOK
<1>2. Groups!Own(group)' = Groups!Own(group)
  BY <1>1 DEF Groups!TypeOK
<1>3. Groups!TypeOK' /\ Groups!StartsInOrder'
  BY DEF Groups!TypeOK, Groups!StartsInOrder
<1> QED
  BY <1>2, <1>3 DEF Groups!SecondIsDestroyed, Groups!DestroyIsLegal, Groups!NotificationToCome

LEMMA LeaveIInv ==
    ASSUME Groups!IInv, NEW t \in Groups!Threads, Groups!Leave(t)
    PROVE  Groups!IInv'
<1> USE DEF Groups!IInv, Groups!Leave
<1>1. Groups!TypeOK' /\ Groups!StartsInOrder'
  BY DEF Groups!TypeOK, Groups!StartsInOrder, Groups!Return, Groups!Waited, Groups!Groups
<1>2. Groups!SecondIsDestroyed' /\ Groups!DestroyIsLegal'
  BY DEF Groups!SecondIsDestroyed, Groups!DestroyIsLegal, Groups!Return, Groups!Waited
<1>3. Groups!NotificationToCome'
  <2>1. CASE step \in {"waiting", "destroying"} /\ Groups!Own(group) = {t}
    BY <2>1 DEF Groups!NotificationToCome, Groups!Return, Groups!Waited
  <2>2. CASE ~(step \in {"waiting", "destroying"} /\ Groups!Own(group) = {t})
    <3>1. UNCHANGED <<step, group, destroyed>>
      BY <2>2
    <3>2. thread' = [thread EXCEPT ![t] = "ended"]
            /\ thread \in [Groups!Threads -> {"new", "await", "sleep", "ended"}]
      BY DEF Groups!TypeOK
    <3>3. Groups!Own(group)' = Groups!Own(group) \ {t}
      BY <3>1, <3>2 DEF Groups!Own
    <3> QED
      BY <2>2, <3>1, <3>3 DEF Groups!NotificationToCome
  <2> QED
    BY <2>1, <2>2
<1> QED
  BY <1>1, <1>2, <1>3

LEMMA GroupNextIInv ==
    ASSUME Groups!IInv, [Groups!Next]_(Groups!vars)
    PROVE  Groups!IInv'
<1>1. CASE UNCHANGED <<step, group, started, thread, destroyed>> /\ gate' \in {0, 1}
  BY <1>1
     DEF Groups!IInv, Groups!TypeOK, Groups!StartsInOrder, Groups!SecondIsDestroyed,
         Groups!DestroyIsLegal, Groups!NotificationToCome, Groups!Own
<1>2. CASE Groups!Main
  BY <1>2, StartIInv, WaitIInv, DestroyIInv DEF Groups!Main
<1>3. CASE Groups!SpuriousWakeup
  BY <1>3, ReturnIInv DEF Groups!SpuriousWakeup, Groups!IInv, Groups!TypeOK
<1>4. CASE Groups!CountDown
  BY <1>1, <1>4 DEF Groups!CountDown
<1>5. ASSUME NEW t \in Groups!Threads, Groups!PassGate(t) \/ Groups!Leave(t)
      PROVE  Groups!IInv'
  BY <1>5, PassGateIInv, LeaveIInv
<1>6. CASE UNCHANGED Groups!vars
  BY <1>1, <1>6 DEF Groups!vars, Groups!IInv, Groups!TypeOK
<1> QED
  BY <1>2, <1>3, <1>4, <1>5, <1>6 DEF Groups!Next

\* A group is destroyed when no thread is left in it, and whoever waits for the
\* notification of a group has it to come.
THEOREM GroupsAreDestroyedEmpty ==
    Groups!Spec => [](Groups!DestroyIsLegal /\ Groups!NotificationToCome)
<1>1. Groups!IInv /\ [Groups!Next]_(Groups!vars) => Groups!IInv'
  BY GroupNextIInv
<1>2. Groups!IInv => Groups!DestroyIsLegal /\ Groups!NotificationToCome
  BY DEF Groups!IInv
<1> QED
  BY GroupInitIInv, <1>1, <1>2, PTL DEF Groups!Spec

-----------------------------------------------------------------------------
(* The cache of ReadWriteThreadFacotry: its latches and its read-write lock *)

\* A sequence with one more member, and the first of one that is not empty.
LEMMA QueueFacts ==
    ASSUME NEW S, NEW q \in Seq(S)
    PROVE  /\ Len(q) \in Nat /\ (q # <<>> <=> Len(q) > 0)
           /\ \A i \in 1 .. Len(q) : q[i] \in S
           /\ q # <<>> => /\ Head(q) = q[1] /\ 1 \in 1 .. Len(q)
                          /\ Tail(q) \in Seq(S) /\ Len(Tail(q)) = Len(q) - 1
                          /\ \A i \in 1 .. Len(q) - 1 : Tail(q)[i] = q[i + 1]
BY EmptySeq, HeadTailProperties

LEMMA IInvGuards == Cache!IInv => Cache!NobodyIsStranded /\ Cache!OneCache /\ Cache!MapIsGuarded
<1> SUFFICES ASSUME Cache!IInv PROVE Cache!NobodyIsStranded /\ Cache!OneCache /\ Cache!MapIsGuarded
  OBVIOUS
<1>1. Cache!NobodyIsStranded
  <2> SUFFICES ASSUME NEW t \in Cache!Threads, pc[t] = "await", awaited[t] \notin open
               PROVE  awaited[t] = current
    BY DEF Cache!NobodyIsStranded
  <2>1. awaited[t] \in Nat /\ current \in Nat /\ awaited[t] <= current /\ awaited[t] >= 1
    BY CacheAssumptions
       DEF Cache!IInv, Cache!TypeOK, Cache!OldLatchesAreOpen, Cache!RoundsAssumption
  <2>2. awaited[t] \notin 1 .. current - 1
    BY DEF Cache!IInv, Cache!OldLatchesAreOpen
  <2> QED
    BY <2>1, <2>2
<1>2. Cache!MapIsGuarded
  BY DEF Cache!MapIsGuarded, Cache!IInv, Cache!LocksAreHeld, Cache!Threads
<1> QED
  BY <1>1, <1>2 DEF Cache!IInv

LEMMA CacheInitIInv == Cache!Init => Cache!IInv
<1> SUFFICES ASSUME Cache!Init PROVE Cache!IInv
  OBVIOUS
<1> USE CacheAssumptions DEF Cache!Init, Cache!RoundsAssumption, Cache!CallsAssumption
<1>1. Cache!TypeOK
  BY DEF Cache!TypeOK
<1>2. Cache!OldLatchesAreOpen
  BY DEF Cache!OldLatchesAreOpen
<1> QED
  BY <1>1, <1>2
     DEF Cache!IInv, Cache!LocksAreHeld, Cache!ParkedAreQueued, Cache!CallsAreLeft,
         Cache!OneCache, Cache!Threads

LEMMA StarterIInv ==
    ASSUME Cache!IInv, Cache!Starter
    PROVE  Cache!IInv'
<1> USE CacheAssumptions DEF Cache!IInv, Cache!Starter, Cache!CountDown, Cache!Replace,
      Cache!cacheVars, Cache!lockVars, Cache!RoundsAssumption
<1>1. Cache!TypeOK'
  <2>1. CASE Cache!CountDown
    BY <2>1 DEF Cache!TypeOK
  <2>2. CASE Cache!Replace
    <3>1. current \in 1 .. Rounds
      BY <2>2 DEF Cache!OldLatchesAreOpen, Cache!TypeOK
    <3> QED
      BY <2>2, <3>1 DEF Cache!TypeOK
  <2> QED
    BY <2>1, <2>2
<1>2. Cache!OldLatchesAreOpen'
  BY DEF Cache!OldLatchesAreOpen, Cache!TypeOK
<1> QED
  BY <1>1, <1>2 DEF Cache!LocksAreHeld, Cache!ParkedAreQueued, Cache!CallsAreLeft, Cache!OneCache

LEMMA GateIInv ==
    ASSUME Cache!IInv, NEW t \in Cache!Threads, Cache!ReadLatch(t) \/ Cache!Await(t)
    PROVE  Cache!IInv'
<1> USE CacheAssumptions
    DEF Cache!IInv, Cache!ReadLatch, Cache!Await, Cache!Goto, Cache!gateVars, Cache!cacheVars,
      Cache!lockVars, Cache!RoundsAssumption
<1>1. Cache!TypeOK'
  <2>1. CASE Cache!ReadLatch(t)
    <3>1. current \in 0 .. Rounds + 1
      BY DEF Cache!TypeOK
    <3>2. awaited' \in [Cache!Threads -> 0 .. Rounds + 1]
      BY <2>1, <3>1 DEF Cache!TypeOK
    <3> QED
      BY <2>1, <3>2 DEF Cache!TypeOK
  <2>2. CASE Cache!Await(t)
    BY <2>2 DEF Cache!TypeOK
  <2> QED
    BY <2>1, <2>2
<1>2. Cache!OldLatchesAreOpen'
  <2>1. CASE Cache!ReadLatch(t)
    <3>1. /\ awaited' = [awaited EXCEPT ![t] = current] /\ current >= 1 /\ current <= current
          /\ pc' = [pc EXCEPT ![t] = "await"] /\ UNCHANGED <<current, open, starter>>
      BY <2>1 DEF Cache!TypeOK
    <3> QED
      BY <3>1 DEF Cache!OldLatchesAreOpen, Cache!TypeOK
  <2>2. CASE Cache!Await(t)
    BY <2>2 DEF Cache!OldLatchesAreOpen, Cache!TypeOK
  <2> QED
    BY <2>1, <2>2
<1>3. Cache!LocksAreHeld'
  BY DEF Cache!LocksAreHeld, Cache!TypeOK, Cache!Threads
<1> QED
  BY <1>1, <1>2, <1>3 DEF Cache!ParkedAreQueued, Cache!CallsAreLeft, Cache!OneCache, Cache!TypeOK

LEMMA InstanceIInv ==
    ASSUME Cache!IInv, NEW t \in Cache!Threads,
           Cache!CheckInstance(t) \/ Cache!CreateInstance(t) \/ Cache!UseCache(t)
    PROVE  Cache!IInv'
<1> USE DEF Cache!IInv, Cache!CheckInstance, Cache!CreateInstance, Cache!UseCache, Cache!Goto,
      Cache!gateVars, Cache!cacheVars, Cache!lockVars
<1>1. PICK spot \in {"createInstance", "use", "lock", "failed"} : pc' = [pc EXCEPT ![t] = spot]
  BY Zenon
<1>2. pc[t] \notin {"map", "ended"} /\ UNCHANGED <<Cache!gateVars, Cache!lockVars>>
  OBVIOUS
<1>3. caches' \in Nat /\ caches' <= 1 /\ entered' \subseteq Cache!Threads
  BY DEF Cache!TypeOK, Cache!OneCache
<1> HIDE DEF Cache!CheckInstance, Cache!CreateInstance, Cache!UseCache
<1>4. Cache!TypeOK'
  BY <1>1, <1>2, <1>3 DEF Cache!TypeOK
<1>5. Cache!LocksAreHeld'
  BY <1>1, <1>2 DEF Cache!LocksAreHeld, Cache!TypeOK, Cache!Threads
<1> QED
  BY <1>1, <1>2, <1>3, <1>4, <1>5
     DEF Cache!OldLatchesAreOpen, Cache!ParkedAreQueued, Cache!CallsAreLeft, Cache!OneCache,
       Cache!TypeOK

\* A thread gets the lock that it has not yet.
LEMMA AcquireLocks ==
    ASSUME Cache!IInv, NEW t \in Cache!Threads, pc[t] # "map", Cache!Acquire(t),
           pc' = [pc EXCEPT ![t] = "map"]
    PROVE  Cache!LocksAreHeld' /\ readers' \subseteq Getters /\ writers' \subseteq Putters
BY DEF Cache!IInv, Cache!LocksAreHeld, Cache!Acquire, Cache!TypeOK, Cache!Threads

LEMMA LockIInv ==
    ASSUME Cache!IInv, NEW t \in Cache!Threads, Cache!Lock(t)
    PROVE  Cache!IInv'
<1> USE DEF Cache!IInv, Cache!Lock, Cache!Goto, Cache!gateVars, Cache!cacheVars
<1>1. Cache!LocksAreHeld' /\ readers' \subseteq Getters /\ writers' \subseteq Putters
  BY AcquireLocks
<1>2. Cache!TypeOK'
  BY <1>1 DEF Cache!TypeOK
<1> QED
  BY <1>1, <1>2
     DEF Cache!OldLatchesAreOpen, Cache!ParkedAreQueued, Cache!CallsAreLeft, Cache!OneCache,
         Cache!TypeOK

LEMMA ParkIInv ==
    ASSUME Cache!IInv, NEW t \in Cache!Threads, Cache!Park(t)
    PROVE  Cache!IInv'
<1> USE DEF Cache!IInv, Cache!Park, Cache!Goto, Cache!gateVars, Cache!cacheVars
<1>1. PICK q \in Seq(Cache!Threads) : q = parked
  BY DEF Cache!TypeOK
<1>2. PICK r : r = parked'
  OBVIOUS
<1>3. /\ r \in Seq(Cache!Threads) /\ Len(r) = Len(q) + 1 /\ r[Len(r)] = t
      /\ \A i \in 1 .. Len(q) : r[i] = q[i]
  BY <1>1, <1>2, AppendProperties
<1>4. Len(q) \in Nat
  BY <1>1, QueueFacts
<1>5. Cache!ParkedAreQueued'
  <2>1. ASSUME NEW u \in Cache!Threads, pc'[u] = "parked"
        PROVE  \E i \in 1 .. Len(r) : r[i] = u
    <3>1. CASE u = t
      BY <1>3, <1>4, <3>1
    <3>2. CASE u # t
      <4>1. PICK i \in 1 .. Len(q) : q[i] = u
        BY <1>1, <2>1, <3>2 DEF Cache!ParkedAreQueued, Cache!TypeOK
      <4>2. i \in 1 .. Len(r) /\ r[i] = u
        BY <1>3, <1>4, <4>1
      <4> QED
        BY <4>2
    <3> QED
      BY <3>1, <3>2
  <2> QED
    BY <1>2, <2>1 DEF Cache!ParkedAreQueued
<1>6. Cache!TypeOK'
  BY <1>2, <1>3 DEF Cache!TypeOK
<1>7. Cache!LocksAreHeld'
  BY DEF Cache!LocksAreHeld, Cache!TypeOK, Cache!Threads
<1> QED
  BY <1>5, <1>6, <1>7 DEF Cache!OldLatchesAreOpen, Cache!CallsAreLeft, Cache!OneCache, Cache!TypeOK

LEMMA LockFromQueueIInv ==
    ASSUME Cache!IInv, NEW t \in Cache!Threads, Cache!LockFromQueue(t)
    PROVE  Cache!IInv'
<1> USE DEF Cache!IInv, Cache!LockFromQueue, Cache!Goto, Cache!gateVars, Cache!cacheVars
<1>1. PICK q \in Seq(Cache!Threads) : q = parked
  BY DEF Cache!TypeOK
<1>2. PICK r : r = parked'
  OBVIOUS
<1>3. Len(q) \in Nat /\ q # <<>>
  <2>1. \E i \in 1 .. Len(q) : q[i] = t
    BY <1>1 DEF Cache!ParkedAreQueued
  <2> QED
    BY <1>1, <2>1, QueueFacts
<1>4. /\ r \in Seq(Cache!Threads) /\ Len(r) = Len(q) - 1 /\ q[1] = t
      /\ \A i \in 1 .. Len(q) - 1 : r[i] = q[i + 1]
  BY <1>1, <1>2, <1>3, QueueFacts
<1>5. Cache!ParkedAreQueued'
  <2>1. ASSUME NEW u \in Cache!Threads, pc'[u] = "parked"
        PROVE  \E i \in 1 .. Len(r) : r[i] = u
    <3>1. u # t /\ pc[u] = "parked"
      BY <2>1 DEF Cache!TypeOK
    <3>2. PICK i \in 1 .. Len(q) : q[i] = u
      BY <1>1, <3>1 DEF Cache!ParkedAreQueued
    <3>3. i - 1 \in 1 .. Len(q) - 1 /\ (i - 1) + 1 = i
      BY <1>3, <1>4, <3>1, <3>2
    <3> QED
      BY <1>4, <3>2, <3>3
  <2> QED
    BY <1>2, <2>1 DEF Cache!ParkedAreQueued
<1>6. Cache!LocksAreHeld' /\ readers' \subseteq Getters /\ writers' \subseteq Putters
  BY AcquireLocks
<1>7. Cache!TypeOK'
  BY <1>2, <1>4, <1>6 DEF Cache!TypeOK
<1> QED
  BY <1>5, <1>6, <1>7 DEF Cache!OldLatchesAreOpen, Cache!CallsAreLeft, Cache!OneCache, Cache!TypeOK

LEMMA UseMapIInv ==
    ASSUME Cache!IInv, NEW t \in Cache!Threads, Cache!UseMap(t)
    PROVE  Cache!IInv'
<1> USE CacheAssumptions DEF Cache!IInv, Cache!UseMap, Cache!Goto, Cache!gateVars,
      Cache!cacheVars, Cache!CallsAssumption
<1>1. Cache!TypeOK'
  <2>1. calls[t] >= 1 /\ calls[t] - 1 \in 0 .. Calls
    BY DEF Cache!TypeOK, Cache!CallsAreLeft
  <2>2. calls' \in [Cache!Threads -> 0 .. Calls]
    BY <2>1 DEF Cache!TypeOK
  <2> QED
    BY <2>2 DEF Cache!TypeOK
<1>2. Cache!LocksAreHeld'
  BY DEF Cache!LocksAreHeld, Cache!TypeOK, Cache!Threads
<1>3. Cache!CallsAreLeft'
  BY DEF Cache!CallsAreLeft, Cache!TypeOK
<1> QED
  BY <1>1, <1>2, <1>3
     DEF Cache!OldLatchesAreOpen, Cache!ParkedAreQueued, Cache!OneCache, Cache!TypeOK

LEMMA CacheNextIInv ==
    ASSUME Cache!IInv, [Cache!Next]_(Cache!vars)
    PROVE  Cache!IInv'
<1>1. CASE UNCHANGED Cache!vars
  BY <1>1
     DEF Cache!vars, Cache!IInv, Cache!TypeOK, Cache!OldLatchesAreOpen, Cache!LocksAreHeld,
         Cache!ParkedAreQueued, Cache!CallsAreLeft,
              Cache!OneCache
<1>2. CASE Cache!Next
  BY <1>2, StarterIInv, GateIInv, InstanceIInv, LockIInv, ParkIInv, LockFromQueueIInv, UseMapIInv
     DEF Cache!Next, Cache!Runner
<1> QED
  BY <1>1, <1>2

\* All threads use one Cache, nobody waits for a latch that is not to be opened,
\* and a writer is alone in the map.
THEOREM CacheIsOne ==
    Cache!Spec => [](Cache!NobodyIsStranded /\ Cache!OneCache /\ Cache!MapIsGuarded)
<1>1. Cache!IInv /\ [Cache!Next]_(Cache!vars) => Cache!IInv'
  BY CacheNextIInv
<1>2. Cache!IInv => Cache!NobodyIsStranded /\ Cache!OneCache /\ Cache!MapIsGuarded
  BY IInvGuards
<1> QED
  BY CacheInitIInv, <1>1, <1>2, PTL DEF Cache!Spec

-----------------------------------------------------------------------------
(* The factory of TryLock: the calls in progress, and the latch they share *)

LEMMA TrySameCount ==
    \A S : Try!Cardinality(S) = Cardinality(S) /\ (Try!IsFiniteSet(S) <=> IsFiniteSet(S))
BY Zenon DEF Try!Cardinality, Try!IsFiniteSet, Cardinality, IsFiniteSet

CallsOf(c) == {c} \X ((1 .. Batches[c]) \X (1 .. BatchSize))

LEMMA FiniteCalls ==
    /\ IsFiniteSet(Try!NewThreadCalls) /\ Cardinality(Try!NewThreadCalls) \in Nat
    /\ Cardinality(Try!Threads) = Cardinality(Try!NewThreadCalls)
    /\ Try!Threads = 1 .. Cardinality(Try!NewThreadCalls)
<1> DEFINE sets == {CallsOf(c) : c \in Callers}
           numbered == [c \in Callers |-> CallsOf(c)]
<1>1. IsFiniteSet(sets)
  <2>1. numbered \in Surjection(Callers, sets)
    BY Zenon DEF Surjection
  <2>2. IsFiniteSet(Callers)
    BY TrySameCount, TryAssumptions DEF Try!CallersAssumption
  <2> HIDE DEF numbered, sets
  <2> QED
    BY <2>1, <2>2, FS_Surjection
<1>2. ASSUME NEW c \in Callers PROVE IsFiniteSet(CallsOf(c))
  <2>1. 1 \in Int /\ Batches[c] \in Int /\ BatchSize \in Int
    BY TryAssumptions DEF Try!BatchAssumption
  <2>2. IsFiniteSet({c}) /\ IsFiniteSet(1 .. Batches[c]) /\ IsFiniteSet(1 .. BatchSize)
    BY <2>1, FS_Singleton, FS_Interval
  <2>3. IsFiniteSet((1 .. Batches[c]) \X (1 .. BatchSize))
    BY <2>2, FS_Product
  <2> QED
    BY <2>2, <2>3, FS_Product DEF CallsOf
<1>3. IsFiniteSet(Try!NewThreadCalls)
  <2>1. \A T \in sets : IsFiniteSet(T)
    BY <1>2
  <2>2. Try!NewThreadCalls = UNION sets
    BY DEF Try!NewThreadCalls, CallsOf
  <2> HIDE DEF sets
  <2> QED
    BY <1>1, <2>1, <2>2, FS_UNION
<1>4. Cardinality(Try!NewThreadCalls) \in Nat
  BY <1>3, FS_CardinalityType
<1>5. Cardinality(1 .. Cardinality(Try!NewThreadCalls)) = Cardinality(Try!NewThreadCalls)
  BY <1>4, FS_Interval
<1> QED
  BY TrySameCount, <1>3, <1>4, <1>5 DEF Try!Threads

LEMMA CallParts ==
    \A call : call \in Try!NewThreadCalls <=>
        \E c \in Callers, b \in Nat, i \in Nat :
            /\ call = <<c, <<b, i>>>>
            /\ b \in 1 .. Batches[c] /\ i \in 1 .. BatchSize
BY DEF Try!NewThreadCalls

\* The next call makes the next thread.
LEMMA OneMoreCall ==
    ASSUME Try!IInv, NEW c \in Callers, caller[c] = "make",
           batch' = batch, toMake' = [toMake EXCEPT ![c] = @ - 1]
    PROVE  /\ Try!CallsMade' \subseteq Try!NewThreadCalls
           /\ Cardinality(Try!CallsMade') = Cardinality(Try!CallsMade) + 1
           /\ threadIndex + 1 \in Try!Threads /\ threadIndex \in Nat
<1> DEFINE call == <<c, <<batch[c], toMake[c]>>>>
<1>1. batch[c] \in 1 .. Batches[c] /\ toMake[c] \in 1 .. BatchSize
  BY TryAssumptions DEF Try!IInv, Try!TypeOK, Try!ThreadsAreCounted, Try!BatchAssumption
<1>2. call \in Try!NewThreadCalls /\ call \notin Try!CallsMade
  BY <1>1, TryAssumptions DEF Try!CallsMade, Try!NewThreadCalls, Try!BatchAssumption
<1>3. Try!CallsMade' = Try!CallsMade \cup {call}
  <2>1. ASSUME NEW x \in Try!NewThreadCalls
        PROVE  x \in Try!CallsMade' <=> x \in Try!CallsMade \/ x = call
    <3>1. PICK d \in Callers, b \in Nat, i \in Nat : x = <<d, <<b, i>>>>
      BY <2>1, CallParts
    <3>2. x \in Try!CallsMade' <=> b > batch[d] \/ (b = batch[d] /\ i > toMake'[d])
      BY <3>1 DEF Try!CallsMade
    <3>3. x \in Try!CallsMade <=> b > batch[d] \/ (b = batch[d] /\ i > toMake[d])
      BY <3>1 DEF Try!CallsMade
    <3>4. x = call <=> d = c /\ b = batch[c] /\ i = toMake[c]
      BY <3>1
    <3>5. batch[d] \in Nat /\ toMake[d] \in Nat /\ toMake[c] \in Nat
          /\ toMake'[d] = IF d = c THEN toMake[c] - 1 ELSE toMake[d]
      BY TryAssumptions DEF Try!IInv, Try!TypeOK, Try!BatchAssumption
    <3> HIDE DEF call
    <3> QED
      BY <3>2, <3>3, <3>4, <3>5
  <2>2. Try!CallsMade \subseteq Try!NewThreadCalls /\ Try!CallsMade' \subseteq Try!NewThreadCalls
    BY DEF Try!CallsMade
  <2> QED
    BY <1>2, <2>1, <2>2
<1>4. /\ IsFiniteSet(Try!CallsMade) /\ IsFiniteSet(Try!CallsMade')
      /\ Cardinality(Try!CallsMade) \in Nat
      /\ Cardinality(Try!CallsMade') <= Cardinality(Try!NewThreadCalls)
  <2>1. Try!CallsMade \in SUBSET Try!NewThreadCalls /\ Try!CallsMade' \in SUBSET Try!NewThreadCalls
    BY DEF Try!CallsMade
  <2> QED
    BY <2>1, FiniteCalls, FS_Subset, FS_CardinalityType
<1> HIDE DEF call
<1>5. Cardinality(Try!CallsMade') = Cardinality(Try!CallsMade) + 1
  BY <1>2, <1>3, <1>4, FS_AddElement
<1>6. threadIndex = Cardinality(Try!CallsMade)
  BY TrySameCount DEF Try!IInv, Try!ThreadsAreCounted
<1> QED
  BY <1>4, <1>5, <1>6, FiniteCalls DEF Try!CallsMade

LEMMA TryIInvGuards == Try!IInv => Try!StrandedByRace
<1> SUFFICES ASSUME Try!IInv, NEW t \in Try!Threads, Try!Stranded(t), raced = {}
             PROVE  FALSE
  BY DEF Try!StrandedByRace
<1> QED
  BY DEF Try!IInv, Try!TypeOK, Try!LatchesAreOpened, Try!Stranded

LEMMA TryInitIInv == Try!Init => Try!IInv
<1> SUFFICES ASSUME Try!Init PROVE Try!IInv
  OBVIOUS
<1> USE TryAssumptions DEF Try!Init, Try!BatchAssumption
<1>1. Try!CallsMade = {}
  <2>1. ASSUME NEW x \in Try!NewThreadCalls PROVE x \notin Try!CallsMade
    <3>1. PICK c \in Callers, b \in Nat, i \in Nat :
             x = <<c, <<b, i>>>> /\ b \in 1 .. Batches[c] /\ i \in 1 .. BatchSize
      BY CallParts
    <3>2. x \in Try!CallsMade <=> b > batch[c] \/ (b = batch[c] /\ i > toMake[c])
      BY <3>1 DEF Try!CallsMade
    <3> QED
      BY <3>1, <3>2
  <2> QED
    BY <2>1 DEF Try!CallsMade
<1>2. Cardinality(Try!CallsMade) = 0 /\ Cardinality(Try!Threads) \in Nat
  BY <1>1, FiniteCalls, FS_EmptySet
<1>3. Try!TypeOK
  BY TrySameCount, <1>2 DEF Try!TypeOK
<1>4. Try!ThreadsAreCounted
  BY TrySameCount, <1>2 DEF Try!ThreadsAreCounted
<1>5. Try!LatchesAreOpened
  BY DEF Try!LatchesAreOpened
<1>6. Try!FinallyKnows /\ Try!UnlockIsLegal
  BY DEF Try!FinallyKnows, Try!UnlockIsLegal
<1> QED
  BY <1>3, <1>4, <1>5, <1>6 DEF Try!IInv

\* What a thread's steps do not touch.
LEMMA SameCalls ==
    ASSUME UNCHANGED <<batch, toMake>>
    PROVE  Try!CallsMade' = Try!CallsMade
BY DEF Try!CallsMade

LEMMA CheckCountIInv ==
    ASSUME Try!IInv, NEW c \in Callers, Try!CheckCount(c)
    PROVE  Try!IInv'
<1> USE DEF Try!IInv, Try!CheckCount, Try!CallerTo, Try!runVars
<1>1. Try!TypeOK'
  BY DEF Try!TypeOK
<1>2. Try!ThreadsAreCounted'
  BY SameCalls DEF Try!ThreadsAreCounted, Try!TypeOK
<1>3. Try!LatchesAreOpened'
  BY DEF Try!LatchesAreOpened, Try!TypeOK
<1> QED
  BY <1>1, <1>2, <1>3 DEF Try!FinallyKnows, Try!UnlockIsLegal

LEMMA ReplaceLatchIInv ==
    ASSUME Try!IInv, NEW c \in Callers, Try!ReplaceLatch(c)
    PROVE  Try!IInv'
<1> USE DEF Try!IInv, Try!ReplaceLatch, Try!CallerTo, Try!runVars
<1>1. Try!TypeOK'
  BY DEF Try!TypeOK
<1>2. Try!ThreadsAreCounted'
  BY SameCalls DEF Try!ThreadsAreCounted, Try!TypeOK
<1>3. Try!LatchesAreOpened'
  <2>1. ASSUME raced' = {}
        PROVE  /\ 1 .. latchesMade' \subseteq openLatches' \cup {latchField'}
               /\ \A d \in Callers : caller'[d] # "replace"
    <3>1. raced = {} /\ \A d \in Callers \ {c} : caller[d] # "replace"
      BY <2>1
    <3>2. latchField \in openLatches /\ 1 .. latchesMade \subseteq openLatches
      BY <3>1 DEF Try!LatchesAreOpened
    <3> QED
      BY <3>1, <3>2 DEF Try!TypeOK
  <2> QED
    BY <2>1 DEF Try!LatchesAreOpened, Try!TypeOK
<1> QED
  BY <1>1, <1>2, <1>3 DEF Try!FinallyKnows, Try!UnlockIsLegal

LEMMA MakeThreadIInv ==
    ASSUME Try!IInv, NEW c \in Callers, Try!MakeThread(c)
    PROVE  Try!IInv'
<1> USE TryAssumptions DEF Try!IInv, Try!MakeThread, Try!CallerTo, Try!RunTo, Try!runVars,
      Try!BatchAssumption
<1>1. /\ Try!CallsMade' \subseteq Try!NewThreadCalls
      /\ Cardinality(Try!CallsMade') = Cardinality(Try!CallsMade) + 1
      /\ threadIndex + 1 \in Try!Threads /\ threadIndex \in Nat
  BY OneMoreCall, Zenon
<1>2. PICK n \in Try!Threads : n = threadIndex + 1
  BY <1>1
<1>3. run[n] = "none" /\ latchField \in 0 .. latchesMade /\ latchField >= 1
  BY <1>1, <1>2 DEF Try!ThreadsAreCounted, Try!TypeOK
<1>4. n \in 0 .. Cardinality(Try!Threads)
  BY <1>1, <1>2, FiniteCalls
<1>5. toMake[c] \in 1 .. BatchSize
  BY DEF Try!TypeOK, Try!ThreadsAreCounted
<1>6. /\ threadIndex' = n
      /\ latchOf' = [latchOf EXCEPT ![n] = latchField]
      /\ run' = [run EXCEPT ![n] = "await"]
      /\ toMake' = [toMake EXCEPT ![c] = @ - 1]
      /\ caller' = [caller EXCEPT ![c] = IF toMake[c] > 1 THEN "check" ELSE "read"]
      /\ UNCHANGED <<latchField, latchesMade, openLatches, batch, found, raced, getLock, owner,
           hit>>
  BY <1>2
<1> HIDE DEF Try!MakeThread
<1>7. owner # n
  BY <1>1, <1>2, <1>3 DEF Try!TypeOK
<1>8. Try!TypeOK'
  <2>1. toMake' \in [Callers -> 0 .. BatchSize]
    BY <1>5, <1>6 DEF Try!TypeOK
  <2> QED
    BY TrySameCount, <1>3, <1>4, <1>6, <1>7, <2>1 DEF Try!TypeOK
<1>9. Try!ThreadsAreCounted'
  <2>1. threadIndex' = Cardinality(Try!CallsMade')
    BY TrySameCount, <1>1, <1>2, <1>6 DEF Try!ThreadsAreCounted
  <2>2. \A t \in Try!Threads : t > threadIndex' => run'[t] = "none"
    BY <1>1, <1>2, <1>6 DEF Try!ThreadsAreCounted, Try!TypeOK, Try!Threads
  <2>3. ASSUME NEW d \in Callers
        PROVE  /\ batch'[d] <= Batches[d]
               /\ caller'[d] # "ended" => batch'[d] >= 1
               /\ caller'[d] \in {"check", "replace", "make"} => toMake'[d] >= 1
               /\ caller'[d] \in {"read", "countDown"} => toMake'[d] = 0
    <3>1. CASE d = c
      <4>1. caller[c] = "make"
        BY DEF Try!MakeThread
      <4> QED
        BY <1>5, <1>6, <3>1, <4>1 DEF Try!ThreadsAreCounted, Try!TypeOK
    <3>2. CASE d # c
      BY <1>6, <3>2 DEF Try!ThreadsAreCounted, Try!TypeOK
    <3> QED
      BY <3>1, <3>2
  <2> QED
    BY TrySameCount, <2>1, <2>2, <2>3 DEF Try!ThreadsAreCounted
<1>10. Try!LatchesAreOpened'
  <2>1. \A d \in Callers : caller'[d] \in {"replace", "countDown"} => caller[d] = caller'[d]
    BY <1>6 DEF Try!TypeOK
  <2>2. \A t \in Try!Threads : run'[t] = "await" => latchOf'[t] >= 1
    BY <1>3, <1>6 DEF Try!LatchesAreOpened, Try!TypeOK
  <2> QED
    BY <1>6, <2>1, <2>2 DEF Try!LatchesAreOpened
<1>11. Try!FinallyKnows' /\ Try!UnlockIsLegal'
  BY <1>3, <1>6 DEF Try!FinallyKnows, Try!UnlockIsLegal, Try!TypeOK
<1> QED
  BY <1>8, <1>9, <1>10, <1>11

LEMMA ReadFieldIInv ==
    ASSUME Try!IInv, NEW c \in Callers, Try!ReadField(c)
    PROVE  Try!IInv'
<1> USE DEF Try!IInv, Try!ReadField, Try!CallerTo, Try!runVars
<1>1. Try!TypeOK'
  BY DEF Try!TypeOK
<1>2. Try!ThreadsAreCounted'
  BY SameCalls DEF Try!ThreadsAreCounted, Try!TypeOK
<1>3. Try!LatchesAreOpened'
  BY DEF Try!LatchesAreOpened, Try!TypeOK
<1> QED
  BY <1>1, <1>2, <1>3 DEF Try!FinallyKnows, Try!UnlockIsLegal

LEMMA CountDownIInv ==
    ASSUME Try!IInv, NEW c \in Callers, Try!CountDown(c)
    PROVE  Try!IInv'
<1> USE TryAssumptions DEF Try!IInv, Try!CountDown, Try!CallerTo, Try!runVars, Try!BatchAssumption
<1>1. batch[c] \in Nat \ {0} /\ toMake[c] = 0 /\ found[c] \in 1 .. latchesMade
  BY DEF Try!TypeOK, Try!ThreadsAreCounted, Try!LatchesAreOpened
<1>2. Try!TypeOK'
  <2>1. openLatches' \subseteq 1 .. latchesMade
    BY <1>1 DEF Try!TypeOK
  <2>2. batch[c] - 1 \in Nat /\ BatchSize \in 0 .. BatchSize
    BY <1>1
  <2>3. batch' \in [Callers -> Nat] /\ toMake' \in [Callers -> 0 .. BatchSize]
    BY <2>2 DEF Try!TypeOK
  <2> QED
    BY <2>1, <2>3 DEF Try!TypeOK
<1>3. Try!CallsMade' = Try!CallsMade
  <2>1. ASSUME NEW x \in Try!NewThreadCalls
        PROVE  x \in Try!CallsMade' <=> x \in Try!CallsMade
    <3>1. PICK d \in Callers, b \in Nat, i \in Nat :
             x = <<d, <<b, i>>>> /\ b \in 1 .. Batches[d] /\ i \in 1 .. BatchSize
      BY <2>1, CallParts
    <3>2. x \in Try!CallsMade' <=> b > batch'[d] \/ (b = batch'[d] /\ i > toMake'[d])
      BY <3>1 DEF Try!CallsMade
    <3>3. x \in Try!CallsMade <=> b > batch[d] \/ (b = batch[d] /\ i > toMake[d])
      BY <3>1 DEF Try!CallsMade
    <3>4. CASE d = c
      <4>1. batch'[d] = batch[c] - 1 /\ toMake'[d] = BatchSize /\ batch[d] = batch[c]
              /\ toMake[d] = 0
        BY <1>1, <3>4 DEF Try!TypeOK
      <4> QED
        BY <1>1, <3>1, <3>2, <3>3, <4>1
    <3>5. CASE d # c
      BY <3>2, <3>3, <3>5 DEF Try!TypeOK
    <3> QED
      BY <3>4, <3>5
  <2> QED
    BY <2>1 DEF Try!CallsMade
<1>4. Try!ThreadsAreCounted'
  <2>1. ASSUME NEW d \in Callers
        PROVE  /\ batch'[d] <= Batches[d]
               /\ caller'[d] # "ended" => batch'[d] >= 1
               /\ caller'[d] \in {"check", "replace", "make"} => toMake'[d] >= 1
               /\ caller'[d] \in {"read", "countDown"} => toMake'[d] = 0
    <3>1. CASE d = c
      <4>1. /\ batch'[d] = batch[c] - 1 /\ toMake'[d] = BatchSize /\ batch[c] <= Batches[c]
            /\ caller'[d] = IF batch[c] > 1 THEN "check" ELSE "ended"
            /\ Batches[c] \in Nat
        BY <3>1 DEF Try!ThreadsAreCounted, Try!TypeOK
      <4> QED
        BY <1>1, <3>1, <4>1
    <3>2. CASE d # c
      BY <3>2 DEF Try!ThreadsAreCounted, Try!TypeOK
    <3> QED
      BY <3>1, <3>2
  <2> QED
    BY <1>3, <2>1 DEF Try!ThreadsAreCounted
<1>5. Try!LatchesAreOpened'
  BY DEF Try!LatchesAreOpened, Try!TypeOK
<1> QED
  BY <1>2, <1>4, <1>5 DEF Try!FinallyKnows, Try!UnlockIsLegal

LEMMA ThreadIInv ==
    ASSUME Try!IInv, NEW t \in Try!Threads, Try!Thread(t) \/ Try!Interrupt(t)
    PROVE  Try!IInv'
<1> USE DEF Try!IInv, Try!RunTo, Try!callerVars, Try!runVars
<1>1. UNCHANGED Try!callerVars
  BY DEF Try!Thread, Try!Await, Try!TakeLock, Try!TimeOut, Try!Finally, Try!Interrupt
<1>2. PICK spot \in {"lock", "finally", "ended", "illegal"} : run' = [run EXCEPT ![t] = spot]
  BY DEF Try!Thread, Try!Await, Try!TakeLock, Try!TimeOut, Try!Finally, Try!Interrupt
<1>3. run[t] # "none" /\ 0 \notin Try!Threads
  BY FiniteCalls DEF Try!Thread, Try!Await, Try!TakeLock, Try!TimeOut, Try!Finally, Try!Interrupt
<1>4. Try!TypeOK' /\ Try!FinallyKnows' /\ Try!UnlockIsLegal'
  <2>1. CASE Try!Await(t)
    BY <1>1, <2>1 DEF Try!Await, Try!TypeOK, Try!FinallyKnows, Try!UnlockIsLegal
  <2>2. CASE Try!TakeLock(t)
    <3>1. /\ owner = 0 /\ owner' = t /\ run[t] = "lock" /\ run' = [run EXCEPT ![t] = "finally"]
          /\ UNCHANGED <<getLock, hit>>
      BY <2>2 DEF Try!TakeLock
    <3>2. Try!TypeOK'
      BY <1>1, <3>1 DEF Try!TypeOK
    <3>3. Try!FinallyKnows'
      BY <1>3, <3>1 DEF Try!FinallyKnows, Try!TypeOK
    <3> QED
      BY <3>1, <3>2, <3>3 DEF Try!UnlockIsLegal, Try!TypeOK
  <2>3. CASE Try!TimeOut(t)
    BY <1>1, <2>3 DEF Try!TimeOut, Try!TypeOK, Try!FinallyKnows, Try!UnlockIsLegal
  <2>4. CASE Try!Finally(t)
    <3>1. CASE owner = t
      <4>1. /\ owner' = 0 /\ run' = [run EXCEPT ![t] = "ended"] /\ UNCHANGED <<getLock, hit>>
        BY <2>4, <3>1 DEF Try!Finally, Try!FinallyKnows
      <4>2. Try!TypeOK'
        BY <1>1, <3>1, <4>1 DEF Try!TypeOK
      <4>3. Try!FinallyKnows'
        BY <1>3, <3>1, <4>1 DEF Try!FinallyKnows, Try!TypeOK
      <4> QED
        BY <4>1, <4>2, <4>3 DEF Try!UnlockIsLegal, Try!TypeOK
    <3>2. CASE owner # t
      <4>1. UNCHANGED <<owner, getLock, hit>> /\ run[t] = "finally"
        BY <2>4, <3>2 DEF Try!Finally
      <4>2. PICK goal \in {"ended", "illegal"} :
               run' = [run EXCEPT ![t] = goal] /\ (goal = "illegal" => t \in hit)
        BY <2>4, <3>2 DEF Try!Finally, Try!FinallyKnows
      <4>3. Try!TypeOK'
        BY <1>1, <3>2, <4>1, <4>2 DEF Try!TypeOK
      <4>4. Try!FinallyKnows'
        BY <2>4, <3>2, <4>1, <4>2 DEF Try!FinallyKnows, Try!TypeOK
      <4> QED
        BY <4>1, <4>2, <4>3, <4>4 DEF Try!UnlockIsLegal, Try!TypeOK
    <3> QED
      BY <3>1, <3>2
  <2>5. CASE Try!Interrupt(t)
    BY <1>1, <2>5 DEF Try!Interrupt, Try!TypeOK, Try!FinallyKnows, Try!UnlockIsLegal
  <2> QED
    BY <2>1, <2>2, <2>3, <2>4, <2>5 DEF Try!Thread
<1>5. Try!ThreadsAreCounted'
  BY <1>1, <1>2, <1>3, SameCalls DEF Try!ThreadsAreCounted, Try!TypeOK
<1>6. Try!LatchesAreOpened'
  BY <1>1, <1>2 DEF Try!LatchesAreOpened, Try!TypeOK
<1> QED
  BY <1>4, <1>5, <1>6

LEMMA TryNextIInv ==
    ASSUME Try!IInv, [Try!Next]_(Try!vars)
    PROVE  Try!IInv'
<1>1. CASE UNCHANGED Try!vars
  BY <1>1, SameCalls
     DEF Try!vars, Try!IInv, Try!TypeOK, Try!ThreadsAreCounted, Try!LatchesAreOpened,
       Try!FinallyKnows, Try!UnlockIsLegal
<1>2. CASE Try!Next
  BY <1>2, CheckCountIInv, ReplaceLatchIInv, MakeThreadIInv, ReadFieldIInv, CountDownIInv,
     ThreadIInv
     DEF Try!Next, Try!Caller
<1> QED
  BY <1>1, <1>2

\* A thread unlocks what it has locked, but for the one the module names, and only
\* a race of two factory calls strands a thread.
THEOREM UnlockedByItsOwner == Try!Spec => [](Try!UnlockIsLegal /\ Try!StrandedByRace)
<1>1. Try!IInv /\ [Try!Next]_(Try!vars) => Try!IInv'
  BY TryNextIInv
<1>2. Try!IInv => Try!UnlockIsLegal /\ Try!StrandedByRace
  BY TryIInvGuards DEF Try!IInv
<1> QED
  BY TryInitIInv, <1>1, <1>2, PTL DEF Try!Spec

-----------------------------------------------------------------------------
(* Provider and customers: where the missions are, and what has been added up *)

LEMMA CustomerSameCount ==
    \A S : Customers!Cardinality(S) = Cardinality(S)
      /\ (Customers!IsFiniteSet(S) <=> IsFiniteSet(S))
BY Zenon DEF Customers!Cardinality, Customers!IsFiniteSet, Cardinality, IsFiniteSet

LEMMA LeastIndex ==
    ASSUME NEW n \in Nat, NEW T \in SUBSET (0 .. n), T # {}
    PROVE  \E i \in T : \A j \in T : i <= j
<1> DEFINE Below(i) == {j \in T : j < i}
           sets == {Below(i) : i \in T}
<1>1. sets \subseteq FiniteSubsetsOf(0 .. n)
  <2>1. 0 \in Int /\ n \in Int
    OBVIOUS
  <2>2. IsFiniteSet(0 .. n)
    BY <2>1, FS_Interval
  <2>3. FiniteSubsetsOf(0 .. n) = SUBSET (0 .. n)
    <3>1. \A U \in SUBSET (0 .. n) : IsFiniteSet(U)
      BY <2>2, FS_Subset, Zenon
    <3> QED
      BY <3>1, Zenon DEF FiniteSubsetsOf
  <2>4. \A i \in T : Below(i) \in SUBSET (0 .. n)
    OBVIOUS
  <2> HIDE DEF Below
  <2>5. \A i \in T : Below(i) \in FiniteSubsetsOf(0 .. n)
    BY <2>3, <2>4, Zenon
  <2> QED
    BY <2>5, Zenon
<1>2. sets # {}
  OBVIOUS
<1>3. PICK s \in sets : \A r \in sets : <<r, s>> \notin StrictSubsetOrdering(0 .. n)
  <2>1. IsWellFoundedOn(StrictSubsetOrdering(0 .. n), FiniteSubsetsOf(0 .. n))
    BY FS_StrictSubsetOrderingWellFounded
  <2> HIDE DEF sets
  <2> QED
    BY <1>1, <1>2, <2>1, WFMin, Zenon
<1>4. PICK i \in T : s = Below(i)
  OBVIOUS
<1>5. ASSUME NEW j \in T, j < i
      PROVE  FALSE
  <2>1. i \in Int /\ j \in Int /\ ~(j < j) /\ \A k \in T : k \in Int
    OBVIOUS
  <2>2. \A k \in T : k < j => k < i
    BY <1>5, <2>1
  <2>3. Below(j) \subseteq Below(i) /\ j \in Below(i) /\ j \notin Below(j)
    BY <1>5, <2>1, <2>2, Zenon
  <2>4. <<Below(j), Below(i)>> \in StrictSubsetOrdering(0 .. n)
    BY <2>3, Zenon DEF StrictSubsetOrdering
  <2> QED
    BY <1>3, <1>4, <2>4
<1> QED
  BY <1>5

-----------------------------------------------------------------------------
(* The sum of a set of missions *)

\* What holds of 0 and passes from a number to the next one holds up to n.
LEMMA CountsUp ==
    ASSUME NEW n \in Nat, NEW T \in SUBSET (0 .. n), 0 \in T,
           \A i \in 1 .. n : i - 1 \in T => i \in T
    PROVE  T = 0 .. n
<1> SUFFICES ASSUME T # 0 .. n PROVE FALSE
  OBVIOUS
<1>1. (0 .. n) \ T \in SUBSET (0 .. n) /\ (0 .. n) \ T # {}
  OBVIOUS
<1>2. PICK i \in (0 .. n) \ T : \A j \in (0 .. n) \ T : i <= j
  BY <1>1, LeastIndex, Zenon
<1>3. i \in 1 .. n /\ i - 1 \in 0 .. n /\ ~(i <= i - 1)
  BY <1>2
<1> QED
  BY <1>2, <1>3

Mission(S, i) == IF i \in S THEN i ELSE 0

SumsUpTo(S, n, sums) == sums = [i \in 0 .. n |-> IF i = 0 THEN 0 ELSE sums[i - 1] + Mission(S, i)]

LEMMA SumsExist ==
    ASSUME NEW S, NEW n \in Nat
    PROVE  \E sums : SumsUpTo(S, n, sums)
<1> DEFINE T == {k \in 0 .. n : \E sums : SumsUpTo(S, k, sums)}
<1>1. 0 \in T
  <2> DEFINE sums == [i \in 0 .. 0 |-> 0]
  <2>1. sums = [i \in 0 .. 0 |-> IF i = 0 THEN 0 ELSE sums[i - 1] + Mission(S, i)]
    OBVIOUS
  <2> HIDE DEF sums
  <2>2. SumsUpTo(S, 0, sums)
    BY <2>1 DEF SumsUpTo
  <2> QED
    BY <2>2
<1>2. ASSUME NEW k \in 1 .. n, k - 1 \in T
      PROVE  k \in T
  <2>1. PICK sums : SumsUpTo(S, k - 1, sums)
    BY <1>2
  <2> DEFINE next == [i \in 0 .. k |-> IF i = k THEN sums[k - 1] + Mission(S, k) ELSE sums[i]]
  <2>2. ASSUME NEW i \in 0 .. k
        PROVE  next[i] = IF i = 0 THEN 0 ELSE next[i - 1] + Mission(S, i)
    <3>1. CASE i = k
      BY <3>1
    <3>2. CASE i # k
      <4>1. i \in 0 .. k - 1 /\ next[i] = sums[i]
        BY <3>2
      <4>2. sums[i] = IF i = 0 THEN 0 ELSE sums[i - 1] + Mission(S, i)
        BY <2>1, <4>1 DEF SumsUpTo
      <4>3. i # 0 => next[i - 1] = sums[i - 1]
        BY <4>1
      <4> HIDE DEF next
      <4> QED
        BY <4>1, <4>2, <4>3
    <3> QED
      BY <3>1, <3>2
  <2>3. next = [i \in 0 .. k |-> IF i = 0 THEN 0 ELSE next[i - 1] + Mission(S, i)]
    <3>1. next = [i \in 0 .. k |-> next[i]]
      OBVIOUS
    <3> HIDE DEF next
    <3> QED
      BY <2>2, <3>1
  <2> HIDE DEF next
  <2> QED
    BY <2>3 DEF SumsUpTo
<1> HIDE DEF T
<1>3. T = 0 .. n
  <2>1. T \in SUBSET (0 .. n)
    BY DEF T
  <2> QED
    BY <1>1, <1>2, <2>1, CountsUp, Zenon
<1>4. n \in T
  BY <1>3
<1> QED
  BY <1>4 DEF T

LEMMA SumSteps ==
    ASSUME NEW S
    PROVE  \E sums :
              /\ Customers!SumOf(S) = sums[NumMissions] /\ sums[0] = 0
              /\ \A i \in 1 .. NumMissions : sums[i] = sums[i - 1] + Mission(S, i)
<1>1. NumMissions \in Nat
  BY CustomersAssumptions DEF Customers!MissionsAssumption
<1>2. \E sums : SumsUpTo(S, NumMissions, sums)
  BY <1>1, SumsExist
<1> DEFINE sums == CHOOSE f : SumsUpTo(S, NumMissions, f)
<1>3. SumsUpTo(S, NumMissions, sums)
  BY <1>2
<1>4. Customers!SumOf(S) = sums[NumMissions]
  BY DEF Customers!SumOf, SumsUpTo, Mission
<1> HIDE DEF sums
<1> QED
  BY <1>1, <1>3, <1>4 DEF SumsUpTo

\* The sum is a number, it is 0 for no mission, and one mission more adds its number.
LEMMA SumIsNat ==
    ASSUME NEW S
    PROVE  Customers!SumOf(S) \in Nat
<1>1. NumMissions \in Nat
  BY CustomersAssumptions DEF Customers!MissionsAssumption
<1>2. PICK sums : /\ Customers!SumOf(S) = sums[NumMissions] /\ sums[0] = 0
                 /\ \A i \in 1 .. NumMissions : sums[i] = sums[i - 1] + Mission(S, i)
  BY SumSteps
<1> DEFINE T == {i \in 0 .. NumMissions : sums[i] \in Nat}
<1>3. 0 \in T
  BY <1>1, <1>2
<1>4. ASSUME NEW i \in 1 .. NumMissions, i - 1 \in T
      PROVE  i \in T
  BY <1>1, <1>2, <1>4 DEF Mission
<1>5. T = 0 .. NumMissions
  <2>1. T \in SUBSET (0 .. NumMissions)
    OBVIOUS
  <2> HIDE DEF T
  <2> QED
    BY <1>1, <1>3, <1>4, <2>1, CountsUp, Zenon
<1>6. NumMissions \in T
  BY <1>1, <1>5
<1> QED
  BY <1>2, <1>6

LEMMA SumOfNone == Customers!SumOf({}) = 0
<1>1. NumMissions \in Nat
  BY CustomersAssumptions DEF Customers!MissionsAssumption
<1>2. PICK sums : /\ Customers!SumOf({}) = sums[NumMissions] /\ sums[0] = 0
                 /\ \A i \in 1 .. NumMissions : sums[i] = sums[i - 1] + Mission({}, i)
  BY SumSteps
<1> DEFINE T == {i \in 0 .. NumMissions : sums[i] = 0}
<1>3. 0 \in T
  BY <1>1, <1>2
<1>4. ASSUME NEW i \in 1 .. NumMissions, i - 1 \in T
      PROVE  i \in T
  BY <1>1, <1>2, <1>4 DEF Mission
<1>5. T = 0 .. NumMissions
  <2>1. T \in SUBSET (0 .. NumMissions)
    OBVIOUS
  <2> HIDE DEF T
  <2> QED
    BY <1>1, <1>3, <1>4, <2>1, CountsUp, Zenon
<1>6. NumMissions \in T
  BY <1>1, <1>5
<1> QED
  BY <1>2, <1>6

LEMMA SumAddsUp ==
    ASSUME NEW S, NEW m \in 1 .. NumMissions, m \notin S
    PROVE  Customers!SumOf(S \cup {m}) = Customers!SumOf(S) + m
<1>1. NumMissions \in Nat
  BY CustomersAssumptions DEF Customers!MissionsAssumption
<1>2. PICK sums : /\ Customers!SumOf(S) = sums[NumMissions] /\ sums[0] = 0
                 /\ \A i \in 1 .. NumMissions : sums[i] = sums[i - 1] + Mission(S, i)
  BY SumSteps
<1>3. PICK more : /\ Customers!SumOf(S \cup {m}) = more[NumMissions] /\ more[0] = 0
                  /\ \A i \in 1 .. NumMissions :
                        more[i] = more[i - 1] + Mission(S \cup {m}, i)
  BY SumSteps
<1> DEFINE T == {i \in 0 .. NumMissions :
                    sums[i] \in Nat /\ more[i] = IF i < m THEN sums[i] ELSE sums[i] + m}
<1>4. 0 \in T
  BY <1>1, <1>2, <1>3
<1>5. ASSUME NEW i \in 1 .. NumMissions, i - 1 \in T
      PROVE  i \in T
  <2>1. /\ sums[i - 1] \in Nat
        /\ more[i - 1] = IF i - 1 < m THEN sums[i - 1] ELSE sums[i - 1] + m
        /\ sums[i] = sums[i - 1] + Mission(S, i)
        /\ more[i] = more[i - 1] + Mission(S \cup {m}, i)
    BY <1>2, <1>3, <1>5
  <2>2. Mission(S, i) \in Nat /\ Mission(S \cup {m}, i) = IF i = m THEN m ELSE Mission(S, i)
    BY DEF Mission
  <2>3. i = m => Mission(S, i) = 0
    BY DEF Mission
  <2> QED
    BY <1>1, <2>1, <2>2, <2>3
<1>6. T = 0 .. NumMissions
  <2>1. T \in SUBSET (0 .. NumMissions)
    OBVIOUS
  <2> HIDE DEF T
  <2> QED
    BY <1>1, <1>4, <1>5, <2>1, CountsUp, Zenon
<1>7. NumMissions \in T
  BY <1>1, <1>6
<1> QED
  BY <1>1, <1>2, <1>3, <1>7

-----------------------------------------------------------------------------
(* A queue of different missions *)

Distinct(q) == \A i, j \in 1 .. Len(q) : q[i] = q[j] => i = j

MissionsIn(q) == {q[i] : i \in 1 .. Len(q)}

LEMMA OneMissionMore ==
    ASSUME NEW S, NEW q \in Seq(S), Distinct(q), NEW e \in S, e \notin MissionsIn(q)
    PROVE  \E r \in Seq(S) :
              r = Append(q, e) /\ Distinct(r) /\ MissionsIn(r) = MissionsIn(q) \cup {e}
<1>1. PICK r \in Seq(S) :
         /\ r = Append(q, e) /\ Len(q) \in Nat /\ Len(r) = Len(q) + 1 /\ r[Len(q) + 1] = e
         /\ \A i \in 1 .. Len(q) : r[i] = q[i]
  <2>1. /\ Append(q, e) \in Seq(S) /\ Len(q) \in Nat /\ Len(Append(q, e)) = Len(q) + 1
        /\ Append(q, e)[Len(q) + 1] = e
        /\ \A i \in 1 .. Len(q) : Append(q, e)[i] = q[i]
    BY AppendProperties
  <2> QED
    BY <2>1, Zenon
<1>2. /\ Len(q) \in Nat /\ Len(r) = Len(q) + 1 /\ r[Len(q) + 1] = e
      /\ \A i \in 1 .. Len(q) : r[i] = q[i]
  BY <1>1
<1>3. \A i \in 1 .. Len(q) : q[i] # e
  BY DEF MissionsIn
<1>4. \A i, j \in 1 .. Len(r) : r[i] = r[j] => i = j
  BY <1>2, <1>3 DEF Distinct
<1>5. MissionsIn(r) = MissionsIn(q) \cup {e}
  <2>1. ASSUME NEW i \in 1 .. Len(r)
        PROVE  r[i] \in MissionsIn(q) \cup {e}
    BY <1>2 DEF MissionsIn
  <2>2. ASSUME NEW i \in 1 .. Len(q)
        PROVE  q[i] \in MissionsIn(r)
    <3>1. i \in 1 .. Len(r) /\ q[i] = r[i]
      BY <1>2
    <3> QED
      BY <3>1 DEF MissionsIn
  <2>3. e \in MissionsIn(r)
    <3>1. Len(q) + 1 \in 1 .. Len(r) /\ e = r[Len(q) + 1]
      BY <1>2
    <3> QED
      BY <3>1, Zenon DEF MissionsIn
  <2> QED
    BY <2>1, <2>2, <2>3 DEF MissionsIn
<1> QED
  BY <1>1, <1>4, <1>5 DEF Distinct

LEMMA OneMissionLess ==
    ASSUME NEW S, NEW q \in Seq(S), Distinct(q), q # <<>>
    PROVE  \E r \in Seq(S) :
              /\ r = Tail(q) /\ Distinct(r) /\ MissionsIn(r) = MissionsIn(q) \ {Head(q)}
              /\ Head(q) \in MissionsIn(q)
<1>1. PICK r \in Seq(S) :
         /\ r = Tail(q) /\ Len(q) \in Nat /\ Len(r) = Len(q) - 1 /\ Len(q) > 0
         /\ \A i \in 1 .. Len(q) - 1 : r[i] = q[i + 1]
         /\ Head(q) = q[1]
  <2>1. Len(q) \in Nat /\ Len(q) > 0
    BY EmptySeq
  <2>2. /\ Tail(q) \in Seq(S) /\ Len(Tail(q)) = Len(q) - 1 /\ Head(q) = q[1]
        /\ \A i \in 1 .. Len(q) - 1 : Tail(q)[i] = q[i + 1]
    BY HeadTailProperties
  <2> QED
    BY <2>1, <2>2, Zenon
<1>2. /\ Len(q) \in Nat /\ Len(r) = Len(q) - 1 /\ 1 \in 1 .. Len(q) /\ Head(q) = q[1]
      /\ \A i \in 1 .. Len(q) - 1 : r[i] = q[i + 1]
  BY <1>1
<1>3. \A i, j \in 1 .. Len(r) : r[i] = r[j] => i = j
  BY <1>2 DEF Distinct
<1>4. MissionsIn(r) = MissionsIn(q) \ {q[1]}
  <2>1. ASSUME NEW i \in 1 .. Len(r)
        PROVE  r[i] \in MissionsIn(q) /\ r[i] # q[1]
    <3>1. i + 1 \in 1 .. Len(q) /\ i + 1 # 1 /\ r[i] = q[i + 1]
      BY <1>2
    <3>2. q[i + 1] \in MissionsIn(q)
      BY <3>1, Zenon DEF MissionsIn
    <3> QED
      BY <1>2, <3>1, <3>2 DEF Distinct
  <2>2. ASSUME NEW i \in 1 .. Len(q), q[i] # q[1]
        PROVE  q[i] \in MissionsIn(r)
    <3>1. i - 1 \in 1 .. Len(r) /\ i - 1 \in 1 .. Len(q) - 1 /\ (i - 1) + 1 = i
      BY <1>2, <2>2
    <3>2. r[i - 1] = q[i]
      BY <1>2, <3>1
    <3> QED
      BY <3>1, <3>2, Zenon DEF MissionsIn
  <2> QED
    BY <2>1, <2>2 DEF MissionsIn
<1>5. q[1] \in MissionsIn(q)
  BY <1>2 DEF MissionsIn
<1> QED
  BY <1>1, <1>2, <1>3, <1>4, <1>5 DEF Distinct

-----------------------------------------------------------------------------
(* The invariant *)

LEMMA Numbers ==
    NumCustomers \in Nat \ {0} /\ NumMissions \in Nat /\ Customers!Customers = 1 .. NumCustomers
BY CustomersAssumptions
   DEF Customers!CustomersAssumption, Customers!MissionsAssumption, Customers!Customers

LEMMA FiniteCustomers ==
    /\ IsFiniteSet(Customers!Uncounted) /\ Cardinality(Customers!Uncounted) \in 0 .. NumCustomers
<1>1. NumCustomers \in Nat \ {0} /\ NumMissions \in Nat
  BY CustomersAssumptions DEF Customers!CustomersAssumption, Customers!MissionsAssumption
<1>2. IsFiniteSet(Customers!Customers) /\ Cardinality(Customers!Customers) = NumCustomers
  <2>1. 1 \in Int /\ NumCustomers \in Int /\ ~(1 > NumCustomers)
          /\ NumCustomers - 1 + 1 = NumCustomers
    BY <1>1
  <2> QED
    BY <2>1, FS_Interval DEF Customers!Customers
<1>3. Customers!Uncounted \in SUBSET Customers!Customers
  BY DEF Customers!Uncounted
<1>4. IsFiniteSet(Customers!Uncounted) /\ Cardinality(Customers!Uncounted) \in Nat
        /\ Cardinality(Customers!Uncounted) <= NumCustomers
  BY <1>2, <1>3, FS_Subset, FS_CardinalityType
<1> QED
  BY <1>1, <1>4

LEMMA IInvReturnsWithAll == Customers!IInv => Customers!ReturnsWithAll
<1> SUFFICES ASSUME Customers!IInv, NEW c \in Customers!Customers,
                    customer[c] \in {"returned", "exited"}
             PROVE  result[c] =
                       Customers!SumOf({i \in 1 .. NumMissions : Customers!CustomerOf(i) = c})
  BY DEF Customers!ReturnsWithAll
<1>1. finish[c] /\ queues[c] = <<>>
        /\ result[c] = Customers!SumOf(Customers!Offered(c) \ Customers!Queued(c))
  BY DEF Customers!IInv, Customers!MissionsAreAdded
<1>2. main \in Customers!FromInterrupt
  BY <1>1 DEF Customers!IInv, Customers!InterruptsAreKept
<1>3. Customers!Queued(c) = {}
  BY <1>1 DEF Customers!Queued
<1>4. Customers!Offered(c) \ Customers!Queued(c) =
        {i \in 1 .. NumMissions : Customers!CustomerOf(i) = c}
  BY <1>2, <1>3 DEF Customers!Offered, Customers!FromInterrupt
<1> QED
  BY <1>1, <1>4

LEMMA CustomerInitIInv == Customers!Init => Customers!IInv
<1> SUFFICES ASSUME Customers!Init PROVE Customers!IInv
  OBVIOUS
<1> USE Numbers DEF Customers!Init
<1>1. Customers!TypeOK
  <2>1. 0 \in Nat /\ NumCustomers \in 0 .. NumCustomers /\ 1 \in 1 .. NumCustomers
    OBVIOUS
  <2>2. queues \in [Customers!Customers -> Seq(1 .. NumMissions)]
    OBVIOUS
  <2> QED
    BY <2>1, <2>2 DEF Customers!TypeOK
<1>2. Customers!LatchCounts
  <2>1. Customers!Uncounted = Customers!Customers
    BY DEF Customers!Uncounted
  <2>2. Cardinality(1 .. NumCustomers) = NumCustomers
    BY FS_Interval
  <2> QED
    BY CustomerSameCount, <2>1, <2>2 DEF Customers!LatchCounts, Customers!FromInterrupt
<1>3. Customers!MissionsAreAdded
  <2>1. ASSUME NEW c \in Customers!Customers
        PROVE  Customers!Offered(c) \ Customers!Queued(c) = {} /\ queues[c] = <<>>
                 /\ Customers!Queued(c) = {}
    BY DEF Customers!Offered, Customers!Queued
  <2>2. ASSUME NEW c \in Customers!Customers
        PROVE  /\ result[c] = 0 /\ Len(queues[c]) = 0
               /\ customer[c] \notin {"returned", "exited"}
    BY EmptySeq
  <2>3. ASSUME NEW c \in Customers!Customers
        PROVE  result[c] = Customers!SumOf(Customers!Offered(c) \ Customers!Queued(c))
                 /\ Customers!Queued(c) \subseteq Customers!Offered(c)
    BY <2>1, <2>2, SumOfNone, Zenon
  <2>4. ASSUME NEW c \in Customers!Customers
        PROVE  \A i, j \in 1 .. Len(queues[c]) : queues[c][i] = queues[c][j] => i = j
    BY <2>2
  <2> HIDE DEF Customers!Init
  <2> QED
    BY <2>2, <2>3, <2>4, Zenon DEF Customers!MissionsAreAdded
<1>4. Customers!LoopsBegin /\ Customers!InterruptsAreKept /\ Customers!InterruptIsKept
        /\ Customers!DestroyIsLate /\ Customers!DestroyIsLegal
  BY DEF Customers!LoopsBegin, Customers!InterruptsAreKept, Customers!InterruptIsKept,
         Customers!DestroyIsLate, Customers!DestroyIsLegal
<1> QED
  BY <1>1, <1>2, <1>3, <1>4 DEF Customers!IInv

\* The missions are where they were.
LEMMA SameMissions ==
    ASSUME Customers!IInv, main # "submit", main' # "submit", main # "offer", main' # "offer",
           UNCHANGED <<queues, result>>,
           \A c \in Customers!Customers :
              customer'[c] \in {"returned", "exited"} => finish'[c] /\ queues[c] = <<>>
    PROVE  Customers!MissionsAreAdded'
<1>1. ASSUME NEW c \in Customers!Customers
      PROVE  Customers!Offered(c)' = Customers!Offered(c)
               /\ Customers!Queued(c)' = Customers!Queued(c)
  BY DEF Customers!Offered, Customers!Queued
<1> QED
  BY <1>1 DEF Customers!IInv, Customers!MissionsAreAdded

LEMMA SameOffers ==
    ASSUME Customers!IInv, UNCHANGED <<queues, result>>,
           \A c \in Customers!Customers : Customers!Offered(c)' = Customers!Offered(c),
           \A c \in Customers!Customers :
              customer'[c] \in {"returned", "exited"} => finish'[c] /\ queues[c] = <<>>
    PROVE  Customers!MissionsAreAdded'
<1>1. \A c \in Customers!Customers : Customers!Queued(c)' = Customers!Queued(c)
  BY DEF Customers!Queued
<1>2. ASSUME NEW c \in Customers!Customers
      PROVE  /\ \A i, j \in 1 .. Len(queues[c]) : queues[c][i] = queues[c][j] => i = j
             /\ Customers!Queued(c) \subseteq Customers!Offered(c)
             /\ result[c] = Customers!SumOf(Customers!Offered(c) \ Customers!Queued(c))
  BY Zenon DEF Customers!IInv, Customers!MissionsAreAdded
<1>3. queues' = queues /\ result' = result
  OBVIOUS
<1>4. ASSUME NEW c \in Customers!Customers
      PROVE  /\ \A i, j \in 1 .. Len(queues'[c]) : queues'[c][i] = queues'[c][j] => i = j
             /\ customer'[c] \in {"returned", "exited"} => finish'[c] /\ queues'[c] = <<>>
  BY <1>2, <1>3
<1>5. ASSUME NEW c \in Customers!Customers
      PROVE  /\ (Customers!Queued(c))' \subseteq (Customers!Offered(c))'
             /\ result'[c] = Customers!SumOf((Customers!Offered(c))' \ (Customers!Queued(c))')
  <2>1. (Customers!Queued(c))' = Customers!Queued(c)
          /\ (Customers!Offered(c))' = Customers!Offered(c)
    BY <1>1
  <2>2. result'[c] = Customers!SumOf(Customers!Offered(c) \ Customers!Queued(c))
    BY <1>2, <1>3
  <2> QED
    BY <1>2, <2>1, <2>2, Zenon
<1> QED
  BY <1>4, <1>5, Zenon DEF Customers!MissionsAreAdded

\* The places of the customers, and with them the latch, are as they were.
LEMMA SameLatch ==
    ASSUME Customers!IInv, UNCHANGED <<customer, latch>>, main # "submit", main' # "submit",
           main' \in {"shutdown"} \cup Customers!FromInterrupt => latch = 0
    PROVE  Customers!LatchCounts'
<1>1. Customers!Uncounted' = Customers!Uncounted
  BY DEF Customers!Uncounted
<1> QED
  BY <1>1 DEF Customers!IInv, Customers!LatchCounts

LEMMA SubmitIInv ==
    ASSUME Customers!IInv, Customers!Submit
    PROVE  Customers!IInv'
<1> USE Numbers DEF Customers!IInv, Customers!Submit, Customers!Place, Customers!Turn
<1>1. index \in Customers!Customers /\ customer[index] = "none" /\ main = "submit"
  BY DEF Customers!LoopsBegin, Customers!LatchCounts
<1>2. \/ /\ index < NumCustomers /\ index' = index + 1 /\ main' = "submit"
      \/ /\ index = NumCustomers /\ index' = 1
         /\ main' = IF NumMissions = 0 THEN "await" ELSE "offer"
  BY <1>1
<1>3. /\ customer' = [customer EXCEPT ![index] = "begin"]
      /\ UNCHANGED <<queues, latch, shutdown, flag, finish, result, total, spurious>>
  OBVIOUS
<1> HIDE DEF Customers!Submit
<1>4. Customers!TypeOK' /\ Customers!LoopsBegin'
  <2>1. index' \in Customers!Customers \cup (1 .. NumMissions) /\ Customers!LoopsBegin'
    BY <1>1, <1>2 DEF Customers!LoopsBegin
  <2>2. main' \in {"submit", "await", "offer"}
    BY <1>2
  <2> QED
    BY <1>3, <2>1, <2>2 DEF Customers!TypeOK
<1>5. Customers!LatchCounts'
  <2>1. Customers!Uncounted' = Customers!Uncounted
    BY <1>1, <1>3 DEF Customers!Uncounted, Customers!TypeOK
  <2>2. ASSUME NEW c \in Customers!Customers
        PROVE  customer'[c] = "none" <=> main' = "submit" /\ c >= index'
    BY <1>1, <1>2, <1>3 DEF Customers!LatchCounts, Customers!TypeOK
  <2> QED
    BY <1>2, <1>3, <2>1, <2>2 DEF Customers!LatchCounts, Customers!FromInterrupt
<1>6. Customers!MissionsAreAdded'
  <2>1. ASSUME NEW c \in Customers!Customers
        PROVE  Customers!Offered(c)' = Customers!Offered(c)
                 /\ Customers!Queued(c)' = Customers!Queued(c)
    BY <1>1, <1>2, <1>3 DEF Customers!Offered, Customers!Queued
  <2>2. \A c \in Customers!Customers :
           customer'[c] \in {"returned", "exited"} => finish'[c] /\ queues[c] = <<>>
    BY <1>3 DEF Customers!MissionsAreAdded, Customers!TypeOK
  <2> QED
    BY <1>3, <2>1, <2>2, SameOffers
<1>7. Customers!InterruptsAreKept' /\ Customers!InterruptIsKept'
  BY <1>1, <1>2, <1>3
     DEF Customers!InterruptsAreKept, Customers!InterruptIsKept, Customers!FromInterrupt,
         Customers!TypeOK
<1>8. Customers!DestroyIsLate' /\ Customers!DestroyIsLegal'
  BY <1>2 DEF Customers!DestroyIsLate, Customers!DestroyIsLegal
<1> QED
  BY <1>4, <1>5, <1>6, <1>7, <1>8

LEMMA OfferIInv ==
    ASSUME Customers!IInv, Customers!Offer
    PROVE  Customers!IInv'
<1> USE Numbers DEF Customers!IInv, Customers!Offer, Customers!Turn, Customers!custVars
<1>1. index \in 1 .. NumMissions /\ main = "offer"
  BY DEF Customers!LoopsBegin
<1>2. \/ /\ index < NumMissions /\ index' = index + 1 /\ main' = "offer"
      \/ /\ index = NumMissions /\ index' = 1 /\ main' = "await"
  BY <1>1
<1>3. /\ queues' = [queues EXCEPT ![Customers!CustomerOf(index)] = Append(@, index)]
      /\ UNCHANGED <<latch, shutdown, customer, flag, finish, result, total, spurious>>
  OBVIOUS
<1> HIDE DEF Customers!Offer
<1>4. ASSUME NEW c \in Customers!Customers
      PROVE  /\ Customers!Offered(c)' = IF c = Customers!CustomerOf(index)
                                         THEN Customers!Offered(c) \cup {index}
                                         ELSE Customers!Offered(c)
             /\ index \notin Customers!Offered(c)
  <2>1. ASSUME NEW i \in 1 .. NumMissions
        PROVE  (main' # "submit" /\ (main' = "offer" => i < index')) <=> i < index \/ i = index
    BY <1>1, <1>2
  <2>2. /\ Customers!Offered(c) =
              {i \in 1 .. NumMissions : Customers!CustomerOf(i) = c /\ i < index}
        /\ Customers!Offered(c)' =
              {i \in 1 .. NumMissions : Customers!CustomerOf(i) = c /\ (i < index \/ i = index)}
    BY <1>1, <2>1 DEF Customers!Offered
  <2>3. ~(index < index)
    BY <1>1
  <2> QED
    BY <1>1, <2>2, <2>3
<1>5. Customers!TypeOK' /\ Customers!LoopsBegin'
  <2>1. ASSUME Customers!CustomerOf(index) \in Customers!Customers
        PROVE  Append(queues[Customers!CustomerOf(index)], index) \in Seq(1 .. NumMissions)
    BY <1>1, <2>1 DEF Customers!TypeOK
  <2>2. queues' \in [Customers!Customers -> Seq(1 .. NumMissions)]
    BY <1>3, <2>1 DEF Customers!TypeOK
  <2>3. index' \in Customers!Customers \cup (1 .. NumMissions) /\ Customers!LoopsBegin'
    BY <1>1, <1>2 DEF Customers!LoopsBegin
  <2>4. main' \in {"offer", "await"}
    BY <1>2
  <2> QED
    BY <1>3, <2>2, <2>3, <2>4 DEF Customers!TypeOK
<1>6. Customers!MissionsAreAdded'
  <2> SUFFICES ASSUME NEW c \in Customers!Customers
               PROVE  /\ Distinct(queues'[c])
                      /\ MissionsIn(queues'[c]) \subseteq Customers!Offered(c)'
                      /\ result[c] = Customers!SumOf(Customers!Offered(c)' \ MissionsIn(queues'[c]))
                      /\ customer[c] \notin {"returned", "exited"}
    BY <1>3 DEF Customers!MissionsAreAdded, Distinct, MissionsIn, Customers!Queued
  <2>1. customer[c] \notin {"returned", "exited"}
    BY <1>1 DEF Customers!MissionsAreAdded, Customers!InterruptsAreKept, Customers!FromInterrupt
  <2>2. PICK q \in Seq(1 .. NumMissions) : q = queues[c]
    BY DEF Customers!TypeOK
  <2>3. /\ Distinct(q) /\ MissionsIn(q) \subseteq Customers!Offered(c)
        /\ result[c] = Customers!SumOf(Customers!Offered(c) \ MissionsIn(q))
    <3>1. MissionsIn(q) = Customers!Queued(c)
      BY <2>2 DEF MissionsIn, Customers!Queued
    <3>2. /\ \A i, j \in 1 .. Len(queues[c]) : queues[c][i] = queues[c][j] => i = j
          /\ Customers!Queued(c) \subseteq Customers!Offered(c)
          /\ result[c] = Customers!SumOf(Customers!Offered(c) \ Customers!Queued(c))
      BY DEF Customers!MissionsAreAdded
    <3>3. Distinct(q)
      BY <2>2, <3>2 DEF Distinct
    <3> QED
      BY <3>1, <3>2, <3>3
  <2>4. CASE c # Customers!CustomerOf(index)
    <3>1. queues'[c] = q
      BY <1>3, <2>2, <2>4 DEF Customers!TypeOK
    <3> QED
      BY <1>4, <2>1, <2>3, <2>4, <3>1
  <2>5. CASE c = Customers!CustomerOf(index)
    <3>1. PICK r \in Seq(1 .. NumMissions) :
             r = Append(q, index) /\ Distinct(r) /\ MissionsIn(r) = MissionsIn(q) \cup {index}
      <4>1. index \notin MissionsIn(q) /\ index \in 1 .. NumMissions
        BY <1>1, <1>4, <2>3
      <4>2. ASSUME NEW S, q \in Seq(S), NEW e \in S, e \notin MissionsIn(q)
            PROVE  \E r \in Seq(S) :
                      r = Append(q, e) /\ Distinct(r) /\ MissionsIn(r) = MissionsIn(q) \cup {e}
        BY <2>3, <4>2, OneMissionMore
      <4> QED
        BY <4>1, <4>2, Zenon
    <3>2. queues'[c] = r
      BY <1>3, <2>2, <2>5, <3>1 DEF Customers!TypeOK
    <3>3. Customers!Offered(c)' \ MissionsIn(r) = Customers!Offered(c) \ MissionsIn(q)
            /\ MissionsIn(r) \subseteq Customers!Offered(c)'
      BY <1>4, <2>3, <2>5, <3>1
    <3> QED
      BY <2>1, <2>3, <3>1, <3>2, <3>3
  <2> QED
    BY <2>4, <2>5
<1>7. Customers!LatchCounts'
  <2>1. Customers!Uncounted' = Customers!Uncounted
    BY <1>3 DEF Customers!Uncounted
  <2> QED
    BY <1>1, <1>2, <1>3, <2>1 DEF Customers!LatchCounts, Customers!FromInterrupt
<1>8. Customers!InterruptsAreKept' /\ Customers!InterruptIsKept' /\ Customers!DestroyIsLate'
        /\ Customers!DestroyIsLegal'
  BY <1>1, <1>2, <1>3
     DEF Customers!InterruptsAreKept, Customers!InterruptIsKept, Customers!DestroyIsLate,
       Customers!DestroyIsLegal, Customers!FromInterrupt
<1> QED
  BY <1>5, <1>6, <1>7, <1>8

\* The steps of main() that touch neither customers nor missions.
LEMMA ShutdownIInv ==
    ASSUME Customers!IInv,
           Customers!Await \/ Customers!Shutdown \/ Customers!WaitGroup
           \/ Customers!SpuriousWakeup \/ Customers!Destroy
    PROVE  Customers!IInv'
<1> USE Numbers DEF Customers!IInv, Customers!custVars
<1>1. /\ UNCHANGED <<index, queues, latch, customer, flag, finish, result, total>>
      /\ <<main, main'>> \in {<<"await", "shutdown">>, <<"shutdown", "interrupt">>,
                              <<"wait", "waiting">>, <<"waiting", "destroy">>,
                              <<"destroy", "get">>, <<"destroy", "failed">>}
      /\ main = "await" => latch = 0
      /\ shutdown' = (shutdown \/ main = "shutdown")
      /\ spurious' = (spurious \/ main = "waiting")
      /\ main' = "failed" => Customers!Active # {}
  BY DEF Customers!Await, Customers!Shutdown, Customers!WaitGroup, Customers!SpuriousWakeup,
         Customers!Destroy, Customers!TypeOK
<1>2. Customers!TypeOK' /\ Customers!LoopsBegin'
  BY <1>1 DEF Customers!TypeOK, Customers!LoopsBegin
<1>3. Customers!LatchCounts'
  BY <1>1, SameLatch DEF Customers!FromInterrupt, Customers!LatchCounts
<1>4. Customers!InterruptsAreKept' /\ Customers!InterruptIsKept'
  <2>1. \A c \in Customers!Customers : ~(c < 1)
    OBVIOUS
  <2>2. main' = "interrupt" => index' = 1
    BY <1>1 DEF Customers!LoopsBegin
  <2>3. main \in Customers!FromInterrupt \/ main = "shutdown" => main' \in Customers!FromInterrupt
    BY <1>1 DEF Customers!FromInterrupt
  <2>4. main' = "wait" => FALSE
    BY <1>1
  <2>5. ASSUME NEW c \in Customers!Customers
        PROVE  /\ flag'[c] \/ finish'[c] => main' \in Customers!FromInterrupt
               /\ customer'[c] = "exited" =>
                    main' \in Customers!FromInterrupt \ {"interrupt", "wait"}
               /\ main' = "interrupt" /\ c < index' => flag'[c] \/ finish'[c]
    <3>1. customer'[c] = "exited" => main \notin {"await", "shutdown", "wait"}
      BY <1>1 DEF Customers!InterruptsAreKept, Customers!FromInterrupt
    <3> QED
      BY <1>1, <2>1, <2>2, <2>3, <3>1 DEF Customers!InterruptsAreKept, Customers!FromInterrupt
  <2>6. Customers!InterruptsAreKept'
    BY <1>1, <2>3, <2>5 DEF Customers!InterruptsAreKept
  <2>7. Customers!InterruptIsKept'
    BY <1>1 DEF Customers!InterruptIsKept
  <2> QED
    BY <2>6, <2>7
<1>5. Customers!DestroyIsLate' /\ Customers!DestroyIsLegal'
  BY <1>1 DEF Customers!DestroyIsLate, Customers!DestroyIsLegal, Customers!Active
<1>6. Customers!MissionsAreAdded'
  BY <1>1, SameMissions DEF Customers!MissionsAreAdded
<1> QED
  BY <1>2, <1>3, <1>4, <1>5, <1>6

LEMMA InterruptIInv ==
    ASSUME Customers!IInv, Customers!Interrupt
    PROVE  Customers!IInv'
<1> USE Numbers DEF Customers!IInv, Customers!Interrupt, Customers!Turn
<1>1. index \in Customers!Customers /\ main = "interrupt"
  BY DEF Customers!LoopsBegin
<1>2. \/ /\ index < NumCustomers /\ index' = index + 1 /\ main' = "interrupt"
      \/ /\ index = NumCustomers /\ index' = 1 /\ main' = "wait"
  BY <1>1
<1>3. latch = 0 /\ Customers!Uncounted = {}
  BY CustomerSameCount, <1>1, FiniteCustomers, FS_EmptySet
     DEF Customers!LatchCounts, Customers!FromInterrupt
<1>4. index \in Customers!Active
  BY <1>1, <1>3 DEF Customers!Active, Customers!Uncounted, Customers!InterruptsAreKept
<1>5. /\ flag' = [flag EXCEPT ![index] = TRUE]
      /\ UNCHANGED <<queues, latch, shutdown, customer, finish, result, total, spurious>>
  BY <1>4
<1> HIDE DEF Customers!Interrupt
<1>6. Customers!TypeOK' /\ Customers!LoopsBegin'
  BY <1>1, <1>2, <1>5 DEF Customers!TypeOK, Customers!LoopsBegin
<1>7. Customers!LatchCounts'
  BY <1>1, <1>2, <1>3, <1>5, SameLatch
<1>8. ASSUME NEW c \in Customers!Customers
      PROVE  /\ c < index \/ c = index => flag'[c] \/ finish'[c]
             /\ flag[c] => flag'[c]
  BY <1>1, <1>5 DEF Customers!InterruptsAreKept, Customers!TypeOK
<1>9. Customers!InterruptsAreKept'
  BY <1>1, <1>2, <1>5, <1>8 DEF Customers!InterruptsAreKept, Customers!FromInterrupt
<1>10. Customers!InterruptIsKept'
  BY <1>1, <1>2, <1>8 DEF Customers!InterruptIsKept
<1>11. Customers!DestroyIsLate' /\ Customers!DestroyIsLegal'
  BY <1>2 DEF Customers!DestroyIsLate, Customers!DestroyIsLegal
<1>12. Customers!MissionsAreAdded'
  BY <1>1, <1>2, <1>5, SameMissions DEF Customers!MissionsAreAdded
<1> QED
  BY <1>6, <1>7, <1>9, <1>10, <1>11, <1>12

LEMMA GetIInv ==
    ASSUME Customers!IInv, Customers!Get
    PROVE  Customers!IInv'
<1> USE Numbers DEF Customers!IInv, Customers!Get, Customers!Turn, Customers!custVars
<1>1. index \in Customers!Customers /\ main = "get"
  BY DEF Customers!LoopsBegin
<1>2. \/ /\ index < NumCustomers /\ index' = index + 1 /\ main' = "get"
      \/ /\ index = NumCustomers /\ index' = 1 /\ main' = "ended"
  BY <1>1
<1>3. total' \in Nat
  BY <1>1 DEF Customers!TypeOK
<1>4. UNCHANGED <<queues, latch, shutdown, customer, flag, finish, result, spurious>>
  OBVIOUS
<1> HIDE DEF Customers!Get
<1>5. Customers!TypeOK' /\ Customers!LoopsBegin'
  BY <1>1, <1>2, <1>3, <1>4 DEF Customers!TypeOK, Customers!LoopsBegin
<1>6. Customers!LatchCounts'
  BY <1>1, <1>2, <1>4, SameLatch DEF Customers!LatchCounts, Customers!FromInterrupt
<1>7. Customers!InterruptsAreKept' /\ Customers!InterruptIsKept'
  BY <1>1, <1>2, <1>4
     DEF Customers!InterruptsAreKept, Customers!InterruptIsKept, Customers!FromInterrupt
<1>8. Customers!DestroyIsLate' /\ Customers!DestroyIsLegal'
  BY <1>2 DEF Customers!DestroyIsLate, Customers!DestroyIsLegal
<1>9. Customers!MissionsAreAdded'
  BY <1>1, <1>2, <1>4, SameMissions DEF Customers!MissionsAreAdded
<1> QED
  BY <1>5, <1>6, <1>7, <1>8, <1>9

-----------------------------------------------------------------------------
(* The steps of a customer *)

LEMMA BeginIInv ==
    ASSUME Customers!IInv, NEW c \in Customers!Customers, Customers!Begin(c)
    PROVE  Customers!IInv'
<1> USE Numbers DEF Customers!IInv, Customers!Begin, Customers!Place
<1>1. main \notin {"shutdown"} \cup Customers!FromInterrupt /\ ~flag[c] /\ ~finish[c]
  <2>1. c \in Customers!Uncounted
    BY DEF Customers!Uncounted
  <2>2. latch # 0
    BY CustomerSameCount, <2>1, FiniteCustomers, FS_EmptySet DEF Customers!LatchCounts
  <2> QED
    BY <2>2 DEF Customers!LatchCounts, Customers!InterruptsAreKept
<1>2. /\ customer' = [customer EXCEPT ![c] = "countDown"] /\ customer[c] = "begin"
      /\ flag' = [flag EXCEPT ![c] = FALSE]
      /\ UNCHANGED <<main, index, queues, latch, shutdown, finish, result, total, spurious>>
  OBVIOUS
<1> HIDE DEF Customers!Begin
<1>3. Customers!TypeOK' /\ Customers!LoopsBegin'
  BY <1>2 DEF Customers!TypeOK, Customers!LoopsBegin
<1>4. Customers!LatchCounts'
  <2>1. Customers!Uncounted' = Customers!Uncounted
    BY <1>2 DEF Customers!Uncounted, Customers!TypeOK
  <2> QED
    BY <1>2, <2>1 DEF Customers!LatchCounts, Customers!TypeOK
<1>5. Customers!InterruptsAreKept' /\ Customers!InterruptIsKept'
  BY <1>1, <1>2
     DEF Customers!InterruptsAreKept, Customers!InterruptIsKept, Customers!FromInterrupt,
         Customers!TypeOK
<1>6. Customers!DestroyIsLate' /\ Customers!DestroyIsLegal'
  BY <1>1, <1>2 DEF Customers!DestroyIsLate, Customers!DestroyIsLegal, Customers!FromInterrupt
<1>7. Customers!MissionsAreAdded'
  <2>1. \A d \in Customers!Customers :
           /\ Customers!Offered(d)' = Customers!Offered(d)
           /\ customer'[d] \in {"returned", "exited"} => finish'[d] /\ queues[d] = <<>>
    BY <1>2 DEF Customers!Offered, Customers!MissionsAreAdded, Customers!TypeOK
  <2> QED
    BY <1>2, <2>1, SameOffers
<1> QED
  BY <1>3, <1>4, <1>5, <1>6, <1>7

LEMMA CustomerCountDownIInv ==
    ASSUME Customers!IInv, NEW c \in Customers!Customers, Customers!CountDown(c)
    PROVE  Customers!IInv'
<1> USE Numbers DEF Customers!IInv, Customers!CountDown, Customers!Place
<1>1. /\ customer' = [customer EXCEPT ![c] = "check"] /\ customer[c] = "countDown"
      /\ latch' = latch - 1
      /\ UNCHANGED <<main, index, queues, shutdown, flag, finish, result, total, spurious>>
  OBVIOUS
<1> HIDE DEF Customers!CountDown
<1>2. c \in Customers!Uncounted /\ Customers!Uncounted' = Customers!Uncounted \ {c}
  BY <1>1 DEF Customers!Uncounted, Customers!TypeOK
<1>3. /\ latch = Cardinality(Customers!Uncounted) /\ latch \in 1 .. NumCustomers
      /\ latch' = Cardinality(Customers!Uncounted')
  <2>1. latch = Cardinality(Customers!Uncounted) /\ latch \in 0 .. NumCustomers /\ latch # 0
    BY CustomerSameCount, <1>2, FiniteCustomers, FS_EmptySet DEF Customers!LatchCounts
  <2>2. Cardinality(Customers!Uncounted') = Cardinality(Customers!Uncounted) - 1
    BY <1>2, FiniteCustomers, FS_RemoveElement
  <2> QED
    BY <1>1, <2>1, <2>2
<1>4. main \notin {"shutdown"} \cup Customers!FromInterrupt
  BY <1>3 DEF Customers!LatchCounts
<1>5. Customers!TypeOK' /\ Customers!LoopsBegin'
  BY <1>1, <1>3 DEF Customers!TypeOK, Customers!LoopsBegin
<1>6. Customers!LatchCounts'
  BY CustomerSameCount, <1>1, <1>3, <1>4 DEF Customers!LatchCounts, Customers!TypeOK
<1>7. Customers!InterruptsAreKept' /\ Customers!InterruptIsKept'
  BY <1>1 DEF Customers!InterruptsAreKept, Customers!InterruptIsKept, Customers!TypeOK
<1>8. Customers!DestroyIsLate' /\ Customers!DestroyIsLegal'
  BY <1>1, <1>4 DEF Customers!DestroyIsLate, Customers!DestroyIsLegal, Customers!FromInterrupt
<1>9. Customers!MissionsAreAdded'
  <2>1. \A d \in Customers!Customers :
           /\ Customers!Offered(d)' = Customers!Offered(d)
           /\ customer'[d] \in {"returned", "exited"} => finish'[d] /\ queues[d] = <<>>
    BY <1>1 DEF Customers!Offered, Customers!MissionsAreAdded, Customers!TypeOK
  <2> QED
    BY <1>1, <2>1, SameOffers
<1> QED
  BY <1>5, <1>6, <1>7, <1>8, <1>9

\* What a customer past the latch does leaves the others' places alone.
LEMMA PastTheLatch ==
    ASSUME Customers!IInv, NEW c \in Customers!Customers,
           customer[c] \in {"check", "take", "returned"},
           NEW p \in {"check", "take", "returned", "exited"},
           customer' = [customer EXCEPT ![c] = p], UNCHANGED <<index, latch>>,
           UNCHANGED main
             \/ /\ main = "waiting" /\ main' = "destroy"
                /\ Customers!Active = {c} /\ p = "exited"
    PROVE  /\ Customers!LatchCounts'
           /\ Customers!DestroyIsLate /\ UNCHANGED spurious => Customers!DestroyIsLate'
<1>1. Customers!Uncounted' = Customers!Uncounted
  BY DEF Customers!Uncounted, Customers!IInv, Customers!TypeOK
<1>2. Customers!LatchCounts'
  <2>1. main' \in Customers!FromInterrupt <=> main \in Customers!FromInterrupt
    BY DEF Customers!FromInterrupt
  <2>2. main' = "submit" <=> main = "submit"
    OBVIOUS
  <2>3. main' = "shutdown" <=> main = "shutdown"
    OBVIOUS
  <2> QED
    BY <1>1, <2>1, <2>2, <2>3 DEF Customers!IInv, Customers!LatchCounts, Customers!TypeOK
<1>3. Customers!Active' \subseteq Customers!Active
        /\ (p = "exited" => Customers!Active' = Customers!Active \ {c})
  BY DEF Customers!Active, Customers!IInv, Customers!TypeOK
<1> QED
  BY <1>2, <1>3 DEF Customers!DestroyIsLate

LEMMA CheckIInv ==
    ASSUME Customers!IInv, NEW c \in Customers!Customers, Customers!Check(c)
    PROVE  Customers!IInv'
<1> USE DEF Customers!IInv, Customers!Check, Customers!Place
<1>1. PICK p \in {"take", "returned"} :
         /\ customer' = [customer EXCEPT ![c] = p] /\ customer[c] = "check"
         /\ p = "returned" => finish[c] /\ queues[c] = <<>>
  OBVIOUS
<1>2. UNCHANGED <<main, index, queues, latch, shutdown, flag, finish, result, total, spurious>>
  OBVIOUS
<1> HIDE DEF Customers!Check
<1>3. Customers!TypeOK' /\ Customers!LoopsBegin'
  BY <1>1, <1>2 DEF Customers!TypeOK, Customers!LoopsBegin
<1>4. Customers!LatchCounts' /\ Customers!DestroyIsLate'
  BY <1>1, <1>2, PastTheLatch
<1>5. Customers!InterruptsAreKept' /\ Customers!InterruptIsKept' /\ Customers!DestroyIsLegal'
  BY <1>1, <1>2
     DEF Customers!InterruptsAreKept, Customers!InterruptIsKept, Customers!DestroyIsLegal,
         Customers!TypeOK
<1>6. Customers!MissionsAreAdded'
  <2>1. \A d \in Customers!Customers :
           /\ Customers!Offered(d)' = Customers!Offered(d)
           /\ customer'[d] \in {"returned", "exited"} => finish'[d] /\ queues[d] = <<>>
    BY <1>1, <1>2 DEF Customers!Offered, Customers!MissionsAreAdded, Customers!TypeOK
  <2> QED
    BY <1>2, <2>1, SameOffers
<1> QED
  BY <1>3, <1>4, <1>5, <1>6

LEMMA TakeIInv ==
    ASSUME Customers!IInv, NEW c \in Customers!Customers, Customers!Take(c)
    PROVE  Customers!IInv'
<1> USE DEF Customers!IInv, Customers!Take, Customers!Place
<1>1. /\ customer' = [customer EXCEPT ![c] = "check"] /\ customer[c] = "take"
      /\ UNCHANGED <<main, index, latch, shutdown, flag, finish, total, spurious>>
      /\ result' = [result EXCEPT ![c] = @ + Head(queues[c])]
      /\ queues' = [queues EXCEPT ![c] = Tail(@)] /\ queues[c] # <<>>
  OBVIOUS
<1> HIDE DEF Customers!Take
<1>2. PICK q \in Seq(1 .. NumMissions) : q = queues[c]
  BY DEF Customers!TypeOK
<1>3. /\ Distinct(q) /\ MissionsIn(q) \subseteq Customers!Offered(c)
      /\ result[c] = Customers!SumOf(Customers!Offered(c) \ MissionsIn(q)) /\ q # <<>>
  <2>1. MissionsIn(q) = Customers!Queued(c)
    BY <1>2 DEF MissionsIn, Customers!Queued
  <2>2. /\ \A i, j \in 1 .. Len(queues[c]) : queues[c][i] = queues[c][j] => i = j
        /\ Customers!Queued(c) \subseteq Customers!Offered(c)
        /\ result[c] = Customers!SumOf(Customers!Offered(c) \ Customers!Queued(c))
    BY DEF Customers!MissionsAreAdded
  <2>3. Distinct(q)
    BY <1>2, <2>2 DEF Distinct
  <2> QED
    BY <1>1, <1>2, <2>1, <2>2, <2>3
<1>4. PICK r \in Seq(1 .. NumMissions) :
         /\ r = Tail(q) /\ Distinct(r) /\ MissionsIn(r) = MissionsIn(q) \ {Head(q)}
         /\ Head(q) \in MissionsIn(q)
  BY <1>3, OneMissionLess
<1>5. PICK m \in 1 .. NumMissions : m = Head(q)
  BY <1>3, <1>4 DEF Customers!Offered
<1>6. result[c] + m = Customers!SumOf(Customers!Offered(c) \ MissionsIn(r)) /\ result[c] + m \in Nat
  <2>1. Customers!Offered(c) \ MissionsIn(r) = (Customers!Offered(c) \ MissionsIn(q)) \cup {m}
    BY <1>3, <1>4, <1>5
  <2>2. m \notin Customers!Offered(c) \ MissionsIn(q)
    BY <1>4, <1>5
  <2>3. Customers!SumOf((Customers!Offered(c) \ MissionsIn(q)) \cup {m})
          = Customers!SumOf(Customers!Offered(c) \ MissionsIn(q)) + m
    BY <2>2, SumAddsUp
  <2> QED
    BY <1>3, <1>5, <2>1, <2>3, SumIsNat
<1>7. /\ queues' = [queues EXCEPT ![c] = r]
      /\ result' = [result EXCEPT ![c] = result[c] + m]
  BY <1>1, <1>2, <1>4, <1>5
<1>8. Customers!TypeOK' /\ Customers!LoopsBegin'
  <2>1. queues' \in [Customers!Customers -> Seq(1 .. NumMissions)]
    BY <1>7 DEF Customers!TypeOK
  <2>2. result' \in [Customers!Customers -> Nat]
    BY <1>6, <1>7 DEF Customers!TypeOK
  <2> QED
    BY <1>1, <2>1, <2>2 DEF Customers!TypeOK, Customers!LoopsBegin
<1>9. Customers!LatchCounts' /\ Customers!DestroyIsLate'
  BY <1>1, PastTheLatch
<1>10. Customers!InterruptsAreKept' /\ Customers!InterruptIsKept' /\ Customers!DestroyIsLegal'
  BY <1>1
     DEF Customers!InterruptsAreKept, Customers!InterruptIsKept, Customers!DestroyIsLegal,
         Customers!TypeOK
<1>11. Customers!MissionsAreAdded'
  <2>1. ASSUME NEW d \in Customers!Customers
        PROVE  /\ Distinct(queues'[d])
               /\ MissionsIn(queues'[d]) \subseteq Customers!Offered(d)
               /\ result'[d] = Customers!SumOf(Customers!Offered(d) \ MissionsIn(queues'[d]))
               /\ customer'[d] \in {"returned", "exited"} => finish[d] /\ queues'[d] = <<>>
    <3>1. CASE d = c
      <4>1. /\ queues'[d] = r /\ result'[d] = result[c] + m /\ customer'[d] = "check"
        BY <1>1, <1>7, <3>1 DEF Customers!TypeOK
      <4> QED
        BY <1>3, <1>4, <1>6, <3>1, <4>1
    <3>2. CASE d # c
      <4>1. queues'[d] = queues[d] /\ result'[d] = result[d] /\ customer'[d] = customer[d]
        BY <1>1, <1>7, <3>2 DEF Customers!TypeOK
      <4>2. MissionsIn(queues[d]) = Customers!Queued(d)
        BY DEF MissionsIn, Customers!Queued
      <4>3. /\ \A i, j \in 1 .. Len(queues[d]) : queues[d][i] = queues[d][j] => i = j
            /\ Customers!Queued(d) \subseteq Customers!Offered(d)
            /\ result[d] = Customers!SumOf(Customers!Offered(d) \ Customers!Queued(d))
            /\ customer[d] \in {"returned", "exited"} => finish[d] /\ queues[d] = <<>>
        BY DEF Customers!MissionsAreAdded
      <4>4. Distinct(queues[d])
        BY <4>3 DEF Distinct
      <4> QED
        BY <4>1, <4>2, <4>3, <4>4
    <3> QED
      BY <3>1, <3>2
  <2>2. \A d \in Customers!Customers : Customers!Offered(d)' = Customers!Offered(d)
          /\ Customers!Queued(d)' = MissionsIn(queues'[d])
    BY <1>1 DEF Customers!Offered, Customers!Queued, MissionsIn
  <2>3. ASSUME NEW d \in Customers!Customers
        PROVE  /\ \A i, j \in 1 .. Len(queues'[d]) : queues'[d][i] = queues'[d][j] => i = j
               /\ Customers!Queued(d)' \subseteq Customers!Offered(d)'
               /\ result'[d] = Customers!SumOf(Customers!Offered(d)' \ Customers!Queued(d)')
               /\ customer'[d] \in {"returned", "exited"} => finish[d] /\ queues'[d] = <<>>
    <3>1. Customers!Offered(d)' = Customers!Offered(d)
            /\ Customers!Queued(d)' = MissionsIn(queues'[d]) /\ Distinct(queues'[d])
      BY <2>1, <2>2, Zenon
    <3>2. \A i, j \in 1 .. Len(queues'[d]) : queues'[d][i] = queues'[d][j] => i = j
      BY <3>1, Zenon DEF Distinct
    <3> QED
      BY <2>1, <3>1, <3>2, Zenon
  <2>4. finish' = finish
    BY <1>1
  <2> QED
    BY <2>3, <2>4 DEF Customers!MissionsAreAdded
<1> QED
  BY <1>8, <1>9, <1>10, <1>11

LEMMA TakeInterruptedIInv ==
    ASSUME Customers!IInv, NEW c \in Customers!Customers, Customers!TakeInterrupted(c)
    PROVE  Customers!IInv'
<1> USE DEF Customers!IInv, Customers!TakeInterrupted, Customers!Place
<1>1. /\ customer' = [customer EXCEPT ![c] = "check"] /\ customer[c] = "take"
      /\ flag[c] /\ flag' = [flag EXCEPT ![c] = FALSE] /\ finish' = [finish EXCEPT ![c] = TRUE]
      /\ UNCHANGED <<main, index, queues, latch, shutdown, result, total, spurious>>
  OBVIOUS
<1> HIDE DEF Customers!TakeInterrupted
<1>2. Customers!TypeOK' /\ Customers!LoopsBegin'
  BY <1>1 DEF Customers!TypeOK, Customers!LoopsBegin
<1>3. Customers!LatchCounts' /\ Customers!DestroyIsLate'
  BY <1>1, PastTheLatch
<1>4. \A d \in Customers!Customers : flag'[d] \/ finish'[d] <=> flag[d] \/ finish[d]
  BY <1>1 DEF Customers!TypeOK
<1>5. Customers!InterruptsAreKept' /\ Customers!InterruptIsKept' /\ Customers!DestroyIsLegal'
  BY <1>1, <1>4
     DEF Customers!InterruptsAreKept, Customers!InterruptIsKept, Customers!DestroyIsLegal,
         Customers!TypeOK
<1>6. Customers!MissionsAreAdded'
  <2>1. \A d \in Customers!Customers :
           /\ Customers!Offered(d)' = Customers!Offered(d)
           /\ customer'[d] \in {"returned", "exited"} => finish'[d] /\ queues[d] = <<>>
    BY <1>1 DEF Customers!Offered, Customers!MissionsAreAdded, Customers!TypeOK
  <2> QED
    BY <1>1, <2>1, SameOffers
<1> QED
  BY <1>2, <1>3, <1>5, <1>6

LEMMA ExitIInv ==
    ASSUME Customers!IInv, NEW c \in Customers!Customers, Customers!Exit(c)
    PROVE  Customers!IInv'
<1> USE DEF Customers!IInv, Customers!Exit, Customers!Place
<1>1. /\ customer' = [customer EXCEPT ![c] = "exited"] /\ customer[c] = "returned"
      /\ \/ main' = main
         \/ main = "waiting" /\ main' = "destroy" /\ Customers!Active = {c}
      /\ main \in Customers!FromInterrupt \ {"interrupt", "wait"}
      /\ UNCHANGED <<index, queues, latch, shutdown, flag, finish, result, total, spurious>>
  BY DEF Customers!InterruptsAreKept
<1> HIDE DEF Customers!Exit
<1>2. Customers!TypeOK' /\ Customers!LoopsBegin'
  BY <1>1 DEF Customers!TypeOK, Customers!LoopsBegin
<1>3. Customers!LatchCounts' /\ Customers!DestroyIsLate'
  BY <1>1, PastTheLatch
<1>4. Customers!InterruptsAreKept' /\ Customers!InterruptIsKept' /\ Customers!DestroyIsLegal'
  BY <1>1
     DEF Customers!InterruptsAreKept, Customers!InterruptIsKept, Customers!DestroyIsLegal,
         Customers!TypeOK, Customers!FromInterrupt
<1>5. Customers!MissionsAreAdded'
  <2>1. \A d \in Customers!Customers :
           /\ Customers!Offered(d)' = Customers!Offered(d)
           /\ customer'[d] \in {"returned", "exited"} => finish'[d] /\ queues[d] = <<>>
    BY <1>1
       DEF Customers!Offered, Customers!MissionsAreAdded, Customers!TypeOK,
           Customers!FromInterrupt
  <2> QED
    BY <1>1, <2>1, SameOffers
<1> QED
  BY <1>2, <1>3, <1>4, <1>5

LEMMA CustomerNextIInv ==
    ASSUME Customers!IInv, [Customers!Next]_(Customers!vars)
    PROVE  Customers!IInv'
<1>1. CASE UNCHANGED Customers!vars
  <2>1. Customers!TypeOK' /\ Customers!LoopsBegin' /\ Customers!LatchCounts'
    BY <1>1
       DEF Customers!vars, Customers!IInv, Customers!TypeOK, Customers!LoopsBegin,
           Customers!LatchCounts, Customers!Uncounted
  <2>2. Customers!InterruptsAreKept' /\ Customers!InterruptIsKept'
          /\ Customers!DestroyIsLate' /\ Customers!DestroyIsLegal'
    BY <1>1
       DEF Customers!vars, Customers!IInv, Customers!InterruptsAreKept,
           Customers!InterruptIsKept, Customers!DestroyIsLate, Customers!Active,
           Customers!DestroyIsLegal
  <2>3. Customers!MissionsAreAdded'
    <3>1. \A d \in Customers!Customers :
             /\ Customers!Offered(d)' = Customers!Offered(d)
             /\ customer'[d] \in {"returned", "exited"} => finish'[d] /\ queues[d] = <<>>
      BY <1>1 DEF Customers!vars, Customers!Offered, Customers!IInv, Customers!MissionsAreAdded
    <3> QED
      BY <1>1, <3>1, SameOffers DEF Customers!vars
  <2> QED
    BY <2>1, <2>2, <2>3 DEF Customers!IInv
<1>2. CASE Customers!Main \/ Customers!SpuriousWakeup
  BY <1>2, SubmitIInv, OfferIInv, ShutdownIInv, InterruptIInv, GetIInv DEF Customers!Main
<1>3. ASSUME NEW c \in Customers!Customers, Customers!Customer(c)
      PROVE  Customers!IInv'
  BY <1>3, BeginIInv, CustomerCountDownIInv, CheckIInv, TakeIInv, TakeInterruptedIInv, ExitIInv
     DEF Customers!Customer
<1> QED
  BY <1>1, <1>2, <1>3 DEF Customers!Next

\* A customer returns with every mission offered to it, the interrupt that tells it
\* to finish is kept, and the group is destroyed when the customers have left.
THEOREM CustomersReturnWithAll ==
    Customers!Spec =>
      [](Customers!ReturnsWithAll /\ Customers!InterruptIsKept /\ Customers!DestroyIsLegal)
<1>1. Customers!IInv /\ [Customers!Next]_(Customers!vars) => Customers!IInv'
  BY CustomerNextIInv
<1>2. Customers!IInv => Customers!ReturnsWithAll /\ Customers!InterruptIsKept
        /\ Customers!DestroyIsLegal
  BY IInvReturnsWithAll DEF Customers!IInv
<1> QED
  BY CustomerInitIInv, <1>1, <1>2, PTL DEF Customers!Spec

-----------------------------------------------------------------------------
(* The growing array: its members are those of a list *)

Values == Members \cup {Null}

\* The first members of an array.
LEMMA FirstMembers ==
    ASSUME NEW q \in Seq(Values), NEW n \in Nat, n <= Len(q)
    PROVE  /\ SubSeq(q, 1, n) \in Seq(Values) /\ Len(SubSeq(q, 1, n)) = n
           /\ \A i \in 1 .. n : SubSeq(q, 1, n)[i] = q[i]
<1>1. Len(q) \in Nat /\ \A j \in 1 .. Len(q) : q[j] \in Values
  BY QueueFacts
<1> QED
  BY <1>1, SubSeqProperties

LEMMA RemoveOne ==
    ASSUME NEW q \in Seq(Values), NEW i \in 1 .. Len(q)
    PROVE  /\ Array!List!RemoveAt(q, i) \in Seq(Values)
           /\ Len(Array!List!RemoveAt(q, i)) = Len(q) - 1
           /\ \A j \in 1 .. Len(q) - 1 :
                 Array!List!RemoveAt(q, i)[j] = IF j < i THEN q[j] ELSE q[j + 1]
<1> DEFINE front == SubSeq(q, 1, i - 1)
           back  == SubSeq(q, i + 1, Len(q))
<1>1. Len(q) \in Nat /\ \A j \in 1 .. Len(q) : q[j] \in Values
  BY QueueFacts
<1>2. /\ front \in Seq(Values)
      /\ Len(front) = i - 1
      /\ \A j \in 1 .. i - 1 : front[j] = q[j]
  BY <1>1, SubSeqProperties
<1>3. /\ back \in Seq(Values)
      /\ Len(back) = Len(q) - i
      /\ \A j \in 1 .. Len(q) - i : back[j] = q[i + j]
  BY <1>1, SubSeqProperties
<1> HIDE DEF front, back
<1>4. /\ front \o back \in Seq(Values)
      /\ Len(front \o back) = Len(front) + Len(back)
      /\ \A j \in 1 .. Len(front) + Len(back) : (front \o back)[j] =
            IF j <= Len(front) THEN front[j] ELSE back[j - Len(front)]
  BY <1>2, <1>3, ConcatProperties
<1>5. Array!List!RemoveAt(q, i) = front \o back
  BY DEF Array!List!RemoveAt, front, back
<1>6. ASSUME NEW j \in 1 .. Len(q) - 1
      PROVE  (front \o back)[j] = IF j < i THEN q[j] ELSE q[j + 1]
  <2>1. CASE j < i
    BY <1>1, <1>2, <1>3, <1>4, <2>1
  <2>2. CASE ~(j < i)
    <3>1. (front \o back)[j] = back[j - (i - 1)]
      BY <1>1, <1>2, <1>3, <1>4, <2>2
    <3>2. j - (i - 1) \in 1 .. Len(q) - i /\ i + (j - (i - 1)) = j + 1
      BY <1>1, <2>2
    <3> QED
      BY <1>3, <2>2, <3>1, <3>2
  <2> QED
    BY <2>1, <2>2
<1>7. Len(front \o back) = Len(q) - 1
  BY <1>1, <1>2, <1>3, <1>4
<1> QED
  BY <1>4, <1>5, <1>6, <1>7, Zenon


\* The array with its room is a sequence that begins as the array does.
LEMMA RoomIsThere ==
    ASSUME Array!IInv, NEW m \in Values
    PROVE  /\ Array!Room(m) \in Seq(Values) /\ size + 1 < Len(Array!Room(m))
           /\ \A i \in 1 .. size : Array!Room(m)[i] = members[i]
<1>1. members \in Seq(Values) /\ Len(members) \in Nat /\ size \in Nat /\ size < Len(members)
  BY DEF Array!IInv, Array!TypeOK, Array!RoomIsLeft, Values
<1>2. PICK q \in Seq(Values) : q = members
  BY <1>1
<1>3. PICK n \in Nat : n = Len(q) /\ size < n
  BY <1>1, <1>2
<1>4. PICK r : r = Array!Nulls(n)
  OBVIOUS
<1>5. r \in Seq(Values) /\ Len(r) = n
  BY <1>3, <1>4 DEF Array!Nulls, Values
<1>6. /\ q \o r \in Seq(Values) /\ Len(q \o r) = n + n
      /\ \A i \in 1 .. n : (q \o r)[i] = q[i]
  <2>1. /\ q \o r \in Seq(Values) /\ Len(q \o r) = Len(q) + Len(r)
        /\ \A i \in 1 .. Len(q) + Len(r) :
              (q \o r)[i] = IF i <= Len(q) THEN q[i] ELSE r[i - Len(q)]
    BY <1>5, ConcatProperties
  <2> QED
    BY <1>3, <1>5, <2>1
<1>7. CASE size = Len(members) - 1
  <2>1. Array!Room(m) = q \o r
    BY <1>2, <1>3, <1>4, <1>7 DEF Array!Room, Array!Grow
  <2> QED
    BY <1>1, <1>2, <1>3, <1>6, <1>7, <2>1
<1>8. CASE size # Len(members) - 1
  BY <1>1, <1>8 DEF Array!Room
<1> QED
  BY <1>7, <1>8

LEMMA ArrayInitIInv == Array!Init => Array!IInv /\ Array!List!Init
<1> SUFFICES ASSUME Array!Init PROVE Array!IInv /\ Array!List!Init
  OBVIOUS
<1>1. InitialSize \in Nat \ {0}
  BY ArrayAssumption DEF Array!InitialAssumption
<1>2. PICK r : r = members
  OBVIOUS
<1>3. r \in Seq(Values) /\ Len(r) = InitialSize
  BY <1>1, <1>2 DEF Array!Init, Array!Nulls, Values
<1>4. Array!IInv
  BY <1>1, <1>2, <1>3 DEF Array!Init, Array!IInv, Array!TypeOK, Array!RoomIsLeft, Values
<1>5. Array!Contents = <<>>
  <2>1. SubSeq(r, 1, 0) \in Seq(Values) /\ Len(SubSeq(r, 1, 0)) = 0
    BY <1>1, <1>3, FirstMembers
  <2>2. SubSeq(r, 1, 0) = <<>>
    BY <2>1, EmptySeq
  <2> QED
    BY <1>2, <2>2 DEF Array!Contents, Array!Init
<1> QED
  BY <1>4, <1>5 DEF Array!List!Init, Array!Init

LEMMA ArrayAddStep ==
    ASSUME Array!IInv, NEW m \in Values, Array!Add(m)
    PROVE  Array!IInv' /\ Array!List!Add(m)
<1>1. PICK q \in Seq(Values) : q = Array!Room(m)
  BY RoomIsThere
<1>2. PICK n \in Nat : n = size
  BY DEF Array!IInv, Array!TypeOK
<1>3. /\ n + 1 < Len(q) /\ Len(q) \in Nat /\ n < Len(members)
      /\ \A i \in 1 .. n : q[i] = members[i]
  <2>1. size + 1 < Len(Array!Room(m)) /\ \A i \in 1 .. size : Array!Room(m)[i] = members[i]
    BY RoomIsThere
  <2>2. n + 1 < Len(q) /\ \A i \in 1 .. n : q[i] = members[i]
    BY <1>1, <1>2, <2>1
  <2>3. Len(q) \in Nat /\ n < Len(members)
    BY <1>1, <1>2, QueueFacts DEF Array!IInv, Array!RoomIsLeft
  <2> QED
    BY <2>2, <2>3
<1>4. PICK r : r = [q EXCEPT ![n + 1] = m]
  OBVIOUS
<1>5. members' = r /\ size' = n + 1 /\ UNCHANGED returned
  BY <1>1, <1>2, <1>4 DEF Array!Add
<1>6. /\ r \in Seq(Values) /\ Len(r) = Len(q) /\ r[n + 1] = m
      /\ \A i \in 1 .. n : r[i] = q[i]
  BY <1>3, <1>4, ExceptSeq
<1>7. Array!IInv'
  BY <1>2, <1>3, <1>5, <1>6 DEF Array!IInv, Array!TypeOK, Array!RoomIsLeft, Values
<1>8. SubSeq(r, 1, n + 1) = Append(SubSeq(members, 1, n), m)
  <2>1. /\ SubSeq(members, 1, n) \in Seq(Values) /\ Len(SubSeq(members, 1, n)) = n
        /\ \A i \in 1 .. n : SubSeq(members, 1, n)[i] = members[i]
    BY <1>3, FirstMembers DEF Array!IInv, Array!TypeOK, Values
  <2>2. PICK s \in Seq(Values) : s = SubSeq(members, 1, n)
    BY <2>1
  <2>3. /\ Append(s, m) \in Seq(Values) /\ Len(Append(s, m)) = n + 1
        /\ Append(s, m)[n + 1] = m
        /\ \A i \in 1 .. n : Append(s, m)[i] = members[i]
    BY <2>1, <2>2, AppendProperties
  <2>4. /\ SubSeq(r, 1, n + 1) \in Seq(Values) /\ Len(SubSeq(r, 1, n + 1)) = n + 1
        /\ \A i \in 1 .. n + 1 : SubSeq(r, 1, n + 1)[i] = r[i]
    BY <1>3, <1>6, FirstMembers
  <2>5. \A i \in 1 .. n + 1 : SubSeq(r, 1, n + 1)[i] = Append(s, m)[i]
    BY <1>3, <1>6, <2>3, <2>4
  <2>6. SubSeq(r, 1, n + 1) = Append(s, m)
    BY <2>3, <2>4, <2>5, SeqEqual
  <2> QED
    BY <2>2, <2>6
<1>9. Array!Contents' = Append(Array!Contents, m)
  BY <1>2, <1>5, <1>8 DEF Array!Contents
<1> QED
  BY <1>5, <1>7, <1>9 DEF Array!List!Add

\* What the list has is what the array has.
LEMMA ContentsFacts ==
    ASSUME Array!IInv
    PROVE  /\ size \in Nat /\ size < Len(members) /\ members \in Seq(Values)
           /\ Array!Contents \in Seq(Values) /\ Len(Array!Contents) = size
           /\ \A i \in 1 .. size : Array!Contents[i] = members[i]
<1>1. size \in Nat /\ size < Len(members) /\ members \in Seq(Values) /\ Len(members) \in Nat
  BY DEF Array!IInv, Array!TypeOK, Array!RoomIsLeft, Values
<1> QED
  BY <1>1, FirstMembers DEF Array!Contents

\* An index behind the end is like the first one there.
LEMMA ReadStep ==
    ASSUME Array!IInv, NEW i \in 0 .. MaxSize, Array!Get(i) \/ Array!RemoveNothing(i)
    PROVE  Array!IInv' /\ \E j \in 0 .. Len(Array!Contents) : Array!List!Get(j)
<1>1. UNCHANGED <<members, size>> /\ MaxSize \in Nat
  BY ArrayAssumption DEF Array!Get, Array!RemoveNothing, Array!InitialAssumption
<1>2. i \in Nat /\ returned' = IF i >= size THEN Null ELSE members[i + 1]
  BY <1>1 DEF Array!Get, Array!RemoveNothing
<1>3. Array!Contents' = Array!Contents
  BY <1>1 DEF Array!Contents
<1>4. returned' \in Values
  <2>1. i < size => members[i + 1] \in Values
    BY <1>2, ContentsFacts, QueueFacts
  <2> QED
    BY <1>2, <2>1, ContentsFacts DEF Values
<1>5. Array!IInv'
  BY <1>1, <1>4 DEF Array!IInv, Array!TypeOK, Array!RoomIsLeft, Values
<1>6. \E j \in 0 .. Len(Array!Contents) : Array!List!Get(j)
  <2>1. CASE i >= size
    <3>1. size \in 0 .. Len(Array!Contents) /\ returned' = Array!List!At(size)
      BY <1>2, <2>1, ContentsFacts DEF Array!List!At
    <3> QED
      BY <1>3, <3>1 DEF Array!List!Get
  <2>2. CASE i < size
    <3>1. i \in 0 .. Len(Array!Contents) /\ i + 1 \in 1 .. size
      BY <1>2, <2>2, ContentsFacts
    <3>2. returned' = Array!List!At(i)
      BY <1>2, <2>2, <3>1, ContentsFacts DEF Array!List!At
    <3> QED
      BY <1>3, <3>1, <3>2 DEF Array!List!Get
  <2> QED
    BY <1>2, <2>1, <2>2, ContentsFacts
<1> QED
  BY <1>5, <1>6

LEMMA RemoveStep ==
    ASSUME Array!IInv, NEW i \in 0 .. MaxSize, Array!RemoveMember(i)
    PROVE  Array!IInv' /\ i \in 0 .. Len(Array!Contents) /\ Array!List!TakeOut(i)
<1>1. i \in Nat /\ i < size /\ i \in 0 .. size
  BY ArrayAssumption, ContentsFacts DEF Array!RemoveMember, Array!InitialAssumption
<1>2. PICK n \in Nat : n = size /\ n >= 1 /\ i < n
  BY <1>1, ContentsFacts
<1>3. PICK q \in Seq(Values) : q = members
  BY ContentsFacts
<1>4. Len(q) \in Nat /\ n < Len(q) /\ \A j \in 1 .. Len(q) : q[j] \in Values
  BY <1>2, <1>3, ContentsFacts, QueueFacts
<1>5. PICK c \in Seq(Values) : c = Array!Contents
  BY ContentsFacts
<1>6. Len(c) = n /\ \A j \in 1 .. n : c[j] = q[j]
  BY <1>2, <1>3, <1>5, ContentsFacts
<1>7. PICK a : a = [q EXCEPT ![i + 1] = Null]
  OBVIOUS
<1>8. /\ a \in Seq(Values) /\ Len(a) = Len(q) /\ DOMAIN a = 1 .. Len(q)
      /\ \A j \in 1 .. Len(q) : j # i + 1 => a[j] = q[j]
  <2>1. Null \in Values
    BY DEF Values
  <2> QED
    BY <1>2, <1>4, <1>7, <2>1, ExceptSeq
<1>9. PICK r : r = Array!MoveMembers(a, i, n - 1)
  OBVIOUS
<1>10. r = [j \in 1 .. Len(q) |-> IF j \in i + 1 .. n - 1 THEN a[j + 1] ELSE a[j]]
  <2>1. \A j \in 1 .. Len(q) : j - 1 \in i .. (n - 1) - 1 <=> j \in i + 1 .. n - 1
    BY <1>1, <1>2, <1>4
  <2>2. r = [j \in 1 .. Len(q) |-> IF j - 1 \in i .. (n - 1) - 1 THEN a[j + 1] ELSE a[j]]
    BY <1>8, <1>9 DEF Array!MoveMembers
  <2> QED
    BY <2>1, <2>2
<1>11. \A j \in 1 .. Len(q) : a[j] \in Values
  BY <1>8, QueueFacts
<1>12. /\ r \in Seq(Values) /\ Len(r) = Len(q)
       /\ \A j \in 1 .. n - 1 : r[j] = IF j < i + 1 THEN q[j] ELSE q[j + 1]
  <2>1. ASSUME NEW j \in 1 .. Len(q)
        PROVE  (IF j \in i + 1 .. n - 1 THEN a[j + 1] ELSE a[j]) \in Values
    BY <1>1, <1>2, <1>4, <1>11
  <2>2. r \in [1 .. Len(q) -> Values]
    BY <1>10, <2>1
  <2>3. r \in Seq(Values) /\ Len(r) = Len(q)
    BY <1>4, <2>2
  <2>4. ASSUME NEW j \in 1 .. n - 1
        PROVE  r[j] = IF j < i + 1 THEN q[j] ELSE q[j + 1]
    <3>1. j \in 1 .. Len(q) /\ j + 1 \in 1 .. Len(q)
      BY <1>2, <1>4
    <3>2. r[j] = IF j \in i + 1 .. n - 1 THEN a[j + 1] ELSE a[j]
      BY <1>10, <3>1
    <3>3. CASE j < i + 1
      <4>1. j \notin i + 1 .. n - 1 /\ j # i + 1
        BY <1>1, <3>3
      <4> QED
        BY <1>8, <3>1, <3>2, <3>3, <4>1
    <3>4. CASE ~(j < i + 1)
      <4>1. j \in i + 1 .. n - 1 /\ j + 1 # i + 1
        BY <1>1, <1>2, <3>4
      <4> QED
        BY <1>8, <3>1, <3>2, <3>4, <4>1
    <3> QED
      BY <3>3, <3>4
  <2> QED
    BY <2>3, <2>4
<1>13. members' = r /\ size' = n - 1 /\ returned' = q[i + 1]
  BY <1>2, <1>3, <1>7, <1>9 DEF Array!RemoveMember
<1>14. n - 1 \in Nat /\ i + 1 \in 1 .. Len(c) /\ i + 1 \in 1 .. Len(q)
  BY <1>1, <1>2, <1>4, <1>6
<1>15. Array!IInv'
  BY <1>4, <1>12, <1>13, <1>14 DEF Array!IInv, Array!TypeOK, Array!RoomIsLeft, Values
<1>16. SubSeq(r, 1, n - 1) = Array!List!RemoveAt(c, i + 1)
  <2>1. /\ SubSeq(r, 1, n - 1) \in Seq(Values) /\ Len(SubSeq(r, 1, n - 1)) = n - 1
        /\ \A j \in 1 .. n - 1 : SubSeq(r, 1, n - 1)[j] = r[j]
    BY <1>4, <1>12, <1>14, FirstMembers
  <2>2. /\ Array!List!RemoveAt(c, i + 1) \in Seq(Values)
        /\ Len(Array!List!RemoveAt(c, i + 1)) = n - 1
        /\ \A j \in 1 .. n - 1 :
              Array!List!RemoveAt(c, i + 1)[j] = IF j < i + 1 THEN c[j] ELSE c[j + 1]
    BY <1>6, <1>14, RemoveOne
  <2>3. \A j \in 1 .. n - 1 : SubSeq(r, 1, n - 1)[j] = Array!List!RemoveAt(c, i + 1)[j]
    BY <1>2, <1>6, <1>12, <2>1, <2>2
  <2> QED
    BY <2>1, <2>2, <2>3, SeqEqual
<1>17. Array!Contents' = Array!List!RemoveAt(Array!Contents, i + 1)
  BY <1>5, <1>13, <1>16 DEF Array!Contents
<1>18. returned' = Array!List!At(i) /\ i < Len(Array!Contents) /\ i \in 0 .. Len(Array!Contents)
  BY <1>1, <1>2, <1>5, <1>6, <1>13, <1>14 DEF Array!List!At
<1> QED
  BY <1>15, <1>17, <1>18 DEF Array!List!TakeOut

LEMMA ArrayNextStep ==
    ASSUME Array!IInv, [Array!Next]_(Array!vars)
    PROVE  Array!IInv' /\ [Array!List!Next]_(Array!List!vars)
<1>1. CASE UNCHANGED Array!vars
  BY <1>1
     DEF Array!vars, Array!IInv, Array!TypeOK, Array!RoomIsLeft, Array!List!vars, Array!Contents
<1>2. ASSUME NEW m \in Values, Array!Add(m)
      PROVE  Array!IInv' /\ Array!List!Next
  BY <1>2, ArrayAddStep DEF Array!List!Next, Values
<1>3. ASSUME NEW i \in 0 .. MaxSize, Array!Get(i) \/ Array!RemoveNothing(i)
      PROVE  Array!IInv' /\ Array!List!Next
  BY <1>3, ReadStep DEF Array!List!Next
<1>4. ASSUME NEW i \in 0 .. MaxSize, Array!RemoveMember(i)
      PROVE  Array!IInv' /\ Array!List!Next
  BY <1>4, RemoveStep DEF Array!List!Next
<1> QED
  BY <1>1, <1>2, <1>3, <1>4 DEF Array!Next, Values

\* A growing array has a slot for the next member.
THEOREM ArrayHasRoom == Array!Spec => []Array!IInv
<1>1. Array!IInv /\ [Array!Next]_(Array!vars) => Array!IInv'
  BY ArrayNextStep
<1> QED
  BY ArrayInitIInv, <1>1, PTL DEF Array!Spec

\* The growing array implements the list.
THEOREM ArrayIsList == Array!Spec => Array!ListSpec
<1>1. Array!Init => Array!List!Init
  BY ArrayInitIInv
<1>2. Array!IInv /\ [Array!Next]_(Array!vars) => [Array!List!Next]_(Array!List!vars)
  BY ArrayNextStep
<1> QED
  BY <1>1, <1>2, ArrayHasRoom, PTL DEF Array!Spec, Array!ListSpec, Array!List!Spec

-----------------------------------------------------------------------------
(* The barrier: a sum that is merged is complete                              *)

\* The sum of n + 1 turns from that of n.
LEMMA OneTurnMore ==
    ASSUME NEW n \in Int, NEW m \in Int, NEW start \in Int, 2 * m = n * (2 * start + n - 1)
    PROVE  2 * (m + start + n) = (n + 1) * (2 * start + (n + 1) - 1)
<1>1. (n + 1) * (2 * start + n) = n * (2 * start + n) + (2 * start + n)
  OBVIOUS
<1>2. n * (2 * start + n) = n * (2 * start + n - 1) + n
  OBVIOUS
<1> QED
  BY <1>1, <1>2

LEMMA CountInitIInv == Count!Init => Count!IInv
<1> SUFFICES ASSUME Count!Init PROVE Count!IInv
  OBVIOUS
<1>1. Count!TypeOK
  <2>1. 0 \in 0 .. Turns
    BY CountAssumptions DEF Count!TurnsAssumption
  <2>2. turn \in [Count!Runnables -> 0 .. Turns]
    BY <2>1 DEF Count!Init
  <2>3. sum \in [Count!Runnables -> Int] /\ merged \in Int
    BY DEF Count!Init
  <2>4. counter \in [Count!Runnables -> {"add", "wait", "merge", "open", "ended"}]
    BY DEF Count!Init
  <2> QED
    BY <2>2, <2>3, <2>4 DEF Count!Init, Count!TypeOK
<1>2. Count!SumsSoFar
  BY CountAssumptions
     DEF Count!Init, Count!SumsSoFar, Count!StartOf, Count!StartAssumption
<1>3. Count!MergedOnce
  BY DEF Count!Init, Count!MergedOnce
<1> QED
  BY <1>1, <1>2, <1>3 DEF Count!IInv

LEMMA TwoRunnables ==
    /\ Count!Runnables = {1, 2}
    /\ Count!Other(1) = 2 /\ Count!Other(2) = 1
BY DEF Count!Runnables, Count!Other

\* A turn adds the next number; the thread is before the barrier.
LEMMA CountAddIInv ==
    ASSUME Count!IInv, NEW r \in Count!Runnables, Count!Add(r)
    PROVE  Count!IInv'
<1>1. /\ StartA \in Int /\ StartB \in Int /\ Turns \in Nat
      /\ Count!StartOf(r) \in Int
  BY CountAssumptions DEF Count!StartAssumption, Count!TurnsAssumption, Count!StartOf
<1>2. /\ turn[r] \in 0 .. Turns /\ turn[r] < Turns /\ sum[r] \in Int
      /\ counter[r] = "add"
      /\ turn' = [turn EXCEPT ![r] = turn[r] + 1]
      /\ sum' = [sum EXCEPT ![r] = sum[r] + Count!StartOf(r) + turn[r]]
      /\ UNCHANGED <<counter, merged, opened, answer>>
  BY DEF Count!IInv, Count!TypeOK, Count!Add
<1>3. Count!TypeOK'
  BY <1>1, <1>2 DEF Count!IInv, Count!TypeOK
<1>4. Count!SumsSoFar'
  <2> SUFFICES ASSUME NEW s \in Count!Runnables
               PROVE  2 * sum'[s] = turn'[s] * (2 * Count!StartOf(s) + turn'[s] - 1)
    BY DEF Count!SumsSoFar, Count!StartOf
  <2>1. CASE s = r
    <3>1. turn'[r] = turn[r] + 1 /\ sum'[r] = sum[r] + Count!StartOf(r) + turn[r]
      BY <1>2 DEF Count!IInv, Count!TypeOK
    <3>2. 2 * sum[r] = turn[r] * (2 * Count!StartOf(r) + turn[r] - 1)
      BY DEF Count!IInv, Count!SumsSoFar
    <3>3. turn[r] \in Int
      BY <1>1, <1>2
    <3>4. 2 * (sum[r] + Count!StartOf(r) + turn[r])
             = (turn[r] + 1) * (2 * Count!StartOf(r) + (turn[r] + 1) - 1)
      BY <1>1, <1>2, <3>2, <3>3, OneTurnMore
    <3> QED
      BY <2>1, <3>1, <3>4, Zenon
  <2>2. CASE s # r
    <3>1. turn'[s] = turn[s] /\ sum'[s] = sum[s]
      BY <1>2, <2>2 DEF Count!IInv, Count!TypeOK
    <3> QED
      BY <3>1, Zenon DEF Count!IInv, Count!SumsSoFar
  <2> QED
    BY <2>1, <2>2
<1>5. Count!MergedOnce'
  <2>1. ~opened /\ \A s \in Count!Runnables : counter[s] # "open"
    BY <1>2, TwoRunnables DEF Count!IInv, Count!MergedOnce
  <2>2. \A s \in Count!Runnables : counter[s] # "add" => turn'[s] = turn[s]
    BY <1>2 DEF Count!IInv, Count!TypeOK
  <2> QED
    BY <1>2, <2>1, <2>2 DEF Count!IInv, Count!MergedOnce
<1> QED
  BY <1>3, <1>4, <1>5 DEF Count!IInv

\* Past the additions the sums stay as they are.
LEMMA CountBarrierIInv ==
    ASSUME Count!IInv, NEW r \in Count!Runnables,
           Count!Arrive(r) \/ Count!Merge(r) \/ Count!Open(r)
    PROVE  Count!IInv'
<1>1. turn' = turn /\ sum' = sum
  BY DEF Count!Arrive, Count!Merge, Count!Open
<1>2. Count!SumsSoFar'
  BY <1>1 DEF Count!IInv, Count!SumsSoFar, Count!StartOf
<1>3. PICK s \in Count!Runnables :
        /\ s # r /\ Count!Other(r) = s /\ Count!Other(s) = r
        /\ Count!Runnables = {r, s} /\ sum[1] + sum[2] = sum[r] + sum[s]
  BY TwoRunnables DEF Count!IInv, Count!TypeOK
<1>4. /\ sum[1] \in Int /\ sum[2] \in Int /\ merged \in Int
      /\ counter \in [Count!Runnables -> {"add", "wait", "merge", "open", "ended"}]
  BY TwoRunnables DEF Count!IInv, Count!TypeOK
<1>5. CASE Count!Arrive(r)
  <2>1. /\ counter[r] = "add" /\ turn[r] = Turns
        /\ counter' = [counter EXCEPT ![r] = IF counter[s] = "wait" THEN "merge" ELSE "wait"]
        /\ UNCHANGED <<merged, opened, answer>>
    BY <1>3, <1>5 DEF Count!Arrive
  <2>2. Count!TypeOK'
    BY <1>1, <2>1 DEF Count!IInv, Count!TypeOK
  <2>3. ~opened /\ counter[s] \notin {"merge", "open", "ended"}
    BY <1>3, <2>1 DEF Count!IInv, Count!MergedOnce
  <2>4. counter'[r] \in {"merge", "wait"} /\ counter'[s] = counter[s]
        /\ (counter'[r] = "merge" => counter[s] = "wait")
    BY <1>3, <1>4, <2>1
  <2>5. Count!MergedOnce'
    BY <1>1, <1>3, <1>4, <2>1, <2>3, <2>4 DEF Count!IInv, Count!MergedOnce
  <2> QED
    BY <1>2, <2>2, <2>5 DEF Count!IInv
<1>6. CASE Count!Merge(r)
  <2>1. /\ counter[r] = "merge" /\ merged' = merged + sum[1] + sum[2]
        /\ counter' = [counter EXCEPT ![r] = "open"]
        /\ UNCHANGED <<opened, answer>>
    BY <1>6 DEF Count!Merge
  <2>2. ~opened /\ counter[s] = "wait" /\ merged = 0 /\ answer = <<>>
    BY <1>3, <2>1 DEF Count!IInv, Count!MergedOnce
  <2>3. counter'[r] = "open" /\ counter'[s] = "wait" /\ merged' = sum[1] + sum[2]
    <3>1. merged' = sum[1] + sum[2]
      BY <1>4, <2>1, <2>2
    <3> QED
      BY <1>3, <1>4, <2>1, <2>2, <3>1
  <2>4. merged' \in Int
    BY <1>4, <2>3
  <2>5. Count!TypeOK'
    BY <1>1, <2>1, <2>4 DEF Count!IInv, Count!TypeOK
  <2>6. Count!MergedOnce'
    BY <1>1, <1>3, <2>1, <2>2, <2>3 DEF Count!IInv, Count!MergedOnce
  <2> QED
    BY <1>2, <2>5, <2>6 DEF Count!IInv
<1>7. CASE Count!Open(r)
  <2>1. /\ counter[r] = "open" /\ opened'
        /\ counter' = [counter EXCEPT ![r] = "ended",
                         ![s] = IF @ = "wait" THEN "ended" ELSE @]
        /\ UNCHANGED <<merged, answer>>
    BY <1>3, <1>7 DEF Count!Open
  <2>2. ~opened /\ counter[s] = "wait" /\ merged = sum[1] + sum[2] /\ answer = <<>>
    BY <1>3, <2>1 DEF Count!IInv, Count!MergedOnce
  <2>3. counter'[r] = "ended" /\ counter'[s] = "ended"
    BY <1>3, <1>4, <2>1, <2>2
  <2>4. opened' = TRUE
    BY <1>7 DEF Count!Open
  <2>5. Count!TypeOK'
    BY <1>1, <1>4, <2>1, <2>4 DEF Count!IInv, Count!TypeOK
  <2>6. Count!MergedOnce'
    BY <1>1, <1>3, <2>1, <2>2, <2>3, <2>4 DEF Count!IInv, Count!MergedOnce
  <2> QED
    BY <1>2, <2>5, <2>6 DEF Count!IInv
<1> QED
  BY <1>5, <1>6, <1>7

LEMMA CountNextIInv == Count!IInv /\ [Count!Next]_(Count!vars) => Count!IInv'
<1> SUFFICES ASSUME Count!IInv, [Count!Next]_(Count!vars) PROVE Count!IInv'
  OBVIOUS
<1>1. CASE UNCHANGED Count!vars
  BY <1>1 DEF Count!vars, Count!IInv, Count!TypeOK, Count!SumsSoFar, Count!MergedOnce,
              Count!StartOf
<1>2. CASE Count!Answer
  <2>1. opened /\ answer' = <<merged>> /\ UNCHANGED <<turn, sum, counter, merged, opened>>
    BY <1>2 DEF Count!Answer
  <2>2. Count!TypeOK' /\ Count!SumsSoFar'
    BY <2>1 DEF Count!IInv, Count!TypeOK, Count!SumsSoFar, Count!StartOf
  <2>3. Count!MergedOnce'
    BY <2>1 DEF Count!IInv, Count!MergedOnce
  <2> QED
    BY <2>2, <2>3 DEF Count!IInv
<1> QED
  BY <1>1, <1>2, CountAddIInv, CountBarrierIInv DEF Count!Next, Count!Counter

\* The two sums of all turns make the whole.
LEMMA CountIInvWhole == Count!IInv => Count!AnswerIsWhole
<1> SUFFICES ASSUME Count!IInv, answer # <<>> PROVE answer = <<Count!Whole>>
  BY DEF Count!AnswerIsWhole
<1>1. /\ answer = <<sum[1] + sum[2]>>
      /\ turn[1] = Turns /\ turn[2] = Turns
      /\ sum[1] \in Int /\ sum[2] \in Int
  BY TwoRunnables DEF Count!IInv, Count!TypeOK, Count!MergedOnce
<1>2. StartA \in Int /\ StartB \in Int /\ Turns \in Int
  BY CountAssumptions DEF Count!StartAssumption, Count!TurnsAssumption
<1>3. /\ 2 * sum[1] = Turns * (2 * StartA + Turns - 1)
      /\ 2 * sum[2] = Turns * (2 * StartB + Turns - 1)
  BY <1>1, TwoRunnables DEF Count!IInv, Count!SumsSoFar, Count!StartOf
<1>4. ASSUME NEW m \in Int, NEW n \in Int, NEW t \in Int, NEW a \in Int, NEW b \in Int,
             2 * m = t * (2 * a + t - 1), 2 * n = t * (2 * b + t - 1)
      PROVE  m + n = t * (a + b + t - 1)
  <2>1. t * (2 * a + t - 1) + t * (2 * b + t - 1) = 2 * (t * (a + b + t - 1))
    OBVIOUS
  <2>2. t * (a + b + t - 1) \in Int
    OBVIOUS
  <2> QED
    BY <1>4, <2>1, <2>2
<1>5. sum[1] + sum[2] = Turns * (StartA + StartB + Turns - 1)
  BY <1>1, <1>2, <1>3, <1>4
<1> QED
  BY <1>1, <1>5 DEF Count!Whole

\* count() answers with the sum of all numbers of both threads, or not yet.
THEOREM CountAnswersWhole == Count!Spec => []Count!AnswerIsWhole
  BY CountInitIInv, CountNextIInv, CountIInvWhole, PTL DEF Count!Spec

-----------------------------------------------------------------------------
(* The condition: a signal is noted, or missed                                *)

LEMMA AwaitingInitIInv == Awaiting!Init => Awaiting!IInv
BY DEF Awaiting!Init, Awaiting!IInv, Awaiting!LockIsOwned, Awaiting!SignalIsNoted

LEMMA AwaitingNextIInv == Awaiting!IInv /\ [Awaiting!Next]_(Awaiting!vars) => Awaiting!IInv'
<1> SUFFICES ASSUME Awaiting!IInv, [Awaiting!Next]_(Awaiting!vars) PROVE Awaiting!IInv'
  OBVIOUS
<1>1. CASE UNCHANGED Awaiting!vars
  BY <1>1 DEF Awaiting!vars, Awaiting!IInv, Awaiting!LockIsOwned, Awaiting!SignalIsNoted
<1>2. CASE Awaiting!CountDown \/ Awaiting!SpuriousWakeup
  BY <1>2 DEF Awaiting!CountDown, Awaiting!SpuriousWakeup,
              Awaiting!IInv, Awaiting!LockIsOwned, Awaiting!SignalIsNoted
<1>3. CASE Awaiting!Waiter
  BY <1>3 DEF Awaiting!Waiter, Awaiting!WaiterLock, Awaiting!Await, Awaiting!WaiterReturns,
              Awaiting!WaiterUnlock,
              Awaiting!IInv, Awaiting!LockIsOwned, Awaiting!SignalIsNoted
<1>4. CASE Awaiting!Signaller
  BY <1>4 DEF Awaiting!Signaller, Awaiting!SignallerLock, Awaiting!Signal,
              Awaiting!SignallerUnlock,
              Awaiting!IInv, Awaiting!LockIsOwned, Awaiting!SignalIsNoted
<1> QED
  BY <1>1, <1>2, <1>3, <1>4 DEF Awaiting!Next

LEMMA AwaitingIInvGuards == Awaiting!IInv => Awaiting!SignalToCome
BY DEF Awaiting!IInv, Awaiting!LockIsOwned, Awaiting!SignalIsNoted, Awaiting!SignalToCome

\* The first thread of LockAwaitTestClass waits in vain only for a signal that was
\* given before its await, and it waits without the lock.
THEOREM SignalIsToCome == Awaiting!Spec => []Awaiting!SignalToCome
  BY AwaitingInitIInv, AwaitingNextIInv, AwaitingIInvGuards, PTL DEF Awaiting!Spec

-----------------------------------------------------------------------------
(* The programs together: a step is a step of one of them and a stutter of     *)
(* the others, so the conjunction of their invariants is inductive             *)

LEMMA ProgramsStep ==
    ASSUME [ProgramsNext]_programsVars
    PROVE  /\ [Customers!Next]_(Customers!vars) /\ [Groups!Next]_(Groups!vars)
           /\ [Next]_vars /\ [Cache!Next]_(Cache!vars)
           /\ [Try!Next]_(Try!vars) /\ [Array!Next]_(Array!vars)
           /\ [Count!Next]_(Count!vars) /\ [Awaiting!Next]_(Awaiting!vars)
<1>1. /\ [Customers!Next]_customerVars /\ [Groups!Next]_groupVars
      /\ [Next]_poolVars /\ [Cache!Next]_cacheVars
      /\ [Try!Next]_tryVars /\ [Array!Next]_arrayVars
      /\ [Count!Next]_countVars /\ [Awaiting!Next]_awaitVars
  BY Zenon DEF ProgramsNext, programsVars, RunCustomers, RunGroups, RunPool, RunCount, RunCache,
               RunTry, RunAwaiting, RunInterrupting, RunForking, RunArray
<1> QED
  BY <1>1, Zenon DEF customerVars, Customers!vars, groupVars, Groups!vars, poolVars, cacheVars,
                     Cache!vars, tryVars, Try!vars, arrayVars, Array!vars, countVars,
                     Count!vars, awaitVars, Awaiting!vars

ProgramsInv ==
    /\ IInv /\ Customers!IInv /\ Groups!IInv
    /\ Cache!IInv /\ Try!IInv /\ Array!IInv
    /\ Count!IInv /\ Awaiting!IInv

LEMMA ProgramsInitInv == ProgramsInit => ProgramsInv
BY InitInv, CustomerInitIInv, GroupInitIInv, CacheInitIInv, TryInitIInv, ArrayInitIInv,
   CountInitIInv, AwaitingInitIInv, Zenon
   DEF ProgramsInit, ProgramsInv

LEMMA ProgramsStepInv == ProgramsInv /\ [ProgramsNext]_programsVars => ProgramsInv'
BY ProgramsStep, StepInv, CustomerNextIInv, GroupNextIInv, CacheNextIInv, TryNextIInv,
   ArrayNextStep, CountNextIInv, AwaitingNextIInv, Zenon
   DEF ProgramsInv

THEOREM ProgramsInvariance == ProgramsSpec => []ProgramsInv
BY ProgramsInitInv, ProgramsStepInv, PTL DEF ProgramsSpec

\* What the threads of a program share is whole: the types, the missions a customer
\* returns with, the answer of two threads, the one Cache and its map.
THEOREM SharedDataIsOK == ProgramsSpec => []SharedDataOK
<1>1. ProgramsInv => SharedDataOK
  BY IInvReturnsWithAll, CountIInvWhole, IInvGuards, Zenon
     DEF ProgramsInv, SharedDataOK, IInv, Customers!IInv, Groups!IInv, Cache!IInv, Try!IInv
<1> QED
  BY <1>1, ProgramsInvariance, PTL

\* Nothing throws: destroy() of a thread group, unlock() of a lock and the growing
\* of an array are called when they may be.
THEOREM NoCallThrows == ProgramsSpec => []NothingThrows
<1>1. ProgramsInv => NothingThrows
  BY Zenon DEF ProgramsInv, NothingThrows, Customers!IInv, Groups!IInv, Try!IInv, Array!IInv
<1> QED
  BY <1>1, ProgramsInvariance, PTL

\* Whoever waits has its wake-up to come: interrupt, notification, latch
\* or signal.
THEOREM WakeUpComes == ProgramsSpec => []WakeUpToCome
<1>1. ProgramsInv => WakeUpToCome
  BY IInvGuards, TryIInvGuards, AwaitingIInvGuards, Zenon
     DEF ProgramsInv, WakeUpToCome, Customers!IInv, Groups!IInv
<1> QED
  BY <1>1, ProgramsInvariance, PTL

\* The growing array of TestGeneric does what a list does, whichever program runs.
THEOREM ListImplemented == ProgramsSpec => ListSpec
<1>1. ProgramsInit => Array!List!Init
  BY ArrayInitIInv DEF ProgramsInit
<1>2. ProgramsInv /\ [ProgramsNext]_programsVars => [Array!List!Next]_(Array!List!vars)
  BY ProgramsStep, ArrayNextStep DEF ProgramsInv
<1> QED
  BY <1>1, <1>2, ProgramsInvariance, PTL
     DEF ProgramsSpec, ListSpec, Array!ListSpec, Array!List!Spec
===============================================================================
