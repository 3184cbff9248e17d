------------------------------ MODULE Programs --------------------------------
(* The programs of the packages threadtest, cyclicbarrier, forkjoin and       *)
(* lock that are not about TwinsLock or the queue, and the growing array of   *)
(* TestGeneric. They share nothing: each behaviour runs one of them, and      *)
(* the variables of the others stay as they are initially. The pool is the    *)
(* module extended, the others are instances.                                 *)
EXTENDS MatchaThreadPool

CONSTANTS
    NumCustomers, NumMissions,                      \* TestProviderAndCustomer
    ThreadCount,                                    \* ThreadGroupThreadFactory
    StartA, StartB, Turns,                          \* CountHelper
    Getters, Putters, Rounds, Calls,                \* ReadWriteThreadFacotry
    Callers, Batches, BatchSize, Interruptible,     \* DefaultThreadFacotry
    Ends, THERE_SHOULD,                             \* CountTask
    Members, Null, InitialSize, MaxSize             \* GenericArrayWithT

VARIABLES
    program,
    main, index, queues, latch, shutdown, customer, flag, finish, result, total, spurious,
    step, group, started, gate, thread, destroyed,
    turn, sum, counter, merged, opened, answer,
    current, open, starter, pc, awaited, caches, entered, readers, writers, parked, calls,
    latchField, latchesMade, openLatches, threadIndex, caller, toMake, batch, found, run,
    latchOf, getLock, owner, hit, raced,
    latchOpen, waiter, signaller, holder, signalled, missed,
    latchIsOpen, place, owning, interrupted,
    root, forked, joining, taskSum,
    members, size, returned

customerVars == <<main, index, queues, latch, shutdown, customer, flag, finish,
                  result, total, spurious>>
groupVars == <<step, group, started, gate, thread, destroyed>>
poolVars == vars
countVars == <<turn, sum, counter, merged, opened, answer>>
cacheVars == <<current, open, starter, pc, awaited, caches, entered, readers, writers,
               parked, calls>>
tryVars == <<latchField, latchesMade, openLatches, threadIndex, caller, toMake, batch,
             found, run, latchOf, getLock, owner, hit, raced>>
awaitVars == <<latchOpen, waiter, signaller, holder, signalled, missed>>
interruptVars == <<latchIsOpen, place, owning, interrupted>>
forkVars == <<root, forked, joining, taskSum>>
arrayVars == <<members, size, returned>>

Customers == INSTANCE TestProviderAndCustomer
Groups == INSTANCE ThreadGroupThreadFactory
Count == INSTANCE CountHelper
Cache == INSTANCE ReadWriteThreadFacotry
Try == INSTANCE DefaultThreadFacotry WITH opened <- openLatches
Awaiting == INSTANCE LockAwaitTestClass
Interrupting == INSTANCE TestLockInterruptibly
Forking == INSTANCE CountTask WITH sum <- taskSum
Array == INSTANCE GenericArrayWithT WITH result <- returned

ASSUME CustomersAssumptions ==
    Customers!CustomersAssumption /\ Customers!MissionsAssumption
ASSUME GroupsAssumption == Groups!CountAssumption
ASSUME CountAssumptions == Count!StartAssumption /\ Count!TurnsAssumption
ASSUME CacheAssumptions == Cache!RoundsAssumption /\ Cache!CallsAssumption
ASSUME TryAssumptions == Try!CallersAssumption /\ Try!BatchAssumption
ASSUME ForkingAssumption == Forking!EndsAssumption
ASSUME ArrayAssumption == Array!InitialAssumption

ProgramsInit ==
    /\ program \in {"customers", "groups", "pool", "count", "cache", "try", "await",
                    "interrupt", "fork", "array"}
    /\ Customers!Init /\ Groups!Init /\ Init /\ Count!Init
    /\ Cache!Init /\ Try!Init /\ Awaiting!Init /\ Interrupting!Init
    /\ Forking!Init /\ Array!Init
    /\ program # "fork" => root = CHOOSE task \in {<<1, end>> : end \in Ends} : TRUE

RunCustomers ==
    /\ program = "customers" /\ Customers!Next
    /\ UNCHANGED <<program, groupVars, poolVars, countVars, cacheVars, tryVars,
                   awaitVars, interruptVars, forkVars, arrayVars>>

RunGroups ==
    /\ program = "groups" /\ Groups!Next
    /\ UNCHANGED <<program, customerVars, poolVars, countVars, cacheVars, tryVars,
                   awaitVars, interruptVars, forkVars, arrayVars>>

RunPool ==
    /\ program = "pool" /\ Next
    /\ UNCHANGED <<program, customerVars, groupVars, countVars, cacheVars, tryVars,
                   awaitVars, interruptVars, forkVars, arrayVars>>

RunCount ==
    /\ program = "count" /\ Count!Next
    /\ UNCHANGED <<program, customerVars, groupVars, poolVars, cacheVars, tryVars,
                   awaitVars, interruptVars, forkVars, arrayVars>>

RunCache ==
    /\ program = "cache" /\ Cache!Next
    /\ UNCHANGED <<program, customerVars, groupVars, poolVars, countVars, tryVars,
                   awaitVars, interruptVars, forkVars, arrayVars>>

RunTry ==
    /\ program = "try" /\ Try!Next
    /\ UNCHANGED <<program, customerVars, groupVars, poolVars, countVars, cacheVars,
                   awaitVars, interruptVars, forkVars, arrayVars>>

RunAwaiting ==
    /\ program = "await" /\ Awaiting!Next
    /\ UNCHANGED <<program, customerVars, groupVars, poolVars, countVars, cacheVars,
                   tryVars, interruptVars, forkVars, arrayVars>>

RunInterrupting ==
    /\ program = "interrupt" /\ Interrupting!Next
    /\ UNCHANGED <<program, customerVars, groupVars, poolVars, countVars, cacheVars,
                   tryVars, awaitVars, forkVars, arrayVars>>

RunForking ==
    /\ program = "fork" /\ Forking!Next
    /\ UNCHANGED <<program, customerVars, groupVars, poolVars, countVars, cacheVars,
                   tryVars, awaitVars, interruptVars, arrayVars>>

RunArray ==
    /\ program = "array" /\ Array!Next
    /\ UNCHANGED <<program, customerVars, groupVars, poolVars, countVars, cacheVars,
                   tryVars, awaitVars, interruptVars, forkVars>>

ProgramsNext ==
    \/ RunCustomers \/ RunGroups \/ RunPool \/ RunCount
    \/ RunCache \/ RunTry \/ RunAwaiting \/ RunInterrupting
    \/ RunForking \/ RunArray

programsVars == <<program, customerVars, groupVars, poolVars, countVars, cacheVars, tryVars,
                  awaitVars, interruptVars, forkVars, arrayVars>>

\* The Fairness of the program that runs, action by action.
ProgramsSpec ==
    /\ ProgramsInit /\ [][ProgramsNext]_programsVars
    /\ WF_customerVars(program = "customers" /\ Customers!Main)
    /\ \A c \in Customers!Customers : WF_customerVars(program = "customers" /\ Customers!Customer(c))
    /\ WF_groupVars(program = "groups" /\ Groups!Main)
    /\ WF_groupVars(program = "groups" /\ Groups!CountDown)
    /\ \A t \in Groups!Threads :
          WF_groupVars(program = "groups" /\ (Groups!PassGate(t) \/ Groups!Leave(t)))
    /\ \A w \in Workers : WF_poolVars(program = "pool" /\ Worker(w))
    /\ WF_countVars(program = "count" /\ Count!Answer)
    /\ \A r \in Count!Runnables : WF_countVars(program = "count" /\ Count!Counter(r))
    /\ WF_cacheVars(program = "cache" /\ Cache!Starter)
    /\ \A t \in Cache!Threads : WF_cacheVars(program = "cache" /\ Cache!Runner(t))
    /\ \A c \in Callers : WF_tryVars(program = "try" /\ Try!Caller(c))
    /\ \A t \in Try!Threads : WF_tryVars(program = "try" /\ Try!Thread(t))
    /\ WF_awaitVars(program = "await" /\ Awaiting!CountDown)
    /\ WF_awaitVars(program = "await" /\ Awaiting!Waiter)
    /\ WF_awaitVars(program = "await" /\ Awaiting!Signaller)
    /\ WF_interruptVars(program = "interrupt" /\ Interrupting!CountDown)
    /\ WF_interruptVars(program = "interrupt" /\ Interrupting!Interrupt)
    /\ \A t \in 1 .. 4 : WF_interruptVars(program = "interrupt" /\ Interrupting!Locker(t))
    /\ WF_forkVars(program = "fork" /\ Forking!Next)

-----------------------------------------------------------------------------
(* Properties: those of the pool are its own, the others are put together here *)

\* The variables have their types, and what the threads of a program share is
\* whole: a customer returns with every mission offered to it, the count of two
\* threads is complete when it is returned, all threads use one Cache, and its map
\* is not touched beside a writer.
SharedDataOK ==
    /\ TypeOK /\ Customers!TypeOK /\ Groups!TypeOK /\ Cache!TypeOK /\ Try!TypeOK
    /\ Customers!ReturnsWithAll
    /\ Count!AnswerIsWhole
    /\ Cache!OneCache /\ Cache!MapIsGuarded

\* No call throws for being made too early or too often: a thread group is
\* destroyed when it is empty, a lock is unlocked by its owner, and a growing
\* array has a slot for the next member, but for the cases the modules name.
NothingThrows ==
    /\ Customers!DestroyIsLegal /\ Groups!DestroyIsLegal
    /\ Try!UnlockIsLegal
    /\ Array!RoomIsLeft

\* What a thread waits for is yet to come: the interrupt that tells a customer to
\* finish, the notification of a thread group, the opening of the latch that a
\* thread has read, but for the race of two factory calls, and the signal of a
\* condition, but for the one that comes before the await.
WakeUpToCome ==
    /\ Customers!InterruptIsKept
    /\ Groups!NotificationToCome
    /\ Cache!NobodyIsStranded /\ Try!StrandedByRace
    /\ Awaiting!SignalToCome

\* Every program ends with the right result, or stops in the one way its module
\* names: a spurious wake-up, a missed notification or signal, a stranded thread,
\* or a lock that an ended thread has kept.
EveryProgramEnds ==
    /\ program = "customers" => Customers!SumIsComplete
    /\ program = "groups" => Groups!MainEnds
    /\ program = "count" => Count!CountIsWhole
    /\ program = "cache" => Cache!EveryThreadEnds
    /\ program = "try" => Try!EveryThreadEnds
    /\ program = "await" => Awaiting!EndsUnlessMissed
    /\ program = "interrupt" => Interrupting!InterruptiblyEnds
    /\ program = "fork" => Forking!SumIsWhole

\* The growing array of TestGeneric does what a list does.
ListSpec == Array!ListSpec
===============================================================================
