----------------------- MODULE TestProviderAndCustomer -----------------------
(***************************************************************************)
(* TestProviderAndCustomer: main() submits the customers to a fixed pool   *)
(* whose threads are in one ThreadGroup, offers the missions round robin,  *)
(* awaits the latch that every customer counts down when it begins, shuts  *)
(* the pool down and, inside the monitor of the group, interrupts the      *)
(* group, waits once and destroys the group; then it adds the results up.  *)
(*                                                                         *)
(* A customer c runs on pool thread c.  The interrupt is all that tells it *)
(* to finish, wherever it is just then.                                    *)
(***************************************************************************)
EXTENDS Integers, Sequences, FiniteSets

CONSTANTS
    NumCustomers,   \* 3 in the code
    NumMissions     \* 300 in the code

CustomersAssumption == NumCustomers \in Nat \ {0}
MissionsAssumption == NumMissions \in Nat

Customers == 1 .. NumCustomers

VARIABLES
    main,       \* where main() is
    index,      \* its loop variable
    queues,     \* a queue of missions per customer
    latch,      \* of the CountDownLatch
    shutdown,   \* the pool was shut down
    customer,   \* where a customer is
    flag,       \* the interrupt status of its thread
    finish,     \* its local finish
    result,     \* its local result
    total,      \* the result in main()
    spurious    \* history: wait() returned although nobody notified

vars == <<main, index, queues, latch, shutdown, customer, flag, finish, result,
          total, spurious>>

custVars == <<customer, flag, finish, result>>

Init ==
    /\ main = "submit" /\ index = 1
    /\ queues = [c \in Customers |-> <<>>]
    /\ latch = NumCustomers
    /\ shutdown = FALSE
    /\ customer = [c \in Customers |-> "none"]
    /\ flag = [c \in Customers |-> FALSE]
    /\ finish = [c \in Customers |-> FALSE]
    /\ result = [c \in Customers |-> 0]
    /\ total = 0
    /\ spurious = FALSE

Place(c, p) == customer' = [customer EXCEPT ![c] = p]

\* The threads that the group counts: started and not yet removed.
Active == {c \in Customers : customer[c] \notin {"none", "exited"}}

TurnBeyond(last, next) ==        \* slip: <= where < is
    IF index <= last THEN index' = index + 1 /\ main' = main
                     ELSE index' = 1 /\ main' = next

\* One more turn of a loop of main() from 1 to last, and where it goes then.
Turn(last, next) ==
    IF index < last THEN index' = index + 1 /\ main' = main
                    ELSE index' = 1 /\ main' = next

-----------------------------------------------------------------------------
(* main() *)

\* submit() makes and starts a thread of the pool: there are never more
\* tasks than threads.
Submit ==
    /\ main = "submit"
    /\ Place(index, "begin")
    /\ Turn(NumCustomers, IF NumMissions = 0 THEN "await" ELSE "offer")
    /\ UNCHANGED <<queues, latch, shutdown, flag, finish, result, total, spurious>>

\* The mission offered in turn i goes to customer (i - 1) % NumCustomers + 1.
CustomerOf(i) == ((i - 1) % NumCustomers) + 1

Offer ==
    /\ main = "offer"
    /\ queues' = [queues EXCEPT ![CustomerOf(index)] = Append(@, index)]
    /\ Turn(NumMissions, "await")
    /\ UNCHANGED <<latch, shutdown, custVars, total, spurious>>

AwaitNothing ==                  \* slip: countDownLatch.await() is forgotten
    /\ main = "await"
    /\ main' = "shutdown"
    /\ UNCHANGED <<index, queues, latch, shutdown, custVars, total, spurious>>

Await ==
    /\ main = "await" /\ latch = 0
    /\ main' = "shutdown"
    /\ UNCHANGED <<index, queues, latch, shutdown, custVars, total, spurious>>

\* shutdown() interrupts idle threads of the pool only: a customer is a
\* running task.
Shutdown ==
    /\ main = "shutdown"
    /\ shutdown' = TRUE
    /\ main' = "interrupt"
    /\ UNCHANGED <<index, queues, latch, custVars, total, spurious>>

\* destroyAllThread(): the monitor of the group is main's from here to wait().
Interrupt ==
    /\ main = "interrupt"
    /\ flag' = IF index \in Active THEN [flag EXCEPT ![index] = TRUE] ELSE flag
    /\ Turn(NumCustomers, "wait")
    /\ UNCHANGED <<queues, latch, shutdown, customer, finish, result, total,
                   spurious>>

WaitNothing ==                   \* slip: threadGroup.wait() is forgotten
    /\ main = "wait"
    /\ main' = "destroy"
    /\ UNCHANGED <<index, queues, latch, shutdown, custVars, total, spurious>>

WaitGroup ==
    /\ main = "wait"
    /\ main' = "waiting"
    /\ UNCHANGED <<index, queues, latch, shutdown, custVars, total, spurious>>

SpuriousWakeup ==
    /\ main = "waiting"
    /\ main' = "destroy"
    /\ spurious' = TRUE
    /\ UNCHANGED <<index, queues, latch, shutdown, custVars, total>>

\* destroy() of a group that has threads throws IllegalThreadStateException,
\* which main() does not catch.
Destroy ==
    /\ main = "destroy"
    /\ main' = IF Active = {} THEN "get" ELSE "failed"
    /\ UNCHANGED <<index, queues, latch, shutdown, custVars, total, spurious>>

Get ==
    /\ main = "get" /\ customer[index] \in {"returned", "exited"}
    /\ total' = total + result[index]
    /\ Turn(NumCustomers, "ended")
    /\ UNCHANGED <<queues, latch, shutdown, custVars, spurious>>

Main == Submit \/ Offer \/ Await \/ Shutdown \/ Interrupt \/ WaitGroup
        \/ Destroy \/ Get

-----------------------------------------------------------------------------
(* Customer.call() on its thread of the pool *)

\* The pool clears the interrupt status of a thread before it runs a task.
Begin(c) ==
    /\ customer[c] = "begin"
    /\ Place(c, "countDown")
    /\ flag' = [flag EXCEPT ![c] = FALSE]
    /\ UNCHANGED <<main, index, queues, latch, shutdown, finish, result, total,
                   spurious>>

CountDown(c) ==
    /\ customer[c] = "countDown"
    /\ latch' = latch - 1
    /\ Place(c, "check")
    /\ UNCHANGED <<main, index, queues, shutdown, flag, finish, result, total,
                   spurious>>

CheckFinishOnly(c) ==            \* slip: if(finish) break
    /\ customer[c] = "check"
    /\ Place(c, IF finish[c] THEN "returned" ELSE "take")
    /\ UNCHANGED <<main, index, queues, latch, shutdown, flag, finish, result,
                   total, spurious>>

Check(c) ==
    /\ customer[c] = "check"
    /\ Place(c, IF finish[c] /\ queues[c] = <<>> THEN "returned" ELSE "take")
    /\ UNCHANGED <<main, index, queues, latch, shutdown, flag, finish, result,
                   total, spurious>>

Take(c) ==
    /\ customer[c] = "take" /\ ~flag[c] /\ queues[c] # <<>>
    /\ result' = [result EXCEPT ![c] = @ + Head(queues[c])]
    /\ queues' = [queues EXCEPT ![c] = Tail(@)]
    /\ Place(c, "check")
    /\ UNCHANGED <<main, index, latch, shutdown, flag, finish, total, spurious>>

\* take() looks at the interrupt status first, elements or not.
TakeInterrupted(c) ==
    /\ customer[c] = "take" /\ flag[c]
    /\ flag' = [flag EXCEPT ![c] = FALSE]
    /\ finish' = [finish EXCEPT ![c] = TRUE]
    /\ Place(c, "check")
    /\ UNCHANGED <<main, index, queues, latch, shutdown, result, total, spurious>>

\* The thread of a pool that was shut down ends; to leave its group it needs
\* the monitor of the group, and the last one to leave notifies.
Exit(c) ==
    /\ customer[c] = "returned" /\ shutdown
    /\ main \notin {"interrupt", "wait"}
    /\ Place(c, "exited")
    /\ main' = IF Active = {c} /\ main = "waiting" THEN "destroy" ELSE main
    /\ UNCHANGED <<index, queues, latch, shutdown, flag, finish, result, total,
                   spurious>>

Customer(c) == Begin(c) \/ CountDown(c) \/ Check(c) \/ Take(c)
               \/ TakeInterrupted(c) \/ Exit(c)

Next == Main \/ SpuriousWakeup \/ \E c \in Customers : Customer(c)

Spec == Init /\ [][Next]_vars

\* Every started thread runs; nothing makes wait() return early.
Fairness == WF_vars(Main) /\ \A c \in Customers : WF_vars(Customer(c))

FairSpec == Spec /\ Fairness

-----------------------------------------------------------------------------
(* Properties *)

TypeOK ==
    /\ main \in {"submit", "offer", "await", "shutdown", "interrupt", "wait",
                 "waiting", "destroy", "get", "ended", "failed"}
    /\ index \in (1 .. NumCustomers) \cup (1 .. NumMissions)
    /\ queues \in [Customers -> Seq(1 .. NumMissions)]
    /\ latch \in 0 .. NumCustomers
    /\ customer \in [Customers -> {"none", "begin", "countDown", "check", "take",
                                   "returned", "exited"}]
    /\ flag \in [Customers -> BOOLEAN] /\ finish \in [Customers -> BOOLEAN]
    /\ result \in [Customers -> Nat]
    /\ {shutdown, spurious} \subseteq BOOLEAN /\ total \in Nat

\* The interrupt is delivered to each customer once and kept until take()
\* sees it: from the moment the group was interrupted a customer is flagged,
\* has finish set, or is still to be interrupted by the loop.
InterruptIsKept ==
    main \in {"wait", "waiting", "destroy", "get", "ended", "failed"} =>
        \A c \in Customers : flag[c] \/ finish[c]

\* The sum of a set of missions
SumOf(S) ==
    LET sum[i \in 0 .. NumMissions] ==
            IF i = 0 THEN 0 ELSE sum[i - 1] + (IF i \in S THEN i ELSE 0)
    IN  sum[NumMissions]

\* A customer returns only when every mission offered to it is in its result.
ReturnsWithAll ==
    \A c \in Customers : customer[c] \in {"returned", "exited"} =>
        result[c] = SumOf({i \in 1 .. NumMissions : CustomerOf(i) = c})

\* The only way to destroy a group that has threads is a spurious wake-up.
DestroyIsLegal == main = "failed" => spurious

Summed == main = "ended" /\ 2 * total = NumMissions * (NumMissions + 1)

\* Unless it is woken spuriously, main() ends with the sum of all missions;
\* the customers end in any case.
SumIsComplete ==
    /\ <>(\A c \in Customers : customer[c] = "exited")
    /\ <>(Summed \/ spurious)

-----------------------------------------------------------------------------
(* The invariant that is inductive *)

\* The loops of main() begin with 1.
LoopsBegin ==
    /\ IF main = "offer" THEN index \in 1 .. NumMissions ELSE index \in Customers
    /\ main \in {"await", "shutdown", "wait", "waiting", "destroy"} => index = 1

\* The customers that the latch waits for
Uncounted == {c \in Customers : customer[c] \in {"none", "begin", "countDown"}}

FromInterrupt == {"interrupt", "wait", "waiting", "destroy", "get", "ended", "failed"}

\* The customers are all past the latch before the first of them is interrupted,
\* and the pool has cleared their interrupt status long before.
LatchCounts ==
    /\ latch = Cardinality(Uncounted)
    /\ \A c \in Customers : customer[c] = "none" <=> main = "submit" /\ c >= index
    /\ main \in {"shutdown"} \cup FromInterrupt => latch = 0

\* An interrupt comes only from main(), and is passed on to finish; nobody leaves
\* the group while it is interrupted.
InterruptsAreKept ==
    /\ shutdown => main \in FromInterrupt
    /\ \A c \in Customers :
          /\ flag[c] \/ finish[c] => main \in FromInterrupt
          /\ customer[c] = "exited" => main \in FromInterrupt \ {"interrupt", "wait"}
          /\ main = "interrupt" /\ c < index => flag[c] \/ finish[c]

DestroyIsLate == main = "destroy" => Active = {} \/ spurious

\* The missions that were offered to a customer, and those it has not taken
Offered(c) ==
    {i \in 1 .. NumMissions : CustomerOf(i) = c /\ main # "submit" /\ (main = "offer" => i < index)}

Queued(c) == {queues[c][i] : i \in 1 .. Len(queues[c])}

\* A mission offered to a customer is in its queue or in its result, once; and the
\* customer does not return before it has been told to, and has emptied its queue.
MissionsAreAdded ==
    \A c \in Customers :
        /\ \A i, j \in 1 .. Len(queues[c]) : queues[c][i] = queues[c][j] => i = j
        /\ Queued(c) \subseteq Offered(c)
        /\ result[c] = SumOf(Offered(c) \ Queued(c))
        /\ customer[c] \in {"returned", "exited"} => finish[c] /\ queues[c] = <<>>

IInv == /\ TypeOK /\ LoopsBegin /\ LatchCounts /\ InterruptsAreKept /\ InterruptIsKept
        /\ DestroyIsLate /\ DestroyIsLegal /\ MissionsAreAdded
==============================================================================
