------------------------------- MODULE HandOff -------------------------------
(***************************************************************************)
(* The hand-off of TestConcurrentLinkedQueue and TestConcurrentLinkedDeque.*)
(* Offerers share a counter and offer until maxCount people were offered;  *)
(* pollers take people until they are told to stop and count the latch     *)
(* down for each; main waits for the latch and then stops one poller after *)
(* the other.  The lock-free queue is one sequence with atomic operations  *)
(* at both ends: with HeadOfferers empty and HeadPollers all of them it is *)
(* the ConcurrentLinkedQueue.                                              *)
(*                                                                         *)
(* A person is the value of the counter that let it be offered.            *)
(***************************************************************************)
EXTENDS Integers, Sequences, SequencesExt, FiniteSets

CONSTANTS
    NumOfferers, NumPollers,
    HeadOfferers,   \* those that call offerFirst()
    HeadPollers,    \* those that call pollFirst()
    MaxCount

ASSUME NumAssumption == NumOfferers \in Nat \ {0} /\ NumPollers \in Nat \ {0}
ASSUME MaxAssumption == MaxCount \in Nat \ {0}

Offerers == 1 .. NumOfferers
Pollers == 1 .. NumPollers
People == 1 .. MaxCount

VARIABLES
    count,      \* the AtomicInteger
    people,     \* the queue or deque
    latch,      \* of the CountDownLatch
    stopped,    \* pollers 1 .. stopped were told to stop
    person,     \* the local people of an offerer, 0 for null
    nextPeople, \* the local nextPeople of a poller, 0 for null
    offerer,    \* where an offerer is
    poller,     \* where a poller is
    counted     \* history: the people the latch was counted down for

vars == <<count, people, latch, stopped, person, nextPeople, offerer, poller,
          counted>>

Init ==
    /\ count = 0
    /\ people = <<>>
    /\ latch = MaxCount
    /\ stopped = 0
    /\ person = [o \in Offerers |-> 0]
    /\ nextPeople = [p \in Pollers |-> 0]
    /\ offerer = [o \in Offerers |-> "count"]
    /\ poller = [p \in Pollers |-> "check"]
    /\ counted = {}

-----------------------------------------------------------------------------
(* OfferRunnable.run() and OfferIntoDequeRunnable.run() *)

IncrementLate(o) ==              \* slip: count.getAndIncrement()
    /\ offerer[o] = "count"
    /\ count' = count + 1
    /\ IF count <= MaxCount
       THEN /\ person' = [person EXCEPT ![o] = count + 1]
            /\ offerer' = [offerer EXCEPT ![o] = "offer"]
       ELSE /\ offerer' = [offerer EXCEPT ![o] = "ended"]
            /\ UNCHANGED person
    /\ UNCHANGED <<people, latch, stopped, nextPeople, poller, counted>>

IncrementStrict(o) ==            \* slip: < where <= is
    /\ offerer[o] = "count"
    /\ count' = count + 1
    /\ IF count + 1 < MaxCount
       THEN /\ person' = [person EXCEPT ![o] = count + 1]
            /\ offerer' = [offerer EXCEPT ![o] = "offer"]
       ELSE /\ offerer' = [offerer EXCEPT ![o] = "ended"]
            /\ UNCHANGED person
    /\ UNCHANGED <<people, latch, stopped, nextPeople, poller, counted>>

\* count.incrementAndGet() <= maxCount
Increment(o) ==
    /\ offerer[o] = "count"
    /\ count' = count + 1
    /\ IF count + 1 <= MaxCount
       THEN /\ person' = [person EXCEPT ![o] = count + 1]
            /\ offerer' = [offerer EXCEPT ![o] = "offer"]
       ELSE /\ offerer' = [offerer EXCEPT ![o] = "ended"]
            /\ UNCHANGED person
    /\ UNCHANGED <<people, latch, stopped, nextPeople, poller, counted>>

Offer(o) ==
    /\ offerer[o] = "offer"
    /\ people' = IF o \in HeadOfferers
                 THEN <<person[o]>> \o people ELSE Append(people, person[o])
    /\ person' = [person EXCEPT ![o] = 0]
    /\ offerer' = [offerer EXCEPT ![o] = "count"]
    /\ UNCHANGED <<count, latch, stopped, nextPeople, poller, counted>>

-----------------------------------------------------------------------------
(* PollRunnable.run() and PollFromDequeRunnable.run() *)

CheckStop(p) ==
    /\ poller[p] = "check"
    /\ poller' = [poller EXCEPT ![p] = IF p <= stopped THEN "ended" ELSE "poll"]
    /\ UNCHANGED <<count, people, latch, stopped, person, nextPeople, offerer,
                   counted>>

Peek(p) ==                       \* slip: peekFirst() and peekLast()
    /\ poller[p] = "poll" /\ people # <<>>
    /\ nextPeople' = [nextPeople EXCEPT ![p] =
                        IF p \in HeadPollers THEN Head(people) ELSE Last(people)]
    /\ poller' = [poller EXCEPT ![p] = "countDown"]
    /\ UNCHANGED <<count, people, latch, stopped, person, offerer, counted>>

Poll(p) ==
    /\ poller[p] = "poll" /\ people # <<>>
    /\ IF p \in HeadPollers
       THEN /\ nextPeople' = [nextPeople EXCEPT ![p] = Head(people)]
            /\ people' = Tail(people)
       ELSE /\ nextPeople' = [nextPeople EXCEPT ![p] = Last(people)]
            /\ people' = Front(people)
    /\ poller' = [poller EXCEPT ![p] = "countDown"]
    /\ UNCHANGED <<count, latch, stopped, person, offerer, counted>>

PollNothing(p) ==
    /\ poller[p] = "poll" /\ people = <<>>
    /\ poller' = [poller EXCEPT ![p] = "sleep"]
    /\ UNCHANGED <<count, people, latch, stopped, person, nextPeople, offerer,
                   counted>>

Wake(p) ==
    /\ poller[p] = "sleep"
    /\ poller' = [poller EXCEPT ![p] = "check"]
    /\ UNCHANGED <<count, people, latch, stopped, person, nextPeople, offerer,
                   counted>>

\* countDown() leaves a latch at zero as it is.
CountDown(p) ==
    /\ poller[p] = "countDown"
    /\ latch' = IF latch > 0 THEN latch - 1 ELSE 0
    /\ counted' = counted \cup {nextPeople[p]}
    /\ nextPeople' = [nextPeople EXCEPT ![p] = 0]
    /\ poller' = [poller EXCEPT ![p] = "check"]
    /\ UNCHANGED <<count, people, stopped, person, offerer>>

-----------------------------------------------------------------------------
(* main(): await(), then setStop(true) for each poller in turn *)

SetStopAtOnce ==                 \* slip: await() is forgotten
    /\ stopped < NumPollers
    /\ stopped' = stopped + 1
    /\ UNCHANGED <<count, people, latch, person, nextPeople, offerer, poller,
                   counted>>

SetStop ==
    /\ latch = 0
    /\ stopped < NumPollers
    /\ stopped' = stopped + 1
    /\ UNCHANGED <<count, people, latch, person, nextPeople, offerer, poller,
                   counted>>

OffererStep(o) == Increment(o) \/ Offer(o)

PollerStep(p) == CheckStop(p) \/ Poll(p) \/ PollNothing(p) \/ Wake(p) \/ CountDown(p)

Next ==
    \/ \E o \in Offerers : OffererStep(o)
    \/ \E p \in Pollers : PollerStep(p)
    \/ SetStop

Spec == Init /\ [][Next]_vars

\* Every started thread runs, main included.
FairSpec ==
    /\ Spec
    /\ \A o \in Offerers : WF_vars(OffererStep(o))
    /\ \A p \in Pollers : WF_vars(PollerStep(p))
    /\ WF_vars(SetStop)

-----------------------------------------------------------------------------
(* Properties *)

TypeOK ==
    /\ count \in Nat
    /\ people \in Seq(People)
    /\ latch \in 0 .. MaxCount
    /\ stopped \in 0 .. NumPollers
    /\ person \in [Offerers -> People \cup {0}]
    /\ nextPeople \in [Pollers -> People \cup {0}]
    /\ offerer \in [Offerers -> {"count", "offer", "ended"}]
    /\ poller \in [Pollers -> {"check", "poll", "sleep", "countDown", "ended"}]
    /\ counted \subseteq People

InSeq(q, s) == \E i \in 1 .. Len(s) : s[i] = q
NoDuplicates(s) == \A i, j \in 1 .. Len(s) : s[i] = s[j] => i = j

Offering(q) == \E o \in Offerers : person[o] = q
Waiting(q) == InSeq(q, people)
Polled(q) == \E p \in Pollers : nextPeople[p] = q
Counted(q) == q \in counted

\* Every person the counter let through is in one place: with one offerer,
\* once in the queue, with one poller, or counted; the counter lets through
\* exactly the people up to maxCount, however the increments interleave.
Somewhere(q) == Offering(q) \/ Waiting(q) \/ Polled(q) \/ Counted(q)
InOnePlace(q) ==
    /\ Offering(q) => ~Waiting(q) /\ ~Polled(q) /\ ~Counted(q)
    /\ Waiting(q) => ~Polled(q) /\ ~Counted(q)
    /\ Polled(q) => ~Counted(q)
NobodyLostOrDoubled ==
    /\ \A q \in People : (q <= count <=> Somewhere(q)) /\ InOnePlace(q)
    /\ \A o, u \in Offerers : person[o] = person[u] /\ person[o] # 0 => o = u
    /\ \A p, r \in Pollers :
          nextPeople[p] = nextPeople[r] /\ nextPeople[p] # 0 => p = r
    /\ NoDuplicates(people)

\* When a poller is told to stop, everybody was offered, taken and counted:
\* the latch cannot reach zero while a person is still on its way.
StopComesLast == stopped > 0 => counted = People /\ people = <<>>

\* Every thread ends.
EveryThreadEnds ==
    <>[](/\ \A o \in Offerers : offerer[o] = "ended"
         /\ \A p \in Pollers : poller[p] = "ended")
-----------------------------------------------------------------------------
(* The strengthening that makes the invariants inductive. *)

Placed ==
    /\ \A o \in Offerers : offerer[o] = "offer" <=> person[o] # 0
    /\ \A p \in Pollers : poller[p] = "countDown" <=> nextPeople[p] # 0

LatchCounts ==
    /\ latch = MaxCount - Cardinality(counted)
    /\ stopped > 0 => latch = 0

IInv == TypeOK /\ Placed /\ NobodyLostOrDoubled /\ LatchCounts
==============================================================================
