---------------------------- MODULE HandOffProofs ----------------------------
(***************************************************************************)
(* The hand-off for any number of offerers, pollers and people, whichever  *)
(* ends of the deque they use: nobody is lost or taken twice, and the      *)
(* pollers are stopped only when everybody was counted.                    *)
(***************************************************************************)
EXTENDS HandOff, SequenceTheorems, FiniteSetTheorems, TLAPS

-----------------------------------------------------------------------------
(* What the four ends of the deque do to it. *)

\* offerLast(): a new person is in the deque, once, with all the others.
LEMMA OfferLast ==
  ASSUME NEW s \in Seq(People), NEW x \in People, ~InSeq(x, s), NoDuplicates(s)
  PROVE  /\ Append(s, x) \in Seq(People)
         /\ NoDuplicates(Append(s, x))
         /\ \A q : InSeq(q, Append(s, x)) <=> InSeq(q, s) \/ q = x
<1> DEFINE a == Append(s, x)
<1>1. /\ a \in Seq(People)
      /\ Len(a) = Len(s) + 1
      /\ Len(s) \in Nat
      /\ \A i \in 1 .. Len(s) : a[i] = s[i]
      /\ a[Len(s) + 1] = x
  BY AppendProperties
<1> HIDE DEF a
<1>2. NoDuplicates(a)
  BY <1>1 DEF NoDuplicates, InSeq
<1>3. \A q : InSeq(q, a) <=> InSeq(q, s) \/ q = x
  BY <1>1 DEF InSeq
<1> QED
  BY <1>1, <1>2, <1>3 DEF a

\* offerFirst(): the same at the other end.
LEMMA OfferFirst ==
  ASSUME NEW s \in Seq(People), NEW x \in People, ~InSeq(x, s), NoDuplicates(s)
  PROVE  /\ <<x>> \o s \in Seq(People)
         /\ NoDuplicates(<<x>> \o s)
         /\ \A q : InSeq(q, <<x>> \o s) <=> InSeq(q, s) \/ q = x
<1> DEFINE a == <<x>> \o s
<1>1. /\ a \in Seq(People)
      /\ Len(a) = Len(s) + 1
      /\ Len(s) \in Nat
      /\ \A i \in 1 .. Len(s) : a[i + 1] = s[i]
      /\ a[1] = x
  <2>1. <<x>> \in Seq(People) /\ Len(<<x>>) = 1 /\ <<x>>[1] = x
    OBVIOUS
  <2> QED
    BY <2>1, ConcatProperties
<1> HIDE DEF a
<1>2. \A i \in 1 .. Len(a) : i = 1 \/ (i - 1 \in 1 .. Len(s) /\ a[i] = s[i - 1])
  BY <1>1
<1>3. NoDuplicates(a)
  BY <1>1, <1>2 DEF NoDuplicates, InSeq
<1>4. \A q : InSeq(q, a) => InSeq(q, s) \/ q = x
  BY <1>1, <1>2 DEF InSeq
<1>5. InSeq(x, a)
  BY <1>1 DEF InSeq
<1>6. ASSUME NEW q, InSeq(q, s) PROVE InSeq(q, a)
  <2>1. PICK i \in 1 .. Len(s) : s[i] = q
    BY <1>6 DEF InSeq
  <2>2. i + 1 \in 1 .. Len(a) /\ a[i + 1] = q
    BY <1>1, <2>1
  <2> QED
    BY <2>2 DEF InSeq
<1> QED
  BY <1>1, <1>3, <1>4, <1>5, <1>6 DEF a

\* pollFirst(): the first person is out and all the others stay.
LEMMA PollFirst ==
  ASSUME NEW s \in Seq(People), s # <<>>, NoDuplicates(s)
  PROVE  /\ Tail(s) \in Seq(People)
         /\ Head(s) \in People
         /\ InSeq(Head(s), s)
         /\ NoDuplicates(Tail(s))
         /\ \A q : InSeq(q, Tail(s)) <=> InSeq(q, s) /\ q # Head(s)
<1> DEFINE a == Tail(s)
<1>1. /\ a \in Seq(People)
      /\ Len(a) = Len(s) - 1
      /\ Len(s) \in Nat \ {0}
      /\ \A i \in 1 .. Len(s) - 1 : a[i] = s[i + 1]
      /\ Head(s) = s[1]
      /\ s[1] \in People
  BY HeadTailProperties, EmptySeq
<1> HIDE DEF a
<1>2. NoDuplicates(a)
  BY <1>1 DEF NoDuplicates
<1>3. InSeq(s[1], s)
  BY <1>1 DEF InSeq
<1>4. \A q : InSeq(q, a) => InSeq(q, s) /\ q # s[1]
  BY <1>1 DEF InSeq, NoDuplicates
<1>5. ASSUME NEW q, InSeq(q, s), q # s[1] PROVE InSeq(q, a)
  <2>1. PICK i \in 1 .. Len(s) : s[i] = q
    BY <1>5 DEF InSeq
  <2>2. i - 1 \in 1 .. Len(a) /\ a[i - 1] = q
    BY <1>1, <1>5, <2>1
  <2> QED
    BY <2>2 DEF InSeq
<1> QED
  BY <1>1, <1>2, <1>3, <1>4, <1>5 DEF a

\* pollLast(): the same at the other end.
LEMMA PollLast ==
  ASSUME NEW s \in Seq(People), s # <<>>, NoDuplicates(s)
  PROVE  /\ Front(s) \in Seq(People)
         /\ Last(s) \in People
         /\ InSeq(Last(s), s)
         /\ NoDuplicates(Front(s))
         /\ \A q : InSeq(q, Front(s)) <=> InSeq(q, s) /\ q # Last(s)
<1> DEFINE a == Front(s)
<1>1. /\ a \in Seq(People)
      /\ Len(a) = Len(s) - 1
      /\ Len(s) \in Nat \ {0}
      /\ \A i \in 1 .. Len(s) - 1 : a[i] = s[i]
      /\ Last(s) = s[Len(s)]
      /\ s[Len(s)] \in People
  <2>1. Len(s) \in Nat \ {0} /\ \A i \in 1 .. Len(s) : s[i] \in People
    BY EmptySeq
  <2> DEFINE n == Len(s) - 1
  <2>2. 1 \in Int /\ n \in Int /\ n >= 0 /\ \A i \in 1 .. n : s[i] \in People
    BY <2>1
  <2>3. a = SubSeq(s, 1, n)
    BY DEF Front
  <2> HIDE DEF n, a
  <2>4. /\ a \in Seq(People)
        /\ Len(a) = IF 1 <= n THEN n - 1 + 1 ELSE 0
        /\ \A i \in 1 .. n - 1 + 1 : a[i] = s[1 + i - 1]
    BY <2>2, <2>3, SubSeqProperties
  <2>5. /\ Len(a) = n
        /\ \A i \in 1 .. n : a[i] = s[i]
    BY <2>2, <2>4
  <2> QED
    BY <2>1, <2>4, <2>5 DEF n, Last
<1> HIDE DEF a
<1>2. NoDuplicates(a)
  BY <1>1 DEF NoDuplicates
<1>3. InSeq(Last(s), s)
  BY <1>1 DEF InSeq
<1>4. \A q : InSeq(q, a) => InSeq(q, s) /\ q # Last(s)
  BY <1>1 DEF InSeq, NoDuplicates
<1>5. ASSUME NEW q, InSeq(q, s), q # Last(s) PROVE InSeq(q, a)
  <2>1. PICK i \in 1 .. Len(s) : s[i] = q
    BY <1>5 DEF InSeq
  <2>2. i \in 1 .. Len(a) /\ a[i] = q
    BY <1>1, <1>5, <2>1
  <2> QED
    BY <2>2 DEF InSeq
<1> QED
  BY <1>1, <1>2, <1>3, <1>4, <1>5 DEF a

-----------------------------------------------------------------------------
(* The steps. *)

\* There are MaxCount people.
LEMMA PeopleAreFinite == IsFiniteSet(People) /\ Cardinality(People) = MaxCount
<1>1. 1 \in Int /\ MaxCount \in Int /\ MaxCount >= 1
  BY MaxAssumption
<1>2. /\ IsFiniteSet(1 .. MaxCount)
      /\ Cardinality(1 .. MaxCount) = IF 1 > MaxCount THEN 0 ELSE MaxCount - 1 + 1
  BY <1>1, FS_Interval
<1> QED
  BY <1>1, <1>2 DEF People

\* The initial states: nobody was offered and the latch is at maxCount.
LEMMA InitIInv == Init => IInv
<1> SUFFICES ASSUME Init PROVE IInv
  OBVIOUS
<1>1. TypeOK
  BY NumAssumption, MaxAssumption DEF Init, TypeOK, People, Offerers, Pollers
<1>2. Placed
  BY DEF Init, Placed
<1>3. NobodyLostOrDoubled
  BY DEF Init, NobodyLostOrDoubled, NoDuplicates, Somewhere, InOnePlace, Offering,
         Waiting, InSeq, Polled, Counted, People
<1>4. LatchCounts
  BY FS_EmptySet, MaxAssumption DEF Init, LatchCounts
<1> QED
  BY <1>1, <1>2, <1>3, <1>4 DEF IInv

\* The counter lets one more person through, or ends the offerer.
LEMMA IncrementKeeps ==
  ASSUME IInv, NEW o \in Offerers, Increment(o)
  PROVE  IInv'
<1>1. person[o] = 0
  BY DEF IInv, TypeOK, Placed, Increment
<1>2. CASE count + 1 <= MaxCount
  <2>1. TypeOK'
    <3>1. count + 1 \in People /\ count' \in Nat
      BY <1>2, MaxAssumption DEF IInv, TypeOK, Increment, People
    <3>2. /\ person' = [person EXCEPT ![o] = count + 1]
          /\ offerer' = [offerer EXCEPT ![o] = "offer"]
          /\ UNCHANGED <<people, latch, stopped, nextPeople, poller, counted>>
      BY <1>2 DEF Increment
    <3> QED
      BY <3>1, <3>2 DEF IInv, TypeOK
  <2>2. Placed'
    BY <1>2, MaxAssumption DEF IInv, TypeOK, Placed, Increment
  <2>3. \A q \in People : Offering(q)' <=> Offering(q) \/ q = count + 1
    BY <1>1, <1>2 DEF IInv, TypeOK, Increment, Offering, People
  <2>4. \A q : /\ Waiting(q)' <=> Waiting(q)
               /\ Polled(q)' <=> Polled(q)
               /\ Counted(q)' <=> Counted(q)
    BY DEF Increment, Waiting, Polled, Counted
  <2>5. count' = count + 1 /\ count \in Nat
    BY DEF Increment, IInv, TypeOK
  <2>6. \A q \in People : (q <= count <=> Somewhere(q)) /\ InOnePlace(q)
    BY DEF IInv, NobodyLostOrDoubled
  <2>7. \A q \in People : (q <= count' <=> Somewhere(q)') /\ InOnePlace(q)'
    BY <2>3, <2>4, <2>5, <2>6 DEF Somewhere, InOnePlace, People
  <2>8. \A u \in Offerers : person[u] # count + 1
    BY <1>2, <2>5, <2>6, MaxAssumption DEF Somewhere, Offering, People
  <2>9. NobodyLostOrDoubled'
    BY <1>2, <2>7, <2>8 DEF IInv, TypeOK, NobodyLostOrDoubled, Increment
  <2> QED
    BY <2>1, <2>2, <2>9 DEF IInv, LatchCounts, Increment
<1>3. CASE ~(count + 1 <= MaxCount)
  <2>1. TypeOK'
    BY <1>3 DEF IInv, TypeOK, Increment
  <2>2. Placed'
    BY <1>1, <1>3 DEF IInv, TypeOK, Placed, Increment
  <2>3. \A q \in People : q <= count /\ q <= count'
    BY <1>3, MaxAssumption DEF IInv, TypeOK, Increment, People
  <2>4. NobodyLostOrDoubled'
    BY <1>3, <2>3 DEF IInv, NobodyLostOrDoubled, Increment, Somewhere, InOnePlace,
                      Offering, Waiting, Polled, Counted
  <2> QED
    BY <2>1, <2>2, <2>4 DEF IInv, LatchCounts, Increment
<1> QED
  BY <1>2, <1>3

\* A person goes from its offerer into the queue.
LEMMA OfferKeeps ==
  ASSUME IInv, NEW o \in Offerers, Offer(o)
  PROVE  IInv'
<1> DEFINE x == person[o]
<1>1. x \in People /\ Offering(x) /\ ~Waiting(x) /\ ~Polled(x) /\ ~Counted(x)
  <2>1. x \in People /\ Offering(x)
    BY DEF IInv, TypeOK, Placed, Offer, Offering
  <2> QED
    BY <2>1 DEF IInv, NobodyLostOrDoubled, InOnePlace
<1>2. /\ people' \in Seq(People)
      /\ NoDuplicates(people')
      /\ \A q : InSeq(q, people') <=> InSeq(q, people) \/ q = x
  <2>1. people \in Seq(People) /\ NoDuplicates(people) /\ ~InSeq(x, people)
    BY <1>1 DEF IInv, TypeOK, NobodyLostOrDoubled, Waiting
  <2>2. CASE o \in HeadOfferers
    BY <1>1, <2>1, <2>2, OfferFirst DEF Offer
  <2>3. CASE o \notin HeadOfferers
    BY <1>1, <2>1, <2>3, OfferLast DEF Offer
  <2> QED
    BY <2>2, <2>3
<1>3. TypeOK'
  BY <1>2 DEF IInv, TypeOK, Offer
<1>4. Placed'
  BY DEF IInv, TypeOK, Placed, Offer
<1>5. \A q \in People : Offering(q)' <=> Offering(q) /\ q # x
  BY <1>1 DEF IInv, TypeOK, NobodyLostOrDoubled, Offer, Offering, People
<1>6. \A q : /\ Waiting(q)' <=> Waiting(q) \/ q = x
             /\ Polled(q)' <=> Polled(q)
             /\ Counted(q)' <=> Counted(q)
  BY <1>2 DEF Offer, Waiting, Polled, Counted
<1>7. \A q \in People : (q <= count <=> Somewhere(q)) /\ InOnePlace(q)
  BY DEF IInv, NobodyLostOrDoubled
<1>8. \A q \in People : (q <= count' <=> Somewhere(q)') /\ InOnePlace(q)'
  <2>1. count' = count
    BY DEF Offer
  <2> HIDE DEF x
  <2> QED
    BY <1>1, <1>5, <1>6, <1>7, <2>1 DEF Somewhere, InOnePlace
<1>9. NobodyLostOrDoubled'
  BY <1>2, <1>8 DEF IInv, TypeOK, NobodyLostOrDoubled, Offer
<1> QED
  BY <1>3, <1>4, <1>9 DEF IInv, LatchCounts, Offer

\* A person goes from the queue to one poller.
LEMMA PollKeeps ==
  ASSUME IInv, NEW p \in Pollers, Poll(p)
  PROVE  IInv'
<1> DEFINE x == IF p \in HeadPollers THEN Head(people) ELSE Last(people)
<1>1. /\ people' \in Seq(People)
      /\ x \in People
      /\ InSeq(x, people)
      /\ NoDuplicates(people')
      /\ \A q : InSeq(q, people') <=> InSeq(q, people) /\ q # x
  <2>1. people \in Seq(People) /\ NoDuplicates(people) /\ people # <<>>
    BY DEF IInv, TypeOK, NobodyLostOrDoubled, Poll
  <2>2. CASE p \in HeadPollers
    <3>1. people' = Tail(people) /\ x = Head(people)
      BY <2>2 DEF Poll
    <3> QED
      BY <2>1, <3>1, PollFirst
  <2>3. CASE p \notin HeadPollers
    <3>1. people' = Front(people) /\ x = Last(people)
      BY <2>3 DEF Poll
    <3> HIDE DEF x
    <3> QED
      BY <2>1, <3>1, PollLast
  <2> QED
    BY <2>2, <2>3
<1>2. nextPeople' = [nextPeople EXCEPT ![p] = x]
  BY DEF Poll
<1> HIDE DEF x
<1>3. TypeOK'
  BY <1>1, <1>2 DEF IInv, TypeOK, Poll
<1>4. Placed'
  BY <1>1, <1>2 DEF IInv, TypeOK, Placed, Poll, People
<1>5. nextPeople[p] = 0 /\ 0 \notin People
  BY DEF IInv, TypeOK, Placed, Poll, People
<1>6. \A q \in People : Polled(q)' <=> Polled(q) \/ q = x
  BY <1>1, <1>2, <1>5 DEF IInv, TypeOK, Polled
<1>7. \A q : /\ Waiting(q)' <=> Waiting(q) /\ q # x
             /\ Offering(q)' <=> Offering(q)
             /\ Counted(q)' <=> Counted(q)
  BY <1>1 DEF Poll, Waiting, Offering, Counted
<1>8. Waiting(x) /\ ~Polled(x)
  BY <1>1 DEF IInv, NobodyLostOrDoubled, InOnePlace, Waiting
<1>9. \A q \in People : (q <= count <=> Somewhere(q)) /\ InOnePlace(q)
  BY DEF IInv, NobodyLostOrDoubled
<1>10. \A q \in People : (q <= count' <=> Somewhere(q)') /\ InOnePlace(q)'
  <2>1. count' = count
    BY DEF Poll
  <2> QED
    BY <1>1, <1>6, <1>7, <1>8, <1>9, <2>1 DEF Somewhere, InOnePlace
<1>11. \A q, r \in Pollers :
          nextPeople'[q] = nextPeople'[r] /\ nextPeople'[q] # 0 => q = r
  BY <1>2, <1>8 DEF IInv, TypeOK, NobodyLostOrDoubled, Polled
<1>12. NobodyLostOrDoubled'
  BY <1>1, <1>10, <1>11 DEF IInv, NobodyLostOrDoubled, Poll
<1> QED
  BY <1>3, <1>4, <1>12 DEF IInv, LatchCounts, Poll

\* A person goes from its poller to the counted: the latch was not at zero.
LEMMA CountDownKeeps ==
  ASSUME IInv, NEW p \in Pollers, CountDown(p)
  PROVE  IInv'
<1> DEFINE x == nextPeople[p]
<1>1. x \in People /\ Polled(x) /\ ~Counted(x) /\ ~Offering(x) /\ ~Waiting(x)
  <2>1. x \in People /\ Polled(x)
    BY DEF IInv, TypeOK, Placed, CountDown, Polled
  <2> QED
    BY <2>1 DEF IInv, NobodyLostOrDoubled, InOnePlace
<1>2. /\ counted' = counted \cup {x}
      /\ counted' \subseteq People
  BY <1>1 DEF IInv, TypeOK, CountDown
<1>3. /\ Cardinality(counted') = Cardinality(counted) + 1
      /\ Cardinality(counted') \in Nat
      /\ Cardinality(counted) \in Nat
      /\ Cardinality(counted') <= MaxCount
  <2>1. IsFiniteSet(People) /\ Cardinality(People) = MaxCount
    BY PeopleAreFinite
  <2>2. counted \subseteq People /\ x \notin counted
    BY <1>1 DEF IInv, TypeOK, Counted
  <2>3. IsFiniteSet(counted) /\ Cardinality(counted) \in Nat
    BY <2>1, <2>2, FS_Subset, FS_CardinalityType
  <2>4. Cardinality(counted') = Cardinality(counted) + 1
    BY <1>2, <2>2, <2>3, FS_AddElement
  <2>5. Cardinality(counted') <= MaxCount
    BY <1>2, <2>1, FS_Subset
  <2> QED
    BY <2>3, <2>4, <2>5
<1>4. /\ latch' = latch - 1
      /\ latch' \in 0 .. MaxCount
      /\ LatchCounts'
  BY <1>3, MaxAssumption DEF IInv, TypeOK, LatchCounts, CountDown
<1>5. TypeOK'
  BY <1>2, <1>4 DEF IInv, TypeOK, CountDown
<1>6. Placed'
  BY DEF IInv, TypeOK, Placed, CountDown
<1>7. \A q \in People : Polled(q)' <=> Polled(q) /\ q # x
  BY <1>1 DEF IInv, TypeOK, NobodyLostOrDoubled, CountDown, Polled, People
<1>8. \A q : /\ Waiting(q)' <=> Waiting(q)
             /\ Offering(q)' <=> Offering(q)
             /\ Counted(q)' <=> Counted(q) \/ q = x
  BY <1>2 DEF CountDown, Waiting, Offering, Counted
<1>9. \A q \in People : (q <= count <=> Somewhere(q)) /\ InOnePlace(q)
  BY DEF IInv, NobodyLostOrDoubled
<1>10. \A q \in People : (q <= count' <=> Somewhere(q)') /\ InOnePlace(q)'
  <2>1. count' = count
    BY DEF CountDown
  <2> HIDE DEF x
  <2> QED
    BY <1>1, <1>7, <1>8, <1>9, <2>1 DEF Somewhere, InOnePlace
<1>11. NobodyLostOrDoubled'
  BY <1>10 DEF IInv, TypeOK, NobodyLostOrDoubled, CountDown
<1> QED
  BY <1>4, <1>5, <1>6, <1>11 DEF IInv

\* Looking at the stop flag, an empty queue and sleeping move no person.
LEMMA LoopKeeps ==
  ASSUME IInv, NEW p \in Pollers, CheckStop(p) \/ PollNothing(p) \/ Wake(p)
  PROVE  IInv'
<1>1. TypeOK' /\ Placed'
  BY DEF IInv, TypeOK, Placed, CheckStop, PollNothing, Wake
<1>2. NobodyLostOrDoubled' /\ LatchCounts'
  BY DEF IInv, NobodyLostOrDoubled, LatchCounts, Somewhere, InOnePlace, Offering,
         Waiting, Polled, Counted, CheckStop, PollNothing, Wake
<1> QED
  BY <1>1, <1>2 DEF IInv

\* main() stops a poller: the latch is at zero.
LEMMA SetStopKeeps ==
  ASSUME IInv, SetStop
  PROVE  IInv'
<1>1. TypeOK' /\ Placed'
  BY NumAssumption DEF IInv, TypeOK, Placed, SetStop
<1>2. NobodyLostOrDoubled' /\ LatchCounts'
  BY DEF IInv, NobodyLostOrDoubled, LatchCounts, Somewhere, InOnePlace, Offering,
         Waiting, Polled, Counted, SetStop
<1> QED
  BY <1>1, <1>2 DEF IInv

\* Every step keeps the invariant.
LEMMA StepIInv == IInv /\ [Next]_vars => IInv'
<1> SUFFICES ASSUME IInv, [Next]_vars PROVE IInv'
  OBVIOUS
<1>1. CASE UNCHANGED vars
  <2>1. TypeOK' /\ Placed'
    BY <1>1 DEF vars, IInv, TypeOK, Placed
  <2>2. NobodyLostOrDoubled' /\ LatchCounts'
    BY <1>1 DEF vars, IInv, NobodyLostOrDoubled, LatchCounts, Somewhere, InOnePlace,
                Offering, Waiting, Polled, Counted
  <2> QED
    BY <2>1, <2>2 DEF IInv
<1>2. CASE Next
  BY <1>2, IncrementKeeps, OfferKeeps, PollKeeps, CountDownKeeps, LoopKeeps,
     SetStopKeeps DEF Next, OffererStep, PollerStep
<1> QED
  BY <1>1, <1>2

-----------------------------------------------------------------------------
(* The theorems. *)

\* The inductive invariant of the hand-off.
THEOREM Invariance == Spec => []IInv
<1>1. IInv /\ [Next]_vars => IInv'
  BY StepIInv
<1> QED
  BY InitIInv, <1>1, PTL DEF Spec

\* The queue holds people, and the latch is counted down from its start to 0.
THEOREM TypeCorrect == Spec => []TypeOK
<1>1. IInv => TypeOK
  BY DEF IInv
<1> QED
  BY <1>1, Invariance, PTL

\* Nobody is lost and nobody is taken twice (NobodyLostOrDoubled).
THEOREM EverybodyOnce == Spec => []NobodyLostOrDoubled
<1>1. IInv => NobodyLostOrDoubled
  BY DEF IInv
<1> QED
  BY Invariance, <1>1, PTL

\* The pollers are stopped only when everybody was counted (StopComesLast).
THEOREM StopIsLast == Spec => []StopComesLast
<1>1. IInv => StopComesLast
  <2> SUFFICES ASSUME IInv, stopped > 0 PROVE counted = People /\ people = <<>>
    BY DEF StopComesLast
  <2>1. Cardinality(counted) = MaxCount
    <3>1. counted \subseteq People
      BY DEF IInv, TypeOK
    <3>2. Cardinality(counted) \in Nat
      BY <3>1, PeopleAreFinite, FS_Subset, FS_CardinalityType
    <3> QED
      BY <3>2, MaxAssumption DEF IInv, LatchCounts
  <2>2. counted = People
    BY <2>1, PeopleAreFinite, FS_Subset DEF IInv, TypeOK
  <2>3. ASSUME people # <<>> PROVE FALSE
    <3>1. people \in Seq(People) /\ Len(people) # 0
      BY <2>3, EmptySeq DEF IInv, TypeOK
    <3>2. people[1] \in People /\ Waiting(people[1])
      BY <3>1 DEF Waiting, InSeq
    <3> QED
      BY <2>2, <3>2 DEF IInv, NobodyLostOrDoubled, InOnePlace, Counted
  <2> QED
    BY <2>2, <2>3
<1> QED
  BY Invariance, <1>1, PTL
==============================================================================
