---------------------- MODULE LockBlockingQueueProofs ----------------------
(* What LockBlockingQueue guarantees for any number of threads, any capacity *)
(* and any number of offers.                                                 *)
EXTENDS LockBlockingQueue, FiniteSetTheorems, SequenceTheorems, TLAPS

\* Where a thread may be.
PCs == {"idle", "asleep", "awake"}

-----------------------------------------------------------------------------
(* Who is asleep and who is woken, before and after a thread moves. *)

LEMMA WokenFinite ==
    ASSUME NEW S, IsFiniteSet(S), NEW f
    PROVE  IsFiniteSet(Woken(f, S)) /\ Cardinality(Woken(f, S)) \in Nat
BY FS_Subset, FS_CardinalityType DEF Woken

\* A thread that leaves the monitor: at most one woken thread less, no new sleeper.
LEMMA GoesIdle ==
    ASSUME NEW f \in [Threads -> PCs], NEW t \in Threads,
           NEW S \in SUBSET Threads, IsFiniteSet(S),
           NEW g, g = [f EXCEPT ![t] = "idle"]
    PROVE  /\ Sleepers(g, S) \subseteq Sleepers(f, S)
           /\ Cardinality(Woken(g, S)) >= Cardinality(Woken(f, S)) - 1
           /\ t \notin S => Woken(g, S) = Woken(f, S)
<1>1. Sleepers(g, S) \subseteq Sleepers(f, S)
  BY DEF Sleepers, PCs
<1>2. t \notin S => Woken(g, S) = Woken(f, S)
  BY DEF Woken, PCs
<1>3. Woken(g, S) = Woken(f, S) \ {t}
  BY DEF Woken, PCs
<1>4. IsFiniteSet(Woken(f, S)) /\ Cardinality(Woken(f, S)) \in Nat
  BY WokenFinite
<1>5. Cardinality(Woken(f, S) \ {t}) =
        IF t \in Woken(f, S) THEN Cardinality(Woken(f, S)) - 1 ELSE Cardinality(Woken(f, S))
  BY <1>4, FS_RemoveElement
<1>6. Cardinality(Woken(g, S)) = Cardinality(Woken(f, S) \ {t})
  BY <1>3, Zenon
<1>7. Cardinality(Woken(g, S)) >= Cardinality(Woken(f, S)) - 1
  BY <1>4, <1>5, <1>6
<1> QED
  BY <1>1, <1>2, <1>7

\* A sleeper that is woken: exactly one woken thread more in its role.
LEMMA WakesUp ==
    ASSUME NEW f \in [Threads -> PCs], NEW S \in SUBSET Threads, IsFiniteSet(S),
           NEW t, t \in Sleepers(f, S),
           NEW g, g = [f EXCEPT ![t] = "awake"]
    PROVE  Cardinality(Woken(g, S)) = Cardinality(Woken(f, S)) + 1
<1>1. t \in Threads /\ t \in S /\ f[t] = "asleep"
  BY DEF Sleepers
<1>2. Woken(g, S) = Woken(f, S) \cup {t} /\ t \notin Woken(f, S)
  BY <1>1 DEF Woken, PCs
<1>3. IsFiniteSet(Woken(f, S)) /\ Cardinality(Woken(f, S)) \in Nat
  BY WokenFinite
<1> QED
  BY <1>2, <1>3, FS_AddElement

\* What one operation that succeeds does to the two roles: it leaves the monitor
\* and notifies the other role.
LEMMA LeaveAndNotify ==
    ASSUME NEW f \in [Threads -> PCs], NEW Own \in SUBSET Threads, NEW Other \in SUBSET Threads,
           IsFiniteSet(Own), IsFiniteSet(Other), Own \cap Other = {},
           NEW t \in Own, NEW g \in NotifyOne([f EXCEPT ![t] = "idle"], Other)
    PROVE  /\ g \in [Threads -> PCs]
           /\ Sleepers(g, Own) \subseteq Sleepers(f, Own)
           /\ Cardinality(Woken(g, Own)) >= Cardinality(Woken(f, Own)) - 1
           /\ Sleepers(g, Other) # {} =>
                 /\ Sleepers(f, Other) # {}
                 /\ Cardinality(Woken(g, Other)) = Cardinality(Woken(f, Other)) + 1
<1>0. PICK h : h = [f EXCEPT ![t] = "idle"]
  OBVIOUS
<1>1. h \in [Threads -> PCs] /\ g \in NotifyOne(h, Other)
  BY <1>0 DEF PCs
<1>2. /\ Sleepers(h, Own) \subseteq Sleepers(f, Own)
      /\ Cardinality(Woken(h, Own)) >= Cardinality(Woken(f, Own)) - 1
  BY <1>0, GoesIdle
<1>3. Sleepers(h, Other) = Sleepers(f, Other) /\ Woken(h, Other) = Woken(f, Other)
  BY <1>0 DEF Sleepers, Woken, PCs
<1>4. CASE Sleepers(h, Other) = {}
  <2>1. g = h
    BY <1>1, <1>4 DEF NotifyOne
  <2> QED
    BY <2>1, <1>1, <1>2, <1>4
<1>5. CASE Sleepers(h, Other) # {}
  <2>1. PICK u \in Sleepers(h, Other) : g = [h EXCEPT ![u] = "awake"]
    BY <1>1, <1>5 DEF NotifyOne
  <2>2. u \notin Own /\ u \in Threads
    BY DEF Sleepers
  <2>3. Cardinality(Woken(g, Other)) = Cardinality(Woken(h, Other)) + 1
    BY <1>1, <2>1, WakesUp
  <2>4. Woken(g, Own) = Woken(h, Own) /\ Sleepers(g, Own) = Sleepers(h, Own)
    BY <1>1, <2>1, <2>2 DEF Woken, Sleepers, PCs
  <2>5. g \in [Threads -> PCs]
    BY <1>1, <2>1, <2>2 DEF PCs
  <2> QED
    BY <2>3, <2>4, <2>5, <1>2, <1>3, <1>5
<1> QED
  BY <1>4, <1>5

-----------------------------------------------------------------------------
(* The inductive invariant is the conjunction of what TLC checks. *)

IInv == TypeOK /\ Capacity /\ FifoOrder /\ NoLostWakeup

\* The invariant holds at the start.
LEMMA InitIInv == Init => IInv
<1> SUFFICES ASSUME Init PROVE IInv
  OBVIOUS
<1>1. TypeOK
  BY SizeAssumption DEF Init, TypeOK
<1>2. Capacity /\ FifoOrder
  BY SizeAssumption DEF Init, Capacity, FifoOrder
<1>3. NoLostWakeup
  BY DEF Init, NoLostWakeup, Sleepers, Threads
<1> QED
  BY <1>1, <1>2, <1>3 DEF IInv

\* The two kinds of threads are finite sets and have no thread in common.
LEMMA RolesFinite ==
    /\ Producers \in SUBSET Threads /\ Consumers \in SUBSET Threads
    /\ IsFiniteSet(Producers) /\ IsFiniteSet(Consumers)
    /\ Producers \cap Consumers = {} /\ Consumers \cap Producers = {}
BY ThreadsAssumption DEF Threads

\* Moving the end of the queue, and moving its head to the end of another sequence.
LEMMA AppendToConcat ==
    ASSUME NEW S, NEW s \in Seq(S), NEW t \in Seq(S), NEW e \in S
    PROVE  Append(s \o t, e) = s \o Append(t, e)
<1>1. s \o t \in Seq(S) /\ <<e>> \in Seq(S)
  BY ConcatProperties
<1>2. Append(s \o t, e) = (s \o t) \o <<e>>
  BY <1>1, AppendIsConcat
<1>3. Append(t, e) = t \o <<e>>
  BY AppendIsConcat
<1> QED
  BY <1>1, <1>2, <1>3, ConcatAssociative

\* Moving the head of a queue to the end of another leaves their concatenation as it is.
LEMMA MoveHead ==
    ASSUME NEW S, NEW s \in Seq(S), NEW t \in Seq(S), t # <<>>
    PROVE  Append(s, Head(t)) \o Tail(t) = s \o t
<1>1. Head(t) \in S /\ Tail(t) \in Seq(S) /\ Len(Tail(t)) = Len(t) - 1
  BY HeadTailProperties
<1>2. Len(s) \in Nat /\ Len(t) \in Nat /\ Len(t) > 0
  BY EmptySeq, LenProperties
<1>3. /\ Append(s, Head(t)) \in Seq(S)
      /\ Len(Append(s, Head(t))) = Len(s) + 1
  BY <1>1, AppendProperties
<1>4. /\ Append(s, Head(t)) \o Tail(t) \in Seq(S)
      /\ s \o t \in Seq(S)
      /\ Len(Append(s, Head(t)) \o Tail(t)) = Len(s) + Len(t)
      /\ Len(s \o t) = Len(s) + Len(t)
  BY <1>1, <1>2, <1>3, ConcatProperties
<1>5. ASSUME NEW i \in 1 .. Len(s) + Len(t)
      PROVE  (Append(s, Head(t)) \o Tail(t))[i] = (s \o t)[i]
  BY <1>1, <1>2, <1>3
<1> QED
  BY <1>4, <1>5, SeqEqual

\* The invariant survives an offer.
LEMMA OfferPreserves ==
    ASSUME IInv, NEW p \in Producers, Offer(p)
    PROVE  IInv'
<1> USE DEF IInv
<1>1. pc \in [Threads -> PCs] /\ offered[p] + 1 \in 1 .. MaxOffers
  BY SizeAssumption DEF TypeOK, PCs, Offer
<1>2. pc' \in NotifyOne([pc EXCEPT ![p] = "idle"], Consumers)
  BY DEF Offer
<1>3. /\ pc' \in [Threads -> PCs]
      /\ Sleepers(pc', Producers) \subseteq Sleepers(pc, Producers)
      /\ Cardinality(Woken(pc', Producers)) >= Cardinality(Woken(pc, Producers)) - 1
      /\ Sleepers(pc', Consumers) # {} =>
            /\ Sleepers(pc, Consumers) # {}
            /\ Cardinality(Woken(pc', Consumers)) = Cardinality(Woken(pc, Consumers)) + 1
  BY <1>1, <1>2, RolesFinite, LeaveAndNotify
<1>4. Item(p, offered[p] + 1) \in Items
  BY <1>1 DEF Item, Items
<1>5. Len(queue) \in Nat /\ Len(queue') = Len(queue) + 1 /\ Len(queue) < MaxSize
  BY <1>4, LenProperties, AppendProperties DEF Offer, TypeOK
<1>6. TypeOK'
  BY <1>1, <1>3, <1>4 DEF Offer, TypeOK, PCs
<1>7. Capacity'
  BY <1>5, SizeAssumption DEF Capacity
<1>8. FifoOrder'
  <2> DEFINE S == Items
  <2>1. PICK e \in S : /\ put' = Append(put, e)
                           /\ queue' = Append(queue, e)
                           /\ taken' = taken
    BY <1>4 DEF Offer
  <2>2. taken \in Seq(S) /\ queue \in Seq(S) /\ put = taken \o queue
    BY DEF TypeOK, FifoOrder
  <2>3. Append(taken \o queue, e) = taken \o Append(queue, e)
    <3> HIDE DEF S
    <3> QED
      BY <2>2, AppendToConcat
  <2> QED
    BY <2>1, <2>2, <2>3 DEF FifoOrder
<1>9. NoLostWakeup'
  <2>1. /\ Cardinality(Woken(pc, Producers)) \in Nat
        /\ Cardinality(Woken(pc, Consumers)) \in Nat
        /\ Cardinality(Woken(pc', Producers)) \in Nat
    BY RolesFinite, WokenFinite
  <2> QED
    BY <2>1, <1>3, <1>5, SizeAssumption DEF NoLostWakeup
<1> QED
  BY <1>6, <1>7, <1>8, <1>9

\* The invariant survives a poll.
LEMMA PollPreserves ==
    ASSUME IInv, NEW c \in Consumers, Poll(c)
    PROVE  IInv'
<1> USE DEF IInv
<1>1. pc \in [Threads -> PCs]
  BY DEF TypeOK, PCs
<1>2. pc' \in NotifyOne([pc EXCEPT ![c] = "idle"], Producers)
  BY DEF Poll
<1>3. /\ pc' \in [Threads -> PCs]
      /\ Sleepers(pc', Consumers) \subseteq Sleepers(pc, Consumers)
      /\ Cardinality(Woken(pc', Consumers)) >= Cardinality(Woken(pc, Consumers)) - 1
      /\ Sleepers(pc', Producers) # {} =>
            /\ Sleepers(pc, Producers) # {}
            /\ Cardinality(Woken(pc', Producers)) = Cardinality(Woken(pc, Producers)) + 1
  BY <1>1, <1>2, RolesFinite, LeaveAndNotify
<1>4. /\ Head(queue) \in Items /\ Tail(queue) \in Seq(Items)
      /\ Len(queue) \in Nat /\ Len(queue') = Len(queue) - 1
  BY HeadTailProperties, LenProperties DEF Poll, TypeOK
<1>5. TypeOK'
  BY <1>3, <1>4 DEF Poll, TypeOK, PCs
<1>6. Capacity'
  BY <1>4, SizeAssumption DEF Capacity
<1>7. FifoOrder'
  BY MoveHead DEF Poll, TypeOK, FifoOrder
<1>8. NoLostWakeup'
  <2>1. /\ Cardinality(Woken(pc, Producers)) \in Nat
        /\ Cardinality(Woken(pc, Consumers)) \in Nat
        /\ Cardinality(Woken(pc', Consumers)) \in Nat
    BY RolesFinite, WokenFinite
  <2> QED
    BY <2>1, <1>3, <1>4, SizeAssumption DEF NoLostWakeup
<1> QED
  BY <1>5, <1>6, <1>7, <1>8

\* A thread that goes to sleep does so because its role has nothing to do.
LEMMA WaitsPreserves ==
    ASSUME IInv, NEW t \in Threads,
           \/ t \in Producers /\ OfferWaits(t)
           \/ t \in Consumers /\ PollWaits(t)
    PROVE  IInv'
<1> USE DEF IInv
<1>1. /\ pc \in [Threads -> PCs] /\ pc' = [pc EXCEPT ![t] = "asleep"]
      /\ UNCHANGED <<queue, offered, put, taken>>
  BY DEF OfferWaits, PollWaits, TypeOK, PCs
<1>2. TypeOK' /\ Capacity' /\ FifoOrder'
  BY <1>1 DEF TypeOK, Capacity, FifoOrder, PCs
<1>3. Len(queue) \in Nat /\ Len(queue') = Len(queue) /\ MaxSize \in Nat
  BY <1>1, SizeAssumption DEF TypeOK
<1>4. NoLostWakeup'
  <2>1. /\ Cardinality(Woken(pc', Producers)) \in Nat
        /\ Cardinality(Woken(pc', Consumers)) \in Nat
    BY RolesFinite, WokenFinite
  <2>2. CASE t \in Producers /\ OfferWaits(t)
    <3>1. Len(queue) = MaxSize /\ MaxSize \in Nat
      BY <2>2, SizeAssumption DEF OfferWaits, Capacity, TypeOK
    <3>2. Sleepers(pc', Consumers) = Sleepers(pc, Consumers) /\ Woken(pc', Consumers) = Woken(pc, Consumers)
      BY <1>1, <2>2, RolesFinite DEF Sleepers, Woken, PCs
    <3>3. Cardinality(Woken(pc', Consumers)) = Cardinality(Woken(pc, Consumers))
      BY <3>2, Zenon
    <3> QED
      BY <2>1, <3>1, <3>2, <3>3, <1>3 DEF NoLostWakeup
  <2>3. CASE t \in Consumers /\ PollWaits(t)
    <3>1. Len(queue) = 0
      BY <2>3 DEF PollWaits
    <3>2. Sleepers(pc', Producers) = Sleepers(pc, Producers) /\ Woken(pc', Producers) = Woken(pc, Producers)
      BY <1>1, <2>3, RolesFinite DEF Sleepers, Woken, PCs
    <3>3. Cardinality(Woken(pc', Producers)) = Cardinality(Woken(pc, Producers))
      BY <3>2, Zenon
    <3> QED
      BY <2>1, <3>1, <3>2, <3>3, <1>3 DEF NoLostWakeup
  <2> QED
    BY <2>2, <2>3
<1> QED
  BY <1>2, <1>4

\* The invariant survives a spurious wakeup.
LEMMA SpuriousPreserves ==
    ASSUME IInv, NEW t \in Threads, SpuriousWakeup(t)
    PROVE  IInv'
<1> USE DEF IInv
<1>1. /\ pc \in [Threads -> PCs] /\ pc' = [pc EXCEPT ![t] = "awake"]
      /\ UNCHANGED <<queue, offered, put, taken>> /\ pc[t] = "asleep"
  BY DEF SpuriousWakeup, TypeOK, PCs
<1>2. TypeOK' /\ Capacity' /\ FifoOrder'
  BY <1>1 DEF TypeOK, Capacity, FifoOrder, PCs
<1>3. ASSUME NEW S \in SUBSET Threads, IsFiniteSet(S)
      PROVE  /\ Sleepers(pc', S) \subseteq Sleepers(pc, S)
             /\ Cardinality(Woken(pc', S)) >= Cardinality(Woken(pc, S))
             /\ Cardinality(Woken(pc, S)) \in Nat /\ Cardinality(Woken(pc', S)) \in Nat
  <2>1. Sleepers(pc', S) \subseteq Sleepers(pc, S) /\ Woken(pc, S) \subseteq Woken(pc', S)
    BY <1>1 DEF Sleepers, Woken, PCs
  <2>2. IsFiniteSet(Woken(pc', S))
    BY <1>3, WokenFinite
  <2>3. Cardinality(Woken(pc, S)) =< Cardinality(Woken(pc', S))
    BY <2>1, <2>2, FS_Subset
  <2>4. Cardinality(Woken(pc, S)) \in Nat /\ Cardinality(Woken(pc', S)) \in Nat
    BY <1>3, WokenFinite
  <2> QED
    BY <2>1, <2>3, <2>4
<1>4. NoLostWakeup'
  <2>1. Len(queue) \in Nat /\ Len(queue') = Len(queue) /\ MaxSize \in Nat
    BY <1>1, SizeAssumption DEF TypeOK
  <2>2. /\ Sleepers(pc', Producers) \subseteq Sleepers(pc, Producers)
        /\ Cardinality(Woken(pc', Producers)) >= Cardinality(Woken(pc, Producers))
        /\ Cardinality(Woken(pc, Producers)) \in Nat /\ Cardinality(Woken(pc', Producers)) \in Nat
    BY <1>3, RolesFinite
  <2>3. /\ Sleepers(pc', Consumers) \subseteq Sleepers(pc, Consumers)
        /\ Cardinality(Woken(pc', Consumers)) >= Cardinality(Woken(pc, Consumers))
        /\ Cardinality(Woken(pc, Consumers)) \in Nat /\ Cardinality(Woken(pc', Consumers)) \in Nat
    BY <1>3, RolesFinite
  <2> QED
    BY <2>1, <2>2, <2>3 DEF NoLostWakeup
<1> QED
  BY <1>2, <1>4

\* The invariant survives a step that changes nothing.
LEMMA StutterPreserves == IInv /\ UNCHANGED vars => IInv'
BY DEF IInv, vars, TypeOK, Capacity, FifoOrder, NoLostWakeup, Sleepers, Woken

(* Every behaviour of the queue satisfies the whole invariant. *)
THEOREM Invariance == Spec => []IInv
<1>1. IInv /\ [Next]_vars => IInv'
  <2> SUFFICES ASSUME IInv, [Next]_vars PROVE IInv'
    OBVIOUS
  <2>1. CASE \E p \in Producers : ProducerStep(p)
    BY <2>1, OfferPreserves, WaitsPreserves DEF ProducerStep, Threads
  <2>2. CASE \E c \in Consumers : ConsumerStep(c)
    BY <2>2, PollPreserves, WaitsPreserves DEF ConsumerStep, Threads
  <2>3. CASE \E t \in Threads : SpuriousWakeup(t)
    BY <2>3, SpuriousPreserves
  <2>4. CASE UNCHANGED vars
    BY <2>4, StutterPreserves
  <2> QED
    BY <2>1, <2>2, <2>3, <2>4 DEF Next
<1> QED
  BY InitIInv, <1>1, PTL DEF Spec

(* The queue, the histories and the program counters keep their types. *)
THEOREM TypesHold == Spec => []TypeOK
<1>1. IInv => TypeOK
  BY DEF IInv
<1> QED
  BY Invariance, <1>1, PTL

(* LockBlockingQueue.h:26-28: the queue never outgrows max_bmts. *)
THEOREM CapacityHolds == Spec => []Capacity
<1>1. IInv => Capacity
  BY DEF IInv
<1> QED
  BY Invariance, <1>1, PTL

(* LockBlockingQueue.h:24-39: offers come out once each, in order. *)
THEOREM FifoOrderHolds == Spec => []FifoOrder
<1>1. IInv => FifoOrder
  BY DEF IInv
<1> QED
  BY Invariance, <1>1, PTL

(* LockBlockingQueue.h:29 and 37: one notify_one() per operation is enough, for  *)
(* any number of producers and consumers.                                        *)
THEOREM NoLostWakeupHolds == Spec => []NoLostWakeup
<1>1. IInv => NoLostWakeup
  BY DEF IInv
<1> QED
  BY Invariance, <1>1, PTL

=============================================================================
