--------------------------- MODULE BmtPoolProofs ---------------------------
(* Proofs about BmtPool, for every number and size of queues, every batch     *)
(* size, every reuse limit and every program of operators.                    *)
(*                                                                            *)
(* What a server uses next depends only on the state of its poller: Successor *)
(* is that function.  Both servers start from the same state, so whichever of *)
(* them runs ahead, the other retraces its steps.                             *)
EXTENDS BmtPool, FiniteSetTheorems, TLAPS

\* The poller after one more use, given the poller before.
Successor(e) ==
    IF e.triple # NoTriple /\ e.left # 0
    THEN [triple |-> e.triple, left |-> e.left - 1, next |-> e.next, taken |-> e.taken]
    ELSE [triple |-> <<e.next, e.taken[e.next] + 1>>, left |-> UsageLimit - 1,
          next |-> (e.next + 1) % QueueNum, taken |-> [e.taken EXCEPT ![e.next] = @ + 1]]

\* A generator offers while triples of its batch are left.
OffersLast == \A s \in Servers : \A i \in Queues : gen[s][i] = "offer" => left[s][i] > 0

\* A queue holds the triples after those taken, in the order of generation.
QueueOrder ==
    \A s \in Servers : \A i \in Queues :
        /\ offered[s][i] = taken[s][i] + Len(queue[s][i])
        /\ \A j \in 1 .. Len(queue[s][i]) : queue[s][i][j] = <<i, taken[s][i] + j>>

\* The trace ends in the present state, and follows Successor up to it.
TraceOf(s) ==
    /\ Len(trace[s]) > 0
    /\ trace[s][Len(trace[s])] = PollState(s)
    /\ \A n \in 1 .. Len(trace[s]) : n + 1 =< Len(trace[s]) =>
            trace[s][n + 1] = Successor(trace[s][n])

\* The shorter trace is the beginning of the longer one.
Agreement ==
    \A n \in 1 .. Len(trace[0]) : n =< Len(trace[1]) => trace[0][n] = trace[1][n]

IInv ==
    /\ TypeOK
    /\ OffersLast
    /\ QueueOrder
    /\ \A s \in Servers : TraceOf(s)
    /\ Agreement

\* Before its first use a poller has no triple.  Every later entry of its trace
\* has one, which its queue had given out by then, and was not its last use.
EntriesReal(s) ==
    /\ trace[s][1].triple = NoTriple
    /\ \A n \in 2 .. Len(trace[s]) :
        /\ trace[s][n].triple \in Triples
        /\ trace[s][n].left < UsageLimit
        /\ trace[s][n].triple[2] =< trace[s][n].taken[trace[s][n].triple[1]]

\* A queue gives out more and more triples.
TakenGrows(s) ==
    \A n \in 1 .. Len(trace[s]) : \A m \in 1 .. n : \A i \in Queues :
        trace[s][m].taken[i] =< trace[s][n].taken[i]

\* Each further use of a triple finds fewer uses left of it.
UsesRunOut(s) ==
    \A n \in 2 .. Len(trace[s]) : \A m \in 2 .. n - 1 :
        trace[s][m].triple = trace[s][n].triple => trace[s][n].left < trace[s][m].left

UseInv == \A s \in Servers : EntriesReal(s) /\ TakenGrows(s) /\ UsesRunOut(s)

-----------------------------------------------------------------------------

\* The round robin of pollBitwiseBmts stays within the queues.
LEMMA NextInTurn ==
    ASSUME NEW i \in Queues
    PROVE  (i + 1) % QueueNum \in Queues
  BY BmtPoolAssumption DEF Queues

\* In the initial state everything holds, nothing having happened.
LEMMA InitHolds == Init => IInv
<1> SUFFICES ASSUME Init PROVE IInv
  OBVIOUS
<1>q. 0 \in Queues /\ UsageLimit \in 0 .. UsageLimit
  BY BmtPoolAssumption DEF Queues
<1>p. \A s \in Servers : PollState(s) \in PollStates
  BY <1>q DEF Init, PollState, PollStates
<1>1. TypeOK
  <2>1. queue \in [Servers -> [Queues -> Seq(Triples)]]
    BY DEF Init
  <2>2. trace \in [Servers -> Seq(PollStates)]
    BY <1>p DEF Init
  <2>3. QED
    BY <1>q, <2>1, <2>2, BmtPoolAssumption DEF Init, TypeOK
<1>2. OffersLast
  BY DEF Init, OffersLast
<1>3. QueueOrder
  BY DEF Init, QueueOrder
<1>4. \A s \in Servers : TraceOf(s)
  BY DEF Init, TraceOf
<1>5. Agreement
  <2>1. trace[0] = <<PollState(0)>> /\ trace[1] = <<PollState(1)>>
    BY DEF Init, Servers
  <2>2. PollState(0) = PollState(1)
    BY DEF Init, PollState, Servers
  <2>3. QED
    BY <2>1, <2>2 DEF Agreement
<1>6. QED
  BY <1>1, <1>2, <1>3, <1>4, <1>5 DEF IInv

-----------------------------------------------------------------------------
(* Types *)

\* A counter of messages in flight stays one when it goes up or, not being zero, down.
LEMMA CounterMoves ==
    ASSUME NEW S, NEW c \in [S -> Nat], NEW i \in S
    PROVE  /\ [c EXCEPT ![i] = @ + 1] \in [S -> Nat]
           /\ c[i] > 0 => [c EXCEPT ![i] = @ - 1] \in [S -> Nat]
<1>1. c[i] + 1 \in Nat /\ (c[i] > 0 => c[i] - 1 \in Nat)
  OBVIOUS
<1>2. QED
  BY <1>1

\* The generators, their messages and their counters keep their types.
LEMMA GenerateKeepsTypes ==
    ASSUME TypeOK, OffersLast, NEW i \in Queues, Generate(i)
    PROVE  TypeOK' /\ OffersLast'
<1>b. 0 \in Servers /\ 1 \in Servers /\ BatchSize \in 0 .. BatchSize /\ BatchSize > 0
  BY BmtPoolAssumption DEF Servers
<1>1. CASE SendMatrix0(i)
  <2>1. gen' \in [Servers -> [Queues -> {"start", "mix", "offer"}]]
    BY <1>1, <1>b DEF SendMatrix0, GoesOn, TypeOK
  <2>2. left' \in [Servers -> [Queues -> 0 .. BatchSize]]
    BY <1>1, <1>b DEF SendMatrix0, GoesOn, TypeOK
  <2>3. u0' \in [Queues -> Nat] /\ m0' \in [Queues -> Nat] /\ m1' \in [Queues -> Nat]
    <3>1. u0' \in [Queues -> Nat]
      BY <1>1, CounterMoves DEF SendMatrix0, TypeOK
    <3>2. m0' \in [Queues -> Nat]
      BY <1>1, CounterMoves DEF SendMatrix0, TypeOK
    <3>3. m1' \in [Queues -> Nat]
      BY <1>1, CounterMoves DEF SendMatrix0, TypeOK
    <3>4. QED
      BY <3>1, <3>2, <3>3
  <2>4. UNCHANGED <<offered, queue, pollVars, opVars>>
    BY <1>1 DEF SendMatrix0, GoesOn
  <2>5. TypeOK'
    BY <2>1, <2>2, <2>3, <2>4 DEF TypeOK, pollVars, opVars
  <2>6. OffersLast'
    <3> SUFFICES ASSUME NEW s \in Servers, NEW k \in Queues, gen'[s][k] = "offer"
                 PROVE  left'[s][k] > 0
      BY DEF OffersLast
    <3> QED
      BY <1>1, <1>b DEF SendMatrix0, GoesOn, TypeOK, OffersLast
  <2>7. QED
    BY <2>5, <2>6
<1>2. CASE AnswerAndSendMatrix1(i)
  <2>1. gen' \in [Servers -> [Queues -> {"start", "mix", "offer"}]]
    BY <1>2, <1>b DEF AnswerAndSendMatrix1, GoesOn, TypeOK
  <2>2. left' \in [Servers -> [Queues -> 0 .. BatchSize]]
    BY <1>2, <1>b DEF AnswerAndSendMatrix1, GoesOn, TypeOK
  <2>3. u0' \in [Queues -> Nat] /\ m0' \in [Queues -> Nat] /\ m1' \in [Queues -> Nat]
    <3>1. u0' \in [Queues -> Nat]
      BY <1>2, CounterMoves DEF AnswerAndSendMatrix1, TypeOK
    <3>2. m0' \in [Queues -> Nat]
      BY <1>2, CounterMoves DEF AnswerAndSendMatrix1, TypeOK
    <3>3. m1' \in [Queues -> Nat]
      BY <1>2, CounterMoves DEF AnswerAndSendMatrix1, TypeOK
    <3>4. QED
      BY <3>1, <3>2, <3>3
  <2>4. UNCHANGED <<offered, queue, pollVars, opVars>>
    BY <1>2 DEF AnswerAndSendMatrix1, GoesOn
  <2>5. TypeOK'
    BY <2>1, <2>2, <2>3, <2>4 DEF TypeOK, pollVars, opVars
  <2>6. OffersLast'
    <3> SUFFICES ASSUME NEW s \in Servers, NEW k \in Queues, gen'[s][k] = "offer"
                 PROVE  left'[s][k] > 0
      BY DEF OffersLast
    <3> QED
      BY <1>2, <1>b DEF AnswerAndSendMatrix1, GoesOn, TypeOK, OffersLast
  <2>7. QED
    BY <2>5, <2>6
<1>3. CASE Answer1(i)
  <2>1. gen' \in [Servers -> [Queues -> {"start", "mix", "offer"}]]
    BY <1>3, <1>b DEF Answer1, BatchReady, GoesOn, TypeOK
  <2>2. left' \in [Servers -> [Queues -> 0 .. BatchSize]]
    BY <1>3, <1>b DEF Answer1, BatchReady, GoesOn, TypeOK
  <2>3. u0' \in [Queues -> Nat] /\ m0' \in [Queues -> Nat] /\ m1' \in [Queues -> Nat]
    <3>1. u0' \in [Queues -> Nat]
      BY <1>3, CounterMoves DEF Answer1, TypeOK
    <3>2. m0' \in [Queues -> Nat]
      BY <1>3, CounterMoves DEF Answer1, TypeOK
    <3>3. m1' \in [Queues -> Nat]
      BY <1>3, CounterMoves DEF Answer1, TypeOK
    <3>4. QED
      BY <3>1, <3>2, <3>3
  <2>4. UNCHANGED <<offered, queue, pollVars, opVars>>
    BY <1>3 DEF Answer1, BatchReady, GoesOn
  <2>5. TypeOK'
    BY <2>1, <2>2, <2>3, <2>4 DEF TypeOK, pollVars, opVars
  <2>6. OffersLast'
    <3> SUFFICES ASSUME NEW s \in Servers, NEW k \in Queues, gen'[s][k] = "offer"
                 PROVE  left'[s][k] > 0
      BY DEF OffersLast
    <3> QED
      BY <1>3, <1>b DEF Answer1, BatchReady, GoesOn, TypeOK, OffersLast
  <2>7. QED
    BY <2>5, <2>6
<1>4. CASE Finish0(i)
  <2>1. gen' \in [Servers -> [Queues -> {"start", "mix", "offer"}]]
    BY <1>4, <1>b DEF Finish0, BatchReady, GoesOn, TypeOK
  <2>2. left' \in [Servers -> [Queues -> 0 .. BatchSize]]
    BY <1>4, <1>b DEF Finish0, BatchReady, GoesOn, TypeOK
  <2>3. u0' \in [Queues -> Nat] /\ m0' \in [Queues -> Nat] /\ m1' \in [Queues -> Nat]
    <3>1. u0' \in [Queues -> Nat]
      BY <1>4, CounterMoves DEF Finish0, TypeOK
    <3>2. m0' \in [Queues -> Nat]
      BY <1>4, CounterMoves DEF Finish0, TypeOK
    <3>3. m1' \in [Queues -> Nat]
      BY <1>4, CounterMoves DEF Finish0, TypeOK
    <3>4. QED
      BY <3>1, <3>2, <3>3
  <2>4. UNCHANGED <<offered, queue, pollVars, opVars>>
    BY <1>4 DEF Finish0, BatchReady, GoesOn
  <2>5. TypeOK'
    BY <2>1, <2>2, <2>3, <2>4 DEF TypeOK, pollVars, opVars
  <2>6. OffersLast'
    <3> SUFFICES ASSUME NEW s \in Servers, NEW k \in Queues, gen'[s][k] = "offer"
                 PROVE  left'[s][k] > 0
      BY DEF OffersLast
    <3> QED
      BY <1>4, <1>b DEF Finish0, BatchReady, GoesOn, TypeOK, OffersLast
  <2>7. QED
    BY <2>5, <2>6
<1>5. QED
  BY <1>1, <1>2, <1>3, <1>4 DEF Generate

\* So does a generator that offers a triple.
LEMMA OfferKeepsTypes ==
    ASSUME TypeOK, OffersLast, NEW s \in Servers, NEW i \in Queues, Offer(s, i)
    PROVE  TypeOK' /\ OffersLast'
<1>a. left[s][i] > 0 /\ left[s][i] \in 0 .. BatchSize /\ offered[s][i] \in Nat
  BY DEF TypeOK, OffersLast, Offer
<1>1. gen' \in [Servers -> [Queues -> {"start", "mix", "offer"}]]
  BY DEF Offer, GoesOn, TypeOK
<1>2. left' \in [Servers -> [Queues -> 0 .. BatchSize]]
  <2>1. left[s][i] - 1 \in 0 .. BatchSize
    BY <1>a, BmtPoolAssumption
  <2>2. QED
    BY <2>1 DEF Offer, TypeOK
<1>3. offered' \in [Servers -> [Queues -> Nat]]
  <2>1. offered[s][i] + 1 \in Nat
    BY <1>a
  <2>2. QED
    BY <2>1 DEF Offer, TypeOK
<1>4. queue' \in [Servers -> [Queues -> Seq(Triples)]]
  <2>1. <<i, offered[s][i] + 1>> \in Triples
    BY <1>a DEF Triples
  <2>2. queue[s][i] \in Seq(Triples)
    BY DEF TypeOK
  <2>3. Append(queue[s][i], <<i, offered[s][i] + 1>>) \in Seq(Triples)
    BY <2>1, <2>2
  <2>4. QED
    BY <2>3 DEF Offer, TypeOK
<1>5. UNCHANGED <<u0, m0, m1, pollVars, opVars>>
  BY DEF Offer
<1>6. TypeOK'
  BY <1>1, <1>2, <1>3, <1>4, <1>5 DEF TypeOK, pollVars, opVars
<1>7. OffersLast'
  <2> SUFFICES ASSUME NEW r \in Servers, NEW k \in Queues, gen'[r][k] = "offer"
               PROVE  left'[r][k] > 0
    BY DEF OffersLast
  <2>1. CASE r = s /\ k = i
    <3>1. left[s][i] # 1
      BY <2>1 DEF Offer, GoesOn, TypeOK
    <3>2. left'[r][k] = left[s][i] - 1
      BY <2>1 DEF Offer, TypeOK
    <3>3. QED
      BY <3>1, <3>2, <1>a, BmtPoolAssumption
  <2>2. CASE ~ (r = s /\ k = i)
    <3>1. gen[r][k] = "offer" /\ left'[r][k] = left[r][k]
      BY <2>2 DEF Offer, GoesOn, TypeOK
    <3>2. QED
      BY <3>1 DEF OffersLast
  <2>3. QED
    BY <2>1, <2>2
<1>8. QED
  BY <1>6, <1>7

\* What the poller goes through when it uses a triple is again a state of the poller.
LEMMA PollStateTyped ==
    ASSUME current \in [Servers -> Triples \cup {NoTriple}],
           leftTimes \in [Servers -> 0 .. UsageLimit],
           nextQueue \in [Servers -> Queues],
           taken \in [Servers -> [Queues -> Nat]],
           NEW s \in Servers
    PROVE  PollState(s) \in PollStates
  BY DEF PollState, PollStates

\* The main thread keeps its types while it collects triples ...
LEMMA PollKeepsTypes ==
    ASSUME TypeOK, NEW s \in Servers, UseAgain(s) \/ PollNext(s)
    PROVE  TypeOK'
<1>h. held' \in [Servers -> Nat]
  <2>1. held' = [held EXCEPT ![s] = @ + 1]
    BY DEF UseAgain, PollNext, UseCurrent
  <2>2. QED
    BY <2>1, CounterMoves DEF TypeOK
<1>1. CASE UseAgain(s)
  <2>1. leftTimes' \in [Servers -> 0 .. UsageLimit]
    <3>1. leftTimes[s] \in 0 .. UsageLimit /\ UsageLimit \in Int
      BY BmtPoolAssumption DEF TypeOK
    <3>2. leftTimes[s] # 0
      BY <1>1 DEF UseAgain, Exhausted
    <3>3. leftTimes[s] - 1 \in 0 .. UsageLimit
      BY <3>1, <3>2
    <3>4. QED
      BY <1>1, <3>3 DEF UseAgain, TypeOK
  <2>2. UNCHANGED <<genVars, queue, current, nextQueue, taken, opVars>>
    BY <1>1 DEF UseAgain
  <2>3. PollState(s)' \in PollStates
    BY <2>1, <2>2, PollStateTyped DEF TypeOK, PollState, PollStates
  <2>4. trace' \in [Servers -> Seq(PollStates)]
    BY <1>1, <2>3 DEF UseAgain, UseCurrent, TypeOK
  <2>5. QED
    BY <1>h, <2>1, <2>2, <2>4 DEF TypeOK, genVars, opVars
<1>2. CASE PollNext(s)
  <2> DEFINE i == nextQueue[s]
  <2>i. i \in Queues /\ queue[s][i] \in Seq(Triples) /\ queue[s][i] # <<>>
    BY <1>2 DEF TypeOK, PollNext
  <2>1. Head(queue[s][i]) \in Triples /\ Tail(queue[s][i]) \in Seq(Triples)
    BY <2>i
  <2>2. current' \in [Servers -> Triples \cup {NoTriple}]
    BY <1>2, <2>1 DEF PollNext, TypeOK
  <2>3. leftTimes' \in [Servers -> 0 .. UsageLimit]
    <3>1. UsageLimit - 1 \in 0 .. UsageLimit
      BY BmtPoolAssumption
    <3>2. QED
      BY <1>2, <3>1 DEF PollNext, TypeOK
  <2>4. nextQueue' \in [Servers -> Queues]
    BY <1>2, <2>i, NextInTurn DEF PollNext, TypeOK
  <2>5. queue' \in [Servers -> [Queues -> Seq(Triples)]]
    BY <1>2, <2>1, <2>i DEF PollNext, TypeOK
  <2>6. taken' \in [Servers -> [Queues -> Nat]]
    <3>1. taken[s] \in [Queues -> Nat]
      BY DEF TypeOK
    <3>2. taken' = [taken EXCEPT ![s] = [taken[s] EXCEPT ![i] = @ + 1]]
      BY <1>2 DEF PollNext, TypeOK
    <3>3. [taken[s] EXCEPT ![i] = @ + 1] \in [Queues -> Nat]
      BY <3>1, <2>i, CounterMoves
    <3>4. QED
      BY <3>2, <3>3 DEF TypeOK
  <2>7. UNCHANGED <<genVars, opVars>>
    BY <1>2 DEF PollNext
  <2>8. PollState(s)' \in PollStates
    BY <2>2, <2>3, <2>4, <2>6 DEF PollState, PollStates
  <2>9. trace' \in [Servers -> Seq(PollStates)]
    BY <1>2, <2>8 DEF PollNext, UseCurrent, TypeOK
  <2>10. QED
    BY <1>h, <2>2, <2>3, <2>4, <2>5, <2>6, <2>7, <2>9 DEF TypeOK, genVars, opVars
<1>3. QED
  BY <1>1, <1>2

\* ... and while it exchanges the masked operands.
LEMMA ExchangeKeepsTypes ==
    ASSUME TypeOK, NEW s \in Servers, SendMasked(s) \/ ReceiveMasked(s)
    PROVE  TypeOK'
<1>1. CASE SendMasked(s)
  <2>1. masked' \in [Servers -> Nat]
    <3>1. 1 - s \in Servers
      BY DEF Servers
    <3>2. masked' = [masked EXCEPT ![1 - s] = @ + 1]
      BY <1>1 DEF SendMasked
    <3>3. QED
      BY <3>1, <3>2, CounterMoves DEF TypeOK
  <2>2. held' \in [Servers -> Nat] /\ exchanging' \in [Servers -> BOOLEAN]
    BY <1>1 DEF SendMasked, TypeOK
  <2>3. QED
    BY <1>1, <2>1, <2>2 DEF SendMasked, TypeOK, genVars
<1>2. CASE ReceiveMasked(s)
  <2>1. masked' \in [Servers -> Nat]
    BY <1>2, CounterMoves DEF ReceiveMasked, TypeOK
  <2>2. op' \in [Servers -> Nat \ {0}] /\ exchanging' \in [Servers -> BOOLEAN]
    BY <1>2 DEF ReceiveMasked, TypeOK
  <2>3. QED
    BY <1>2, <2>1, <2>2 DEF ReceiveMasked, TypeOK, genVars, pollVars
<1>3. QED
  BY <1>1, <1>2

-----------------------------------------------------------------------------
(* Order *)

\* One use of a triple is one step of Successor, whichever way it comes about.
LEMMA UseFollowsSuccessor ==
    ASSUME TypeOK, QueueOrder, NEW s \in Servers, UseAgain(s) \/ PollNext(s)
    PROVE  PollState(s)' = Successor(PollState(s))
<1>1. CASE UseAgain(s)
  <2>1. current[s] # NoTriple /\ leftTimes[s] # 0
    BY <1>1 DEF UseAgain, Exhausted
  <2>2. /\ current'[s] = current[s] /\ leftTimes'[s] = leftTimes[s] - 1
        /\ nextQueue'[s] = nextQueue[s] /\ taken'[s] = taken[s]
    BY <1>1 DEF UseAgain, TypeOK
  <2>3. QED
    BY <2>1, <2>2 DEF PollState, Successor
<1>2. CASE PollNext(s)
  <2> DEFINE i == nextQueue[s]
  <2>i. i \in Queues /\ queue[s][i] \in Seq(Triples) /\ queue[s][i] # <<>>
    BY <1>2 DEF TypeOK, PollNext
  <2>1. current[s] = NoTriple \/ leftTimes[s] = 0
    BY <1>2 DEF PollNext, Exhausted
  <2>2. Head(queue[s][i]) = <<i, taken[s][i] + 1>>
    <3>1. 1 \in 1 .. Len(queue[s][i]) /\ Head(queue[s][i]) = queue[s][i][1]
      BY <2>i
    <3>2. QED
      BY <3>1, <2>i DEF QueueOrder
  <2>3. current'[s] = Head(queue[s][i])
    BY <1>2 DEF PollNext, TypeOK
  <2>4. leftTimes'[s] = UsageLimit - 1 /\ nextQueue'[s] = (i + 1) % QueueNum
    BY <1>2 DEF PollNext, TypeOK
  <2>5. taken'[s] = [taken[s] EXCEPT ![i] = @ + 1]
    BY <1>2 DEF PollNext, TypeOK
  <2>6. QED
    BY <2>1, <2>2, <2>3, <2>4, <2>5 DEF PollState, Successor
<1>3. QED
  BY <1>1, <1>2

\* A use extends the trace of its server by that step, and no other trace.
LEMMA UseExtendsTrace ==
    ASSUME TypeOK, NEW s \in Servers, UseAgain(s) \/ PollNext(s)
    PROVE  /\ trace'[s] = Append(trace[s], PollState(s)')
           /\ \A r \in Servers \ {s} : trace'[r] = trace[r] /\ PollState(r)' = PollState(r)
<1>1. trace' = [trace EXCEPT ![s] = Append(@, PollState(s)')]
  BY DEF UseAgain, PollNext, UseCurrent
<1>2. ASSUME NEW r \in Servers \ {s}
      PROVE  PollState(r)' = PollState(r)
  <2>1. CASE UseAgain(s)
    BY <2>1 DEF UseAgain, TypeOK, PollState
  <2>2. CASE PollNext(s)
    BY <2>2 DEF PollNext, TypeOK, PollState
  <2>3. QED
    BY <2>1, <2>2
<1>3. QED
  BY <1>1, <1>2 DEF TypeOK

\* The traces keep following Successor, and keep agreeing.
LEMMA UseKeepsTraces ==
    ASSUME IInv, NEW s \in Servers, UseAgain(s) \/ PollNext(s)
    PROVE  (\A r \in Servers : TraceOf(r)') /\ Agreement'
<1> DEFINE p == PollState(s)'
           t == trace[s]
           n == Len(trace[s])
<1>t. t \in Seq(PollStates) /\ n \in Nat /\ n > 0 /\ t[n] = PollState(s)
  BY DEF IInv, TypeOK, TraceOf
<1>p. p = Successor(t[n])
  BY <1>t, UseFollowsSuccessor DEF IInv
<1>e. trace'[s] = Append(t, p)
  BY UseExtendsTrace DEF IInv
<1>o. \A r \in Servers \ {s} : trace'[r] = trace[r] /\ PollState(r)' = PollState(r)
  BY UseExtendsTrace DEF IInv
<1>a. /\ Len(trace'[s]) = n + 1
      /\ trace'[s][n + 1] = p
      /\ \A k \in 1 .. n : trace'[s][k] = t[k]
  <2> HIDE DEF p
  <2> QED
    BY <1>e, <1>t
<1>1. ASSUME NEW r \in Servers
      PROVE  TraceOf(r)'
  <2>1. CASE r = s
    <3>1. \A k \in 1 .. n : k + 1 =< n => t[k + 1] = Successor(t[k])
      BY DEF IInv, TraceOf
    <3>2. ASSUME NEW k \in 1 .. n + 1, k + 1 =< n + 1
          PROVE  trace'[s][k + 1] = Successor(trace'[s][k])
      <4>1. k \in 1 .. n /\ trace'[s][k] = t[k]
        BY <3>2, <1>t, <1>a
      <4>2. CASE k = n
        BY <4>1, <4>2, <1>a, <1>p
      <4>3. CASE k # n
        <5>1. k + 1 \in 1 .. n /\ k + 1 =< n
          BY <4>1, <4>3, <1>t
        <5>2. QED
          BY <5>1, <4>1, <3>1, <1>a
      <4>4. QED
        BY <4>2, <4>3
    <3>3. Len(trace'[s]) > 0
      BY <1>a, <1>t
    <3>4. QED
      BY <2>1, <3>2, <3>3, <1>a DEF TraceOf
  <2>2. CASE r # s
    <3>1. trace'[r] = trace[r] /\ PollState(r)' = PollState(r)
      BY <2>2, <1>o
    <3>2. TraceOf(r)
      BY DEF IInv
    <3>3. QED
      BY <3>1, <3>2 DEF TraceOf
  <2>3. QED
    BY <2>1, <2>2
<1>2. Agreement'
  <2> DEFINE o == 1 - s
             v == trace[o]
  <2>o. o \in Servers /\ o # s /\ {0, 1} = {s, o}
    BY DEF Servers
  <2>v. v \in Seq(PollStates) /\ Len(v) \in Nat /\ trace'[o] = v /\ TraceOf(o)
    <3>1. trace'[o] = v
      BY <2>o, <1>o
    <3>2. v \in Seq(PollStates) /\ Len(v) \in Nat
      BY <2>o DEF IInv, TypeOK
    <3>3. TraceOf(o)
      BY <2>o DEF IInv
    <3>4. QED
      BY <3>1, <3>2, <3>3
  <2>g. \A k \in Nat \ {0} : k =< n /\ k =< Len(v) => t[k] = v[k]
    BY <2>o, <1>t, <2>v DEF IInv, Agreement, Servers
  <2>1. ASSUME NEW k \in Nat \ {0}, k =< n + 1, k =< Len(v)
        PROVE  trace'[s][k] = v[k]
    <3>1. CASE k =< n
      BY <3>1, <1>a, <1>t, <2>g, <2>1
    <3>2. CASE k = n + 1
      <4>1. t[n] = v[n]
        BY <2>g, <1>t, <2>v, <2>1, <3>2
      <4>2. v[n + 1] = Successor(v[n])
        BY <2>v, <1>t, <2>1, <3>2 DEF TraceOf
      <4>3. QED
        BY <4>1, <4>2, <1>a, <1>p, <3>2
    <3>3. QED
      BY <3>1, <3>2, <2>1, <1>t
  <2>2. QED
    BY <2>1, <2>o, <2>v, <1>a, <1>t DEF Agreement, Servers
<1>3. QED
  BY <1>1, <1>2

\* The triple that a generator offers is the one after those in its queue.
LEMMA OfferKeepsOrder ==
    ASSUME TypeOK, QueueOrder, NEW s \in Servers, NEW i \in Queues, Offer(s, i)
    PROVE  QueueOrder'
<1> DEFINE q == queue[s][i]
           e == <<i, offered[s][i] + 1>>
<1>q. q \in Seq(Triples) /\ Len(q) \in Nat /\ taken[s][i] \in Nat /\ offered[s][i] \in Nat
  BY DEF TypeOK
<1>o. offered[s][i] = taken[s][i] + Len(q)
  BY DEF QueueOrder
<1>t. taken' = taken
  BY DEF Offer, pollVars
<1>e. queue'[s][i] = Append(q, e) /\ offered'[s][i] = offered[s][i] + 1
  BY DEF Offer, TypeOK
<1>a. /\ Len(queue'[s][i]) = Len(q) + 1
      /\ queue'[s][i][Len(q) + 1] = e
      /\ \A j \in 1 .. Len(q) : queue'[s][i][j] = q[j]
  <2> HIDE DEF e
  <2> QED
    BY <1>e, <1>q
<1> SUFFICES ASSUME NEW r \in Servers, NEW k \in Queues
             PROVE  /\ offered'[r][k] = taken'[r][k] + Len(queue'[r][k])
                    /\ \A j \in 1 .. Len(queue'[r][k]) : queue'[r][k][j] = <<k, taken'[r][k] + j>>
  BY DEF QueueOrder
<1>1. CASE r = s /\ k = i
  <2>1. offered'[s][i] = taken'[s][i] + Len(queue'[s][i])
    BY <1>a, <1>e, <1>o, <1>q, <1>t
  <2>2. ASSUME NEW j \in 1 .. Len(q) + 1
        PROVE  queue'[s][i][j] = <<i, taken[s][i] + j>>
    <3>1. CASE j = Len(q) + 1
      <4>0. Len(q) \in Nat /\ taken[s][i] \in Nat
        BY <1>q
      <4>1. offered[s][i] + 1 = taken[s][i] + j
        BY <3>1, <4>0, <1>o
      <4>2. QED
        BY <3>1, <4>1, <1>a
    <3>2. CASE j # Len(q) + 1
      <4>1. j \in 1 .. Len(q)
        BY <3>2, <1>q
      <4>2. QED
        BY <4>1, <1>a DEF QueueOrder
    <3>3. QED
      BY <3>1, <3>2
  <2>3. QED
    BY <1>1, <2>1, <2>2, <1>a, <1>t
<1>2. CASE ~ (r = s /\ k = i)
  <2>1. queue'[r][k] = queue[r][k] /\ offered'[r][k] = offered[r][k]
    BY <1>2 DEF Offer, TypeOK
  <2>2. QED
    BY <2>1, <1>t DEF QueueOrder
<1>3. QED
  BY <1>1, <1>2

\* The triple that the poller takes is the first, and the rest move up.
LEMMA PollKeepsOrder ==
    ASSUME TypeOK, QueueOrder, NEW s \in Servers, PollNext(s)
    PROVE  QueueOrder'
<1> DEFINE i == nextQueue[s]
           q == queue[s][i]
<1>i. i \in Queues
  BY DEF TypeOK
<1>q. q \in Seq(Triples) /\ Len(q) \in Nat /\ q # <<>> /\ taken[s][i] \in Nat
  BY <1>i DEF TypeOK, PollNext
<1>a. /\ Len(Tail(q)) = Len(q) - 1
      /\ \A j \in 1 .. Len(q) - 1 : Tail(q)[j] = q[j + 1]
  BY <1>q
<1>o. offered' = offered
  BY DEF PollNext, genVars
<1>e. queue'[s][i] = Tail(q) /\ taken'[s][i] = taken[s][i] + 1
  BY <1>i DEF PollNext, TypeOK
<1> SUFFICES ASSUME NEW r \in Servers, NEW k \in Queues
             PROVE  /\ offered'[r][k] = taken'[r][k] + Len(queue'[r][k])
                    /\ \A j \in 1 .. Len(queue'[r][k]) : queue'[r][k][j] = <<k, taken'[r][k] + j>>
  BY DEF QueueOrder
<1>1. CASE r = s /\ k = i
  <2>1. offered[s][i] = taken[s][i] + Len(q)
    BY <1>i DEF QueueOrder
  <2>2. ASSUME NEW j \in 1 .. Len(q) - 1
        PROVE  Tail(q)[j] = <<i, taken[s][i] + 1 + j>>
    <3>0. Len(q) \in Nat /\ taken[s][i] \in Nat
      BY <1>q
    <3>1. j + 1 \in 1 .. Len(q) /\ taken[s][i] + (j + 1) = taken[s][i] + 1 + j
      BY <3>0
    <3>2. q[j + 1] = <<i, taken[s][i] + (j + 1)>>
      BY <3>1, <1>i DEF QueueOrder
    <3>3. QED
      BY <3>1, <3>2, <1>a
  <2>3. offered'[s][i] = taken'[s][i] + Len(queue'[s][i])
    <3>1. Len(queue'[s][i]) = Len(q) - 1
      BY <1>a, <1>e
    <3>2. taken'[s][i] = taken[s][i] + 1 /\ offered'[s][i] = taken[s][i] + Len(q)
      BY <2>1, <1>e, <1>o
    <3>3. taken[s][i] + Len(q) = (taken[s][i] + 1) + (Len(q) - 1)
      <4>1. \A m, n \in Nat : m + n = (m + 1) + (n - 1)
        OBVIOUS
      <4>2. taken[s][i] \in Nat /\ Len(q) \in Nat
        BY <1>q
      <4>3. QED
        BY <4>1, <4>2, Zenon
    <3>4. QED
      BY <3>1, <3>2, <3>3, Zenon
  <2>4. \A j \in 1 .. Len(queue'[s][i]) : queue'[s][i][j] = <<i, taken'[s][i] + j>>
    <3> HIDE DEF q, i
    <3> QED
      BY <2>2, <1>a, <1>e
  <2>5. QED
    BY <1>1, <2>3, <2>4
<1>2. CASE ~ (r = s /\ k = i)
  <2>1. queue'[r][k] = queue[r][k] /\ taken'[r][k] = taken[r][k]
    BY <1>2 DEF PollNext, TypeOK
  <2>2. QED
    BY <2>1, <1>o DEF QueueOrder
<1>3. QED
  BY <1>1, <1>2

-----------------------------------------------------------------------------
(* How often a triple is used *)

\* Steps that leave the traces alone keep what is said of them.
LEMMA OthersKeepUses == UseInv /\ UNCHANGED trace => UseInv'
  BY DEF UseInv, EntriesReal, TakenGrows, UsesRunOut

\* An entry of a trace has a state of the poller.
LEMMA EntriesTyped ==
    ASSUME TypeOK, NEW s \in Servers, NEW n \in 1 .. Len(trace[s])
    PROVE  /\ trace[s][n].triple \in Triples \cup {NoTriple}
           /\ trace[s][n].left \in 0 .. UsageLimit
           /\ trace[s][n].next \in Queues
           /\ trace[s][n].taken \in [Queues -> Nat]
<1>1. trace[s] \in Seq(PollStates)
  BY DEF TypeOK
<1>2. trace[s][n] \in PollStates
  BY <1>1
<1>3. QED
  BY <1>2 DEF PollStates

\* One more use keeps the accounts: the triple at hand has one use less, or the
\* next one is of a number that its queue had not given out.
LEMMA UseKeepsUses ==
    ASSUME IInv, UseInv, NEW s \in Servers, UseAgain(s) \/ PollNext(s)
    PROVE  UseInv'
<1> DEFINE t == trace[s]
           n == Len(trace[s])
           e == trace[s][Len(trace[s])]
           p == PollState(s)'
<1>t. t \in Seq(PollStates) /\ n \in Nat /\ n > 0 /\ e = PollState(s) /\ n \in 1 .. n
  BY DEF IInv, TypeOK, TraceOf
<1>p. p = Successor(e)
  BY <1>t, UseFollowsSuccessor DEF IInv
<1>a. /\ Len(trace'[s]) = n + 1
      /\ trace'[s][n + 1] = p
      /\ \A k \in 1 .. n : trace'[s][k] = t[k]
  <2>1. trace'[s] = Append(t, p)
    BY UseExtendsTrace DEF IInv
  <2> HIDE DEF p
  <2>2. QED
    BY <2>1, <1>t
<1>e. /\ e.triple \in Triples \cup {NoTriple} /\ e.left \in 0 .. UsageLimit
      /\ e.next \in Queues /\ e.taken \in [Queues -> Nat]
  BY <1>t, EntriesTyped DEF IInv
<1>u. /\ EntriesReal(s) /\ TakenGrows(s) /\ UsesRunOut(s)
      /\ UsageLimit \in Nat \ {0}
  BY BmtPoolAssumption DEF UseInv
<1> DEFINE again == e.triple # NoTriple /\ e.left # 0
<1>g. ASSUME again
      PROVE  /\ n >= 2 /\ p.triple = e.triple /\ p.left = e.left - 1 /\ p.taken = e.taken
  <2>1. n # 1
    BY <1>g, <1>u DEF EntriesReal
  <2>2. n >= 2
    <3>1. n \in Nat /\ n > 0
      BY <1>t
    <3> HIDE DEF n
    <3>2. QED
      BY <2>1, <3>1
  <2> HIDE DEF p, e
  <2>3. p.triple = e.triple /\ p.left = e.left - 1 /\ p.taken = e.taken
    BY <1>g, <1>p DEF Successor
  <2>4. QED
    BY <2>2, <2>3
<1>h. ASSUME ~ again
      PROVE  /\ p.triple = <<e.next, e.taken[e.next] + 1>> /\ p.left = UsageLimit - 1
             /\ p.taken = [e.taken EXCEPT ![e.next] = @ + 1]
  BY <1>h, <1>p DEF Successor
<1> HIDE DEF p, e, again
<1>k. p.taken \in [Queues -> Nat] /\ \A i \in Queues : e.taken[i] =< p.taken[i]
  <2>1. CASE again
    BY <2>1, <1>g, <1>e
  <2>2. CASE ~ again
    <3>1. p.taken = [e.taken EXCEPT ![e.next] = @ + 1]
      BY <2>2, <1>h
    <3>2. QED
      BY <3>1, <1>e
  <2>3. QED
    BY <2>1, <2>2
<1>1. EntriesReal(s)'
  <2>1. trace'[s][1].triple = NoTriple
    BY <1>a, <1>t, <1>u DEF EntriesReal
  <2>2. p.triple \in Triples /\ p.left < UsageLimit /\ p.triple[2] =< p.taken[p.triple[1]]
    <3>1. CASE again
      <4>1. /\ e.triple \in Triples /\ e.left < UsageLimit
            /\ e.triple[2] =< e.taken[e.triple[1]]
        BY <3>1, <1>g, <1>t, <1>u DEF EntriesReal, e
      <4>2. QED
        BY <4>1, <3>1, <1>g, <1>e, <1>u
    <3>2. CASE ~ again
      <4>1. /\ p.triple = <<e.next, e.taken[e.next] + 1>>
            /\ p.taken = [e.taken EXCEPT ![e.next] = @ + 1] /\ p.left = UsageLimit - 1
        BY <3>2, <1>h
      <4>2. e.taken[e.next] \in Nat /\ p.taken[e.next] = e.taken[e.next] + 1
        BY <4>1, <1>e
      <4>3. p.triple \in Triples
        BY <4>1, <4>2, <1>e DEF Triples
      <4>4. p.triple[1] = e.next /\ p.triple[2] = e.taken[e.next] + 1
        BY <4>1
      <4>5. QED
        BY <4>1, <4>2, <4>3, <4>4, <1>u
    <3>3. QED
      BY <3>1, <3>2
  <2>3. ASSUME NEW m \in 2 .. n + 1
        PROVE  /\ trace'[s][m].triple \in Triples /\ trace'[s][m].left < UsageLimit
               /\ trace'[s][m].triple[2] =< trace'[s][m].taken[trace'[s][m].triple[1]]
    <3>1. CASE m = n + 1
      BY <3>1, <2>2, <1>a
    <3>2. CASE m # n + 1
      <4>1. m \in 2 .. n /\ m \in 1 .. n
        BY <3>2, <1>t
      <4>2. trace'[s][m] = trace[s][m]
        BY <4>1, <1>a
      <4>3. QED
        BY <4>1, <4>2, <1>u DEF EntriesReal
    <3>3. QED
      BY <3>1, <3>2
  <2>4. QED
    BY <2>1, <2>3, <1>a DEF EntriesReal
<1>2. TakenGrows(s)'
  <2>1. ASSUME NEW k \in 1 .. n + 1, NEW m \in 1 .. k, NEW i \in Queues
        PROVE  trace'[s][m].taken[i] =< trace'[s][k].taken[i]
    <3>1. CASE k \in 1 .. n
      <4>1. m \in 1 .. n /\ trace'[s][k] = trace[s][k] /\ trace'[s][m] = trace[s][m]
        BY <3>1, <1>a, <1>t
      <4>2. QED
        BY <4>1, <3>1, <1>u DEF TakenGrows
    <3>2. CASE k = n + 1 /\ m = n + 1
      BY <3>2, <1>a, <1>k
    <3>3. CASE k = n + 1 /\ m # n + 1
      <4>1. m \in 1 .. n /\ trace'[s][m] = trace[s][m] /\ trace'[s][k] = p
        BY <3>3, <1>a, <1>t
      <4>2. trace[s][m].taken[i] =< e.taken[i]
        BY <4>1, <1>t, <1>u DEF TakenGrows, e
      <4>3. trace[s][m].taken \in [Queues -> Nat]
        BY <4>1, EntriesTyped DEF IInv
      <4>4. trace[s][m].taken[i] \in Nat /\ e.taken[i] \in Nat /\ p.taken[i] \in Nat
        BY <4>3, <1>e, <1>k
      <4>5. e.taken[i] =< p.taken[i]
        BY <1>k
      <4>6. QED
        BY <4>1, <4>2, <4>4, <4>5
    <3>4. QED
      BY <3>1, <3>2, <3>3, <1>t
  <2>2. QED
    BY <2>1, <1>a DEF TakenGrows
<1>3. UsesRunOut(s)'
  <2>1. ASSUME NEW k \in 2 .. n + 1, NEW m \in 2 .. k - 1,
               trace'[s][m].triple = trace'[s][k].triple
        PROVE  trace'[s][k].left < trace'[s][m].left
    <3>m. m \in 2 .. n /\ m \in 1 .. n /\ trace'[s][m] = trace[s][m]
      BY <1>a, <1>t
    <3>1. CASE k \in 2 .. n
      <4>1. trace'[s][k] = trace[s][k]
        BY <3>1, <1>a, <1>t
      <4>2. QED
        BY <4>1, <3>m, <3>1, <2>1, <1>u DEF UsesRunOut
    <3>2. CASE k = n + 1 /\ again
      <4>1. trace'[s][k] = p /\ p.triple = e.triple /\ p.left = e.left - 1 /\ n >= 2
        BY <3>2, <1>a, <1>g
      <4>2. trace[s][m].left \in 0 .. UsageLimit
        BY <3>m, EntriesTyped DEF IInv
      <4>3. trace[s][m].triple = e.triple
        BY <4>1, <3>m, <2>1
      <4>4. CASE m = n
        BY <4>4, <4>1, <3>m, <1>e, <1>u DEF e
      <4>5. CASE m # n
        <5>1. m \in 2 .. n - 1 /\ n \in 2 .. n
          BY <4>5, <3>m, <4>1, <1>t
        <5>2. e.left < trace[s][m].left
          BY <5>1, <4>3, <1>u DEF UsesRunOut, e
        <5>3. QED
          BY <5>2, <4>1, <4>2, <3>m, <1>e, <1>u
      <4>6. QED
        BY <4>4, <4>5
    <3>3. CASE k = n + 1 /\ ~ again
      <4> DEFINE x == trace[s][m].triple
      <4>1. trace'[s][k] = p /\ p.triple = <<e.next, e.taken[e.next] + 1>>
        BY <3>3, <1>a, <1>h
      <4>2. x = <<e.next, e.taken[e.next] + 1>>
        BY <4>1, <3>m, <2>1
      <4>3. x[1] = e.next /\ x[2] = e.taken[e.next] + 1
        BY <4>2
      <4>4. x[2] =< trace[s][m].taken[x[1]]
        BY <3>m, <1>u DEF EntriesReal
      <4>5. trace[s][m].taken[e.next] =< e.taken[e.next]
        BY <3>m, <1>t, <1>e, <1>u DEF TakenGrows, e
      <4>6. trace[s][m].taken[e.next] \in Nat /\ e.taken[e.next] \in Nat
        <5>1. trace[s][m].taken \in [Queues -> Nat]
          BY <3>m, EntriesTyped DEF IInv
        <5>2. QED
          BY <5>1, <1>e
      <4> HIDE DEF x
      <4>7. QED
        BY <4>3, <4>4, <4>5, <4>6
    <3>4. QED
      BY <3>1, <3>2, <3>3, <1>t
  <2>2. QED
    BY <2>1, <1>a DEF UsesRunOut
<1>4. ASSUME NEW r \in Servers \ {s}
      PROVE  (EntriesReal(r) /\ TakenGrows(r) /\ UsesRunOut(r))'
  <2>1. trace'[r] = trace[r]
    BY UseExtendsTrace DEF IInv
  <2>2. EntriesReal(r) /\ TakenGrows(r) /\ UsesRunOut(r)
    BY DEF UseInv
  <2>3. QED
    BY <2>1, <2>2 DEF EntriesReal, TakenGrows, UsesRunOut
<1>5. QED
  BY <1>1, <1>2, <1>3, <1>4 DEF UseInv

\* The entries of one triple have different numbers of uses left, all below the
\* limit: there are no more of them than the limit.
LEMMA UsesCounted ==
    ASSUME IInv, UseInv, NEW s \in Servers, NEW n \in 2 .. Len(trace[s])
    PROVE  Cardinality({k \in 2 .. Len(trace[s]) : trace[s][k].triple = trace[s][n].triple})
               =< UsageLimit
<1> DEFINE K == {k \in 2 .. Len(trace[s]) : trace[s][k].triple = trace[s][n].triple}
           T == 0 .. UsageLimit - 1
           f == [k \in K |-> trace[s][k].left]
<1>u. UsageLimit \in Nat \ {0} /\ EntriesReal(s) /\ UsesRunOut(s)
  BY BmtPoolAssumption DEF UseInv
<1>l. trace[s] \in Seq(PollStates) /\ Len(trace[s]) \in Nat
  BY DEF IInv, TypeOK
<1>1. ASSUME NEW k \in K
      PROVE  trace[s][k].left \in T
  <2>1. k \in 2 .. Len(trace[s]) /\ k \in 1 .. Len(trace[s])
    BY <1>l
  <2>2. trace[s][k].left \in 0 .. UsageLimit
    BY <2>1, EntriesTyped DEF IInv
  <2>3. trace[s][k].left < UsageLimit
    BY <2>1, <1>u DEF EntriesReal
  <2>4. QED
    BY <2>2, <2>3, <1>u
<1>2. ASSUME NEW j \in K, NEW k \in K, j < k
      PROVE  trace[s][k].left < trace[s][j].left
  <2>1. k \in 2 .. Len(trace[s]) /\ j \in 2 .. k - 1
    BY <1>2, <1>l
  <2>2. trace[s][j].triple = trace[s][k].triple
    OBVIOUS
  <2>3. QED
    BY <2>1, <2>2, <1>u DEF UsesRunOut
<1>3. f \in Injection(K, T)
  <2>1. f \in [K -> T]
    BY <1>1
  <2>2. ASSUME NEW j \in K, NEW k \in K, j # k
        PROVE  f[j] # f[k]
    <3>1. j \in Nat /\ k \in Nat
      BY <1>l
    <3>2. j < k \/ k < j
      BY <3>1, <2>2
    <3>3. f[j] \in Nat /\ f[k] \in Nat
      BY <1>1, <1>u
    <3>4. f[k] < f[j] \/ f[j] < f[k]
      BY <3>2, <1>2
    <3>5. QED
      BY <3>3, <3>4
  <2> HIDE DEF f, K, T
  <2>3. QED
    BY <2>1, <2>2 DEF Injection, IsInjective
<1>4. IsFiniteSet(T) /\ Cardinality(T) = UsageLimit
  <2>1. 0 \in Int /\ UsageLimit - 1 \in Int
    BY <1>u
  <2>2. IsFiniteSet(T) /\ Cardinality(T) = IF 0 > UsageLimit - 1 THEN 0 ELSE (UsageLimit - 1) - 0 + 1
    BY <2>1, FS_Interval, Zenon
  <2> HIDE DEF T
  <2>3. QED
    BY <2>2, <1>u
<1> HIDE DEF f, K, T
<1>5. Cardinality(K) =< Cardinality(T)
  BY <1>3, <1>4, FS_Injection, Zenon
<1>6. QED
  BY <1>4, <1>5 DEF K

-----------------------------------------------------------------------------
(* The invariant *)

\* Steps that use no triple leave the pollers and the traces as they are.
LEMMA OthersKeepTraces ==
    ASSUME IInv, UNCHANGED <<current, leftTimes, nextQueue, taken, trace>>
    PROVE  (\A r \in Servers : TraceOf(r)') /\ Agreement'
  BY DEF IInv, TraceOf, PollState, Agreement

\* Every step keeps the invariant.
LEMMA NextKeepsIInv == IInv /\ [Next]_vars => IInv'
<1> SUFFICES ASSUME IInv, [Next]_vars PROVE IInv'
  OBVIOUS
<1> USE DEF IInv
<1>1. ASSUME NEW i \in Queues, Generate(i)
      PROVE  IInv'
  <2>1. UNCHANGED <<queue, offered, current, leftTimes, nextQueue, taken, trace>>
    BY <1>1 DEF Generate, SendMatrix0, AnswerAndSendMatrix1, Answer1, Finish0, BatchReady, pollVars
  <2>2. QueueOrder'
    BY <2>1 DEF QueueOrder
  <2>3. (\A r \in Servers : TraceOf(r)') /\ Agreement'
    BY <2>1, OthersKeepTraces
  <2>4. QED
    BY <1>1, <2>2, <2>3, GenerateKeepsTypes
<1>2. ASSUME NEW i \in Queues, NEW s \in Servers, Offer(s, i)
      PROVE  IInv'
  <2>1. (\A r \in Servers : TraceOf(r)') /\ Agreement'
    BY <1>2, OthersKeepTraces DEF Offer, pollVars
  <2>2. QED
    BY <1>2, <2>1, OfferKeepsTypes, OfferKeepsOrder
<1>3. ASSUME NEW s \in Servers, UseAgain(s) \/ PollNext(s)
      PROVE  IInv'
  <2>1. OffersLast'
    BY <1>3 DEF UseAgain, PollNext, genVars, OffersLast
  <2>2. QueueOrder'
    <3>1. CASE UseAgain(s)
      BY <3>1 DEF UseAgain, genVars, QueueOrder
    <3>2. CASE PollNext(s)
      BY <3>2, PollKeepsOrder
    <3>3. QED
      BY <1>3, <3>1, <3>2
  <2>3. QED
    BY <1>3, <2>1, <2>2, PollKeepsTypes, UseKeepsTraces
<1>4. ASSUME NEW s \in Servers, SendMasked(s) \/ ReceiveMasked(s)
      PROVE  IInv'
  <2>1. UNCHANGED <<genVars, queue, current, leftTimes, nextQueue, taken, trace>>
    BY <1>4 DEF SendMasked, ReceiveMasked, pollVars
  <2>2. OffersLast' /\ QueueOrder'
    BY <2>1 DEF OffersLast, QueueOrder, genVars
  <2>3. (\A r \in Servers : TraceOf(r)') /\ Agreement'
    BY <2>1, OthersKeepTraces
  <2>4. QED
    BY <1>4, <2>2, <2>3, ExchangeKeepsTypes
<1>5. CASE UNCHANGED vars
  <2>1. TypeOK'
    BY <1>5 DEF vars, genVars, pollVars, opVars, TypeOK
  <2>2. OffersLast' /\ QueueOrder'
    BY <1>5 DEF vars, genVars, pollVars, OffersLast, QueueOrder
  <2>3. (\A r \in Servers : TraceOf(r)') /\ Agreement'
    BY <1>5, OthersKeepTraces DEF vars, pollVars
  <2>4. QED
    BY <2>1, <2>2, <2>3
<1>6. QED
  BY <1>1, <1>2, <1>3, <1>4, <1>5 DEF Next, MainStep

\* The invariant holds in every reachable state.
THEOREM Invariance == Spec => []IInv
  BY InitHolds, NextKeepsIInv, PTL DEF Spec

\* The state of both servers keeps its types (prepareBmt, pollBitwiseBmts).
THEOREM TypesHold == Spec => []TypeOK
<1>1. IInv => TypeOK
  BY DEF IInv
<1>2. QED
  BY <1>1, Invariance, PTL

\* However the generators and the two main threads interleave, the servers use
\* the halves of the same triples in the same order (pollBitwiseBmts).
THEOREM SameTriplesHold == Spec => []SameTriples
<1>1. IInv => SameTriples
  BY DEF IInv, Agreement, SameTriples
<1>2. QED
  BY <1>1, Invariance, PTL

\* No triple masks operands more often than bmt_usage_limit allows, within one
\* operator or across several (pollBitwiseBmts).
THEOREM ReuseLimitedHolds == Spec => []ReuseLimited
<1>1. Init => UseInv
  BY DEF Init, UseInv, EntriesReal, TakenGrows, UsesRunOut, PollState
<1>2. IInv /\ UseInv /\ [Next]_vars => UseInv'
  <2> SUFFICES ASSUME IInv, UseInv, [Next]_vars PROVE UseInv'
    OBVIOUS
  <2>1. ASSUME NEW i \in Queues, Generate(i) \/ \E s \in Servers : Offer(s, i)
        PROVE  UNCHANGED trace
    BY <2>1 DEF Generate, SendMatrix0, AnswerAndSendMatrix1, Answer1, Finish0, BatchReady,
                Offer, pollVars
  <2>2. ASSUME NEW s \in Servers, SendMasked(s) \/ ReceiveMasked(s)
        PROVE  UNCHANGED trace
    BY <2>2 DEF SendMasked, ReceiveMasked, pollVars
  <2>3. CASE UNCHANGED vars
    BY <2>3, OthersKeepUses DEF vars, pollVars
  <2>4. QED
    BY <2>1, <2>2, <2>3, UseKeepsUses, OthersKeepUses DEF Next, MainStep
<1>3. IInv /\ UseInv => ReuseLimited
  BY UsesCounted DEF ReuseLimited
<1>4. QED
  BY <1>1, <1>2, <1>3, Invariance, PTL DEF Spec

=============================================================================
