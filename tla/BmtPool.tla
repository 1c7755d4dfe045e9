------------------------------ MODULE BmtPool ------------------------------
(***************************************************************************)
(* bmt_method=bmt_background: how the two servers come by their             *)
(* multiplication triples.  On each server one thread per queue generates   *)
(* batches together with its counterpart on the other server                *)
(* (IntermediateDataSupport::startGenerateBitwiseBmtsAsync) and offers them *)
(* to its bounded queue; the operators of the main thread poll the queues   *)
(* round robin (pollBitwiseBmts), use each triple up to bmt_usage_limit     *)
(* times, and exchange the masked operands with the other server.           *)
(*                                                                         *)
(* A triple is worth something only to two servers that use their halves of *)
(* it at the same place, and nothing but the order of consumption sees to   *)
(* that.  The halves of one triple have one name here: <<queue, number>>.   *)
(* The queues are LockBlockingQueues, the channels TagMailbox channels.     *)
(***************************************************************************)
EXTENDS Naturals, Sequences, FiniteSets

CONSTANTS
    QueueNum,       \* BMT_QUEUE_NUM
    MaxBmts,        \* MAX_BMTS, the capacity of each queue
    BatchSize,      \* triples per generated batch
    UsageLimit,     \* BMT_USAGE_LIMIT
    Program         \* the triples that each operator in turn asks for

ASSUME BmtPoolAssumption ==
    /\ QueueNum \in Nat \ {0} /\ MaxBmts \in Nat \ {0}
    /\ BatchSize \in Nat \ {0} /\ UsageLimit \in Nat \ {0}
    /\ Program \in Seq(Nat \ {0})

Servers == {0, 1}
Queues == 0 .. QueueNum - 1
Triples == Queues \X (Nat \ {0})
NoTriple == <<>>

VARIABLES
    gen,        \* what the generator thread of each queue is doing
    left,       \* triples of its current batch that it has yet to offer
    offered,    \* triples it has offered altogether
    u0, m0, m1, \* OT messages in flight between the generators of one queue
    queue,      \* _bitwiseBmtQs
    current,    \* _currentBitwiseBmt
    leftTimes,  \* _currentBitwiseBmtLeftTimes
    nextQueue,  \* _currentBitwiseBmtQ, modulo the number of queues
    op,         \* which operator of the program the main thread is in
    held,       \* how many triples pollBitwiseBmts has collected for it
    exchanging, \* it has sent its masked operands and waits for the peer's
    masked,     \* masked operands in flight to each server
    taken,      \* history: triples polled from each queue
    trace       \* history: the state of the poller after each use of a triple

genVars  == <<gen, left, offered, u0, m0, m1>>
pollVars == <<current, leftTimes, nextQueue, held, taken, trace>>
opVars   == <<op, exchanging, masked>>
vars     == <<genVars, queue, pollVars, opVars>>

\* Everything that decides which triple a server uses next.
PollState(s) ==
    [triple |-> current[s], left |-> leftTimes[s], next |-> nextQueue[s], taken |-> taken[s]]

Init ==
    /\ gen = [s \in Servers |-> [i \in Queues |-> "start"]]
    /\ left = [s \in Servers |-> [i \in Queues |-> 0]]
    /\ offered = [s \in Servers |-> [i \in Queues |-> 0]]
    /\ u0 = [i \in Queues |-> 0] /\ m0 = [i \in Queues |-> 0] /\ m1 = [i \in Queues |-> 0]
    /\ queue = [s \in Servers |-> [i \in Queues |-> <<>>]]
    /\ current = [s \in Servers |-> NoTriple]
    /\ leftTimes = [s \in Servers |-> UsageLimit]
    /\ nextQueue = [s \in Servers |-> 0]
    /\ op = [s \in Servers |-> 1]
    /\ held = [s \in Servers |-> 0]
    /\ exchanging = [s \in Servers |-> FALSE]
    /\ masked = [s \in Servers |-> 0]
    /\ taken = [s \in Servers |-> [i \in Queues |-> 0]]
    /\ trace = [s \in Servers |-> <<PollState(s)>>]

-----------------------------------------------------------------------------
(* A batch is two extensions of IKNP OT, one in each direction, run one after *)
(* the other: computeMix(0), in which server 1 sends its matrix and server 0  *)
(* answers with masked messages, then computeMix(1) with the roles swapped.   *)

GoesOn(s, i, at) == gen' = [gen EXCEPT ![s][i] = at]
BatchReady(s, i) ==
    /\ GoesOn(s, i, "offer")
    /\ left' = [left EXCEPT ![s][i] = BatchSize]
    /\ UNCHANGED offered

\* Mutant of SendMatrix0: both servers begin computeMix(0) as senders.
SendMatrix0Late(i) ==
    /\ gen[1][i] = "start"
    /\ m0[i] > 0
    /\ GoesOn(1, i, "mix")
    /\ u0' = [u0 EXCEPT ![i] = @ + 1]
    /\ UNCHANGED <<left, offered, m0, m1, queue, pollVars, opVars>>

\* Server 1 is the receiver of computeMix(0): it sends its matrix.
SendMatrix0(i) ==
    /\ gen[1][i] = "start"
    /\ GoesOn(1, i, "mix")
    /\ u0' = [u0 EXCEPT ![i] = @ + 1]
    /\ UNCHANGED <<left, offered, m0, m1, queue, pollVars, opVars>>

\* Server 0 answers it, and goes on to send its own matrix of computeMix(1).
AnswerAndSendMatrix1(i) ==
    /\ gen[0][i] = "start"
    /\ u0[i] > 0
    /\ GoesOn(0, i, "mix")
    /\ u0' = [u0 EXCEPT ![i] = @ - 1]
    /\ m0' = [m0 EXCEPT ![i] = @ + 1]
    /\ UNCHANGED <<left, offered, m1, queue, pollVars, opVars>>

\* Server 1 receives both and answers the second: its batch is complete.
Answer1(i) ==
    /\ gen[1][i] = "mix"
    /\ m0[i] > 0
    /\ BatchReady(1, i)
    /\ m0' = [m0 EXCEPT ![i] = @ - 1]
    /\ m1' = [m1 EXCEPT ![i] = @ + 1]
    /\ UNCHANGED <<u0, queue, pollVars, opVars>>

\* Server 0 receives the answer: its batch is complete too.
Finish0(i) ==
    /\ gen[0][i] = "mix"
    /\ m1[i] > 0
    /\ BatchReady(0, i)
    /\ m1' = [m1 EXCEPT ![i] = @ - 1]
    /\ UNCHANGED <<u0, m0, queue, pollVars, opVars>>

\* offer() of one triple of the batch; it waits while the queue is full.
Offer(s, i) ==
    /\ gen[s][i] = "offer"
    /\ Len(queue[s][i]) < MaxBmts
    /\ queue' = [queue EXCEPT ![s][i] = Append(@, <<i, offered[s][i] + 1>>)]
    /\ offered' = [offered EXCEPT ![s][i] = @ + 1]
    /\ left' = [left EXCEPT ![s][i] = @ - 1]
    /\ GoesOn(s, i, IF left[s][i] = 1 THEN "start" ELSE "offer")
    /\ UNCHANGED <<u0, m0, m1, pollVars, opVars>>

-----------------------------------------------------------------------------
(* pollBitwiseBmts(count, width), one triple at a time *)

Polling(s) ==
    /\ op[s] =< Len(Program) /\ ~ exchanging[s]
    /\ held[s] < Program[op[s]]

\* The triple in hand joins those of the operator.
UseCurrent(s) ==
    /\ held' = [held EXCEPT ![s] = @ + 1]
    /\ trace' = [trace EXCEPT ![s] = Append(@, PollState(s)')]

\* Mutant of Exhausted: the uses that are left are not looked at.
NeverExhausted(s) == current[s] = NoTriple

Exhausted(s) == current[s] = NoTriple \/ leftTimes[s] = 0

\* The current triple may be used again.
UseAgain(s) ==
    /\ Polling(s)
    /\ ~ Exhausted(s)
    /\ leftTimes' = [leftTimes EXCEPT ![s] = @ - 1]
    /\ UNCHANGED <<genVars, queue, current, nextQueue, taken, opVars>>
    /\ UseCurrent(s)

\* Mutants of PollNext: whichever queue has a triple; one use too many.
PollFrom(s, i, uses) ==
    /\ Polling(s)
    /\ Exhausted(s)
    /\ queue[s][i] # <<>>
    /\ current' = [current EXCEPT ![s] = Head(queue[s][i])]
    /\ leftTimes' = [leftTimes EXCEPT ![s] = uses]
    /\ nextQueue' = [nextQueue EXCEPT ![s] = (i + 1) % QueueNum]
    /\ queue' = [queue EXCEPT ![s][i] = Tail(@)]
    /\ taken' = [taken EXCEPT ![s][i] = @ + 1]
    /\ UseCurrent(s)
    /\ UNCHANGED <<genVars, opVars>>
PollAny(s) == \E i \in Queues : PollFrom(s, i, UsageLimit - 1)
PollOnceMore(s) == PollFrom(s, nextQueue[s], UsageLimit)

\* poll() of the next queue in turn; it waits while that queue is empty.
PollNext(s) ==
    LET i == nextQueue[s]
    IN  /\ Polling(s)
        /\ Exhausted(s)
        /\ queue[s][i] # <<>>
        /\ current' = [current EXCEPT ![s] = Head(queue[s][i])]
        /\ leftTimes' = [leftTimes EXCEPT ![s] = UsageLimit - 1]
        /\ nextQueue' = [nextQueue EXCEPT ![s] = (i + 1) % QueueNum]
        /\ queue' = [queue EXCEPT ![s][i] = Tail(@)]
        /\ taken' = [taken EXCEPT ![s][i] = @ + 1]
        /\ UseCurrent(s)
        /\ UNCHANGED <<genVars, opVars>>

\* BoolAndBatchOperator: the operands, masked with the triples, go to the peer.
SendMasked(s) ==
    /\ op[s] =< Len(Program) /\ ~ exchanging[s]
    /\ held[s] = Program[op[s]]
    /\ exchanging' = [exchanging EXCEPT ![s] = TRUE]
    /\ masked' = [masked EXCEPT ![1 - s] = @ + 1]
    /\ held' = [held EXCEPT ![s] = 0]
    /\ UNCHANGED <<genVars, queue, current, leftTimes, nextQueue, taken, trace, op>>

ReceiveMasked(s) ==
    /\ exchanging[s]
    /\ masked[s] > 0
    /\ masked' = [masked EXCEPT ![s] = @ - 1]
    /\ exchanging' = [exchanging EXCEPT ![s] = FALSE]
    /\ op' = [op EXCEPT ![s] = @ + 1]
    /\ UNCHANGED <<genVars, queue, pollVars>>

-----------------------------------------------------------------------------

Generate(i) == SendMatrix0(i) \/ AnswerAndSendMatrix1(i) \/ Answer1(i) \/ Finish0(i)
MainStep(s) == UseAgain(s) \/ PollNext(s) \/ SendMasked(s) \/ ReceiveMasked(s)

Next ==
    \/ \E i \in Queues : Generate(i) \/ \E s \in Servers : Offer(s, i)
    \/ \E s \in Servers : MainStep(s)

Spec == Init /\ [][Next]_vars

\* Every thread of both servers keeps running.
FairSpec ==
    /\ Spec
    /\ \A i \in Queues : /\ WF_vars(SendMatrix0(i)) /\ WF_vars(AnswerAndSendMatrix1(i))
                         /\ WF_vars(Answer1(i)) /\ WF_vars(Finish0(i))
                         /\ \A s \in Servers : WF_vars(Offer(s, i))
    /\ \A s \in Servers : WF_vars(MainStep(s))

-----------------------------------------------------------------------------

PollStates ==
    [triple : Triples \cup {NoTriple}, left : 0 .. UsageLimit, next : Queues,
     taken : [Queues -> Nat]]

TypeOK ==
    /\ gen \in [Servers -> [Queues -> {"start", "mix", "offer"}]]
    /\ left \in [Servers -> [Queues -> 0 .. BatchSize]]
    /\ offered \in [Servers -> [Queues -> Nat]]
    /\ u0 \in [Queues -> Nat] /\ m0 \in [Queues -> Nat] /\ m1 \in [Queues -> Nat]
    /\ queue \in [Servers -> [Queues -> Seq(Triples)]]
    /\ current \in [Servers -> Triples \cup {NoTriple}]
    /\ leftTimes \in [Servers -> 0 .. UsageLimit]
    /\ nextQueue \in [Servers -> Queues]
    /\ op \in [Servers -> Nat \ {0}]
    /\ held \in [Servers -> Nat]
    /\ exchanging \in [Servers -> BOOLEAN]
    /\ masked \in [Servers -> Nat]
    /\ taken \in [Servers -> [Queues -> Nat]]
    /\ trace \in [Servers -> Seq(PollStates)]

(* The servers poll at their own pace, from several queues that are filled at *)
(* their own pace.  Yet the n-th triple that one server uses is the n-th that *)
(* the other uses: otherwise the AND it serves is noise, and nobody is told.  *)
SameTriples ==
    \A n \in 1 .. Len(trace[0]) : n =< Len(trace[1]) =>
        trace[0][n].triple = trace[1][n].triple

(* bmt_usage_limit bounds how often one triple masks operands, across the     *)
(* boundary between two operators as well as within one.                      *)
ReuseLimited ==
    \A s \in Servers : \A n \in 2 .. Len(trace[s]) :
        Cardinality({k \in 2 .. Len(trace[s]) : trace[s][k].triple = trace[s][n].triple})
            =< UsageLimit

(* Generators that wait on a full queue, a main thread that waits on an empty *)
(* one and two servers that wait for each other, in both directions, never    *)
(* add up to a circle: every operator of the program is answered.             *)
OpsComplete == <>(\A s \in Servers : op[s] > Len(Program))

=============================================================================
