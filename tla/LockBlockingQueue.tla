------------------------- MODULE LockBlockingQueue -------------------------
(***************************************************************************)
(* runtime/parallel/include/sync/LockBlockingQueue.h: the bounded queue     *)
(* through which the background threads that generate multiplication        *)
(* triples hand them to the operator threads (bmt_queue_type=lock_queue).   *)
(*                                                                         *)
(* Everything offer() and poll() do between acquiring _mutex and releasing  *)
(* it (on return, or inside wait()) is one step: nobody else can look at    *)
(* the queue meanwhile.  What is left to interleave is who acquires the     *)
(* mutex next, whom notify_one() picks, and wake-ups nobody asked for.      *)
(***************************************************************************)
EXTENDS Naturals, Sequences, FiniteSets

CONSTANTS
    Producers,      \* threads that call offer()
    Consumers,      \* threads that call poll()
    MaxSize,        \* _maxSize
    MaxOffers       \* bound of the model: offers made by one producer

ASSUME ThreadsAssumption ==
    /\ IsFiniteSet(Producers) /\ IsFiniteSet(Consumers)
    /\ Producers \cap Consumers = {}

\* With a capacity of 0 every offer() would wait for ever; --max_bmts is positive.
ASSUME SizeAssumption == MaxSize \in Nat \ {0} /\ MaxOffers \in Nat

VARIABLES
    queue,    \* _queue
    pc,       \* where a thread is: outside, asleep in wait(), or on its way back
    offered,  \* how many offers of each producer have returned
    put,      \* history: everything pushed, in order
    taken     \* history: everything a poll() has returned, in order

vars == <<queue, pc, offered, put, taken>>

Threads == Producers \cup Consumers

\* The k-th item of a producer; the queue never looks inside an item.
Item(p, k) == <<p, k>>
Items == Producers \X (1 .. MaxOffers)

Sleepers(f, S) == {t \in S : f[t] = "asleep"}
Woken(f, S) == {t \in S : f[t] = "awake"}

(* notify_one() on the condition variable the threads of S wait on: it wakes *)
(* one of the sleepers, of its choice, or nobody when none sleeps.           *)
NotifyOne(f, S) ==
    IF Sleepers(f, S) = {} THEN {f}
    ELSE {[f EXCEPT ![t] = "awake"] : t \in Sleepers(f, S)}

Init ==
    /\ queue = <<>>
    /\ pc = [t \in Threads |-> "idle"]
    /\ offered = [p \in Producers |-> 0]
    /\ put = <<>>
    /\ taken = <<>>

\* Mutants of Offer: one item too many; an item counted twice; notify_one()
\* only when the queue was empty; no notify_one() at all.
OfferInto(p, room, step, S) ==
    /\ pc[p] \in {"idle", "awake"}
    /\ offered[p] < MaxOffers
    /\ room
    /\ queue' = Append(queue, Item(p, offered[p] + 1))
    /\ put' = Append(put, Item(p, offered[p] + 1))
    /\ offered' = [offered EXCEPT ![p] = @ + step]
    /\ pc' \in NotifyOne([pc EXCEPT ![p] = "idle"], S)
    /\ UNCHANGED taken
OfferOverfull(p) == OfferInto(p, Len(queue) =< MaxSize, 1, Consumers)
OfferCountedTwice(p) == OfferInto(p, Len(queue) < MaxSize, 2, Consumers)
OfferNotifiesFirst(p) ==
    OfferInto(p, Len(queue) < MaxSize, 1, IF queue = <<>> THEN Consumers ELSE {})
OfferSilent(p) == OfferInto(p, Len(queue) < MaxSize, 1, {})

\* offer() finds room: push, notify_one(_notEmpty), return.
Offer(p) ==
    /\ pc[p] \in {"idle", "awake"}
    /\ offered[p] < MaxOffers
    /\ Len(queue) < MaxSize
    /\ queue' = Append(queue, Item(p, offered[p] + 1))
    /\ put' = Append(put, Item(p, offered[p] + 1))
    /\ offered' = [offered EXCEPT ![p] = @ + 1]
    /\ pc' \in NotifyOne([pc EXCEPT ![p] = "idle"], Consumers)
    /\ UNCHANGED taken

\* offer() finds the queue full, at its first look or after a wake-up.
OfferWaits(p) ==
    /\ pc[p] \in {"idle", "awake"}
    /\ offered[p] < MaxOffers
    /\ ~ Len(queue) < MaxSize
    /\ pc' = [pc EXCEPT ![p] = "asleep"]
    /\ UNCHANGED <<queue, offered, put, taken>>

\* Mutant of Poll: front() without pop().
PollKeeps(c) ==
    /\ pc[c] \in {"idle", "awake"}
    /\ queue # <<>>
    /\ taken' = Append(taken, Head(queue))
    /\ pc' \in NotifyOne([pc EXCEPT ![c] = "idle"], Producers)
    /\ UNCHANGED <<queue, offered, put>>

\* poll() finds an item: front, pop, notify_one(_notFull), return it.
Poll(c) ==
    /\ pc[c] \in {"idle", "awake"}
    /\ queue # <<>>
    /\ taken' = Append(taken, Head(queue))
    /\ queue' = Tail(queue)
    /\ pc' \in NotifyOne([pc EXCEPT ![c] = "idle"], Producers)
    /\ UNCHANGED <<offered, put>>

\* poll() finds the queue empty.
PollWaits(c) ==
    /\ pc[c] \in {"idle", "awake"}
    /\ queue = <<>>
    /\ pc' = [pc EXCEPT ![c] = "asleep"]
    /\ UNCHANGED <<queue, offered, put, taken>>

\* A condition variable may wake a thread on its own.
SpuriousWakeup(t) ==
    /\ pc[t] = "asleep"
    /\ pc' = [pc EXCEPT ![t] = "awake"]
    /\ UNCHANGED <<queue, offered, put, taken>>

ProducerStep(p) == Offer(p) \/ OfferWaits(p)
ConsumerStep(c) == Poll(c) \/ PollWaits(c)

Next ==
    \/ \E p \in Producers : ProducerStep(p)
    \/ \E c \in Consumers : ConsumerStep(c)
    \/ \E t \in Threads : SpuriousWakeup(t)

Spec == Init /\ [][Next]_vars

(* A thread that wants the mutex gets it in the end; nothing promises that a  *)
(* sleeper wakes up by itself.                                               *)
Fairness ==
    /\ \A p \in Producers : WF_vars(ProducerStep(p))
    /\ \A c \in Consumers : WF_vars(ConsumerStep(c))

FairSpec == Spec /\ Fairness

-----------------------------------------------------------------------------

TypeOK ==
    /\ queue \in Seq(Items)
    /\ pc \in [Threads -> {"idle", "asleep", "awake"}]
    /\ offered \in [Producers -> 0 .. MaxOffers]
    /\ put \in Seq(Items)
    /\ taken \in Seq(Items)

(* max_bmts bounds the memory of the pre-generated triples: the queue never   *)
(* holds more than _maxSize items, however the producers race for the room.   *)
Capacity == Len(queue) =< MaxSize

(* What was polled, followed by what is still queued, is what was offered, in *)
(* that order: nothing is lost, duplicated or overtaken.                      *)
FifoOrder == put = taken \o queue

(* poll() and offer() notify one thread only, and a thread that was notified  *)
(* may find that another one was faster.  Still, while a consumer sleeps      *)
(* there is a woken consumer for every item in the queue, and while a         *)
(* producer sleeps a woken producer for every free slot: nobody sleeps        *)
(* through work that nobody else is on the way to do.                         *)
NoLostWakeup ==
    /\ Sleepers(pc, Consumers) # {} => Len(queue) =< Cardinality(Woken(pc, Consumers))
    /\ Sleepers(pc, Producers) # {} => MaxSize - Len(queue) =< Cardinality(Woken(pc, Producers))

(* Consumers that keep polling receive everything that is ever offered: no    *)
(* producer is left in wait() for good and no item stays in the queue.        *)
EverythingArrives ==
    <>[](/\ \A p \in Producers : offered[p] = MaxOffers
         /\ Len(taken) = MaxOffers * Cardinality(Producers))

=============================================================================
