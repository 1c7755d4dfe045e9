------------------------------ MODULE TcpComm ------------------------------
(***************************************************************************)
(* runtime/comm/src/comm/TcpComm.cpp, from the moment the three connections *)
(* stand: application threads that send and receive tagged messages, one    *)
(* reader thread per peer, and finalize_() in the middle of all that.       *)
(*                                                                         *)
(* An asynchronous send or receive (sendAsync_, receiveAsync_) is the same  *)
(* call on a thread of its own, so a thread of the model is either.  A      *)
(* message is what its encoding stands for; only whether its payload is     *)
(* empty matters to the framing.                                            *)
(*                                                                         *)
(* The sockets are the kernel's (external): a connection is a reliable      *)
(* stream; close() of a descriptor on which another thread is inside recv() *)
(* neither wakes that thread nor ends the connection until it leaves recv() *)
(* (close(2), "Multithreaded processes and close()").                       *)
(***************************************************************************)
EXTENDS Naturals, Sequences, FiniteSets

CONSTANTS
    Tags,        \* message tags in use
    Sizes,       \* sizes of payloads: a subset of {"empty", "full"}
    Threads,     \* application threads of all ranks
    Home,        \* Home[t]: the rank thread t belongs to
    Plans        \* what the programs may do, with a bound on the sends: see plan

Ranks == 0 .. 2

ASSUME TcpCommAssumption ==
    /\ Sizes \subseteq {"empty", "full"}
    /\ Home \in [Threads -> Ranks]
    /\ \A p \in Plans :
        /\ p.sends \in [Threads -> Nat]
        /\ p.to \in [Threads -> SUBSET Ranks] /\ p.from \in [Threads -> SUBSET Ranks]
        /\ \A t \in Threads : Home[t] \notin p.to[t] \cup p.from[t]
        /\ p.tags \subseteq Tags /\ p.sizes \subseteq Sizes
        /\ p.finalizing \subseteq Ranks /\ p.crashing \subseteq Ranks

MessagesOf(t, p) == [by : {t}, n : 1 .. p.sends[t], tag : p.tags, size : p.sizes]
Messages == UNION {UNION {MessagesOf(t, p) : t \in Threads} : p \in Plans}

VARIABLES
    plan,          \* how often each thread sends, to whom, from whom it receives, with
                   \* which tags and sizes; ranks that may finalize or be killed
    pc,            \* what each application thread is doing
    call,          \* the peer and tag of the call it is in
    sends,         \* how many sends each thread has started
    sendMutex,     \* _sendMutexes of each rank: the holders, per receiver
    wire,          \* wire[s][r]: the parts written by s that r has not read
    fd,            \* fd[r][p]: _peerFds[p] of rank r is open
    reader,        \* what the reader thread of rank r for peer p is doing
    hand,          \* the message it is reading, if any
    pending,       \* _pendingMessages of each rank, by sender and tag
    shuttingDown,  \* _shuttingDown of each rank
    readerError,   \* _readerError of each rank is set
    fin,           \* progress of each rank's finalize_()
    alive,         \* the rank's process exists
    sent, got      \* history: see TagMailbox

threadVars == <<pc, call, sends, sendMutex>>
readerVars == <<reader, hand, readerError>>
rankVars   == <<fd, shuttingDown, fin, alive>>
history    == <<sent, got>>
moving == <<threadVars, wire, readerVars, pending, rankVars, history>>
vars == <<plan, moving>>

NoCall == <<>>
Peers(r) == Ranks \ {r}

(* The kernel ends rank r's side of its connection with p: the descriptor is  *)
(* closed and no thread of r is inside recv() on it any more.                *)
Released(r, p) == ~ fd[r][p] /\ reader[r][p] \notin {"header", "payload"}

\* Mutants of WokenAt: nobody is notified; notify_one() instead of notify_all().
WokenNobody(r) == pc
WokenOne(r) ==
    LET S == {t \in Threads : Home[t] = r /\ pc[t] = "asleep"}
    IN  IF S = {} THEN pc ELSE [pc EXCEPT ![CHOOSE t \in S : TRUE] = "receive"]

\* _messageCv.notify_all() at rank r: its sleepers look again.
WokenAt(r) == [t \in Threads |-> IF Home[t] = r /\ pc[t] = "asleep" THEN "receive" ELSE pc[t]]

\* init_() has returned on every rank and the readers wait for a first header.
Init ==
    /\ plan \in Plans
    /\ pc = [t \in Threads |-> "idle"]
    /\ call = [t \in Threads |-> NoCall]
    /\ sends = [t \in Threads |-> 0]
    /\ sendMutex = [s \in Ranks |-> [r \in Ranks |-> {}]]
    /\ wire = [s \in Ranks |-> [r \in Ranks |-> <<>>]]
    /\ fd = [r \in Ranks |-> [p \in Ranks |-> p # r]]
    /\ reader = [r \in Ranks |-> [p \in Ranks |-> IF p # r THEN "header" ELSE "done"]]
    /\ hand = [r \in Ranks |-> [p \in Ranks |-> <<>>]]
    /\ pending = [r \in Ranks |-> [p \in Ranks |-> [g \in Tags |-> <<>>]]]
    /\ shuttingDown = [r \in Ranks |-> FALSE]
    /\ readerError = [r \in Ranks |-> FALSE]
    /\ fin = [r \in Ranks |-> "no"]
    /\ alive = [r \in Ranks |-> TRUE]
    /\ sent = [s \in Ranks |-> [r \in Ranks |-> [g \in Tags |-> <<>>]]]
    /\ got = [s \in Ranks |-> [r \in Ranks |-> [g \in Tags |-> <<>>]]]

-----------------------------------------------------------------------------
(* sendPayload(): header and payload are two writes under the mutex of the    *)
(* receiver.                                                                  *)

Header(m)  == [part |-> "header", msg |-> m]
Payload(m) == [part |-> "payload", msg |-> m]

\* Mutant of MutexFree: no lock_guard.
MutexIgnored(s, p) == TRUE
MutexFree(s, p) == sendMutex[s][p] = {}

\* Takes the mutex and writes the header; without a payload the call is over.
SendHeader(t, p, g, z) ==
    LET s == Home[t]
        m == [by |-> t, n |-> sends[t] + 1, tag |-> g, size |-> z]
    IN  /\ pc[t] = "idle"
        /\ sends[t] < plan.sends[t]
        /\ MutexFree(s, p)
        /\ fd[s][p]
        /\ wire' = [wire EXCEPT ![s][p] = Append(@, Header(m))]
        /\ sent' = [sent EXCEPT ![s][p][g] = Append(@, m)]
        /\ sends' = [sends EXCEPT ![t] = @ + 1]
        /\ IF z = "empty"
           THEN UNCHANGED <<pc, call, sendMutex>>
           ELSE /\ sendMutex' = [sendMutex EXCEPT ![s][p] = {t}]
                /\ pc' = [pc EXCEPT ![t] = "sending"]
                /\ call' = [call EXCEPT ![t] = <<p, m>>]
        /\ UNCHANGED <<readerVars, pending, rankVars, got>>

SendPayload(t) ==
    LET s == Home[t]
        p == call[t][1]
    IN  /\ pc[t] = "sending"
        /\ fd[s][p]
        /\ wire' = [wire EXCEPT ![s][p] = Append(@, Payload(call[t][2]))]
        /\ sendMutex' = [sendMutex EXCEPT ![s][p] = {}]
        /\ pc' = [pc EXCEPT ![t] = "idle"]
        /\ call' = [call EXCEPT ![t] = NoCall]
        /\ UNCHANGED <<sends, readerVars, pending, rankVars, history>>

\* The descriptor was closed by finalize_(): writeAll throws, Comm swallows it.
SendFails(t) ==
    /\ \/ \E p \in plan.to[t] :
            /\ pc[t] = "idle" /\ sends[t] < plan.sends[t]
            /\ MutexFree(Home[t], p) /\ ~ fd[Home[t]][p] /\ alive[Home[t]]
            /\ sends' = [sends EXCEPT ![t] = @ + 1]
            /\ UNCHANGED <<pc, call, sendMutex>>
       \/ /\ pc[t] = "sending" /\ ~ fd[Home[t]][call[t][1]]
          /\ sendMutex' = [sendMutex EXCEPT ![Home[t]][call[t][1]] = {}]
          /\ pc' = [pc EXCEPT ![t] = "idle"]
          /\ call' = [call EXCEPT ![t] = NoCall]
          /\ UNCHANGED sends
    /\ UNCHANGED <<wire, readerVars, pending, rankVars, history>>

-----------------------------------------------------------------------------
(* receivePayload() *)

ReceiveBegin(t, p, g) ==
    /\ pc[t] = "idle"
    /\ pc' = [pc EXCEPT ![t] = "receive"]
    /\ call' = [call EXCEPT ![t] = <<p, g>>]
    /\ UNCHANGED <<sends, sendMutex, wire, readerVars, pending, rankVars, history>>

Box(t) == pending[Home[t]][call[t][1]][call[t][2]]

\* Mutant of Popped: the message stays in the queue.
NotPopped(q) == q
Popped(q) == Tail(q)

\* A queued message is handed out even when the rank is shutting down.
ReceiveTakes(t) ==
    LET p == call[t][1]
        g == call[t][2]
    IN  /\ pc[t] = "receive"
        /\ Box(t) # <<>>
        /\ got' = [got EXCEPT ![Home[t]][p][g] = Append(@, Head(Box(t)))]
        /\ pending' = [pending EXCEPT ![Home[t]][p][g] = Popped(@)]
        /\ pc' = [pc EXCEPT ![t] = "idle"]
        /\ call' = [call EXCEPT ![t] = NoCall]
        /\ UNCHANGED <<sends, sendMutex, wire, readerVars, rankVars, sent>>

ReceiveSleeps(t) ==
    /\ pc[t] = "receive"
    /\ Box(t) = <<>>
    /\ ~ readerError[Home[t]] /\ ~ shuttingDown[Home[t]]
    /\ pc' = [pc EXCEPT ![t] = "asleep"]
    /\ UNCHANGED <<call, sends, sendMutex, wire, readerVars, pending, rankVars, history>>

\* Mutant of ReceiveThrows: the call is not given up.
ReceiveThrowsWithin(t) ==
    /\ pc[t] = "receive"
    /\ Box(t) = <<>>
    /\ readerError[Home[t]] \/ shuttingDown[Home[t]]
    /\ pc' = [pc EXCEPT ![t] = "idle"]
    /\ UNCHANGED <<call, sends, sendMutex, wire, readerVars, pending, rankVars, history>>

ReceiveThrows(t) ==
    /\ pc[t] = "receive"
    /\ Box(t) = <<>>
    /\ readerError[Home[t]] \/ shuttingDown[Home[t]]
    /\ pc' = [pc EXCEPT ![t] = "idle"]
    /\ call' = [call EXCEPT ![t] = NoCall]
    /\ UNCHANGED <<sends, sendMutex, wire, readerVars, pending, rankVars, history>>

-----------------------------------------------------------------------------
(* readerLoop() of rank r for peer p *)

ReaderAt(r, p, at) == reader' = [reader EXCEPT ![r][p] = at]

\* The end of readerLoop() after an exception: the first error is kept.
ReaderThrows(r, p) ==
    /\ ReaderAt(r, p, "done")
    /\ hand' = [hand EXCEPT ![r][p] = <<>>]
    /\ readerError' = [readerError EXCEPT ![r] = @ \/ ~ shuttingDown[r]]
    /\ pc' = WokenAt(r)

\* The end of readerLoop() after a break: nothing is recorded.
ReaderEnds(r, p) ==
    /\ ReaderAt(r, p, "done")
    /\ hand' = [hand EXCEPT ![r][p] = <<>>]
    /\ pc' = WokenAt(r)
    /\ UNCHANGED readerError

\* Calls recv() for the next header, or for the payload of the one just read.
CallRecv(r, p) ==
    /\ reader[r][p] \in {"loop", "sized"}
    /\ IF fd[r][p]
       THEN /\ ReaderAt(r, p, IF reader[r][p] = "loop" THEN "header" ELSE "payload")
            /\ UNCHANGED <<pc, hand, readerError>>
       ELSE ReaderThrows(r, p)
    /\ UNCHANGED <<call, sends, sendMutex, wire, pending, rankVars, history>>

ReadHeader(r, p) ==
    /\ reader[r][p] = "header"
    /\ wire[p][r] # <<>>
    /\ wire' = [wire EXCEPT ![p][r] = Tail(@)]
    /\ LET part == Head(wire[p][r])
       IN  IF part.part = "header"
           THEN /\ hand' = [hand EXCEPT ![r][p] = <<part.msg>>]
                /\ ReaderAt(r, p, IF part.msg.size = "empty" THEN "push" ELSE "sized")
                /\ UNCHANGED <<pc, readerError>>
           ELSE ReaderThrows(r, p)      \* payload bytes taken for a header
    /\ UNCHANGED <<call, sends, sendMutex, pending, rankVars, history>>

ReadPayload(r, p) ==
    /\ reader[r][p] = "payload"
    /\ wire[p][r] # <<>>
    /\ wire' = [wire EXCEPT ![p][r] = Tail(@)]
    /\ ReaderAt(r, p, "push")
    /\ UNCHANGED <<threadVars, hand, readerError, pending, rankVars, history>>

\* Mutant of ReadEof: a 0 from recv() is taken for "try again".
ReadEofRetries(r, p) ==
    /\ reader[r][p] \in {"header", "payload"}
    /\ wire[p][r] = <<>> /\ Released(p, r)
    /\ UNCHANGED vars

\* recv() returns 0: the peer has ended the connection.
ReadEof(r, p) ==
    /\ reader[r][p] \in {"header", "payload"}
    /\ wire[p][r] = <<>>
    /\ Released(p, r)
    /\ ReaderEnds(r, p)
    /\ UNCHANGED <<call, sends, sendMutex, wire, pending, rankVars, history>>

\* recv() fails: the peer ended the connection with bytes of ours unread.
ReadReset(r, p) ==
    /\ reader[r][p] \in {"header", "payload"}
    /\ Released(p, r)
    /\ wire[r][p] # <<>>
    /\ ReaderThrows(r, p)
    /\ UNCHANGED <<call, sends, sendMutex, wire, pending, rankVars, history>>

\* Mutant of Pushed: push_front.
PushedInFront(q, m) == m \o q
Pushed(q, m) == q \o m

\* Under _messageMutex: queue the message and wake every receiver, or give up.
Push(r, p) ==
    /\ reader[r][p] = "push"
    /\ IF shuttingDown[r]
       THEN ReaderEnds(r, p) /\ UNCHANGED pending
       ELSE /\ pending' = [pending EXCEPT ![r][p][hand[r][p][1].tag] = Pushed(@, hand[r][p])]
            /\ ReaderAt(r, p, "loop")
            /\ hand' = [hand EXCEPT ![r][p] = <<>>]
            /\ pc' = WokenAt(r)
            /\ UNCHANGED readerError
    /\ UNCHANGED <<call, sends, sendMutex, wire, rankVars, history>>

-----------------------------------------------------------------------------
(* finalize_(), called by the main thread of a rank *)

FinalizeBegin(r) ==
    /\ r \in plan.finalizing
    /\ alive[r] /\ ~ shuttingDown[r]
    /\ shuttingDown' = [shuttingDown EXCEPT ![r] = TRUE]
    /\ fin' = [fin EXCEPT ![r] = "closing"]
    /\ pc' = WokenAt(r)
    /\ UNCHANGED <<call, sends, sendMutex, wire, readerVars, pending, fd, alive, history>>

\* The descriptors are closed one after the other.
FinalizeClose(r) ==
    /\ fin[r] = "closing"
    /\ \E p \in Peers(r) :
         /\ fd[r][p] /\ \A q \in Peers(r) : q < p => ~ fd[r][q]
         /\ fd' = [fd EXCEPT ![r][p] = FALSE]
         /\ fin' = [fin EXCEPT ![r] = IF \E q \in Peers(r) : q > p THEN @ ELSE "joining"]
    /\ UNCHANGED <<threadVars, wire, readerVars, pending, shuttingDown, alive, history>>

FinalizeReturns(r) ==
    /\ fin[r] = "joining"
    /\ \A p \in Peers(r) : reader[r][p] = "done"
    /\ fin' = [fin EXCEPT ![r] = "done"]
    /\ UNCHANGED <<threadVars, wire, readerVars, pending, fd, shuttingDown, alive, history>>

\* The process of rank r is gone; the kernel closes what it had open.
Die(r) ==
    /\ alive[r]
    /\ alive' = [alive EXCEPT ![r] = FALSE]
    /\ fin' = [fin EXCEPT ![r] = "dead"]
    /\ fd' = [fd EXCEPT ![r] = [p \in Ranks |-> FALSE]]
    /\ reader' = [reader EXCEPT ![r] = [p \in Ranks |-> "done"]]
    /\ hand' = [hand EXCEPT ![r] = [p \in Ranks |-> <<>>]]
    /\ sendMutex' = [sendMutex EXCEPT ![r] = [p \in Ranks |-> {}]]
    /\ pc' = [t \in Threads |-> IF Home[t] = r THEN "dead" ELSE pc[t]]
    /\ call' = [t \in Threads |-> IF Home[t] = r THEN NoCall ELSE call[t]]
    /\ UNCHANGED <<sends, wire, readerError, pending, shuttingDown, history>>

\* send() without MSG_NOSIGNAL on a connection the peer has ended raises SIGPIPE.
SigPipe(t) ==
    /\ \/ pc[t] = "idle" /\ sends[t] < plan.sends[t]
          /\ \E p \in plan.to[t] :
                MutexFree(Home[t], p) /\ fd[Home[t]][p] /\ Released(p, Home[t])
       \/ pc[t] = "sending" /\ fd[Home[t]][call[t][1]] /\ Released(call[t][1], Home[t])
    /\ Die(Home[t])

Crash(r) == r \in plan.crashing /\ Die(r)

-----------------------------------------------------------------------------

SendStep(t) == SendPayload(t) \/ SendFails(t)
ReceiveStep(t) == ReceiveTakes(t) \/ ReceiveSleeps(t) \/ ReceiveThrows(t)
ThreadStep(t) ==
    \/ \E p \in plan.to[t], g \in plan.tags, z \in plan.sizes : SendHeader(t, p, g, z)
    \/ \E p \in plan.from[t], g \in plan.tags : ReceiveBegin(t, p, g)
    \/ SendStep(t)
    \/ ReceiveStep(t)
    \/ SigPipe(t)

ReaderStep(r, p) ==
    \/ CallRecv(r, p) \/ ReadHeader(r, p) \/ ReadPayload(r, p)
    \/ ReadEof(r, p) \/ ReadReset(r, p) \/ Push(r, p)

FinalizeStep(r) == FinalizeClose(r) \/ FinalizeReturns(r)

Next ==
    /\ \/ \E t \in Threads : ThreadStep(t)
       \/ \E r \in Ranks : \E p \in Peers(r) : ReaderStep(r, p)
       \/ \E r \in Ranks : FinalizeBegin(r) \/ FinalizeStep(r) \/ Crash(r)
    /\ UNCHANGED plan

Spec == Init /\ [][Next]_vars

(* Every thread that can run does run; nobody is obliged to begin a call, to  *)
(* finalize or to die.                                                       *)
Fairness ==
    /\ \A t \in Threads : WF_moving(SendStep(t)) /\ WF_moving(ReceiveStep(t))
    /\ \A r \in Ranks : WF_moving(FinalizeStep(r))
    /\ \A r \in Ranks : \A p \in Peers(r) : WF_moving(ReaderStep(r, p))

FairSpec == Spec /\ Fairness

-----------------------------------------------------------------------------

TypeOK ==
    /\ pc \in [Threads -> {"idle", "sending", "receive", "asleep", "dead"}]
    /\ \A t \in Threads :
         /\ pc[t] \in {"idle", "dead"} => call[t] = NoCall
         /\ pc[t] = "sending" => call[t] \in Peers(Home[t]) \X Messages
         /\ pc[t] \in {"receive", "asleep"} => call[t] \in Peers(Home[t]) \X Tags
         /\ sends[t] \in 0 .. plan.sends[t]
    /\ sendMutex \in [Ranks -> [Ranks -> SUBSET Threads]]
    /\ \A s, r \in Ranks : \A i \in DOMAIN wire[s][r] :
         wire[s][r][i] \in [part : {"header", "payload"}, msg : Messages]
    /\ fd \in [Ranks -> [Ranks -> BOOLEAN]]
    /\ reader \in [Ranks -> [Ranks -> {"loop", "header", "sized", "payload", "push", "done"}]]
    /\ \A r, p \in Ranks :
         /\ hand[r][p] \in Seq(Messages) /\ Len(hand[r][p]) =< 1
         /\ \A g \in Tags : pending[r][p][g] \in Seq(Messages)
    /\ shuttingDown \in [Ranks -> BOOLEAN] /\ readerError \in [Ranks -> BOOLEAN]
    /\ fin \in [Ranks -> {"no", "closing", "joining", "done", "dead"}]
    /\ alive \in [Ranks -> BOOLEAN]

(* sendPayload() writes header and payload separately.  Whatever the threads  *)
(* of a rank send to one peer at the same time, the peer's reader finds every *)
(* header where it expects one, followed by the payload that belongs to it.   *)
FramesWhole ==
    \A s, r \in Ranks : s # r /\ reader[r][s] # "done" =>
        LET w == wire[s][r]
            before(i) == IF i > 1 THEN w[i - 1]
                         ELSE IF reader[r][s] \in {"sized", "payload"} THEN Header(hand[r][s][1])
                         ELSE <<>>
        IN  \A i \in DOMAIN w :
              IF w[i].part = "payload"
              THEN before(i) = Header(w[i].msg)
              ELSE \/ before(i) = <<>>
                   \/ before(i).part = "payload"
                   \/ before(i).msg.size = "empty"

\* Where the headers of one tag are in the parts w of a connection.
HeadersOf(w, g) == {i \in DOMAIN w : w[i].part = "header" /\ w[i].msg.tag = g}

\* Those headers announce the messages of q, in that order.
Announces(w, g, q) ==
    \E at \in [DOMAIN q -> HeadersOf(w, g)] :
        /\ \A i \in DOMAIN q : w[at[i]].msg = q[i]
        /\ \A i, j \in DOMAIN q : i < j => at[i] < at[j]
        /\ \A k \in HeadersOf(w, g) : \E i \in DOMAIN q : at[i] = k

InHand(r, s, g) ==
    IF hand[r][s] # <<>> /\ hand[r][s][1].tag = g THEN hand[r][s] ELSE <<>>

Begins(q, whole) == Len(q) =< Len(whole) /\ q = SubSeq(whole, 1, Len(q))
After(q, whole)  == SubSeq(whole, Len(q) + 1, Len(whole))

(* Sorting by (sender, tag) into _pendingMessages loses, repeats and reorders *)
(* nothing: as long as its reader runs, what a rank sent with a tag is what   *)
(* was received, then what is pending, in the reader's hand, on the wire.     *)
(* Once the reader has ended, what arrived is still the beginning of it.      *)
NothingLost ==
    \A s, r \in Ranks, g \in Tags : s # r =>
        LET arrived == got[r][s][g] \o pending[r][s][g]
            read    == arrived \o InHand(r, s, g)
        IN  IF reader[r][s] # "done"
            THEN /\ Begins(read, sent[s][r][g])
                 /\ Announces(wire[s][r], g, After(read, sent[s][r][g]))
            ELSE Begins(arrived, sent[s][r][g])

(* One condition variable serves every key, every error and the shutdown, and *)
(* receivers re-check their own key.  No thread sleeps in receivePayload()    *)
(* while its message is pending, after a reader failed, or after finalize_()  *)
(* has begun.                                                                 *)
SleepJustified ==
    \A t \in Threads : pc[t] = "asleep" =>
        /\ Box(t) = <<>>
        /\ ~ readerError[Home[t]]
        /\ ~ shuttingDown[Home[t]]

(* TcpComm keeps the promise of TagMailbox whatever finalizes or dies. *)
Mailbox == INSTANCE TagMailbox WITH
    Ranks <- Ranks, Tags <- Tags, Messages <- Messages, sent <- sent, got <- got
MailboxSpec == Mailbox!Spec

\* Thread t is in a receive for which a message was sent.
Owed(t) ==
    /\ pc[t] \in {"receive", "asleep"}
    /\ LET r == Home[t]
           s == call[t][1]
           g == call[t][2]
       IN  Len(got[r][s][g]) < Len(sent[s][r][g])

(* As long as nobody finalizes or dies, a receive for which a message was     *)
(* sent returns, whatever other tags and threads share the connection.        *)
Undisturbed == \A r \in Ranks : alive[r] /\ ~ shuttingDown[r]
ReceiveCompletes == \A t \in Threads : Owed(t) ~> ~ Owed(t) \/ ~ Undisturbed

(* System.cpp:32 tells the user to press Ctrl + C when the shutdown does not  *)
(* finish: once both peers of a rank are gone, its finalize_() does return.   *)
FinalizeReturnsWhenPeersDie ==
    \A r \in Ranks :
        fin[r] = "joining" /\ (\A p \in Peers(r) : ~ alive[p]) ~> fin[r] \in {"done", "dead"}

(* README.md:220 has every executable end with System::finalize(): when all   *)
(* ranks call it, it returns on every one of them.                            *)
FinalizeTerminates ==
    (\A r \in Ranks : fin[r] # "no") ~> (\A r \in Ranks : fin[r] \in {"done", "dead"})

=============================================================================
