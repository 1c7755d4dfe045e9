------------------------------ MODULE TcpMesh ------------------------------
(***************************************************************************)
(* TcpComm::init_() and establishConnections(): how three processes started *)
(* in any order end up with one connection per pair.  A rank listens, then  *)
(* connects to every lower rank and tells it who it is, then accepts as     *)
(* many connections as there are higher ranks, in whatever order they come. *)
(* A process may die on the way; nobody starts it again.                    *)
(***************************************************************************)
EXTENDS Naturals, Sequences

CONSTANT Dying      \* ranks whose process may die during init_()

Ranks == 0 .. 2

ASSUME DyingAssumption == Dying \subseteq Ranks

NoConnection == <<>>

VARIABLES
    step,       \* where each rank is in init_()
    peer,       \* the loop variable of the connect and accept loops
    listening,  \* the rank's listen socket exists
    backlog,    \* connections the kernel holds for accept(): the connecting ranks
    greeting,   \* greeting[c][s]: c has written its rank on its connection to s
    accepted,   \* the rank behind the descriptor accept() has just returned
    peerFds     \* _peerFds: the connection <<connecting rank, accepting rank>>

vars == <<step, peer, listening, backlog, greeting, accepted, peerFds>>

Init ==
    /\ step = [r \in Ranks |-> "start"]
    /\ peer = [r \in Ranks |-> 0]
    /\ listening = [r \in Ranks |-> FALSE]
    /\ backlog = [r \in Ranks |-> <<>>]
    /\ greeting = [c \in Ranks |-> [s \in Ranks |-> FALSE]]
    /\ accepted = [r \in Ranks |-> 3]
    /\ peerFds = [r \in Ranks |-> [p \in Ranks |-> NoConnection]]

Alive(r) == step[r] # "dead"
Goto(r, at) == step' = [step EXCEPT ![r] = at]

(* The process ends; its listen socket goes with it, what it has written stays *)
(* readable.  An exception leaves init_(), which nobody catches.              *)
Gone(r) ==
    /\ Goto(r, "dead")
    /\ listening' = [listening EXCEPT ![r] = FALSE]
    /\ UNCHANGED <<peer, backlog, greeting, accepted, peerFds>>

\* createListenSocket(): bind and listen, before anything else.
Listen(r) ==
    /\ step[r] = "start"
    /\ listening' = [listening EXCEPT ![r] = TRUE]
    /\ IF r = 0
       THEN Goto(r, "accept") /\ peer' = [peer EXCEPT ![r] = 1]
       ELSE Goto(r, "connect") /\ UNCHANGED peer
    /\ UNCHANGED <<backlog, greeting, accepted, peerFds>>

\* connect() succeeds as soon as the peer listens, whether it accepts yet or not.
Connect(r) ==
    /\ step[r] = "connect"
    /\ listening[peer[r]]
    /\ backlog' = [backlog EXCEPT ![peer[r]] = Append(@, r)]
    /\ Goto(r, "greet")
    /\ UNCHANGED <<peer, listening, greeting, accepted, peerFds>>

\* ECONNREFUSED: sleep and try again; the state does not change.
ConnectRefused(r) ==
    /\ step[r] = "connect"
    /\ ~ listening[peer[r]]
    /\ UNCHANGED vars

\* Mutant of Greet: the rank is not written.
GreetSilently(r) ==
    /\ step[r] = "greet"
    /\ peerFds' = [peerFds EXCEPT ![r][peer[r]] = <<r, peer[r]>>]
    /\ IF peer[r] + 1 < r
       THEN Goto(r, "connect") /\ peer' = [peer EXCEPT ![r] = @ + 1]
       ELSE /\ peer' = [peer EXCEPT ![r] = r + 1]
            /\ Goto(r, IF r + 1 \in Ranks THEN "accept" ELSE "up")
    /\ UNCHANGED <<listening, backlog, greeting, accepted>>

\* writeAll(fd, &rank), then the next lower rank or the accept loop.
Greet(r) ==
    /\ step[r] = "greet"
    /\ greeting' = [greeting EXCEPT ![r][peer[r]] = TRUE]
    /\ peerFds' = [peerFds EXCEPT ![r][peer[r]] = <<r, peer[r]>>]
    /\ IF peer[r] + 1 < r
       THEN Goto(r, "connect") /\ peer' = [peer EXCEPT ![r] = @ + 1]
       ELSE /\ peer' = [peer EXCEPT ![r] = r + 1]
            /\ Goto(r, IF r + 1 \in Ranks THEN "accept" ELSE "up")
    /\ UNCHANGED <<listening, backlog, accepted>>

\* The rank at the other end is gone: the write fails, or raises SIGPIPE.
GreetFails(r) ==
    /\ step[r] = "greet"
    /\ ~ Alive(peer[r])
    /\ Gone(r)

\* acceptPeer()
Accept(r) ==
    /\ step[r] = "accept"
    /\ backlog[r] # <<>>
    /\ accepted' = [accepted EXCEPT ![r] = Head(backlog[r])]
    /\ backlog' = [backlog EXCEPT ![r] = Tail(@)]
    /\ Goto(r, "handshake")
    /\ UNCHANGED <<peer, listening, greeting, peerFds>>

\* Mutant of PeerRankRead: the rank is known without having been read.
PeerRankAssumed(r) == accepted[r]

(* The rank that readAll() stores: -1 remains when the peer died before it    *)
(* wrote one, because the result of readAll() is not looked at.               *)
PeerRankRead(r) == IF greeting[accepted[r]][r] THEN accepted[r] ELSE 0 - 1
ReadReturns(r) == greeting[accepted[r]][r] \/ ~ Alive(accepted[r])

\* Mutants of Handshake: the descriptor is filed under the loop variable; the
\* loop variable advances by the rank that was read.
HandshakeFiled(r, slot, step1) ==
    LET p == PeerRankRead(r)
    IN  /\ step[r] = "handshake"
        /\ ReadReturns(r)
        /\ p \in Ranks /\ p > r
        /\ peerFds' = [peerFds EXCEPT ![r][slot] = <<accepted[r], r>>]
        /\ accepted' = [accepted EXCEPT ![r] = 3]
        /\ peer' = [peer EXCEPT ![r] = @ + step1]
        /\ Goto(r, IF peer[r] + 1 \in Ranks THEN "accept" ELSE "up")
        /\ UNCHANGED <<listening, backlog, greeting>>
HandshakeInLoopOrder(r) == HandshakeFiled(r, peer[r], 1)
HandshakeSkips(r) == HandshakeFiled(r, PeerRankRead(r), PeerRankRead(r))

Handshake(r) ==
    LET p == PeerRankRead(r)
    IN  /\ step[r] = "handshake"
        /\ ReadReturns(r)
        /\ p \in Ranks /\ p > r
        /\ peerFds' = [peerFds EXCEPT ![r][p] = <<accepted[r], r>>]
        /\ accepted' = [accepted EXCEPT ![r] = 3]
        /\ peer' = [peer EXCEPT ![r] = @ + 1]
        /\ Goto(r, IF peer[r] + 1 \in Ranks THEN "accept" ELSE "up")
        /\ UNCHANGED <<listening, backlog, greeting>>

\* "Invalid TCP peer rank."
HandshakeThrows(r) ==
    LET p == PeerRankRead(r)
    IN  /\ step[r] = "handshake"
        /\ ReadReturns(r)
        /\ ~ (p \in Ranks /\ p > r)
        /\ Gone(r)

Die(r) == r \in Dying /\ step[r] \notin {"dead", "up"} /\ Gone(r)

Step(r) ==
    \/ Listen(r) \/ Connect(r) \/ ConnectRefused(r) \/ Greet(r) \/ GreetFails(r)
    \/ Accept(r) \/ Handshake(r) \/ HandshakeThrows(r)

Next == \E r \in Ranks : Step(r) \/ Die(r)

Spec == Init /\ [][Next]_vars

\* The three processes run.
FairSpec == Spec /\ \A r \in Ranks : WF_vars(Step(r))

-----------------------------------------------------------------------------

TypeOK ==
    /\ step \in [Ranks -> {"start", "connect", "greet", "accept", "handshake", "up", "dead"}]
    /\ peer \in [Ranks -> 0 .. 3]
    /\ listening \in [Ranks -> BOOLEAN]
    /\ backlog \in [Ranks -> Seq(Ranks)]
    /\ greeting \in [Ranks -> [Ranks -> BOOLEAN]]
    /\ accepted \in [Ranks -> 0 .. 3]
    /\ peerFds \in [Ranks -> [Ranks -> (Ranks \X Ranks) \cup {NoConnection}]]

(* A rank whose init_() has returned holds, for every peer, the one           *)
(* connection between the two, although accept() returns the higher ranks in  *)
(* any order and a peer may have died between connect() and its greeting.     *)
MeshComplete ==
    \A r, p \in Ranks : step[r] = "up" /\ p # r =>
        peerFds[r][p] = IF p < r THEN <<r, p>> ELSE <<p, r>>

(* Whatever the order in which the processes are started, the handshakes do   *)
(* not wait for each other in a circle: while nobody dies, init_() returns on *)
(* all three.                                                                *)
EveryoneUp == [](\A r \in Ranks : Alive(r)) => <>[](\A r \in Ranks : step[r] = "up")

(* When a process dies on the way, nobody comes up believing it is connected  *)
(* to a rank that had not connected: a rank that is up heard from everyone.   *)
UpHeardFromHigherRanks ==
    \A r, p \in Ranks : step[r] = "up" /\ p > r => greeting[p][r]

=============================================================================
