--------------------------- MODULE TcpMeshProofs ---------------------------
(* What establishConnections() guarantees whichever processes die during     *)
(* init_(), and whenever.                                                    *)
EXTENDS TcpMesh, FiniteSetTheorems, SequenceTheorems, TLAPS

\* Where a process may be in init_().
Steps == {"start", "connect", "greet", "accept", "handshake", "up", "dead"}

-----------------------------------------------------------------------------
(* The inductive invariant *)

\* The loop variable runs over the lower ranks, then over the higher ones.
LoopsRun ==
    \A r \in Ranks :
        /\ step[r] = "start" => peer[r] = 0
        /\ step[r] \in {"connect", "greet"} => peer[r] < r
        /\ step[r] \in {"accept", "handshake"} => peer[r] > r /\ peer[r] < 3

\* What a rank has accepted or may accept comes from a higher rank, and once.
ComesOnceTo(s) ==
    /\ step[s] \in {"start", "connect", "greet", "accept"} => accepted[s] = 3
    /\ step[s] = "handshake" => accepted[s] # 3
    /\ accepted[s] # 3 => accepted[s] > s /\ peerFds[s][accepted[s]] = NoConnection
    /\ \A i \in DOMAIN backlog[s] :
         /\ backlog[s][i] > s /\ backlog[s][i] # accepted[s]
         /\ peerFds[s][backlog[s][i]] = NoConnection
         /\ \A j \in DOMAIN backlog[s] : backlog[s][i] = backlog[s][j] => i = j

\* So for every rank.
ComesOnce == \A s \in Ranks : ComesOnceTo(s)

\* Rank c has still to connect to the lower rank s.
StillToConnect(c, s) ==
    \/ step[c] = "start"
    \/ step[c] = "connect" /\ peer[c] =< s
    \/ step[c] = "greet" /\ peer[c] < s

\* Who has not connected yet is nowhere with the rank it will connect to.
NothingBefore ==
    \A c, s \in Ranks : s < c /\ StillToConnect(c, s) =>
        /\ accepted[s] # c /\ peerFds[s][c] = NoConnection
        /\ \A i \in DOMAIN backlog[s] : backlog[s][i] # c

\* A descriptor filed under a rank is the connection with it.
FiledRight ==
    \A r, p \in Ranks :
        /\ p < r /\ (step[r] \in {"connect", "greet"} => p < peer[r]) =>
             step[r] \in {"start", "dead"} \/ peerFds[r][p] = <<r, p>>
        /\ p > r /\ peerFds[r][p] # NoConnection => peerFds[r][p] = <<p, r>> /\ greeting[p][r]

\* The higher ranks that r holds a connection to.
Filed(r) == {p \in Ranks : p > r /\ peerFds[r][p] # NoConnection}

\* The accept loop counts the higher ranks it has filed.
FiledCounted ==
    \A r \in Ranks :
        /\ step[r] \in {"start", "connect", "greet"} => Filed(r) = {}
        /\ step[r] \in {"accept", "handshake"} => Cardinality(Filed(r)) = peer[r] - r - 1
        /\ step[r] = "up" => Cardinality(Filed(r)) = 2 - r

\* The inductive invariant.
IInv == TypeOK /\ LoopsRun /\ ComesOnce /\ NothingBefore /\ FiledRight /\ FiledCounted

-----------------------------------------------------------------------------

\* The invariant holds before any process has started.
LEMMA InitHolds == Init => IInv
<1> SUFFICES ASSUME Init PROVE IInv
  OBVIOUS
<1>1. TypeOK
  BY DEF Init, TypeOK, Ranks
<1>2. LoopsRun /\ ComesOnce /\ NothingBefore /\ FiledRight
  BY DEF Init, LoopsRun, ComesOnce, ComesOnceTo, NothingBefore, FiledRight, Ranks
<1>3. \A r \in Ranks : Filed(r) = {}
  BY DEF Init, Filed, Ranks
<1> QED
  BY <1>1, <1>2, <1>3 DEF Init, IInv, FiledCounted

\* A process that ends.
LEMMA GoneKeeps ==
    ASSUME IInv, NEW r \in Ranks, Gone(r)
    PROVE  IInv'
<1> USE DEF IInv, Gone, Goto
<1>0. step' = [step EXCEPT ![r] = "dead"] /\ step \in [Ranks -> Steps]
  BY DEF TypeOK, Steps
<1>1. TypeOK'
  BY DEF TypeOK
<1>2. LoopsRun'
  BY <1>0 DEF LoopsRun
<1>3. ComesOnce'
  BY <1>0 DEF ComesOnce, ComesOnceTo
<1>4. NothingBefore'
  BY <1>0 DEF NothingBefore, StillToConnect
<1>5. FiledRight'
  BY <1>0 DEF FiledRight
<1>6. \A s \in Ranks : Filed(s)' = Filed(s)
  BY DEF Filed
<1>7. FiledCounted'
  BY <1>0, <1>6 DEF FiledCounted
<1> QED
  BY <1>1, <1>2, <1>3, <1>4, <1>5, <1>7

\* It survives listen().
LEMMA ListenKeeps ==
    ASSUME IInv, NEW r \in Ranks, Listen(r)
    PROVE  IInv'
<1> USE DEF IInv, Listen, Goto
<1>0. /\ step \in [Ranks -> Steps] /\ peer \in [Ranks -> 0 .. 3] /\ step[r] = "start" /\ peer[r] = 0
      /\ step' = [step EXCEPT ![r] = IF r = 0 THEN "accept" ELSE "connect"]
      /\ peer' = [peer EXCEPT ![r] = IF r = 0 THEN 1 ELSE @]
  BY DEF TypeOK, Steps, LoopsRun
<1>1. TypeOK'
  BY <1>0 DEF TypeOK
<1>2. LoopsRun'
  BY <1>0 DEF LoopsRun, Ranks
<1>3. ComesOnce'
  BY <1>0 DEF ComesOnce, ComesOnceTo
<1>4. NothingBefore'
  BY <1>0 DEF NothingBefore, StillToConnect, Ranks
<1>5. FiledRight'
  BY <1>0 DEF FiledRight, Ranks
<1>6. \A s \in Ranks : Filed(s)' = Filed(s)
  BY DEF Filed
<1>7. FiledCounted'
  BY <1>0, <1>6, FS_EmptySet DEF FiledCounted, Ranks
<1> QED
  BY <1>1, <1>2, <1>3, <1>4, <1>5, <1>7

\* It survives connect(): the caller was nowhere with the lower rank and is now in its backlog.
LEMMA ConnectKeeps ==
    ASSUME IInv, NEW r \in Ranks, Connect(r)
    PROVE  IInv'
<1> USE DEF IInv, Connect, Goto
<1>0. /\ step \in [Ranks -> Steps] /\ peer \in [Ranks -> 0 .. 3] /\ step[r] = "connect"
      /\ step' = [step EXCEPT ![r] = "greet"]
      /\ UNCHANGED <<peer, listening, greeting, accepted, peerFds>>
  BY DEF TypeOK, Steps
<1> DEFINE p == peer[r]
<1>p. p \in Ranks /\ p < r
  BY <1>0 DEF LoopsRun, Ranks
<1>b. /\ backlog \in [Ranks -> Seq(Ranks)] /\ backlog' = [backlog EXCEPT ![p] = Append(@, r)]
  BY DEF TypeOK
<1>c. /\ \A s \in Ranks : s # p => backlog'[s] = backlog[s]
      /\ backlog[p] \in Seq(Ranks) /\ backlog'[p] = Append(backlog[p], r)
      /\ backlog' \in [Ranks -> Seq(Ranks)]
  BY <1>p, <1>b
<1>d. /\ DOMAIN backlog[p] = 1 .. Len(backlog[p]) /\ Len(backlog[p]) \in Nat
      /\ DOMAIN backlog'[p] = 1 .. Len(backlog[p]) + 1
      /\ \A i \in DOMAIN backlog'[p] :
           backlog'[p][i] = IF i \in DOMAIN backlog[p] THEN backlog[p][i] ELSE r
  <2>1. Append(backlog[p], r) \in Seq(Ranks)
    BY <1>c, AppendProperties
  <2>2. Len(Append(backlog[p], r)) = Len(backlog[p]) + 1
    BY <1>c, AppendProperties
  <2> QED
    BY <1>c, <2>1, <2>2, LenProperties, AppendProperties
<1>e. /\ accepted[p] # r /\ peerFds[p][r] = NoConnection
      /\ \A i \in DOMAIN backlog[p] : backlog[p][i] # r
  BY <1>p DEF NothingBefore, StillToConnect, Ranks
<1>1. TypeOK'
  BY <1>0, <1>c DEF TypeOK
<1>2. LoopsRun'
  BY <1>0 DEF LoopsRun
<1>3. ComesOnce'
  <2> SUFFICES ASSUME NEW s \in Ranks
               PROVE  ComesOnceTo(s)'
    BY DEF ComesOnce, ComesOnceTo
  <2>1. CASE s # p
    BY <1>0, <1>c, <2>1 DEF ComesOnce, ComesOnceTo
  <2>2. CASE s = p
    BY <1>0, <1>p, <1>d, <1>e, <2>2 DEF ComesOnce, ComesOnceTo
  <2> QED
    BY <2>1, <2>2
<1>4. NothingBefore'
  <2> SUFFICES ASSUME NEW c \in Ranks, NEW s \in Ranks, s < c, StillToConnect(c, s)'
               PROVE  /\ accepted'[s] # c /\ peerFds'[s][c] = NoConnection
                      /\ \A i \in DOMAIN backlog'[s] : backlog'[s][i] # c
    BY DEF NothingBefore
  <2>1. StillToConnect(c, s)
    BY <1>0 DEF StillToConnect, Ranks
  <2>2. accepted[s] # c /\ peerFds[s][c] = NoConnection /\ \A i \in DOMAIN backlog[s] : backlog[s][i] # c
    BY <2>1 DEF NothingBefore
  <2>3. c = r => s # p
    BY <1>0 DEF StillToConnect, Ranks
  <2>4. CASE s # p
    BY <1>0, <1>c, <2>2, <2>4
  <2>5. CASE s = p
    BY <1>0, <1>d, <2>2, <2>3, <2>5
  <2> QED
    BY <2>4, <2>5
<1>5. FiledRight'
  BY <1>0 DEF FiledRight
<1>6. \A s \in Ranks : Filed(s)' = Filed(s)
  BY <1>0 DEF Filed
<1>7. FiledCounted'
  BY <1>0, <1>6 DEF FiledCounted
<1> QED
  BY <1>1, <1>2, <1>3, <1>4, <1>5, <1>7

\* It survives the greeting: the caller files the connection and goes on to the next rank.
LEMMA GreetKeeps ==
    ASSUME IInv, NEW r \in Ranks, Greet(r)
    PROVE  IInv'
<1> USE DEF IInv
<1> DEFINE p == peer[r]
           more == p + 1 < r
           at == IF more THEN "connect" ELSE IF r + 1 \in Ranks THEN "accept" ELSE "up"
<1>0. /\ step \in [Ranks -> Steps] /\ peer \in [Ranks -> 0 .. 3] /\ step[r] = "greet"
      /\ peerFds \in [Ranks -> [Ranks -> (Ranks \X Ranks) \cup {NoConnection}]]
      /\ greeting \in [Ranks -> [Ranks -> BOOLEAN]]
      /\ UNCHANGED <<listening, backlog, accepted>>
  BY DEF TypeOK, Steps, Greet
<1>p. p \in Ranks /\ p < r
  BY <1>0 DEF LoopsRun, Ranks
<1>1. /\ step' = [step EXCEPT ![r] = at]
      /\ peer' = [peer EXCEPT ![r] = IF more THEN p + 1 ELSE r + 1]
      /\ greeting' = [greeting EXCEPT ![r][p] = TRUE]
      /\ peerFds' = [peerFds EXCEPT ![r][p] = <<r, p>>]
  BY DEF Greet, Goto
<1>2. /\ \A s, q \in Ranks : s # r \/ q # p => peerFds'[s][q] = peerFds[s][q] /\ greeting'[s][q] = greeting[s][q]
      /\ peerFds'[r][p] = <<r, p>> /\ greeting'[r][p] = TRUE
      /\ \A s \in Ranks : s # r => step'[s] = step[s] /\ peer'[s] = peer[s]
      /\ step'[r] = at /\ peer'[r] = IF more THEN p + 1 ELSE r + 1
  BY <1>0, <1>p, <1>1
<1>3. TypeOK'
  BY <1>0, <1>p, <1>1 DEF TypeOK, Ranks
<1>4. LoopsRun'
  BY <1>0, <1>p, <1>2 DEF LoopsRun, Ranks
<1>5. ComesOnce'
  <2> SUFFICES ASSUME NEW s \in Ranks
               PROVE  ComesOnceTo(s)'
    BY DEF ComesOnce
  <2>1. \A q \in Ranks : q > s => peerFds'[s][q] = peerFds[s][q]
    BY <1>p, <1>2 DEF Ranks
  <2>2. \A i \in DOMAIN backlog[s] : backlog[s][i] \in Ranks
    BY DEF TypeOK
  <2>3. accepted[s] \in 0 .. 3
    BY DEF TypeOK
  <2>4. step'[s] \in {"start", "connect", "greet", "accept"} => step[s] \in {"start", "connect", "greet", "accept"}
    BY <1>0, <1>2
  <2>5. step'[s] = "handshake" => step[s] = "handshake"
    BY <1>2
  <2> QED
    BY <1>0, <2>1, <2>2, <2>3, <2>4, <2>5 DEF ComesOnce, ComesOnceTo, Ranks
<1>6. NothingBefore'
  <2> SUFFICES ASSUME NEW c \in Ranks, NEW s \in Ranks, s < c, StillToConnect(c, s)'
               PROVE  /\ accepted'[s] # c /\ peerFds'[s][c] = NoConnection
                      /\ \A i \in DOMAIN backlog'[s] : backlog'[s][i] # c
    BY DEF NothingBefore
  <2>1. StillToConnect(c, s)
    BY <1>0, <1>p, <1>2 DEF StillToConnect, Ranks
  <2>2. peerFds'[s][c] = peerFds[s][c]
    BY <1>p, <1>2 DEF Ranks
  <2> QED
    BY <1>0, <2>1, <2>2 DEF NothingBefore
<1>7. FiledRight'
  <2> SUFFICES ASSUME NEW s \in Ranks, NEW q \in Ranks
               PROVE  /\ q < s /\ (step'[s] \in {"connect", "greet"} => q < peer'[s]) =>
                           step'[s] \in {"start", "dead"} \/ peerFds'[s][q] = <<s, q>>
                      /\ q > s /\ peerFds'[s][q] # NoConnection => peerFds'[s][q] = <<q, s>> /\ greeting'[q][s]
    BY DEF FiledRight
  <2>1. CASE q > s
    <3>1. peerFds'[s][q] = peerFds[s][q]
      BY <1>p, <1>2, <2>1 DEF Ranks
    <3>2. greeting[q][s] => greeting'[q][s]
      BY <1>p, <1>2
    <3> QED
      BY <2>1, <3>1, <3>2 DEF FiledRight, Ranks
  <2>2. CASE q < s /\ s # r
    BY <1>2, <2>2 DEF FiledRight, Ranks
  <2>3. CASE q < s /\ s = r
    BY <1>0, <1>p, <1>2, <2>3 DEF FiledRight, Ranks
  <2> QED
    BY <2>1, <2>2, <2>3 DEF Ranks
<1>8. \A s \in Ranks : Filed(s)' = Filed(s)
  BY <1>p, <1>2 DEF Filed, Ranks
<1>9. FiledCounted'
  <2>1. Filed(r)' = {} /\ Cardinality({}) = 0
    BY <1>0, <1>8, FS_EmptySet DEF FiledCounted
  <2>2. step'[r] = "accept" => peer'[r] - r - 1 = 0
    BY <1>2 DEF Ranks
  <2>3. step'[r] = "up" => 2 - r = 0
    BY <1>2 DEF Ranks
  <2>4. step'[r] \in {"connect", "accept", "up"}
    BY <1>2
  <2>5. ASSUME NEW s \in Ranks, s # r
        PROVE  step'[s] = step[s] /\ peer'[s] = peer[s] /\ Filed(s)' = Filed(s)
    BY <1>2, <1>8, <2>5
  <2> QED
    BY <2>1, <2>2, <2>3, <2>4, <2>5 DEF FiledCounted
<1> QED
  BY <1>3, <1>4, <1>5, <1>6, <1>7, <1>9

\* It survives accept(): the first of the backlog moves to the accept loop.
LEMMA AcceptKeeps ==
    ASSUME IInv, NEW r \in Ranks, Accept(r)
    PROVE  IInv'
<1> USE DEF IInv
<1> DEFINE c == Head(backlog[r])
<1>0. /\ step \in [Ranks -> Steps] /\ peer \in [Ranks -> 0 .. 3] /\ step[r] = "accept"
      /\ backlog \in [Ranks -> Seq(Ranks)] /\ accepted \in [Ranks -> 0 .. 3]
      /\ backlog[r] # <<>>
      /\ UNCHANGED <<peer, listening, greeting, peerFds>>
  BY DEF TypeOK, Steps, Accept
<1>1. /\ \A s \in Ranks : s # r => /\ step'[s] = step[s] /\ backlog'[s] = backlog[s]
                                   /\ accepted'[s] = accepted[s]
      /\ step'[r] = "handshake" /\ backlog'[r] = Tail(backlog[r]) /\ accepted'[r] = c
  BY <1>0 DEF Accept, Goto
<1>2. /\ c = backlog[r][1] /\ c \in Ranks /\ 1 \in DOMAIN backlog[r]
      /\ Tail(backlog[r]) \in Seq(Ranks)
      /\ \A i \in DOMAIN Tail(backlog[r]) :
           i + 1 \in DOMAIN backlog[r] /\ i + 1 # 1 /\ Tail(backlog[r])[i] = backlog[r][i + 1]
  <2>1. Len(backlog[r]) \in Nat \ {0}
    BY <1>0, EmptySeq
  <2>2. /\ c = backlog[r][1] /\ c \in Ranks /\ Tail(backlog[r]) \in Seq(Ranks)
        /\ Len(Tail(backlog[r])) = Len(backlog[r]) - 1
        /\ \A i \in 1 .. Len(Tail(backlog[r])) : Tail(backlog[r])[i] = backlog[r][i + 1]
    BY <1>0, HeadTailProperties
  <2>3. /\ DOMAIN backlog[r] = 1 .. Len(backlog[r])
        /\ DOMAIN Tail(backlog[r]) = 1 .. Len(Tail(backlog[r]))
    BY <1>0, <2>2, LenProperties
  <2> QED
    BY <2>1, <2>2, <2>3
<1>3. TypeOK'
  <2>1. /\ step' \in [Ranks -> Steps] /\ backlog' \in [Ranks -> Seq(Ranks)]
        /\ accepted' \in [Ranks -> 0 .. 3]
    BY <1>0, <1>2 DEF Accept, Goto, Steps, Ranks
  <2> QED
    BY <1>0, <2>1 DEF TypeOK, Steps
<1>4. LoopsRun'
  BY <1>0, <1>1 DEF LoopsRun
<1>5. ComesOnce'
  <2> SUFFICES ASSUME NEW s \in Ranks
               PROVE  ComesOnceTo(s)'
    BY DEF ComesOnce
  <2>1. ComesOnceTo(s)
    BY DEF ComesOnce
  <2>2. CASE s # r
    BY <1>0, <1>1, <2>1, <2>2 DEF ComesOnceTo
  <2>3. CASE s = r
    <3>1. /\ c > r /\ c # 3 /\ peerFds[r][c] = NoConnection
      BY <1>2, <2>1, <2>3 DEF ComesOnceTo, Ranks
    <3>2. ASSUME NEW i \in DOMAIN Tail(backlog[r])
          PROVE  /\ Tail(backlog[r])[i] > r /\ Tail(backlog[r])[i] # c
                 /\ peerFds[r][Tail(backlog[r])[i]] = NoConnection
                 /\ \A j \in DOMAIN Tail(backlog[r]) :
                      Tail(backlog[r])[i] = Tail(backlog[r])[j] => i = j
      <4>1. /\ i + 1 \in DOMAIN backlog[r] /\ i + 1 # 1 /\ Tail(backlog[r])[i] = backlog[r][i + 1]
        BY <1>2
      <4>2. backlog[r][i + 1] # backlog[r][1]
        BY <1>2, <2>1, <2>3, <4>1 DEF ComesOnceTo
      <4>3. i \in Nat /\ \A j \in DOMAIN Tail(backlog[r]) : j \in Nat
        BY <1>2, LenProperties
      <4>4. ASSUME NEW j \in DOMAIN Tail(backlog[r]), Tail(backlog[r])[i] = Tail(backlog[r])[j]
            PROVE  i = j
        <5>1. j + 1 \in DOMAIN backlog[r] /\ backlog[r][i + 1] = backlog[r][j + 1]
          BY <1>2, <4>1, <4>4
        <5>2. i + 1 = j + 1
          BY <2>1, <2>3, <4>1, <5>1 DEF ComesOnceTo
        <5> QED
          BY <4>3, <5>2
      <4> QED
        BY <1>2, <2>1, <2>3, <4>1, <4>2, <4>4 DEF ComesOnceTo
    <3>3. /\ step'[r] = "handshake" /\ accepted'[r] = c
          /\ backlog'[r] = Tail(backlog[r]) /\ peerFds' = peerFds
      BY <1>0, <1>1
    <3>4. /\ step'[r] \in {"start", "connect", "greet", "accept"} => accepted'[r] = 3
          /\ step'[r] = "handshake" => accepted'[r] # 3
      BY <3>1, <3>3
    <3>5. accepted'[r] # 3 => accepted'[r] > r /\ peerFds'[r][accepted'[r]] = NoConnection
      BY <3>1, <3>3
    <3>6. ASSUME NEW i \in DOMAIN backlog'[r]
          PROVE  /\ backlog'[r][i] > r /\ backlog'[r][i] # accepted'[r]
                 /\ peerFds'[r][backlog'[r][i]] = NoConnection
                 /\ \A j \in DOMAIN backlog'[r] : backlog'[r][i] = backlog'[r][j] => i = j
      BY <3>2, <3>3
    <3> QED
      BY <2>3, <3>4, <3>5, <3>6 DEF ComesOnceTo
  <2> QED
    BY <2>2, <2>3
<1>6. NothingBefore'
  <2> SUFFICES ASSUME NEW b \in Ranks, NEW s \in Ranks, s < b, StillToConnect(b, s)'
               PROVE  /\ accepted'[s] # b /\ peerFds'[s][b] = NoConnection
                      /\ \A i \in DOMAIN backlog'[s] : backlog'[s][i] # b
    BY DEF NothingBefore
  <2>1. StillToConnect(b, s)
    BY <1>0, <1>1 DEF StillToConnect
  <2>2. accepted[s] # b /\ peerFds[s][b] = NoConnection /\ \A i \in DOMAIN backlog[s] : backlog[s][i] # b
    BY <2>1 DEF NothingBefore
  <2>3. CASE s # r
    BY <1>0, <1>1, <2>2, <2>3
  <2>4. CASE s = r
    <3>1. c # b
      BY <1>2, <2>2, <2>4
    <3>2. \A i \in DOMAIN Tail(backlog[r]) : Tail(backlog[r])[i] # b
      BY <1>2, <2>2, <2>4
    <3> QED
      BY <1>0, <1>1, <2>2, <2>4, <3>1, <3>2
  <2> QED
    BY <2>3, <2>4
<1>7. FiledRight'
  BY <1>0, <1>1 DEF FiledRight
<1>8. \A s \in Ranks : Filed(s)' = Filed(s)
  BY <1>0 DEF Filed
<1>9. FiledCounted'
  BY <1>0, <1>1, <1>8 DEF FiledCounted
<1> QED
  BY <1>3, <1>4, <1>5, <1>6, <1>7, <1>9

\* It survives the end of the handshake: one higher rank more is filed.
LEMMA HandshakeKeeps ==
    ASSUME IInv, NEW r \in Ranks, Handshake(r)
    PROVE  IInv'
<1> USE DEF IInv
<1>0. /\ step \in [Ranks -> Steps] /\ peer \in [Ranks -> 0 .. 3] /\ step[r] = "handshake"
      /\ backlog \in [Ranks -> Seq(Ranks)] /\ accepted \in [Ranks -> 0 .. 3]
      /\ peerFds \in [Ranks -> [Ranks -> (Ranks \X Ranks) \cup {NoConnection}]]
      /\ UNCHANGED <<listening, backlog, greeting>>
  BY DEF TypeOK, Steps, Handshake
<1>a. ComesOnceTo(r) /\ peer[r] > r /\ peer[r] < 3
  BY <1>0 DEF ComesOnce, LoopsRun
<1> DEFINE p == accepted[r]
           at == IF peer[r] + 1 \in Ranks THEN "accept" ELSE "up"
<1>p. PeerRankRead(r) = p /\ p \in Ranks /\ p > r /\ greeting[p][r] /\ peerFds[r][p] = NoConnection
  <2>1. PeerRankRead(r) \in Ranks
    BY DEF Handshake
  <2>2. greeting[p][r]
    BY <2>1 DEF PeerRankRead, Ranks
  <2>3. PeerRankRead(r) = p
    BY <2>2 DEF PeerRankRead
  <2> QED
    BY <1>0, <1>a, <2>1, <2>2, <2>3 DEF ComesOnceTo
<1>1. /\ peerFds' = [peerFds EXCEPT ![r][p] = <<p, r>>]
      /\ accepted' = [accepted EXCEPT ![r] = 3]
      /\ peer' = [peer EXCEPT ![r] = @ + 1]
      /\ step' = [step EXCEPT ![r] = at]
  BY <1>p DEF Handshake, Goto
<1>2. /\ \A s, q \in Ranks : s # r \/ q # p => peerFds'[s][q] = peerFds[s][q]
      /\ peerFds'[r][p] = <<p, r>>
      /\ \A s \in Ranks : s # r => /\ step'[s] = step[s] /\ peer'[s] = peer[s]
                                   /\ accepted'[s] = accepted[s]
      /\ step'[r] = at /\ peer'[r] = peer[r] + 1 /\ accepted'[r] = 3
  BY <1>0, <1>p, <1>1
<1>3. TypeOK'
  BY <1>0, <1>p, <1>1, <1>a DEF TypeOK, Ranks
<1>4. LoopsRun'
  BY <1>0, <1>a, <1>2 DEF LoopsRun, Ranks
<1>5. ComesOnce'
  <2> SUFFICES ASSUME NEW s \in Ranks
               PROVE  ComesOnceTo(s)'
    BY DEF ComesOnce
  <2>1. ComesOnceTo(s)
    BY DEF ComesOnce
  <2>2. \A i \in DOMAIN backlog[s] : backlog[s][i] \in Ranks
    BY <1>0
  <2>3. CASE s # r
    <3>1. accepted[s] \in 0 .. 3 /\ \A q \in Ranks : peerFds'[s][q] = peerFds[s][q]
      BY <1>0, <1>2, <2>3
    <3>2. accepted[s] # 3 => accepted[s] \in Ranks
      BY <3>1 DEF Ranks
    <3>3. step'[s] = step[s] /\ accepted'[s] = accepted[s] /\ backlog'[s] = backlog[s]
      BY <1>0, <1>2, <2>3
    <3> QED
      BY <2>1, <2>2, <3>1, <3>2, <3>3 DEF ComesOnceTo
  <2>4. CASE s = r
    <3>1. step'[r] # "handshake" /\ accepted'[r] = 3
      BY <1>2
    <3>2. ASSUME NEW i \in DOMAIN backlog[r]
          PROVE  /\ backlog[r][i] > r /\ backlog[r][i] # 3
                 /\ peerFds'[r][backlog[r][i]] = NoConnection
                 /\ \A j \in DOMAIN backlog[r] : backlog[r][i] = backlog[r][j] => i = j
      <4>1. backlog[r][i] \in Ranks /\ backlog[r][i] # p /\ backlog[r][i] > r
            /\ peerFds[r][backlog[r][i]] = NoConnection
        BY <1>a, <2>2, <2>4 DEF ComesOnceTo
      <4>2. \A j \in DOMAIN backlog[r] : backlog[r][i] = backlog[r][j] => i = j
        BY <1>a DEF ComesOnceTo
      <4>3. peerFds'[r][backlog[r][i]] = NoConnection
        BY <1>2, <4>1
      <4> QED
        BY <4>1, <4>2, <4>3 DEF Ranks
    <3> QED
      BY <1>0, <2>4, <3>1, <3>2 DEF ComesOnceTo
  <2> QED
    BY <2>3, <2>4
<1>6. NothingBefore'
  <2> SUFFICES ASSUME NEW c \in Ranks, NEW s \in Ranks, s < c, StillToConnect(c, s)'
               PROVE  /\ accepted'[s] # c /\ peerFds'[s][c] = NoConnection
                      /\ \A i \in DOMAIN backlog'[s] : backlog'[s][i] # c
    BY DEF NothingBefore
  <2>1. StillToConnect(c, s)
    BY <1>0, <1>2 DEF StillToConnect
  <2>2. accepted[s] # c /\ peerFds[s][c] = NoConnection /\ \A i \in DOMAIN backlog[s] : backlog[s][i] # c
    BY <2>1 DEF NothingBefore
  <2>3. peerFds'[s][c] = peerFds[s][c]
    BY <1>2, <2>2
  <2>4. accepted'[s] # c
    BY <1>2, <2>2 DEF Ranks
  <2> QED
    BY <1>0, <2>2, <2>3, <2>4
<1>7. FiledRight'
  <2> SUFFICES ASSUME NEW s \in Ranks, NEW q \in Ranks
               PROVE  /\ q < s /\ (step'[s] \in {"connect", "greet"} => q < peer'[s]) =>
                           step'[s] \in {"start", "dead"} \/ peerFds'[s][q] = <<s, q>>
                      /\ q > s /\ peerFds'[s][q] # NoConnection => peerFds'[s][q] = <<q, s>> /\ greeting'[q][s]
    BY DEF FiledRight
  <2>1. CASE q > s
    BY <1>0, <1>p, <1>2, <2>1 DEF FiledRight, Ranks
  <2>2. CASE q < s
    <3>1. peerFds'[s][q] = peerFds[s][q]
      BY <1>p, <1>2, <2>2 DEF Ranks
    <3>2. CASE s # r
      BY <1>2, <2>2, <3>1, <3>2 DEF FiledRight, Ranks
    <3>3. CASE s = r
      BY <1>0, <2>2, <3>1, <3>3 DEF FiledRight, Ranks
    <3> QED
      BY <3>2, <3>3
  <2> QED
    BY <2>1, <2>2 DEF Ranks
<1>8. /\ Filed(r)' = Filed(r) \cup {p} /\ p \notin Filed(r)
      /\ \A s \in Ranks : s # r => Filed(s)' = Filed(s)
  <2>1. <<p, r>> # NoConnection
    BY DEF NoConnection
  <2>2. ASSUME NEW q \in Ranks, q # p
        PROVE  q \in Filed(r)' <=> q \in Filed(r)
    BY <1>2, <2>2 DEF Filed
  <2>3. p \in Filed(r)' /\ p \notin Filed(r)
    BY <1>p, <1>2, <2>1 DEF Filed
  <2>4. Filed(r) \subseteq Ranks /\ Filed(r)' \subseteq Ranks
    BY DEF Filed
  <2>5. Filed(r)' = Filed(r) \cup {p}
    BY <2>2, <2>3, <2>4
  <2>6. \A s \in Ranks : s # r => Filed(s)' = Filed(s)
    BY <1>2 DEF Filed
  <2> QED
    BY <2>3, <2>5, <2>6
<1>9. FiledCounted'
  <2>1. IsFiniteSet(Filed(r))
    <3>1. IsFiniteSet(Ranks)
      <4>1. 0 \in Int /\ 2 \in Int
        OBVIOUS
      <4> QED
        BY <4>1, FS_Interval, Zenon DEF Ranks
    <3>2. Filed(r) \subseteq Ranks
      BY DEF Filed
    <3> QED
      BY <3>1, <3>2, FS_Subset
  <2>2. Cardinality(Filed(r)') = Cardinality(Filed(r)) + 1 /\ Cardinality(Filed(r)) = peer[r] - r - 1
    <3>1. Cardinality(Filed(r)) = peer[r] - r - 1 /\ Cardinality(Filed(r)) \in Nat
      BY <1>0, <2>1, FS_CardinalityType DEF FiledCounted
    <3>2. Cardinality(Filed(r)') = Cardinality(Filed(r)) + 1
      BY <1>8, <2>1, FS_AddElement
    <3> QED
      BY <3>1, <3>2
  <2>3. step'[r] = "accept" => Cardinality(Filed(r)') = peer'[r] - r - 1
    BY <1>0, <1>2, <2>2 DEF Ranks
  <2>4. step'[r] = "up" => Cardinality(Filed(r)') = 2 - r
    BY <1>0, <1>2, <1>a, <2>2 DEF Ranks
  <2>5. step'[r] \in {"accept", "up"}
    BY <1>2
  <2>6. ASSUME NEW s \in Ranks, s # r
        PROVE  step'[s] = step[s] /\ peer'[s] = peer[s] /\ Filed(s)' = Filed(s)
    BY <1>2, <1>8, <2>6
  <2> QED
    BY <2>3, <2>4, <2>5, <2>6 DEF FiledCounted
<1> QED
  BY <1>3, <1>4, <1>5, <1>6, <1>7, <1>9

\* Every step keeps the invariant.
LEMMA NextKeepsIInv == IInv /\ [Next]_vars => IInv'
<1> SUFFICES ASSUME IInv, [Next]_vars
             PROVE  IInv'
  OBVIOUS
<1>1. CASE UNCHANGED vars
  <2>1. TypeOK' /\ LoopsRun'
    BY <1>1 DEF IInv, vars, TypeOK, LoopsRun
  <2>2. ComesOnce' /\ NothingBefore'
    BY <1>1 DEF IInv, vars, ComesOnce, ComesOnceTo, NothingBefore, StillToConnect
  <2>3. FiledRight' /\ FiledCounted'
    BY <1>1 DEF IInv, vars, FiledRight, FiledCounted, Filed
  <2> QED
    BY <2>1, <2>2, <2>3 DEF IInv
<1>2. ASSUME NEW r \in Ranks, ConnectRefused(r)
      PROVE  IInv'
  BY <1>1, <1>2 DEF ConnectRefused
<1>3. ASSUME NEW r \in Ranks, GreetFails(r) \/ HandshakeThrows(r) \/ Die(r)
      PROVE  IInv'
  BY <1>3, GoneKeeps DEF GreetFails, HandshakeThrows, Die
<1> QED
  BY <1>1, <1>2, <1>3, ListenKeeps, ConnectKeeps, GreetKeeps, AcceptKeeps, HandshakeKeeps
  DEF Next, Step

\* The invariant holds in every reachable state.
THEOREM Invariance == Spec => []IInv
BY InitHolds, NextKeepsIInv, PTL DEF Spec

\* The loops of init_() and the descriptors they leave stay in range.
THEOREM TypesHold == Spec => []TypeOK
<1>1. IInv => TypeOK
  BY DEF IInv
<1> QED
  BY <1>1, Invariance, PTL

\* A rank that is up has filed every higher rank, for it has filed as many as there are.
LEMMA UpHasFiledAll ==
    ASSUME IInv, NEW r \in Ranks, NEW p \in Ranks, step[r] = "up", p > r
    PROVE  peerFds[r][p] = <<p, r>> /\ greeting[p][r]
<1>1. Filed(r) \subseteq r + 1 .. 2
  BY DEF Filed, Ranks
<1>2. Cardinality(Filed(r)) = 2 - r
  BY DEF IInv, FiledCounted
<1>3. IsFiniteSet(r + 1 .. 2) /\ Cardinality(r + 1 .. 2) = 2 - r
  BY FS_Interval DEF Ranks
<1>4. Filed(r) = r + 1 .. 2
  BY <1>1, <1>2, <1>3, FS_Subset
<1>5. p \in Filed(r)
  BY <1>4 DEF Ranks
<1> QED
  BY <1>5 DEF IInv, FiledRight, Filed

\* A rank whose init_() has returned holds, for every peer, the connection between the
\* two, in whatever order accept() returned the higher ranks (establishConnections).
THEOREM MeshCompleteHolds == Spec => []MeshComplete
<1>1. IInv => MeshComplete
  <2> SUFFICES ASSUME IInv, NEW r \in Ranks, NEW p \in Ranks, step[r] = "up", p # r
               PROVE  peerFds[r][p] = IF p < r THEN <<r, p>> ELSE <<p, r>>
    BY DEF MeshComplete
  <2>1. CASE p < r
    BY <2>1 DEF IInv, FiledRight
  <2>2. CASE p > r
    BY <2>2, UpHasFiledAll DEF Ranks
  <2> QED
    BY <2>1, <2>2 DEF Ranks
<1> QED
  BY <1>1, Invariance, PTL

\* Whoever dies during init_(), a rank that comes up has read the rank of every higher
\* one from its connection (acceptPeer and the ignored result of readAll).
THEOREM UpHeardHolds == Spec => []UpHeardFromHigherRanks
<1>1. IInv => UpHeardFromHigherRanks
  BY UpHasFiledAll DEF UpHeardFromHigherRanks
<1> QED
  BY <1>1, Invariance, PTL

=============================================================================
