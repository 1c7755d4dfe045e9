--------------------------- MODULE TcpCommProofs ---------------------------
(* The TCP backend for any number of threads, tags and sends, and any plan:  *)
(* frames, sleepers, and the promise of TagMailbox.                          *)
EXTENDS TcpComm, SequenceTheorems, TLAPS

\* The values of the program counters, and of what calls and connections hold.
PCs   == {"idle", "sending", "receive", "asleep", "dead"}
Ats   == {"loop", "header", "sized", "payload", "push", "done"}
Fins  == {"no", "closing", "joining", "done", "dead"}
Parts == [part : {"header", "payload"}, msg : Messages]
Calls == {NoCall} \cup (Ranks \X Messages) \cup (Ranks \X Tags)

-----------------------------------------------------------------------------
(* The inductive invariant, part by part. *)

\* Types of what belongs to a thread.
ThreadTypes ==
    /\ pc \in [Threads -> PCs]
    /\ call \in [Threads -> Calls]
    /\ sends \in [Threads -> Nat]
    /\ sendMutex \in [Ranks -> [Ranks -> SUBSET Threads]]

\* Types of messages on their way.
DataTypes ==
    /\ wire \in [Ranks -> [Ranks -> Seq(Parts)]]
    /\ hand \in [Ranks -> [Ranks -> Seq(Messages)]]
    /\ pending \in [Ranks -> [Ranks -> [Tags -> Seq(Messages)]]]
    /\ sent \in [Ranks -> [Ranks -> [Tags -> Seq(Messages)]]]
    /\ got \in [Ranks -> [Ranks -> [Tags -> Seq(Messages)]]]

\* Types of what a rank keeps of its peers and of itself.
RankTypes ==
    /\ fd \in [Ranks -> [Ranks -> BOOLEAN]]
    /\ reader \in [Ranks -> [Ranks -> Ats]]
    /\ shuttingDown \in [Ranks -> BOOLEAN]
    /\ readerError \in [Ranks -> BOOLEAN]
    /\ fin \in [Ranks -> Fins]
    /\ alive \in [Ranks -> BOOLEAN]

\* The call of a thread is what its program counter says.
CallsMatch ==
    \A t \in Threads :
        /\ pc[t] \in {"idle", "dead"} => call[t] = NoCall
        /\ pc[t] = "sending" => call[t] \in Peers(Home[t]) \X Messages /\ call[t][2].size # "empty"
        /\ pc[t] \in {"receive", "asleep"} => call[t] \in Peers(Home[t]) \X Tags
        /\ sends[t] =< plan.sends[t]

\* All of it.
Types == plan \in Plans /\ ThreadTypes /\ DataTypes /\ RankTypes /\ CallsMatch

\* A mutex is held by the one thread that is between its two writes.
Holding ==
    /\ \A t \in Threads : pc[t] = "sending" => sendMutex[Home[t]][call[t][1]] = {t}
    /\ \A s, r \in Ranks : \A t \in sendMutex[s][r] :
         pc[t] = "sending" /\ Home[t] = s /\ call[t][1] = r

\* A reader has a message in its hand from its header to _pendingMessages.
Hands ==
    \A r, p \in Ranks :
        /\ reader[r][p] \in {"loop", "header", "done"} => hand[r][p] = <<>>
        /\ reader[r][p] \in {"sized", "payload", "push"} => Len(hand[r][p]) = 1
        /\ reader[r][p] \in {"sized", "payload"} => hand[r][p][1].size # "empty"
        /\ reader[r][r] = "done"


-----------------------------------------------------------------------------
(* Types *)

\* What TcpCommAssumption says of the plan in force.
LEMMA PlanFacts ==
    ASSUME plan \in Plans
    PROVE  /\ Home \in [Threads -> Ranks]
           /\ plan.sends \in [Threads -> Nat]
           /\ plan.to \in [Threads -> SUBSET Ranks] /\ plan.from \in [Threads -> SUBSET Ranks]
           /\ \A t \in Threads : plan.to[t] \subseteq Peers(Home[t]) /\ plan.from[t] \subseteq Peers(Home[t])
           /\ plan.tags \subseteq Tags /\ plan.sizes \subseteq Sizes
BY TcpCommAssumption DEF Peers

\* The fields of a message.
LEMMA MessageFields ==
    ASSUME NEW m \in Messages
    PROVE  m.tag \in Tags /\ m.size \in Sizes
<1>1. PICK t \in Threads, p \in Plans : m \in MessagesOf(t, p)
  BY DEF Messages
<1>2. p.tags \subseteq Tags /\ p.sizes \subseteq Sizes
  BY TcpCommAssumption
<1> QED
  BY <1>1, <1>2 DEF MessagesOf

\* A thread that may still send has a message to send.
LEMMA MessageMade ==
    ASSUME Types, NEW t \in Threads, sends[t] < plan.sends[t],
           NEW g \in plan.tags, NEW z \in plan.sizes
    PROVE  [by |-> t, n |-> sends[t] + 1, tag |-> g, size |-> z] \in Messages
<1>1. plan.sends \in [Threads -> Nat] /\ sends \in [Threads -> Nat] /\ plan \in Plans
  BY PlanFacts DEF Types, ThreadTypes
<1>2. sends[t] + 1 \in 1 .. plan.sends[t]
  BY <1>1
<1>3. [by |-> t, n |-> sends[t] + 1, tag |-> g, size |-> z]
        \in [by : {t}, n : 1 .. plan.sends[t], tag : plan.tags, size : plan.sizes]
  BY <1>2
<1> QED
  BY <1>1, <1>3 DEF Messages, MessagesOf

\* What a reader may do to its hand.
LEMMA HandChanged ==
    ASSUME hand \in [Ranks -> [Ranks -> Seq(Messages)]], NEW r \in Ranks, NEW p \in Ranks,
           \/ hand' = hand
           \/ hand' = [hand EXCEPT ![r][p] = <<>>]
           \/ \E m \in Messages : hand' = [hand EXCEPT ![r][p] = <<m>>]
    PROVE  hand' \in [Ranks -> [Ranks -> Seq(Messages)]]
<1>1. CASE hand' = hand
  BY <1>1
<1>2. CASE hand' = [hand EXCEPT ![r][p] = <<>>]
  BY <1>2
<1>3. CASE \E m \in Messages : hand' = [hand EXCEPT ![r][p] = <<m>>]
  BY <1>3
<1> QED
  BY <1>1, <1>2, <1>3

\* The types hold at the start.
LEMMA InitTypes == Init => Types
<1> SUFFICES ASSUME Init PROVE Types
  OBVIOUS
<1>1. plan \in Plans /\ ThreadTypes
  BY DEF Init, ThreadTypes, PCs, Calls
<1>2. DataTypes
  BY DEF Init, DataTypes
<1>3. RankTypes
  BY DEF Init, RankTypes, Ats, Fins
<1>4. CallsMatch
  BY PlanFacts DEF Init, CallsMatch
<1> QED
  BY <1>1, <1>2, <1>3, <1>4 DEF Types

\* One lemma for each action: it keeps the types.
LEMMA SendHeaderTypes ==
    ASSUME Types, plan' = plan, NEW t \in Threads,
           NEW p \in plan.to[t], NEW g \in plan.tags, NEW z \in plan.sizes, SendHeader(t, p, g, z)
    PROVE  Types'
<1> DEFINE m == [by |-> t, n |-> sends[t] + 1, tag |-> g, size |-> z]
<1> USE DEF Types
<1>1. /\ Home[t] \in Ranks /\ p \in Peers(Home[t]) /\ p \in Ranks /\ g \in Tags
      /\ sends[t] \in Nat /\ plan.sends[t] \in Nat
  BY PlanFacts DEF Peers, ThreadTypes
<1>2. m \in Messages /\ m.size = z
  BY MessageMade DEF SendHeader
<1> HIDE DEF m
<1>3. ThreadTypes'
  <2>1. <<p, m>> \in Calls
    BY <1>1, <1>2 DEF Calls
  <2>2. CASE z = "empty"
    BY <1>1, <2>2 DEF ThreadTypes, SendHeader
  <2>3. CASE z # "empty"
    <3>1. pc' = [pc EXCEPT ![t] = "sending"] /\ call' = [call EXCEPT ![t] = <<p, m>>]
      BY <2>3 DEF SendHeader, m
    <3>2. sendMutex' = [sendMutex EXCEPT ![Home[t]][p] = {t}] /\ sends' = [sends EXCEPT ![t] = @ + 1]
      BY <2>3 DEF SendHeader
    <3>3. call' \in [Threads -> Calls]
      BY <2>1, <3>1 DEF ThreadTypes
    <3>4. sendMutex' \in [Ranks -> [Ranks -> SUBSET Threads]]
      BY <1>1, <3>2 DEF ThreadTypes
    <3>5. pc' \in [Threads -> PCs] /\ sends' \in [Threads -> Nat]
      BY <3>1, <3>2 DEF ThreadTypes, PCs
    <3> QED
      BY <3>3, <3>4, <3>5 DEF ThreadTypes
  <2> QED
    BY <2>2, <2>3
<1>4. Header(m) \in Parts
  BY <1>2 DEF Parts, Header
<1>5. Append(wire[Home[t]][p], Header(m)) \in Seq(Parts) /\ Append(sent[Home[t]][p][g], m) \in Seq(Messages)
  BY <1>1, <1>2, <1>4, AppendProperties DEF DataTypes
<1>6. DataTypes'
  BY <1>1, <1>5, Zenon DEF DataTypes, SendHeader, readerVars, m
<1>7. RankTypes'
  BY DEF RankTypes, SendHeader, readerVars, rankVars
<1>8. CallsMatch'
  BY <1>1, <1>2 DEF CallsMatch, SendHeader, ThreadTypes, m, Calls, NoCall
<1> QED
  BY <1>3, <1>6, <1>7, <1>8

LEMMA SendPayloadTypes ==
    ASSUME Types, plan' = plan, NEW t \in Threads, SendPayload(t)
    PROVE  Types'
<1> USE DEF Types
<1>0. Home[t] \in Ranks
  BY PlanFacts
<1>1. ThreadTypes'
  BY <1>0 DEF ThreadTypes, threadVars, PCs, Calls, NoCall, SendPayload
<1>2. DataTypes'
  <2>1. call[t][1] \in Ranks /\ call[t][2] \in Messages
    BY DEF SendPayload, CallsMatch, Peers
  <2>2. Append(wire[Home[t]][call[t][1]], Payload(call[t][2])) \in Seq(Parts)
    <3>1. Payload(call[t][2]) \in Parts
      BY <2>1 DEF Payload, Parts
    <3> QED
      BY <1>0, <2>1, <3>1, AppendProperties DEF DataTypes
  <2>3. wire' \in [Ranks -> [Ranks -> Seq(Parts)]]
    BY <1>0, <2>1, <2>2 DEF DataTypes, SendPayload
  <2> QED
    BY <2>3 DEF DataTypes, readerVars, history, SendPayload
<1>3. RankTypes'
  BY <1>0 DEF RankTypes, Ats, Fins, readerVars, rankVars, SendPayload
<1>4. CallsMatch'
  BY <1>0 DEF CallsMatch, ThreadTypes, threadVars, PCs, Calls, NoCall, SendPayload
<1> QED
  BY <1>1, <1>2, <1>3, <1>4

LEMMA SendFailsTypes ==
    ASSUME Types, plan' = plan, NEW t \in Threads, SendFails(t)
    PROVE  Types'
<1> USE DEF Types
<1>0. Home[t] \in Ranks
  BY PlanFacts
<1>1. ThreadTypes'
  <2>1. CASE pc[t] = "sending"
    <3>1. call[t][1] \in Ranks
      BY <2>1 DEF CallsMatch, Peers
    <3>2. sendMutex' = [sendMutex EXCEPT ![Home[t]][call[t][1]] = {}]
      BY <2>1 DEF SendFails
    <3>3. sendMutex' \in [Ranks -> [Ranks -> SUBSET Threads]]
      BY <1>0, <3>1, <3>2 DEF ThreadTypes
    <3> QED
      <4>1. pc' = [pc EXCEPT ![t] = "idle"] /\ call' = [call EXCEPT ![t] = NoCall] /\ sends' = sends
        BY <2>1 DEF SendFails
      <4>2. NoCall \in Calls
        BY DEF Calls
      <4> QED
        BY <3>3, <4>1, <4>2 DEF ThreadTypes, PCs
  <2>2. CASE pc[t] # "sending"
    <3>1. /\ sends' = [sends EXCEPT ![t] = @ + 1]
          /\ UNCHANGED <<pc, call, sendMutex>>
      BY <2>2 DEF SendFails
    <3> QED
      BY <3>1 DEF ThreadTypes
  <2> QED
    BY <2>1, <2>2
<1>2. DataTypes'
  BY <1>0 DEF DataTypes, readerVars, history, SendFails
<1>3. RankTypes'
  BY <1>0 DEF RankTypes, Ats, Fins, readerVars, rankVars, SendFails
<1>4. CallsMatch'
  <2>1. CASE pc[t] = "sending"
    <3>1. /\ pc' = [pc EXCEPT ![t] = "idle"] /\ call' = [call EXCEPT ![t] = NoCall]
          /\ sends' = sends
      BY <2>1 DEF SendFails
    <3> QED
      BY <3>1 DEF CallsMatch, ThreadTypes
  <2>2. CASE pc[t] # "sending"
    <3>1. /\ sends[t] < plan.sends[t] /\ sends' = [sends EXCEPT ![t] = @ + 1]
          /\ pc' = pc /\ call' = call
      BY <2>2 DEF SendFails
    <3>2. sends[t] \in Nat /\ plan.sends[t] \in Nat
      BY PlanFacts DEF ThreadTypes
    <3> QED
      BY <3>1, <3>2 DEF CallsMatch, ThreadTypes
  <2> QED
    BY <2>1, <2>2
<1> QED
  BY <1>1, <1>2, <1>3, <1>4

LEMMA ReceiveBeginTypes ==
    ASSUME Types, plan' = plan, NEW t \in Threads, NEW p \in plan.from[t], NEW g \in plan.tags, ReceiveBegin(t, p, g)
    PROVE  Types'
<1> USE DEF Types
<1>0. Home[t] \in Ranks
  BY PlanFacts
<1>01. p \in Peers(Home[t]) /\ p \in Ranks /\ g \in Tags
  BY PlanFacts DEF Peers
<1>1. ThreadTypes'
  BY <1>0, <1>01 DEF ThreadTypes, threadVars, PCs, Calls, NoCall, ReceiveBegin
<1>2. DataTypes'
  BY <1>0, <1>01 DEF DataTypes, readerVars, history, ReceiveBegin
<1>3. RankTypes'
  BY <1>0, <1>01 DEF RankTypes, Ats, Fins, readerVars, rankVars, ReceiveBegin
<1>4. CallsMatch'
  BY <1>0, <1>01 DEF CallsMatch, ThreadTypes, threadVars, PCs, Calls, NoCall, ReceiveBegin
<1> QED
  BY <1>1, <1>2, <1>3, <1>4

LEMMA ReceiveTakesTypes ==
    ASSUME Types, plan' = plan, NEW t \in Threads, ReceiveTakes(t)
    PROVE  Types'
<1> USE DEF Types
<1>0. Home[t] \in Ranks
  BY PlanFacts
<1>1. ThreadTypes'
  BY <1>0 DEF ThreadTypes, threadVars, PCs, Calls, NoCall, ReceiveTakes
<1>2. DataTypes'
  <2>1. call[t][1] \in Ranks /\ call[t][2] \in Tags
    BY Zenon DEF ReceiveTakes, CallsMatch, Peers
  <2>2. Box(t) \in Seq(Messages)
    BY <1>0, <2>1, SMTT(30) DEF DataTypes, Box
  <2>21. Box(t) # <<>>
    BY Zenon DEF ReceiveTakes
  <2>22. got[Home[t]][call[t][1]][call[t][2]] \in Seq(Messages)
    BY <1>0, <2>1, SMTT(30) DEF DataTypes
  <2>3. /\ Popped(Box(t)) \in Seq(Messages)
        /\ Append(got[Home[t]][call[t][1]][call[t][2]], Head(Box(t))) \in Seq(Messages)
    BY <2>2, <2>21, <2>22, HeadTailProperties, AppendProperties DEF Popped
  <2>4. /\ got' = [got EXCEPT ![Home[t]][call[t][1]][call[t][2]] = Append(@, Head(Box(t)))]
        /\ pending' = [pending EXCEPT ![Home[t]][call[t][1]][call[t][2]] = Popped(Box(t))]
    BY Zenon DEF ReceiveTakes, Box
  <2>5. got' \in [Ranks -> [Ranks -> [Tags -> Seq(Messages)]]]
    BY <1>0, <2>1, <2>3, <2>4, Zenon DEF DataTypes
  <2>6. pending' \in [Ranks -> [Ranks -> [Tags -> Seq(Messages)]]]
    BY <1>0, <2>1, <2>3, <2>4, ZenonT(30) DEF DataTypes
  <2> QED
    BY <2>5, <2>6, Zenon DEF DataTypes, readerVars, ReceiveTakes
<1>3. RankTypes'
  BY <1>0, Zenon DEF RankTypes, Ats, Fins, readerVars, rankVars, ReceiveTakes
<1>4. CallsMatch'
  BY <1>0 DEF CallsMatch, ThreadTypes, threadVars, PCs, Calls, NoCall, ReceiveTakes
<1> QED
  BY <1>1, <1>2, <1>3, <1>4

LEMMA ReceiveSleepsTypes ==
    ASSUME Types, plan' = plan, NEW t \in Threads, ReceiveSleeps(t)
    PROVE  Types'
<1> USE DEF Types
<1>0. Home[t] \in Ranks
  BY PlanFacts
<1>1. ThreadTypes'
  BY <1>0 DEF ThreadTypes, threadVars, PCs, Calls, NoCall, ReceiveSleeps
<1>2. DataTypes'
  BY <1>0 DEF DataTypes, readerVars, history, ReceiveSleeps
<1>3. RankTypes'
  BY <1>0 DEF RankTypes, Ats, Fins, readerVars, rankVars, ReceiveSleeps
<1>4. CallsMatch'
  BY <1>0 DEF CallsMatch, ThreadTypes, threadVars, PCs, Calls, NoCall, ReceiveSleeps
<1> QED
  BY <1>1, <1>2, <1>3, <1>4

LEMMA ReceiveThrowsTypes ==
    ASSUME Types, plan' = plan, NEW t \in Threads, ReceiveThrows(t)
    PROVE  Types'
<1> USE DEF Types
<1>0. Home[t] \in Ranks
  BY PlanFacts
<1>1. ThreadTypes'
  BY <1>0 DEF ThreadTypes, threadVars, PCs, Calls, NoCall, ReceiveThrows
<1>2. DataTypes'
  BY <1>0 DEF DataTypes, readerVars, history, ReceiveThrows
<1>3. RankTypes'
  BY <1>0 DEF RankTypes, Ats, Fins, readerVars, rankVars, ReceiveThrows
<1>4. CallsMatch'
  BY <1>0 DEF CallsMatch, ThreadTypes, threadVars, PCs, Calls, NoCall, ReceiveThrows
<1> QED
  BY <1>1, <1>2, <1>3, <1>4

LEMMA CallRecvTypes ==
    ASSUME Types, plan' = plan, NEW r \in Ranks, NEW p \in Peers(r), CallRecv(r, p)
    PROVE  Types'
<1> USE DEF Types
<1>0. p \in Ranks
  BY DEF Peers
<1>1. ThreadTypes'
  BY <1>0 DEF ThreadTypes, threadVars, PCs, Calls, NoCall, CallRecv, ReaderAt, ReaderThrows, ReaderEnds, WokenAt
<1>2. DataTypes'
  <2>1. hand' = hand \/ hand' = [hand EXCEPT ![r][p] = <<>>]
    BY DEF CallRecv, ReaderThrows, ReaderAt
  <2>2. hand' \in [Ranks -> [Ranks -> Seq(Messages)]]
    BY <1>0, <2>1, HandChanged DEF DataTypes
  <2> QED
    BY <2>2 DEF DataTypes, history, CallRecv
<1>3. RankTypes'
  <2>1. PICK at \in Ats : reader' = [reader EXCEPT ![r][p] = at]
    BY DEF CallRecv, ReaderThrows, ReaderAt, Ats
  <2>2. reader' \in [Ranks -> [Ranks -> Ats]]
    BY <1>0, <2>1 DEF RankTypes
  <2>3. readerError' \in [Ranks -> BOOLEAN]
    BY DEF RankTypes, CallRecv, ReaderThrows
  <2> QED
    BY <2>2, <2>3 DEF RankTypes, rankVars, CallRecv
<1>4. CallsMatch'
  BY <1>0 DEF CallsMatch, ThreadTypes, threadVars, PCs, Calls, NoCall, CallRecv, ReaderAt, ReaderThrows, ReaderEnds, WokenAt
<1> QED
  BY <1>1, <1>2, <1>3, <1>4

LEMMA ReadHeaderTypes ==
    ASSUME Types, plan' = plan, NEW r \in Ranks, NEW p \in Peers(r), ReadHeader(r, p)
    PROVE  Types'
<1> USE DEF Types
<1>0. p \in Ranks
  BY DEF Peers
<1>1. ThreadTypes'
  BY <1>0 DEF ThreadTypes, threadVars, PCs, Calls, NoCall, ReadHeader, ReaderAt, ReaderThrows, ReaderEnds, WokenAt
<1>2. DataTypes'
  <2>1. wire[p][r] \in Seq(Parts) /\ wire[p][r] # <<>>
    BY <1>0 DEF ReadHeader, DataTypes
  <2>2. Head(wire[p][r]) \in Parts /\ Tail(wire[p][r]) \in Seq(Parts)
    BY <2>1, HeadTailProperties
  <2>3. Head(wire[p][r]).msg \in Messages
    BY <2>2 DEF Parts
  <2>4. hand' = [hand EXCEPT ![r][p] = <<>>] \/ hand' = [hand EXCEPT ![r][p] = <<Head(wire[p][r]).msg>>]
    BY DEF ReadHeader, ReaderThrows
  <2>5. hand' \in [Ranks -> [Ranks -> Seq(Messages)]]
    BY <1>0, <2>3, <2>4, HandChanged DEF DataTypes
  <2>6. wire' \in [Ranks -> [Ranks -> Seq(Parts)]]
    BY <1>0, <2>2 DEF DataTypes, ReadHeader
  <2> QED
    BY <2>5, <2>6 DEF DataTypes, history, ReadHeader
<1>3. RankTypes'
  <2>1. PICK at \in Ats : reader' = [reader EXCEPT ![r][p] = at]
    BY DEF ReadHeader, ReaderThrows, ReaderAt, Ats
  <2>2. reader' \in [Ranks -> [Ranks -> Ats]]
    BY <1>0, <2>1 DEF RankTypes
  <2>3. readerError' \in [Ranks -> BOOLEAN]
    BY DEF RankTypes, ReadHeader, ReaderThrows
  <2> QED
    BY <2>2, <2>3 DEF RankTypes, rankVars, ReadHeader
<1>4. CallsMatch'
  BY <1>0 DEF CallsMatch, ThreadTypes, threadVars, PCs, Calls, NoCall, ReadHeader, ReaderAt, ReaderThrows, ReaderEnds, WokenAt
<1> QED
  BY <1>1, <1>2, <1>3, <1>4

LEMMA ReadPayloadTypes ==
    ASSUME Types, plan' = plan, NEW r \in Ranks, NEW p \in Peers(r), ReadPayload(r, p)
    PROVE  Types'
<1> USE DEF Types
<1>0. p \in Ranks
  BY DEF Peers
<1>1. ThreadTypes'
  BY <1>0 DEF ThreadTypes, threadVars, PCs, Calls, NoCall, ReadPayload, ReaderAt, ReaderThrows, ReaderEnds, WokenAt
<1>2. DataTypes'
  <2>1. Tail(wire[p][r]) \in Seq(Parts)
    BY <1>0, HeadTailProperties DEF ReadPayload, DataTypes
  <2> QED
    BY <1>0, <2>1 DEF DataTypes, history, ReadPayload
<1>3. RankTypes'
  BY <1>0 DEF RankTypes, Ats, Fins, readerVars, rankVars, ReadPayload, ReaderAt, ReaderThrows, ReaderEnds, WokenAt
<1>4. CallsMatch'
  BY <1>0 DEF CallsMatch, ThreadTypes, threadVars, PCs, Calls, NoCall, ReadPayload, ReaderAt, ReaderThrows, ReaderEnds, WokenAt
<1> QED
  BY <1>1, <1>2, <1>3, <1>4

LEMMA ReadEofTypes ==
    ASSUME Types, plan' = plan, NEW r \in Ranks, NEW p \in Peers(r), ReadEof(r, p)
    PROVE  Types'
<1> USE DEF Types
<1>0. p \in Ranks
  BY DEF Peers
<1>1. ThreadTypes'
  BY <1>0 DEF ThreadTypes, threadVars, PCs, Calls, NoCall, ReadEof, ReaderAt, ReaderThrows, ReaderEnds, WokenAt
<1>2. DataTypes'
  <2>1. hand' = hand \/ hand' = [hand EXCEPT ![r][p] = <<>>]
    BY DEF ReadEof, ReaderEnds, ReaderAt
  <2>2. hand' \in [Ranks -> [Ranks -> Seq(Messages)]]
    BY <1>0, <2>1, HandChanged DEF DataTypes
  <2> QED
    BY <2>2 DEF DataTypes, history, ReadEof
<1>3. RankTypes'
  BY <1>0 DEF RankTypes, Ats, Fins, readerVars, rankVars, ReadEof, ReaderAt, ReaderThrows, ReaderEnds, WokenAt
<1>4. CallsMatch'
  BY <1>0 DEF CallsMatch, ThreadTypes, threadVars, PCs, Calls, NoCall, ReadEof, ReaderAt, ReaderThrows, ReaderEnds, WokenAt
<1> QED
  BY <1>1, <1>2, <1>3, <1>4

LEMMA ReadResetTypes ==
    ASSUME Types, plan' = plan, NEW r \in Ranks, NEW p \in Peers(r), ReadReset(r, p)
    PROVE  Types'
<1> USE DEF Types
<1>0. p \in Ranks
  BY DEF Peers
<1>1. ThreadTypes'
  BY <1>0 DEF ThreadTypes, threadVars, PCs, Calls, NoCall, ReadReset, ReaderAt, ReaderThrows, ReaderEnds, WokenAt
<1>2. DataTypes'
  <2>1. hand' = hand \/ hand' = [hand EXCEPT ![r][p] = <<>>]
    BY DEF ReadReset, ReaderThrows, ReaderAt
  <2>2. hand' \in [Ranks -> [Ranks -> Seq(Messages)]]
    BY <1>0, <2>1, HandChanged DEF DataTypes
  <2> QED
    BY <2>2 DEF DataTypes, history, ReadReset
<1>3. RankTypes'
  BY <1>0 DEF RankTypes, Ats, Fins, readerVars, rankVars, ReadReset, ReaderAt, ReaderThrows, ReaderEnds, WokenAt
<1>4. CallsMatch'
  BY <1>0 DEF CallsMatch, ThreadTypes, threadVars, PCs, Calls, NoCall, ReadReset, ReaderAt, ReaderThrows, ReaderEnds, WokenAt
<1> QED
  BY <1>1, <1>2, <1>3, <1>4

LEMMA PushTypes ==
    ASSUME Types, Hands, plan' = plan, NEW r \in Ranks, NEW p \in Peers(r), Push(r, p)
    PROVE  Types'
<1> USE DEF Types
<1>0. p \in Ranks
  BY DEF Peers
<1>1. ThreadTypes'
  BY <1>0 DEF ThreadTypes, threadVars, PCs, Calls, NoCall, Push, ReaderAt, ReaderThrows, ReaderEnds, WokenAt
<1>2. DataTypes'
  <2>1. hand' = [hand EXCEPT ![r][p] = <<>>]
    BY DEF Push, ReaderEnds
  <2>2. hand' \in [Ranks -> [Ranks -> Seq(Messages)]]
    BY <1>0, <2>1, HandChanged DEF DataTypes
  <2>3. pending' \in [Ranks -> [Ranks -> [Tags -> Seq(Messages)]]]
    <3>1. CASE shuttingDown[r]
      BY <3>1 DEF Push, DataTypes
    <3>2. CASE ~ shuttingDown[r]
      <4> DEFINE g == hand[r][p][1].tag
      <4>1. hand[r][p] \in Seq(Messages) /\ Len(hand[r][p]) = 1
        BY <1>0 DEF DataTypes, Hands, Push
      <4>2. g \in Tags
        BY <4>1, ElementOfSeq, MessageFields
      <4>3. pending' = [pending EXCEPT ![r][p][g] = Pushed(@, hand[r][p])]
        BY <3>2 DEF Push
      <4> HIDE DEF g
      <4>4. pending[r][p][g] \o hand[r][p] \in Seq(Messages)
        BY <1>0, <4>1, <4>2, ConcatProperties DEF DataTypes
      <4> QED
        BY <1>0, <4>2, <4>3, <4>4 DEF DataTypes, Pushed
    <3> QED
      BY <3>1, <3>2
  <2> QED
    BY <2>2, <2>3 DEF DataTypes, history, Push
<1>3. RankTypes'
  <2>1. PICK at \in Ats : reader' = [reader EXCEPT ![r][p] = at]
    BY DEF Push, ReaderEnds, ReaderAt, Ats
  <2>2. reader' \in [Ranks -> [Ranks -> Ats]]
    BY <1>0, <2>1 DEF RankTypes
  <2> QED
    BY <2>2 DEF RankTypes, rankVars, Push, ReaderEnds
<1>4. CallsMatch'
  BY <1>0 DEF CallsMatch, ThreadTypes, threadVars, PCs, Calls, NoCall, Push, ReaderAt, ReaderThrows, ReaderEnds, WokenAt
<1> QED
  BY <1>1, <1>2, <1>3, <1>4

LEMMA FinalizeBeginTypes ==
    ASSUME Types, plan' = plan, NEW r \in Ranks, FinalizeBegin(r)
    PROVE  Types'
<1> USE DEF Types
<1>1. ThreadTypes'
  BY DEF ThreadTypes, threadVars, PCs, Calls, NoCall, FinalizeBegin, WokenAt
<1>2. DataTypes'
  BY DEF DataTypes, readerVars, history, FinalizeBegin, WokenAt
<1>3. RankTypes'
  BY DEF RankTypes, Ats, Fins, readerVars, rankVars, FinalizeBegin, WokenAt
<1>4. CallsMatch'
  BY DEF CallsMatch, ThreadTypes, threadVars, PCs, Calls, NoCall, FinalizeBegin, WokenAt
<1> QED
  BY <1>1, <1>2, <1>3, <1>4

LEMMA FinalizeCloseTypes ==
    ASSUME Types, plan' = plan, NEW r \in Ranks, FinalizeClose(r)
    PROVE  Types'
<1> USE DEF Types
<1>1. ThreadTypes'
  BY DEF ThreadTypes, threadVars, PCs, Calls, NoCall, FinalizeClose, WokenAt
<1>2. DataTypes'
  BY DEF DataTypes, readerVars, history, FinalizeClose, WokenAt
<1>3. RankTypes'
  <2>1. PICK p \in Ranks : fd' = [fd EXCEPT ![r][p] = FALSE]
    BY DEF FinalizeClose, Peers
  <2>2. fd' \in [Ranks -> [Ranks -> BOOLEAN]]
    BY <2>1 DEF RankTypes
  <2>3. fin' \in [Ranks -> Fins]
    BY DEF RankTypes, FinalizeClose, Fins
  <2> QED
    BY <2>2, <2>3 DEF RankTypes, readerVars, FinalizeClose
<1>4. CallsMatch'
  BY DEF CallsMatch, ThreadTypes, threadVars, PCs, Calls, NoCall, FinalizeClose, WokenAt
<1> QED
  BY <1>1, <1>2, <1>3, <1>4

LEMMA FinalizeReturnsTypes ==
    ASSUME Types, plan' = plan, NEW r \in Ranks, FinalizeReturns(r)
    PROVE  Types'
<1> USE DEF Types
<1>1. ThreadTypes'
  BY DEF ThreadTypes, threadVars, PCs, Calls, NoCall, FinalizeReturns, WokenAt
<1>2. DataTypes'
  BY DEF DataTypes, readerVars, history, FinalizeReturns, WokenAt
<1>3. RankTypes'
  BY DEF RankTypes, Ats, Fins, readerVars, rankVars, FinalizeReturns, WokenAt
<1>4. CallsMatch'
  BY DEF CallsMatch, ThreadTypes, threadVars, PCs, Calls, NoCall, FinalizeReturns, WokenAt
<1> QED
  BY <1>1, <1>2, <1>3, <1>4

LEMMA DieTypes ==
    ASSUME Types, plan' = plan, NEW r \in Ranks, Die(r)
    PROVE  Types'
<1> USE DEF Types
<1>1. ThreadTypes'
  BY DEF ThreadTypes, threadVars, PCs, Calls, NoCall, Die, WokenAt
<1>2. DataTypes'
  <2>1. [p \in Ranks |-> <<>>] \in [Ranks -> Seq(Messages)]
    BY EmptySeq
  <2>2. hand' \in [Ranks -> [Ranks -> Seq(Messages)]]
    BY <2>1 DEF Die, DataTypes
  <2> QED
    BY <2>2 DEF DataTypes, history, Die
<1>3. RankTypes'
  BY DEF RankTypes, Ats, Fins, readerVars, rankVars, Die, WokenAt
<1>4. CallsMatch'
  BY DEF CallsMatch, ThreadTypes, threadVars, PCs, Calls, NoCall, Die, WokenAt
<1> QED
  BY <1>1, <1>2, <1>3, <1>4

\* The steps of Next.
LEMMA NextCases ==
    ASSUME Next
    PROVE  /\ plan' = plan
           /\ \/ \E t \in Threads : \E p \in plan.to[t], g \in plan.tags, z \in plan.sizes :
                    SendHeader(t, p, g, z)
              \/ \E t \in Threads : \E p \in plan.from[t], g \in plan.tags : ReceiveBegin(t, p, g)
              \/ \E t \in Threads : SendPayload(t) \/ SendFails(t)
              \/ \E t \in Threads : ReceiveTakes(t) \/ ReceiveSleeps(t) \/ ReceiveThrows(t)
              \/ \E r \in Ranks : \E p \in Peers(r) : ReaderStep(r, p)
              \/ \E r \in Ranks : FinalizeBegin(r) \/ FinalizeStep(r)
              \/ \E r \in Ranks : Die(r)
<1>1. ASSUME NEW t \in Threads, SigPipe(t)
      PROVE  \E r \in Ranks : Die(r)
  BY <1>1, TcpCommAssumption DEF SigPipe
<1>2. ASSUME NEW r \in Ranks, Crash(r)
      PROVE  \E q \in Ranks : Die(q)
  BY <1>2 DEF Crash
<1> QED
  BY <1>1, <1>2 DEF Next, ThreadStep, SendStep, ReceiveStep

\* So every step keeps the types.
LEMMA TypesStep ==
    ASSUME Types, Hands, [Next]_vars
    PROVE  Types'
<1>1. CASE UNCHANGED vars
  BY <1>1 DEF vars, moving, threadVars, readerVars, rankVars, history,
        Types, ThreadTypes, DataTypes, RankTypes, CallsMatch
<1>2. CASE Next
  <2>1. plan' = plan
    BY <1>2, NextCases
  <2>2. CASE \E t \in Threads : \E p \in plan.to[t], g \in plan.tags, z \in plan.sizes :
                SendHeader(t, p, g, z)
    BY <2>1, <2>2, SendHeaderTypes
  <2>3. CASE \E t \in Threads : \E p \in plan.from[t], g \in plan.tags : ReceiveBegin(t, p, g)
    BY <2>1, <2>3, ReceiveBeginTypes
  <2>4. CASE \E t \in Threads : SendPayload(t) \/ SendFails(t)
    BY <2>1, <2>4, SendPayloadTypes, SendFailsTypes
  <2>5. CASE \E t \in Threads : ReceiveTakes(t) \/ ReceiveSleeps(t) \/ ReceiveThrows(t)
    BY <2>1, <2>5, ReceiveTakesTypes, ReceiveSleepsTypes, ReceiveThrowsTypes
  <2>6. CASE \E r \in Ranks : \E p \in Peers(r) : ReaderStep(r, p)
    BY <2>1, <2>6, CallRecvTypes, ReadHeaderTypes, ReadPayloadTypes,
       ReadEofTypes, ReadResetTypes, PushTypes DEF ReaderStep
  <2>7. CASE \E r \in Ranks : FinalizeBegin(r) \/ FinalizeStep(r)
    BY <2>1, <2>7, FinalizeBeginTypes, FinalizeCloseTypes, FinalizeReturnsTypes DEF FinalizeStep
  <2>8. CASE \E r \in Ranks : Die(r)
    BY <2>1, <2>8, DieTypes
  <2> QED
    BY <1>2, <2>2, <2>3, <2>4, <2>5, <2>6, <2>7, <2>8, NextCases
<1> QED
  BY <1>1, <1>2

-----------------------------------------------------------------------------
(* Readers and their hands *)

LEMMA InitHands == Init => Hands
BY DEF Init, Hands

\* A reader that moves and takes what its place asks for keeps the hands right.
LEMMA HandsMove ==
    ASSUME Types, Hands, NEW r \in Ranks, NEW p \in Ranks, p # r, NEW at, NEW h,
           reader' = [reader EXCEPT ![r][p] = at], hand' = [hand EXCEPT ![r][p] = h],
           at \in {"loop", "header", "done"} => h = <<>>,
           at \in {"sized", "payload", "push"} => Len(h) = 1,
           at \in {"sized", "payload"} => h[1].size # "empty"
    PROVE  Hands'
<1>1. reader \in [Ranks -> [Ranks -> Ats]] /\ hand \in [Ranks -> [Ranks -> Seq(Messages)]]
  BY DEF Types, RankTypes, DataTypes
<1>2. ASSUME NEW a \in Ranks, NEW b \in Ranks
      PROVE  /\ <<a, b>> = <<r, p>> => reader'[a][b] = at /\ hand'[a][b] = h
             /\ <<a, b>> # <<r, p>> => reader'[a][b] = reader[a][b] /\ hand'[a][b] = hand[a][b]
  BY <1>1
<1> QED
  BY <1>2 DEF Hands

\* Every step keeps the hands right.
LEMMA HandsStep ==
    ASSUME Types, Hands, [Next]_vars
    PROVE  Hands'
<1> USE DEF Types
<1>1. CASE UNCHANGED <<reader, hand>>
  BY <1>1 DEF Hands
<1>2. ASSUME NEW r \in Ranks, NEW p \in Peers(r), ReaderStep(r, p)
      PROVE  Hands'
  <2>0. p \in Ranks /\ p # r /\ reader \in [Ranks -> [Ranks -> Ats]] /\ hand \in [Ranks -> [Ranks -> Seq(Messages)]]
    BY DEF Peers, RankTypes, DataTypes
  <2>1. CASE ReaderAt(r, p, "done") /\ hand' = [hand EXCEPT ![r][p] = <<>>]
    BY <2>0, <2>1 DEF Hands, ReaderAt
  <2>2. CASE CallRecv(r, p)
    <3>1. CASE fd[r][p]
      <4>1. /\ reader[r][p] \in {"loop", "sized"}
            /\ reader' = [reader EXCEPT ![r][p] = IF reader[r][p] = "loop" THEN "header" ELSE "payload"]
            /\ hand' = [hand EXCEPT ![r][p] = hand[r][p]]
        BY <2>0, <2>2, <3>1 DEF CallRecv, ReaderAt
      <4>2. CASE reader[r][p] = "loop"
        BY <2>0, <4>1, <4>2, HandsMove DEF Hands
      <4>3. CASE reader[r][p] = "sized"
        BY <2>0, <4>1, <4>3, HandsMove DEF Hands
      <4> QED
        BY <4>1, <4>2, <4>3
    <3> QED
      BY <2>1, <2>2, <3>1 DEF CallRecv, ReaderThrows
  <2>3. CASE ReadHeader(r, p)
    <3>1. CASE Head(wire[p][r]).part = "header"
      <4>1. PICK m : m = Head(wire[p][r]).msg
        OBVIOUS
      <4>2. /\ hand' = [hand EXCEPT ![r][p] = <<m>>]
            /\ reader' = [reader EXCEPT ![r][p] = IF m.size = "empty" THEN "push" ELSE "sized"]
        BY <2>3, <3>1, <4>1 DEF ReadHeader, ReaderAt
      <4> QED
        BY <2>0, <4>2 DEF Hands
    <3> QED
      BY <2>1, <2>3, <3>1 DEF ReadHeader, ReaderThrows
  <2>4. CASE ReadPayload(r, p)
    <3>1. /\ reader[r][p] = "payload"
          /\ reader' = [reader EXCEPT ![r][p] = "push"]
          /\ hand' = [hand EXCEPT ![r][p] = hand[r][p]]
      BY <2>0, <2>4 DEF ReadPayload, ReaderAt
    <3> QED
      BY <2>0, <3>1, HandsMove DEF Hands
  <2>5. CASE ReadEof(r, p) \/ ReadReset(r, p)
    BY <2>1, <2>5 DEF ReadEof, ReadReset, ReaderEnds, ReaderThrows
  <2>6. CASE Push(r, p)
    <3>1. CASE ~ shuttingDown[r]
      <4>1. reader' = [reader EXCEPT ![r][p] = "loop"] /\ hand' = [hand EXCEPT ![r][p] = <<>>]
        BY <2>6, <3>1 DEF Push, ReaderAt
      <4> QED
        BY <2>0, <4>1, HandsMove
    <3> QED
      BY <2>1, <2>6, <3>1 DEF Push, ReaderEnds
  <2> QED
    BY <1>2, <2>2, <2>3, <2>4, <2>5, <2>6 DEF ReaderStep
<1>3. ASSUME NEW r \in Ranks, Die(r)
      PROVE  Hands'
  <2>1. /\ reader' = [reader EXCEPT ![r] = [p \in Ranks |-> "done"]]
        /\ hand' = [hand EXCEPT ![r] = [p \in Ranks |-> <<>>]]
    BY <1>3 DEF Die
  <2>2. /\ \A p \in Ranks : reader'[r][p] = "done" /\ hand'[r][p] = <<>>
        /\ \A q \in Ranks \ {r} : reader'[q] = reader[q] /\ hand'[q] = hand[q]
    BY <2>1 DEF RankTypes, DataTypes
  <2> QED
    BY <2>2 DEF Hands
<1>4. ASSUME NEW t \in Threads, SendPayload(t) \/ SendFails(t) \/ ReceiveTakes(t) \/ ReceiveSleeps(t) \/ ReceiveThrows(t)
      PROVE  UNCHANGED <<reader, hand>>
  BY <1>4, Zenon DEF SendPayload, SendFails, ReceiveTakes, ReceiveSleeps, ReceiveThrows, readerVars
<1>5. ASSUME NEW t \in Threads, NEW p, NEW g, NEW z, SendHeader(t, p, g, z) \/ ReceiveBegin(t, p, g)
      PROVE  UNCHANGED <<reader, hand>>
  BY <1>5 DEF SendHeader, ReceiveBegin, readerVars
<1>6. ASSUME NEW r \in Ranks, FinalizeBegin(r) \/ FinalizeStep(r)
      PROVE  UNCHANGED <<reader, hand>>
  BY <1>6 DEF FinalizeBegin, FinalizeStep, FinalizeClose, FinalizeReturns, readerVars
<1>7. CASE UNCHANGED vars
  BY <1>1, <1>7 DEF vars, moving, readerVars
<1> QED
  BY <1>1, <1>2, <1>3, <1>4, <1>5, <1>6, <1>7, NextCases

-----------------------------------------------------------------------------
(* The mutexes *)

LEMMA InitHolding == Init => Holding
BY DEF Init, Holding

\* Every step keeps the holders of the mutexes right.
LEMMA HoldingStep ==
    ASSUME Types, Holding, [Next]_vars
    PROVE  Holding'
<1> USE DEF Types
<1>0. /\ pc \in [Threads -> PCs] /\ sendMutex \in [Ranks -> [Ranks -> SUBSET Threads]]
      /\ \A t \in Threads : Home[t] \in Ranks
      /\ \A t \in Threads : pc[t] = "sending" => call[t][1] \in Ranks
  BY PlanFacts DEF ThreadTypes, CallsMatch, Peers
<1>1. CASE UNCHANGED <<pc, call, sendMutex>>
  BY <1>1 DEF Holding
<1>2. ASSUME UNCHANGED <<call, sendMutex>>,
             \A t \in Threads : pc'[t] = "sending" <=> pc[t] = "sending"
      PROVE  Holding'
  BY <1>0, <1>2 DEF Holding
<1>3. ASSUME NEW t \in Threads, pc[t] # "sending", UNCHANGED sendMutex,
             NEW at \in PCs \ {"sending"}, NEW c,
             pc' = [pc EXCEPT ![t] = at], call' = [call EXCEPT ![t] = c]
      PROVE  Holding'
  BY <1>0, <1>3 DEF Holding, ThreadTypes
<1>4. ASSUME NEW t \in Threads, NEW p \in plan.to[t], NEW g \in plan.tags, NEW z \in plan.sizes,
             SendHeader(t, p, g, z)
      PROVE  Holding'
  <2>1. CASE z = "empty"
    BY <1>1, <1>4, <2>1 DEF SendHeader
  <2>2. CASE z # "empty"
    <3>1. PICK m : /\ pc' = [pc EXCEPT ![t] = "sending"] /\ call' = [call EXCEPT ![t] = <<p, m>>]
                   /\ sendMutex' = [sendMutex EXCEPT ![Home[t]][p] = {t}]
                   /\ sendMutex[Home[t]][p] = {} /\ pc[t] = "idle"
      BY <1>4, <2>2 DEF SendHeader, MutexFree
    <3>2. p \in Ranks
      BY PlanFacts
    <3>3. /\ pc'[t] = "sending" /\ call'[t] = <<p, m>> /\ sendMutex'[Home[t]][p] = {t}
          /\ \A u \in Threads \ {t} : pc'[u] = pc[u] /\ call'[u] = call[u]
          /\ \A s, r \in Ranks : <<s, r>> # <<Home[t], p>> => sendMutex'[s][r] = sendMutex[s][r]
      BY <1>0, <3>1, <3>2 DEF ThreadTypes
    <3>4. ASSUME NEW u \in Threads, pc'[u] = "sending"
          PROVE  sendMutex'[Home[u]][call'[u][1]] = {u}
      <4>1. CASE u = t
        BY <3>3, <4>1
      <4>2. CASE u # t
        <5>1. pc[u] = "sending" /\ call'[u] = call[u] /\ sendMutex[Home[u]][call[u][1]] = {u}
          BY <3>3, <3>4, <4>2 DEF Holding
        <5>2. <<Home[u], call[u][1]>> # <<Home[t], p>>
          BY <3>1, <5>1
        <5> QED
          BY <1>0, <3>3, <5>1, <5>2
      <4> QED
        BY <4>1, <4>2
    <3>5. ASSUME NEW s \in Ranks, NEW r \in Ranks, NEW u \in sendMutex'[s][r]
          PROVE  pc'[u] = "sending" /\ Home[u] = s /\ call'[u][1] = r
      BY <1>0, <3>1, <3>3, <3>5 DEF Holding
    <3> QED
      BY <3>4, <3>5 DEF Holding
  <2> QED
    BY <2>1, <2>2
<1>5. ASSUME NEW t \in Threads, pc[t] = "sending",
             pc' = [pc EXCEPT ![t] = "idle"], call' = [call EXCEPT ![t] = NoCall],
             sendMutex' = [sendMutex EXCEPT ![Home[t]][call[t][1]] = {}]
      PROVE  Holding'
  <2> DEFINE p == call[t][1]
  <2>1. /\ pc'[t] = "idle" /\ sendMutex'[Home[t]][p] = {} /\ sendMutex[Home[t]][p] = {t}
        /\ \A u \in Threads \ {t} : pc'[u] = pc[u] /\ call'[u] = call[u]
        /\ \A s, r \in Ranks : <<s, r>> # <<Home[t], p>> => sendMutex'[s][r] = sendMutex[s][r]
    BY <1>0, <1>5 DEF ThreadTypes, Holding
  <2>2. ASSUME NEW u \in Threads, pc'[u] = "sending"
        PROVE  sendMutex'[Home[u]][call'[u][1]] = {u}
    <3>1. u # t /\ pc[u] = "sending" /\ call'[u] = call[u] /\ sendMutex[Home[u]][call[u][1]] = {u}
      BY <2>1, <2>2 DEF Holding
    <3>2. <<Home[u], call[u][1]>> # <<Home[t], p>>
      BY <2>1, <3>1
    <3> QED
      BY <1>0, <2>1, <3>1, <3>2
  <2>3. ASSUME NEW s \in Ranks, NEW r \in Ranks, NEW u \in sendMutex'[s][r]
        PROVE  pc'[u] = "sending" /\ Home[u] = s /\ call'[u][1] = r
    <3>1. <<s, r>> # <<Home[t], p>> /\ u \in sendMutex[s][r]
      BY <2>1, <2>3
    <3>2. pc[u] = "sending" /\ Home[u] = s /\ call[u][1] = r
      BY <3>1 DEF Holding
    <3>3. u \in Threads /\ u # t
      BY <1>0, <3>1, <3>2
    <3> QED
      BY <2>1, <3>2, <3>3
  <2> QED
    BY <2>2, <2>3 DEF Holding
<1>6. ASSUME NEW t \in Threads, SendPayload(t) \/ SendFails(t)
      PROVE  Holding'
  <2>1. CASE pc[t] = "sending"
    BY <1>5, <1>6, <2>1 DEF SendPayload, SendFails
  <2>2. CASE pc[t] # "sending"
    BY <1>1, <1>6, <2>2 DEF SendPayload, SendFails
  <2> QED
    BY <2>1, <2>2
<1>7. ASSUME NEW t \in Threads, ReceiveTakes(t) \/ ReceiveSleeps(t) \/ ReceiveThrows(t)
      PROVE  Holding'
  <2>1. call' = [call EXCEPT ![t] = call'[t]]
    BY <1>7 DEF ThreadTypes, ReceiveTakes, ReceiveSleeps, ReceiveThrows
  <2>2. PICK at \in PCs \ {"sending"} : pc' = [pc EXCEPT ![t] = at]
    BY <1>7, Zenon DEF PCs, ReceiveTakes, ReceiveSleeps, ReceiveThrows
  <2>3. pc[t] # "sending" /\ UNCHANGED sendMutex
    BY <1>7, Zenon DEF ReceiveTakes, ReceiveSleeps, ReceiveThrows
  <2> QED
    BY <1>3, <2>1, <2>2, <2>3
<1>8. ASSUME NEW t \in Threads, NEW p, NEW g, ReceiveBegin(t, p, g)
      PROVE  Holding'
  BY <1>3, <1>8 DEF ReceiveBegin, PCs
<1>9. ASSUME NEW r \in Ranks, NEW p \in Peers(r), ReaderStep(r, p)
      PROVE  Holding'
  <2>1. UNCHANGED <<call, sendMutex>> /\ (pc' = pc \/ pc' = WokenAt(r))
    BY <1>9 DEF ReaderStep, CallRecv, ReadHeader, ReadPayload, ReadEof, ReadReset, Push,
          ReaderThrows, ReaderEnds, threadVars
  <2> QED
    BY <1>2, <2>1 DEF WokenAt
<1>10. ASSUME NEW r \in Ranks, FinalizeBegin(r) \/ FinalizeStep(r)
       PROVE  Holding'
  <2>1. UNCHANGED <<call, sendMutex>> /\ (pc' = pc \/ pc' = WokenAt(r))
    BY <1>10 DEF FinalizeBegin, FinalizeStep, FinalizeClose, FinalizeReturns, threadVars
  <2> QED
    BY <1>2, <2>1 DEF WokenAt
<1>11. ASSUME NEW r \in Ranks, Die(r)
       PROVE  Holding'
  <2>1. /\ \A t \in Threads : Home[t] = r => pc'[t] = "dead"
        /\ \A t \in Threads : Home[t] # r => pc'[t] = pc[t] /\ call'[t] = call[t]
        /\ \A q \in Ranks : sendMutex'[r][q] = {}
        /\ \A s \in Ranks \ {r} : sendMutex'[s] = sendMutex[s]
    BY <1>0, <1>11 DEF Die, ThreadTypes
  <2>2. ASSUME NEW t \in Threads, pc'[t] = "sending"
        PROVE  sendMutex'[Home[t]][call'[t][1]] = {t}
    <3>1. Home[t] # r /\ pc[t] = "sending" /\ call'[t] = call[t] /\ Home[t] \in Ranks
      BY <1>0, <2>1, <2>2
    <3> QED
      BY <2>1, <3>1 DEF Holding
  <2>3. ASSUME NEW s \in Ranks, NEW q \in Ranks, NEW t \in sendMutex'[s][q]
        PROVE  pc'[t] = "sending" /\ Home[t] = s /\ call'[t][1] = q
    <3>1. s # r /\ t \in sendMutex[s][q] /\ t \in Threads
      BY <1>0, <2>1, <2>3
    <3> QED
      BY <2>1, <3>1 DEF Holding
  <2> QED
    BY <2>2, <2>3 DEF Holding
<1>12. CASE UNCHANGED vars
  BY <1>1, <1>12 DEF vars, moving, threadVars
<1> QED
  BY <1>4, <1>6, <1>7, <1>8, <1>9, <1>10, <1>11, <1>12, NextCases

-----------------------------------------------------------------------------
(* Sleepers *)

LEMMA InitSleep == Init => SleepJustified
BY DEF Init, SleepJustified

\* A step that wakes every sleeper of one rank and leaves the other ranks alone.
LEMMA WakesAll ==
    ASSUME Types, SleepJustified, NEW r \in Ranks,
           pc' = WokenAt(r), call' = call,
           \A q \in Ranks \ {r} : /\ pending'[q] = pending[q]
                                  /\ readerError'[q] = readerError[q]
                                  /\ shuttingDown'[q] = shuttingDown[q]
    PROVE  SleepJustified'
<1> SUFFICES ASSUME NEW t \in Threads, pc'[t] = "asleep"
             PROVE  Box(t)' = <<>> /\ ~ readerError'[Home[t]] /\ ~ shuttingDown'[Home[t]]
  BY DEF SleepJustified
<1>1. Home[t] \in Ranks
  BY PlanFacts DEF Types
<1>2. Home[t] # r /\ pc[t] = "asleep"
  BY DEF WokenAt
<1> QED
  BY <1>1, <1>2 DEF SleepJustified, Box

\* Every step leaves only sleepers with nothing to take.
LEMMA SleepStep ==
    ASSUME Types, Hands, SleepJustified, [Next]_vars
    PROVE  SleepJustified'
<1> USE DEF Types
<1>0. pc \in [Threads -> PCs] /\ \A t \in Threads : Home[t] \in Ranks
  BY PlanFacts DEF ThreadTypes
<1>1. ASSUME UNCHANGED <<pending, readerError, shuttingDown>>,
             \A t \in Threads : pc'[t] = "asleep" => pc[t] = "asleep" /\ call'[t] = call[t]
      PROVE  SleepJustified'
  BY <1>1 DEF SleepJustified, Box
<1>2. ASSUME NEW t \in Threads, UNCHANGED <<pending, readerError, shuttingDown>>,
             NEW at, at # "asleep", NEW c, pc' = pc \/ pc' = [pc EXCEPT ![t] = at],
             call' = call \/ (pc' = [pc EXCEPT ![t] = at] /\ call' = [call EXCEPT ![t] = c])
      PROVE  SleepJustified'
  <2>1. \A u \in Threads : pc'[u] = "asleep" => pc[u] = "asleep" /\ call'[u] = call[u]
    BY <1>0, <1>2 DEF ThreadTypes
  <2> QED
    BY <1>1, <1>2, <2>1
<1>3. ASSUME NEW t \in Threads, NEW p, NEW g, NEW z, SendHeader(t, p, g, z) \/ ReceiveBegin(t, p, g)
      PROVE  SleepJustified'
  <2>1. CASE SendHeader(t, p, g, z)
    <3>1. /\ pc' = pc \/ pc' = [pc EXCEPT ![t] = "sending"]
          /\ \A u \in Threads \ {t} : call'[u] = call[u]
          /\ pc' = pc => call' = call
          /\ UNCHANGED <<pending, readerError, shuttingDown>>
      BY <2>1 DEF SendHeader, readerVars, rankVars, ThreadTypes
    <3>2. \A u \in Threads : pc'[u] = "asleep" => pc[u] = "asleep" /\ call'[u] = call[u]
      BY <1>0, <3>1
    <3> QED
      BY <1>1, <3>1, <3>2
  <2>2. CASE ReceiveBegin(t, p, g)
    BY <1>2, <2>2 DEF ReceiveBegin, readerVars, rankVars
  <2> QED
    BY <1>3, <2>1, <2>2
<1>4. ASSUME NEW t \in Threads, SendPayload(t) \/ SendFails(t)
      PROVE  SleepJustified'
  <2>1. CASE SendPayload(t)
    BY <1>2, <2>1 DEF SendPayload, readerVars, rankVars
  <2>2. CASE SendFails(t)
    <3>1. /\ \/ pc' = pc /\ call' = call
             \/ pc' = [pc EXCEPT ![t] = "idle"] /\ call' = [call EXCEPT ![t] = NoCall]
          /\ UNCHANGED <<pending, readerError, shuttingDown>>
      BY <2>2 DEF SendFails, readerVars, rankVars
    <3>2. \A u \in Threads : pc'[u] = "asleep" => pc[u] = "asleep" /\ call'[u] = call[u]
      BY <1>0, <3>1 DEF ThreadTypes
    <3> QED
      BY <1>1, <3>1, <3>2
  <2> QED
    BY <1>4, <2>1, <2>2
<1>5. ASSUME NEW t \in Threads, ReceiveTakes(t)
      PROVE  SleepJustified'
  <2> SUFFICES ASSUME NEW u \in Threads, pc'[u] = "asleep"
               PROVE  Box(u)' = <<>> /\ ~ readerError'[Home[u]] /\ ~ shuttingDown'[Home[u]]
    BY DEF SleepJustified
  <2>1. /\ u # t /\ pc[u] = "asleep" /\ call'[u] = call[u]
        /\ UNCHANGED <<readerError, shuttingDown>>
    BY <1>0, <1>5 DEF ReceiveTakes, ThreadTypes, readerVars, rankVars
  <2>2. Box(u) = <<>> /\ ~ readerError[Home[u]] /\ ~ shuttingDown[Home[u]]
    BY <2>1 DEF SleepJustified
  <2>3. call[t][1] \in Ranks /\ call[t][2] \in Tags /\ call[u][1] \in Ranks /\ call[u][2] \in Tags
    BY <1>5, <2>1, Zenon DEF CallsMatch, ReceiveTakes, Peers
  <2>4. Home[u] # Home[t] \/ call[u][1] # call[t][1] \/ call[u][2] # call[t][2]
    BY <1>5, <2>2, Zenon DEF ReceiveTakes, Box
  <2>5. PICK q : pending' = [pending EXCEPT ![Home[t]][call[t][1]][call[t][2]] = q]
    BY <1>5, Zenon DEF ReceiveTakes
  <2>6. pending'[Home[u]][call[u][1]][call[u][2]] = pending[Home[u]][call[u][1]][call[u][2]]
    <3>1. /\ pending \in [Ranks -> [Ranks -> [Tags -> Seq(Messages)]]]
          /\ Home[u] \in Ranks /\ Home[t] \in Ranks
      BY <1>0 DEF DataTypes
    <3>2. PICK a \in Ranks, b \in Ranks, c \in Tags : a = Home[t] /\ b = call[t][1] /\ c = call[t][2]
      BY <2>3, <3>1
    <3>3. PICK x \in Ranks, y \in Ranks, z \in Tags : x = Home[u] /\ y = call[u][1] /\ z = call[u][2]
      BY <2>3, <3>1
    <3>4. pending' = [pending EXCEPT ![a][b][c] = q] /\ (x # a \/ y # b \/ z # c)
      BY <2>4, <2>5, <3>2, <3>3
    <3>5. pending'[x][y][z] = pending[x][y][z]
      BY <3>1, <3>4, ZenonT(30)
    <3> QED
      BY <3>3, <3>5
  <2> QED
    BY <2>1, <2>2, <2>6 DEF Box
<1>6. ASSUME NEW t \in Threads, ReceiveSleeps(t)
      PROVE  SleepJustified'
  <2>1. /\ Box(t) = <<>> /\ ~ readerError[Home[t]] /\ ~ shuttingDown[Home[t]]
        /\ UNCHANGED <<call, pending, readerError, shuttingDown>>
        /\ \A u \in Threads \ {t} : pc'[u] = pc[u]
    BY <1>0, <1>6 DEF ReceiveSleeps, readerVars, rankVars
  <2> QED
    BY <2>1 DEF SleepJustified, Box
<1>7. ASSUME NEW t \in Threads, ReceiveThrows(t)
      PROVE  SleepJustified'
  BY <1>2, <1>7 DEF ReceiveThrows, readerVars, rankVars
<1>8. ASSUME NEW r \in Ranks, NEW p \in Peers(r), ReaderStep(r, p)
      PROVE  SleepJustified'
  <2>0. /\ p \in Ranks /\ UNCHANGED <<call, shuttingDown>>
        /\ pending \in [Ranks -> [Ranks -> [Tags -> Seq(Messages)]]] /\ readerError \in [Ranks -> BOOLEAN]
    BY <1>8 DEF Peers, ReaderStep, CallRecv, ReadHeader, ReadPayload, ReadEof, ReadReset, Push,
          rankVars, threadVars, DataTypes, RankTypes
  <2>1. CASE UNCHANGED <<pc, pending, readerError>>
    BY <1>1, <2>0, <2>1
  <2>2. CASE UNCHANGED pending /\ (ReaderThrows(r, p) \/ ReaderEnds(r, p))
    <3>1. pc' = WokenAt(r) /\ \A q \in Ranks \ {r} : readerError'[q] = readerError[q]
      BY <2>0, <2>2 DEF ReaderThrows, ReaderEnds
    <3> QED
      BY <2>0, <2>2, <3>1, WakesAll
  <2>3. CASE Push(r, p) /\ ~ shuttingDown[r]
    <3>1. pc' = WokenAt(r) /\ UNCHANGED readerError /\ \A q \in Ranks \ {r} : pending'[q] = pending[q]
      BY <2>0, <2>3 DEF Push
    <3> QED
      BY <2>0, <3>1, WakesAll
  <2>4. CASE CallRecv(r, p)
    BY <2>1, <2>2, <2>4 DEF CallRecv
  <2>5. CASE ReadHeader(r, p)
    BY <2>1, <2>2, <2>5 DEF ReadHeader
  <2>6. CASE ReadPayload(r, p)
    BY <2>1, <2>6 DEF ReadPayload, threadVars
  <2>7. CASE ReadEof(r, p) \/ ReadReset(r, p)
    BY <2>2, <2>7 DEF ReadEof, ReadReset
  <2>8. CASE Push(r, p) /\ shuttingDown[r]
    BY <2>2, <2>8 DEF Push
  <2> QED
    BY <1>8, <2>3, <2>4, <2>5, <2>6, <2>7, <2>8 DEF ReaderStep
<1>9. ASSUME NEW r \in Ranks, FinalizeBegin(r)
      PROVE  SleepJustified'
  <2>1. /\ pc' = WokenAt(r) /\ UNCHANGED <<call, pending, readerError>>
        /\ \A q \in Ranks \ {r} : shuttingDown'[q] = shuttingDown[q]
    BY <1>9 DEF FinalizeBegin, readerVars, RankTypes
  <2> QED
    BY <2>1, WakesAll
<1>10. ASSUME NEW r \in Ranks, FinalizeStep(r)
       PROVE  SleepJustified'
  BY <1>1, <1>10 DEF FinalizeStep, FinalizeClose, FinalizeReturns, threadVars, readerVars
<1>11. ASSUME NEW r \in Ranks, Die(r)
       PROVE  SleepJustified'
  <2>1. \A t \in Threads : pc'[t] = "asleep" => pc[t] = "asleep" /\ call'[t] = call[t]
    BY <1>11 DEF Die
  <2> QED
    BY <1>1, <1>11, <2>1 DEF Die
<1>12. CASE UNCHANGED vars
  BY <1>1, <1>12 DEF vars, moving, threadVars, readerVars, rankVars
<1> QED
  BY <1>3, <1>4, <1>5, <1>6, <1>7, <1>8, <1>9, <1>10, <1>11, <1>12, NextCases

-----------------------------------------------------------------------------
(* Frames.  b is the part before the first of w, <<>> where a header is due. *)

\* After b a header may follow.
Complete(b) == b = <<>> \/ b.part = "payload" \/ b.msg.size = "empty"
\* c may follow b.
Follows(b, c) ==
    IF c.part = "payload" THEN b = Header(c.msg) /\ c.msg.size # "empty" ELSE Complete(b)
\* Every part of w follows the one before it.
Framed(w, b) == \A i \in DOMAIN w : Follows(IF i > 1 THEN w[i - 1] ELSE b, w[i])
\* What the next part written will follow.
LastPart(w, b) == IF w = <<>> THEN b ELSE w[Len(w)]

\* A sequence is empty if its length is zero.
LEMMA EmptyIffZero ==
    ASSUME NEW S, NEW q \in Seq(S)
    PROVE  q = <<>> <=> Len(q) = 0
BY EmptySeq

LEMMA FramedAppend ==
    ASSUME NEW S, NEW w \in Seq(S), NEW b, NEW c \in S, Framed(w, b), Follows(LastPart(w, b), c)
    PROVE  Framed(Append(w, c), b) /\ LastPart(Append(w, c), b) = c
<1> DEFINE v == Append(w, c)
<1>1. /\ Len(w) \in Nat /\ DOMAIN w = 1 .. Len(w)
      /\ v \in Seq(S) /\ Len(v) = Len(w) + 1 /\ DOMAIN v = 1 .. Len(w) + 1
      /\ \A i \in 1 .. Len(w) : v[i] = w[i]
      /\ v[Len(w) + 1] = c
  BY AppendProperties, LenProperties
<1>2. w = <<>> <=> Len(w) = 0
  BY EmptySeq, LenProperties
<1> HIDE DEF v
<1>3. v # <<>>
  BY <1>1, EmptySeq
<1>4. LastPart(v, b) = c
  BY <1>1, <1>3 DEF LastPart
<1>5. ASSUME NEW i \in DOMAIN v
      PROVE  Follows(IF i > 1 THEN v[i - 1] ELSE b, v[i])
  <2>1. CASE i \in 1 .. Len(w)
    <3>1. v[i] = w[i] /\ (i > 1 => v[i - 1] = w[i - 1])
      BY <1>1, <2>1
    <3>2. Follows(IF i > 1 THEN w[i - 1] ELSE b, w[i])
      BY <1>1, <2>1 DEF Framed
    <3> QED
      BY <3>1, <3>2
  <2>2. CASE i = Len(w) + 1
    <3>1. (IF i > 1 THEN v[i - 1] ELSE b) = LastPart(w, b)
      BY <1>1, <1>2, <2>2 DEF LastPart
    <3> QED
      BY <1>1, <2>2, <3>1
  <2> QED
    BY <1>1, <2>1, <2>2
<1> QED
  BY <1>4, <1>5 DEF Framed, v

\* Framing survives the reading of the first part.
LEMMA FramedTail ==
    ASSUME NEW S, NEW w \in Seq(S), w # <<>>, NEW b, Framed(w, b)
    PROVE  /\ Follows(b, Head(w))
           /\ Framed(Tail(w), Head(w))
           /\ LastPart(Tail(w), Head(w)) = LastPart(w, b)
<1>1. /\ Len(w) \in Nat /\ Len(w) > 0 /\ DOMAIN w = 1 .. Len(w) /\ Head(w) = w[1]
      /\ Tail(w) \in Seq(S) /\ Len(Tail(w)) = Len(w) - 1 /\ DOMAIN Tail(w) = 1 .. Len(w) - 1
      /\ \A i \in 1 .. Len(w) - 1 : Tail(w)[i] = w[i + 1]
  BY HeadTailProperties, EmptySeq, LenProperties
<1>2. Tail(w) = <<>> <=> Len(w) = 1
  <2>1. Tail(w) = <<>> <=> Len(Tail(w)) = 0
    BY <1>1, EmptyIffZero
  <2> QED
    BY <1>1, <2>1
<1>3. Follows(b, Head(w))
  <2>1. 1 \in DOMAIN w /\ ~ (1 > 1)
    BY <1>1
  <2>2. Follows(IF 1 > 1 THEN w[1 - 1] ELSE b, w[1])
    BY <2>1, Zenon DEF Framed
  <2> QED
    BY <1>1, <2>1, <2>2
<1>4. ASSUME NEW i \in DOMAIN Tail(w)
      PROVE  Follows(IF i > 1 THEN Tail(w)[i - 1] ELSE Head(w), Tail(w)[i])
  <2>1. i + 1 \in DOMAIN w /\ i + 1 > 1 /\ i \in Nat
    BY <1>1
  <2>2. Follows(w[i], w[i + 1])
    <3>1. Follows(IF i + 1 > 1 THEN w[(i + 1) - 1] ELSE b, w[i + 1])
      BY <2>1, Zenon DEF Framed
    <3>2. (i + 1) - 1 = i
      BY <2>1
    <3> QED
      BY <2>1, <3>1, <3>2
  <2>3. Tail(w)[i] = w[i + 1] /\ (i > 1 => Tail(w)[i - 1] = w[i]) /\ (~ (i > 1) => Head(w) = w[i])
    BY <1>1
  <2> QED
    BY <2>2, <2>3
<1>5. LastPart(Tail(w), Head(w)) = LastPart(w, b)
  <2>1. CASE Len(w) = 1
    BY <1>1, <1>2, <2>1 DEF LastPart
  <2>2. CASE Len(w) # 1
    <3>1. Tail(w)[Len(w) - 1] = w[Len(w)]
      BY <1>1, <2>2
    <3> QED
      BY <1>1, <1>2, <2>2, <3>1 DEF LastPart
  <2> QED
    BY <2>1, <2>2
<1> QED
  BY <1>3, <1>4, <1>5 DEF Framed

\* Once a message is complete it does not matter which one it was.
LEMMA FramedForget ==
    ASSUME NEW w, NEW b, Framed(w, b), Complete(b)
    PROVE  Framed(w, <<>>)
<1> SUFFICES ASSUME NEW i \in DOMAIN w
             PROVE  Follows(IF i > 1 THEN w[i - 1] ELSE <<>>, w[i])
  BY DEF Framed
<1>1. Follows(IF i > 1 THEN w[i - 1] ELSE b, w[i])
  BY DEF Framed
<1>2. CASE i > 1
  BY <1>1, <1>2
<1>3. CASE ~ (i > 1)
  <2>1. Follows(b, w[i])
    BY <1>1, <1>3
  <2>2. w[i].part # "payload"
    <3> SUFFICES ASSUME w[i].part = "payload" PROVE FALSE
      OBVIOUS
    <3>1. b = Header(w[i].msg) /\ w[i].msg.size # "empty"
      BY <2>1 DEF Follows
    <3>2. b.part = "header" /\ b.msg.size # "empty" /\ b # <<>>
      BY <3>1 DEF Header
    <3> QED
      BY <3>2 DEF Complete
  <2>3. Follows(<<>>, w[i])
    BY <2>2 DEF Follows, Complete
  <2> QED
    BY <1>3, <2>3
<1> QED
  BY <1>2, <1>3

\* The part a reader has read and not finished with.
Before(r, s) == IF reader[r][s] \in {"sized", "payload"} THEN Header(hand[r][s][1]) ELSE <<>>

\* While the reader of r runs, the parts from s follow each other; and as long as s can
\* write, the last one is complete unless a thread of s has still to write its payload.
FramesFrom(s, r) ==
    reader[r][s] # "done" =>
        /\ Framed(wire[s][r], Before(r, s))
        /\ fd[s][r] =>
             /\ sendMutex[s][r] = {} => Complete(LastPart(wire[s][r], Before(r, s)))
             /\ \A t \in sendMutex[s][r] :
                  LastPart(wire[s][r], Before(r, s)) = Header(call[t][2])

\* So on every connection.
Frames == \A s, r \in Ranks : s # r => FramesFrom(s, r)

\* Nothing is written at the start.
LEMMA InitFrames == Init => Frames
<1> SUFFICES ASSUME Init, NEW s \in Ranks, NEW r \in Ranks, s # r
             PROVE  FramesFrom(s, r)
  BY DEF Frames
<1>1. wire[s][r] = <<>> /\ reader[r][s] = "header" /\ sendMutex[s][r] = {}
  BY DEF Init
<1> QED
  BY <1>1 DEF FramesFrom, Framed, Before, LastPart, Complete

\* What concerns a connection has not changed, or its sender can write no more.
LEMMA FramesKept ==
    ASSUME Types, NEW s \in Ranks, NEW r \in Ranks, FramesFrom(s, r),
           wire'[s][r] = wire[s][r],
           \/ reader'[r][s] = reader[r][s] /\ hand'[r][s] = hand[r][s]
           \/ reader'[r][s] = "done",
           \/ ~ fd'[s][r]
           \/ /\ fd'[s][r] = fd[s][r]
              /\ sendMutex'[s][r] = sendMutex[s][r]
              /\ \A t \in sendMutex[s][r] : call'[t] = call[t]
    PROVE  FramesFrom(s, r)'
<1>1. CASE reader'[r][s] = "done"
  BY <1>1 DEF FramesFrom
<1>2. CASE reader'[r][s] # "done"
  <2>1. reader[r][s] # "done" /\ Before(r, s)' = Before(r, s)
    BY <1>2 DEF Before
  <2> QED
    BY <2>1 DEF FramesFrom
<1> QED
  BY <1>1, <1>2

\* A header is written under the mutex, that is, after a whole message.
LEMMA SendHeaderFrames ==
    ASSUME Types, Holding, Frames, NEW t \in Threads, NEW p \in plan.to[t],
           NEW g \in plan.tags, NEW z \in plan.sizes, SendHeader(t, p, g, z)
    PROVE  Frames'
<1> SUFFICES ASSUME NEW s \in Ranks, NEW r \in Ranks, s # r
             PROVE  FramesFrom(s, r)'
  BY DEF Frames
<1> DEFINE m == [by |-> t, n |-> sends[t] + 1, tag |-> g, size |-> z]
<1>0. /\ Home[t] \in Ranks /\ p \in Ranks /\ Home[t] # p /\ pc[t] = "idle" /\ m.size = z
      /\ wire[s][r] \in Seq(Parts) /\ FramesFrom(s, r)
      /\ UNCHANGED <<reader, hand, fd>>
  BY PlanFacts, SMTT(30) DEF Types, DataTypes, Peers, SendHeader, readerVars, rankVars, Frames
<1>00. m \in Messages
  BY MessageMade DEF SendHeader
<1>1. CASE <<s, r>> # <<Home[t], p>>
  <2>1. wire'[s][r] = wire[s][r] /\ sendMutex'[s][r] = sendMutex[s][r]
    <3>1. /\ wire' = [wire EXCEPT ![Home[t]][p] = Append(@, Header(m))]
          /\ sendMutex' = sendMutex \/ sendMutex' = [sendMutex EXCEPT ![Home[t]][p] = {t}]
      BY DEF SendHeader
    <3>2. wire'[s][r] = wire[s][r]
      BY <1>0, <1>1, <3>1 DEF Types, DataTypes
    <3>3. sendMutex'[s][r] = sendMutex[s][r]
      BY <1>0, <1>1, <3>1 DEF Types, ThreadTypes
    <3> QED
      BY <3>2, <3>3
  <2>2. \A u \in sendMutex[s][r] : u # t /\ u \in Threads
    BY <1>0 DEF Holding, Types, ThreadTypes
  <2>3. \A u \in sendMutex[s][r] : call'[u] = call[u]
    BY <2>2 DEF SendHeader, Types, ThreadTypes
  <2> QED
    BY <1>0, <2>1, <2>3, FramesKept
<1>2. CASE s = Home[t] /\ r = p
  <2>1. /\ sendMutex[s][r] = {} /\ fd[s][r] /\ wire'[s][r] = Append(wire[s][r], Header(m))
    BY <1>0, <1>2 DEF SendHeader, MutexFree, Types, DataTypes
  <2>2. \/ z = "empty" /\ sendMutex'[s][r] = {}
        \/ z # "empty" /\ sendMutex'[s][r] = {t} /\ call'[t] = <<p, m>>
    BY <1>0, <1>2, <2>1 DEF SendHeader, Types, ThreadTypes
  <2> HIDE DEF m
  <2>3. Before(r, s)' = Before(r, s)
    BY <1>0 DEF Before
  <2>4. CASE reader[r][s] # "done"
    <3>1. Framed(wire[s][r], Before(r, s)) /\ Complete(LastPart(wire[s][r], Before(r, s)))
      BY <1>0, <2>1, <2>4 DEF FramesFrom
    <3>2. Header(m) \in Parts /\ Header(m).part = "header" /\ Header(m).msg = m
      BY <1>00 DEF Header, Parts
    <3>3. Follows(LastPart(wire[s][r], Before(r, s)), Header(m))
      BY <3>1, <3>2 DEF Follows
    <3>4. /\ Framed(wire'[s][r], Before(r, s)')
          /\ LastPart(wire'[s][r], Before(r, s)') = Header(m)
      BY <1>0, <2>1, <2>3, <3>1, <3>2, <3>3, FramedAppend
    <3>5. z = "empty" => Complete(Header(m))
      BY <1>0, <3>2 DEF Complete
    <3> QED
      BY <2>2, <3>4, <3>5 DEF FramesFrom
  <2> QED
    BY <1>0, <2>4 DEF FramesFrom
<1> QED
  BY <1>1, <1>2

\* A payload is written by the holder of the mutex, after its own header.
LEMMA SendPayloadFrames ==
    ASSUME Types, Holding, Frames, NEW t \in Threads, SendPayload(t)
    PROVE  Frames'
<1> SUFFICES ASSUME NEW s \in Ranks, NEW r \in Ranks, s # r
             PROVE  FramesFrom(s, r)'
  BY DEF Frames
<1>0. PICK p \in Ranks, m \in Messages : call[t] = <<p, m>> /\ p # Home[t] /\ m.size # "empty"
  BY DEF Types, CallsMatch, SendPayload, Peers
<1>1. /\ Home[t] \in Ranks /\ pc[t] = "sending" /\ sendMutex[Home[t]][p] = {t}
      /\ wire[s][r] \in Seq(Parts) /\ FramesFrom(s, r)
      /\ UNCHANGED <<reader, hand, fd>> /\ fd[Home[t]][p]
  <2>1. Home[t] \in Ranks /\ pc[t] = "sending" /\ fd[Home[t]][p] /\ UNCHANGED <<reader, hand, fd>>
    BY <1>0, PlanFacts DEF Types, SendPayload, readerVars, rankVars
  <2>2. sendMutex[Home[t]][p] = {t}
    BY <1>0, <2>1 DEF Holding
  <2>3. wire[s][r] \in Seq(Parts) /\ FramesFrom(s, r)
    BY DEF Types, DataTypes, Frames
  <2> QED
    BY <2>1, <2>2, <2>3
<1>2. /\ wire' = [wire EXCEPT ![Home[t]][p] = Append(@, Payload(m))]
      /\ sendMutex' = [sendMutex EXCEPT ![Home[t]][p] = {}]
      /\ call' = [call EXCEPT ![t] = NoCall]
  BY <1>0 DEF SendPayload
<1>3. CASE <<s, r>> # <<Home[t], p>>
  <2>1. wire'[s][r] = wire[s][r]
    BY <1>1, <1>2, <1>3 DEF Types, DataTypes
  <2>2. sendMutex'[s][r] = sendMutex[s][r]
    BY <1>1, <1>2, <1>3 DEF Types, ThreadTypes
  <2>3. \A u \in sendMutex[s][r] : u # t /\ u \in Threads
    BY <1>0, <1>3 DEF Holding, Types, ThreadTypes
  <2>4. \A u \in sendMutex[s][r] : call'[u] = call[u]
    BY <1>2, <2>3 DEF Types, ThreadTypes
  <2> QED
    BY <1>1, <2>1, <2>2, <2>4, FramesKept
<1>4. CASE s = Home[t] /\ r = p
  <2>1. wire'[s][r] = Append(wire[s][r], Payload(m)) /\ sendMutex'[s][r] = {}
    BY <1>1, <1>2, <1>4 DEF Types, DataTypes, ThreadTypes
  <2>2. Before(r, s)' = Before(r, s)
    BY <1>1 DEF Before
  <2>3. CASE reader[r][s] # "done"
    <3>1. Framed(wire[s][r], Before(r, s)) /\ LastPart(wire[s][r], Before(r, s)) = Header(m)
      BY <1>0, <1>1, <1>4, <2>3 DEF FramesFrom
    <3>2. Payload(m) \in Parts /\ Payload(m).part = "payload" /\ Payload(m).msg = m
      BY <1>0 DEF Payload, Parts
    <3>3. Follows(LastPart(wire[s][r], Before(r, s)), Payload(m))
      BY <1>0, <3>1, <3>2 DEF Follows
    <3>4. /\ Framed(wire'[s][r], Before(r, s)')
          /\ LastPart(wire'[s][r], Before(r, s)') = Payload(m)
      BY <1>1, <2>1, <2>2, <3>1, <3>2, <3>3, FramedAppend
    <3>5. Complete(Payload(m))
      BY <3>2 DEF Complete
    <3> QED
      BY <2>1, <3>4, <3>5 DEF FramesFrom
  <2> QED
    BY <1>1, <2>3 DEF FramesFrom
<1> QED
  BY <1>3, <1>4

\* The other steps of threads and finalize_() write nothing.
LEMMA OtherFrames ==
    ASSUME Types, Holding, Frames, UNCHANGED <<wire, reader, hand>>,
           \/ UNCHANGED <<fd, sendMutex>> /\ \A t \in Threads : pc[t] = "sending" => call'[t] = call[t]
           \/ \E t \in Threads : SendFails(t)
           \/ \E r \in Ranks : FinalizeBegin(r) \/ FinalizeStep(r)
    PROVE  Frames'
<1> SUFFICES ASSUME NEW s \in Ranks, NEW r \in Ranks, s # r
             PROVE  FramesFrom(s, r)'
  BY DEF Frames
<1>0. /\ FramesFrom(s, r)
      /\ \A u \in sendMutex[s][r] : u \in Threads /\ pc[u] = "sending"
  BY DEF Frames, Holding, Types, ThreadTypes
<1>1. CASE UNCHANGED <<fd, sendMutex>> /\ \A t \in Threads : pc[t] = "sending" => call'[t] = call[t]
  BY <1>0, <1>1, FramesKept
<1>2. ASSUME NEW t \in Threads, SendFails(t)
      PROVE  FramesFrom(s, r)'
  <2>1. CASE pc[t] # "sending"
    <3>1. UNCHANGED <<fd, sendMutex, call>>
      BY <1>2, <2>1 DEF SendFails, rankVars
    <3> QED
      BY <1>0, <3>1, FramesKept
  <2>2. CASE pc[t] = "sending"
    <3>1. PICK p \in Ranks : p = call[t][1] /\ Home[t] \in Ranks /\ ~ fd[Home[t]][p]
      BY <1>2, <2>2, PlanFacts DEF SendFails, Types, CallsMatch, Peers
    <3>2. /\ sendMutex' = [sendMutex EXCEPT ![Home[t]][p] = {}]
          /\ call' = [call EXCEPT ![t] = NoCall] /\ UNCHANGED fd
      BY <1>2, <2>2, <3>1 DEF SendFails, rankVars
    <3>3. CASE <<s, r>> = <<Home[t], p>>
      <4>1. ~ fd'[s][r]
        BY <3>1, <3>2, <3>3
      <4> QED
        BY <1>0, <4>1, FramesKept
    <3>4. CASE <<s, r>> # <<Home[t], p>>
      <4>1. sendMutex'[s][r] = sendMutex[s][r]
        BY <3>1, <3>2, <3>4 DEF Types, ThreadTypes
      <4>2. \A u \in sendMutex[s][r] : u # t
        BY <3>1, <3>4 DEF Holding
      <4>3. \A u \in sendMutex[s][r] : call'[u] = call[u]
        BY <1>0, <3>2, <4>2 DEF Types, ThreadTypes
      <4> QED
        BY <1>0, <3>2, <4>1, <4>3, FramesKept
    <3> QED
      BY <3>3, <3>4
  <2> QED
    BY <2>1, <2>2
<1>3. ASSUME NEW q \in Ranks, FinalizeBegin(q) \/ FinalizeStep(q)
      PROVE  FramesFrom(s, r)'
  <2>1. UNCHANGED <<call, sendMutex>> /\ fd'[s][r] \in {fd[s][r], FALSE}
    <3>1. UNCHANGED <<call, sendMutex>>
      BY <1>3 DEF FinalizeBegin, FinalizeStep, FinalizeClose, FinalizeReturns, threadVars
    <3>2. fd' = fd \/ \E p \in Ranks : fd' = [fd EXCEPT ![q][p] = FALSE]
      BY <1>3 DEF FinalizeBegin, FinalizeStep, FinalizeClose, FinalizeReturns, Peers
    <3>3. ASSUME NEW p \in Ranks, fd' = [fd EXCEPT ![q][p] = FALSE]
          PROVE  fd'[s][r] \in {fd[s][r], FALSE}
      BY <3>3 DEF Types, RankTypes
    <3> QED
      BY <3>1, <3>2, <3>3
  <2> QED
    BY <1>0, <2>1, FramesKept
<1> QED
  BY <1>1, <1>2, <1>3

\* A process that dies leaves what it has written, and reads no more.
LEMMA DieFrames ==
    ASSUME Types, Holding, Frames, NEW q \in Ranks, Die(q)
    PROVE  Frames'
<1> SUFFICES ASSUME NEW s \in Ranks, NEW r \in Ranks, s # r
             PROVE  FramesFrom(s, r)'
  BY DEF Frames
<1>0. FramesFrom(s, r) /\ wire' = wire
  BY DEF Frames, Die
<1>1. CASE r = q
  <2>1. reader'[r][s] = "done"
    BY <1>1 DEF Die, Types, RankTypes
  <2> QED
    BY <2>1 DEF FramesFrom
<1>2. CASE r # q /\ s = q
  <2>1. ~ fd'[s][r] /\ reader'[r][s] = reader[r][s] /\ hand'[r][s] = hand[r][s]
    BY <1>2 DEF Die, Types, RankTypes, DataTypes
  <2> QED
    BY <1>0, <2>1, FramesKept
<1>3. CASE r # q /\ s # q
  <2>1. /\ fd'[s][r] = fd[s][r] /\ reader'[r][s] = reader[r][s] /\ hand'[r][s] = hand[r][s]
        /\ sendMutex'[s][r] = sendMutex[s][r]
    BY <1>3 DEF Die, Types, RankTypes, DataTypes, ThreadTypes
  <2>2. \A u \in sendMutex[s][r] : u \in Threads /\ Home[u] = s
    BY DEF Holding, Types, ThreadTypes
  <2>3. \A u \in sendMutex[s][r] : call'[u] = call[u]
    BY <1>3, <2>2 DEF Die
  <2> QED
    BY <1>0, <2>1, <2>3, FramesKept
<1> QED
  BY <1>1, <1>2, <1>3

\* The reader takes the first part off the wire.
LEMMA ReadFrames ==
    ASSUME Types, Hands, Frames, CallsMatch, Holding, NEW r \in Ranks, NEW s \in Peers(r),
           ReadHeader(r, s) \/ ReadPayload(r, s), reader'[r][s] # "done"
    PROVE  FramesFrom(s, r)'
<1> DEFINE w == wire[s][r]
           b == Before(r, s)
           h == Head(w)
<1>0. /\ s \in Ranks /\ s # r /\ w \in Seq(Parts) /\ w # <<>> /\ reader[r][s] # "done"
      /\ FramesFrom(s, r) /\ UNCHANGED <<fd, call, sendMutex>>
      /\ wire'[s][r] = Tail(w)
  <2>1. s \in Ranks /\ s # r
    BY DEF Peers
  <2>2. /\ w # <<>> /\ reader[r][s] # "done" /\ UNCHANGED <<fd, call, sendMutex>>
        /\ wire' = [wire EXCEPT ![s][r] = Tail(@)]
    BY DEF ReadHeader, ReadPayload, rankVars, threadVars
  <2> QED
    BY <2>1, <2>2 DEF Types, DataTypes, Frames
<1>1. h \in Parts /\ Tail(w) \in Seq(Parts)
  BY <1>0, HeadTailProperties
<1>2. Follows(b, h) /\ Framed(Tail(w), h) /\ LastPart(Tail(w), h) = LastPart(w, b)
  <2>1. Framed(w, b)
    BY <1>0 DEF FramesFrom
  <2> QED
    BY <1>0, <2>1, FramedTail
<1>3. ASSUME Before(r, s)' = h
      PROVE  FramesFrom(s, r)'
  BY <1>0, <1>2, <1>3 DEF FramesFrom
<1>4. ASSUME Before(r, s)' = <<>>, Complete(h)
      PROVE  FramesFrom(s, r)'
  <2>1. Framed(Tail(w), <<>>)
    BY <1>2, <1>4, FramedForget
  <2>2. CASE Tail(w) # <<>>
    <3>1. LastPart(Tail(w), <<>>) = LastPart(w, b)
      BY <1>2, <2>2 DEF LastPart
    <3> QED
      BY <1>0, <1>4, <2>1, <3>1 DEF FramesFrom
  <2>3. CASE Tail(w) = <<>>
    <3>1. LastPart(w, b) = h /\ LastPart(Tail(w), <<>>) = <<>>
      BY <1>2, <2>3 DEF LastPart
    <3>2. \A t \in sendMutex[s][r] : pc[t] = "sending" /\ call[t][2].size # "empty"
      BY <1>0 DEF Holding, CallsMatch, Types, ThreadTypes
    <3>3. \A t \in sendMutex[s][r] : h # Header(call[t][2])
      <4> SUFFICES ASSUME NEW t \in sendMutex[s][r], h = Header(call[t][2]) PROVE FALSE
        OBVIOUS
      <4>1. h.part = "header" /\ h.msg.size # "empty" /\ h # <<>>
        BY <3>2 DEF Header
      <4> QED
        BY <1>4, <4>1 DEF Complete
    <3>4. Complete(<<>>)
      BY DEF Complete
    <3> QED
      BY <1>0, <1>4, <2>1, <3>1, <3>3, <3>4 DEF FramesFrom
  <2> QED
    BY <2>2, <2>3
<1>5. CASE ReadHeader(r, s)
  <2>1. /\ h.part = "header" /\ reader'[r][s] = IF h.msg.size = "empty" THEN "push" ELSE "sized"
        /\ hand'[r][s] = <<h.msg>>
    <3>1. h.part = "header"
      BY <1>0, <1>5 DEF ReadHeader, ReaderThrows, ReaderAt, Types, RankTypes
    <3>2. /\ reader' = [reader EXCEPT ![r][s] = IF h.msg.size = "empty" THEN "push" ELSE "sized"]
          /\ hand' = [hand EXCEPT ![r][s] = <<h.msg>>]
      BY <1>5, <3>1 DEF ReadHeader, ReaderAt
    <3> QED
      BY <1>0, <3>1, <3>2 DEF Types, RankTypes, DataTypes
  <2>2. h = Header(h.msg)
    BY <1>1, <2>1 DEF Parts, Header
  <2>3. CASE h.msg.size = "empty"
    BY <1>4, <2>1, <2>3 DEF Before, Complete
  <2>4. CASE h.msg.size # "empty"
    BY <1>3, <2>1, <2>2, <2>4 DEF Before
  <2> QED
    BY <2>3, <2>4
<1>6. CASE ReadPayload(r, s)
  <2>1. reader[r][s] = "payload" /\ reader'[r][s] = "push"
    BY <1>0, <1>6 DEF ReadPayload, ReaderAt, Types, RankTypes
  <2>2. b = Header(hand[r][s][1]) /\ hand[r][s][1].size # "empty"
    BY <1>0, <2>1 DEF Before, Hands
  <2>3. h.part = "payload"
    <3>1. ~ Complete(b)
      BY <2>2 DEF Complete, Header
    <3> QED
      BY <1>2, <3>1 DEF Follows
  <2>4. Before(r, s)' = <<>> /\ Complete(h)
    BY <2>1, <2>3 DEF Before, Complete
  <2> QED
    BY <1>4, <2>4
<1> QED
  BY <1>5, <1>6

\* A reader takes the parts in the order in which they were written.
LEMMA ReaderFrames ==
    ASSUME Types, Hands, Holding, Frames, NEW q \in Ranks, NEW p \in Peers(q), ReaderStep(q, p)
    PROVE  Frames'
<1> SUFFICES ASSUME NEW s \in Ranks, NEW r \in Ranks, s # r
             PROVE  FramesFrom(s, r)'
  BY DEF Frames
<1>0. /\ FramesFrom(s, r) /\ UNCHANGED <<fd, call, sendMutex>> /\ p \in Ranks
      /\ CallsMatch
  BY DEF Frames, Peers, ReaderStep, CallRecv, ReadHeader, ReadPayload, ReadEof, ReadReset, Push,
         rankVars, threadVars, Types
<1>1. CASE <<s, r>> # <<p, q>>
  <2>1. /\ \E at : reader' = [reader EXCEPT ![q][p] = at]
        /\ hand' = hand \/ \E h : hand' = [hand EXCEPT ![q][p] = h]
        /\ wire' = wire \/ \E w : wire' = [wire EXCEPT ![p][q] = w]
    BY DEF ReaderStep, CallRecv, ReadHeader, ReadPayload, ReadEof, ReadReset, Push,
           ReaderThrows, ReaderEnds, ReaderAt
  <2>2. reader'[r][s] = reader[r][s] /\ hand'[r][s] = hand[r][s]
    <3>1. ASSUME NEW at, reader' = [reader EXCEPT ![q][p] = at]
          PROVE  reader'[r][s] = reader[r][s]
      BY <1>0, <1>1, <3>1 DEF Types, RankTypes
    <3>2. ASSUME NEW h, hand' = [hand EXCEPT ![q][p] = h]
          PROVE  hand'[r][s] = hand[r][s]
      BY <1>0, <1>1, <3>2 DEF Types, DataTypes
    <3> QED
      BY <2>1, <3>1, <3>2
  <2>3. wire'[s][r] = wire[s][r]
    <3>1. ASSUME NEW w, wire' = [wire EXCEPT ![p][q] = w]
          PROVE  wire'[s][r] = wire[s][r]
      BY <1>0, <1>1, <3>1 DEF Types, DataTypes
    <3> QED
      BY <2>1, <3>1
  <2> QED
    BY <1>0, <2>2, <2>3, FramesKept
<1>2. CASE s = p /\ r = q
  <2>1. CASE reader'[r][s] = "done"
    BY <2>1 DEF FramesFrom
  <2>2. CASE reader'[r][s] # "done" /\ (ReadHeader(r, s) \/ ReadPayload(r, s))
    BY <1>0, <1>2, <2>2, ReadFrames
  <2>3. CASE reader'[r][s] # "done" /\ ~ (ReadHeader(r, s) \/ ReadPayload(r, s))
    <3>1. CallRecv(r, s) \/ Push(r, s)
      <4>1. ASSUME ReadEof(r, s) \/ ReadReset(r, s)
            PROVE  reader'[r][s] = "done"
        BY <1>0, <1>2, <4>1 DEF ReadEof, ReadReset, ReaderEnds, ReaderThrows, ReaderAt, Types, RankTypes
      <4> QED
        BY <1>2, <2>3, <4>1 DEF ReaderStep
    <3>2. wire' = wire
      BY <3>1 DEF CallRecv, Push
    <3>3. /\ reader[r][s] # "done" /\ Before(r, s)' = Before(r, s)
      <4>1. CASE CallRecv(r, s)
        <5>1. /\ reader[r][s] \in {"loop", "sized"} /\ UNCHANGED hand
              /\ reader' = [reader EXCEPT ![r][s] = IF reader[r][s] = "loop" THEN "header" ELSE "payload"]
          BY <1>0, <1>2, <2>3, <4>1 DEF CallRecv, ReaderThrows, ReaderAt, Types, RankTypes
        <5> QED
          BY <1>0, <1>2, <5>1 DEF Before, Types, RankTypes
      <4>2. CASE Push(r, s)
        <5>1. reader[r][s] = "push" /\ reader'[r][s] \in {"loop", "done"}
          BY <1>0, <1>2, <4>2 DEF Push, ReaderEnds, ReaderAt, Types, RankTypes
        <5> QED
          BY <5>1 DEF Before
      <4> QED
        BY <3>1, <4>1, <4>2
    <3> QED
      BY <1>0, <3>2, <3>3 DEF FramesFrom
  <2> QED
    BY <2>1, <2>2, <2>3
<1> QED
  BY <1>1, <1>2

\* Every step keeps the connections framed.
LEMMA FramesStep ==
    ASSUME Types, Hands, Holding, Frames, [Next]_vars
    PROVE  Frames'
<1>0. CallsMatch
  BY DEF Types
<1>1. ASSUME NEW t \in Threads, NEW p, NEW g,
             ReceiveBegin(t, p, g) \/ ReceiveTakes(t) \/ ReceiveSleeps(t) \/ ReceiveThrows(t)
      PROVE  Frames'
  <2>1. UNCHANGED <<wire, reader, hand, fd, sendMutex>>
    BY <1>1, Zenon DEF ReceiveBegin, ReceiveTakes, ReceiveSleeps, ReceiveThrows, readerVars, rankVars
  <2>2. pc[t] # "sending" /\ \A u \in Threads \ {t} : call'[u] = call[u]
    BY <1>1 DEF ReceiveBegin, ReceiveTakes, ReceiveSleeps, ReceiveThrows, Types, ThreadTypes
  <2> QED
    BY <2>1, <2>2, OtherFrames
<1>2. ASSUME NEW t \in Threads, SendFails(t)
      PROVE  Frames'
  BY <1>2, OtherFrames DEF SendFails, readerVars
<1>3. ASSUME NEW r \in Ranks, FinalizeBegin(r) \/ FinalizeStep(r)
      PROVE  Frames'
  <2>1. UNCHANGED <<wire, reader, hand>>
    BY <1>3 DEF FinalizeBegin, FinalizeStep, FinalizeClose, FinalizeReturns, readerVars
  <2> QED
    BY <1>3, <2>1, OtherFrames
<1>4. CASE UNCHANGED vars
  <2>1. UNCHANGED <<wire, reader, hand, fd, sendMutex, call>>
    BY <1>4 DEF vars, moving, threadVars, readerVars, rankVars
  <2> QED
    BY <2>1, OtherFrames
<1> QED
  BY <1>0, <1>1, <1>2, <1>3, <1>4, NextCases, SendHeaderFrames, SendPayloadFrames, DieFrames, ReaderFrames

\* Framed connections are what FramesWhole asks for.
LEMMA FramesAreWhole == Frames => FramesWhole
<1> SUFFICES ASSUME Frames, NEW s \in Ranks, NEW r \in Ranks, s # r, reader[r][s] # "done",
                    NEW i \in DOMAIN wire[s][r]
             PROVE  LET w == wire[s][r]
                        before == IF i > 1 THEN w[i - 1] ELSE Before(r, s)
                    IN  IF w[i].part = "payload"
                        THEN before = Header(w[i].msg)
                        ELSE \/ before = <<>>
                             \/ before.part = "payload"
                             \/ before.msg.size = "empty"
  BY DEF FramesWhole, Before
<1>1. Follows(IF i > 1 THEN wire[s][r][i - 1] ELSE Before(r, s), wire[s][r][i])
  BY DEF Frames, FramesFrom, Framed
<1> QED
  BY <1>1 DEF Follows, Complete

-----------------------------------------------------------------------------
(* The headers of one tag on a connection *)

LEMMA AnnouncesNothing == ASSUME NEW g PROVE Announces(<<>>, g, <<>>)
<1>1. HeadersOf(<<>>, g) = {}
  BY DEF HeadersOf
<1>2. DOMAIN <<>> = {}
  OBVIOUS
<1>3. [i \in {} |-> 0] \in [DOMAIN <<>> -> HeadersOf(<<>>, g)]
  BY <1>1, <1>2
<1> QED
  BY <1>1, <1>2, <1>3 DEF Announces

\* Writing a header of the tag.
LEMMA AnnounceMore ==
    ASSUME NEW w \in Seq(Parts), NEW g, NEW q \in Seq(Messages), Announces(w, g, q),
           NEW m \in Messages, m.tag = g
    PROVE  Announces(Append(w, Header(m)), g, Append(q, m))
<1> DEFINE v == Append(w, Header(m))
           p == Append(q, m)
<1>0. Header(m) \in Parts /\ Header(m).part = "header" /\ Header(m).msg = m
  BY DEF Header, Parts
<1>1. /\ Len(w) \in Nat /\ DOMAIN w = 1 .. Len(w) /\ DOMAIN v = 1 .. Len(w) + 1
      /\ \A i \in 1 .. Len(w) : v[i] = w[i]
      /\ v[Len(w) + 1] = Header(m)
  BY <1>0, AppendProperties, LenProperties
<1>2. /\ Len(q) \in Nat /\ DOMAIN q = 1 .. Len(q) /\ DOMAIN p = 1 .. Len(q) + 1
      /\ \A i \in 1 .. Len(q) : p[i] = q[i]
      /\ p[Len(q) + 1] = m
  BY AppendProperties, LenProperties
<1> HIDE DEF v, p
<1>3. HeadersOf(v, g) = HeadersOf(w, g) \cup {Len(w) + 1}
  BY <1>0, <1>1 DEF HeadersOf
<1>4. PICK at \in [DOMAIN q -> HeadersOf(w, g)] :
        /\ \A i \in DOMAIN q : w[at[i]].msg = q[i]
        /\ \A i, j \in DOMAIN q : i < j => at[i] < at[j]
        /\ \A k \in HeadersOf(w, g) : \E i \in DOMAIN q : at[i] = k
  BY DEF Announces
<1>5. \A i \in 1 .. Len(q) : at[i] \in 1 .. Len(w)
  BY <1>1, <1>2 DEF HeadersOf
<1> DEFINE to == [i \in DOMAIN p |-> IF i \in 1 .. Len(q) THEN at[i] ELSE Len(w) + 1]
<1>6. to \in [DOMAIN p -> HeadersOf(v, g)]
  BY <1>2, <1>3
<1>7. \A i \in DOMAIN p : v[to[i]].msg = p[i]
  BY <1>0, <1>1, <1>2, <1>4, <1>5
<1>8. \A i, j \in DOMAIN p : i < j => to[i] < to[j]
  BY <1>1, <1>2, <1>4, <1>5
<1>9. \A k \in HeadersOf(v, g) : \E i \in DOMAIN p : to[i] = k
  BY <1>2, <1>3, <1>4
<1> HIDE DEF to
<1>10. Announces(v, g, p)
  BY <1>6, <1>7, <1>8, <1>9 DEF Announces
<1> QED
  BY <1>10 DEF v, p

\* Writing anything else.
LEMMA AnnounceSame ==
    ASSUME NEW w \in Seq(Parts), NEW g, NEW q \in Seq(Messages), Announces(w, g, q),
           NEW c \in Parts, ~ (c.part = "header" /\ c.msg.tag = g)
    PROVE  Announces(Append(w, c), g, q)
<1> DEFINE v == Append(w, c)
<1>1. /\ Len(w) \in Nat /\ DOMAIN w = 1 .. Len(w) /\ DOMAIN v = 1 .. Len(w) + 1
      /\ \A i \in 1 .. Len(w) : v[i] = w[i]
      /\ v[Len(w) + 1] = c
  BY AppendProperties, LenProperties
<1> HIDE DEF v
<1>2. HeadersOf(v, g) = HeadersOf(w, g) /\ \A k \in HeadersOf(w, g) : v[k] = w[k]
  BY <1>1 DEF HeadersOf
<1>3. PICK at \in [DOMAIN q -> HeadersOf(w, g)] :
        /\ \A i \in DOMAIN q : w[at[i]].msg = q[i]
        /\ \A i, j \in DOMAIN q : i < j => at[i] < at[j]
        /\ \A k \in HeadersOf(w, g) : \E i \in DOMAIN q : at[i] = k
  BY DEF Announces
<1>4. \A i \in DOMAIN q : v[at[i]].msg = q[i]
  BY <1>2, <1>3
<1>5. /\ at \in [DOMAIN q -> HeadersOf(v, g)]
      /\ \A i, j \in DOMAIN q : i < j => at[i] < at[j]
      /\ \A k \in HeadersOf(v, g) : \E i \in DOMAIN q : at[i] = k
  BY <1>2, <1>3
<1>6. Announces(v, g, q)
  BY <1>4, <1>5 DEF Announces
<1> QED
  BY <1>6 DEF v

\* Where the headers are once the first part has been read.
LEMMA HeadersOfTail ==
    ASSUME NEW w \in Seq(Parts), w # <<>>, NEW g
    PROVE  /\ HeadersOf(w, g) \subseteq 1 .. Len(w) /\ Len(w) \in Nat
           /\ \A k \in HeadersOf(w, g) \ {1} :
                k - 1 \in HeadersOf(Tail(w), g) /\ Tail(w)[k - 1] = w[k]
           /\ \A k \in HeadersOf(Tail(w), g) : k \in Nat \ {0} /\ k + 1 \in HeadersOf(w, g)
<1>1. /\ Len(w) \in Nat /\ DOMAIN w = 1 .. Len(w) /\ DOMAIN Tail(w) = 1 .. Len(w) - 1
      /\ \A i \in 1 .. Len(w) - 1 : Tail(w)[i] = w[i + 1]
  <2>1. Tail(w) \in Seq(Parts) /\ Len(w) \in Nat /\ Len(Tail(w)) = Len(w) - 1
    BY HeadTailProperties, LenProperties
  <2> QED
    BY <2>1, HeadTailProperties, LenProperties
<1>2. ASSUME NEW k \in HeadersOf(w, g) \ {1}
      PROVE  k - 1 \in HeadersOf(Tail(w), g) /\ Tail(w)[k - 1] = w[k]
  <2>1. k \in 1 .. Len(w) /\ k - 1 \in 1 .. Len(w) - 1 /\ (k - 1) + 1 = k
    BY <1>1 DEF HeadersOf
  <2>2. Tail(w)[k - 1] = w[k]
    BY <1>1, <2>1
  <2> QED
    BY <1>1, <2>1, <2>2 DEF HeadersOf
<1>3. ASSUME NEW k \in HeadersOf(Tail(w), g)
      PROVE  k \in Nat \ {0} /\ k + 1 \in HeadersOf(w, g)
  BY <1>1 DEF HeadersOf
<1> QED
  BY <1>1, <1>2, <1>3 DEF HeadersOf

\* Reading a header of the tag.
LEMMA AnnouncedRead ==
    ASSUME NEW w \in Seq(Parts), w # <<>>, NEW g, NEW q \in Seq(Messages), Announces(w, g, q),
           Head(w).part = "header", Head(w).msg.tag = g
    PROVE  q # <<>> /\ Head(q) = Head(w).msg /\ Announces(Tail(w), g, Tail(q))
<1>1. PICK at \in [DOMAIN q -> HeadersOf(w, g)] :
        /\ \A i \in DOMAIN q : w[at[i]].msg = q[i]
        /\ \A i, j \in DOMAIN q : i < j => at[i] < at[j]
        /\ \A k \in HeadersOf(w, g) : \E i \in DOMAIN q : at[i] = k
  BY DEF Announces
<1>2. 1 \in HeadersOf(w, g) /\ Head(w) = w[1]
  BY HeadersOfTail, EmptySeq, LenProperties DEF HeadersOf
<1>3. Len(q) \in Nat /\ DOMAIN q = 1 .. Len(q)
  BY LenProperties
<1>4. Len(q) > 0 /\ at[1] = 1
  <2>1. PICK i \in 1 .. Len(q) : at[i] = 1
    BY <1>1, <1>2, <1>3
  <2>2. at[1] \in 1 .. Len(w) /\ Len(w) \in Nat
    BY <1>1, <1>3, <2>1, HeadersOfTail
  <2>3. i > 1 => at[1] < 1
    BY <1>1, <1>3, <2>1
  <2> QED
    BY <1>3, <2>1, <2>2, <2>3
<1>5. q # <<>> /\ Head(q) = q[1]
  BY <1>3, <1>4, EmptySeq
<1>6. /\ DOMAIN Tail(q) = 1 .. Len(q) - 1
      /\ \A i \in 1 .. Len(q) - 1 : Tail(q)[i] = q[i + 1]
  <2>1. Tail(q) \in Seq(Messages) /\ Len(Tail(q)) = Len(q) - 1
    BY <1>5, HeadTailProperties
  <2> QED
    BY <1>5, <2>1, HeadTailProperties, LenProperties
<1> DEFINE to == [i \in DOMAIN Tail(q) |-> at[i + 1] - 1]
<1>7. ASSUME NEW i \in DOMAIN Tail(q)
      PROVE  /\ i \in 1 .. Len(q) - 1 /\ i + 1 \in DOMAIN q
             /\ at[i + 1] \in HeadersOf(w, g) \ {1}
             /\ at[i + 1] \in 1 .. Len(w)
  BY <1>1, <1>3, <1>4, <1>6, HeadersOfTail
<1>8. to \in [DOMAIN Tail(q) -> HeadersOf(Tail(w), g)]
  BY <1>7, HeadersOfTail
<1>9. \A i \in DOMAIN Tail(q) : Tail(w)[to[i]].msg = Tail(q)[i]
  BY <1>1, <1>6, <1>7, HeadersOfTail, SMTT(30)
<1>10. ASSUME NEW i \in DOMAIN Tail(q), NEW j \in DOMAIN Tail(q), i < j
       PROVE  to[i] < to[j]
  <2>1. i \in Nat /\ j \in Nat /\ i + 1 < j + 1
    BY <1>7, <1>10
  <2>2. at[i + 1] < at[j + 1]
    BY <1>1, <1>7, <2>1
  <2>3. at[i + 1] \in Nat /\ at[j + 1] \in Nat
    BY <1>7
  <2> QED
    BY <2>2, <2>3
<1>11. ASSUME NEW k \in HeadersOf(Tail(w), g)
       PROVE  \E i \in DOMAIN Tail(q) : to[i] = k
  <2>1. k + 1 \in HeadersOf(w, g) /\ k + 1 # 1 /\ k \in Nat
    BY HeadersOfTail
  <2>2. PICK i \in 1 .. Len(q) : at[i] = k + 1
    BY <1>1, <1>3, <2>1
  <2>3. i # 1 /\ i - 1 \in DOMAIN Tail(q) /\ (i - 1) + 1 = i
    BY <1>3, <1>4, <1>6, <2>1, <2>2
  <2>4. to[i - 1] = k
    BY <2>1, <2>2, <2>3
  <2> QED
    BY <2>3, <2>4
<1> HIDE DEF to
<1>12. Announces(Tail(w), g, Tail(q))
  BY <1>8, <1>9, <1>10, <1>11 DEF Announces
<1>13. Head(q) = Head(w).msg
  BY <1>1, <1>2, <1>3, <1>4, <1>5
<1> QED
  BY <1>5, <1>12, <1>13

\* Reading anything else.
LEMMA AnnouncedKept ==
    ASSUME NEW w \in Seq(Parts), w # <<>>, NEW g, NEW q \in Seq(Messages), Announces(w, g, q),
           ~ (Head(w).part = "header" /\ Head(w).msg.tag = g)
    PROVE  Announces(Tail(w), g, q)
<1>1. PICK at \in [DOMAIN q -> HeadersOf(w, g)] :
        /\ \A i \in DOMAIN q : w[at[i]].msg = q[i]
        /\ \A i, j \in DOMAIN q : i < j => at[i] < at[j]
        /\ \A k \in HeadersOf(w, g) : \E i \in DOMAIN q : at[i] = k
  BY DEF Announces
<1>2. 1 \notin HeadersOf(w, g)
  BY DEF HeadersOf
<1> DEFINE to == [i \in DOMAIN q |-> at[i] - 1]
<1>3. \A i \in DOMAIN q : at[i] \in HeadersOf(w, g) \ {1} /\ at[i] \in 1 .. Len(w) /\ Len(w) \in Nat
  BY <1>1, <1>2, HeadersOfTail
<1>4. to \in [DOMAIN q -> HeadersOf(Tail(w), g)]
  BY <1>3, HeadersOfTail
<1>5. \A i \in DOMAIN q : Tail(w)[to[i]].msg = q[i]
  BY <1>1, <1>3, HeadersOfTail
<1>6. \A i, j \in DOMAIN q : i < j => to[i] < to[j]
  BY <1>1, <1>3
<1>7. ASSUME NEW k \in HeadersOf(Tail(w), g)
      PROVE  \E i \in DOMAIN q : to[i] = k
  <2>1. k + 1 \in HeadersOf(w, g) /\ k \in Nat
    BY HeadersOfTail
  <2> QED
    BY <1>1, <2>1
<1> HIDE DEF to
<1> QED
  BY <1>4, <1>5, <1>6, <1>7 DEF Announces

-----------------------------------------------------------------------------
(* Delivery *)

\* What r has from s under tag g: taken or pending, and read.
Arrived(s, r, g) == got[r][s][g] \o pending[r][s][g]
HasRead(s, r, g) == Arrived(s, r, g) \o InHand(r, s, g)

\* What NothingLost says of one queue, with the rest of it named.
Delivers(s, r, g) ==
    \E rest \in Seq(Messages) :
        IF reader[r][s] # "done"
        THEN sent[s][r][g] = HasRead(s, r, g) \o rest /\ Announces(wire[s][r], g, rest)
        ELSE sent[s][r][g] = Arrived(s, r, g) \o rest

\* So for every two ranks and tag.
Delivery == \A s, r \in Ranks, g \in Tags : s # r => Delivers(s, r, g)

\* Nothing is sent at the start.
LEMMA InitDelivery == Init => Delivery
<1> SUFFICES ASSUME Init, NEW s \in Ranks, NEW r \in Ranks, NEW g \in Tags, s # r
             PROVE  Delivers(s, r, g)
  BY DEF Delivery
<1>1. /\ sent[s][r][g] = <<>> /\ got[r][s][g] = <<>> /\ pending[r][s][g] = <<>>
      /\ hand[r][s] = <<>> /\ wire[s][r] = <<>>
  BY DEF Init
<1>2. <<>> \o <<>> = <<>> /\ <<>> \in Seq(Messages)
  BY EmptySeq, ConcatEmptySeq
<1>3. HasRead(s, r, g) = <<>> /\ Arrived(s, r, g) = <<>>
  BY <1>1, <1>2 DEF HasRead, Arrived, InHand
<1> QED
  BY <1>1, <1>2, <1>3, AnnouncesNothing DEF Delivers

\* The types of what Delivers relates.
LEMMA DeliveryTypes ==
    ASSUME Types, Hands, NEW s \in Ranks, NEW r \in Ranks, NEW g \in Tags
    PROVE  /\ got[r][s][g] \in Seq(Messages) /\ pending[r][s][g] \in Seq(Messages)
           /\ sent[s][r][g] \in Seq(Messages) /\ wire[s][r] \in Seq(Parts)
           /\ hand[r][s] \in Seq(Messages) /\ InHand(r, s, g) \in Seq(Messages)
           /\ Arrived(s, r, g) \in Seq(Messages) /\ HasRead(s, r, g) \in Seq(Messages)
<1>1. /\ got[r][s][g] \in Seq(Messages) /\ pending[r][s][g] \in Seq(Messages)
      /\ sent[s][r][g] \in Seq(Messages) /\ wire[s][r] \in Seq(Parts)
      /\ hand[r][s] \in Seq(Messages)
  BY DEF Types, DataTypes
<1>2. InHand(r, s, g) \in Seq(Messages)
  BY <1>1, EmptySeq DEF InHand
<1>3. Arrived(s, r, g) \in Seq(Messages)
  BY <1>1, ConcatProperties DEF Arrived
<1>4. HasRead(s, r, g) \in Seq(Messages)
  BY <1>2, <1>3, ConcatProperties DEF HasRead
<1> QED
  BY <1>1, <1>2, <1>3, <1>4

\* The end of a reader, and a reader that has ended: what arrived is a beginning of
\* what was sent.
LEMMA DeliversArrived ==
    ASSUME Types, Hands, NEW s \in Ranks, NEW r \in Ranks, NEW g \in Tags, Delivers(s, r, g)
    PROVE  \E rest \in Seq(Messages) : sent[s][r][g] = Arrived(s, r, g) \o rest
<1>1. CASE reader[r][s] = "done"
  BY <1>1 DEF Delivers
<1>2. CASE reader[r][s] # "done"
  <2>1. PICK rest \in Seq(Messages) : sent[s][r][g] = HasRead(s, r, g) \o rest
    BY <1>2 DEF Delivers
  <2>2. HasRead(s, r, g) \o rest = Arrived(s, r, g) \o (InHand(r, s, g) \o rest)
    <3>1. Arrived(s, r, g) \in Seq(Messages) /\ InHand(r, s, g) \in Seq(Messages)
      BY DeliveryTypes
    <3> QED
      BY <3>1, ConcatAssociative, SMTT(30) DEF HasRead
  <2>3. InHand(r, s, g) \o rest \in Seq(Messages)
    BY DeliveryTypes, ConcatProperties
  <2> QED
    BY <2>1, <2>2, <2>3
<1> QED
  BY <1>1, <1>2

\* What concerns a queue has not changed, or its reader has ended.
LEMMA DeliversKept ==
    ASSUME Types, Hands, NEW s \in Ranks, NEW r \in Ranks, NEW g \in Tags, Delivers(s, r, g),
           sent'[s][r][g] = sent[s][r][g], Arrived(s, r, g)' = Arrived(s, r, g),
           \/ reader'[r][s] = "done"
           \/ /\ reader[r][s] # "done"
              /\ HasRead(s, r, g)' = HasRead(s, r, g) /\ wire'[s][r] = wire[s][r]
    PROVE  Delivers(s, r, g)'
<1>1. CASE reader'[r][s] = "done"
  BY <1>1, DeliversArrived, ZenonT(30) DEF Delivers
<1>2. CASE reader'[r][s] # "done"
  BY <1>2 DEF Delivers
<1> QED
  BY <1>1, <1>2

\* Nothing that Delivers relates has changed.
LEMMA DeliveryKept ==
    ASSUME Types, Hands, Delivery, UNCHANGED <<wire, reader, hand, pending, sent, got>>
    PROVE  Delivery'
<1> SUFFICES ASSUME NEW s \in Ranks, NEW r \in Ranks, NEW g \in Tags, s # r
             PROVE  Delivers(s, r, g)'
  BY DEF Delivery
<1> QED
  BY DeliversKept DEF Delivery, Arrived, HasRead, InHand

\* A header announces the message that is sent.
LEMMA SendHeaderDelivery ==
    ASSUME Types, Hands, Delivery, NEW t \in Threads, NEW p \in plan.to[t],
           NEW g \in plan.tags, NEW z \in plan.sizes, SendHeader(t, p, g, z)
    PROVE  Delivery'
<1> SUFFICES ASSUME NEW s \in Ranks, NEW r \in Ranks, NEW h \in Tags, s # r
             PROVE  Delivers(s, r, h)'
  BY DEF Delivery
<1> DEFINE m == [by |-> t, n |-> sends[t] + 1, tag |-> g, size |-> z]
<1>0. m \in Messages /\ m.tag = g
  BY MessageMade DEF SendHeader
<1>1. /\ Home[t] \in Ranks /\ p \in Ranks /\ g \in Tags /\ Delivers(s, r, h)
      /\ wire' = [wire EXCEPT ![Home[t]][p] = Append(@, Header(m))]
      /\ sent' = [sent EXCEPT ![Home[t]][p][g] = Append(@, m)]
      /\ UNCHANGED <<reader, hand, pending, got>>
  BY PlanFacts DEF SendHeader, Types, readerVars, Delivery
<1> HIDE DEF m
<1>2. /\ Arrived(s, r, h)' = Arrived(s, r, h) /\ HasRead(s, r, h)' = HasRead(s, r, h)
      /\ Arrived(s, r, h) \in Seq(Messages) /\ HasRead(s, r, h) \in Seq(Messages)
      /\ wire[s][r] \in Seq(Parts)
  BY <1>1, DeliveryTypes DEF Arrived, HasRead, InHand
<1>3. Header(m) \in Parts /\ Header(m).part = "header" /\ Header(m).msg = m
  BY <1>0 DEF Header, Parts
<1>6. sent \in [Ranks -> [Ranks -> [Tags -> Seq(Messages)]]]
  BY DEF Types, DataTypes
<1>4. CASE <<s, r>> # <<Home[t], p>>
  <2>1. wire'[s][r] = wire[s][r]
    BY <1>1, <1>4 DEF Types, DataTypes
  <2>2. sent'[s][r] = sent[s][r]
    BY <1>1, <1>4 DEF Types, DataTypes
  <2> QED
    BY <1>1, <1>2, <2>1, <2>2, DeliversKept
<1>5. CASE s = Home[t] /\ r = p
  <2>1. wire'[s][r] = Append(wire[s][r], Header(m))
    BY <1>1, <1>5 DEF Types, DataTypes
  <2>2. PICK rest \in Seq(Messages) :
          IF reader[r][s] # "done"
          THEN sent[s][r][h] = HasRead(s, r, h) \o rest /\ Announces(wire[s][r], h, rest)
          ELSE sent[s][r][h] = Arrived(s, r, h) \o rest
    BY <1>1 DEF Delivers
  <2>3. CASE h = g
    <3>1. sent'[s][r][h] = Append(sent[s][r][h], m)
      BY <1>1, <1>5, <1>6, <2>3
    <3>0. ASSUME NEW a \in Seq(Messages)
          PROVE  Append(a \o rest, m) = a \o Append(rest, m)
      BY <1>0
    <3>2. ASSUME reader[r][s] # "done"
          PROVE  /\ sent'[s][r][h] = HasRead(s, r, h) \o Append(rest, m)
                 /\ Announces(wire'[s][r], h, Append(rest, m))
      <4>1. sent[s][r][h] = HasRead(s, r, h) \o rest /\ Announces(wire[s][r], h, rest)
        BY <2>2, <3>2
      <4>2. Append(HasRead(s, r, h) \o rest, m) = HasRead(s, r, h) \o Append(rest, m)
        BY <1>2, <3>0
      <4>3. Announces(Append(wire[s][r], Header(m)), h, Append(rest, m))
        BY <1>0, <1>2, <2>3, <4>1, AnnounceMore
      <4> QED
        BY <2>1, <3>1, <4>1, <4>2, <4>3
    <3>3. ASSUME reader[r][s] = "done"
          PROVE  sent'[s][r][h] = Arrived(s, r, h) \o Append(rest, m)
      <4>1. sent[s][r][h] = Arrived(s, r, h) \o rest
        BY <2>2, <3>3
      <4>2. Append(Arrived(s, r, h) \o rest, m) = Arrived(s, r, h) \o Append(rest, m)
        BY <1>2, <3>0
      <4> QED
        BY <3>1, <4>1, <4>2
    <3>4. Append(rest, m) \in Seq(Messages)
      BY <1>0, AppendProperties
    <3> QED
      BY <1>1, <1>2, <3>2, <3>3, <3>4, Zenon DEF Delivers
  <2>4. CASE h # g
    <3>1. sent'[s][r][h] = sent[s][r][h]
      BY <1>1, <1>5, <1>6, <2>4
    <3>2. reader[r][s] # "done" => Announces(wire'[s][r], h, rest)
      BY <1>0, <1>2, <1>3, <2>1, <2>2, <2>4, AnnounceSame
    <3> QED
      BY <1>1, <1>2, <2>2, <3>1, <3>2, Zenon DEF Delivers
  <2> QED
    BY <2>3, <2>4
<1> QED
  BY <1>4, <1>5

\* A payload changes nothing about what is announced.
LEMMA SendPayloadDelivery ==
    ASSUME Types, Hands, Delivery, NEW t \in Threads, SendPayload(t)
    PROVE  Delivery'
<1> SUFFICES ASSUME NEW s \in Ranks, NEW r \in Ranks, NEW h \in Tags, s # r
             PROVE  Delivers(s, r, h)'
  BY DEF Delivery
<1>0. PICK p \in Ranks, m \in Messages : call[t] = <<p, m>>
  BY DEF Types, CallsMatch, SendPayload, Peers
<1>1. /\ Home[t] \in Ranks /\ Delivers(s, r, h)
      /\ wire' = [wire EXCEPT ![Home[t]][p] = Append(@, Payload(m))]
      /\ UNCHANGED <<reader, hand, pending, got, sent>>
  BY <1>0, PlanFacts DEF SendPayload, Types, readerVars, history, Delivery
<1>2. /\ Arrived(s, r, h)' = Arrived(s, r, h) /\ HasRead(s, r, h)' = HasRead(s, r, h)
      /\ wire[s][r] \in Seq(Parts)
  BY <1>1, DeliveryTypes DEF Arrived, HasRead, InHand
<1>3. Payload(m) \in Parts /\ Payload(m).part = "payload"
  BY DEF Payload, Parts
<1>4. wire'[s][r] = wire[s][r] \/ wire'[s][r] = Append(wire[s][r], Payload(m))
  BY <1>0, <1>1 DEF Types, DataTypes
<1>5. ASSUME NEW rest \in Seq(Messages), Announces(wire[s][r], h, rest)
      PROVE  Announces(wire'[s][r], h, rest)
  BY <1>2, <1>3, <1>4, <1>5, AnnounceSame
<1> QED
  BY <1>1, <1>2, <1>5 DEF Delivers

\* Moving the head of a queue to the end of another leaves their concatenation as it is.
LEMMA MoveHead ==
    ASSUME NEW S, NEW s \in Seq(S), NEW t \in Seq(S), t # <<>>
    PROVE  Append(s, Head(t)) \o Tail(t) = s \o t
<1>1. Head(t) \in S /\ Tail(t) \in Seq(S) /\ <<Head(t)>> \in Seq(S)
  BY HeadTailProperties
<1>2. Append(s, Head(t)) = s \o <<Head(t)>>
  BY <1>1, AppendIsConcat
<1>3. <<Head(t)>> \o Tail(t) = t
  BY HeadTailAppend
<1> QED
  BY <1>1, <1>2, <1>3, ConcatAssociative

\* Concatenation is associative.
LEMMA Regroup ==
    ASSUME NEW a \in Seq(Messages), NEW b \in Seq(Messages), NEW c \in Seq(Messages)
    PROVE  a \o (b \o c) = (a \o b) \o c
BY ConcatAssociative, SMTT(30)

\* A receiver moves the head of its queue from pending to taken.
LEMMA ReceiveTakesDelivery ==
    ASSUME Types, Hands, Delivery, NEW t \in Threads, ReceiveTakes(t)
    PROVE  Delivery'
<1> SUFFICES ASSUME NEW s \in Ranks, NEW r \in Ranks, NEW h \in Tags, s # r
             PROVE  Delivers(s, r, h)'
  BY DEF Delivery
<1>0. PICK q \in Ranks, p \in Ranks, g \in Tags : Home[t] = q /\ call[t] = <<p, g>>
  <2>1. call[t] \in Peers(Home[t]) \X Tags /\ Home[t] \in Ranks
    BY PlanFacts DEF Types, CallsMatch, ReceiveTakes
  <2> QED
    BY <2>1 DEF Peers
<1>1. /\ pending[q][p][g] # <<>>
      /\ got' = [got EXCEPT ![q][p][g] = Append(@, Head(pending[q][p][g]))]
      /\ pending' = [pending EXCEPT ![q][p][g] = Tail(@)]
      /\ UNCHANGED <<wire, reader, hand, sent>>
  BY <1>0 DEF ReceiveTakes, Box, Popped, readerVars
<1>2. /\ got \in [Ranks -> [Ranks -> [Tags -> Seq(Messages)]]]
      /\ pending \in [Ranks -> [Ranks -> [Tags -> Seq(Messages)]]]
      /\ Delivers(s, r, h)
  BY DEF Types, DataTypes, Delivery
<1>3. Arrived(s, r, h)' = Arrived(s, r, h)
  <2>1. CASE r = q /\ s = p /\ h = g
    <3>1. got'[r][s][h] = Append(got[r][s][h], Head(pending[r][s][h]))
      BY <1>1, <1>2, <2>1
    <3>2. pending'[r][s][h] = Tail(pending[r][s][h])
      BY <1>1, <1>2, <2>1
    <3>3. got[r][s][h] \in Seq(Messages) /\ pending[r][s][h] \in Seq(Messages) /\ pending[r][s][h] # <<>>
      BY <1>1, <1>2, <2>1
    <3> QED
      BY <3>1, <3>2, <3>3, MoveHead, Zenon DEF Arrived
  <2>2. CASE r # q \/ s # p \/ h # g
    <3>1. got'[r][s][h] = got[r][s][h] /\ pending'[r][s][h] = pending[r][s][h]
      <4>1. got \in [Ranks -> [Ranks -> [Tags -> Seq(Messages)]]]
            /\ pending \in [Ranks -> [Ranks -> [Tags -> Seq(Messages)]]]
        BY <1>2
      <4>2. got' = [got EXCEPT ![q][p][g] = Append(got[q][p][g], Head(pending[q][p][g]))]
        BY <1>1
      <4>3. pending' = [pending EXCEPT ![q][p][g] = Tail(pending[q][p][g])]
        BY <1>1
      <4>4. CASE r # q
        BY <4>1, <4>2, <4>3, <4>4
      <4>5. CASE r = q /\ s # p
        BY <4>1, <4>2, <4>3, <4>5
      <4>6. CASE r = q /\ s = p /\ h # g
        BY <4>1, <4>2, <4>3, <4>6
      <4> QED
        BY <2>2, <4>4, <4>5, <4>6
    <3> QED
      BY <3>1 DEF Arrived
  <2> QED
    BY <2>1, <2>2
<1>4. HasRead(s, r, h)' = HasRead(s, r, h)
  BY <1>1, <1>3 DEF HasRead, InHand
<1> QED
  BY <1>1, <1>2, <1>3, <1>4, DeliversKept DEF Delivers

\* The reader takes the first part off the wire.
LEMMA ReadDelivers ==
    ASSUME Types, Hands, Frames, NEW r \in Ranks, NEW s \in Ranks, s # r, NEW g \in Tags,
           Delivers(s, r, g), ReadHeader(r, s) \/ ReadPayload(r, s), reader'[r][s] # "done"
    PROVE  Delivers(s, r, g)'
<1> DEFINE w == wire[s][r]
           h == Head(w)
<1>0. /\ w \in Seq(Parts) /\ w # <<>> /\ reader[r][s] # "done"
      /\ UNCHANGED <<sent, got, pending>> /\ wire'[s][r] = Tail(w)
      /\ Arrived(s, r, g)' = Arrived(s, r, g) /\ Arrived(s, r, g) \in Seq(Messages)
  <2>1. /\ w # <<>> /\ reader[r][s] # "done" /\ UNCHANGED <<sent, got, pending>>
        /\ wire' = [wire EXCEPT ![s][r] = Tail(@)]
    BY DEF ReadHeader, ReadPayload, history
  <2>2. w \in Seq(Parts) /\ Arrived(s, r, g) \in Seq(Messages)
    BY DeliveryTypes
  <2> QED
    BY <2>1, <2>2 DEF Types, DataTypes, Arrived
<1>1. PICK rest \in Seq(Messages) :
        sent[s][r][g] = HasRead(s, r, g) \o rest /\ Announces(w, g, rest)
  BY <1>0 DEF Delivers
<1>2. ASSUME HasRead(s, r, g)' = HasRead(s, r, g), ~ (h.part = "header" /\ h.msg.tag = g)
      PROVE  Delivers(s, r, g)'
  <2>1. Announces(Tail(w), g, rest)
    BY <1>0, <1>1, <1>2, AnnouncedKept
  <2> QED
    BY <1>0, <1>1, <1>2, <2>1 DEF Delivers
<1>3. CASE ReadHeader(r, s)
  <2>1. h.part = "header" /\ hand[r][s] = <<>> /\ hand'[r][s] = <<h.msg>>
    <3>1. h.part = "header" /\ reader[r][s] = "header"
      BY <1>3 DEF ReadHeader, ReaderThrows, ReaderAt, Types, RankTypes
    <3>2. hand' = [hand EXCEPT ![r][s] = <<h.msg>>]
      BY <1>3, <3>1 DEF ReadHeader
    <3> QED
      BY <3>1, <3>2 DEF Types, DataTypes, Hands
  <2>2. InHand(r, s, g) = <<>> /\ HasRead(s, r, g) = Arrived(s, r, g)
    <3>1. InHand(r, s, g) = <<>>
      BY <2>1 DEF InHand
    <3> QED
      BY <1>0, <3>1, ConcatEmptySeq DEF HasRead
  <2>3. <<h.msg>> # <<>> /\ <<h.msg>>[1] = h.msg
    OBVIOUS
  <2>4. CASE h.msg.tag = g
    <3>1. rest # <<>> /\ Head(rest) = h.msg /\ Announces(Tail(w), g, Tail(rest))
      BY <1>0, <1>1, <2>1, <2>4, AnnouncedRead
    <3>2. InHand(r, s, g)' = <<Head(rest)>>
      BY <2>1, <2>3, <2>4, <3>1 DEF InHand
    <3>3. HasRead(s, r, g)' = Append(Arrived(s, r, g), Head(rest))
      <4>1. Head(rest) \in Messages
        BY <3>1, HeadTailProperties
      <4> QED
        BY <1>0, <3>2, <4>1, AppendIsConcat DEF HasRead
    <3>4. sent[s][r][g] = HasRead(s, r, g)' \o Tail(rest) /\ Tail(rest) \in Seq(Messages)
      BY <1>0, <1>1, <2>2, <3>1, <3>3, MoveHead, HeadTailProperties
    <3> QED
      BY <1>0, <3>1, <3>4 DEF Delivers
  <2>5. CASE h.msg.tag # g
    <3>1. InHand(r, s, g)' = <<>>
      BY <2>1, <2>3, <2>5 DEF InHand
    <3>2. HasRead(s, r, g)' = HasRead(s, r, g)
      BY <1>0, <2>2, <3>1 DEF HasRead
    <3> QED
      BY <1>2, <2>5, <3>2
  <2> QED
    BY <2>4, <2>5
<1>4. CASE ReadPayload(r, s)
  <2>1. reader[r][s] = "payload" /\ UNCHANGED hand
    BY <1>4 DEF ReadPayload
  <2>2. Follows(Header(hand[r][s][1]), h) /\ hand[r][s][1].size # "empty"
    <3>1. Framed(w, Header(hand[r][s][1])) /\ hand[r][s][1].size # "empty"
      BY <1>0, <2>1 DEF Frames, FramesFrom, Before, Hands
    <3> QED
      BY <1>0, <3>1, FramedTail
  <2>3. h.part = "payload"
    BY <2>2 DEF Follows, Complete, Header
  <2>4. HasRead(s, r, g)' = HasRead(s, r, g)
    BY <1>0, <2>1 DEF HasRead, InHand
  <2> QED
    BY <1>2, <2>3, <2>4
<1> QED
  BY <1>3, <1>4

\* The message in the reader's hand is queued under its tag.
LEMMA PushDelivers ==
    ASSUME Types, Hands, NEW r \in Ranks, NEW s \in Ranks, s # r, NEW g \in Tags,
           Delivers(s, r, g), Push(r, s), ~ shuttingDown[r]
    PROVE  Delivers(s, r, g)'
<1>0. /\ reader[r][s] = "push" /\ Len(hand[r][s]) = 1 /\ UNCHANGED <<sent, got, wire>>
      /\ hand[r][s] \in Seq(Messages) /\ hand[r][s] # <<>> /\ hand'[r][s] = <<>>
      /\ reader'[r][s] # "done"
  <2>1. /\ reader[r][s] = "push" /\ UNCHANGED <<sent, got, wire>>
        /\ hand' = [hand EXCEPT ![r][s] = <<>>] /\ reader' = [reader EXCEPT ![r][s] = "loop"]
    BY DEF Push, ReaderAt, history
  <2>2. Len(hand[r][s]) = 1 /\ hand[r][s] \in Seq(Messages)
    BY <2>1 DEF Types, DataTypes, Hands
  <2>3. hand'[r][s] = <<>> /\ reader'[r][s] = "loop"
    BY <2>1 DEF Types, DataTypes, RankTypes
  <2> QED
    BY <2>1, <2>2, <2>3, EmptySeq
<1>1. PICK k \in Tags : k = hand[r][s][1].tag
  BY <1>0, ElementOfSeq, MessageFields
<1>2. /\ pending' = [pending EXCEPT ![r][s][k] = @ \o hand[r][s]]
      /\ pending \in [Ranks -> [Ranks -> [Tags -> Seq(Messages)]]]
  BY <1>1, Zenon DEF Push, Pushed, Types, DataTypes
<1>3. InHand(r, s, g)' = <<>>
  BY <1>0 DEF InHand
<1>4. got[r][s][g] \in Seq(Messages) /\ pending[r][s][g] \in Seq(Messages) /\ Arrived(s, r, g) \in Seq(Messages)
  BY DeliveryTypes
<1>5. HasRead(s, r, g)' = HasRead(s, r, g)
  <2>1. CASE k = g
    <3>1. pending'[r][s][g] = pending[r][s][g] \o hand[r][s]
      BY <1>2, <2>1
    <3>2. InHand(r, s, g) = hand[r][s]
      BY <1>0, <1>1, <2>1 DEF InHand
    <3>3. Arrived(s, r, g)' = HasRead(s, r, g)
      <4>1. got[r][s][g] \o (pending[r][s][g] \o hand[r][s]) = (got[r][s][g] \o pending[r][s][g]) \o hand[r][s]
        BY <1>0, <1>4, Regroup, ZenonT(30)
      <4> QED
        BY <1>0, <3>1, <3>2, <4>1, Zenon DEF Arrived, HasRead
    <3>4. HasRead(s, r, g) \in Seq(Messages)
      BY DeliveryTypes
    <3> QED
      BY <1>3, <3>3, <3>4, ConcatEmptySeq DEF HasRead
  <2>2. CASE k # g
    <3>1. pending'[r][s][g] = pending[r][s][g]
      BY <1>2, <2>2
    <3>2. InHand(r, s, g) = <<>>
      BY <1>1, <2>2 DEF InHand
    <3> QED
      BY <1>0, <1>3, <3>1, <3>2 DEF Arrived, HasRead
  <2> QED
    BY <2>1, <2>2
<1> QED
  BY <1>0, <1>5 DEF Delivers

\* A reader moves a message from the wire to its hand, and from there to the end of its queue.
LEMMA ReaderDelivery ==
    ASSUME Types, Hands, Frames, Delivery, NEW q \in Ranks, NEW p \in Peers(q), ReaderStep(q, p)
    PROVE  Delivery'
<1> SUFFICES ASSUME NEW s \in Ranks, NEW r \in Ranks, NEW g \in Tags, s # r
             PROVE  Delivers(s, r, g)'
  BY DEF Delivery
<1>0. Delivers(s, r, g) /\ p \in Ranks /\ UNCHANGED <<sent, got>>
  BY DEF Delivery, Peers, ReaderStep, CallRecv, ReadHeader, ReadPayload, ReadEof, ReadReset, Push, history
<1>1. reader[q][p] # "done"
  BY DEF ReaderStep, CallRecv, ReadHeader, ReadPayload, ReadEof, ReadReset, Push
<1>2. ASSUME UNCHANGED <<wire, pending>>, r # q \/ s # p,
             \E at : reader' = [reader EXCEPT ![q][p] = at],
             hand' = hand \/ \E h : hand' = [hand EXCEPT ![q][p] = h]
      PROVE  Delivers(s, r, g)'
  <2>1. ASSUME NEW at, reader' = [reader EXCEPT ![q][p] = at]
        PROVE  reader'[r][s] = reader[r][s]
    BY <1>0, <1>2, <2>1 DEF Types, RankTypes
  <2>2. ASSUME NEW h, hand' = [hand EXCEPT ![q][p] = h]
        PROVE  hand'[r][s] = hand[r][s]
    BY <1>0, <1>2, <2>2 DEF Types, DataTypes
  <2>3. reader'[r][s] = reader[r][s] /\ hand'[r][s] = hand[r][s]
    BY <1>2, <2>1, <2>2
  <2> QED
    BY <1>0, <1>2, <2>3, Zenon DEF Delivers, HasRead, Arrived, InHand
<1>3. ASSUME UNCHANGED <<wire, pending>>, r = q /\ s = p, reader'[r][s] = "done"
      PROVE  Delivers(s, r, g)'
  BY <1>0, <1>3, DeliversKept DEF Arrived
<1>4. CASE CallRecv(q, p) \/ ReadEof(q, p) \/ ReadReset(q, p)
  <2>1. UNCHANGED <<wire, pending>>
    BY <1>4 DEF CallRecv, ReadEof, ReadReset
  <2>2. CASE r # q \/ s # p
    BY <1>2, <1>4, <2>1, <2>2 DEF CallRecv, ReadEof, ReadReset, ReaderThrows, ReaderEnds, ReaderAt
  <2>3. CASE r = q /\ s = p
    <3>1. reader'[r][s] = "done" \/ UNCHANGED hand
      BY <1>0, <1>4, <2>3 DEF CallRecv, ReadEof, ReadReset, ReaderThrows, ReaderEnds, ReaderAt,
            Types, RankTypes
    <3>2. ASSUME UNCHANGED hand, reader'[r][s] # "done"
          PROVE  Delivers(s, r, g)'
      BY <1>0, <1>1, <2>1, <2>3, <3>2, Zenon DEF Delivers, HasRead, Arrived, InHand
    <3> QED
      BY <1>3, <2>1, <2>3, <3>1, <3>2
  <2> QED
    BY <2>2, <2>3
<1>5. CASE ReadHeader(q, p) \/ ReadPayload(q, p)
  <2>1. UNCHANGED pending /\ wire' = [wire EXCEPT ![p][q] = Tail(@)]
    BY <1>5 DEF ReadHeader, ReadPayload
  <2>2. CASE r # q \/ s # p
    <3>1. wire'[s][r] = wire[s][r]
      BY <1>0, <2>1, <2>2 DEF Types, DataTypes
    <3>2. ASSUME NEW at, reader' = [reader EXCEPT ![q][p] = at]
          PROVE  reader'[r][s] = reader[r][s]
      BY <1>0, <2>2, <3>2 DEF Types, RankTypes
    <3>3. ASSUME NEW h, hand' = [hand EXCEPT ![q][p] = h]
          PROVE  hand'[r][s] = hand[r][s]
      BY <1>0, <2>2, <3>3 DEF Types, DataTypes
    <3>4. /\ \E at : reader' = [reader EXCEPT ![q][p] = at]
          /\ hand' = hand \/ \E h : hand' = [hand EXCEPT ![q][p] = h]
      BY <1>5 DEF ReadHeader, ReadPayload, ReaderThrows, ReaderAt
    <3>5. reader'[r][s] = reader[r][s] /\ hand'[r][s] = hand[r][s]
      BY <3>2, <3>3, <3>4
    <3> QED
      BY <1>0, <2>1, <3>1, <3>5, Zenon DEF Delivers, HasRead, Arrived, InHand
  <2>3. CASE r = q /\ s = p /\ reader'[r][s] = "done"
    BY <1>0, <2>1, <2>3, DeliversKept DEF Arrived
  <2>4. CASE r = q /\ s = p /\ reader'[r][s] # "done"
    BY <1>0, <1>5, <2>4, ReadDelivers
  <2> QED
    BY <2>2, <2>3, <2>4
<1>6. CASE Push(q, p) /\ shuttingDown[q]
  <2>1. /\ UNCHANGED <<wire, pending>>
        /\ reader' = [reader EXCEPT ![q][p] = "done"] /\ hand' = [hand EXCEPT ![q][p] = <<>>]
    BY <1>6 DEF Push, ReaderEnds, ReaderAt
  <2>2. r = q /\ s = p => reader'[r][s] = "done"
    BY <1>0, <2>1 DEF Types, RankTypes
  <2> QED
    BY <1>2, <1>3, <2>1, <2>2
<1>7. CASE Push(q, p) /\ ~ shuttingDown[q]
  <2>1. CASE r = q /\ s = p
    BY <1>0, <1>7, <2>1, PushDelivers
  <2>2. CASE r # q \/ s # p
    <3>1. /\ wire' = wire /\ \E v : pending' = [pending EXCEPT ![q][p][hand[q][p][1].tag] = v]
          /\ reader' = [reader EXCEPT ![q][p] = "loop"] /\ hand' = [hand EXCEPT ![q][p] = <<>>]
      BY <1>7 DEF Push, ReaderAt
    <3>2. reader'[r][s] = reader[r][s]
      BY <1>0, <2>2, <3>1 DEF Types, RankTypes
    <3>3. hand'[r][s] = hand[r][s]
      BY <1>0, <2>2, <3>1 DEF Types, DataTypes
    <3>4. ASSUME NEW k, NEW v, pending' = [pending EXCEPT ![q][p][k] = v]
          PROVE  pending'[r][s] = pending[r][s]
      BY <1>0, <2>2, <3>4 DEF Types, DataTypes
    <3> QED
      BY <1>0, <3>1, <3>2, <3>3, <3>4, ZenonT(30) DEF Delivers, HasRead, Arrived, InHand
  <2> QED
    BY <2>1, <2>2
<1> QED
  BY <1>4, <1>5, <1>6, <1>7 DEF ReaderStep

\* A process that dies takes nothing from anybody else.
LEMMA DieDelivery ==
    ASSUME Types, Hands, Delivery, NEW q \in Ranks, Die(q)
    PROVE  Delivery'
<1> SUFFICES ASSUME NEW s \in Ranks, NEW r \in Ranks, NEW g \in Tags, s # r
             PROVE  Delivers(s, r, g)'
  BY DEF Delivery
<1>0. Delivers(s, r, g) /\ UNCHANGED <<wire, sent, got, pending>>
  BY DEF Delivery, Die, history
<1>1. CASE r = q
  <2>1. reader'[r][s] = "done"
    BY <1>1 DEF Die, Types, RankTypes
  <2> QED
    BY <1>0, <2>1, DeliversKept DEF Arrived
<1>2. CASE r # q
  <2>1. reader'[r][s] = reader[r][s] /\ hand'[r][s] = hand[r][s]
    BY <1>2 DEF Die, Types, RankTypes, DataTypes
  <2> QED
    BY <1>0, <2>1, Zenon DEF Delivers, HasRead, Arrived, InHand
<1> QED
  BY <1>1, <1>2

\* Every step keeps the promise.
LEMMA DeliveryStep ==
    ASSUME Types, Hands, Frames, Delivery, [Next]_vars
    PROVE  Delivery'
<1>1. ASSUME NEW t \in Threads, NEW p, NEW g,
             ReceiveBegin(t, p, g) \/ SendFails(t) \/ ReceiveSleeps(t) \/ ReceiveThrows(t)
      PROVE  UNCHANGED <<wire, reader, hand, pending, sent, got>>
  BY <1>1 DEF ReceiveBegin, SendFails, ReceiveSleeps, ReceiveThrows, readerVars, history
<1>2. ASSUME NEW r \in Ranks, FinalizeBegin(r) \/ FinalizeStep(r)
      PROVE  UNCHANGED <<wire, reader, hand, pending, sent, got>>
  BY <1>2 DEF FinalizeBegin, FinalizeStep, FinalizeClose, FinalizeReturns, readerVars, history
<1>3. CASE UNCHANGED vars
  BY <1>3, DeliveryKept DEF vars, moving, readerVars, history
<1> QED
  BY <1>1, <1>2, <1>3, DeliveryKept, NextCases, SendHeaderDelivery, SendPayloadDelivery,
     ReceiveTakesDelivery, ReaderDelivery, DieDelivery

-----------------------------------------------------------------------------
(* The invariant, and what follows from it *)

IInv == Types /\ Holding /\ Hands /\ Frames /\ SleepJustified /\ Delivery

\* The invariant holds at the start.
LEMMA InitHolds == Init => IInv
BY InitTypes, InitHolding, InitHands, InitFrames, InitSleep, InitDelivery DEF IInv

\* Every step keeps the invariant.
LEMMA NextKeepsIInv == IInv /\ [Next]_vars => IInv'
BY TypesStep, HoldingStep, HandsStep, FramesStep, SleepStep, DeliveryStep DEF IInv

\* The invariant holds in every reachable state.
THEOREM Invariance == Spec => []IInv
BY InitHolds, NextKeepsIInv, PTL DEF Spec

\* What the proofs use of types is more than TypeOK says.
LEMMA TypesSuffice ==
    ASSUME Types, Hands
    PROVE  TypeOK
<1>1. plan.sends \in [Threads -> Nat] /\ sends \in [Threads -> Nat]
  BY PlanFacts DEF Types, ThreadTypes
<1>2. \A t \in Threads :
        /\ pc[t] \in {"idle", "dead"} => call[t] = NoCall
        /\ pc[t] = "sending" => call[t] \in Peers(Home[t]) \X Messages
        /\ pc[t] \in {"receive", "asleep"} => call[t] \in Peers(Home[t]) \X Tags
        /\ sends[t] \in 0 .. plan.sends[t]
  BY <1>1 DEF Types, CallsMatch
<1>3. ASSUME NEW s \in Ranks, NEW r \in Ranks, NEW i \in DOMAIN wire[s][r]
      PROVE  wire[s][r][i] \in [part : {"header", "payload"}, msg : Messages]
  <2>1. wire[s][r] \in Seq(Parts)
    BY DEF Types, DataTypes
  <2>2. i \in 1 .. Len(wire[s][r])
    BY <2>1, LenProperties
  <2> QED
    BY <2>1, <2>2, ElementOfSeq DEF Parts
<1>4. ASSUME NEW r \in Ranks, NEW p \in Ranks
      PROVE  /\ hand[r][p] \in Seq(Messages) /\ Len(hand[r][p]) =< 1
             /\ \A g \in Tags : pending[r][p][g] \in Seq(Messages)
  <2>1. reader[r][p] \in Ats
    BY DEF Types, RankTypes
  <2>2. Len(hand[r][p]) =< 1
    <3>1. CASE reader[r][p] \in {"loop", "header", "done"}
      <4>1. hand[r][p] = <<>>
        BY <3>1 DEF Hands
      <4> QED
        BY <4>1, EmptySeq
    <3>2. CASE reader[r][p] \in {"sized", "payload", "push"}
      <4>1. Len(hand[r][p]) = 1
        BY <3>2 DEF Hands
      <4> QED
        BY <4>1
    <3> QED
      BY <2>1, <3>1, <3>2 DEF Ats
  <2> QED
    BY <2>2 DEF Types, DataTypes
<1> QED
  BY <1>2, <1>3, <1>4 DEF TypeOK, Types, ThreadTypes, RankTypes, PCs, Ats, Fins

\* Every thread, descriptor, reader and queue of the three ranks is in one of its states
\* and holds what belongs there (sendPayload, receivePayload, readerLoop, finalize_).
THEOREM TypesHold == Spec => []TypeOK
<1>1. IInv => TypeOK
  BY TypesSuffice DEF IInv
<1> QED
  BY <1>1, Invariance, PTL

\* However many threads of a rank send to one peer, its reader finds every header where
\* it expects one, followed by its payload (sendPayload under _sendMutexes, readerLoop).
THEOREM FramesWholeHolds == Spec => []FramesWhole
<1>1. IInv => FramesWhole
  BY FramesAreWhole DEF IInv
<1> QED
  BY <1>1, Invariance, PTL

\* No receiver sleeps while its message is queued, after a reader failed, or after the
\* shutdown began (receivePayload and the notify_all() calls).
THEOREM SleepJustifiedHolds == Spec => []SleepJustified
<1>1. IInv => SleepJustified
  BY DEF IInv
<1> QED
  BY <1>1, Invariance, PTL

\* A sequence and what follows it.
LEMMA BeginsAndAfter ==
    ASSUME NEW q \in Seq(Messages), NEW rest \in Seq(Messages)
    PROVE  Begins(q, q \o rest) /\ After(q, q \o rest) = rest
<1> DEFINE whole == q \o rest
           a == SubSeq(whole, 1, Len(q))
           b == SubSeq(whole, Len(q) + 1, Len(whole))
<1>1. /\ whole \in Seq(Messages) /\ Len(whole) = Len(q) + Len(rest)
      /\ \A i \in 1 .. Len(q) + Len(rest) :
           whole[i] = IF i <= Len(q) THEN q[i] ELSE rest[i - Len(q)]
      /\ Len(q) \in Nat /\ Len(rest) \in Nat
  BY ConcatProperties, LenProperties
<1>2. \A i \in 1 .. Len(whole) : whole[i] \in Messages
  BY <1>1, ElementOfSeq
<1> HIDE DEF whole
<1>3. a = q
  <2>1. \A i \in 1 .. Len(q) : whole[i] \in Messages
    BY <1>1, <1>2
  <2>2. /\ a \in Seq(Messages) /\ Len(a) = Len(q)
        /\ \A i \in 1 .. Len(q) : a[i] = whole[i]
    <3>1. Len(q) - 1 + 1 = Len(q) /\ \A i \in 1 .. Len(q) : 1 + i - 1 = i
      BY <1>1
    <3>2. 1 \in Int /\ Len(q) \in Int
      BY <1>1
    <3>3. /\ a \in Seq(Messages) /\ Len(a) = IF 1 <= Len(q) THEN Len(q) - 1 + 1 ELSE 0
          /\ \A i \in 1 .. Len(q) - 1 + 1 : a[i] = whole[1 + i - 1]
      BY <2>1, <3>2, SubSeqProperties
    <3> HIDE DEF a
    <3> QED
      BY <1>1, <3>1, <3>3
  <2> HIDE DEF a
  <2>3. \A i \in 1 .. Len(a) : a[i] = q[i]
    BY <1>1, <2>2
  <2> QED
    BY <2>2, <2>3, SeqEqual
<1>4. b = rest
  <2>1. \A i \in Len(q) + 1 .. Len(whole) : whole[i] \in Messages
    BY <1>1, <1>2
  <2>2. /\ b \in Seq(Messages) /\ Len(b) = Len(rest)
        /\ \A i \in 1 .. Len(rest) : b[i] = whole[Len(q) + i]
    <3>1. /\ Len(whole) - (Len(q) + 1) + 1 = Len(rest)
          /\ \A i \in 1 .. Len(rest) : Len(q) + 1 + i - 1 = Len(q) + i
      BY <1>1
    <3>2. Len(q) + 1 \in Int /\ Len(whole) \in Int
      BY <1>1
    <3>3. /\ b \in Seq(Messages)
          /\ Len(b) = IF Len(q) + 1 <= Len(whole) THEN Len(whole) - (Len(q) + 1) + 1 ELSE 0
          /\ \A i \in 1 .. Len(whole) - (Len(q) + 1) + 1 : b[i] = whole[Len(q) + 1 + i - 1]
      BY <2>1, <3>2, SubSeqProperties
    <3> HIDE DEF b
    <3>4. Len(b) = Len(rest)
      <4>1. CASE Len(q) + 1 <= Len(whole)
        BY <3>1, <3>3, <4>1
      <4>2. CASE ~ (Len(q) + 1 <= Len(whole))
        BY <1>1, <3>3, <4>2
      <4> QED
        BY <4>1, <4>2
    <3>5. ASSUME NEW i \in 1 .. Len(rest)
          PROVE  b[i] = whole[Len(q) + i]
      <4>1. i \in 1 .. Len(whole) - (Len(q) + 1) + 1 /\ Len(q) + 1 + i - 1 = Len(q) + i
        BY <3>1
      <4> QED
        BY <3>3, <4>1
    <3> QED
      BY <3>3, <3>4, <3>5
  <2> HIDE DEF b
  <2>3. ASSUME NEW i \in 1 .. Len(b)
        PROVE  b[i] = rest[i]
    <3>1. /\ i \in 1 .. Len(rest) /\ Len(q) + i \in 1 .. Len(q) + Len(rest)
          /\ ~ (Len(q) + i <= Len(q)) /\ Len(q) + i - Len(q) = i
      BY <1>1, <2>2
    <3>2. b[i] = whole[Len(q) + i]
      BY <2>2, <3>1
    <3>3. whole[Len(q) + i] = rest[Len(q) + i - Len(q)]
      BY <1>1, <3>1
    <3> QED
      BY <3>1, <3>2, <3>3
  <2> QED
    BY <2>2, <2>3, SeqEqual
<1> QED
  BY <1>1, <1>3, <1>4 DEF Begins, After, whole

\* The promise in terms of the rest is NothingLost.
LEMMA DeliveryLosesNothing ==
    ASSUME Types, Hands, Delivery
    PROVE  NothingLost
<1> SUFFICES ASSUME NEW s \in Ranks, NEW r \in Ranks, NEW g \in Tags, s # r
             PROVE  IF reader[r][s] # "done"
                    THEN /\ Begins(HasRead(s, r, g), sent[s][r][g])
                         /\ Announces(wire[s][r], g, After(HasRead(s, r, g), sent[s][r][g]))
                    ELSE Begins(Arrived(s, r, g), sent[s][r][g])
  BY DEF NothingLost, HasRead, Arrived
<1>1. Arrived(s, r, g) \in Seq(Messages) /\ HasRead(s, r, g) \in Seq(Messages)
  BY DeliveryTypes
<1>2. PICK rest \in Seq(Messages) :
        IF reader[r][s] # "done"
        THEN sent[s][r][g] = HasRead(s, r, g) \o rest /\ Announces(wire[s][r], g, rest)
        ELSE sent[s][r][g] = Arrived(s, r, g) \o rest
  BY DEF Delivery, Delivers
<1> QED
  BY <1>1, <1>2, BeginsAndAfter

\* Between any two ranks and for any tag: what was received, then what is queued, in the
\* reader's hand and on the wire is what was sent, in that order, nothing lost, repeated
\* or overtaken; once the reader ended, what arrived is a beginning of it.
THEOREM NothingLostHolds == Spec => []NothingLost
<1>1. IInv => NothingLost
  BY DeliveryLosesNothing DEF IInv
<1> QED
  BY <1>1, Invariance, PTL

-----------------------------------------------------------------------------
(* TcpComm implements TagMailbox: writing a header sends, taking a message      *)
(* from _pendingMessages receives, and everything else changes neither.         *)

\* The oldest message of a queue is the next of what was sent.
LEMMA OldestIsNext ==
    ASSUME NEW a \in Seq(Messages), NEW b \in Seq(Messages), NEW c \in Seq(Messages), b # <<>>
    PROVE  Len(a) < Len((a \o b) \o c) /\ Head(b) = ((a \o b) \o c)[Len(a) + 1]
<1> DEFINE whole == (a \o b) \o c
<1>1. Len(a) \in Nat /\ Len(b) \in Nat \ {0} /\ Len(c) \in Nat
  BY EmptySeq, LenProperties
<1>2. /\ a \o b \in Seq(Messages) /\ Len(a \o b) = Len(a) + Len(b)
      /\ (a \o b)[Len(a) + 1] = b[1]
  <2>1. \A i \in 1 .. Len(a) + Len(b) : (a \o b)[i] = IF i <= Len(a) THEN a[i] ELSE b[i - Len(a)]
    BY ConcatProperties
  <2>2. Len(a) + 1 \in 1 .. Len(a) + Len(b) /\ ~ (Len(a) + 1 <= Len(a)) /\ Len(a) + 1 - Len(a) = 1
    BY <1>1
  <2> QED
    BY <2>1, <2>2, ConcatProperties
<1>3. Len(whole) = Len(a) + Len(b) + Len(c)
  BY <1>1, <1>2, ConcatProperties
<1>4. whole[Len(a) + 1] = b[1]
  <2>1. Len(a) + 1 \in 1 .. Len(a \o b) + Len(c) /\ Len(a) + 1 <= Len(a \o b)
    BY <1>1, <1>2
  <2> QED
    BY <1>2, <2>1, ConcatProperties
<1> QED
  BY <1>1, <1>3, <1>4

\* The header of a message is the send of TagMailbox.
LEMMA SendRefines ==
    ASSUME Types, NEW t \in Threads, NEW p \in plan.to[t], NEW g \in plan.tags, NEW z \in plan.sizes,
           SendHeader(t, p, g, z)
    PROVE  Mailbox!Next
<1> DEFINE m == [by |-> t, n |-> sends[t] + 1, tag |-> g, size |-> z]
<1>1. Home[t] \in Ranks /\ p \in Ranks /\ Home[t] # p /\ g \in Tags
  BY PlanFacts DEF Types, Peers
<1>2. m \in Messages
  BY MessageMade DEF SendHeader
<1>3. Mailbox!Send(Home[t], p, g, m)
  BY <1>1 DEF SendHeader, Mailbox!Send
<1> QED
  BY <1>1, <1>2, <1>3 DEF Mailbox!Next

\* Taking a message is the receive of TagMailbox.
LEMMA ReceiveRefines ==
    ASSUME Types, Hands, Delivery, NEW t \in Threads, ReceiveTakes(t)
    PROVE  Mailbox!Next
<1>1. PICK r \in Ranks, s \in Ranks, g \in Tags : Home[t] = r /\ call[t] = <<s, g>> /\ s # r
  <2>1. call[t] \in Peers(Home[t]) \X Tags /\ Home[t] \in Ranks
    BY PlanFacts DEF Types, CallsMatch, ReceiveTakes
  <2> QED
    BY <2>1 DEF Peers
<1>2. /\ pending[r][s][g] # <<>>
      /\ got' = [got EXCEPT ![r][s][g] = Append(@, Head(pending[r][s][g]))]
      /\ UNCHANGED sent
  BY <1>1 DEF ReceiveTakes, Box
<1>3. PICK rest \in Seq(Messages) : sent[s][r][g] = Arrived(s, r, g) \o rest
  BY <1>1, DeliversArrived DEF Delivery
<1>4. got[r][s][g] \in Seq(Messages) /\ pending[r][s][g] \in Seq(Messages)
  BY DEF Types, DataTypes
<1>5. /\ Len(got[r][s][g]) < Len(sent[s][r][g])
      /\ Head(pending[r][s][g]) = sent[s][r][g][Len(got[r][s][g]) + 1]
  <2> DEFINE a == got[r][s][g]
             b == pending[r][s][g]
  <2>1. a \in Seq(Messages) /\ b \in Seq(Messages) /\ b # <<>> /\ sent[s][r][g] = (a \o b) \o rest
    BY <1>2, <1>3, <1>4 DEF Arrived
  <2> HIDE DEF a, b
  <2>2. Len(a) < Len((a \o b) \o rest) /\ Head(b) = ((a \o b) \o rest)[Len(a) + 1]
    BY <2>1, OldestIsNext
  <2> QED
    BY <2>1, <2>2, Zenon DEF a, b
<1>6. Mailbox!Receive(r, s, g)
  BY <1>2, <1>5 DEF Mailbox!Receive
<1> QED
  BY <1>6 DEF Mailbox!Next

\* Every step is one of TagMailbox or a stutter.
LEMMA StepRefines ==
    ASSUME Types, Hands, Delivery, [Next]_vars
    PROVE  [Mailbox!Next]_(Mailbox!mailbox)
<1>1. ASSUME NEW t \in Threads, NEW p, NEW g,
             \/ ReceiveBegin(t, p, g) \/ SendPayload(t) \/ SendFails(t)
             \/ ReceiveSleeps(t) \/ ReceiveThrows(t)
      PROVE  UNCHANGED <<sent, got>>
  BY <1>1 DEF ReceiveBegin, SendPayload, SendFails, ReceiveSleeps, ReceiveThrows, history
<1>2. ASSUME NEW r \in Ranks, NEW p, ReaderStep(r, p)
      PROVE  UNCHANGED <<sent, got>>
  BY <1>2 DEF ReaderStep, CallRecv, ReadHeader, ReadPayload, ReadEof, ReadReset, Push, history
<1>3. ASSUME NEW r \in Ranks, FinalizeBegin(r) \/ FinalizeStep(r) \/ Die(r)
      PROVE  UNCHANGED <<sent, got>>
  BY <1>3 DEF FinalizeBegin, FinalizeStep, FinalizeClose, FinalizeReturns, Die, history
<1>4. CASE UNCHANGED vars
  BY <1>4 DEF vars, moving, history, Mailbox!mailbox
<1> QED
  BY <1>1, <1>2, <1>3, <1>4, NextCases, SendRefines, ReceiveRefines DEF Mailbox!mailbox

\* Whatever finalizes, fails or dies, the TCP backend keeps the promise Comm::send and
\* Comm::receive make to every operator: one queue per pair of ranks and tag, each
\* receive taking the oldest message, with no gap.
THEOREM MailboxImplemented == Spec => MailboxSpec
<1>1. Init => Mailbox!Init
  BY DEF Init, Mailbox!Init, Mailbox!Empty
<1>2. IInv /\ [Next]_vars => [Mailbox!Next]_(Mailbox!mailbox)
  BY StepRefines DEF IInv
<1> QED
  BY <1>1, <1>2, Invariance, PTL DEF Spec, MailboxSpec, Mailbox!Spec

=============================================================================
