--------------------------- MODULE DbSessionProofs ---------------------------
(* Proofs about DbSession: for whatever is typed, a server always gets the     *)
(* kind of message that it waits for, the client does until somebody selects   *)
(* after an exit, and the three catalogues agree.                              *)
(*                                                                            *)
(* Until somebody types exit the three processes keep in step: while the      *)
(* client expects an answer the messages of one statement are under way and   *)
(* nothing else is.  From then on each server is a "done" ahead and may fall  *)
(* behind by any number of statements; only "done" is said and waited for, as *)
(* long as nobody selects.  Who does takes a "done" for rows, and of the       *)
(* answers nothing is known any more; what the servers receive is in order     *)
(* still.  Therefore the two servers, once each has served what is under way to it,   *)
(* have the same catalogue: the last part.                                    *)
EXTENDS DbSession, FiniteSetTheorems, SequenceTheorems, TLAPS

\* The statements that a server answers with rows.
Queries == {"select", "join"}

\* The messages of a statement to each server, and its answers.
Parts(s) == IF s.op = "insert" THEN 2 ELSE 1
Replies(s) == IF s.op \in Queries THEN 2 ELSE 1

\* Whatever the client sends to both servers, or expects of both, goes by turns: how many
\* of the n that are left are those of server p.
Turns(n, p) ==
    IF p = 0 THEN CASE n < 2 -> 0 [] n \in 2 .. 3 -> 1 [] OTHER -> 2
    ELSE CASE n < 1 -> 0 [] n \in 1 .. 2 -> 1 [] OTHER -> 2
ToSend(p) == Turns(Len(outbox), p)
ToCome(p) == Turns(Len(expect), p)

\* Whose turn it is when n are left.
Turn(n) == IF n \in {2, 4} THEN 0 ELSE 1

\* What comes from the client after message m.
Following(m) == IF m.kind = "command" /\ m.stmt.op = "insert" THEN "share" ELSE "command"

-----------------------------------------------------------------------------

\* Types, as far as the rest needs them.
Shapes ==
    /\ todo \in Seq(Statements) /\ opening \in Seq(Seq(Statements))
    /\ busy \in [Servers -> Statements \union {NONE}]
    /\ DOMAIN sys = Servers \union {CLIENT}
    /\ \A p \in Servers : "into" \in DOMAIN sys[p]
    /\ DOMAIN chan = Links
    /\ \A l \in Links : \E S : chan[l] \in Seq(S)
    /\ \E S : outbox \in Seq(S)
    /\ \E S : expect \in Seq(S)

\* What is left of the messages of the statement, in the order of clientExecute.
OutboxInv ==
    /\ outbox # <<>> => Len(outbox) =< 2 * Parts(stmt)
    /\ \A i \in 1 .. Len(outbox) :
        LET n == Len(outbox) + 1 - i
        IN  /\ outbox[i][1] = Turn(n)
            /\ IF stmt.op = "insert" /\ n =< 2 THEN outbox[i][2].kind = "share"
               ELSE outbox[i][2] = Command(stmt)

\* What the client still waits for is of the statement it has in hand, by turns.
ExpectInv ==
    /\ expect # <<>> => stmt \in Statements /\ Len(expect) =< 2 * Replies(stmt)
    /\ \A i \in 1 .. Len(expect) :
        LET n == Len(expect) + 1 - i
        IN  expect[i] = <<Turn(n), IF n >= 3 THEN "rows" ELSE "done">>
    /\ outbox # <<>> => expect # <<>> /\ Len(expect) = 2 * Replies(stmt)

\* A record comes after its INSERT and nowhere else, the messages still to be sent
\* included.
InboxInv(p) ==
    LET q == chan[<<CLIENT, p>>]
    IN  /\ \A i \in 1 .. Len(q) :
               q[i].kind = IF i = 1 THEN Expected(p) ELSE Following(q[i - 1])
        /\ (IF q = <<>> THEN Expected(p) ELSE Following(q[Len(q)]))
               = IF ToSend(p) = 1 /\ stmt.op = "insert" THEN "share" ELSE "command"

\* Nobody is doing anything for the client.
Quiet(p) ==
    /\ chan[<<CLIENT, p>>] = <<>> /\ chan[<<p, CLIENT>>] = <<>>
    /\ busy[p] = NONE /\ sys[p].into = NONE

\* The server has yet to see all of the statement, or works on it, or has answered.
InStep(p) ==
    LET q == chan[<<CLIENT, p>>]
        r == chan[<<p, CLIENT>>]
        unseen == Len(q) + ToSend(p)
    IN  /\ \A i \in 1 .. Len(q) : q[i].kind = "command" => q[i].stmt = stmt
        /\ stmt.op # "exit" /\ (stmt.op # "insert" => sys[p].into = NONE)
        /\ unseen =< Parts(stmt)
        /\ \/ /\ unseen > 0 /\ busy[p] = NONE
              /\ r = <<>> /\ ToCome(p) = Replies(stmt)
           \/ /\ unseen = 0 /\ busy[p] = stmt /\ stmt.op \in Queries
              /\ r = <<>> /\ ToCome(p) = Replies(stmt)
           \/ /\ unseen = 0 /\ busy[p] = NONE
              /\ Len(r) = ToCome(p)
              /\ \A i \in 1 .. Len(r) :
                     r[i].kind = IF Len(r) + 1 - i = 2 THEN "rows" ELSE "done"

\* Before any exit: with nothing to wait for there is nothing under way.
Before(p) == IF expect = <<>> THEN Quiet(p) ELSE InStep(p)

\* After an exit, and before a SELECT that follows it, only "done" is said and waited for.
OnlyDone(p) ==
    /\ busy[p] = NONE
    /\ \A i \in 1 .. Len(chan[<<CLIENT, p>>]) :
           chan[<<CLIENT, p>>][i].kind = "command" =>
               chan[<<CLIENT, p>>][i].stmt \in {s \in Statements : s.op \notin Queries}
    /\ \A i \in 1 .. Len(chan[<<p, CLIENT>>]) : chan[<<p, CLIENT>>][i].kind = "done"
    /\ expect # <<>> => stmt.op \notin Queries

\* With it, the servers get the statements typed, and no more is known.
OnlyStatements(p) ==
    \A i \in 1 .. Len(chan[<<CLIENT, p>>]) :
        chan[<<CLIENT, p>>][i].kind = "command" => chan[<<CLIENT, p>>][i].stmt \in Statements

After(p) == OnlyStatements(p) /\ (~ sent.late => OnlyDone(p))

\* The inductive invariant.
IInv ==
    /\ Shapes
    /\ OutboxInv
    /\ ExpectInv
    /\ \A p \in Servers : InboxInv(p)
    /\ \A p \in Servers : IF sent.exited THEN After(p) ELSE Before(p)

-----------------------------------------------------------------------------
(* Sequences *)

\* A sequence stays one at its end and at its head, whatever it holds.
LEMMA AppendSeq ==
    ASSUME NEW q, NEW m, \E S : q \in Seq(S)
    PROVE  /\ \E S : Append(q, m) \in Seq(S)
           /\ Len(q) \in Nat /\ Len(Append(q, m)) = Len(q) + 1
           /\ \A i \in 1 .. Len(q) : Append(q, m)[i] = q[i]
           /\ Append(q, m)[Len(q) + 1] = m
<1>1. PICK S : q \in Seq(S)
  OBVIOUS
<1>2. q \in Seq(S \union {m}) /\ m \in S \union {m}
  BY <1>1
<1>3. QED
  BY <1>2

\* The rest of a sequence is one, each element a place earlier.
LEMMA TailSeq ==
    ASSUME NEW q, \E S : q \in Seq(S), q # <<>>
    PROVE  /\ \E S : Tail(q) \in Seq(S)
           /\ Len(q) \in Nat \ {0} /\ Len(Tail(q)) = Len(q) - 1
           /\ \A i \in 1 .. Len(q) - 1 : Tail(q)[i] = q[i + 1]
           /\ Head(q) = q[1]
<1>1. PICK S : q \in Seq(S)
  OBVIOUS
<1>2. QED
  BY <1>1

\* One sequence after another is a sequence, whatever they hold.
LEMMA ConcatSeq ==
    ASSUME NEW q, NEW r, \E S : q \in Seq(S), \E S : r \in Seq(S)
    PROVE  /\ \E S : q \o r \in Seq(S)
           /\ Len(q) \in Nat /\ Len(r) \in Nat /\ Len(q \o r) = Len(q) + Len(r)
           /\ \A i \in 1 .. Len(q) : (q \o r)[i] = q[i]
           /\ \A i \in 1 .. Len(r) : (q \o r)[Len(q) + i] = r[i]
<1>1. PICK S : q \in Seq(S)
  OBVIOUS
<1>2. PICK T : r \in Seq(T)
  OBVIOUS
<1>3. q \in Seq(S \union T) /\ r \in Seq(S \union T)
  BY <1>1, <1>2
<1>4. QED
  BY <1>3

\* The sequences written out are sequences.
LEMMA ShortSeqs ==
    ASSUME NEW a, NEW b
    PROVE  /\ \E S : <<>> \in Seq(S)
           /\ \E S : <<a>> \in Seq(S)
           /\ \E S : <<a, b>> \in Seq(S)
<1>1. <<>> \in Seq({}) /\ <<a>> \in Seq({a}) /\ <<a, b>> \in Seq({a, b})
  OBVIOUS
<1>2. QED
  BY <1>1

\* A sequence is empty if its length is zero.
LEMMA LengthOf ==
    ASSUME NEW q, \E S : q \in Seq(S)
    PROVE  Len(q) \in Nat /\ (Len(q) = 0 <=> q = <<>>)
<1>1. PICK S : q \in Seq(S)
  OBVIOUS
<1>2. QED
  BY <1>1

-----------------------------------------------------------------------------
(* What concerns one server *)

ServerInv(p) == InboxInv(p) /\ IF sent.exited THEN After(p) ELSE Before(p)

\* A server's own share of the state.
Side(p) == <<chan[<<CLIENT, p>>], chan[<<p, CLIENT>>], busy[p], sys[p].into>>
\* The client's share of what concerns server p.
Ahead(p) == <<ToSend(p), ToCome(p), stmt>>

\* It is left alone by whatever neither its own state nor the client's share in it sees.
LEMMA Untouched ==
    ASSUME NEW p \in Servers, UNCHANGED <<Side(p), Ahead(p)>>
    PROVE  /\ InboxInv(p) => InboxInv(p)'
           /\ Quiet(p) => Quiet(p)'
           /\ InStep(p) => InStep(p)'
           /\ sent' = sent /\ (expect' # <<>> => expect # <<>>) => (After(p) => After(p)')
<1>1. InboxInv(p) => InboxInv(p)'
  BY DEF InboxInv, Side, Ahead, Expected
<1>2. sent' = sent /\ (expect' # <<>> => expect # <<>>) => (After(p) => After(p)')
  BY DEF After, OnlyDone, OnlyStatements, Side, Ahead
<1>3. Quiet(p) => Quiet(p)'
  BY DEF Quiet, Side
<1>4. InStep(p) => InStep(p)'
  BY DEF InStep, Side, Ahead
<1>5. QED
  BY <1>1, <1>2, <1>3, <1>4

\* So is the whole of what is said of the server, unless the client starts or ends a statement.
LEMMA UntouchedServer ==
    ASSUME NEW p \in Servers, ServerInv(p),
           UNCHANGED <<Side(p), Ahead(p), sent, expect = <<>>>>
    PROVE  ServerInv(p)'
  BY Untouched DEF ServerInv, Before

\* The links of a server and of the client are different.
LEMMA LinksOf ==
    ASSUME NEW p \in Servers
    PROVE  /\ <<CLIENT, p>> \in Links /\ <<p, CLIENT>> \in Links
           /\ <<CLIENT, p>> # <<p, CLIENT>>
           /\ \A r \in Servers : <<CLIENT, p>> # <<r, CLIENT>> /\ <<p, CLIENT>> # <<CLIENT, r>>
           /\ \A r \in Servers \ {p} : <<CLIENT, p>> # <<CLIENT, r>> /\ <<p, CLIENT>> # <<r, CLIENT>>
           /\ p \in Servers \union {CLIENT} /\ p # CLIENT
  BY DEF Links, Servers, CLIENT

\* No statement but a record's INSERT is about what a server awaits.
LEMMA CatalogueKeepsInto ==
    ASSUME NEW s, NEW me, "into" \in DOMAIN me
    PROVE  "into" \in DOMAIN Catalogued(s, me) /\ Catalogued(s, me).into = me.into
<1>1. "into" \in DOMAIN createDatabase(me, s.name) /\ createDatabase(me, s.name).into = me.into
  BY DEF createDatabase
<1>2. "into" \in DOMAIN dropDatabase(me, s.name) /\ dropDatabase(me, s.name).into = me.into
  BY DEF dropDatabase
<1>3. "into" \in DOMAIN useDatabase(me, s.name) /\ useDatabase(me, s.name).into = me.into
  BY DEF useDatabase
<1>4. /\ "into" \in DOMAIN createTable(me, s.table, s.columns, s.key)
      /\ createTable(me, s.table, s.columns, s.key).into = me.into
  BY DEF createTable
<1>5. "into" \in DOMAIN dropTable(me, s.table) /\ dropTable(me, s.table).into = me.into
  BY DEF dropTable
<1>6. QED
  BY <1>1, <1>2, <1>3, <1>4, <1>5 DEF Catalogued

\* In the initial state nothing is under way.
LEMMA InitHolds == Init => IInv
<1> SUFFICES ASSUME Init PROVE IInv
  OBVIOUS
<1>e. outbox = <<>> /\ expect = <<>> /\ Len(outbox) = 0 /\ Len(expect) = 0
  BY DEF Init
<1>1. Shapes
  <2>1. todo \in Seq(Statements) /\ opening \in Seq(Seq(Statements))
    BY StatementsAssumption DEF Init
  <2>2. busy \in [Servers -> Statements \union {NONE}]
    BY DEF Init
  <2>3. DOMAIN sys = Servers \union {CLIENT} /\ \A p \in Servers : "into" \in DOMAIN sys[p]
    BY DEF Init
  <2>4. DOMAIN chan = Links /\ \A l \in Links : \E S : chan[l] \in Seq(S)
    BY ShortSeqs DEF Init
  <2>5. QED
    BY <2>1, <2>2, <2>3, <2>4, <1>e, ShortSeqs DEF Shapes
<1>2. OutboxInv /\ ExpectInv
  BY <1>e DEF OutboxInv, ExpectInv
<1>3. ASSUME NEW p \in Servers
      PROVE  Quiet(p) /\ InboxInv(p)
  <2>1. chan[<<CLIENT, p>>] = <<>> /\ chan[<<p, CLIENT>>] = <<>> /\ Len(chan[<<CLIENT, p>>]) = 0
    BY LinksOf DEF Init
  <2>2. busy[p] = NONE /\ sys[p].into = NONE
    BY DEF Init
  <2>3. QED
    BY <2>1, <2>2, <1>e DEF Quiet, InboxInv, Expected, ToSend, Turns
<1>4. QED
  BY <1>1, <1>2, <1>3, <1>e DEF IInv, Before, Init

\* Reading a command sends nothing.
LEMMA ReadCommandStep ==
    ASSUME IInv, ReadCommand
    PROVE  IInv'
<1>1. Shapes'
  <2>1. todo' \in Seq(Statements) /\ opening' \in Seq(Seq(Statements))
    <3>1. CASE opening # <<>>
      <4>1. opening \in Seq(Seq(Statements)) /\ todo' = Head(opening) /\ opening' = Tail(opening)
        BY <3>1 DEF ReadCommand, IInv, Shapes
      <4>2. QED
        BY <4>1, <3>1
    <3>2. CASE opening = <<>>
      BY <3>2, StatementsAssumption DEF ReadCommand, IInv, Shapes
    <3>3. QED
      BY <3>1, <3>2
  <2>2. QED
    BY <2>1 DEF IInv, Shapes, ReadCommand
<1>2. UNCHANGED <<outbox, expect, stmt, sent, busy, chan, sys>>
  BY DEF ReadCommand
<1>3. OutboxInv' /\ ExpectInv'
  BY <1>2 DEF IInv, OutboxInv, ExpectInv
<1>4. ASSUME NEW p \in Servers
      PROVE  ServerInv(p)'
  <2>1. UNCHANGED <<Side(p), Ahead(p), sent, expect = <<>>>>
    BY <1>2 DEF Side, Ahead, ToSend, ToCome
  <2>2. QED
    BY <2>1, UntouchedServer DEF IInv, ServerInv
<1>5. QED
  BY <1>1, <1>3, <1>4 DEF IInv, ServerInv

\* A statement is refused when nothing is under way for it.
LEMMA RefuseStep ==
    ASSUME IInv, Refuse
    PROVE  IInv'
<1>i. outbox = <<>> /\ expect = <<>> /\ Len(outbox) = 0 /\ Len(expect) = 0
  BY DEF Refuse, Idle
<1>u. UNCHANGED <<outbox, expect, sent, busy, chan, sys, opening>> /\ todo' = <<>>
  BY DEF Refuse, userVars
<1>1. Shapes'
  BY <1>u DEF IInv, Shapes
<1>2. OutboxInv' /\ ExpectInv'
  BY <1>i, <1>u DEF OutboxInv, ExpectInv
<1>3. ASSUME NEW p \in Servers
      PROVE  InboxInv(p)' /\ (IF sent'.exited THEN After(p)' ELSE Before(p)')
  <2>1. ToSend(p) = 0 /\ ToSend(p)' = 0
    BY <1>i, <1>u DEF ToSend, Turns
  <2>2. InboxInv(p)'
    BY <1>u, <2>1 DEF IInv, InboxInv, Expected
  <2>3. After(p) => After(p)'
    BY <1>i, <1>u DEF After, OnlyDone, OnlyStatements
  <2>4. Before(p) => Before(p)'
    BY <1>i, <1>u DEF Before, Quiet
  <2>5. QED
    BY <2>2, <2>3, <2>4, <1>u DEF IInv
<1>4. QED
  BY <1>1, <1>2, <1>3 DEF IInv

\* What the client sends, and what it waits for, written out.
LEMMA MessagesAre ==
    ASSUME NEW s, NEW me
    PROVE  /\ \E S : Messages(s, me) \in Seq(S)
           /\ Len(Messages(s, me)) = 2 * Parts(s)
           /\ \A i \in 1 .. 2 * Parts(s) :
                LET n == 2 * Parts(s) + 1 - i
                IN  /\ Messages(s, me)[i][1] = Turn(n)
                    /\ IF s.op = "insert" /\ n =< 2 THEN Messages(s, me)[i][2].kind = "share"
                       ELSE Messages(s, me)[i][2] = Command(s)
<1> DEFINE c == ToBoth(Command(s))
           m == [kind |-> "share", id |-> sent.shared + 1,
                 row |-> Record(s, TableOf(me, s.table))]
           r == ToBoth(m)
<1>c. /\ \E S : c \in Seq(S)
      /\ Len(c) = 2 /\ c[1] = <<0, Command(s)>> /\ c[2] = <<1, Command(s)>>
  BY ShortSeqs DEF ToBoth
<1>m. m.kind = "share"
  OBVIOUS
<1> HIDE DEF m
<1>r. /\ \E S : r \in Seq(S)
      /\ Len(r) = 2 /\ r[1] = <<0, m>> /\ r[2] = <<1, m>>
  BY ShortSeqs DEF ToBoth
<1>d. Messages(s, me) = IF s.op = "insert" THEN c \o r ELSE c
  BY DEF Messages, m
<1> HIDE DEF c, r
<1>1. CASE s.op = "insert"
  <2>1. Messages(s, me) = c \o r /\ Parts(s) = 2
    BY <1>1, <1>d DEF Parts
  <2>c. (\E S : c \in Seq(S)) /\ (\E S : r \in Seq(S)) /\ Len(c) = 2 /\ Len(r) = 2
    BY <1>c, <1>r
  <2>2. (\E S : c \o r \in Seq(S)) /\ Len(c \o r) = 4
    <3>1. (\E S : c \o r \in Seq(S)) /\ Len(c \o r) = Len(c) + Len(r)
      BY ONLY <2>c, ConcatSeq
    <3>2. QED
      BY <3>1, <2>c
  <2>3. (c \o r)[1] = c[1] /\ (c \o r)[2] = c[2] /\ (c \o r)[2 + 1] = r[1] /\ (c \o r)[2 + 2] = r[2]
    <3>1. 1 \in 1 .. Len(c) /\ 2 \in 1 .. Len(c) /\ 1 \in 1 .. Len(r) /\ 2 \in 1 .. Len(r)
      BY <1>c, <1>r
    <3>2. /\ \A i \in 1 .. Len(c) : (c \o r)[i] = c[i]
          /\ \A i \in 1 .. Len(r) : (c \o r)[Len(c) + i] = r[i]
      BY ONLY <2>c, ConcatSeq
    <3>3. QED
      BY <3>1, <3>2, <1>c
  <2>4. ASSUME NEW i \in 1 .. 4
        PROVE  /\ (c \o r)[i][1] = Turn(5 - i)
               /\ IF 5 - i =< 2 THEN (c \o r)[i][2].kind = "share"
                  ELSE (c \o r)[i][2] = Command(s)
    <3>1. i = 1 \/ i = 2 \/ i = 3 \/ i = 4
      OBVIOUS
    <3>2. QED
      BY <3>1, <2>3, <1>c, <1>r, <1>m DEF Turn
  <2>5. QED
    BY <1>1, <2>1, <2>2, <2>4
<1>2. CASE s.op # "insert"
  <2>1. Messages(s, me) = c /\ Parts(s) = 1
    BY <1>2, <1>d DEF Parts
  <2>2. ASSUME NEW i \in 1 .. 2
        PROVE  c[i][1] = Turn(3 - i) /\ c[i][2] = Command(s)
    <3>1. i = 1 \/ i = 2
      OBVIOUS
    <3>2. QED
      BY <3>1, <1>c DEF Turn
  <2>3. QED
    BY <1>2, <2>1, <2>2, <1>c
<1>3. QED
  BY <1>1, <1>2

\* What the client expects of a statement: its answers by turns, the last ones "done".
LEMMA AnswersAre ==
    ASSUME NEW s
    PROVE  /\ \E S : Answers(s) \in Seq(S)
           /\ Len(Answers(s)) = 2 * Replies(s)
           /\ \A i \in 1 .. 2 * Replies(s) :
                LET n == 2 * Replies(s) + 1 - i
                IN  Answers(s)[i] = <<Turn(n), IF n >= 3 THEN "rows" ELSE "done">>
<1> DEFINE a == FromBoth("rows")
           d == FromBoth("done")
<1>a. (\E S : a \in Seq(S)) /\ Len(a) = 2 /\ a[1] = <<0, "rows">> /\ a[2] = <<1, "rows">>
  BY ShortSeqs DEF FromBoth
<1>d. (\E S : d \in Seq(S)) /\ Len(d) = 2 /\ d[1] = <<0, "done">> /\ d[2] = <<1, "done">>
  BY ShortSeqs DEF FromBoth
<1>e. Answers(s) = (IF s.op \in Queries THEN a ELSE <<>>) \o d
  BY DEF Answers, Queries
<1> HIDE DEF a, d
<1>1. CASE s.op \in Queries
  <2>1. Answers(s) = a \o d /\ Replies(s) = 2
    BY <1>1, <1>e DEF Replies
  <2>2. (\E S : a \o d \in Seq(S)) /\ Len(a \o d) = 4
    <3>1. (\E S : a \o d \in Seq(S)) /\ Len(a \o d) = Len(a) + Len(d)
      BY <1>a, <1>d, ConcatSeq
    <3>2. QED
      BY <3>1, <1>a, <1>d
  <2>3. (a \o d)[1] = a[1] /\ (a \o d)[2] = a[2] /\ (a \o d)[2 + 1] = d[1] /\ (a \o d)[2 + 2] = d[2]
    <3>1. 1 \in 1 .. Len(a) /\ 2 \in 1 .. Len(a) /\ 1 \in 1 .. Len(d) /\ 2 \in 1 .. Len(d)
      BY <1>a, <1>d
    <3>2. /\ \A i \in 1 .. Len(a) : (a \o d)[i] = a[i]
          /\ \A i \in 1 .. Len(d) : (a \o d)[Len(a) + i] = d[i]
      BY <1>a, <1>d, ConcatSeq
    <3>3. QED
      BY <3>1, <3>2, <1>a
  <2>4. ASSUME NEW i \in 1 .. 4
        PROVE  (a \o d)[i] = <<Turn(5 - i), IF 5 - i >= 3 THEN "rows" ELSE "done">>
    <3>1. i = 1 \/ i = 2 \/ i = 3 \/ i = 4
      OBVIOUS
    <3>2. QED
      BY <3>1, <2>3, <1>a, <1>d DEF Turn
  <2>5. QED
    BY <2>1, <2>2, <2>4, SMTT(20)
<1>2. CASE s.op \notin Queries
  <2>1. Answers(s) = d /\ Replies(s) = 1
    <3>1. <<>> \o d = d
      <4>1. PICK S : d \in Seq(S)
        BY <1>d
      <4>2. QED
        BY <4>1
    <3>2. QED
      BY <1>2, <1>e, <3>1 DEF Replies
  <2>2. ASSUME NEW i \in 1 .. 2
        PROVE  d[i] = <<Turn(3 - i), IF 3 - i >= 3 THEN "rows" ELSE "done">>
    <3>1. i = 1 \/ i = 2
      OBVIOUS
    <3>2. QED
      BY <3>1, <1>d DEF Turn
  <2>3. QED
    BY <2>1, <2>2, <1>d
<1>3. QED
  BY <1>1, <1>2

\* A statement is executed when nothing is under way for the client.
LEMMA ExecuteStep ==
    ASSUME IInv, clientExecute
    PROVE  IInv'
<1> DEFINE s == Head(todo)
<1>i. outbox = <<>> /\ expect = <<>> /\ Len(outbox) = 0
  BY DEF clientExecute, Idle
<1>s. s \in Statements /\ Tail(todo) \in Seq(Statements) /\ s # NONE
  <2>1. todo \in Seq(Statements) /\ todo # <<>>
    BY DEF clientExecute, IInv, Shapes
  <2>2. QED
    BY <2>1, StatementsAssumption
<1>x. /\ outbox' = Messages(s, sys[CLIENT]) /\ expect' = Answers(s)
      /\ sys' = [sys EXCEPT ![CLIENT] = Catalogued(s, sys[CLIENT])]
      /\ sent'.exited = (sent.exited \/ s.op = "exit")
      /\ stmt' = s /\ todo' = Tail(todo)
      /\ UNCHANGED <<busy, chan, opening>>
      /\ sent'.late = (sent.late \/ (sent.exited /\ s.op \in Queries))
  BY DEF clientExecute, userVars, Queries
<1> HIDE DEF s
<1>o. Len(outbox') = 2 * Parts(s) /\ Len(expect') = 2 * Replies(s)
  BY <1>x, MessagesAre, AnswersAre
<1>n. /\ outbox' # <<>> /\ expect' # <<>>
      /\ Parts(s) \in 1 .. 2 /\ Replies(s) \in 1 .. 2
  BY <1>o DEF Parts, Replies
<1>y. \A p \in Servers : sys'[p] = sys[p]
  BY <1>x, LinksOf DEF IInv, Shapes
<1>1. Shapes'
  <2>1. (\E S : outbox' \in Seq(S)) /\ (\E S : expect' \in Seq(S))
    BY <1>x, MessagesAre, AnswersAre
  <2>2. DOMAIN sys' = Servers \union {CLIENT} /\ \A p \in Servers : "into" \in DOMAIN sys'[p]
    BY <1>x, <1>y DEF IInv, Shapes
  <2>3. QED
    BY <2>1, <2>2, <1>x, <1>s DEF IInv, Shapes
<1>2. OutboxInv'
  <2>1. \A i \in 1 .. 2 * Parts(s) :
            LET n == 2 * Parts(s) + 1 - i
            IN  /\ outbox'[i][1] = Turn(n)
                /\ IF s.op = "insert" /\ n =< 2 THEN outbox'[i][2].kind = "share"
                   ELSE outbox'[i][2] = Command(s)
    BY <1>x, MessagesAre
  <2>2. QED
    BY <2>1, <1>o, <1>x, <1>n DEF OutboxInv
<1>3. ExpectInv'
  <2>1. \A i \in 1 .. 2 * Replies(s) :
            LET n == 2 * Replies(s) + 1 - i
            IN  expect'[i] = <<Turn(n), IF n >= 3 THEN "rows" ELSE "done">>
    BY <1>x, AnswersAre
  <2>2. QED
    BY <2>1, <1>o, <1>x, <1>n, <1>s DEF ExpectInv
<1>4. ASSUME NEW p \in Servers
      PROVE  ServerInv(p)'
  <2>t. ToSend(p)' = Parts(s) /\ ToCome(p)' = Replies(s) /\ ToSend(p) = 0
    BY <1>o, <1>i DEF ToSend, ToCome, Turns, Parts, Replies
  <2>1. InboxInv(p)'
    <3>1. ToSend(p)' = 1 => s.op # "insert"
      BY <2>t DEF Parts
    <3>2. QED
      BY <3>1, <2>t, <1>x, <1>y DEF IInv, InboxInv, Expected
  <2>2. CASE sent.exited
    <3>1. After(p)
      BY <2>2 DEF IInv
    <3>2. OnlyStatements(p)'
      BY <3>1, <1>x DEF After, OnlyStatements
    <3>3. ~ sent'.late => OnlyDone(p)'
      BY <3>1, <1>x, <2>2 DEF After, OnlyDone
    <3>4. QED
      BY <3>2, <3>3, <2>1, <2>2, <1>x DEF ServerInv, After
  <2>3. CASE ~ sent.exited
    <3>1. Quiet(p)
      BY <2>3, <1>i DEF IInv, Before
    <3>e. Len(chan[<<CLIENT, p>>]) = 0 /\ Len(chan[<<p, CLIENT>>]) = 0
      BY <3>1 DEF Quiet
    <3>2. CASE s.op = "exit"
      <4>1. After(p)'
        BY <3>1, <3>e, <3>2, <1>x DEF Quiet, After, OnlyDone, OnlyStatements, Queries
      <4>2. QED
        BY <4>1, <2>1, <3>2, <1>x DEF ServerInv
    <3>3. CASE s.op # "exit"
      <4>1. InStep(p)'
        BY <3>1, <3>3, <3>e, <2>t, <1>x, <1>y, <1>n DEF Quiet, InStep
      <4>2. QED
        BY <4>1, <2>1, <3>3, <2>3, <1>x, <1>n DEF ServerInv, Before
    <3>4. QED
      BY <3>2, <3>3
  <2>4. QED
    BY <2>2, <2>3
<1>5. QED
  BY <1>1, <1>2, <1>3, <1>4 DEF IInv, ServerInv

-----------------------------------------------------------------------------
(* What the client sends and receives *)

\* Whose turn it is has one left less afterwards, the other as many as before.
LEMMA TurnTaken ==
    ASSUME NEW n \in 1 .. 4
    PROVE  /\ Turn(n) \in Servers
           /\ Turns(n, Turn(n)) \in 1 .. 2 /\ (Turns(n, Turn(n)) = 1 <=> n =< 2)
           /\ Turns(n - 1, Turn(n)) = Turns(n, Turn(n)) - 1
           /\ \A p \in Servers \ {Turn(n)} : Turns(n - 1, p) = Turns(n, p)
<1>1. n = 1 \/ n = 2 \/ n = 3 \/ n = 4
  OBVIOUS
<1>2. QED
  BY <1>1 DEF Turn, Turns, Servers

\* The message at the head is for whose turn it is.
LEMMA SendStep ==
    ASSUME IInv, ClientSends
    PROVE  IInv'
<1>p. PICK to : to = Turn(Len(outbox))
  OBVIOUS
<1> DEFINE L == Len(outbox)
           m == outbox[1][2]
           q == chan[<<CLIENT, to>>]
<1>n. outbox # <<>> /\ (\E S : outbox \in Seq(S))
  BY DEF ClientSends, IInv, Shapes
<1>l. L \in 1 .. 4 /\ 1 \in 1 .. L
  <2>1. L \in Nat /\ L # 0
    BY <1>n, LengthOf
  <2>2. L =< 2 * Parts(stmt)
    BY <1>n DEF IInv, OutboxInv
  <2>3. Parts(stmt) = 1 \/ Parts(stmt) = 2
    BY DEF Parts
  <2> HIDE DEF L
  <2>4. QED
    BY <2>1, <2>2, <2>3
<1>m. /\ outbox[1][1] = to
      /\ IF stmt.op = "insert" /\ L =< 2 THEN m.kind = "share" ELSE m = Command(stmt)
  <2>1. /\ outbox[1][1] = Turn(L + 1 - 1)
        /\ IF stmt.op = "insert" /\ L + 1 - 1 =< 2 THEN m.kind = "share" ELSE m = Command(stmt)
    BY <1>l, <1>p DEF IInv, OutboxInv
  <2>2. L + 1 - 1 = L
    BY <1>l
  <2>3. to = Turn(L)
    BY <1>p
  <2> HIDE DEF L, m
  <2>4. QED
    BY <2>1, <2>2, <2>3
<1>t. /\ to \in Servers /\ ToSend(to) \in 1 .. 2 /\ (ToSend(to) = 1 <=> L =< 2)
      /\ Turns(L - 1, to) = ToSend(to) - 1
      /\ \A p \in Servers \ {to} : Turns(L - 1, p) = ToSend(p)
  BY <1>l, <1>p, TurnTaken DEF ToSend
<1>x. /\ chan' = [chan EXCEPT ![<<CLIENT, to>>] = Append(@, m)]
      /\ outbox' = Tail(outbox)
      /\ UNCHANGED <<sys, busy, expect, sent, todo, opening, stmt>>
  <2>1. Head(outbox) = outbox[1]
    BY <1>n, TailSeq
  <2>2. QED
    BY <2>1, <1>m DEF ClientSends, userVars
<1>o. /\ \E S : outbox' \in Seq(S)
      /\ Len(outbox') = L - 1
      /\ \A i \in 1 .. L - 1 : outbox'[i] = outbox[i + 1]
  BY <1>x, <1>n, TailSeq
<1>s. \A p \in Servers : ToSend(p)' = Turns(L - 1, p)
  BY <1>o DEF ToSend
<1>d. DOMAIN chan = Links /\ (\E S : q \in Seq(S))
  BY <1>t, LinksOf DEF IInv, Shapes
<1> HIDE DEF m, q
<1>c. /\ DOMAIN chan' = Links
      /\ chan'[<<CLIENT, to>>] = Append(q, m)
      /\ \A l \in Links : l # <<CLIENT, to>> => chan'[l] = chan[l]
  BY <1>x, <1>d, <1>t, LinksOf DEF q
<1>q. /\ \E S : Append(q, m) \in Seq(S)
      /\ Len(q) \in Nat /\ Len(Append(q, m)) = Len(q) + 1
      /\ \A i \in 1 .. Len(q) : Append(q, m)[i] = q[i]
      /\ Append(q, m)[Len(q) + 1] = m
  BY <1>d, AppendSeq
<1>e. expect # <<>> /\ stmt \in Statements
  BY <1>n DEF IInv, OutboxInv, ExpectInv
<1>1. Shapes'
  <2>1. \A l \in Links : \E S : chan'[l] \in Seq(S)
    BY <1>c, <1>q DEF IInv, Shapes
  <2>2. QED
    BY <2>1, <1>c, <1>o, <1>x DEF IInv, Shapes
<1>2. OutboxInv'
  <2>1. L =< 2 * Parts(stmt) /\ Parts(stmt) \in Nat
    BY <1>n DEF IInv, OutboxInv, Parts
  <2>2. ASSUME NEW i \in 1 .. L - 1
        PROVE  LET n == L - 1 + 1 - i
               IN  /\ outbox'[i][1] = Turn(n)
                   /\ IF stmt.op = "insert" /\ n =< 2 THEN outbox'[i][2].kind = "share"
                      ELSE outbox'[i][2] = Command(stmt)
    <3>0. i + 1 \in 1 .. L /\ L + 1 - (i + 1) = L - 1 + 1 - i
      <4> HIDE DEF L
      <4> QED
        BY <1>l
    <3>1. i + 1 \in 1 .. L /\ L + 1 - (i + 1) = L - 1 + 1 - i /\ outbox'[i] = outbox[i + 1]
      BY <3>0, <1>o
    <3> DEFINE n == L + 1 - (i + 1)
    <3>2. /\ outbox[i + 1][1] = Turn(n)
          /\ IF stmt.op = "insert" /\ n =< 2 THEN outbox[i + 1][2].kind = "share"
             ELSE outbox[i + 1][2] = Command(stmt)
      BY <3>1 DEF IInv, OutboxInv
    <3>3. QED
      BY <3>1, <3>2
  <2>3. QED
    BY <2>1, <2>2, <1>o, <1>x, <1>l DEF OutboxInv
<1>3. ExpectInv'
  BY <1>x, <1>n DEF IInv, ExpectInv
<1>4. ASSUME NEW p \in Servers \ {to}
      PROVE  ServerInv(p)'
  <2>1. <<CLIENT, p>> \in Links /\ <<CLIENT, p>> # <<CLIENT, to>>
    BY <1>t, LinksOf
  <2>2. <<p, CLIENT>> \in Links /\ <<p, CLIENT>> # <<CLIENT, to>>
    BY <1>t, LinksOf
  <2>3. UNCHANGED <<Side(p), Ahead(p), sent, expect = <<>>>>
    BY <2>1, <2>2, <1>c, <1>x, <1>s, <1>t DEF Side, Ahead, ToCome
  <2>4. QED
    BY <2>3, UntouchedServer DEF IInv, ServerInv
<1>5. InboxInv(to)'
  <2>1. \A i \in 1 .. Len(q) : q[i].kind = IF i = 1 THEN Expected(to) ELSE Following(q[i - 1])
    BY <1>t DEF IInv, InboxInv, q
  <2>2. (IF q = <<>> THEN Expected(to) ELSE Following(q[Len(q)]))
            = IF ToSend(to) = 1 /\ stmt.op = "insert" THEN "share" ELSE "command"
    BY <1>t DEF IInv, InboxInv, q
  <2>3. m.kind = IF ToSend(to) = 1 /\ stmt.op = "insert" THEN "share" ELSE "command"
    BY <1>m, <1>t DEF Command
  <2>4. Following(m) = IF ToSend(to) - 1 = 1 /\ stmt.op = "insert" THEN "share" ELSE "command"
    BY <1>m, <1>t DEF Command, Following
  <2> DEFINE r == Append(q, m)
  <2>5. ASSUME NEW i \in 1 .. Len(q) + 1
        PROVE  r[i].kind = IF i = 1 THEN Expected(to) ELSE Following(r[i - 1])
    <3>1. CASE i \in 1 .. Len(q)
      <4>1. i # 1 => i - 1 \in 1 .. Len(q)
        BY <3>1, <1>q
      <4>2. r[i] = q[i] /\ (i # 1 => r[i - 1] = q[i - 1])
        BY <3>1, <4>1, <1>q
      <4>3. QED
        BY <3>1, <4>2, <2>1
    <3>2. CASE i = Len(q) + 1
      <4>1. r[i] = m
        BY <3>2, <1>q
      <4>2. Len(q) = 0 <=> q = <<>>
        BY <1>d, LengthOf
      <4>3. CASE i = 1
        BY <4>1, <4>2, <4>3, <3>2, <1>q, <2>2, <2>3
      <4>4. CASE i # 1
        <5>1. i - 1 = Len(q) /\ i - 1 \in 1 .. Len(q) /\ q # <<>>
          BY <4>2, <4>4, <3>2, <1>q
        <5>2. r[i - 1] = q[Len(q)]
          BY <5>1, <1>q
        <5>3. QED
          BY <4>1, <4>4, <5>1, <5>2, <2>2, <2>3
      <4>5. QED
        BY <4>3, <4>4
    <3>3. QED
      BY <3>1, <3>2, <1>q
  <2>6. r # <<>> /\ r[Len(r)] = m
    <3>1. Len(r) # 0
      BY <1>q
    <3>2. QED
      BY <3>1, <1>q
  <2>7. chan'[<<CLIENT, to>>] = r /\ Len(r) = Len(q) + 1 /\ Expected(to)' = Expected(to)
    BY <1>c, <1>q, <1>x DEF Expected
  <2>8. ToSend(to)' = ToSend(to) - 1 /\ stmt' = stmt
    BY <1>s, <1>t, <1>x
  <2> HIDE DEF r
  <2>9. QED
    BY <2>4, <2>5, <2>6, <2>7, <2>8 DEF InboxInv
<1>6. ASSUME sent.exited
      PROVE  After(to)'
  <2>1. After(to)
    BY <1>6, <1>t DEF IInv
  <2>2. chan'[<<to, CLIENT>>] = chan[<<to, CLIENT>>]
    BY <1>c, <1>t, LinksOf
  <2>3. chan'[<<CLIENT, to>>] = Append(q, m) /\ Len(Append(q, m)) = Len(q) + 1
    BY <1>c, <1>q
  <2>4. \A i \in 1 .. Len(q) + 1 : i \in 1 .. Len(q) \/ i = Len(q) + 1
    BY <1>q
  <2>5. OnlyStatements(to)'
    <3>1. m.kind = "command" => m.stmt \in Statements
      BY <1>m, <1>e DEF Command
    <3>2. \A i \in 1 .. Len(q) : q[i].kind = "command" => q[i].stmt \in Statements
      BY <2>1 DEF After, OnlyStatements, q
    <3>3. QED
      BY <3>1, <3>2, <2>3, <2>4, <1>q DEF OnlyStatements
  <2>6. ASSUME ~ sent.late
        PROVE  OnlyDone(to)'
    <3>1. OnlyDone(to)
      BY <2>1, <2>6 DEF After
    <3> DEFINE Harmless == {s \in Statements : s.op \notin Queries}
    <3>2. m.kind = "command" => m.stmt \in Harmless
      BY <1>m, <1>e, <3>1 DEF OnlyDone, Command
    <3>3. \A i \in 1 .. Len(q) : q[i].kind = "command" => q[i].stmt \in Harmless
      BY <3>1 DEF OnlyDone, q
    <3>4. \A i \in 1 .. Len(chan'[<<CLIENT, to>>]) :
              chan'[<<CLIENT, to>>][i].kind = "command" => chan'[<<CLIENT, to>>][i].stmt \in Harmless
      BY <3>2, <3>3, <2>3, <2>4, <1>q
    <3>5. busy'[to] = NONE /\ (expect' # <<>> => stmt'.op \notin Queries)
      BY <3>1, <1>x, <1>e DEF OnlyDone
    <3>6. QED
      BY <3>1, <2>2, <3>4, <3>5 DEF OnlyDone
  <2>7. QED
    BY <2>5, <2>6, <1>x DEF After
<1>7. ASSUME ~ sent.exited
      PROVE  InStep(to)'
  <2>1. InStep(to)
    BY <1>7, <1>t, <1>e DEF IInv, Before
  <2>2. chan'[<<to, CLIENT>>] = chan[<<to, CLIENT>>] /\ chan'[<<CLIENT, to>>] = Append(q, m)
    BY <1>c, <1>t, LinksOf
  <2>3. \A i \in 1 .. Len(Append(q, m)) :
            Append(q, m)[i].kind = "command" => Append(q, m)[i].stmt = stmt
    <3>1. \A i \in 1 .. Len(q) + 1 : i \in 1 .. Len(q) \/ i = Len(q) + 1
      BY <1>q
    <3>2. \A i \in 1 .. Len(q) : q[i].kind = "command" => q[i].stmt = stmt
      BY <2>1 DEF InStep, q
    <3>3. m.kind = "command" => m.stmt = stmt
      BY <1>m DEF Command
    <3>4. QED
      BY <3>1, <3>2, <3>3, <1>q
  <2>4. Len(Append(q, m)) + ToSend(to)' = Len(q) + ToSend(to) /\ Len(q) + ToSend(to) > 0
    BY <1>q, <1>s, <1>t
  <2>5. ToCome(to)' = ToCome(to)
    BY <1>x DEF ToCome
  <2>6. /\ Len(q) + ToSend(to) =< Parts(stmt)
        /\ stmt.op # "exit" /\ (stmt.op # "insert" => sys[to].into = NONE)
        /\ busy[to] = NONE /\ chan[<<to, CLIENT>>] = <<>> /\ ToCome(to) = Replies(stmt)
    BY <2>1, <2>4 DEF InStep, q
  <2>7. QED
    BY <2>2, <2>3, <2>4, <2>5, <2>6, <1>x DEF InStep
<1>8. ServerInv(to)'
  BY <1>5, <1>6, <1>7, <1>e, <1>x DEF ServerInv, Before
<1>9. QED
  BY <1>1, <1>2, <1>3, <1>4, <1>8 DEF IInv, ServerInv

\* The client takes one answer, of the server whose turn it is.
LEMMA ReceiveStep ==
    ASSUME IInv, ClientReceives
    PROVE  IInv'
<1>p. PICK from : from = Turn(Len(expect))
  OBVIOUS
<1> DEFINE E == Len(expect)
           r == chan[<<from, CLIENT>>]
<1>n. outbox = <<>> /\ expect # <<>> /\ (\E S : expect \in Seq(S)) /\ stmt \in Statements
  BY DEF ClientReceives, IInv, Shapes, ExpectInv
<1>l. E \in 1 .. 4 /\ 1 \in 1 .. E
  <2>1. E \in Nat /\ E # 0
    BY <1>n, LengthOf
  <2>2. E =< 2 * Replies(stmt)
    BY <1>n DEF IInv, ExpectInv
  <2>3. Replies(stmt) = 1 \/ Replies(stmt) = 2
    BY DEF Replies
  <2> HIDE DEF E
  <2>4. QED
    BY <2>1, <2>2, <2>3
<1>m. expect[1][1] = from
  <2>1. expect[1] = <<Turn(E + 1 - 1), IF E + 1 - 1 >= 3 THEN "rows" ELSE "done">>
    BY <1>l DEF IInv, ExpectInv
  <2>2. E + 1 - 1 = E
    BY <1>l
  <2>3. QED
    BY <2>1, <2>2, <1>p
<1>t. /\ from \in Servers /\ ToCome(from) \in 1 .. 2
      /\ Turns(E - 1, from) = ToCome(from) - 1
      /\ \A p \in Servers \ {from} : Turns(E - 1, p) = ToCome(p)
  BY <1>l, <1>p, TurnTaken DEF ToCome
<1>x. /\ r # <<>>
      /\ chan' = [chan EXCEPT ![<<from, CLIENT>>] = Tail(@)]
      /\ expect' = Tail(expect)
      /\ UNCHANGED <<sys, busy, outbox, sent, todo, opening, stmt>>
  <2>1. Head(expect) = expect[1]
    BY <1>n, TailSeq
  <2>2. QED
    BY <2>1, <1>m DEF ClientReceives, userVars
<1>o. /\ \E S : expect' \in Seq(S)
      /\ Len(expect') = E - 1
      /\ \A i \in 1 .. E - 1 : expect'[i] = expect[i + 1]
  BY <1>x, <1>n, TailSeq
<1>s. \A p \in Servers : ToCome(p)' = Turns(E - 1, p) /\ ToSend(p)' = ToSend(p)
  BY <1>o, <1>x DEF ToCome, ToSend
<1>d. DOMAIN chan = Links /\ (\E S : r \in Seq(S))
  BY <1>t, LinksOf DEF IInv, Shapes
<1>r. /\ \E S : Tail(r) \in Seq(S)
      /\ Len(r) \in Nat \ {0} /\ Len(Tail(r)) = Len(r) - 1
      /\ \A i \in 1 .. Len(r) - 1 : Tail(r)[i] = r[i + 1]
  BY <1>d, <1>x, TailSeq
<1> HIDE DEF r
<1>c. /\ DOMAIN chan' = Links
      /\ chan'[<<from, CLIENT>>] = Tail(r)
      /\ \A l \in Links : l # <<from, CLIENT>> => chan'[l] = chan[l]
  BY <1>x, <1>d, <1>t, LinksOf DEF r
<1>1. Shapes'
  <2>1. \A l \in Links : \E S : chan'[l] \in Seq(S)
    BY <1>c, <1>r DEF IInv, Shapes
  <2>2. QED
    BY <2>1, <1>c, <1>o, <1>x DEF IInv, Shapes
<1>2. OutboxInv'
  BY <1>x DEF IInv, OutboxInv
<1>3. ExpectInv'
  <2>1. E =< 2 * Replies(stmt) /\ (Replies(stmt) = 1 \/ Replies(stmt) = 2)
    BY <1>n DEF IInv, ExpectInv, Replies
  <2>2. ASSUME NEW i \in 1 .. E - 1
        PROVE  LET n == E - 1 + 1 - i
               IN  expect'[i] = <<Turn(n), IF n >= 3 THEN "rows" ELSE "done">>
    <3>0. i + 1 \in 1 .. E /\ E + 1 - (i + 1) = E - 1 + 1 - i
      <4> HIDE DEF E
      <4> QED
        BY <1>l
    <3>1. expect'[i] = expect[i + 1]
      BY <1>o
    <3> DEFINE n == E + 1 - (i + 1)
    <3>2. expect[i + 1] = <<Turn(n), IF n >= 3 THEN "rows" ELSE "done">>
      BY <3>0 DEF IInv, ExpectInv
    <3>3. QED
      BY <3>0, <3>1, <3>2
  <2>3. E - 1 =< 2 * Replies(stmt)
    <3> HIDE DEF E
    <3> QED
      BY <2>1, <1>l
  <2>4. QED
    BY <2>2, <2>3, <1>n, <1>o, <1>x DEF ExpectInv
<1>4. ASSUME NEW p \in Servers \ {from}
      PROVE  /\ InboxInv(p)'
             /\ IF sent.exited THEN After(p)' ELSE InStep(p)'
  <2>1. <<CLIENT, p>> \in Links /\ <<CLIENT, p>> # <<from, CLIENT>>
    BY <1>t, LinksOf
  <2>2. <<p, CLIENT>> \in Links /\ <<p, CLIENT>> # <<from, CLIENT>>
    BY <1>t, LinksOf
  <2>3. UNCHANGED <<Side(p), Ahead(p)>>
    BY <2>1, <2>2, <1>c, <1>x, <1>s, <1>t DEF Side, Ahead
  <2>4. QED
    BY <2>3, <1>n, <1>x, Untouched DEF IInv, Before
<1>k. chan'[<<CLIENT, from>>] = chan[<<CLIENT, from>>]
  BY <1>c, <1>t, LinksOf
<1>5. InboxInv(from)'
  BY <1>k, <1>x, <1>s, <1>t DEF IInv, InboxInv, Expected
<1>6. ASSUME sent.exited
      PROVE  After(from)'
  <2>1. After(from)
    BY <1>6, <1>t DEF IInv
  <2>2. \A i \in 1 .. Len(r) - 1 : i + 1 \in 1 .. Len(r)
    BY <1>r
  <2>3. OnlyStatements(from)'
    BY <2>1, <1>k DEF After, OnlyStatements
  <2>4. ASSUME ~ sent.late
        PROVE  OnlyDone(from)'
    <3>1. OnlyDone(from)
      BY <2>1, <2>4 DEF After
    <3>2. \A i \in 1 .. Len(Tail(r)) : Tail(r)[i].kind = "done"
      BY <3>1, <2>2, <1>r DEF OnlyDone, r
    <3>3. QED
      BY <3>1, <3>2, <1>c, <1>k, <1>x, <1>n DEF OnlyDone
  <2>5. QED
    BY <2>3, <2>4, <1>x DEF After
<1>7. ASSUME ~ sent.exited
      PROVE  InStep(from)'
  <2>1. InStep(from)
    BY <1>7, <1>t, <1>n DEF IInv, Before
  <2> DEFINE q == chan[<<CLIENT, from>>]
  <2>2. /\ \A i \in 1 .. Len(q) : q[i].kind = "command" => q[i].stmt = stmt
        /\ stmt.op # "exit" /\ (stmt.op # "insert" => sys[from].into = NONE)
        /\ Len(q) + ToSend(from) =< Parts(stmt)
    BY <2>1 DEF InStep
  <2>3. /\ Len(q) + ToSend(from) = 0 /\ busy[from] = NONE
        /\ Len(r) = ToCome(from)
        /\ \A i \in 1 .. Len(r) : r[i].kind = IF Len(r) + 1 - i = 2 THEN "rows" ELSE "done"
    BY <2>1, <1>x DEF InStep, r
  <2>4. \A i \in 1 .. Len(Tail(r)) :
            Tail(r)[i].kind = IF Len(Tail(r)) + 1 - i = 2 THEN "rows" ELSE "done"
    <3> SUFFICES ASSUME NEW i \in 1 .. Len(r) - 1
                 PROVE  Tail(r)[i].kind = IF Len(r) - 1 + 1 - i = 2 THEN "rows" ELSE "done"
      BY <1>r
    <3>1. i + 1 \in 1 .. Len(r) /\ Len(r) + 1 - (i + 1) = Len(r) - 1 + 1 - i
      <4> DEFINE k == Len(r)
      <4>1. k \in Nat /\ i \in 1 .. k - 1
        BY <1>r
      <4> HIDE DEF k
      <4>2. i + 1 \in 1 .. k /\ k + 1 - (i + 1) = k - 1 + 1 - i
        BY <4>1
      <4>3. QED
        BY <4>2 DEF k
    <3>2. Tail(r)[i] = r[i + 1]
      BY <1>r
    <3>3. r[i + 1].kind = IF Len(r) + 1 - (i + 1) = 2 THEN "rows" ELSE "done"
      BY <2>3, <3>1
    <3>4. QED
      BY <3>1, <3>2, <3>3
  <2>5. Len(Tail(r)) = ToCome(from)' /\ ToSend(from)' = ToSend(from)
    BY <2>3, <1>r, <1>s, <1>t
  <2> HIDE DEF q
  <2>6. chan'[<<CLIENT, from>>] = q /\ chan'[<<from, CLIENT>>] = Tail(r)
    BY <1>k, <1>c DEF q
  <2>7. QED
    BY <2>2, <2>3, <2>4, <2>5, <2>6, <1>x DEF InStep
<1>8. ASSUME NEW p \in Servers, expect' = <<>>, InStep(p)', InboxInv(p)'
      PROVE  Quiet(p)'
  <2>1. Replies(stmt') # 0 /\ ToSend(p)' = 0 /\ ToCome(p)' = 0
    <3>1. Len(outbox') = 0 /\ Len(expect') = 0
      BY <1>8, <1>n, <1>x
    <3>2. QED
      BY <3>1 DEF Replies, ToSend, ToCome, Turns
  <2>2. /\ Len(chan'[<<CLIENT, p>>]) + ToSend(p)' = 0 /\ busy'[p] = NONE
        /\ Len(chan'[<<p, CLIENT>>]) = ToCome(p)'
    BY <1>8, <2>1 DEF InStep
  <2>3. (\E S : chan'[<<CLIENT, p>>] \in Seq(S)) /\ (\E S : chan'[<<p, CLIENT>>] \in Seq(S))
    BY <1>1, LinksOf DEF Shapes
  <2>4. chan'[<<CLIENT, p>>] = <<>> /\ chan'[<<p, CLIENT>>] = <<>>
    BY <2>1, <2>2, <2>3, LengthOf
  <2>5. Expected(p)' = "command"
    BY <1>8, <2>1, <2>4 DEF InboxInv
  <2>6. QED
    BY <2>2, <2>4, <2>5 DEF Quiet, Expected
<1>9. ASSUME NEW p \in Servers
      PROVE  ServerInv(p)'
  <2>1. InboxInv(p)' /\ IF sent.exited THEN After(p)' ELSE InStep(p)'
    BY <1>4, <1>5, <1>6, <1>7
  <2>2. QED
    BY <2>1, <1>8, <1>x DEF ServerInv, Before
<1>10. QED
  BY <1>1, <1>2, <1>3, <1>9 DEF IInv, ServerInv

-----------------------------------------------------------------------------
(* What a server receives and answers *)

LEMMA EmptyConcat ==
    ASSUME NEW q, \E S : q \in Seq(S)
    PROVE  <<>> \o q = q /\ q \o <<>> = q
<1>1. PICK S : q \in Seq(S)
  OBVIOUS
<1>2. QED
  BY <1>1

\* What a server expects after a message.
LEMMA ServeExpects ==
    ASSUME NEW s, NEW m, "into" \in DOMAIN s,
           m.kind = IF s.into = NONE THEN "command" ELSE "share",
           m.kind = "command" => m.stmt \in Statements
    PROVE  /\ "into" \in DOMAIN Serve(s, m)
           /\ (IF Serve(s, m).into = NONE THEN "command" ELSE "share") = Following(m)
<1>1. CASE m.kind = "share"
  <2>1. "into" \in DOMAIN insert(s, s.into, m) /\ insert(s, s.into, m).into = NONE
    BY DEF insert
  <2>2. Following(m) = "command"
    BY <1>1 DEF Following
  <2>3. QED
    BY <1>1, <2>1, <2>2 DEF Serve
<1>2. CASE m.kind = "command" /\ m.stmt.op = "insert"
  <2>1. m.stmt.table # NONE
    BY <1>2, StatementsAssumption
  <2>2. Following(m) = "share"
    BY <1>2 DEF Following
  <2>3. QED
    BY <1>2, <2>1, <2>2 DEF Serve
<1>3. CASE m.kind = "command" /\ m.stmt.op # "insert"
  <2>1. Serve(s, m) = Catalogued(m.stmt, s)
    BY <1>3 DEF Serve
  <2>2. s.into = NONE /\ Following(m) = "command"
    BY <1>3 DEF Following
  <2>3. QED
    BY <2>1, <2>2, CatalogueKeepsInto
<1>4. QED
  BY <1>1, <1>2, <1>3

\* What it says at once.
LEMMA SaidIs ==
    ASSUME NEW m
    PROVE  /\ \E S : Said(m) \in Seq(S)
           /\ \A i \in 1 .. Len(Said(m)) : Said(m)[i].kind = "done"
           /\ m.kind = "share" => Said(m) = <<DONE>>
           /\ m.kind = "command" =>
                /\ m.stmt.op = "insert" \/ m.stmt.op \in Queries => Said(m) = <<>>
                /\ m.stmt.op # "insert" /\ m.stmt.op \notin Queries /\ m.stmt.op # "exit" =>
                       Said(m) = <<DONE>>
<1>1. Said(m) = <<>> \/ Said(m) = <<DONE>> \/ Said(m) = <<DONE, DONE>>
  BY DEF Said
<1>2. \E S : Said(m) \in Seq(S)
  BY <1>1, ShortSeqs
<1>3. \A i \in 1 .. Len(Said(m)) : Said(m)[i].kind = "done"
  <2>1. DONE.kind = "done"
    BY DEF DONE
  <2> HIDE DEF DONE
  <2>2. CASE Said(m) = <<>>
    BY <2>2
  <2>3. CASE Said(m) = <<DONE>>
    <3>1. Len(Said(m)) = 1 /\ Said(m)[1] = DONE
      BY <2>3
    <3>2. QED
      BY <2>1, <3>1
  <2>4. CASE Said(m) = <<DONE, DONE>>
    <3>1. Len(Said(m)) = 2 /\ Said(m)[1] = DONE /\ Said(m)[2] = DONE
      BY <2>4
    <3>2. \A i \in 1 .. 2 : i = 1 \/ i = 2
      OBVIOUS
    <3>3. QED
      BY <2>1, <3>1, <3>2
  <2>5. QED
    BY <1>1, <2>2, <2>3, <2>4
<1>4. QED
  BY <1>2, <1>3 DEF Said, Queries

\* A server takes a command, or the record of an INSERT.
LEMMA ServerReceivesStep ==
    ASSUME IInv, NEW p \in Servers, ServerReceives(p)
    PROVE  IInv'
<1> DEFINE q == chan[<<CLIENT, p>>]
           r == chan[<<p, CLIENT>>]
           m == Head(chan[<<CLIENT, p>>])
<1>d. /\ DOMAIN chan = Links /\ (\E S : q \in Seq(S)) /\ (\E S : r \in Seq(S))
      /\ DOMAIN sys = Servers \union {CLIENT} /\ "into" \in DOMAIN sys[p]
      /\ busy \in [Servers -> Statements \union {NONE}]
  BY LinksOf DEF IInv, Shapes
<1>x. /\ q # <<>> /\ busy[p] = NONE /\ m.kind = Expected(p)
      /\ sys' = [sys EXCEPT ![p] = Serve(@, m)]
      /\ busy' = IF m.kind = "command" /\ m.stmt.op \in Queries
                 THEN [busy EXCEPT ![p] = m.stmt] ELSE busy
      /\ chan' = [chan EXCEPT ![<<CLIENT, p>>] = Tail(@), ![<<p, CLIENT>>] = @ \o Said(m)]
      /\ UNCHANGED <<outbox, expect, sent, todo, opening, stmt>>
  BY DEF ServerReceives, Queries, userVars
<1>q. /\ \E S : Tail(q) \in Seq(S)
      /\ Len(q) \in Nat \ {0} /\ Len(Tail(q)) = Len(q) - 1
      /\ \A i \in 1 .. Len(q) - 1 : Tail(q)[i] = q[i + 1]
      /\ m = q[1] /\ 1 \in 1 .. Len(q)
  <2>1. q # <<>> /\ \E S : q \in Seq(S)
    BY <1>d, <1>x
  <2>2. m = Head(q)
    OBVIOUS
  <2> HIDE DEF q, m
  <2>3. /\ \E S : Tail(q) \in Seq(S)
        /\ Len(q) \in Nat \ {0} /\ Len(Tail(q)) = Len(q) - 1
        /\ \A i \in 1 .. Len(q) - 1 : Tail(q)[i] = q[i + 1]
        /\ Head(q) = q[1]
    BY <2>1, TailSeq
  <2>4. 1 \in 1 .. Len(q)
    BY <2>3
  <2>5. QED
    BY <2>2, <2>3, <2>4
<1>t. ToSend(p)' = ToSend(p) /\ ToCome(p)' = ToCome(p) /\ ToSend(p) \in 0 .. 2
  BY <1>x DEF ToSend, ToCome, Turns
<1>i. /\ \A i \in 1 .. Len(q) : q[i].kind = IF i = 1 THEN Expected(p) ELSE Following(q[i - 1])
      /\ Following(q[Len(q)])
             = IF ToSend(p) = 1 /\ stmt.op = "insert" THEN "share" ELSE "command"
  BY <1>x DEF IInv, InboxInv
<1>s. m.kind = "command" => m.stmt \in Statements /\ (~ sent.exited => m.stmt = stmt)
  <2> HIDE DEF m
  <2>1. CASE sent.exited
    <3>1. After(p)
      BY <2>1 DEF IInv
    <3>2. q[1].kind = "command" => q[1].stmt \in Statements
      BY <3>1, <1>q DEF After, OnlyStatements
    <3>3. QED
      BY <3>2, <2>1, <1>q
  <2>2. CASE ~ sent.exited
    <3>1. expect # <<>>
      BY <2>2, <1>x DEF IInv, Before, Quiet
    <3>2. InStep(p) /\ stmt \in Statements
      BY <3>1, <2>2 DEF IInv, Before, ExpectInv
    <3>3. QED
      BY <3>2, <1>q DEF InStep
  <2>3. QED
    BY <2>1, <2>2
<1> HIDE DEF q, r, m
<1>c. /\ DOMAIN chan' = Links
      /\ chan'[<<CLIENT, p>>] = Tail(q) /\ chan'[<<p, CLIENT>>] = r \o Said(m)
      /\ \A l \in Links : l # <<CLIENT, p>> /\ l # <<p, CLIENT>> => chan'[l] = chan[l]
  <2>1. /\ <<CLIENT, p>> \in DOMAIN chan /\ <<p, CLIENT>> \in DOMAIN chan
        /\ <<CLIENT, p>> # <<p, CLIENT>>
    BY <1>d, LinksOf
  <2>2. QED
    BY <2>1, <1>x, <1>d DEF q, r
<1>r. /\ \E S : r \o Said(m) \in Seq(S)
      /\ Len(r) \in Nat /\ Len(r \o Said(m)) = Len(r) + Len(Said(m))
      /\ \A i \in 1 .. Len(r) : (r \o Said(m))[i] = r[i]
      /\ \A i \in 1 .. Len(Said(m)) : (r \o Said(m))[Len(r) + i] = Said(m)[i]
  <2>1. \E S : Said(m) \in Seq(S)
    BY SaidIs
  <2>2. \E S : r \in Seq(S)
    BY <1>d
  <2>3. QED
    BY ONLY <2>1, <2>2, ConcatSeq
<1>y. /\ DOMAIN sys' = DOMAIN sys /\ sys'[p] = Serve(sys[p], m)
      /\ \A o \in Servers \ {p} : sys'[o] = sys[o] /\ busy'[o] = busy[o]
  BY <1>x, <1>d, LinksOf
<1>e. "into" \in DOMAIN sys'[p] /\ Expected(p)' = Following(m)
  <2>1. m.kind = IF sys[p].into = NONE THEN "command" ELSE "share"
    BY <1>x DEF Expected
  <2>2. QED
    BY <2>1, <1>d, <1>s, <1>y, ServeExpects DEF Expected
<1>1. Shapes'
  <2>1. \A l \in Links : \E S : chan'[l] \in Seq(S)
    BY <1>c, <1>q, <1>r DEF IInv, Shapes
  <2>2. busy' \in [Servers -> Statements \union {NONE}]
    BY <1>x, <1>s, <1>d
  <2>3. \A o \in Servers : "into" \in DOMAIN sys'[o]
    BY <1>e, <1>y DEF IInv, Shapes
  <2>4. QED
    BY <2>1, <2>2, <2>3, <1>c, <1>x, <1>y DEF IInv, Shapes
<1>2. OutboxInv' /\ ExpectInv'
  BY <1>x DEF IInv, OutboxInv, ExpectInv
<1>3. ASSUME NEW o \in Servers \ {p}
      PROVE  ServerInv(o)'
  <2>1. /\ <<CLIENT, o>> \in Links /\ <<o, CLIENT>> \in Links
        /\ <<CLIENT, o>> # <<CLIENT, p>> /\ <<CLIENT, o>> # <<p, CLIENT>>
        /\ <<o, CLIENT>> # <<CLIENT, p>> /\ <<o, CLIENT>> # <<p, CLIENT>>
    BY LinksOf
  <2>2. chan'[<<CLIENT, o>>] = chan[<<CLIENT, o>>] /\ chan'[<<o, CLIENT>>] = chan[<<o, CLIENT>>]
    BY <2>1, <1>c
  <2>3. UNCHANGED <<Side(o), Ahead(o), sent, expect = <<>>>>
    BY <2>2, <1>x, <1>y DEF Side, Ahead, ToSend, ToCome
  <2>4. QED
    BY <2>3, UntouchedServer DEF IInv, ServerInv
<1>4. InboxInv(p)'
  <2>1. ASSUME NEW i \in 1 .. Len(Tail(q))
        PROVE  Tail(q)[i].kind = IF i = 1 THEN Following(m) ELSE Following(Tail(q)[i - 1])
    <3>1. i + 1 \in 1 .. Len(q) /\ i + 1 # 1 /\ (i + 1) - 1 = i /\ Tail(q)[i] = q[i + 1]
      BY <1>q
    <3>2. q[i + 1].kind = Following(q[i])
      BY <1>i, <3>1
    <3>3. CASE i = 1
      BY <3>1, <3>2, <3>3, <1>q
    <3>4. CASE i # 1
      <4>1. i - 1 \in 1 .. Len(q) - 1 /\ (i - 1) + 1 = i
        BY <3>4, <1>q
      <4>2. Tail(q)[i - 1] = q[i]
        BY <4>1, <1>q
      <4>3. QED
        BY <3>1, <3>2, <3>4, <4>2
    <3>5. QED
      BY <3>3, <3>4
  <2>2. (IF Tail(q) = <<>> THEN Following(m) ELSE Following(Tail(q)[Len(Tail(q))]))
            = Following(q[Len(q)])
    <3>1. Len(Tail(q)) = 0 <=> Tail(q) = <<>>
      BY <1>q, LengthOf
    <3>2. CASE Tail(q) = <<>>
      <4>1. Len(q) = 1
        BY <3>1, <3>2, <1>q
      <4>2. QED
        BY <3>2, <4>1, <1>q
    <3>3. CASE Tail(q) # <<>>
      <4>1. Len(q) - 1 \in 1 .. Len(q) - 1 /\ (Len(q) - 1) + 1 = Len(q)
        BY <3>1, <3>3, <1>q
      <4>2. Tail(q)[Len(q) - 1] = q[Len(q)]
        BY <4>1, <1>q
      <4>3. QED
        BY <3>3, <4>2, <1>q
    <3>4. QED
      BY <3>2, <3>3
  <2>3. QED
    BY <2>1, <2>2, <1>i, <1>c, <1>e, <1>t, <1>x DEF InboxInv
<1>n. \A i \in 1 .. Len(Tail(q)) : i + 1 \in 1 .. Len(q) /\ Tail(q)[i] = q[i + 1]
  BY <1>q
<1>5. ASSUME sent.exited
      PROVE  After(p)'
  <2>1. After(p)
    BY <1>5 DEF IInv
  <2>2. OnlyStatements(p)'
    BY <1>n, <1>c, <2>1 DEF After, OnlyStatements, q
  <2>3. ASSUME ~ sent.late
        PROVE  OnlyDone(p)'
    <3>1. OnlyDone(p)
      BY <2>1, <2>3 DEF After
    <3>2. busy'[p] = NONE
      BY <1>x, <1>q, <3>1 DEF OnlyDone, q
    <3>3. \A i \in 1 .. Len(Tail(q)) : Tail(q)[i].kind = "command" =>
              Tail(q)[i].stmt \in {s \in Statements : s.op \notin Queries}
      BY <1>n, <3>1 DEF OnlyDone, q
    <3>4. \A i \in 1 .. Len(r \o Said(m)) : (r \o Said(m))[i].kind = "done"
      <4>1. \A i \in 1 .. Len(r) : r[i].kind = "done"
        BY <3>1 DEF OnlyDone, r
      <4>2. \A i \in 1 .. Len(Said(m)) : Said(m)[i].kind = "done"
        BY SaidIs
      <4>3. Len(Said(m)) \in Nat
        BY SaidIs, LengthOf
      <4>4. ASSUME NEW i \in 1 .. Len(r) + Len(Said(m))
            PROVE  \/ i \in 1 .. Len(r)
                   \/ i - Len(r) \in 1 .. Len(Said(m)) /\ i = Len(r) + (i - Len(r))
        BY <4>3, <1>r
      <4>5. QED
        BY <4>1, <4>2, <4>4, <1>r
    <3>5. QED
      BY <3>1, <3>2, <3>3, <3>4, <1>c, <1>x DEF OnlyDone
  <2>4. QED
    BY <2>2, <2>3, <1>x DEF After
<1>6. ASSUME ~ sent.exited
      PROVE  Before(p)'
  <2>1. expect # <<>>
    BY <1>6, <1>x DEF IInv, Before, Quiet, q
  <2>2. InStep(p) /\ stmt \in Statements /\ stmt # NONE
    BY <2>1, <1>6, StatementsAssumption DEF IInv, Before, ExpectInv
  <2>3. /\ \A i \in 1 .. Len(q) : q[i].kind = "command" => q[i].stmt = stmt
        /\ stmt.op # "exit" /\ (stmt.op # "insert" => sys[p].into = NONE)
        /\ Len(q) + ToSend(p) =< Parts(stmt)
    BY <2>2 DEF InStep, q
  <2>4. r = <<>> /\ ToCome(p) = Replies(stmt)
    <3>1. Len(q) + ToSend(p) > 0
      BY <1>q, <1>t
    <3>2. QED
      BY <2>2, <3>1 DEF InStep, q, r
  <2>5. \A i \in 1 .. Len(Tail(q)) : Tail(q)[i].kind = "command" => Tail(q)[i].stmt = stmt
    BY <1>n, <2>3
  <2>6. stmt.op # "insert" => sys'[p].into = NONE
    <3>1. ASSUME stmt.op # "insert"
          PROVE  sys'[p].into = NONE
      <4>1. m.kind = "command" /\ m.stmt = stmt
        BY <3>1, <2>3, <1>x, <1>q DEF Expected
      <4>2. Following(m) = "command"
        BY <3>1, <4>1 DEF Following
      <4>3. QED
        BY <4>2, <1>e DEF Expected
    <3>2. QED
      BY <3>1
  <2>k. m.kind = "command" \/ m.kind = "share"
    BY <1>x DEF Expected
  <2>7. Len(Tail(q)) + ToSend(p)' = Len(q) + ToSend(p) - 1 /\ Len(q) + ToSend(p) \in Nat \ {0}
    BY <1>q, <1>t
  <2>8. CASE Len(q) + ToSend(p) > 1
    <3>1. stmt.op = "insert" /\ Len(q) + ToSend(p) = 2
      BY <2>3, <2>7, <2>8 DEF Parts
    <3>2. m.kind = "command" /\ m.stmt = stmt
      <4>1. CASE ToSend(p) = 1
        <5>1. Len(q) = 1
          BY <4>1, <3>1, <1>q
        <5>2. Following(m) = "share"
          BY <5>1, <4>1, <3>1, <1>i, <1>q
        <5>3. QED
          BY <5>2, <1>s, <1>6 DEF Following
      <4>2. CASE ToSend(p) # 1
        <5>1. Len(q) = 2 /\ ToSend(p) = 0
          BY <4>2, <3>1, <1>q, <1>t
        <5>2. q[2].kind = Following(q[1]) /\ Following(q[2]) = "command"
          <6>1. 2 \in 1 .. Len(q) /\ 2 # 1 /\ 2 - 1 = 1
            BY <5>1
          <6>2. q[2].kind = Following(q[2 - 1])
            BY <6>1, <1>i
          <6>3. Following(q[2]) = "command"
            BY <5>1, <1>i
          <6>4. QED
            BY <6>1, <6>2, <6>3
        <5>3. q[2].kind = "command" => q[2].stmt.op = "insert"
          BY <5>1, <2>3, <3>1
        <5>4. q[2].kind # "command"
          BY <5>2, <5>3 DEF Following
        <5>5. Following(m) # "command"
          BY <5>2, <5>4, <1>q
        <5>6. QED
          BY <5>5, <1>s, <1>6 DEF Following
      <4>3. QED
        BY <4>1, <4>2
    <3>3. Said(m) = <<>> /\ r \o Said(m) = <<>>
      <4>1. Said(m) = <<>>
        BY <3>1, <3>2, SaidIs
      <4>2. QED
        BY <4>1, <2>4, EmptyConcat, ShortSeqs
    <3>4. busy'[p] = NONE
      BY <1>x, <3>1, <3>2 DEF Queries
    <3>p. Parts(stmt) = 2
      BY <3>1 DEF Parts
    <3>5. Len(Tail(q)) + ToSend(p)' = 1
      BY <3>1, <1>q, <1>t
    <3>6. InStep(p)'
      BY <2>3, <2>4, <2>5, <2>6, <3>3, <3>4, <3>5, <3>p, <1>c, <1>t, <1>x DEF InStep
    <3>7. QED
      BY <3>6, <2>1, <1>x DEF Before
  <2>9. CASE Len(q) + ToSend(p) = 1
    <3>1. Len(q) = 1 /\ ToSend(p) = 0
      BY <2>9, <1>q, <1>t
    <3>2. Following(m) = "command"
      BY <3>1, <1>i, <1>q
    <3>p. Parts(stmt) = 1 \/ Parts(stmt) = 2
      BY DEF Parts
    <3>3. Len(Tail(q)) + ToSend(p)' = 0
      BY <3>1, <1>q, <1>t
    <3>4. CASE stmt.op \in Queries
      <4>1. m.kind = "command" /\ m.stmt = stmt
        BY <3>4, <2>3, <1>x, <1>q DEF Expected, Queries
      <4>2. busy'[p] = stmt
        BY <4>1, <3>4, <1>x, <1>d
      <4>3. r \o Said(m) = <<>>
        BY <4>1, <3>4, <2>4, SaidIs, EmptyConcat, ShortSeqs
      <4>4. InStep(p)'
        <5>1. chan'[<<CLIENT, p>>] = Tail(q) /\ chan'[<<p, CLIENT>>] = <<>> /\ stmt' = stmt
          BY <4>3, <1>c, <1>x
        <5>2. ToCome(p)' = Replies(stmt) /\ 0 =< Parts(stmt)
          BY <2>4, <3>p, <1>t
        <5>3. QED
          BY <2>3, <2>5, <2>6, <3>3, <3>4, <4>2, <5>1, <5>2 DEF InStep
      <4>5. QED
        BY <4>4, <2>1, <1>x DEF Before
    <3>5. CASE stmt.op \notin Queries
      <4>1. Said(m) = <<DONE>>
        <5>1. CASE m.kind = "share"
          BY <5>1, SaidIs
        <5>2. CASE m.kind = "command"
          <6>1. m.stmt = stmt /\ stmt.op # "insert"
            BY <5>2, <3>2, <1>s, <1>6 DEF Following
          <6>2. QED
            BY <5>2, <6>1, <3>5, <2>3, SaidIs
        <5>3. QED
          BY <2>k, <5>1, <5>2
      <4>2. busy'[p] = NONE
        BY <3>5, <1>x, <1>s, <1>6
      <4>3. r \o Said(m) = <<DONE>>
        BY <4>1, <2>4, EmptyConcat, ShortSeqs
      <4>4. Len(<<DONE>>) = 1 /\ <<DONE>>[1].kind = "done"
        BY DEF DONE
      <4>5. Replies(stmt) = 1
        BY <3>5 DEF Replies
      <4> DEFINE a == <<DONE>>
      <4>6. Len(a) = 1 /\ \A i \in 1 .. Len(a) :
                a[i].kind = IF Len(a) + 1 - i = 2 THEN "rows" ELSE "done"
        <5>1. \A i \in 1 .. 1 : i = 1
          OBVIOUS
        <5> HIDE DEF a
        <5>2. Len(a) = 1 /\ a[1].kind = "done"
          BY <4>4 DEF a
        <5>3. QED
          BY <5>1, <5>2
      <4>7. chan'[<<p, CLIENT>>] = a /\ ToCome(p)' = Len(a)
        BY <4>3, <4>4, <4>5, <2>4, <1>c, <1>t
      <4> HIDE DEF a
      <4>8. InStep(p)'
        <5>1. chan'[<<CLIENT, p>>] = Tail(q) /\ stmt' = stmt /\ 0 =< Parts(stmt)
          BY <3>p, <1>c, <1>x
        <5>2. QED
          BY <2>3, <2>5, <2>6, <3>3, <4>2, <4>6, <4>7, <5>1 DEF InStep
      <4>9. QED
        BY <4>8, <2>1, <1>x DEF Before
    <3>6. QED
      BY <3>4, <3>5
  <2>10. QED
    BY <2>7, <2>8, <2>9
<1>7. ServerInv(p)'
  BY <1>4, <1>5, <1>6, <1>x DEF ServerInv
<1>8. QED
  BY <1>1, <1>2, <1>3, <1>7 DEF IInv, ServerInv

\* A server that works on a SELECT answers with rows, and that it is done.
LEMMA ServerAnswers ==
    ASSUME IInv, NEW p \in Servers, busy[p] # NONE, NEW x,
           chan'[<<p, CLIENT>>] = chan[<<p, CLIENT>>] \o <<Rows(x), DONE>>,
           chan'[<<CLIENT, p>>] = chan[<<CLIENT, p>>], busy'[p] = NONE,
           UNCHANGED <<sys, outbox, expect, sent, stmt>>
    PROVE  ServerInv(p)' /\ \E S : chan'[<<p, CLIENT>>] \in Seq(S)
<1> DEFINE q == chan[<<CLIENT, p>>]
           a == <<Rows(x), DONE>>
<1>t. ToSend(p)' = ToSend(p) /\ ToCome(p)' = ToCome(p)
  BY DEF ToSend, ToCome
<1>a. /\ \E S : a \in Seq(S)
      /\ Len(a) = 2 /\ a[1].kind = "rows" /\ a[2].kind = "done"
  BY ShortSeqs DEF Rows, DONE
<1> HIDE DEF a
<1>c. chan'[<<p, CLIENT>>] = chan[<<p, CLIENT>>] \o a
  BY DEF a
<1>s. \E S : chan'[<<p, CLIENT>>] \in Seq(S)
  <2> DEFINE r == chan[<<p, CLIENT>>]
  <2>1. \E S : r \in Seq(S)
    BY LinksOf DEF IInv, Shapes
  <2>2. \E S : a \in Seq(S)
    BY <1>a
  <2> HIDE DEF r
  <2>3. \E S : r \o a \in Seq(S)
    BY ONLY <2>1, <2>2, ConcatSeq
  <2>4. QED
    BY <2>3, <1>c DEF r
<1>i. InboxInv(p)'
  BY <1>t DEF IInv, InboxInv, Expected
<1>e. ASSUME sent.exited
      PROVE  After(p)'
  <2>1. After(p) /\ sent.late
    BY <1>e DEF IInv, After, OnlyDone
  <2>2. QED
    BY <2>1 DEF After, OnlyStatements
<1>b. ASSUME ~ sent.exited
      PROVE  Before(p)'
  <2>1. expect # <<>>
    BY <1>b DEF IInv, Before, Quiet
  <2>2. InStep(p)
    BY <1>b, <2>1 DEF IInv, Before
  <2>3. /\ \A i \in 1 .. Len(q) : q[i].kind = "command" => q[i].stmt = stmt
        /\ stmt.op # "exit" /\ (stmt.op # "insert" => sys[p].into = NONE)
        /\ Len(q) + ToSend(p) =< Parts(stmt)
    BY <2>2 DEF InStep
  <2>4. /\ Len(q) + ToSend(p) = 0 /\ stmt.op \in Queries
        /\ chan[<<p, CLIENT>>] = <<>> /\ ToCome(p) = Replies(stmt)
    BY <2>2 DEF InStep
  <2>5. chan'[<<p, CLIENT>>] = a
    <3>1. <<>> \o a = a
      BY <1>a, EmptyConcat
    <3>2. QED
      BY <3>1, <2>4, <1>c
  <2>6. \A i \in 1 .. Len(a) : a[i].kind = IF Len(a) + 1 - i = 2 THEN "rows" ELSE "done"
    <3>1. \A i \in 1 .. 2 : i = 1 \/ i = 2
      OBVIOUS
    <3>2. QED
      BY <3>1, <1>a
  <2>7. ToCome(p)' = Len(a)
    BY <1>a, <2>4, <1>t DEF Replies
  <2> HIDE DEF q
  <2>8. chan'[<<CLIENT, p>>] = q /\ Len(q) + ToSend(p)' = 0
    BY <2>4, <1>t DEF q
  <2>9. InStep(p)'
    BY <2>3, <2>5, <2>6, <2>7, <2>8, <1>t DEF InStep
  <2>10. QED
    BY <2>1, <2>9 DEF Before
<1>q. QED
  BY <1>s, <1>i, <1>e, <1>b DEF ServerInv

\* A server sends its shares of a table as they are.
LEMMA SelectTableStep ==
    ASSUME IInv, NEW p \in Servers, serverSelectTable(p)
    PROVE  IInv'
<1>1. PICK x : chan' = [chan EXCEPT ![<<p, CLIENT>>] = @ \o <<Rows(x), DONE>>]
  BY DEF serverSelectTable
<1>2. /\ busy[p] # NONE /\ busy' = [busy EXCEPT ![p] = NONE]
      /\ UNCHANGED <<sys, outbox, expect, sent, todo, opening, stmt>>
  BY DEF serverSelectTable, userVars
<1>d. /\ DOMAIN chan = Links /\ busy \in [Servers -> Statements \union {NONE}]
      /\ <<p, CLIENT>> \in Links /\ <<CLIENT, p>> \in Links /\ <<p, CLIENT>> # <<CLIENT, p>>
  BY LinksOf DEF IInv, Shapes
<1>c. /\ DOMAIN chan' = Links
      /\ chan'[<<p, CLIENT>>] = chan[<<p, CLIENT>>] \o <<Rows(x), DONE>>
      /\ \A l \in Links : l # <<p, CLIENT>> => chan'[l] = chan[l]
  BY <1>1, <1>d
<1>b. busy' \in [Servers -> Statements \union {NONE}] /\ busy'[p] = NONE
  BY <1>2, <1>d
<1>3. ServerInv(p)' /\ \E S : chan'[<<p, CLIENT>>] \in Seq(S)
  BY <1>2, <1>b, <1>c, <1>d, ServerAnswers
<1>4. Shapes'
  <2>1. \A l \in Links : \E S : chan'[l] \in Seq(S)
    BY <1>c, <1>3 DEF IInv, Shapes
  <2>2. QED
    BY <2>1, <1>2, <1>b, <1>c DEF IInv, Shapes
<1>5. OutboxInv' /\ ExpectInv'
  BY <1>2 DEF IInv, OutboxInv, ExpectInv
<1>6. ASSUME NEW o \in Servers \ {p}
      PROVE  ServerInv(o)'
  <2>1. /\ <<CLIENT, o>> \in Links /\ <<o, CLIENT>> \in Links
        /\ <<CLIENT, o>> # <<p, CLIENT>> /\ <<o, CLIENT>> # <<p, CLIENT>>
    BY LinksOf
  <2>2. chan'[<<CLIENT, o>>] = chan[<<CLIENT, o>>] /\ chan'[<<o, CLIENT>>] = chan[<<o, CLIENT>>]
    BY <2>1, <1>c
  <2>3. UNCHANGED <<Side(o), Ahead(o), sent, expect = <<>>>>
    BY <2>2, <1>2 DEF Side, Ahead, ToSend, ToCome
  <2>4. QED
    BY <2>3, UntouchedServer DEF IInv, ServerInv
<1>7. QED
  BY <1>3, <1>4, <1>5, <1>6 DEF IInv, ServerInv

\* The servers sort or join together and send the result.
LEMMA SelectStep ==
    ASSUME IInv, serverSelect
    PROVE  IInv'
<1>1. PICK x : chan' = [l \in Links |->
                  IF l[2] = CLIENT THEN chan[l] \o <<Rows(x), DONE>> ELSE chan[l]]
  BY DEF serverSelect
<1>2. /\ busy[0] # NONE /\ busy[0] = busy[1] /\ busy' = [p \in Servers |-> NONE]
      /\ UNCHANGED <<sys, outbox, expect, sent, todo, opening, stmt>>
  BY DEF serverSelect, userVars
<1>c. ASSUME NEW p \in Servers
      PROVE  /\ <<p, CLIENT>> \in Links /\ <<CLIENT, p>> \in Links
             /\ chan'[<<p, CLIENT>>] = chan[<<p, CLIENT>>] \o <<Rows(x), DONE>>
             /\ chan'[<<CLIENT, p>>] = chan[<<CLIENT, p>>]
  <2>1. <<p, CLIENT>>[2] = CLIENT /\ <<CLIENT, p>>[2] # CLIENT
    BY LinksOf
  <2>2. <<p, CLIENT>> \in Links /\ <<CLIENT, p>> \in Links
    BY LinksOf
  <2>3. QED
    BY <2>1, <2>2, <1>1
<1>3. ASSUME NEW p \in Servers
      PROVE  ServerInv(p)' /\ \E S : chan'[<<p, CLIENT>>] \in Seq(S)
  <2>1. busy[p] # NONE /\ busy'[p] = NONE
    BY <1>2 DEF Servers
  <2>2. QED
    BY <2>1, <1>2, <1>c, ServerAnswers
<1>4. Shapes'
  <2>1. ASSUME NEW l \in Links
        PROVE  \E S : chan'[l] \in Seq(S)
    <3>1. PICK p \in Servers : l = <<p, CLIENT>> \/ l = <<CLIENT, p>>
      BY DEF Links
    <3>2. CASE l = <<p, CLIENT>>
      BY <3>2, <1>3
    <3>3. CASE l = <<CLIENT, p>>
      BY <3>3, <1>c DEF IInv, Shapes
    <3>4. QED
      BY <3>1, <3>2, <3>3
  <2>2. DOMAIN chan' = Links /\ busy' \in [Servers -> Statements \union {NONE}]
    BY <1>1, <1>2
  <2>3. QED
    BY <2>1, <2>2, <1>2 DEF IInv, Shapes
<1>5. OutboxInv' /\ ExpectInv'
  BY <1>2 DEF IInv, OutboxInv, ExpectInv
<1>6. QED
  BY <1>3, <1>4, <1>5 DEF IInv, ServerInv

-----------------------------------------------------------------------------
(* The invariant *)

LEMMA NextKeepsIInv == IInv /\ [Next]_vars => IInv'
<1> SUFFICES ASSUME IInv, [Next]_vars PROVE IInv'
  OBVIOUS
<1>1. CASE UNCHANGED vars
  <2>1. UNCHANGED <<sys, busy, chan, outbox, expect, sent, todo, opening, stmt>>
    BY <1>1 DEF vars
  <2>2. Shapes' /\ OutboxInv' /\ ExpectInv'
    BY <2>1 DEF IInv, Shapes, OutboxInv, ExpectInv
  <2>3. ASSUME NEW p \in Servers
        PROVE  ServerInv(p)'
    <3>1. UNCHANGED <<Side(p), Ahead(p), sent, expect = <<>>>>
      BY <2>1 DEF Side, Ahead, ToSend, ToCome
    <3>2. QED
      BY <3>1, UntouchedServer DEF IInv, ServerInv
  <2>4. QED
    BY <2>2, <2>3 DEF IInv, ServerInv
<1>2. QED
  BY <1>1, ReadCommandStep, RefuseStep, ExecuteStep, SendStep, ReceiveStep,
     ServerReceivesStep, SelectTableStep, SelectStep DEF Next

\* Whatever is typed, and however the three processes interleave, the invariant holds.
THEOREM Invariance == Spec => []IInv
  BY InitHolds, NextKeepsIInv, PTL DEF Spec

\* Until somebody selects after an exit the client takes rows for rows, "done" for "done".
LEMMA AnswersInOrder ==
    ASSUME IInv, ~ sent.late, outbox = <<>>, expect # <<>>, chan[<<Head(expect)[1], CLIENT>>] # <<>>
    PROVE  Head(chan[<<Head(expect)[1], CLIENT>>]).kind = Head(expect)[2]
<1>p. PICK from : from = Turn(Len(expect))
  OBVIOUS
<1> DEFINE E == Len(expect)
           r == chan[<<from, CLIENT>>]
<1>l. E \in 1 .. 4 /\ stmt \in Statements
  <2>1. E \in Nat /\ E # 0
    BY LengthOf DEF IInv, Shapes
  <2>2. E =< 2 * Replies(stmt) /\ stmt \in Statements
    BY DEF IInv, ExpectInv
  <2>3. Replies(stmt) = 1 \/ Replies(stmt) = 2
    BY DEF Replies
  <2> HIDE DEF E
  <2>4. QED
    BY <2>1, <2>2, <2>3
<1>h. Head(expect) = <<from, IF E >= 3 THEN "rows" ELSE "done">>
  <2>1. Head(expect) = expect[1] /\ 1 \in 1 .. E
    <3>1. \E S : expect \in Seq(S)
      BY DEF IInv, Shapes
    <3>2. QED
      BY <3>1, <1>l, TailSeq
  <2>2. expect[1] = <<Turn(E + 1 - 1), IF E + 1 - 1 >= 3 THEN "rows" ELSE "done">>
    BY <2>1 DEF IInv, ExpectInv
  <2>3. E + 1 - 1 = E
    BY <1>l
  <2>4. QED
    BY <2>1, <2>2, <2>3, <1>p
<1>t. from \in Servers /\ ToCome(from) \in 1 .. 2 /\ (ToCome(from) = 1 <=> E =< 2)
  BY <1>l, <1>p, TurnTaken DEF ToCome
<1>r. r # <<>> /\ Len(r) \in Nat /\ Len(r) # 0 /\ Head(r) = r[1] /\ 1 \in 1 .. Len(r)
  <2>1. r # <<>>
    BY <1>h
  <2>2. \E S : r \in Seq(S)
    BY <1>t, LinksOf DEF IInv, Shapes
  <2> HIDE DEF r
  <2>3. Len(r) \in Nat \ {0} /\ Head(r) = r[1]
    BY <2>1, <2>2, TailSeq
  <2>4. QED
    BY <2>1, <2>3
<1>1. CASE sent.exited
  <2>1. OnlyDone(from)
    BY <1>1, <1>t DEF IInv, After
  <2>2. r[1].kind = "done"
    BY <2>1, <1>r DEF OnlyDone
  <2>3. E =< 2
    <3>1. Replies(stmt) = 1
      BY <2>1 DEF OnlyDone, Replies
    <3>2. E =< 2 * Replies(stmt)
      BY DEF IInv, ExpectInv
    <3> HIDE DEF E
    <3>3. QED
      BY <3>1, <3>2, <1>l
  <2>4. QED
    BY <2>2, <2>3, <1>h, <1>l, <1>r
<1>2. CASE ~ sent.exited
  <2>1. InStep(from)
    BY <1>2, <1>t DEF IInv, Before
  <2>2. /\ Len(r) = ToCome(from)
        /\ \A i \in 1 .. Len(r) : r[i].kind = IF Len(r) + 1 - i = 2 THEN "rows" ELSE "done"
    BY <2>1, <1>r DEF InStep
  <2>3. r[1].kind = IF Len(r) + 1 - 1 = 2 THEN "rows" ELSE "done"
    BY <2>2, <1>r
  <2>4. Len(r) + 1 - 1 = ToCome(from)
    BY <2>2, <1>r
  <2>5. r[1].kind = IF ToCome(from) = 2 THEN "rows" ELSE "done"
    BY <2>3, <2>4
  <2>6. ToCome(from) = 2 <=> E >= 3
    <3> DEFINE k == ToCome(from)
    <3>1. k \in 1 .. 2 /\ (k = 1 <=> E =< 2)
      BY <1>t
    <3> HIDE DEF E, k
    <3>2. k = 2 <=> E >= 3
      BY <3>1, <1>l
    <3>3. QED
      BY <3>2 DEF k
  <2>7. QED
    BY <2>5, <2>6, <1>h, <1>r
<1>3. QED
  BY <1>1, <1>2

\* Everything between the client and the servers has tag 0, so that only the order tells
\* commands, shares, rows and "done" apart.  Whatever is typed, each receive of a server
\* finds the kind it waits for, and so does each of the client until somebody selects
\* after an exit (notifyServersSync, serverInsert, clientSelect).
THEOREM ReadInStepHolds == Spec => []ReadInStep
<1>1. IInv => ReadInStep
  <2> SUFFICES ASSUME IInv PROVE ReadInStep
    OBVIOUS
  <2>1. ASSUME NEW p \in Servers, chan[<<CLIENT, p>>] # <<>>
        PROVE  Head(chan[<<CLIENT, p>>]).kind = Expected(p)
    <3> DEFINE q == chan[<<CLIENT, p>>]
    <3>1. \E S : q \in Seq(S)
      BY LinksOf DEF IInv, Shapes
    <3>2. \A i \in 1 .. Len(q) : q[i].kind = IF i = 1 THEN Expected(p) ELSE Following(q[i - 1])
      BY DEF IInv, InboxInv
    <3> HIDE DEF q
    <3>3. Len(q) \in Nat \ {0} /\ Head(q) = q[1]
      BY <2>1, <3>1, TailSeq DEF q
    <3>4. Head(q).kind = Expected(p)
      BY <3>2, <3>3
    <3>5. QED
      BY <3>4 DEF q
  <2>2. QED
    BY <2>1, AnswersInOrder DEF ReadInStep, ClientReads, ServerReads
<1>2. QED
  BY <1>1, Invariance, PTL

-----------------------------------------------------------------------------
(* What a server makes of the messages under way to it *)

\* f serves the messages of q at each set of places, from b on, the last place last: what
\* FoldLeft stands for.
FoldsTo(p, b, q, f, n) ==
   f = [s \in SUBSET (1 .. n) |->
          IF s = {} THEN b ELSE Takes(p, f[s \ {Max(s)}], q[Max(s)])]

\* A set of numbers has a least one: what the induction on the number of messages rests on.
LEMMA Least ==
    ASSUME NEW T, T \subseteq Nat, T # {}
    PROVE  \E x \in T : \A y \in T : x =< y
<1>1. PICK n \in T : TRUE
  OBVIOUS
<1> DEFINE S == 0 .. n
           Segments == {0 .. k : k \in T \cap S}
<1>2. IsWellFoundedOn(StrictSubsetOrdering(S), FiniteSubsetsOf(S))
  BY FS_StrictSubsetOrderingWellFounded
<1>3. Segments \subseteq FiniteSubsetsOf(S) /\ Segments # {}
  <2>1. ASSUME NEW k \in T \cap S PROVE 0 .. k \in FiniteSubsetsOf(S)
    <3>1. IsFiniteSet(0 .. k)
      BY FS_Interval
    <3>2. QED
      BY <3>1 DEF FiniteSubsetsOf
  <2>2. 0 .. n \in Segments
    BY <1>1
  <2>3. QED
    BY <2>1, <2>2
<1>4. \E X \in Segments : \A Y \in Segments : ~ (<<Y, X>> \in StrictSubsetOrdering(S))
  <2> HIDE DEF Segments, S
  <2>1. QED
    BY <1>2, <1>3, WFMin
<1>5. PICK x \in T \cap S : \A y \in T \cap S : ~ (<<0 .. y, 0 .. x>> \in StrictSubsetOrdering(S))
  BY <1>4
<1>6. ASSUME NEW y \in T, y < x PROVE FALSE
  <2>1. y \in S /\ 0 .. y \subseteq 0 .. x /\ x \in 0 .. x /\ x \notin 0 .. y
    BY <1>6
  <2>2. 0 .. y \subseteq S /\ 0 .. x \subseteq S
    BY <2>1
  <2>3. <<0 .. y, 0 .. x>> \in StrictSubsetOrdering(S)
    BY <2>1, <2>2 DEF StrictSubsetOrdering
  <2>4. QED
    BY <2>1, <2>3, <1>5
<1>7. QED
  BY <1>6

\* The last place of a set that has it is the greatest.
LEMMA MaxTop ==
    ASSUME NEW n \in Nat, NEW s \in SUBSET (1 .. n + 1), n + 1 \in s
    PROVE  Max(s) = n + 1
<1>1. n + 1 \in s /\ \A y \in s : n + 1 >= y
  OBVIOUS
<1>2. Max(s) \in s /\ \A y \in s : Max(s) >= y
  BY <1>1 DEF Max
<1>3. ASSUME NEW x \in s, x >= n + 1 PROVE x = n + 1
  <2>1. x \in Int /\ x =< n + 1
    OBVIOUS
  <2>2. QED
    BY <1>3, <2>1
<1>4. QED
  BY <1>1, <1>2, <1>3

\* Without its last place a segment is the segment before.
LEMMA MaxSegment ==
    ASSUME NEW n \in Nat
    PROVE  /\ Max(1 .. n + 1) = n + 1
         /\ (1 .. n + 1) \ {n + 1} = 1 .. n
         /\ 1 .. n + 1 # {}
  BY MaxTop

\* There is such a function, by one place more at a time.
LEMMA FoldExists ==
    ASSUME NEW p, NEW b, NEW q, NEW n \in Nat
    PROVE  \E f : FoldsTo(p, b, q, f, n)
<1> DEFINE T == {k \in Nat : ~ \E f : FoldsTo(p, b, q, f, k)}
<1>1. SUFFICES ASSUME T # {} PROVE FALSE
  OBVIOUS
<1>2. PICK k \in T : \A y \in T : k =< y
  BY <1>1, Least
<1>3. k # 0
  <2>1. FoldsTo(p, b, q, [s \in SUBSET (1 .. 0) |-> b], 0)
     BY DEF FoldsTo
  <2>2. QED
     BY <2>1
<1>4. k \in Nat /\ k - 1 \in Nat /\ ~(k =< k - 1)
  BY <1>3
<1>5. PICK f : FoldsTo(p, b, q, f, k - 1)
  <2> HIDE DEF T
  <2>1. k - 1 \notin T
    BY <1>2, <1>4
  <2>2. QED BY <2>1, <1>4 DEF T
<1> DEFINE m == k - 1
           g == [s \in SUBSET (1 .. k) |->
                   IF k \in s THEN Takes(p, f[s \ {k}], q[k]) ELSE f[s]]
<1>6. FoldsTo(p, b, q, g, k)
  <2>1. ASSUME NEW s \in SUBSET (1 .. k)
        PROVE  g[s] = IF s = {} THEN b ELSE Takes(p, g[s \ {Max(s)}], q[Max(s)])
    <3>1. CASE k \in s
      <4>1. Max(s) = k
        BY <3>1, <1>4, MaxTop, m + 1 = k
      <4>2. g[s] = Takes(p, f[s \ {k}], q[k])
        BY <3>1
      <4>3. s \ {k} \in SUBSET (1 .. k) /\ k \notin s \ {k}
        OBVIOUS
      <4>4. g[s \ {k}] = f[s \ {k}]
        BY <4>3
      <4>5. s # {}
        BY <3>1
      <4>6. QED
        BY <4>1, <4>2, <4>4, <4>5
    <3>2. CASE k \notin s
      <4>1. s \in SUBSET (1 .. m)
        BY <3>2, <1>4
      <4>2. f[s] = IF s = {} THEN b ELSE Takes(p, f[s \ {Max(s)}], q[Max(s)])
        BY <4>1, <1>5 DEF FoldsTo
      <4>3. s \ {Max(s)} \in SUBSET (1 .. k) /\ k \notin s \ {Max(s)}
        BY <3>2
      <4>4. g[s] = f[s] /\ g[s \ {Max(s)}] = f[s \ {Max(s)}]
        BY <4>3, <3>2
      <4>5. QED
        BY <4>2, <4>4
    <3>3. QED
      BY <3>1, <3>2
  <2> HIDE DEF g
  <2>2. g = [s \in SUBSET (1 .. k) |-> g[s]]
    BY DEF g
  <2>3. QED
    BY <2>1, <2>2 DEF FoldsTo
<1>7. QED
  BY <1>6

\* On segments it serves one message after the other.
LEMMA FoldSegments ==
    ASSUME NEW p, NEW b, NEW q, NEW n \in Nat, NEW f, FoldsTo(p, b, q, f, n)
    PROVE  /\ f[1 .. 0] = b
         /\ \A k \in 0 .. n - 1 : f[1 .. k + 1] = Takes(p, f[1 .. k], q[k + 1])
<1>1. f[1 .. 0] = b
  <2>1. 1 .. 0 = {} /\ 1 .. 0 \in SUBSET (1 .. n)
    OBVIOUS
  <2>2. QED
    BY <2>1 DEF FoldsTo
<1>2. ASSUME NEW k \in 0 .. n - 1
      PROVE  f[1 .. k + 1] = Takes(p, f[1 .. k], q[k + 1])
  <2>1. k \in Nat /\ 1 .. k + 1 \in SUBSET (1 .. n)
    OBVIOUS
  <2> DEFINE s == 1 .. k + 1
  <2>2. s # {} /\ Max(s) = k + 1 /\ s \ {k + 1} = 1 .. k
    BY <2>1, MaxSegment
  <2>3. f[s] = IF s = {} THEN b ELSE Takes(p, f[s \ {Max(s)}], q[Max(s)])
    BY <2>1 DEF FoldsTo
  <2>4. QED
    BY <2>2, <2>3
<1>3. QED
  BY <1>1, <1>2

\* Serving q from b on: f[k] is what the first k messages leave.
Runs(p, b, q, f) ==
    f[0] = b /\ \A k \in 0 .. Len(q) - 1 : f[k + 1] = Takes(p, f[k], q[k + 1])

\* Served is what is left after the last message.
LEMMA FoldIs ==
    ASSUME NEW p, NEW b, NEW q, \E S : q \in Seq(S)
    PROVE  \E f : Runs(p, b, q, f) /\ Served(p, b, q) = f[Len(q)]
<1> DEFINE n == Len(q)
           t == CHOOSE f : FoldsTo(p, b, q, f, n)
           f == [k \in 0 .. n |-> t[1 .. k]]
<1>1. n \in Nat /\ DOMAIN q = 1 .. n
  OBVIOUS
<1>2. FoldsTo(p, b, q, t, n)
  BY <1>1, FoldExists
<1>3. Served(p, b, q) = t[1 .. n]
  BY <1>1, Zenon DEF Served, FoldLeft, MapThenFoldSet, FoldsTo
<1> HIDE DEF t
<1>4. f[0] = b /\ \A k \in 0 .. n - 1 : f[k + 1] = Takes(p, f[k], q[k + 1])
  <2>1. /\ t[1 .. 0] = b
        /\ \A k \in 0 .. n - 1 : t[1 .. k + 1] = Takes(p, t[1 .. k], q[k + 1])
    BY <1>1, <1>2, FoldSegments
  <2>2. 0 \in 0 .. n /\ \A k \in 0 .. n - 1 : k \in 0 .. n /\ k + 1 \in 0 .. n
    BY <1>1
  <2>3. QED
    BY <2>1, <2>2, <1>1
<1>5. f[n] = t[1 .. n]
  BY <1>1
<1> HIDE DEF f
<1>6. QED
  BY <1>3, <1>4, <1>5 DEF Runs

\* There is one way to serve the messages one after the other.
LEMMA FoldUnique ==
    ASSUME NEW p, NEW b, NEW q, Len(q) \in Nat,
           NEW f, NEW g, Runs(p, b, q, f), Runs(p, b, q, g)
    PROVE  f[Len(q)] = g[Len(q)]
<1> DEFINE T == {k \in 0 .. Len(q) : f[k] # g[k]}
<1>1. SUFFICES ASSUME T # {} PROVE FALSE
  OBVIOUS
<1>2. PICK k \in T : \A j \in T : k =< j
  <2>1. T \subseteq Nat
    OBVIOUS
  <2> HIDE DEF T
  <2>2. QED
    BY <1>1, <2>1, Least
<1>3. k \in 0 .. Len(q) /\ f[k] # g[k] /\ k # 0
  BY DEF Runs
<1>4. k - 1 \in 0 .. Len(q) - 1 /\ k - 1 + 1 = k /\ k - 1 \in 0 .. Len(q) /\ ~(k =< k - 1)
  BY <1>3
<1>5. f[k - 1] = g[k - 1]
  BY <1>2, <1>4
<1> HIDE DEF T
<1>6. f[k] = Takes(p, f[k - 1], q[k]) /\ g[k] = Takes(p, g[k - 1], q[k])
  BY <1>4 DEF Runs
<1>7. QED
  BY <1>3, <1>5, <1>6

\* Nothing to serve.
LEMMA ServedNone ==
    ASSUME NEW p, NEW b
    PROVE  Served(p, b, <<>>) = b
<1>1. \E S : <<>> \in Seq(S)
  BY ShortSeqs
<1> DEFINE e == <<>>
<1>2. Len(e) = 0
  OBVIOUS
<1> HIDE DEF e
<1>3. PICK f : Runs(p, b, e, f) /\ Served(p, b, e) = f[Len(e)]
  BY <1>1, FoldIs DEF e
<1>4. Served(p, b, e) = b
  BY <1>2, <1>3 DEF Runs
<1>5. QED
  BY <1>4 DEF e

\* One message to serve.
LEMMA ServedOne ==
    ASSUME NEW p, NEW b, NEW m
    PROVE  Served(p, b, <<m>>) = Takes(p, b, m)
<1>1. \E S : <<m>> \in Seq(S)
  BY ShortSeqs
<1>2. Len(<<m>>) = 1 /\ <<m>>[1] = m
  OBVIOUS
<1>3. PICK f : Runs(p, b, <<m>>, f) /\ Served(p, b, <<m>>) = f[Len(<<m>>)]
  BY <1>1, FoldIs
<1>4. 0 \in 0 .. Len(<<m>>) - 1 /\ 0 + 1 = 1
  BY <1>2
<1>5. f[0] = b /\ f[0 + 1] = Takes(p, f[0], <<m>>[0 + 1])
  BY <1>3, <1>4 DEF Runs
<1>6. QED
  BY <1>2, <1>3, <1>5

\* First some messages, then the others.
LEMMA ServedSplit ==
    ASSUME NEW p, NEW b, NEW q, NEW r, \E S : q \in Seq(S), \E S : r \in Seq(S)
    PROVE  Served(p, b, q \o r) = Served(p, Served(p, b, q), r)
<1> DEFINE m == Len(q)
           n == Len(r)
           c == Served(p, b, q)
<1>s. /\ \E S : q \o r \in Seq(S)
      /\ m \in Nat /\ n \in Nat /\ Len(q \o r) = m + n
      /\ \A i \in 1 .. m : (q \o r)[i] = q[i]
      /\ \A i \in 1 .. n : (q \o r)[m + i] = r[i]
  BY ConcatSeq
<1>1. PICK f : Runs(p, b, q \o r, f) /\ Served(p, b, q \o r) = f[Len(q \o r)]
  <2> DEFINE u == q \o r
  <2>1. \E S : u \in Seq(S)
    BY <1>s
  <2> HIDE DEF u
  <2>2. \E f : Runs(p, b, u, f) /\ Served(p, b, u) = f[Len(u)]
    BY <2>1, FoldIs
  <2>3. QED
    BY <2>2 DEF u
<1>2. PICK g : Runs(p, b, q, g) /\ c = g[Len(q)]
  BY FoldIs
<1>3. PICK h : Runs(p, c, r, h) /\ Served(p, c, r) = h[Len(r)]
  BY FoldIs
<1> HIDE DEF m, n, c
<1>4. f[m] = c
  <2>1. \A k \in 0 .. Len(q) - 1 : f[k + 1] = Takes(p, f[k], q[k + 1])
    <3>1. ASSUME NEW k \in 0 .. Len(q) - 1
          PROVE  f[k + 1] = Takes(p, f[k], q[k + 1])
      <4>1. k \in 0 .. Len(q \o r) - 1 /\ k + 1 \in 1 .. m
        BY <1>s DEF m
      <4>2. QED
        BY <4>1, <1>1, <1>s DEF Runs
    <3>2. QED
      BY <3>1
  <2>2. Runs(p, b, q, f) /\ Len(q) \in Nat
    BY <2>1, <1>1, <1>s DEF m, Runs
  <2>3. f[Len(q)] = g[Len(q)]
    BY <2>2, <1>2, FoldUnique
  <2>4. QED
    BY <2>3, <1>2 DEF m
<1>5. f[m + n] = h[n]
  <2> DEFINE e == [k \in 0 .. n |-> f[m + k]]
  <2>1. \A k \in 0 .. Len(r) - 1 : e[k + 1] = Takes(p, e[k], r[k + 1])
    <3>1. ASSUME NEW k \in 0 .. Len(r) - 1
          PROVE  e[k + 1] = Takes(p, e[k], r[k + 1])
      <4>1. m + k \in 0 .. Len(q \o r) - 1 /\ k + 1 \in 1 .. n /\ m + k + 1 = m + (k + 1)
        BY <1>s DEF n
      <4>2. f[m + k + 1] = Takes(p, f[m + k], (q \o r)[m + k + 1])
        BY <4>1, <1>1 DEF Runs
      <4>3. (q \o r)[m + (k + 1)] = r[k + 1]
        BY <4>1, <1>s
      <4>4. e[k] = f[m + k] /\ e[k + 1] = f[m + (k + 1)]
        BY <1>s DEF n
      <4>5. QED
        BY <4>1, <4>2, <4>3, <4>4
    <3>2. QED
      BY <3>1
  <2>2. e[0] = f[m] /\ e[n] = f[m + n] /\ n \in Nat
    BY <1>s
  <2> HIDE DEF e
  <2>3. Runs(p, c, r, e) /\ Len(r) \in Nat
    BY <2>1, <2>2, <1>4 DEF n, Runs
  <2>4. e[Len(r)] = h[Len(r)]
    BY <2>3, <1>3, FoldUnique
  <2>5. QED
    BY <2>2, <2>4 DEF n
<1>6. QED
  BY <1>1, <1>3, <1>5, <1>s DEF n, c

\* What is on its way to a server, with its address.
Addressed(p, q) == [i \in 1 .. Len(q) |-> <<p, q[i]>>]

\* Two sequences with the same elements are one.
LEMMA SameSeq ==
    ASSUME NEW q, NEW r, \E S : q \in Seq(S), \E S : r \in Seq(S), Len(q) = Len(r),
           \A i \in 1 .. Len(q) : q[i] = r[i]
    PROVE  q = r
<1>1. PICK S : q \in Seq(S)
  OBVIOUS
<1>2. PICK T : r \in Seq(T)
  OBVIOUS
<1>3. q \in Seq(S \union T) /\ r \in Seq(S \union T)
  BY <1>1, <1>2
<1>4. QED
  BY <1>3

\* The addressed messages are as many, in the same order.
LEMMA AddressedSeq ==
    ASSUME NEW p, NEW q, \E S : q \in Seq(S)
    PROVE  /\ \E S : Addressed(p, q) \in Seq(S)
           /\ Len(Addressed(p, q)) = Len(q)
           /\ \A i \in 1 .. Len(q) : Addressed(p, q)[i] = <<p, q[i]>>
<1>1. PICK S : q \in Seq(S)
  OBVIOUS
<1>2. Len(q) \in Nat /\ \A i \in 1 .. Len(q) : <<p, q[i]>> \in {p} \X S
  BY <1>1
<1>3. Addressed(p, q) \in [1 .. Len(q) -> {p} \X S]
  BY <1>2 DEF Addressed
<1>4. Addressed(p, q) \in Seq({p} \X S)
  BY <1>2, <1>3
<1>5. Len(Addressed(p, q)) = Len(q)
  BY <1>2, <1>3
<1>6. QED
  BY <1>4, <1>5 DEF Addressed

\* A message more at the end.
LEMMA AddressedAppend ==
    ASSUME NEW p, NEW q, NEW m, \E S : q \in Seq(S)
    PROVE  Addressed(p, Append(q, m)) = Addressed(p, q) \o << <<p, m>> >>
<1> DEFINE e == <<p, m>>
           a == Addressed(p, q)
           n == Len(q)
           l == Addressed(p, Append(q, m))
<1>1. /\ \E S : Append(q, m) \in Seq(S)
      /\ n \in Nat /\ Len(Append(q, m)) = n + 1
      /\ \A i \in 1 .. n : Append(q, m)[i] = q[i]
      /\ Append(q, m)[n + 1] = m
  BY AppendSeq
<1>2. (\E S : a \in Seq(S)) /\ Len(a) = n /\ \A i \in 1 .. n : a[i] = <<p, q[i]>>
  BY AddressedSeq
<1>3. /\ \E S : l \in Seq(S)
      /\ Len(l) = n + 1
      /\ \A i \in 1 .. n + 1 : l[i] = <<p, Append(q, m)[i]>>
  <2> DEFINE r == Append(q, m)
  <2>1. (\E S : r \in Seq(S)) /\ Len(r) = n + 1
    BY <1>1
  <2> HIDE DEF r, n
  <2>2. /\ \E S : Addressed(p, r) \in Seq(S)
        /\ Len(Addressed(p, r)) = Len(r)
        /\ \A i \in 1 .. Len(r) : Addressed(p, r)[i] = <<p, r[i]>>
    BY <2>1, AddressedSeq
  <2>3. QED
    BY <2>1, <2>2 DEF r
<1>4. \E S : <<e>> \in Seq(S)
  BY ShortSeqs
<1> HIDE DEF e, a, n, l
<1>5. /\ \E S : a \o <<e>> \in Seq(S)
      /\ Len(a \o <<e>>) = n + 1
      /\ \A i \in 1 .. n : (a \o <<e>>)[i] = a[i]
      /\ (a \o <<e>>)[n + 1] = e
  <2>1. Len(<<e>>) = 1 /\ <<e>>[1] = e /\ 1 \in 1 .. 1
    OBVIOUS
  <2> DEFINE u == <<e>>
  <2> HIDE DEF u
  <2>2. /\ \E S : a \o u \in Seq(S)
        /\ Len(a) \in Nat /\ Len(u) \in Nat /\ Len(a \o u) = Len(a) + Len(u)
        /\ \A i \in 1 .. Len(a) : (a \o u)[i] = a[i]
        /\ \A i \in 1 .. Len(u) : (a \o u)[Len(a) + i] = u[i]
    <3>1. (\E S : u \in Seq(S)) /\ \E S : a \in Seq(S)
      BY <1>2, <1>4 DEF u
    <3>2. QED
      BY <3>1, ConcatSeq
  <2>3. Len(u) = 1 /\ u[1] = e
    BY <2>1 DEF u
  <2>4. (a \o u)[n + 1] = e
    BY <2>2, <2>3, <1>2
  <2>5. QED
    BY <2>2, <2>3, <2>4, <1>2 DEF u
<1>6. \A i \in 1 .. n + 1 : l[i] = (a \o <<e>>)[i]
  <2>1. ASSUME NEW i \in 1 .. n PROVE l[i] = (a \o <<e>>)[i]
    <3>1. i \in 1 .. n + 1
      BY <1>1
    <3>2. l[i] = <<p, Append(q, m)[i]>>
      BY <1>3, <3>1
    <3>3. Append(q, m)[i] = q[i] /\ a[i] = <<p, q[i]>>
      BY <1>1, <1>2
    <3>4. (a \o <<e>>)[i] = a[i]
      BY <1>5
    <3>5. QED
      BY <3>2, <3>3, <3>4
  <2>2. l[n + 1] = e
    BY <1>1, <1>3 DEF e
  <2>3. ASSUME NEW i \in 1 .. n + 1 PROVE i \in 1 .. n \/ i = n + 1
    BY <1>1
  <2>4. QED
    BY <2>1, <2>2, <2>3, <1>5
<1>7. l = a \o <<e>>
  BY <1>3, <1>5, <1>6, SameSeq
<1>8. QED
  BY <1>7 DEF l, a, e

\* A sequence is its head before the rest.
LEMMA HeadFirst ==
    ASSUME NEW q, \E S : q \in Seq(S), q # <<>>
    PROVE  q = <<Head(q)>> \o Tail(q)
<1>1. PICK S : q \in Seq(S)
  OBVIOUS
<1>2. QED
  BY <1>1

\* The first message goes.
LEMMA AddressedTail ==
    ASSUME NEW p, NEW q, \E S : q \in Seq(S), q # <<>>
    PROVE  Addressed(p, q) = << <<p, Head(q)>> >> \o Addressed(p, Tail(q))
<1> DEFINE a == Addressed(p, q)
           r == Tail(q)
           b == Addressed(p, r)
           n == Len(q)
<1>1. /\ \E S : r \in Seq(S)
      /\ n \in Nat \ {0} /\ Len(r) = n - 1
      /\ \A i \in 1 .. n - 1 : r[i] = q[i + 1]
      /\ Head(q) = q[1]
  BY TailSeq
<1>2. (\E S : a \in Seq(S)) /\ Len(a) = n /\ \A i \in 1 .. n : a[i] = <<p, q[i]>>
  BY AddressedSeq
<1> HIDE DEF a, r, n
<1>3. (\E S : b \in Seq(S)) /\ Len(b) = n - 1 /\ \A i \in 1 .. n - 1 : b[i] = <<p, r[i]>>
  BY <1>1, AddressedSeq
<1> HIDE DEF b
<1>4. a # <<>>
  BY <1>1, <1>2, LengthOf
<1>5. /\ \E S : Tail(a) \in Seq(S)
      /\ Len(Tail(a)) = n - 1
      /\ \A i \in 1 .. n - 1 : Tail(a)[i] = a[i + 1]
      /\ Head(a) = a[1]
  BY <1>2, <1>4, TailSeq
<1>6. Head(a) = <<p, Head(q)>>
  BY <1>1, <1>2, <1>5
<1>7. Tail(a) = b
  <2>1. ASSUME NEW i \in 1 .. n - 1 PROVE Tail(a)[i] = b[i]
    <3>1. i + 1 \in 1 .. n
      BY <1>1
    <3>2. Tail(a)[i] = a[i + 1]
      BY <1>5
    <3>3. a[i + 1] = <<p, q[i + 1]>>
      BY <3>1, <1>1, <1>2
    <3>4. b[i] = <<p, q[i + 1]>>
      BY <1>1, <1>3
    <3>5. QED
      BY <3>2, <3>3, <3>4
  <2>2. QED
    BY <2>1, <1>3, <1>5, SameSeq
<1>8. a = <<Head(a)>> \o Tail(a)
  BY <1>2, <1>4, HeadFirst
<1>9. QED
  BY <1>6, <1>7, <1>8 DEF a, b, r

-----------------------------------------------------------------------------
(* Catalogues *)

\* What a statement needs of a catalogue: databases of tables, one of them in use or none.
IsCatalogue(s) ==
    /\ "dbs" \in DOMAIN s /\ "current" \in DOMAIN s /\ "into" \in DOMAIN s
    /\ s.current \in DOMAIN s.dbs \union {NONE}
    /\ \A n \in DOMAIN s.dbs : \A t \in DOMAIN s.dbs[n] :
        LET d == DOMAIN s.dbs[n][t]
        IN  "fields" \in d /\ "key" \in d /\ "records" \in d

\* The same tables in the same databases, but for the records.
Alike(a, b) ==
    /\ a.current = b.current
    /\ DOMAIN a.dbs = DOMAIN b.dbs
    /\ \A n \in DOMAIN a.dbs :
        /\ DOMAIN a.dbs[n] = DOMAIN b.dbs[n]
        /\ \A t \in DOMAIN a.dbs[n] :
            a.dbs[n][t].fields = b.dbs[n][t].fields /\ a.dbs[n][t].key = b.dbs[n][t].key

\* This is what Schema compares.
LEMMA AlikeSchema ==
    ASSUME NEW a, NEW b, Alike(a, b)
    PROVE  Schema(a) = Schema(b)
<1> DEFINE Tables(s, n) == [t \in DOMAIN s.dbs[n] |->
                               [fields |-> s.dbs[n][t].fields, key |-> s.dbs[n][t].key]]
<1>1. ASSUME NEW n \in DOMAIN a.dbs PROVE Tables(a, n) = Tables(b, n)
  BY DEF Alike
<1>2. Schema(a) = [current |-> a.current, dbs |-> [n \in DOMAIN a.dbs |-> Tables(a, n)]]
  BY DEF Schema
<1>3. Schema(b) = [current |-> b.current, dbs |-> [n \in DOMAIN b.dbs |-> Tables(b, n)]]
  BY DEF Schema
<1> HIDE DEF Tables
<1>4. [n \in DOMAIN a.dbs |-> Tables(a, n)] = [n \in DOMAIN b.dbs |-> Tables(b, n)]
  BY <1>1 DEF Alike
<1>5. QED
  BY <1>2, <1>3, <1>4 DEF Alike

\* Two parties of which each changes one catalogue by the same statement.
Pair(a, b) == IsCatalogue(a) /\ IsCatalogue(b) /\ Alike(a, b)

\* CREATE DATABASE
LEMMA CreatesDatabase ==
    ASSUME NEW a, NEW b, Pair(a, b), NEW name
    PROVE  Pair(createDatabase(a, name), createDatabase(b, name))
<1>1. DOMAIN <<>> = {}
  OBVIOUS
<1>2. QED
  BY <1>1 DEF Pair, IsCatalogue, Alike, createDatabase, With

\* DROP DATABASE
LEMMA DropsDatabase ==
    ASSUME NEW a, NEW b, Pair(a, b), NEW name
    PROVE  Pair(dropDatabase(a, name), dropDatabase(b, name))
  BY DEF Pair, IsCatalogue, Alike, dropDatabase

\* USE
LEMMA UsesDatabase ==
    ASSUME NEW a, NEW b, Pair(a, b), NEW name
    PROVE  Pair(useDatabase(a, name), useDatabase(b, name))
  BY DEF Pair, IsCatalogue, Alike, useDatabase

\* CREATE TABLE
LEMMA CreatesTable ==
    ASSUME NEW a, NEW b, Pair(a, b), NEW table, NEW columns, NEW key, b.current # NONE
    PROVE  Pair(createTable(a, table, columns, key), createTable(b, table, columns, key))
<1> DEFINE t == Table(columns, key)
<1>1. "fields" \in DOMAIN t /\ "key" \in DOMAIN t /\ "records" \in DOMAIN t
  BY DEF Table
<1> HIDE DEF t
<1>2. Known(a, table) <=> Known(b, table)
  BY DEF Pair, IsCatalogue, Alike, Known
<1>3. CASE Known(a, table)
  BY <1>2, <1>3 DEF createTable
<1>4. CASE ~Known(a, table)
  <2> DEFINE c == createTable(a, table, columns, key)
             d == createTable(b, table, columns, key)
             n == a.current
             e == With(a.dbs[n], table, t)
             f == With(b.dbs[n], table, t)
  <2>1. /\ IsCatalogue(a) /\ IsCatalogue(b) /\ Alike(a, b) /\ b.current = n
        /\ n \in DOMAIN a.dbs /\ n \in DOMAIN b.dbs
    BY DEF Pair, IsCatalogue, Alike
  <2>2. /\ c = [a EXCEPT !.dbs[a.current] = With(a.dbs[a.current], table, t)]
        /\ d = [b EXCEPT !.dbs[b.current] = With(b.dbs[b.current], table, t)]
    BY <1>2, <1>4 DEF createTable, t
  <2>3. /\ DOMAIN e = DOMAIN a.dbs[n] \union {table}
        /\ \A k \in DOMAIN e : e[k] = IF k = table THEN t ELSE a.dbs[n][k]
        /\ DOMAIN f = DOMAIN b.dbs[n] \union {table}
        /\ \A k \in DOMAIN f : f[k] = IF k = table THEN t ELSE b.dbs[n][k]
    BY DEF With
  <2>4. /\ DOMAIN c = DOMAIN a /\ c.current = n /\ c.into = a.into
        /\ DOMAIN c.dbs = DOMAIN a.dbs
        /\ \A k \in DOMAIN a.dbs : c.dbs[k] = IF k = n THEN e ELSE a.dbs[k]
    BY <2>1, <2>2 DEF IsCatalogue
  <2>5. /\ DOMAIN d = DOMAIN b /\ d.current = n /\ d.into = b.into
        /\ DOMAIN d.dbs = DOMAIN b.dbs
        /\ \A k \in DOMAIN b.dbs : d.dbs[k] = IF k = n THEN f ELSE b.dbs[k]
    BY <2>1, <2>2 DEF IsCatalogue
  <2> HIDE DEF c, d, e, f, n
  <2>6. IsCatalogue(c)
    <3>1. "dbs" \in DOMAIN c /\ "current" \in DOMAIN c /\ "into" \in DOMAIN c
      BY <2>1, <2>4 DEF IsCatalogue
    <3>2. c.current \in DOMAIN c.dbs \union {NONE}
      BY <2>1, <2>4
    <3>3. ASSUME NEW k \in DOMAIN c.dbs, NEW i \in DOMAIN c.dbs[k]
          PROVE  "fields" \in DOMAIN c.dbs[k][i] /\ "key" \in DOMAIN c.dbs[k][i]
                 /\ "records" \in DOMAIN c.dbs[k][i]
      BY <1>1, <2>1, <2>3, <2>4 DEF IsCatalogue
    <3>4. QED
      BY <3>1, <3>2, <3>3 DEF IsCatalogue
  <2>7. IsCatalogue(d)
    <3>1. "dbs" \in DOMAIN d /\ "current" \in DOMAIN d /\ "into" \in DOMAIN d
      BY <2>1, <2>5 DEF IsCatalogue
    <3>2. d.current \in DOMAIN d.dbs \union {NONE}
      BY <2>1, <2>5
    <3>3. ASSUME NEW k \in DOMAIN d.dbs, NEW i \in DOMAIN d.dbs[k]
          PROVE  "fields" \in DOMAIN d.dbs[k][i] /\ "key" \in DOMAIN d.dbs[k][i]
                 /\ "records" \in DOMAIN d.dbs[k][i]
      BY <1>1, <2>1, <2>3, <2>5 DEF IsCatalogue
    <3>4. QED
      BY <3>1, <3>2, <3>3 DEF IsCatalogue
  <2>8. Alike(c, d)
    <3>1. c.current = d.current /\ DOMAIN c.dbs = DOMAIN d.dbs
      BY <2>1, <2>4, <2>5 DEF Alike
    <3>2. ASSUME NEW k \in DOMAIN c.dbs
          PROVE  /\ DOMAIN c.dbs[k] = DOMAIN d.dbs[k]
                 /\ \A i \in DOMAIN c.dbs[k] :
                       /\ c.dbs[k][i].fields = d.dbs[k][i].fields
                       /\ c.dbs[k][i].key = d.dbs[k][i].key
      <4>1. k \in DOMAIN a.dbs /\ k \in DOMAIN b.dbs
        BY <2>1, <2>4 DEF Alike
      <4>2. CASE k = n
        <5>1. c.dbs[k] = e /\ d.dbs[k] = f
          BY <4>1, <4>2, <2>4, <2>5
        <5>2. /\ DOMAIN a.dbs[n] = DOMAIN b.dbs[n]
              /\ \A i \in DOMAIN a.dbs[n] :
                    /\ a.dbs[n][i].fields = b.dbs[n][i].fields
                    /\ a.dbs[n][i].key = b.dbs[n][i].key
          BY <2>1 DEF Alike
        <5>3. QED
          BY <5>1, <5>2, <2>3
      <4>3. CASE k # n
        BY <4>1, <4>3, <2>1, <2>4, <2>5 DEF Alike
      <4>4. QED
        BY <4>2, <4>3
    <3>3. QED
      BY <3>1, <3>2 DEF Alike
  <2>9. QED
    BY <2>6, <2>7, <2>8 DEF Pair, c, d
<1>5. QED
  BY <1>3, <1>4

\* The client has the whole statement done, each server what it takes for a command.
LEMMA Catalogues ==
    ASSUME NEW a, NEW b, Pair(a, b), NEW s, Accepts(s, b)
    PROVE  Pair(Catalogued(s, a), Catalogued(s, b))
<1>1. CASE s.op = "create database"
  BY <1>1, CreatesDatabase DEF Catalogued
<1>2. CASE s.op = "drop database"
  BY <1>2, DropsDatabase DEF Catalogued
<1>3. CASE s.op = "use"
  BY <1>3, UsesDatabase DEF Catalogued
<1>4. CASE s.op = "create table"
  <2>1. b.current # NONE
    BY <1>4 DEF Accepts, clientCreateTable
  <2>2. QED
    BY <1>4, <2>1, CreatesTable DEF Catalogued
<1>5. CASE s.op \notin {"create database", "drop database", "use", "create table"}
  BY <1>5 DEF Catalogued, dropTable
<1>6. QED
  BY <1>1, <1>2, <1>3, <1>4, <1>5

\* The record of an INSERT leaves the tables as they are.
LEMMA Inserts ==
    ASSUME NEW a, NEW b, Pair(a, b), NEW s, s.op = "insert", Accepts(s, b),
           NEW m, m.kind = "share"
    PROVE  Pair(Serve(Serve(a, Command(s)), m), b)
<1>1. b.current # NONE /\ s.table \in DOMAIN b.dbs[b.current]
  BY DEF Accepts, clientInsert, Known
<1>2. a.current # NONE /\ a.current \in DOMAIN a.dbs /\ s.table \in DOMAIN a.dbs[a.current]
  BY <1>1 DEF Pair, IsCatalogue, Alike
<1> DEFINE c == [a EXCEPT !.into = s.table]
           d == insert(c, c.into, m)
<1>3. Serve(a, Command(s)) = c
  BY DEF Serve, Command
<1>4. Serve(c, m) = d
  BY DEF Serve
<1>5. c.dbs = a.dbs /\ c.current = a.current /\ c.into = s.table /\ DOMAIN c = DOMAIN a
  BY DEF Pair, IsCatalogue
<1> DEFINE old == a.dbs[a.current][s.table]
           new == [old EXCEPT !.records = Append(@, m)]
           tables == [a.dbs[a.current] EXCEPT ![s.table] = new]
           all == [a.dbs EXCEPT ![a.current] = tables]
<1>6. d = [c EXCEPT !.dbs = all, !.into = NONE]
  BY <1>5 DEF insert
<1>7. /\ new.fields = old.fields /\ new.key = old.key /\ DOMAIN new = DOMAIN old
      /\ "fields" \in DOMAIN old /\ "key" \in DOMAIN old /\ "records" \in DOMAIN old
  BY <1>2 DEF Pair, IsCatalogue
<1>8. d.dbs = all /\ d.current = a.current /\ DOMAIN d = DOMAIN a
  BY <1>5, <1>6 DEF Pair, IsCatalogue
<1> HIDE DEF c, d, old, new
<1>9. /\ DOMAIN all = DOMAIN a.dbs
      /\ \A n \in DOMAIN a.dbs :
          /\ DOMAIN all[n] = DOMAIN a.dbs[n]
          /\ \A t \in DOMAIN a.dbs[n] :
              \/ all[n][t] = a.dbs[n][t]
              \/ all[n][t] = new /\ a.dbs[n][t] = old
  BY <1>2 DEF old
<1> HIDE DEF all
<1>10. IsCatalogue(d)
  BY <1>7, <1>8, <1>9 DEF Pair, IsCatalogue
<1>11. Alike(d, b)
  BY <1>7, <1>8, <1>9 DEF Pair, Alike
<1>12. QED
  BY <1>3, <1>4, <1>10, <1>11 DEF Pair

-----------------------------------------------------------------------------
(* Nothing under way is lost or served by two *)

\* CaughtUp, of what it looks at.
Later(p, s, inbox, left) == Served(p, s, Addressed(p, inbox) \o left)

\* First what has arrived, then what is left to send.
LEMMA LaterInTwo ==
    ASSUME NEW p, NEW s, NEW q, NEW o, \E S : q \in Seq(S), \E S : o \in Seq(S)
    PROVE  Later(p, s, q, o) = Served(p, Served(p, s, Addressed(p, q)), o)
<1>1. \E S : Addressed(p, q) \in Seq(S)
  BY AddressedSeq
<1>2. QED
  BY <1>1, ServedSplit DEF Later

\* The client sends the next message.
LEMMA LaterSends ==
    ASSUME NEW p, NEW s, NEW q, NEW o, \E S : q \in Seq(S), \E S : o \in Seq(S), o # <<>>
    PROVE  Later(p, s, q, o)
               = Later(p, s, IF Head(o)[1] = p THEN Append(q, Head(o)[2]) ELSE q, Tail(o))
<1> DEFINE h == Head(o)
           r == Tail(o)
           a == Addressed(p, q)
           c == Served(p, s, a)
<1>1. \E S : a \in Seq(S)
  BY AddressedSeq
<1>2. \E S : r \in Seq(S)
  BY TailSeq
<1>3. o = <<h>> \o r
  BY HeadFirst
<1> HIDE DEF h, r, a, c
<1>4. Later(p, s, q, o) = Served(p, Takes(p, c, h), r)
  <2>1. Later(p, s, q, o) = Served(p, c, o)
    BY LaterInTwo DEF c, a
  <2>2. \E S : <<h>> \in Seq(S)
    BY ShortSeqs
  <2> DEFINE u == <<h>>
  <2> HIDE DEF u
  <2>3. Served(p, c, u \o r) = Served(p, Served(p, c, u), r)
    <3>1. \E S : u \in Seq(S)
      BY <2>2 DEF u
    <3>2. QED
      BY <1>2, <3>1, ServedSplit
  <2>4. Served(p, c, u) = Takes(p, c, h)
    BY ServedOne DEF u
  <2>5. QED
    BY <2>1, <2>3, <2>4, <1>3 DEF u
<1>5. CASE h[1] = p
  <2> DEFINE t == Append(q, h[2])
             e == <<p, h[2]>>
             u == <<e>>
  <2>1. \E S : t \in Seq(S)
    BY AppendSeq
  <2>2. Addressed(p, t) = a \o u
    BY AddressedAppend DEF a
  <2>3. \E S : u \in Seq(S)
    BY ShortSeqs
  <2>4. Served(p, c, u) = Takes(p, c, e)
    BY ServedOne
  <2>5. Takes(p, c, e) = Takes(p, c, h)
    BY <1>5 DEF Takes
  <2> HIDE DEF t, e, u
  <2>6. Served(p, s, a \o u) = Served(p, c, u)
    BY <1>1, <2>3, ServedSplit DEF c
  <2>7. Later(p, s, t, r) = Served(p, Served(p, s, Addressed(p, t)), r)
    BY <1>2, <2>1, LaterInTwo
  <2>8. QED
    BY <1>4, <1>5, <2>2, <2>4, <2>5, <2>6, <2>7 DEF t, h, r
<1>6. CASE h[1] # p
  <2>1. Takes(p, c, h) = c
    BY <1>6 DEF Takes
  <2>2. Later(p, s, q, r) = Served(p, c, r)
    BY <1>2, LaterInTwo DEF c, a
  <2>3. QED
    BY <1>4, <1>6, <2>1, <2>2 DEF h, r
<1>7. QED
  BY <1>5, <1>6

\* The server serves the next message.
LEMMA LaterServes ==
    ASSUME NEW p, NEW s, NEW q, NEW o, \E S : q \in Seq(S), \E S : o \in Seq(S), q # <<>>
    PROVE  Later(p, s, q, o) = Later(p, Serve(s, Head(q)), Tail(q), o)
<1> DEFINE e == <<p, Head(q)>>
           u == <<e>>
           t == Tail(q)
           b == Addressed(p, t)
<1>1. Addressed(p, q) = u \o b
  BY AddressedTail
<1>2. \E S : t \in Seq(S)
  BY TailSeq
<1>3. \E S : u \in Seq(S)
  BY ShortSeqs
<1>4. Served(p, s, u) = Takes(p, s, e)
  BY ServedOne
<1>5. Takes(p, s, e) = Serve(s, Head(q))
  BY DEF Takes
<1> HIDE DEF e, u, t, b
<1>6. \E S : b \in Seq(S)
  BY <1>2, AddressedSeq DEF b
<1>7. Served(p, s, u \o b) = Served(p, Served(p, s, u), b)
  BY <1>3, <1>6, ServedSplit
<1>8. Later(p, s, q, o) = Served(p, Served(p, s, Addressed(p, q)), o)
  BY LaterInTwo
<1>9. Later(p, Serve(s, Head(q)), t, o) = Served(p, Served(p, Serve(s, Head(q)), b), o)
  BY <1>2, LaterInTwo DEF b
<1>10. QED
  BY <1>1, <1>4, <1>5, <1>7, <1>8, <1>9 DEF t

\* With nothing left to send each server gets what the client then sends to both.
LEMMA LaterBoth ==
    ASSUME NEW p \in Servers, NEW c, NEW m
    PROVE  Served(p, c, ToBoth(m)) = Serve(c, m)
<1> DEFINE e == <<0, m>>
           f == <<1, m>>
           u == <<e>>
           v == <<f>>
<1>1. (\E S : u \in Seq(S)) /\ \E S : v \in Seq(S)
  BY ShortSeqs
<1>2. ToBoth(m) = u \o v
  BY DEF ToBoth
<1>3. \A d : Served(p, d, u) = Takes(p, d, e)
  BY ServedOne
<1>4. \A d : Served(p, d, v) = Takes(p, d, f)
  BY ServedOne
<1>5. Takes(p, Takes(p, c, e), f) = Serve(c, m)
  BY DEF Takes, Servers
<1> HIDE DEF u, v, e, f
<1>6. Served(p, c, u \o v) = Served(p, Served(p, c, u), v)
  BY <1>1, ServedSplit
<1>7. QED
  BY <1>2, <1>3, <1>4, <1>5, <1>6

\* The messages of a statement.
LEMMA LaterStatement ==
    ASSUME NEW p \in Servers, NEW s, NEW q, \E S : q \in Seq(S), NEW m, NEW k
    PROVE  /\ Later(p, s, q, ToBoth(m)) = Serve(Later(p, s, q, <<>>), m)
           /\ Later(p, s, q, ToBoth(m) \o ToBoth(k))
                  = Serve(Serve(Later(p, s, q, <<>>), m), k)
<1> DEFINE c == Served(p, s, Addressed(p, q))
           u == ToBoth(m)
           v == ToBoth(k)
           e == <<>>
<1>1. (\E S : u \in Seq(S)) /\ (\E S : v \in Seq(S)) /\ \E S : e \in Seq(S)
  BY ShortSeqs DEF ToBoth
<1>2. Served(p, c, e) = c
  BY ServedNone
<1>3. Served(p, c, u) = Serve(c, m)
  BY LaterBoth
<1>4. \A d : Served(p, d, v) = Serve(d, k)
  BY LaterBoth
<1> HIDE DEF u, v, e, c
<1>5. \E S : u \o v \in Seq(S)
  BY <1>1, ConcatSeq
<1>6. Served(p, c, u \o v) = Serve(Serve(c, m), k)
  BY <1>1, <1>3, <1>4, ServedSplit
<1>7. Later(p, s, q, e) = c
  BY <1>1, <1>2, LaterInTwo DEF c
<1>8. Later(p, s, q, u) = Served(p, c, u)
  BY <1>1, LaterInTwo DEF c
<1>9. Later(p, s, q, u \o v) = Served(p, c, u \o v)
  <2> DEFINE w == u \o v
  <2>1. \E S : w \in Seq(S)
    BY <1>5
  <2> HIDE DEF w
  <2>2. Later(p, s, q, w) = Served(p, c, w)
    BY <2>1, LaterInTwo DEF c
  <2>3. QED
    BY <2>2 DEF w
<1>10. QED
  BY <1>3, <1>6, <1>7, <1>8, <1>9 DEF u, v, e

-----------------------------------------------------------------------------
(* The invariant of CataloguesAgree *)

CatalogueInv == CaughtUp(0) = CaughtUp(1) /\ Pair(CaughtUp(0), sys[CLIENT])

\* What a server will have, in this state and in the next.
LEMMA CaughtUpIs ==
    ASSUME NEW p
    PROVE  /\ CaughtUp(p) = Later(p, sys[p], chan[<<CLIENT, p>>], outbox)
           /\ CaughtUp(p)' = Later(p, sys'[p], chan'[<<CLIENT, p>>], outbox')
  BY DEF CaughtUp, UnderWay, Addressed, Later

\* It stays what it is if nothing happens to the server and to what is sent to it.
LEMMA NothingServed ==
    ASSUME CatalogueInv, UNCHANGED <<sys, outbox>>,
           \A p \in Servers : chan'[<<CLIENT, p>>] = chan[<<CLIENT, p>>]
    PROVE  CatalogueInv'
<1>1. \A p \in Servers : CaughtUp(p)' = CaughtUp(p)
  BY CaughtUpIs
<1>2. QED
  BY <1>1 DEF CatalogueInv, Servers

\* At the start there are no databases.
LEMMA InitCatalogues == Init => CatalogueInv
<1> SUFFICES ASSUME Init PROVE CatalogueInv
  OBVIOUS
<1> DEFINE c == [dbs |-> <<>>, current |-> NONE, into |-> NONE]
           e == <<>>
<1>1. \A p \in Servers : sys[p] = c /\ chan[<<CLIENT, p>>] = e /\ outbox = e
  BY DEF Init, Links, Servers, CLIENT
<1>2. sys[CLIENT] = c
  BY DEF Init
<1>3. Pair(c, c)
  <2>1. DOMAIN <<>> = {}
    OBVIOUS
  <2>2. QED
    BY <2>1 DEF Pair, IsCatalogue, Alike
<1>4. \E S : e \in Seq(S)
  BY ShortSeqs
<1>5. \A p : Addressed(p, e) = e
  <2>1. Len(e) = 0
    OBVIOUS
  <2>2. QED
    BY <2>1 DEF Addressed
<1>6. \A p, d : Served(p, d, e) = d
  BY ServedNone
<1> HIDE DEF c, e
<1>7. \A p : Later(p, c, e, e) = c
  BY <1>4, <1>5, <1>6, LaterInTwo
<1>8. \A p \in Servers : CaughtUp(p) = c
  BY <1>1, <1>7, CaughtUpIs
<1>9. QED
  BY <1>2, <1>3, <1>8 DEF CatalogueInv, Servers

\* The client changes its catalogue and owes the servers the statement.
LEMMA ExecuteCatalogues ==
    ASSUME IInv, CatalogueInv, clientExecute
    PROVE  CatalogueInv'
<1> DEFINE s == Head(todo)
           me == sys[CLIENT]
           m == Command(s)
           k == [kind |-> "share", id |-> sent.shared + 1, row |-> Record(s, TableOf(me, s.table))]
           c == CaughtUp(0)
<1>1. /\ outbox = <<>> /\ Accepts(s, me)
      /\ outbox' = Messages(s, me) /\ chan' = chan
      /\ sys' = [sys EXCEPT ![CLIENT] = Catalogued(s, me)]
  BY DEF clientExecute, Idle
<1>2. /\ \A p \in Servers : sys'[p] = sys[p]
      /\ sys'[CLIENT] = Catalogued(s, me)
  BY <1>1 DEF IInv, Shapes, Servers, CLIENT
<1>3. Messages(s, me) = IF s.op = "insert" THEN ToBoth(m) \o ToBoth(k) ELSE ToBoth(m)
  BY DEF Messages
<1>4. k.kind = "share"
  OBVIOUS
<1>5. m.kind = "command" /\ m.stmt = s
  BY DEF Command
<1>6. Pair(c, me)
  BY DEF CatalogueInv
<1> DEFINE next == IF s.op = "insert" THEN Serve(Serve(c, m), k) ELSE Serve(c, m)
<1> HIDE DEF s, me, m, k
<1>7. \A p \in Servers : CaughtUp(p)' = next
  <2>1. ASSUME NEW p \in Servers PROVE CaughtUp(p)' = next
    <3> DEFINE q == chan[<<CLIENT, p>>]
    <3>1. \E S : q \in Seq(S)
      BY LinksOf DEF IInv, Shapes
    <3>2. CaughtUp(p) = c
      BY DEF CatalogueInv, Servers
    <3>3. CaughtUp(p) = Later(p, sys[p], q, <<>>)
      BY <1>1, CaughtUpIs
    <3>4. CaughtUp(p)' = Later(p, sys[p], q, Messages(s, me))
      BY <1>1, <1>2, CaughtUpIs
    <3> HIDE DEF q, c
    <3>5. /\ Later(p, sys[p], q, ToBoth(m)) = Serve(Later(p, sys[p], q, <<>>), m)
          /\ Later(p, sys[p], q, ToBoth(m) \o ToBoth(k))
                 = Serve(Serve(Later(p, sys[p], q, <<>>), m), k)
      BY <3>1, LaterStatement
    <3>6. QED
      BY <1>3, <3>2, <3>3, <3>4, <3>5
  <2>2. QED
    BY <2>1
<1>8. Pair(next, Catalogued(s, me))
  <2>1. CASE s.op = "insert"
    <3>1. Pair(Serve(Serve(c, Command(s)), k), me)
      BY <1>1, <1>4, <1>6, <2>1, Inserts
    <3>2. Catalogued(s, me) = me
      BY <2>1 DEF Catalogued
    <3>3. QED
      BY <2>1, <3>1, <3>2 DEF m
  <2>2. CASE s.op # "insert"
    <3>1. Serve(c, m) = Catalogued(s, c)
      BY <1>5, <2>2 DEF Serve
    <3>2. Pair(Catalogued(s, c), Catalogued(s, me))
      BY <1>1, <1>6, Catalogues
    <3>3. QED
      BY <2>2, <3>1, <3>2
  <2>3. QED
    BY <2>1, <2>2
<1>9. QED
  BY <1>2, <1>7, <1>8 DEF CatalogueInv, Servers

\* What the client sends is what it owed.
LEMMA SendsCatalogues ==
    ASSUME IInv, CatalogueInv, ClientSends
    PROVE  CatalogueInv'
<1> DEFINE h == Head(outbox)
<1>1. /\ outbox # <<>> /\ outbox' = Tail(outbox) /\ sys' = sys
      /\ chan' = [chan EXCEPT ![<<CLIENT, h[1]>>] = Append(@, h[2])]
  BY DEF ClientSends
<1>2. \E S : outbox \in Seq(S)
  BY DEF IInv, Shapes
<1>3. ASSUME NEW p \in Servers PROVE CaughtUp(p)' = CaughtUp(p)
  <2> DEFINE q == chan[<<CLIENT, p>>]
  <2>1. \E S : q \in Seq(S)
    BY LinksOf DEF IInv, Shapes
  <2>2. chan'[<<CLIENT, p>>] = IF h[1] = p THEN Append(q, h[2]) ELSE q
    BY <1>1, LinksOf DEF IInv, Shapes
  <2>3. CaughtUp(p) = Later(p, sys[p], q, outbox)
    BY CaughtUpIs
  <2>4. CaughtUp(p)' = Later(p, sys[p], chan'[<<CLIENT, p>>], Tail(outbox))
    BY <1>1, CaughtUpIs
  <2> HIDE DEF q
  <2>5. QED
    BY <1>1, <1>2, <2>1, <2>2, <2>3, <2>4, LaterSends
<1>4. QED
  BY <1>1, <1>3 DEF CatalogueInv, Servers

\* A server does what it was going to do.
LEMMA ServesCatalogues ==
    ASSUME IInv, CatalogueInv, NEW p \in Servers, ServerReceives(p)
    PROVE  CatalogueInv'
<1> DEFINE q == chan[<<CLIENT, p>>]
<1>1. /\ q # <<>> /\ outbox' = outbox
      /\ sys' = [sys EXCEPT ![p] = Serve(@, Head(q))]
      /\ chan' = [chan EXCEPT ![<<CLIENT, p>>] = Tail(@), ![<<p, CLIENT>>] = @ \o Said(Head(q))]
  BY DEF ServerReceives
<1>2. \E S : outbox \in Seq(S)
  BY DEF IInv, Shapes
<1>3. \E S : q \in Seq(S)
  BY LinksOf DEF IInv, Shapes
<1>4. /\ sys'[p] = Serve(sys[p], Head(q)) /\ sys'[CLIENT] = sys[CLIENT]
      /\ \A r \in Servers \ {p} : sys'[r] = sys[r]
  BY <1>1 DEF IInv, Shapes, Servers, CLIENT
<1>5. /\ chan'[<<CLIENT, p>>] = Tail(q)
      /\ \A r \in Servers \ {p} : chan'[<<CLIENT, r>>] = chan[<<CLIENT, r>>]
  BY <1>1, LinksOf DEF IInv, Shapes
<1>6. CaughtUp(p)' = CaughtUp(p)
  <2>1. CaughtUp(p) = Later(p, sys[p], q, outbox)
    BY CaughtUpIs
  <2>2. CaughtUp(p)' = Later(p, sys'[p], chan'[<<CLIENT, p>>], outbox')
    BY CaughtUpIs
  <2>3. CaughtUp(p)' = Later(p, Serve(sys[p], Head(q)), Tail(q), outbox)
    BY <1>1, <1>4, <1>5, <2>2
  <2>4. q # <<>>
    BY <1>1
  <2> DEFINE c == sys[p]
             o == outbox
  <2>5. \E S : o \in Seq(S)
    BY <1>2
  <2> HIDE DEF q, c, o
  <2>6. Later(p, c, q, o) = Later(p, Serve(c, Head(q)), Tail(q), o)
    BY <1>3, <2>4, <2>5, LaterServes
  <2>7. QED
    BY <2>1, <2>3, <2>6 DEF c, o
<1>7. ASSUME NEW r \in Servers \ {p} PROVE CaughtUp(r)' = CaughtUp(r)
  <2>1. /\ CaughtUp(r) = Later(r, sys[r], chan[<<CLIENT, r>>], outbox)
        /\ CaughtUp(r)' = Later(r, sys'[r], chan'[<<CLIENT, r>>], outbox')
    BY CaughtUpIs
  <2>2. sys'[r] = sys[r] /\ chan'[<<CLIENT, r>>] = chan[<<CLIENT, r>>] /\ outbox' = outbox
    BY <1>1, <1>4, <1>5
  <2>3. QED
    BY <2>1, <2>2
<1>8. QED
  BY <1>4, <1>6, <1>7 DEF CatalogueInv, Servers

\* Every step keeps it.
LEMMA NextKeepsCatalogues ==
    ASSUME IInv, CatalogueInv, [Next]_vars
    PROVE  CatalogueInv'
<1>1. CASE ReadCommand \/ Refuse \/ UNCHANGED vars
  BY <1>1, NothingServed DEF ReadCommand, Refuse, vars
<1>2. CASE ClientReceives
  <2>1. PICK from : chan' = [chan EXCEPT ![<<from, CLIENT>>] = Tail(@)]
    BY <1>2 DEF ClientReceives
  <2>2. \A p \in Servers : <<from, CLIENT>> # <<CLIENT, p>>
    BY DEF Servers, CLIENT
  <2>3. \A p \in Servers : chan'[<<CLIENT, p>>] = chan[<<CLIENT, p>>]
    BY <2>1, <2>2, LinksOf DEF IInv, Shapes
  <2>4. QED
    BY <1>2, <2>3, NothingServed DEF ClientReceives
<1>3. ASSUME NEW p \in Servers, serverSelectTable(p) PROVE CatalogueInv'
  <2>1. \A r \in Servers : <<p, CLIENT>> # <<CLIENT, r>>
    BY DEF Servers, CLIENT
  <2>2. \A r \in Servers : chan'[<<CLIENT, r>>] = chan[<<CLIENT, r>>]
    BY <1>3, <2>1, LinksOf DEF IInv, Shapes, serverSelectTable
  <2>3. QED
    BY <1>3, <2>2, NothingServed DEF serverSelectTable
<1>4. CASE serverSelect
  <2>1. PICK result :
          chan' = [l \in Links |->
                      IF l[2] = CLIENT THEN chan[l] \o <<Rows(result), DONE>> ELSE chan[l]]
    BY <1>4 DEF serverSelect
  <2>2. \A p \in Servers : <<CLIENT, p>> \in Links /\ <<CLIENT, p>>[2] # CLIENT
    BY DEF Links, Servers, CLIENT
  <2>3. \A p \in Servers : chan'[<<CLIENT, p>>] = chan[<<CLIENT, p>>]
    BY <2>1, <2>2
  <2>4. QED
    BY <1>4, <2>3, NothingServed DEF serverSelect
<1>5. QED
  BY <1>1, <1>2, <1>3, <1>4, ExecuteCatalogues, SendsCatalogues, ServesCatalogues DEF Next

\* The client checks each statement against a catalogue of its own and each server serves
\* in its own time: whatever is typed, once what is under way is served both servers have
\* the same tables with shares of the same records, and the tables that the client knows
\* (SystemManager, Database, InsertSupport).
THEOREM CataloguesAgreeHolds == Spec => []CataloguesAgree
<1>1. CatalogueInv => CataloguesAgree
  BY AlikeSchema DEF CatalogueInv, Pair, CataloguesAgree
<1>2. IInv /\ CatalogueInv /\ [Next]_vars => CatalogueInv'
  BY NextKeepsCatalogues
<1>3. Spec => []CatalogueInv
  BY <1>2, InitCatalogues, Invariance, PTL DEF Spec
<1>4. QED
  BY <1>1, <1>3, PTL

=============================================================================
