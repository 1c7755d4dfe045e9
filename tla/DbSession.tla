------------------------------ MODULE DbSession ------------------------------
(***************************************************************************)
(* A session of the database service: the client's process reads commands,  *)
(* keeps a catalogue of its own and forwards each statement to the servers, *)
(* which keep the records as shares.  Commands, shares, results and "done"  *)
(* all travel on tag 0 in order, from the client to each server and back    *)
(* (TagMailbox); the sharing of a record is known by its number.            *)
(***************************************************************************)
EXTENDS Views

CONSTANTS
    Openings,       \* what a session starts with: sequences of commands
    Commands,       \* what is typed then: sequences of statements
    MaxCommands,    \* a bound: how many of them
    Compactions,    \* values of disable_precise_compaction to start with
    NONE            \* no database, no table, no statement

Servers == {0, 1}
CLIENT == 2

\* Everything that anybody types.
Statements ==
    UNION {Range(c) : c \in Commands}
    \union UNION {UNION {Range(c) : c \in Range(o)} : o \in Openings}

ASSUME CommandsAreFinite == MaxCommands \in Nat /\ Compactions \subseteq BOOLEAN

\* Nothing has no name, and is no statement.
ASSUME StatementsAssumption ==
    /\ Commands \subseteq Seq(Statements) /\ Openings \subseteq Seq(Seq(Statements))
    /\ NONE \notin Statements
    /\ \A s \in Statements : s.op = "insert" => s.table # NONE

\* What is typed orders by a column it selects.  The client looks for the column in the
\* table, and the servers, which have only those selected, would sort by column -1.
ASSUME OrderIsSelected ==
    \A s \in Statements :
        s.op = "select" /\ s.fields # {} => {o.field : o \in s.order} \subseteq s.fields

VARIABLES
    sys,        \* SystemManager of each process: [dbs, current, into]; a server
                \*   awaits a record for the table into
    busy,       \* the SELECT each server works on
    chan,       \* the messages of one process to another
    outbox,     \* what the client has still to send: <<receiver, message>>
    expect,     \* what it then receives: <<sender, kind>>
    got,        \* the results of the servers it has received
    typed,      \* commands that follow the opening: how many
    opening,    \* commands of the opening to come
    todo,       \* statements to come of this command
    sent,       \* [shared, exited, late]: the number of records shared; was exit typed,
                \*   and, a history, was a SELECT executed after it?
    stmt, reply \* the statement executed last and its answer

vars == <<conf, sys, busy, chan, outbox, expect, got, typed, opening, todo, sent, stmt, reply>>
userVars == <<typed, opening>>

Links == (Servers \X {CLIENT}) \union ({CLIENT} \X Servers)
Reply(kind) == [kind |-> kind, rows |-> <<>>]
Command(s) == [kind |-> "command", stmt |-> s]
DONE == [kind |-> "done"]

-----------------------------------------------------------------------------
(* The catalogue of a process.                                                *)

Known(s, table) == s.current # NONE /\ table \in DOMAIN s.dbs[s.current]
TableOf(s, table) == s.dbs[s.current][table]

\* f with x under the name n.
With(f, n, x) == [m \in DOMAIN f \union {n} |-> IF m = n THEN x ELSE f[m]]

createDatabase(s, name) ==
    IF name \in DOMAIN s.dbs THEN s ELSE [s EXCEPT !.dbs = With(@, name, <<>>)]

dropDatabase(s, name) ==
    [s EXCEPT !.dbs = [n \in DOMAIN @ \ {name} |-> @[n]],
              !.current = IF @ = name THEN NONE ELSE @]

useDatabase(s, name) == IF name \in DOMAIN s.dbs THEN [s EXCEPT !.current = name] ELSE s

\* The tag of the key is the last field.
Table(columns, key) ==
    [fields |-> columns \o IF key = NONE THEN <<>> ELSE <<<<"$tag">> \o key>>,
     key |-> key, records |-> <<>>]

createTable(s, table, columns, key) ==
    IF Known(s, table) THEN s
    ELSE [s EXCEPT !.dbs[s.current] = With(@, table, Table(columns, key))]

\* Nothing is erased.
dropTable(s, table) == s

insert(s, table, record) ==
    [s EXCEPT !.dbs[s.current][table].records = Append(@, record), !.into = NONE]

-----------------------------------------------------------------------------
(* The client: which statements it forwards, and what it does to its catalogue.      *)

Named(s, t) ==
    IF s.columns = <<>> THEN SelectSeq(t.fields, LAMBDA f : ~IsBucketTag(f)) ELSE s.columns

\* The values typed are literals that fit their columns.  The code looks at them when the
\* command is sent already, and who refuses then leaves the servers waiting for a record.
clientInsert(s, me) ==
    /\ Known(me, s.table)
    /\ LET t == TableOf(me, s.table)
       IN  /\ t.key # NONE
           /\ Len(Named(s, t)) = Len(s.values)
           /\ Range(Named(s, t)) \subseteq Range(t.fields)

\* A column of a join has the table's name in front.
FieldsOf(me, table) == Range(TableOf(me, table).fields)
AliasFields(me, table) == {<<table>> \o f : f \in FieldsOf(me, table)}
SelectedFields(s, t) == IF s.fields = {} THEN Range(t.fields) ELSE s.fields

clientHandleFilter(s, me) ==
    {c.field : c \in s.where} \subseteq
        IF s.op = "join" THEN AliasFields(me, s.table) \union AliasFields(me, s.with)
        ELSE FieldsOf(me, s.table)

clientHandleOrder(s, me) ==
    Cardinality(s.order) <= 1 /\ {o.field : o \in s.order} \subseteq FieldsOf(me, s.table)

\* The columns of a join are looked for by their names without the table's: only * is found.
clientHandleJoin(s, me) ==
    /\ Known(me, s.table) /\ Known(me, s.with) /\ s.fields = {}
    /\ s.on[1] \in FieldsOf(me, s.table) /\ s.on[2] \in FieldsOf(me, s.with)

clientSelect(s, me) ==
    IF s.op = "join" THEN clientHandleJoin(s, me) /\ clientHandleFilter(s, me)
    ELSE /\ Known(me, s.table) /\ s.fields \subseteq FieldsOf(me, s.table)
         /\ clientHandleFilter(s, me) /\ clientHandleOrder(s, me)

clientCreateOrDeleteDb(s, me) == (s.op = "drop database") = (s.name \in DOMAIN me.dbs)
clientUseDb(s, me) == s.name \in DOMAIN me.dbs
clientCreateTable(s, me) == me.current # NONE /\ ~Known(me, s.table) /\ s.supported
clientDropTable(s, me) == Known(me, s.table)

Accepts(s, me) ==
    CASE s.op \in {"create database", "drop database"} -> clientCreateOrDeleteDb(s, me)
      [] s.op = "use" -> clientUseDb(s, me)
      [] s.op = "create table" -> clientCreateTable(s, me)
      [] s.op = "drop table" -> clientDropTable(s, me)
      [] s.op = "insert" -> clientInsert(s, me)
      [] s.op \in {"select", "join"} -> clientSelect(s, me)
      [] s.op = "exit" -> TRUE
      [] OTHER -> FALSE

Catalogued(s, me) ==
    CASE s.op = "create database" -> createDatabase(me, s.name)
      [] s.op = "drop database" -> dropDatabase(me, s.name)
      [] s.op = "use" -> useDatabase(me, s.name)
      [] s.op = "create table" -> createTable(me, s.table, s.columns, s.key)
      [] s.op = "drop table" -> dropTable(me, s.table)
      [] OTHER -> me

\* Mutant of Record: the columns named in the statement are forgotten.
RecordInOrder(s, t) ==
    [f \in Range(t.fields) |->
        LET i == CHOOSE i \in 1 .. Len(t.fields) : t.fields[i] = f
        IN  IF i <= Len(s.values) THEN s.values[i] ELSE 0]

\* A column that gets no value is zero, but for the tag: it is the key's hash.
Record(s, t) ==
    LET named == Named(s, t)
        value(f) == IF f \in Range(named)
                    THEN s.values[CHOOSE i \in 1 .. Len(named) : named[i] = f] ELSE 0
    IN  [f \in Range(t.fields) |-> IF IsBucketTag(f) THEN hash(value(t.key)) ELSE value(f)]

ToBoth(m) == <<<<0, m>>, <<1, m>>>>
FromBoth(kind) == <<<<0, kind>>, <<1, kind>>>>

\* notifyServersSync, and around it the record of an INSERT and the rows of a SELECT.
Messages(s, me) ==
    IF s.op = "insert"
    THEN ToBoth(Command(s)) \o
         ToBoth([kind |-> "share", id |-> sent.shared + 1, row |-> Record(s, TableOf(me, s.table))])
    ELSE ToBoth(Command(s))

\* Mutant of Answers: after the rows nobody waits for the servers.
AnswersRowsOnly(s) == IF s.op \in {"select", "join"} THEN FromBoth("rows") ELSE FromBoth("done")

Answers(s) == (IF s.op \in {"select", "join"} THEN FromBoth("rows") ELSE <<>>) \o FromBoth("done")

Idle == outbox = <<>> /\ expect = <<>>

-----------------------------------------------------------------------------
(* A server.                                                                  *)

\* Mutant of Serve: a server does not know "use".
ServeWithoutUse(s, m) ==
    IF m.kind = "share" THEN insert(s, s.into, m)
    ELSE IF m.stmt.op = "insert" THEN [s EXCEPT !.into = m.stmt.table]
    ELSE IF m.stmt.op = "use" /\ s.current # NONE THEN s
    ELSE Catalogued(m.stmt, s)

\* The catalogue after a message.
Serve(s, m) ==
    IF m.kind = "share" THEN insert(s, s.into, m)
    ELSE IF m.stmt.op = "insert" THEN [s EXCEPT !.into = m.stmt.table]
    ELSE Catalogued(m.stmt, s)

\* Mutant of Said: an INSERT is not acknowledged.
SaidOfCommands(m) ==
    IF m.kind = "share" THEN <<>>
    ELSE CASE m.stmt.op \in {"insert", "select", "join"} -> <<>>
           [] m.stmt.op = "exit" -> <<DONE, DONE>>
           [] OTHER -> <<DONE>>

Said(m) ==
    IF m.kind = "share" THEN <<DONE>>
    ELSE CASE m.stmt.op \in {"insert", "select", "join"} -> <<>>
           [] m.stmt.op = "exit" -> <<DONE, DONE>>
           [] OTHER -> <<DONE>>

-----------------------------------------------------------------------------
Init ==
    /\ \E approx \in Compactions :
           conf = [baseline |-> FALSE, approx |-> approx, noCompaction |-> FALSE,
                   batch |-> 0, buckets |-> 32]
    /\ sys = [p \in Servers \union {CLIENT} |-> [dbs |-> <<>>, current |-> NONE, into |-> NONE]]
    /\ busy = [p \in Servers |-> NONE]
    /\ chan = [l \in Links |-> <<>>]
    /\ outbox = <<>> /\ expect = <<>> /\ got = <<>>
    /\ opening \in Openings /\ typed = 0 /\ todo = <<>>
    /\ sent = [shared |-> 0, exited |-> FALSE, late |-> FALSE]
    /\ stmt = NONE /\ reply = Reply("OK")

\* LocalServer reads a command once the one before it is answered.
ReadCommand ==
    /\ Idle /\ todo = <<>>
    /\ IF opening # <<>>
       THEN todo' = Head(opening) /\ opening' = Tail(opening) /\ typed' = typed
       ELSE /\ typed < MaxCommands /\ typed' = typed + 1
            /\ todo' \in Commands /\ opening' = opening
    /\ UNCHANGED <<conf, sys, busy, chan, outbox, expect, got, sent, stmt, reply>>

\* The statements of a command that follow a refused one are not executed.
Refuse ==
    /\ Idle /\ todo # <<>>
    /\ ~Accepts(Head(todo), sys[CLIENT])
    /\ stmt' = Head(todo) /\ reply' = Reply("Failed") /\ todo' = <<>>
    /\ UNCHANGED <<conf, sys, busy, chan, outbox, expect, got, sent, userVars>>

\* The client executes a statement: its own catalogue first, then the messages.
clientExecute ==
    /\ Idle /\ todo # <<>>
    /\ LET s == Head(todo)
           me == sys[CLIENT]
       IN  /\ Accepts(s, me)
           /\ outbox' = Messages(s, me) /\ expect' = Answers(s) /\ got' = <<>>
           /\ sys' = [sys EXCEPT ![CLIENT] = Catalogued(s, me)]
           /\ sent' = [shared |-> sent.shared + (IF s.op = "insert" THEN 1 ELSE 0),
                       exited |-> sent.exited \/ s.op = "exit",
                       late |-> sent.late \/ (sent.exited /\ s.op \in {"select", "join"})]
           /\ stmt' = s /\ reply' = Reply("waits") /\ todo' = Tail(todo)
    /\ UNCHANGED <<conf, busy, chan, userVars>>

ClientSends ==
    /\ outbox # <<>>
    /\ LET to == Head(outbox)[1]
       IN  chan' = [chan EXCEPT ![<<CLIENT, to>>] = Append(@, Head(outbox)[2])]
    /\ outbox' = Tail(outbox)
    /\ UNCHANGED <<conf, sys, busy, expect, got, sent, todo, userVars, stmt, reply>>

\* The client adds the shares of a result; two sharings that are not of one record would
\* show noise.  It answers when both servers are done.
Opened(rows0, rows1) ==
    [i \in 1 .. Len(rows0) |-> IF rows0[i].id = rows1[i].id THEN rows0[i].row ELSE "noise"]

\* A message that is too short for a row, as a "done" is, shows as no rows; a number
\* received is not looked at.
RowsOf(m) == IF m.kind = "rows" THEN m.rows ELSE <<>>

\* A receive takes what comes first, whatever it is.
ClientReceives ==
    /\ outbox = <<>> /\ expect # <<>>
    /\ LET from == Head(expect)[1]
           box == chan[<<from, CLIENT>>]
           more == Tail(expect)
       IN  /\ box # <<>>
           /\ chan' = [chan EXCEPT ![<<from, CLIENT>>] = Tail(@)]
           /\ expect' = more
           /\ got' = IF Head(expect)[2] = "rows" THEN Append(got, RowsOf(Head(box))) ELSE got
           /\ reply' = IF more # <<>> THEN reply
                       ELSE IF got = <<>> THEN Reply("OK")
                       ELSE [kind |-> "OK", rows |-> Opened(got[1], got[2])]
    /\ UNCHANGED <<conf, sys, busy, outbox, sent, todo, userVars, stmt>>

\* What a server expects next, a record or a command.
Expected(p) == IF sys[p].into = NONE THEN "command" ELSE "share"

ServerReceives(p) ==
    /\ busy[p] = NONE /\ chan[<<CLIENT, p>>] # <<>>
    /\ LET m == Head(chan[<<CLIENT, p>>])
       IN  /\ m.kind = Expected(p)
           /\ sys' = [sys EXCEPT ![p] = Serve(@, m)]
           /\ busy' = IF m.kind = "command" /\ m.stmt.op \in {"select", "join"}
                      THEN [busy EXCEPT ![p] = m.stmt] ELSE busy
           /\ chan' = [chan EXCEPT ![<<CLIENT, p>>] = Tail(@), ![<<p, CLIENT>>] = @ \o Said(m)]
    /\ UNCHANGED <<conf, outbox, expect, got, sent, todo, userVars, stmt, reply>>

-----------------------------------------------------------------------------
(* SELECT on the servers.                                                     *)

Rows(rows) == [kind |-> "rows", rows |-> rows]

\* Every row of the columns asked for.  No condition is looked at.
Columns(row, fields) == [f \in fields |-> row[f]]

\* Without an order each server sends its shares as they are.
serverSelectTable(p) ==
    /\ busy[p] # NONE /\ busy[p].op = "select" /\ busy[p].order = {}
    /\ LET t == TableOf(sys[p], busy[p].table)
           share(i) == [id |-> t.records[i].id,
                        row |-> Columns(t.records[i].row, SelectedFields(busy[p], t))]
       IN  chan' = [chan EXCEPT ![<<p, CLIENT>>] =
                        @ \o <<Rows(Tabulate(Len(t.records), share)), DONE>>]
    /\ busy' = [busy EXCEPT ![p] = NONE]
    /\ UNCHANGED <<conf, sys, outbox, expect, got, sent, todo, userVars, stmt, reply>>

\* The views of the servers together: their shares of one record are of one number.
Paired(table) ==
    LET a == TableOf(sys[0], table).records
        b == TableOf(sys[1], table).records
    IN  /\ Len(a) = Len(b)
        /\ \A i \in 1 .. Len(a) : a[i].id = b[i].id /\ a[i].row = b[i].row

\* The table as a view of the fields, which have the prefix in front.
ViewOf(table, prefix, fields) ==
    LET t == TableOf(sys[0], table)
        names == {prefix \o g : g \in fields}
        row(i) == [f \in names |-> t.records[i].row[CHOOSE g \in fields : prefix \o g = f]]
        valid(i) == VALID_COL_NAME :> 1 @@ PADDING_COL_NAME :> 0 @@ row(i)
    IN  [name |-> table, fields |-> names, rows |-> Tabulate(Len(t.records), valid)]

\* selectColumns makes all rows valid again.
FreshShares(v) ==
    Tabulate(rowNum(v), LAMBDA i : [id |-> 0, row |-> Columns(v.rows[i], v.fields)])

SortedTable(s) ==
    LET v == ViewOf(s.table, <<>>, SelectedFields(s, TableOf(sys[0], s.table)))
        o == CHOOSE o \in s.order : TRUE
    IN  Sort(v, <<o.field>>, <<o.ascending>>)

\* The filters of each table come before the join.  The fields have the table's name in
\* front already and get it a second time, so that none of those asked for is found and
\* all are sent, in the order in which the client reads them.
Joined(s) ==
    LET filtered(t) ==
            LET fields == Range(TableOf(sys[0], t).fields)
                v == ViewOf(t, <<t>>, fields)
                mine == {c \in s.where : c.field[1] = t}
            IN  IF mine = {} THEN v ELSE filterAndConditions(v, mine, TRUE)
        joined == hashJoin(filtered(s.table), filtered(s.with),
                           <<s.table>> \o s.on[1], <<s.with>> \o s.on[2], TRUE)
        asRead(row) == [f \in {Tail(g) : g \in joined.fields} |-> row[<<f[1]>> \o f]]
    IN  Tabulate(rowNum(joined), LAMBDA i : [id |-> 0, row |-> asRead(joined.rows[i])])

\* The servers sort and join together, when both have the statement.
serverSelect ==
    /\ busy[0] # NONE /\ busy[0] = busy[1]
    /\ LET s == busy[0]
           result == IF s.op = "join" THEN Joined(s) ELSE FreshShares(SortedTable(s))
       IN  /\ s.op = "select" => s.order # {}
           /\ Paired(s.table) /\ (s.op = "join" => Paired(s.with))
           /\ chan' = [l \in Links |->
                  IF l[2] = CLIENT THEN chan[l] \o <<Rows(result), DONE>> ELSE chan[l]]
    /\ busy' = [p \in Servers |-> NONE]
    /\ UNCHANGED <<conf, sys, outbox, expect, got, sent, todo, userVars, stmt, reply>>

Next ==
    \/ ReadCommand \/ Refuse \/ clientExecute \/ ClientSends \/ ClientReceives
    \/ \E p \in Servers : ServerReceives(p) \/ serverSelectTable(p)
    \/ serverSelect

Works ==
    \/ Refuse \/ clientExecute \/ ClientSends \/ ClientReceives
    \/ serverSelect

Fairness ==
    /\ WF_vars(Works)
    /\ \A p \in Servers : WF_vars(ServerReceives(p)) /\ WF_vars(serverSelectTable(p))

Spec == Init /\ [][Next]_vars /\ Fairness

-----------------------------------------------------------------------------
(* Properties.                                                                *)

\* The catalogue of a server when it will have served those messages that are its own.
Takes(p, s, m) == IF m[1] = p THEN Serve(s, m[2]) ELSE s
Served(p, s, messages) == FoldLeft(LAMBDA c, m : Takes(p, c, m), s, messages)

\* What is under way to it, and what the client has still to send to both.
UnderWay(p) ==
    LET inbox == chan[<<CLIENT, p>>]
    IN  [i \in 1 .. Len(inbox) |-> <<p, inbox[i]>>] \o outbox

CaughtUp(p) == Served(p, sys[p], UnderWay(p))

\* Without the records.
Schema(s) ==
    [current |-> s.current,
     dbs |-> [n \in DOMAIN s.dbs |-> [t \in DOMAIN s.dbs[n] |->
                [fields |-> s.dbs[n][t].fields, key |-> s.dbs[n][t].key]]]]

\* Each process keeps its own catalogue and checks it by itself.  Whatever is under way,
\* the servers are going to hold shares of the same records in the same tables, and the
\* tables the client knows.
CataloguesAgree ==
    /\ CaughtUp(0) = CaughtUp(1)
    /\ Schema(CaughtUp(0)) = Schema(sys[CLIENT])

\* Everything has tag 0, and a receive takes what comes first: it is always what the
\* receiver waits for, never a command for a share or a "done" for rows.
ServerReads(p) ==
    busy[p] = NONE /\ chan[<<CLIENT, p>>] # <<>> => Head(chan[<<CLIENT, p>>]).kind = Expected(p)

ClientReads ==
    outbox = <<>> /\ expect # <<>> =>
        LET box == chan[<<Head(expect)[1], CLIENT>>]
        IN  box # <<>> => Head(box).kind = Head(expect)[2]

NothingMisread == ClientReads /\ \A p \in Servers : ServerReads(p)

\* What is true of the program: the servers never misread, and the client does not before
\* somebody selects after an exit, which the servers answer twice and the client awaits once.
ReadInStep == (~sent.late => ClientReads) /\ \A p \in Servers : ServerReads(p)

\* Client and servers together are one database that executes a statement at a time: its
\* state is what the servers are going to hold, the hidden columns left out.
Plain(row) == [f \in {g \in DOMAIN row : "$tag" \notin Range(g)} |-> row[f]]

AsTable(t) ==
    [columns |-> SelectSeq(t.fields, LAMBDA f : ~IsBucketTag(f)), key |-> t.key,
     rows |-> [i \in 1 .. Len(t.records) |-> Plain(t.records[i].row)]]

AsDatabases(dbs) == [n \in DOMAIN dbs |-> [t \in DOMAIN dbs[n] |-> AsTable(dbs[n][t])]]

Database ==
    INSTANCE Sql WITH
        dbs <- AsDatabases(CaughtUp(0).dbs), current <- CaughtUp(0).current, stmt <- stmt,
        reply <- [reply EXCEPT !.rows = [i \in 1 .. Len(@) |-> Plain(@[i])]]

sqlVars == Database!vars

\* Where the service shows more rows than SQL has: WHERE is never applied to one table,
\* and a join by approximate compaction shows rows that it found invalid.
Overfull(s) == (s.op = "select" /\ s.where # {}) \/ (s.op = "join" /\ conf.approx)

\* Every other SELECT shows exactly the rows asked for, unless it follows an exit.
ImplementsSql ==
    /\ Database!Init
    /\ [][\/ Database!Next
          \/ Database!AnswerMore /\ Overfull(stmt)
          \/ Database!AnswerAny /\ sent.late]_sqlVars

\* Every statement the client accepts is answered: no two processes wait for each other.
Answered == reply.kind = "waits" ~> reply.kind # "waits"

==============================================================================
