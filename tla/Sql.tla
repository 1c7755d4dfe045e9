--------------------------------- MODULE Sql ---------------------------------
(***************************************************************************)
(* What the database service promises to its user: one catalogue, changed   *)
(* by one statement at a time, each refused or answered.  An answer to a    *)
(* SELECT has the rows asked for, as often as the tables have them.         *)
(***************************************************************************)
EXTENDS Integers, Sequences, FiniteSets, SequencesExt

CONSTANT NONE

VARIABLES
    dbs,        \* databases: name -> (table -> [columns, key, rows])
    current,    \* the database in use
    stmt,       \* the statement executed last
    reply       \* its answer: [kind, rows]; the kind is "waits", "OK" or "Failed"

vars == <<dbs, current, stmt, reply>>

Tables == dbs[current]
Columns(t) == Range(t.columns)
Reply(kind) == [kind |-> kind, rows |-> << >>]

\* The number of times an element is in a sequence.
Times(x, seq) == Cardinality({i \in 1 .. Len(seq) : seq[i] = x})
FitsIn(s, t) == \A i \in 1 .. Len(s) : Times(s[i], s) <= Times(s[i], t)
SameBag(s, t) == FitsIn(s, t) /\ FitsIn(t, s)

Holds(x, c) ==
    CASE c.cmp = "EQUALS" -> x = c.const
      [] c.cmp = "NOT_EQUALS" -> x # c.const

-----------------------------------------------------------------------------
(* SELECT. *)

Shown(s, t) == IF s.fields = {} THEN Columns(t) ELSE s.fields

\* The rows of a table, and those that WHERE keeps.
TableRows(s) ==
    LET t == Tables[s.table]
    IN  [i \in 1 .. Len(t.rows) |-> [f \in Shown(s, t) |-> t.rows[i][f]]]

WantedOfTable(s) ==
    LET t == Tables[s.table]
        wanted == SelectSeq(t.rows, LAMBDA r : \A c \in s.where : Holds(r[c.field], c))
    IN  [i \in 1 .. Len(wanted) |-> [f \in Shown(s, t) |-> wanted[i][f]]]

\* A field is a sequence of names: that of a join has the table's in front.
Both(s, l, r) ==
    [f \in {<<s.table>> \o c : c \in DOMAIN l} \union {<<s.with>> \o c : c \in DOMAIN r} |->
        IF f[1] = s.table THEN l[Tail(f)] ELSE r[Tail(f)]]

PairRows(s) ==
    LET ls == Tables[s.table].rows
        rs == Tables[s.with].rows
    IN  [i \in 1 .. Len(ls) * Len(rs) |->
            Both(s, ls[(i - 1) \div Len(rs) + 1], rs[((i - 1) % Len(rs)) + 1])]

WantedOfPairs(s) ==
    SelectSeq(PairRows(s), LAMBDA p :
        /\ p[<<s.table>> \o s.on[1]] = p[<<s.with>> \o s.on[2]]
        /\ \A c \in s.where : Holds(p[c.field], c))

InOrder(s, rows) ==
    \A o \in s.order, i \in 1 .. Len(rows) - 1 :
        IF o.ascending THEN rows[i][o.field] <= rows[i + 1][o.field]
                       ELSE rows[i + 1][o.field] <= rows[i][o.field]

Answers(s, rows) ==
    CASE s.op = "select" -> SameBag(rows, WantedOfTable(s)) /\ InOrder(s, rows)
      [] s.op = "join" -> SameBag(rows, WantedOfPairs(s))

\* No answer as SQL has it, but all rows asked for are there and others that the tables have.
AnswersMore(s, rows) ==
    CASE s.op = "select" ->
            FitsIn(WantedOfTable(s), rows) /\ FitsIn(rows, TableRows(s)) /\ InOrder(s, rows)
      [] s.op = "join" -> FitsIn(WantedOfPairs(s), rows) /\ FitsIn(rows, PairRows(s))

-----------------------------------------------------------------------------
Init ==
    /\ dbs = << >> /\ current = NONE
    /\ stmt = NONE /\ reply = Reply("OK")

\* What a statement needs.  A table without a key takes no rows, and who gives values
\* gives one for each column named.
Named(s, t) == IF s.columns = << >> THEN t.columns ELSE s.columns

Known(table) == current # NONE /\ table \in DOMAIN dbs[current]

Possible(s) ==
    CASE s.op = "create database" -> s.name \notin DOMAIN dbs
      [] s.op \in {"drop database", "use"} -> s.name \in DOMAIN dbs
      [] s.op = "create table" -> current # NONE /\ ~Known(s.table) /\ s.supported
      [] s.op = "drop table" -> Known(s.table)
      [] s.op = "insert" ->
            /\ Known(s.table) /\ Tables[s.table].key # NONE
            /\ Range(s.columns) \subseteq Columns(Tables[s.table])
            /\ Len(s.values) = Len(Named(s, Tables[s.table]))
      [] s.op = "select" ->
            /\ Known(s.table)
            /\ LET used == s.fields \union {x.field : x \in s.where \union s.order}
               IN  used \subseteq Columns(Tables[s.table])
      [] s.op = "join" ->
            /\ Known(s.table) /\ Known(s.with) /\ s.fields = {}
            /\ LET left == Columns(Tables[s.table])
                   right == Columns(Tables[s.with])
                   both == {<<s.table>> \o c : c \in left} \union {<<s.with>> \o c : c \in right}
               IN  /\ s.on[1] \in left /\ s.on[2] \in right
                   /\ {c.field : c \in s.where} \subseteq both
      [] s.op = "exit" -> TRUE
      [] OTHER -> FALSE

Refuse ==
    /\ reply.kind # "waits" /\ reply' = Reply("Failed")
    /\ ~Possible(stmt')
    /\ UNCHANGED <<dbs, current>>

\* A statement is taken when the one before it is answered.
Take(op) ==
    /\ reply.kind # "waits" /\ reply' = Reply("waits")
    /\ stmt'.op = op /\ Possible(stmt')

CreateDatabase ==
    /\ Take("create database")
    /\ dbs' = (stmt'.name :> << >>) @@ dbs
    /\ UNCHANGED current

DropDatabase ==
    /\ Take("drop database")
    /\ dbs' = [n \in DOMAIN dbs \ {stmt'.name} |-> dbs[n]]
    /\ current' = IF current = stmt'.name THEN NONE ELSE current

UseDatabase ==
    /\ Take("use")
    /\ current' = stmt'.name
    /\ UNCHANGED dbs

CreateTable ==
    /\ Take("create table")
    /\ LET t == [columns |-> stmt'.columns, key |-> stmt'.key, rows |-> << >>]
       IN  dbs' = [dbs EXCEPT ![current] = (stmt'.table :> t) @@ @]
    /\ UNCHANGED current

\* The table is forgotten by nobody.
DropTable ==
    /\ Take("drop table")
    /\ UNCHANGED <<dbs, current>>

\* A column without a value gets zero.
Insert ==
    /\ Take("insert")
    /\ LET t == Tables[stmt'.table]
           named == Named(stmt', t)
           value(f) == IF f \in Range(named)
                       THEN stmt'.values[CHOOSE i \in 1 .. Len(named) : named[i] = f] ELSE 0
           row == [f \in Columns(t) |-> value(f)]
       IN  dbs' = [dbs EXCEPT ![current][stmt'.table].rows = Append(@, row)]
    /\ UNCHANGED current

Select ==
    /\ Take("select") \/ Take("join") \/ Take("exit")
    /\ UNCHANGED <<dbs, current>>

Reads(s) == s.op \in {"select", "join"}

Replies ==
    /\ reply.kind = "waits" /\ reply'.kind = "OK"
    /\ UNCHANGED <<dbs, current, stmt>>

Answer ==
    /\ Replies
    /\ IF Reads(stmt) THEN Answers(stmt, reply'.rows) ELSE reply'.rows = << >>

\* No steps of the specification: what is left of its promise for those who break it.
AnswerMore == Replies /\ Reads(stmt) /\ AnswersMore(stmt, reply'.rows)
AnswerAny == Replies /\ Reads(stmt)

Next ==
    \/ Refuse \/ CreateDatabase \/ DropDatabase \/ UseDatabase \/ CreateTable \/ DropTable
    \/ Insert \/ Select \/ Answer

Spec == Init /\ [][Next]_vars
==============================================================================
