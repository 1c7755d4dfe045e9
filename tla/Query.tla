------------------------------- MODULE Query -------------------------------
(***************************************************************************)
(* What the operators of the database promise: relational algebra on bags   *)
(* of rows.  Every statement turns the bag rel into the bag that SQL says;  *)
(* where SQL leaves a choice (which row stands for its group, the order of  *)
(* the rows) the action leaves it too.                                      *)
(***************************************************************************)
EXTENDS Integers, Sequences, FiniteSets, FiniteSetsExt

VARIABLES
    rel,    \* the bag: for every row in it the number of times it is there
    other,  \* the bag of the second table, which joins and IN look at
    stmt    \* the statement executed last

Rows == DOMAIN rel
Size(bag) == MapThenSumSet(LAMBDA r : bag[r], DOMAIN bag)
Sub(bag, Keep(_)) == [r \in {x \in DOMAIN bag : Keep(x)} |-> bag[r]]
Columns(row, fields) == [f \in fields |-> row[f]]

\* The bag of the images of the rows.
Image(bag, F(_)) ==
    [y \in {F(r) : r \in DOMAIN bag} |-> Size(Sub(bag, LAMBDA r : F(r) = y))]

\* The groups: sets of rows that agree on the fields.
Groups(fields) ==
    {{r \in Rows : \A f \in fields : r[f] = s[f]} : s \in Rows}

\* Every row of the result belongs to one group, and every group has one.
OneRowPerGroup(fields, Fits(_, _)) ==
    /\ \A g \in Groups(fields) :
           Cardinality({r \in DOMAIN rel' : Fits(r, g)}) = 1
    /\ \A r \in DOMAIN rel' :
           rel'[r] = 1 /\ \E g \in Groups(fields) : Fits(r, g)

Holds(row, c) ==
    LET x == row[c.field]
    IN  CASE c.cmp = "GREATER" -> x > c.const [] c.cmp = "LESS_EQ"    -> x <= c.const
          [] c.cmp = "LESS"    -> x < c.const [] c.cmp = "GREATER_EQ" -> x >= c.const
          [] c.cmp = "EQUALS"  -> x = c.const [] c.cmp = "NOT_EQUALS" -> x # c.const

Qualified(table, row) ==
    [f \in {<<table>> \o g : g \in DOMAIN row} |-> row[Tail(f)]]

-----------------------------------------------------------------------------
Init == stmt = [op |-> "scan"]

Where ==
    /\ stmt'.op = "where"
    /\ rel' = Sub(rel, LAMBDA r : \A c \in stmt'.conditions : Holds(r, c))

WhereIn ==
    /\ stmt'.op = "in"
    /\ rel' = Sub(rel, LAMBDA r : \E s \in DOMAIN other : r[stmt'.left] = s[stmt'.right])

Select ==
    /\ stmt'.op = "select"
    /\ rel' = Image(rel, LAMBDA r : Columns(r, stmt'.fields))

\* The order of the rows is not part of the bag.
Reorder ==
    /\ stmt'.op = "sort"
    /\ rel' = rel

\* SELECT fields, COUNT(*) AS alias ... GROUP BY fields; of a table's field after an
\* outer join the matched rows count.
Count ==
    /\ stmt'.op = "count"
    /\ LET counted(g) == Size(Sub(rel, LAMBDA r : r \in g /\ \A m \in stmt'.match : r[m] = 1))
       IN  OneRowPerGroup(stmt'.by, LAMBDA r, g :
               /\ r[stmt'.alias] = counted(g)
               /\ \E s \in g : Columns(r, DOMAIN r \ {stmt'.alias}) =
                               Columns(s, DOMAIN r \ {stmt'.alias}))

\* The extrema of columns by group: the other columns are those of one of its rows.
Extrema ==
    /\ stmt'.op = "extrema"
    /\ LET aliases == {e.alias : e \in stmt'.wanted}
           extremum(g, e) == LET xs == {s[e.field] : s \in g}
                             IN  IF e.kind = "max" THEN Max(xs) ELSE Min(xs)
       IN  OneRowPerGroup(stmt'.by, LAMBDA r, g :
               /\ Columns(r, DOMAIN r \ aliases) \in g
               /\ \A e \in stmt'.wanted : r[e.alias] = extremum(g, e))

Distinct ==
    /\ stmt'.op = "distinct"
    /\ rel' = [r \in Rows |-> 1]

Pairs(kept(_, _)) ==
    LET joined(l, r) == [f \in DOMAIN Qualified("R", l) \union DOMAIN Qualified("S", r) |->
                             IF f[1] = "R" THEN l[Tail(f)] ELSE r[Tail(f)]]
    IN  {<<joined(p[1], p[2]), rel[p[1]] * other[p[2]]>> :
             p \in {q \in Rows \X DOMAIN other : kept(q[1], q[2])}}

BagOfPairs(pairs) == [r \in {p[1] : p \in pairs} |-> (CHOOSE p \in pairs : p[1] = r)[2]]

Join ==
    /\ stmt'.op = "join"
    /\ rel' = BagOfPairs(Pairs(LAMBDA l, r : l[stmt'.left] = r[stmt'.right]))

\* The rows without a partner stay, with zeros where SQL has NULL; the column match
\* tells them from the others.
OuterJoin ==
    /\ stmt'.op = "outer"
    /\ LET partner(l, r) == l[stmt'.left] = r[stmt'.right]
           alone == {l \in Rows : \A r \in DOMAIN other : ~partner(l, r)}
           mark(r, x) == [f \in DOMAIN r \union {stmt'.match} |->
                              IF f = stmt'.match THEN x ELSE r[f]]
           pad(l) == [f \in DOMAIN Qualified("R", l) \union stmt'.nulls |->
                          IF f \in stmt'.nulls THEN 0 ELSE l[Tail(f)]]
       IN  rel' = BagOfPairs({<<mark(p[1], 1), p[2]>> : p \in Pairs(partner)}
                             \union {<<mark(pad(l), 0), rel[l]>> : l \in alone})

Next ==
    \/ Where \/ WhereIn \/ Select \/ Reorder \/ Count \/ Extrema \/ Distinct
    \/ Join \/ OuterJoin

Spec == Init /\ [][Next /\ UNCHANGED other]_<<rel, other, stmt>>
=============================================================================
