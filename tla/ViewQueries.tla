----------------------------- MODULE ViewQueries -----------------------------
(***************************************************************************)
(* Sequences of statements on one view, as the queries of src/db/exp are:   *)
(* the operators of View and Views on two tables, one after the other; the  *)
(* second table is joined with the view or looked up in.                    *)
(***************************************************************************)
EXTENDS Views

CONSTANTS
    Setups,     \* [conf, first, second, length]: the configuration, the rows of the
                \*   two tables and, a bound, the number of statements
    Filters,    \* sets of conditions [field, cmp, const]
    Keys        \* the fields a statement groups, sorts and selects by: sequences

VARIABLES
    view,       \* the view of the statements
    second,     \* the view of the second table
    stmt,       \* the statement executed last
    remaining   \* how many may follow

vars == <<conf, view, second, stmt, remaining>>

------------------------------------------------------------------------------
(* Statements.  An operator works as SQL has it only if the calls before it left the  *)
(* view as it expects: the guards say when.  A column of a new name is added.         *)

Fields(key) == {key[c] : c \in 1 .. Len(key)}

\* A tag is no column of the query, even where an empty join hides that it is one.
Visible(v) == {f \in v.fields : "$tag" \notin Range(f)}
Has(key) == Fields(key) \subseteq view.fields
IsScan == \A f \in view.fields : IsBucketTag(f) \/ Len(f) = 1

Init ==
    \E setup \in Setups :
        /\ conf = setup.conf
        /\ view = selectAll("R", setup.first, <<"k">>)
        /\ second = selectAll("S", setup.second, <<"k">>)
        /\ stmt = [op |-> "scan"]
        /\ remaining = setup.length

Do(s, v) ==
    /\ remaining > 0
    /\ remaining' = remaining - 1
    /\ view' = v /\ stmt' = s
    /\ UNCHANGED <<conf, second>>

\* With precise compaction a filter overwrites the valid column: what is not cleared
\* would come back.
Where ==
    \E cs \in Filters, clear \in (IF Precise THEN {TRUE} ELSE BOOLEAN) :
        /\ \A c \in cs : c.field \in view.fields
        /\ Do([op |-> "where", conditions |-> cs], filterAndConditions(view, cs, clear))

\* The result of in() is made the valid column.
WhereIn ==
    \E key \in Keys :
        /\ Len(key) = 1 /\ Has(key)
        /\ LET found == in(view, key[1], second, <<"k">>)
           IN  Do([op |-> "in", left |-> key[1], right |-> <<"k">>],
                  clearInvalidEntries(SetValid(view, found), TRUE))

Select ==
    \E key \in Keys :
        /\ Has(key)
        /\ Do([op |-> "select", fields |-> Fields(key)], select(view, Fields(key)))

\* ORDER BY does not look at the valid column: who wants the valid rows first names it.
OrderBy ==
    \E key \in Keys, descending \in BOOLEAN :
        /\ Has(key)
        /\ LET ascending == [c \in 1 .. Len(key) |-> ~descending]
           IN  Do([op |-> "sort", fields |-> key, ascending |-> ascending],
                  Sort(view, key, ascending))

\* GROUP BY and an aggregate of the groups it finds, which fit into one batch.
Grouped(key) == GroupOrder(view, key)
InOneBatch(key) == ~InBatches(Grouped(key))

\* A single field of a table is counted where the outer join with it matched, but not
\* with precise compaction.
Count ==
    \E key \in Keys, compress \in (IF Precise THEN {TRUE} ELSE BOOLEAN) :
        LET g == Grouped(key)
            match == IF Len(key) = 1 /\ Len(key[1]) > 1
                     THEN {OuterMatch(key[1][1])} \intersect view.fields ELSE {}
        IN  /\ Has(key) /\ InOneBatch(key) /\ <<"count">> \notin view.fields
            /\ match # {} => ByValid
            /\ Do([op |-> "count", by |-> Fields(key), alias |-> <<"count">>, match |-> match],
                  count(g, key, GroupHeads(g, key), <<"count">>, compress))

Extreme(kinds, key, v) ==
    /\ Has(key) /\ InOneBatch(key) /\ <<"v">> \in view.fields
    /\ \A kind \in kinds : <<kind>> \notin view.fields
    /\ Do([op |-> "extrema", by |-> Fields(key),
            wanted |-> {[field |-> <<"v">>, alias |-> <<kind>>, kind |-> kind] : kind \in kinds}],
          v)

Minimum ==
    \E key \in Keys :
        LET g == Grouped(key)
        IN  Extreme({"min"}, key, min(g, <<"v">>, GroupHeads(g, key), <<"min">>))

Maximum ==
    \E key \in Keys :
        LET g == Grouped(key)
        IN  Extreme({"max"}, key, max(g, <<"v">>, GroupHeads(g, key), <<"max">>))

MinimumAndMaximum ==
    \E key \in Keys :
        LET g == Grouped(key)
        IN  Extreme({"min", "max"}, key,
                    minAndMax(g, <<"v">>, <<"v">>, GroupHeads(g, key), <<"min">>, <<"max">>))

\* The order of the fields decides only the order of the rows.
InSomeOrder(fields) == FoldSet(LAMBDA f, seq : Append(seq, f), <<>>, fields)

Distinct ==
    Do([op |-> "distinct"], distinct(view, InSomeOrder(view.fields)))

\* A view is joined while it still has its table's fields.
Join ==
    /\ IsScan /\ <<"k">> \in view.fields
    /\ \E compress \in (IF Precise THEN {TRUE} ELSE BOOLEAN), doHashJoin \in BOOLEAN :
           LET F(v0, v1) == IF doHashJoin THEN hashJoin(v0, v1, <<"k">>, <<"k">>, compress)
                            ELSE nestedLoopJoin(v0, v1, <<"k">>, <<"k">>, compress)
           IN  Do([op |-> "join", left |-> <<"k">>, right |-> <<"k">>], F(view, second))

LeftOuterJoin ==
    /\ IsScan /\ <<"k">> \in view.fields
    /\ \E compress \in (IF Precise THEN {TRUE} ELSE BOOLEAN), doHashJoin \in BOOLEAN :
           Do([op |-> "outer", left |-> <<"k">>, right |-> <<"k">>,
               match |-> OuterMatch("S"), nulls |-> {<<"S">> \o f : f \in Visible(second)}],
              leftOuterJoin(view, second, <<"k">>, <<"k">>, doHashJoin, compress))

Next ==
    \/ Where \/ WhereIn \/ Select \/ OrderBy \/ Count
    \/ Minimum \/ Maximum \/ MinimumAndMaximum
    \/ Distinct \/ Join \/ LeftOuterJoin

Spec == Init /\ [][Next]_vars

-----------------------------------------------------------------------------
(* Properties.                                                                *)

\* Rows have the fields of their view, the hidden columns are bits and no row pads.
WellFormed(v) ==
    \A i \in 1 .. rowNum(v) :
        /\ DOMAIN v.rows[i] = v.fields \union RedundantCols
        /\ v.rows[i][VALID_COL_NAME] \in {0, 1}
        /\ v.rows[i][PADDING_COL_NAME] = 0

TypeOK ==
    /\ \E setup \in Setups : conf = setup.conf /\ remaining \in 0 .. setup.length
    /\ WellFormed(view) /\ WellFormed(second)

\* What the operators rely on with precise compaction, where they do not look at the
\* valid column: every row of the view is valid.
PreciseMeansAllValid ==
    Precise => \A i \in 1 .. rowNum(view) : validCol(view)[i] = 1

\* The valid rows, as a bag of the visible fields.
Contents(v) ==
    LET shown == SelectSeq(v.rows, LAMBDA r : r[VALID_COL_NAME] = 1)
        row(i) == [f \in Visible(v) |-> shown[i][f]]
    IN  [r \in {row(i) : i \in 1 .. Len(shown)} |->
            Cardinality({i \in 1 .. Len(shown) : row(i) = r})]

\* The valid rows of the view are the result of the statements in relational algebra.
Q == INSTANCE Query WITH rel <- Contents(view), other <- Contents(second), stmt <- stmt
ImplementsQuery == Q!Spec

\* ORDER BY leaves the rows in order, the invalid ones among them too: a bitonic
\* network and its padding sort any number of rows.
OrderedBy(v, fields, ascending) ==
    \A i \in 1 .. rowNum(v) - 1 : ~Precedes(fields, ascending, v.rows[i + 1], v.rows[i])

SortedResult ==
    [][stmt'.op = "sort" => OrderedBy(view', stmt'.fields, stmt'.ascending)]_vars

\* Compaction by the leading bit alone drops no valid row and keeps at most two rows
\* for each, and two: what a statement that compacts returns.
ValidRows(v) == Cardinality({i \in 1 .. rowNum(v) : validCol(v)[i] = 1})

CompactedTwice ==
    [][/\ conf.approx /\ ~conf.noCompaction /\ stmt'.op \in {"in", "distinct", "extrema"}
       => LET valid == ValidRows(view')
          IN  rowNum(view') <= (IF valid <= 1 THEN 2 ELSE 2 * valid)]_vars

=============================================================================
