------------------------------- MODULE Views -------------------------------
(***************************************************************************)
(* The operators of the database that make a view of tables and of other    *)
(* views (Views.cpp): scans, joins and membership.                          *)
(***************************************************************************)
EXTENDS View, SequencesExt

Precise == ~conf.baseline /\ ~conf.approx

-----------------------------------------------------------------------------
hash(keyValue) == (keyValue * 31 + 17) % conf.buckets

\* A table keeps the hash of its key column beside it.
WithTag(row, key) ==
    (<<"$tag">> \o key) :> hash(row[key]) @@ VALID_COL_NAME :> 1 @@ PADDING_COL_NAME :> 0 @@ row

selectAll(name, rows, key) ==
    [name |-> name,
     fields |-> UNION {DOMAIN rows[i] : i \in DOMAIN rows}
                \union (IF rows = <<>> THEN {key} ELSE {}) \union {<<"$tag">> \o key},
     rows |-> Tabulate(Len(rows), LAMBDA i : WithTag(rows[i], key))]

Decorate(table, field) ==
    IF IsBucketTag(field) THEN <<"$tag", table>> \o Tail(field) ELSE <<table>> \o field

Decorated(v) == {Decorate(v.name, f) : f \in v.fields}
Undecorated(v, field) == CHOOSE f \in v.fields : Decorate(v.name, f) = field

\* All pairs of rows; a pair is valid if the keys are equal and both rows are valid,
\* which nobody asks if compaction is precise.
nestedLoopJoin(v0, v1, field0, field1, compress) ==
    LET n1 == rowNum(v1)
        left(i) == v0.rows[(i - 1) \div n1 + 1]
        right(i) == v1.rows[((i - 1) % n1) + 1]
        equal(i) == Bit(left(i)[field0] = right(i)[field1])
        both(i) == And(left(i)[VALID_COL_NAME], right(i)[VALID_COL_NAME])
        pair(i) == [f \in Decorated(v0) \union Decorated(v1) \union RedundantCols |->
                       CASE f = VALID_COL_NAME -> IF Precise THEN equal(i)
                                                  ELSE And(equal(i), both(i))
                         [] f = PADDING_COL_NAME -> 0
                         [] f \in Decorated(v0) -> left(i)[Undecorated(v0, f)]
                         [] OTHER -> right(i)[Undecorated(v1, f)]]
        joined == [name |-> "", fields |-> Decorated(v0) \union Decorated(v1),
                   rows |-> Tabulate(rowNum(v0) * n1, pair)]
    IN  IF compress THEN clearInvalidEntries(joined, TRUE) ELSE joined

\* The rows go through a butterfly network to the bucket of their tag.  At a layer two
\* buckets are put together and each keeps the rows with its bit; the others are made
\* zero, the valid column too, and cleared.
butterflyPermutation(v, tag) ==
    LET B == conf.buckets
        layers == CHOOSE e \in 0 .. B : 2 ^ e = B
        bit(x, p) == (x \div 2 ^ p) % 2
        low(b, l) == b - bit(b, l) * 2 ^ l
        zero == [f \in v.fields \union RedundantCols |-> 0]
        keep(rows, l, wanted) ==
            [v EXCEPT !.rows = Tabulate(Len(rows), LAMBDA i :
                IF bit(rows[i][tag], layers - l - 1) = wanted THEN rows[i] ELSE zero)]
        after[l \in 0 .. layers, b \in 0 .. B - 1] ==
            IF l = 0 THEN LET mine == {i \in 1 .. rowNum(v) : (i - 1) % B = b}
                          IN  Tabulate(Cardinality(mine), LAMBDA i : v.rows[(i - 1) * B + b + 1])
            ELSE LET l1 == l - 1
                     merged == after[l1, low(b, l1)] \o after[l1, low(b, l1) + 2 ^ l1]
                 IN  clearInvalidEntries(keep(merged, l1, 1 - bit(b, l1)), TRUE).rows
    IN  [b \in 0 .. B - 1 |-> after[layers, b]]

\* The joins of the buckets, one after the other.  Without a row the tags do not get
\* the names they have otherwise.
performBucketJoins(buckets0, buckets1, v0, v1, field0, field1, compress) ==
    LET join(b) == nestedLoopJoin([v0 EXCEPT !.rows = buckets0[b]],
                                  [v1 EXCEPT !.rows = buckets1[b]], field0, field1, compress)
        rows == FlattenSeq(Tabulate(conf.buckets, LAMBDA b : join(b - 1).rows))
        prefixed(v) == {<<v.name>> \o f : f \in v.fields}
    IN  [name |-> "", rows |-> rows,
         fields |-> IF rows = <<>> THEN prefixed(v0) \union prefixed(v1)
                    ELSE Decorated(v0) \union Decorated(v1)]

hashJoin(v0, v1, field0, field1, compress) ==
    LET tags(v) == {f \in v.fields : IsBucketTag(f)}
        buckets(v) == butterflyPermutation(v, CHOOSE f \in tags(v) : TRUE)
    IN  IF conf.baseline \/ tags(v0) = {} \/ tags(v1) = {}
        THEN nestedLoopJoin(v0, v1, field0, field1, compress)
        ELSE performBucketJoins(buckets(v0), buckets(v1), v0, v1, field0, field1, compress)

\* Is row i of v0 equal to row j of v1, and that one valid?
EqualPair(v0, field0, v1, field1, i, j) ==
    LET e == Bit(v0.rows[i][field0] = v1.rows[j][field1])
    IN  IF Precise THEN e ELSE And(e, validCol(v1)[j])

\* For every row of v0: is it valid and its value in the column of v1?
in(v0, field0, v1, field1) ==
    LET found(i) == Bit(\E j \in 1 .. rowNum(v1) : EqualPair(v0, field0, v1, field1, i, j) = 1)
    IN  Tabulate(rowNum(v0), LAMBDA i :
            IF Precise THEN found(i) ELSE And(found(i), validCol(v0)[i]))

\* The join, and behind it the valid rows of v0 that are not in v1, with zeros for the
\* columns of v1.  A column says which rows are of the join.
leftOuterJoin(v0, v1, field0, field1, doHashJoin, compress) ==
    LET joined == IF doHashJoin THEN hashJoin(v0, v1, field0, field1, compress)
                  ELSE nestedLoopJoin(v0, v1, field0, field1, compress)
        match == OuterMatch(v1.name)
        matched == InsertColumn(joined, match, validCol(joined))
        notHas(i) == And(Not(in(v0, field0, v1, field1)[i]), validCol(v0)[i])
        nameIn(v, f) == IF Decorate(v.name, f) \in joined.fields THEN Decorate(v.name, f)
                        ELSE <<v.name>> \o f
        padded(i) == [f \in matched.fields \union RedundantCols |->
                         IF f = VALID_COL_NAME THEN notHas(i)
                         ELSE IF \E g \in v0.fields : f = nameIn(v0, g)
                         THEN v0.rows[i][CHOOSE g \in v0.fields : f = nameIn(v0, g)]
                         ELSE 0]
        leftOnly == [matched EXCEPT !.rows = Tabulate(rowNum(v0), padded)]
    IN  [matched EXCEPT
            !.rows = @ \o IF compress THEN clearInvalidEntries(leftOnly, TRUE).rows
                          ELSE leftOnly.rows]

=============================================================================
