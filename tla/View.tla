-------------------------------- MODULE View --------------------------------
(***************************************************************************)
(* View: a table held as shares by the two servers, with a hidden column    *)
(* that says which rows are valid and a public one for the rows that pad a  *)
(* sort.  The columns are modelled by the secrets they share: every step on *)
(* secrets is one of the operators of primitives, whose result BoolAnd and  *)
(* Circuits check, and a step on a constant changes one server's share.     *)
(* A field name is a sequence of names: a join puts the table's in front.   *)
(***************************************************************************)
EXTENDS Integers, Sequences, FiniteSets, TLC

VARIABLES
    conf        \* DbConf and Conf: [baseline, approx, noCompaction : BOOLEAN,
                \*   batch, buckets : Nat]

VALID_COL_NAME == <<"$valid">>
PADDING_COL_NAME == <<"$padding">>
RedundantCols == {VALID_COL_NAME, PADDING_COL_NAME}
IsBucketTag(field) == field[1] = "$tag"
OuterMatch(table) == <<"$match", table>>

\* BASELINE || APPROX_COMPACT: the operators look at the valid column
ByValid == conf.baseline \/ conf.approx

\* Bits are 0 and 1.
Not(b) == 1 - b
And(a, b) == a * b
Or(a, b) == Not(And(Not(a), Not(b)))
Bit(p) == IF p THEN 1 ELSE 0
Mutex(c, x, y) == IF c = 1 THEN x ELSE y

\* The sequence <<e(1), ..., e(n)>>.
Tabulate(n, e(_)) == SubSeq([i \in 1 .. n |-> e(i)], 1, n)

smaller(a, b) == IF a < b THEN a ELSE b

-----------------------------------------------------------------------------
(* Views: [name, fields, rows].  A row gives every field and the two hidden   *)
(* columns a value.                                                           *)

rowNum(v) == Len(v.rows)
colIndexed(v, field) == field \in v.fields \union RedundantCols
validCol(v) == [i \in 1 .. rowNum(v) |-> v.rows[i][VALID_COL_NAME]]

WithColumn(v, field, col) ==
    [v EXCEPT !.rows = Tabulate(rowNum(v), LAMBDA i : (field :> col[i]) @@ v.rows[i])]

\* A column is put before the hidden ones.
InsertColumn(v, field, col) ==
    [WithColumn(v, field, col) EXCEPT !.fields = @ \union {field}]

SetValid(v, col) == WithColumn(v, VALID_COL_NAME, col)

Project(v, fields) ==
    [v EXCEPT !.fields = fields,
              !.rows = Tabulate(rowNum(v), LAMBDA i :
                           [f \in fields \union RedundantCols |-> v.rows[i][f]])]

\* Unknown fields are dropped; nothing happens if none is left.
select(v, fields) ==
    IF fields \intersect v.fields = {} THEN v
    ELSE Project(v, fields \intersect v.fields)

-----------------------------------------------------------------------------
(* Sorting: a bitonic network on a power of two of rows.                      *)

\* Is x before y?  The later fields decide where the earlier ones are equal.
Precedes(fields, ascending, x, y) ==
    \E c \in 1 .. Len(fields) :
        /\ \A d \in 1 .. c - 1 : x[fields[d]] = y[fields[d]]
        /\ IF ascending[c] THEN x[fields[c]] < y[fields[c]]
                           ELSE y[fields[c]] < x[fields[c]]

\* Mutant of KeepsOne: a descending order turns the operands and the result.
KeepsOneTurnedTwice(field, ascending, x, y, dir) ==
    IF ascending THEN (x[field] < y[field]) = dir ELSE (y[field] < x[field]) = ~dir

\* Does the pair stay as it is?  With one field the comparison is turned round for
\* a descending order, which decides otherwise on equal values.
KeepsOne(field, ascending, x, y, dir) ==
    (x[field] < y[field]) = (dir = ascending)

KeepsMany(fields, ascending, x, y, dir) ==
    Precedes(fields, ascending, x, y) = dir

Keeps(fields, ascending, x, y, dir) ==
    IF Len(fields) = 1 THEN KeepsOne(fields[1], ascending[1], x, y, dir)
    ELSE KeepsMany(fields, ascending, x, y, dir)

\* One stage.  Where one row of a pair is padding, all columns of the pair change
\* places if it stands on the wrong side; no two pairs share a row, so the batches
\* of the other pairs do not see each other.
Stage(rows, fields, ascending, k, j) ==
    LET other(p) == IF (p \div j) % 2 = 0 THEN p + j ELSE p - j
        dir(p) == (p \div k) % 2 = 0
        pads(p) == rows[p + 1][PADDING_COL_NAME] = 1
        stays(lo, hi, d) ==
            IF pads(lo) \/ pads(hi) THEN ~(IF d THEN pads(lo) /\ ~pads(hi)
                                                ELSE pads(hi) /\ ~pads(lo))
            ELSE Keeps(fields, ascending, rows[lo + 1], rows[hi + 1], d)
    IN  Tabulate(Len(rows), LAMBDA i :
            LET lo == smaller(i - 1, other(i - 1))
                hi == lo + j
            IN  rows[IF stays(lo, hi, dir(lo)) THEN i ELSE other(i - 1) + 1])

\* Bound: the views have at most 2 ^ 16 rows.
Levels == 0 .. 16

\* The rows after the stages <<k, j>> up to <<2^p, 2^q>>.
bitonicSort(rows, fields, ascending) ==
    LET n == Len(rows)
        levels == CHOOSE e \in Levels : 2 ^ e = n
        net[p \in 0 .. levels, q \in 0 .. levels] ==
            IF p = 0 THEN rows
            ELSE Stage(IF q = p - 1 THEN net[p - 1, 0] ELSE net[p, q + 1],
                       fields, ascending, 2 ^ p, 2 ^ q)
    IN  IF n <= 1 THEN rows ELSE net[levels, 0]

nextPow2(n) == 2 ^ (CHOOSE e \in Levels : 2 ^ e >= n /\ 2 ^ e < 2 * n)

\* Both servers write 1 into the new rows: the secret columns are 0 there.
PaddingRow(v) ==
    [f \in v.fields \union RedundantCols |-> Bit(f = PADDING_COL_NAME)]

\* Mutant of Sort: the rows that pad stay.
SortUncut(v, fields, ascending) ==
    LET n == rowNum(v)
        padded == v.rows \o [i \in 1 .. nextPow2(n) - n |-> PaddingRow(v)]
    IN  IF n = 0 THEN v ELSE [v EXCEPT !.rows = bitonicSort(padded, fields, ascending)]

Sort(v, fields, ascending) ==
    LET n == rowNum(v)
        padded == v.rows \o [i \in 1 .. nextPow2(n) - n |-> PaddingRow(v)]
    IN  IF n = 0 THEN v
        ELSE [v EXCEPT !.rows = SubSeq(bitonicSort(padded, fields, ascending), 1, n)]

-----------------------------------------------------------------------------
(* Compaction.                                                                *)

\* Mutant of ApproxKeep: four times the power of two.
ApproxKeepLoose(sum, n) ==
    LET msb == {b \in 1 .. 7 : (sum \div 2 ^ b) % 2 = 1}
    IN  smaller(n, IF msb = {} THEN 2
                   ELSE 2 ^ ((CHOOSE b \in msb : \A c \in msb : c <= b) + 2))

\* The servers open the bits of the sum from the top down to the second one until
\* one is set: twice that power of two rows are kept, two if none is.
ApproxKeep(sum, n) ==
    LET msb == {b \in 1 .. 7 : (sum \div 2 ^ b) % 2 = 1}
    IN  smaller(n, IF msb = {} THEN 2
                   ELSE 2 ^ ((CHOOSE b \in msb : \A c \in msb : c <= b) + 1))

\* Mutant of clearInvalidEntries: the first rows stay, sorted or not.
ClearUnsorted(v, doSort) ==
    LET sum == Cardinality({i \in 1 .. rowNum(v) : validCol(v)[i] = 1})
    IN  IF conf.baseline \/ conf.noCompaction THEN v
        ELSE [v EXCEPT !.rows =
                  SubSeq(@, 1, IF conf.approx THEN ApproxKeep(sum, rowNum(v)) ELSE sum)]

clearInvalidEntries(v, doSort) ==
    LET sorted == IF doSort THEN Sort(v, <<VALID_COL_NAME>>, <<FALSE>>) ELSE v
        n == rowNum(v)
        sum == Cardinality({i \in 1 .. n : validCol(v)[i] = 1})
    IN  IF conf.baseline \/ conf.noCompaction THEN v
        ELSE [sorted EXCEPT !.rows =
                  SubSeq(@, 1, IF conf.approx THEN ApproxKeep(sum, n) ELSE sum)]

-----------------------------------------------------------------------------
(* Filters: a condition is [field, cmp, const].                               *)

\* GREATER and LESS_EQ compare the constant with the column, LESS and GREATER_EQ
\* the column with the constant; the second of each is the complement.
Condition(row, c) ==
    CASE c.cmp = "GREATER"    -> Bit(c.const < row[c.field])
      [] c.cmp = "LESS_EQ"    -> Not(Bit(c.const < row[c.field]))
      [] c.cmp = "LESS"       -> Bit(row[c.field] < c.const)
      [] c.cmp = "GREATER_EQ" -> Not(Bit(row[c.field] < c.const))
      [] c.cmp = "EQUALS"     -> Bit(c.const = row[c.field])
      [] c.cmp = "NOT_EQUALS" -> Not(Bit(c.const = row[c.field]))

\* The conjunction of the conditions, in a chain or in a tree.
AllConditions(row, conditions) == Bit(\A c \in conditions : Condition(row, c) = 1)

\* With precise compaction the result replaces the valid column.
filterAndConditions(v, conditions, clear) ==
    LET result(i) == AllConditions(v.rows[i], conditions)
        filtered == SetValid(v, Tabulate(rowNum(v), LAMBDA i :
                        IF ByValid THEN And(result(i), v.rows[i][VALID_COL_NAME])
                        ELSE result(i)))
    IN  IF clear THEN clearInvalidEntries(filtered, TRUE) ELSE filtered

-----------------------------------------------------------------------------
(* Groups: a head is the first row of a group.                                *)

\* Where a row differs from the one before it in one of the fields; the first row too.
Differs(v, fields, i) ==
    Bit(i = 1 \/ \E c \in 1 .. Len(fields) : v.rows[i][fields[c]] # v.rows[i - 1][fields[c]])

HeadsOfValid(v, fields) ==
    Tabulate(rowNum(v), LAMBDA i : And(validCol(v)[i], Differs(v, fields, i)))
HeadsOfAll(v, fields) == Tabulate(rowNum(v), LAMBDA i : Differs(v, fields, i))

groupByField(v, field) ==
    IF ByValid THEN HeadsOfValid(v, <<field>>) ELSE HeadsOfAll(v, <<field>>)

\* With several fields nobody asks for the baseline mode.
groupByFields(v, fields) ==
    IF conf.approx THEN HeadsOfValid(v, fields) ELSE HeadsOfAll(v, fields)

GroupHeads(v, fields) ==
    IF Len(fields) = 1 THEN groupByField(v, fields[1]) ELSE groupByFields(v, fields)

\* The view sorted by the fields, the valid rows first unless compaction is precise.
GroupOrder(v, fields) ==
    LET ascending == [c \in 1 .. Len(fields) |-> TRUE]
    IN  IF ByValid
        THEN clearInvalidEntries(
                 Sort(v, <<VALID_COL_NAME>> \o fields, <<FALSE>> \o ascending), FALSE)
        ELSE Sort(v, fields, ascending)

-----------------------------------------------------------------------------
(* Aggregates: a segmented scan in which row i takes in row i - delta until a *)
(* head lies between them, delta = 1, 2, 4, ...  A state is [vs, bs].  The    *)
(* scans are those in one batch, which one thread works on: in several, the   *)
(* tasks read columns that the results of others are written into, and what   *)
(* a scan returns depends on the threads.                                     *)

\* Would a scan of the view be split?
InBatches(v) == conf.batch > 0 /\ rowNum(v) > conf.batch

\* Rows that are not valid are 0 to an extremum.  For the minimum the code means the largest
\* number, but both servers put in the same share.
Shown(v, i, x) == IF ByValid THEN Mutex(validCol(v)[i], x, 0) ELSE x

\* What the aggregate of a kind makes of row r and of row l before it, with the flag b of r.
Combine(v, kind, s, l, r, b) ==
    LET left == Shown(v, l, s.vs[l])
        right == Shown(v, r, s.vs[r])
        best == CASE kind = "min" -> IF left < right THEN left ELSE right
                  [] kind = "max" -> IF left < right THEN right ELSE left
    IN  IF kind = "count" THEN s.vs[r] + Not(b) * s.vs[l] ELSE Mutex(Not(b), best, right)

\* One round: the pairs are copied, and the results written back when all are there.
ScanRound(v, kind, s, delta) ==
    LET n == Len(s.vs)
    IN  [vs |-> Tabulate(n, LAMBDA i :
                    IF i > delta THEN Combine(v, kind, s, i - delta, i, s.bs[i]) ELSE s.vs[i]),
         bs |-> Tabulate(n, LAMBDA i :
                    IF i > delta THEN Or(s.bs[i - delta], s.bs[i]) ELSE s.bs[i])]

Scan(v, kind, vs, bs) ==
    LET n == Len(vs)
        rounds == CHOOSE e \in Levels : 2 ^ e >= n /\ 2 ^ e < 2 * n
        after[r \in 0 .. rounds] ==
            IF r = 0 THEN [vs |-> vs, bs |-> bs]
            ELSE ScanRound(v, kind, after[r - 1], 2 ^ (r - 1))
    IN  after[rounds].vs

\* The flags that stop the scan.
Boundaries(v, heads) ==
    Tabulate(rowNum(v), LAMBDA i :
        IF ByValid THEN And(heads[i], validCol(v)[i]) ELSE heads[i])

\* Mutant of GroupTails: the row before the first invalid one is forgotten.
GroupTailsHeadsOnly(v, heads) ==
    LET n == rowNum(v)
    IN  Tabulate(n, LAMBDA i : IF i < n THEN heads[i + 1] ELSE 1)

\* The last rows of the groups: the next row is a head, or not valid.
GroupTails(v, heads) ==
    LET n == rowNum(v)
        lastValid(i) == And(validCol(v)[i], Not(IF i < n THEN validCol(v)[i + 1] ELSE 0))
    IN  Tabulate(n, LAMBDA i :
            IF ByValid THEN Or(IF i < n THEN heads[i + 1] ELSE 0, lastValid(i))
            ELSE IF i < n THEN heads[i + 1] ELSE 1)

\* Only the last row of a group stays.
KeepTails(v, tails, compress) ==
    LET kept == SetValid(v, Tabulate(rowNum(v), LAMBDA i :
                    IF ByValid THEN And(validCol(v)[i], tails[i]) ELSE tails[i]))
    IN  IF compress THEN clearInvalidEntries(kept, TRUE) ELSE kept

\* With a valid column the valid rows count, those among them that an outer join
\* matched.  Only the last sum of a group stays.
countSingleBatch(v, heads, alias, matched, compress) ==
    LET ones == Tabulate(rowNum(v), LAMBDA i :
            IF ByValid THEN Bit(validCol(v)[i] = 1 /\ \A m \in matched : v.rows[i][m] = 1)
            ELSE 1)
        sums == Scan(v, "count", ones, Boundaries(v, heads))
    IN  KeepTails(InsertColumn(v, alias, sums), GroupTails(v, heads), compress)

\* A field with a table's name in front counts the rows that table matched.
count(v, fields, heads, alias, compress) ==
    LET matched == IF Len(fields) = 1 /\ Len(fields[1]) > 1
                   THEN {OuterMatch(fields[1][1])} \intersect v.fields ELSE {}
        p == Project(v, {fields[c] : c \in 1 .. Len(fields)} \union matched)
    IN  IF rowNum(p) = 0 THEN p
        ELSE countSingleBatch(p, heads, alias, matched, compress)

Extremum(v, heads, field, kind) ==
    Scan(v, kind, Tabulate(rowNum(v), LAMBDA i : Shown(v, i, v.rows[i][field])),
         Boundaries(v, heads))

\* Nothing happens if the heads are those of another number of rows.
Unfit(v, heads) == rowNum(v) = 0 \/ Len(heads) # rowNum(v)

min(v, field, heads, alias) ==
    LET vs == Extremum(v, heads, field, "min")
    IN  IF Unfit(v, heads) THEN v
        ELSE KeepTails(InsertColumn(v, alias, vs), GroupTails(v, heads), TRUE)

max(v, field, heads, alias) ==
    LET vs == Extremum(v, heads, field, "max")
    IN  IF Unfit(v, heads) THEN v
        ELSE KeepTails(InsertColumn(v, alias, vs), GroupTails(v, heads), TRUE)

minAndMax(v, minField, maxField, heads, minAlias, maxAlias) ==
    LET lows == Extremum(v, heads, minField, "min")
        highs == Extremum(v, heads, maxField, "max")
        low == InsertColumn(v, minAlias, lows)
    IN  IF Unfit(v, heads) THEN v
        ELSE KeepTails(InsertColumn(low, maxAlias, highs),
                       GroupTails(v, heads), TRUE)

\* The rows as groups by all fields but the bucket tags; the heads stay.
distinct(v, order) ==
    LET fields == SelectSeq(order, LAMBDA f : ~IsBucketTag(f))
        grouped == GroupOrder(v, fields)
        heads == GroupHeads(grouped, fields)
    IN  IF rowNum(v) = 0 THEN v
        ELSE clearInvalidEntries(SetValid(grouped, heads), TRUE)

=============================================================================
