------------------------------ MODULE MCViewQueries ------------------------------
(* Small tables for ViewQueries. *)
EXTENDS ViewQueries

Row(k, v) == <<"k">> :> k @@ <<"v">> :> v
RowSet == {Row(k, v) : k \in {0, 1}, v \in {1, 2}}

\* Groups, ties, single rows, and numbers of rows that need padding.
Short ==
    {<<Row(1, 2)>>, <<Row(0, 1), Row(0, 1)>>, <<Row(1, 2), Row(0, 1)>>, <<Row(1, 1), Row(1, 2)>>}
Long ==
    {<<Row(1, 2), Row(0, 1), Row(1, 1)>>, <<Row(0, 2), Row(0, 2), Row(0, 1)>>}
Longest == <<Row(1, 1), Row(0, 2), Row(1, 2), Row(0, 1), Row(1, 1)>>

Partner == <<Row(1, 1)>>
Partners == <<Row(1, 2), Row(2, 1), Row(1, 1)>>

Configuration(baseline, approx, noCompaction, batch) ==
    [baseline |-> baseline, approx |-> approx, noCompaction |-> noCompaction,
     batch |-> batch, buckets |-> 4]

Compacting ==
    {Configuration(FALSE, approx, FALSE, batch) : approx \in BOOLEAN, batch \in {0, 2}}
NotCompacting ==
    {Configuration(FALSE, TRUE, TRUE, 0), Configuration(TRUE, TRUE, TRUE, 0)}

Setup(c, r, s, n) == [conf |-> c, first |-> r, second |-> s, length |-> n]
MCSetups ==
    {Setup(c, r, Partners, 2) : c \in Compacting, r \in Short \union Long}
    \union {Setup(c, r, Partner, 2) : c \in Compacting, r \in Long}
    \union {Setup(c, Longest, Partner, 1) : c \in Compacting}
    \union {Setup(Configuration(FALSE, approx, FALSE, 0), <<Row(1, 1), Row(1, 2)>>, Partner, 3) :
                approx \in BOOLEAN}
    \union {Setup(c, r, Partners, 2) : c \in NotCompacting, r \in Short}

Is(field, cmp, const) == [field |-> <<field>>, cmp |-> cmp, const |-> const]
MCFilters ==
    {{Is("k", "EQUALS", 1)}, {Is("v", "GREATER", 1)}, {Is("count", "GREATER_EQ", 2)},
     {Is("k", "LESS", 1), Is("v", "LESS_EQ", 1)}, {Is("v", "NOT_EQUALS", 2)}}

MCKeys ==
    {<<<<"k">>>>, <<<<"v">>>>, <<<<"k">>, <<"v">>>>, <<<<"R", "k">>>>, <<<<"S", "v">>>>}
=============================================================================
