----------------------------- MODULE MCDbSession -----------------------------
(* The session of db/client/precmd and what may follow it. *)
EXTENDS DbSession

A == <<"a">>
B == <<"b">>

CreateDb(d) == [op |-> "create database", name |-> d]
Use(d) == [op |-> "use", name |-> d]
DropDb(d) == [op |-> "drop database", name |-> d]
Create(t, key) == [op |-> "create table", table |-> t, columns |-> <<A, B>>, key |-> key,
                   supported |-> TRUE]
Drop(t) == [op |-> "drop table", table |-> t]
Insert(t, columns, values) == [op |-> "insert", table |-> t, columns |-> columns, values |-> values]
Select(t, fields, where, order) ==
    [op |-> "select", table |-> t, fields |-> fields, where |-> where, order |-> order]
Join(t, u, where) ==
    [op |-> "join", table |-> t, with |-> u, on |-> <<A, A>>, fields |-> {}, where |-> where]
Is(field, cmp, const) == [field |-> field, cmp |-> cmp, const |-> const]

Precmd ==
    <<<<CreateDb("d")>>, <<Use("d")>>, <<Create("t0", A)>>, <<Insert("t0", <<>>, <<1, 2>>)>>,
      <<Create("t1", A)>>, <<Insert("t1", <<>>, <<1, 3>>)>>>>

\* A command may have several statements.
Filling ==
    <<<<Insert("t0", <<>>, <<2, 1>>), Insert("t0", <<A>>, <<1>>)>>,
      <<Insert("t1", <<B, A>>, <<0, 2>>)>>>>

MCOpenings == {<<>>, SubSeq(Precmd, 1, 2), Precmd, Precmd \o Filling}

MCCommands ==
    {<<CreateDb("d")>>, <<CreateDb("e")>>, <<Use("d")>>, <<Use("e")>>, <<DropDb("d")>>,
     <<Create("t0", NONE)>>, <<Drop("t0"), Create("t0", A)>>,
     <<Insert("t0", <<>>, <<0, 1>>), Insert("t0", <<B>>, <<2>>)>>, <<Insert("t1", <<>>, <<1>>)>>,
     <<Select("t0", {}, {}, {[field |-> B, ascending |-> FALSE]})>>,
     <<Select("t0", {B}, {Is(A, "EQUALS", 1)}, {})>>,
     <<Join("t0", "t1", {})>>, <<Join("t0", "t1", {Is(<<"t0", "b">>, "NOT_EQUALS", 2)})>>,
     <<[op |-> "exit"]>>}
==============================================================================
