----------------------------- MODULE MCEngine -----------------------------
(* Two databases, one table name, two keys.  Statements name the table     *)
(* plainly and through the other database; REVERT goes to the beginning,   *)
(* to the middle and to the end of time.                                   *)
EXTENDS Engine

CONSTANTS d1, d2, t1, k1, k2

Db(op, d)      == [op |-> op, db |-> d]
Tab(op, d)     == [op |-> op, db |-> d, table |-> t1]
Rows(op, d, ks) == [op |-> op, db |-> d, table |-> t1, keys |-> ks]

MCStatements ==
  {Db(op, d) : op \in {"create_database", "use"}, d \in {d1, d2}} \cup
  {Db("drop_database", d1)} \cup
  {Tab("create_table", NoDb), Tab("create_table", d1), Tab("drop_table", NoDb)} \cup
  {Rows("insert", NoDb, <<k1>>), Rows("insert", d1, <<k1, k2, k1>>),
   Rows("update", NoDb, <<k1, k2>>), Rows("delete", NoDb, <<k1>>),
   Rows("select", NoDb, <<>>)} \cup
  {[op |-> "revert", db |-> NoDb, table |-> t1, ts |-> ts] : ts \in {0, 2, MaxClock}}
=============================================================================
