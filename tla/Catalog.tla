------------------------------ MODULE Catalog ------------------------------
(***************************************************************************)
(* Databases, their tables, and the effect of one statement on them:       *)
(* src/core/catalog.cpp, src/core/database.cpp, and exec_statement of      *)
(* src/exec/executor.cpp but for REVERT.                                   *)
(*                                                                         *)
(* A catalog is a record [dbs, current].  A table is the set of its keys,  *)
(* the values of one INDEXED column: that is what makes statements fail    *)
(* and what a journal has to bring back.  Dml has the rows in full.        *)
(***************************************************************************)
EXTENDS Integers, Sequences, FiniteSetsExt

CONSTANTS
  Dbs,      \* database names
  Tables,   \* table names
  Keys,     \* key values
  NoDb      \* the empty name: no current database, unqualified table

EmptyCatalog == [dbs |-> [d \in {} |-> {}], current |-> NoDb]

Created(cat) == DOMAIN cat.dbs

\* Catalog::current(): the current name may be empty.
Current(cat) == IF cat.current \in Created(cat) THEN cat.current ELSE NoDb

With(f, x, v)  == [y \in DOMAIN f \cup {x} |-> IF y = x THEN v ELSE f[y]]
Without(f, x)  == [y \in DOMAIN f \ {x} |-> f[y]]
NoTables       == [t \in {} |-> {}]

\* What a statement leaves behind: the catalog and whether it succeeded.
Done(cat)    == [cat |-> cat, ok |-> TRUE]
Failed(cat)  == [cat |-> cat, ok |-> FALSE]
SetDb(cat, d, tables) == [cat EXCEPT !.dbs = With(@, d, tables)]

create_database_IfMissing(cat, d) == \* mutant
  Done(IF d \in Created(cat) THEN cat ELSE SetDb(cat, d, NoTables))
create_database(cat, d) ==
  IF d \in Created(cat) THEN Failed(cat) ELSE Done(SetDb(cat, d, NoTables))

drop_database_KeepsCurrent(cat, d) == \* mutant
  IF d \notin Created(cat) THEN Failed(cat)
                           ELSE Done([cat EXCEPT !.dbs = Without(@, d)])
drop_database(cat, d) ==
  IF d \notin Created(cat)
    THEN Failed(cat)
    ELSE Done([dbs |-> Without(cat.dbs, d),
               current |-> IF cat.current = d THEN NoDb ELSE cat.current])

set_current(cat, d) ==
  IF d \in Created(cat) THEN Done([cat EXCEPT !.current = d]) ELSE Failed(cat)

\* The database a table name belongs to: the qualifier, else the current one.
HomeDb(cat, s) == IF s.db # NoDb THEN s.db ELSE Current(cat)

\* Database::create_table and drop_table on the tables of one database.
create_table(tables, t) ==
  [ok |-> t \notin DOMAIN tables,
   tables |-> IF t \in DOMAIN tables THEN tables ELSE With(tables, t, {})]

drop_table(tables, t) ==
  [ok |-> t \in DOMAIN tables, tables |-> Without(tables, t)]

\* INSERT takes its tuples in order and stops at the first duplicate; the
\* tuples before it stay.
Inserted(keys, ks) ==
  LET fits == {n \in 0 .. Len(ks) :
                 \A j \in 1 .. n : ks[j] \notin keys \cup {ks[i] : i \in 1 .. j - 1}}
  IN [ok |-> Max(fits) = Len(ks), keys |-> keys \cup {ks[i] : i \in 1 .. Max(fits)}]

\* UPDATE t SET key = to WHERE key = from.
Updated(keys, from, to) ==
  IF from \in keys /\ to \in keys \ {from}
    THEN [ok |-> FALSE, keys |-> keys]
    ELSE [ok |-> TRUE, keys |-> IF from \in keys THEN (keys \ {from}) \cup {to} ELSE keys]

Rewritten(s, keys) ==
  CASE s.op = "insert" -> Inserted(keys, s.keys)
    [] s.op = "update" -> Updated(keys, s.keys[1], s.keys[2])
    [] s.op = "delete" -> [ok |-> TRUE, keys |-> keys \ {s.keys[1]}]
    [] s.op = "select" -> [ok |-> TRUE, keys |-> keys]

\* A statement about one table, given the tables of its database.
OnTables(tables, s) ==
  CASE s.op = "create_table" -> create_table(tables, s.table)
    [] s.op = "drop_table"   -> drop_table(tables, s.table)
    [] OTHER ->
         IF s.table \notin DOMAIN tables
           THEN [ok |-> FALSE, tables |-> tables]
           ELSE LET r == Rewritten(s, tables[s.table])
                IN [ok |-> r.ok, tables |-> With(tables, s.table, r.keys)]

exec_statement(cat, s) ==
  CASE s.op = "create_database" -> create_database(cat, s.db)
    [] s.op = "drop_database"   -> drop_database(cat, s.db)
    [] s.op = "use"             -> set_current(cat, s.db)
    [] OTHER ->
         LET d == HomeDb(cat, s) IN
         IF d \notin Created(cat)
           THEN Failed(cat)
           ELSE LET r == OnTables(cat.dbs[d], s)
                IN [cat |-> SetDb(cat, d, r.tables), ok |-> r.ok]
=============================================================================
