--------------------------- MODULE MCEntryRouter ---------------------------
(* Instances of EntryRouter for TLC. *)
EXTENDS EntryRouter, TLC

CONSTANTS c1, c2, d1, d2, t1

(* Two clients with a database each, until the second one creates a table in *)
(* the first one's and then drops it.  Depending on the order, on the        *)
(* storages and on their deaths, each USE is accepted, refused or undone,    *)
(* and c1's table comes into d1, into d2 or into none.                       *)
MCClients == {c1, c2}
OnDb(op, d) == [op |-> op, db |-> d]
NewTable(d) == [op |-> "create_table", db |-> d, table |-> t1]
MCScript ==
  (c1 :> <<OnDb("create_database", d1), OnDb("use", d1), NewTable(None)>>) @@
  (c2 :> <<OnDb("create_database", d2), OnDb("use", d2), NewTable(d1), OnDb("drop_database", d1)>>)
MCStatements == UNION {{MCScript[c][n] : n \in DOMAIN MCScript[c]} : c \in MCClients}
=============================================================================
