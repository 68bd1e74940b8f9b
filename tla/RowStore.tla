------------------------------ MODULE RowStore ------------------------------
(***************************************************************************)
(* The abstract specification of a table: rows with ids, no indexes.       *)
(* Whether a call is refused is decided by looking at every row; this is   *)
(* what src/core/table.cpp promises its caller, the executor, which never  *)
(* learns how the check was made.                                          *)
(***************************************************************************)
EXTENDS Integers

CONSTANTS Cols, Null, CellValues, NotNull, Indexed, MaxRid

VARIABLES rows, nextRid, reply

storeVars == <<rows, nextRid, reply>>

StoreRows == [Cols -> {Null} \cup UNION {CellValues[c] : c \in Cols}]
StoreRids == 1 .. MaxRid

\* The declared constraints of one row.
Legal(row) ==
  /\ \A c \in NotNull \cup Indexed : row[c] # Null
  /\ \A c \in Cols : row[c] \in CellValues[c] \cup {Null}

\* The row clashes with another row on an INDEXED column.
Clashes(row, others) ==
  \E c \in Indexed : \E r \in others : rows[r][c] = row[c]

\* The caller sees its call and whether it succeeded.
Reported(call, ok) == [call |-> call, ok |-> ok]

RowStoreInit ==
  /\ rows = [r \in {} |-> Null]
  /\ nextRid = 1
  /\ reply = Reported(<<>>, TRUE)

Reject(call) == reply' = Reported(call, FALSE) /\ UNCHANGED <<rows, nextRid>>

Put(row) ==
  LET accepted == Legal(row) /\ ~Clashes(row, DOMAIN rows) IN
  \/ ~accepted /\ Reject(<<"insert", row>>)
  \/ /\ accepted
     /\ nextRid \in StoreRids
     /\ rows' = [r \in DOMAIN rows \cup {nextRid} |->
                   IF r = nextRid THEN row ELSE rows[r]]
     /\ nextRid' = nextRid + 1
     /\ reply' = Reported(<<"insert", row>>, TRUE)

Replace(rid, row) ==
  LET accepted == /\ rid \in DOMAIN rows
                  /\ Legal(row)
                  /\ ~Clashes(row, DOMAIN rows \ {rid}) IN
  \/ ~accepted /\ Reject(<<"update", rid, row>>)
  \/ /\ accepted
     /\ rows' = [rows EXCEPT ![rid] = row]
     /\ reply' = Reported(<<"update", rid, row>>, TRUE)
     /\ UNCHANGED nextRid

Drop(rid) ==
  \/ rid \notin DOMAIN rows /\ Reject(<<"delete", rid>>)
  \/ /\ rid \in DOMAIN rows
     /\ rows' = [r \in DOMAIN rows \ {rid} |-> rows[r]]
     /\ reply' = Reported(<<"delete", rid>>, TRUE)
     /\ UNCHANGED nextRid

RowStoreNext ==
  \/ \E row \in StoreRows : Put(row)
  \/ \E rid \in StoreRids, row \in StoreRows : Replace(rid, row)
  \/ \E rid \in StoreRids : Drop(rid)

RowStoreSpec == RowStoreInit /\ [][RowStoreNext]_storeVars
=============================================================================
