------------------------------- MODULE Table -------------------------------
(***************************************************************************)
(* One table of the storage engine: src/core/table.cpp.                    *)
(*                                                                         *)
(* A table keeps its rows in an unordered_map from row id to row, hands    *)
(* out row ids from a counter, and keeps one B+ tree per INDEXED column.   *)
(* Here a tree is the set of <<key, row id>> entries it stores: the tree's *)
(* shape is the subject of its own module, this one is about the contract  *)
(* between the rows and the indexes.                                       *)
(*                                                                         *)
(* Each action is one call of a public member function, refused or not;    *)
(* reply is the call and whether it succeeded.                             *)
(***************************************************************************)
EXTENDS Integers

CONSTANTS
  Cols,        \* the columns, cols_
  Null,        \* the NULL cell
  CellValues,  \* CellValues[c]: the non-null values of column c's type
  NotNull,     \* the columns declared NOT NULL
  Indexed,     \* the columns declared INDEXED
  MaxRid       \* bound: row ids (uint64 in the code) that may be handed out

ASSUME TableAssumption ==
  /\ NotNull \subseteq Cols
  /\ Indexed \subseteq Cols
  /\ \A c \in Cols : Null \notin CellValues[c]
  /\ MaxRid \in Nat

VARIABLES rows, nextRid, index, reply

tableVars == <<rows, nextRid, index, reply>>

Cells == {Null} \cup UNION {CellValues[c] : c \in Cols}
Rows  == [Cols -> Cells]
Rids  == 1 .. MaxRid

\* A call and what it returned; the error texts are left out.
Result(call, ok) == [call |-> call, ok |-> ok]

TableInit ==
  /\ rows = [r \in {} |-> Null]
  /\ nextRid = 1
  /\ index = [c \in Indexed |-> {}]
  /\ reply = Result(<<>>, TRUE)

-----------------------------------------------------------------------------
\* validate_row: NULL only where neither NOT NULL nor INDEXED, otherwise the
\* cell has the column's type.
ValidRow(row) ==
  \A c \in Cols : IF row[c] = Null THEN c \notin NotNull \cup Indexed
                                   ELSE row[c] \in CellValues[c]

\* BPlusTreeIndex::find_equal on the index of column c.
FindEqual(c, key) == {r \in Rids : <<key, r>> \in index[c]}

\* index_insert_row and index_remove_row: every index at once, NULLs skipped.
Entry(c, rid, row) == IF row[c] = Null THEN {} ELSE {<<row[c], rid>>}
IndexInsert(ix, rid, row) == [c \in Indexed |-> ix[c] \cup Entry(c, rid, row)]
IndexRemove(ix, rid, row) == [c \in Indexed |-> ix[c] \ Entry(c, rid, row)]

\* Some index already holds a value of row under a row id outside own.
Duplicate(row, own) ==
  \E c \in Indexed : row[c] # Null /\ ~(FindEqual(c, row[c]) \subseteq own)

InsertRefused_NoValidation(row) == Duplicate(row, {})  \* mutant
InsertRefused(row) == ~ValidRow(row) \/ Duplicate(row, {})

UpdateRefused_NoValidation(rid, row) == \* mutant
  rid \notin DOMAIN rows \/ Duplicate(row, {rid})
UpdateRefused_NoDuplicateCheck(rid, row) == \* mutant
  rid \notin DOMAIN rows \/ ~ValidRow(row)
UpdateRefused_OwnKeyCounts(rid, row) == \* mutant
  rid \notin DOMAIN rows \/ ~ValidRow(row) \/ Duplicate(row, {})
UpdateRefused(rid, row) ==
  rid \notin DOMAIN rows \/ ~ValidRow(row) \/ Duplicate(row, {rid})

\* The indexes after row rid has gone from old to new.
Reindexed_InsertFirst(rid, old, new) == \* mutant
  IndexRemove(IndexInsert(index, rid, new), rid, old)
Reindexed(rid, old, new) == IndexInsert(IndexRemove(index, rid, old), rid, new)

Refuse(call) ==
  reply' = Result(call, FALSE) /\ UNCHANGED <<rows, nextRid, index>>

InsertRow(row) ==
  \/ InsertRefused(row) /\ Refuse(<<"insert", row>>)
  \/ /\ ~InsertRefused(row)
     /\ nextRid <= MaxRid
     /\ rows' = [r \in DOMAIN rows \cup {nextRid} |->
                   IF r = nextRid THEN row ELSE rows[r]]
     /\ index' = IndexInsert(index, nextRid, row)
     /\ nextRid' = nextRid + 1
     /\ reply' = Result(<<"insert", row>>, TRUE)

UpdateRow(rid, row) ==
  \/ UpdateRefused(rid, row) /\ Refuse(<<"update", rid, row>>)
  \/ /\ ~UpdateRefused(rid, row)
     /\ index' = Reindexed(rid, rows[rid], row)
     /\ rows' = [rows EXCEPT ![rid] = row]
     /\ reply' = Result(<<"update", rid, row>>, TRUE)
     /\ UNCHANGED nextRid

DeleteRow(rid) ==
  \/ rid \notin DOMAIN rows /\ Refuse(<<"delete", rid>>)
  \/ /\ rid \in DOMAIN rows
     /\ index' = IndexRemove(index, rid, rows[rid])
     /\ rows' = [r \in DOMAIN rows \ {rid} |-> rows[r]]
     /\ reply' = Result(<<"delete", rid>>, TRUE)
     /\ UNCHANGED nextRid

\* rebuild_indexes: clear every tree, insert every row again.
RebuildIndexes ==
  /\ index' = [c \in Indexed |->
                 UNION {Entry(c, r, rows[r]) : r \in DOMAIN rows}]
  /\ UNCHANGED <<rows, nextRid, reply>>

TableNext ==
  \/ \E row \in Rows : InsertRow(row)
  \/ \E rid \in Rids, row \in Rows : UpdateRow(rid, row)
  \/ \E rid \in Rids : DeleteRow(rid)
  \/ RebuildIndexes

TableSpec == TableInit /\ [][TableNext]_tableVars

-----------------------------------------------------------------------------
\* Stored rows passed validate_row, ids come from the counter, index entries
\* are well formed.
TypeOK ==
  /\ nextRid \in 1 .. (MaxRid + 1)
  /\ DOMAIN rows \subseteq 1 .. (nextRid - 1)
  /\ rows \in [DOMAIN rows -> Rows]
  /\ \A r \in DOMAIN rows : ValidRow(rows[r])
  /\ index \in [Indexed -> SUBSET (Cells \X Rids)]
  /\ reply.ok \in BOOLEAN

\* Every index holds exactly one entry per row, under the row's present value:
\* index_remove_row and index_insert_row (table.cpp:55-70) never leave a stale
\* or a missing entry, however inserts, updates and deletes are mixed.
IndexMirrorsRows ==
  \A c \in Indexed : index[c] = {<<rows[r][c], r>> : r \in DOMAIN rows}

\* No two rows agree on an INDEXED column: the find_equal checks of insert_row
\* and update_row (table.cpp:74-84, 99-111) are enough to keep keys unique.
IndexedUnique ==
  \A c \in Indexed : \A r, s \in DOMAIN rows :
    rows[r][c] = rows[s][c] => r = s

TableInv == TypeOK /\ IndexMirrorsRows /\ IndexedUnique

\* What the table promises, with the indexes hidden (see RowStore).
Store == INSTANCE RowStore

\* Table implements RowStore: deciding uniqueness through the B+ trees gives
\* the answer, and the effect, that a scan of all rows would give.
ImplementsRowStore == Store!RowStoreSpec
=============================================================================
