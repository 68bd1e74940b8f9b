----------------------------- MODULE DmlProofs -----------------------------
(***************************************************************************)
(* Proofs about Table and about Dml, which executes statements on it.      *)
(*                                                                         *)
(* Table, for any columns, types, constraints and row-id bound: the        *)
(* indexes mirror the rows, indexed columns are unique, and the table      *)
(* implements RowStore.                                                    *)
(*                                                                         *)
(* Dml, for any table and any statements: every turn of every loop is one  *)
(* call of Table or none, and a statement's effect so far is that of the   *)
(* turns it counts as hits.                                                *)
(***************************************************************************)
EXTENDS Dml, Induction, FiniteSetTheorems, TLAPS

-----------------------------------------------------------------------------
\* In a state satisfying the invariant, looking a key up in an index
\* (BPlusTreeIndex::find_equal) returns exactly the rows with that key.
LEMMA FindEqualIsScan ==
  ASSUME TypeOK, IndexMirrorsRows, NEW c \in Indexed, NEW key
  PROVE  FindEqual(c, key) = {r \in DOMAIN rows : rows[r][c] = key}
<1>1. DOMAIN rows \subseteq Rids
  BY TableAssumption DEF TypeOK, Rids
<1> QED
  BY <1>1 DEF FindEqual, IndexMirrorsRows

\* Hence the duplicate check of insert_row and update_row is a scan in disguise.
LEMMA DuplicateIsScan ==
  ASSUME TypeOK, IndexMirrorsRows, NEW row, ValidRow(row), NEW own
  PROVE  Duplicate(row, own) <=>
           \E c \in Indexed : \E r \in DOMAIN rows \ own : rows[r][c] = row[c]
<1>1. \A c \in Indexed : row[c] # Null
  BY TableAssumption DEF ValidRow
<1>2. \A c \in Indexed :
        FindEqual(c, row[c]) = {r \in DOMAIN rows : rows[r][c] = row[c]}
  BY FindEqualIsScan
<1> QED
  BY <1>1, <1>2 DEF Duplicate

\* validate_row is the declared constraints of RowStore.
LEMMA ValidIsLegal ==
  ASSUME NEW row
  PROVE  ValidRow(row) <=> Store!Legal(row)
BY TableAssumption DEF ValidRow, Store!Legal

-----------------------------------------------------------------------------
LEMMA InitInv == TableInit => TableInv
BY TableAssumption
   DEF TableInit, TableInv, TypeOK, IndexMirrorsRows, IndexedUnique, Result

\* Every call reports whether it succeeded.
LEMMA ReportsOutcome ==
  ASSUME NEW call, NEW ok \in BOOLEAN, reply' = Result(call, ok)
  PROVE  reply'.ok \in BOOLEAN
BY DEF Result

LEMMA RefuseInv ==
  ASSUME TableInv, NEW call, Refuse(call)
  PROVE  TableInv'
BY DEF TableInv, TypeOK, IndexMirrorsRows, IndexedUnique, Refuse, ValidRow, Result

LEMMA InsertInv ==
  ASSUME TableInv, NEW row \in Rows, InsertRow(row)
  PROVE  TableInv'
<1>1. CASE InsertRefused(row)
  BY <1>1, RefuseInv DEF InsertRow
<1>2. CASE ~InsertRefused(row)
  <2> USE DEF TableInv
  <2>1. /\ ValidRow(row)
        /\ ~Duplicate(row, {})
        /\ nextRid \in Rids
        /\ rows' = [r \in DOMAIN rows \cup {nextRid} |->
                      IF r = nextRid THEN row ELSE rows[r]]
        /\ index' = IndexInsert(index, nextRid, row)
        /\ nextRid' = nextRid + 1
    <3>1. nextRid \in Nat /\ nextRid >= 1
      BY TableAssumption DEF TypeOK
    <3>2. ValidRow(row) /\ ~Duplicate(row, {})
      BY <1>2 DEF InsertRefused
    <3>3. /\ nextRid <= MaxRid
          /\ rows' = [r \in DOMAIN rows \cup {nextRid} |->
                        IF r = nextRid THEN row ELSE rows[r]]
          /\ index' = IndexInsert(index, nextRid, row)
          /\ nextRid' = nextRid + 1
      BY <1>2, Zenon DEF InsertRow
    <3>4. nextRid \in Rids
      BY <3>1, <3>3, TableAssumption DEF Rids
    <3> QED
      BY <3>2, <3>3, <3>4
  <2>r. reply'.ok \in BOOLEAN
    BY <1>2, ReportsOutcome DEF InsertRow
  <2>2. nextRid \notin DOMAIN rows
    BY TableAssumption DEF TypeOK
  <2>3. DOMAIN rows' = DOMAIN rows \cup {nextRid}
    BY <2>1
  <2>4. \A c \in Indexed : Entry(c, nextRid, row) = {<<row[c], nextRid>>}
    BY <2>1, TableAssumption DEF ValidRow, Entry
  <2>5. TypeOK'
    <3>1. nextRid' \in 1 .. (MaxRid + 1)
      BY <2>1, TableAssumption DEF Rids
    <3>2. DOMAIN rows' \subseteq 1 .. (nextRid' - 1)
      BY <2>1, <2>3, TableAssumption DEF TypeOK, Rids
    <3>3. rows' \in [DOMAIN rows' -> Rows]
      BY <2>1, <2>2, <2>3 DEF TypeOK
    <3>4. \A r \in DOMAIN rows' : ValidRow(rows'[r])
      BY <2>1, <2>2, <2>3 DEF TypeOK
    <3>5. \A c \in Indexed : row[c] \in Cells
      BY TableAssumption DEF Rows
    <3>6. index' \in [Indexed -> SUBSET (Cells \X Rids)]
      BY <2>1, <2>4, <3>5 DEF TypeOK, IndexInsert
    <3> QED
      BY <2>1, <2>r, <3>1, <3>2, <3>3, <3>4, <3>6 DEF TypeOK, ValidRow
  <2>6. IndexMirrorsRows'
    <3> SUFFICES ASSUME NEW c \in Indexed
                 PROVE  index'[c] = {<<rows'[r][c], r>> : r \in DOMAIN rows'}
      BY DEF IndexMirrorsRows
    <3>1. index'[c] = index[c] \cup {<<row[c], nextRid>>}
      BY <2>1, <2>4 DEF IndexInsert
    <3>2. index[c] = {<<rows[r][c], r>> : r \in DOMAIN rows}
      BY DEF IndexMirrorsRows
    <3>3. /\ \A r \in DOMAIN rows : rows'[r] = rows[r]
          /\ rows'[nextRid] = row
      BY <2>1, <2>2
    <3> QED
      BY <2>3, <3>1, <3>2, <3>3
  <2>7. IndexedUnique'
    <3>1. \A c \in Indexed : \A r \in DOMAIN rows : rows[r][c] # row[c]
      BY <2>1, DuplicateIsScan
    <3> QED
      BY <2>1, <2>2, <2>3, <3>1 DEF IndexedUnique
  <2> QED
    BY <2>5, <2>6, <2>7
<1> QED
  BY <1>1, <1>2

\* update_row removes exactly the row's old entry and adds exactly its new one.
LEMMA UpdateInv ==
  ASSUME TableInv, NEW rid \in Rids, NEW row \in Rows, UpdateRow(rid, row)
  PROVE  TableInv'
<1>1. CASE UpdateRefused(rid, row)
  BY <1>1, RefuseInv DEF UpdateRow
<1>2. CASE ~UpdateRefused(rid, row)
  <2> USE DEF TableInv
  <2>1. /\ rid \in DOMAIN rows
        /\ ValidRow(row)
        /\ ~Duplicate(row, {rid})
        /\ index' = IndexInsert(IndexRemove(index, rid, rows[rid]), rid, row)
        /\ rows' = [rows EXCEPT ![rid] = row]
        /\ nextRid' = nextRid
    BY <1>2 DEF UpdateRow, UpdateRefused, Reindexed
  <2>r. reply'.ok \in BOOLEAN
    BY <1>2, ReportsOutcome DEF UpdateRow
  <2>2. /\ DOMAIN rows' = DOMAIN rows
        /\ \A r \in DOMAIN rows : rows'[r] = IF r = rid THEN row ELSE rows[r]
    BY <2>1 DEF TypeOK
  <2>3. ValidRow(rows[rid])
    BY <2>1 DEF TypeOK
  <2>4. \A c \in Indexed : /\ Entry(c, rid, row) = {<<row[c], rid>>}
                           /\ Entry(c, rid, rows[rid]) = {<<rows[rid][c], rid>>}
    BY <2>1, <2>3, TableAssumption DEF ValidRow, Entry
  <2>5. TypeOK'
    <3>1. rows' \in [DOMAIN rows' -> Rows]
      BY <2>1, <2>2 DEF TypeOK
    <3>2. \A r \in DOMAIN rows' : ValidRow(rows'[r])
      BY <2>1, <2>2 DEF TypeOK
    <3>3. \A c \in Indexed : row[c] \in Cells
      BY TableAssumption DEF Rows
    <3>4. index' \in [Indexed -> SUBSET (Cells \X Rids)]
      BY <2>1, <2>4, <3>3 DEF TypeOK, IndexInsert, IndexRemove
    <3> QED
      BY <2>1, <2>2, <2>r, <3>1, <3>2, <3>4 DEF TypeOK, ValidRow
  <2>6. IndexMirrorsRows'
    <3> SUFFICES ASSUME NEW c \in Indexed
                 PROVE  index'[c] = {<<rows'[r][c], r>> : r \in DOMAIN rows'}
      BY DEF IndexMirrorsRows
    <3>1. index'[c] = (index[c] \ {<<rows[rid][c], rid>>}) \cup {<<row[c], rid>>}
      BY <2>1, <2>4 DEF IndexInsert, IndexRemove
    <3>2. index[c] = {<<rows[r][c], r>> : r \in DOMAIN rows}
      BY DEF IndexMirrorsRows
    <3> QED
      BY <2>1, <2>2, <3>1, <3>2
  <2>7. IndexedUnique'
    <3>1. \A c \in Indexed : \A r \in DOMAIN rows \ {rid} : rows[r][c] # row[c]
      BY <2>1, DuplicateIsScan
    <3> QED
      BY <2>1, <2>2, <3>1 DEF IndexedUnique
  <2> QED
    BY <2>5, <2>6, <2>7
<1> QED
  BY <1>1, <1>2

LEMMA DeleteInv ==
  ASSUME TableInv, NEW rid \in Rids, DeleteRow(rid)
  PROVE  TableInv'
<1>1. CASE rid \notin DOMAIN rows
  BY <1>1, RefuseInv DEF DeleteRow
<1>2. CASE rid \in DOMAIN rows
  <2> USE DEF TableInv
  <2>1. /\ rid \in DOMAIN rows
        /\ index' = IndexRemove(index, rid, rows[rid])
        /\ rows' = [r \in DOMAIN rows \ {rid} |-> rows[r]]
        /\ nextRid' = nextRid
    BY <1>2 DEF DeleteRow
  <2>r. reply'.ok \in BOOLEAN
    BY <1>2, ReportsOutcome DEF DeleteRow
  <2>2. \A c \in Indexed : Entry(c, rid, rows[rid]) = {<<rows[rid][c], rid>>}
    BY <2>1, TableAssumption DEF TypeOK, ValidRow, Entry
  <2>3. TypeOK'
    BY <2>1, <2>r DEF TypeOK, ValidRow, IndexRemove
  <2>4. IndexMirrorsRows'
    <3> SUFFICES ASSUME NEW c \in Indexed
                 PROVE  index'[c] = {<<rows'[r][c], r>> : r \in DOMAIN rows'}
      BY DEF IndexMirrorsRows
    <3>1. index'[c] = index[c] \ {<<rows[rid][c], rid>>}
      BY <2>1, <2>2 DEF IndexRemove
    <3>2. index[c] = {<<rows[r][c], r>> : r \in DOMAIN rows}
      BY DEF IndexMirrorsRows
    <3> QED
      BY <2>1, <3>1, <3>2
  <2>5. IndexedUnique'
    BY <2>1 DEF IndexedUnique
  <2> QED
    BY <2>3, <2>4, <2>5
<1> QED
  BY <1>1, <1>2

\* Rebuilding an index that mirrors the rows changes nothing.
LEMMA RebuildIsNoChange ==
  ASSUME TableInv, RebuildIndexes
  PROVE  UNCHANGED tableVars
<1>1. \A c \in Indexed, r \in DOMAIN rows :
        Entry(c, r, rows[r]) = {<<rows[r][c], r>>}
  BY TableAssumption DEF TableInv, TypeOK, ValidRow, Entry
<1>2. \A c \in Indexed : index'[c] = index[c]
  <2> SUFFICES ASSUME NEW c \in Indexed
               PROVE  index'[c] = index[c]
    OBVIOUS
  <2>1. index'[c] = UNION {Entry(c, r, rows[r]) : r \in DOMAIN rows}
    BY DEF RebuildIndexes
  <2>2. index[c] = {<<rows[r][c], r>> : r \in DOMAIN rows}
    BY DEF TableInv, IndexMirrorsRows
  <2> QED
    BY <1>1, <2>1, <2>2
<1>3. index' = index
  BY <1>2 DEF RebuildIndexes, TableInv, TypeOK
<1> QED
  BY <1>3 DEF RebuildIndexes, tableVars

LEMMA NextInv ==
  ASSUME TableInv, [TableNext]_tableVars
  PROVE  TableInv'
<1>1. ASSUME NEW row \in Rows, InsertRow(row)
      PROVE  TableInv'
  BY <1>1, InsertInv
<1>2. ASSUME NEW rid \in Rids, NEW row \in Rows, UpdateRow(rid, row)
      PROVE  TableInv'
  BY <1>2, UpdateInv
<1>3. ASSUME NEW rid \in Rids, DeleteRow(rid)
      PROVE  TableInv'
  BY <1>3, DeleteInv
<1>4. CASE UNCHANGED tableVars
  BY <1>4 DEF tableVars, TableInv, TypeOK, IndexMirrorsRows, IndexedUnique,
              ValidRow
<1>5. CASE RebuildIndexes
  BY <1>4, <1>5, RebuildIsNoChange
<1> QED
  BY <1>1, <1>2, <1>3, <1>4, <1>5 DEF TableNext

\* Type correctness, the mirror between rows and indexes, and the uniqueness
\* of indexed keys hold together: each of the three is needed to show the
\* other two preserved.
THEOREM TableCorrect == TableSpec => []TableInv
<1>1. TableInit => TableInv
  BY InitInv
<1>2. TableInv /\ [TableNext]_tableVars => TableInv'
  BY NextInv
<1> QED
  BY <1>1, <1>2, PTL DEF TableSpec

\* Stored rows keep satisfying validate_row (table.cpp:28-53).
THEOREM TableTypes == TableSpec => []TypeOK
<1>1. TableInv => TypeOK
  BY DEF TableInv
<1> QED
  BY <1>1, TableCorrect, PTL

\* No stale and no missing index entry, ever.
THEOREM IndexesMirrorRows == TableSpec => []IndexMirrorsRows
<1>1. TableInv => IndexMirrorsRows
  BY DEF TableInv
<1> QED
  BY <1>1, TableCorrect, PTL

\* No two rows share the value of an INDEXED column, ever.
THEOREM IndexedColumnsUnique == TableSpec => []IndexedUnique
<1>1. TableInv => IndexedUnique
  BY DEF TableInv
<1> QED
  BY <1>1, TableCorrect, PTL

-----------------------------------------------------------------------------
\* Refinement: with the indexes hidden, each call of Table is the call of
\* RowStore with the same arguments, and RebuildIndexes is a stutter.
LEMMA InitRefines == TableInit => Store!RowStoreInit
BY DEF TableInit, Store!RowStoreInit, Result, Store!Reported

LEMMA InsertRefines ==
  ASSUME TableInv, NEW row \in Rows, InsertRow(row)
  PROVE  Store!Put(row)
<1>1. InsertRefused(row) <=>
        ~(Store!Legal(row) /\ ~Store!Clashes(row, DOMAIN rows))
  BY DuplicateIsScan, ValidIsLegal DEF TableInv, InsertRefused, Store!Clashes
<1> QED
  BY <1>1, TableAssumption
     DEF InsertRow, Refuse, TableInv, TypeOK,
         Store!Put, Store!Reject, Store!StoreRids, Result, Store!Reported

LEMMA UpdateRefines ==
  ASSUME TableInv, NEW rid \in Rids, NEW row \in Rows, UpdateRow(rid, row)
  PROVE  Store!Replace(rid, row)
<1>1. UpdateRefused(rid, row) <=>
        ~(/\ rid \in DOMAIN rows
          /\ Store!Legal(row)
          /\ ~Store!Clashes(row, DOMAIN rows \ {rid}))
  BY DuplicateIsScan, ValidIsLegal DEF TableInv, UpdateRefused, Store!Clashes
<1> QED
  BY <1>1 DEF UpdateRow, Refuse, Store!Replace, Store!Reject, Result, Store!Reported

LEMMA DeleteRefines ==
  ASSUME NEW rid \in Rids, DeleteRow(rid)
  PROVE  Store!Drop(rid)
BY DEF DeleteRow, Refuse, Store!Drop, Store!Reject, Result, Store!Reported

LEMMA NextRefines ==
  ASSUME TableInv, [TableNext]_tableVars
  PROVE  [Store!RowStoreNext]_Store!storeVars
<1> USE DEF Store!RowStoreNext, Store!storeVars
<1>1. Rows = Store!StoreRows /\ Rids = Store!StoreRids
  BY DEF Rows, Cells, Rids, Store!StoreRows, Store!StoreRids
<1>2. ASSUME NEW row \in Rows, InsertRow(row)
      PROVE  Store!RowStoreNext
  BY <1>1, <1>2, InsertRefines
<1>3. ASSUME NEW rid \in Rids, NEW row \in Rows, UpdateRow(rid, row)
      PROVE  Store!RowStoreNext
  BY <1>1, <1>3, UpdateRefines
<1>4. ASSUME NEW rid \in Rids, DeleteRow(rid)
      PROVE  Store!RowStoreNext
  BY <1>1, <1>4, DeleteRefines
<1>5. CASE RebuildIndexes
  BY <1>5 DEF RebuildIndexes
<1>6. CASE UNCHANGED tableVars
  BY <1>6 DEF tableVars
<1> QED
  BY <1>2, <1>3, <1>4, <1>5, <1>6 DEF TableNext

\* A table with B+ tree indexes behaves, for its caller, like a table that
\* scans all its rows on every call.
THEOREM TableImplementsRowStore == TableSpec => ImplementsRowStore
<1>1. TableInit => Store!RowStoreInit
  BY InitRefines
<1>2. TableInv /\ [TableNext]_tableVars => [Store!RowStoreNext]_Store!storeVars
  BY NextRefines
<1> QED
  BY <1>1, <1>2, TableCorrect, PTL
     DEF TableSpec, ImplementsRowStore, Store!RowStoreSpec

-----------------------------------------------------------------------------
\* What a call does to the index of column c, as calls of the index: put an
\* entry in, under a key that is not there (insert), take out one that is
\* there (erase), or one after the other.  It is what EntryIndex and BPlusTree
\* ask of their caller.
PutInto(was, k, r, is) ==
  (\A s \in Rids : <<k, s>> \notin was) /\ is = was \cup {<<k, r>>}

TakenFrom(was, k, r, is) ==
  <<k, r>> \in was /\ is = was \ {<<k, r>>}

IndexCalls(c) ==
  \/ UNCHANGED <<rows, index>>
  \/ \E r \in Rids \ DOMAIN rows : PutInto(index[c], rows'[r][c], r, index'[c])
  \/ \E r \in DOMAIN rows \ DOMAIN rows' : TakenFrom(index[c], rows[r][c], r, index'[c])
  \/ \E r \in DOMAIN rows : \E between :
       TakenFrom(index[c], rows[r][c], r, between) /\ PutInto(between, rows'[r][c], r, index'[c])

\* rebuild_indexes puts the rows into an empty index one by one: whichever are
\* in it already, the key of the next one is not there.
RefillCalls(c) ==
  \A done \in SUBSET DOMAIN rows : \A r \in DOMAIN rows \ done :
    \A s \in Rids : <<rows[r][c], s>> \notin {<<rows[q][c], q>> : q \in done}

LEMMA InsertCalls ==
  ASSUME TableInv, NEW row \in Rows, InsertRow(row), NEW c \in Indexed
  PROVE  IndexCalls(c)
<1>1. CASE InsertRefused(row)
  <2>1. UNCHANGED <<rows, index>>
    BY <1>1, Zenon DEF InsertRow, Refuse
  <2> QED BY <2>1 DEF IndexCalls
<1>2. CASE ~ InsertRefused(row)
  <2>1. /\ nextRid <= MaxRid
        /\ rows' = [r \in DOMAIN rows \cup {nextRid} |-> IF r = nextRid THEN row ELSE rows[r]]
        /\ index' = IndexInsert(index, nextRid, row)
    BY <1>2, Zenon DEF InsertRow
  <2>2. nextRid \in Rids /\ nextRid \notin DOMAIN rows
    BY <2>1, TableAssumption DEF TableInv, TypeOK, Rids
  <2>3. ValidRow(row) /\ ~ Duplicate(row, {})
    BY <1>2 DEF InsertRefused
  <2>4. Entry(c, nextRid, row) = {<<row[c], nextRid>>}
    BY <2>3, TableAssumption DEF ValidRow, Entry
  <2>5. index'[c] = index[c] \cup {<<row[c], nextRid>>} /\ rows'[nextRid][c] = row[c]
    BY <2>1, <2>4 DEF IndexInsert
  <2>6. \A s \in Rids : <<row[c], s>> \notin index[c]
    <3>1. row[c] # Null
      BY <2>3, TableAssumption DEF ValidRow
    <3>2. FindEqual(c, row[c]) \subseteq {}
      BY <2>3, <3>1 DEF Duplicate
    <3> QED BY <3>2 DEF FindEqual
  <2>7. PutInto(index[c], rows'[nextRid][c], nextRid, index'[c])
    BY <2>5, <2>6 DEF PutInto
  <2> QED BY <2>2, <2>7 DEF IndexCalls
<1> QED BY <1>1, <1>2

LEMMA UpdateCalls ==
  ASSUME TableInv, NEW rid \in Rids, NEW row \in Rows, UpdateRow(rid, row), NEW c \in Indexed
  PROVE  IndexCalls(c)
<1>1. CASE UpdateRefused(rid, row)
  <2>1. UNCHANGED <<rows, index>>
    BY <1>1 DEF UpdateRow, Refuse
  <2> QED BY <2>1 DEF IndexCalls
<1>2. CASE ~ UpdateRefused(rid, row)
  <2>1. /\ rid \in DOMAIN rows /\ ValidRow(row) /\ ~ Duplicate(row, {rid})
        /\ index' = IndexInsert(IndexRemove(index, rid, rows[rid]), rid, row)
        /\ rows' = [rows EXCEPT ![rid] = row]
    BY <1>2 DEF UpdateRow, UpdateRefused, Reindexed
  <2>2. /\ Entry(c, rid, row) = {<<row[c], rid>>}
        /\ Entry(c, rid, rows[rid]) = {<<rows[rid][c], rid>>}
    BY <2>1, TableAssumption DEF TableInv, TypeOK, ValidRow, Entry
  <2> DEFINE between == index[c] \ {<<rows[rid][c], rid>>}
  <2>3. index'[c] = between \cup {<<row[c], rid>>} /\ rows'[rid][c] = row[c]
    BY <2>1, <2>2 DEF TableInv, TypeOK, IndexInsert, IndexRemove
  <2>4. TakenFrom(index[c], rows[rid][c], rid, between)
    BY <2>1 DEF TableInv, IndexMirrorsRows, TakenFrom
  <2>5. \A s \in Rids : <<row[c], s>> \notin between
    <3>1. row[c] # Null
      BY <2>1, TableAssumption DEF ValidRow
    <3>2. FindEqual(c, row[c]) \subseteq {rid}
      BY <2>1, <3>1 DEF Duplicate
    <3>3. <<row[c], rid>> \in index[c] => row[c] = rows[rid][c]
      BY DEF TableInv, IndexMirrorsRows
    <3> QED BY <3>2, <3>3 DEF FindEqual
  <2>6. PutInto(between, rows'[rid][c], rid, index'[c])
    BY <2>3, <2>5 DEF PutInto
  <2> QED BY <2>1, <2>4, <2>6 DEF IndexCalls
<1> QED BY <1>1, <1>2

LEMMA DeleteCalls ==
  ASSUME TableInv, NEW rid \in Rids, DeleteRow(rid), NEW c \in Indexed
  PROVE  IndexCalls(c)
<1>1. CASE rid \notin DOMAIN rows
  <2>1. UNCHANGED <<rows, index>>
    BY <1>1 DEF DeleteRow, Refuse
  <2> QED BY <2>1 DEF IndexCalls
<1>2. CASE rid \in DOMAIN rows
  <2>1. /\ index' = IndexRemove(index, rid, rows[rid])
        /\ rows' = [r \in DOMAIN rows \ {rid} |-> rows[r]]
    BY <1>2 DEF DeleteRow
  <2>2. Entry(c, rid, rows[rid]) = {<<rows[rid][c], rid>>}
    BY <1>2, TableAssumption DEF TableInv, TypeOK, ValidRow, Entry
  <2>3. index'[c] = index[c] \ {<<rows[rid][c], rid>>} /\ rid \notin DOMAIN rows'
    BY <2>1, <2>2 DEF IndexRemove
  <2>4. TakenFrom(index[c], rows[rid][c], rid, index'[c])
    BY <1>2, <2>3 DEF TableInv, IndexMirrorsRows, TakenFrom
  <2> QED BY <1>2, <2>3, <2>4 DEF IndexCalls
<1> QED BY <1>1, <1>2

\* Every call of a table calls its indexes as they demand: no key goes into an
\* index that holds it already, not even in the middle of an update or of
\* rebuild_indexes, and an entry taken out was there (table.cpp:55-129,
\* 156-163).
THEOREM IndexesCalledAsPromised ==
  TableSpec => /\ [][\A c \in Indexed : IndexCalls(c)]_tableVars
               /\ [](\A c \in Indexed : RefillCalls(c))
<1>1. TableInv /\ [TableNext]_tableVars => [\A c \in Indexed : IndexCalls(c)]_tableVars
  <2> SUFFICES ASSUME TableInv, TableNext, NEW c \in Indexed PROVE IndexCalls(c)
    OBVIOUS
  <2>1. ASSUME NEW row \in Rows, InsertRow(row) PROVE IndexCalls(c)
    BY <2>1, InsertCalls
  <2>2. ASSUME NEW rid \in Rids, NEW row \in Rows, UpdateRow(rid, row) PROVE IndexCalls(c)
    BY <2>2, UpdateCalls
  <2>3. ASSUME NEW rid \in Rids, DeleteRow(rid) PROVE IndexCalls(c)
    BY <2>3, DeleteCalls
  <2>4. CASE RebuildIndexes
    BY <2>4, RebuildIsNoChange DEF tableVars, IndexCalls
  <2> QED
    BY <2>1, <2>2, <2>3, <2>4 DEF TableNext
<1>2. TableInv => \A c \in Indexed : RefillCalls(c)
  BY DEF TableInv, IndexedUnique, RefillCalls
<1> QED
  BY <1>1, <1>2, TableCorrect, PTL DEF TableSpec

-----------------------------------------------------------------------------
\* A non-empty set of list positions has a greatest element.
LEMMA MaxInSet ==
  ASSUME NEW n \in Nat, NEW S \in SUBSET (1 .. n), S # {}
  PROVE  Max(S) \in S
<1>1. \A x \in S : x \in 0 .. n
  OBVIOUS
<1>2. S \in SUBSET (0 .. n)
  BY <1>1
<1> QED
  BY <1>2, MaxIsGreatest

-----------------------------------------------------------------------------
\* Rows built from the literals of a statement are rows of the table.
LEMMA AssignedType ==
  ASSUME NEW cols, NEW tuple, IsList(cols), DOMAIN tuple = DOMAIN cols,
         \A k \in DOMAIN tuple : tuple[k] \in Cells,
         NEW c, NEW otherwise \in Cells
  PROVE  Assigned(cols, tuple, c, otherwise) \in Cells
<1> DEFINE ks == {k \in DOMAIN cols : cols[k] = c}
<1>1. CASE ks = {}
  BY <1>1 DEF Assigned
<1>2. CASE ks # {}
  <2>1. Max(ks) \in ks
    BY <1>2, MaxInSet DEF IsList
  <2> QED
    BY <1>2, <2>1 DEF Assigned
<1> QED
  BY <1>1, <1>2

LEMMA InsertedRowType ==
  ASSUME NEW cols, NEW tuple, IsList(cols), IsList(tuple),
         Len(tuple) = Len(cols),
         \A k \in DOMAIN tuple : tuple[k] \in Cells
  PROVE  InsertedRow(cols, tuple) \in Rows
<1>1. Null \in Cells /\ \A c \in Cols : Defaults[c] \in Cells
  BY DmlAssumption DEF Cells
<1>2. \A c \in Cols : Assigned(cols, tuple, c, Null) \in Cells
  BY <1>1, AssignedType DEF IsList
<1> QED
  BY <1>1, <1>2 DEF InsertedRow, Rows

LEMMA UpdatedRowType ==
  ASSUME NEW row \in Rows, NEW sets, IsList(sets),
         \A k \in DOMAIN sets : sets[k][2] \in Cells
  PROVE  UpdatedRow(row, sets) \in Rows
<1>1. /\ DOMAIN SetCols(sets) = DOMAIN sets
      /\ DOMAIN SetLits(sets) = DOMAIN sets
      /\ \A k \in DOMAIN SetLits(sets) : SetLits(sets)[k] \in Cells
  BY DEF SetCols, SetLits
<1>2. IsList(SetCols(sets))
  <2>1. Len(SetCols(sets)) = Len(sets)
    BY <1>1 DEF IsList, SetCols
  <2> QED
    BY <1>1, <2>1 DEF IsList
<1>3. \A c \in Cols : Assigned(SetCols(sets), SetLits(sets), c, row[c]) \in Cells
  BY <1>1, <1>2, AssignedType DEF Rows
<1> QED
  BY <1>3 DEF UpdatedRow, Rows

-----------------------------------------------------------------------------
\* Every node names nodes before it.
LEMMA NodeKinds ==
  ASSUME NEW w, IsClause(w), NEW i \in 1 .. Len(w)
  PROVE  /\ w[i].kind \in Leaves \cup {"paren", "and", "or"}
         /\ w[i].kind = "paren" => w[i].child \in 1 .. i - 1
         /\ w[i].kind \in {"and", "or"} => w[i].left \in 1 .. i - 1 /\ w[i].right \in 1 .. i - 1
BY DEF IsClause, IsList

IsMeaning(f, w, table) ==
  \A i \in 1 .. Len(w) : f[i] = MeaningNode(w[i], f, table)

LEMMA MeaningByNode ==
  ASSUME NEW w, IsClause(w), w # <<>>, NEW table
  PROVE  \E f : IsMeaning(f, w, table) /\ Satisfying(w, table) = f[Len(w)]
<1> DEFINE Step(f, i) == MeaningNode(w[i], f, table)
           Fits(f, m) == f = [i \in 1 .. m |-> Step(f, i)]
           S == {m \in 0 .. Len(w) : \E f : Fits(f, m)}
<1>0. Len(w) \in Nat
  BY DEF IsClause, IsList
<1>1. 0 \in S
  <2> DEFINE f == [i \in 1 .. 0 |-> {}]
  <2>1. f = [i \in 1 .. 0 |-> Step(f, i)]
    <3> HIDE DEF Step
    <3>1. \A i \in 1 .. 0 : f[i] = Step(f, i)
      OBVIOUS
    <3> QED BY <3>1
  <2>2. Fits(f, 0)
    BY <2>1
  <2> HIDE DEF f, Fits
  <2> QED BY <1>0, <2>2
<1>2. ASSUME NEW m \in 0 .. Len(w) - 1, m \in S PROVE m + 1 \in S
  <2>1. PICK f : Fits(f, m)
    <3> HIDE DEF Fits
    <3> QED BY <1>2
  <2> DEFINE g == [i \in 1 .. m + 1 |-> IF i = m + 1 THEN Step(f, m + 1) ELSE f[i]]
  <2>2. ASSUME NEW i \in 1 .. m + 1 PROVE g[i] = Step(g, i)
    <3>1. \A k \in 1 .. i - 1 : g[k] = f[k]
      <4> HIDE DEF Step
      <4> QED BY <1>0
    <3>2. Step(f, i) = Step(g, i)
      <4> HIDE DEF g
      <4>1. i \in 1 .. Len(w)
        BY <1>0
      <4> QED BY <3>1, <4>1, NodeKinds DEF MeaningNode, Leaves
    <3>3. g[i] = Step(f, i)
      <4> HIDE DEF Step
      <4> QED BY <2>1, <1>0
    <3> HIDE DEF Step, g
    <3> QED BY <3>2, <3>3
  <2>3. Fits(g, m + 1)
    <3>1. g = [i \in 1 .. m + 1 |-> g[i]]
      <4> HIDE DEF Step
      <4> QED OBVIOUS
    <3> HIDE DEF g, Step
    <3> QED BY <2>2, <3>1
  <2> HIDE DEF g, Fits
  <2> QED BY <1>0, <2>3
<1>3. Len(w) \in S
  <2> HIDE DEF S
  <2>1. 0 .. Len(w) \subseteq S
    BY <1>0, <1>1, <1>2, UpTo
  <2> QED BY <1>0, <2>1
<1> DEFINE f == CHOOSE f : Fits(f, Len(w))
<1>4. Fits(f, Len(w))
  <2>1. \E g : Fits(g, Len(w))
    <3> HIDE DEF Fits
    <3> QED BY <1>3
  <2> HIDE DEF Fits
  <2> QED BY <2>1
<1>5. Satisfying(w, table) = f[Len(w)]
  BY DEF Satisfying
<1> HIDE DEF f
<1>6. \A i \in 1 .. Len(w) : f[i] = Step(f, i)
  <2> HIDE DEF Step
  <2> QED BY <1>4
<1>7. IsMeaning(f, w, table)
  BY <1>6 DEF IsMeaning
<1> QED BY <1>5, <1>7

IsExtract(f, w) ==
  \A i \in 1 .. Len(w) : f[i] = ExtractNode(w[i], f)

LEMMA ExtractByNode ==
  ASSUME NEW w, IsClause(w), w # <<>>
  PROVE  \E f : IsExtract(f, w) /\ extract_index_eq(w) = f[Len(w)]
<1> DEFINE Step(f, i) == ExtractNode(w[i], f)
           Fits(f, m) == f = [i \in 1 .. m |-> Step(f, i)]
           S == {m \in 0 .. Len(w) : \E f : Fits(f, m)}
<1>0. Len(w) \in Nat
  BY DEF IsClause, IsList
<1>1. 0 \in S
  <2> DEFINE f == [i \in 1 .. 0 |-> {}]
  <2>1. f = [i \in 1 .. 0 |-> Step(f, i)]
    <3> HIDE DEF Step
    <3>1. \A i \in 1 .. 0 : f[i] = Step(f, i)
      OBVIOUS
    <3> QED BY <3>1
  <2>2. Fits(f, 0)
    BY <2>1
  <2> HIDE DEF f, Fits
  <2> QED BY <1>0, <2>2
<1>2. ASSUME NEW m \in 0 .. Len(w) - 1, m \in S PROVE m + 1 \in S
  <2>1. PICK f : Fits(f, m)
    <3> HIDE DEF Fits
    <3> QED BY <1>2
  <2> DEFINE g == [i \in 1 .. m + 1 |-> IF i = m + 1 THEN Step(f, m + 1) ELSE f[i]]
  <2>2. ASSUME NEW i \in 1 .. m + 1 PROVE g[i] = Step(g, i)
    <3>1. \A k \in 1 .. i - 1 : g[k] = f[k]
      <4> HIDE DEF Step
      <4> QED BY <1>0
    <3>2. Step(f, i) = Step(g, i)
      <4> HIDE DEF g
      <4>1. i \in 1 .. Len(w)
        BY <1>0
      <4> QED BY <3>1, <4>1, NodeKinds DEF ExtractNode, Leaves
    <3>3. g[i] = Step(f, i)
      <4> HIDE DEF Step
      <4> QED BY <2>1, <1>0
    <3> HIDE DEF Step, g
    <3> QED BY <3>2, <3>3
  <2>3. Fits(g, m + 1)
    <3>1. g = [i \in 1 .. m + 1 |-> g[i]]
      <4> HIDE DEF Step
      <4> QED OBVIOUS
    <3> HIDE DEF g, Step
    <3> QED BY <2>2, <3>1
  <2> HIDE DEF g, Fits
  <2> QED BY <1>0, <2>3
<1>3. Len(w) \in S
  <2> HIDE DEF S
  <2>1. 0 .. Len(w) \subseteq S
    BY <1>0, <1>1, <1>2, UpTo
  <2> QED BY <1>0, <2>1
<1> DEFINE f == CHOOSE f : Fits(f, Len(w))
<1>4. Fits(f, Len(w))
  <2>1. \E g : Fits(g, Len(w))
    <3> HIDE DEF Fits
    <3> QED BY <1>3
  <2> HIDE DEF Fits
  <2> QED BY <2>1
<1>5. extract_index_eq(w) = f[Len(w)]
  BY DEF extract_index_eq
<1> HIDE DEF f
<1>6. \A i \in 1 .. Len(w) : f[i] = Step(f, i)
  <2> HIDE DEF Step
  <2> QED BY <1>4
<1>7. IsExtract(f, w)
  BY <1>6 DEF IsExtract
<1> QED BY <1>5, <1>7

IsEval(f, w, row) ==
  \A i \in 1 .. Len(w) : f[i] = [e \in BOOLEAN |-> EvalNode(w[i], f, row, e)]

LEMMA EvalByNode ==
  ASSUME NEW w, IsClause(w), w # <<>>, NEW row, NEW err
  PROVE  \E f : IsEval(f, w, row) /\ eval_where(w, row, err) = f[Len(w)][err]
<1> DEFINE Step(f, i) == [e \in BOOLEAN |-> EvalNode(w[i], f, row, e)]
           Fits(f, m) == f = [i \in 1 .. m |-> Step(f, i)]
           S == {m \in 0 .. Len(w) : \E f : Fits(f, m)}
<1>0. Len(w) \in Nat
  BY DEF IsClause, IsList
<1>1. 0 \in S
  <2> DEFINE f == [i \in 1 .. 0 |-> {}]
  <2>1. f = [i \in 1 .. 0 |-> Step(f, i)]
    <3> HIDE DEF Step
    <3>1. \A i \in 1 .. 0 : f[i] = Step(f, i)
      OBVIOUS
    <3> QED BY <3>1
  <2>2. Fits(f, 0)
    BY <2>1
  <2> HIDE DEF f, Fits
  <2> QED BY <1>0, <2>2
<1>2. ASSUME NEW m \in 0 .. Len(w) - 1, m \in S PROVE m + 1 \in S
  <2>1. PICK f : Fits(f, m)
    <3> HIDE DEF Fits
    <3> QED BY <1>2
  <2> DEFINE g == [i \in 1 .. m + 1 |-> IF i = m + 1 THEN Step(f, m + 1) ELSE f[i]]
  <2>2. ASSUME NEW i \in 1 .. m + 1 PROVE g[i] = Step(g, i)
    <3>1. \A k \in 1 .. i - 1 : g[k] = f[k]
      <4> HIDE DEF Step
      <4> QED BY <1>0
    <3>2. Step(f, i) = Step(g, i)
      <4> HIDE DEF g
      <4>1. i \in 1 .. Len(w)
        BY <1>0
      <4> QED BY <3>1, <4>1, NodeKinds DEF EvalNode, Leaves
    <3>3. g[i] = Step(f, i)
      <4> HIDE DEF Step
      <4> QED BY <2>1, <1>0
    <3> HIDE DEF Step, g
    <3> QED BY <3>2, <3>3
  <2>3. Fits(g, m + 1)
    <3>1. g = [i \in 1 .. m + 1 |-> g[i]]
      <4> HIDE DEF Step
      <4> QED OBVIOUS
    <3> HIDE DEF g, Step
    <3> QED BY <2>2, <3>1
  <2> HIDE DEF g, Fits
  <2> QED BY <1>0, <2>3
<1>3. Len(w) \in S
  <2> HIDE DEF S
  <2>1. 0 .. Len(w) \subseteq S
    BY <1>0, <1>1, <1>2, UpTo
  <2> QED BY <1>0, <2>1
<1> DEFINE f == CHOOSE f : Fits(f, Len(w))
<1>4. Fits(f, Len(w))
  <2>1. \E g : Fits(g, Len(w))
    <3> HIDE DEF Fits
    <3> QED BY <1>3
  <2> HIDE DEF Fits
  <2> QED BY <2>1
<1>5. eval_where(w, row, err) = f[Len(w)][err]
  BY DEF eval_where
<1> HIDE DEF f
<1>6. \A i \in 1 .. Len(w) : f[i] = Step(f, i)
  <2> HIDE DEF Step
  <2> QED BY <1>4
<1>7. IsEval(f, w, row)
  BY <1>6 DEF IsEval
<1> QED BY <1>5, <1>7

-----------------------------------------------------------------------------
\* What a node does, kind by kind.
LeafRows(n, table) ==
  {q \in DOMAIN table : ~LeafFails(n, table[q]) /\ LeafHolds(n, table[q])}

LEMMA LeafEval ==
  ASSUME NEW n, n.kind \in Leaves, NEW node, NEW row, NEW err
  PROVE  EvalNode(n, node, row, err) = EvalLeaf(n, row, err)
BY DEF EvalNode, Leaves

LEMMA LeafMeaning ==
  ASSUME NEW n, n.kind \in Leaves, NEW node, NEW table
  PROVE  MeaningNode(n, node, table) = LeafRows(n, table)
BY DEF MeaningNode, LeafRows, Leaves

LEMMA ParenEval ==
  ASSUME NEW n, n.kind = "paren", NEW node, NEW row, NEW err
  PROVE  EvalNode(n, node, row, err) = node[n.child][err]
BY DEF EvalNode, Leaves

LEMMA ParenMeaning ==
  ASSUME NEW n, n.kind = "paren", NEW node, NEW table
  PROVE  MeaningNode(n, node, table) = node[n.child]
BY DEF MeaningNode, Leaves

LEMMA AndMeaning ==
  ASSUME NEW n, n.kind = "and", NEW node, NEW table
  PROVE  MeaningNode(n, node, table) = node[n.left] \cap node[n.right]
BY DEF MeaningNode, Leaves

LEMMA OrMeaning ==
  ASSUME NEW n, n.kind = "or", NEW node, NEW table
  PROVE  MeaningNode(n, node, table) = node[n.left] \cup node[n.right]
BY DEF MeaningNode, Leaves

LEMMA LeafHit ==
  ASSUME NEW n, NEW row, NEW err \in BOOLEAN
  PROVE  /\ EvalLeaf(n, row, err).err \in BOOLEAN
         /\ EvalLeaf(n, row, err).hit => ~LeafFails(n, row) /\ LeafHolds(n, row)
<1>1. CASE LeafFails(n, row)
  BY <1>1 DEF EvalLeaf, Outcome
<1>2. CASE ~LeafFails(n, row)
  BY <1>2 DEF EvalLeaf, Outcome
<1> QED BY <1>1, <1>2

LEMMA LeafClean ==
  ASSUME NEW n, NEW row, ~LeafFails(n, row)
  PROVE  /\ ~ EvalLeaf(n, row, FALSE).err
         /\ LeafHolds(n, row) => EvalLeaf(n, row, FALSE).hit
BY DEF EvalLeaf, Outcome

LEMMA BinaryErr ==
  ASSUME NEW n, NEW left, NEW right, left.err \in BOOLEAN, right.err \in BOOLEAN
  PROVE  EvalBinary(n, left, right).err \in BOOLEAN
BY DEF EvalBinary, Outcome

LEMMA AndHit ==
  ASSUME NEW n, n.kind = "and", NEW left, NEW right, EvalBinary(n, left, right).hit
  PROVE  left.hit /\ right.hit
<1>1. ~ (left.err \/ right.err)
  BY DEF EvalBinary, Outcome
<1>2. EvalBinary(n, left, right).hit = (left.hit /\ right.hit)
  BY <1>1 DEF EvalBinary, Outcome
<1> QED BY <1>2

LEMMA OrHit ==
  ASSUME NEW n, n.kind = "or", NEW left, NEW right, EvalBinary(n, left, right).hit
  PROVE  left.hit \/ right.hit
<1>1. ~ (left.err \/ right.err)
  BY DEF EvalBinary, Outcome
<1>2. EvalBinary(n, left, right).hit = (left.hit \/ right.hit)
  BY <1>1 DEF EvalBinary, Outcome
<1> QED BY <1>2

LEMMA AndClean ==
  ASSUME NEW n, n.kind = "and", NEW left, NEW right, ~ left.err, ~ right.err
  PROVE  /\ ~ EvalBinary(n, left, right).err
         /\ left.hit /\ right.hit => EvalBinary(n, left, right).hit
BY DEF EvalBinary, Outcome

LEMMA OrClean ==
  ASSUME NEW n, n.kind = "or", NEW left, NEW right, ~ left.err, ~ right.err
  PROVE  /\ ~ EvalBinary(n, left, right).err
         /\ left.hit \/ right.hit => EvalBinary(n, left, right).hit
BY DEF EvalBinary, Outcome

-----------------------------------------------------------------------------
\* What evaluating node i on row r has to do with what the node selects:
\* whatever error was there before, a hit is selected; and on a table on which
\* every leaf can be evaluated, nothing else happens.
Sound(f, g, r, i) ==
  \A e \in BOOLEAN : f[i][e].err \in BOOLEAN /\ (f[i][e].hit => r \in g[i])
Exact(f, g, r, i) == ~ f[i][FALSE].err /\ (r \in g[i] => f[i][FALSE].hit)

LEMMA SoundNode ==
  ASSUME NEW n, n.kind \in Leaves \cup {"paren", "and", "or"},
         NEW table, NEW r \in DOMAIN table, NEW f, NEW g, NEW e \in BOOLEAN,
         n.kind = "paren" => Sound(f, g, r, n.child),
         n.kind \in {"and", "or"} => Sound(f, g, r, n.left) /\ Sound(f, g, r, n.right)
  PROVE  /\ EvalNode(n, f, table[r], e).err \in BOOLEAN
         /\ EvalNode(n, f, table[r], e).hit => r \in MeaningNode(n, g, table)
<1> PICK row : row = table[r]
  OBVIOUS
<1>1. CASE n.kind \in Leaves
  <2>1. EvalNode(n, f, row, e) = EvalLeaf(n, row, e)
        /\ MeaningNode(n, g, table) = LeafRows(n, table)
    BY <1>1, LeafEval, LeafMeaning
  <2>2. /\ EvalLeaf(n, row, e).err \in BOOLEAN
        /\ EvalLeaf(n, row, e).hit => ~LeafFails(n, row) /\ LeafHolds(n, row)
    BY LeafHit
  <2> QED BY <2>1, <2>2 DEF LeafRows
<1>2. CASE n.kind = "paren"
  <2>1. EvalNode(n, f, row, e) = f[n.child][e] /\ MeaningNode(n, g, table) = g[n.child]
    BY <1>2, ParenEval, ParenMeaning
  <2> QED BY <1>2, <2>1 DEF Sound
<1>3. CASE n.kind \in {"and", "or"}
  <2>1. PICK left, right : left = f[n.left][e] /\ right = f[n.right][FALSE]
    OBVIOUS
  <2>2. EvalNode(n, f, row, e) = EvalBinary(n, left, right)
    BY ONLY <1>3, <2>1 DEF EvalNode, Leaves
  <2>3. /\ left.err \in BOOLEAN /\ right.err \in BOOLEAN
        /\ left.hit => r \in g[n.left]
        /\ right.hit => r \in g[n.right]
    BY <1>3, <2>1 DEF Sound
  <2>4. EvalBinary(n, left, right).err \in BOOLEAN
    BY <2>3, BinaryErr
  <2>5. ASSUME EvalBinary(n, left, right).hit PROVE r \in MeaningNode(n, g, table)
    <3>1. CASE n.kind = "and"
      <4>1. left.hit /\ right.hit
        BY <2>5, <3>1, AndHit
      <4>2. MeaningNode(n, g, table) = g[n.left] \cap g[n.right]
        BY <3>1, AndMeaning
      <4> QED BY <2>3, <4>1, <4>2
    <3>2. CASE n.kind = "or"
      <4>1. left.hit \/ right.hit
        BY <2>5, <3>2, OrHit
      <4>2. MeaningNode(n, g, table) = g[n.left] \cup g[n.right]
        BY <3>2, OrMeaning
      <4> QED BY <2>3, <4>1, <4>2
    <3> QED BY <1>3, <3>1, <3>2
  <2> QED BY <2>2, <2>4, <2>5
<1> QED BY <1>1, <1>2, <1>3

LEMMA ExactNode ==
  ASSUME NEW n, n.kind \in Leaves \cup {"paren", "and", "or"},
         NEW table, NEW r \in DOMAIN table, NEW f, NEW g,
         n.kind \in Leaves => ~LeafFails(n, table[r]),
         n.kind = "paren" => Exact(f, g, r, n.child),
         n.kind \in {"and", "or"} => Exact(f, g, r, n.left) /\ Exact(f, g, r, n.right)
  PROVE  /\ ~ EvalNode(n, f, table[r], FALSE).err
         /\ r \in MeaningNode(n, g, table) => EvalNode(n, f, table[r], FALSE).hit
<1> PICK row : row = table[r]
  OBVIOUS
<1>1. CASE n.kind \in Leaves
  <2>1. EvalNode(n, f, row, FALSE) = EvalLeaf(n, row, FALSE)
        /\ MeaningNode(n, g, table) = LeafRows(n, table)
    BY <1>1, LeafEval, LeafMeaning
  <2>2. /\ ~ EvalLeaf(n, row, FALSE).err
        /\ LeafHolds(n, row) => EvalLeaf(n, row, FALSE).hit
    BY <1>1, LeafClean
  <2> QED BY <2>1, <2>2 DEF LeafRows
<1>2. CASE n.kind = "paren"
  <2>1. EvalNode(n, f, row, FALSE) = f[n.child][FALSE]
    BY ONLY <1>2 DEF EvalNode, Leaves
  <2>2. MeaningNode(n, g, table) = g[n.child]
    BY <1>2, ParenMeaning
  <2> QED BY <1>2, <2>1, <2>2 DEF Exact
<1>3. CASE n.kind \in {"and", "or"}
  <2>1. PICK left, right : left = f[n.left][FALSE] /\ right = f[n.right][FALSE]
    OBVIOUS
  <2>2. EvalNode(n, f, row, FALSE) = EvalBinary(n, left, right)
    BY ONLY <1>3, <2>1 DEF EvalNode, Leaves
  <2>3. /\ ~ left.err /\ ~ right.err
        /\ r \in g[n.left] => left.hit
        /\ r \in g[n.right] => right.hit
    BY <1>3, <2>1 DEF Exact
  <2>4. CASE n.kind = "and"
    <3>1. /\ ~ EvalBinary(n, left, right).err
          /\ left.hit /\ right.hit => EvalBinary(n, left, right).hit
      BY <2>3, <2>4, AndClean
    <3>2. MeaningNode(n, g, table) = g[n.left] \cap g[n.right]
      BY <2>4, AndMeaning
    <3> QED BY <2>2, <2>3, <3>1, <3>2
  <2>5. CASE n.kind = "or"
    <3>1. /\ ~ EvalBinary(n, left, right).err
          /\ left.hit \/ right.hit => EvalBinary(n, left, right).hit
      BY <2>3, <2>5, OrClean
    <3>2. MeaningNode(n, g, table) = g[n.left] \cup g[n.right]
      BY <2>5, OrMeaning
    <3> QED BY <2>2, <2>3, <3>1, <3>2
  <2> QED BY <1>3, <2>4, <2>5
<1> QED BY <1>1, <1>2, <1>3

LEMMA EvalIsSound ==
  ASSUME NEW w, IsClause(w), NEW table, NEW r \in DOMAIN table,
         NEW f, IsEval(f, w, table[r]), NEW g, IsMeaning(g, w, table)
  PROVE  \A i \in 1 .. Len(w) : Sound(f, g, r, i)
<1> DEFINE S == {i \in 1 .. Len(w) : Sound(f, g, r, i)}
<1>0. Len(w) \in Nat
  BY DEF IsClause, IsList
<1>1. ASSUME NEW i \in 1 .. Len(w), 1 .. i - 1 \subseteq S PROVE i \in S
  <2>1. \A k \in 1 .. i - 1 : Sound(f, g, r, k)
    BY <1>1
  <2> HIDE DEF S
  <2>2. PICK n : n = w[i]
    OBVIOUS
  <2>3. /\ n.kind \in Leaves \cup {"paren", "and", "or"}
        /\ n.kind = "paren" => n.child \in 1 .. i - 1
        /\ n.kind \in {"and", "or"} => n.left \in 1 .. i - 1 /\ n.right \in 1 .. i - 1
    BY <2>2, NodeKinds
  <2>4. /\ n.kind = "paren" => Sound(f, g, r, n.child)
        /\ n.kind \in {"and", "or"} => Sound(f, g, r, n.left) /\ Sound(f, g, r, n.right)
    BY <2>1, <2>3
  <2>5. ASSUME NEW e \in BOOLEAN
        PROVE  f[i][e].err \in BOOLEAN /\ (f[i][e].hit => r \in g[i])
    <3>1. f[i][e] = EvalNode(n, f, table[r], e) /\ g[i] = MeaningNode(n, g, table)
      BY <2>2 DEF IsEval, IsMeaning
    <3>2. /\ EvalNode(n, f, table[r], e).err \in BOOLEAN
          /\ EvalNode(n, f, table[r], e).hit => r \in MeaningNode(n, g, table)
      BY <2>3, <2>4, SoundNode
    <3> QED BY <3>1, <3>2
  <2>6. Sound(f, g, r, i)
    BY <2>5 DEF Sound
  <2> QED BY <2>6 DEF S
<1>2. 1 .. Len(w) \subseteq S
  <2> HIDE DEF S
  <2> QED BY <1>0, <1>1, CourseOfValues
<1> QED BY <1>2

LEMMA EvalIsExact ==
  ASSUME NEW w, IsClause(w), NEW table, Evaluable(w, table), NEW r \in DOMAIN table,
         NEW f, IsEval(f, w, table[r]), NEW g, IsMeaning(g, w, table)
  PROVE  \A i \in 1 .. Len(w) : Exact(f, g, r, i)
<1> DEFINE S == {i \in 1 .. Len(w) : Exact(f, g, r, i)}
<1>0. Len(w) \in Nat
  BY DEF IsClause, IsList
<1>1. ASSUME NEW i \in 1 .. Len(w), 1 .. i - 1 \subseteq S PROVE i \in S
  <2>1. \A k \in 1 .. i - 1 : Exact(f, g, r, k)
    BY <1>1
  <2> HIDE DEF S
  <2>2. PICK n : n = w[i]
    OBVIOUS
  <2>3. /\ n.kind \in Leaves \cup {"paren", "and", "or"}
        /\ n.kind = "paren" => n.child \in 1 .. i - 1
        /\ n.kind \in {"and", "or"} => n.left \in 1 .. i - 1 /\ n.right \in 1 .. i - 1
    BY <2>2, NodeKinds
  <2>4. /\ n.kind = "paren" => Exact(f, g, r, n.child)
        /\ n.kind \in {"and", "or"} => Exact(f, g, r, n.left) /\ Exact(f, g, r, n.right)
    BY <2>1, <2>3
  <2>5. n.kind \in Leaves => ~LeafFails(n, table[r])
    BY <2>2 DEF Evaluable
  <2>6. f[i][FALSE] = EvalNode(n, f, table[r], FALSE) /\ g[i] = MeaningNode(n, g, table)
    BY <2>2 DEF IsEval, IsMeaning
  <2>7. /\ ~ EvalNode(n, f, table[r], FALSE).err
        /\ r \in MeaningNode(n, g, table) => EvalNode(n, f, table[r], FALSE).hit
    BY <2>3, <2>4, <2>5, ExactNode
  <2>8. Exact(f, g, r, i)
    BY <2>6, <2>7 DEF Exact
  <2> QED BY <2>8 DEF S
<1>2. 1 .. Len(w) \subseteq S
  <2> HIDE DEF S
  <2> QED BY <1>0, <1>1, CourseOfValues
<1> QED BY <1>2

\* A row is only taken for a hit if the clause selects it, whatever error an
\* earlier row left; the error flag stays a truth value.
LEMMA HitIsSelected ==
  ASSUME NEW w, IsClause(w), NEW table, NEW r \in DOMAIN table, NEW err \in BOOLEAN
  PROVE  /\ eval_where(w, table[r], err).err \in BOOLEAN
         /\ eval_where(w, table[r], err).hit => r \in Satisfying(w, table)
<1>1. CASE w = <<>>
  BY <1>1 DEF eval_where, Satisfying, Outcome
<1>2. CASE w # <<>>
  <2>1. PICK f : IsEval(f, w, table[r]) /\ eval_where(w, table[r], err) = f[Len(w)][err]
    BY <1>2, EvalByNode
  <2>2. PICK g : IsMeaning(g, w, table) /\ Satisfying(w, table) = g[Len(w)]
    BY <1>2, MeaningByNode
  <2>3. Len(w) \in 1 .. Len(w)
    BY <1>2 DEF IsClause, IsList
  <2>4. Sound(f, g, r, Len(w))
    BY <2>1, <2>2, <2>3, EvalIsSound
  <2> QED BY <2>1, <2>2, <2>4 DEF Sound
<1> QED BY <1>1, <1>2

\* On rows on which the clause can be evaluated, and as long as they are, the
\* clause's rows are exactly the hits.
LEMMA SelectedIsHit ==
  ASSUME NEW w, IsClause(w), NEW table, Evaluable(w, table), NEW r \in DOMAIN table
  PROVE  /\ ~ eval_where(w, table[r], FALSE).err
         /\ r \in Satisfying(w, table) => eval_where(w, table[r], FALSE).hit
<1>1. CASE w = <<>>
  BY <1>1 DEF eval_where, Outcome
<1>2. CASE w # <<>>
  <2>1. PICK f : IsEval(f, w, table[r]) /\ eval_where(w, table[r], FALSE) = f[Len(w)][FALSE]
    BY <1>2, EvalByNode
  <2>2. PICK g : IsMeaning(g, w, table) /\ Satisfying(w, table) = g[Len(w)]
    BY <1>2, MeaningByNode
  <2>3. Len(w) \in 1 .. Len(w)
    BY <1>2 DEF IsClause, IsList
  <2>4. Exact(f, g, r, Len(w))
    BY <2>1, <2>2, <2>3, EvalIsExact
  <2> QED BY <2>1, <2>2, <2>4 DEF Exact
<1> QED BY <1>1, <1>2

\* The equality extract_index_eq finds holds of every row selected.
Demands(key, selected, table) ==
  /\ selected \subseteq DOMAIN table
  /\ key # <<>> => key[1] \in Indexed /\ \A r \in selected : table[r][key[1]] = key[2]

LEMMA LeafDemands ==
  ASSUME NEW n, n.kind \in Leaves, NEW h, NEW g, NEW table
  PROVE  Demands(ExtractNode(n, h), MeaningNode(n, g, table), table)
<1>1. ExtractNode(n, h) = IF IndexedEq(n) THEN <<n.col, n.lit>> ELSE <<>>
  BY DEF ExtractNode, Leaves
<1>2. MeaningNode(n, g, table) = LeafRows(n, table)
  BY LeafMeaning
<1>3. CASE IndexedEq(n)
  <2>1. ASSUME NEW r \in LeafRows(n, table) PROVE r \in DOMAIN table /\ table[r][n.col] = n.lit
    <3>1. r \in DOMAIN table /\ LeafHolds(n, table[r])
      BY <2>1 DEF LeafRows
    <3>2. n.kind = "cmp" /\ n.op = "=="
      BY <1>3 DEF IndexedEq
    <3>3. CmpValues(n.op, table[r][n.col], n.lit)
      BY <3>1, <3>2 DEF LeafHolds
    <3> QED BY <3>1, <3>2, <3>3 DEF CmpValues
  <2>2. PICK key : key = <<n.col, n.lit>>
    OBVIOUS
  <2>3. ExtractNode(n, h) = key /\ key[1] = n.col /\ key[2] = n.lit /\ n.col \in Indexed
    BY <1>1, <1>3, <2>2 DEF IndexedEq
  <2>4. LeafRows(n, table) \subseteq DOMAIN table
    BY DEF LeafRows
  <2> QED BY <1>2, <2>1, <2>3, <2>4 DEF Demands
<1>4. CASE ~IndexedEq(n)
  BY <1>1, <1>2, <1>4 DEF Demands, LeafRows
<1> QED BY <1>3, <1>4

LEMMA AndDemands ==
  ASSUME NEW n, n.kind = "and", NEW h, NEW g, NEW table,
         Demands(h[n.left], g[n.left], table), Demands(h[n.right], g[n.right], table)
  PROVE  Demands(ExtractNode(n, h), MeaningNode(n, g, table), table)
<1>1. ExtractNode(n, h) = IF h[n.left] # <<>> THEN h[n.left] ELSE h[n.right]
  BY DEF ExtractNode
<1>2. MeaningNode(n, g, table) = g[n.left] \cap g[n.right]
  BY AndMeaning
<1> QED BY <1>1, <1>2 DEF Demands

LEMMA ExtractIsNecessary ==
  ASSUME NEW w, IsClause(w), NEW table,
         NEW h, IsExtract(h, w), NEW g, IsMeaning(g, w, table)
  PROVE  \A i \in 1 .. Len(w) : Demands(h[i], g[i], table)
<1> DEFINE S == {i \in 1 .. Len(w) : Demands(h[i], g[i], table)}
<1>0. Len(w) \in Nat
  BY DEF IsClause, IsList
<1>1. ASSUME NEW i \in 1 .. Len(w), 1 .. i - 1 \subseteq S PROVE i \in S
  <2>1. \A k \in 1 .. i - 1 : Demands(h[k], g[k], table)
    BY <1>1
  <2> HIDE DEF S
  <2>2. PICK n : n = w[i]
    OBVIOUS
  <2>3. /\ n.kind \in Leaves \cup {"paren", "and", "or"}
        /\ n.kind = "paren" => n.child \in 1 .. i - 1
        /\ n.kind \in {"and", "or"} => n.left \in 1 .. i - 1 /\ n.right \in 1 .. i - 1
    BY <2>2, NodeKinds
  <2>4. h[i] = ExtractNode(n, h) /\ g[i] = MeaningNode(n, g, table)
    BY <2>2 DEF IsExtract, IsMeaning
  <2>5. Demands(ExtractNode(n, h), MeaningNode(n, g, table), table)
    <3>1. CASE n.kind \in Leaves
      BY <3>1, LeafDemands
    <3>2. CASE n.kind = "paren"
      <4>1. ExtractNode(n, h) = h[n.child]
        BY <3>2 DEF ExtractNode
      <4>2. MeaningNode(n, g, table) = g[n.child]
        BY <3>2, ParenMeaning
      <4> QED BY <2>1, <2>3, <3>2, <4>1, <4>2
    <3>3. CASE n.kind = "and"
      <4>1. Demands(h[n.left], g[n.left], table) /\ Demands(h[n.right], g[n.right], table)
        BY <2>1, <2>3, <3>3
      <4> QED BY <3>3, <4>1, AndDemands
    <3>4. CASE n.kind = "or"
      <4>1. ExtractNode(n, h) = <<>>
        BY <3>4 DEF ExtractNode, IndexedEq
      <4>2. MeaningNode(n, g, table) = g[n.left] \cup g[n.right]
        BY <3>4, OrMeaning
      <4>3. Demands(h[n.left], g[n.left], table) /\ Demands(h[n.right], g[n.right], table)
        BY <2>1, <2>3, <3>4
      <4> QED BY <4>1, <4>2, <4>3 DEF Demands
    <3> QED BY <2>3, <3>1, <3>2, <3>3, <3>4
  <2>6. Demands(h[i], g[i], table)
    BY <2>4, <2>5
  <2> QED BY <2>6 DEF S
<1>2. 1 .. Len(w) \subseteq S
  <2> HIDE DEF S
  <2> QED BY <1>0, <1>1, CourseOfValues
<1> QED BY <1>2

LEMMA KeyIsNecessary ==
  ASSUME NEW w, IsClause(w), NEW table
  PROVE  Demands(extract_index_eq(w), Satisfying(w, table), table)
<1>0. CASE w = <<>>
  <2>1. extract_index_eq(w) = <<>> /\ Satisfying(w, table) = DOMAIN table
    BY <1>0 DEF extract_index_eq, Satisfying
  <2> QED BY <2>1 DEF Demands
<1>1. CASE w # <<>>
  <2>2. PICK h : IsExtract(h, w) /\ extract_index_eq(w) = h[Len(w)]
    BY <1>1, ExtractByNode
  <2>3. PICK g : IsMeaning(g, w, table) /\ Satisfying(w, table) = g[Len(w)]
    BY <1>1, MeaningByNode
  <2>4. Len(w) \in 1 .. Len(w)
    BY <1>1 DEF IsClause, IsList
  <2>5. Demands(h[Len(w)], g[Len(w)], table)
    BY <2>2, <2>3, <2>4, ExtractIsNecessary
  <2> QED BY <2>2, <2>3, <2>5
<1> QED BY <1>0, <1>1

-----------------------------------------------------------------------------
\* What the loops maintain besides EffectIsHits: INSERT has done a prefix of
\* its tuples, the other loops have split the rows they began with into those
\* done, those to do and those passed over.
LoopInv ==
  /\ TableInv
  /\ stmt \in Statements \cup {NoStmt}
  /\ DOMAIN before \subseteq Rids
  /\ stmt.op = "insert" =>
       \E n \in 0 .. Len(stmt.tuples) :
         hits = 1 .. n /\ todo = (n + 1) .. Len(stmt.tuples)
  /\ stmt.op \in RowLoops =>
       /\ hits \subseteq DOMAIN before
       /\ todo \subseteq DOMAIN before \ hits
       /\ victims \subseteq hits

\* EffectIsHits is inductive only together with LoopInv: that a row still to
\* be visited is as it was before rests on its not being among the hits.
DmlInv == LoopInv /\ EffectIsHits

LEMMA StatementKinds ==
  ASSUME stmt \in Statements \cup {NoStmt}
  PROVE  /\ stmt = NoStmt \/ StatementOK(stmt)
         /\ stmt.op \in RowLoops \cup {"insert", "none"}
         /\ stmt.op = "none" <=> stmt = NoStmt
<1>1. CASE stmt = NoStmt
  BY <1>1 DEF NoStmt
<1>2. CASE stmt # NoStmt
  <2>1. StatementOK(stmt)
    BY <1>2, DmlAssumption
  <2>2. stmt.op \in RowLoops \cup {"insert"}
    BY <2>1 DEF StatementOK, RowLoops
  <2> QED
    BY <1>2, <2>1, <2>2 DEF RowLoops
<1> QED
  BY <1>1, <1>2

LEMMA PrefixLength ==
  ASSUME NEW n \in Nat
  PROVE  Cardinality(1 .. n) = n
BY FS_Interval

\* Only existing rows are candidates.
LEMMA CandidatesExist ==
  ASSUME TableInv, NEW w
  PROVE  candidate_rows(w) \subseteq DOMAIN rows
<1>1. \A c \in Indexed : \A key : FindEqual(c, key) \subseteq DOMAIN rows
  BY FindEqualIsScan DEF TableInv
<1> QED
  BY <1>1 DEF candidate_rows

-----------------------------------------------------------------------------
\* Every step of a statement is a call of the table or leaves it alone.
LEMMA StepsTable ==
  ASSUME LoopInv, [DmlNext]_dmlVars
  PROVE  [TableNext]_tableVars
<1> USE DEF LoopInv
<1>1. CASE InsertTuple
  <2> DEFINE i == Min(todo)
             tuple == stmt.tuples[i]
  <2>1. CASE UNCHANGED tableVars
    BY <2>1
  <2>2. CASE ~UNCHANGED tableVars
    <3>1. /\ stmt.op = "insert" /\ todo # {}
          /\ Len(tuple) = Len(stmt.cols)
          /\ InsertRow(InsertedRow(stmt.cols, tuple))
      BY <1>1, <2>2 DEF InsertTuple
    <3>2. StatementOK(stmt)
      BY <3>1, StatementKinds DEF NoStmt
    <3>3. i \in DOMAIN stmt.tuples
      <4>1. PICK n \in 0 .. Len(stmt.tuples) : todo = (n + 1) .. Len(stmt.tuples)
        BY <3>1
      <4>2. Len(stmt.tuples) \in Nat /\ DOMAIN stmt.tuples = 1 .. Len(stmt.tuples)
        BY <3>1, <3>2 DEF StatementOK, IsList
      <4>3. i = n + 1
        BY <3>1, <4>1, <4>2 DEF Min
      <4> QED
        BY <3>1, <4>1, <4>2, <4>3
    <3>4. InsertedRow(stmt.cols, tuple) \in Rows
      BY <3>1, <3>2, <3>3, InsertedRowType DEF StatementOK
    <3> QED
      BY <3>1, <3>4 DEF TableNext
  <2> QED
    BY <2>1, <2>2
<1>2. ASSUME NEW r \in todo, UpdateOne(r)
      PROVE  [TableNext]_tableVars
  <2>1. CASE UNCHANGED tableVars
    BY <2>1
  <2>2. CASE ~UNCHANGED tableVars
    <3>1. /\ stmt.op = "update"
          /\ Match(r).hit
          /\ UpdateRow(r, UpdatedRow(rows[r], stmt.sets))
      BY <1>2, <2>2 DEF UpdateOne
    <3>2. StatementOK(stmt) /\ r \in Rids
      BY <3>1, StatementKinds DEF NoStmt, RowLoops
    <3>3. r \in DOMAIN rows
      BY <3>1 DEF Match, Outcome
    <3>4. UpdatedRow(rows[r], stmt.sets) \in Rows
      BY <3>1, <3>2, <3>3, UpdatedRowType DEF StatementOK, TableInv, TypeOK
    <3> QED
      BY <3>1, <3>2, <3>4 DEF TableNext
  <2> QED
    BY <2>1, <2>2
<1>3. ASSUME NEW r \in victims, DeleteOne(r)
      PROVE  [TableNext]_tableVars
  <2>1. stmt.op = "delete" /\ DeleteRow(r)
    BY <1>3 DEF DeleteOne
  <2>2. r \in Rids
    BY <2>1 DEF RowLoops
  <2> QED
    BY <2>1, <2>2 DEF TableNext
<1>4. CASE \/ \E s \in Statements : Begin(s)
           \/ \E r \in todo : CollectOne(r) \/ SelectOne(r) \/ MatchOne(r)
           \/ Finish
           \/ UNCHANGED dmlVars
  BY <1>4 DEF Begin, CollectOne, SelectOne, MatchOne, Finish, dmlVars
<1> QED
  BY <1>1, <1>2, <1>3, <1>4 DEF DmlNext

LEMMA StepsKeepTableInv ==
  ASSUME LoopInv, [DmlNext]_dmlVars
  PROVE  TableInv'
BY StepsTable, NextInv DEF LoopInv

-----------------------------------------------------------------------------
LEMMA DmlInitInv == DmlInit => DmlInv
<1> SUFFICES ASSUME DmlInit
             PROVE  DmlInv
  OBVIOUS
<1>1. TableInv
  BY InitInv DEF DmlInit
<1>2. DOMAIN before = {}
  BY DEF DmlInit, TableInit
<1> QED
  BY <1>1, <1>2 DEF DmlInit, DmlInv, LoopInv, EffectIsHits, NoStmt, RowLoops

LEMMA BeginInv ==
  ASSUME DmlInv, NEW s \in Statements, Begin(s), TableInv'
  PROVE  DmlInv'
<1>1. /\ stmt' = s /\ todo' = LoopRange(s) /\ hits' = {} /\ victims' = {}
      /\ before' = rows /\ rows' = rows /\ nextRid' = nextRid
  BY DEF Begin, tableVars
<1>2. DOMAIN rows \subseteq Rids /\ DOMAIN rows \subseteq 1 .. (nextRid - 1)
      /\ nextRid \in Nat
  BY TableAssumption DEF DmlInv, LoopInv, TableInv, TypeOK, Rids
<1>3. /\ StatementOK(s)
      /\ s.op \in {"insert", "update", "delete", "select", "aggregate"}
  BY DmlAssumption DEF StatementOK
<1>4. CASE s.op = "insert"
  <2>1. LoopRange(s) = 1 .. Len(s.tuples) /\ Len(s.tuples) \in Nat
    BY <1>3, <1>4 DEF LoopRange, StatementOK, IsList
  <2>2. hits' = 1 .. 0 /\ todo' = (0 + 1) .. Len(s.tuples)
    BY <1>1, <2>1
  <2>3. LoopInv'
    BY <1>1, <1>2, <1>4, <2>1, <2>2 DEF LoopInv, RowLoops
  <2>4. Cardinality(hits') = 0
    BY <1>1, FS_EmptySet
  <2>5. nextRid' - 0 = nextRid /\ (nextRid - 0) .. (nextRid' - 1) = {}
    BY <1>1, <1>2
  <2>6. \A r \in DOMAIN before' : r < nextRid /\ rows'[r] = before'[r]
    BY <1>1, <1>2
  <2>7. EffectIsHits'
    BY <1>1, <1>2, <1>4, <2>2, <2>4, <2>5, <2>6 DEF EffectIsHits
  <2> QED
    BY <2>3, <2>7 DEF DmlInv
<1>5. CASE s.op # "insert"
  <2>1. LoopRange(s) \subseteq DOMAIN rows
    BY <1>5, CandidatesExist DEF LoopRange, DmlInv, LoopInv
  <2>2. LoopInv'
    BY <1>1, <1>2, <1>5, <2>1 DEF LoopInv
  <2>3. rows = [r \in DOMAIN rows |-> rows[r]]
    BY DEF DmlInv, LoopInv, TableInv, TypeOK
  <2>4. EffectIsHits'
    BY <1>1, <1>3, <1>5, <2>3 DEF EffectIsHits
  <2> QED
    BY <2>2, <2>4 DEF DmlInv
<1> QED
  BY <1>4, <1>5

\* A statement that stops, for whatever reason, leaves no loop behind.
LEMMA StopInv ==
  ASSUME DmlInv, TableInv', stmt' = NoStmt, UNCHANGED before
  PROVE  DmlInv'
BY DEF DmlInv, LoopInv, EffectIsHits, NoStmt, RowLoops

LEMMA InsertTupleInv ==
  ASSUME DmlInv, InsertTuple, TableInv'
  PROVE  DmlInv'
<1> USE DEF DmlInv
<1> DEFINE i == Min(todo)
           tuple == stmt.tuples[i]
           row == InsertedRow(stmt.cols, tuple)
<1>1. CASE Abort
  BY <1>1, StopInv DEF Abort, Reply
<1>2. CASE ~Abort
  <2>1. /\ stmt.op = "insert" /\ todo # {}
        /\ InsertRow(row) /\ reply'.ok
        /\ todo' = todo \ {i} /\ hits' = hits \cup {i}
        /\ UNCHANGED <<stmt, before>>
    BY <1>2 DEF InsertTuple, Visited
  <2>2. /\ rows' = [r \in DOMAIN rows \cup {nextRid} |->
                      IF r = nextRid THEN row ELSE rows[r]]
        /\ nextRid' = nextRid + 1
    BY <2>1 DEF InsertRow, Refuse, Result
  <2>3. StatementOK(stmt) /\ Len(stmt.tuples) \in Nat
    BY <2>1, StatementKinds DEF LoopInv, NoStmt, StatementOK, IsList
  <2>4. PICK n \in 0 .. Len(stmt.tuples) :
          hits = 1 .. n /\ todo = (n + 1) .. Len(stmt.tuples)
    BY <2>1 DEF LoopInv
  <2>5. i = n + 1 /\ n + 1 \in 0 .. Len(stmt.tuples)
    BY <2>1, <2>3, <2>4 DEF Min
  <2>6. hits' = 1 .. (n + 1) /\ todo' = (n + 1 + 1) .. Len(stmt.tuples)
    BY <2>1, <2>3, <2>4, <2>5
  <2>7. LoopInv'
    BY <2>1, <2>5, <2>6 DEF LoopInv, RowLoops
  <2>8. Cardinality(hits) = n /\ Cardinality(hits') = n + 1
    BY <2>3, <2>4, <2>6, PrefixLength
  <2>9. nextRid \in Nat
    BY DEF LoopInv, TableInv, TypeOK
  <2> DEFINE first == nextRid - n
  <2>10. /\ DOMAIN rows = DOMAIN before \cup first .. (nextRid - 1)
         /\ \A r \in DOMAIN before : r < first /\ rows[r] = before[r]
         /\ \A k \in hits : rows[first + k - 1] =
                              InsertedRow(stmt.cols, stmt.tuples[k])
    BY <2>1, <2>8 DEF EffectIsHits
  <2>11. nextRid' - Cardinality(hits') = first
    BY <2>2, <2>3, <2>8, <2>9
  <2>12. DOMAIN rows' = DOMAIN before' \cup first .. (nextRid' - 1)
    BY <2>1, <2>2, <2>3, <2>9, <2>10
  <2>13. \A r \in DOMAIN before' : r < first /\ rows'[r] = before'[r]
    <3> SUFFICES ASSUME NEW r \in DOMAIN before
                 PROVE  r < first /\ rows'[r] = before[r]
      BY <2>1
    <3>1. r \in Nat /\ r < first /\ r \in DOMAIN rows
      BY <2>10 DEF LoopInv, Rids
    <3>2. r # nextRid
      BY <3>1, <2>3, <2>9
    <3> QED
      BY <2>2, <2>10, <3>1, <3>2
  <2>14. \A k \in hits' : rows'[first + k - 1] =
                            InsertedRow(stmt'.cols, stmt'.tuples[k])
    <3> SUFFICES ASSUME NEW k \in hits'
                 PROVE  rows'[first + k - 1] = InsertedRow(stmt.cols, stmt.tuples[k])
      BY <2>1 DEF InsertedRow
    <3>1. CASE k = n + 1
      BY <2>2, <2>5, <2>9, <3>1
    <3>2. CASE k # n + 1
      <4>1. k \in hits /\ k \in 1 .. n
        BY <2>4, <2>6, <3>2
      <4>2. first + k - 1 \in first .. (nextRid - 1)
        BY <2>3, <2>9, <4>1
      <4>3. rows'[first + k - 1] = rows[first + k - 1]
        BY <2>2, <2>3, <2>9, <2>10, <4>2
      <4> QED
        BY <2>10, <4>1, <4>3
    <3> QED
      BY <3>1, <3>2
  <2>15. EffectIsHits'
    <3>1. stmt'.op = "insert" /\ hits' = 1 .. Cardinality(hits')
      BY <2>1, <2>6, <2>8
    <3> HIDE DEF first
    <3> QED BY ONLY <2>11, <2>12, <2>13, <2>14, <3>1, SMTT(30) DEF EffectIsHits
  <2> QED
    BY <2>7, <2>15
<1> QED
  BY <1>1, <1>2

-----------------------------------------------------------------------------
\* The turn of a row loop on row r, with or without a hit.
LEMMA VisitedInv ==
  ASSUME DmlInv, NEW r \in todo, stmt.op \in RowLoops,
         todo' = todo \ {r}, hits' \in {hits, hits \cup {r}},
         victims' \subseteq hits', UNCHANGED <<stmt, before>>, TableInv'
  PROVE  LoopInv'
<1>1. stmt.op # "insert"
  BY DEF RowLoops
<1> QED
  BY <1>1 DEF DmlInv, LoopInv

LEMMA UpdateOneInv ==
  ASSUME DmlInv, NEW r \in todo, UpdateOne(r), TableInv'
  PROVE  DmlInv'
<1> USE DEF DmlInv
<1>0. stmt.op = "update" /\ stmt.op \in RowLoops
  BY DEF UpdateOne, RowLoops
<1>1. CASE Abort
  BY <1>1, StopInv DEF Abort, Reply
<1>2. CASE ~Match(r).hit
  <2>1. /\ todo' = todo \ {r} /\ hits' = hits /\ victims' = victims
        /\ UNCHANGED <<stmt, before, rows>>
    BY <1>2 DEF UpdateOne, Visited, tableVars
  <2>2. LoopInv'
    BY <1>0, <2>1, VisitedInv DEF LoopInv
  <2>3. EffectIsHits'
    BY <1>0, <2>1 DEF EffectIsHits
  <2> QED
    BY <2>2, <2>3
<1>3. CASE Match(r).hit /\ ~Abort
  <2>1. /\ UpdateRow(r, UpdatedRow(rows[r], stmt.sets)) /\ reply'.ok
        /\ todo' = todo \ {r} /\ hits' = hits \cup {r} /\ victims' = victims
        /\ UNCHANGED <<stmt, before>>
    BY <1>3 DEF UpdateOne, Visited
  <2>2. LoopInv'
    BY <1>0, <2>1, VisitedInv DEF LoopInv
  <2>3. rows' = [rows EXCEPT ![r] = UpdatedRow(rows[r], stmt.sets)]
    BY <2>1 DEF UpdateRow, Refuse, Result
  <2>4. rows = [q \in DOMAIN before |->
                  IF q \in hits THEN UpdatedRow(before[q], stmt.sets) ELSE before[q]]
    BY <1>0 DEF EffectIsHits
  <2>5. r \in DOMAIN before /\ r \notin hits
    BY <1>0 DEF LoopInv
  <2>6. rows' = [q \in DOMAIN before |->
                   IF q \in hits' THEN UpdatedRow(before[q], stmt.sets) ELSE before[q]]
    BY <2>1, <2>3, <2>4, <2>5
  <2>7. EffectIsHits'
    BY <1>0, <2>1, <2>6 DEF EffectIsHits, UpdatedRow
  <2> QED
    BY <2>2, <2>7
<1> QED
  BY <1>1, <1>2, <1>3

LEMMA CollectOneInv ==
  ASSUME DmlInv, NEW r \in todo, CollectOne(r), TableInv'
  PROVE  DmlInv'
<1> USE DEF DmlInv
<1>1. /\ stmt.op = "delete" /\ stmt.op \in RowLoops
      /\ todo' = todo \ {r}
      /\ UNCHANGED <<stmt, before, rows>>
      /\ \/ hits' = hits \cup {r} /\ victims' = victims \cup {r}
         \/ hits' = hits /\ victims' = victims
  BY DEF CollectOne, Visited, tableVars, RowLoops
<1>2. victims \subseteq hits /\ r \notin hits
  BY <1>1 DEF LoopInv
<1>3. LoopInv'
  BY <1>1, <1>2, VisitedInv
<1>4. hits' \ victims' = hits \ victims
  BY <1>1, <1>2
<1>5. EffectIsHits'
  BY <1>1, <1>4 DEF EffectIsHits
<1> QED
  BY <1>3, <1>5

LEMMA DeleteOneInv ==
  ASSUME DmlInv, NEW r \in victims, DeleteOne(r), TableInv'
  PROVE  DmlInv'
<1> USE DEF DmlInv
<1>0. stmt.op = "delete" /\ stmt.op \in RowLoops
  BY DEF DeleteOne, RowLoops
<1>1. CASE Abort
  BY <1>1, StopInv DEF Abort, Reply
<1>2. CASE ~Abort
  <2>1. /\ DeleteRow(r) /\ reply'.ok
        /\ victims' = victims \ {r}
        /\ UNCHANGED <<stmt, todo, hits, before>>
    BY <1>2 DEF DeleteOne
  <2>2. rows' = [q \in DOMAIN rows \ {r} |-> rows[q]]
    BY <2>1 DEF DeleteRow, Refuse, Result
  <2>3. rows = [q \in DOMAIN before \ (hits \ victims) |-> before[q]]
    BY <1>0 DEF EffectIsHits
  <2>4. r \in hits
    BY <1>0 DEF LoopInv
  <2>5. (DOMAIN before \ (hits \ victims)) \ {r} = DOMAIN before \ (hits \ victims')
    BY <2>1, <2>4
  <2>6. rows' = [q \in DOMAIN before \ (hits \ victims') |-> before[q]]
    BY <2>2, <2>3, <2>5
  <2>7. EffectIsHits'
    <3>1. stmt'.op = "delete" /\ before' = before /\ hits' = hits
      BY <1>0, <2>1
    <3>2. rows' = [q \in DOMAIN before' \ (hits' \ victims') |-> before'[q]]
      BY <3>1, <2>6
    <3> QED
      BY <3>1, <3>2, SMTT(30) DEF EffectIsHits
  <2>8. LoopInv'
    BY <1>0, <2>1 DEF LoopInv, RowLoops
  <2> QED
    BY <2>7, <2>8
<1> QED
  BY <1>1, <1>2

LEMMA ReadOneInv ==
  ASSUME DmlInv, NEW r \in todo, SelectOne(r) \/ MatchOne(r), TableInv'
  PROVE  DmlInv'
<1> USE DEF DmlInv
<1>0. stmt.op \in {"select", "aggregate"} /\ stmt.op \in RowLoops
  BY DEF SelectOne, MatchOne, RowLoops
<1>1. CASE Abort
  BY <1>1, StopInv DEF Abort, Reply
<1>2. CASE ~Abort
  <2>1. /\ todo' = todo \ {r} /\ hits' \in {hits, hits \cup {r}}
        /\ UNCHANGED <<stmt, before, rows, victims>>
    BY <1>2 DEF SelectOne, MatchOne, Visited, tableVars
  <2>2. victims' \subseteq hits'
    BY <1>0, <2>1 DEF LoopInv
  <2>3. LoopInv'
    BY <1>0, <2>1, <2>2, VisitedInv
  <2>4. rows = before
    BY <1>0 DEF EffectIsHits
  <2>5. stmt' = stmt /\ rows' = before'
    BY <2>1, <2>4
  <2>6. EffectIsHits'
    BY <1>0, <2>5 DEF EffectIsHits
  <2> QED
    BY <2>3, <2>6
<1> QED
  BY <1>1, <1>2

LEMMA DmlNextInv ==
  ASSUME DmlInv, [DmlNext]_dmlVars
  PROVE  DmlInv'
<1>0. TableInv'
  BY StepsKeepTableInv DEF DmlInv
<1>1. ASSUME NEW s \in Statements, Begin(s)
      PROVE  DmlInv'
  BY <1>0, <1>1, BeginInv
<1>2. CASE InsertTuple
  BY <1>0, <1>2, InsertTupleInv
<1>3. ASSUME NEW r \in todo, UpdateOne(r) \/ CollectOne(r) \/ SelectOne(r) \/ MatchOne(r)
      PROVE  DmlInv'
  BY <1>0, <1>3, UpdateOneInv, CollectOneInv, ReadOneInv
<1>4. ASSUME NEW r \in victims, DeleteOne(r)
      PROVE  DmlInv'
  BY <1>0, <1>4, DeleteOneInv
<1>5. CASE Finish
  <2>1. stmt' = NoStmt /\ UNCHANGED before
    BY <1>5 DEF Finish, Reply
  <2> QED
    BY <1>0, <2>1, StopInv
<1>6. CASE UNCHANGED dmlVars
  BY <1>0, <1>6 DEF dmlVars, tableVars, DmlInv, LoopInv, EffectIsHits
<1> QED
  BY <1>1, <1>2, <1>3, <1>4, <1>5, <1>6 DEF DmlNext

\* At every moment of every statement the table is the one the statement began
\* with, patched by the turns that succeeded; so a statement that fails half
\* way leaves exactly those behind.
THEOREM PartialEffects == DmlSpec => []EffectIsHits
<1>1. DmlInit => DmlInv
  BY DmlInitInv
<1>2. DmlInv /\ [DmlNext]_dmlVars => DmlInv'
  BY DmlNextInv
<1>3. DmlInv => EffectIsHits
  BY DEF DmlInv
<1> QED
  BY <1>1, <1>2, <1>3, PTL DEF DmlSpec

\* Statement execution implements Table, so every theorem about Table holds of
\* it: the indexes mirror the rows between any two turns of any loop.
THEOREM DmlImplementsTable == DmlSpec => ImplementsTable
<1>1. DmlInit => DmlInv /\ TableInit
  BY DmlInitInv DEF DmlInit
<1>2. DmlInv /\ [DmlNext]_dmlVars => DmlInv'
  BY DmlNextInv
<1>3. DmlInv /\ [DmlNext]_dmlVars => [TableNext]_tableVars
  BY StepsTable DEF DmlInv
<1> QED
  BY <1>1, <1>2, <1>3, PTL DEF DmlSpec, ImplementsTable, TableSpec

-----------------------------------------------------------------------------
\* The clause and its rows: no row outside it is a hit, and when it can be
\* evaluated on every row, each of its rows is a hit or still to be visited and
\* the error string has stayed empty.
WhereInv ==
  stmt.op \in RowLoops =>
    /\ hits \subseteq Satisfying(stmt.where, before)
    /\ Evaluable(stmt.where, before) =>
         ~ werr /\ Satisfying(stmt.where, before) \subseteq hits \cup todo

\* What loops leave in their variables, also after the end of a statement.
ShapeInv ==
  /\ todo \subseteq Rids /\ hits \subseteq Nat /\ victims \subseteq hits
  /\ werr \in BOOLEAN

FullInv == DmlInv /\ ShapeInv /\ WhereInv

\* Choosing rows through an index loses none of the clause's rows.
LEMMA CandidatesReach ==
  ASSUME TableInv, NEW w, IsClause(w)
  PROVE  Satisfying(w, rows) \subseteq candidate_rows(w)
<1> PICK eq, sel : eq = extract_index_eq(w) /\ sel = Satisfying(w, rows)
  OBVIOUS
<1>1. Demands(eq, sel, rows)
  BY KeyIsNecessary
<1>2. sel \subseteq DOMAIN rows
  BY <1>1 DEF Demands
<1>3. CASE eq # <<>> /\ eq[1] \in Indexed
  <2>1. FindEqual(eq[1], eq[2]) = {r \in DOMAIN rows : rows[r][eq[1]] = eq[2]}
    BY <1>3, FindEqualIsScan DEF TableInv
  <2>2. sel \subseteq FindEqual(eq[1], eq[2])
    BY <1>1, <1>3, <2>1 DEF Demands
  <2> QED BY <1>2, <1>3, <2>2 DEF candidate_rows
<1>4. CASE ~ (eq # <<>> /\ eq[1] \in Indexed)
  BY <1>2, <1>4 DEF candidate_rows
<1> QED BY <1>3, <1>4

\* A row still to be visited is as it was when the statement began.
LEMMA UntouchedYet ==
  ASSUME DmlInv, NEW r \in todo, stmt.op \in RowLoops
  PROVE  r \in DOMAIN before /\ r \in DOMAIN rows /\ rows[r] = before[r] /\ r \notin hits
<1>1. r \in DOMAIN before /\ r \notin hits
  BY DEF DmlInv, LoopInv
<1>2. CASE stmt.op = "update"
  <2>1. rows = [q \in DOMAIN before |->
                  IF q \in hits THEN UpdatedRow(before[q], stmt.sets) ELSE before[q]]
    BY <1>2 DEF DmlInv, EffectIsHits
  <2> QED BY <1>1, <2>1
<1>3. CASE stmt.op = "delete"
  <2>1. rows = [q \in DOMAIN before \ (hits \ victims) |-> before[q]]
    BY <1>3 DEF DmlInv, EffectIsHits
  <2> QED BY <1>1, <2>1
<1>4. CASE stmt.op \in {"select", "aggregate"}
  <2>1. rows = before
    BY <1>4 DEF DmlInv, EffectIsHits
  <2> QED BY <1>1, <2>1
<1> QED BY <1>2, <1>3, <1>4 DEF RowLoops

LEMMA ClauseOfLoop ==
  ASSUME LoopInv, stmt.op \in RowLoops
  PROVE  IsClause(stmt.where)
<1>1. StatementOK(stmt) /\ stmt.op # "insert"
  BY StatementKinds DEF LoopInv, NoStmt, RowLoops
<1> QED BY <1>1 DEF StatementOK, RowLoops

\* What a turn finds out about its row.
LEMMA MatchTells ==
  ASSUME FullInv, NEW r \in todo, stmt.op \in RowLoops
  PROVE  /\ Match(r).err \in BOOLEAN
         /\ Match(r).hit => r \in Satisfying(stmt.where, before)
         /\ Evaluable(stmt.where, before) =>
              ~ Match(r).err /\ (r \in Satisfying(stmt.where, before) => Match(r).hit)
<1> PICK w, table, e : w = stmt.where /\ table = before /\ e = werr
  OBVIOUS
<1>1. r \in DOMAIN table /\ r \in DOMAIN rows /\ rows[r] = table[r]
  BY UntouchedYet DEF FullInv
<1>2. Match(r) = eval_where(w, table[r], e)
  BY <1>1 DEF Match
<1>3. IsClause(w) /\ e \in BOOLEAN
  BY ClauseOfLoop DEF FullInv, DmlInv, ShapeInv
<1>4. /\ eval_where(w, table[r], e).err \in BOOLEAN
      /\ eval_where(w, table[r], e).hit => r \in Satisfying(w, table)
  BY <1>1, <1>3, HitIsSelected
<1>5. ASSUME Evaluable(w, table)
      PROVE  /\ ~ eval_where(w, table[r], e).err
             /\ r \in Satisfying(w, table) => eval_where(w, table[r], e).hit
  <2>1. e = FALSE
    BY <1>3, <1>5 DEF FullInv, WhereInv
  <2>2. /\ ~ eval_where(w, table[r], FALSE).err
        /\ r \in Satisfying(w, table) => eval_where(w, table[r], FALSE).hit
    BY <1>1, <1>3, <1>5, SelectedIsHit
  <2> QED BY <2>1, <2>2
<1> QED BY <1>2, <1>4, <1>5

\* A turn on row r, as every row loop makes it.
Turn(r) ==
  /\ stmt.op \in RowLoops /\ UNCHANGED <<stmt, before>>
  /\ todo' = todo \ {r} /\ werr' = Match(r).err
  /\ \/ Match(r).hit /\ hits' = hits \cup {r}
     \/ ~ Match(r).hit /\ hits' = hits

LEMMA TurnInv ==
  ASSUME FullInv, NEW r \in todo, Turn(r), victims' \subseteq hits'
  PROVE  WhereInv' /\ ShapeInv'
<1> PICK hit, err, sel, fine : /\ hit = Match(r).hit /\ err = Match(r).err
                               /\ sel = Satisfying(stmt.where, before)
                               /\ fine = Evaluable(stmt.where, before)
  OBVIOUS
<1>1. err \in BOOLEAN /\ (hit => r \in sel) /\ (fine => ~ err /\ (r \in sel => hit))
  BY MatchTells DEF Turn
<1>2. hits \subseteq sel /\ (fine => sel \subseteq hits \cup todo)
  BY DEF FullInv, WhereInv, Turn
<1>3. /\ todo' = todo \ {r} /\ werr' = err
      /\ (hit /\ hits' = hits \cup {r}) \/ (~ hit /\ hits' = hits)
  BY DEF Turn
<1>4. hits' \subseteq sel /\ (fine => ~ werr' /\ sel \subseteq hits' \cup todo')
  BY <1>1, <1>2, <1>3
<1>5. Satisfying(stmt.where, before)' = sel /\ Evaluable(stmt.where, before)' = fine
  BY DEF Turn, Satisfying, Evaluable, LeafFails
<1>6. WhereInv'
  BY <1>4, <1>5 DEF WhereInv
<1>7. ShapeInv'
  <2>1. todo \subseteq Rids /\ hits \subseteq Nat /\ r \in Nat
    BY DEF FullInv, ShapeInv, Rids
  <2>2. todo' \subseteq Rids' /\ hits' \subseteq Nat
    BY <1>3, <2>1 DEF Rids
  <2>3. victims' \subseteq hits' /\ werr' \in BOOLEAN
    BY <1>1, <1>3
  <2> QED BY <2>2, <2>3 DEF ShapeInv
<1> QED BY <1>6, <1>7

LEMMA WhereRests ==
  ASSUME WhereInv, UNCHANGED <<stmt, todo, werr, hits, before>>
  PROVE  WhereInv'
<1> PICK sel, fine : sel = Satisfying(stmt.where, before) /\ fine = Evaluable(stmt.where, before)
  OBVIOUS
<1>1. Satisfying(stmt.where, before)' = sel /\ Evaluable(stmt.where, before)' = fine
  BY DEF Satisfying, Evaluable, LeafFails
<1> QED BY <1>1 DEF WhereInv

LEMMA StopsWell ==
  ASSUME FullInv, stmt' = NoStmt, UNCHANGED <<todo, werr, hits, victims>>
  PROVE  WhereInv' /\ ShapeInv'
BY DEF FullInv, WhereInv, ShapeInv, NoStmt, RowLoops

LEMMA RowLoopWell ==
  ASSUME FullInv, NEW r \in todo, UpdateOne(r) \/ CollectOne(r) \/ SelectOne(r) \/ MatchOne(r)
  PROVE  WhereInv' /\ ShapeInv'
<1>1. CASE Abort
  BY <1>1, StopsWell DEF Abort, Reply
<1>2. CASE ~ Abort
  <2>1. victims \subseteq hits
    BY DEF FullInv, ShapeInv
  <2>2. CASE UpdateOne(r)
    BY <1>2, <2>1, <2>2, TurnInv DEF UpdateOne, Visited, Turn, RowLoops
  <2>3. CASE CollectOne(r)
    BY <2>1, <2>3, TurnInv DEF CollectOne, Visited, Turn, RowLoops
  <2>4. CASE SelectOne(r)
    BY <1>2, <2>1, <2>4, TurnInv DEF SelectOne, Visited, Turn, RowLoops
  <2>5. CASE MatchOne(r)
    BY <2>1, <2>5, TurnInv DEF MatchOne, Visited, Turn, RowLoops
  <2> QED BY <2>2, <2>3, <2>4, <2>5
<1> QED BY <1>1, <1>2

LEMMA BeginWell ==
  ASSUME FullInv, NEW s \in Statements, Begin(s)
  PROVE  WhereInv' /\ ShapeInv'
<1>1. /\ stmt' = s /\ todo' = LoopRange(s) /\ hits' = {} /\ victims' = {}
      /\ werr' = FALSE /\ before' = rows
      /\ s.op = "insert" => nextRid + Len(s.tuples) <= MaxRid + 1
  BY DEF Begin
<1>2. /\ TableInv /\ StatementOK(s)
  BY DmlAssumption DEF FullInv, DmlInv, LoopInv
<1>3. nextRid \in 1 .. MaxRid + 1 /\ DOMAIN rows \subseteq Rids /\ MaxRid \in Nat
  BY <1>2, TableAssumption DEF TableInv, TypeOK, Rids
<1>4. LoopRange(s) \subseteq Rids
  <2>1. CASE s.op = "insert"
    <3>1. LoopRange(s) = 1 .. Len(s.tuples) /\ Len(s.tuples) \in Nat
      BY <1>2, <2>1 DEF LoopRange, StatementOK, IsList
    <3> QED BY <1>1, <1>3, <2>1, <3>1 DEF Rids
  <2>2. CASE s.op # "insert"
    BY <1>2, <1>3, <2>2, CandidatesExist DEF LoopRange
  <2> QED BY <2>1, <2>2
<1>5. ShapeInv'
  BY <1>1, <1>4 DEF ShapeInv, Rids
<1>6. ASSUME s.op \in RowLoops PROVE Satisfying(s.where, rows) \subseteq LoopRange(s)
  <2>1. IsClause(s.where) /\ s.op # "insert"
    BY <1>2, <1>6 DEF StatementOK, RowLoops
  <2>2. Satisfying(s.where, rows) \subseteq candidate_rows(s.where)
    BY <1>2, <2>1, CandidatesReach
  <2>3. candidate_rows(s.where) \subseteq DOMAIN rows
    BY <1>2, CandidatesExist
  <2> QED BY <2>1, <2>2, <2>3 DEF LoopRange
<1>7. WhereInv'
  <2>1. Satisfying(stmt.where, before)' = Satisfying(s.where, rows)
    BY <1>1 DEF Satisfying
  <2> QED BY <1>1, <1>6, <2>1 DEF WhereInv
<1> QED BY <1>5, <1>7

LEMMA FullInit == DmlInit => FullInv
<1> SUFFICES ASSUME DmlInit PROVE FullInv
  OBVIOUS
<1>1. DmlInv
  BY DmlInitInv
<1> QED BY <1>1 DEF DmlInit, FullInv, ShapeInv, WhereInv, NoStmt, RowLoops

LEMMA FullNext ==
  ASSUME FullInv, [DmlNext]_dmlVars
  PROVE  FullInv'
<1>0. DmlInv'
  BY DmlNextInv DEF FullInv
<1>1. ASSUME NEW s \in Statements, Begin(s) PROVE WhereInv' /\ ShapeInv'
  BY <1>1, BeginWell
<1>2. ASSUME InsertTuple PROVE WhereInv' /\ ShapeInv'
  <2>1. CASE Abort
    BY <2>1, StopsWell DEF Abort, Reply
  <2>2. CASE ~ Abort
    <3>1. /\ stmt.op = "insert" /\ todo # {}
          /\ stmt' = stmt /\ todo' = todo \ {Min(todo)} /\ hits' = hits \cup {Min(todo)}
          /\ werr' = werr /\ victims' = victims
      BY <1>2, <2>2 DEF InsertTuple, Visited
    <3>2. Min(todo) \in Nat
      <4>1. todo \in SUBSET Nat
        BY DEF FullInv, ShapeInv, Rids
      <4> QED BY <3>1, <4>1, MinIsLeast
    <3>3. WhereInv'
      BY <3>1 DEF WhereInv, RowLoops
    <3>4. ShapeInv'
      BY <3>1, <3>2 DEF FullInv, ShapeInv
    <3> QED BY <3>3, <3>4
  <2> QED BY <2>1, <2>2
<1>3. ASSUME NEW r \in todo, UpdateOne(r) \/ CollectOne(r) \/ SelectOne(r) \/ MatchOne(r)
      PROVE  WhereInv' /\ ShapeInv'
  BY <1>3, RowLoopWell
<1>4. ASSUME NEW r \in victims, DeleteOne(r) PROVE WhereInv' /\ ShapeInv'
  <2>1. CASE Abort
    BY <2>1, StopsWell DEF Abort, Reply
  <2>2. CASE ~ Abort
    <3>1. /\ UNCHANGED <<stmt, todo, werr, hits, before>> /\ victims' = victims \ {r}
      BY <1>4, <2>2 DEF DeleteOne
    <3>2. ShapeInv'
      BY <3>1 DEF FullInv, ShapeInv, Rids
    <3>3. WhereInv'
      BY <3>1, WhereRests DEF FullInv
    <3> QED BY <3>2, <3>3
  <2> QED BY <2>1, <2>2
<1>5. ASSUME Finish PROVE WhereInv' /\ ShapeInv'
  <2>1. stmt' = NoStmt /\ UNCHANGED <<todo, werr, hits, victims>>
    BY <1>5 DEF Finish, Reply
  <2> QED BY <2>1, StopsWell
<1>6. ASSUME UNCHANGED dmlVars PROVE WhereInv' /\ ShapeInv'
  <2>1. UNCHANGED <<stmt, todo, werr, hits, victims, before>>
    BY <1>6 DEF dmlVars
  <2>2. ShapeInv'
    BY <2>1 DEF FullInv, ShapeInv, Rids
  <2>3. WhereInv'
    BY <2>1, WhereRests DEF FullInv
  <2> QED BY <2>2, <2>3
<1>7. WhereInv' /\ ShapeInv'
  BY <1>1, <1>2, <1>3, <1>4, <1>5, <1>6 DEF DmlNext
<1> QED BY <1>0, <1>7 DEF FullInv

LEMMA FullInvariance == DmlSpec => []FullInv
<1>1. FullInv /\ [DmlNext]_dmlVars => FullInv'
  BY FullNext
<1> QED BY FullInit, <1>1, PTL DEF DmlSpec

\* The variables of a statement's loop have their types: exec_statement.
THEOREM DmlTyping == DmlSpec => []DmlTypeOK
<1>1. ASSUME FullInv PROVE DmlTypeOK
  <2>1. /\ TypeOK /\ stmt \in Statements \cup {NoStmt}
        /\ todo \subseteq Rids /\ hits \subseteq Nat /\ victims \subseteq hits /\ werr \in BOOLEAN
    BY <1>1 DEF FullInv, DmlInv, LoopInv, TableInv, ShapeInv
  <2>2. ASSUME stmt.op = "insert" PROVE todo \subseteq 1 .. Len(stmt.tuples)
    <3>1. PICK n \in 0 .. Len(stmt.tuples) : todo = (n + 1) .. Len(stmt.tuples)
      BY <1>1, <2>2 DEF FullInv, DmlInv, LoopInv
    <3>2. StatementOK(stmt)
      BY <2>1, <2>2, StatementKinds DEF NoStmt
    <3>3. Len(stmt.tuples) \in Nat
      BY <2>2, <3>2 DEF StatementOK, IsList
    <3> QED BY <3>1, <3>3
  <2> QED BY <2>1, <2>2 DEF DmlTypeOK
<1> QED BY <1>1, FullInvariance, PTL

\* No UPDATE, DELETE, SELECT or aggregate touches a row outside its clause,
\* whatever access path found the row and whatever error an earlier row left
\* in the string that is never cleared: the hits of exec_statement's loops.
THEOREM OnlyMatching == DmlSpec => []TouchesOnlyMatching
<1>1. FullInv => TouchesOnlyMatching
  BY DEF FullInv, WhereInv, TouchesOnlyMatching
<1> QED BY <1>1, FullInvariance, PTL

\* A clause that can be evaluated on every row reaches all of its rows, also
\* through an index (candidate_rows) and while UPDATE changes that index.
THEOREM AllMatching == DmlSpec => []NothingMissed
<1>1. FullInv => NothingMissed
  BY DEF FullInv, WhereInv, NothingMissed
<1> QED BY <1>1, FullInvariance, PTL
=============================================================================
