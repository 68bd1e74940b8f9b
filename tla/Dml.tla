-------------------------------- MODULE Dml --------------------------------
(***************************************************************************)
(* INSERT, UPDATE, DELETE and SELECT on one table: the corresponding       *)
(* branches of Executor::exec_statement, src/exec/executor.cpp:266-413.    *)
(*                                                                         *)
(* A statement is a loop over tuples or rows, and each turn of the loop is *)
(* a step here.  It calls the public functions of Table, so a statement    *)
(* can stop half way with the earlier turns already applied.  Rows are     *)
(* visited in any order: the order of an unordered_map, or of a B+ tree    *)
(* leaf.  Statements of one connection only; what two connections do to    *)
(* each other is the subject of Engine.                                    *)
(***************************************************************************)
EXTENDS Where, FiniteSetsExt

CONSTANTS
  Defaults,    \* Defaults[c]: DEFAULT value of column c, Null when none
  Statements   \* the parsed statements clients send

NoStmt == [op |-> "none"]

\* What the parser guarantees of a statement: lists of tuples, of column names
\* and of assignments, whose literals are cells, and a clause whose nodes name
\* earlier ones.
StatementOK(s) ==
  CASE s.op = "insert" ->
         /\ IsList(s.cols) /\ IsList(s.tuples)
         /\ \A i \in DOMAIN s.tuples :
              /\ IsList(s.tuples[i])
              /\ \A k \in DOMAIN s.tuples[i] : s.tuples[i][k] \in Cells
    [] s.op = "update" ->
         /\ IsList(s.sets) /\ \A k \in DOMAIN s.sets : s.sets[k][2] \in Cells
         /\ IsClause(s.where)
    [] OTHER -> s.op \in {"delete", "select", "aggregate"} /\ IsClause(s.where)

ASSUME DmlAssumption ==
  /\ Defaults \in [Cols -> Cells]
  /\ \A s \in Statements : StatementOK(s)

VARIABLES
  stmt,     \* the statement being executed, or NoStmt
  todo,     \* tuples (numbers) or rows (ids) the loop has still to visit
  werr,     \* the statement's error string was set by WHERE evaluation
  hits,     \* tuples inserted, rows updated or selected, rows to delete
  victims,  \* rows DELETE has selected and not yet deleted
  answer,   \* reply of the last finished statement
  before    \* history: the rows when the statement began

dmlVars == <<tableVars, stmt, todo, werr, hits, victims, answer, before>>

DmlInit ==
  /\ TableInit
  /\ stmt = NoStmt
  /\ todo = {} /\ hits = {} /\ victims = {}
  /\ werr = FALSE
  /\ answer = "none"
  /\ before = rows

-----------------------------------------------------------------------------
\* The cells a list of columns and a tuple of literals name; when a column is
\* named twice the last one wins.
Assigned(cols, tuple, c, otherwise) ==
  LET ks == {k \in DOMAIN cols : cols[k] = c}
  IN IF ks = {} THEN otherwise ELSE tuple[Max(ks)]

\* A NULL cell, given or left out, becomes the column's default.
InsertedRow(cols, tuple) ==
  [c \in Cols |-> LET v == Assigned(cols, tuple, c, Null)
                  IN IF v = Null THEN Defaults[c] ELSE v]

SetCols(sets) == [k \in DOMAIN sets |-> sets[k][1]]
SetLits(sets) == [k \in DOMAIN sets |-> sets[k][2]]
UpdatedRow(row, sets) ==
  [c \in Cols |-> Assigned(SetCols(sets), SetLits(sets), c, row[c])]

UnknownColumn(cols) == \E k \in DOMAIN cols : cols[k] \notin Cols

\* The rows the loop visits: an aggregate never asks an index.
LoopRange(s) == CASE s.op = "insert"    -> 1 .. Len(s.tuples)
                  [] s.op = "aggregate" -> DOMAIN rows
                  [] OTHER              -> candidate_rows(s.where)

Begin(s) ==
  /\ stmt = NoStmt
  /\ s.op = "insert" => nextRid + Len(s.tuples) <= MaxRid + 1
  /\ stmt' = s
  /\ todo' = LoopRange(s)
  /\ werr' = FALSE
  /\ hits' = {}
  /\ victims' = {}
  /\ before' = rows
  /\ UNCHANGED <<tableVars, answer>>

Reply(a) == stmt' = NoStmt /\ answer' = a

\* Leave the loop at once; what earlier turns did stays.
Abort ==
  /\ Reply("err")
  /\ UNCHANGED <<todo, werr, hits, victims, before>>

\* The loop's turn on tuple or row x is over.
Visited(x, hit, err) ==
  /\ todo' = todo \ {x}
  /\ hits' = IF hit THEN hits \cup {x} ELSE hits
  /\ werr' = err
  /\ UNCHANGED <<stmt, answer, before>>

InsertTuple_GoesOn == \* mutant
  /\ stmt.op = "insert" /\ todo # {}
  /\ LET i     == Min(todo)
         tuple == stmt.tuples[i]
         bad   == Len(tuple) # Len(stmt.cols) \/ UnknownColumn(stmt.cols)
     IN \/ bad /\ Abort /\ UNCHANGED tableVars
        \/ /\ ~bad
           /\ InsertRow(InsertedRow(stmt.cols, tuple))
           /\ Visited(i, reply'.ok, werr) /\ UNCHANGED victims

\* One turn of INSERT.  Width and names are checked again for every tuple.
InsertTuple ==
  /\ stmt.op = "insert" /\ todo # {}
  /\ LET i     == Min(todo)
         tuple == stmt.tuples[i]
         bad   == Len(tuple) # Len(stmt.cols) \/ UnknownColumn(stmt.cols)
     IN \/ bad /\ Abort /\ UNCHANGED tableVars
        \/ /\ ~bad
           /\ InsertRow(InsertedRow(stmt.cols, tuple))
           /\ IF ~reply'.ok THEN Abort
                                ELSE Visited(i, TRUE, werr) /\ UNCHANGED victims

Match_TrustsIndex(r) == \* mutant
  IF extract_index_eq(stmt.where) # <<>> THEN Outcome(TRUE, werr)
  ELSE eval_where(stmt.where, rows[r], werr)

\* get_row, then eval_where on the row found.
Match(r) == IF r \in DOMAIN rows THEN eval_where(stmt.where, rows[r], werr)
                                 ELSE Outcome(FALSE, werr)

UpdateOne_InPlace(r) == \* mutant
  /\ stmt.op = "update"
  /\ LET m == Match(r) IN
     \/ ~m.hit /\ Visited(r, FALSE, m.err) /\ UNCHANGED <<tableVars, victims>>
     \/ /\ m.hit /\ ~UnknownColumn(SetCols(stmt.sets))
        /\ rows' = [rows EXCEPT ![r] = UpdatedRow(rows[r], stmt.sets)]
        /\ Visited(r, TRUE, m.err) /\ UNCHANGED <<nextRid, index, reply, victims>>

\* One turn of UPDATE.  The SET list is looked at only once a row matches.
UpdateOne(r) ==
  /\ stmt.op = "update"
  /\ LET m == Match(r) IN
     \/ ~m.hit /\ Visited(r, FALSE, m.err) /\ UNCHANGED <<tableVars, victims>>
     \/ /\ m.hit /\ UnknownColumn(SetCols(stmt.sets))
        /\ Abort /\ UNCHANGED tableVars
     \/ /\ m.hit /\ ~UnknownColumn(SetCols(stmt.sets))
        /\ UpdateRow(r, UpdatedRow(rows[r], stmt.sets))
        /\ IF ~reply'.ok THEN Abort
                             ELSE Visited(r, TRUE, m.err) /\ UNCHANGED victims

\* DELETE first collects ...
CollectOne(r) ==
  /\ stmt.op = "delete"
  /\ LET m == Match(r) IN /\ Visited(r, m.hit, m.err)
                          /\ victims' = IF m.hit THEN victims \cup {r} ELSE victims
  /\ UNCHANGED tableVars

\* ... and then deletes.
DeleteOne(r) ==
  /\ stmt.op = "delete" /\ todo = {}
  /\ DeleteRow(r)
  /\ IF ~reply'.ok
       THEN Abort
       ELSE /\ victims' = victims \ {r}
            /\ UNCHANGED <<stmt, todo, werr, hits, answer, before>>

\* SELECT's list of columns; the empty list stands for *.
SelectOne(r) ==
  /\ stmt.op = "select"
  /\ LET m == Match(r) IN
     \/ m.hit /\ UnknownColumn(stmt.items) /\ Abort
     \/ /\ ~(m.hit /\ UnknownColumn(stmt.items))
        /\ Visited(r, m.hit, m.err) /\ UNCHANGED victims
  /\ UNCHANGED tableVars

MatchOne(r) ==
  /\ stmt.op = "aggregate"
  /\ LET m == Match(r) IN Visited(r, m.hit, m.err)
  /\ UNCHANGED <<tableVars, victims>>

-----------------------------------------------------------------------------
\* One item of an aggregate's select list over the matched rows.
NonNull(c) == {r \in hits : rows[r][c] # Null}
Summed(c)  == MapThenSumSet(LAMBDA r : rows[r][c].n, NonNull(c))

BadItem(it) ==
  \/ it.fn = "none"
  \/ /\ it.fn \in {"sum", "avg"}
     /\ \/ it.col \notin Cols
        \/ \E r \in NonNull(it.col) : rows[r][it.col].kind # "int"

ItemValue(it) == CASE it.fn = "count" -> Cardinality(hits)
                   [] it.fn = "sum"   -> Summed(it.col)
                   [] it.fn = "avg"   -> <<Summed(it.col), Cardinality(NonNull(it.col))>>

Finish ==
  /\ stmt # NoStmt /\ todo = {} /\ victims = {}
  /\ CASE stmt.op = "select"    -> Reply(hits)
       [] stmt.op = "aggregate" ->
            IF \E k \in DOMAIN stmt.items : BadItem(stmt.items[k])
              THEN Reply("err")
              ELSE Reply([k \in DOMAIN stmt.items |-> ItemValue(stmt.items[k])])
       [] OTHER                 -> Reply("ok")
  /\ UNCHANGED <<tableVars, todo, werr, hits, victims, before>>

DmlNext ==
  \/ \E s \in Statements : Begin(s)
  \/ InsertTuple
  \/ \E r \in todo : UpdateOne(r) \/ CollectOne(r) \/ SelectOne(r) \/ MatchOne(r)
  \/ \E r \in victims : DeleteOne(r)
  \/ Finish

DmlSpec == DmlInit /\ [][DmlNext]_dmlVars

-----------------------------------------------------------------------------
RowLoops == {"update", "delete", "select", "aggregate"}

DmlTypeOK ==
  /\ TypeOK
  /\ stmt \in Statements \cup {NoStmt}
  /\ todo \subseteq IF stmt.op = "insert" THEN 1 .. Len(stmt.tuples) ELSE Rids
  /\ hits \subseteq Nat
  /\ victims \subseteq hits
  /\ werr \in BOOLEAN

\* No statement touches, returns or counts a row its WHERE clause does not
\* select, whatever access path found the row and whatever evaluation error
\* an earlier row left behind.
TouchesOnlyMatching ==
  stmt.op \in RowLoops => hits \subseteq Satisfying(stmt.where, before)

\* A clause that can be evaluated on every row reaches all the rows it
\* selects: going through an index (candidate_rows, executor.cpp:197-209) in
\* place of a scan loses none, and UPDATE does not disturb its own loop.
NothingMissed ==
  stmt.op \in RowLoops /\ Evaluable(stmt.where, before)
    => Satisfying(stmt.where, before) \subseteq hits \cup todo

\* At every moment of a statement, so also when it stops half way with an
\* error, the rows are those it began with, patched by exactly the turns that
\* succeeded: INSERT has added a prefix of its tuples in order, UPDATE and
\* DELETE have applied the rows they report, SELECT has changed nothing.
EffectIsHits ==
  CASE stmt.op = "insert" ->
         LET n     == Cardinality(hits)
             first == nextRid - n
         IN /\ hits = 1 .. n
            /\ DOMAIN rows = DOMAIN before \cup first .. (nextRid - 1)
            /\ \A r \in DOMAIN before : r < first /\ rows[r] = before[r]
            /\ \A i \in hits : rows[first + i - 1] =
                                 InsertedRow(stmt.cols, stmt.tuples[i])
    [] stmt.op = "update" ->
         rows = [r \in DOMAIN before |->
                   IF r \in hits THEN UpdatedRow(before[r], stmt.sets)
                                 ELSE before[r]]
    [] stmt.op = "delete" ->
         rows = [r \in DOMAIN before \ (hits \ victims) |-> before[r]]
    [] stmt.op \in {"select", "aggregate"} -> rows = before
    [] stmt.op = "none" -> TRUE

\* Statement execution changes the table only through its public functions,
\* one call at a time, so whatever Table promises holds between any two turns
\* of any loop.
ImplementsTable == TableSpec
=============================================================================
